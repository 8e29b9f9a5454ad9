SPECIFICATION Spec
CONSTANTS
    FRAME_SIZE = 5
    FRAMES = 4
    TAG = 2
    MEMORY_MIN_EXP = 0
    MEMORY_TOT_EXP = 4
    MEMORY_MIN_FRAMES = 2
    MEMORY_MAX_COMPLETE = 1
    Size = {1, 3}
INVARIANTS BlocksTile BlocksDisjoint FreeIsMerged ListsHoldFree BrokenOnlyByCut RegionsCounted
