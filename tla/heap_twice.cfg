SPECIFICATION Spec
CONSTANTS
    FRAME_SIZE = 8
    FRAMES = 4
    TAG = 2
    MEMORY_MIN_EXP = 2
    MEMORY_TOT_EXP = 2
    MEMORY_MIN_FRAMES = 2
    MEMORY_MAX_COMPLETE = 1
    Size = {2, 6}
INVARIANT NeverTwice
