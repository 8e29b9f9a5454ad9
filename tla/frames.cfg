SPECIFICATION Spec
CONSTANTS
    FRAMES = 7
    REGION = 4
    SKEW = 0
    CACHE = 3
    PROCESSES = 1
    RUNS = {2}
INVARIANTS OneOwner MapMatchesOwners UsedIsWhatIsHeld LentIsMapped OnlyLastFrameLeaks
PROPERTIES ImplementsStore
