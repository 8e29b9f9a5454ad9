SPECIFICATION Spec
CONSTANTS
    PROCESSES_MAX = 3
    TICKS = 1
    MaxRead = 1
    LoaderReturns = TRUE
INVARIANT ZombieCanBeReaped
