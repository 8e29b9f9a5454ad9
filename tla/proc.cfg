SPECIFICATION Spec
CONSTANTS
    PROCESSES_MAX = 3
    TICKS = 2
    MaxRead = 1
    LoaderReturns = TRUE
INVARIANTS TypeOK LinksConsistent ReapSparesCaller NoLostWakeup CurrentIsLive
PROPERTIES GoneOnlyByExitOrReap NoStarvation
