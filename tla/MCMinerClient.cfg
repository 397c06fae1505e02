SPECIFICATION Spec
CONSTANTS
    MaxCycle = 3
    MiningCycleDuration = 2
    ProcessingDelay = 1
    Entries = 2
    MaxRivals = 1
    MaxStops = 2
    Mishaps = {}
INVARIANT OnlyRightSubmitted
PROPERTIES
    OracleKeepsAnswering
    CatchesUp
CHECK_DEADLOCK FALSE
