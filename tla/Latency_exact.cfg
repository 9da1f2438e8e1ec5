SPECIFICATION Spec
CONSTANTS
    RxCnt = 2
    RING_SIZE = 2
    MAX_LATENCY_ENTRIES = 4
    Cycles = {1, 2}
    SampleCounts = {2, 4, 5}
    Settled = TRUE
    MaxProbes = 3
    MaxCommands = 5
INVARIANTS LatenciesAreExact SampledIsWritten
PROPERTIES ProbesCountOnce
CHECK_DEADLOCK FALSE
