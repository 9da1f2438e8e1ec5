SPECIFICATION FairLife
CONSTANTS
    Lcores = {0, 1, 2, 3, 4}
    MainLcore = 0
    Ports = {0, 1}
    MAX_QUEUES_PER_PORT = 3
    Matrices <- PlainMatrices
    Sessions <- MCSessions
    PcapMbufs = 4
    MAX_TX_LAG = 3
    Hz = 200
    MaxMaps = 3
INVARIANTS LcoresServe DevicesAreUsedWell FilesAreReplayed PaceIsKept
PROPERTIES QuitEnds
CHECK_DEADLOCK FALSE
