SPECIFICATION FairSpec
CONSTANTS
    Commanders = {"cli"}
    TxCnt = 2
    PcapMode = FALSE
    PoolSize = 3
    RingSize = 1
    Bursts = {2}
    DefaultBurst = 2
    Counts = {0, 3}
    PrimeCount = 1
    MaxConfig = 2
    MaxCommands = 4
    Settled = TRUE
INVARIANTS NothingLost SamePacketsOnAllQueues StartedRunIsSent
PROPERTIES ImplementsContract RunsEnd
CHECK_DEADLOCK FALSE
