SPECIFICATION Spec
CONSTANTS
    Commanders = {"cli", "lua"}
    TxCnt = 2
    PcapMode = TRUE
    PoolSize = 3
    RingSize = 2
    Bursts = {1, 2}
    DefaultBurst = 2
    Counts = {0, 3}
    PrimeCount = 1
    MaxConfig = 1
    MaxCommands = 3
    Settled = FALSE
INVARIANTS NothingIsUnaccounted OneBurstAfterStop
CHECK_DEADLOCK FALSE
