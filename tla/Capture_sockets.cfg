SPECIFICATION Spec
CONSTANTS
    Ports = {"p0", "p1"}
    Sockets = {"s0", "s1"}
    Lcores = {1, 2}
    RxLcores = {1, 2}
    PortOf <- OnePortEach
    SocketOf <- OneSocketEach
    CapLen = 5
    Sizes = {1, 2}
    Burst = 2
    Settled = TRUE
    MaxPackets = 4
    MaxCommands = 3
INVARIANTS BufferIsSound SavedIsCaptured
CHECK_DEADLOCK FALSE
