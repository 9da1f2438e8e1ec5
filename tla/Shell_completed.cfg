SPECIFICATION Spec
CONSTANTS
    NbNodes = 64
    IPv4Words = {"10.0.0.1"}
    IPv6Words = {"fe80::1"}
    Commands <- MCCommands
    Paths <- MCPaths
    Parts <- MCParts
    Values <- MCValues
INVARIANTS DirectoriesAreSound OfferedIsAccepted
PROPERTY TabCompletes
CHECK_DEADLOCK FALSE
