SPECIFICATION Spec
CONSTANTS
    U8 = 4
    U16 = 8
    U32 = 16
    U48 = 16
    U64 = 32
    U128 = 16
    ETHER_MIN_LEN = 2
    ETHER_MAX_LEN = 7
    ETHER_CRC_LEN = 1
    MIN_v6_PKT_SIZE = 4
    MAX_VLAN_ID = 6
    MAX_COS = 3
    MAX_INC = 3
    MIN_IP = 1
    MAX_IP = 4
    DEFAULT_PORT = 2
    DEFAULT_TTL = 1
    DEFAULT_TCP_SEQ_NUMBER = 1
    MAX_TCP_SEQ_NUMBER = 2
    Numbers <- MCNumbers
    Quadruples <- MCQuadruples
    FocusFields <- Fields
    MaxCommands = 3
    MaxSteps = 12
INVARIANTS ValuesStayInRange SizesFitTheType EveryValueComesAround
CHECK_DEADLOCK FALSE
