SPECIFICATION Spec
CONSTANTS
    U8 = 256
    U16 = 65536
    U32 = 1048576
    U48 = 1048576
    U64 = 1073741824
    U128 = 1073741824
    ETHER_MIN_LEN = 64
    ETHER_MAX_LEN = 1518
    ETHER_CRC_LEN = 4
    MIN_v6_PKT_SIZE = 78
    MAX_VLAN_ID = 4095
    MAX_COS = 7
    MAX_INC = 64
    MIN_IP = 257
    MAX_IP = 510
    DEFAULT_PORT = 1234
    DEFAULT_TTL = 64
    DEFAULT_TCP_SEQ_NUMBER = 305
    MAX_TCP_SEQ_NUMBER = 32767
    DEFAULT_NETMASK = 24
    PORT_MAC = 3
    NEIGHBOUR_MAC = 4
    NUM_SEQ_PKTS = 3
    MAX_PKT_TX_BURST = 256
    MAX_PKT_RX_BURST = 256
    DEFAULT_PKT_BURST = 32
    MAX_PRIME_COUNT = 4
    MAX_RND_BITFIELDS = 32
    MAX_LATENCY_RATE = 1000
    DEFAULT_LATENCY_RATE = 100
    VXLAN_PORT_ID = 4789
    PG_IPPROTO_L4_GTPU_PORT = 2152
    Offloads = {"ipv4", "udp"}
    cksum_requires_phdr = TRUE
    RandomIP = 77
    RandomPort = 78
    PoolSize = 4
    Topics <- MCTopics
    Weight = 2
    HasPcap <- MCPcaps
INVARIANTS  FilesRestoreSettings
PROPERTY SinglePacketFits
CHECK_DEADLOCK FALSE
