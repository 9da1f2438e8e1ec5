SPECIFICATION FairSpec
CONSTANTS
    r1 = r1
    r2 = r2
    r3 = r3
    s1 = s1
    s2 = s2
    t1 = t1
    t2 = t2
    RxCnt = 2
    TxCnt = 2
    Split = FALSE
    RxMbufs = {r1, r2, r3}
    SpMbufs = {s1, t1}
    QueueOf <- MCQueueOf
    RxBurst = 2
    TxDescs = 1
    Kinds = {"arp", "garp", "ping"}
    InitFlags = {"PROCESS_INPUT_PKTS", "ICMP_ECHO_ENABLE_FLAG", "SENDING_PACKETS"}
    Requests = {"SEND_ARP_REQUEST", "SEND_PING4_REQUEST", "SEND_GRATUITOUS_ARP"}
    Patient = TRUE
    MaxArrivals = 2
    MaxRequests = 1
CHECK_DEADLOCK FALSE
INVARIANTS NothingIsShared RequestIsNotForgotten
PROPERTY NothingIsStuck
