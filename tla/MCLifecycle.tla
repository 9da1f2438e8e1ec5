------------------------------ MODULE MCLifecycle ------------------------------
(* Options, devices and commands for Lifecycle, with ports 0 and 1. *)
EXTENDS Lifecycle, TLC

Numbers == {<<<<l>>>> : l \in 0 .. 3}
Ranges == {<<<<l, h>>>> : l, h \in 0 .. 3}
Options(lists) ==
    {[cores |-> <<c>>, port |-> p] : c \in lists, p \in {0, 1}}
    \cup {[cores |-> <<r, t>>, port |-> p] : r, t \in lists, p \in {0, 1}}

RangeOptions ==
    {[cores |-> <<r>>, port |-> p] : r \in Ranges, p \in {0, 1}}
    \cup UNION {{[cores |-> <<r, n>>, port |-> p], [cores |-> <<n, r>>, port |-> p]} :
                r \in Ranges, n \in Numbers, p \in {0, 1}}

\* "1/3", "1/3-3", "1/2-3", "2/1-3", "1-2/3", "3/2-1" and, refused, "1-2/2-3".
SlashLists == {<<<<1>>, <<3>>>>, <<<<1>>, <<3, 3>>>>, <<<<1>>, <<2, 3>>>>, <<<<2>>, <<1, 3>>>>,
               <<<<1, 2>>, <<3>>>>, <<<<3>>, <<2, 1>>>>, <<<<1, 2>>, <<2, 3>>>>}

\* Numbers and ascending or descending ranges, an lcore named more than once
\* too; lists with slashes; in between an option with three lists.
ThreeLists == [cores |-> <<<<<<1>>>>, <<<<2>>>>, <<<<3>>>>>>, port |-> 1]
PlainMatrices ==
    {<<a, b>> : a \in Options(Numbers), b \in Options(Numbers) \cup RangeOptions}
    \cup {<<a, ThreeLists>> : a \in Options(Numbers)}
    \cup {<<a>> : a \in Options(Ranges)}
    \cup {<<o>> : o \in Options(SlashLists \cup Numbers)}
    \cup {<<o, [cores |-> <<<<<<n>>>>>>, port |-> 1]>> : o \in Options(SlashLists), n \in {3, 4}}
    \cup {[k \in 1 .. 3 |-> [cores |-> <<<<<<k>>>>>>, port |-> k - 1]]}

\* Devices: plain ones, ones with few queues or odd descriptors, a virtual one
\* without limits of its MTU.
Rings(min, max, align) == [min |-> min, max |-> max, align |-> align]
Device(min_mtu, max_mtu, len, queues, capa, ring) ==
    [driver |-> "net_ixgbe", min_mtu |-> min_mtu, max_mtu |-> max_mtu, max_rx_pktlen |-> len,
     max_rx_queues |-> queues, max_tx_queues |-> 3, capa |-> capa, rss |-> {"IP", "UDP"}, vfs |-> queues = 1,
     rx_lim |-> ring, tx_lim |-> Rings(64, 4096, 32)]
Plain == Device(68, 9000, 9018, 3, {"CHECKSUM", "SCATTER", "IPV4_CKSUM"}, Rings(64, 4096, 32))
Devices == {
    Plain,
    Device(68, 1500, 1518, 1, {}, Rings(2048, 2048, 8)),
    Device(1600, 9702, 9728, 2, {"CHECKSUM", "MULTI_SEGS", "MBUF_FAST_FREE"}, Rings(32, 512, 32)),
    Device(68, 65521, 65535, 2, {"CHECKSUM"}, Rings(1, 65535, 1)),
    Device(68, 1500, 9728, 2, {"CHECKSUM"}, Rings(64, 4096, 32))}

M(matrix) == [k \in DOMAIN matrix |-> [opt |-> "m", arg |-> matrix[k]]]
Opt(o, arg) == <<[opt |-> o, arg |-> arg]>>
Two == <<[cores |-> <<<<<<1>>>>>>, port |-> 0], [cores |-> <<<<<<2>>>>, <<<<3>>>>>>, port |-> 1]>>

PCAP(swapped, lens) ==
    [valid |-> TRUE, swapped |-> swapped,
     recs |-> [k \in DOMAIN lens |-> [len |-> IF swapped THEN Ntoh(lens[k]) ELSE lens[k],
                                      data |-> k, have |-> lens[k]]]]
Files == {PCAP(TRUE, <<60, 300>>), PCAP(FALSE, <<60, 64, 1500, 70, 61>>), PCAP(FALSE, <<>>),
          [PCAP(FALSE, <<60, 64>>) EXCEPT !.recs[2].have = 0],
          [PCAP(FALSE, <<60, 64>>) EXCEPT !.recs[2].have = 8],
          [PCAP(FALSE, <<60>>) EXCEPT !.valid = FALSE]}

Session(options, info, commands) ==
    [options |-> options, info |-> info, commands |-> commands, live |-> {}, steady |-> FALSE,
     ticks |-> 0, speeds |-> [p \in Ports |-> {}], pkt_size |-> 64, burst |-> 1]
PlainPorts == [p \in Ports |-> Plain]
Cmd(what, p, arg) == [cmd |-> what, port |-> p, arg |-> arg]

Started_ == {Session(M(m), PlainPorts, <<>>) : m \in PlainMatrices}
Configured == {Session(o \o M(Two), info, <<>>) :
    o \in {<<>>, Opt("j", ""), Opt("rxd", 100) \o Opt("P", ""), Opt("h", ""), Opt("G", "") \o Opt("v", ""),
           Opt("g", [host |-> "", port |-> 7]) \o Opt("txd", 5000), Opt("f", "x") \o Opt("l", "y")},
    info \in [Ports -> Devices]}
Replayed == {Session(M(Two) \o Opt("s", [port |-> 0, file |-> g]) \o Opt("s", [port |-> p, file |-> f]),
                     PlainPorts, <<>>) : f, g \in Files, p \in {0, 1, 2}}
Restarted == {[Session(M(Two), PlainPorts,
    <<Cmd("start", p, 0), Cmd("restart", p, 0), Cmd("start", p, 0), Cmd("restart", p, 0)>>)
    EXCEPT !.live = IF p = 0 THEN {1} ELSE {2, 3}] : p \in Ports}
Paced == {[Session(M(Two), PlainPorts, c) EXCEPT !.live = IF c[1].port = 0 THEN {1} ELSE {3}, !.ticks = 7, !.steady = s,
                                                 !.speeds[c[1].port] = {0, 70400}] :
    s \in BOOLEAN,
    c \in {<<Cmd("rate", 1, 6600)>>, <<Cmd("start", 0, 0), Cmd("rate", 0, 2500), Cmd("rate", 0, 10000)>>}}
MCSessions == Started_ \cup Configured \cup Replayed \cup Restarted \cup Paced
=============================================================================
