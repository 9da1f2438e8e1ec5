----------------------------- MODULE MCSettings -----------------------------
(***************************************************************************)
(* Commands and calls that reach every function once, and more of those    *)
(* that get in each other's way.                                           *)
(***************************************************************************)
EXTENDS SavedSettings

MCPcaps == {FALSE, TRUE}

Packet(type, proto, dport, ipv4) ==
    [dmac |-> 5, smac |-> 6, dst |-> 9, src |-> 8, prefix |-> 24, sport |-> 70000, dport |-> dport,
     type |-> type, proto |-> proto, ipv4 |-> ipv4, vlanid |-> 7, size |-> 100, teid |-> 3]
UdpPacket == <<"seq", "packet", <<0, Packet("ipv4", "udp", 4789, TRUE)>>>>

MCOn == {<<"enable", what>> : what \in {"range", "vlan", "qinq"}}
MCCommands == MCOn \cup
    {<<"disable", "range">>, <<"disable", "qinq">>, <<"enable", "pcap">>, <<"enable", "random">>,
     <<"set", "seq_cnt", <<0>>>>, <<"set", "seq_cnt", <<2>>>>, <<"set", "seq_cnt", <<3>>>>,
     <<"set", "size", <<64>>>>, <<"set", "size", <<1518>>>>,
     <<"set", "type", <<"ipv4">>>>, <<"set", "type", <<"ipv6">>>>, <<"set", "type", <<"arp">>>>,
     <<"set", "proto", <<"udp">>>>, <<"set", "proto", <<"icmp">>>>,
     <<"set", "dst_ip6", <<1048600>>>>,
     <<"set", "rnd", <<1, 3, "1X">>>>, <<"set", "rnd", <<1, 3, "off">>>>,
     <<"send", "start">>, <<"send", "stop">>, <<"misc", "reset">>, UdpPacket}

Table(has_flags) ==
    [dmac |-> 5, smac |-> 6, dst |-> 9, src |-> 8, prefix |-> 24, sport |-> 70, dport |-> 71,
     type |-> "ipv4", proto |-> "tcp", ipv4 |-> TRUE, vlanid |-> 7, size |-> 100, teid |-> 3,
     cos |-> 2, tos |-> 3, has_flags |-> has_flags, tcp_flags |-> <<"syn">>]

MCRare ==
    {<<"set", "count", <<5>>>>, <<"set", "size", <<300>>>>, <<"set", "rate", <<20000>>>>,
     <<"set", "rate", <<125>>>>, <<"set", "txburst", <<500>>>>, <<"set", "rxburst", <<0>>>>,
     <<"set", "sport", <<70000>>>>, <<"set", "dport", <<2152>>>>, <<"set", "prime", <<0>>>>,
     <<"set", "prime", <<9>>>>, <<"set", "vlan", <<70>>>>, <<"set", "vlan", <<5000>>>>,
     <<"set", "ttl", <<300>>>>,
     <<"set", "jitter", <<7>>>>, <<"set", "src_mac", <<11>>>>, <<"set", "dst_mac", <<12>>>>,
     <<"set", "pattern", <<"zero">>>>, <<"set", "pattern", <<"user">>>>,
     <<"set", "pattern", <<"other">>>>, <<"set", "user_pattern", <<"0xAA">>>>,
     <<"set", "dst_ip", <<301>>>>, <<"set", "src_ip6", <<1048700, 64>>>>,
     <<"set", "tcp_flags", <<<<"syn", "clr", "fin", "ack", "?">>>>>>,
     <<"set", "tcp_flags", <<<<"clr">>>>>>, <<"set", "tcp_seq", <<17>>>>,
     <<"set", "tcp_ack", <<18>>>>, <<"set", "qinqids", <<10, 11>>>>, <<"set", "cos", <<3>>>>,
     <<"set", "tos", <<260>>>>, <<"set", "vxlan", <<300, 2, 99>>>>, <<"set", "rnd", <<260, 9, "0">>>>}
    \cup {<<"set", "src_ip", <<300, 24>>>>}
    \cup {<<"enable", what>> : what \in {"mpls", "vxlan", "latency", "process", "gre", "gre_eth", "icmp", "capture", "rnd_s_ip",
                                          "rnd_s_pt", "mac_from_arp"}}
    \cup {<<"disable", what>> : what \in {"mpls", "vlan", "pcap", "random", "latency", "vxlan"}}
    \cup {<<"range", f, <<w, n>>>> : f \in R("cos", "ipv4")!Fields, w \in RangeWords, n \in {70}}
    \cup {<<"range", f, <<w, 0>>>> : f \in {"pkt_size", "dst_port", "vlan_id"}, w \in RangeWords}
    \cup {<<"range", f, <<80, 70, 90, 2>>>> : f \in {"src_ip", "dst_ip", "gtpu_teid", "pkt_size", "tcp_seq"}}
    \cup {<<"range", "type", <<"ipv6">>>>, <<"range", "proto", <<"udp">>>>,
           <<"range", "proto", <<"icmp">>>>, <<"range", "tcp_flags", <<<<"syn", "psh">>>>>>,
           <<"range", "mpls_entry", <<21>>>>, <<"range", "qinq", <<22, 23>>>>,
           <<"range", "gre_key", <<24>>>>,
           <<"seq", "packet", <<1, Packet("ipv6", "tcp", 53, TRUE)>>>>,
           <<"seq", "packet", <<1, Packet("ipv6", "tcp", 53, FALSE)>>>>,
           <<"seq", "dst", <<1, Packet("vlan", "icmp", 54, TRUE)>>>>,
           <<"seq", "dst", <<3, Packet("vlan", "icmp", 54, TRUE)>>>>,
           <<"seq", "cos", <<0, 4, 5>>>>, <<"seq", "vxlan", <<1, 8, 9, 10>>>>,
           <<"seq", "tcp", <<0, <<"urg">>>>>>,
           <<"send", "prime">>, <<"misc", "restart">>, <<"misc", "ping4">>,
           <<"latency", "rate", <<0>>>>, <<"latency", "entropy", <<9>>>>}

MCCalls ==
    {<<name, <<TRUE>>>> : name \in {"icmp_echo", "mac_from_arp", "pcap", "process", "capture", "vlan",
                                    "vxlan", "mpls", "qinq", "gre", "gre_eth", "rnd_s_ip", "rnd_s_pt",
                                    "set_range", "latency"}}
    \cup {<<name, <<>>>> : name \in {"start", "stop", "prime", "reset", "port_restart", "ping4"}}
    \cup {<<"set", <<what, 70>>>> : what \in {"count", "size", "rate", "burst", "rxburst", "sport",
                                              "dport", "ttl", "seqCnt", "prime"}}
    \cup {<<"set_mac", <<"dst", 13>>>>, <<"set_mac", <<"src", 14>>>>, <<"set_proto", <<"udp">>>>,
           <<"set_type", <<"ipv6">>>>, <<"set_tcp_flags", <<<<"rst">>>>>>,
           <<"set_ipaddr", <<"s", 1048800, 64, 6>>>>, <<"set_ipaddr", <<"d", 302, 0, 4>>>>,
           <<"jitter", <<8>>>>, <<"pattern", <<"none">>>>, <<"userPattern", <<"">>>>,
           <<"rnd", <<0, 4, "1">>>>, <<"vlanid", <<5000>>>>, <<"vlanid", <<9>>>>,
           <<"cos", <<7, 5>>>>, <<"tos", <<9>>>>, <<"vxlan_id", <<300, 1, 2>>>>,
           <<"range.mpls_entry", <<25>>>>, <<"range.gre_key", <<26>>>>,
           <<"range.qinqids", <<0, 27>>>>, <<"range.ip_proto", <<"icmp">>>>,
           <<"range.set_type", <<"ipv6">>>>, <<"gtpu_teid", <<"start", 28>>>>,
           <<"latency", <<"rate", 5>>>>, <<"latency", <<"entropy", 6>>>>,
           <<"seq", <<0, Packet("ipv4", "tcp", 55, TRUE)>>>>,
           <<"seq", <<1, Packet("ipv6", "icmp", 55, TRUE)>>>>,
           <<"seqTable", <<0, Table(TRUE)>>>>, <<"seqTable", <<1, Table(FALSE)>>>>,
           <<"seq_tcp_flags", <<1, <<"ece">>>>>>}
    \cup {<<name, <<w, 75>>>> : w \in RangeWords,
              name \in RangeNames \ {"range.mpls_entry", "range.gre_key", "range.qinqids",
                                      "range.ip_proto", "range.set_type"}}

\* The frame of the single packet, and what a sequence is filled with.
MCFrame ==
    {<<"set", "type", <<type>>>> : type \in {"ipv4", "ipv6", "arp"}}
    \cup {<<"set", "proto", <<proto>>>> : proto \in {"udp", "icmp"}}
    \cup {<<"enable", what>> : what \in {"vlan", "qinq", "mpls", "vxlan"}}
    \cup {<<"disable", "qinq">>, <<"disable", "vxlan">>, <<"set", "size", <<64>>>>,
          <<"set", "dport", <<2152>>>>, <<"set", "dst_ip6", <<1048600>>>>,
          <<"send", "start">>, <<"send", "stop">>}

ShortPacket == [Packet("ipv6", "tcp", 53, FALSE) EXCEPT !.size = 50]
MCTurns ==
    {<<"set", "seq_cnt", <<n>>>> : n \in 0 .. 3}
    \cup {<<"enable", what>> : what \in {"range", "vlan", "vxlan", "random"}}
    \cup {UdpPacket, <<"seq", "packet", <<1, Packet("ipv6", "tcp", 53, FALSE)>>>>,
          <<"seq", "packet", <<2, ShortPacket>>>>, <<"disable", "range">>,
          <<"send", "start">>, <<"send", "stop">>}

Topic(often, rare, calls, most, saves) ==
    [often |-> often, rare |-> rare, calls |-> calls, most |-> most, saves |-> saves]

MCOptions == {c \in MCRare : c[1] \in {"enable", "disable"}}

MCTopics == [
    saved |-> Topic(MCCommands, MCRare, MCCalls, 3, TRUE),
    used |-> Topic(MCCommands, MCOptions, {}, 4, FALSE),
    frame |-> Topic(MCFrame, {}, {}, 6, FALSE),
    turns |-> Topic(MCTurns, {}, {}, 7, FALSE)]
=============================================================================
