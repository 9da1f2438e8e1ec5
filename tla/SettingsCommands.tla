-------------------------- MODULE SettingsCommands --------------------------
(***************************************************************************)
(* The commands of the CLI that change settings (cli-functions.c): which   *)
(* function a command calls, and what becomes of its words on the way.     *)
(*                                                                         *)
(* A command is a tuple <<name, what, arguments>>, as cli_mapping accepts  *)
(* it, for one port of the list of ports.                                  *)
(***************************************************************************)
EXTENDS PortSettings

\* "set <portlist> <what> <value>"; vlan and vlanid, burst and txburst, and
\* the three spellings of seq_cnt are one.
set_value(p, what, n) ==
    CASE what = "count" -> single_set_tx_count(p, n)
      [] what = "size" -> single_set_pkt_size(p, n)
      [] what = "rate" -> single_set_tx_rate(p, n)
      [] what = "txburst" -> single_set_tx_burst(p, n)
      [] what = "rxburst" -> single_set_rx_burst(p, n)
      [] what = "sport" -> single_set_port_value(p, "s", n)
      [] what = "dport" -> single_set_port_value(p, "d", n)
      [] what = "prime" -> pktgen_set_port_prime(p, n)
      [] what = "vlan" -> single_set_vlan_id(p, n)
      [] what = "seq_cnt" -> pktgen_set_port_seqCnt(p, n)
      [] what = "ttl" -> single_set_ttl_value(p, n)

Values == {"count", "size", "rate", "txburst", "rxburst", "sport", "dport", "prime", "vlan",
           "seq_cnt", "ttl"}

\* Anything that is no type known is one of IPv4 packets, "vlan" for one.
TypeOf(word) == IF word \in {"arp", "ipv6"} THEN word ELSE "ipv4"

\* Numbers that pass a uint16_t or uint8_t on the way lose their upper part.
set_cmd(p, what, a) ==
    CASE what \in Values -> set_value(p, what, a[1])
      [] what = "jitter" -> single_set_jitter(p, a[1])
      [] what = "type" -> single_set_pkt_type(p, TypeOf(a[1]))
      [] what = "proto" -> single_set_proto(p, a[1])
      [] what = "src_mac" -> single_set_src_mac(p, a[1])
      [] what = "dst_mac" -> single_set_dst_mac(p, a[1])
      [] what = "pattern" -> pattern_set_type(p, a[1])
      [] what = "user_pattern" -> pattern_set_user_pattern(p, a[1])
      [] what = "src_ip" -> single_set_ipaddr(p, "s", a[1], a[2], 4)
      [] what = "dst_ip" -> single_set_ipaddr(p, "d", a[1], 0, 4)
      [] what = "src_ip6" -> single_set_ipaddr(p, "s", a[1], a[2], 6)
      [] what = "dst_ip6" -> single_set_ipaddr(p, "d", a[1], 0, 6)
      [] what = "tcp_flags" -> single_set_tcp_flags(p, a[1])
      [] what = "tcp_seq" -> single_set_tcp_seq(p, a[1])
      [] what = "tcp_ack" -> single_set_tcp_ack(p, a[1])
      [] what = "qinqids" -> single_set_qinqids(p, a[1], a[2])
      [] what = "rnd" -> SetRnd(p, a[1] % U16, a[2] % U16, a[3])
      [] what = "cos" -> single_set_cos(p, a[1] % U16)
      [] what = "tos" -> single_set_tos(p, a[1] % U16)
      [] what = "vxlan" -> single_set_vxlan(p, a[1] % U16, a[2] % U16, a[3])

\* "enable <portlist> <what>", "disable <portlist> <what>"
en_dis_cmd(p, what, on) ==
    CASE what = "process" -> enable_process(p, on)
      [] what = "mpls" -> enable_mpls(p, on)
      [] what = "qinq" -> enable_qinq(p, on)
      [] what = "gre" -> enable_gre(p, on)
      [] what = "gre_eth" -> enable_gre_eth(p, on)
      [] what = "vlan" -> enable_vlan(p, on)
      [] what = "random" -> enable_random(p, on)
      [] what = "latency" -> enable_latency(p, on)
      [] what = "pcap" -> enable_pcap(p, on)
      [] what = "icmp" -> enable_icmp_echo(p, on)
      [] what = "range" -> enable_range(p, on)
      [] what = "capture" -> enable_capture(p, on)
      [] what = "vxlan" -> enable_vxlan(p, on)
      [] what = "rnd_s_ip" -> enable_rnd_s_ip(p, on)
      [] what = "rnd_s_pt" -> enable_rnd_s_pt(p, on)
      [] what = "mac_from_arp" -> enable_mac_from_arp(p, on)
-----------------------------------------------------------------------------
\* The words start, min, max and inc, alone and all at once.  A tunnel id
\* passes a uint16_t (valid_gtpu_teid), and the size that an increment gets is
\* read from the word "inc".
RangeWords == {"start", "min", "max", "inc"}

range_word(p, f, what, n) ==
    SetRange(p, f, what, IF f = "gtpu_teid" /\ what # "inc" THEN n % U16
                         ELSE IF f = "pkt_size" /\ what = "inc" THEN 0 ELSE n)

range_all(p, f, a) ==
    LET Id(n) == IF f = "gtpu_teid" THEN n % U16 ELSE n
        p1 == SetRange(p, f, "start", Id(a[1]))
        p2 == SetRange(p1, f, "min", Id(a[2]))
    IN  SetRange(SetRange(p2, f, "max", Id(a[3])), f, "inc", a[4])

\* "range <portlist> ..."; the arguments of a field are <<word, number>> or
\* four numbers.  The protocol can only be tcp or udp.
range_cmd(p, what, a) ==
    CASE what = "proto" -> IF a[1] \in {"tcp", "udp"} THEN range_set_proto(p, a[1]) ELSE p
      [] what = "type" -> range_set_pkt_type(p, TypeOf(a[1]))
      [] what = "tcp_flags" -> range_set_tcp_flags(p, a[1])
      [] what = "mpls_entry" -> range_set_mpls_entry(p, a[1])
      [] what = "qinq" -> range_set_qinqids(p, a[1], a[2])
      [] what = "gre_key" -> range_set_gre_key(p, a[1])
      [] OTHER -> IF Len(a) = 4 THEN range_all(p, what, a) ELSE range_word(p, what, a[1], a[2])
-----------------------------------------------------------------------------
\* Commands seq take IPv4 addresses only, whatever type they give to the packet
\* (the map of words has %4), and no ICMP packet of IPv6.
seq_1_set_cmd(p, i, s) ==
    IF (s.proto = "icmp" /\ s.type = "ipv6") \/ i >= NUM_SEQ_PKTS \/ ~s.ipv4 THEN p
    ELSE pktgen_set_seq(p, i, s)

\* The same with a word before each argument.
seq_2_set_cmd(p, i, s) == seq_1_set_cmd(p, i, s)

seq_3_set_cmd(p, i, cos, tos) ==
    IF i >= NUM_SEQ_PKTS THEN p ELSE pktgen_set_cos_tos_seq(p, i, cos % U32, tos % U32)

seq_4_set_cmd(p, i, flag, gid, vid) ==
    IF i >= NUM_SEQ_PKTS THEN p ELSE pktgen_set_vxlan_seq(p, i, flag, gid, vid)

seq_5_set_cmd(p, i, words) ==
    IF i >= NUM_SEQ_PKTS THEN p ELSE seq_set_tcp_flags(p, i, words)

seq_cmd(p, what, a) ==
    CASE what = "packet" -> seq_1_set_cmd(p, a[1], a[2])
      [] what = "dst" -> seq_2_set_cmd(p, a[1], a[2])
      [] what = "cos" -> seq_3_set_cmd(p, a[1], a[2], a[3])
      [] what = "vxlan" -> seq_4_set_cmd(p, a[1], a[2], a[3], a[4])
      [] what = "tcp" -> seq_5_set_cmd(p, a[1], a[2])

\* start, stop and start <portlist> prime; ARP requests are Transmit's, the
\* latency sampler is Latency's.
start_stop_cmd(p, what) ==
    CASE what = "start" -> pktgen_start_transmitting(p)
      [] what = "stop" -> pktgen_stop_transmitting(p)
      [] what = "prime" -> pktgen_prime_ports(p)

misc_cmd(p, what) ==
    CASE what = "reset" -> pktgen_reset(p)
      [] what = "restart" -> pktgen_port_restart(p)
      [] what = "ping4" -> pktgen_ping4(p)

latency_cmd(p, what, n) ==
    IF what = "rate" THEN latency_set_rate(p, n) ELSE latency_set_entropy(p, n)

Execute(p, c) ==
    CASE c[1] = "set" -> set_cmd(p, c[2], c[3])
      [] c[1] = "enable" -> en_dis_cmd(p, c[2], TRUE)
      [] c[1] = "disable" -> en_dis_cmd(p, c[2], FALSE)
      [] c[1] = "range" -> range_cmd(p, c[2], c[3])
      [] c[1] = "seq" -> seq_cmd(p, c[2], c[3])
      [] c[1] = "send" -> start_stop_cmd(p, c[2])
      [] c[1] = "misc" -> misc_cmd(p, c[2])
      [] c[1] = "latency" -> latency_cmd(p, c[2], c[3][1])
=============================================================================
