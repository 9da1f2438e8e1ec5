---------------------------- MODULE LuaBindings ----------------------------
(***************************************************************************)
(* The functions of lpktgenlib.c that scripts call to change settings, for *)
(* one port of the list of ports: what a function does to its arguments a  *)
(* before it calls one of PortSettings.  Functions that only wait, read or *)
(* display are left out.                                                   *)
(***************************************************************************)
EXTENDS PortSettings

\* pktgen.set(portlist, what, value)
pktgen_set(p, a) ==
    LET n == a[2]
    IN  CASE a[1] = "count" -> single_set_tx_count(p, n)
          [] a[1] = "size" -> single_set_pkt_size(p, n)
          [] a[1] = "rate" -> single_set_tx_rate(p, n)
          [] a[1] \in {"burst", "txburst"} -> single_set_tx_burst(p, n)
          [] a[1] = "rxburst" -> single_set_rx_burst(p, n)
          [] a[1] = "sport" -> single_set_port_value(p, "s", n)
          [] a[1] = "dport" -> single_set_port_value(p, "d", n)
          [] a[1] = "ttl" -> single_set_ttl_value(p, n)
          [] a[1] \in {"seq_cnt", "seqCnt"} -> pktgen_set_port_seqCnt(p, n)
          [] a[1] = "prime" -> pktgen_set_port_prime(p, n)

\* A packet of the sequence, as positional arguments: cos and tos are cleared.
set_seq(p, i, s) ==
    IF s.proto = "icmp" /\ s.type = "ipv6" THEN p
    ELSE pktgen_set_cos_tos_seq(pktgen_set_seq(p, i, s), i, 0, 0)

pktgen_seq(p, a) == IF a[1] >= NUM_SEQ_PKTS THEN p ELSE set_seq(p, a[1], a[2])

\* A packet as a table t.  Numbers that are missing are 0; a table without
\* tcp_flags gives tcp_flags_from_str a null pointer to copy from.
set_seqTable(p, i, t) ==
    IF t.proto = "icmp" /\ t.type = "ipv6" THEN p
    ELSE LET p1 == pktgen_set_cos_tos_seq(pktgen_set_seq(p, i, t), i, t.cos, t.tos)
         IN  IF t.has_flags THEN seq_set_tcp_flags(p1, i, t.tcp_flags)
             ELSE [p1 EXCEPT !.crashed = TRUE]

pktgen_seqTable(p, a) == IF a[1] >= NUM_SEQ_PKTS THEN p ELSE set_seqTable(p, a[1], a[2])

pktgen_seq_tcp_flags(p, a) ==
    IF a[1] >= NUM_SEQ_PKTS THEN p ELSE seq_set_tcp_flags(p, a[1], a[2])
-----------------------------------------------------------------------------
pktgen_icmp(p, a) == enable_icmp_echo(p, a[1])
pktgen_macFromArp(p, a) == enable_mac_from_arp(p, a[1])
pktgen_pcap(p, a) == enable_pcap(p, a[1])
pktgen_process(p, a) == enable_process(p, a[1])
pktgen_capture(p, a) == enable_capture(p, a[1])
single_vlan(p, a) == enable_vlan(p, a[1])
single_vxlan(p, a) == enable_vxlan(p, a[1])
pktgen_mpls(p, a) == enable_mpls(p, a[1])
pktgen_qinq(p, a) == enable_qinq(p, a[1])
pktgen_gre(p, a) == enable_gre(p, a[1])
pktgen_gre_eth(p, a) == enable_gre_eth(p, a[1])
pktgen_rnd_s_ip(p, a) == enable_rnd_s_ip(p, a[1])
pktgen_rnd_s_pt(p, a) == enable_rnd_s_pt(p, a[1])
range(p, a) == enable_range(p, a[1])

\* With three arguments the rate or the entropy of probes.
pktgen_latency(p, a) ==
    IF Len(a) = 1 THEN enable_latency(p, a[1])
    ELSE IF a[1] = "rate" THEN latency_set_rate(p, a[2])
    ELSE latency_set_entropy(p, a[2] % U16)

pktgen_start(p, a) == pktgen_start_transmitting(p)
pktgen_stop(p, a) == pktgen_stop_transmitting(p)
pktgen_prime(p, a) == pktgen_prime_ports(p)
pktgen_reset_config(p, a) == pktgen_reset(p)
pktgen_restart(p, a) == pktgen_port_restart(p)
pktgen_send_ping4(p, a) == pktgen_ping4(p)
-----------------------------------------------------------------------------
pktgen_set_mac(p, a) ==
    IF a[1] = "dst" THEN single_set_dst_mac(p, a[2]) ELSE single_set_src_mac(p, a[2])

pktgen_prototype(p, a) == single_set_proto(p, a[1])
pktgen_set_type(p, a) == single_set_pkt_type(p, a[1])
pktgen_set_tcp_flags(p, a) == single_set_tcp_flags(p, a[1])

\* The family of the address is that of its text.  (Whether a destination may
\* have a prefix depends on flags that nobody assigns; it has none.)
pktgen_set_ip_addr(p, a) == single_set_ipaddr(p, a[1], a[2], a[3], a[4])

pktgen_jitter(p, a) == single_set_jitter(p, a[1])
pktgen_pattern(p, a) == pattern_set_type(p, a[1])
pktgen_user_pattern(p, a) == pattern_set_user_pattern(p, a[1])
pktgen_rnd(p, a) == SetRnd(p, a[1], a[2], a[3])

\* Vlan ids that are none become 1.
VlanId(n) == IF n % U32 \in 1 .. MAX_VLAN_ID THEN n % U32 ELSE 1

single_vlan_id(p, a) == single_set_vlan_id(p, VlanId(a[1]))

\* The value is the third of three arguments.
single_cos(p, a) == single_set_cos(p, IF a[2] % U8 > MAX_COS THEN 0 ELSE a[2] % U8)
single_tos(p, a) == single_set_tos(p, a[1] % U8)

\* Flags and group are read into a uint8_t.
single_vxlan_id(p, a) == single_set_vxlan(p, a[1] % U8, a[2] % U8, a[3])

range_mpls_entry(p, a) == range_set_mpls_entry(p, a[1])
range_gre_key(p, a) == range_set_gre_key(p, a[1])

\* Mutant: it sets the packet that its name says.
range_qinqids_Range(p, a) == range_set_qinqids(p, VlanId(a[1]), VlanId(a[2]))

\* pktgen.range.qinqids sets the single packet.
range_qinqids(p, a) == single_set_qinqids(p, VlanId(a[1]), VlanId(a[2]))
-----------------------------------------------------------------------------
\* pktgen.range.*(portlist, word, value)
range_dst_mac(p, a) == SetRange(p, "dst_mac", a[1], a[2])
range_src_mac(p, a) == SetRange(p, "src_mac", a[1], a[2])
range_dst_ip(p, a) == SetRange(p, "dst_ip", a[1], a[2])
range_src_ip(p, a) == SetRange(p, "src_ip", a[1], a[2])
range_dst_port(p, a) == SetRange(p, "dst_port", a[1], a[2])
range_src_port(p, a) == SetRange(p, "src_port", a[1], a[2])
range_ttl(p, a) == SetRange(p, "ttl", a[1], a[2])
range_hop_limits(p, a) == SetRange(p, "ttl", a[1], a[2])
range_gtpu_teid(p, a) == SetRange(p, "gtpu_teid", a[1], a[2])
range_vlan_id(p, a) == SetRange(p, "vlan_id", a[1], a[2])
range_cos(p, a) == SetRange(p, "cos", a[1], a[2])
range_tos(p, a) == SetRange(p, "tos", a[1], a[2])
range_traffic_class(p, a) == SetRange(p, "tos", a[1], a[2])
range_pkt_size(p, a) == SetRange(p, "pkt_size", a[1], a[2])
range_ip_proto(p, a) == range_set_proto(p, a[1])
range_set_type(p, a) == range_set_pkt_type(p, a[1])

\* pktgenlib_range
LuaRange(p, name, a) ==
    CASE name = "range.dst_mac" -> range_dst_mac(p, a)
      [] name = "range.src_mac" -> range_src_mac(p, a)
      [] name = "range.set_type" -> range_set_type(p, a)
      [] name = "range.src_ip" -> range_src_ip(p, a)
      [] name = "range.dst_ip" -> range_dst_ip(p, a)
      [] name = "range.ip_proto" -> range_ip_proto(p, a)
      [] name = "range.src_port" -> range_src_port(p, a)
      [] name = "range.dst_port" -> range_dst_port(p, a)
      [] name = "range.ttl" -> range_ttl(p, a)
      [] name = "range.hop_limits" -> range_hop_limits(p, a)
      [] name = "range.vlan_id" -> range_vlan_id(p, a)
      [] name = "range.mpls_entry" -> range_mpls_entry(p, a)
      [] name = "range.qinqids" -> range_qinqids(p, a)
      [] name = "range.gre_key" -> range_gre_key(p, a)
      [] name = "range.pkt_size" -> range_pkt_size(p, a)
      [] name = "range.cos" -> range_cos(p, a)
      [] name = "range.tos" -> range_tos(p, a)
      [] name = "range.traffic_class" -> range_traffic_class(p, a)

RangeNames == {"range.dst_mac", "range.src_mac", "range.set_type", "range.src_ip", "range.dst_ip",
    "range.ip_proto", "range.src_port", "range.dst_port", "range.ttl", "range.hop_limits",
    "range.vlan_id", "range.mpls_entry", "range.qinqids", "range.gre_key", "range.pkt_size",
    "range.cos", "range.tos", "range.traffic_class"}

\* pktgenlib: pktgen.<name>(portlist, ...)
LuaCall(p, name, a) ==
    CASE name \in RangeNames -> LuaRange(p, name, a)
      [] name = "set" -> pktgen_set(p, a)
      [] name = "start" -> pktgen_start(p, a)
      [] name = "stop" -> pktgen_stop(p, a)
      [] name = "set_mac" -> pktgen_set_mac(p, a)
      [] name = "set_ipaddr" -> pktgen_set_ip_addr(p, a)
      [] name = "mac_from_arp" -> pktgen_macFromArp(p, a)
      [] name = "set_proto" -> pktgen_prototype(p, a)
      [] name = "set_type" -> pktgen_set_type(p, a)
      [] name = "set_tcp_flags" -> pktgen_set_tcp_flags(p, a)
      [] name = "ping4" -> pktgen_send_ping4(p, a)
      [] name = "pcap" -> pktgen_pcap(p, a)
      [] name = "icmp_echo" -> pktgen_icmp(p, a)
      [] name = "seq" -> pktgen_seq(p, a)
      [] name = "seqTable" -> pktgen_seqTable(p, a)
      [] name = "seq_tcp_flags" -> pktgen_seq_tcp_flags(p, a)
      [] name = "prime" -> pktgen_prime(p, a)
      [] name = "reset" -> pktgen_reset_config(p, a)
      [] name = "port_restart" -> pktgen_restart(p, a)
      [] name = "vlan" -> single_vlan(p, a)
      [] name = "vlanid" -> single_vlan_id(p, a)
      [] name = "cos" -> single_cos(p, a)
      [] name = "tos" -> single_tos(p, a)
      [] name = "vxlan" -> single_vxlan(p, a)
      [] name = "vxlan_id" -> single_vxlan_id(p, a)
      [] name = "mpls" -> pktgen_mpls(p, a)
      [] name = "qinq" -> pktgen_qinq(p, a)
      [] name = "gre" -> pktgen_gre(p, a)
      [] name = "gre_eth" -> pktgen_gre_eth(p, a)
      [] name = "rnd_s_ip" -> pktgen_rnd_s_ip(p, a)
      [] name = "rnd_s_pt" -> pktgen_rnd_s_pt(p, a)
      [] name = "set_range" -> range(p, a)
      [] name = "process" -> pktgen_process(p, a)
      [] name = "capture" -> pktgen_capture(p, a)
      [] name = "pattern" -> pktgen_pattern(p, a)
      [] name = "userPattern" -> pktgen_user_pattern(p, a)
      [] name = "latency" -> pktgen_latency(p, a)
      [] name = "jitter" -> pktgen_jitter(p, a)
      [] name = "rnd" -> pktgen_rnd(p, a)
      [] name = "gtpu_teid" -> range_gtpu_teid(p, a)
=============================================================================
