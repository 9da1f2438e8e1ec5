---------------------------- MODULE PortSettings ----------------------------
(***************************************************************************)
(* What the settings of a port are, and the functions of pktgen-cmds.c     *)
(* that change them: an operator takes the port p and returns the port     *)
(* after the call.  Commands, Lua bindings and saved files all end here.   *)
(*                                                                         *)
(* A port keeps one template per sequence packet and ones for the single,  *)
(* the special and the range packet.  An address is a number below U128,   *)
(* and V4 is the part of that memory in which an IPv4 address lies.  The   *)
(* latency template, the copies that port_info_t has of values of the      *)
(* single packet, tx_cycles and what only the display shows are left out.  *)
(***************************************************************************)
EXTENDS PacketHeaders

CONSTANTS
    U8, U32, U48, U64, U128,    \* how many values an integer type has
    ETHER_MIN_LEN, ETHER_MAX_LEN, ETHER_CRC_LEN, MIN_v6_PKT_SIZE,
    MAX_VLAN_ID, MAX_COS, MAX_INC,
    MIN_IP, MAX_IP,
    DEFAULT_PORT, DEFAULT_TTL, DEFAULT_TCP_SEQ_NUMBER, MAX_TCP_SEQ_NUMBER,
    DEFAULT_NETMASK, PORT_MAC, NEIGHBOUR_MAC,
    NUM_SEQ_PKTS,
    MAX_PKT_TX_BURST, MAX_PKT_RX_BURST, DEFAULT_PKT_BURST,
    MAX_PRIME_COUNT, MAX_RND_BITFIELDS, MAX_LATENCY_RATE, DEFAULT_LATENCY_RATE,
    RandomIP, RandomPort,            \* what the generator of rnd_s_ip and rnd_s_pt returns
    PoolSize                         \* mbufs that a start fills

\* The settings of ranges are those of RangePackets.
R(f, t) == INSTANCE RangePackets
               WITH field <- f, ethType <- t, ipProto <- "tcp", range <- 0, cur <- 0,
                    min_set <- 0, commands <- 0, stepped <- FALSE, steps <- 0, sent <- {},
                    Numbers <- {}, Quadruples <- {}, FocusFields <- {},
                    MaxCommands <- 0, MaxSteps <- 0

ASSUME SettingsAssumption ==
    /\ {U8, U16, U32, U48, U64, U128} \subseteq Nat \ {0}
    /\ {ETHER_MIN_LEN, ETHER_MAX_LEN, ETHER_CRC_LEN, MIN_v6_PKT_SIZE} \subseteq Nat
    /\ ETHER_CRC_LEN < ETHER_MIN_LEN /\ ETHER_MIN_LEN < MIN_v6_PKT_SIZE
    /\ 2 * MIN_v6_PKT_SIZE <= ETHER_MAX_LEN /\ ETHER_MAX_LEN < U16
    /\ NUM_SEQ_PKTS \in Nat \ {0} /\ PoolSize \in Nat

\* Indices of templates; FIRST_SEQ_PKT is 0.
SINGLE_PKT == NUM_SEQ_PKTS
SPECIAL_PKT == NUM_SEQ_PKTS + 1
RANGE_PKT == NUM_SEQ_PKTS + 2
Templates == 0 .. RANGE_PKT

Within(n, min, max) == IF n < min THEN min ELSE IF n > max THEN max ELSE n
SetV4(address, v4) == (address - (address % U32)) + (v4 % U32)
V4(address) == address % U32

EXCLUSIVE_MODES == {"SINGLE", "PCAP", "RANGE", "SEQ"}
EXCLUSIVE_PKT_MODES == {"RANDOM", "VLAN", "MPLS", "QINQ", "GRE", "GRE_ETHER", "VXLAN", "LATENCY"}

SetFlags(p, flags) == [p EXCEPT !.flags = @ \cup flags]
ClrFlags(p, flags) == [p EXCEPT !.flags = @ \ flags]
Flag(p, flag, on) == IF on THEN SetFlags(p, {flag}) ELSE ClrFlags(p, {flag})

SetPkt(p, i, what, value) == [p EXCEPT !.pkt[i][what] = value]

\* The template as pktgen_packet_ctor builds headers from it: with random
\* sources, whichever template it is, and with the port of VXLAN.
Prepared(p, i) ==
    LET alone == "SINGLE" \in p.flags /\ "PROCESS" \notin p.flags
        vxlan == "VXLAN" \in p.flags /\ p.pkt[i].type = "ipv4" /\ p.pkt[i].proto = "udp"
    IN  [p.pkt[i] EXCEPT !.src = IF alone /\ "RND_S_IP" \in p.flags THEN SetV4(@, RandomIP) ELSE @,
                         !.sport = IF alone /\ "RND_S_PT" \in p.flags THEN RandomPort ELSE @,
                         !.dport = IF vxlan THEN VXLAN_PORT_ID ELSE @]

pktgen_packet_ctor(p, i) ==
    LET k == Prepared(p, i)
    IN  [p EXCEPT !.pkt[i] = [k EXCEPT !.ether_hdr_size = EtherHdrSize(p.flags, k)]]

SetAndBuild(p, i, what, value) == pktgen_packet_ctor(SetPkt(p, i, what, value), i)
SetSingle(p, what, value) == SetAndBuild(p, SINGLE_PKT, what, value)
-----------------------------------------------------------------------------
(***************************************************************************)
(* Modes and options of what is sent.                                      *)
(***************************************************************************)
enable_icmp_echo(p, on) == Flag(p, "ICMP_ECHO", on)
enable_mac_from_arp(p, on) == Flag(p, "MAC_FROM_ARP", on)    \* a flag of all ports
enable_rnd_s_ip(p, on) == Flag(p, "RND_S_IP", on)
enable_rnd_s_pt(p, on) == Flag(p, "RND_S_PT", on)
enable_process(p, on) == Flag(p, "PROCESS", on)

\* There is memory for captured packets and no other port uses it.
enable_capture(p, on) == Flag(p, "CAPTURE", on)

SetMode(p, mode) == SetFlags(ClrFlags(p, EXCLUSIVE_MODES), {mode})

enable_random(p, on) ==
    IF on THEN SetFlags(SetMode(p, "SINGLE"), {"RANDOM"}) ELSE ClrFlags(p, {"RANDOM"})

enable_pcap(p, on) == IF p.pcap THEN SetMode(p, IF on THEN "PCAP" ELSE "SINGLE") ELSE p

\* Refused while packets are sent.
enable_range(p, on) ==
    IF on /\ "SENDING" \in p.flags THEN p ELSE SetMode(p, IF on THEN "RANGE" ELSE "SINGLE")

enable_latency(p, on) == Flag(p, "LATENCY", on)

\* An option replaces the others.  It asks for single packets, and leaves the
\* mode that was set before.
SetOption(p, option) == SetFlags(ClrFlags(p, EXCLUSIVE_PKT_MODES), {option, "SINGLE"})

enable_vlan(p, on) == IF on THEN SetOption(p, "VLAN") ELSE ClrFlags(p, {"VLAN"})

Option(p, option, on) ==
    pktgen_packet_ctor(IF on THEN SetOption(p, option) ELSE ClrFlags(p, {option}), SINGLE_PKT)

enable_mpls(p, on) == Option(p, "MPLS", on)
enable_gre(p, on) == Option(p, "GRE", on)
enable_gre_eth(p, on) == Option(p, "GRE_ETHER", on)
enable_qinq(p, on) == Option(IF on THEN ClrFlags(p, EXCLUSIVE_MODES) ELSE p, "QINQ", on)

enable_vxlan(p, on) ==
    pktgen_packet_ctor(IF on THEN SetFlags(ClrFlags(p, EXCLUSIVE_PKT_MODES), {"VXLAN"})
                       ELSE ClrFlags(p, {"VXLAN"}), SINGLE_PKT)

pktgen_set_port_seqCnt(p, n) ==
    LET cnt == Within(n, 0, NUM_SEQ_PKTS)
    IN  SetMode([p EXCEPT !.seqCnt = cnt], IF cnt > 0 THEN "SEQ" ELSE "SINGLE")

\* pktgen_set_random_bitfield; mask "off" stands for the empty one.  The spec
\* on its own, for an index and an offset of 8 bits.
pktgen_set_random_bitfield(rnd, idx, offset, mask) ==
    LET others == {spec \in rnd : spec[1] # idx % U8}
    IN  IF idx % U8 >= MAX_RND_BITFIELDS THEN rnd
        ELSE IF mask = "off" THEN others
        ELSE others \cup {<<idx % U8, offset % U8, mask>>}

\* "set <portlist> rnd", pktgen.rnd: bitfields are on while there is one.
SetRnd(p, idx, offset, mask) ==
    LET rnd == pktgen_set_random_bitfield(p.rnd, idx, offset, mask)
    IN  enable_random([p EXCEPT !.rnd = rnd], rnd # {})
-----------------------------------------------------------------------------
(***************************************************************************)
(* Starting and stopping.                                                  *)
(***************************************************************************)

\* What the device is asked to do, by the bits set before where nothing is said.
OffloadFlags(k) ==
    (IF k.type = "ipv4" /\ "ipv4" \in Offloads THEN {"ip_cksum", "ipv4"}
     ELSE IF k.type = "ipv6" THEN {"ip_cksum", "ipv6"} ELSE k.ol_flags)
    \cup ({k.proto} \cap {"udp", "tcp"} \cap Offloads)

\* The next mbuf is filled from template idx.
FillMbuf(p, idx) ==
    LET built == pktgen_packet_ctor(p, idx)
        k == built.pkt[idx]
        mbuf == [idx |-> idx, size |-> k.size, l2_len |-> k.ether_hdr_size,
                 ol_flags |-> OffloadFlags(k),
                 headers |-> Headers(p.flags, Prepared(p, idx), "ICMP4_TIMESTAMP")]
    IN  [built EXCEPT !.pkt[idx].ol_flags = mbuf.ol_flags, !.pool = Append(@, mbuf)]


\* The values that range packets take are the subject of RangePackets.
mempool_setup_cb(p, seq_idx) ==
    IF "SEQ" \in p.flags
    THEN FillMbuf([p EXCEPT !.seqIdx = IF @ + 1 >= p.seqCnt THEN 0 ELSE @ + 1], p.seqIdx)
    ELSE FillMbuf(p, seq_idx)

pktgen_setup_packets(p) ==
    LET idx == IF "RANGE" \in p.flags THEN RANGE_PKT
               ELSE IF "SEQ" \in p.flags THEN 0 ELSE SINGLE_PKT
        filled[n \in 0 .. PoolSize] ==
            IF n = 0 THEN [p EXCEPT !.pool = <<>>] ELSE mempool_setup_cb(filled[n - 1], idx)
    IN  IF "PCAP" \in p.flags THEN p ELSE filled[PoolSize]

pktgen_start_transmitting(p) ==
    IF "SENDING" \in p.flags THEN p ELSE SetFlags(pktgen_setup_packets(p), {"SENDING"})

pktgen_stop_transmitting(p) == ClrFlags(p, {"SENDING"})

\* What the pools hold is sent, they are not filled.
pktgen_prime_ports(p) == SetFlags(p, {"SENDING"})

\* The device is stopped and started.
pktgen_port_restart(p) == pktgen_stop_transmitting(p)

\* The request is sent by the next lcore that looks (Transmit).
pktgen_ping4(p) ==
    pktgen_packet_ctor([p EXCEPT !.pkt[SPECIAL_PKT] = [p.pkt[SINGLE_PKT] EXCEPT !.proto = "icmp"]],
                       SPECIAL_PKT)
-----------------------------------------------------------------------------
(***************************************************************************)
(* The port and its single packet.                                         *)
(***************************************************************************)
single_set_tx_count(p, n) == [p EXCEPT !.count = n % U32]

pktgen_set_port_prime(p, n) ==
    [p EXCEPT !.prime = IF n % U32 = 0 THEN 1 ELSE Within(n % U32, 1, MAX_PRIME_COUNT)]

single_set_tx_burst(p, n) == [p EXCEPT !.txburst = Within(n, 1, MAX_PKT_TX_BURST)]
single_set_rx_burst(p, n) == [p EXCEPT !.rxburst = Within(n, 1, MAX_PKT_RX_BURST)]

\* The rate is in hundredths of a percent.
single_set_tx_rate(p, n) == [p EXCEPT !.rate = Within(n, 1, 10000)]

single_set_jitter(p, n) == [p EXCEPT !.jitter = n]

latency_set_rate(p, n) ==
    [p EXCEPT !.lat_rate = IF n = 0 THEN DEFAULT_LATENCY_RATE ELSE Within(n, 1, MAX_LATENCY_RATE)]
latency_set_entropy(p, n) == [p EXCEPT !.lat_entropy = n % U16]

pattern_set_type(p, type) ==
    IF type \in {"abc", "none", "user", "zero"} THEN [p EXCEPT !.fill = type] ELSE p
pattern_set_user_pattern(p, str) == [p EXCEPT !.user_pattern = str, !.fill = "user"]

Minimum(type) == IF type = "ipv6" THEN MIN_v6_PKT_SIZE ELSE ETHER_MIN_LEN

single_set_pkt_size(p, n) ==
    SetSingle(p, "size", Within(n % U16, Minimum(p.pkt[SINGLE_PKT].type), ETHER_MAX_LEN) - ETHER_CRC_LEN)

\* Mutant: the size is not looked at.
single_set_pkt_type_KeepsSize(p, type) == SetSingle(p, "type", type)

\* The headers of IPv6 are longer: sizes move with the type, from and to IPv4.
single_set_pkt_type(p, type) ==
    LET k == p.pkt[SINGLE_PKT]
        v6 == MIN_v6_PKT_SIZE - ETHER_CRC_LEN
        size == IF k.type = "ipv6" /\ type = "ipv4" /\ k.size >= v6
                THEN ETHER_MIN_LEN + (k.size - v6)
                ELSE IF k.type = "ipv4" /\ type = "ipv6" /\ k.size < v6
                THEN MIN_v6_PKT_SIZE + (k.size - (ETHER_MIN_LEN - ETHER_CRC_LEN))
                ELSE k.size
    IN  SetSingle(SetPkt(p, SINGLE_PKT, "type", type), "size", size)

\* ICMP makes it an IPv4 packet, of the size it has.
single_set_proto(p, proto) ==
    SetSingle(SetPkt(p, SINGLE_PKT, "type", IF proto = "icmp" THEN "ipv4" ELSE p.pkt[SINGLE_PKT].type),
              "proto", proto)

single_set_port_value(p, type, n) == SetSingle(p, IF type = "d" THEN "dport" ELSE "sport", n % U16)

\* The length of the prefix comes with the source: a mask of IPv4, or kept
\* with the address.  The type of the packet follows the address.
single_set_ipaddr(p, type, address, prefix, version) ==
    LET k == p.pkt[SINGLE_PKT]
        what == IF type = "s" THEN "src" ELSE "dst"
        p1 == SetPkt(p, SINGLE_PKT, what, IF version = 4 THEN SetV4(k[what], address) ELSE address)
        p2 == IF type = "s" THEN SetPkt(p1, SINGLE_PKT, IF version = 4 THEN "mask" ELSE "prefix", prefix)
              ELSE p1
    IN  pktgen_packet_ctor(
            IF version = 4 /\ k.type \notin {"ipv4", "arp"} THEN single_set_pkt_type(p2, "ipv4")
            ELSE IF version = 6 /\ k.type # "ipv6" THEN single_set_pkt_type(p2, "ipv6")
            ELSE p2, SINGLE_PKT)

single_set_vlan_id(p, n) == SetSingle(p, "vlanid", n % U16)
single_set_cos(p, n) == SetSingle(p, "cos", n % U8)
single_set_tos(p, n) == SetSingle(p, "tos", n % U8)
single_set_ttl_value(p, n) == SetSingle(p, "ttl", n % U8)
single_set_dst_mac(p, mac) == SetSingle(p, "dmac", mac)
single_set_src_mac(p, mac) == SetSingle(p, "smac", mac)
single_set_vxlan(p, flags, group, id) == SetSingle(p, "vxlan", <<flags % U16, group % U16, id % U32>>)
single_set_qinqids(p, outer, inner) == SetSingle(p, "qinq", <<outer % U16, inner % U16>>)

\* Called range_set_*, these two set the single packet.
range_set_mpls_entry(p, n) == SetSingle(p, "mpls", n % U32)
range_set_gre_key(p, n) == SetSingle(p, "gre", n % U32)

range_set_qinqids(p, outer, inner) ==
    SetAndBuild(p, RANGE_PKT, "qinq", <<outer % U16, inner % U16>>)

single_set_tcp_seq(p, n) == SetPkt(p, SINGLE_PKT, "tcp_seq", n % U32)
single_set_tcp_ack(p, n) == SetPkt(p, SINGLE_PKT, "tcp_ack", n % U32)

TCP_FLAGS_LIST == <<"cwr", "ece", "urg", "ack", "psh", "rst", "syn", "fin">>

\* The names after the last "clr"; words that are none are skipped.
tcp_flags_from_str(words) ==
    {words[n] : n \in {m \in DOMAIN words : \A later \in m .. Len(words) : words[later] # "clr"}}
    \cap {TCP_FLAGS_LIST[n] : n \in DOMAIN TCP_FLAGS_LIST}

tcp_str_from_flags(flags) ==
    LET IsSet(name) == name \in flags
    IN  IF flags = {} THEN <<"clr">> ELSE SelectSeq(TCP_FLAGS_LIST, IsSet)

single_set_tcp_flags(p, words) == SetPkt(p, SINGLE_PKT, "tcp_flags", tcp_flags_from_str(words))
range_set_tcp_flags(p, words) ==
    SetPkt([p EXCEPT !.range_tcp_flags = tcp_flags_from_str(words)],
           RANGE_PKT, "tcp_flags", tcp_flags_from_str(words))
seq_set_tcp_flags(p, i, words) == SetPkt(p, i, "tcp_flags", tcp_flags_from_str(words))
-----------------------------------------------------------------------------
(***************************************************************************)
(* Packets of the sequence, and ranges.                                    *)
(***************************************************************************)

\* s: a record of what the command says.  The mask is that of any source; the
\* size is not limited.
pktgen_set_seq(p, i, s) ==
    LET k == p.pkt[i]
        Address(old, new) == IF s.type = "ipv4" THEN SetV4(old, new) ELSE new
    IN  pktgen_packet_ctor(
            [p EXCEPT !.pkt[i] =
                [k EXCEPT !.dmac = s.dmac, !.smac = s.smac, !.mask = s.prefix,
                          !.src = Address(@, s.src), !.dst = Address(@, s.dst),
                          !.sport = s.sport % U16, !.dport = s.dport % U16,
                          !.size = (s.size + U16 - ETHER_CRC_LEN) % U16,
                          !.proto = s.proto, !.vlanid = s.vlanid % U16, !.teid = s.teid % U32,
                          !.type = IF s.proto = "icmp" \/ s.type # "ipv6" THEN "ipv4" ELSE "ipv6"]],
            i)

pktgen_set_cos_tos_seq(p, i, cos, tos) ==
    pktgen_packet_ctor(SetPkt(SetPkt(p, i, "cos", cos % U8), i, "tos", tos % U8), i)

pktgen_set_vxlan_seq(p, i, flags, group, id) ==
    SetAndBuild(p, i, "vxlan", <<flags % U16, group % U16, id % U32>>)

\* The range_set_* functions, by the field they set.  The start of macs and
\* tunnel ids is also written to the packet.
SetRange(p, f, what, n) ==
    LET old == p.range[f]
        type == p.pkt[RANGE_PKT].type
        new == IF f \in {"src_ip", "dst_ip"} /\ type # "ipv6"
               THEN [old EXCEPT ![what] = SetV4(@, n)]
               ELSE R(f, type)!Setter(old, what, n)
        p1 == [p EXCEPT !.range[f] = new]
        Starts(part) == SetPkt(p1, RANGE_PKT, part, new.start)
    IN  CASE what = "start" /\ f = "dst_mac" -> Starts("dmac")
          [] what = "start" /\ f = "src_mac" -> Starts("smac")
          [] what = "start" /\ f = "gtpu_teid" -> Starts("teid")
          [] OTHER -> p1

range_set_proto(p, proto) ==
    LET k == p.pkt[RANGE_PKT]
    IN  [p EXCEPT !.range_proto = proto,
                  !.pkt[RANGE_PKT] = [k EXCEPT !.proto = proto,
                                               !.type = IF proto = "icmp" THEN "ipv4" ELSE @]]

range_set_pkt_type(p, type) ==
    LET Raise(n) == IF n < MIN_v6_PKT_SIZE THEN MIN_v6_PKT_SIZE ELSE n
        p1 == SetPkt(p, RANGE_PKT, "type", type)
    IN  IF type = "ipv6"
        THEN [p1 EXCEPT !.range["pkt_size"] = [@ EXCEPT !.start = Raise(@), !.min = Raise(@),
                                                        !.max = Raise(@)]]
        ELSE p1
-----------------------------------------------------------------------------
(***************************************************************************)
(* Defaults.                                                               *)
(***************************************************************************)
pktgen_port_defaults(p) ==
    [p EXCEPT !.count = 0, !.rate = 10000, !.txburst = DEFAULT_PKT_BURST,
              !.rxburst = DEFAULT_PKT_BURST, !.seqCnt = 0, !.seqIdx = 0, !.prime = 1]

DefaultPkt(k) ==
    [k EXCEPT !.size = ETHER_MIN_LEN - ETHER_CRC_LEN, !.sport = DEFAULT_PORT, !.dport = DEFAULT_PORT,
              !.ttl = DEFAULT_TTL, !.proto = "tcp", !.type = "ipv4", !.vlanid = 1, !.cos = 0,
              !.tos = 0, !.tcp_flags = {"ack"}, !.mask = DEFAULT_NETMASK,
              !.src = SetV4(@, MIN_IP), !.dst = SetV4(@, MIN_IP),
              !.smac = PORT_MAC, !.dmac = NEIGHBOUR_MAC]

pktgen_seq_defaults(p) ==
    LET done[i \in 0 .. RANGE_PKT + 1] ==
            IF i = 0 THEN p
            ELSE pktgen_packet_ctor([done[i - 1] EXCEPT !.pkt[i - 1] = DefaultPkt(@)], i - 1)
    IN  done[RANGE_PKT + 1]

\* Ranges start with what the single packet has.  Tunnel ids are kept.
pktgen_range_setup(p) ==
    LET k == p.pkt[SINGLE_PKT]
        From(f, start) == [R(f, "ipv4")!Default(f) EXCEPT !.start = start]
        Addresses(f) ==
            LET d == R(f, "ipv4")!Default(f)
            IN  [what \in DOMAIN d |-> SetV4(p.range[f][what], d[what])]
    IN  [p EXCEPT !.range =
            [f \in DOMAIN @ |->
                CASE f = "src_mac" -> From(f, k.smac)
                  [] f = "dst_mac" -> From(f, k.dmac)
                  [] f = "src_port" -> From(f, k.sport)
                  [] f = "dst_port" -> From(f, k.dport)
                  [] f = "vlan_id" -> From(f, k.vlanid)
                  [] f \in {"ttl", "cos", "tos", "tcp_seq", "tcp_ack"} -> From(f, k[f])
                  [] f = "pkt_size" -> R(f, "ipv4")!Default(f)
                  [] f = "gtpu_teid" -> @[f]
                  [] OTHER -> Addresses(f)],
                  !.range_proto = k.proto, !.range_tcp_flags = k.tcp_flags,
                  !.pkt[RANGE_PKT].size = ETHER_MIN_LEN - ETHER_CRC_LEN]

\* Options, tcp sequence numbers, labels and keys are not reset.
pktgen_reset(p) ==
    LET p1 == enable_mac_from_arp(pktgen_stop_transmitting(p), FALSE)
        p2 == pktgen_range_setup(pktgen_seq_defaults(pktgen_port_defaults(p1)))
        p3 == enable_latency(enable_range(p2, FALSE), FALSE)
    IN  pktgen_set_port_seqCnt([p3 EXCEPT !.rnd = {}], 0)

\* A port as it is allocated (allocate_port_info, initialize_port_info): zeroed
\* memory, and then the defaults.
NewPkt == [dmac |-> 0, smac |-> 0, dst |-> 0, src |-> 0, mask |-> 0, prefix |-> 0,
           sport |-> 0, dport |-> 0, proto |-> "tcp", type |-> "ipv4", size |-> 0, ttl |-> 0,
           vlanid |-> 0, cos |-> 0, tos |-> 0, tcp_flags |-> {},
           tcp_seq |-> DEFAULT_TCP_SEQ_NUMBER, tcp_ack |-> DEFAULT_TCP_SEQ_NUMBER,
           teid |-> 0, mpls |-> 0, qinq |-> <<0, 0>>, gre |-> 0, vxlan |-> <<0, 0, 0>>,
           ether_hdr_size |-> 0, ol_flags |-> {}]

LatencyDefaults(p) ==
    [p EXCEPT !.jitter = 50, !.lat_rate = DEFAULT_LATENCY_RATE, !.lat_entropy = 0]

NewPort(pcap) ==
    LET empty == [start |-> 0, min |-> 0, max |-> 0, inc |-> 0]
        p == [flags |-> {"SINGLE"}, count |-> 0, rate |-> 0, txburst |-> 0, rxburst |-> 0,
              prime |-> 0, seqCnt |-> 0, seqIdx |-> 0, fill |-> "abc", user_pattern |-> "default",
              jitter |-> 0, lat_rate |-> 0, lat_entropy |-> 0, rnd |-> {},
              pkt |-> [i \in Templates |-> NewPkt],
              range |-> [f \in R("cos", "ipv4")!Fields |-> empty],
              range_proto |-> "tcp", range_tcp_flags |-> {},
              pcap |-> pcap, pool |-> <<>>, crashed |-> FALSE]
    IN  pktgen_range_setup(pktgen_seq_defaults(pktgen_port_defaults(LatencyDefaults(p))))
=============================================================================
