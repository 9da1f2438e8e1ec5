--------------------------- MODULE SavedSettings ---------------------------
(***************************************************************************)
(* Sessions of one port: commands and calls of scripts change its settings *)
(* and start it, "save" writes them to a file of commands or to a Lua      *)
(* script (pktgen-cmds.c), pktgen ends, and a new one loads the file.      *)
(*                                                                         *)
(* A file is the sequence of its parts, and a part one of lines: commands  *)
(* as SettingsCommands has them, calls as tuples <<name, arguments>>.      *)
(* Comments are left out, and so are lines that only the display obeys.    *)
(***************************************************************************)
EXTENDS SettingsCommands, LuaBindings
LOCAL INSTANCE SequencesExt

CONSTANTS
    Topics,                      \* what sessions are about, see below
    Weight,                      \* what a command that is rare, or a call, counts
    HasPcap                      \* whether the port has a PCAP file, in the cases to look at

\* A session says commands it says often, rare ones, and calls in Lua, up to
\* the weight "most", and may be saved.
ASSUME SavedAssumption ==
    /\ Weight \in Nat \ {0}
    /\ \A t \in DOMAIN Topics :
        /\ DOMAIN Topics[t] = {"often", "rare", "calls", "most", "saves"}
        /\ Topics[t].most \in Nat /\ Topics[t].saves \in BOOLEAN
    /\ HasPcap \subseteq BOOLEAN

VARIABLES
    topic,     \* what the session is about
    port,      \* the port
    file,      \* the file
    saved,     \* history: the port when it was saved
    stage,     \* "used", "saved", then "ended", then loaded as "commands" or "script"
    said,      \* weight of what was said
    asked,     \* history: the mode that was asked for last
    fill       \* history: the mode asked for, seqCnt and the options when the pools were filled

history == <<saved, asked, fill>>
vars == <<topic, port, file, stage, said, history>>
-----------------------------------------------------------------------------
(***************************************************************************)
(* pktgen_script_save                                                      *)
(***************************************************************************)
Able(p, flag) == IF flag \in p.flags THEN "enable" ELSE "disable"

script_head(p) == <<<<Able(p, "MAC_FROM_ARP"), "mac_from_arp">>>>

script_packet(p) ==
    LET k == p.pkt[SINGLE_PKT]
        v6 == k.type = "ipv6"
    IN  <<<<"set", "count", <<p.count>>>>,
          <<"set", "size", <<k.size + ETHER_CRC_LEN>>>>,
          <<"set", "rate", <<p.rate>>>>,
          <<"set", "rxburst", <<p.rxburst>>>>,
          <<"set", "txburst", <<p.txburst>>>>,
          <<"set", "sport", <<k.sport>>>>,
          <<"set", "dport", <<k.dport>>>>,
          <<"set", "prime", <<p.prime>>>>,
          <<"set", "type", <<k.type>>>>,
          <<"set", "proto", <<k.proto>>>>,
          IF v6 THEN <<"set", "dst_ip6", <<k.dst>>>> ELSE <<"set", "dst_ip", <<V4(k.dst)>>>>,
          IF v6 THEN <<"set", "src_ip6", <<k.src, k.prefix>>>>
          ELSE <<"set", "src_ip", <<V4(k.src), k.mask>>>>,
          <<"set", "tcp_flags", <<tcp_str_from_flags(k.tcp_flags)>>>>,
          <<"set", "tcp_seq", <<k.tcp_seq>>>>,
          <<"set", "tcp_ack", <<k.tcp_ack>>>>,
          <<"set", "dst_mac", <<k.dmac>>>>,
          <<"set", "src_mac", <<k.smac>>>>,
          <<"set", "vlan", <<k.vlanid>>>>,
          <<"set", "pattern", <<p.fill>>>>>>
        \o (IF p.fill = "user" /\ p.user_pattern # ""
            THEN <<<<"set", "user_pattern", <<p.user_pattern>>>>>> ELSE <<>>)

script_options(p) ==
    LET k == p.pkt[SINGLE_PKT]
    IN  <<<<"set", "jitter", <<p.jitter>>>>,
          <<Able(p, "MPLS"), "mpls">>,
          <<"range", "mpls_entry", <<k.mpls>>>>,
          <<Able(p, "QINQ"), "qinq">>,
          <<"set", "qinqids", k.qinq>>,
          <<Able(p, "GRE"), "gre">>,
          <<Able(p, "GRE_ETHER"), "gre_eth">>,
          <<Able(p, "VXLAN"), "vxlan">>,
          <<"set", "vxlan", k.vxlan>>,
          <<Able(p, "ICMP_ECHO"), "icmp">>,
          <<Able(p, "PCAP"), "pcap">>,
          <<Able(p, "RANGE"), "range">>,
          <<Able(p, "LATENCY"), "latency">>,
          <<Able(p, "PROCESS"), "process">>,
          <<Able(p, "CAPTURE"), "capture">>,
          <<Able(p, "VLAN"), "vlan">>>>

\* What files say of the range of field f; addresses are written as those of
\* IPv4, and sizes with their CRC.
Written(p, f, what) ==
    LET n == p.range[f][what]
    IN  IF f \in {"src_ip", "dst_ip"} THEN V4(n)
        ELSE IF f = "pkt_size" /\ what # "inc" THEN n + ETHER_CRC_LEN
        ELSE n

Words == <<"start", "min", "max", "inc">>

script_field(p, f) == [n \in 1 .. 4 |-> <<"range", f, <<Words[n], Written(p, f, Words[n])>>>>]

script_ranges(p) ==
    LET Field(f) == script_field(p, f)
    IN  Field("src_mac") \o Field("dst_mac") \o Field("src_ip") \o Field("dst_ip")
        \o <<<<"range", "proto", <<p.range_proto>>>>>>
        \o Field("src_port") \o Field("dst_port")
        \o <<<<"range", "tcp_flags", <<tcp_str_from_flags(p.range_tcp_flags)>>>>>>
        \o Field("tcp_seq") \o Field("tcp_ack") \o Field("ttl") \o Field("vlan_id")
        \o Field("cos") \o Field("tos")
        \o <<<<"range", "gre_key", <<p.pkt[SINGLE_PKT].gre>>>>>>
        \o Field("pkt_size")

\* A packet of the sequence, as the lines of both files describe it.
Described(k, size, mask) ==
    [dmac |-> k.dmac, smac |-> k.smac, ipv4 |-> k.type # "ipv6",
     dst |-> IF k.type = "ipv6" THEN k.dst ELSE V4(k.dst),
     src |-> IF k.type = "ipv6" THEN k.src ELSE V4(k.src),
     prefix |-> IF k.type = "ipv6" THEN k.prefix ELSE mask,
     sport |-> k.sport, dport |-> k.dport, type |-> k.type, proto |-> k.proto,
     vlanid |-> k.vlanid, size |-> size, teid |-> k.teid]

script_seqs(p) ==
    <<<<"set", "seq_cnt", <<p.seqCnt>>>>>>
    \o [n \in 1 .. p.seqCnt |->
           LET k == p.pkt[n - 1]
           IN  <<"seq", "packet", <<n - 1, Described(k, k.size + ETHER_CRC_LEN, k.mask)>>>>]

\* The active specs by their index.
Specs(p) == SetToSortSeq(p.rnd, LAMBDA s, t : s[1] < t[1])

script_rnd(p) == [n \in DOMAIN Specs(p) |-> <<"set", "rnd", Specs(p)[n]>>]

pktgen_script_save(p) ==
    <<script_head(p), script_packet(p), script_options(p), script_ranges(p), script_seqs(p),
      script_rnd(p)>>
-----------------------------------------------------------------------------
(***************************************************************************)
(* pktgen_lua_save                                                         *)
(***************************************************************************)
On(p, flag) == <<flag \in p.flags>>

lua_head(p) == <<<<"mac_from_arp", On(p, "MAC_FROM_ARP")>>>>

lua_packet(p) ==
    LET k == p.pkt[SINGLE_PKT]
        v6 == k.type = "ipv6"
    IN  <<<<"set", <<"count", p.count>>>>,
          <<"set", <<"size", k.size + ETHER_CRC_LEN>>>>,
          <<"set", <<"rate", p.rate>>>>,
          <<"set", <<"txburst", p.txburst>>>>,
          <<"set", <<"rxburst", p.rxburst>>>>,
          <<"set", <<"sport", k.sport>>>>,
          <<"set", <<"dport", k.dport>>>>,
          <<"set", <<"prime", p.prime>>>>,
          <<"set_type", <<k.type>>>>,
          <<"set_proto", <<k.proto>>>>,
          <<"set_ipaddr", <<"d", IF v6 THEN k.dst ELSE V4(k.dst), 0, IF v6 THEN 6 ELSE 4>>>>,
          <<"set_ipaddr", IF v6 THEN <<"s", k.src, k.prefix, 6>> ELSE <<"s", V4(k.src), k.mask, 4>>>>,
          <<"set_mac", <<"dst", k.dmac>>>>,
          <<"set_mac", <<"src", k.smac>>>>,
          <<"vlanid", <<k.vlanid>>>>,
          <<"pattern", <<p.fill>>>>>>
        \o (IF p.fill = "user" /\ p.user_pattern # ""
            THEN <<<<"userPattern", <<p.user_pattern>>>>>> ELSE <<>>)

lua_options(p) ==
    LET k == p.pkt[SINGLE_PKT]
    IN  <<<<"jitter", <<p.jitter>>>>,
          <<"mpls", On(p, "MPLS")>>,
          <<"range.mpls_entry", <<k.mpls>>>>,
          <<"qinq", On(p, "QINQ")>>,
          <<"range.qinqids", k.qinq>>,
          <<"gre", On(p, "GRE")>>,
          <<"gre_eth", On(p, "GRE_ETHER")>>,
          <<"range.gre_key", <<k.gre>>>>,
          <<"vxlan", On(p, "VXLAN")>>,
          <<"vxlan_id", k.vxlan>>,
          <<"icmp_echo", On(p, "ICMP_ECHO")>>,
          <<"pcap", On(p, "PCAP")>>,
          <<"set_range", On(p, "RANGE")>>,
          <<"latency", On(p, "LATENCY")>>,
          <<"process", On(p, "PROCESS")>>,
          <<"capture", On(p, "CAPTURE")>>,
          <<"vlan", On(p, "VLAN")>>>>

lua_field(p, name, f) == [n \in 1 .. 4 |-> <<name, <<Words[n], Written(p, f, Words[n])>>>>]

lua_ranges(p) ==
    lua_field(p, "range.src_mac", "src_mac") \o lua_field(p, "range.dst_mac", "dst_mac")
    \o lua_field(p, "range.src_ip", "src_ip") \o lua_field(p, "range.dst_ip", "dst_ip")
    \o <<<<"range.ip_proto", <<p.range_proto>>>>>>
    \o lua_field(p, "range.src_port", "src_port") \o lua_field(p, "range.dst_port", "dst_port")
    \o lua_field(p, "range.ttl", "ttl") \o lua_field(p, "range.vlan_id", "vlan_id")
    \o lua_field(p, "range.cos", "cos") \o lua_field(p, "range.tos", "tos")
    \o lua_field(p, "range.pkt_size", "pkt_size")

\* Tables have no cos, no tos and no tcp_flags, sizes no CRC, sources no mask.
lua_seqs(p) ==
    <<<<"set", <<"seq_cnt", p.seqCnt>>>>>>
    \o [n \in 1 .. p.seqCnt |->
           LET d == Described(p.pkt[n - 1], p.pkt[n - 1].size, U32 - 1)
           IN  <<"seqTable", <<n - 1, [w \in DOMAIN d \cup {"cos", "tos", "has_flags"} |->
                                          CASE w \in {"cos", "tos"} -> 0
                                            [] w = "has_flags" -> FALSE
                                            [] OTHER -> d[w]]>>>>]

lua_rnd(p) == [n \in DOMAIN Specs(p) |-> <<"rnd", Specs(p)[n]>>]

pktgen_lua_save(p) ==
    <<lua_head(p), lua_packet(p), lua_options(p), lua_ranges(p), lua_seqs(p), lua_rnd(p)>>
-----------------------------------------------------------------------------
\* cli_execute_cmdfile, and luaL_dofile: line by line.
Obey(p, kind, line) == IF kind = "commands" THEN Execute(p, line) ELSE LuaCall(p, line[1], line[2])

LoadedPart(p, kind, lines) ==
    LET Line(q, line) == IF q.crashed THEN q ELSE Obey(q, kind, line)
        after[n \in 0 .. Len(lines)] == IF n = 0 THEN p ELSE Line(after[n - 1], lines[n])
    IN  IF p.crashed THEN p ELSE after[Len(lines)]

Loaded(p, kind, parts) ==
    LET after[n \in 0 .. Len(parts)] ==
            IF n = 0 THEN p ELSE LoadedPart(after[n - 1], kind, parts[n])
    IN  after[Len(parts)]
-----------------------------------------------------------------------------
(***************************************************************************)
(* Sessions.                                                               *)
(***************************************************************************)
Init ==
    /\ topic \in DOMAIN Topics
    /\ \E pcap \in HasPcap : port = NewPort(pcap)
    /\ file = <<>> /\ saved = port
    /\ stage = "used" /\ said = 0
    /\ asked = "SINGLE" /\ fill = [mode |-> "NONE", cnt |-> 0, options |-> {}]

\* Which mode the user has asked for when "what" is turned on or off: the last
\* one, whatever options came in between.
AskedAfter(what, on) ==
    CASE what = "range" -> IF on /\ "SENDING" \in port.flags THEN asked
                           ELSE IF on THEN "RANGE" ELSE "SINGLE"
      [] what = "pcap" -> IF ~port.pcap THEN asked ELSE IF on THEN "PCAP" ELSE "SINGLE"
      [] what = "seq_cnt" -> IF on THEN "SEQ" ELSE "SINGLE"
      [] what \in {"random", "qinq"} -> IF on THEN "SINGLE" ELSE asked
      [] what = "reset" -> "SINGLE"
      [] OTHER -> asked

Said(c) ==
    IF c[1] \in {"enable", "disable"} THEN AskedAfter(c[2], c[1] = "enable")
    ELSE IF c[1] = "set" /\ c[2] = "seq_cnt" THEN AskedAfter("seq_cnt", c[3][1] > 0)
    ELSE IF c[1] = "set" /\ c[2] = "rnd" THEN AskedAfter("random", port'.rnd # {})
    ELSE IF c[1] = "misc" THEN AskedAfter(c[2], TRUE)
    ELSE asked

Called(call) ==
    LET name == call[1] a == call[2]
    IN  IF name \in {"pcap", "qinq"} THEN AskedAfter(name, a[1])
        ELSE IF name = "set_range" THEN AskedAfter("range", a[1])
        ELSE IF name = "set" /\ a[1] \in {"seq_cnt", "seqCnt"} THEN AskedAfter("seq_cnt", a[2] > 0)
        ELSE IF name = "rnd" THEN AskedAfter("random", port'.rnd # {})
        ELSE IF name = "reset" THEN AskedAfter("reset", TRUE)
        ELSE asked

\* A start fills the pools, unless packets are sent already.  "prime" sends
\* what they hold.
Filled(starts) ==
    fill' = IF starts /\ "SENDING" \notin port.flags
            THEN [mode |-> asked, cnt |-> port.seqCnt,
                  options |-> port.flags \cap EXCLUSIVE_PKT_MODES]
            ELSE fill

Says(weight) ==
    /\ stage = "used" /\ said + weight <= Topics[topic].most
    /\ said' = said + weight
    /\ UNCHANGED <<topic, file, stage, saved>>

Command ==
    \E c \in Topics[topic].often \cup Topics[topic].rare :
        /\ Says(IF c \in Topics[topic].rare THEN Weight ELSE 1)
        /\ port' = Obey(port, "commands", c)
        /\ asked' = Said(c) /\ Filled(c = <<"send", "start">>)

Script ==
    \E call \in Topics[topic].calls :
        /\ Says(Weight)
        /\ port' = Obey(port, "script", call)
        /\ asked' = Called(call) /\ Filled(call[1] = "start")

\* Files have one name each: what is saved last is loaded.
Save(kind) ==
    /\ stage = "used" /\ Topics[topic].saves
    /\ file' = IF kind = "commands" THEN pktgen_script_save(port) ELSE pktgen_lua_save(port)
    /\ stage' = kind /\ saved' = port
    /\ UNCHANGED <<topic, port, said, asked, fill>>

\* pktgen ends, and is started with "-f <file>": the port is new.
Load ==
    /\ stage \in {"commands", "script"}
    /\ port' = Loaded(NewPort(saved.pcap), stage, file)
    /\ stage' = IF stage = "commands" THEN "commands obeyed" ELSE "script run"
    /\ file' = <<>>
    /\ UNCHANGED <<topic, said, history>>

Next == Command \/ Script \/ (\E kind \in {"commands", "script"} : Save(kind)) \/ Load

Spec == Init /\ [][Next]_vars
-----------------------------------------------------------------------------
(***************************************************************************)
(* Properties                                                              *)
(***************************************************************************)

\* Pools are filled from the templates of the mode that was asked for last;
\* options such as vlan, that ask for single packets, do not change it (the
\* order of the tests in pktgen_setup_packets, and EXCLUSIVE_MODES).
PoolsFollowTheMode ==
    LET used == {port.pool[n].idx : n \in DOMAIN port.pool}
    IN  /\ fill.mode = "SINGLE" => used \subseteq {SINGLE_PKT}
        /\ fill.mode = "RANGE" => used \subseteq {RANGE_PKT}
        /\ fill.mode = "SEQ" => used \subseteq 0 .. NUM_SEQ_PKTS - 1

\* The packets of a sequence take turns from one mbuf to the next, and only
\* the first mbuf may get one that is not of the sequence: seqIdx is kept when
\* seqCnt shrinks (pktgen_set_port_seqCnt, mempool_setup_cb).
SequenceTakesTurns ==
    fill.mode = "SEQ" =>
        \A n \in 1 .. Len(port.pool) - 1 :
            port.pool[n + 1].idx = IF port.pool[n].idx + 1 >= fill.cnt THEN 0
                                   ELSE port.pool[n].idx + 1

\* The frame ends before its IP header does.  A packet that was made an ARP
\* packet is made one of IPv6 in the size it has, 60 bytes, and a tag of QinQ
\* leaves 38 for a header of 40 (single_set_pkt_type); pktgen_set_seq does not
\* look at the size of a packet of the sequence.
IsTooShort(mbuf) == \E n \in DOMAIN mbuf.headers :
    LET h == mbuf.headers[n]
    IN  h.name \in {"ipv4", "ipv6"} /\ h.at + SizeOf(h) > mbuf.size

\* The frames in the pools are what their headers say: whatever tags, tunnels,
\* types and sizes were set before, headers are one behind the other, carry the
\* tag that is enabled, end where the frame ends, and the device computes the
\* sums that the headers leave to it.  Two things are excepted.  Lengths of a
\* frame that is too short for its IP header wrap.  And with GRE, for which
\* pktgen_gre_hdr_ctor adds to ether_hdr_size, lengths get shorter from one
\* mbuf to the next.  The device is one that computes the sum of IPv4.
IsSound(mbuf) ==
    LET headers == mbuf.headers
        Has(names) == \E n \in DOMAIN headers : headers[n].name \in names
    IN  /\ Contiguous(headers) /\ SumsAreOfTheFrame(headers)
        /\ LengthsEndAt(headers, mbuf.size) \/ IsTooShort(mbuf)
        /\ \A tag \in {<<"vlan", "VLAN">>, <<"mpls", "MPLS">>, <<"qinq", "QINQ">>} :
              Has({tag[1]}) <=> tag[2] \in fill.options
        /\ \A n \in DOMAIN headers :
              /\ headers[n].name \in {"ipv4", "ipv6", "arp"} => headers[n].at = mbuf.l2_len
              /\ headers[n].name \in {"tcp", "udp"} =>
                    mbuf.ol_flags \cap {"tcp", "udp"} =
                        (IF headers[n].sum[1] = "all" THEN {} ELSE {headers[n].name})

FramesAreSound ==
    fill.options \cap {"GRE", "GRE_ETHER"} = {} =>
        \A n \in DOMAIN port.pool : port.pool[n].idx # RANGE_PKT => IsSound(port.pool[n])


\* The size of the single packet, which type, protocol, address and size
\* change in any order, keeps room for the headers of its type.  A packet that
\* was made an ARP packet is made one of IPv6 in the size it has.
Fits(p) ==
    LET k == p.pkt[SINGLE_PKT]
    IN  k.size + ETHER_CRC_LEN \in (IF k.type = "ipv6" THEN MIN_v6_PKT_SIZE ELSE ETHER_MIN_LEN)
                                  .. ETHER_MAX_LEN

Changed(from, to) == port.pkt[SINGLE_PKT].type = from /\ port'.pkt[SINGLE_PKT].type = to

SinglePacketFits == [][Fits(port) /\ ~Changed("arp", "ipv6") => Fits(port')]_port

\* What both kinds of file bring back into a new pktgen.
Options == {"ICMP_ECHO", "MAC_FROM_ARP", "PROCESS", "CAPTURE", "VLAN", "MPLS", "QINQ", "GRE",
            "GRE_ETHER", "VXLAN"}

SameAddresses(k, l) ==
    IF k.type = "ipv6" THEN k.dst = l.dst /\ k.src = l.src /\ k.prefix = l.prefix
    ELSE V4(k.dst) = V4(l.dst) /\ V4(k.src) = V4(l.src) /\ k.mask = l.mask

Restored(old, new) ==
    LET k == old.pkt[SINGLE_PKT]
        l == new.pkt[SINGLE_PKT]
    IN  /\ old.flags \cap Options = new.flags \cap Options
        /\ "LATENCY" \in new.flags <=> "LATENCY" \in old.flags /\ "VLAN" \notin old.flags
        /\ "RANDOM" \in new.flags <=> old.rnd # {}
        /\ \A what \in {"dmac", "smac", "sport", "dport", "proto", "size", "mpls", "gre"} :
               k[what] = l[what]
        /\ l.type = (IF k.type = "arp" /\ k.proto = "icmp" THEN "ipv4" ELSE k.type)
        /\ SameAddresses(k, l)
        /\ old.fill = "user" /\ old.user_pattern # "" => new.user_pattern = old.user_pattern
        /\ \A what \in {"count", "rate", "txburst", "rxburst", "prime", "seqCnt", "fill", "jitter",
                         "rnd"} : old[what] = new[what]
        /\ \A f \in DOMAIN old.range \ {"gtpu_teid", "tcp_seq", "tcp_ack"} :
              \A what \in {"start", "min", "max", "inc"} :
                 f # "pkt_size" \/ what # "inc" =>
                    Written(old, f, what) = Written(new, f, what)

SamePacket(k, l) ==
    /\ \A what \in {"dmac", "smac", "sport", "dport", "type", "proto", "vlanid", "size", "teid"} :
           k[what] = l[what]
    /\ SameAddresses(k, l)

\* A file of commands, loaded by a new pktgen, restores the port, its single
\* packet, its options, its ranges and the packets of its sequence.  What it
\* does not restore: a packet of IPv6 that is too short, range protocol icmp,
\* sequence packets of IPv6, their destination port under VXLAN, and the modes
\* RANGE and PCAP, which "set seq_cnt" ends, whatever the count is.
ScriptRestoresSettings ==
    stage = "commands obeyed" /\ Fits(saved) =>
        LET k == saved.pkt[SINGLE_PKT]
            l == port.pkt[SINGLE_PKT]
        IN  /\ Restored(saved, port)
            /\ \A what \in {"tcp_flags", "tcp_seq", "tcp_ack", "vlanid", "qinq", "vxlan"} :
                  k[what] = l[what]
            /\ saved.range_proto # "icmp" => port.range_proto = saved.range_proto
            /\ port.range_tcp_flags = saved.range_tcp_flags
            /\ \A f \in {"tcp_seq", "tcp_ack"} : port.range[f] = saved.range[f]
            /\ \A i \in 0 .. saved.seqCnt - 1 :
                  LET old == saved.pkt[i]
                  IN  old.type # "ipv6" /\ ~("VXLAN" \in saved.flags /\ old.proto = "udp") =>
                         SamePacket(old, port.pkt[i])

\* So does a Lua script, without tcp flags and numbers, and with ids that its
\* functions accept; but the table of a packet of the sequence has no
\* tcp_flags, and a script with one does not come to its end.
LuaRestoresSettings ==
    stage = "script run" =>
        LET k == saved.pkt[SINGLE_PKT]
            l == port.pkt[SINGLE_PKT]
        IN  /\ port.crashed <=> saved.seqCnt > 0
            /\ Fits(saved) /\ ~port.crashed => Restored(saved, port)
            /\ ~port.crashed => port.range_proto = saved.range_proto
            /\ k.vlanid \in 1 .. MAX_VLAN_ID => l.vlanid = k.vlanid
            /\ \A n \in 1 .. 2 : k.qinq[n] \in 1 .. MAX_VLAN_ID => l.qinq[n] = k.qinq[n]
            /\ \A n \in 1 .. 2 : k.vxlan[n] < U8 => l.vxlan[n] = k.vxlan[n]
            /\ l.vxlan[3] = k.vxlan[3]

\* What is saved in either form comes back.
FilesRestoreSettings == ScriptRestoresSettings /\ LuaRestoresSettings
=============================================================================
