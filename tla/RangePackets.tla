---------------------------- MODULE RangePackets ----------------------------
(***************************************************************************)
(* Range packets: the settings start, minimum, maximum and increment of    *)
(* the fields of a packet (the range_set_* functions of pktgen-cmds.c) and *)
(* the step that pktgen_range_ctor makes from the packet of one mbuf of a  *)
(* pool to that of the next, each field in the arithmetic of its C type.   *)
(*                                                                         *)
(* Fields are stepped independently of each other, so a behaviour is about *)
(* one field.  Sizes of types and limits are constants, in the order of    *)
(* the ones of the program.                                                *)
(***************************************************************************)
EXTENDS Naturals

CONSTANTS
    U8, U16, U32, U48, U64, U128,    \* how many values an integer type has
    ETHER_MIN_LEN, ETHER_MAX_LEN,    \* frames with their CRC (max: jumbo or not)
    ETHER_CRC_LEN,
    MIN_v6_PKT_SIZE,
    MAX_VLAN_ID, MAX_COS,
    MAX_INC,                         \* 64, the largest increment of ports and vlans
    MIN_IP, MAX_IP,                  \* addresses that end in 1 and in 254
    DEFAULT_PORT, DEFAULT_TTL, DEFAULT_TCP_SEQ_NUMBER, MAX_TCP_SEQ_NUMBER,
    Numbers, Quadruples,             \* numbers that commands contain, alone and by four
    FocusFields,                     \* the fields to look at
    MaxCommands, MaxSteps            \* bounds of commands, and of counted steps

MIN_VLAN_ID == 1
MIN_COS == 0
MIN_TOS == 0
MAX_TOS == U8 - 1

Least(a, b) == IF a < b THEN a ELSE b
Greatest(a, b) == IF a < b THEN b ELSE a

ASSUME RangeAssumption ==
    /\ {U8, U16, U32, U48, U64, U128} \subseteq Nat \ {0}
    /\ U8 <= U16 /\ U16 + U16 <= U32 /\ U32 <= U48 /\ U48 <= U64 /\ U32 <= U128
    /\ {ETHER_MIN_LEN, ETHER_MAX_LEN, ETHER_CRC_LEN, MIN_v6_PKT_SIZE} \subseteq Nat
    /\ ETHER_CRC_LEN <= ETHER_MIN_LEN /\ ETHER_MIN_LEN <= ETHER_MAX_LEN
    /\ ETHER_MIN_LEN <= MIN_v6_PKT_SIZE + ETHER_CRC_LEN
    /\ MIN_v6_PKT_SIZE + ETHER_CRC_LEN <= ETHER_MAX_LEN /\ ETHER_MAX_LEN < U16
    /\ MAX_VLAN_ID \in 1 .. U16 - 1 /\ MAX_COS \in 0 .. U8 - 1
    /\ {MIN_IP, MAX_IP} \subseteq 0 .. U32 - 1
    /\ MAX_INC \in 0 .. U16 - 1 /\ DEFAULT_PORT \in 0 .. U16 - 1
    /\ DEFAULT_TTL \in 0 .. U8 - 1 /\ MAX_TCP_SEQ_NUMBER \in 0 .. U32 - 1
    /\ DEFAULT_TCP_SEQ_NUMBER \in 0 .. MAX_TCP_SEQ_NUMBER
    /\ Numbers \subseteq Nat /\ Quadruples \subseteq Nat \X Nat \X Nat \X Nat
    /\ MaxCommands \in Nat /\ MaxSteps \in Nat

Types == {"arp", "ipv4", "ipv6"}
Protos == {"tcp", "udp", "icmp"}
TcpFields == {"tcp_seq", "tcp_ack"}
AddrFields == {"src_ip", "dst_ip"}
PortFields == {"src_port", "dst_port"}
MacFields == {"src_mac", "dst_mac"}
Fields == TcpFields \cup AddrFields \cup PortFields \cup MacFields
          \cup {"gtpu_teid", "ttl", "vlan_id", "cos", "tos", "pkt_size"}

ASSUME FocusAssumption == FocusFields \subseteq Fields

VARIABLES
    field,     \* the field this behaviour is about
    ethType, ipProto,    \* of seq_pkt[RANGE_PKT]
    range,     \* the settings of the field in range_info_t
    cur,       \* its value in seq_pkt[RANGE_PKT]
    min_set,   \* min_set[t]: the static min_*_set in the code of type t
    commands,  \* commands executed
    stepped,   \* history: the packet was stepped since the last command
    steps, sent    \* history: how often (up to MaxSteps), and the values it had

packet == <<ethType, ipProto>>
history == <<stepped, steps, sent>>
vars == <<field, packet, range, cur, min_set, commands, history>>

\* Ranges are records of their four settings.
RangeOf(start, min, max, inc) == [start |-> start, min |-> min, max |-> max, inc |-> inc]

\* How many values the memory of a field has.  Addresses of both families
\* share theirs, and so do ttl and hop_limits, tos and traffic_class.
Size(f, type) ==
    IF f \in TcpFields \cup {"gtpu_teid"} THEN U32
    ELSE IF f \in AddrFields THEN (IF type = "ipv6" THEN U128 ELSE U32)
    ELSE IF f \in PortFields \cup {"vlan_id", "pkt_size"} THEN U16
    ELSE IF f \in {"ttl", "cos", "tos"} THEN U8
    ELSE U48

\* uint16_t tcp_seq_inc, cos_inc, tos_inc
IncSize(f, type) ==
    IF f \in TcpFields \cup {"cos", "tos"} THEN U16 ELSE Size(f, type)

\* The type of the variable in which pktgen_range_ctor computes the sum.
Arithmetic(f, type) ==
    IF f \in TcpFields \cup {"gtpu_teid", "vlan_id", "cos", "tos", "pkt_size"} THEN U32
    ELSE IF f \in AddrFields THEN Size(f, type)
    ELSE IF f \in PortFields THEN (IF type = "ipv6" THEN U16 ELSE U32)
    ELSE IF f = "ttl" THEN (IF type = "ipv6" THEN U8 ELSE U16)
    ELSE U64
-----------------------------------------------------------------------------
(***************************************************************************)
(* Settings: pktgen_range_setup, and the functions range_set_*, which take *)
(* the range and return it with the setting "what" changed.                *)
(***************************************************************************)
Smallest == ETHER_MIN_LEN - ETHER_CRC_LEN
Largest == ETHER_MAX_LEN - ETHER_CRC_LEN

\* pktgen_range_setup.  The mac of the port stands for any.
Default(f) ==
    IF f \in TcpFields THEN RangeOf(DEFAULT_TCP_SEQ_NUMBER, 0, MAX_TCP_SEQ_NUMBER, 0)
    ELSE IF f = "src_ip" THEN RangeOf(MIN_IP, MIN_IP, MAX_IP, 0)
    ELSE IF f = "dst_ip" THEN RangeOf(MIN_IP, MIN_IP, MAX_IP, 1 % U32)
    ELSE IF f \in PortFields THEN RangeOf(DEFAULT_PORT, 0, U16 - 1, 1 % U16)
    ELSE IF f = "ttl" THEN RangeOf(DEFAULT_TTL, 0, U8 - 1, 0)
    ELSE IF f = "vlan_id" THEN RangeOf(MIN_VLAN_ID, MIN_VLAN_ID, MAX_VLAN_ID, 0)
    ELSE IF f = "cos" THEN RangeOf(0, 0, MAX_COS, 0)
    ELSE IF f = "tos" THEN RangeOf(0, 0, MAX_TOS, 0)
    ELSE IF f = "pkt_size" THEN RangeOf(Smallest, Smallest, Largest, 0)
    ELSE IF f \in MacFields THEN RangeOf(U48 - 1, 0, 0, 0)
    ELSE RangeOf(0, 0, 0, 0)

Put(r, what, value) == [r EXCEPT ![what] = value]

range_set_tcp_seq(r, what, n) == Put(r, what, n % (IF what = "inc" THEN U16 ELSE U32))

range_set_tcp_ack(r, what, n) == Put(r, what, n % (IF what = "inc" THEN U16 ELSE U32))

range_set_dest_mac(r, what, n) == Put(r, what, n % U48)

range_set_src_mac(r, what, n) == Put(r, what, n % U48)

range_set_src_ip(r, what, n) == Put(r, what, n % Size("src_ip", ethType))

range_set_dst_ip(r, what, n) == Put(r, what, n % Size("dst_ip", ethType))

range_set_src_port(r, what, n) ==
    Put(r, what, IF what = "inc" THEN Least(n % U16, MAX_INC) ELSE n % U16)

range_set_dst_port(r, what, n) ==
    Put(r, what, IF what = "inc" THEN Least(n % U16, MAX_INC) ELSE n % U16)

\* An increment of 0 is not taken.
range_set_gtpu_teid(r, what, n) ==
    IF what = "inc" /\ n % U32 = 0 THEN r ELSE Put(r, what, n % U32)

range_set_ttl(r, what, n) == Put(r, what, n % U8)

range_set_hop_limits(r, what, n) == Put(r, what, n % U8)

range_set_vlan_id(r, what, n) ==
    LET id == n % U16
    IN  Put(r, what, IF what = "inc" THEN Least(id, MAX_INC)
                     ELSE IF id \in MIN_VLAN_ID .. MAX_VLAN_ID THEN id ELSE MIN_VLAN_ID)

range_set_tos_id(r, what, n) == Put(r, what, n % U8)

range_set_traffic_class(r, what, n) == Put(r, what, n % U8)

range_set_cos_id(r, what, n) ==
    Put(r, what, IF what = "inc" THEN Least(n % U8, MAX_COS) ELSE n % U8)

\* Mutant: the size is not kept at that of the smallest IPv6 packet.
range_set_pkt_size_No6(r, what, n) ==
    LET size == Least(Greatest(n % U16, ETHER_MIN_LEN), ETHER_MAX_LEN)
    IN  Put(r, what, IF what = "inc" THEN n % U16 ELSE size - ETHER_CRC_LEN)
\* Without jumbo frames the increment has no limit.
range_set_pkt_size(r, what, n) ==
    LET size == Least(Greatest(n % U16, ETHER_MIN_LEN), ETHER_MAX_LEN)
        v6 == IF ethType = "ipv6" THEN Greatest(size, MIN_v6_PKT_SIZE) ELSE size
    IN  Put(r, what, IF what = "inc" THEN n % U16 ELSE v6 - ETHER_CRC_LEN)

\* The function that sets an address, a port or a number of TCP.
AddressSetter(r, what, n) ==
    IF field = "tcp_seq" THEN range_set_tcp_seq(r, what, n)
    ELSE IF field = "tcp_ack" THEN range_set_tcp_ack(r, what, n)
    ELSE IF field = "dst_mac" THEN range_set_dest_mac(r, what, n)
    ELSE IF field = "src_mac" THEN range_set_src_mac(r, what, n)
    ELSE IF field = "src_ip" THEN range_set_src_ip(r, what, n)
    ELSE IF field = "dst_ip" THEN range_set_dst_ip(r, what, n)
    ELSE IF field = "src_port" THEN range_set_src_port(r, what, n)
    ELSE range_set_dst_port(r, what, n)

\* The function that sets the field, whatever it is.
Setter(r, what, n) ==
    IF field = "gtpu_teid" THEN range_set_gtpu_teid(r, what, n)
    ELSE IF field = "vlan_id" THEN range_set_vlan_id(r, what, n)
    ELSE IF field = "cos" THEN range_set_cos_id(r, what, n)
    ELSE IF field = "pkt_size" THEN range_set_pkt_size(r, what, n)
    ELSE IF field = "ttl"
         THEN (IF ethType = "ipv6" THEN range_set_hop_limits(r, what, n)
               ELSE range_set_ttl(r, what, n))
    ELSE IF field = "tos"
         THEN (IF ethType = "ipv6" THEN range_set_traffic_class(r, what, n)
               ELSE range_set_tos_id(r, what, n))
    ELSE AddressSetter(r, what, n)
-----------------------------------------------------------------------------
(***************************************************************************)
(* One step of the packet: pktgen_range_ctor.                              *)
(***************************************************************************)

\* The code of type t counts the first time from 0 when the field is at this
\* value (static min_vlan_set and the like; traffic classes and tos apart).
FirstFromZero == field \in {"vlan_id", "cos", "tos"} /\ ~min_set[ethType]
               /\ cur = (IF field = "vlan_id" THEN MIN_VLAN_ID ELSE 0)

Sum == ((IF FirstFromZero THEN 0 ELSE cur) + range.inc) % Arithmetic(field, ethType)

\* Mutant: only the maximum is looked at.
Stepped_NoMinimum ==
    IF range.inc = 0 THEN range.start ELSE IF Sum > range.max THEN range.min ELSE Sum

\* Mutant: the value starts again above the minimum.
Stepped_Skips ==
    IF range.inc = 0 THEN range.start
    ELSE IF Sum < range.min THEN range.max
    ELSE IF Sum > range.max THEN Least(range.min + range.inc, range.max)
    ELSE Sum

\* An IPv6 address that is below the minimum becomes the minimum, any other
\* field the maximum.
Stepped ==
    IF range.inc = 0 THEN range.start
    ELSE IF Sum < range.min
         THEN IF field \in AddrFields /\ ethType = "ipv6" THEN range.min ELSE range.max
    ELSE IF Sum > range.max THEN range.min
    ELSE Sum

\* The field is one that is stepped in packets of this type and protocol.
\* Tunnel ids are if the port is PG_IPPROTO_L4_GTPU_PORT: without it the call
\* changes nothing of the field, and is not a step.
IsStepped ==
    IF field \in TcpFields THEN ipProto = "tcp"
    ELSE /\ ethType \in {"ipv4", "ipv6"} /\ ipProto \in {"tcp", "udp"}
         /\ field = "gtpu_teid" => ethType = "ipv4"

\* mempool_setup_cb, the next mbuf of a pool
Step ==
    /\ IsStepped
    /\ cur' = Stepped
    /\ min_set' = [min_set EXCEPT ![ethType] = @ \/ (range.inc # 0 /\ FirstFromZero)]
    /\ stepped' = TRUE
    /\ steps' = Least(steps + 1, MaxSteps)
    /\ sent' = sent \cup {cur'}
    /\ UNCHANGED <<field, packet, range, commands>>
-----------------------------------------------------------------------------
(***************************************************************************)
(* Commands of the CLI and functions of Lua.                               *)
(***************************************************************************)
Command ==
    /\ commands < MaxCommands /\ commands' = commands + 1
    /\ stepped' = FALSE /\ steps' = 0 /\ sent' = {}
    /\ UNCHANGED <<field, min_set>>

\* The start of macs and tunnel ids is also the next value of the packet.
SetRange(r, starts) ==
    /\ range' = r
    /\ cur' = IF starts /\ field \in MacFields \cup {"gtpu_teid"} THEN r.start ELSE cur
    /\ Command /\ UNCHANGED packet

\* "range <portlist> <field> start|min|max|inc <n>": tunnel ids pass a
\* uint16_t, and the word "inc" itself is read as increment of a size.
range_cmd(what, n) ==
    SetRange(Setter(range, what, CASE field = "gtpu_teid" /\ what # "inc" -> n % U16
                                   [] field = "pkt_size" /\ what = "inc" -> 0
                                   [] OTHER -> n),
             what = "start")

\* "range <portlist> <field> <start> <min> <max> <inc>"
range_cmd_all(start, min, max, inc) ==
    LET Id(n) == IF field = "gtpu_teid" THEN n % U16 ELSE n
        r1 == Setter(range, "start", Id(start))
        r2 == Setter(r1, "min", Id(min))
        r3 == Setter(r2, "max", Id(max))
    IN  SetRange(Setter(r3, "inc", inc), TRUE)

\* range.src_port(...), range.pkt_size(...) and the others
lua_range(what, n) == SetRange(Setter(range, what, n), what = "start")

\* The bytes of addresses are those of another address in the other family,
\* those of other fields stay.
TypeBecomes(type, r) ==
    /\ ethType' = type
    /\ IF field \in AddrFields /\ (type = "ipv6") # (ethType = "ipv6")
       THEN LET Any(n) == n % Size(field, type)
            IN  /\ \E q \in Quadruples :
                       range' = RangeOf(Any(q[1]), Any(q[2]), Any(q[3]), Any(q[4]))
                /\ \E n \in Numbers : cur' = Any(n)
       ELSE range' = r /\ UNCHANGED cur

range_set_pkt_type(type) ==
    /\ TypeBecomes(type, IF field = "pkt_size" /\ type = "ipv6"
                         THEN RangeOf(Greatest(range.start, MIN_v6_PKT_SIZE),
                                      Greatest(range.min, MIN_v6_PKT_SIZE),
                                      Greatest(range.max, MIN_v6_PKT_SIZE), range.inc)
                         ELSE range)
    /\ Command /\ UNCHANGED ipProto

\* ICMP makes it an IPv4 packet.
range_set_proto(proto) ==
    /\ ipProto' = proto
    /\ TypeBecomes(IF proto = "icmp" THEN "ipv4" ELSE ethType, range)
    /\ Command

Init ==
    /\ field \in FocusFields
    /\ ethType = "ipv4" /\ ipProto = "tcp"
    /\ range = Default(field) /\ cur = Default(field).start
    /\ \E b \in BOOLEAN : min_set = [type \in Types |-> b]    \* other ports may have been first
    /\ commands = 0 /\ stepped = FALSE /\ steps = 0 /\ sent = {}

Next ==
    \/ Step
    \/ \E what \in {"start", "min", "max", "inc"}, n \in Numbers :
           range_cmd(what, n) \/ lua_range(what, n)
    \/ \E q \in Quadruples : range_cmd_all(q[1], q[2], q[3], q[4])
    \/ \E type \in Types : range_set_pkt_type(type)
    \/ \E proto \in Protos : range_set_proto(proto)

Spec == Init /\ [][Next]_vars
-----------------------------------------------------------------------------
\* After a step a field that is varied lies in its range, whatever was in the
\* packet before and in whatever order the limits were set; with limits that
\* are crossed it is at one of them.  No sum that wraps or is truncated
\* (pktgen_range_ctor, in four widths of arithmetic) may get out.
ValuesStayInRange ==
    stepped => IF range.inc = 0 THEN cur = range.start
               ELSE cur \in (range.min .. range.max) \cup {range.min, range.max}

\* Sizes are those of a frame that a port takes (range_set_pkt_size) and, once
\* the type is IPv6, hold its headers, also when the type is changed after the
\* sizes, or back and forth (range_set_pkt_type).
SizesFitTheType ==
    field = "pkt_size" =>
        /\ {range.start, range.min, range.max, cur} \subseteq Smallest .. Largest
        /\ ethType = "ipv6" =>
              \A size \in {range.start, range.min, range.max} \cup IF stepped THEN {cur} ELSE {} :
                  size >= MIN_v6_PKT_SIZE - ETHER_CRC_LEN

\* commands.rst, "range 0 dst ip 0.0.0.0 0.0.0.0 1.2.3.4 0.0.1.0": the values
\* minimum, minimum + increment and so on all come around, again and again, as
\* long as no sum wraps.  One that does is below the minimum and becomes the
\* maximum, from where it wraps again.
EveryValueComesAround ==
    LET rounds == (range.max - range.min) \div range.inc + 1
    IN  /\ stepped /\ range.inc > 0 /\ range.min <= range.max
        /\ range.max + range.inc < Arithmetic(field, ethType)
        /\ steps >= 3 * rounds
        => \A k \in 0 .. rounds - 1 : range.min + k * range.inc \in sent
=============================================================================
