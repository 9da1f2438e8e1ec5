----------------------------- MODULE RangeProofs -----------------------------
(***************************************************************************)
(* Theorems about RangePackets, for every width of the integer types,      *)
(* every limit and every number in a command.                              *)
(***************************************************************************)
EXTENDS RangePackets, TLAPS

Settings == {"start", "min", "max", "inc"}

\* A range whose settings fit their memory.
IsRange(r, type) ==
    \E start, min, max \in 0 .. Size(field, type) - 1, inc \in 0 .. IncSize(field, type) - 1 :
        r = RangeOf(start, min, max, inc)

\* Every variable fits its memory.
TypeInv ==
    /\ field \in Fields /\ ethType \in Types /\ ipProto \in Protos
    /\ IsRange(range, ethType)
    /\ cur \in 0 .. Size(field, ethType) - 1
    /\ min_set \in [Types -> BOOLEAN]
    /\ commands \in Nat /\ stepped \in BOOLEAN /\ steps \in Nat

\* Integer types have a positive number of values, and a remainder fits.
LEMMA Remainders ==
    ASSUME NEW n \in Nat, NEW m \in Nat \ {0}
    PROVE  n % m \in 0 .. m - 1
  OBVIOUS

\* Sizes of fields are natural numbers that are not 0.
LEMMA SizesArePositive ==
    ASSUME NEW f \in Fields, NEW type \in Types
    PROVE  /\ Size(f, type) \in Nat \ {0} /\ IncSize(f, type) \in Nat \ {0}
           /\ Arithmetic(f, type) \in Nat \ {0}
  BY RangeAssumption DEF Size, IncSize, Arithmetic, Fields, TcpFields, AddrFields, PortFields,
     MacFields, Types

\* Changing one setting to a value that fits keeps a range a range.
LEMMA PutKeepsRange ==
    ASSUME NEW r, NEW type \in Types, field \in Fields, IsRange(r, type), NEW what \in Settings,
           NEW n \in 0 .. (IF what = "inc" THEN IncSize(field, type) ELSE Size(field, type)) - 1
    PROVE  IsRange(Put(r, what, n), type)
<1>1. PICK start \in 0 .. Size(field, type) - 1, min \in 0 .. Size(field, type) - 1,
           max \in 0 .. Size(field, type) - 1, inc \in 0 .. IncSize(field, type) - 1 :
           r = RangeOf(start, min, max, inc)
  BY DEF IsRange
<1>2. CASE what = "start"
  <2>1. Put(r, what, n) = RangeOf(n, min, max, inc)  BY <1>1, <1>2 DEF Put, RangeOf
  <2> QED  BY <1>2, <2>1 DEF IsRange
<1>3. CASE what = "min"
  <2>1. Put(r, what, n) = RangeOf(start, n, max, inc)  BY <1>1, <1>3 DEF Put, RangeOf
  <2> QED  BY <1>3, <2>1 DEF IsRange
<1>4. CASE what = "max"
  <2>1. Put(r, what, n) = RangeOf(start, min, n, inc)  BY <1>1, <1>4 DEF Put, RangeOf
  <2> QED  BY <1>4, <2>1 DEF IsRange
<1>5. CASE what = "inc"
  <2>1. Put(r, what, n) = RangeOf(start, min, max, n)  BY <1>1, <1>5 DEF Put, RangeOf
  <2> QED  BY <1>5, <2>1 DEF IsRange
<1> QED  BY <1>2, <1>3, <1>4, <1>5 DEF Settings

\* The settings of a range.
LEMMA RangeFields ==
    ASSUME NEW r, NEW type \in Types, IsRange(r, type)
    PROVE  /\ r.start \in 0 .. Size(field, type) - 1 /\ r.min \in 0 .. Size(field, type) - 1
           /\ r.max \in 0 .. Size(field, type) - 1 /\ r.inc \in 0 .. IncSize(field, type) - 1
           /\ r = RangeOf(r.start, r.min, r.max, r.inc)
  BY DEF IsRange, RangeOf

\* The function that a field's setting goes to.
LEMMA SetterOfField ==
    ASSUME NEW r, NEW what, NEW n
    PROVE  /\ field = "tcp_seq" => Setter(r, what, n) = range_set_tcp_seq(r, what, n)
           /\ field = "tcp_ack" => Setter(r, what, n) = range_set_tcp_ack(r, what, n)
           /\ field = "dst_mac" => Setter(r, what, n) = range_set_dest_mac(r, what, n)
           /\ field = "src_mac" => Setter(r, what, n) = range_set_src_mac(r, what, n)
           /\ field = "src_ip" => Setter(r, what, n) = range_set_src_ip(r, what, n)
           /\ field = "dst_ip" => Setter(r, what, n) = range_set_dst_ip(r, what, n)
           /\ field = "src_port" => Setter(r, what, n) = range_set_src_port(r, what, n)
           /\ field = "dst_port" => Setter(r, what, n) = range_set_dst_port(r, what, n)
           /\ field = "gtpu_teid" => Setter(r, what, n) = range_set_gtpu_teid(r, what, n)
           /\ field = "vlan_id" => Setter(r, what, n) = range_set_vlan_id(r, what, n)
           /\ field = "cos" => Setter(r, what, n) = range_set_cos_id(r, what, n)
           /\ field = "pkt_size" => Setter(r, what, n) = range_set_pkt_size(r, what, n)
           /\ field = "ttl" => Setter(r, what, n) \in {range_set_hop_limits(r, what, n), range_set_ttl(r, what, n)}
           /\ field = "tos" => Setter(r, what, n) \in {range_set_traffic_class(r, what, n), range_set_tos_id(r, what, n)}
<1>0. field \in TcpFields \cup MacFields \cup AddrFields \cup PortFields
      => Setter(r, what, n) = AddressSetter(r, what, n)
  BY DEF Setter, TcpFields, MacFields, AddrFields, PortFields
<1>1. field = "tcp_seq" => Setter(r, what, n) = range_set_tcp_seq(r, what, n)
  BY <1>0 DEF AddressSetter, TcpFields, MacFields, AddrFields, PortFields
<1>2. field = "tcp_ack" => Setter(r, what, n) = range_set_tcp_ack(r, what, n)
  BY <1>0 DEF AddressSetter, TcpFields, MacFields, AddrFields, PortFields
<1>3. field = "dst_mac" => Setter(r, what, n) = range_set_dest_mac(r, what, n)
  BY <1>0 DEF AddressSetter, TcpFields, MacFields, AddrFields, PortFields
<1>4. field = "src_mac" => Setter(r, what, n) = range_set_src_mac(r, what, n)
  BY <1>0 DEF AddressSetter, TcpFields, MacFields, AddrFields, PortFields
<1>5. field = "src_ip" => Setter(r, what, n) = range_set_src_ip(r, what, n)
  BY <1>0 DEF AddressSetter, TcpFields, MacFields, AddrFields, PortFields
<1>6. field = "dst_ip" => Setter(r, what, n) = range_set_dst_ip(r, what, n)
  BY <1>0 DEF AddressSetter, TcpFields, MacFields, AddrFields, PortFields
<1>7. field = "src_port" => Setter(r, what, n) = range_set_src_port(r, what, n)
  BY <1>0 DEF AddressSetter, TcpFields, MacFields, AddrFields, PortFields
<1>8. field = "dst_port" => Setter(r, what, n) = range_set_dst_port(r, what, n)
  BY <1>0 DEF AddressSetter, TcpFields, MacFields, AddrFields, PortFields
<1>9. field = "gtpu_teid" => Setter(r, what, n) = range_set_gtpu_teid(r, what, n)
  BY DEF Setter
<1>10. field = "vlan_id" => Setter(r, what, n) = range_set_vlan_id(r, what, n)
  BY DEF Setter
<1>11. field = "cos" => Setter(r, what, n) = range_set_cos_id(r, what, n)
  BY DEF Setter
<1>12. field = "pkt_size" => Setter(r, what, n) = range_set_pkt_size(r, what, n)
  BY DEF Setter
<1>13. field = "ttl" => Setter(r, what, n) \in {range_set_hop_limits(r, what, n), range_set_ttl(r, what, n)}
  BY DEF Setter
<1>14. field = "tos" => Setter(r, what, n) \in {range_set_traffic_class(r, what, n), range_set_tos_id(r, what, n)}
  BY DEF Setter
<1> QED  BY <1>1, <1>2, <1>3, <1>4, <1>5, <1>6, <1>7, <1>8, <1>9, <1>10, <1>11, <1>12, <1>13, <1>14

\* Each of the functions range_set_* keeps a range a range.
LEMMA SetterKeepsRange ==
    ASSUME NEW r, field \in Fields, ethType \in Types, IsRange(r, ethType),
           NEW what \in Settings, NEW n \in Nat
    PROVE  IsRange(Setter(r, what, n), ethType)
<1> DEFINE Fits(v) ==
        v \in 0 .. (IF what = "inc" THEN IncSize(field, ethType) ELSE Size(field, ethType)) - 1
<1>1. \A v : Fits(v) => IsRange(Put(r, what, v), ethType)
  BY PutKeepsRange
<1>n. /\ n % U8 \in 0 .. U8 - 1 /\ n % U16 \in 0 .. U16 - 1 /\ n % U32 \in 0 .. U32 - 1
      /\ n % U48 \in 0 .. U48 - 1 /\ n % U128 \in 0 .. U128 - 1
  BY Remainders, RangeAssumption
<1>2. CASE field \in TcpFields
  <2>0. Size(field, ethType) = U32 /\ IncSize(field, ethType) = U16
    BY <1>2 DEF Size, IncSize, TcpFields
  <2>1. Fits(n % (IF what = "inc" THEN U16 ELSE U32))
    <3>1. CASE what = "inc"  BY <2>0, <3>1, <1>n
    <3>2. CASE what # "inc"  BY <2>0, <3>2, <1>n
    <3> QED  BY <3>1, <3>2
  <2> QED  BY SetterOfField, <1>1, <1>2, <2>1 DEF TcpFields, range_set_tcp_seq, range_set_tcp_ack
<1>3. CASE field \in MacFields
  <2>1. Fits(n % U48)
    BY <1>3, <1>n DEF Size, IncSize, TcpFields, MacFields, AddrFields, PortFields
  <2> QED  BY SetterOfField, <1>1, <1>3, <2>1 DEF MacFields, range_set_src_mac, range_set_dest_mac
<1>4. CASE field \in AddrFields
  <2>1. Fits(n % Size(field, ethType))
    BY <1>4, <1>n DEF Size, IncSize, TcpFields, AddrFields
  <2> QED  BY SetterOfField, <1>1, <1>4, <2>1 DEF AddrFields, range_set_src_ip, range_set_dst_ip
<1>5. CASE field \in PortFields
  <2>1. Fits(IF what = "inc" THEN Least(n % U16, MAX_INC) ELSE n % U16)
    BY <1>5, <1>n, RangeAssumption DEF Size, IncSize, TcpFields, AddrFields, PortFields, Least
  <2> QED  BY SetterOfField, <1>1, <1>5, <2>1 DEF PortFields, range_set_src_port, range_set_dst_port
<1>6. CASE field = "gtpu_teid"
  <2>0. Size(field, ethType) = U32 /\ IncSize(field, ethType) = U32
    BY <1>6 DEF Size, IncSize, TcpFields
  <2>1. Fits(n % U32)
    BY <2>0, <1>n
  <2>2. Setter(r, what, n) = range_set_gtpu_teid(r, what, n)
    BY SetterOfField, <1>6
  <2>3. range_set_gtpu_teid(r, what, n) \in {r, Put(r, what, n % U32)}
    BY Zenon DEF range_set_gtpu_teid
  <2>4. IsRange(Put(r, what, n % U32), ethType)
    BY <1>1, <2>1
  <2> QED  BY <2>2, <2>3, <2>4
<1>7. CASE field = "vlan_id"
  <2> DEFINE id == n % U16
             v == IF what = "inc" THEN Least(id, MAX_INC)
                  ELSE IF id \in MIN_VLAN_ID .. MAX_VLAN_ID THEN id ELSE MIN_VLAN_ID
  <2>1. Fits(v)
    BY <1>7, <1>n, RangeAssumption
       DEF Size, IncSize, TcpFields, AddrFields, PortFields, Least, MIN_VLAN_ID
  <2>2. Setter(r, what, n) = Put(r, what, v)
    BY Zenon, SetterOfField, <1>7 DEF range_set_vlan_id
  <2> QED  BY <1>1, <2>1, <2>2
<1>8. CASE field = "cos"
  <2>1. Fits(IF what = "inc" THEN Least(n % U8, MAX_COS) ELSE n % U8)
    BY <1>8, <1>n, RangeAssumption
       DEF Size, IncSize, TcpFields, AddrFields, PortFields, Least
  <2> QED  BY SetterOfField, <1>1, <1>8, <2>1 DEF range_set_cos_id
<1>9. CASE field \in {"ttl", "tos"}
  <2>1. Fits(n % U8)
    BY <1>9, <1>n, RangeAssumption DEF Size, IncSize, TcpFields, AddrFields, PortFields
  <2>2. IsRange(Put(r, what, n % U8), ethType)
    BY <1>1, <2>1
  <2>3. CASE field = "ttl"
    BY SetterOfField, <2>2, <2>3 DEF range_set_ttl, range_set_hop_limits
  <2>4. CASE field = "tos"
    BY SetterOfField, <2>2, <2>4 DEF range_set_tos_id, range_set_traffic_class
  <2> QED  BY <1>9, <2>3, <2>4
<1>10. CASE field = "pkt_size"
  <2> DEFINE size == Least(Greatest(n % U16, ETHER_MIN_LEN), ETHER_MAX_LEN)
             v6 == IF ethType = "ipv6" THEN Greatest(size, MIN_v6_PKT_SIZE) ELSE size
             v == IF what = "inc" THEN n % U16 ELSE v6 - ETHER_CRC_LEN
  <2>1. Fits(v)
    BY <1>10, <1>n, RangeAssumption
       DEF Size, IncSize, TcpFields, AddrFields, PortFields, Least, Greatest
  <2>2. Setter(r, what, n) = Put(r, what, v)
    BY Zenon, SetterOfField, <1>10 DEF range_set_pkt_size
  <2> QED  BY <1>1, <2>1, <2>2
<1> QED
  BY <1>2, <1>3, <1>4, <1>5, <1>6, <1>7, <1>8, <1>9, <1>10 DEF Fields

\* A sum that was compared with both limits is in the range or at a limit.
LEMMA SteppedFits ==
    ASSUME field \in Fields, ethType \in Types, IsRange(range, ethType),
           cur \in 0 .. Size(field, ethType) - 1, min_set \in [Types -> BOOLEAN]
    PROVE  /\ Stepped \in 0 .. Size(field, ethType) - 1
           /\ range.inc # 0 =>
                Stepped \in (range.min .. range.max) \cup {range.min, range.max}
           /\ Stepped \in {range.start, range.min, range.max} \cup (range.min .. range.max)
<1>1. /\ Size(field, ethType) \in Nat \ {0} /\ IncSize(field, ethType) \in Nat \ {0}
      /\ Arithmetic(field, ethType) \in Nat \ {0}
  BY SizesArePositive
<1>2. /\ range.start \in 0 .. Size(field, ethType) - 1
      /\ range.min \in 0 .. Size(field, ethType) - 1
      /\ range.max \in 0 .. Size(field, ethType) - 1
      /\ range.inc \in 0 .. IncSize(field, ethType) - 1
  BY RangeFields
<1>3. Sum \in Nat
  <2> DEFINE from == IF FirstFromZero THEN 0 ELSE cur
  <2>1. from + range.inc \in Nat  BY <1>1, <1>2
  <2>2. Sum = (from + range.inc) % Arithmetic(field, ethType)  BY DEF Sum
  <2> HIDE DEF from
  <2> DEFINE all == from + range.inc
             m == Arithmetic(field, ethType)
  <2>3. all \in Nat /\ m \in Nat \ {0} /\ Sum = all % m  BY <1>1, <2>1, <2>2
  <2> HIDE DEF all, m
  <2>4. all % m \in 0 .. m - 1  BY <2>3, Remainders
  <2> QED  BY <2>3, <2>4
<1> QED  BY <1>1, <1>2, <1>3 DEF Stepped

-----------------------------------------------------------------------------
(***************************************************************************)
(* The initial state and the actions.                                      *)
(***************************************************************************)

\* The settings pktgen_range_setup makes fit their memory.
LEMMA DefaultsFit ==
    ASSUME field \in Fields
    PROVE  IsRange(Default(field), "ipv4")
<1> DEFINE Fit(r) == /\ r.start \in 0 .. Size(field, "ipv4") - 1
                     /\ r.min \in 0 .. Size(field, "ipv4") - 1
                     /\ r.max \in 0 .. Size(field, "ipv4") - 1
                     /\ r.inc \in 0 .. IncSize(field, "ipv4") - 1
<1>0. \A a, b, c, d : Fit(RangeOf(a, b, c, d)) => IsRange(RangeOf(a, b, c, d), "ipv4")
  BY DEF IsRange, RangeOf
<1>n. 1 % U32 \in 0 .. U32 - 1 /\ 1 % U16 \in 0 .. U16 - 1
  BY Remainders, RangeAssumption
<1>1. CASE field \in TcpFields
  <2>1. Size(field, "ipv4") = U32 /\ IncSize(field, "ipv4") = U16
    BY <1>1 DEF Size, IncSize, TcpFields
  <2>2. Default(field) = RangeOf(DEFAULT_TCP_SEQ_NUMBER, 0, MAX_TCP_SEQ_NUMBER, 0)
    BY <1>1 DEF Default, TcpFields
  <2>3. Fit(RangeOf(DEFAULT_TCP_SEQ_NUMBER, 0, MAX_TCP_SEQ_NUMBER, 0))
    BY <2>1, RangeAssumption DEF RangeOf
  <2> QED  BY <1>0, <2>2, <2>3
<1>2. CASE field \in AddrFields
  <2>1. Size(field, "ipv4") = U32 /\ IncSize(field, "ipv4") = U32
    BY <1>2 DEF Size, IncSize, TcpFields, AddrFields
  <2>2. PICK inc \in 0 .. U32 - 1 :
            Default(field) = RangeOf(MIN_IP, MIN_IP, MAX_IP, inc)
    BY <1>2, <1>n, RangeAssumption DEF Default, TcpFields, AddrFields
  <2>3. Fit(RangeOf(MIN_IP, MIN_IP, MAX_IP, inc))
    BY <2>1, <1>n, RangeAssumption DEF RangeOf
  <2> QED  BY <1>0, <2>2, <2>3
<1>3. CASE field \in PortFields
  <2>1. Size(field, "ipv4") = U16 /\ IncSize(field, "ipv4") = U16
    BY <1>3 DEF Size, IncSize, TcpFields, AddrFields, PortFields
  <2>2. Default(field) = RangeOf(DEFAULT_PORT, 0, U16 - 1, 1 % U16)
    BY <1>3 DEF Default, TcpFields, PortFields
  <2>3. Fit(RangeOf(DEFAULT_PORT, 0, U16 - 1, 1 % U16))
    BY <2>1, <1>n, RangeAssumption DEF RangeOf
  <2> QED  BY <1>0, <2>2, <2>3
<1>4. CASE field = "ttl"
  <2>1. Size(field, "ipv4") = U8 /\ IncSize(field, "ipv4") = U8
    BY <1>4 DEF Size, IncSize, TcpFields, AddrFields, PortFields
  <2>2. Default(field) = RangeOf(DEFAULT_TTL, 0, U8 - 1, 0)
    BY <1>4 DEF Default, TcpFields, PortFields
  <2>3. Fit(RangeOf(DEFAULT_TTL, 0, U8 - 1, 0))
    BY <2>1, RangeAssumption DEF RangeOf
  <2> QED  BY <1>0, <2>2, <2>3
<1>5. CASE field = "vlan_id"
  <2>1. Size(field, "ipv4") = U16 /\ IncSize(field, "ipv4") = U16
    BY <1>5 DEF Size, IncSize, TcpFields, AddrFields, PortFields
  <2>2. Default(field) = RangeOf(MIN_VLAN_ID, MIN_VLAN_ID, MAX_VLAN_ID, 0)
    BY <1>5 DEF Default, TcpFields, PortFields
  <2>3. Fit(RangeOf(MIN_VLAN_ID, MIN_VLAN_ID, MAX_VLAN_ID, 0))
    BY <2>1, RangeAssumption DEF RangeOf, MIN_VLAN_ID
  <2> QED  BY <1>0, <2>2, <2>3
<1>6. CASE field \in {"cos", "tos"}
  <2>1. Size(field, "ipv4") = U8 /\ IncSize(field, "ipv4") = U16
    BY <1>6 DEF Size, IncSize, TcpFields, AddrFields, PortFields
  <2>2. PICK max \in 0 .. U8 - 1 : Default(field) = RangeOf(0, 0, max, 0)
    BY <1>6, RangeAssumption DEF Default, TcpFields, PortFields, MAX_TOS
  <2>3. Fit(RangeOf(0, 0, max, 0))
    BY <2>1, RangeAssumption DEF RangeOf
  <2> QED  BY <1>0, <2>2, <2>3
<1>7. CASE field = "pkt_size"
  <2>1. Size(field, "ipv4") = U16 /\ IncSize(field, "ipv4") = U16
    BY <1>7 DEF Size, IncSize, TcpFields, AddrFields, PortFields
  <2>2. Default(field) = RangeOf(Smallest, Smallest, Largest, 0)
    BY <1>7 DEF Default, TcpFields, PortFields
  <2>3. Fit(RangeOf(Smallest, Smallest, Largest, 0))
    BY <2>1, RangeAssumption DEF RangeOf, Smallest, Largest
  <2> QED  BY <1>0, <2>2, <2>3
<1>8. CASE field \in MacFields
  <2>1. Size(field, "ipv4") = U48 /\ IncSize(field, "ipv4") = U48
    BY <1>8 DEF Size, IncSize, TcpFields, AddrFields, PortFields, MacFields
  <2>2. Default(field) = RangeOf(U48 - 1, 0, 0, 0)
    BY <1>8 DEF Default, TcpFields, PortFields, MacFields
  <2>3. Fit(RangeOf(U48 - 1, 0, 0, 0))
    BY <2>1, RangeAssumption DEF RangeOf
  <2> QED  BY <1>0, <2>2, <2>3
<1>9. CASE field = "gtpu_teid"
  <2>1. Size(field, "ipv4") = U32 /\ IncSize(field, "ipv4") = U32
    BY <1>9 DEF Size, IncSize, TcpFields
  <2>2. Default(field) = RangeOf(0, 0, 0, 0)
    BY <1>9 DEF Default, TcpFields, PortFields, MacFields
  <2>3. Fit(RangeOf(0, 0, 0, 0))
    BY <2>1, RangeAssumption DEF RangeOf
  <2> QED  BY <1>0, <2>2, <2>3
<1> QED
  BY <1>1, <1>2, <1>3, <1>4, <1>5, <1>6, <1>7, <1>8, <1>9 DEF Fields

\* A command of one setting leaves a range and a value that fit.
LEMMA SetRangeKeepsTypes ==
    ASSUME TypeInv, NEW r, NEW starts \in BOOLEAN, IsRange(r, ethType), SetRange(r, starts)
    PROVE  TypeInv'
<1>0. /\ field' = field /\ ethType' = ethType /\ ipProto' = ipProto /\ range' = r
      /\ min_set' = min_set /\ commands' = commands + 1 /\ stepped' = FALSE /\ steps' = 0
  BY DEF SetRange, Command, packet
<1>1. IsRange(range, ethType)'
  BY <1>0 DEF IsRange
<1>2. r.start \in 0 .. Size(field, ethType) - 1
  BY RangeFields DEF TypeInv
<1>3. (cur \in 0 .. Size(field, ethType) - 1)'
  BY <1>0, <1>2 DEF SetRange, TypeInv
<1>4. field' \in Fields /\ ethType' \in Types /\ ipProto' \in Protos
  BY <1>0 DEF TypeInv
<1>5. min_set' \in [Types -> BOOLEAN]  BY <1>0 DEF TypeInv
<1>6. stepped' \in BOOLEAN  BY <1>0
<1>7. commands' \in Nat /\ steps' \in Nat  BY <1>0 DEF TypeInv
<1> QED
  BY <1>1, <1>3, <1>4, <1>5, <1>6, <1>7 DEF TypeInv

\* TypeBecomes, of a range that fits its memory.
LEMMA TypeBecomesKeepsTypes ==
    ASSUME TypeInv, NEW type \in Types, NEW r, IsRange(r, ethType), TypeBecomes(type, r), Command
    PROVE  /\ IsRange(range', type) /\ IsRange(range, ethType)' /\ ethType' = type
           /\ cur' \in 0 .. Size(field, type) - 1
<1>0. field' = field /\ ethType' = type  BY DEF Command, TypeBecomes
<1>n. Size(field, type) \in Nat \ {0}  BY SizesArePositive DEF TypeInv
<1> SUFFICES IsRange(range', type) /\ cur' \in 0 .. Size(field, type) - 1
  BY <1>0 DEF IsRange
<1>1. CASE field \in AddrFields /\ (type = "ipv6") # (ethType = "ipv6")
  <2> DEFINE Any(n) == n % Size(field, type)
  <2>1. \A n \in Nat : Any(n) \in 0 .. Size(field, type) - 1
    BY <1>n, Remainders
  <2>2. IncSize(field, type) = Size(field, type)
    BY <1>1 DEF IncSize, AddrFields, TcpFields
  <2>3. /\ \E q \in Quadruples : range' = RangeOf(Any(q[1]), Any(q[2]), Any(q[3]), Any(q[4]))
        /\ \E n \in Numbers : cur' = Any(n)
    BY <1>1 DEF TypeBecomes
  <2>4. Quadruples \subseteq Nat \X Nat \X Nat \X Nat /\ Numbers \subseteq Nat
    BY RangeAssumption
  <2> HIDE DEF Any
  <2>5. PICK q \in Quadruples : range' = RangeOf(Any(q[1]), Any(q[2]), Any(q[3]), Any(q[4]))
    BY <2>3
  <2>6. q[1] \in Nat /\ q[2] \in Nat /\ q[3] \in Nat /\ q[4] \in Nat
    BY <2>4
  <2>7. IsRange(range', type)
    BY <2>1, <2>2, <2>5, <2>6 DEF IsRange
  <2> QED  BY <2>1, <2>3, <2>4, <2>7
<1>2. CASE ~(field \in AddrFields /\ (type = "ipv6") # (ethType = "ipv6"))
  <2>1. range' = r /\ cur' = cur  BY <1>2 DEF TypeBecomes
  <2>2. Size(field, type) = Size(field, ethType) /\ IncSize(field, type) = IncSize(field, ethType)
    BY <1>2 DEF Size, IncSize
  <2> QED  BY <2>1, <2>2 DEF TypeInv, IsRange
<1> QED  BY <1>1, <1>2

\* The range whose sizes are raised to those of IPv6 fits, too.
LEMMA RaisedFits ==
    ASSUME TypeInv, NEW type
    PROVE  IsRange(IF field = "pkt_size" /\ type = "ipv6"
                   THEN RangeOf(Greatest(range.start, MIN_v6_PKT_SIZE),
                                Greatest(range.min, MIN_v6_PKT_SIZE),
                                Greatest(range.max, MIN_v6_PKT_SIZE), range.inc)
                   ELSE range, ethType)
<1>1. CASE field = "pkt_size" /\ type = "ipv6"
  <2>1. Size(field, ethType) = U16 /\ IncSize(field, ethType) = U16
    BY <1>1 DEF Size, IncSize, TcpFields, AddrFields, PortFields
  <2>2. /\ range.start \in 0 .. U16 - 1 /\ range.min \in 0 .. U16 - 1
        /\ range.max \in 0 .. U16 - 1 /\ range.inc \in 0 .. U16 - 1
    BY <2>1, RangeFields DEF TypeInv
  <2>3. \A size \in 0 .. U16 - 1 : Greatest(size, MIN_v6_PKT_SIZE) \in 0 .. U16 - 1
    BY RangeAssumption DEF Greatest
  <2> QED  BY <1>1, <2>1, <2>2, <2>3 DEF IsRange
<1>2. CASE ~(field = "pkt_size" /\ type = "ipv6")
  BY <1>2 DEF TypeInv
<1> QED  BY <1>1, <1>2

\* Initially everything fits its memory.
LEMMA InitTypes == Init => TypeInv
<1> SUFFICES ASSUME Init PROVE TypeInv  OBVIOUS
<1>1. field \in Fields /\ ethType = "ipv4" /\ ethType \in Types /\ ipProto \in Protos
  BY FocusAssumption DEF Init, Types, Protos
<1>2. IsRange(range, ethType)
  BY <1>1, DefaultsFit DEF Init
<1>3. cur \in 0 .. Size(field, ethType) - 1
  BY <1>1, <1>2, RangeFields DEF Init
<1> QED  BY <1>1, <1>2, <1>3 DEF Init, TypeInv

\* The inductive invariant: TypeInv, ValuesStayInRange, and sizes that fit the
\* type before and after a step.
RangeInv ==
    /\ TypeInv
    /\ ValuesStayInRange
    /\ SizesFitTheType

\* Settings of a range of sizes that SizesFitTheType allows.
GoodSizes(r, type) ==
    /\ {r.start, r.min, r.max} \subseteq Smallest .. Largest
    /\ type = "ipv6" => /\ r.start >= MIN_v6_PKT_SIZE - ETHER_CRC_LEN
                        /\ r.min >= MIN_v6_PKT_SIZE - ETHER_CRC_LEN
                        /\ r.max >= MIN_v6_PKT_SIZE - ETHER_CRC_LEN

\* range_set_pkt_size stores sizes of frames that hold the headers.
LEMMA SizeSetterIsGood ==
    ASSUME NEW r, ethType \in Types, field = "pkt_size", IsRange(r, ethType),
           GoodSizes(r, ethType), NEW what \in Settings, NEW n \in Nat
    PROVE  GoodSizes(Setter(r, what, n), ethType)
<1> DEFINE size == Least(Greatest(n % U16, ETHER_MIN_LEN), ETHER_MAX_LEN)
           v6 == IF ethType = "ipv6" THEN Greatest(size, MIN_v6_PKT_SIZE) ELSE size
           v == v6 - ETHER_CRC_LEN
<1>1. n % U16 \in 0 .. U16 - 1  BY Remainders, RangeAssumption
<1>2. /\ v \in Smallest .. Largest
      /\ ethType = "ipv6" => v >= MIN_v6_PKT_SIZE - ETHER_CRC_LEN
  BY <1>1, RangeAssumption DEF Least, Greatest, Smallest, Largest
<1>3. Setter(r, what, n) = Put(r, what, IF what = "inc" THEN n % U16 ELSE v)
  BY Zenon, SetterOfField DEF range_set_pkt_size
<1> HIDE DEF v
<1>4. PICK start, min, max, inc : r = RangeOf(start, min, max, inc)
  BY DEF IsRange
<1>5. Put(r, what, IF what = "inc" THEN n % U16 ELSE v)
        \in {RangeOf(v, min, max, inc), RangeOf(start, v, max, inc),
             RangeOf(start, min, v, inc), RangeOf(start, min, max, n % U16)}
  BY <1>4 DEF Put, RangeOf, Settings
<1>6. /\ {start, min, max} \subseteq Smallest .. Largest
      /\ ethType = "ipv6" => /\ start >= MIN_v6_PKT_SIZE - ETHER_CRC_LEN
                             /\ min >= MIN_v6_PKT_SIZE - ETHER_CRC_LEN
                             /\ max >= MIN_v6_PKT_SIZE - ETHER_CRC_LEN
  BY <1>4 DEF GoodSizes, RangeOf
<1>7. \A q \in {RangeOf(v, min, max, inc), RangeOf(start, v, max, inc),
                RangeOf(start, min, v, inc), RangeOf(start, min, max, n % U16)} :
          GoodSizes(q, ethType)
  BY <1>2, <1>6 DEF GoodSizes, RangeOf
<1> QED  BY <1>3, <1>5, <1>7

\* SizesFitTheType in terms of GoodSizes.
LEMMA GoodSizesFit ==
    ASSUME field = "pkt_size", TypeInv
    PROVE  SizesFitTheType <=>
               /\ GoodSizes(range, ethType)
               /\ cur \in Smallest .. Largest
               /\ ethType = "ipv6" /\ stepped => cur >= MIN_v6_PKT_SIZE - ETHER_CRC_LEN
  BY DEF SizesFitTheType, GoodSizes

\* A step.
LEMMA StepKeeps ==
    ASSUME RangeInv, Step
    PROVE  RangeInv'
<1>0. /\ field' = field /\ ethType' = ethType /\ ipProto' = ipProto /\ range' = range
      /\ commands' = commands /\ stepped' = TRUE /\ cur' = Stepped
  BY DEF Step, packet
<1>1. /\ field \in Fields /\ ethType \in Types /\ IsRange(range, ethType)
      /\ cur \in 0 .. Size(field, ethType) - 1 /\ min_set \in [Types -> BOOLEAN]
  BY DEF RangeInv, TypeInv
<1>2. /\ Stepped \in 0 .. Size(field, ethType) - 1
      /\ range.inc # 0 => Stepped \in (range.min .. range.max) \cup {range.min, range.max}
      /\ Stepped \in {range.start, range.min, range.max} \cup (range.min .. range.max)
  BY <1>1, SteppedFits
<1>3. TypeInv'
  <2>1. IsRange(range, ethType)'  BY <1>0, <1>1 DEF IsRange
  <2>2. (cur \in 0 .. Size(field, ethType) - 1)'  BY <1>0, <1>2
  <2>3. field' \in Fields /\ ethType' \in Types /\ ipProto' \in Protos
    BY <1>0 DEF RangeInv, TypeInv
  <2>4. stepped' \in BOOLEAN  BY <1>0
  <2>5. commands' \in Nat /\ steps' \in Nat
    BY <1>0, RangeAssumption DEF RangeInv, TypeInv, Step, Least
  <2>6. min_set' \in [Types -> BOOLEAN]
    <3>1. \A b \in BOOLEAN : [min_set EXCEPT ![ethType] = b] \in [Types -> BOOLEAN]
      BY <1>1
    <3>2. (min_set[ethType] \/ (range.inc # 0 /\ FirstFromZero)) \in BOOLEAN
      OBVIOUS
    <3>3. min_set' = [min_set EXCEPT ![ethType] =
                         min_set[ethType] \/ (range.inc # 0 /\ FirstFromZero)]
      BY DEF Step
    <3> QED  BY <3>1, <3>2, <3>3
  <2> QED  BY <2>1, <2>2, <2>3, <2>4, <2>5, <2>6 DEF TypeInv
<1>4. ValuesStayInRange'
  <2>1. CASE range.inc = 0
    BY <1>0, <2>1 DEF ValuesStayInRange, Stepped
  <2>2. CASE range.inc # 0
    BY <1>0, <1>2, <2>2 DEF ValuesStayInRange
  <2> QED  BY <2>1, <2>2
<1>5. SizesFitTheType'
  <2>1. CASE field = "pkt_size"
    <3>1. GoodSizes(range, ethType)
      BY <2>1, GoodSizesFit DEF RangeInv
    <3>2. /\ Stepped \in Smallest .. Largest
          /\ ethType = "ipv6" => Stepped >= MIN_v6_PKT_SIZE - ETHER_CRC_LEN
      BY <1>2, <3>1, RangeAssumption DEF GoodSizes, Smallest, Largest
    <3>3. GoodSizes(range, ethType)'
      BY <1>0, <3>1 DEF GoodSizes
    <3> QED  BY <1>0, <3>2, <3>3 DEF SizesFitTheType, GoodSizes
  <2>2. CASE field # "pkt_size"
    BY <1>0, <2>2 DEF SizesFitTheType
  <2> QED  BY <2>1, <2>2
<1> QED  BY <1>3, <1>4, <1>5 DEF RangeInv

\* A command that sets the range.
LEMMA SetRangeKeeps ==
    ASSUME RangeInv, NEW r, NEW starts \in BOOLEAN, IsRange(r, ethType), SetRange(r, starts),
           field = "pkt_size" => GoodSizes(r, ethType)
    PROVE  RangeInv'
<1>1. TypeInv'  BY SetRangeKeepsTypes DEF RangeInv
<1>2. /\ field' = field /\ ethType' = ethType /\ range' = r /\ stepped' = FALSE
      /\ field = "pkt_size" => cur' = cur
  BY DEF SetRange, Command, packet, MacFields
<1>3. ValuesStayInRange'  BY <1>2 DEF ValuesStayInRange
<1>4. SizesFitTheType'
  <2>1. CASE field = "pkt_size"
    <3>1. cur \in Smallest .. Largest
      BY <2>1, GoodSizesFit DEF RangeInv
    <3> QED  BY <1>2, <2>1, <3>1 DEF SizesFitTheType, GoodSizes
  <2>2. CASE field # "pkt_size"  BY <1>2, <2>2 DEF SizesFitTheType
  <2> QED  BY <2>1, <2>2
<1> QED  BY <1>1, <1>3, <1>4 DEF RangeInv

\* A setting changed by its function keeps what RangeInv says of ranges.
LEMMA SetterKeeps ==
    ASSUME field \in Fields, ethType \in Types, NEW r, IsRange(r, ethType),
           field = "pkt_size" => GoodSizes(r, ethType), NEW what \in Settings, NEW n \in Nat
    PROVE  /\ IsRange(Setter(r, what, n), ethType)
           /\ field = "pkt_size" => GoodSizes(Setter(r, what, n), ethType)
<1>1. IsRange(Setter(r, what, n), ethType)  BY SetterKeepsRange
<1>2. field = "pkt_size" => GoodSizes(Setter(r, what, n), ethType)  BY SizeSetterIsGood
<1> QED  BY <1>1, <1>2

\* A change of the type, or of the protocol to ICMP.
LEMMA TypeBecomesKeeps ==
    ASSUME RangeInv, NEW type \in Types, NEW r, IsRange(r, ethType), ipProto' \in Protos,
           field = "pkt_size" => GoodSizes(r, type), TypeBecomes(type, r), Command
    PROVE  RangeInv'
<1>1. /\ IsRange(range, ethType)' /\ ethType' = type /\ cur' \in 0 .. Size(field, type) - 1
  BY TypeBecomesKeepsTypes DEF RangeInv
<1>2. /\ field' = field /\ min_set' = min_set /\ commands' = commands + 1
      /\ stepped' = FALSE /\ steps' = 0
  BY DEF Command
<1>3. TypeInv'
  <2>1. (cur \in 0 .. Size(field, ethType) - 1)'  BY <1>1, <1>2
  <2>2. field' \in Fields /\ ethType' \in Types /\ ipProto' \in Protos
    BY <1>1, <1>2 DEF RangeInv, TypeInv
  <2>3. min_set' \in [Types -> BOOLEAN]  BY <1>2 DEF RangeInv, TypeInv
  <2>4. stepped' \in BOOLEAN  BY <1>2
  <2>5. commands' \in Nat /\ steps' \in Nat  BY <1>2 DEF RangeInv, TypeInv
  <2> QED  BY <1>1, <2>1, <2>2, <2>3, <2>4, <2>5 DEF TypeInv
<1>4. ValuesStayInRange'  BY <1>2 DEF ValuesStayInRange
<1>5. SizesFitTheType'
  <2>1. CASE field = "pkt_size"
    <3>1. range' = r /\ cur' = cur
      BY <2>1 DEF TypeBecomes, AddrFields
    <3>2. cur \in Smallest .. Largest
      BY <2>1, GoodSizesFit DEF RangeInv
    <3> QED  BY <1>1, <1>2, <2>1, <3>1, <3>2 DEF SizesFitTheType, GoodSizes
  <2>2. CASE field # "pkt_size"  BY <1>2, <2>2 DEF SizesFitTheType
  <2> QED  BY <2>1, <2>2
<1> QED  BY <1>3, <1>4, <1>5 DEF RangeInv

\* Initially, and in every step.
LEMMA InitRange == Init => RangeInv
<1> SUFFICES ASSUME Init PROVE RangeInv  OBVIOUS
<1>1. TypeInv  BY InitTypes
<1>2. ValuesStayInRange  BY DEF Init, ValuesStayInRange
<1>3. SizesFitTheType
  BY RangeAssumption
     DEF Init, SizesFitTheType, Default, RangeOf, TcpFields, PortFields, Smallest, Largest
<1> QED  BY <1>1, <1>2, <1>3 DEF RangeInv

LEMMA NextRange == RangeInv /\ [Next]_vars => RangeInv'
<1> SUFFICES ASSUME RangeInv, [Next]_vars PROVE RangeInv'  OBVIOUS
<1>t. field \in Fields /\ ethType \in Types /\ IsRange(range, ethType)
  BY DEF RangeInv, TypeInv
<1>g. field = "pkt_size" => GoodSizes(range, ethType)
  BY GoodSizesFit DEF RangeInv
<1>n. ASSUME NEW n \in Nat PROVE n % U16 \in Nat
  <2>1. n % U16 \in 0 .. U16 - 1  BY Remainders, RangeAssumption
  <2> QED  BY <2>1, RangeAssumption
<1>1. CASE Step
  BY <1>1, StepKeeps
<1>2. ASSUME NEW what \in Settings, NEW n \in Numbers, range_cmd(what, n) PROVE RangeInv'
  <2> DEFINE passed == CASE field = "gtpu_teid" /\ what # "inc" -> n % U16
                         [] field = "pkt_size" /\ what = "inc" -> 0
                         [] OTHER -> n
  <2>1. n \in Nat  BY RangeAssumption
  <2>2. passed \in Nat  BY <1>n, <2>1
  <2>3. SetRange(Setter(range, what, passed), what = "start")  BY <1>2 DEF range_cmd
  <2> HIDE DEF passed
  <2> QED  BY <1>t, <1>g, <2>2, <2>3, SetterKeeps, SetRangeKeeps
<1>3. ASSUME NEW what \in Settings, NEW n \in Numbers, lua_range(what, n) PROVE RangeInv'
  <2>1. n \in Nat  BY RangeAssumption
  <2> QED  BY <1>3, <1>t, <1>g, <2>1, SetterKeeps, SetRangeKeeps DEF lua_range
<1>4. ASSUME NEW q \in Quadruples, range_cmd_all(q[1], q[2], q[3], q[4]) PROVE RangeInv'
  <2> DEFINE Id(n) == IF field = "gtpu_teid" THEN n % U16 ELSE n
             r1 == Setter(range, "start", Id(q[1]))
             r2 == Setter(r1, "min", Id(q[2]))
             r3 == Setter(r2, "max", Id(q[3]))
             r4 == Setter(r3, "inc", q[4])
             Good(r) == IsRange(r, ethType) /\ (field = "pkt_size" => GoodSizes(r, ethType))
  <2>1. q[1] \in Nat /\ q[2] \in Nat /\ q[3] \in Nat /\ q[4] \in Nat
    BY RangeAssumption
  <2>2. Id(q[1]) \in Nat /\ Id(q[2]) \in Nat /\ Id(q[3]) \in Nat
    BY <1>n, <2>1
  <2>3. SetRange(r4, TRUE)
    BY <1>4 DEF range_cmd_all
  <2> HIDE DEF Id
  <2>4. \A r : Good(r) => \A what \in Settings, n \in Nat : Good(Setter(r, what, n))
    BY <1>t, SetterKeeps
  <2> HIDE DEF Good
  <2>5. Good(range)  BY <1>t, <1>g DEF Good
  <2>6. Good(r1)  BY <2>2, <2>4, <2>5 DEF Settings
  <2> HIDE DEF r1
  <2>7. Good(r2)  BY <2>2, <2>4, <2>6 DEF Settings
  <2> HIDE DEF r2
  <2>8. Good(r3)  BY <2>2, <2>4, <2>7 DEF Settings
  <2> HIDE DEF r3
  <2>9. Good(r4)  BY <2>1, <2>4, <2>8 DEF Settings
  <2> HIDE DEF r4
  <2> QED  BY <2>3, <2>9, SetRangeKeeps DEF Good
<1>5. ASSUME NEW type \in Types, range_set_pkt_type(type) PROVE RangeInv'
  <2> DEFINE r == IF field = "pkt_size" /\ type = "ipv6"
                  THEN RangeOf(Greatest(range.start, MIN_v6_PKT_SIZE),
                               Greatest(range.min, MIN_v6_PKT_SIZE),
                               Greatest(range.max, MIN_v6_PKT_SIZE), range.inc)
                  ELSE range
  <2>1. IsRange(r, ethType)  BY RaisedFits DEF RangeInv
  <2>2. TypeBecomes(type, r) /\ Command /\ ipProto' \in Protos
    BY <1>5 DEF range_set_pkt_type, RangeInv, TypeInv
  <2>3. field = "pkt_size" => GoodSizes(r, type)
    BY <1>g, RangeAssumption DEF GoodSizes, Greatest, RangeOf, Smallest, Largest
  <2> HIDE DEF r
  <2> QED  BY <2>1, <2>2, <2>3, TypeBecomesKeeps
<1>6. ASSUME NEW proto \in Protos, range_set_proto(proto) PROVE RangeInv'
  <2> DEFINE type == IF proto = "icmp" THEN "ipv4" ELSE ethType
  <2>1. type \in Types /\ TypeBecomes(type, range) /\ Command /\ ipProto' \in Protos
    BY <1>6, <1>t DEF range_set_proto, Types
  <2>2. field = "pkt_size" => GoodSizes(range, type)
    BY <1>g DEF GoodSizes
  <2> HIDE DEF type
  <2> QED  BY <1>t, <2>1, <2>2, TypeBecomesKeeps
<1>7. CASE UNCHANGED vars
  <2>1. /\ field' = field /\ ethType' = ethType /\ ipProto' = ipProto /\ range' = range
        /\ cur' = cur /\ min_set' = min_set /\ commands' = commands
        /\ stepped' = stepped /\ steps' = steps
    BY <1>7 DEF vars, packet, history
  <2>2. TypeInv'  BY <2>1 DEF RangeInv, TypeInv, IsRange
  <2>3. ValuesStayInRange'  BY <2>1 DEF RangeInv, ValuesStayInRange
  <2>4. SizesFitTheType'  BY <2>1 DEF RangeInv, SizesFitTheType
  <2> QED  BY <2>2, <2>3, <2>4 DEF RangeInv
<1> QED  BY <1>1, <1>2, <1>3, <1>4, <1>5, <1>6, <1>7 DEF Next, Settings

\* RangeInv holds always.
LEMMA RangeInvHolds == Spec => []RangeInv
  BY InitRange, NextRange, PTL DEF Spec

\* Whatever limits and increments commands set, and whatever the field was
\* before, a step (pktgen_range_ctor) takes it into its range: for all widths.
THEOREM RangeIsKept == Spec => []ValuesStayInRange
<1>1. RangeInv => ValuesStayInRange  BY DEF RangeInv
<1> QED  BY <1>1, RangeInvHolds, PTL

\* Whatever the order of types and sizes, frames hold their headers and are not
\* longer than a port takes (range_set_pkt_size, range_set_pkt_type).
THEOREM SizesAreGood == Spec => []SizesFitTheType
<1>1. RangeInv => SizesFitTheType  BY DEF RangeInv
<1> QED  BY <1>1, RangeInvHolds, PTL
-----------------------------------------------------------------------------
(***************************************************************************)
(* All values of a range come around.                                      *)
(***************************************************************************)

\* No sum of a step from the range wraps.
Calm ==
    /\ range.inc > 0 /\ range.min <= range.max
    /\ range.max + range.inc < Arithmetic(field, ethType)

Rounds == (range.max - range.min) \div range.inc + 1
Value(k) == range.min + k * range.inc
Came(n) == \A k \in 0 .. n : Value(k) \in sent

\* The code of this type has yet to count from 0 at the minimum, which happens
\* to vlan ids that begin at 1.
Awaits == field = "vlan_id" /\ ~min_set[ethType] /\ range.min = MIN_VLAN_ID

\* On the way to the minimum, from wherever the packet was: one increment per
\* step, and one round more from 0 if the minimum was met with that to come.
Approaches ==
    IF Awaits THEN \/ cur > range.min /\ steps * range.inc <= cur - range.min
                   \/ cur = range.min /\ steps <= Rounds
    ELSE steps * range.inc <= Rounds * range.inc + (cur - range.min) + 1

\* On the way from the minimum to the last of the values.
Climbs ==
    /\ ~Awaits
    /\ \E k \in 0 .. Rounds - 1 : cur = Value(k) /\ Came(k) /\ steps <= 2 * Rounds + 1 + k

VlanInv ==
    field = "vlan_id" =>
        /\ range.start >= MIN_VLAN_ID /\ range.min >= MIN_VLAN_ID
        /\ range.max >= MIN_VLAN_ID /\ cur >= MIN_VLAN_ID

AroundInv ==
    /\ ~stepped => steps = 0
    /\ stepped /\ Calm => Came(Rounds - 1) \/ Approaches \/ Climbs

\* Multiples of an increment.
LEMMA Multiples ==
    ASSUME NEW i \in Nat, NEW a \in Nat, NEW b \in Nat
    PROVE  /\ a * i \in Nat /\ (a + 1) * i = a * i + i
           /\ a <= b => a * i <= b * i
           /\ a * i < b * i => a < b
<1>1. a * i \in Nat /\ b * i \in Nat /\ (a + 1) * i = a * i + i
  OBVIOUS
<1>2. ASSUME a <= b PROVE a * i <= b * i
  <2>1. PICK d \in Nat : b = a + d  BY <1>2
  <2>2. b * i = a * i + d * i /\ d * i \in Nat  BY <2>1
  <2> QED  BY <1>1, <2>2
<1>3. ASSUME b <= a PROVE b * i <= a * i
  <2>1. PICK d \in Nat : a = b + d  BY <1>3
  <2>2. a * i = b * i + d * i /\ d * i \in Nat  BY <2>1
  <2> QED  BY <1>1, <2>2
<1> QED  BY <1>1, <1>2, <1>3

\* The quotient counts the increments that fit.
LEMMA Quotients ==
    ASSUME NEW d \in Nat, NEW i \in Nat \ {0}
    PROVE  /\ d \div i \in Nat
           /\ (d \div i) * i <= d /\ d < (d \div i + 1) * i
<1>1. /\ d \div i \in Nat /\ d % i \in 0 .. i - 1
      /\ d = i * (d \div i) + (d % i)
  OBVIOUS
<1> DEFINE q == d \div i
           r == d % i
<1>2. q \in Nat /\ r \in 0 .. i - 1 /\ d = i * q + r  BY <1>1
<1> HIDE DEF q, r
<1>3. q * i <= d /\ d < (q + 1) * i  BY <1>2
<1> QED  BY <1>2, <1>3 DEF q

\* The values are those of the minimum and multiples that are not above the
\* maximum.
LEMMA RoundsCount ==
    ASSUME range.min \in Nat, range.max \in Nat, range.inc \in Nat, Calm
    PROVE  /\ Rounds \in Nat \ {0}
           /\ range.max - range.min < Rounds * range.inc
           /\ range.inc <= Rounds * range.inc
           /\ \A k \in Nat : k < Rounds <=> Value(k) <= range.max
<1> DEFINE d == range.max - range.min
           i == range.inc
           q == d \div i
<1>1. d \in Nat /\ i \in Nat \ {0}  BY DEF Calm
<1>2. Rounds = q + 1 /\ range.max = range.min + d  BY DEF Rounds, Calm
<1> HIDE DEF d, i
<1>3. q \in Nat /\ q * i <= d /\ d < (q + 1) * i  BY <1>1, Quotients
<1> HIDE DEF q
<1>4. i <= (q + 1) * i
  BY <1>1, <1>3, Multiples
<1>5. ASSUME NEW k \in Nat PROVE k < q + 1 <=> range.min + k * i <= range.max
  <2>0. k * i \in Nat  BY <1>1, Multiples
  <2>1. CASE k <= q
    <3>1. k * i <= q * i  BY <1>1, <1>3, <2>1, Multiples
    <3> QED  BY <1>1, <1>2, <1>3, <2>0, <2>1, <3>1
  <2>2. CASE q + 1 <= k
    <3>1. (q + 1) * i <= k * i  BY <1>1, <1>3, <2>2, Multiples
    <3> QED  BY <1>1, <1>2, <1>3, <2>0, <2>2, <3>1
  <2> QED  BY <1>3, <2>1, <2>2
<1> QED  BY <1>1, <1>2, <1>3, <1>4, <1>5 DEF i, d, Value

\* Vlan ids are never below 1: range_set_vlan_id takes no other.
LEMMA StepKeepsVlan ==
    ASSUME RangeInv, VlanInv, Step
    PROVE  VlanInv'
<1> SUFFICES ASSUME field = "vlan_id" PROVE VlanInv'
  BY DEF VlanInv, Step
<1>1. /\ field' = field /\ range' = range /\ cur' = Stepped  BY DEF Step
<1>2. /\ field \in Fields /\ ethType \in Types /\ IsRange(range, ethType)
      /\ cur \in 0 .. Size(field, ethType) - 1 /\ min_set \in [Types -> BOOLEAN]
  BY DEF RangeInv, TypeInv
<1>3. Stepped \in {range.start, range.min, range.max} \cup (range.min .. range.max)
  BY <1>2, SteppedFits
<1>4. Size(field, ethType) \in Nat  BY <1>2, SizesArePositive
<1>5. range.start \in Nat /\ range.min \in Nat /\ range.max \in Nat
  BY <1>2, <1>4, RangeFields
<1> QED  BY <1>1, <1>3, <1>5 DEF VlanInv, MIN_VLAN_ID

\* A vlan id that range_set_vlan_id stores.
LEMMA VlanSetter ==
    ASSUME field = "vlan_id", ethType \in Types, NEW r, IsRange(r, ethType),
           r.start >= MIN_VLAN_ID /\ r.min >= MIN_VLAN_ID /\ r.max >= MIN_VLAN_ID,
           NEW what \in Settings, NEW n \in Nat
    PROVE  LET s == Setter(r, what, n) IN
           s.start >= MIN_VLAN_ID /\ s.min >= MIN_VLAN_ID /\ s.max >= MIN_VLAN_ID
<1> DEFINE id == n % U16
           w == IF what = "inc" THEN Least(id, MAX_INC)
                ELSE IF id \in MIN_VLAN_ID .. MAX_VLAN_ID THEN id ELSE MIN_VLAN_ID
<1>1. Setter(r, what, n) = Put(r, what, w)
  <2>1. Setter(r, what, n) = range_set_vlan_id(r, what, n)  BY Zenon, SetterOfField
  <2>2. range_set_vlan_id(r, what, n) = Put(r, what, w)  BY Zenon DEF range_set_vlan_id
  <2> QED  BY <2>1, <2>2
<1>2. id \in Nat
  <2>1. n % U16 \in 0 .. U16 - 1  BY Remainders, RangeAssumption
  <2> QED  BY <2>1, RangeAssumption
<1> HIDE DEF id
<1>4. what # "inc" => w >= MIN_VLAN_ID  BY <1>2 DEF MIN_VLAN_ID
<1> HIDE DEF w
<1>5. PICK start, min, max, inc : r = RangeOf(start, min, max, inc)
  BY DEF IsRange
<1>6. Put(r, what, w) \in {RangeOf(w, min, max, inc), RangeOf(start, w, max, inc),
                           RangeOf(start, min, w, inc), RangeOf(start, min, max, w)}
      /\ (what = "inc" => Put(r, what, w) = RangeOf(start, min, max, w))
  BY <1>5 DEF Put, RangeOf, Settings
<1>7. start >= MIN_VLAN_ID /\ min >= MIN_VLAN_ID /\ max >= MIN_VLAN_ID
  BY <1>5 DEF RangeOf
<1> QED  BY <1>1, <1>4, <1>6, <1>7 DEF RangeOf

\* A command that sets the range, and one that changes the packet.
LEMMA SetRangeKeepsVlan ==
    ASSUME VlanInv, NEW r, NEW starts, SetRange(r, starts),
           field = "vlan_id" =>
               r.start >= MIN_VLAN_ID /\ r.min >= MIN_VLAN_ID /\ r.max >= MIN_VLAN_ID
    PROVE  VlanInv'
  BY DEF VlanInv, SetRange, Command, MacFields

LEMMA TypeBecomesKeepsVlan ==
    ASSUME VlanInv, NEW type, NEW r, TypeBecomes(type, r), Command,
           field = "vlan_id" => r = range
    PROVE  VlanInv'
  BY DEF VlanInv, TypeBecomes, Command, AddrFields

LEMMA NextVlan == RangeInv /\ VlanInv /\ [Next]_vars => VlanInv'
<1> SUFFICES ASSUME RangeInv, VlanInv, [Next]_vars PROVE VlanInv'  OBVIOUS
<1> DEFINE Good(r) == /\ IsRange(r, ethType)
                      /\ field = "vlan_id" =>
                           r.start >= MIN_VLAN_ID /\ r.min >= MIN_VLAN_ID /\ r.max >= MIN_VLAN_ID
<1>t. field \in Fields /\ ethType \in Types /\ IsRange(range, ethType)
  BY DEF RangeInv, TypeInv
<1>g. Good(range)  BY <1>t DEF VlanInv
<1>s. \A r : Good(r) => \A what \in Settings, n \in Nat : Good(Setter(r, what, n))
  BY <1>t, SetterKeepsRange, VlanSetter
<1>r. \A r, starts : Good(r) /\ SetRange(r, starts) => VlanInv'
  BY SetRangeKeepsVlan
<1> HIDE DEF Good
<1>n. ASSUME NEW n \in Nat PROVE n % U16 \in Nat
  <2>1. n % U16 \in 0 .. U16 - 1  BY Remainders, RangeAssumption
  <2> QED  BY <2>1, RangeAssumption
<1>1. CASE Step
  BY <1>1, StepKeepsVlan
<1>2. ASSUME NEW what \in Settings, NEW n \in Numbers, range_cmd(what, n) PROVE VlanInv'
  <2> DEFINE passed == CASE field = "gtpu_teid" /\ what # "inc" -> n % U16
                         [] field = "pkt_size" /\ what = "inc" -> 0
                         [] OTHER -> n
  <2>1. n \in Nat  BY RangeAssumption
  <2>2. passed \in Nat  BY <1>n, <2>1
  <2>3. SetRange(Setter(range, what, passed), what = "start")  BY <1>2 DEF range_cmd
  <2> HIDE DEF passed
  <2> QED  BY <1>g, <1>s, <1>r, <2>2, <2>3
<1>3. ASSUME NEW what \in Settings, NEW n \in Numbers, lua_range(what, n) PROVE VlanInv'
  <2>1. n \in Nat  BY RangeAssumption
  <2> QED  BY <1>3, <1>g, <1>s, <1>r, <2>1 DEF lua_range
<1>4. ASSUME NEW q \in Quadruples, range_cmd_all(q[1], q[2], q[3], q[4]) PROVE VlanInv'
  <2> DEFINE Id(n) == IF field = "gtpu_teid" THEN n % U16 ELSE n
             r1 == Setter(range, "start", Id(q[1]))
             r2 == Setter(r1, "min", Id(q[2]))
             r3 == Setter(r2, "max", Id(q[3]))
             r4 == Setter(r3, "inc", q[4])
  <2>1. q[1] \in Nat /\ q[2] \in Nat /\ q[3] \in Nat /\ q[4] \in Nat
    BY RangeAssumption
  <2>2. Id(q[1]) \in Nat /\ Id(q[2]) \in Nat /\ Id(q[3]) \in Nat
    BY <1>n, <2>1
  <2>3. SetRange(r4, TRUE)
    BY <1>4 DEF range_cmd_all
  <2> HIDE DEF Id
  <2>4. Good(r1)  BY <1>g, <1>s, <2>2 DEF Settings
  <2> HIDE DEF r1
  <2>5. Good(r2)  BY <1>s, <2>2, <2>4 DEF Settings
  <2> HIDE DEF r2
  <2>6. Good(r3)  BY <1>s, <2>2, <2>5 DEF Settings
  <2> HIDE DEF r3
  <2>7. Good(r4)  BY <1>s, <2>1, <2>6 DEF Settings
  <2> HIDE DEF r4
  <2> QED  BY <1>r, <2>3, <2>7
<1>5. ASSUME NEW type \in Types, range_set_pkt_type(type) PROVE VlanInv'
  BY <1>5, TypeBecomesKeepsVlan DEF range_set_pkt_type
<1>6. ASSUME NEW proto \in Protos, range_set_proto(proto) PROVE VlanInv'
  BY <1>6, TypeBecomesKeepsVlan DEF range_set_proto
<1>7. CASE UNCHANGED vars
  BY <1>7 DEF vars, VlanInv
<1> QED  BY <1>1, <1>2, <1>3, <1>4, <1>5, <1>6, <1>7 DEF Next, Settings

\* What AroundInv's parts are made of.
LEMMA RangeNumbers ==
    ASSUME RangeInv
    PROVE  /\ range.start \in Nat /\ range.min \in Nat /\ range.max \in Nat
           /\ range.inc \in Nat /\ cur \in Nat /\ steps \in Nat /\ stepped \in BOOLEAN
           /\ Arithmetic(field, ethType) \in Nat \ {0}
           /\ field \in Fields /\ ethType \in Types /\ min_set \in [Types -> BOOLEAN]
           /\ field = "vlan_id" =>
                /\ cur < U16 /\ range.inc < U16 /\ Arithmetic(field, ethType) = U32
<1>1. /\ field \in Fields /\ ethType \in Types /\ IsRange(range, ethType)
      /\ cur \in 0 .. Size(field, ethType) - 1 /\ min_set \in [Types -> BOOLEAN]
      /\ steps \in Nat /\ stepped \in BOOLEAN
  BY DEF RangeInv, TypeInv
<1>2. /\ Size(field, ethType) \in Nat /\ IncSize(field, ethType) \in Nat
      /\ Arithmetic(field, ethType) \in Nat \ {0}
  BY <1>1, SizesArePositive
<1>3. /\ range.start \in 0 .. Size(field, ethType) - 1
      /\ range.min \in 0 .. Size(field, ethType) - 1
      /\ range.max \in 0 .. Size(field, ethType) - 1
      /\ range.inc \in 0 .. IncSize(field, ethType) - 1
  BY <1>1, RangeFields
<1>4. field = "vlan_id" =>
        /\ Size(field, ethType) = U16 /\ IncSize(field, ethType) = U16
        /\ Arithmetic(field, ethType) = U32
  BY DEF Size, IncSize, Arithmetic, TcpFields, AddrFields, PortFields
<1> QED  BY <1>1, <1>2, <1>3, <1>4

\* A remainder of what fits.
LEMMA NoWrap ==
    ASSUME NEW n \in Nat, NEW m \in Nat \ {0}, n < m
    PROVE  n % m = n
  OBVIOUS

\* A step from the range, when no sum wraps: the next value or the minimum.
LEMMA CalmStep ==
    ASSUME RangeInv, Calm, ~FirstFromZero, range.min <= cur,
           cur + range.inc < Arithmetic(field, ethType)
    PROVE  Stepped = IF cur + range.inc <= range.max THEN cur + range.inc ELSE range.min
<1>1. /\ range.min \in Nat /\ range.max \in Nat /\ range.inc \in Nat /\ cur \in Nat
      /\ Arithmetic(field, ethType) \in Nat \ {0}
  BY RangeNumbers
<1>2. Sum = cur + range.inc
  <2> DEFINE all == cur + range.inc
             m == Arithmetic(field, ethType)
  <2>1. Sum = all % m  BY DEF Sum
  <2>2. all \in Nat /\ m \in Nat \ {0} /\ all < m  BY <1>1
  <2> HIDE DEF all, m
  <2>3. all % m = all  BY <2>2, NoWrap
  <2> QED  BY <2>1, <2>3 DEF all
<1> QED  BY <1>1, <1>2 DEF Stepped, Calm

\* What a step makes of the history.
LEMMA StepOf ==
    ASSUME RangeInv, Calm, Step
    PROVE  /\ field' = field /\ ethType' = ethType /\ range' = range /\ cur' = Stepped
           /\ stepped' = TRUE /\ steps' \in Nat /\ steps' <= steps + 1
           /\ sent' = sent \cup {Stepped}
           /\ min_set'[ethType] = (min_set[ethType] \/ FirstFromZero)
<1>1. /\ steps \in Nat /\ ethType \in Types /\ min_set \in [Types -> BOOLEAN]
  BY RangeNumbers
<1>2. steps' \in Nat /\ steps' <= steps + 1
  BY <1>1, RangeAssumption DEF Step, Least
<1>3. range.inc # 0
  <2>1. range.inc \in Nat  BY RangeNumbers
  <2> QED  BY <2>1 DEF Calm
<1>4. min_set'[ethType] = (min_set[ethType] \/ FirstFromZero)
  <2>1. min_set' = [min_set EXCEPT ![ethType] =
                       min_set[ethType] \/ (range.inc # 0 /\ FirstFromZero)]
    BY DEF Step
  <2>2. (min_set[ethType] \/ (range.inc # 0 /\ FirstFromZero)) <=> (min_set[ethType] \/ FirstFromZero)
    BY <1>3
  <2>3. min_set[ethType] \in BOOLEAN  BY <1>1
  <2>4. min_set'[ethType] = (min_set[ethType] \/ (range.inc # 0 /\ FirstFromZero))
    BY <1>1, <2>1
  <2> QED  BY <2>2, <2>3, <2>4
<1> QED  BY <1>2, <1>4 DEF Step, packet

\* When counting from 0 changes a sum: for a vlan id at the minimum, once.
LEMMA FromZeroHere ==
    ASSUME RangeInv, VlanInv, FirstFromZero, cur >= range.min
    PROVE  (field = "vlan_id" /\ Awaits /\ cur = range.min) \/ cur = 0
<1>1. range.min \in Nat /\ cur \in Nat  BY RangeNumbers
<1> QED  BY <1>1 DEF FirstFromZero, Awaits, VlanInv, MIN_VLAN_ID

\* From zero or not, a field at 0 is increased from 0.
LEMMA StepWithin ==
    ASSUME RangeInv, VlanInv, Calm, cur \in range.min .. range.max, ~(Awaits /\ cur = range.min)
    PROVE  Stepped = IF cur + range.inc <= range.max THEN cur + range.inc ELSE range.min
<1>1. /\ range.min \in Nat /\ range.max \in Nat /\ range.inc \in Nat /\ cur \in Nat
      /\ Arithmetic(field, ethType) \in Nat \ {0}
  BY RangeNumbers
<1>2. cur + range.inc < Arithmetic(field, ethType)  BY <1>1 DEF Calm
<1>3. CASE ~FirstFromZero
  BY <1>1, <1>2, <1>3, CalmStep
<1>4. CASE FirstFromZero
  <2>1. cur = 0  BY <1>1, <1>4, FromZeroHere
  <2> DEFINE all == range.inc
             m == Arithmetic(field, ethType)
  <2>2. Sum = all % m  BY <1>1, <1>4 DEF Sum
  <2>3. all \in Nat /\ m \in Nat \ {0} /\ all < m  BY <1>1, <1>2
  <2>4. Sum = range.inc
    <3> HIDE DEF all, m
    <3>1. all % m = all  BY <2>3, NoWrap
    <3> QED  BY <2>2, <3>1 DEF all
  <2> QED  BY <1>1, <2>1, <2>4 DEF Stepped, Calm
<1> QED  BY <1>3, <1>4

\* The first step after a command, from wherever the packet was.
LEMMA FirstStep ==
    ASSUME RangeInv, VlanInv, AroundInv, Calm, Step, ~stepped
    PROVE  Approaches'
<1> DEFINE i == range.inc
           R == Rounds
<1>1. /\ range.min \in Nat /\ range.max \in Nat /\ i \in Nat /\ cur \in Nat
      /\ ethType \in Types /\ min_set \in [Types -> BOOLEAN]
      /\ field = "vlan_id" => cur < U16 /\ i < U16 /\ Arithmetic(field, ethType) = U32
  BY RangeNumbers
<1>2. /\ field' = field /\ ethType' = ethType /\ range' = range /\ cur' = Stepped
      /\ steps' \in Nat /\ steps' <= 1
      /\ min_set'[ethType] = (min_set[ethType] \/ FirstFromZero)
  BY StepOf DEF AroundInv
<1>3. cur' \in Nat /\ cur' >= range.min /\ cur' <= range.max
  <2>1. ValuesStayInRange' /\ stepped'  BY StepKeeps DEF RangeInv, Step
  <2>2. cur' \in (range.min .. range.max) \cup {range.min, range.max}
    BY <1>1, <1>2, <2>1 DEF ValuesStayInRange, Calm
  <2> QED  BY <1>1, <2>2 DEF Calm
<1>4. R \in Nat \ {0} /\ i <= R * i  BY <1>1, RoundsCount
<1>5. steps' * i \in Nat /\ steps' * i <= i
  <2>1. steps' * i \in Nat /\ steps' * i <= 1 * i  BY <1>1, <1>2, Multiples
  <2>2. 1 * i = i  BY <1>1
  <2> QED  BY <2>1, <2>2
<1>6. R' = R  BY <1>2 DEF Rounds
<1>7. CASE Awaits'
  <2>1. field = "vlan_id" /\ range.min = 1 /\ ~FirstFromZero
    BY <1>2, <1>7 DEF Awaits, MIN_VLAN_ID
  <2>2. cur >= range.min  BY <2>1 DEF VlanInv, MIN_VLAN_ID
  <2>3. cur + i < Arithmetic(field, ethType)
    BY <1>1, <2>1, RangeAssumption
  <2>4. cur' = IF cur + i <= range.max THEN cur + i ELSE range.min
    BY <1>2, <2>1, <2>2, <2>3, CalmStep
  <2>5. CASE cur + i <= range.max
    <3>1. cur' > range.min /\ steps' * i <= cur' - range.min
      BY <1>1, <1>5, <2>2, <2>4, <2>5 DEF Calm
    <3> QED  BY <1>2, <1>7, <3>1 DEF Approaches
  <2>6. CASE ~(cur + i <= range.max)
    <3>1. cur' = range.min /\ steps' <= R'
      BY <1>2, <1>4, <1>6, <2>4, <2>6
    <3> QED  BY <1>2, <1>7, <3>1 DEF Approaches
  <2> QED  BY <2>5, <2>6
<1>8. CASE ~Awaits'
  <2>1. steps' * i <= R * i + (cur' - range.min) + 1
    <3> DEFINE s == steps' * i
               t == R * i
    <3>1. s \in Nat /\ s <= i /\ t \in Nat /\ i <= t  BY <1>1, <1>4, <1>5
    <3> HIDE DEF s, t, i
    <3>2. s <= t + (cur' - range.min) + 1  BY <1>1, <1>3, <3>1
    <3> QED  BY <3>2 DEF s, t
  <2>2. steps' * range'.inc <= Rounds' * range'.inc + (cur' - range'.min) + 1
    BY <1>2, <1>6, <2>1
  <2> QED  BY <1>8, <2>2 DEF Approaches
<1> QED  BY <1>7, <1>8

\* A value once sent stays sent, and so does the one that is sent now.
LEMMA SentGrows ==
    ASSUME RangeInv, Calm, Step, NEW n \in Nat
    PROVE  /\ Came(n) => Came(n)'
           /\ n > 0 /\ Came(n - 1) /\ cur' = Value(n) => Came(n)'
           /\ cur' = Value(0) => Came(0)'
<1>1. range' = range /\ cur' = Stepped /\ sent' = sent \cup {Stepped}  BY StepOf
<1>2. \A k : Value(k)' = Value(k)  BY <1>1 DEF Value
<1>3. Came(n) => Came(n)'  BY <1>1, <1>2 DEF Came
<1>4. ASSUME n > 0, Came(n - 1), cur' = Value(n) PROVE Came(n)'
  <2> SUFFICES ASSUME NEW k \in 0 .. n PROVE Value(k) \in sent'
    BY <1>2 DEF Came
  <2>1. CASE k = n  BY <1>1, <1>4, <2>1
  <2>2. CASE k # n
    <3>1. k \in 0 .. n - 1  BY <2>2
    <3> QED  BY <1>1, <1>4, <3>1 DEF Came
  <2> QED  BY <2>1, <2>2
<1>5. ASSUME cur' = Value(0) PROVE Came(0)'
  <2> SUFFICES ASSUME NEW k \in 0 .. 0 PROVE Value(k) \in sent'
    BY <1>2 DEF Came
  <2>1. k = 0  OBVIOUS
  <2> QED  BY <1>1, <1>5, <2>1
<1> QED  BY <1>3, <1>4, <1>5

\* What is at the minimum begins to climb.
LEMMA FromTheMinimum ==
    ASSUME RangeInv, Calm, Step, ~Awaits', cur' = range.min, steps' <= 2 * Rounds + 1
    PROVE  Climbs'
<1>1. /\ range.min \in Nat /\ range.max \in Nat /\ range.inc \in Nat  BY RangeNumbers
<1>2. range' = range /\ steps' \in Nat  BY StepOf
<1>3. Rounds \in Nat \ {0}  BY <1>1, RoundsCount
<1>4. Rounds' = Rounds /\ Value(0)' = Value(0)  BY <1>2 DEF Rounds, Value
<1>5. Value(0) = range.min
  <2>1. 0 * range.inc = 0  BY <1>1
  <2> QED  BY <1>1, <2>1 DEF Value
<1>6. Came(0)'  BY <1>5, SentGrows
<1>7. 0 \in 0 .. Rounds' - 1 /\ steps' <= 2 * Rounds' + 1 + 0
  BY <1>2, <1>3, <1>4
<1> QED  BY <1>4, <1>5, <1>6, <1>7 DEF Climbs

\* A step on the way to the minimum, with counting from 0 still to come.
LEMMA StepAwaiting ==
    ASSUME RangeInv, VlanInv, AroundInv, Calm, Step, stepped, Awaits, Approaches
    PROVE  Approaches' \/ Climbs'
<1> DEFINE i == range.inc
           R == Rounds
           s == steps * i
           t == R * i
<1>1. /\ range.min \in Nat /\ range.max \in Nat /\ i \in Nat /\ cur \in Nat /\ steps \in Nat
      /\ ethType \in Types /\ min_set \in [Types -> BOOLEAN]
      /\ Arithmetic(field, ethType) \in Nat \ {0}
  BY RangeNumbers
<1>2. /\ field' = field /\ ethType' = ethType /\ range' = range /\ cur' = Stepped
      /\ steps' \in Nat /\ steps' <= steps + 1
      /\ min_set'[ethType] = (min_set[ethType] \/ FirstFromZero)
  BY StepOf
<1>3. cur >= range.min /\ cur <= range.max
  BY <1>1 DEF RangeInv, ValuesStayInRange, Calm
<1>4. /\ R \in Nat \ {0} /\ i <= t /\ range.max - range.min < t
  BY <1>1, RoundsCount
<1>5. s \in Nat /\ t \in Nat /\ steps' * i \in Nat /\ steps' * i <= s + i
  <2>1. steps' * i <= (steps + 1) * i  BY <1>1, <1>2, Multiples
  <2>2. (steps + 1) * i = s + i /\ s \in Nat  BY <1>1, Multiples
  <2>3. steps' * i \in Nat /\ t \in Nat  BY <1>1, <1>2, <1>4, Multiples
  <2> QED  BY <2>1, <2>2, <2>3
<1>6. R' = R  BY <1>2 DEF Rounds
<1>7. field = "vlan_id" /\ range.min = 1 /\ ~min_set[ethType]  BY DEF Awaits, MIN_VLAN_ID
<1>8. CASE cur > range.min
  <2>1. s <= cur - range.min  BY <1>1, <1>8 DEF Approaches
  <2>2. ~FirstFromZero  BY <1>7, <1>8, <1>1 DEF FirstFromZero, MIN_VLAN_ID
  <2>3. Awaits'  BY <1>2, <1>7, <2>2 DEF Awaits, MIN_VLAN_ID
  <2>4. cur' = IF cur + i <= range.max THEN cur + i ELSE range.min
    BY <1>1, <1>2, <1>3, <1>8, StepWithin
  <2>5. CASE cur + i <= range.max
    <3>1. cur' > range.min /\ steps' * i <= cur' - range.min
      <4> DEFINE u == steps' * i
      <4>1. u \in Nat /\ u <= s + i /\ s \in Nat  BY <1>5
      <4> HIDE DEF u, s, t
      <4> QED  BY <1>1, <1>8, <2>1, <2>4, <2>5, <4>1 DEF u
    <3> QED  BY <1>2, <2>3, <3>1 DEF Approaches
  <2>6. CASE ~(cur + i <= range.max)
    <3>1. s < t
      <4> HIDE DEF s, t
      <4> QED  BY <1>1, <1>3, <1>4, <1>5, <2>1
    <3>2. steps < R  BY <1>1, <1>4, <3>1, Multiples
    <3>3. cur' = range.min /\ steps' <= R'
      BY <1>1, <1>2, <1>4, <1>6, <2>4, <2>6, <3>2
    <3> QED  BY <1>2, <2>3, <3>3 DEF Approaches
  <2> QED  BY <2>5, <2>6
<1>9. CASE cur = range.min
  <2>1. steps <= R  BY <1>1, <1>9 DEF Approaches
  <2>2. FirstFromZero  BY <1>7, <1>9 DEF FirstFromZero, MIN_VLAN_ID
  <2>3. ~Awaits'  BY <1>2, <2>2 DEF Awaits
  <2>4. Sum = i
    <3> DEFINE m == Arithmetic(field, ethType)
    <3>1. Sum = i % m  BY <1>1, <2>2 DEF Sum
    <3>2. m \in Nat \ {0} /\ i < m  BY <1>1 DEF Calm
    <3> HIDE DEF m, i
    <3>3. i % m = i  BY <1>1, <3>2, NoWrap
    <3> QED  BY <3>1, <3>3
  <2>5. cur' = IF i <= range.max THEN i ELSE range.min
    BY <1>1, <1>2, <1>7, <2>4 DEF Stepped, Calm
  <2>6. CASE i <= range.max
    <3>1. steps' * i <= t + (cur' - range.min) + 1
      <4>1. s <= t  BY <1>1, <1>4, <2>1, Multiples
      <4> DEFINE u == steps' * i
      <4>2. u \in Nat /\ u <= s + i /\ s \in Nat /\ t \in Nat  BY <1>5
      <4> HIDE DEF u, s, t
      <4> QED  BY <1>1, <1>7, <2>5, <2>6, <4>1, <4>2 DEF u
    <3>2. steps' * range'.inc <= Rounds' * range'.inc + (cur' - range'.min) + 1
      BY <1>2, <1>6, <3>1
    <3> QED  BY <2>3, <3>2 DEF Approaches
  <2>7. CASE ~(i <= range.max)
    <3>1. cur' = range.min /\ steps' <= 2 * R + 1
      BY <1>1, <1>2, <1>4, <2>1, <2>5, <2>7
    <3> QED  BY <2>3, <3>1, FromTheMinimum
  <2> QED  BY <2>6, <2>7
<1> QED  BY <1>1, <1>3, <1>8, <1>9

\* A step on the way to the minimum.
LEMMA StepApproaching ==
    ASSUME RangeInv, VlanInv, AroundInv, Calm, Step, stepped, ~Awaits, Approaches
    PROVE  Approaches' \/ Climbs'
<1> DEFINE i == range.inc
           R == Rounds
           s == steps * i
           t == R * i
<1>1. /\ range.min \in Nat /\ range.max \in Nat /\ i \in Nat \ {0} /\ cur \in Nat /\ steps \in Nat
      /\ ethType \in Types /\ min_set \in [Types -> BOOLEAN]
  BY RangeNumbers DEF Calm
<1>2. /\ field' = field /\ ethType' = ethType /\ range' = range /\ cur' = Stepped
      /\ steps' \in Nat /\ steps' <= steps + 1
      /\ min_set'[ethType] = (min_set[ethType] \/ FirstFromZero)
  BY StepOf
<1>3. cur >= range.min /\ cur <= range.max
  BY <1>1 DEF RangeInv, ValuesStayInRange, Calm
<1>4. /\ R \in Nat \ {0} /\ range.max - range.min < t
  BY <1>1, RoundsCount
<1>5. s \in Nat /\ t \in Nat /\ steps' * i \in Nat /\ steps' * i <= s + i
  <2>1. steps' * i <= (steps + 1) * i  BY <1>1, <1>2, Multiples
  <2>2. (steps + 1) * i = s + i /\ s \in Nat  BY <1>1, Multiples
  <2>3. steps' * i \in Nat /\ t \in Nat  BY <1>1, <1>2, <1>4, Multiples
  <2> QED  BY <2>1, <2>2, <2>3
<1>6. R' = R  BY <1>2 DEF Rounds
<1>7. ~Awaits'  BY <1>2 DEF Awaits
<1>8. s <= t + (cur - range.min) + 1  BY DEF Approaches
<1>9. cur' = IF cur + i <= range.max THEN cur + i ELSE range.min
  BY <1>1, <1>2, <1>3, StepWithin
<1>10. CASE cur + i <= range.max
  <2>1. steps' * i <= t + (cur' - range.min) + 1
    <3> DEFINE u == steps' * i
    <3>1. u \in Nat /\ u <= s + i /\ s \in Nat /\ t \in Nat  BY <1>5
    <3> HIDE DEF u, s, t
    <3> QED  BY <1>1, <1>8, <1>9, <1>10, <3>1 DEF u
  <2>2. steps' * range'.inc <= Rounds' * range'.inc + (cur' - range'.min) + 1
    BY <1>2, <1>6, <2>1
  <2> QED  BY <1>7, <2>2 DEF Approaches
<1>11. CASE ~(cur + i <= range.max)
  <2>1. s <= (2 * R) * i
    <3>1. (2 * R) * i = t + t  BY <1>1, <1>4
    <3>2. s <= t + t
      <4> HIDE DEF s, t
      <4> QED  BY <1>1, <1>3, <1>4, <1>5, <1>8
    <3> QED  BY <3>1, <3>2
  <2>2. steps <= 2 * R
    <3>1. CASE 2 * R + 1 <= steps
      <4>1. (2 * R + 1) * i <= s /\ (2 * R + 1) * i = (2 * R) * i + i
        BY <1>1, <1>4, <3>1, Multiples
      <4>2. (2 * R) * i \in Nat  BY <1>1, <1>4, Multiples
      <4> DEFINE w == (2 * R) * i
      <4>3. w + i <= s /\ s <= w /\ w \in Nat  BY <2>1, <4>1, <4>2
      <4> HIDE DEF w, s
      <4> QED  BY <1>1, <1>5, <4>3
    <3> QED  BY <1>1, <1>4, <3>1
  <2>3. cur' = range.min /\ steps' <= 2 * R + 1
    BY <1>1, <1>2, <1>4, <1>9, <1>11, <2>2
  <2> QED  BY <1>7, <2>3, FromTheMinimum
<1> QED  BY <1>10, <1>11

\* A step on the way from the minimum to the last of the values.
LEMMA StepClimbing ==
    ASSUME RangeInv, VlanInv, Calm, Step, stepped, Climbs, ~Came(Rounds - 1)
    PROVE  Climbs'
<1> DEFINE i == range.inc
           R == Rounds
<1>1. /\ range.min \in Nat /\ range.max \in Nat /\ i \in Nat \ {0} /\ cur \in Nat /\ steps \in Nat
  BY RangeNumbers DEF Calm
<1>2. /\ field' = field /\ ethType' = ethType /\ range' = range /\ cur' = Stepped
      /\ steps' \in Nat /\ steps' <= steps + 1
      /\ min_set'[ethType] = (min_set[ethType] \/ FirstFromZero)
  BY StepOf
<1>3. cur >= range.min /\ cur <= range.max
  BY <1>1 DEF RangeInv, ValuesStayInRange, Calm
<1>4. R \in Nat \ {0} /\ \A k \in Nat : k < R <=> Value(k) <= range.max
  BY <1>1, RoundsCount
<1>5. R' = R /\ \A k : Value(k)' = Value(k)  BY <1>2 DEF Rounds, Value
<1>6. ~Awaits /\ ~Awaits'  BY <1>2 DEF Awaits, Climbs
<1>7. PICK k \in 0 .. R - 1 : cur = Value(k) /\ Came(k) /\ steps <= 2 * R + 1 + k
  BY DEF Climbs
<1>8. k \in Nat /\ k + 1 < R
  <2>1. k \in 0 .. R - 1 /\ R \in Nat  BY <1>4, <1>7
  <2>2. k # R - 1  BY <1>7
  <2> QED  BY <2>1, <2>2
<1>9. Value(k + 1) = cur + i /\ Value(k + 1) <= range.max
  <2>1. (k + 1) * i = k * i + i /\ k * i \in Nat  BY <1>1, <1>8, Multiples
  <2>2. Value(k + 1) = Value(k) + i  BY <1>1, <2>1 DEF Value
  <2> QED  BY <1>4, <1>7, <1>8, <2>2
<1>10. cur' = Value(k + 1)
  BY <1>1, <1>2, <1>3, <1>6, <1>9, StepWithin
<1>11. Came(k + 1)'
  <2>1. k + 1 \in Nat /\ k + 1 > 0 /\ (k + 1) - 1 = k  BY <1>8
  <2> QED  BY <1>7, <1>10, <2>1, SentGrows
<1>12. k + 1 \in 0 .. R' - 1 /\ steps' <= 2 * R' + 1 + (k + 1)
  BY <1>1, <1>2, <1>4, <1>5, <1>7, <1>8
<1> QED  BY <1>5, <1>6, <1>10, <1>11, <1>12 DEF Climbs

LEMMA StepKeepsAround ==
    ASSUME RangeInv, VlanInv, AroundInv, Step
    PROVE  AroundInv'
<1>1. stepped'  BY DEF Step
<1>2. ASSUME Calm' PROVE (Came(Rounds - 1) \/ Approaches \/ Climbs)'
  <2>1. range' = range /\ field' = field /\ ethType' = ethType  BY DEF Step, packet
  <2>2. Calm  BY <1>2, <2>1 DEF Calm, Arithmetic, Size
  <2>3. CASE ~stepped
    BY <2>2, <2>3, FirstStep
  <2>4. CASE stepped /\ Came(Rounds - 1)
    <3>1. Rounds - 1 \in Nat
      <4>1. range.min \in Nat /\ range.max \in Nat /\ range.inc \in Nat  BY RangeNumbers
      <4> QED  BY <2>2, <4>1, RoundsCount
    <3>2. Rounds' = Rounds  BY <2>1 DEF Rounds
    <3> DEFINE n == Rounds - 1
    <3>3. n \in Nat /\ n' = n /\ Came(n)  BY <2>4, <3>1, <3>2
    <3>4. \A m \in Nat : Came(m) => Came(m)'  BY <2>2, SentGrows
    <3>5. Came(n)'
      <4>1. \A k : Value(k)' = Value(k)  BY <2>1 DEF Value
      <4>2. sent \subseteq sent'  BY <2>2, StepOf
      <4> QED  BY <3>2, <3>3, <4>1, <4>2 DEF Came
    <3> QED  BY <3>5
  <2>5. CASE stepped /\ ~Came(Rounds - 1)
    <3>1. Approaches \/ Climbs  BY <2>2, <2>5 DEF AroundInv
    <3>2. CASE Approaches  BY <2>2, <2>5, <3>2, StepAwaiting, StepApproaching
    <3>3. CASE Climbs  BY <2>2, <2>5, <3>3, StepClimbing
    <3> QED  BY <3>1, <3>2, <3>3
  <2>6. stepped \in BOOLEAN  BY RangeNumbers
  <2> QED  BY <2>3, <2>4, <2>5, <2>6
<1> QED  BY <1>1, <1>2 DEF AroundInv

\* A command starts the count again.
LEMMA NextAround == RangeInv /\ VlanInv /\ AroundInv /\ [Next]_vars => AroundInv'
<1> SUFFICES ASSUME RangeInv, VlanInv, AroundInv, [Next]_vars PROVE AroundInv'  OBVIOUS
<1>1. CASE Step  BY <1>1, StepKeepsAround
<1>2. ASSUME Command PROVE AroundInv'
  BY <1>2 DEF Command, AroundInv
<1>3. CASE Next /\ ~Step
  <2>1. Command
    BY <1>3 DEF Next, range_cmd, lua_range, range_cmd_all, range_set_pkt_type, range_set_proto, SetRange
  <2> QED  BY <1>2, <2>1
<1>4. CASE UNCHANGED vars
  BY <1>4 DEF vars, packet, history, AroundInv, Calm, Arithmetic, Size, Came, Value, Rounds,
     Approaches, Awaits, Climbs
<1> QED  BY <1>1, <1>3, <1>4

\* After three rounds the values have come.
LEMMA AroundHolds == RangeInv /\ AroundInv => EveryValueComesAround
<1> SUFFICES ASSUME RangeInv, AroundInv, stepped, Calm, steps >= 3 * Rounds
             PROVE  Came(Rounds - 1)
  BY DEF EveryValueComesAround, Calm, Rounds, Came, Value
<1> DEFINE i == range.inc
           R == Rounds
           s == steps * i
           t == R * i
<1>1. /\ range.min \in Nat /\ range.max \in Nat /\ i \in Nat \ {0} /\ cur \in Nat /\ steps \in Nat
  BY RangeNumbers DEF Calm
<1>2. cur >= range.min /\ cur <= range.max
  BY <1>1 DEF RangeInv, ValuesStayInRange, Calm
<1>3. /\ R \in Nat \ {0} /\ range.max - range.min < t
  BY <1>1, RoundsCount
<1>4. t \in Nat /\ s \in Nat /\ t + t + t <= s
  <2>1. (3 * R) * i <= steps * i  BY <1>1, <1>3, Multiples
  <2>2. (3 * R) * i = t + t + t  BY <1>1, <1>3
  <2>3. t \in Nat /\ s \in Nat  BY <1>1, <1>3, Multiples
  <2> QED  BY <2>1, <2>2, <2>3
<1>5. CASE Approaches
  <2>1. CASE Awaits /\ cur > range.min
    <3>1. s <= cur - range.min  BY <1>1, <2>1, <1>5 DEF Approaches
    <3> HIDE DEF s, t
    <3> QED  BY <1>1, <1>2, <1>3, <1>4, <3>1
  <2>2. CASE Awaits /\ cur = range.min
    <3>1. steps <= R  BY <1>1, <1>5, <2>2 DEF Approaches
    <3> QED  BY <1>1, <1>3, <3>1
  <2>3. CASE ~Awaits
    <3>1. s <= t + (cur - range.min) + 1  BY <1>5, <2>3 DEF Approaches
    <3> HIDE DEF s, t
    <3> QED  BY <1>1, <1>2, <1>3, <1>4, <3>1
  <2> QED  BY <1>1, <1>2, <2>1, <2>2, <2>3
<1>6. CASE Climbs
  <2>1. PICK k \in 0 .. R - 1 : Came(k) /\ steps <= 2 * R + 1 + k
    BY <1>6 DEF Climbs
  <2>2. k = R - 1  BY <1>1, <1>3, <2>1
  <2> QED  BY <2>1, <2>2
<1> QED  BY <1>5, <1>6 DEF AroundInv

\* "range 0 dst ip 0.0.0.0 0.0.0.0 1.2.3.4 0.0.1.0" (commands.rst): within
\* three rounds, wherever the packet was and whatever the code of its type has
\* counted from 0, every value of the range is sent, for all widths.
THEOREM AllValuesCome == Spec => []EveryValueComesAround
<1>1. Init => RangeInv /\ VlanInv /\ AroundInv
  <2> SUFFICES ASSUME Init PROVE VlanInv /\ AroundInv  BY InitRange
  <2>1. VlanInv
    BY RangeAssumption DEF Init, VlanInv, Default, RangeOf, TcpFields, PortFields, MIN_VLAN_ID
  <2>2. AroundInv  BY DEF Init, AroundInv
  <2> QED  BY <2>1, <2>2
<1>2. /\ RangeInv /\ VlanInv /\ AroundInv /\ [Next]_vars
      => RangeInv' /\ VlanInv' /\ AroundInv'
  BY NextRange, NextVlan, NextAround
<1>3. RangeInv /\ AroundInv => EveryValueComesAround  BY AroundHolds
<1> QED  BY <1>1, <1>2, <1>3, PTL DEF Spec
=============================================================================
