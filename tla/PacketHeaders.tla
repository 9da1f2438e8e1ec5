--------------------------- MODULE PacketHeaders ---------------------------
(***************************************************************************)
(* The headers that pktgen_packet_ctor writes into the frame of a template *)
(* (pktgen-ether.c, -gre.c, -ipv4.c, -ipv6.c, -tcp.c, -udp.c, -gtpu.c).    *)
(*                                                                         *)
(* A constructor takes the template k and returns the headers it writes,   *)
(* each with the offset "at" and with what other headers must agree with:  *)
(* its length field, addresses, and what its checksum was computed from.   *)
(* ether_hdr_size is the part of the template that says how long the       *)
(* headers before the IP header are.  The bytes under the headers are a    *)
(* pattern, and the template for latency packets is left out.              *)
(***************************************************************************)
EXTENDS Naturals, Sequences

CONSTANTS
    U16,                     \* how many values 16 bits have
    VXLAN_PORT_ID, PG_IPPROTO_L4_GTPU_PORT,
    Offloads,                \* checksums that the device computes: "ipv4", "udp", "tcp"
    cksum_requires_phdr      \* the device wants the sum of the pseudo header

ASSUME HeadersAssumption ==
    /\ U16 \in Nat \ {0}
    /\ Offloads \subseteq {"ipv4", "udp", "tcp"} /\ cksum_requires_phdr \in BOOLEAN

\* Sizes of headers; those of GRE with its key.
EtherHdr == 14
TagHdr(tag) == IF tag = "qinq" THEN 8 ELSE 4
IPv4Hdr == 20
IPv6Hdr == 40
TcpHdr == 20
UdpHdr == 8
VxlanHdr == 8
GtpuHdr == 8
GreHdr == 8

Less(n, m) == (n + U16 - (m % U16)) % U16     \* n - m as 16 bits
-----------------------------------------------------------------------------
(***************************************************************************)
(* What comes before the IP header: [size, l3, headers], the new           *)
(* ether_hdr_size, the offset of the IP header and the headers.            *)
(***************************************************************************)

\* One tag at most, the first in this order.
pktgen_ether_hdr_ctor(flags, k) ==
    LET tag == IF "VLAN" \in flags THEN "vlan" ELSE IF "MPLS" \in flags THEN "mpls"
               ELSE IF "QINQ" \in flags THEN "qinq" ELSE "none"
        id == CASE tag = "vlan" -> <<k.vlanid, k.cos>> [] tag = "mpls" -> <<k.mpls>>
                [] tag = "qinq" -> k.qinq [] OTHER -> <<>>
        len == IF tag = "none" THEN EtherHdr ELSE EtherHdr + TagHdr(tag)
    IN  [size |-> len, l3 |-> len,
         headers |-> <<[name |-> "ether", at |-> 0]>>
                     \o (IF tag = "none" THEN <<>>
                         ELSE <<[name |-> tag, at |-> EtherHdr, id |-> id]>>)]

\* The outer headers of GRE.  They are put behind an Ethernet header that
\* nobody writes, and their size is added to what was there before, each time.
Gre(k, inner, len) ==
    LET written == IPv4Hdr + GreHdr + len
    IN  [size |-> (k.ether_hdr_size + written) % U16, l3 |-> EtherHdr + written,
         headers |-> <<[name |-> "outer", at |-> EtherHdr, len |-> Less(k.size, k.ether_hdr_size)],
                       [name |-> "gre", at |-> EtherHdr + IPv4Hdr, key |-> k.gre]>> \o inner]

pktgen_gre_hdr_ctor(k) == Gre(k, <<>>, 0)

pktgen_gre_ether_hdr_ctor(k) ==
    Gre(k, <<[name |-> "ether", at |-> EtherHdr + IPv4Hdr + GreHdr]>>, EtherHdr)
-----------------------------------------------------------------------------
(***************************************************************************)
(* From the IP header on, at offset l3; k has its new ether_hdr_size.      *)
(***************************************************************************)
TotalLength(k) == Less(k.size, k.ether_hdr_size)
PayloadLength(k) == Less(k.size, k.ether_hdr_size + IPv6Hdr)

pktgen_ipv4_ctor(k, l3) ==
    <<[name |-> "ipv4", at |-> l3, len |-> TotalLength(k), src |-> k.src, dst |-> k.dst,
       proto |-> k.proto, ttl |-> k.ttl, tos |-> k.tos, cksum |-> "ipv4" \notin Offloads]>>

pktgen_ipv6_ctor(k, l3) ==
    <<[name |-> "ipv6", at |-> l3, len |-> PayloadLength(k), src |-> k.src, dst |-> k.dst,
       proto |-> k.proto]>>

\* What the constructor of tcp or udp makes of its checksum.  It writes the
\* fields of the IP header that the sum is computed from, and the constructor
\* of the IP header writes them once more.
Sum(k, type, proto) ==
    LET pseudo == [src |-> k.src, dst |-> k.dst, proto |-> k.proto,
                   len |-> IF type = "ipv4" THEN TotalLength(k) ELSE PayloadLength(k)]
    IN  IF proto \notin Offloads THEN <<"all", pseudo>>
        ELSE IF type = "ipv4" /\ cksum_requires_phdr THEN <<"pseudo header", pseudo>>
        ELSE <<"none">>

IPHdr(type) == IF type = "ipv4" THEN IPv4Hdr ELSE IPv6Hdr

pktgen_tcp_hdr_ctor(k, l3, type) ==
    <<[name |-> "tcp", at |-> l3 + IPHdr(type), sport |-> k.sport, dport |-> k.dport,
       flags |-> k.tcp_flags, sum |-> Sum(k, type, "tcp")]>>

pktgen_udp_hdr_ctor(k, l3, type) ==
    LET at == l3 + IPHdr(type)
        udp == [name |-> "udp", at |-> at, sport |-> k.sport, dport |-> k.dport,
                len |-> IF type = "ipv4" THEN Less(k.size, k.ether_hdr_size + IPv4Hdr)
                        ELSE PayloadLength(k),
                sum |-> Sum(k, type, "udp")]
        vxlan == [name |-> "vxlan", at |-> at + UdpHdr, id |-> k.vxlan]
    IN  IF type = "ipv4" /\ k.dport = VXLAN_PORT_ID THEN <<udp, vxlan>> ELSE <<udp>>

\* The length of the IPv4 header is not taken off.
pktgen_gtpu_hdr_ctor(k, l3) ==
    LET l4 == IF k.proto = "udp" THEN UdpHdr ELSE TcpHdr
    IN  <<[name |-> "gtpu", at |-> l3 + IPv4Hdr + l4, teid |-> k.teid,
           len |-> Less(k.size, l4 + GtpuHdr + k.ether_hdr_size)]>>

\* The ICMP header comes as far behind the IP header as if there were one of
\* UDP, and the sum is taken from there over as much as follows the IP header.
Icmp(k, l3, type) ==
    <<[name |-> "icmp", at |-> l3 + IPv4Hdr + UdpHdr, type |-> type,
       sum |-> <<l3 + IPv4Hdr + UdpHdr, Less(k.size, k.ether_hdr_size + IPv4Hdr)>>]>>

Arp(l3) == <<[name |-> "arp", at |-> l3]>>

\* Other protocols get no header, and no IP header either.
Upper(k, l3, icmp_type) ==
    LET gtpu == k.type = "ipv4" /\ k.dport = PG_IPPROTO_L4_GTPU_PORT
        ip == IF k.type = "ipv4" THEN pktgen_ipv4_ctor(k, l3) ELSE pktgen_ipv6_ctor(k, l3)
        Tunnel == IF gtpu THEN pktgen_gtpu_hdr_ctor(k, l3) ELSE <<>>
    IN  CASE k.type \in {"ipv4", "ipv6"} /\ k.proto = "tcp" ->
                 ip \o pktgen_tcp_hdr_ctor(k, l3, k.type) \o Tunnel
          [] k.type \in {"ipv4", "ipv6"} /\ k.proto = "udp" ->
                 ip \o pktgen_udp_hdr_ctor(k, l3, k.type) \o Tunnel
          [] k.type = "ipv4" /\ k.proto = "icmp" -> ip \o Icmp(k, l3, icmp_type)
          [] k.type = "arp" -> Arp(l3)
          [] OTHER -> <<>>

Link(flags, k) ==
    CASE "GRE" \in flags -> pktgen_gre_hdr_ctor(k)
      [] "GRE" \notin flags /\ "GRE_ETHER" \in flags -> pktgen_gre_ether_hdr_ctor(k)
      [] OTHER -> pktgen_ether_hdr_ctor(flags, k)

\* pktgen_packet_ctor for a port with these flags: the frame, and the size of
\* the headers before IP that the template is left with.
EtherHdrSize(flags, k) == Link(flags, k).size

Headers(flags, k, icmp_type) ==
    LET link == Link(flags, k)
    IN  link.headers \o Upper([k EXCEPT !.ether_hdr_size = link.size], link.l3, icmp_type)
-----------------------------------------------------------------------------
(***************************************************************************)
(* What a frame of this size with these headers should be like.            *)
(***************************************************************************)
SizeOf(h) ==
    CASE h.name = "ether" -> EtherHdr
      [] h.name \in {"vlan", "mpls", "qinq"} -> TagHdr(h.name)
      [] h.name = "ipv4" -> IPv4Hdr
      [] h.name = "ipv6" -> IPv6Hdr
      [] h.name = "tcp" -> TcpHdr
      [] OTHER -> UdpHdr

\* Headers follow one another, from the first byte of the frame on; that of
\* ICMP is somewhere behind.
Contiguous(headers) ==
    /\ headers[1].name = "ether" /\ headers[1].at = 0
    /\ \A n \in 1 .. Len(headers) - 1 :
          headers[n + 1].name = "icmp" \/ headers[n + 1].at = headers[n].at + SizeOf(headers[n])

\* Every length says where the frame ends.
LengthsEndAt(headers, size) ==
    \A n \in DOMAIN headers :
        LET h == headers[n]
        IN  /\ h.name \in {"ipv4", "udp"} => h.at + h.len = size
            /\ h.name = "ipv6" => h.at + IPv6Hdr + h.len = size

\* Checksums were computed from the IP header that is in the frame.
SumsAreOfTheFrame(headers) ==
    \A n, m \in DOMAIN headers :
        LET ip == headers[n]
            h == headers[m]
        IN  ip.name \in {"ipv4", "ipv6"} /\ h.name \in {"tcp", "udp"} /\ h.sum[1] # "none" =>
                \A what \in {"src", "dst", "proto", "len"} : h.sum[2][what] = ip[what]
=============================================================================
