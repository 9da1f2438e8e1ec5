----------------------------- MODULE DeviceSetup -----------------------------
(***************************************************************************)
(* What startup makes of the options of the command line (pktgen-main.c)   *)
(* and of each device (pktgen-port-cfg.c), as functions of records.  The   *)
(* main thread runs them alone.                                            *)
(*                                                                         *)
(* A device under setup is a record d: its limits d.info, the wanted       *)
(* configuration d.conf, and what DPDK made of it.  A call DPDK refuses    *)
(* makes the program panic: d.refused.  DPDK is external; an offload and a *)
(* hash type are names.                                                    *)
(***************************************************************************)
EXTENDS Integers, Sequences, FiniteSets

ETHER_MAX_LEN == 1518
ETHER_MIN_LEN == 64
ETHER_MTU == 1500
U16_MAX == 65535
JUMBO_ETHER_MTU == 9216
JUMBO_DATAROOM == 9000
Clamp(n, low, high) == LET m == IF n < low THEN low ELSE n IN IF m > high THEN high ELSE m

-----------------------------------------------------------------------------
(***************************************************************************)
(* The command line.  An option is a record with its letter and argument.  *)
(***************************************************************************)

Defaults == [flags |-> {"PRINT_LABELS"}, rxd |-> 1024, txd |-> 1024, dataroom |-> 2048,
             host |-> "localhost", socket_port |-> 22022, \* 0x5606
             matrix |-> <<>>, pcaps |-> {}, cmdfiles |-> <<>>, log |-> "", failed |-> FALSE]

\* Later options change what earlier ones set, and a later file of a port
\* replaces its earlier one; "h", what is unknown and one -m too many end the
\* program.
ParseOption(a, o, max_maps) ==
    CASE o.opt \in {"txd", "rxd"} -> [a EXCEPT ![o.opt] = o.arg]
      [] o.opt = "j" -> [a EXCEPT !.flags = @ \cup {"JUMBO_PKTS"}, !.dataroom = JUMBO_DATAROOM]
      [] o.opt \in {"P", "N", "G", "T", "c", "v"} -> [a EXCEPT !.flags = @ \cup {o.opt}]
      [] o.opt = "g" -> [a EXCEPT !.flags = @ \cup {"G"},
                                  !.host = IF o.arg.host = "" THEN @ ELSE o.arg.host,
                                  !.socket_port = IF o.arg.port = 0 THEN @ ELSE o.arg.port]
      [] o.opt = "f" -> [a EXCEPT !.cmdfiles = Append(@, o.arg)]
      [] o.opt = "l" -> [a EXCEPT !.log = o.arg]
      [] o.opt = "m" -> IF Len(a.matrix) > max_maps THEN [a EXCEPT !.failed = TRUE]
                        ELSE [a EXCEPT !.matrix = Append(@, o.arg)]
      [] o.opt = "s" -> [a EXCEPT !.pcaps = {f \in @ : f.port # o.arg.port} \cup {o.arg}]
      [] o.opt = "p" -> a
      [] OTHER -> [a EXCEPT !.failed = TRUE]

-----------------------------------------------------------------------------
(***************************************************************************)
(* What DPDK accepts.                                                      *)
(***************************************************************************)

Overhead(max_rx_pktlen, max_mtu) ==
    IF max_mtu # U16_MAX /\ max_rx_pktlen > max_mtu THEN max_rx_pktlen - max_mtu ELSE 18

MtuFits(info, mtu) ==
    LET frame == mtu + Overhead(info.max_rx_pktlen, info.max_mtu)
    IN  mtu \in info.min_mtu .. info.max_mtu /\ frame \in ETHER_MIN_LEN .. info.max_rx_pktlen

\* rte_eth_dev_adjust_nb_rx_tx_desc for one direction
Adjust(n, lim) == LET up == ((n + lim.align - 1) \div lim.align) * lim.align
                      m == IF up > lim.max THEN lim.max ELSE up
                  IN  IF m < lim.min THEN lim.min ELSE m
DescriptorsFit(n, lim) == n \in lim.min .. lim.max /\ n % lim.align = 0

\* A call made in the state "from"; it is refused unless it is well-formed.
Call(d, from, wellFormed, done) == IF d.state = from /\ wellFormed THEN done ELSE [d EXCEPT !.refused = TRUE]

-----------------------------------------------------------------------------
(***************************************************************************)
(* The setups of initialize_port_info, in their order.                     *)
(***************************************************************************)

\* allocate_port_info: the default configuration
NewDevice(info, flags, rxd, txd) ==
    [info |-> info, flags |-> flags, nb_rxd |-> rxd, nb_txd |-> txd,
     max_mtu |-> ETHER_MAX_LEN, phdr |-> info.driver = "net_ixgbe",
     conf |-> [mtu |-> ETHER_MTU, lro |-> ETHER_MAX_LEN, mq_mode |-> "RSS",
               rx_offloads |-> {"CHECKSUM"}, tx_offloads |-> {},
               rss_hf |-> {"IP", "TCP", "UDP", "SCTP", "L2_PAYLOAD"}],
     state |-> "probed", queues |-> [rx |-> 0, tx |-> 0], rx_ready |-> {}, tx_ready |-> {},
     fill |-> "none", promiscuous |-> FALSE, refused |-> FALSE]

FillPatternDefaults(d) == [d EXCEPT !.fill = "abc"]

\* With jumbo frames the overhead is taken off the MTU of the device, modulo
\* 2^16, and no longer compared with the least MTU.
MtuDefaults(d) ==
    LET jumbo == (d.info.max_mtu - Overhead(d.info.max_rx_pktlen, d.info.max_mtu)) % (U16_MAX + 1)
        mtu == IF "JUMBO_PKTS" \in d.flags
               THEN IF jumbo > JUMBO_ETHER_MTU THEN JUMBO_ETHER_MTU ELSE jumbo
               ELSE Clamp(d.max_mtu, d.info.min_mtu, d.info.max_mtu)
        more == IF "JUMBO_PKTS" \in d.flags THEN d.info.capa \cap {"SCATTER", "MULTI_SEGS"} ELSE {}
    IN  [d EXCEPT !.max_mtu = mtu, !.conf.mtu = mtu,
                  !.conf.lro = IF "JUMBO_PKTS" \in d.flags THEN JUMBO_ETHER_MTU ELSE @,
                  !.conf.rx_offloads = @ \cup (more \cap {"SCATTER"}),
                  !.conf.tx_offloads = @ \cup (more \cap {"MULTI_SEGS"})]

RxOffloadDefaults(d) ==
    LET rss == d.conf.rss_hf \cap d.info.rss
    IN  [d EXCEPT !.conf.rss_hf = rss,
                  !.conf.mq_mode = CASE d.info.vfs /\ rss # {} -> "VMDQ_RSS"
                                     [] d.info.max_rx_queues = 1 -> "NONE"
                                     [] OTHER -> @,
                  !.conf.rx_offloads = @ \cap d.info.capa]

TxOffloadDefaults(d) ==
    [d EXCEPT !.conf.tx_offloads =
        @ \cup (d.info.capa \cap {"MBUF_FAST_FREE", "TCP_CKSUM", "UDP_CKSUM", "IPV4_CKSUM"})]

DeviceConfiguration(d, rxq, txq) ==
    Call(d, "probed",
         /\ rxq <= d.info.max_rx_queues /\ txq <= d.info.max_tx_queues /\ rxq + txq > 0
         /\ MtuFits(d.info, d.conf.mtu)
         /\ d.conf.rx_offloads \cup d.conf.tx_offloads \subseteq d.info.capa
         /\ d.conf.rss_hf \subseteq d.info.rss,
         [d EXCEPT !.state = "configured", !.queues = [rx |-> rxq, tx |-> txq]])

\* nb_rxd and nb_txd belong to the program: the next port starts with them.
RxTxDescriptors(d) ==
    [d EXCEPT !.nb_rxd = Adjust(@, d.info.rx_lim), !.nb_txd = Adjust(@, d.info.tx_lim)]

DeviceMtu(d) ==
    Call(d, "configured", MtuFits(d.info, d.max_mtu),
         [d EXCEPT !.conf.mtu = Clamp(ETHER_MAX_LEN, d.info.min_mtu, d.info.max_mtu)])

\* One call per queue: the pool of an RX queue is its pool of l2p.
RxQueues(d, rxq, pools) ==
    IF rxq = 0 THEN d
    ELSE Call(d, "configured",
              rxq <= d.queues.rx /\ 0 .. rxq - 1 \subseteq pools /\ DescriptorsFit(d.nb_rxd, d.info.rx_lim),
              [d EXCEPT !.rx_ready = 0 .. rxq - 1])

TxQueues(d, txq) ==
    IF txq = 0 THEN d
    ELSE Call(d, "configured", txq <= d.queues.tx /\ DescriptorsFit(d.nb_txd, d.info.tx_lim),
              [d EXCEPT !.tx_ready = 0 .. txq - 1])

\* A device that cannot be promiscuous is only logged.
PromiscuousMode(d) == [d EXCEPT !.promiscuous = "P" \in d.flags]

\* rte_eth_dev_start needs every queue to be set up.
DeviceStart(d) ==
    Call(d, "configured",
         d.rx_ready = 0 .. d.queues.rx - 1 /\ d.tx_ready = 0 .. d.queues.tx - 1,
         [d EXCEPT !.state = "started"])

InitializePort(d, rxq, txq, pools) ==
    LET wanted == TxOffloadDefaults(RxOffloadDefaults(MtuDefaults(FillPatternDefaults(d))))
        configured == DeviceMtu(RxTxDescriptors(DeviceConfiguration(wanted, rxq, txq)))
        queued == TxQueues(RxQueues(configured, rxq, pools), txq)
    IN  DeviceStart(PromiscuousMode(queued))

-----------------------------------------------------------------------------
\* A device that describes itself: its MTU range is one, its longest packet is
\* its largest MTU and a header, and it takes descriptors of either ring.
Describes(info) ==
    /\ ETHER_MIN_LEN - 18 <= info.min_mtu /\ info.min_mtu + 30 < info.max_mtu
    /\ info.max_rx_pktlen - info.max_mtu \in 14 .. 30
    /\ \A lim \in {info.rx_lim, info.tx_lim} :
        lim.align > 0 /\ lim.min <= lim.max /\ lim.min % lim.align = 0 /\ lim.max % lim.align = 0
=============================================================================
