-------------------------------- MODULE Receive --------------------------------
(***************************************************************************)
(* The receive path of one port and everything that is transmitted outside *)
(* the regular traffic: replies to ARP and ICMP echo requests, sent by the *)
(* RX lcores, and the ARP and ping requests a command asks for, sent by    *)
(* the TX lcores.                                                          *)
(*                                                                         *)
(* Each mbuf is tracked by name.  pooled[m] counts how often m is in its   *)
(* pool: DPDK does not notice a second free, it only puts the pointer in   *)
(* the pool again.  The NIC is external.                                   *)
(***************************************************************************)
EXTENDS Integers, Sequences, FiniteSets, SequencesExt, Functions

CONSTANTS
    RxCnt, TxCnt,  \* RX and TX queues of the port
    Split,         \* TRUE: mapping "[rx:tx].port", FALSE: one lcore does both
    RxMbufs, SpMbufs, \* the mbufs of the RX pools and of the special TX pools
    QueueOf,       \* QueueOf[m]: the queue whose pool m belongs to
    RxBurst,       \* pinfo->rx_burst
    TxDescs,       \* descriptors of a TX ring
    Kinds,         \* kinds of packets on the wire
    InitFlags,     \* PROCESS_INPUT_PKTS, ICMP_ECHO_ENABLE_FLAG, SENDING_PACKETS, if set
    Requests,      \* the requests that commands may make
    Patient,       \* TRUE: a command waits until the last request is served
    MaxArrivals, MaxRequests \* bounds

RxQueues == 0 .. RxCnt - 1
TxQueues == 0 .. TxCnt - 1
Queues == RxQueues \cup TxQueues
Mbufs == RxMbufs \cup SpMbufs
Regular == "regular"  \* a packet of the regular traffic, in a descriptor of a TX ring
AllRequests == {"SEND_ARP_REQUEST", "SEND_GRATUITOUS_ARP", "SEND_PING4_REQUEST"}

\* "garp" announces the address of one of our destinations, "arp" and "ping"
\* ask for one of our source addresses.
ASSUME ReceiveAssumption ==
    /\ RxCnt \in Nat \ {0} /\ TxCnt \in Nat \ {0} /\ RxBurst \in Nat \ {0}
    /\ TxDescs \in Nat \ {0}
    /\ Split \in BOOLEAN /\ Patient \in BOOLEAN
    /\ ~Split => RxCnt = TxCnt
    /\ RxCnt <= TxCnt \* else port->sp_mp[qid] of a replying RX lcore is NULL
    /\ RxMbufs \cap SpMbufs = {} /\ Regular \notin Mbufs /\ QueueOf \in [Mbufs -> Queues]
    /\ Kinds \subseteq {"data", "arp", "garp", "ping"}
    /\ InitFlags \subseteq {"PROCESS_INPUT_PKTS", "ICMP_ECHO_ENABLE_FLAG", "SENDING_PACKETS"}
    /\ Requests \subseteq AllRequests
    /\ MaxArrivals \in Nat /\ MaxRequests \in Nat

VARIABLES
    port_flags,
    pooled,   \* pooled[m]: how often m is in its pool
    kind,     \* kind[m]: what is in the buffer of m
    rxq,      \* rxq[q]: filled descriptors of RX queue q
    rx_pc,    \* next step of the RX half of the lcore of RX queue q
    pkts,     \* pkts[q]: the burst it holds
    i,        \* i[q]: index of the packet of the burst that is classified
    reply,    \* reply[q]: <<>> or <<m>>, the mbuf it is transmitting
    tx_pc,    \* next step of the TX half of the lcore of TX queue q
    special,  \* special[q]: <<>> or <<m>>, the mbuf it is transmitting
    txq,      \* txq[q]: the TX ring, packets handed to the NIC and not yet freed
    writers,  \* writers[q]: the threads inside rte_eth_tx_burst on TX queue q
    crashed,
    arrivals, requests, \* counters for the bounds
    unsent,   \* history: requests made and neither sent nor reported since
    reused    \* history: received mbufs that were sent as echo replies

rxlcore == <<rx_pc, pkts, i, reply>>
txlcore == <<tx_pc, special>>
bounds == <<arrivals, requests>>
ghosts == <<unsent, reused>>
vars == <<port_flags, pooled, kind, rxq, rxlcore, txlcore, txq, writers, crashed, bounds,
          ghosts>>

\* One lcore is both halves of a queue unless the mapping splits them.
RxThread(q) == IF Split THEN <<"rx", q>> ELSE <<"rxtx", q>>
TxThread(q) == IF Split THEN <<"tx", q>> ELSE <<"rxtx", q>>

Tst(f) == f \in port_flags

TypeOK ==
    /\ port_flags \subseteq AllRequests \cup InitFlags
    /\ pooled \in [Mbufs -> Nat] /\ kind \in [Mbufs -> Kinds \cup {"none", "request", "reply"}]
    /\ rxq \in [RxQueues -> Seq(RxMbufs)] /\ pkts \in [RxQueues -> Seq(RxMbufs)]
    /\ rx_pc \in [RxQueues -> {"poll", "classify", "tx_burst", "sent"}]
    /\ \A q \in RxQueues : rx_pc[q] = "poll" \/ i[q] \in 1 .. Len(pkts[q]) + 1
    /\ i \in [RxQueues -> Nat] /\ reply \in [RxQueues -> Seq(Mbufs)]
    /\ tx_pc \in [TxQueues -> {"special", "arp", "ping", "clear", "tx_burst_arp",
                               "tx_burst_ping", "data"}]
    /\ special \in [TxQueues -> Seq(SpMbufs)]
    /\ txq \in [Queues -> Seq(Mbufs \cup {Regular})]
    /\ writers \in [Queues -> SUBSET ({"rx", "tx", "rxtx"} \X Queues)]
    /\ crashed \in BOOLEAN
    /\ arrivals \in 0 .. MaxArrivals /\ requests \in 0 .. MaxRequests
    /\ unsent \subseteq AllRequests /\ reused \subseteq RxMbufs

Init ==
    /\ port_flags = InitFlags
    /\ pooled = [m \in Mbufs |-> 1] /\ kind = [m \in Mbufs |-> "none"]
    /\ rxq = [q \in RxQueues |-> <<>>] /\ pkts = [q \in RxQueues |-> <<>>]
    /\ rx_pc = [q \in RxQueues |-> "poll"]
    /\ i = [q \in RxQueues |-> 1] /\ reply = [q \in RxQueues |-> <<>>]
    /\ tx_pc = [q \in TxQueues |-> "special"]
    /\ special = [q \in TxQueues |-> <<>>]
    /\ txq = [q \in Queues |-> <<>>] /\ writers = [q \in Queues |-> {}]
    /\ crashed = FALSE
    /\ arrivals = 0 /\ requests = 0
    /\ unsent = {} /\ reused = {}

\* The two halves of one lcore run one after the other.
RxMayRun(q) == Split \/ q \notin TxQueues \/ tx_pc[q] = "special"
TxMayRun(q) == Split \/ q \notin RxQueues \/ rx_pc[q] = "poll"

\* rte_mempool_get or rte_pktmbuf_copy from the special pool of queue q
SpecialFree(q) == {m \in SpMbufs : QueueOf[m] = q /\ pooled[m] > 0}

\* The do-while loop of tx_send_packets ends when rte_eth_tx_burst has taken
\* the packet.  A call that finds no free descriptor takes nothing and changes
\* nothing, so the lcore stays in the loop, and does nothing else, until there
\* is room in the ring.
Room(q) == Len(txq[q]) < TxDescs

-----------------------------------------------------------------------------
(***************************************************************************)
(* The NIC.                                                                *)
(***************************************************************************)

\* A packet arrives in an mbuf the driver took from the RX pool of the queue.
Arrive(q) ==
    /\ arrivals < MaxArrivals
    /\ \E m \in {r \in RxMbufs : QueueOf[r] = q /\ pooled[r] > 0}, k \in Kinds :
        /\ pooled' = [pooled EXCEPT ![m] = @ - 1]
        /\ kind' = [kind EXCEPT ![m] = k]
        /\ rxq' = [rxq EXCEPT ![q] = Append(@, m)]
    /\ arrivals' = arrivals + 1
    /\ UNCHANGED <<port_flags, rxlcore, txlcore, txq, writers, crashed, requests, ghosts>>

\* The NIC has sent a packet, the driver frees its mbuf and the descriptor is
\* free again.  The pools of the regular traffic are not part of this module.
NicTransmit(q) ==
    /\ txq[q] # <<>>
    /\ pooled' = [m \in Mbufs |-> IF m = Head(txq[q]) THEN pooled[m] + 1 ELSE pooled[m]]
    /\ txq' = [txq EXCEPT ![q] = Tail(@)]
    /\ UNCHANGED <<port_flags, kind, rxq, rxlcore, txlcore, writers, crashed, bounds,
                   ghosts>>

(***************************************************************************)
(* The RX half: pktgen_main_receive.                                       *)
(***************************************************************************)

Poll(q) ==
    LET nb_rx == IF Len(rxq[q]) < RxBurst THEN Len(rxq[q]) ELSE RxBurst IN
    /\ rx_pc[q] = "poll" /\ RxMayRun(q)
    /\ nb_rx > 0
    /\ pkts' = [pkts EXCEPT ![q] = SubSeq(rxq[q], 1, nb_rx)]
    /\ rxq' = [rxq EXCEPT ![q] = SubSeq(@, nb_rx + 1, Len(@))]
    /\ rx_pc' = [rx_pc EXCEPT ![q] = "classify"]
    /\ i' = [i EXCEPT ![q] = 1]
    /\ UNCHANGED <<port_flags, pooled, kind, reply, txlcore, txq, writers, crashed,
                   bounds, ghosts>>

Current(q) == pkts[q][i[q]]
Classifying(q) == rx_pc[q] = "classify" /\ i[q] <= Len(pkts[q])

\* pktgen_process_arp answers a request with a copy from the special pool of
\* the queue that has the number of this RX queue.
AnswerArp(q) ==
    /\ Classifying(q) /\ Tst("PROCESS_INPUT_PKTS") /\ kind[Current(q)] = "arp"
    /\ \E m \in SpecialFree(q) :
        /\ pooled' = [pooled EXCEPT ![m] = @ - 1]
        /\ kind' = [kind EXCEPT ![m] = "reply"]
        /\ reply' = [reply EXCEPT ![q] = <<m>>]
    /\ rx_pc' = [rx_pc EXCEPT ![q] = "tx_burst"]
    /\ UNCHANGED <<port_flags, rxq, pkts, i, txlcore, txq, writers, crashed, bounds,
                   ghosts>>

\* pktgen_process_ping4 turns the request itself into the reply.
AnswerPing(q) ==
    /\ Classifying(q) /\ Tst("PROCESS_INPUT_PKTS") /\ Tst("ICMP_ECHO_ENABLE_FLAG")
    /\ kind[Current(q)] = "ping"
    /\ kind' = [kind EXCEPT ![Current(q)] = "reply"]
    /\ reply' = [reply EXCEPT ![q] = <<Current(q)>>]
    /\ rx_pc' = [rx_pc EXCEPT ![q] = "tx_burst"]
    /\ reused' = reused \cup {Current(q)}
    /\ UNCHANGED <<port_flags, pooled, rxq, pkts, i, txlcore, txq, writers, crashed, bounds,
                   unsent>>

\* pktgen_process_arp writes the new destination address through pkt, which
\* is NULL on this path.
ProcessGarp(q) ==
    /\ Classifying(q) /\ Tst("PROCESS_INPUT_PKTS") /\ kind[Current(q)] = "garp"
    /\ crashed' = TRUE
    /\ UNCHANGED <<port_flags, pooled, kind, rxq, rxlcore, txlcore, txq, writers, bounds,
                   ghosts>>

\* Packets that need no answer, or find no mbuf for it.
PassOver(q) ==
    /\ Classifying(q)
    /\ \/ ~Tst("PROCESS_INPUT_PKTS")
       \/ kind[Current(q)] \notin {"arp", "garp", "ping"}
       \/ kind[Current(q)] = "arp" /\ SpecialFree(q) = {}
       \/ kind[Current(q)] = "ping" /\ ~Tst("ICMP_ECHO_ENABLE_FLAG")
    /\ i' = [i EXCEPT ![q] = @ + 1]
    /\ UNCHANGED <<port_flags, pooled, kind, rxq, rx_pc, pkts, reply, txlcore, txq,
                   writers, crashed, bounds, ghosts>>

\* Mutant: every reply goes to TX queue 0.
ReplyEnter_Queue0(q) ==
    /\ rx_pc[q] = "tx_burst"
    /\ rx_pc' = [rx_pc EXCEPT ![q] = "sent"]
    /\ writers' = [writers EXCEPT ![0] = @ \cup {RxThread(q)}]
    /\ UNCHANGED <<port_flags, pooled, kind, rxq, pkts, i, reply, txlcore, txq, crashed,
                   bounds, ghosts>>

\* tx_send_packets(pinfo, qid, ...) with the number of the RX queue: the lcore
\* is in its loop of calls of rte_eth_tx_burst between these two steps.
ReplyEnter(q) ==
    /\ rx_pc[q] = "tx_burst"
    /\ rx_pc' = [rx_pc EXCEPT ![q] = "sent"]
    /\ writers' = [writers EXCEPT ![q] = @ \cup {RxThread(q)}]
    /\ UNCHANGED <<port_flags, pooled, kind, rxq, pkts, i, reply, txlcore, txq, crashed,
                   bounds, ghosts>>

\* Mutant: the answered packet is classified again.
ReplyLeave_SamePacket(q) ==
    /\ rx_pc[q] = "sent" /\ Room(q)
    /\ rx_pc' = [rx_pc EXCEPT ![q] = "classify"]
    /\ txq' = [txq EXCEPT ![q] = @ \o reply[q]]
    /\ reply' = [reply EXCEPT ![q] = <<>>]
    /\ writers' = [writers EXCEPT ![q] = @ \ {RxThread(q)}]
    /\ UNCHANGED <<port_flags, pooled, kind, rxq, pkts, i, txlcore, crashed, bounds,
                   ghosts>>

ReplyLeave(q) ==
    /\ rx_pc[q] = "sent" /\ Room(q)
    /\ rx_pc' = [rx_pc EXCEPT ![q] = "classify"]
    /\ i' = [i EXCEPT ![q] = @ + 1]
    /\ txq' = [txq EXCEPT ![q] = @ \o reply[q]]
    /\ reply' = [reply EXCEPT ![q] = <<>>]
    /\ writers' = [writers EXCEPT ![q] = @ \ {RxThread(q)}]
    /\ UNCHANGED <<port_flags, pooled, kind, rxq, pkts, txlcore, crashed, bounds, ghosts>>

\* rte_pktmbuf_free_bulk frees the whole burst, answered or not.
FreeBulk(q) ==
    /\ rx_pc[q] = "classify" /\ i[q] > Len(pkts[q])
    /\ pooled' = [m \in Mbufs |-> IF m \in ToSet(pkts[q]) THEN pooled[m] + 1 ELSE pooled[m]]
    /\ pkts' = [pkts EXCEPT ![q] = <<>>]
    /\ rx_pc' = [rx_pc EXCEPT ![q] = "poll"]
    /\ UNCHANGED <<port_flags, kind, rxq, i, reply, txlcore, txq, writers, crashed,
                   bounds, ghosts>>

RxStep(q) ==
    \/ Poll(q) \/ AnswerArp(q) \/ AnswerPing(q) \/ ProcessGarp(q) \/ PassOver(q)
    \/ ReplyEnter(q) \/ ReplyLeave(q) \/ FreeBulk(q)

(***************************************************************************)
(* The TX half: pktgen_send_special, then the regular traffic.             *)
(***************************************************************************)

RestOfTx == <<port_flags, rxq, rxlcore, crashed, bounds>>

\* After the requests, regular packets if the port sends and the pool has some
AfterSpecial == IF Tst("SENDING_PACKETS") THEN {"data", "special"} ELSE {"special"}

\* The TX half of queue q goes on at pc, in rte_eth_tx_burst if that is "data".
GoesOn(q, pc) ==
    /\ tx_pc' = [tx_pc EXCEPT ![q] = pc]
    /\ writers' = IF pc = "data" THEN [writers EXCEPT ![q] = @ \cup {TxThread(q)}] ELSE writers

\* Mutant: the requests are cleared before they are looked at one by one.
SpecialTest_ClearsFirst(q) ==
    /\ tx_pc[q] = "special" /\ TxMayRun(q)
    /\ \E pc \in (IF port_flags \cap AllRequests # {} THEN {"arp"} ELSE AfterSpecial) :
        GoesOn(q, pc)
    /\ port_flags' = port_flags \ {"SEND_PING4_REQUEST"}
    /\ UNCHANGED <<rxq, rxlcore, crashed, bounds, pooled, kind, special, txq, ghosts>>

SpecialTest(q) ==
    /\ tx_pc[q] = "special" /\ TxMayRun(q)
    /\ \E pc \in (IF port_flags \cap AllRequests # {} THEN {"arp"} ELSE AfterSpecial) :
        GoesOn(q, pc)
    /\ UNCHANGED <<RestOfTx, pooled, kind, special, txq, ghosts>>

\* The request the lcore sends at this point, if any: a gratuitous ARP goes
\* before an ARP request and takes its place.
Due(q) ==
    IF tx_pc[q] = "arp"
    THEN IF Tst("SEND_GRATUITOUS_ARP") THEN {"SEND_GRATUITOUS_ARP"}
         ELSE port_flags \cap {"SEND_ARP_REQUEST"}
    ELSE port_flags \cap {"SEND_PING4_REQUEST"}

AfterRequest(q) == IF tx_pc[q] \in {"arp", "tx_burst_arp"} THEN "ping" ELSE "clear"

\* pktgen_send_arp and pktgen_send_ping4: an mbuf of the lcore's own queue
SendRequest(q) ==
    /\ tx_pc[q] \in {"arp", "ping"}
    /\ \E r \in Due(q), m \in SpecialFree(q) :
        /\ pooled' = [pooled EXCEPT ![m] = @ - 1]
        /\ kind' = [kind EXCEPT ![m] = "request"]
        /\ special' = [special EXCEPT ![q] = <<m>>]
        /\ unsent' = unsent \ {r}
    /\ tx_pc' = [tx_pc EXCEPT ![q] = IF @ = "arp" THEN "tx_burst_arp" ELSE "tx_burst_ping"]
    /\ writers' = [writers EXCEPT ![q] = @ \cup {TxThread(q)}]
    /\ UNCHANGED <<RestOfTx, txq, reused>>

SentRequest(q) ==
    /\ tx_pc[q] \in {"tx_burst_arp", "tx_burst_ping"} /\ Room(q)
    /\ tx_pc' = [tx_pc EXCEPT ![q] = AfterRequest(q)]
    /\ txq' = [txq EXCEPT ![q] = @ \o special[q]]
    /\ special' = [special EXCEPT ![q] = <<>>]
    /\ writers' = [writers EXCEPT ![q] = @ \ {TxThread(q)}]
    /\ UNCHANGED <<RestOfTx, pooled, kind, ghosts>>

\* Nothing to send here, or "No packet buffers found" is logged
NoRequest(q) ==
    /\ tx_pc[q] \in {"arp", "ping"}
    /\ Due(q) = {} \/ SpecialFree(q) = {}
    /\ tx_pc' = [tx_pc EXCEPT ![q] = AfterRequest(q)]
    /\ unsent' = unsent \ Due(q)
    /\ UNCHANGED <<RestOfTx, pooled, kind, special, txq, writers, reused>>

\* All requests are cleared at once; then the lcore goes on to its traffic.
ClearRequests(q) ==
    /\ tx_pc[q] = "clear"
    /\ \E pc \in AfterSpecial : GoesOn(q, pc)
    /\ port_flags' = port_flags \ AllRequests
    /\ UNCHANGED <<rxq, rxlcore, crashed, bounds, pooled, kind, special, txq, ghosts>>

\* pktgen_send_pkts: the lcore has been in tx_send_packets with a burst of
\* regular traffic, of which only the last packet to find room is told apart.
DataSent(q) ==
    /\ tx_pc[q] = "data" /\ Room(q)
    /\ tx_pc' = [tx_pc EXCEPT ![q] = "special"]
    /\ txq' = [txq EXCEPT ![q] = Append(@, Regular)]
    /\ writers' = [writers EXCEPT ![q] = @ \ {TxThread(q)}]
    /\ UNCHANGED <<RestOfTx, pooled, kind, special, ghosts>>

TxStep(q) ==
    \/ SpecialTest(q) \/ SendRequest(q) \/ SentRequest(q) \/ NoRequest(q)
    \/ ClearRequests(q) \/ DataSent(q)

(***************************************************************************)
(* The commanders: pktgen_send_arp_requests and pktgen_ping4.              *)
(***************************************************************************)

NothingPending ==
    /\ port_flags \cap AllRequests = {}
    /\ \A q \in TxQueues : tx_pc[q] \in {"special", "data"}

Request(r) ==
    /\ requests < MaxRequests
    /\ Patient => NothingPending
    /\ port_flags' = port_flags \cup {r}
    /\ unsent' = unsent \cup {r}
    /\ requests' = requests + 1
    /\ UNCHANGED <<pooled, kind, rxq, rxlcore, txlcore, txq, writers, crashed, arrivals,
                   reused>>

Next ==
    /\ ~crashed
    /\ \/ \E q \in RxQueues : Arrive(q) \/ RxStep(q)
       \/ \E q \in TxQueues : TxStep(q)
       \/ \E q \in Queues : NicTransmit(q)
       \/ \E r \in Requests : Request(r)

Spec == Init /\ [][Next]_vars

\* Lcores poll for ever and the NIC transmits; packets need not arrive.
FairSpec ==
    /\ Spec
    /\ \A q \in RxQueues : WF_vars(RxStep(q))
    /\ \A q \in TxQueues : WF_vars(TxStep(q))
    /\ \A q \in Queues : WF_vars(NicTransmit(q))

-----------------------------------------------------------------------------
(***************************************************************************)
(* Properties.                                                             *)
(***************************************************************************)

Holds(s, m) == Cardinality({k \in DOMAIN s : s[k] = m})

\* How often m is in the descriptor rings of the queues numbered q and in the
\* hands of their lcores.
Held(m) ==
    [q \in Queues |->
        Holds(txq[q], m)
        + (IF q \in RxQueues THEN Holds(rxq[q], m) + Holds(pkts[q], m) + Holds(reply[q], m) ELSE 0)
        + (IF q \in TxQueues THEN Holds(special[q], m) ELSE 0)]

\* Everyone who may free m or write to it.
Owners(m) == pooled[m] + SumFunctionOnSet(Held(m), Queues)

\* Every mbuf is in exactly one place: its pool, a descriptor ring, or the
\* hands of one lcore.  None leaks and none is freed or sent twice.  Excluded
\* are received mbufs that were sent as echo replies: they are freed with their
\* burst, although pktgen-ipv4.c says "No need to free mbuf as it was reused."
OneOwner == \A m \in Mbufs \ reused : Owners(m) = 1

\* rte_eth_tx_burst is never entered by two lcores on one queue.
OneWriterPerTxQueue == \A q \in Queues : Cardinality(writers[q]) <= 1

\* commands.rst, "start <portlist> arp <type> - Send a ARP type packet": a
\* request made while none is being served stays pending until an lcore has
\* sent it, or has reported that it has no mbuf for it.
RequestIsNotForgotten == unsent \subseteq port_flags

\* A pending request is eventually taken off the flags, unless pktgen has died.
RequestsAreServed ==
    (port_flags \cap AllRequests # {}) ~> (port_flags \cap AllRequests = {} \/ crashed)

\* A burst that was received is eventually freed, so the RX ring can refill,
\* unless pktgen has died of a gratuitous ARP.
BurstsAreFreed == \A q \in RxQueues : (pkts[q] # <<>>) ~> (pkts[q] = <<>> \/ crashed)

\* Requests and bursts come to an end although an lcore that replies or sends a
\* request or its traffic waits in tx_send_packets until there is room in the
\* TX ring, which replies, requests and regular traffic fill, and although one
\* lcore serves both directions, so that it receives nothing while it waits.
\* What finds no mbuf is passed over, not waited for.
NothingIsStuck == RequestsAreServed /\ BurstsAreFreed

\* Sharing between the RX and TX sides of the lcores: types, mbufs and TX
\* queues.
NothingIsShared == TypeOK /\ OneOwner /\ OneWriterPerTxQueue
=============================================================================
