---------------------------- MODULE ReceiveProofs ----------------------------
(***************************************************************************)
(* Proofs about Receive: where the mbufs are, who writes to a TX queue, and *)
(* that a request stays pending until it is sent.                          *)
(***************************************************************************)
EXTENDS Receive, Sums, SequenceTheorems

LEMMA QueueFacts ==
  /\ RxQueues \subseteq Nat /\ TxQueues \subseteq Nat
  /\ RxQueues \subseteq Queues /\ TxQueues \subseteq Queues
  /\ RxQueues \subseteq TxQueues
  /\ IsFiniteSet(Queues)
<1>1. IsFiniteSet(TxQueues)
  BY FS_Interval, ReceiveAssumption DEF TxQueues
<1>2. RxQueues \subseteq TxQueues
  BY ReceiveAssumption DEF RxQueues, TxQueues
<1>3. Queues = TxQueues
  BY <1>2 DEF Queues
<1>4. QED
  BY <1>1, <1>2, <1>3, ReceiveAssumption DEF RxQueues, TxQueues

(***************************************************************************)
(* Types, and what an lcore has in its hands at each point of its loops.   *)
(***************************************************************************)
SharedOK ==
    /\ port_flags \subseteq AllRequests \cup InitFlags /\ crashed \in BOOLEAN
    /\ arrivals \in 0 .. MaxArrivals /\ requests \in 0 .. MaxRequests
    /\ unsent \subseteq AllRequests /\ reused \subseteq RxMbufs

\* What a descriptor of a TX ring may point to.
Descs == Mbufs \cup {Regular}

BuffersOK ==
    /\ pooled \in [Mbufs -> Nat] /\ kind \in [Mbufs -> Kinds \cup {"none", "request", "reply"}]
    /\ txq \in [Queues -> Seq(Descs)]

RxOK ==
    /\ rxq \in [RxQueues -> Seq(RxMbufs)] /\ pkts \in [RxQueues -> Seq(RxMbufs)]
    /\ rx_pc \in [RxQueues -> {"poll", "classify", "tx_burst", "sent"}]
    /\ i \in [RxQueues -> Nat] /\ reply \in [RxQueues -> Seq(Mbufs)]

BurstInv ==
    \A q \in RxQueues :
        /\ rx_pc[q] = "poll" => pkts[q] = <<>>
        /\ rx_pc[q] # "poll" => i[q] \in 1 .. Len(pkts[q]) + 1
        /\ rx_pc[q] \in {"poll", "classify"} => reply[q] = <<>>
        /\ rx_pc[q] \in {"tx_burst", "sent"} => i[q] <= Len(pkts[q])

TxOK ==
    /\ tx_pc \in [TxQueues -> {"special", "arp", "ping", "clear", "tx_burst_arp",
                               "tx_burst_ping", "data"}]
    /\ special \in [TxQueues -> Seq(SpMbufs)]
    /\ \A q \in TxQueues :
        tx_pc[q] \notin {"tx_burst_arp", "tx_burst_ping"} => special[q] = <<>>

\* Only the threads that serve queue q enter rte_eth_tx_burst on it.
WritersOK ==
    /\ writers \in [Queues -> SUBSET ({"rx", "tx", "rxtx"} \X Queues)]
    /\ \A q \in Queues : writers[q] \subseteq {RxThread(q), TxThread(q)}

HandsInv == SharedOK /\ BuffersOK /\ RxOK /\ BurstInv /\ TxOK /\ WritersOK

LEMMA HandsGiveTypes == HandsInv => TypeOK
  BY DEF HandsInv, SharedOK, BuffersOK, Descs, RxOK, BurstInv, TxOK, WritersOK, TypeOK

LEMMA HandsStart == Init => HandsInv
<1> SUFFICES ASSUME Init PROVE HandsInv
  OBVIOUS
<1> USE ReceiveAssumption DEF Init
<1>1. SharedOK
  <2>1. 0 \in 0 .. MaxArrivals /\ 0 \in 0 .. MaxRequests
    OBVIOUS
  <2>2. QED
    BY <2>1, Zenon DEF SharedOK
<1>2. BuffersOK
  BY DEF BuffersOK
<1>3. RxOK /\ BurstInv
  BY DEF RxOK, BurstInv
<1>4. TxOK
  BY DEF TxOK
<1>5. WritersOK
  BY DEF WritersOK
<1>6. QED
  BY <1>1, <1>2, <1>3, <1>4, <1>5 DEF HandsInv

LEMMA RxKeepsHands ==
  ASSUME HandsInv, NEW q \in RxQueues, RxStep(q)
  PROVE  HandsInv'
<1> USE ReceiveAssumption, QueueFacts DEF HandsInv, rxlcore, txlcore, bounds, ghosts
<1>1. CASE Poll(q)
  <2>1. SharedOK'
    BY <1>1 DEF Poll, SharedOK
  <2>2. BuffersOK'
    BY <1>1 DEF Poll, BuffersOK
  <2>3. RxOK'
    <3> DEFINE nb == IF Len(rxq[q]) < RxBurst THEN Len(rxq[q]) ELSE RxBurst
    <3>1. /\ SubSeq(rxq[q], 1, nb) \in Seq(RxMbufs)
          /\ SubSeq(rxq[q], nb + 1, Len(rxq[q])) \in Seq(RxMbufs)
      BY DEF RxOK
    <3>2. QED
      BY <1>1, <3>1 DEF Poll, RxOK
  <2>4. BurstInv'
    <3> DEFINE nb == IF Len(rxq[q]) < RxBurst THEN Len(rxq[q]) ELSE RxBurst
    <3>1. Len(SubSeq(rxq[q], 1, nb)) = nb /\ nb \in Nat
      BY DEF RxOK
    <3>2. QED
      BY <1>1, <3>1 DEF Poll, RxOK, BurstInv
  <2>5. TxOK'
    BY <1>1 DEF Poll, TxOK
  <2>6. WritersOK'
    BY <1>1 DEF Poll, WritersOK, RxThread, TxThread
  <2>7. QED
    BY <2>1, <2>2, <2>3, <2>4, <2>5, <2>6
<1>2. CASE AnswerArp(q)
  <2>1. SharedOK'
    BY <1>2 DEF AnswerArp, SharedOK, Classifying, SpecialFree, Mbufs
  <2>2. BuffersOK'
    BY <1>2 DEF AnswerArp, BuffersOK, Classifying, SpecialFree, Mbufs
  <2>3. RxOK'
    BY <1>2 DEF AnswerArp, RxOK, Classifying, SpecialFree, Mbufs
  <2>4. BurstInv'
    BY <1>2 DEF AnswerArp, BurstInv, RxOK, Classifying, SpecialFree, Mbufs
  <2>5. TxOK'
    BY <1>2 DEF AnswerArp, TxOK, Classifying, SpecialFree, Mbufs
  <2>6. WritersOK'
    BY <1>2 DEF AnswerArp, WritersOK, Classifying, SpecialFree, Mbufs, RxThread, TxThread
  <2>7. QED
    BY <2>1, <2>2, <2>3, <2>4, <2>5, <2>6
<1>3. CASE AnswerPing(q)
  <2>1. SharedOK'
    <3>1. Current(q) \in RxMbufs
      BY <1>3 DEF AnswerPing, Classifying, Current, RxOK, BurstInv
    <3>2. QED
      BY <1>3, <3>1 DEF AnswerPing, Mbufs, SharedOK
  <2>2. BuffersOK'
    <3>1. Current(q) \in RxMbufs
      BY <1>3 DEF AnswerPing, Classifying, Current, RxOK, BurstInv
    <3>2. QED
      BY <1>3, <3>1 DEF AnswerPing, Mbufs, BuffersOK
  <2>3. RxOK'
    <3>1. Current(q) \in RxMbufs
      BY <1>3 DEF AnswerPing, Classifying, Current, RxOK, BurstInv
    <3>2. QED
      BY <1>3, <3>1 DEF AnswerPing, Mbufs, RxOK
  <2>4. BurstInv'
    BY <1>3 DEF AnswerPing, BurstInv, RxOK, Classifying, Current, Mbufs
  <2>5. TxOK'
    BY <1>3 DEF AnswerPing, TxOK, Classifying, Current, Mbufs
  <2>6. WritersOK'
    BY <1>3 DEF AnswerPing, WritersOK, Classifying, Current, Mbufs, RxThread, TxThread
  <2>7. QED
    BY <2>1, <2>2, <2>3, <2>4, <2>5, <2>6
<1>4. CASE ProcessGarp(q)
  <2>1. SharedOK'
    BY <1>4 DEF ProcessGarp, SharedOK
  <2>2. BuffersOK'
    BY <1>4 DEF ProcessGarp, BuffersOK
  <2>3. RxOK'
    BY <1>4 DEF ProcessGarp, RxOK
  <2>4. BurstInv'
    BY <1>4 DEF ProcessGarp, BurstInv, RxOK
  <2>5. TxOK'
    BY <1>4 DEF ProcessGarp, TxOK
  <2>6. WritersOK'
    BY <1>4 DEF ProcessGarp, WritersOK, RxThread, TxThread
  <2>7. QED
    BY <2>1, <2>2, <2>3, <2>4, <2>5, <2>6
<1>5. CASE PassOver(q)
  <2>1. SharedOK'
    BY <1>5 DEF PassOver, SharedOK, Classifying
  <2>2. BuffersOK'
    BY <1>5 DEF PassOver, BuffersOK, Classifying
  <2>3. RxOK'
    BY <1>5 DEF PassOver, RxOK, Classifying
  <2>4. BurstInv'
    BY <1>5 DEF PassOver, BurstInv, RxOK, Classifying
  <2>5. TxOK'
    BY <1>5 DEF PassOver, TxOK, Classifying
  <2>6. WritersOK'
    BY <1>5 DEF PassOver, WritersOK, Classifying, RxThread, TxThread
  <2>7. QED
    BY <2>1, <2>2, <2>3, <2>4, <2>5, <2>6
<1>6. CASE ReplyEnter(q)
  <2>1. SharedOK'
    BY <1>6 DEF ReplyEnter, SharedOK
  <2>2. BuffersOK'
    BY <1>6 DEF ReplyEnter, BuffersOK
  <2>3. RxOK'
    BY <1>6 DEF ReplyEnter, RxOK
  <2>4. BurstInv'
    BY <1>6 DEF ReplyEnter, BurstInv, RxOK
  <2>5. TxOK'
    BY <1>6 DEF ReplyEnter, TxOK
  <2>6. WritersOK'
    BY <1>6 DEF ReplyEnter, WritersOK, RxThread, TxThread
  <2>7. QED
    BY <2>1, <2>2, <2>3, <2>4, <2>5, <2>6
<1>7. CASE ReplyLeave(q)
  <2>1. SharedOK'
    BY <1>7 DEF ReplyLeave, SharedOK
  <2>2. BuffersOK'
    <3>1. txq[q] \o reply[q] \in Seq(Descs)
      <4>1. txq[q] \in Seq(Descs) /\ reply[q] \in Seq(Mbufs) /\ Mbufs \subseteq Descs
        BY DEF BuffersOK, RxOK, Descs
      <4>2. QED
        BY <4>1, SeqMonotonic, ConcatProperties
    <3>2. QED
      BY <1>7, <3>1 DEF ReplyLeave, BuffersOK
  <2>3. RxOK'
    BY <1>7 DEF ReplyLeave, RxOK
  <2>4. BurstInv'
    BY <1>7 DEF ReplyLeave, BurstInv, RxOK
  <2>5. TxOK'
    BY <1>7 DEF ReplyLeave, TxOK
  <2>6. WritersOK'
    BY <1>7 DEF ReplyLeave, WritersOK, RxThread, TxThread
  <2>7. QED
    BY <2>1, <2>2, <2>3, <2>4, <2>5, <2>6
<1>8. CASE FreeBulk(q)
  <2>1. SharedOK'
    BY <1>8 DEF FreeBulk, SharedOK
  <2>2. BuffersOK'
    BY <1>8 DEF FreeBulk, BuffersOK
  <2>3. RxOK'
    BY <1>8 DEF FreeBulk, RxOK
  <2>4. BurstInv'
    BY <1>8 DEF FreeBulk, BurstInv, RxOK
  <2>5. TxOK'
    BY <1>8 DEF FreeBulk, TxOK
  <2>6. WritersOK'
    BY <1>8 DEF FreeBulk, WritersOK, RxThread, TxThread
  <2>7. QED
    BY <2>1, <2>2, <2>3, <2>4, <2>5, <2>6
<1>9. QED
  BY <1>1, <1>2, <1>3, <1>4, <1>5, <1>6, <1>7, <1>8 DEF RxStep

LEMMA TxKeepsHands ==
  ASSUME HandsInv, NEW q \in TxQueues, TxStep(q)
  PROVE  HandsInv'
<1> USE ReceiveAssumption, QueueFacts DEF HandsInv, RestOfTx, rxlcore, txlcore, bounds, ghosts
<1>1. CASE SpecialTest(q)
  <2>1. SharedOK'
    BY <1>1 DEF SpecialTest, GoesOn, AfterSpecial, SharedOK
  <2>2. BuffersOK'
    BY <1>1 DEF SpecialTest, GoesOn, AfterSpecial, BuffersOK
  <2>3. RxOK'
    BY <1>1 DEF SpecialTest, GoesOn, AfterSpecial, RxOK
  <2>4. BurstInv'
    BY <1>1 DEF SpecialTest, GoesOn, AfterSpecial, BurstInv, RxOK
  <2>5. TxOK'
    BY <1>1 DEF SpecialTest, GoesOn, AfterSpecial, TxOK
  <2>6. WritersOK'
    BY <1>1 DEF SpecialTest, GoesOn, AfterSpecial, WritersOK, RxThread, TxThread
  <2>7. QED
    BY <2>1, <2>2, <2>3, <2>4, <2>5, <2>6
<1>2. CASE SendRequest(q)
  <2>1. SharedOK'
    BY <1>2 DEF SendRequest, SharedOK, SpecialFree, Due, AfterRequest, Mbufs
  <2>2. BuffersOK'
    BY <1>2 DEF SendRequest, BuffersOK, SpecialFree, Due, AfterRequest, Mbufs
  <2>3. RxOK'
    BY <1>2 DEF SendRequest, RxOK, SpecialFree, Due, AfterRequest, Mbufs
  <2>4. BurstInv'
    BY <1>2 DEF SendRequest, BurstInv, RxOK, SpecialFree, Due, AfterRequest, Mbufs
  <2>5. TxOK'
    BY <1>2 DEF SendRequest, TxOK, SpecialFree, Due, AfterRequest, Mbufs
  <2>6. WritersOK'
    BY <1>2 DEF SendRequest, WritersOK, SpecialFree, Due, AfterRequest, Mbufs, RxThread, TxThread
  <2>7. QED
    BY <2>1, <2>2, <2>3, <2>4, <2>5, <2>6
<1>3. CASE SentRequest(q)
  <2>1. SharedOK'
    BY <1>3 DEF SentRequest, SharedOK, AfterRequest, Mbufs
  <2>2. BuffersOK'
    <3>1. txq[q] \o special[q] \in Seq(Descs)
      <4>1. txq[q] \in Seq(Descs) /\ special[q] \in Seq(SpMbufs) /\ SpMbufs \subseteq Descs
        BY DEF BuffersOK, TxOK, Mbufs, Descs
      <4>2. QED
        BY <4>1, SeqMonotonic, ConcatProperties
    <3>2. QED
      BY <1>3, <3>1 DEF SentRequest, BuffersOK
  <2>3. RxOK'
    BY <1>3 DEF SentRequest, RxOK, AfterRequest, Mbufs
  <2>4. BurstInv'
    BY <1>3 DEF SentRequest, BurstInv, RxOK, AfterRequest, Mbufs
  <2>5. TxOK'
    BY <1>3 DEF SentRequest, TxOK, AfterRequest, Mbufs
  <2>6. WritersOK'
    BY <1>3 DEF SentRequest, WritersOK, AfterRequest, Mbufs, RxThread, TxThread
  <2>7. QED
    BY <2>1, <2>2, <2>3, <2>4, <2>5, <2>6
<1>4. CASE NoRequest(q)
  <2>1. SharedOK'
    BY <1>4 DEF NoRequest, SharedOK, AfterRequest, Due
  <2>2. BuffersOK'
    BY <1>4 DEF NoRequest, BuffersOK, AfterRequest, Due
  <2>3. RxOK'
    BY <1>4 DEF NoRequest, RxOK, AfterRequest, Due
  <2>4. BurstInv'
    BY <1>4 DEF NoRequest, BurstInv, RxOK, AfterRequest, Due
  <2>5. TxOK'
    BY <1>4 DEF NoRequest, TxOK, AfterRequest, Due
  <2>6. WritersOK'
    BY <1>4 DEF NoRequest, WritersOK, AfterRequest, Due, RxThread, TxThread
  <2>7. QED
    BY <2>1, <2>2, <2>3, <2>4, <2>5, <2>6
<1>5. CASE ClearRequests(q)
  <2>1. SharedOK'
    BY <1>5 DEF ClearRequests, GoesOn, AfterSpecial, SharedOK
  <2>2. BuffersOK'
    BY <1>5 DEF ClearRequests, GoesOn, AfterSpecial, BuffersOK
  <2>3. RxOK'
    BY <1>5 DEF ClearRequests, GoesOn, AfterSpecial, RxOK
  <2>4. BurstInv'
    BY <1>5 DEF ClearRequests, GoesOn, AfterSpecial, BurstInv, RxOK
  <2>5. TxOK'
    BY <1>5 DEF ClearRequests, GoesOn, AfterSpecial, TxOK
  <2>6. WritersOK'
    BY <1>5 DEF ClearRequests, GoesOn, AfterSpecial, WritersOK, RxThread, TxThread
  <2>7. QED
    BY <2>1, <2>2, <2>3, <2>4, <2>5, <2>6
<1>6. CASE DataSent(q)
  <2>1. SharedOK'
    BY <1>6 DEF DataSent, SharedOK
  <2>2. BuffersOK'
    <3>1. txq[q] \in Seq(Descs) /\ Regular \in Descs
      BY DEF BuffersOK, Descs
    <3>2. Append(txq[q], Regular) \in Seq(Descs)
      BY <3>1
    <3>3. QED
      BY <1>6, <3>2 DEF DataSent, BuffersOK
  <2>3. RxOK'
    BY <1>6 DEF DataSent, RxOK
  <2>4. BurstInv'
    BY <1>6 DEF DataSent, BurstInv, RxOK
  <2>5. TxOK'
    BY <1>6 DEF DataSent, TxOK
  <2>6. WritersOK'
    BY <1>6 DEF DataSent, WritersOK, RxThread, TxThread
  <2>7. QED
    BY <2>1, <2>2, <2>3, <2>4, <2>5, <2>6
<1>7. QED
  BY <1>1, <1>2, <1>3, <1>4, <1>5, <1>6 DEF TxStep

LEMMA OthersKeepHands ==
  ASSUME HandsInv,
         \/ \E q \in RxQueues : Arrive(q)
         \/ \E q \in Queues : NicTransmit(q)
         \/ \E r \in Requests : Request(r)
         \/ UNCHANGED vars
  PROVE  HandsInv'
<1> USE ReceiveAssumption, QueueFacts DEF HandsInv, rxlcore, txlcore, bounds, ghosts
<1>1. ASSUME NEW q \in RxQueues, Arrive(q) PROVE HandsInv'
  <2>1. SharedOK' /\ TxOK' /\ WritersOK'
    BY <1>1 DEF Arrive, SharedOK, TxOK, WritersOK, RxThread, TxThread
  <2>2. BuffersOK'
    BY <1>1 DEF Arrive, BuffersOK, Mbufs
  <2>3. RxOK'
    BY <1>1 DEF Arrive, RxOK
  <2>4. BurstInv'
    BY <1>1 DEF Arrive, BurstInv, RxOK
  <2>5. QED
    BY <2>1, <2>2, <2>3, <2>4
<1>2. ASSUME NEW q \in Queues, NicTransmit(q) PROVE HandsInv'
  <2>1. SharedOK' /\ TxOK' /\ WritersOK'
    BY <1>2 DEF NicTransmit, SharedOK, TxOK, WritersOK, RxThread, TxThread
  <2>2. BuffersOK'
    <3>1. Tail(txq[q]) \in Seq(Descs)
      BY <1>2, HeadTailProperties DEF NicTransmit, BuffersOK
    <3>2. QED
      BY <1>2, <3>1 DEF NicTransmit, BuffersOK
  <2>3. RxOK' /\ BurstInv'
    BY <1>2 DEF NicTransmit, RxOK, BurstInv
  <2>4. QED
    BY <2>1, <2>2, <2>3
<1>3. ASSUME NEW r \in Requests, Request(r) PROVE HandsInv'
  <2>1. SharedOK'
    BY <1>3 DEF Request, SharedOK
  <2>2. BuffersOK' /\ TxOK' /\ WritersOK' /\ RxOK' /\ BurstInv'
    BY <1>3 DEF Request, BuffersOK, TxOK, WritersOK, RxThread, TxThread, RxOK, BurstInv
  <2>3. QED
    BY <2>1, <2>2
<1>4. CASE UNCHANGED vars
  <2>1. SharedOK' /\ BuffersOK' /\ TxOK'
    BY <1>4 DEF vars, SharedOK, BuffersOK, TxOK
  <2>2. WritersOK' /\ RxOK' /\ BurstInv'
    BY <1>4 DEF vars, WritersOK, RxThread, TxThread, RxOK, BurstInv
  <2>3. QED
    BY <2>1, <2>2
<1> HIDE DEF HandsInv
<1>5. QED
  BY <1>1, <1>2, <1>3, <1>4

LEMMA HandsStep == HandsInv /\ [Next]_vars => HandsInv'
<1> SUFFICES ASSUME HandsInv, [Next]_vars PROVE HandsInv'
  OBVIOUS
<1>1. CASE UNCHANGED vars
  BY <1>1, OthersKeepHands
<1>2. CASE Next
  BY <1>2, RxKeepsHands, TxKeepsHands, OthersKeepHands DEF Next
<1>3. QED
  BY <1>1, <1>2

\* Every variable keeps its range, and an lcore holds the burst, the reply and
\* the request of the point where it is.
THEOREM HandsHold == Spec => []HandsInv
<1>1. Init => HandsInv
  BY HandsStart
<1>2. HandsInv /\ [Next]_vars => HandsInv'
  BY HandsStep
<1>3. QED
  BY <1>1, <1>2, PTL DEF Spec

(***************************************************************************)
(* TX queues.                                                              *)
(***************************************************************************)

\* With one lcore for both directions no TX queue is entered by two lcores:
\* replies go to the queue with the number of the RX queue, and that lcore
\* serves both.
THEOREM OneWriter == ~Split /\ Spec => []OneWriterPerTxQueue
<1> SUFFICES ASSUME ~Split PROVE Spec => []OneWriterPerTxQueue
  OBVIOUS
<1>1. HandsInv => OneWriterPerTxQueue
  <2> SUFFICES ASSUME HandsInv, NEW q \in Queues PROVE Cardinality(writers[q]) <= 1
    BY DEF OneWriterPerTxQueue
  <2>1. writers[q] = {} \/ writers[q] = {<<"rxtx", q>>}
    BY DEF HandsInv, WritersOK, RxThread, TxThread
  <2>2. Cardinality({}) = 0 /\ Cardinality({<<"rxtx", q>>}) = 1
    BY FS_EmptySet, FS_Singleton
  <2>3. QED
    BY <2>1, <2>2
<1>2. QED
  BY <1>1, HandsHold, PTL

(***************************************************************************)
(* Requests.                                                               *)
(***************************************************************************)

\* One request is pending at a time, and an lcore that is past a request has
\* none of its kind left to forget when it clears all of them.
RequestInv ==
    /\ RequestIsNotForgotten
    /\ \E r \in AllRequests : port_flags \cap AllRequests \subseteq {r}
    /\ \A q \in TxQueues :
        /\ tx_pc[q] \in {"tx_burst_arp", "ping"} => unsent \subseteq {"SEND_PING4_REQUEST"}
        /\ tx_pc[q] \in {"tx_burst_ping", "clear"} => unsent = {}

LEMMA RequestStart == Init => RequestInv
<1> SUFFICES ASSUME Init PROVE RequestInv
  OBVIOUS
<1>1. port_flags \cap AllRequests = {}
  BY ReceiveAssumption DEF Init, AllRequests
<1>2. "SEND_ARP_REQUEST" \in AllRequests
  BY DEF AllRequests
<1>3. QED
  BY <1>1, <1>2 DEF Init, RequestInv, RequestIsNotForgotten

\* Steps that leave requests, flags and TX lcores alone.
LEMMA OthersKeepRequests ==
  ASSUME RequestInv, UNCHANGED <<port_flags, unsent, tx_pc>>
  PROVE  RequestInv'
  BY DEF RequestInv, RequestIsNotForgotten

LEMMA TxKeepsRequests ==
  ASSUME HandsInv, RequestInv, NEW q \in TxQueues, TxStep(q)
  PROVE  RequestInv'
<1> USE DEF RestOfTx, ghosts, bounds
<1>0. /\ unsent \subseteq port_flags /\ unsent \subseteq AllRequests
      /\ tx_pc \in [TxQueues -> {"special", "arp", "ping", "clear", "tx_burst_arp",
                                 "tx_burst_ping", "data"}]
  BY DEF HandsInv, SharedOK, TxOK, RequestInv, RequestIsNotForgotten
<1>1. PICK r \in AllRequests : port_flags \cap AllRequests \subseteq {r}
  BY DEF RequestInv
<1>2. unsent \subseteq {r}
  BY <1>0, <1>1
<1>3. CASE SpecialTest(q)
  BY <1>0, <1>3 DEF SpecialTest, GoesOn, AfterSpecial, RequestInv, RequestIsNotForgotten
<1>4. CASE SendRequest(q)
  <2>1. PICK d \in Due(q) : unsent' = unsent \ {d}
    BY <1>4 DEF SendRequest
  <2>2. d = r
    BY <1>1, <2>1 DEF Due, Tst, AllRequests
  <2>3. unsent' = {} /\ port_flags' = port_flags
    BY <1>2, <1>4, <2>1, <2>2 DEF SendRequest
  <2>4. \A p \in TxQueues : p # q => tx_pc'[p] = tx_pc[p]
    BY <1>0, <1>4 DEF SendRequest
  <2>5. QED
    BY <1>1, <2>3 DEF RequestInv, RequestIsNotForgotten
<1>5. CASE SentRequest(q)
  BY <1>0, <1>5 DEF SentRequest, AfterRequest, RequestInv, RequestIsNotForgotten
<1>6. CASE NoRequest(q)
  <2>1. unsent' = unsent \ Due(q) /\ port_flags' = port_flags
    BY <1>6 DEF NoRequest
  <2>2. CASE tx_pc[q] = "arp"
    <3>1. unsent' \subseteq {"SEND_PING4_REQUEST"}
      BY <1>0, <1>1, <2>1, <2>2 DEF Due, Tst, AllRequests
    <3>2. tx_pc' = [tx_pc EXCEPT ![q] = "ping"]
      BY <1>6, <2>2 DEF NoRequest, AfterRequest
    <3>3. QED
      BY <1>0, <2>1, <3>1, <3>2 DEF RequestInv, RequestIsNotForgotten
  <2>3. CASE tx_pc[q] = "ping"
    <3>1. unsent \subseteq {"SEND_PING4_REQUEST"}
      BY <2>3 DEF RequestInv
    <3>2. unsent' = {}
      BY <1>0, <2>1, <2>3, <3>1 DEF Due
    <3>3. QED
      BY <1>1, <2>1, <3>2 DEF RequestInv, RequestIsNotForgotten
  <2>4. QED
    BY <1>6, <2>2, <2>3 DEF NoRequest
<1>7. CASE ClearRequests(q)
  <2>1. unsent' = {} /\ port_flags' \cap AllRequests = {}
    BY <1>7 DEF ClearRequests, RequestInv
  <2>2. QED
    BY <1>1, <2>1 DEF RequestInv, RequestIsNotForgotten
<1>8. CASE DataSent(q)
  BY <1>0, <1>8 DEF DataSent, RequestInv, RequestIsNotForgotten
<1>9. QED
  BY <1>3, <1>4, <1>5, <1>6, <1>7, <1>8 DEF TxStep

LEMMA RequestKeepsRequests ==
  ASSUME Patient, RequestInv, NEW r \in Requests, Request(r)
  PROVE  RequestInv'
<1>1. /\ port_flags \cap AllRequests = {}
      /\ \A q \in TxQueues : tx_pc[q] \in {"special", "data"}
      /\ port_flags' = port_flags \cup {r} /\ unsent' = unsent \cup {r} /\ tx_pc' = tx_pc
  BY DEF Request, NothingPending, txlcore
<1>2. r \in AllRequests
  BY ReceiveAssumption
<1>3. port_flags' \cap AllRequests \subseteq {r}
  BY <1>1
<1>4. unsent' \subseteq port_flags'
  BY <1>1 DEF RequestInv, RequestIsNotForgotten
<1>5. QED
  BY <1>1, <1>2, <1>3, <1>4 DEF RequestInv, RequestIsNotForgotten

\* A request that is made while no other is being served is sent or reported
\* before its flag goes, although any lcore of the port may serve it and each
\* of them clears all request flags at the end (pktgen_send_special).
THEOREM RequestStays == Patient /\ Spec => []RequestIsNotForgotten
<1> SUFFICES ASSUME Patient PROVE Spec => []RequestIsNotForgotten
  OBVIOUS
<1>1. Init => RequestInv
  BY RequestStart
<1>2. HandsInv /\ RequestInv /\ [Next]_vars => RequestInv'
  <2> SUFFICES ASSUME HandsInv, RequestInv, [Next]_vars PROVE RequestInv'
    OBVIOUS
  <2>1. ASSUME NEW q \in RxQueues, Arrive(q) \/ RxStep(q) PROVE RequestInv'
    <3>1. UNCHANGED <<port_flags, unsent, tx_pc>>
      BY <2>1 DEF Arrive, RxStep, Poll, AnswerArp, AnswerPing, ProcessGarp, PassOver,
                  ReplyEnter, ReplyLeave, FreeBulk, rxlcore, txlcore, ghosts
    <3>2. QED
      BY <3>1, OthersKeepRequests
  <2>2. ASSUME NEW q \in TxQueues, TxStep(q) PROVE RequestInv'
    BY <2>2, TxKeepsRequests
  <2>3. ASSUME NEW q \in Queues, NicTransmit(q) PROVE RequestInv'
    BY <2>3, OthersKeepRequests DEF NicTransmit, txlcore, ghosts
  <2>4. ASSUME NEW r \in Requests, Request(r) PROVE RequestInv'
    BY <2>4, RequestKeepsRequests
  <2>5. CASE UNCHANGED vars
    BY <2>5, OthersKeepRequests DEF vars, txlcore, ghosts
  <2>6. QED
    BY <2>1, <2>2, <2>3, <2>4, <2>5 DEF Next
<1>3. RequestInv => RequestIsNotForgotten
  BY DEF RequestInv
<1>4. QED
  BY <1>1, <1>2, <1>3, HandsHold, PTL DEF Spec

(***************************************************************************)
(* How often an mbuf is in a sequence.                                     *)
(***************************************************************************)
LEMMA HoldsSet ==
  ASSUME NEW S, NEW s \in Seq(S), NEW m
  PROVE  /\ IsFiniteSet({k \in DOMAIN s : s[k] = m})
         /\ Holds(s, m) \in Nat
         /\ Holds(s, m) = 0 <=> \A k \in 1 .. Len(s) : s[k] # m
<1>1. DOMAIN s = 1 .. Len(s) /\ Len(s) \in Nat
  OBVIOUS
<1>2. IsFiniteSet(1 .. Len(s))
  BY <1>1, FS_Interval
<1>3. IsFiniteSet({k \in DOMAIN s : s[k] = m})
  BY <1>1, <1>2, FS_Subset
<1>4. Holds(s, m) \in Nat
  BY <1>3, FS_CardinalityType DEF Holds
<1>5. Cardinality({k \in DOMAIN s : s[k] = m}) = 0 <=> {k \in DOMAIN s : s[k] = m} = {}
  BY <1>3, FS_EmptySet
<1>6. QED
  BY <1>1, <1>3, <1>4, <1>5 DEF Holds

LEMMA HoldsConcat ==
  ASSUME NEW S, NEW s \in Seq(S), NEW t \in Seq(S), NEW m
  PROVE  Holds(s \o t, m) = Holds(s, m) + Holds(t, m)
<1> DEFINE A == {k \in 1 .. Len(s) : s[k] = m}
           B == {k \in 1 .. Len(t) : t[k] = m}
           C == {k \in Len(s) + 1 .. Len(s) + Len(t) : t[k - Len(s)] = m}
           shift == [k \in B |-> k + Len(s)]
<1>1. Len(s) \in Nat /\ Len(t) \in Nat /\ DOMAIN s = 1 .. Len(s) /\ DOMAIN t = 1 .. Len(t)
  OBVIOUS
<1>2. /\ s \o t \in Seq(S) /\ Len(s \o t) = Len(s) + Len(t)
      /\ \A k \in 1 .. Len(s) + Len(t) :
            (s \o t)[k] = IF k <= Len(s) THEN s[k] ELSE t[k - Len(s)]
  BY ConcatProperties
<1>3. DOMAIN (s \o t) = 1 .. Len(s) + Len(t)
  BY <1>2
<1>4. {k \in DOMAIN (s \o t) : (s \o t)[k] = m} = A \cup C
  BY <1>1, <1>2, <1>3
<1>5. A \cap C = {}
  BY <1>1
<1>6. IsFiniteSet(A) /\ IsFiniteSet(B)
  BY <1>1, HoldsSet
<1>7. shift \in Bijection(B, C)
  <2>1. shift \in [B -> C]
    BY <1>1
  <2>2. \A j, k \in B : shift[j] = shift[k] => j = k
    BY <1>1
  <2>3. ASSUME NEW k \in C PROVE \E j \in B : shift[j] = k
    <3>1. k - Len(s) \in B /\ shift[k - Len(s)] = k
      BY <1>1
    <3>2. QED
      BY <3>1
  <2> HIDE DEF shift, B, C
  <2>4. QED
    BY <2>1, <2>2, <2>3 DEF Bijection, Injection, IsInjective, Surjection
<1>8. IsFiniteSet(C) /\ Cardinality(C) = Cardinality(B)
  <2>1. ExistsBijection(B, C)
    BY <1>7 DEF ExistsBijection
  <2> HIDE DEF B, C
  <2>2. QED
    BY <1>6, <2>1, FS_Bijection
<1>9. Cardinality(A \cup C) = Cardinality(A) + Cardinality(C) - Cardinality(A \cap C)
  <2> HIDE DEF A, C
  <2>1. QED
    BY <1>6, <1>8, FS_Union
<1>10. Holds(s, m) = Cardinality(A) /\ Holds(t, m) = Cardinality(B)
  BY <1>1 DEF Holds
<1>11. Cardinality(A \cap C) = 0 /\ Cardinality(A) \in Nat /\ Cardinality(B) \in Nat
  BY <1>5, <1>6, FS_EmptySet, FS_CardinalityType
<1>12. Holds(s \o t, m) = Cardinality(A \cup C)
  BY <1>4 DEF Holds
<1> HIDE DEF A, B, C
<1>13. QED
  BY <1>8, <1>9, <1>10, <1>11, <1>12

LEMMA HoldsOne == \A x, m : Holds(<<x>>, m) = IF x = m THEN 1 ELSE 0
<1> SUFFICES ASSUME NEW x, NEW m PROVE Holds(<<x>>, m) = IF x = m THEN 1 ELSE 0
  OBVIOUS
<1>1. {k \in DOMAIN <<x>> : <<x>>[k] = m} = IF x = m THEN {1} ELSE {}
  OBVIOUS
<1>2. Cardinality({1}) = 1 /\ Cardinality({}) = 0
  BY FS_Singleton, FS_EmptySet
<1>3. QED
  BY <1>1, <1>2 DEF Holds

LEMMA HoldsNone == \A m : Holds(<<>>, m) = 0
<1> SUFFICES ASSUME NEW m PROVE Holds(<<>>, m) = 0
  OBVIOUS
<1>1. {k \in DOMAIN <<>> : <<>>[k] = m} = {}
  OBVIOUS
<1>2. QED
  BY <1>1, FS_EmptySet DEF Holds

LEMMA HoldsTail ==
  ASSUME NEW S, NEW s \in Seq(S), s # <<>>, NEW m
  PROVE  Holds(s, m) = Holds(Tail(s), m) + (IF Head(s) = m THEN 1 ELSE 0)
<1>1. Head(s) \in S /\ Tail(s) \in Seq(S) /\ <<Head(s)>> \in Seq(S)
  BY HeadTailProperties
<1>2. s = <<Head(s)>> \o Tail(s)
  OBVIOUS
<1>3. Holds(<<Head(s)>> \o Tail(s), m) = Holds(<<Head(s)>>, m) + Holds(Tail(s), m)
  BY <1>1, HoldsConcat
<1>4. Holds(Tail(s), m) \in Nat
  BY <1>1, HoldsSet
<1>5. Holds(<<Head(s)>>, m) = IF Head(s) = m THEN 1 ELSE 0
  BY HoldsOne
<1>6. Holds(s, m) = Holds(<<Head(s)>> \o Tail(s), m)
  BY <1>2, Zenon
<1>7. QED
  BY <1>3, <1>4, <1>5, <1>6

LEMMA HoldsSplit ==
  ASSUME NEW S, NEW s \in Seq(S), NEW n \in 0 .. Len(s), NEW m
  PROVE  Holds(s, m) = Holds(SubSeq(s, 1, n), m) + Holds(SubSeq(s, n + 1, Len(s)), m)
<1>1. SubSeq(s, 1, n) \in Seq(S) /\ SubSeq(s, n + 1, Len(s)) \in Seq(S)
  OBVIOUS
<1>2. SubSeq(s, 1, n) \o SubSeq(s, n + 1, Len(s)) = s
  <2>1. /\ 1 \in 1 .. Len(s) + 1 /\ n \in 1 - 1 .. Len(s)
        /\ Len(s) \in n .. Len(s)
    OBVIOUS
  <2>2. SubSeq(s, 1, n) \o SubSeq(s, n + 1, Len(s)) = SubSeq(s, 1, Len(s))
    BY <2>1, ConcatAdjacentSubSeq
  <2>3. QED
    BY <2>2, SubSeqFull
<1>3. Holds(SubSeq(s, 1, n) \o SubSeq(s, n + 1, Len(s)), m)
          = Holds(SubSeq(s, 1, n), m) + Holds(SubSeq(s, n + 1, Len(s)), m)
  BY <1>1, HoldsConcat
<1>4. QED
  BY <1>2, <1>3

(***************************************************************************)
(* Mbufs.                                                                  *)
(***************************************************************************)

\* The terms of Held.
LEMMA PlacesAreNat ==
  ASSUME HandsInv, NEW m
  PROVE  /\ \A q \in Queues : Holds(txq[q], m) \in Nat
         /\ \A q \in RxQueues : /\ Holds(rxq[q], m) \in Nat /\ Holds(pkts[q], m) \in Nat
                                /\ Holds(reply[q], m) \in Nat
         /\ \A q \in TxQueues : Holds(special[q], m) \in Nat
<1>1. ASSUME NEW q \in Queues PROVE Holds(txq[q], m) \in Nat
  BY HoldsSet DEF HandsInv, BuffersOK
<1>2. ASSUME NEW q \in RxQueues
      PROVE  Holds(rxq[q], m) \in Nat /\ Holds(pkts[q], m) \in Nat /\ Holds(reply[q], m) \in Nat
  <2>1. rxq[q] \in Seq(RxMbufs) /\ pkts[q] \in Seq(RxMbufs) /\ reply[q] \in Seq(Mbufs)
    BY DEF HandsInv, RxOK
  <2>2. QED
    BY <2>1, HoldsSet
<1>3. ASSUME NEW q \in TxQueues PROVE Holds(special[q], m) \in Nat
  <2>1. special[q] \in Seq(SpMbufs)
    BY DEF HandsInv, TxOK
  <2>2. QED
    BY <2>1, HoldsSet
<1>4. QED
  BY <1>1, <1>2, <1>3

HeldOK == \A m \in Mbufs : \A q \in Queues : Held(m)[q] \in Nat

LEMMA HeldIsNat == HandsInv => HeldOK
<1> SUFFICES ASSUME HandsInv, NEW m \in Mbufs, NEW q \in Queues
             PROVE  Held(m)[q] \in Nat
  BY DEF HeldOK
<1> DEFINE rest == IF q \in RxQueues
                   THEN Holds(rxq[q], m) + Holds(pkts[q], m) + Holds(reply[q], m) ELSE 0
           more == IF q \in TxQueues THEN Holds(special[q], m) ELSE 0
<1>1. Held(m)[q] = Holds(txq[q], m) + rest + more
  BY DEF Held
<1>2. rest \in Nat /\ more \in Nat /\ Holds(txq[q], m) \in Nat
  BY PlacesAreNat
<1> HIDE DEF rest, more
<1>3. QED
  BY <1>1, <1>2

\* A step moves mbuf m between its pool and queue q, or between the places of
\* queue q.
MovedAt(m, q) ==
    /\ \A x \in Queues \ {q} : Held(m)[x] = Held(m)'[x]
    /\ pooled'[m] + Held(m)'[q] = pooled[m] + Held(m)[q]

LEMMA OwnersStay ==
  ASSUME HandsInv, HandsInv', NEW m \in Mbufs, NEW q \in Queues, MovedAt(m, q), Owners(m) = 1
  PROVE  Owners(m)' = 1
<1> DEFINE f == Held(m)
           g == Held(m)'
<1>1. HeldOK /\ HeldOK'
  BY HeldIsNat, PTL
<1>2. /\ \A x \in Queues : f[x] \in Int /\ g[x] \in Int
      /\ \A x \in Queues \ {q} : f[x] = g[x]
  BY <1>1 DEF HeldOK, MovedAt
<1>3. pooled'[m] + g[q] = pooled[m] + f[q]
  BY DEF MovedAt
<1>4. Owners(m)' = pooled'[m] + SumFunctionOnSet(g, Queues)
  BY DEF Owners
<1>5. pooled[m] + SumFunctionOnSet(f, Queues) = 1
  BY DEF Owners
<1>6. pooled[m] \in Int /\ pooled'[m] \in Int
  BY DEF HandsInv, BuffersOK
<1>7. IsFiniteSet(Queues)
  BY QueueFacts
<1> HIDE DEF f, g
<1>8. /\ SumFunctionOnSet(f, Queues) \in Int
      /\ SumFunctionOnSet(g, Queues) = SumFunctionOnSet(f, Queues) - f[q] + g[q]
  BY <1>2, <1>7, SumUpdate
<1>9. QED
  BY <1>2, <1>3, <1>4, <1>5, <1>6, <1>8

LEMMA ArriveMoves ==
  ASSUME HandsInv, NEW q \in RxQueues, Arrive(q), NEW m \in Mbufs
  PROVE  MovedAt(m, q)
<1> USE QueueFacts DEF rxlcore, txlcore, ghosts
<1>1. PICK r \in RxMbufs : /\ pooled[r] > 0 /\ pooled' = [pooled EXCEPT ![r] = @ - 1]
                           /\ rxq' = [rxq EXCEPT ![q] = Append(rxq[q], r)]
  BY DEF Arrive
<1>2. UNCHANGED <<pkts, reply, txq, special>>
  BY DEF Arrive
<1>3. rxq \in [RxQueues -> Seq(RxMbufs)] /\ pooled \in [Mbufs -> Nat] /\ r \in Mbufs
  BY DEF HandsInv, RxOK, BuffersOK, Mbufs
<1>4. \A x \in Queues \ {q} : Held(m)[x] = Held(m)'[x]
  BY <1>1, <1>2, <1>3 DEF Held
<1>5. Holds(rxq'[q], m) = Holds(rxq[q], m) + (IF r = m THEN 1 ELSE 0)
  <2>1. rxq'[q] = rxq[q] \o <<r>> /\ rxq[q] \in Seq(RxMbufs) /\ <<r>> \in Seq(RxMbufs)
    BY <1>1, <1>3, AppendIsConcat
  <2>2. Holds(rxq[q] \o <<r>>, m) = Holds(rxq[q], m) + Holds(<<r>>, m)
    BY <2>1, HoldsConcat
  <2>3. QED
    BY <2>1, <2>2, HoldsOne
<1>6. Held(m)'[q] = Held(m)[q] + (IF r = m THEN 1 ELSE 0)
  <2>1. Held(m)[q] = Holds(txq[q], m) + (Holds(rxq[q], m) + Holds(pkts[q], m)
                        + Holds(reply[q], m)) + Holds(special[q], m)
    BY DEF Held
  <2>2. Held(m)'[q] = Holds(txq[q], m) + (Holds(rxq'[q], m) + Holds(pkts[q], m)
                        + Holds(reply[q], m)) + Holds(special[q], m)
    BY <1>2 DEF Held
  <2>3. QED
    BY <1>5, <2>1, <2>2, PlacesAreNat
<1>7. pooled'[m] = pooled[m] - (IF r = m THEN 1 ELSE 0)
  BY <1>1, <1>3
<1>8. Held(m)[q] \in Nat /\ pooled[m] \in Nat
  BY <1>3, HeldIsNat DEF HeldOK
<1>9. (pooled')[m] + (Held(m)')[q] = pooled[m] + Held(m)[q]
  <2>1. CASE r = m
    BY <1>6, <1>7, <1>8, <2>1
  <2>2. CASE r # m
    BY <1>6, <1>7, <1>8, <2>2
  <2>3. QED
    BY <2>1, <2>2
<1>10. QED
  BY <1>4, <1>9 DEF MovedAt

LEMMA NicMoves ==
  ASSUME HandsInv, NEW q \in Queues, NicTransmit(q), NEW m \in Mbufs
  PROVE  MovedAt(m, q)
<1> USE QueueFacts DEF rxlcore, txlcore, ghosts
<1>1. /\ txq[q] # <<>> /\ txq' = [txq EXCEPT ![q] = Tail(txq[q])]
      /\ pooled' = [x \in Mbufs |-> IF x = Head(txq[q]) THEN pooled[x] + 1 ELSE pooled[x]]
  BY DEF NicTransmit
<1>2. UNCHANGED <<rxq, pkts, reply, special>>
  BY DEF NicTransmit
<1>3. txq \in [Queues -> Seq(Descs)] /\ pooled \in [Mbufs -> Nat]
  BY DEF HandsInv, BuffersOK
<1>4. \A x \in Queues \ {q} : Held(m)[x] = Held(m)'[x]
  BY <1>1, <1>2, <1>3 DEF Held
<1>5. Holds(txq[q], m) = Holds(txq'[q], m) + (IF Head(txq[q]) = m THEN 1 ELSE 0)
  <2>1. txq[q] \in Seq(Descs) /\ txq'[q] = Tail(txq[q])
    BY <1>1, <1>3
  <2>2. Holds(txq[q], m) = Holds(Tail(txq[q]), m) + (IF Head(txq[q]) = m THEN 1 ELSE 0)
    BY <1>1, <2>1, HoldsTail
  <2>3. QED
    BY <2>1, <2>2
<1>6. /\ Held(m)[q] = Held(m)'[q] + (IF Head(txq[q]) = m THEN 1 ELSE 0)
      /\ Held(m)'[q] \in Nat
  <2> DEFINE rest == (IF q \in RxQueues
                        THEN Holds(rxq[q], m) + Holds(pkts[q], m) + Holds(reply[q], m) ELSE 0)
             more == (IF q \in TxQueues THEN Holds(special[q], m) ELSE 0)
  <2>1. Held(m)[q] = Holds(txq[q], m) + rest + more
    BY DEF Held
  <2>2. Held(m)'[q] = Holds(txq'[q], m) + rest + more
    BY <1>2 DEF Held
  <2>3. rest \in Nat /\ more \in Nat /\ Holds(txq[q], m) \in Nat
    <3>1. rest \in Nat
      <4>1. CASE q \in RxQueues
        <5>1. Holds(rxq[q], m) \in Nat /\ Holds(pkts[q], m) \in Nat /\ Holds(reply[q], m) \in Nat
          BY <4>1, PlacesAreNat
        <5>2. Holds(rxq[q], m) + Holds(pkts[q], m) + Holds(reply[q], m) \in Nat
          BY <5>1
        <5>3. QED
          BY <4>1, <5>2
      <4>2. CASE q \notin RxQueues
        BY <4>2
      <4>3. QED
        BY <4>1, <4>2
    <3>2. more \in Nat
      <4>1. CASE q \in TxQueues
        BY <4>1, PlacesAreNat
      <4>2. CASE q \notin TxQueues
        BY <4>2
      <4>3. QED
        BY <4>1, <4>2
    <3>3. QED
      BY <3>1, <3>2, PlacesAreNat
  <2>4. Holds(txq'[q], m) \in Nat
    <3>1. txq'[q] \in Seq(Descs)
      BY <1>1, <1>3, HeadTailProperties
    <3>2. QED
      BY <3>1, HoldsSet
  <2> HIDE DEF rest, more
  <2>5. Held(m)'[q] \in Nat
    BY <2>2, <2>3, <2>4
  <2>6. CASE Head(txq[q]) = m
    BY <1>5, <2>1, <2>2, <2>3, <2>4, <2>5, <2>6
  <2>7. CASE Head(txq[q]) # m
    BY <1>5, <2>1, <2>2, <2>3, <2>4, <2>5, <2>7
  <2>8. QED
    BY <2>6, <2>7
<1>7. pooled'[m] = pooled[m] + (IF Head(txq[q]) = m THEN 1 ELSE 0)
  BY <1>1, <1>3
<1>8. Held(m)[q] \in Nat /\ pooled[m] \in Nat
  BY <1>3, HeldIsNat DEF HeldOK
<1>9. (pooled')[m] + (Held(m)')[q] = pooled[m] + Held(m)[q]
  <2>1. CASE Head(txq[q]) = m
    BY <1>6, <1>7, <1>8, <2>1
  <2>2. CASE Head(txq[q]) # m
    BY <1>6, <1>7, <1>8, <2>2
  <2>3. QED
    BY <2>1, <2>2
<1>10. QED
  BY <1>4, <1>9 DEF MovedAt

LEMMA PollMoves ==
  ASSUME HandsInv, NEW q \in RxQueues, Poll(q), NEW m \in Mbufs
  PROVE  MovedAt(m, q)
<1> USE QueueFacts DEF rxlcore, txlcore, ghosts
<1> DEFINE nb == IF Len(rxq[q]) < RxBurst THEN Len(rxq[q]) ELSE RxBurst
<1>1. /\ pkts' = [pkts EXCEPT ![q] = SubSeq(rxq[q], 1, nb)]
      /\ rxq' = [rxq EXCEPT ![q] = SubSeq(rxq[q], nb + 1, Len(rxq[q]))]
      /\ rx_pc[q] = "poll"
  BY DEF Poll
<1>2. UNCHANGED <<pooled, txq, reply, special>>
  BY DEF Poll
<1>3. /\ rxq \in [RxQueues -> Seq(RxMbufs)] /\ pkts \in [RxQueues -> Seq(RxMbufs)]
      /\ pkts[q] = <<>> /\ rxq[q] \in Seq(RxMbufs)
  BY <1>1 DEF HandsInv, RxOK, BurstInv
<1>4. \A x \in Queues \ {q} : Held(m)[x] = Held(m)'[x]
  BY <1>1, <1>2, <1>3 DEF Held
<1>5. nb \in 0 .. Len(rxq[q])
  BY <1>3, ReceiveAssumption
<1> HIDE DEF nb
<1>6. Holds(rxq[q], m) = Holds(pkts'[q], m) + Holds(rxq'[q], m)
  <2>1. pkts'[q] = SubSeq(rxq[q], 1, nb) /\ rxq'[q] = SubSeq(rxq[q], nb + 1, Len(rxq[q]))
    BY <1>1, <1>3
  <2>2. Holds(rxq[q], m)
          = Holds(SubSeq(rxq[q], 1, nb), m) + Holds(SubSeq(rxq[q], nb + 1, Len(rxq[q])), m)
    BY <1>3, <1>5, HoldsSplit
  <2>3. QED
    BY <2>1, <2>2
<1>7. Holds(pkts'[q], m) \in Nat /\ Holds(rxq'[q], m) \in Nat /\ Holds(pkts[q], m) = 0
  <2>1. pkts'[q] \in Seq(RxMbufs) /\ rxq'[q] \in Seq(RxMbufs)
    BY <1>1, <1>3, <1>5
  <2>2. QED
    BY <1>3, <2>1, HoldsSet, HoldsNone
<1>8. Held(m)'[q] = Held(m)[q]
  <2>1. Held(m)[q] = Holds(txq[q], m) + (Holds(rxq[q], m) + Holds(pkts[q], m)
                        + Holds(reply[q], m)) + Holds(special[q], m)
    BY DEF Held
  <2>2. Held(m)'[q] = Holds(txq[q], m) + (Holds(rxq'[q], m) + Holds(pkts'[q], m)
                        + Holds(reply[q], m)) + Holds(special[q], m)
    BY <1>2 DEF Held
  <2>3. QED
    BY <1>6, <1>7, <2>1, <2>2, PlacesAreNat
<1>9. QED
  BY <1>2, <1>4, <1>8 DEF MovedAt

\* An lcore takes mbuf r from a special pool to send it.
LEMMA ReplyTaken ==
  ASSUME HandsInv, NEW q \in RxQueues, NEW r \in Mbufs, NEW m \in Mbufs,
         reply[q] = <<>>, reply' = [reply EXCEPT ![q] = <<r>>],
         UNCHANGED <<txq, rxq, pkts, special>>
  PROVE  /\ \A x \in Queues \ {q} : Held(m)[x] = Held(m)'[x]
         /\ Held(m)'[q] = Held(m)[q] + (IF r = m THEN 1 ELSE 0)
<1> USE QueueFacts
<1>1. reply \in [RxQueues -> Seq(Mbufs)]
  BY DEF HandsInv, RxOK
<1>2. \A x \in Queues \ {q} : Held(m)[x] = Held(m)'[x]
  BY <1>1 DEF Held
<1>3. Holds(reply[q], m) = 0 /\ Holds(reply'[q], m) = IF r = m THEN 1 ELSE 0
  BY <1>1, HoldsNone, HoldsOne
<1>4. Held(m)[q] = Holds(txq[q], m) + (Holds(rxq[q], m) + Holds(pkts[q], m)
                      + Holds(reply[q], m)) + Holds(special[q], m)
  BY DEF Held
<1>5. Held(m)'[q] = Holds(txq[q], m) + (Holds(rxq[q], m) + Holds(pkts[q], m)
                      + Holds(reply'[q], m)) + Holds(special[q], m)
  BY DEF Held
<1>6. /\ Holds(txq[q], m) \in Nat /\ Holds(rxq[q], m) \in Nat /\ Holds(pkts[q], m) \in Nat
     /\ Holds(reply[q], m) \in Nat /\ Holds(special[q], m) \in Nat
  BY PlacesAreNat, QueueFacts
<1>7. QED
  BY <1>2, <1>3, <1>4, <1>5, <1>6

LEMMA ArpMoves ==
  ASSUME HandsInv, NEW q \in RxQueues, AnswerArp(q), NEW m \in Mbufs
  PROVE  MovedAt(m, q)
<1>1. PICK r \in Mbufs : /\ pooled[r] > 0 /\ pooled' = [pooled EXCEPT ![r] = @ - 1]
                         /\ reply' = [reply EXCEPT ![q] = <<r>>]
  BY DEF AnswerArp, SpecialFree, Mbufs
<1>2. reply[q] = <<>> /\ pooled \in [Mbufs -> Nat]
  BY DEF AnswerArp, Classifying, HandsInv, BurstInv, BuffersOK
<1>3. UNCHANGED <<txq, rxq, pkts, special>>
  BY DEF AnswerArp, txlcore
<1>4. /\ \A x \in Queues \ {q} : Held(m)[x] = Held(m)'[x]
      /\ Held(m)'[q] = Held(m)[q] + (IF r = m THEN 1 ELSE 0)
  BY <1>1, <1>2, <1>3, ReplyTaken
<1>5. pooled'[m] = pooled[m] - (IF r = m THEN 1 ELSE 0)
  BY <1>1, <1>2
<1>6. Held(m)[q] \in Nat /\ pooled[m] \in Nat
  BY <1>2, HeldIsNat, QueueFacts DEF HeldOK
<1>7. QED
  BY <1>4, <1>5, <1>6 DEF MovedAt

LEMMA PingMoves ==
  ASSUME HandsInv, NEW q \in RxQueues, AnswerPing(q), NEW m \in Mbufs, m \notin reused'
  PROVE  MovedAt(m, q)
<1>1. /\ reply' = [reply EXCEPT ![q] = <<Current(q)>>]
      /\ reused' = reused \cup {Current(q)} /\ pooled' = pooled
  BY DEF AnswerPing
<1>2. reply[q] = <<>> /\ Current(q) \in Mbufs
  BY DEF AnswerPing, Classifying, Current, HandsInv, RxOK, BurstInv, Mbufs
<1>3. UNCHANGED <<txq, rxq, pkts, special>>
  BY DEF AnswerPing, txlcore
<1>4. /\ \A x \in Queues \ {q} : Held(m)[x] = Held(m)'[x]
      /\ Held(m)'[q] = Held(m)[q] + (IF Current(q) = m THEN 1 ELSE 0)
  BY <1>1, <1>2, <1>3, ReplyTaken
<1>5. Held(m)[q] \in Nat /\ m # Current(q)
  BY <1>1, HeldIsNat, QueueFacts DEF HeldOK
<1>6. QED
  BY <1>1, <1>4, <1>5 DEF MovedAt

LEMMA ReplyMoves ==
  ASSUME HandsInv, NEW q \in RxQueues, ReplyLeave(q), NEW m \in Mbufs
  PROVE  MovedAt(m, q)
<1> USE QueueFacts
<1>1. /\ txq' = [txq EXCEPT ![q] = txq[q] \o reply[q]]
      /\ reply' = [reply EXCEPT ![q] = <<>>]
      /\ UNCHANGED <<pooled, rxq, pkts, special>>
  BY DEF ReplyLeave, txlcore
<1>2. txq \in [Queues -> Seq(Descs)] /\ reply \in [RxQueues -> Seq(Mbufs)]
  BY DEF HandsInv, BuffersOK, RxOK
<1>3. \A x \in Queues \ {q} : Held(m)[x] = Held(m)'[x]
  BY <1>1, <1>2 DEF Held
<1>4. Holds(txq'[q], m) = Holds(txq[q], m) + Holds(reply[q], m) /\ Holds(reply'[q], m) = 0
  <2>1. txq'[q] = txq[q] \o reply[q] /\ reply'[q] = <<>>
    BY <1>1, <1>2
  <2>2. txq[q] \in Seq(Descs) /\ reply[q] \in Seq(Descs)
    <3>1. Mbufs \subseteq Descs
      BY DEF Descs
    <3>2. QED
      BY <1>2, <3>1, SeqMonotonic
  <2>3. Holds(txq[q] \o reply[q], m) = Holds(txq[q], m) + Holds(reply[q], m)
    BY <2>2, HoldsConcat
  <2>4. QED
    BY <2>1, <2>3, HoldsNone
<1>5. Held(m)[q] = Holds(txq[q], m) + (Holds(rxq[q], m) + Holds(pkts[q], m)
                      + Holds(reply[q], m)) + Holds(special[q], m)
  BY DEF Held
<1>6. Held(m)'[q] = Holds(txq'[q], m) + (Holds(rxq[q], m) + Holds(pkts[q], m)
                      + Holds(reply'[q], m)) + Holds(special[q], m)
  BY <1>1 DEF Held
<1>7. /\ Holds(txq[q], m) \in Nat /\ Holds(rxq[q], m) \in Nat /\ Holds(pkts[q], m) \in Nat
     /\ Holds(reply[q], m) \in Nat /\ Holds(special[q], m) \in Nat
  BY PlacesAreNat, QueueFacts
<1>8. Held(m)'[q] = Held(m)[q]
  BY <1>4, <1>5, <1>6, <1>7
<1>9. QED
  BY <1>1, <1>3, <1>8 DEF MovedAt

LEMMA FreeMoves ==
  ASSUME HandsInv, NEW q \in RxQueues, FreeBulk(q), NEW m \in Mbufs, Owners(m) = 1
  PROVE  MovedAt(m, q)
<1> USE QueueFacts
<1>1. /\ pooled' = [x \in Mbufs |-> IF x \in ToSet(pkts[q]) THEN pooled[x] + 1 ELSE pooled[x]]
      /\ pkts' = [pkts EXCEPT ![q] = <<>>]
      /\ UNCHANGED <<txq, rxq, reply, special>>
  BY DEF FreeBulk, txlcore
<1>2. pkts \in [RxQueues -> Seq(RxMbufs)] /\ pooled \in [Mbufs -> Nat]
  BY DEF HandsInv, RxOK, BuffersOK
<1>3. \A x \in Queues \ {q} : Held(m)[x] = Held(m)'[x]
  BY <1>1, <1>2 DEF Held
<1>4. Held(m)[q] = Holds(txq[q], m) + (Holds(rxq[q], m) + Holds(pkts[q], m)
                      + Holds(reply[q], m)) + Holds(special[q], m)
  BY DEF Held
<1>5. Held(m)'[q] = Holds(txq[q], m) + (Holds(rxq[q], m) + Holds(pkts'[q], m)
                      + Holds(reply[q], m)) + Holds(special[q], m)
  BY <1>1 DEF Held
<1>6. Holds(pkts[q], m) \in {0, 1}
  <2>1. \A x \in Queues : Held(m)[x] \in Nat
    BY HeldIsNat DEF HeldOK
  <2>2. Held(m)[q] <= SumFunctionOnSet(Held(m), Queues)
    BY <2>1, SumBounds
  <2>3. SumFunctionOnSet(Held(m), Queues) \in Nat
    BY <2>1, SumIsNat
  <2>4. pooled[m] \in Nat /\ pooled[m] + SumFunctionOnSet(Held(m), Queues) = 1
    BY <1>2 DEF Owners
  <2>5. Held(m)[q] <= 1 /\ Held(m)[q] \in Nat
    BY <2>1, <2>2, <2>3, <2>4
  <2>6. /\ Holds(txq[q], m) \in Nat /\ Holds(rxq[q], m) \in Nat /\ Holds(pkts[q], m) \in Nat
       /\ Holds(reply[q], m) \in Nat /\ Holds(special[q], m) \in Nat
    BY PlacesAreNat, QueueFacts
  <2>7. QED
    BY <1>4, <2>5, <2>6
<1>7. m \in ToSet(pkts[q]) <=> Holds(pkts[q], m) # 0
  <2>1. pkts[q] \in Seq(RxMbufs)
    BY <1>2
  <2>2. Holds(pkts[q], m) = 0 <=> \A k \in 1 .. Len(pkts[q]) : pkts[q][k] # m
    BY <2>1, HoldsSet
  <2>3. QED
    BY <2>1, <2>2 DEF ToSet
<1>8. Holds(pkts'[q], m) = 0
  BY <1>1, <1>2, HoldsNone
<1>9. pooled'[m] = pooled[m] + Holds(pkts[q], m)
  BY <1>1, <1>2, <1>6, <1>7
<1>10. pooled[m] \in Nat
  BY <1>2
<1>11. pooled'[m] + Held(m)'[q] = pooled[m] + Held(m)[q]
  BY <1>4, <1>5, <1>6, <1>8, <1>9, <1>10, PlacesAreNat
<1>12. QED
  BY <1>3, <1>11 DEF MovedAt

LEMMA RequestMoves ==
  ASSUME HandsInv, NEW q \in TxQueues, SendRequest(q), NEW m \in Mbufs
  PROVE  MovedAt(m, q)
<1> USE QueueFacts DEF RestOfTx, rxlcore
<1>1. PICK r \in SpMbufs : /\ pooled[r] > 0 /\ pooled' = [pooled EXCEPT ![r] = @ - 1]
                           /\ special' = [special EXCEPT ![q] = <<r>>]
  BY DEF SendRequest, SpecialFree
<1>2. UNCHANGED <<txq, rxq, pkts, reply>> /\ tx_pc[q] \in {"arp", "ping"}
  BY DEF SendRequest
<1>3. /\ special \in [TxQueues -> Seq(SpMbufs)] /\ special[q] = <<>>
      /\ pooled \in [Mbufs -> Nat] /\ r \in Mbufs
  BY <1>2 DEF HandsInv, TxOK, BuffersOK, Mbufs
<1>4. \A x \in Queues \ {q} : Held(m)[x] = Held(m)'[x]
  BY <1>1, <1>2, <1>3 DEF Held
<1>5. Holds(special[q], m) = 0 /\ Holds(special'[q], m) = IF r = m THEN 1 ELSE 0
  BY <1>1, <1>3, HoldsNone, HoldsOne
<1>6. Held(m)'[q] = Held(m)[q] + (IF r = m THEN 1 ELSE 0)
  <2> DEFINE rest == IF q \in RxQueues
                     THEN Holds(rxq[q], m) + Holds(pkts[q], m) + Holds(reply[q], m) ELSE 0
  <2>1. Held(m)[q] = Holds(txq[q], m) + rest + Holds(special[q], m)
    BY DEF Held
  <2>2. Held(m)'[q] = Holds(txq[q], m) + rest + Holds(special'[q], m)
    BY <1>2 DEF Held
  <2>3. rest \in Nat /\ Holds(txq[q], m) \in Nat
    BY PlacesAreNat
  <2> HIDE DEF rest
  <2>4. QED
    BY <1>5, <2>1, <2>2, <2>3
<1>7. pooled'[m] = pooled[m] - (IF r = m THEN 1 ELSE 0)
  BY <1>1, <1>3
<1>8. Held(m)[q] \in Nat /\ pooled[m] \in Nat
  BY <1>3, HeldIsNat DEF HeldOK
<1>9. (pooled')[m] + (Held(m)')[q] = pooled[m] + Held(m)[q]
  <2>1. CASE r = m
    BY <1>6, <1>7, <1>8, <2>1
  <2>2. CASE r # m
    BY <1>6, <1>7, <1>8, <2>2
  <2>3. QED
    BY <2>1, <2>2
<1>10. QED
  BY <1>4, <1>9 DEF MovedAt

LEMMA RequestSentMoves ==
  ASSUME HandsInv, NEW q \in TxQueues, SentRequest(q), NEW m \in Mbufs
  PROVE  MovedAt(m, q)
<1> USE QueueFacts DEF RestOfTx, rxlcore
<1>1. /\ txq' = [txq EXCEPT ![q] = txq[q] \o special[q]]
      /\ special' = [special EXCEPT ![q] = <<>>]
      /\ UNCHANGED <<pooled, rxq, pkts, reply>>
  BY DEF SentRequest
<1>2. txq \in [Queues -> Seq(Descs)] /\ special \in [TxQueues -> Seq(SpMbufs)]
  BY DEF HandsInv, BuffersOK, TxOK
<1>3. \A x \in Queues \ {q} : Held(m)[x] = Held(m)'[x]
  BY <1>1, <1>2 DEF Held
<1>4. Holds(txq'[q], m) = Holds(txq[q], m) + Holds(special[q], m) /\ Holds(special'[q], m) = 0
  <2>1. txq'[q] = txq[q] \o special[q] /\ special'[q] = <<>>
    BY <1>1, <1>2
  <2>2. txq[q] \in Seq(Descs) /\ special[q] \in Seq(Descs)
    <3>1. SpMbufs \subseteq Descs
      BY DEF Mbufs, Descs
    <3>2. QED
      BY <1>2, <3>1, SeqMonotonic
  <2>3. Holds(txq[q] \o special[q], m) = Holds(txq[q], m) + Holds(special[q], m)
    BY <2>2, HoldsConcat
  <2>4. QED
    BY <2>1, <2>3, HoldsNone
<1>5. Held(m)'[q] = Held(m)[q]
  <2> DEFINE rest == IF q \in RxQueues
                     THEN Holds(rxq[q], m) + Holds(pkts[q], m) + Holds(reply[q], m) ELSE 0
  <2>1. Held(m)[q] = Holds(txq[q], m) + rest + Holds(special[q], m)
    BY DEF Held
  <2>2. Held(m)'[q] = Holds(txq'[q], m) + rest + Holds(special'[q], m)
    BY <1>1 DEF Held
  <2>3. rest \in Nat /\ Holds(txq[q], m) \in Nat /\ Holds(special[q], m) \in Nat
    BY PlacesAreNat
  <2> HIDE DEF rest
  <2>4. QED
    BY <1>4, <2>1, <2>2, <2>3
<1>6. QED
  BY <1>1, <1>3, <1>5 DEF MovedAt

\* A regular packet takes a descriptor and is none of the mbufs.
LEMMA DataMoves ==
  ASSUME HandsInv, NEW q \in TxQueues, DataSent(q), NEW m \in Mbufs
  PROVE  MovedAt(m, q)
<1> USE QueueFacts DEF RestOfTx, rxlcore
<1>1. /\ txq' = [txq EXCEPT ![q] = Append(txq[q], Regular)]
      /\ UNCHANGED <<pooled, rxq, pkts, reply, special>>
  BY DEF DataSent
<1>2. txq \in [Queues -> Seq(Descs)]
  BY DEF HandsInv, BuffersOK
<1>3. \A x \in Queues \ {q} : Held(m)[x] = Held(m)'[x]
  BY <1>1, <1>2 DEF Held
<1>4. Holds(txq'[q], m) = Holds(txq[q], m)
  <2>1. txq'[q] = txq[q] \o <<Regular>> /\ txq[q] \in Seq(Descs) /\ <<Regular>> \in Seq(Descs)
    BY <1>1, <1>2, AppendIsConcat DEF Descs
  <2>2. Holds(txq[q] \o <<Regular>>, m) = Holds(txq[q], m) + Holds(<<Regular>>, m)
    BY <2>1, HoldsConcat
  <2>3. Holds(<<Regular>>, m) = 0
    BY HoldsOne, ReceiveAssumption
  <2>4. Holds(txq[q], m) \in Nat
    BY PlacesAreNat
  <2>5. QED
    BY <2>1, <2>2, <2>3, <2>4
<1>5. Held(m)'[q] = Held(m)[q]
  BY <1>1, <1>4 DEF Held
<1>6. QED
  BY <1>1, <1>3, <1>5 DEF MovedAt

LEMMA NothingMoves ==
  ASSUME UNCHANGED <<pooled, txq, rxq, pkts, reply, special, reused>>
  PROVE  OneOwner => OneOwner'
<1>1. \A m \in Mbufs : Owners(m)' = Owners(m)
  BY DEF Owners, Held
<1>2. QED
  BY <1>1 DEF OneOwner

LEMMA OwnerStep == HandsInv /\ HandsInv' /\ OneOwner /\ [Next]_vars => OneOwner'
<1> SUFFICES ASSUME HandsInv, HandsInv', OneOwner, [Next]_vars PROVE OneOwner'
  OBVIOUS
<1>1. ASSUME NEW q \in Queues,
             reused \subseteq reused',
             \A m \in Mbufs : m \notin reused' /\ Owners(m) = 1 => MovedAt(m, q)
      PROVE  OneOwner'
  BY <1>1, OwnersStay DEF OneOwner
<1>2. ASSUME NEW q \in RxQueues, Arrive(q) PROVE OneOwner'
  BY <1>1, <1>2, ArriveMoves, QueueFacts DEF Arrive, ghosts
<1>3. ASSUME NEW q \in Queues, NicTransmit(q) PROVE OneOwner'
  BY <1>1, <1>3, NicMoves DEF NicTransmit, ghosts
<1>4. ASSUME NEW q \in RxQueues, RxStep(q) PROVE OneOwner'
  <2> USE QueueFacts DEF rxlcore, txlcore, ghosts
  <2>1. CASE Poll(q)
    BY <1>1, <2>1, PollMoves DEF Poll
  <2>2. CASE AnswerArp(q)
    BY <1>1, <2>2, ArpMoves DEF AnswerArp
  <2>3. CASE AnswerPing(q)
    BY <1>1, <2>3, PingMoves DEF AnswerPing
  <2>4. CASE ReplyLeave(q)
    BY <1>1, <2>4, ReplyMoves DEF ReplyLeave
  <2>5. CASE FreeBulk(q)
    BY <1>1, <2>5, FreeMoves DEF FreeBulk
  <2>6. CASE ProcessGarp(q) \/ PassOver(q) \/ ReplyEnter(q)
    BY <2>6, NothingMoves DEF ProcessGarp, PassOver, ReplyEnter
  <2>7. QED
    BY <1>4, <2>1, <2>2, <2>3, <2>4, <2>5, <2>6 DEF RxStep
<1>5. ASSUME NEW q \in TxQueues, TxStep(q) PROVE OneOwner'
  <2> USE QueueFacts DEF RestOfTx, rxlcore, ghosts
  <2>1. CASE SendRequest(q)
    BY <1>1, <2>1, RequestMoves DEF SendRequest
  <2>2. CASE SentRequest(q)
    BY <1>1, <2>2, RequestSentMoves DEF SentRequest
  <2>3. CASE DataSent(q)
    BY <1>1, <2>3, DataMoves DEF DataSent
  <2>4. CASE SpecialTest(q) \/ NoRequest(q) \/ ClearRequests(q)
    BY <2>4, NothingMoves DEF SpecialTest, NoRequest, ClearRequests, GoesOn
  <2>5. QED
    BY <1>5, <2>1, <2>2, <2>3, <2>4 DEF TxStep
<1>6. ASSUME NEW r \in Requests, Request(r) PROVE OneOwner'
  BY <1>6, NothingMoves DEF Request, rxlcore, txlcore
<1>7. CASE UNCHANGED vars
  BY <1>7, NothingMoves DEF vars, rxlcore, txlcore, ghosts
<1>8. QED
  BY <1>2, <1>3, <1>4, <1>5, <1>6, <1>7 DEF Next

LEMMA OwnerStart == Init => OneOwner
<1> SUFFICES ASSUME Init, NEW m \in Mbufs PROVE Owners(m) = 1
  BY DEF OneOwner
<1>1. \A q \in Queues : Held(m)[q] = 0
  <2>1. \A q \in Queues : txq[q] = <<>>
    BY DEF Init
  <2>2. \A q \in RxQueues : rxq[q] = <<>> /\ pkts[q] = <<>> /\ reply[q] = <<>>
    BY DEF Init
  <2>3. \A q \in TxQueues : special[q] = <<>>
    BY DEF Init
  <2>4. QED
    BY <2>1, <2>2, <2>3, HoldsNone DEF Held
<1>2. SumFunctionOnSet(Held(m), Queues) = 0
  BY <1>1, QueueFacts, SumZero
<1>3. QED
  BY <1>2 DEF Init, Owners

\* Every mbuf that was not sent back as an echo reply is in one place: in its
\* pool, in one descriptor ring or in the hands of one lcore, whatever the
\* lcores, the NIC and the commands do, and for any number of queues and mbufs
\* (pktgen_main_receive, pktgen_process_arp, pktgen_send_special).
THEOREM MbufsHaveOneOwner == Spec => []OneOwner
<1>1. Init => OneOwner
  BY OwnerStart
<1>2. HandsInv /\ HandsInv' /\ OneOwner /\ [Next]_vars => OneOwner'
  BY OwnerStep
<1>3. QED
  BY <1>1, <1>2, HandsHold, PTL DEF Spec

\* The same together with the TX queues and the types, for a port each of whose
\* lcores serves both directions.
THEOREM NothingShared == ~Split /\ Spec => []NothingIsShared
<1> SUFFICES ASSUME ~Split PROVE Spec => []NothingIsShared
  OBVIOUS
<1>1. TypeOK /\ OneOwner /\ OneWriterPerTxQueue => NothingIsShared
  BY DEF NothingIsShared
<1>2. Spec => []OneWriterPerTxQueue
  BY OneWriter
<1>3. QED
  BY <1>1, <1>2, HandsHold, HandsGiveTypes, MbufsHaveOneOwner, PTL
=============================================================================
