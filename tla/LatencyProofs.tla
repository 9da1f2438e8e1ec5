----------------------------- MODULE LatencyProofs -----------------------------
(***************************************************************************)
(* Theorems about Latency for every number of RX queues, length of the     *)
(* ring, number of samples and measured latency.                           *)
(***************************************************************************)
EXTENDS Latency, TLAPS

(***************************************************************************)
(* Type correctness.  A lcore that has room for a sample keeps it until it *)
(* has stored it, also when the sampler is stopped or started meanwhile.   *)
(***************************************************************************)
RoomInv == \A q \in RxQueues :
    rx_pc[q] \in {"store", "advance"} => latsamp[q].idx < MAX_LATENCY_ENTRIES

\* A share of the samples asked for is no more than all of them.
LEMMA Shares ==
    ASSUME NEW n \in 0 .. MAX_LATENCY_ENTRIES
    PROVE  n \div RxCnt \in 0 .. MAX_LATENCY_ENTRIES
  BY LatencyAssumption

\* A position of the ring that is stepped over its end begins at 0.
LEMMA Wraps ==
    ASSUME NEW R \in Nat \ {0}, NEW x \in Nat
    PROVE  /\ x < R => x % R = x
           /\ R <= x /\ x < R + R => x % R = x - R
  OBVIOUS

\* Extremes and RingInsert keep the types of latency_t.
LEMMA InsertTypes ==
    ASSUME NEW l \in Stats, NEW c \in Cycles
    PROVE  LET r == RingInsert(Extremes(c, [l EXCEPT !.expect_index = @ + 1,
                                                      !.num_latency_pkts = @ + 1]), c)
           IN  /\ r \in Stats
               /\ r.next_index = l.next_index /\ r.expect_index = l.expect_index + 1
               /\ r.num_latency_pkts = l.num_latency_pkts + 1 /\ r.num_skipped = l.num_skipped
               /\ r.min_cycles = (IF l.min_cycles = 0 \/ c < l.min_cycles THEN c ELSE l.min_cycles)
               /\ r.max_cycles = (IF l.max_cycles = 0 \/ c > l.max_cycles THEN c ELSE l.max_cycles)
               /\ r.data = [l.data EXCEPT ![l.head] = c]
               /\ r.head = (IF l.head = RING_SIZE - 1 THEN 0 ELSE l.head + 1)
               /\ r.count = (IF l.count < RING_SIZE THEN l.count + 1 ELSE l.count)
<1> DEFINE a1 == [l EXCEPT !.expect_index = l.expect_index + 1]
           seen == l.num_latency_pkts + 1
           a2 == [a1 EXCEPT !.num_latency_pkts = seen]
           min == IF a2.min_cycles = 0 \/ c < a2.min_cycles THEN c ELSE a2.min_cycles
           max == IF a2.max_cycles = 0 \/ c > a2.max_cycles THEN c ELSE a2.max_cycles
           b1 == [a2 EXCEPT !.min_cycles = min]
           b2 == [b1 EXCEPT !.max_cycles = max]
           next == (b2.head + 1) % RING_SIZE
           many == IF b2.count < RING_SIZE THEN b2.count + 1 ELSE b2.count
           data == [b2.data EXCEPT ![b2.head] = c]
           r1 == [b2 EXCEPT !.data = data]
           r2 == [r1 EXCEPT !.head = next]
           r3 == [r2 EXCEPT !.count = many]
<1>1. c \in Nat /\ RING_SIZE \in Nat \ {0}
  BY LatencyAssumption
<1>2. r3 = RingInsert(Extremes(c, [l EXCEPT !.expect_index = @ + 1, !.num_latency_pkts = @ + 1]), c)
  BY DEF RingInsert, Extremes
<1>3. a1 \in Stats /\ a1 = [l EXCEPT !.expect_index = l.expect_index + 1]
  BY DEF Stats
<1> HIDE DEF a1
<1>s. seen \in Nat
  BY DEF Stats
<1> HIDE DEF seen
<1>4. a2 \in Stats /\ a2 = [a1 EXCEPT !.num_latency_pkts = seen]
  BY <1>3, <1>s DEF Stats
<1> HIDE DEF a2
<1>5. min \in Nat /\ max \in Nat
  BY <1>1, <1>4 DEF Stats
<1> HIDE DEF min, max
<1>6. b1 \in Stats /\ b1 = [a2 EXCEPT !.min_cycles = min]
  BY <1>4, <1>5 DEF Stats
<1> HIDE DEF b1
<1>7. b2 \in Stats /\ b2 = [b1 EXCEPT !.max_cycles = max]
  BY <1>5, <1>6 DEF Stats
<1> HIDE DEF b2
<1>8. b2.head \in 0 .. RING_SIZE - 1 /\ b2.count \in 0 .. RING_SIZE
      /\ b2.data \in [0 .. RING_SIZE - 1 -> Nat]
  BY <1>7 DEF Stats
<1>9. /\ next = (IF b2.head = RING_SIZE - 1 THEN 0 ELSE b2.head + 1)
      /\ next \in 0 .. RING_SIZE - 1 /\ many \in 0 .. RING_SIZE
  <2> DEFINE y == b2.head + 1
  <2>0. many \in 0 .. RING_SIZE
    BY <1>1, <1>8
  <2>a. y \in Nat /\ y < RING_SIZE + RING_SIZE
    BY <1>1, <1>8
  <2>1. /\ y \in Nat /\ y < RING_SIZE + RING_SIZE /\ next = y % RING_SIZE
        /\ many \in 0 .. RING_SIZE
    BY Zenon, <2>0, <2>a
  <2>2. y >= RING_SIZE <=> b2.head = RING_SIZE - 1
    BY <1>1, <1>8
  <2>3. y >= RING_SIZE => y = RING_SIZE
    BY <1>1, <1>8
  <2> HIDE DEF y, next, many
  <2>4. y < RING_SIZE => next = y
    BY <1>1, <2>1, Wraps
  <2>5. y >= RING_SIZE => next = 0
    BY <1>1, <2>1, <2>3, Wraps
  <2> QED
    BY <1>1, <1>8, <2>1, <2>2, <2>4, <2>5 DEF y
<1>10. data \in [0 .. RING_SIZE - 1 -> Nat]
  BY <1>1, <1>8
<1> HIDE DEF next, many, data
<1>11. r1 \in Stats /\ r1 = [b2 EXCEPT !.data = data]
  BY <1>7, <1>10 DEF Stats
<1> HIDE DEF r1
<1>12. r2 \in Stats /\ r2 = [r1 EXCEPT !.head = next]
  BY <1>9, <1>11 DEF Stats
<1> HIDE DEF r2
<1>13. r3 \in Stats /\ r3 = [r2 EXCEPT !.count = many]
  BY <1>9, <1>12 DEF Stats
<1> HIDE DEF r3
<1>14. /\ b2.next_index = l.next_index /\ b2.expect_index = l.expect_index + 1
       /\ b2.num_latency_pkts = l.num_latency_pkts + 1 /\ b2.num_skipped = l.num_skipped
       /\ b2.min_cycles = min /\ b2.max_cycles = max
       /\ b2.data = l.data /\ b2.head = l.head /\ b2.count = l.count
       /\ a2.min_cycles = l.min_cycles /\ a2.max_cycles = l.max_cycles
  BY <1>3, <1>4, <1>6, <1>7 DEF Stats, seen
<1>15. /\ r3.next_index = b2.next_index /\ r3.expect_index = b2.expect_index
       /\ r3.num_latency_pkts = b2.num_latency_pkts /\ r3.num_skipped = b2.num_skipped
       /\ r3.min_cycles = b2.min_cycles /\ r3.max_cycles = b2.max_cycles
       /\ r3.data = data /\ r3.head = next /\ r3.count = many
  BY <1>7, <1>11, <1>12, <1>13 DEF Stats
<1>16. /\ min = (IF l.min_cycles = 0 \/ c < l.min_cycles THEN c ELSE l.min_cycles)
       /\ max = (IF l.max_cycles = 0 \/ c > l.max_cycles THEN c ELSE l.max_cycles)
       /\ data = [l.data EXCEPT ![l.head] = c]
       /\ next = (IF l.head = RING_SIZE - 1 THEN 0 ELSE l.head + 1)
       /\ many = (IF l.count < RING_SIZE THEN l.count + 1 ELSE l.count)
  BY <1>9, <1>14 DEF min, max, data, many
<1> QED
  BY <1>2, <1>13, <1>14, <1>15, <1>16

\* The commands and BuildProbe take an index, SkipProbe expects another one.
LEMMA IndexTypes ==
    ASSUME NEW l \in Stats, NEW k \in Nat
    PROVE  /\ [l EXCEPT !.next_index = @ + 1] \in Stats
           /\ [l EXCEPT !.next_index = @ + 1] = [l EXCEPT !.next_index = l.next_index + 1]
           /\ [l EXCEPT !.expect_index = k, !.num_skipped = @ + 1] \in Stats
           /\ [l EXCEPT !.expect_index = k, !.num_skipped = @ + 1].expect_index = k
           /\ \A f \in {"num_latency_pkts", "min_cycles", "max_cycles", "data", "head", "count",
                        "next_index"} :
                [l EXCEPT !.expect_index = k, !.num_skipped = @ + 1][f] = l[f]
<1> DEFINE more == l.next_index + 1
           skipped == l.num_skipped + 1
           a == [l EXCEPT !.expect_index = k]
           b == [a EXCEPT !.num_skipped = skipped]
<1>1. more \in Nat /\ skipped \in Nat
  BY DEF Stats
<1>2. b = [l EXCEPT !.expect_index = k, !.num_skipped = @ + 1]
  OBVIOUS
<1> HIDE DEF skipped
<1>3. a \in Stats /\ a.expect_index = k /\ a.num_latency_pkts = l.num_latency_pkts
      /\ a.min_cycles = l.min_cycles /\ a.max_cycles = l.max_cycles /\ a.data = l.data
      /\ a.head = l.head /\ a.count = l.count /\ a.next_index = l.next_index
  BY DEF Stats
<1> HIDE DEF a
<1>4. b \in Stats /\ b.expect_index = k /\ b.num_latency_pkts = a.num_latency_pkts
      /\ b.min_cycles = a.min_cycles /\ b.max_cycles = a.max_cycles /\ b.data = a.data
      /\ b.head = a.head /\ b.count = a.count /\ b.next_index = a.next_index
  BY <1>1, <1>3 DEF Stats
<1> HIDE DEF b
<1>5. [l EXCEPT !.next_index = more] \in Stats
  <2> HIDE DEF more
  <2> QED BY <1>1 DEF Stats
<1> QED
  BY <1>2, <1>3, <1>4, <1>5

\* What the sampler and the commands do to the samples of a queue.
LEMMA SampleTypes ==
    ASSUME NEW s \in Samples, NEW n \in 0 .. MAX_LATENCY_ENTRIES
    PROVE  LET r == [s EXCEPT !.next = 0, !.idx = 0, !.num_samples = n]
           IN  r \in Samples /\ r.idx = 0
<1> DEFINE a == [s EXCEPT !.next = 0]
           b == [a EXCEPT !.idx = 0]
           r == [b EXCEPT !.num_samples = n]
<1>1. MAX_LATENCY_ENTRIES \in Nat \ {0}
  BY LatencyAssumption
<1>2. r = [s EXCEPT !.next = 0, !.idx = 0, !.num_samples = n]
  OBVIOUS
<1>3. a \in Samples
  BY DEF Samples
<1> HIDE DEF a
<1>4. b \in Samples /\ b.idx = 0
  BY <1>1, <1>3 DEF Samples
<1> HIDE DEF b
<1>5. r \in Samples /\ r.idx = b.idx
  BY <1>1, <1>4 DEF Samples
<1> HIDE DEF r
<1> QED
  BY <1>2, <1>4, <1>5

\* A function on 1 .. n is a sequence.
LEMMA Sequences ==
    ASSUME NEW n \in Nat, NEW S, NEW f \in [1 .. n -> S]
    PROVE  f \in Seq(S) /\ Len(f) = n
  OBVIOUS

\* The time of the next sample has no influence on those stored.
LEMMA NextTypes ==
    ASSUME NEW s \in Samples
    PROVE  /\ [s EXCEPT !.next = 1] \in Samples
           /\ [s EXCEPT !.next = 1].data = s.data /\ [s EXCEPT !.next = 1].idx = s.idx
<1>1. MAX_LATENCY_ENTRIES \in Nat \ {0}
  BY LatencyAssumption
<1> QED
  BY <1>1 DEF Samples

\* Storing a sample changes one cell.
LEMMA StoreTypes ==
    ASSUME latsamp \in [RxQueues -> Samples], NEW q \in RxQueues, NEW c \in Nat,
           latsamp[q].idx < MAX_LATENCY_ENTRIES,
           latsamp' = [latsamp EXCEPT ![q].data[latsamp[q].idx] = c]
    PROVE  /\ latsamp' \in [RxQueues -> Samples]
           /\ \A p \in RxQueues : /\ latsamp'[p].idx = latsamp[p].idx
                                  /\ p # q => latsamp'[p].data = latsamp[p].data
           /\ latsamp'[q].data = [latsamp[q].data EXCEPT ![latsamp[q].idx] = c]
<1> DEFINE idx == latsamp[q].idx
           data == [latsamp[q].data EXCEPT ![idx] = c]
           s == [latsamp[q] EXCEPT !.data = data]
<1>1. /\ MAX_LATENCY_ENTRIES \in Nat \ {0} /\ latsamp[q] \in Samples
      /\ idx \in 0 .. MAX_LATENCY_ENTRIES - 1
  BY LatencyAssumption DEF Samples
<1>2. data \in [0 .. MAX_LATENCY_ENTRIES - 1 -> Nat]
  BY <1>1 DEF Samples
<1>3. latsamp' = [latsamp EXCEPT ![q] = s]
  OBVIOUS
<1> HIDE DEF data
<1>4. s \in Samples /\ s.idx = idx /\ s.data = data
  BY <1>1, <1>2 DEF Samples
<1> HIDE DEF s
<1> QED
  BY <1>3, <1>4 DEF data

\* Advancing steps over it.
LEMMA AdvanceTypes ==
    ASSUME latsamp \in [RxQueues -> Samples], NEW q \in RxQueues,
           latsamp[q].idx < MAX_LATENCY_ENTRIES,
           latsamp' = [latsamp EXCEPT ![q].idx = @ + 1, ![q].next = 1]
    PROVE  /\ latsamp' \in [RxQueues -> Samples]
           /\ \A p \in RxQueues : /\ latsamp'[p].data = latsamp[p].data
                                  /\ p # q => latsamp'[p].idx = latsamp[p].idx
           /\ latsamp'[q].idx = latsamp[q].idx + 1
<1> DEFINE more == latsamp[q].idx + 1
           s1 == [latsamp[q] EXCEPT !.idx = more]
           s2 == [s1 EXCEPT !.next = 1]
           l1 == [latsamp EXCEPT ![q].idx = more]
<1>1. /\ latsamp[q] \in Samples /\ more \in 0 .. MAX_LATENCY_ENTRIES
      /\ MAX_LATENCY_ENTRIES \in Nat
  BY LatencyAssumption DEF Samples
<1>2. l1 = [latsamp EXCEPT ![q] = s1]
  OBVIOUS
<1>3. latsamp' = [l1 EXCEPT ![q].next = 1]
  OBVIOUS
<1> HIDE DEF more
<1>4. s1 \in Samples /\ s1.data = latsamp[q].data /\ s1.idx = more
  BY <1>1 DEF Samples
<1>5. [l1 EXCEPT ![q].next = 1] = [latsamp EXCEPT ![q] = s2]
  BY <1>2
<1> HIDE DEF s1, l1
<1>6. s2 \in Samples /\ s2.data = s1.data /\ s2.idx = s1.idx
  BY <1>4, NextTypes
<1> HIDE DEF s2
<1>7. latsamp' = [latsamp EXCEPT ![q] = s2]
  BY <1>3, <1>5
<1>8. latsamp' \in [RxQueues -> Samples]
  BY <1>6, <1>7
<1>9. /\ latsamp'[q].data = latsamp[q].data /\ latsamp'[q].idx = more
      /\ \A p \in RxQueues : p # q => latsamp'[p] = latsamp[p]
  BY <1>4, <1>6, <1>7
<1> QED
  BY <1>8, <1>9 DEF more

\* Without room only the time of the next sample is set.
LEMMA DropTypes ==
    ASSUME latsamp \in [RxQueues -> Samples], NEW q \in RxQueues,
           latsamp' = [latsamp EXCEPT ![q].next = 1]
    PROVE  /\ latsamp' \in [RxQueues -> Samples]
           /\ \A p \in RxQueues : /\ latsamp'[p].data = latsamp[p].data
                                  /\ latsamp'[p].idx = latsamp[p].idx
<1> DEFINE s == [latsamp[q] EXCEPT !.next = 1]
<1>1. latsamp[q] \in Samples
  OBVIOUS
<1>2. latsamp' = [latsamp EXCEPT ![q] = s]
  OBVIOUS
<1>3. s \in Samples /\ s.data = latsamp[q].data /\ s.idx = latsamp[q].idx
  BY <1>1, NextTypes
<1> HIDE DEF s
<1> QED
  BY <1>2, <1>3

\* StartSampler and ResetSampler begin again on every queue.
LEMMA RestartTypes ==
    ASSUME latsamp \in [RxQueues -> Samples], NEW n \in 0 .. MAX_LATENCY_ENTRIES,
           latsamp' = [q \in RxQueues |->
               [latsamp[q] EXCEPT !.next = 0, !.idx = 0, !.num_samples = n]]
    PROVE  /\ latsamp' \in [RxQueues -> Samples]
           /\ \A q \in RxQueues : latsamp'[q].idx = 0
<1> DEFINE r(q) == [latsamp[q] EXCEPT !.next = 0, !.idx = 0, !.num_samples = n]
<1>1. latsamp' = [q \in RxQueues |-> r(q)]
  OBVIOUS
<1>2. \A q \in RxQueues : r(q) \in Samples /\ r(q).idx = 0
  BY SampleTypes
<1> HIDE DEF r
<1> QED
  BY <1>1, <1>2

TypeInv == TypeOK /\ RoomInv

LEMMA TypeStart == Init => TypeInv
<1> SUFFICES ASSUME Init PROVE TypeInv
  OBVIOUS
<1>1. /\ RxQueues \subseteq Nat /\ RING_SIZE \in Nat \ {0} /\ MAX_LATENCY_ENTRIES \in Nat \ {0}
  BY LatencyAssumption DEF RxQueues
<1>2. lat \in Stats
  BY <1>1 DEF Init, Stats, ZeroStats
<1>3. NoSamples \in Samples
  BY <1>1 DEF NoSamples, Samples
<1>4. RoomInv
  BY DEF Init, RoomInv
<1> QED
  <2>1. /\ rxq \in [RxQueues -> Seq(Nat \cup {Single})] /\ latsamp \in [RxQueues -> Samples]
        /\ rx_pc \in [RxQueues -> {"poll", "sample", "store", "advance"}]
        /\ cycles \in [RxQueues -> Nat] /\ need \in [RxQueues -> Nat]
        /\ file \in [RxQueues -> Seq(Nat)] /\ sampled \in [RxQueues -> Seq(Nat)]
    BY <1>3 DEF Init
  <2>2. latsamp_num_samples \in 0 .. MAX_LATENCY_ENTRIES /\ latsamp_rate \in Nat
    BY <1>1 DEF Init
  <2> QED
    BY <1>2, <1>4, <2>1, <2>2 DEF Init, TypeInv, TypeOK, Single

\* The steps of a RX lcore, with a probe, and with a sample.
LEMMA ProbeTypes ==
    ASSUME TypeInv, NEW q \in RxQueues, PassPacket(q) \/ SkipProbe(q) \/ CountProbe(q)
    PROVE  TypeInv'
<1> USE DEF tx, rx, cli, wanted, history
<1>1. /\ rxq[q] \in Seq(Nat \cup {Single}) /\ rxq[q] # <<>>
      /\ Tail(rxq[q]) \in Seq(Nat \cup {Single}) /\ Head(rxq[q]) \in Nat \cup {Single}
      /\ rxq' = [rxq EXCEPT ![q] = Tail(@)]
  <2>1. rxq[q] \in Seq(Nat \cup {Single}) /\ rxq[q] # <<>> /\ rxq' = [rxq EXCEPT ![q] = Tail(@)]
    BY DEF TypeInv, TypeOK, PassPacket, SkipProbe, CountProbe, Polls
  <2> QED
    BY <2>1
<1>2. rxq' \in [RxQueues -> Seq(Nat \cup {Single})]
  BY <1>1 DEF TypeInv, TypeOK
<1>3. CASE PassPacket(q)
  BY <1>2, <1>3 DEF TypeInv, TypeOK, RoomInv, PassPacket
<1>4. CASE SkipProbe(q)
  <2>1. Head(rxq[q]) \in Nat /\ Head(rxq[q]) + 1 \in Nat
    BY <1>1, <1>4 DEF SkipProbe
  <2>2. lat' \in Stats
    BY <1>4, <2>1, IndexTypes DEF SkipProbe, TypeInv, TypeOK
  <2> QED
    BY <1>2, <1>4, <2>1, <2>2 DEF TypeInv, TypeOK, RoomInv, SkipProbe
<1>5. CASE CountProbe(q)
  <2>1. PICK c \in Cycles :
          /\ lat' = RingInsert(Extremes(c, [lat EXCEPT !.expect_index = @ + 1,
                                                       !.num_latency_pkts = @ + 1]), c)
          /\ cycles' = [cycles EXCEPT ![q] = c]
          /\ accepted' = Append(accepted, c)
    BY <1>5 DEF CountProbe
  <2>2. lat \in Stats
    BY DEF TypeInv, TypeOK
  <2>3. lat' \in Stats
    BY <2>1, <2>2, InsertTypes
  <2>4. last' \in Nat
    BY <1>1, <1>5, <2>2 DEF CountProbe, Stats
  <2>5. accepted' \in Seq(Cycles) /\ cycles' \in [RxQueues -> Nat]
    BY <2>1, LatencyAssumption DEF TypeInv, TypeOK
  <2>6. RoomInv'
    BY <1>5 DEF TypeInv, TypeOK, RoomInv, CountProbe
  <2> QED
    BY <1>2, <1>5, <2>3, <2>4, <2>5, <2>6 DEF TypeInv, TypeOK, CountProbe
<1> QED
  BY <1>3, <1>4, <1>5

LEMMA SamplerTypes ==
    ASSUME TypeInv, NEW q \in RxQueues,
           TakeSample(q) \/ DropSample(q) \/ NoSample(q) \/ StoreSample(q) \/ AdvanceSample(q)
    PROVE  TypeInv'
<1> USE DEF tx, rx, cli, wanted, history
<1>1. /\ latsamp \in [RxQueues -> Samples] /\ cycles[q] \in Nat /\ RoomInv
      /\ latsamp[q].idx \in 0 .. MAX_LATENCY_ENTRIES
      /\ latsamp[q].num_samples \in 0 .. MAX_LATENCY_ENTRIES
      /\ MAX_LATENCY_ENTRIES \in Nat
  <2>1. latsamp \in [RxQueues -> Samples] /\ cycles \in [RxQueues -> Nat] /\ RoomInv
    BY DEF TypeInv, TypeOK
  <2>2. latsamp[q] \in Samples
    BY <2>1
  <2>3. cycles[q] \in Nat
    BY <2>1
  <2> QED
    BY <2>1, <2>2, <2>3, LatencyAssumption DEF Samples
<1>2. CASE TakeSample(q)
  <2>1. latsamp[q].idx < MAX_LATENCY_ENTRIES
    BY <1>1, <1>2 DEF TakeSample, HasRoom
  <2> QED
    BY <1>1, <1>2, <2>1 DEF TypeInv, TypeOK, RoomInv, TakeSample
<1>3. CASE DropSample(q)
  <2>1. latsamp' \in [RxQueues -> Samples] /\ \A p \in RxQueues : latsamp'[p].idx = latsamp[p].idx
    BY <1>1, <1>3, DropTypes DEF DropSample
  <2> QED
    BY <1>1, <1>3, <2>1 DEF TypeInv, TypeOK, RoomInv, DropSample
<1>4. CASE NoSample(q)
  BY <1>4 DEF TypeInv, TypeOK, RoomInv, NoSample
<1>5. CASE StoreSample(q)
  <2>1. latsamp[q].idx < MAX_LATENCY_ENTRIES
    BY <1>1, <1>5 DEF RoomInv, StoreSample
  <2>2. latsamp' \in [RxQueues -> Samples] /\ \A p \in RxQueues : latsamp'[p].idx = latsamp[p].idx
    BY <1>1, <1>5, <2>1, StoreTypes DEF StoreSample
  <2>3. /\ rx_pc' = [rx_pc EXCEPT ![q] = "advance"]
        /\ sampled' = [sampled EXCEPT ![q] = Append(@, cycles[q])]
        /\ UNCHANGED <<port_flags, hdr, lat, tx, rxq, cycles, cli, accepted, last>>
    BY <1>5, Zenon DEF StoreSample
  <2>4. sampled' \in [RxQueues -> Seq(Nat)]
    BY <1>1, <2>3 DEF TypeInv, TypeOK
  <2>5. rx_pc' \in [RxQueues -> {"poll", "sample", "store", "advance"}] /\ RoomInv'
    BY <1>1, <2>1, <2>2, <2>3 DEF TypeInv, TypeOK, RoomInv
  <2> QED
    BY <2>2, <2>3, <2>4, <2>5 DEF TypeInv, TypeOK
<1>6. CASE AdvanceSample(q)
  <2>1. latsamp[q].idx < MAX_LATENCY_ENTRIES
    BY <1>1, <1>6 DEF RoomInv, AdvanceSample
  <2>2. /\ latsamp' \in [RxQueues -> Samples]
        /\ \A p \in RxQueues : p # q => latsamp'[p].idx = latsamp[p].idx
    BY <1>1, <1>6, <2>1, AdvanceTypes DEF AdvanceSample
  <2> QED
    BY <1>1, <1>6, <2>1, <2>2 DEF TypeInv, TypeOK, RoomInv, AdvanceSample
<1> QED
  BY <1>2, <1>3, <1>4, <1>5, <1>6

LEMMA TypeStep == TypeInv /\ [Next]_vars => TypeInv'
<1> SUFFICES ASSUME TypeInv, [Next]_vars PROVE TypeInv'
  OBVIOUS
<1> USE DEF tx, rx, cli, wanted, history
<1>1. lat \in Stats /\ latsamp \in [RxQueues -> Samples] /\ lat.next_index \in Nat
  BY DEF TypeInv, TypeOK, Stats
<1>2. CASE BuildProbe
  <2>1. lat' \in Stats
    BY <1>1, <1>2, IndexTypes DEF BuildProbe
  <2> QED
    BY <1>1, <1>2, <2>1 DEF TypeInv, TypeOK, RoomInv, BuildProbe
<1>3. CASE SendProbe
  <2>1. rxq' \in [RxQueues -> Seq(Nat \cup {Single})]
    <3>1. CASE \E q \in RxQueues : rxq' = [rxq EXCEPT ![q] = Append(@, hdr)]
      <4>1. PICK q \in RxQueues : rxq' = [rxq EXCEPT ![q] = Append(@, hdr)]
        BY <3>1
      <4>2. Append(rxq[q], hdr) \in Seq(Nat \cup {Single})
        BY DEF TypeInv, TypeOK
      <4> QED
        BY <4>1, <4>2 DEF TypeInv, TypeOK
    <3>2. CASE rxq' = rxq
      BY <3>2 DEF TypeInv, TypeOK
    <3> QED
      BY <1>3, <3>1, <3>2 DEF SendProbe
  <2> QED
    BY <1>3, <2>1 DEF TypeInv, TypeOK, RoomInv, SendProbe
<1>4. ASSUME NEW q \in RxQueues, RxStep(q) PROVE TypeInv'
  BY <1>4, ProbeTypes, SamplerTypes DEF RxStep
<1>5. CASE EnableLatency \/ DisableLatency \/ SetSingle
  <2>1. commands' \in Nat /\ cli_pc' \in {"idle", "write", "reset"} /\ hdr' \in Nat \cup {Single}
    BY <1>5 DEF TypeInv, TypeOK, EnableLatency, DisableLatency, SetSingle, Command
  <2>2. port_flags' \subseteq {"SEND_LATENCY_PKTS", "SAMPLING_LATENCIES"}
    BY <1>5 DEF TypeInv, TypeOK, EnableLatency, DisableLatency, SetSingle, Command
  <2>3. UNCHANGED <<lat, tx, rxq, rx, latsamp, file, need, history>>
    BY <1>5 DEF EnableLatency, DisableLatency, SetSingle, Command
  <2>4. UNCHANGED wanted
    BY <1>5 DEF EnableLatency, DisableLatency, SetSingle
  <2> QED
    BY <2>1, <2>2, <2>3, <2>4 DEF TypeInv, TypeOK, RoomInv
<1>6. CASE ClearStats
  <2>1. ZeroStats \in Stats
    BY LatencyAssumption DEF ZeroStats, Stats
  <2> QED
    BY <1>6, <2>1 DEF TypeInv, TypeOK, RoomInv, ClearStats, Command, Single
<1>7. CASE StartSampler
  <2>0. /\ hdr' = lat.next_index /\ lat' = [lat EXCEPT !.next_index = @ + 1]
        /\ port_flags' = port_flags \cup {"SAMPLING_LATENCIES"}
        /\ sampled' = [q \in RxQueues |-> <<>>] /\ commands' = commands + 1
        /\ UNCHANGED <<tx, rxq, rx, cli_pc, file, need, wanted, accepted, last>>
    BY <1>7, Zenon DEF StartSampler, Command
  <2> DEFINE n == latsamp_num_samples \div RxCnt
  <2>1. latsamp' = [q \in RxQueues |->
            [latsamp[q] EXCEPT !.next = 0, !.idx = 0, !.num_samples = n]]
    BY <1>7, Zenon DEF StartSampler
  <2>2. n \in 0 .. MAX_LATENCY_ENTRIES
    BY Shares DEF TypeInv, TypeOK
  <2> HIDE DEF n
  <2>3. latsamp' \in [RxQueues -> Samples] /\ \A q \in RxQueues : latsamp'[q].idx = 0
    BY <1>1, <2>1, <2>2, RestartTypes
  <2>4. RoomInv'
    BY LatencyAssumption, <2>3 DEF RoomInv
  <2>5. lat' \in Stats
    BY <1>1, <2>0, IndexTypes
  <2> QED
    <3>1. commands \in Nat
      BY DEF TypeInv, TypeOK
    <3>2. hdr' \in Nat /\ commands' \in Nat /\ sampled' \in [RxQueues -> Seq(Nat)]
      BY <1>1, <2>0, <3>1
    <3>3. port_flags' \subseteq {"SEND_LATENCY_PKTS", "SAMPLING_LATENCIES"}
      BY <2>0 DEF TypeInv, TypeOK
    <3> QED
      BY <2>0, <2>3, <2>4, <2>5, <3>2, <3>3 DEF TypeInv, TypeOK
<1>8. CASE StopSampler
  <2>1. need' \in [RxQueues -> Nat]
    BY <1>1, <1>8 DEF StopSampler, Samples
  <2> QED
    BY <1>8, <2>1 DEF TypeInv, TypeOK, RoomInv, StopSampler, Command
<1>9. CASE WriteSamples
  <2>1. ASSUME NEW q \in RxQueues
        PROVE  [k \in 1 .. latsamp[q].idx |-> latsamp[q].data[k - 1]] \in Seq(Nat)
    <3>1. /\ latsamp[q].idx \in Nat /\ latsamp[q].idx <= MAX_LATENCY_ENTRIES
          /\ latsamp[q].data \in [0 .. MAX_LATENCY_ENTRIES - 1 -> Nat]
          /\ MAX_LATENCY_ENTRIES \in Nat
      BY <1>1, LatencyAssumption DEF Samples
    <3>2. \A k \in 1 .. latsamp[q].idx : latsamp[q].data[k - 1] \in Nat
      BY <3>1
    <3> QED
      BY <3>1, <3>2, Sequences
  <2>2. file' \in [RxQueues -> Seq(Nat)]
    BY <1>9, <2>1 DEF WriteSamples
  <2> QED
    BY <1>9, <2>2 DEF TypeInv, TypeOK, RoomInv, WriteSamples
<1>10. CASE ResetSampler
  <2>1. latsamp' \in [RxQueues -> Samples] /\ \A q \in RxQueues : latsamp'[q].idx = 0
    <3>1. 0 \in 0 .. MAX_LATENCY_ENTRIES
      BY LatencyAssumption
    <3> QED
      BY <1>1, <1>10, <3>1, RestartTypes DEF ResetSampler
  <2>2. RoomInv'
    BY LatencyAssumption, <2>1 DEF RoomInv
  <2>3. lat' \in Stats
    BY <1>1, <1>10, IndexTypes DEF ResetSampler
  <2> QED
    BY <1>1, <1>10, <2>1, <2>2, <2>3 DEF TypeInv, TypeOK, ResetSampler
<1>11. CASE UNCHANGED vars
  BY <1>11 DEF TypeInv, TypeOK, RoomInv, vars
<1>12. CASE SetSampler
  <2>1. /\ latsamp_num_samples' \in 0 .. MAX_LATENCY_ENTRIES /\ latsamp_rate' \in Nat
        /\ hdr' \in Nat \cup {Single}
    <3>1. PICK n \in SampleCounts, rate \in {0, 1} :
            IF n > MAX_LATENCY_ENTRIES THEN UNCHANGED <<wanted, hdr>>
            ELSE latsamp_num_samples' = n /\ latsamp_rate' = rate /\ hdr' = Single
      BY <1>12, Zenon DEF SetSampler
    <3>2. n \in Nat /\ MAX_LATENCY_ENTRIES \in Nat
      BY LatencyAssumption
    <3> QED
      BY <3>1, <3>2 DEF TypeInv, TypeOK
  <2>2. file' \in [RxQueues -> Seq(Nat)]
    <3>1. file' = file \/ file' = [q \in RxQueues |-> <<>>]
      BY <1>12 DEF SetSampler
    <3>2. file \in [RxQueues -> Seq(Nat)]
      BY DEF TypeInv, TypeOK
    <3>3. <<>> \in Seq(Nat)
      OBVIOUS
    <3> QED
      BY <3>1, <3>2, <3>3
  <2>3. commands' = commands + 1 /\ UNCHANGED <<port_flags, lat, tx, rxq, rx, latsamp, cli_pc, need, history>>
    BY <1>12, Zenon DEF SetSampler, Command
  <2> QED
    BY <2>1, <2>2, <2>3 DEF TypeInv, TypeOK, RoomInv
<1> QED
  BY <1>2, <1>3, <1>4, <1>5, <1>6, <1>7, <1>8, <1>9, <1>10, <1>11, <1>12 DEF Next

-----------------------------------------------------------------------------
(***************************************************************************)
(* The statistics are those of the probes counted.  The ring is described  *)
(* from its newest entry to its oldest, which needs no remainders.         *)
(***************************************************************************)

\* The position of the i-th newest entry.
At(h, i) == IF i <= h THEN h - i ELSE h - i + RING_SIZE

RingHolds(l, s) ==
    /\ l.num_latency_pkts = Len(s)
    /\ l.count = IF Len(s) < RING_SIZE THEN Len(s) ELSE RING_SIZE
    /\ \A i \in 1 .. l.count : l.data[At(l.head, i)] = s[Len(s) + 1 - i]

ExtremesHold(l, s) ==
    /\ Len(s) = 0 => l.min_cycles = 0 /\ l.max_cycles = 0
    /\ Len(s) > 0 =>
        /\ \E i \in 1 .. Len(s) : s[i] = l.min_cycles
        /\ \E i \in 1 .. Len(s) : s[i] = l.max_cycles
        /\ \A i \in 1 .. Len(s) : l.min_cycles <= s[i] /\ s[i] <= l.max_cycles

StatisticsInv == RingHolds(lat, accepted) /\ ExtremesHold(lat, accepted)

\* When the head moves on, every entry is one further away from it.
LEMMA HeadMoves ==
    ASSUME NEW h \in 0 .. RING_SIZE - 1, NEW j \in 1 .. RING_SIZE - 1
    PROVE  /\ At(IF h = RING_SIZE - 1 THEN 0 ELSE h + 1, j + 1) = At(h, j)
           /\ At(h, j) \in 0 .. RING_SIZE - 1 /\ At(h, j) # h
           /\ At(IF h = RING_SIZE - 1 THEN 0 ELSE h + 1, 1) = h
<1>1. RING_SIZE \in Nat \ {0}
  BY LatencyAssumption
<1>2. CASE h = RING_SIZE - 1
  BY <1>1, <1>2 DEF At
<1>3. CASE h # RING_SIZE - 1
  BY <1>1, <1>3 DEF At
<1> QED
  BY <1>2, <1>3

\* A latency that is counted takes the place before the newest, and moves the
\* others back by one.
LEMMA RingGrows ==
    ASSUME NEW l \in Stats, NEW r \in Stats, NEW s \in Seq(Cycles), NEW c \in Cycles,
           RingHolds(l, s),
           r.num_latency_pkts = l.num_latency_pkts + 1,
           r.data = [l.data EXCEPT ![l.head] = c],
           r.head = (IF l.head = RING_SIZE - 1 THEN 0 ELSE l.head + 1),
           r.count = (IF l.count < RING_SIZE THEN l.count + 1 ELSE l.count)
    PROVE  RingHolds(r, Append(s, c))
<1> DEFINE t == Append(s, c)
<1>1. /\ l.head \in 0 .. RING_SIZE - 1 /\ l.count \in 0 .. RING_SIZE /\ RING_SIZE \in Nat \ {0}
      /\ l.data \in [0 .. RING_SIZE - 1 -> Nat] /\ l.num_latency_pkts \in Nat
  BY LatencyAssumption DEF Stats
<1>2. /\ Len(s) \in Nat /\ Len(t) = Len(s) + 1 /\ t[Len(s) + 1] = c
      /\ \A i \in 1 .. Len(s) : t[i] = s[i]
  OBVIOUS
<1>3. /\ l.num_latency_pkts = Len(s)
      /\ l.count <= Len(s)
      /\ l.count = IF Len(s) < RING_SIZE THEN Len(s) ELSE RING_SIZE
  BY <1>1, <1>2 DEF RingHolds
<1> HIDE DEF t
<1>4. r.num_latency_pkts = Len(t) /\ r.count = IF Len(t) < RING_SIZE THEN Len(t) ELSE RING_SIZE
  BY <1>1, <1>2, <1>3
<1>5. ASSUME NEW i \in 1 .. r.count
      PROVE  r.data[At(r.head, i)] = t[Len(t) + 1 - i]
  <2>1. CASE i = 1
    <3>1. At(r.head, i) = l.head
      <4>1. 1 \in 1 .. RING_SIZE - 1 \/ RING_SIZE = 1
        BY <1>1
      <4>2. CASE 1 \in 1 .. RING_SIZE - 1
        BY <1>1, <2>1, <4>2, HeadMoves, Zenon
      <4>3. CASE RING_SIZE = 1
        BY <1>1, <2>1, <4>3 DEF At
      <4> QED
        BY <4>1, <4>2, <4>3
    <3> QED
      BY <1>1, <1>2, <2>1, <3>1
  <2>2. CASE i # 1
    <3> DEFINE j == i - 1
    <3>1. j \in 1 .. l.count /\ j \in 1 .. RING_SIZE - 1 /\ i = j + 1
      BY <1>1, <2>2
    <3> HIDE DEF j
    <3>2. At(r.head, i) = At(l.head, j)
      <4>1. At(IF l.head = RING_SIZE - 1 THEN 0 ELSE l.head + 1, j + 1) = At(l.head, j)
        BY <1>1, <3>1, HeadMoves, Zenon
      <4> QED
        BY <3>1, <4>1, Zenon
    <3>3. At(l.head, j) \in 0 .. RING_SIZE - 1 /\ At(l.head, j) # l.head
      BY <1>1, <3>1, HeadMoves, Zenon
    <3>4. r.data[At(l.head, j)] = l.data[At(l.head, j)]
      BY <1>1, <3>3
    <3>5. l.data[At(l.head, j)] = s[Len(s) + 1 - j]
      BY <3>1 DEF RingHolds
    <3>6. Len(s) + 1 - j \in 1 .. Len(s) /\ Len(s) + 1 - j = Len(t) + 1 - i
      BY <1>1, <1>2, <1>3, <3>1
    <3>7. t[Len(s) + 1 - j] = s[Len(s) + 1 - j]
      BY <1>2, <3>6
    <3> QED
      BY <3>2, <3>4, <3>5, <3>6, <3>7
  <2> QED
    BY <2>1, <2>2
<1> QED
  BY <1>4, <1>5 DEF RingHolds, t

LEMMA ExtremesGrow ==
    ASSUME NEW l \in Stats, NEW r \in Stats, NEW s \in Seq(Cycles), NEW c \in Cycles,
           ExtremesHold(l, s),
           r.min_cycles = (IF l.min_cycles = 0 \/ c < l.min_cycles THEN c ELSE l.min_cycles),
           r.max_cycles = (IF l.max_cycles = 0 \/ c > l.max_cycles THEN c ELSE l.max_cycles)
    PROVE  ExtremesHold(r, Append(s, c))
<1> DEFINE t == Append(s, c)
           low == l.min_cycles
           high == l.max_cycles
<1>1. low \in Nat /\ high \in Nat /\ c \in Nat /\ c # 0
  BY LatencyAssumption DEF Stats
<1>2. /\ Len(s) \in Nat /\ Len(t) = Len(s) + 1 /\ t[Len(s) + 1] = c
      /\ \A i \in 1 .. Len(s) : t[i] = s[i]
  OBVIOUS
<1>3. \A i \in 1 .. Len(s) : s[i] \in Nat /\ s[i] # 0
  <2>1. \A i \in 1 .. Len(s) : s[i] \in Cycles
    OBVIOUS
  <2> QED
    BY <2>1, LatencyAssumption
<1> HIDE DEF t
<1>4. CASE Len(s) = 0
  <2>1. low = 0 /\ high = 0
    BY <1>4 DEF ExtremesHold
  <2>2. r.min_cycles = c /\ r.max_cycles = c
    BY <2>1
  <2>3. \A i \in 1 .. Len(t) : t[i] = c
    BY <1>2, <1>4
  <2> HIDE DEF low, high
  <2> QED
    BY <1>1, <1>2, <1>4, <2>2, <2>3 DEF ExtremesHold, t
<1>5. CASE Len(s) > 0
  <2>1. PICK i \in 1 .. Len(s) : s[i] = low
    BY <1>5 DEF ExtremesHold
  <2>2. PICK j \in 1 .. Len(s) : s[j] = high
    BY <1>5 DEF ExtremesHold
  <2>3. \A k \in 1 .. Len(s) : low <= s[k] /\ s[k] <= high
    BY <1>5 DEF ExtremesHold
  <2>4. low # 0 /\ high # 0
    BY <1>3, <2>1, <2>2
  <2>5. /\ r.min_cycles = (IF c < low THEN c ELSE low)
        /\ r.max_cycles = (IF c > high THEN c ELSE high)
    BY <2>4
  <2> HIDE DEF low, high
  <2>6. \E k \in 1 .. Len(t) : t[k] = r.min_cycles
    BY <1>2, <2>1, <2>5
  <2>7. \E k \in 1 .. Len(t) : t[k] = r.max_cycles
    BY <1>2, <2>2, <2>5
  <2>8. ASSUME NEW k \in 1 .. Len(t)
        PROVE  r.min_cycles <= t[k] /\ t[k] <= r.max_cycles
    <3>1. CASE k = Len(s) + 1
      BY <1>1, <1>2, <2>5, <3>1
    <3>2. CASE k \in 1 .. Len(s)
      BY <1>1, <1>2, <1>3, <2>3, <2>5, <3>2
    <3> QED
      BY <1>2, <3>1, <3>2
  <2> QED
    BY <1>2, <2>6, <2>7, <2>8 DEF ExtremesHold, t
<1> QED
  BY <1>2, <1>4, <1>5

LEMMA StatisticsStart == Init => StatisticsInv
  BY LatencyAssumption DEF Init, StatisticsInv, RingHolds, ExtremesHold, ZeroStats

LEMMA StatisticsStep == TypeInv /\ StatisticsInv /\ [Next]_vars => StatisticsInv'
<1> SUFFICES ASSUME TypeInv, StatisticsInv, [Next]_vars PROVE StatisticsInv'
  OBVIOUS
<1> USE DEF tx, rx, cli, wanted, history
<1> DEFINE Same(l) ==
        \A f \in {"num_latency_pkts", "min_cycles", "max_cycles", "data", "head", "count"} :
            l[f] = lat[f]
<1>1. lat \in Stats /\ lat.next_index \in Nat /\ accepted \in Seq(Cycles)
  BY DEF TypeInv, TypeOK, Stats
<1>2. ASSUME Same(lat'), accepted' = accepted PROVE StatisticsInv'
  BY <1>2 DEF StatisticsInv, RingHolds, ExtremesHold
<1>3. ASSUME lat' = [lat EXCEPT !.next_index = @ + 1] PROVE Same(lat')
  BY <1>1, <1>3 DEF Stats
<1>4. CASE BuildProbe \/ ResetSampler
  <2>1. lat' = [lat EXCEPT !.next_index = @ + 1] /\ accepted' = accepted
    BY <1>4, Zenon DEF BuildProbe, ResetSampler
  <2> QED
    BY <1>2, <1>3, <2>1
<1>5. CASE StartSampler
  <2>1. lat' = [lat EXCEPT !.next_index = @ + 1] /\ accepted' = accepted
    BY <1>5, Zenon DEF StartSampler
  <2> QED
    BY <1>2, <1>3, <2>1
<1>6. CASE ClearStats
  <2>1. lat' = ZeroStats /\ accepted' = <<>>
    BY <1>6 DEF ClearStats
  <2> QED
    BY <2>1, LatencyAssumption DEF StatisticsInv, RingHolds, ExtremesHold, ZeroStats
<1>7. ASSUME NEW q \in RxQueues, SkipProbe(q) PROVE StatisticsInv'
  <2>1. /\ Polls(q) /\ Head(rxq[q]) # Single /\ accepted' = accepted
        /\ lat' = [lat EXCEPT !.expect_index = Head(rxq[q]) + 1, !.num_skipped = @ + 1]
    BY <1>7, Zenon DEF SkipProbe
  <2> DEFINE k == Head(rxq[q]) + 1
  <2>2. k \in Nat /\ lat' = [lat EXCEPT !.expect_index = k, !.num_skipped = @ + 1]
    <3>1. rxq[q] \in Seq(Nat \cup {Single}) /\ rxq[q] # <<>>
      BY <2>1 DEF TypeInv, TypeOK, Polls
    <3> QED
      BY <2>1, <3>1
  <2> HIDE DEF k
  <2>3. Same(lat')
    <3>1. \A f \in {"num_latency_pkts", "min_cycles", "max_cycles", "data", "head", "count",
                    "next_index"} : lat'[f] = lat[f]
      <4> DEFINE r == [lat EXCEPT !.expect_index = k, !.num_skipped = @ + 1]
      <4>1. \A f \in {"num_latency_pkts", "min_cycles", "max_cycles", "data", "head", "count",
                      "next_index"} : r[f] = lat[f]
        BY <1>1, <2>2, IndexTypes
      <4> HIDE DEF r
      <4>2. lat' = r
        BY <2>2 DEF r
      <4> QED
        BY <4>1, <4>2
    <3> QED
      BY <3>1
  <2> QED
    BY <1>2, <2>1, <2>3
<1>8. ASSUME NEW q \in RxQueues, CountProbe(q) PROVE StatisticsInv'
  <2>1. PICK c \in Cycles :
          /\ lat' = RingInsert(Extremes(c, [lat EXCEPT !.expect_index = @ + 1,
                                                       !.num_latency_pkts = @ + 1]), c)
          /\ accepted' = Append(accepted, c)
    BY <1>8, Zenon DEF CountProbe
  <2>2. /\ lat' \in Stats /\ lat'.num_latency_pkts = lat.num_latency_pkts + 1
        /\ lat'.min_cycles = (IF lat.min_cycles = 0 \/ c < lat.min_cycles THEN c ELSE lat.min_cycles)
        /\ lat'.max_cycles = (IF lat.max_cycles = 0 \/ c > lat.max_cycles THEN c ELSE lat.max_cycles)
        /\ lat'.data = [lat.data EXCEPT ![lat.head] = c]
        /\ lat'.head = (IF lat.head = RING_SIZE - 1 THEN 0 ELSE lat.head + 1)
        /\ lat'.count = (IF lat.count < RING_SIZE THEN lat.count + 1 ELSE lat.count)
    BY <1>1, <2>1, InsertTypes, Zenon
  <2>3. RingHolds(lat', Append(accepted, c))
    BY <1>1, <2>2, RingGrows, Zenon DEF StatisticsInv
  <2>4. ExtremesHold(lat', Append(accepted, c))
    BY <1>1, <2>2, ExtremesGrow, Zenon DEF StatisticsInv
  <2> QED
    BY <2>1, <2>3, <2>4, Zenon DEF StatisticsInv
<1>9. CASE UNCHANGED <<lat, accepted>>
  BY <1>9 DEF StatisticsInv
<1>10. SendProbe \/ EnableLatency \/ DisableLatency \/ SetSingle \/ SetSampler \/ StopSampler
         \/ WriteSamples
         => UNCHANGED <<lat, accepted>>
  BY Zenon DEF SendProbe, EnableLatency, DisableLatency, SetSingle, SetSampler, StopSampler,
     WriteSamples, Command
<1>11. ASSUME NEW q \in RxQueues,
              PassPacket(q) \/ TakeSample(q) \/ DropSample(q) \/ NoSample(q) \/ StoreSample(q)
                \/ AdvanceSample(q)
       PROVE  UNCHANGED <<lat, accepted>>
  BY <1>11, Zenon DEF PassPacket, TakeSample, DropSample, NoSample, StoreSample, AdvanceSample
<1> QED
  BY <1>4, <1>5, <1>6, <1>7, <1>8, <1>9, <1>10, <1>11 DEF Next, RxStep, vars

\* From the oldest entry to the newest, as the page of latencies reads them.
LEMMA OldestFirst ==
    ASSUME NEW h \in 0 .. RING_SIZE - 1, NEW n \in 0 .. RING_SIZE, NEW k \in 1 .. n
    PROVE  (((h - n + RING_SIZE) % RING_SIZE) + k - 1) % RING_SIZE = At(h, n + 1 - k)
<1> DEFINE x == h - n + RING_SIZE
           oldest == x % RING_SIZE
           y == oldest + k - 1
<1>1. RING_SIZE \in Nat \ {0} /\ x \in Nat /\ x < RING_SIZE + RING_SIZE
  BY LatencyAssumption
<1>2. oldest = IF n <= h THEN h - n ELSE x
  <2>1. (x < RING_SIZE <=> ~(n <= h)) /\ x - RING_SIZE = h - n
    BY <1>1
  <2> HIDE DEF x
  <2>2. (x < RING_SIZE => oldest = x) /\ (RING_SIZE <= x => oldest = x - RING_SIZE)
    BY <1>1, Wraps
  <2>3. x < RING_SIZE \/ RING_SIZE <= x
    BY <1>1
  <2> QED
    BY <2>1, <2>2, <2>3
<1> HIDE DEF oldest
<1>3. y \in Nat /\ y < RING_SIZE + RING_SIZE
  BY <1>1, <1>2
<1>4. At(h, n + 1 - k) = IF y < RING_SIZE THEN y ELSE y - RING_SIZE
  BY <1>1, <1>2 DEF At
<1> HIDE DEF y
<1>5. (y < RING_SIZE => y % RING_SIZE = y) /\ (RING_SIZE <= y => y % RING_SIZE = y - RING_SIZE)
  BY <1>1, <1>3, Wraps
<1>6. y < RING_SIZE \/ RING_SIZE <= y
  BY <1>1, <1>3
<1>7. y % RING_SIZE = At(h, n + 1 - k)
  BY <1>4, <1>5, <1>6
<1> QED
  BY <1>7 DEF y, oldest, x

LEMMA Shown == TypeInv /\ StatisticsInv => LatenciesAreExact
<1> SUFFICES ASSUME TypeInv, StatisticsInv PROVE StatisticsAreExact
  BY DEF LatenciesAreExact, TypeInv
<1> DEFINE n == Len(accepted)
           oldest == (lat.head - lat.count + RING_SIZE) % RING_SIZE
<1>1. /\ lat.head \in 0 .. RING_SIZE - 1 /\ lat.count \in 0 .. RING_SIZE
      /\ accepted \in Seq(Cycles) /\ n \in Nat /\ RING_SIZE \in Nat \ {0}
  BY LatencyAssumption DEF TypeInv, TypeOK, Stats
<1>2. /\ lat.num_latency_pkts = n
      /\ lat.count = IF n < RING_SIZE THEN n ELSE RING_SIZE
  BY DEF StatisticsInv, RingHolds
<1>3. ASSUME NEW k \in 1 .. lat.count
      PROVE  lat.data[(oldest + k - 1) % RING_SIZE] = accepted[n - lat.count + k]
  <2> DEFINE i == lat.count + 1 - k
  <2>1. i \in 1 .. lat.count /\ n + 1 - i = n - lat.count + k
    BY <1>1
  <2>2. (oldest + k - 1) % RING_SIZE = At(lat.head, i)
    BY <1>1, OldestFirst
  <2>3. lat.data[At(lat.head, i)] = accepted[n + 1 - i]
    BY <2>1 DEF StatisticsInv, RingHolds
  <2> QED
    BY <2>1, <2>2, <2>3, Zenon
<1>4. ToSet(accepted) = {accepted[i] : i \in 1 .. n}
  BY <1>1 DEF ToSet
<1>5. ASSUME n > 0
      PROVE  /\ lat.min_cycles \in ToSet(accepted) /\ lat.max_cycles \in ToSet(accepted)
             /\ \A c \in ToSet(accepted) : lat.min_cycles <= c /\ c <= lat.max_cycles
  <2>1. /\ \E i \in 1 .. n : accepted[i] = lat.min_cycles
        /\ \E i \in 1 .. n : accepted[i] = lat.max_cycles
        /\ \A i \in 1 .. n : lat.min_cycles <= accepted[i] /\ accepted[i] <= lat.max_cycles
    BY <1>5 DEF StatisticsInv, ExtremesHold
  <2> HIDE DEF n
  <2> QED
    BY <1>4, <2>1, Zenon
<1> QED
  BY <1>2, <1>3, <1>5, Zenon DEF StatisticsAreExact

\* For every ring and every latency, what is shown are the counts, extremes and
\* last values of the probes counted since the last clear.
THEOREM Exact == Spec => []LatenciesAreExact
<1>1. Init => TypeInv /\ StatisticsInv
  BY TypeStart, StatisticsStart
<1>2. (TypeInv /\ StatisticsInv) /\ [Next]_vars => (TypeInv /\ StatisticsInv)'
  BY TypeStep, StatisticsStep
<1> QED
  BY <1>1, <1>2, Shown, PTL DEF Spec

-----------------------------------------------------------------------------
(***************************************************************************)
(* Probes are counted once.  The next probe that is not skipped is the one *)
(* after the last, and a probe that is being sent has an index larger than *)
(* those sent and smaller than those to come.                              *)
(***************************************************************************)
IndexInv ==
    /\ lat.expect_index = last + 1
    /\ sent < lat.next_index
    /\ tx_pc = "send" => sent < hdr /\ hdr < lat.next_index

ProbeStep == (lat'.num_skipped > lat.num_skipped => last' # last + 1)
             /\ (tx_pc = "send" /\ tx_pc' = "idle" => sent' > sent)

\* An index is taken while no lcore is sending a probe, unless it is for one.
LEMMA IndexStep ==
    Settled /\ TypeInv /\ IndexInv /\ [Next]_vars => IndexInv' /\ (ProbeStep \/ UNCHANGED vars)
<1> SUFFICES ASSUME Settled, TypeInv, IndexInv, [Next]_vars
             PROVE  IndexInv' /\ (ProbeStep \/ UNCHANGED vars)
  OBVIOUS
<1> USE DEF tx, rx, cli, wanted, history
<1>1. /\ lat \in Stats /\ lat.next_index \in Nat /\ lat.expect_index \in Nat
      /\ lat.num_skipped \in Nat
      /\ hdr \in Nat \cup {-1} /\ last \in Nat \cup {-1} /\ sent \in Nat \cup {-1}
  BY DEF TypeInv, TypeOK, Stats, Single
<1>2. ASSUME lat' = [lat EXCEPT !.next_index = @ + 1]
      PROVE  /\ lat'.next_index = lat.next_index + 1 /\ lat'.expect_index = lat.expect_index
             /\ lat'.num_skipped = lat.num_skipped
  BY <1>1, <1>2 DEF Stats
<1>3. CASE BuildProbe
  <2>1. /\ lat' = [lat EXCEPT !.next_index = @ + 1] /\ hdr' = lat.next_index
        /\ tx_pc = "idle" /\ tx_pc' = "send" /\ sent' = sent /\ last' = last
    BY <1>3 DEF BuildProbe
  <2> QED
    BY <1>1, <1>2, <2>1 DEF IndexInv, ProbeStep
<1>4. CASE SendProbe
  <2>1. tx_pc = "send" /\ tx_pc' = "idle" /\ sent' = hdr /\ UNCHANGED <<hdr, lat, last>>
    BY <1>4 DEF SendProbe
  <2> QED
    BY <1>1, <2>1 DEF IndexInv, ProbeStep
<1>5. CASE StartSampler \/ ResetSampler
  <2>1. /\ lat' = [lat EXCEPT !.next_index = @ + 1] /\ tx_pc = "idle"
        /\ UNCHANGED <<tx_pc, sent, last>>
    <3>1. CASE StartSampler
      BY <3>1, Zenon DEF StartSampler, TxRests
    <3>2. CASE ResetSampler
      BY <3>2, Zenon DEF ResetSampler, TxRests
    <3> QED
      BY <1>5, <3>1, <3>2
  <2> QED
    BY <1>1, <1>2, <2>1 DEF IndexInv, ProbeStep
<1>6. CASE ClearStats
  <2>1. lat' = ZeroStats /\ last' = -1 /\ sent' = -1 /\ tx_pc = "idle" /\ tx_pc' = "idle"
    BY <1>6 DEF ClearStats, TxRests
  <2>2. lat'.next_index = 0 /\ lat'.expect_index = 0 /\ lat'.num_skipped = 0
    BY <2>1 DEF ZeroStats
  <2> HIDE DEF ZeroStats
  <2> QED
    BY <1>1, <2>1, <2>2 DEF IndexInv, ProbeStep
<1>7. ASSUME NEW q \in RxQueues, SkipProbe(q) PROVE IndexInv' /\ ProbeStep
  <2> DEFINE x == Head(rxq[q])
             k == x + 1
  <2>1. /\ Polls(q) /\ x \notin {Single, lat.expect_index} /\ last' = x
        /\ lat' = [lat EXCEPT !.expect_index = k, !.num_skipped = @ + 1]
        /\ UNCHANGED <<hdr, tx_pc, sent>>
    BY <1>7, Zenon DEF SkipProbe
  <2>2. x \in Nat /\ k \in Nat
    <3>1. rxq[q] \in Seq(Nat \cup {Single}) /\ rxq[q] # <<>>
      BY <2>1 DEF TypeInv, TypeOK, Polls
    <3> QED
      BY <2>1, <3>1
  <2> HIDE DEF x
  <2>3. lat'.expect_index = k /\ lat'.next_index = lat.next_index
    <3> DEFINE r == [lat EXCEPT !.expect_index = k, !.num_skipped = @ + 1]
    <3>1. r.expect_index = k /\ \A f \in {"num_latency_pkts", "min_cycles", "max_cycles", "data",
                                          "head", "count", "next_index"} : r[f] = lat[f]
      BY <1>1, <2>2, IndexTypes
    <3> HIDE DEF r
    <3>2. lat' = r
      BY <2>1 DEF r
    <3> QED
      BY <3>1, <3>2
  <2>4. x # lat.expect_index
    BY <2>1
  <2>5. last' = x /\ UNCHANGED <<hdr, tx_pc, sent>>
    BY <2>1
  <2> QED
    BY <1>1, <2>2, <2>3, <2>4, <2>5 DEF IndexInv, ProbeStep
<1>8. ASSUME NEW q \in RxQueues, CountProbe(q) PROVE IndexInv' /\ ProbeStep
  <2>1. PICK c \in Cycles :
          lat' = RingInsert(Extremes(c, [lat EXCEPT !.expect_index = @ + 1,
                                                    !.num_latency_pkts = @ + 1]), c)
    BY <1>8, Zenon DEF CountProbe
  <2>2. Head(rxq[q]) = lat.expect_index /\ last' = Head(rxq[q]) /\ UNCHANGED <<hdr, tx_pc, sent>>
    BY <1>8, Zenon DEF CountProbe
  <2>3. /\ lat'.next_index = lat.next_index /\ lat'.expect_index = lat.expect_index + 1
        /\ lat'.num_skipped = lat.num_skipped
    BY <1>1, <2>1, InsertTypes, Zenon
  <2> QED
    BY <1>1, <2>2, <2>3 DEF IndexInv, ProbeStep
<1>9. CASE SetSingle \/ SetSampler
  <2>1. tx_pc = "idle" /\ UNCHANGED <<tx_pc, sent, lat, last>>
    BY <1>9, Zenon DEF SetSingle, SetSampler, TxRests
  <2> QED
    BY <1>1, <2>1 DEF IndexInv, ProbeStep
<1>10. ASSUME UNCHANGED <<hdr, lat, tx, last>> PROVE IndexInv' /\ ProbeStep
  BY <1>1, <1>10 DEF IndexInv, ProbeStep
<1>11. EnableLatency \/ DisableLatency \/ StopSampler \/ WriteSamples
         => UNCHANGED <<hdr, lat, tx, last>>
  BY Zenon DEF EnableLatency, DisableLatency, StopSampler, WriteSamples, Command
<1>12. ASSUME NEW q \in RxQueues,
              PassPacket(q) \/ TakeSample(q) \/ DropSample(q) \/ NoSample(q) \/ StoreSample(q)
                \/ AdvanceSample(q)
       PROVE  UNCHANGED <<hdr, lat, tx, last>>
  BY <1>12, Zenon DEF PassPacket, TakeSample, DropSample, NoSample, StoreSample, AdvanceSample
<1>13. CASE UNCHANGED vars
  BY <1>13 DEF vars, IndexInv
<1> QED
  BY <1>3, <1>4, <1>5, <1>6, <1>7, <1>8, <1>9, <1>10, <1>11, <1>12, <1>13 DEF Next, RxStep

\* If commands wait until no probe is under way, a probe is skipped only after
\* a gap, and no two probes carry one index.
THEOREM CountedOnce == Settled /\ Spec => ProbesCountOnce
<1> SUFFICES ASSUME Settled PROVE Spec => ProbesCountOnce
  OBVIOUS
<1>1. Init => TypeInv /\ IndexInv
  BY TypeStart DEF Init, IndexInv, ZeroStats
<1>2. TypeInv /\ IndexInv /\ [Next]_vars
        => (TypeInv /\ IndexInv)'
           /\ [lat'.num_skipped > lat.num_skipped => last' # last + 1]_vars
           /\ [tx_pc = "send" /\ tx_pc' = "idle" => sent' > sent]_vars
  BY TypeStep, IndexStep DEF ProbeStep
<1> QED
  BY <1>1, <1>2, PTL DEF Spec, ProbesCountOnce, OnlyGapsAreSkipped, IndicesIncrease

-----------------------------------------------------------------------------
(***************************************************************************)
(* The file has the samples.  While the sampler runs, and until its file   *)
(* is written, the cells before idx are the samples taken; a lcore that    *)
(* has stored one is ahead of idx by one.                                  *)
(***************************************************************************)
Running == Tst("SAMPLING_LATENCIES") \/ cli_pc = "write"

Ahead(q) == IF rx_pc[q] = "advance" THEN 1 ELSE 0

StoredInv == Running => \A q \in RxQueues :
    /\ Len(sampled[q]) = latsamp[q].idx + Ahead(q)
    /\ \A k \in 1 .. Len(sampled[q]) : sampled[q][k] = latsamp[q].data[k - 1]

FileInv ==
    /\ cli_pc # "idle" => ~Tst("SAMPLING_LATENCIES")
    /\ cli_pc = "write" => \A q \in RxQueues : need[q] <= latsamp[q].idx
    /\ cli_pc = "reset" => \A q \in RxQueues :
        /\ need[q] <= Len(file[q]) /\ Len(file[q]) <= Len(sampled[q])
        /\ \A k \in 1 .. Len(file[q]) : file[q][k] = sampled[q][k]

SampledInv == StoredInv /\ FileInv

\* What SampledInv speaks of.
sampler == <<port_flags, rx_pc, latsamp, sampled, cli_pc, file, need>>

LEMMA StoreStep ==
    ASSUME TypeInv, SampledInv, NEW q \in RxQueues, StoreSample(q)
    PROVE  SampledInv'
<1>1. /\ rx_pc[q] = "store" /\ rx_pc' = [rx_pc EXCEPT ![q] = "advance"]
      /\ latsamp' = [latsamp EXCEPT ![q].data[latsamp[q].idx] = cycles[q]]
      /\ sampled' = [sampled EXCEPT ![q] = Append(@, cycles[q])]
      /\ UNCHANGED <<port_flags, cli_pc, file, need>>
  BY Zenon DEF StoreSample, cli
<1>2. /\ latsamp \in [RxQueues -> Samples] /\ latsamp[q].idx < MAX_LATENCY_ENTRIES
      /\ cycles[q] \in Nat /\ sampled \in [RxQueues -> Seq(Nat)] /\ file \in [RxQueues -> Seq(Nat)]
      /\ rx_pc \in [RxQueues -> {"poll", "sample", "store", "advance"}]
  BY <1>1 DEF TypeInv, TypeOK, RoomInv
<1>3. /\ \A p \in RxQueues : /\ latsamp'[p].idx = latsamp[p].idx
                             /\ p # q => latsamp'[p].data = latsamp[p].data
      /\ latsamp'[q].data = [latsamp[q].data EXCEPT ![latsamp[q].idx] = cycles[q]]
  BY <1>1, <1>2, StoreTypes, Zenon
<1>4. /\ latsamp[q].idx \in 0 .. MAX_LATENCY_ENTRIES - 1
      /\ latsamp[q].data \in [0 .. MAX_LATENCY_ENTRIES - 1 -> Nat]
      /\ MAX_LATENCY_ENTRIES \in Nat
  BY <1>2, LatencyAssumption DEF Samples
<1> DEFINE s == sampled[q]
           t == sampled'[q]
           idx == latsamp[q].idx
<1>5. /\ Len(s) \in Nat /\ Len(t) = Len(s) + 1 /\ t[Len(s) + 1] = cycles[q]
      /\ \A k \in 1 .. Len(s) : t[k] = s[k]
      /\ \A p \in RxQueues : p # q => sampled'[p] = sampled[p] /\ rx_pc'[p] = rx_pc[p]
      /\ rx_pc'[q] = "advance"
  <2>1. t = Append(s, cycles[q]) /\ s \in Seq(Nat)
    BY <1>1, <1>2
  <2>2. \A p \in RxQueues : p # q => sampled'[p] = sampled[p] /\ rx_pc'[p] = rx_pc[p]
    BY <1>1, <1>2
  <2>3. rx_pc'[q] = "advance"
    BY <1>1, <1>2
  <2> QED
    BY <1>2, <2>1, <2>2, <2>3
<1>6. StoredInv'
  <2> SUFFICES ASSUME Running', NEW p \in RxQueues
               PROVE  /\ Len(sampled'[p]) = latsamp'[p].idx + Ahead(p)'
                      /\ \A k \in 1 .. Len(sampled'[p]) : sampled'[p][k] = latsamp'[p].data[k - 1]
    BY Zenon DEF StoredInv
  <2>1. Running
    BY <1>1 DEF Running, Tst
  <2>2. CASE p # q
    BY <1>3, <1>5, <2>1, <2>2 DEF SampledInv, StoredInv, Ahead
  <2>3. CASE p = q
    <3>1. Len(s) = idx /\ \A k \in 1 .. Len(s) : s[k] = latsamp[q].data[k - 1]
      <4>1. Len(s) = idx + Ahead(q) /\ \A k \in 1 .. Len(s) : s[k] = latsamp[q].data[k - 1]
        BY <2>1 DEF SampledInv, StoredInv
      <4>2. Ahead(q) = 0
        BY <1>1 DEF Ahead
      <4> QED
        BY <1>4, <4>1, <4>2
    <3>2. Len(t) = idx + 1 /\ Ahead(q)' = 1
      BY <1>5, <3>1 DEF Ahead
    <3>3. ASSUME NEW k \in 1 .. Len(t) PROVE t[k] = latsamp'[q].data[k - 1]
      <4>1. CASE k = Len(s) + 1
        <5>1. k - 1 = idx /\ t[k] = cycles[q]
          BY <1>4, <1>5, <3>1, <4>1
        <5>2. latsamp'[q].data[idx] = cycles[q]
          BY <1>3, <1>4
        <5> QED
          BY <5>1, <5>2, Zenon
      <4>2. CASE k \in 1 .. Len(s)
        <5>1. k - 1 \in 0 .. MAX_LATENCY_ENTRIES - 1 /\ k - 1 # idx
          BY <1>4, <1>5, <3>1, <4>2
        <5> QED
          BY <1>3, <1>4, <1>5, <3>1, <4>2, <5>1
      <4> QED
        BY <1>5, <4>1, <4>2
    <3> QED
      BY <1>3, <2>3, <3>2, <3>3
  <2> QED
    BY <2>2, <2>3
<1>7. FileInv'
  <2>1. ASSUME cli_pc' = "reset", NEW p \in RxQueues
        PROVE  /\ need[p] <= Len(file[p]) /\ Len(file[p]) <= Len(sampled'[p])
               /\ \A k \in 1 .. Len(file[p]) : file[p][k] = sampled'[p][k]
    <3>1. /\ need[p] <= Len(file[p]) /\ Len(file[p]) <= Len(sampled[p])
          /\ \A k \in 1 .. Len(file[p]) : file[p][k] = sampled[p][k]
      BY <1>1, <2>1 DEF SampledInv, FileInv
    <3>2. CASE p = q
      BY <1>2, <1>5, <3>1, <3>2
    <3>3. CASE p # q
      BY <1>5, <3>1, <3>3
    <3> QED
      BY <3>2, <3>3
  <2>2. cli_pc' = "write" => \A p \in RxQueues : need[p] <= latsamp'[p].idx
    BY <1>1, <1>3 DEF SampledInv, FileInv
  <2>3. cli_pc' # "idle" => ~Tst("SAMPLING_LATENCIES")'
    BY <1>1 DEF SampledInv, FileInv, Tst
  <2>4. need' = need /\ file' = file
    BY <1>1
  <2> QED
    BY <2>1, <2>2, <2>3, <2>4, Zenon DEF FileInv
<1> QED
  BY <1>6, <1>7 DEF SampledInv

LEMMA AdvanceStep ==
    ASSUME TypeInv, SampledInv, NEW q \in RxQueues, AdvanceSample(q)
    PROVE  SampledInv'
<1>1. /\ rx_pc[q] = "advance" /\ rx_pc' = [rx_pc EXCEPT ![q] = "poll"]
      /\ latsamp' = [latsamp EXCEPT ![q].idx = @ + 1, ![q].next = 1]
      /\ UNCHANGED <<port_flags, sampled, cli_pc, file, need>>
  BY Zenon DEF AdvanceSample, cli, history
<1>2. /\ latsamp \in [RxQueues -> Samples] /\ latsamp[q].idx < MAX_LATENCY_ENTRIES
      /\ need \in [RxQueues -> Nat]
      /\ rx_pc \in [RxQueues -> {"poll", "sample", "store", "advance"}]
  BY <1>1 DEF TypeInv, TypeOK, RoomInv
<1>3. /\ \A p \in RxQueues : /\ latsamp'[p].data = latsamp[p].data
                             /\ p # q => latsamp'[p].idx = latsamp[p].idx
      /\ latsamp'[q].idx = latsamp[q].idx + 1
  <2> HIDE <1>1
  <2> QED
    BY <1>1, <1>2, AdvanceTypes, Zenon
<1>4. /\ rx_pc'[q] = "poll" /\ \A p \in RxQueues : p # q => rx_pc'[p] = rx_pc[p]
      /\ rx_pc[q] = "advance" /\ UNCHANGED <<port_flags, sampled, cli_pc, file, need>>
  <2>1. rx_pc' = [rx_pc EXCEPT ![q] = "poll"]
    BY <1>1, Zenon
  <2> QED
    BY <1>1, <1>2, <2>1, Zenon
<1>5. \A p \in RxQueues : latsamp[p].idx \in Nat /\ need[p] \in Nat
  BY <1>2 DEF Samples
<1>6. \A p \in RxQueues : latsamp'[p].idx + Ahead(p)' = latsamp[p].idx + Ahead(p)
  BY <1>3, <1>4, <1>5 DEF Ahead
<1>7. StoredInv'
  BY <1>3, <1>4, <1>6 DEF SampledInv, StoredInv, Running, Tst
<1>8. \A p \in RxQueues : need[p] <= latsamp[p].idx => need'[p] <= latsamp'[p].idx
  BY <1>3, <1>4, <1>5
<1>9. FileInv'
  BY <1>4, <1>8 DEF SampledInv, FileInv, Tst
<1> QED
  BY <1>7, <1>9 DEF SampledInv

\* All other steps of lcores keep the samples as they are.
LEMMA OtherLcoreSteps ==
    ASSUME TypeInv, SampledInv, NEW q \in RxQueues,
           \/ PassPacket(q) \/ SkipProbe(q) \/ CountProbe(q)
           \/ TakeSample(q) \/ DropSample(q) \/ NoSample(q)
    PROVE  SampledInv'
<1>1. UNCHANGED <<port_flags, sampled, cli_pc, file, need>>
  BY Zenon DEF PassPacket, SkipProbe, CountProbe, TakeSample, DropSample, NoSample, cli, history
<1>2. /\ latsamp \in [RxQueues -> Samples]
      /\ rx_pc \in [RxQueues -> {"poll", "sample", "store", "advance"}]
  BY DEF TypeInv, TypeOK
<1>3. \A p \in RxQueues : latsamp'[p].idx = latsamp[p].idx /\ latsamp'[p].data = latsamp[p].data
  <2>1. CASE DropSample(q)
    BY <1>2, <2>1, DropTypes DEF DropSample
  <2>2. CASE latsamp' = latsamp
    BY <2>2
  <2>3. DropSample(q) \/ latsamp' = latsamp
    BY Zenon DEF PassPacket, SkipProbe, CountProbe, TakeSample, NoSample
  <2> QED
    BY <2>1, <2>2, <2>3
<1>4. rx_pc[q] # "advance"
      /\ (rx_pc' = rx_pc \/ \E x \in {"poll", "sample", "store"} : rx_pc' = [rx_pc EXCEPT ![q] = x])
  <2>1. CASE PassPacket(q) \/ SkipProbe(q)
    <3>1. rx_pc[q] = "poll" /\ rx_pc' = rx_pc
      BY <2>1, Zenon DEF PassPacket, SkipProbe, Polls, rx
    <3> QED
      BY <3>1
  <2>2. CASE CountProbe(q)
    <3>1. rx_pc[q] = "poll" /\ rx_pc' = [rx_pc EXCEPT ![q] = "sample"]
      BY <2>2, Zenon DEF CountProbe, Polls
    <3> QED
      BY <3>1
  <2>3. CASE TakeSample(q)
    BY <2>3 DEF TakeSample
  <2>4. CASE DropSample(q)
    BY <2>4 DEF DropSample
  <2>5. CASE NoSample(q)
    BY <2>5 DEF NoSample
  <2> QED
    BY <2>1, <2>2, <2>3, <2>4, <2>5
<1>5. \A p \in RxQueues : Ahead(p)' = Ahead(p)
  BY <1>2, <1>4 DEF Ahead
<1> QED
  BY <1>1, <1>3, <1>5 DEF SampledInv, StoredInv, FileInv, Running, Tst

LEMMA CommandSteps ==
    ASSUME Settled, TypeInv, SampledInv,
           StartSampler \/ StopSampler \/ WriteSamples \/ ResetSampler
    PROVE  SampledInv'
<1> USE DEF tx, rx, history
<1>1. /\ latsamp \in [RxQueues -> Samples] /\ sampled \in [RxQueues -> Seq(Nat)]
      /\ \A q \in RxQueues : latsamp[q] \in Samples /\ latsamp[q].idx \in Nat
  BY DEF TypeInv, TypeOK, Samples
<1>2. CASE StartSampler
  <2>1. /\ cli_pc = "idle" /\ cli_pc' = "idle" /\ rx_pc' = rx_pc
        /\ \A q \in RxQueues : rx_pc[q] = "poll"
        /\ sampled' = [q \in RxQueues |-> <<>>]
    BY <1>2, Zenon DEF StartSampler, Command, RxRests
  <2> DEFINE n == latsamp_num_samples \div RxCnt
  <2>2. latsamp' = [q \in RxQueues |->
            [latsamp[q] EXCEPT !.next = 0, !.idx = 0, !.num_samples = n]]
    BY <1>2, Zenon DEF StartSampler
  <2>3. n \in 0 .. MAX_LATENCY_ENTRIES
    BY Shares DEF TypeInv, TypeOK
  <2> HIDE DEF n
  <2>4. \A q \in RxQueues : latsamp'[q].idx = 0
    BY <1>1, <2>2, <2>3, RestartTypes
  <2>5. StoredInv'
    <3> SUFFICES ASSUME NEW q \in RxQueues
                 PROVE  /\ Len(sampled'[q]) = latsamp'[q].idx + Ahead(q)'
                        /\ \A k \in 1 .. Len(sampled'[q]) :
                             sampled'[q][k] = latsamp'[q].data[k - 1]
      BY Zenon DEF StoredInv
    <3>1. sampled'[q] = <<>> /\ Ahead(q)' = 0
      BY <2>1 DEF Ahead
    <3> QED
      BY <2>4, <3>1
  <2>6. FileInv'
    BY <2>1 DEF FileInv
  <2> QED
    BY <2>5, <2>6 DEF SampledInv
<1>3. CASE StopSampler
  <2>1. /\ cli_pc = "idle" /\ cli_pc' = "write" /\ Tst("SAMPLING_LATENCIES")
        /\ port_flags' = port_flags \ {"SAMPLING_LATENCIES"}
        /\ need' = [q \in RxQueues |-> latsamp[q].idx]
        /\ UNCHANGED <<rx_pc, latsamp, sampled>>
    BY <1>3, Zenon DEF StopSampler, Command
  <2>2. Running
    BY <2>1 DEF Running
  <2>3. StoredInv'
    BY <2>1, <2>2 DEF SampledInv, StoredInv, Ahead
  <2>4. FileInv'
    BY <1>1, <2>1 DEF FileInv, Tst
  <2> QED
    BY <2>3, <2>4 DEF SampledInv
<1>4. CASE WriteSamples
  <2>1. /\ cli_pc = "write" /\ cli_pc' = "reset"
        /\ file' = [q \in RxQueues |-> [k \in 1 .. latsamp[q].idx |-> latsamp[q].data[k - 1]]]
        /\ UNCHANGED <<port_flags, rx_pc, latsamp, sampled, need>>
    BY <1>4, Zenon DEF WriteSamples
  <2>2. ~Running'
    BY <2>1 DEF Running, Tst, SampledInv, FileInv
  <2>3. ASSUME NEW q \in RxQueues
        PROVE  /\ need[q] <= Len(file'[q]) /\ Len(file'[q]) <= Len(sampled[q])
               /\ \A k \in 1 .. Len(file'[q]) : file'[q][k] = sampled[q][k]
    <3>1. /\ latsamp[q].idx \in Nat /\ need[q] <= latsamp[q].idx
          /\ Len(sampled[q]) = latsamp[q].idx + Ahead(q)
          /\ \A k \in 1 .. Len(sampled[q]) : sampled[q][k] = latsamp[q].data[k - 1]
          /\ Ahead(q) \in {0, 1}
      BY <1>1, <2>1 DEF SampledInv, StoredInv, FileInv, Running, Ahead
    <3>2. file'[q] = [k \in 1 .. latsamp[q].idx |-> latsamp[q].data[k - 1]]
      BY <2>1
    <3>3. Len(file'[q]) = latsamp[q].idx
      BY <3>1, <3>2
    <3>4. \A k \in 1 .. latsamp[q].idx : file'[q][k] = latsamp[q].data[k - 1]
      BY <3>2, Zenon
    <3> QED
      BY <3>1, <3>3, <3>4
  <2>4. ~Tst("SAMPLING_LATENCIES")'
    BY <2>1 DEF Tst, SampledInv, FileInv
  <2>5. StoredInv'
    BY <2>2 DEF StoredInv
  <2>6. cli_pc' = "reset" /\ need' = need /\ sampled' = sampled
    BY <2>1
  <2>7. FileInv'
    BY <2>3, <2>4, <2>6 DEF FileInv
  <2> QED
    BY <2>5, <2>7 DEF SampledInv
<1>5. CASE ResetSampler
  <2>1. cli_pc = "reset" /\ cli_pc' = "idle" /\ port_flags' = port_flags
    BY <1>5, Zenon DEF ResetSampler
  <2> QED
    BY <2>1 DEF SampledInv, StoredInv, FileInv, Running, Tst
<1> QED
  BY <1>2, <1>3, <1>4, <1>5

LEMMA SampledStep == Settled /\ TypeInv /\ SampledInv /\ [Next]_vars => SampledInv'
<1> SUFFICES ASSUME Settled, TypeInv, SampledInv, [Next]_vars PROVE SampledInv'
  OBVIOUS
<1>1. ASSUME NEW q \in RxQueues, RxStep(q) PROVE SampledInv'
  BY <1>1, StoreStep, AdvanceStep, OtherLcoreSteps, Zenon DEF RxStep
<1>2. CASE StartSampler \/ StopSampler \/ WriteSamples \/ ResetSampler
  BY <1>2, CommandSteps, Zenon
<1>3. CASE UNCHANGED sampler
  BY <1>3 DEF sampler, SampledInv, StoredInv, FileInv, Running, Ahead, Tst
<1>4. BuildProbe \/ SendProbe \/ SetSingle \/ ClearStats \/ UNCHANGED vars => UNCHANGED sampler
  BY Zenon DEF BuildProbe, SendProbe, SetSingle, ClearStats, Command, vars, sampler, tx, rx, cli,
     history
<1>5. CASE EnableLatency \/ DisableLatency
  <2>1. UNCHANGED <<rx_pc, latsamp, sampled, cli_pc, file, need>>
        /\ (Tst("SAMPLING_LATENCIES")' <=> Tst("SAMPLING_LATENCIES"))
    BY <1>5 DEF EnableLatency, DisableLatency, Command, rx, history, Tst
  <2> QED
    BY <2>1 DEF SampledInv, StoredInv, FileInv, Running, Ahead
<1>6. CASE SetSampler
  <2>1. cli_pc = "idle" /\ cli_pc' = "idle" /\ port_flags' = port_flags /\ ~Tst("SAMPLING_LATENCIES")
    BY <1>6, Zenon DEF SetSampler, Command
  <2> QED
    BY <2>1 DEF SampledInv, StoredInv, FileInv, Running, Tst
<1> QED
  BY <1>1, <1>2, <1>3, <1>4, <1>5, <1>6, Zenon DEF Next

\* A sequence that agrees with another as far as it goes.
LEMMA AgreeingIsPrefix ==
    ASSUME NEW s \in Seq(Nat), NEW t \in Seq(Nat), Len(s) <= Len(t),
           \A k \in 1 .. Len(s) : s[k] = t[k]
    PROVE  IsPrefix(s, t)
<1> DEFINE n == Len(s)
           a == SubSeq(s, 1, n)
           b == SubSeq(t, 1, n)
<1>1. n \in Nat /\ Len(t) \in Nat /\ n <= Len(t)
  OBVIOUS
<1>2. a \in Seq(Nat) /\ Len(a) = n /\ \A k \in 1 .. n : a[k] = s[k]
  BY <1>1
<1>3. b \in Seq(Nat) /\ Len(b) = n /\ \A k \in 1 .. n : b[k] = t[k]
  BY <1>1
<1>4. \A k \in 1 .. n : a[k] = b[k]
  BY <1>2, <1>3
<1> HIDE DEF a, b
<1>5. a = b
  <2>1. DOMAIN a = 1 .. n /\ DOMAIN b = 1 .. n
    BY <1>1, <1>2, <1>3
  <2>2. a = [k \in DOMAIN a |-> a[k]] /\ b = [k \in DOMAIN b |-> b[k]]
    BY <1>2, <1>3
  <2> QED
    BY <1>4, <2>1, <2>2, Zenon
<1> QED
  BY <1>1, <1>5, Zenon DEF IsPrefix, a, b, n

\* If commands wait for probes and samples under way, the file that is written
\* when the sampler is stopped has the samples of each queue in order, at least
\* all that were there when it was stopped.
THEOREM FileHasSamples == Settled /\ Spec => []SampledIsWritten
<1> SUFFICES ASSUME Settled PROVE Spec => []SampledIsWritten
  OBVIOUS
<1>1. Init => TypeInv /\ SampledInv
  BY TypeStart DEF Init, SampledInv, StoredInv, FileInv, Running, Tst
<1>2. (TypeInv /\ SampledInv) /\ [Next]_vars => (TypeInv /\ SampledInv)'
  BY TypeStep, SampledStep
<1>3. TypeInv /\ SampledInv => SampledIsWritten
  <2> SUFFICES ASSUME TypeInv, SampledInv, cli_pc = "reset", NEW q \in RxQueues
               PROVE  IsPrefix(file[q], sampled[q]) /\ Len(file[q]) >= need[q]
    BY Zenon DEF SampledIsWritten
  <2>1. file[q] \in Seq(Nat) /\ sampled[q] \in Seq(Nat) /\ need[q] \in Nat
    BY DEF TypeInv, TypeOK
  <2>2. /\ need[q] <= Len(file[q]) /\ Len(file[q]) <= Len(sampled[q])
        /\ \A k \in 1 .. Len(file[q]) : file[q][k] = sampled[q][k]
    BY DEF SampledInv, FileInv
  <2>3. IsPrefix(file[q], sampled[q])
    BY <2>1, <2>2, AgreeingIsPrefix, Zenon
  <2> QED
    BY <2>1, <2>2, <2>3
<1> QED
  BY <1>1, <1>2, <1>3, PTL DEF Spec
=============================================================================
