-------------------------------- MODULE Latency --------------------------------
(***************************************************************************)
(* Latency probes of one port whose TX side is looped back to its RX side. *)
(* The lcore of TX queue 0 injects probes, the RX lcores check them and    *)
(* keep the statistics of latency_t and the samples of latsamp_stats, and  *)
(* the CLI enables, clears, and starts and stops the sampler.              *)
(*                                                                         *)
(* pktgen_latency_setup copies the pkt_seq_t of SINGLE_PKT to LATENCY_PKT  *)
(* with its hdr pointer: both packets are built in one header buffer.      *)
(***************************************************************************)
EXTENDS Integers, Sequences, FiniteSets, SequencesExt

CONSTANTS
    RxCnt,         \* RX queues
    RING_SIZE, MAX_LATENCY_ENTRIES,
    Cycles,        \* latencies that may be measured
    SampleCounts,  \* the numbers of samples that may be asked for
    Settled,       \* TRUE: commands wait until no lcore is in the middle of a probe
    MaxProbes, MaxCommands \* bounds

RxQueues == 0 .. RxCnt - 1

ASSUME LatencyAssumption ==
    /\ RxCnt \in Nat \ {0} /\ RING_SIZE \in Nat \ {0} /\ MAX_LATENCY_ENTRIES \in Nat \ {0}
    /\ Cycles \subseteq Nat \ {0} /\ SampleCounts \subseteq Nat
    /\ Settled \in BOOLEAN /\ MaxProbes \in Nat /\ MaxCommands \in Nat

VARIABLES
    port_flags,
    hdr,       \* the header buffer: Single or the index of a probe
    lat,       \* pinfo->latency between its markers stats and end_stats
    tx_pc,     \* "idle", or "send" between packet_ctor and the copy of hdr
    rxq,       \* rxq[q]: packets on their way to RX queue q
    rx_pc,     \* next step of the RX lcore of queue q
    cycles,    \* cycles[q]: the latency it has measured
    latsamp,   \* latsamp[q]: pinfo->latsamp_stats
    latsamp_num_samples, latsamp_rate, \* what was asked of the sampler
    cli_pc, file, \* the CLI thread, and what it has written for each queue
    probes, commands, \* counters for the bounds
    accepted,  \* history: latencies counted since the last clear
    last,      \* history: index of the last probe checked since then, or -1
    sent,      \* history: index of the last probe sent since then, or -1
    sampled,   \* history: samples of each queue since the sampler was started
    need       \* history: how many there were when it was stopped

tx == <<tx_pc, probes, sent>>
rx == <<rx_pc, cycles>>
wanted == <<latsamp_num_samples, latsamp_rate>>
history == <<accepted, last, sampled>>
cli == <<cli_pc, file, commands, need, wanted>>
vars == <<port_flags, hdr, lat, tx, rxq, rx, latsamp, cli, history>>

Single == -1
Tst(f) == f \in port_flags

ZeroStats == [next_index |-> 0, expect_index |-> 0, num_latency_pkts |-> 0, num_skipped |-> 0,
              min_cycles |-> 0, max_cycles |-> 0,
              data |-> [k \in 0 .. RING_SIZE - 1 |-> 0], head |-> 0, count |-> 0]

NoSamples == [idx |-> 0, num_samples |-> 0, next |-> 0,
              data |-> [k \in 0 .. MAX_LATENCY_ENTRIES - 1 |-> 0]]

Stats == [next_index : Nat, expect_index : Nat, num_latency_pkts : Nat, num_skipped : Nat,
          min_cycles : Nat, max_cycles : Nat,
          data : [0 .. RING_SIZE - 1 -> Nat], head : 0 .. RING_SIZE - 1, count : 0 .. RING_SIZE]

Samples == [idx : 0 .. MAX_LATENCY_ENTRIES, num_samples : 0 .. MAX_LATENCY_ENTRIES, next : 0 .. 1,
            data : [0 .. MAX_LATENCY_ENTRIES - 1 -> Nat]]

TypeOK ==
    /\ port_flags \subseteq {"SEND_LATENCY_PKTS", "SAMPLING_LATENCIES"}
    /\ hdr \in Nat \cup {Single} /\ lat \in Stats
    /\ tx_pc \in {"idle", "send"} /\ probes \in Nat /\ sent \in Nat \cup {Single}
    /\ rxq \in [RxQueues -> Seq(Nat \cup {Single})]
    /\ rx_pc \in [RxQueues -> {"poll", "sample", "store", "advance"}]
    /\ cycles \in [RxQueues -> Nat]
    /\ latsamp \in [RxQueues -> Samples]
    /\ latsamp_num_samples \in 0 .. MAX_LATENCY_ENTRIES /\ latsamp_rate \in Nat
    /\ cli_pc \in {"idle", "write", "reset"} /\ file \in [RxQueues -> Seq(Nat)]
    /\ commands \in Nat /\ need \in [RxQueues -> Nat]
    /\ accepted \in Seq(Cycles) /\ last \in Nat \cup {-1}
    /\ sampled \in [RxQueues -> Seq(Nat)]

Init ==
    /\ port_flags = {} /\ hdr = Single /\ lat = ZeroStats
    /\ tx_pc = "idle" /\ probes = 0 /\ sent = -1
    /\ rxq = [q \in RxQueues |-> <<>>]
    /\ rx_pc = [q \in RxQueues |-> "poll"] /\ cycles = [q \in RxQueues |-> 0]
    /\ latsamp = [q \in RxQueues |-> NoSamples]
    /\ latsamp_num_samples = 0 /\ latsamp_rate = 0
    /\ cli_pc = "idle" /\ file = [q \in RxQueues |-> <<>>] /\ commands = 0
    /\ need = [q \in RxQueues |-> 0]
    /\ accepted = <<>> /\ last = -1 /\ sampled = [q \in RxQueues |-> <<>>]

-----------------------------------------------------------------------------
(***************************************************************************)
(* pktgen_tstamp_inject.                                                   *)
(***************************************************************************)

\* It is time for a probe and there is an mbuf: pktgen_packet_ctor.
BuildProbe ==
    /\ tx_pc = "idle" /\ Tst("SEND_LATENCY_PKTS") /\ probes < MaxProbes
    /\ hdr' = lat.next_index
    /\ lat' = [lat EXCEPT !.next_index = @ + 1]
    /\ tx_pc' = "send" /\ probes' = probes + 1
    /\ UNCHANGED <<port_flags, rxq, rx, latsamp, cli, history, sent>>

\* hdr is copied to the mbuf and transmitted; the NIC delivers it to some
\* queue, or it is lost.
SendProbe ==
    /\ tx_pc = "send"
    /\ tx_pc' = "idle"
    /\ \/ \E q \in RxQueues : rxq' = [rxq EXCEPT ![q] = Append(@, hdr)]
       \/ rxq' = rxq
    /\ sent' = hdr
    /\ UNCHANGED <<port_flags, hdr, lat, probes, rx, latsamp, cli, history>>

(***************************************************************************)
(* pktgen_tstamp_check.  Probes come far apart: two lcores are never at    *)
(* the counters at once.                                                   *)
(***************************************************************************)

\* Mutant: the slot after the newest is overwritten.
RingInsert_Late(ring, value) ==
    [ring EXCEPT !.data[(ring.head + 1) % RING_SIZE] = value, !.head = (@ + 1) % RING_SIZE,
                 !.count = IF @ < RING_SIZE THEN @ + 1 ELSE @]

\* latency_ring_insert
RingInsert(ring, value) ==
    [ring EXCEPT !.data[ring.head] = value, !.head = (@ + 1) % RING_SIZE,
                 !.count = IF @ < RING_SIZE THEN @ + 1 ELSE @]

Extremes(c, l) ==
    [l EXCEPT !.min_cycles = IF @ = 0 \/ c < @ THEN c ELSE @,
              !.max_cycles = IF @ = 0 \/ c > @ THEN c ELSE @]

Polls(q) == rx_pc[q] = "poll" /\ rxq[q] # <<>>

\* A packet without the magic number, or latency is disabled.
PassPacket(q) ==
    /\ Polls(q) /\ (Head(rxq[q]) = Single \/ ~Tst("SEND_LATENCY_PKTS"))
    /\ rxq' = [rxq EXCEPT ![q] = Tail(@)]
    /\ UNCHANGED <<port_flags, hdr, lat, tx, rx, latsamp, cli, history>>

\* Mutant: the expected index is left alone.
SkipProbe_NoResync(q) ==
    /\ Polls(q) /\ Tst("SEND_LATENCY_PKTS")
    /\ Head(rxq[q]) \notin {Single, lat.expect_index}
    /\ lat' = [lat EXCEPT !.num_skipped = @ + 1]
    /\ rxq' = [rxq EXCEPT ![q] = Tail(@)]
    /\ last' = Head(rxq[q])
    /\ UNCHANGED <<port_flags, hdr, tx, rx, latsamp, cli, accepted, sampled>>

SkipProbe(q) ==
    /\ Polls(q) /\ Tst("SEND_LATENCY_PKTS")
    /\ Head(rxq[q]) \notin {Single, lat.expect_index}
    /\ lat' = [lat EXCEPT !.expect_index = Head(rxq[q]) + 1, !.num_skipped = @ + 1]
    /\ rxq' = [rxq EXCEPT ![q] = Tail(@)]
    /\ last' = Head(rxq[q])
    /\ UNCHANGED <<port_flags, hdr, tx, rx, latsamp, cli, accepted, sampled>>

CountProbe(q) ==
    /\ Polls(q) /\ Tst("SEND_LATENCY_PKTS") /\ Head(rxq[q]) = lat.expect_index
    /\ \E c \in Cycles :
        /\ lat' = RingInsert(Extremes(c, [lat EXCEPT !.expect_index = @ + 1,
                                                     !.num_latency_pkts = @ + 1]), c)
        /\ cycles' = [cycles EXCEPT ![q] = c]
        /\ accepted' = Append(accepted, c)
    /\ rxq' = [rxq EXCEPT ![q] = Tail(@)]
    /\ rx_pc' = [rx_pc EXCEPT ![q] = "sample"]
    /\ last' = Head(rxq[q])
    /\ UNCHANGED <<port_flags, hdr, tx, latsamp, cli, sampled>>

HasRoom(q) == latsamp[q].idx < latsamp[q].num_samples

\* It is time for a sample when none was taken yet, or when the clock says so.
TakeSample(q) ==
    /\ rx_pc[q] = "sample" /\ Tst("SAMPLING_LATENCIES") /\ HasRoom(q)
    /\ rx_pc' = [rx_pc EXCEPT ![q] = "store"]
    /\ UNCHANGED <<port_flags, hdr, lat, tx, rxq, cycles, latsamp, cli, history>>

\* The same with no room left: only the time of the next sample is set.
DropSample(q) ==
    /\ rx_pc[q] = "sample" /\ Tst("SAMPLING_LATENCIES") /\ ~HasRoom(q)
    /\ latsamp' = [latsamp EXCEPT ![q].next = 1]
    /\ rx_pc' = [rx_pc EXCEPT ![q] = "poll"]
    /\ UNCHANGED <<port_flags, hdr, lat, tx, rxq, cycles, cli, history>>

NoSample(q) ==
    /\ rx_pc[q] = "sample"
    /\ ~Tst("SAMPLING_LATENCIES") \/ latsamp[q].next # 0
    /\ rx_pc' = [rx_pc EXCEPT ![q] = "poll"]
    /\ UNCHANGED <<port_flags, hdr, lat, tx, rxq, cycles, latsamp, cli, history>>

\* stats->data[stats->idx] = ...
StoreSample(q) ==
    /\ rx_pc[q] = "store"
    /\ latsamp' = [latsamp EXCEPT ![q].data[latsamp[q].idx] = cycles[q]]
    /\ rx_pc' = [rx_pc EXCEPT ![q] = "advance"]
    /\ sampled' = [sampled EXCEPT ![q] = Append(@, cycles[q])]
    /\ UNCHANGED <<port_flags, hdr, lat, tx, rxq, cycles, cli, accepted, last>>

AdvanceSample(q) ==
    /\ rx_pc[q] = "advance"
    /\ latsamp' = [latsamp EXCEPT ![q].idx = @ + 1, ![q].next = 1]
    /\ rx_pc' = [rx_pc EXCEPT ![q] = "poll"]
    /\ UNCHANGED <<port_flags, hdr, lat, tx, rxq, cycles, cli, history>>

RxStep(q) ==
    \/ PassPacket(q) \/ SkipProbe(q) \/ CountProbe(q)
    \/ TakeSample(q) \/ DropSample(q) \/ NoSample(q)
    \/ StoreSample(q) \/ AdvanceSample(q)

(***************************************************************************)
(* The commands.                                                           *)
(***************************************************************************)

TxRests == tx_pc = "idle"
RxRests == \A q \in RxQueues : rx_pc[q] = "poll"

Command ==
    /\ cli_pc = "idle" /\ commands < MaxCommands
    /\ commands' = commands + 1

\* enable_latency; the copied hdr pointer leaves the buffer as it is.
EnableLatency ==
    /\ Command
    /\ port_flags' = port_flags \cup {"SEND_LATENCY_PKTS"}
    /\ UNCHANGED <<hdr, lat, tx, rxq, rx, latsamp, cli_pc, file, need, wanted, history>>

DisableLatency ==
    /\ Command
    /\ port_flags' = port_flags \ {"SEND_LATENCY_PKTS"}
    /\ UNCHANGED <<hdr, lat, tx, rxq, rx, latsamp, cli_pc, file, need, wanted, history>>

\* pktgen_packet_ctor(pinfo, SINGLE_PKT, -1), which most "set" commands call
SetSingle ==
    /\ Command
    /\ Settled => TxRests
    /\ hdr' = Single
    /\ UNCHANGED <<port_flags, lat, tx, rxq, rx, latsamp, cli_pc, file, need, wanted, history>>

\* pktgen_clear_stats: memset from lat->stats to lat->end_stats
ClearStats ==
    /\ Command
    /\ Settled => TxRests /\ RxRests
    /\ lat' = ZeroStats
    /\ accepted' = <<>> /\ last' = -1 /\ sent' = -1
    /\ UNCHANGED <<port_flags, hdr, tx_pc, probes, rxq, rx, latsamp, cli_pc, file, need, wanted,
                   sampled>>

\* single_set_latsampler_params with a type it knows and a file it can open,
\* which it empties, if it is the one that was used before, also when the number
\* of samples is refused.
SetSampler ==
    /\ Command /\ ~Tst("SAMPLING_LATENCIES")
    /\ Settled => TxRests
    /\ \E n \in SampleCounts, rate \in {0, 1} :
        IF n > MAX_LATENCY_ENTRIES THEN UNCHANGED <<wanted, hdr>>
        ELSE latsamp_num_samples' = n /\ latsamp_rate' = rate /\ hdr' = Single
    /\ file' \in {file, [q \in RxQueues |-> <<>>]}
    /\ UNCHANGED <<port_flags, lat, tx, rxq, rx, latsamp, cli_pc, need, history>>

\* pktgen_start_latency_sampler also builds a probe, which is not sent.
StartSampler ==
    /\ Command /\ ~Tst("SAMPLING_LATENCIES")
    /\ Settled => TxRests /\ RxRests
    /\ latsamp_rate # 0 /\ latsamp_num_samples # 0
    /\ latsamp' = [q \in RxQueues |->
            [latsamp[q] EXCEPT !.next = 0, !.idx = 0, !.num_samples = latsamp_num_samples \div RxCnt]]
    /\ hdr' = lat.next_index
    /\ lat' = [lat EXCEPT !.next_index = @ + 1]
    /\ port_flags' = port_flags \cup {"SAMPLING_LATENCIES"}
    /\ sampled' = [q \in RxQueues |-> <<>>]
    /\ UNCHANGED <<tx, rxq, rx, cli_pc, file, need, wanted, accepted, last>>

\* pktgen_stop_latency_sampler; lcores may still be taking a sample.
StopSampler ==
    /\ Command /\ Tst("SAMPLING_LATENCIES")
    /\ port_flags' = port_flags \ {"SAMPLING_LATENCIES"}
    /\ cli_pc' = "write"
    /\ file' = [q \in RxQueues |-> <<>>]
    /\ need' = [q \in RxQueues |-> latsamp[q].idx]
    /\ UNCHANGED <<hdr, lat, tx, rxq, rx, latsamp, wanted, history>>

\* Mutant: the newest sample is left out.
WriteSamples_AllButLast ==
    /\ cli_pc = "write"
    /\ file' = [q \in RxQueues |-> [k \in 1 .. latsamp[q].idx - 1 |-> latsamp[q].data[k - 1]]]
    /\ cli_pc' = "reset"
    /\ UNCHANGED <<port_flags, hdr, lat, tx, rxq, rx, latsamp, commands, need, wanted, history>>

WriteSamples ==
    /\ cli_pc = "write"
    /\ file' = [q \in RxQueues |-> [k \in 1 .. latsamp[q].idx |-> latsamp[q].data[k - 1]]]
    /\ cli_pc' = "reset"
    /\ UNCHANGED <<port_flags, hdr, lat, tx, rxq, rx, latsamp, commands, need, wanted, history>>

ResetSampler ==
    /\ cli_pc = "reset"
    /\ Settled => TxRests
    /\ latsamp' = [q \in RxQueues |->
            [latsamp[q] EXCEPT !.next = 0, !.idx = 0, !.num_samples = 0]]
    /\ hdr' = lat.next_index
    /\ lat' = [lat EXCEPT !.next_index = @ + 1]
    /\ cli_pc' = "idle"
    /\ UNCHANGED <<port_flags, tx, rxq, rx, file, commands, need, wanted, history>>

Next ==
    \/ BuildProbe \/ SendProbe
    \/ \E q \in RxQueues : RxStep(q)
    \/ EnableLatency \/ DisableLatency \/ SetSingle \/ ClearStats
    \/ SetSampler \/ StartSampler \/ StopSampler \/ WriteSamples \/ ResetSampler

Spec == Init /\ [][Next]_vars

-----------------------------------------------------------------------------
(***************************************************************************)
(* Properties.                                                             *)
(***************************************************************************)

\* What pktgen_page_latency shows describes the probes that were counted since
\* the last clear: their number, the extremes, and in the ring, from the oldest
\* to the newest, the last RING_SIZE of them.
StatisticsAreExact ==
    LET n == Len(accepted)
        oldest == (lat.head - lat.count + RING_SIZE) % RING_SIZE
    IN  /\ lat.num_latency_pkts = n
        /\ lat.count = IF n < RING_SIZE THEN n ELSE RING_SIZE
        /\ \A k \in 1 .. lat.count :
            lat.data[(oldest + k - 1) % RING_SIZE] = accepted[n - lat.count + k]
        /\ n > 0 => /\ lat.min_cycles \in ToSet(accepted) /\ lat.max_cycles \in ToSet(accepted)
                    /\ \A c \in ToSet(accepted) : lat.min_cycles <= c /\ c <= lat.max_cycles

\* "Number of skipped latency packets": a probe that follows the one before it
\* is never skipped, so one gap costs one probe.
OnlyGapsAreSkipped ==
    [][lat'.num_skipped > lat.num_skipped => last' # last + 1]_vars

\* Between clears no two probes carry the same index, although the sampler
\* commands take indices too.
IndicesIncrease == [][tx_pc = "send" /\ tx_pc' = "idle" => sent' > sent]_vars

\* "stop latsampler - dumps to file": the file has the samples of each queue in
\* order, at least those that were there when stop was given.
SampledIsWritten ==
    cli_pc = "reset" => \A q \in RxQueues :
        IsPrefix(file[q], sampled[q]) /\ Len(file[q]) >= need[q]

\* The ring and the counters of latency_t, and the indices that go into them.
LatenciesAreExact == TypeOK /\ StatisticsAreExact

\* A probe is counted once, as received or as part of one gap.
ProbesCountOnce == OnlyGapsAreSkipped /\ IndicesIncrease
=============================================================================
