------------------------------ MODULE Statistics ------------------------------
(***************************************************************************)
(* The counters of the ports: the timer thread reads them once a second    *)
(* and makes rates of them, "clear <portlist> stats" makes the present the *)
(* new zero, and the main page adds the rates of all ports.  The two       *)
(* threads share one processor and lock nothing.                           *)
(*                                                                         *)
(* One counter stands for the eight of rte_eth_stats, each of which is     *)
(* treated alike, and one xstat for those of the device.                   *)
(***************************************************************************)
EXTENDS Integers, Sequences, FiniteSets, FiniteSetsExt

CONSTANTS
    StatPorts,
    CounterRange,  \* 2^64: what a counter holds is below
    ClearLists,    \* port lists given to "clear"
    MaxTraffic,    \* bound: packets a port receives
    MaxClears      \* bound

ASSUME StatisticsAssumption ==
    /\ StatPorts \subseteq Nat /\ StatPorts # {} /\ IsFiniteSet(StatPorts)
    /\ ClearLists \subseteq (SUBSET StatPorts) \ {{}}
    /\ CounterRange \in Nat /\ MaxTraffic \in Nat /\ MaxClears \in Nat
    /\ MaxTraffic < CounterRange \* 64 bits do not run out

VARIABLES
    nic,        \* per port: what the device counted
    curr, rate, prev, base, \* per port: pinfo->stats
    xs,         \* per port: stats.xstats, the count and whether the arrays are there
    sizes,      \* per port: stats.sizes
    cumm, max_total, \* totals of the main page
    stats_at,   \* the timer thread: [pc, port]
    clear_at,   \* the console: [pc, ports still to be cleared]
    clears,     \* counter for the bound
    crashed,    \* a NULL pointer was followed
    \* History:
    reading, before, \* per port: the last two readings of nic
    zero,       \* per port: nic when it was last cleared
    rounds,     \* per port: readings since, 2 for more
    overlapped  \* per port: the timer was at the statistics while they were cleared

counters == <<nic, curr, rate, prev, base, xs, sizes, cumm, max_total, stats_at, clear_at, clears,
              crashed, reading, before, zero, rounds, overlapped>>

None == [p \in StatPorts |-> 0]
NoXstats == [cnt |-> 0, there |-> FALSE]

StatisticsInit ==
    /\ nic = None /\ curr = None /\ rate = None /\ prev = None /\ base = None
    /\ xs = [p \in StatPorts |-> NoXstats] /\ sizes = None
    /\ cumm = 0 /\ max_total = 0
    /\ stats_at = [pc |-> "idle", port |-> 0] /\ clear_at = [pc |-> "idle", ports |-> {}]
    /\ clears = 0 /\ crashed = FALSE
    /\ reading = None /\ before = None /\ zero = None /\ rounds = None
    /\ overlapped = [p \in StatPorts |-> FALSE]

Minus(a, b) == (a - b) % CounterRange
Plus(a, b) == (a + b) % CounterRange
First(S) == IF S = {} THEN 0 ELSE Min(S)

Clearing == clear_at.pc # "idle"
\* The timer works on statistics while they are being cleared.
Overlap == overlapped' = [p \in StatPorts |->
                          overlapped[p] \/ (Clearing /\ p \in clear_at.ports)]

Traffic(p) ==
    /\ nic[p] < MaxTraffic /\ nic' = [nic EXCEPT ![p] = @ + 1]
    /\ UNCHANGED <<curr, rate, prev, base, xs, sizes, cumm, max_total, stats_at, clear_at, clears,
                   crashed, reading, before, zero, rounds, overlapped>>

-----------------------------------------------------------------------------
(***************************************************************************)
(* The timer thread: pktgen_process_stats.                                 *)
(***************************************************************************)
console_side == <<nic, base, clear_at, clears, zero>>
totals == <<cumm, max_total>>
InRound(pc) == stats_at.pc = pc /\ ~crashed
Then(pc) == stats_at' = [stats_at EXCEPT !.pc = pc]
p_ == stats_at.port

BeginRound ==
    /\ InRound("idle")
    /\ stats_at' = [pc |-> "read", port |-> First(StatPorts)]
    /\ rounds' = [p \in StatPorts |-> IF Clearing /\ p \in clear_at.ports THEN 0 ELSE Min({rounds[p] + 1, 2})]
    /\ Overlap
    /\ UNCHANGED <<console_side, totals, curr, rate, prev, xs, sizes, crashed, reading, before>>

ReadStats ==
    /\ InRound("read")
    /\ curr' = [curr EXCEPT ![p_] = nic[p_]]
    /\ before' = [before EXCEPT ![p_] = reading[p_]] /\ reading' = [reading EXCEPT ![p_] = nic[p_]]
    /\ Then("normalize") /\ Overlap
    /\ UNCHANGED <<console_side, totals, rate, prev, xs, sizes, crashed, rounds>>

\* Mutant: the zero line is forgotten.
Normalize_Not ==
    /\ InRound("normalize")
    /\ Then("rate") /\ Overlap
    /\ UNCHANGED <<console_side, totals, curr, rate, prev, xs, sizes, crashed, reading, before, rounds>>

Normalize ==
    /\ InRound("normalize")
    /\ curr' = [curr EXCEPT ![p_] = Minus(@, base[p_])]
    /\ Then("rate") /\ Overlap
    /\ UNCHANGED <<console_side, totals, rate, prev, xs, sizes, crashed, reading, before, rounds>>

FigureRate ==
    /\ InRound("rate")
    /\ rate' = [rate EXCEPT ![p_] = Minus(curr[p_], prev[p_])]
    /\ Then("save") /\ Overlap
    /\ UNCHANGED <<console_side, totals, curr, prev, xs, sizes, crashed, reading, before, rounds>>

SavePrevious ==
    /\ InRound("save")
    /\ prev' = [prev EXCEPT ![p_] = curr[p_]]
    /\ Then("xstats") /\ Overlap
    /\ UNCHANGED <<console_side, totals, curr, rate, xs, sizes, crashed, reading, before, rounds>>

\* process_xstats: the arrays are allocated when there is no count.  Memory
\* suffices.
SetUpXstats ==
    /\ InRound("xstats")
    /\ xs' = [xs EXCEPT ![p_] = IF @.cnt = 0 THEN [cnt |-> 1, there |-> TRUE] ELSE @]
    /\ Then("xloop") /\ Overlap
    /\ UNCHANGED <<console_side, totals, curr, rate, prev, sizes, crashed, reading, before, rounds>>

TestXstats ==
    /\ InRound("xloop")
    /\ Then(IF xs[p_].cnt > 0 THEN "xvalue" ELSE "next") /\ Overlap
    /\ UNCHANGED <<console_side, totals, curr, rate, prev, xs, sizes, crashed, reading, before, rounds>>

\* xs->xstats[i].value, and xs->names[i].name
UseXstats ==
    /\ InRound("xvalue")
    /\ crashed' = ~xs[p_].there
    /\ sizes' = IF nic[p_] = 0 \/ crashed' THEN sizes ELSE [sizes EXCEPT ![p_] = nic[p_]]
    /\ Then("next") /\ Overlap
    /\ UNCHANGED <<console_side, totals, curr, rate, prev, xs, reading, before, rounds>>

NextPort ==
    /\ InRound("next")
    /\ LET later == {p \in StatPorts : p > p_} IN
        stats_at' = IF later = {} THEN [pc |-> "idle", port |-> 0]
                    ELSE [pc |-> "read", port |-> Min(later)]
    /\ Overlap
    /\ UNCHANGED <<console_side, totals, curr, rate, prev, xs, sizes, crashed, reading, before, rounds>>

ProcessStep ==
    \/ ReadStats \/ Normalize \/ FigureRate \/ SavePrevious \/ SetUpXstats \/ TestXstats
    \/ UseXstats \/ NextPort

(***************************************************************************)
(* The totals of pktgen_page_stats.                                        *)
(***************************************************************************)
kept == <<curr, rate, prev, xs, sizes, crashed, reading, before, rounds>>

BeginTotals ==
    /\ InRound("idle")
    /\ cumm' = 0 /\ stats_at' = [pc |-> "add", port |-> First(StatPorts)]
    /\ Overlap
    /\ UNCHANGED <<console_side, max_total, kept>>

AddRate ==
    /\ InRound("add")
    /\ cumm' = Plus(cumm, rate[p_]) /\ Then("maximum")
    /\ Overlap
    /\ UNCHANGED <<console_side, max_total, kept>>

Maximum ==
    /\ InRound("maximum")
    /\ max_total' = IF cumm > max_total THEN cumm ELSE max_total
    /\ LET later == {p \in StatPorts : p > p_} IN
        stats_at' = IF later = {} THEN [pc |-> "idle", port |-> 0]
                    ELSE [pc |-> "add", port |-> Min(later)]
    /\ Overlap
    /\ UNCHANGED <<console_side, cumm, kept>>

TotalsStep == AddRate \/ Maximum

-----------------------------------------------------------------------------
(***************************************************************************)
(* The console: pktgen_clear_stats for each port of the list.              *)
(***************************************************************************)
timer_side == <<nic, stats_at, crashed, reading, before>>
Clear(pc) == clear_at.pc = pc /\ ~crashed
c_ == First(clear_at.ports)
Met == overlapped' = [overlapped EXCEPT ![c_] = @ \/ stats_at.pc # "idle"]

ClearStats ==
    /\ Clear("idle") /\ clears < MaxClears
    /\ \E ports \in ClearLists : clear_at' = [pc |-> "zero", ports |-> ports]
    /\ clears' = clears + 1
    /\ UNCHANGED <<timer_side, totals, curr, rate, prev, base, xs, sizes, zero, rounds, overlapped>>

\* memset(&pinfo->stats, 0, ...): the arrays of the xstats are lost.
ZeroStats ==
    /\ Clear("zero")
    /\ curr' = [curr EXCEPT ![c_] = 0] /\ rate' = [rate EXCEPT ![c_] = 0]
    /\ prev' = [prev EXCEPT ![c_] = 0] /\ base' = [base EXCEPT ![c_] = 0]
    /\ xs' = [xs EXCEPT ![c_] = NoXstats] /\ sizes' = [sizes EXCEPT ![c_] = 0]
    /\ clear_at' = [clear_at EXCEPT !.pc = "base"]
    /\ overlapped' = [overlapped EXCEPT ![c_] = stats_at.pc # "idle"]
    /\ rounds' = [rounds EXCEPT ![c_] = 0]
    /\ UNCHANGED <<timer_side, totals, clears, zero>>

SetBase ==
    /\ Clear("base")
    /\ base' = [base EXCEPT ![c_] = nic[c_]] /\ zero' = [zero EXCEPT ![c_] = nic[c_]]
    /\ clear_at' = [clear_at EXCEPT !.pc = "maximum"] /\ Met
    /\ UNCHANGED <<timer_side, totals, curr, rate, prev, xs, sizes, clears, rounds>>

ClearMaximum ==
    /\ Clear("maximum")
    /\ max_total' = 0 /\ clear_at' = [clear_at EXCEPT !.pc = "totals"] /\ Met
    /\ UNCHANGED <<timer_side, cumm, curr, rate, prev, base, xs, sizes, clears, zero, rounds>>

ClearTotals ==
    /\ Clear("totals")
    /\ cumm' = 0 /\ Met
    /\ LET left == clear_at.ports \ {c_} IN
        clear_at' = [pc |-> IF left = {} THEN "idle" ELSE "zero", ports |-> left]
    /\ UNCHANGED <<timer_side, max_total, curr, rate, prev, base, xs, sizes, clears, zero, rounds>>

ClearStep == ZeroStats \/ SetBase \/ ClearMaximum \/ ClearTotals

-----------------------------------------------------------------------------
\* Neither thread is at the statistics of p.
Rests(p) ==
    /\ stats_at.pc = "idle" /\ p \notin clear_at.ports

\* What a port counted since it was cleared.
Since(p) == Minus(reading[p], zero[p])

\* One round after the clear, whatever it met, the totals are those since
\* then; two rounds after, or one if it met nothing, the rates are those
\* between two readings.
RatesAreRead ==
    \A p \in StatPorts : Rests(p) =>
        /\ rounds[p] >= 1 => curr[p] = Since(p) /\ prev[p] = curr[p]
        /\ rounds[p] = 1 /\ ~overlapped[p] => rate[p] = Since(p)
        /\ rounds[p] = 2 => rate[p] = Minus(reading[p], before[p])

\* The maximum is never more than what was counted, and nothing is read that
\* is not there, unless a clear met the timer.
CalmClearsAreSafe ==
    (\A p \in StatPorts : ~overlapped[p]) =>
        /\ ~crashed
        /\ ~Clearing =>
            max_total <= SumFunctionOnSet([p \in StatPorts |-> nic[p] - zero[p]], StatPorts)
===============================================================================
