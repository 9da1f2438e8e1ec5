----------------------------- MODULE TimerProofs -----------------------------
(***************************************************************************)
(* Theorems about what the timer thread does: the rates and totals of the  *)
(* statistics, the log page, the packets that are printed, and the colors  *)
(* restored.  Each holds whatever console and lcores do meanwhile.         *)
(***************************************************************************)
EXTENDS TimerThread, Sums, SequenceTheorems

-----------------------------------------------------------------------------
(***************************************************************************)
(* The statistics.  Of each port the invariant says how far the timer is   *)
(* with it in this round, and what follows for its counters from the       *)
(* number of rounds since it was cleared.                                  *)
(***************************************************************************)
Processing == {"read", "normalize", "rate", "save", "xstats", "xloop", "xvalue", "next"}
Adding == {"add", "maximum"}
Full == [cnt |-> 1, there |-> TRUE]

RateTypes ==
    /\ nic \in [StatPorts -> Nat] /\ curr \in [StatPorts -> Nat] /\ rate \in [StatPorts -> Nat]
    /\ prev \in [StatPorts -> Nat] /\ base \in [StatPorts -> Nat]
    /\ xs \in [StatPorts -> {NoXstats, Full}]
    /\ cumm \in Nat /\ max_total \in Nat /\ crashed \in BOOLEAN
    /\ stats_at \in [pc : Processing \cup Adding \cup {"idle"}, port : Nat]
    /\ stats_at.pc # "idle" => stats_at.port \in StatPorts
    /\ clear_at \in [pc : {"idle", "zero", "base", "maximum", "totals"}, ports : SUBSET StatPorts]
    /\ clear_at.pc = "idle" <=> clear_at.ports = {}
    /\ reading \in [StatPorts -> Nat] /\ before \in [StatPorts -> Nat]
    /\ zero \in [StatPorts -> Nat] /\ rounds \in [StatPorts -> 0 .. 2]
    /\ overlapped \in [StatPorts -> BOOLEAN]

\* The timer has still to come to p; it is at p.
Yet(p) == stats_at.pc \in Processing
            /\ (stats_at.port < p \/ (stats_at.port = p /\ stats_at.pc = "read"))
AtOneOf(p, pcs) == stats_at.port = p /\ stats_at.pc \in pcs

\* The clear has emptied the statistics of p and is not done with it.
Zeroed(p) == clear_at.pc \in {"base", "maximum", "totals"} /\ p = c_

OrderInv(p) ==
    /\ zero[p] <= nic[p] /\ before[p] <= reading[p] /\ reading[p] <= nic[p]
    /\ nic[p] <= MaxTraffic
    /\ Zeroed(p) => rounds[p] = 0
    /\ ~(Zeroed(p) /\ clear_at.pc = "base") => base[p] = zero[p]
    /\ ~overlapped[p] => rate[p] <= nic[p] - zero[p]

\* Since it was cleared no round began.
FreshInv(p) ==
    rounds[p] = 0 /\ ~overlapped[p] =>
        stats_at.pc \notin Processing /\ prev[p] = 0 /\ rate[p] = 0

\* The last round reached p, or has not reached it yet.
ReachedInv(p) ==
    rounds[p] >= 1 /\ ~Yet(p) =>
        /\ zero[p] <= reading[p]
        /\ rounds[p] = 2 => zero[p] <= before[p]
        /\ curr[p] = IF AtOneOf(p, {"normalize"}) THEN reading[p] ELSE reading[p] - zero[p]
        /\ AtOneOf(p, {"normalize", "rate", "save"}) =>
            /\ rounds[p] = 1 /\ ~overlapped[p] => prev[p] = 0
            /\ rounds[p] = 2 => prev[p] = before[p] - zero[p]
        /\ ~AtOneOf(p, {"normalize", "rate", "save"}) => prev[p] = reading[p] - zero[p]
        /\ ~AtOneOf(p, {"normalize", "rate"}) =>
            /\ rounds[p] = 1 /\ ~overlapped[p] => rate[p] = reading[p] - zero[p]
            /\ rounds[p] = 2 => rate[p] = reading[p] - before[p]

YetInv(p) ==
    rounds[p] >= 1 /\ Yet(p) =>
        /\ rounds[p] = 1 /\ ~overlapped[p] => prev[p] = 0
        /\ rounds[p] = 2 => zero[p] <= reading[p] /\ prev[p] = reading[p] - zero[p]

PortInv(p) == OrderInv(p) /\ FreshInv(p) /\ ReachedInv(p) /\ YetInv(p)

RateInv == RateTypes /\ \A p \in StatPorts : PortInv(p)

\* What was counted since the clear, and the ports whose rates are in the sum.
Gain == [p \in StatPorts |-> nic[p] - zero[p]]
Added == {q \in StatPorts : q < stats_at.port \/ (stats_at.pc = "maximum" /\ q = stats_at.port)}
Calm == \A p \in StatPorts : ~overlapped[p]

SafeInv ==
    /\ \A p \in StatPorts : ~overlapped[p] /\ AtOneOf(p, {"xvalue"}) => xs[p] = Full
    /\ crashed => ~Calm

MaximumInv ==
    Calm =>
        /\ ~Clearing => max_total <= SumFunctionOnSet(Gain, StatPorts)
        /\ clear_at.pc = "totals" => max_total = 0
        /\ ~Clearing /\ stats_at.pc \in Adding => cumm <= SumFunctionOnSet(Gain, Added)

-----------------------------------------------------------------------------
LEMMA Smaller ==
  ASSUME NEW a \in Nat, NEW b \in Nat, b <= a, a - b < CounterRange
  PROVE  Minus(a, b) = a - b
<1> DEFINE x == a - b
<1>1. x \in Nat /\ CounterRange \in Nat \ {0} /\ x < CounterRange
  BY StatisticsAssumption
<1> HIDE DEF x
<1>2. x % CounterRange = x
  BY <1>1
<1> QED
  BY <1>2 DEF Minus, x

LEMMA Sums_ ==
  ASSUME NEW a \in Nat, NEW b \in Nat
  PROVE  Plus(a, b) \in Nat /\ Plus(a, b) <= a + b /\ Minus(a, b) \in Nat
<1> DEFINE x == a + b
           y == a - b
<1>1. x \in Nat /\ y \in Int /\ CounterRange \in Nat \ {0}
  BY StatisticsAssumption
<1> HIDE DEF x, y
<1>2. x % CounterRange \in Nat /\ x % CounterRange < CounterRange /\ y % CounterRange \in Nat
  BY <1>1
<1>3. x < CounterRange => x % CounterRange = x
  BY <1>1
<1>4. x % CounterRange <= x
  BY <1>1, <1>2, <1>3
<1> QED
  BY <1>2, <1>4 DEF Plus, Minus, x, y

\* A set of numbers that has one has a least one.
LEMMA Leasts ==
  ASSUME NEW S, S \subseteq Nat, S # {}
  PROVE  Min(S) \in S /\ \A y \in S : Min(S) <= y
<1> PICK k \in S : TRUE
  OBVIOUS
<1> DEFINE I == 0 .. k
           F == {0 .. n : n \in {m \in S : m <= k}}
<1>1. \A n \in S : n \in Nat
  OBVIOUS
<1>2. IsFiniteSet(I)
  BY <1>1, FS_Interval
<1>3. F \subseteq SUBSET I /\ F # {}
  BY <1>1
<1> HIDE DEF F, I
<1>4. PICK X \in F : \A Y \in F : ~(Y \subseteq X /\ Y # X)
  BY <1>2, <1>3, SmallestSubset
<1> USE DEF F
<1>5. PICK x \in S : x <= k /\ X = 0 .. x
  BY <1>4
<1>6. ASSUME NEW y \in S, y < x PROVE FALSE
  <2>1. y <= k /\ y \in Nat /\ x \in Nat /\ k \in Nat
    BY <1>1, <1>5, <1>6
  <2>2. 0 .. y \in F
    BY <2>1
  <2>3. 0 .. y \subseteq 0 .. x /\ x \in 0 .. x /\ x \notin 0 .. y
    BY <1>6, <2>1
  <2> QED
    BY <1>4, <1>5, <2>2, <2>3
<1>7. \A y \in S : x <= y
  BY <1>1, <1>6
<1> QED
  BY <1>7 DEF Min

-----------------------------------------------------------------------------
LEMMA PortsOfThreads ==
  ASSUME RateTypes
  PROVE  /\ stats_at.pc # "idle" => p_ \in StatPorts
         /\ clear_at.pc # "idle" => c_ \in clear_at.ports /\ c_ \in StatPorts
         /\ First(StatPorts) \in StatPorts
         /\ \A p \in StatPorts : p \in Nat /\ First(StatPorts) <= p
<1>1. \A S \in SUBSET StatPorts : S # {} => First(S) \in S /\ \A y \in S : First(S) <= y
  BY Leasts, StatisticsAssumption DEF First
<1>2. clear_at.ports \in SUBSET StatPorts
  BY DEF RateTypes
<1> QED
  BY <1>1, <1>2, StatisticsAssumption DEF RateTypes, p_, c_

\* A step of the timer marks the ports that are being cleared.
LEMMA Marks ==
  ASSUME RateTypes, Overlap
  PROVE  /\ overlapped' \in [StatPorts -> BOOLEAN]
         /\ \A p \in StatPorts : /\ overlapped[p] => overlapped'[p]
                                 /\ Clearing /\ p \in clear_at.ports => overlapped'[p]
                                 /\ Zeroed(p) => overlapped'[p]
<1>1. /\ overlapped' \in [StatPorts -> BOOLEAN]
      /\ \A p \in StatPorts : overlapped'[p] = (overlapped[p] \/ (Clearing /\ p \in clear_at.ports))
  BY DEF Overlap, RateTypes
<1>2. \A p \in StatPorts : Zeroed(p) => Clearing /\ p \in clear_at.ports
  BY PortsOfThreads DEF Zeroed, Clearing
<1> QED
  BY <1>1, <1>2

LEMMA BeginRoundKeeps ==
  ASSUME RateInv, BeginRound
  PROVE  RateInv'
<1> USE DEF RateInv
<1>1. /\ stats_at.pc = "idle" /\ stats_at' = [pc |-> "read", port |-> First(StatPorts)] /\ Overlap
      /\ rounds' = [p \in StatPorts |-> IF Clearing /\ p \in clear_at.ports THEN 0
                                        ELSE Min({rounds[p] + 1, 2})]
      /\ UNCHANGED <<nic, base, clear_at, zero, cumm, max_total, curr, rate, prev, xs, crashed,
                     reading, before>>
  BY DEF BeginRound, InRound, console_side, totals
<1>2. \A p \in StatPorts :
        rounds'[p] = IF Clearing /\ p \in clear_at.ports THEN 0
                     ELSE IF rounds[p] = 0 THEN 1 ELSE 2
  <2>1. ASSUME NEW n \in 0 .. 2 PROVE Min({n + 1, 2}) = IF n = 0 THEN 1 ELSE 2
    <3>1. {n + 1, 2} \subseteq Nat /\ {n + 1, 2} # {}
      BY <2>1
    <3>2. Min({n + 1, 2}) \in {n + 1, 2} /\ \A y \in {n + 1, 2} : Min({n + 1, 2}) <= y
      BY <3>1, Leasts
    <3> QED
      BY <3>2
  <2>2. \A p \in StatPorts : rounds[p] \in 0 .. 2
    BY DEF RateTypes
  <2>3. \A p \in StatPorts : rounds'[p] = IF Clearing /\ p \in clear_at.ports THEN 0
                                          ELSE Min({rounds[p] + 1, 2})
    BY <1>1
  <2> QED
    BY <2>1, <2>2, <2>3
<1>3. RateTypes'
  <2>1. rounds' \in [StatPorts -> 0 .. 2]
    BY <1>1, <1>2
  <2>2. stats_at' \in [pc : Processing \cup Adding \cup {"idle"}, port : Nat]
        /\ stats_at'.port \in StatPorts
    BY <1>1, PortsOfThreads DEF Processing
  <2>3. overlapped' \in [StatPorts -> BOOLEAN]
    BY <1>1, Marks
  <2> QED
    BY <1>1, <2>1, <2>2, <2>3 DEF RateTypes
<1>4. ASSUME NEW p \in StatPorts PROVE PortInv(p)'
  <2>1. /\ nic[p] \in Nat /\ rate[p] \in Nat /\ prev[p] \in Nat /\ zero[p] \in Nat
        /\ reading[p] \in Nat /\ before[p] \in Nat /\ rounds[p] \in 0 .. 2 /\ p \in Nat
        /\ overlapped[p] \in BOOLEAN
    BY PortsOfThreads DEF RateTypes
  <2>2. stats_at'.pc = "read" /\ stats_at'.port <= p /\ stats_at'.port \in Nat
    BY <1>1, PortsOfThreads
  <2>3. ~Yet(p) /\ Yet(p)' /\ Zeroed(p)' = Zeroed(p) /\ stats_at'.pc \in Processing
        /\ \A S \in SUBSET {"normalize", "rate", "save"} : ~AtOneOf(p, S)
    BY <1>1, <2>1, <2>2 DEF Yet, Zeroed, Processing, c_, AtOneOf
  <2>4. /\ overlapped[p] => overlapped'[p]
        /\ Clearing /\ p \in clear_at.ports => overlapped'[p]
        /\ Zeroed(p) => Clearing /\ p \in clear_at.ports
    BY <1>1, Marks, PortsOfThreads DEF Zeroed, Clearing
  <2>5. OrderInv(p)'
    BY <1>1, <1>2, <2>3, <2>4 DEF PortInv, OrderInv
  <2>6. FreshInv(p)'
    BY <1>2, <2>1, <2>4 DEF FreshInv
  <2>7. YetInv(p)' /\ ReachedInv(p)'
    BY <1>1, <1>2, <2>1, <2>3, <2>4 DEF PortInv, YetInv, ReachedInv, FreshInv
  <2> QED
    BY <2>5, <2>6, <2>7 DEF PortInv
<1> QED
  BY <1>3, <1>4

\* A step at one port leaves what is said of the others.
LEMMA OtherPorts ==
  ASSUME RateInv, Overlap, stats_at.pc \in Processing, stats_at'.pc \in Processing,
         stats_at'.port = stats_at.port, UNCHANGED <<nic, base, clear_at, zero, rounds>>,
         NEW p \in StatPorts, p # p_,
         curr'[p] = curr[p], rate'[p] = rate[p], prev'[p] = prev[p],
         reading'[p] = reading[p], before'[p] = before[p]
  PROVE  PortInv(p)'
<1> USE DEF RateInv
<1>1. (Yet(p)' <=> Yet(p)) /\ (Zeroed(p)' <=> Zeroed(p))
      /\ (overlapped[p] => overlapped'[p])
      /\ overlapped[p] \in BOOLEAN
  BY Marks DEF Yet, Zeroed, p_, c_, RateTypes
<1>2. \A S \in SUBSET {"normalize", "rate", "save"} : ~AtOneOf(p, S) /\ ~AtOneOf(p, S)'
  BY DEF AtOneOf, p_
<1>3. PortInv(p)
  OBVIOUS
<1>4. OrderInv(p)'
  BY <1>1, <1>3 DEF PortInv, OrderInv
<1>5. FreshInv(p)'
  BY <1>1, <1>3 DEF PortInv, FreshInv
<1>6. ReachedInv(p)'
  BY <1>1, <1>2, <1>3 DEF PortInv, ReachedInv
<1>7. YetInv(p)'
  BY <1>1, <1>3 DEF PortInv, YetInv
<1> QED
  BY <1>4, <1>5, <1>6, <1>7 DEF PortInv

LEMMA ReadStatsKeeps ==
  ASSUME RateInv, ReadStats
  PROVE  RateInv'
<1> USE DEF RateInv
<1>0. PICK q \in StatPorts : q = p_
  BY PortsOfThreads DEF ReadStats, InRound
<1>1. /\ stats_at.pc = "read" /\ stats_at' = [stats_at EXCEPT !.pc = "normalize"] /\ Overlap
      /\ UNCHANGED <<nic, base, clear_at, zero, rounds, cumm, max_total, crashed, rate, prev, xs>>
      /\ curr' = [curr EXCEPT ![q] = nic[q]] /\ reading' = [reading EXCEPT ![q] = nic[q]]
      /\ before' = [before EXCEPT ![q] = reading[q]]
  BY <1>0 DEF ReadStats, InRound, Then, console_side, totals
<1>2. /\ q = stats_at.port /\ q \in Nat
      /\ stats_at' \in [pc : Processing \cup Adding \cup {"idle"}, port : Nat]
      /\ stats_at'.pc = "normalize" /\ stats_at'.port = q
      /\ stats_at.pc \in Processing /\ stats_at'.pc \in Processing
  BY <1>0, <1>1, PortsOfThreads DEF p_, RateTypes, Processing
<1>3. /\ overlapped' \in [StatPorts -> BOOLEAN] /\ (overlapped[q] => overlapped'[q])
  BY <1>1, Marks
<1>z. Zeroed(q)' <=> Zeroed(q)
  BY <1>1 DEF Zeroed, c_
<1>4. /\ nic[q] \in Nat /\ curr[q] \in Nat /\ rate[q] \in Nat /\ prev[q] \in Nat
      /\ base[q] \in Nat /\ zero[q] \in Nat /\ reading[q] \in Nat /\ before[q] \in Nat
      /\ rounds[q] \in 0 .. 2 /\ overlapped[q] \in BOOLEAN /\ PortInv(q)
  BY DEF RateTypes
<1>5. /\ curr'[q] = nic[q] /\ reading'[q] = nic[q] /\ before'[q] = reading[q]
      /\ \A p \in StatPorts : p # q => /\ curr'[p] = curr[p] /\ rate'[p] = rate[p]
                                       /\ prev'[p] = prev[p] /\ reading'[p] = reading[p]
                                       /\ before'[p] = before[p]
  BY <1>1 DEF RateTypes
<1>6. RateTypes'
  BY <1>1, <1>2, <1>3, <1>4, <1>5 DEF RateTypes
<1>7. \A p \in StatPorts : p # q => PortInv(p)'
  BY <1>0, <1>1, <1>2, <1>5, OtherPorts
<1>8. PortInv(q)'
  <2>1. /\ (Yet(q) <=> stats_at.pc = "read") /\ ~Yet(q)'
    BY <1>1, <1>2 DEF Yet, Processing
  <2>2. /\ AtOneOf(q, {"normalize"}) <=> "read" \in {"normalize"}
        /\ AtOneOf(q, {"normalize", "rate"}) <=> "read" \in {"normalize", "rate"}
        /\ AtOneOf(q, {"normalize", "rate", "save"}) <=> "read" \in {"normalize", "rate", "save"}
        /\ AtOneOf(q, {"normalize"})' <=> "normalize" \in {"normalize"}
        /\ AtOneOf(q, {"normalize", "rate"})' <=> "normalize" \in {"normalize", "rate"}
        /\ AtOneOf(q, {"normalize", "rate", "save"})' <=> "normalize" \in {"normalize", "rate", "save"}
    BY <1>1, <1>2 DEF AtOneOf
  <2>3. ~(rounds[q] = 0 /\ ~overlapped[q])
    BY <1>2, <1>4 DEF PortInv, FreshInv
  <2>4. OrderInv(q)'
    BY <1>1, <1>3, <1>z, <1>4, <1>5, <2>1, <2>2, <2>3 DEF PortInv, OrderInv
  <2>5. FreshInv(q)' /\ YetInv(q)'
    BY <1>1, <1>3, <2>1, <2>3 DEF FreshInv, YetInv
  <2>6. ReachedInv(q)'
    BY <1>1, <1>3, <1>4, <1>5, <2>1, <2>2, <2>3 DEF PortInv, OrderInv, ReachedInv, YetInv
  <2> QED
    BY <2>4, <2>5, <2>6 DEF PortInv
<1> QED
  BY <1>6, <1>7, <1>8

LEMMA NormalizeKeeps ==
  ASSUME RateInv, Normalize
  PROVE  RateInv'
<1> USE DEF RateInv
<1>0. PICK q \in StatPorts : q = p_
  BY PortsOfThreads DEF Normalize, InRound
<1>1. /\ stats_at.pc = "normalize" /\ stats_at' = [stats_at EXCEPT !.pc = "rate"] /\ Overlap
      /\ UNCHANGED <<nic, base, clear_at, zero, rounds, cumm, max_total, crashed, rate, prev, xs, reading, before>>
      /\ curr' = [curr EXCEPT ![q] = Minus(curr[q], base[q])]
  BY <1>0 DEF Normalize, InRound, Then, console_side, totals
<1>2. /\ q = stats_at.port /\ q \in Nat
      /\ stats_at' \in [pc : Processing \cup Adding \cup {"idle"}, port : Nat]
      /\ stats_at'.pc = "rate" /\ stats_at'.port = q
      /\ stats_at.pc \in Processing /\ stats_at'.pc \in Processing
  BY <1>0, <1>1, PortsOfThreads DEF p_, RateTypes, Processing
<1>3. /\ overlapped' \in [StatPorts -> BOOLEAN] /\ (overlapped[q] => overlapped'[q])
  BY <1>1, Marks
<1>z. Zeroed(q)' <=> Zeroed(q)
  BY <1>1 DEF Zeroed, c_
<1>4. /\ nic[q] \in Nat /\ curr[q] \in Nat /\ rate[q] \in Nat /\ prev[q] \in Nat
      /\ base[q] \in Nat /\ zero[q] \in Nat /\ reading[q] \in Nat /\ before[q] \in Nat
      /\ rounds[q] \in 0 .. 2 /\ overlapped[q] \in BOOLEAN /\ PortInv(q)
  BY DEF RateTypes
<1>5. /\ curr'[q] = Minus(curr[q], base[q])
      /\ \A p \in StatPorts : p # q => /\ curr'[p] = curr[p] /\ rate'[p] = rate[p]
                                       /\ prev'[p] = prev[p] /\ reading'[p] = reading[p]
                                       /\ before'[p] = before[p]
  BY <1>1 DEF RateTypes
<1>a. Minus(curr[q], base[q]) \in Nat
        /\ (rounds[q] >= 1 => Minus(curr[q], base[q]) = reading[q] - zero[q])
  <2>1. Minus(curr[q], base[q]) \in Nat
    BY <1>4, Sums_
  <2>2. ASSUME rounds[q] >= 1 PROVE Minus(curr[q], base[q]) = reading[q] - zero[q]
    <3>1. curr[q] = reading[q] /\ zero[q] <= reading[q] /\ base[q] = zero[q]
          /\ reading[q] <= MaxTraffic
      BY <1>1, <1>2, <1>4, <2>2, StatisticsAssumption
      DEF PortInv, ReachedInv, Yet, AtOneOf, OrderInv
    <3>2. reading[q] - zero[q] < CounterRange
      BY <1>4, <3>1, StatisticsAssumption
    <3> QED
      BY <1>4, <3>1, <3>2, Smaller
  <2> QED
    BY <2>1, <2>2
<1>6. RateTypes'
  BY <1>1, <1>2, <1>3, <1>4, <1>5, <1>a DEF RateTypes
<1>7. \A p \in StatPorts : p # q => PortInv(p)'
  BY <1>0, <1>1, <1>2, <1>5, OtherPorts
<1>8. PortInv(q)'
  <2>1. /\ (Yet(q) <=> stats_at.pc = "read") /\ ~Yet(q)'
    BY <1>1, <1>2 DEF Yet, Processing
  <2>2. /\ AtOneOf(q, {"normalize"}) <=> "normalize" \in {"normalize"}
        /\ AtOneOf(q, {"normalize", "rate"}) <=> "normalize" \in {"normalize", "rate"}
        /\ AtOneOf(q, {"normalize", "rate", "save"}) <=> "normalize" \in {"normalize", "rate", "save"}
        /\ AtOneOf(q, {"normalize"})' <=> "rate" \in {"normalize"}
        /\ AtOneOf(q, {"normalize", "rate"})' <=> "rate" \in {"normalize", "rate"}
        /\ AtOneOf(q, {"normalize", "rate", "save"})' <=> "rate" \in {"normalize", "rate", "save"}
    BY <1>1, <1>2 DEF AtOneOf
  <2>3. ~(rounds[q] = 0 /\ ~overlapped[q])
    BY <1>2, <1>4 DEF PortInv, FreshInv
  <2>4. OrderInv(q)'
    BY <1>1, <1>3, <1>z, <1>4, <1>5, <1>a, <2>1, <2>2, <2>3 DEF PortInv, OrderInv
  <2>5. FreshInv(q)' /\ YetInv(q)'
    BY <1>1, <1>3, <2>1, <2>3 DEF FreshInv, YetInv
  <2>6. ReachedInv(q)'
    BY <1>1, <1>3, <1>4, <1>5, <1>a, <2>1, <2>2, <2>3 DEF PortInv, OrderInv, ReachedInv, YetInv
  <2> QED
    BY <2>4, <2>5, <2>6 DEF PortInv
<1> QED
  BY <1>6, <1>7, <1>8

LEMMA FigureRateKeeps ==
  ASSUME RateInv, FigureRate
  PROVE  RateInv'
<1> USE DEF RateInv
<1>0. PICK q \in StatPorts : q = p_
  BY PortsOfThreads DEF FigureRate, InRound
<1>1. /\ stats_at.pc = "rate" /\ stats_at' = [stats_at EXCEPT !.pc = "save"] /\ Overlap
      /\ UNCHANGED <<nic, base, clear_at, zero, rounds, cumm, max_total, crashed, curr, prev, xs, reading, before>>
      /\ rate' = [rate EXCEPT ![q] = Minus(curr[q], prev[q])]
  BY <1>0 DEF FigureRate, InRound, Then, console_side, totals
<1>2. /\ q = stats_at.port /\ q \in Nat
      /\ stats_at' \in [pc : Processing \cup Adding \cup {"idle"}, port : Nat]
      /\ stats_at'.pc = "save" /\ stats_at'.port = q
      /\ stats_at.pc \in Processing /\ stats_at'.pc \in Processing
  BY <1>0, <1>1, PortsOfThreads DEF p_, RateTypes, Processing
<1>3. /\ overlapped' \in [StatPorts -> BOOLEAN] /\ (overlapped[q] => overlapped'[q])
  BY <1>1, Marks
<1>z. Zeroed(q)' <=> Zeroed(q)
  BY <1>1 DEF Zeroed, c_
<1>4. /\ nic[q] \in Nat /\ curr[q] \in Nat /\ rate[q] \in Nat /\ prev[q] \in Nat
      /\ base[q] \in Nat /\ zero[q] \in Nat /\ reading[q] \in Nat /\ before[q] \in Nat
      /\ rounds[q] \in 0 .. 2 /\ overlapped[q] \in BOOLEAN /\ PortInv(q)
  BY DEF RateTypes
<1>5. /\ rate'[q] = Minus(curr[q], prev[q])
      /\ \A p \in StatPorts : p # q => /\ curr'[p] = curr[p] /\ rate'[p] = rate[p]
                                       /\ prev'[p] = prev[p] /\ reading'[p] = reading[p]
                                       /\ before'[p] = before[p]
  BY <1>1 DEF RateTypes
<1>a. /\ Minus(curr[q], prev[q]) \in Nat
      /\ rounds[q] = 1 /\ ~overlapped[q] => Minus(curr[q], prev[q]) = reading[q] - zero[q]
      /\ rounds[q] = 2 => Minus(curr[q], prev[q]) = reading[q] - before[q]
      /\ rounds[q] >= 1 => zero[q] <= reading[q]
      /\ rounds[q] = 2 => zero[q] <= before[q]
  <2>1. Minus(curr[q], prev[q]) \in Nat
    BY <1>4, Sums_
  <2>2. rounds[q] >= 1 => curr[q] = reading[q] - zero[q] /\ zero[q] <= reading[q]
        /\ (rounds[q] = 2 => zero[q] <= before[q] /\ prev[q] = before[q] - zero[q])
        /\ (rounds[q] = 1 /\ ~overlapped[q] => prev[q] = 0)
    BY <1>1, <1>2, <1>4 DEF PortInv, ReachedInv, Yet, AtOneOf
  <2>3. reading[q] <= MaxTraffic /\ before[q] <= reading[q]
    BY <1>4, StatisticsAssumption DEF PortInv, OrderInv
  <2>4. rounds[q] = 1 /\ ~overlapped[q] => Minus(curr[q], prev[q]) = reading[q] - zero[q]
    BY <1>4, <2>2, <2>3, Smaller, StatisticsAssumption
  <2>5. rounds[q] = 2 => Minus(curr[q], prev[q]) = reading[q] - before[q]
    <3>1. SUFFICES ASSUME rounds[q] = 2 PROVE Minus(curr[q], prev[q]) = reading[q] - before[q]
      OBVIOUS
    <3>2. prev[q] <= curr[q] /\ curr[q] - prev[q] = reading[q] - before[q]
          /\ curr[q] - prev[q] < CounterRange
      BY <1>4, <2>2, <2>3, <3>1, StatisticsAssumption
    <3> QED
      BY <1>4, <3>2, Smaller
  <2> QED
    BY <2>1, <2>2, <2>4, <2>5
<1>6. RateTypes'
  BY <1>1, <1>2, <1>3, <1>4, <1>5, <1>a DEF RateTypes
<1>7. \A p \in StatPorts : p # q => PortInv(p)'
  BY <1>0, <1>1, <1>2, <1>5, OtherPorts
<1>8. PortInv(q)'
  <2>1. /\ (Yet(q) <=> stats_at.pc = "read") /\ ~Yet(q)'
    BY <1>1, <1>2 DEF Yet, Processing
  <2>2. /\ AtOneOf(q, {"normalize"}) <=> "rate" \in {"normalize"}
        /\ AtOneOf(q, {"normalize", "rate"}) <=> "rate" \in {"normalize", "rate"}
        /\ AtOneOf(q, {"normalize", "rate", "save"}) <=> "rate" \in {"normalize", "rate", "save"}
        /\ AtOneOf(q, {"normalize"})' <=> "save" \in {"normalize"}
        /\ AtOneOf(q, {"normalize", "rate"})' <=> "save" \in {"normalize", "rate"}
        /\ AtOneOf(q, {"normalize", "rate", "save"})' <=> "save" \in {"normalize", "rate", "save"}
    BY <1>1, <1>2 DEF AtOneOf
  <2>3. ~(rounds[q] = 0 /\ ~overlapped[q])
    BY <1>2, <1>4 DEF PortInv, FreshInv
  <2>4. OrderInv(q)'
    BY <1>1, <1>3, <1>z, <1>4, <1>5, <1>a, <2>1, <2>2, <2>3 DEF PortInv, OrderInv
  <2>5. FreshInv(q)' /\ YetInv(q)'
    BY <1>1, <1>3, <2>1, <2>3 DEF FreshInv, YetInv
  <2>6. ReachedInv(q)'
    BY <1>1, <1>3, <1>4, <1>5, <1>a, <2>1, <2>2, <2>3 DEF PortInv, OrderInv, ReachedInv, YetInv
  <2> QED
    BY <2>4, <2>5, <2>6 DEF PortInv
<1> QED
  BY <1>6, <1>7, <1>8

LEMMA SavePreviousKeeps ==
  ASSUME RateInv, SavePrevious
  PROVE  RateInv'
<1> USE DEF RateInv
<1>0. PICK q \in StatPorts : q = p_
  BY PortsOfThreads DEF SavePrevious, InRound
<1>1. /\ stats_at.pc = "save" /\ stats_at' = [stats_at EXCEPT !.pc = "xstats"] /\ Overlap
      /\ UNCHANGED <<nic, base, clear_at, zero, rounds, cumm, max_total, crashed, curr, rate, xs, reading, before>>
      /\ prev' = [prev EXCEPT ![q] = curr[q]]
  BY <1>0 DEF SavePrevious, InRound, Then, console_side, totals
<1>2. /\ q = stats_at.port /\ q \in Nat
      /\ stats_at' \in [pc : Processing \cup Adding \cup {"idle"}, port : Nat]
      /\ stats_at'.pc = "xstats" /\ stats_at'.port = q
      /\ stats_at.pc \in Processing /\ stats_at'.pc \in Processing
  BY <1>0, <1>1, PortsOfThreads DEF p_, RateTypes, Processing
<1>3. /\ overlapped' \in [StatPorts -> BOOLEAN] /\ (overlapped[q] => overlapped'[q])
  BY <1>1, Marks
<1>z. Zeroed(q)' <=> Zeroed(q)
  BY <1>1 DEF Zeroed, c_
<1>4. /\ nic[q] \in Nat /\ curr[q] \in Nat /\ rate[q] \in Nat /\ prev[q] \in Nat
      /\ base[q] \in Nat /\ zero[q] \in Nat /\ reading[q] \in Nat /\ before[q] \in Nat
      /\ rounds[q] \in 0 .. 2 /\ overlapped[q] \in BOOLEAN /\ PortInv(q)
  BY DEF RateTypes
<1>5. /\ prev'[q] = curr[q]
      /\ \A p \in StatPorts : p # q => /\ curr'[p] = curr[p] /\ rate'[p] = rate[p]
                                       /\ prev'[p] = prev[p] /\ reading'[p] = reading[p]
                                       /\ before'[p] = before[p]
  BY <1>1 DEF RateTypes
<1>6. RateTypes'
  BY <1>1, <1>2, <1>3, <1>4, <1>5 DEF RateTypes
<1>7. \A p \in StatPorts : p # q => PortInv(p)'
  BY <1>0, <1>1, <1>2, <1>5, OtherPorts
<1>8. PortInv(q)'
  <2>1. /\ (Yet(q) <=> stats_at.pc = "read") /\ ~Yet(q)'
    BY <1>1, <1>2 DEF Yet, Processing
  <2>2. /\ AtOneOf(q, {"normalize"}) <=> "save" \in {"normalize"}
        /\ AtOneOf(q, {"normalize", "rate"}) <=> "save" \in {"normalize", "rate"}
        /\ AtOneOf(q, {"normalize", "rate", "save"}) <=> "save" \in {"normalize", "rate", "save"}
        /\ AtOneOf(q, {"normalize"})' <=> "xstats" \in {"normalize"}
        /\ AtOneOf(q, {"normalize", "rate"})' <=> "xstats" \in {"normalize", "rate"}
        /\ AtOneOf(q, {"normalize", "rate", "save"})' <=> "xstats" \in {"normalize", "rate", "save"}
    BY <1>1, <1>2 DEF AtOneOf
  <2>3. ~(rounds[q] = 0 /\ ~overlapped[q])
    BY <1>2, <1>4 DEF PortInv, FreshInv
  <2>4. OrderInv(q)'
    BY <1>1, <1>3, <1>z, <1>4, <1>5, <2>1, <2>2, <2>3 DEF PortInv, OrderInv
  <2>5. FreshInv(q)' /\ YetInv(q)'
    BY <1>1, <1>3, <2>1, <2>3 DEF FreshInv, YetInv
  <2>6. ReachedInv(q)'
    BY <1>1, <1>3, <1>4, <1>5, <2>1, <2>2, <2>3 DEF PortInv, OrderInv, ReachedInv, YetInv
  <2> QED
    BY <2>4, <2>5, <2>6 DEF PortInv
<1> QED
  BY <1>6, <1>7, <1>8

\* Steps that leave the counters, and what the timer has done with each port.
LEMMA SameStage ==
  ASSUME RateInv, RateTypes',
         UNCHANGED <<curr, rate, prev, base, reading, before, zero, rounds>>,
         \A p \in StatPorts :
            /\ nic[p] <= nic'[p] /\ nic'[p] <= MaxTraffic
            /\ overlapped[p] => overlapped'[p]
            /\ Zeroed(p)' => Zeroed(p)
            /\ Zeroed(p) /\ clear_at.pc = "base" => Zeroed(p)' /\ clear_at'.pc = "base"
            /\ Yet(p)' <=> Yet(p)
            /\ AtOneOf(p, {"normalize"})' <=> AtOneOf(p, {"normalize"})
            /\ AtOneOf(p, {"normalize", "rate"})' <=> AtOneOf(p, {"normalize", "rate"})
            /\ AtOneOf(p, {"normalize", "rate", "save"})' <=> AtOneOf(p, {"normalize", "rate", "save"}),
         stats_at'.pc \in Processing => stats_at.pc \in Processing
  PROVE  RateInv'
<1> USE DEF RateInv
<1>1. ASSUME NEW p \in StatPorts PROVE PortInv(p)'
  <2>1. /\ nic[p] \in Nat /\ nic'[p] \in Nat /\ rate[p] \in Nat /\ zero[p] \in Nat
        /\ reading[p] \in Nat /\ before[p] \in Nat /\ rounds[p] \in 0 .. 2
        /\ overlapped[p] \in BOOLEAN /\ overlapped'[p] \in BOOLEAN /\ PortInv(p)
    BY DEF RateTypes
  <2>2. OrderInv(p)'
    BY <2>1 DEF PortInv, OrderInv
  <2>3. FreshInv(p)'
    BY <2>1 DEF PortInv, FreshInv
  <2>4. ReachedInv(p)'
    BY <2>1 DEF PortInv, ReachedInv
  <2>5. YetInv(p)'
    BY <2>1 DEF PortInv, YetInv
  <2> QED
    BY <2>2, <2>3, <2>4, <2>5 DEF PortInv
<1> QED
  BY <1>1

LEMMA Traffics ==
  ASSUME RateInv, UNCHANGED nic
  PROVE  \A p \in StatPorts : nic[p] <= nic'[p] /\ nic'[p] <= MaxTraffic
  BY StatisticsAssumption DEF RateInv, RateTypes, PortInv, OrderInv

\* The steps of the timer that follow the rates, and those of the totals.
LEMMA LaterStepsKeep ==
  ASSUME RateInv,
         \/ SetUpXstats \/ TestXstats \/ UseXstats \/ NextPort
         \/ BeginTotals \/ AddRate \/ Maximum
  PROVE  RateInv'
<1> USE DEF RateInv
<1>1. /\ Overlap
      /\ UNCHANGED <<nic, curr, rate, prev, base, reading, before, zero, rounds, clear_at>>
  BY DEF SetUpXstats, TestXstats, UseXstats, NextPort, BeginTotals, AddRate, Maximum,
         console_side, totals, kept
<1>2. /\ overlapped' \in [StatPorts -> BOOLEAN]
      /\ \A p \in StatPorts : overlapped[p] => overlapped'[p]
  BY <1>1, Marks
<1>3. /\ cumm' \in Nat /\ max_total' \in Nat /\ crashed' \in BOOLEAN
      /\ xs' \in [StatPorts -> {NoXstats, Full}]
  <2>1. CASE SetUpXstats
    <3>1. PICK q \in StatPorts : q = p_
      BY <2>1, PortsOfThreads DEF SetUpXstats, InRound
    <3>2. xs' = [xs EXCEPT ![q] = IF @.cnt = 0 THEN Full ELSE @] /\ xs[q] \in {NoXstats, Full}
      BY <2>1, <3>1 DEF SetUpXstats, Full, RateTypes
    <3>3. xs' \in [StatPorts -> {NoXstats, Full}]
      BY <3>2 DEF RateTypes
    <3> QED
      BY <2>1, <3>3 DEF SetUpXstats, RateTypes, totals
  <2>2. CASE AddRate
    <3>1. p_ \in StatPorts /\ rate[p_] \in Nat /\ cumm \in Nat
      BY <2>2, PortsOfThreads DEF AddRate, InRound, RateTypes
    <3> QED
      BY <2>2, <3>1, Sums_ DEF AddRate, RateTypes, kept
  <2>3. CASE UseXstats
    BY <2>3, PortsOfThreads DEF UseXstats, InRound, RateTypes, totals
  <2>4. CASE TestXstats \/ NextPort \/ BeginTotals \/ Maximum
    BY <2>4 DEF TestXstats, NextPort, BeginTotals, Maximum, RateTypes, totals, kept
  <2> QED
    BY <2>1, <2>2, <2>3, <2>4
<1>4. ASSUME NEW P, P = {p \in StatPorts : p > p_} PROVE P # {} => Min(P) \in P /\ \A q \in P : Min(P) <= q
  BY <1>4, Leasts, StatisticsAssumption
<1>5. p_ = stats_at.port /\ p_ \in Nat /\ (\A p \in StatPorts : p \in Nat)
      /\ (stats_at.pc # "idle" => p_ \in StatPorts)
  BY PortsOfThreads DEF p_, RateTypes
<1>6. /\ stats_at' \in [pc : Processing \cup Adding \cup {"idle"}, port : Nat]
      /\ stats_at'.pc # "idle" => stats_at'.port \in StatPorts
      /\ stats_at'.pc \in Processing => stats_at.pc \in Processing
      /\ \A p \in StatPorts : Yet(p)' <=> Yet(p)
      /\ stats_at.pc \notin {"read", "normalize", "rate", "save"}
      /\ stats_at'.pc \notin {"normalize", "rate", "save"}
  <2>1. CASE SetUpXstats \/ TestXstats \/ UseXstats
    <3>1. /\ stats_at.pc \in {"xstats", "xloop", "xvalue"}
          /\ \E pc \in {"xloop", "xvalue", "next"} : stats_at' = [stats_at EXCEPT !.pc = pc]
      BY <2>1 DEF SetUpXstats, TestXstats, UseXstats, InRound, Then
    <3>2. PICK pc \in {"xloop", "xvalue", "next"} : stats_at' = [stats_at EXCEPT !.pc = pc]
      BY <3>1
    <3>3. stats_at' \in [pc : Processing \cup Adding \cup {"idle"}, port : Nat]
          /\ stats_at'.pc = pc /\ stats_at'.port = stats_at.port
      BY <3>2 DEF RateTypes, Processing
    <3> QED
      BY <1>5, <3>1, <3>3 DEF Yet, Processing
  <2>2. CASE NextPort
    <3> DEFINE later == {p \in StatPorts : p > p_}
    <3>1. /\ stats_at.pc = "next"
          /\ stats_at' = IF later = {} THEN [pc |-> "idle", port |-> 0]
                         ELSE [pc |-> "read", port |-> Min(later)]
      BY <2>2 DEF NextPort, InRound
    <3>2. \A p \in StatPorts : Yet(p) <=> p \in later
      BY <1>5, <3>1 DEF Yet, Processing
    <3>3. CASE later = {}
      BY <3>1, <3>2, <3>3 DEF Yet, Processing
    <3>4. CASE later # {}
      <4>1. PICK m \in StatPorts : m = Min(later) /\ m > p_ /\ \A q \in later : m <= q
        BY <1>4, <3>4
      <4>2. stats_at' = [pc |-> "read", port |-> m]
        BY <3>1, <3>4, <4>1
      <4>3. \A p \in StatPorts : p \in later <=> (m < p \/ m = p)
        BY <1>5, <4>1
      <4> HIDE DEF later
      <4>4. \A p \in StatPorts : Yet(p)' <=> p \in later
        BY <4>2, <4>3 DEF Yet, Processing
      <4> QED
        BY <1>5, <3>1, <3>2, <4>1, <4>2, <4>4 DEF Processing
    <3> QED
      BY <3>3, <3>4
  <2>3. CASE BeginTotals \/ AddRate
    <3>1. /\ stats_at.pc \in {"idle", "add"}
          /\ stats_at' \in [pc : Adding, port : Nat] /\ stats_at'.port \in StatPorts
      <4>1. CASE BeginTotals
        BY <4>1, PortsOfThreads DEF BeginTotals, InRound, Adding
      <4>2. CASE AddRate
        BY <1>5, <4>2 DEF AddRate, InRound, Then, Adding, RateTypes
      <4> QED
        BY <2>3, <4>1, <4>2
    <3> QED
      BY <3>1 DEF Yet, Processing, Adding
  <2>4. CASE Maximum
    <3> DEFINE later == {p \in StatPorts : p > p_}
    <3>1. /\ stats_at.pc = "maximum"
          /\ stats_at' = IF later = {} THEN [pc |-> "idle", port |-> 0]
                         ELSE [pc |-> "add", port |-> Min(later)]
      BY <2>4 DEF Maximum, InRound
    <3>2. later # {} => Min(later) \in StatPorts /\ Min(later) \in Nat
      BY <1>4, <1>5
    <3> HIDE DEF later
    <3> QED
      BY <3>1, <3>2 DEF Yet, Processing, Adding
  <2> QED
    BY <2>1, <2>2, <2>3, <2>4
<1>7. RateTypes'
  BY <1>1, <1>2, <1>3, <1>6 DEF RateTypes
<1>8. \A p \in StatPorts : /\ Zeroed(p)' => Zeroed(p)
                           /\ Zeroed(p) /\ clear_at.pc = "base" => Zeroed(p)' /\ clear_at'.pc = "base"
  BY <1>1 DEF Zeroed, c_
<1>9. \A p \in StatPorts :
        /\ ~AtOneOf(p, {"normalize"})' /\ ~AtOneOf(p, {"normalize"})
        /\ ~AtOneOf(p, {"normalize", "rate"})' /\ ~AtOneOf(p, {"normalize", "rate"})
        /\ ~AtOneOf(p, {"normalize", "rate", "save"})' /\ ~AtOneOf(p, {"normalize", "rate", "save"})
  BY <1>6 DEF AtOneOf
<1> QED
  BY <1>1, <1>2, <1>6, <1>7, <1>8, <1>9, SameStage, Traffics

LEMMA TrafficKeeps ==
  ASSUME RateInv, NEW r \in StatPorts, Traffic(r)
  PROVE  RateInv'
<1> USE DEF RateInv
<1>1. /\ nic[r] < MaxTraffic /\ nic' = [nic EXCEPT ![r] = @ + 1]
      /\ UNCHANGED <<curr, rate, prev, base, xs, cumm, max_total, stats_at, clear_at,
                     crashed, reading, before, zero, rounds, overlapped>>
  BY DEF Traffic
<1>2. \A p \in StatPorts : nic[p] <= nic'[p] /\ nic'[p] <= MaxTraffic
  <2>1. \A p \in StatPorts : nic[p] \in Nat /\ nic[p] <= MaxTraffic
    BY DEF RateTypes, PortInv, OrderInv
  <2>2. \A p \in StatPorts : nic'[p] = IF p = r THEN nic[p] + 1 ELSE nic[p]
    BY <1>1 DEF RateTypes
  <2> QED
    BY <1>1, <2>1, <2>2, StatisticsAssumption
<1>3. RateTypes'
  BY <1>1 DEF RateTypes
<1> QED
  BY <1>1, <1>2, <1>3, SameStage DEF Zeroed, c_, Yet, AtOneOf

LEMMA EndOfClearKeeps ==
  ASSUME RateInv, ClearStats \/ ClearMaximum \/ ClearTotals
  PROVE  RateInv'
<1> USE DEF RateInv
<1>1. UNCHANGED <<nic, curr, rate, prev, base, xs, stats_at, crashed, reading, before, zero, rounds>>
  BY DEF ClearStats, ClearMaximum, ClearTotals, timer_side
<1>2. /\ clear_at' \in [pc : {"idle", "zero", "base", "maximum", "totals"}, ports : SUBSET StatPorts]
      /\ clear_at'.pc = "idle" <=> clear_at'.ports = {}
      /\ clear_at.pc # "base" /\ \A p \in StatPorts : Zeroed(p)' => Zeroed(p)
  <2>1. CASE ClearStats
    <3>1. PICK ports \in ClearLists : clear_at' = [pc |-> "zero", ports |-> ports]
      BY <2>1, Zenon DEF ClearStats
    <3>2. ports \in SUBSET StatPorts /\ ports # {}
      BY StatisticsAssumption
    <3>3. clear_at.pc = "idle" /\ clear_at'.pc = "zero" /\ clear_at'.ports = ports
      BY <2>1, <3>1 DEF ClearStats, Clear
    <3>4. \A p \in StatPorts : ~Zeroed(p)'
      BY <3>3 DEF Zeroed
    <3> QED
      BY <3>1, <3>2, <3>3, <3>4
  <2>2. CASE ClearMaximum
    <3>1. clear_at.pc = "maximum" /\ clear_at' = [clear_at EXCEPT !.pc = "totals"]
      BY <2>2 DEF ClearMaximum, Clear
    <3> QED
      BY <3>1 DEF RateTypes, Zeroed, c_
  <2>3. CASE ClearTotals
    <3>1. clear_at.pc = "totals"
          /\ clear_at' = [pc |-> IF clear_at.ports \ {c_} = {} THEN "idle" ELSE "zero",
                          ports |-> clear_at.ports \ {c_}]
      BY <2>3 DEF ClearTotals, Clear
    <3> QED
      BY <3>1 DEF RateTypes, Zeroed
  <2> QED
    BY <2>1, <2>2, <2>3
<1>3. /\ overlapped' \in [StatPorts -> BOOLEAN] /\ (\A p \in StatPorts : overlapped[p] => overlapped'[p])
      /\ cumm' \in Nat /\ max_total' \in Nat
  <2>1. CASE ClearStats
    BY <2>1 DEF ClearStats, RateTypes, totals
  <2>2. CASE ClearMaximum \/ ClearTotals
    <3>1. PICK c : overlapped' = [overlapped EXCEPT ![c] = @ \/ stats_at.pc # "idle"]
      BY <2>2, Zenon DEF ClearMaximum, ClearTotals, Met
    <3>2. overlapped' \in [StatPorts -> BOOLEAN] /\ (\A p \in StatPorts : overlapped[p] => overlapped'[p])
      BY <3>1 DEF RateTypes
    <3> QED
      BY <2>2, <3>2 DEF ClearMaximum, ClearTotals, RateTypes
  <2> QED
    BY <2>1, <2>2
<1>4. RateTypes'
  BY <1>1, <1>2, <1>3 DEF RateTypes
<1>5. \A p \in StatPorts : nic[p] <= nic'[p] /\ nic'[p] <= MaxTraffic
  BY <1>1, Traffics
<1>6. /\ \A p \in StatPorts : Yet(p)' <=> Yet(p)
      /\ \A p \in StatPorts :
            /\ AtOneOf(p, {"normalize"})' <=> AtOneOf(p, {"normalize"})
            /\ AtOneOf(p, {"normalize", "rate"})' <=> AtOneOf(p, {"normalize", "rate"})
            /\ AtOneOf(p, {"normalize", "rate", "save"})' <=> AtOneOf(p, {"normalize", "rate", "save"})
  BY <1>1 DEF Yet, AtOneOf
<1> QED
  BY <1>1, <1>2, <1>3, <1>4, <1>5, <1>6, SameStage

\* A step of the clear at one port.
LEMMA OthersClear ==
  ASSUME RateInv, clear_at.pc # "idle",
         UNCHANGED <<nic, stats_at, reading, before>>, clear_at'.ports = clear_at.ports,
         NEW p \in StatPorts, p # c_,
         curr'[p] = curr[p], rate'[p] = rate[p], prev'[p] = prev[p], base'[p] = base[p],
         zero'[p] = zero[p], rounds'[p] = rounds[p], overlapped'[p] = overlapped[p]
  PROVE  PortInv(p)'
<1> USE DEF RateInv
<1>1. PortInv(p) /\ ~Zeroed(p) /\ ~Zeroed(p)' /\ (Yet(p)' <=> Yet(p))
  BY DEF Zeroed, Yet, c_
<1>2. /\ AtOneOf(p, {"normalize"})' <=> AtOneOf(p, {"normalize"})
      /\ AtOneOf(p, {"normalize", "rate"})' <=> AtOneOf(p, {"normalize", "rate"})
      /\ AtOneOf(p, {"normalize", "rate", "save"})' <=> AtOneOf(p, {"normalize", "rate", "save"})
  BY DEF AtOneOf
<1>3. OrderInv(p)' /\ FreshInv(p)'
  BY <1>1 DEF PortInv, OrderInv, FreshInv
<1>4. ReachedInv(p)' /\ YetInv(p)'
  BY <1>1, <1>2 DEF PortInv, ReachedInv, YetInv
<1> QED
  BY <1>3, <1>4 DEF PortInv

LEMMA ZeroStatsKeeps ==
  ASSUME RateInv, ZeroStats
  PROVE  RateInv'
<1> USE DEF RateInv
<1>1. PICK c \in StatPorts : c = c_
  BY PortsOfThreads DEF ZeroStats, Clear
<1>2. /\ clear_at.pc = "zero" /\ clear_at' = [clear_at EXCEPT !.pc = "base"]
      /\ curr' = [curr EXCEPT ![c] = 0] /\ rate' = [rate EXCEPT ![c] = 0]
      /\ prev' = [prev EXCEPT ![c] = 0] /\ base' = [base EXCEPT ![c] = 0]
      /\ xs' = [xs EXCEPT ![c] = NoXstats]
      /\ overlapped' = [overlapped EXCEPT ![c] = stats_at.pc # "idle"]
      /\ rounds' = [rounds EXCEPT ![c] = 0]
      /\ UNCHANGED <<nic, stats_at, crashed, reading, before, cumm, max_total, zero>>
  BY <1>1 DEF ZeroStats, Clear, timer_side, totals
<1>3. /\ clear_at' \in [pc : {"idle", "zero", "base", "maximum", "totals"}, ports : SUBSET StatPorts]
      /\ clear_at'.pc = "base" /\ clear_at'.ports = clear_at.ports
  BY <1>2 DEF RateTypes
<1>4. RateTypes'
  BY <1>2, <1>3 DEF RateTypes
<1>5. \A p \in StatPorts : p # c => PortInv(p)'
  <2>1. \A p \in StatPorts : p # c =>
          /\ curr'[p] = curr[p] /\ rate'[p] = rate[p] /\ prev'[p] = prev[p] /\ base'[p] = base[p]
          /\ zero'[p] = zero[p] /\ rounds'[p] = rounds[p] /\ overlapped'[p] = overlapped[p]
    BY <1>2 DEF RateTypes
  <2> QED
    BY <1>1, <1>2, <1>3, <2>1, OthersClear
<1>6. PortInv(c)'
  <2>1. /\ rounds'[c] = 0 /\ prev'[c] = 0 /\ rate'[c] = 0
        /\ overlapped'[c] = (stats_at.pc # "idle")
    BY <1>2 DEF RateTypes
  <2>2. Zeroed(c)' /\ clear_at'.pc = "base"
    BY <1>1, <1>3 DEF Zeroed, c_
  <2>3. OrderInv(c)'
    <3>1. OrderInv(c) /\ nic[c] \in Nat /\ zero[c] \in Nat
      BY DEF PortInv, RateTypes
    <3> QED
      BY <1>2, <2>1, <2>2, <3>1 DEF OrderInv
  <2>4. FreshInv(c)'
    <3>1. ~overlapped'[c] => stats_at' = stats_at /\ stats_at.pc = "idle"
      BY <1>2, <2>1
    <3> QED
      BY <2>1, <3>1 DEF FreshInv, Processing
  <2>5. ReachedInv(c)' /\ YetInv(c)'
    BY <2>1 DEF ReachedInv, YetInv
  <2> QED
    BY <2>3, <2>4, <2>5 DEF PortInv
<1> QED
  BY <1>4, <1>5, <1>6

LEMMA SetBaseKeeps ==
  ASSUME RateInv, SetBase
  PROVE  RateInv'
<1> USE DEF RateInv
<1>1. PICK c \in StatPorts : c = c_
  BY PortsOfThreads DEF SetBase, Clear
<1>2. /\ clear_at.pc = "base" /\ clear_at' = [clear_at EXCEPT !.pc = "maximum"]
      /\ base' = [base EXCEPT ![c] = nic[c]] /\ zero' = [zero EXCEPT ![c] = nic[c]]
      /\ overlapped' = [overlapped EXCEPT ![c] = @ \/ stats_at.pc # "idle"]
      /\ UNCHANGED <<nic, stats_at, crashed, reading, before, cumm, max_total, curr, rate, prev, xs,
                     rounds>>
  BY <1>1 DEF SetBase, Clear, Met, timer_side, totals
<1>3. /\ clear_at' \in [pc : {"idle", "zero", "base", "maximum", "totals"}, ports : SUBSET StatPorts]
      /\ clear_at'.pc = "maximum" /\ clear_at'.ports = clear_at.ports
  BY <1>2 DEF RateTypes
<1>4. RateTypes'
  BY <1>2, <1>3 DEF RateTypes
<1>5. \A p \in StatPorts : p # c => PortInv(p)'
  <2>1. \A p \in StatPorts : p # c =>
          /\ curr'[p] = curr[p] /\ rate'[p] = rate[p] /\ prev'[p] = prev[p] /\ base'[p] = base[p]
          /\ zero'[p] = zero[p] /\ rounds'[p] = rounds[p] /\ overlapped'[p] = overlapped[p]
    BY <1>2 DEF RateTypes
  <2> QED
    BY <1>1, <1>2, <1>3, <2>1, OthersClear
<1>6. PortInv(c)'
  <2>1. /\ zero'[c] = nic[c] /\ base'[c] = nic[c]
        /\ overlapped'[c] = (overlapped[c] \/ stats_at.pc # "idle")
        /\ nic[c] \in Nat /\ rounds[c] \in 0 .. 2 /\ overlapped[c] \in BOOLEAN
    BY <1>2 DEF RateTypes
  <2>2. PortInv(c) /\ Zeroed(c) /\ Zeroed(c)' /\ clear_at'.pc # "base"
    BY <1>1, <1>2, <1>3 DEF Zeroed, c_
  <2>3. rounds[c] = 0 /\ rounds'[c] = 0
    BY <1>2, <2>2 DEF PortInv, OrderInv
  <2>4. FreshInv(c)' /\ ReachedInv(c)' /\ YetInv(c)'
    BY <1>2, <2>1, <2>2, <2>3 DEF PortInv, FreshInv, ReachedInv, YetInv
  <2>5. OrderInv(c)'
    BY <1>2, <2>1, <2>2, <2>3 DEF PortInv, FreshInv, OrderInv
  <2> QED
    BY <2>4, <2>5 DEF PortInv
<1> QED
  BY <1>4, <1>5, <1>6

LEMMA RateInvKept ==
  ASSUME RateInv, [Next]_all
  PROVE  RateInv'
<1> DEFINE Act == \/ BeginRound \/ ProcessStep \/ BeginTotals \/ TotalsStep \/ ClearStep \/ ClearStats
                  \/ \E p \in StatPorts : Traffic(p)
<1>1. Act \/ UNCHANGED counters
  BY DEF Next, TimerTurn, ConsoleStep, NewCommand, LcoreStep, LcoreReceives, Pages_, Statistics_, Log_,
         Dump_, Theme_, DumpPaused, all
<1>2. CASE UNCHANGED counters
  BY <1>2 DEF counters, RateInv, RateTypes, PortInv, OrderInv, FreshInv, ReachedInv, YetInv, Yet,
              AtOneOf, Zeroed, c_
<1>3. CASE Act
  BY <1>3, BeginRoundKeeps, ReadStatsKeeps, NormalizeKeeps, FigureRateKeeps, SavePreviousKeeps,
     LaterStepsKeep, TrafficKeeps, EndOfClearKeeps, ZeroStatsKeeps, SetBaseKeeps
  DEF ProcessStep, TotalsStep, ClearStep
<1> QED
  BY <1>1, <1>2, <1>3

-----------------------------------------------------------------------------
LEMMA RateInvInit == Init => RateInv
<1> SUFFICES ASSUME Init PROVE RateInv
  OBVIOUS
<1>1. StatisticsInit
  BY DEF Init
<1>2. RateTypes
  <2>1. None \in [StatPorts -> Nat] /\ None \in [StatPorts -> 0 .. 2]
    BY DEF None
  <2>2. /\ stats_at = [pc |-> "idle", port |-> 0] /\ clear_at = [pc |-> "idle", ports |-> {}]
        /\ xs = [p \in StatPorts |-> NoXstats] /\ overlapped = [p \in StatPorts |-> FALSE]
        /\ crashed = FALSE
    BY <1>1 DEF StatisticsInit
  <2>3. /\ stats_at \in [pc : Processing \cup Adding \cup {"idle"}, port : Nat] /\ stats_at.pc = "idle"
        /\ clear_at \in [pc : {"idle", "zero", "base", "maximum", "totals"}, ports : SUBSET StatPorts]
        /\ clear_at.pc = "idle" /\ clear_at.ports = {}
    BY <2>2
  <2>4. /\ xs \in [StatPorts -> {NoXstats, Full}] /\ overlapped \in [StatPorts -> BOOLEAN]
        /\ crashed \in BOOLEAN
    BY <2>2
  <2> QED
    BY <1>1, <2>1, <2>3, <2>4 DEF StatisticsInit, RateTypes
<1>3. ASSUME NEW p \in StatPorts PROVE PortInv(p)
  <2>1. /\ nic[p] = 0 /\ rate[p] = 0 /\ prev[p] = 0 /\ base[p] = 0 /\ reading[p] = 0 /\ before[p] = 0
        /\ zero[p] = 0 /\ rounds[p] = 0 /\ clear_at.pc = "idle" /\ stats_at.pc = "idle"
    BY <1>1 DEF StatisticsInit, None
  <2> QED
    BY <2>1, StatisticsAssumption
    DEF PortInv, OrderInv, FreshInv, ReachedInv, YetInv, Zeroed, Processing
<1> QED
  BY <1>2, <1>3 DEF RateInv

LEMMA RatesAreReadHere ==
  ASSUME RateInv
  PROVE  RatesAreRead
<1> USE DEF RateInv
<1> SUFFICES ASSUME NEW p \in StatPorts, Rests(p)
             PROVE  /\ rounds[p] >= 1 => curr[p] = Since(p) /\ prev[p] = curr[p]
                    /\ rounds[p] = 1 /\ ~overlapped[p] => rate[p] = Since(p)
                    /\ rounds[p] = 2 => rate[p] = Minus(reading[p], before[p])
  BY DEF RatesAreRead
<1>1. /\ nic[p] \in Nat /\ zero[p] \in Nat /\ reading[p] \in Nat /\ before[p] \in Nat
      /\ rounds[p] \in 0 .. 2 /\ PortInv(p)
  BY DEF RateTypes
<1>2. /\ ~Yet(p) /\ ~AtOneOf(p, {"normalize"}) /\ ~AtOneOf(p, {"normalize", "rate"})
      /\ ~AtOneOf(p, {"normalize", "rate", "save"})
  BY DEF Rests, Yet, AtOneOf, Processing
<1>3. before[p] <= reading[p] /\ reading[p] <= MaxTraffic
  BY <1>1, StatisticsAssumption DEF PortInv, OrderInv
<1>4. rounds[p] >= 1 =>
        /\ zero[p] <= reading[p] /\ curr[p] = reading[p] - zero[p] /\ prev[p] = reading[p] - zero[p]
        /\ rounds[p] = 1 /\ ~overlapped[p] => rate[p] = reading[p] - zero[p]
        /\ rounds[p] = 2 => rate[p] = reading[p] - before[p]
  BY <1>1, <1>2 DEF PortInv, ReachedInv
<1>5. rounds[p] >= 1 => Since(p) = reading[p] - zero[p]
  BY <1>1, <1>3, <1>4, Smaller, StatisticsAssumption DEF Since
<1>6. Minus(reading[p], before[p]) = reading[p] - before[p]
  BY <1>1, <1>3, Smaller, StatisticsAssumption
<1> QED
  BY <1>1, <1>4, <1>5, <1>6

LEMMA SafeInvKept ==
  ASSUME RateInv, SafeInv, [Next]_all
  PROVE  SafeInv'
<1> USE DEF RateInv
<1>1. CASE UNCHANGED counters
  BY <1>1 DEF counters, SafeInv, AtOneOf, Calm
<1>2. CASE \E p \in StatPorts : Traffic(p)
  BY <1>2 DEF Traffic, SafeInv, AtOneOf, Calm
<1>3. CASE UseXstats
  <2>1. PICK q \in StatPorts : q = p_
    BY <1>3, PortsOfThreads DEF UseXstats, InRound
  <2>2. /\ stats_at.pc = "xvalue" /\ crashed' = ~xs[q].there /\ ~crashed /\ Overlap
        /\ stats_at' = [stats_at EXCEPT !.pc = "next"]
    BY <1>3, <2>1 DEF UseXstats, InRound, Then
  <2>3. stats_at'.pc = "next"
    BY <2>2 DEF RateTypes
  <2>4. overlapped[q] => overlapped'[q]
    BY <2>2, Marks
  <2>5. ~overlapped[q] => xs[q] = Full
    BY <2>1, <2>2 DEF SafeInv, AtOneOf, p_
  <2>6. crashed' => overlapped'[q]
    <3>1. CASE overlapped[q]
      BY <2>4, <3>1
    <3>2. CASE ~overlapped[q]
      <4>1. xs[q].there = TRUE
        BY <2>5, <3>2 DEF Full
      <4> QED
        BY <2>2, <4>1
    <3> QED
      BY <3>1, <3>2
  <2> QED
    BY <2>3, <2>6 DEF SafeInv, AtOneOf, Calm
<1>4. CASE TestXstats
  <2>1. PICK q \in StatPorts : q = p_
    BY <1>4, PortsOfThreads DEF TestXstats, InRound
  <2>2. /\ stats_at.pc = "xloop" /\ xs' = xs /\ crashed' = crashed /\ ~crashed
        /\ stats_at' = [stats_at EXCEPT !.pc = IF xs[q].cnt > 0 THEN "xvalue" ELSE "next"]
    BY <1>4, <2>1 DEF TestXstats, InRound, Then
  <2>3. stats_at'.pc = (IF xs[q].cnt > 0 THEN "xvalue" ELSE "next") /\ stats_at'.port = q
    BY <2>1, <2>2 DEF RateTypes, p_
  <2>4. xs[q].cnt > 0 => xs[q] = Full
    BY DEF RateTypes, NoXstats
  <2> QED
    BY <2>2, <2>3, <2>4 DEF SafeInv, AtOneOf
<1>5. CASE \/ BeginRound \/ ReadStats \/ Normalize \/ FigureRate \/ SavePrevious \/ SetUpXstats
           \/ NextPort \/ BeginTotals \/ AddRate \/ Maximum
  <2>1. ~crashed /\ crashed' = crashed
    BY <1>5 DEF BeginRound, ReadStats, Normalize, FigureRate, SavePrevious, SetUpXstats, NextPort,
                BeginTotals, AddRate, Maximum, InRound, kept
  <2>2. \/ stats_at'.pc \in {"idle", "read", "add"}
        \/ \E pc \in {"normalize", "rate", "save", "xstats", "xloop", "maximum"} :
             stats_at' = [stats_at EXCEPT !.pc = pc]
    BY <1>5 DEF BeginRound, ReadStats, Normalize, FigureRate, SavePrevious, SetUpXstats, NextPort,
                BeginTotals, AddRate, Maximum, Then
  <2>3. stats_at'.pc # "xvalue"
    BY <2>2 DEF RateTypes
  <2> QED
    BY <2>1, <2>3 DEF SafeInv, AtOneOf
<1>6. CASE ClearStats \/ SetBase \/ ClearMaximum \/ ClearTotals
  <2>1. ~crashed /\ UNCHANGED <<crashed, xs, stats_at>>
    BY <1>6 DEF ClearStats, SetBase, ClearMaximum, ClearTotals, Clear, timer_side
  <2>2. \A p \in StatPorts : overlapped[p] => overlapped'[p]
    <3>1. CASE ClearStats
      BY <3>1 DEF ClearStats
    <3>2. CASE SetBase \/ ClearMaximum \/ ClearTotals
      <4>1. Met
        BY <3>2 DEF SetBase, ClearMaximum, ClearTotals
      <4>2. PICK c : overlapped' = [overlapped EXCEPT ![c] = @ \/ stats_at.pc # "idle"]
        BY <4>1, Zenon DEF Met
      <4> QED
        BY <4>2 DEF RateTypes
    <3> QED
      BY <1>6, <3>1, <3>2
  <2> QED
    BY <2>1, <2>2 DEF SafeInv, AtOneOf
<1>7. CASE ZeroStats
  <2>1. PICK c \in StatPorts : c = c_
    BY <1>7, PortsOfThreads DEF ZeroStats, Clear
  <2>2. /\ xs' = [xs EXCEPT ![c] = NoXstats] /\ UNCHANGED <<crashed, stats_at>> /\ ~crashed
        /\ overlapped' = [overlapped EXCEPT ![c] = stats_at.pc # "idle"]
    BY <1>7, <2>1 DEF ZeroStats, Clear, timer_side
  <2>3. \A p \in StatPorts :
          IF p = c THEN overlapped'[p] = (stats_at.pc # "idle")
          ELSE overlapped'[p] = overlapped[p] /\ xs'[p] = xs[p]
    BY <2>2 DEF RateTypes
  <2> QED
    BY <2>2, <2>3 DEF SafeInv, AtOneOf
<1>8. \/ UNCHANGED counters \/ (\E p \in StatPorts : Traffic(p))
      \/ BeginRound \/ ReadStats \/ Normalize \/ FigureRate \/ SavePrevious \/ SetUpXstats
      \/ NextPort \/ BeginTotals \/ AddRate \/ Maximum
      \/ UseXstats \/ TestXstats
      \/ ClearStats \/ SetBase \/ ClearMaximum \/ ClearTotals \/ ZeroStats
  BY DEF Next, TimerTurn, ConsoleStep, NewCommand, LcoreStep, LcoreReceives, Pages_, Statistics_, Log_,
         Dump_, Theme_, DumpPaused, all, ProcessStep, TotalsStep, ClearStep
<1> QED
  BY <1>1, <1>2, <1>3, <1>4, <1>5, <1>6, <1>7, <1>8

-----------------------------------------------------------------------------

\* Each port counted something since it was cleared, or nothing.
LEMMA Gains ==
  ASSUME RateInv
  PROVE  /\ \A p \in StatPorts : Gain[p] \in Nat /\ Gain[p] = nic[p] - zero[p]
         /\ IsFiniteSet(StatPorts) /\ IsFiniteSet(Added) /\ Added \in SUBSET StatPorts
         /\ SumFunctionOnSet(Gain, StatPorts) \in Nat /\ SumFunctionOnSet(Gain, Added) \in Nat
         /\ SumFunctionOnSet(Gain, Added) <= SumFunctionOnSet(Gain, StatPorts)
<1>1. \A p \in StatPorts : Gain[p] \in Nat /\ Gain[p] = nic[p] - zero[p]
  <2> SUFFICES ASSUME NEW p \in StatPorts PROVE Gain[p] \in Nat /\ Gain[p] = nic[p] - zero[p]
    OBVIOUS
  <2>1. nic[p] \in Nat /\ zero[p] \in Nat /\ zero[p] <= nic[p]
    BY DEF RateInv, RateTypes, PortInv, OrderInv
  <2> QED
    BY <2>1 DEF Gain
<1>2. IsFiniteSet(StatPorts) /\ Added \in SUBSET StatPorts
  BY StatisticsAssumption DEF Added
<1> QED
  BY <1>1, <1>2, FS_Subset, SumIsNat, SumGrows

LEMMA MaximumInvKept ==
  ASSUME RateInv, MaximumInv, [Next]_all
  PROVE  MaximumInv'
<1> USE DEF RateInv
<1>1. CASE UNCHANGED counters
  BY <1>1 DEF counters, MaximumInv, Calm, Clearing, Gain, Added
<1>2. ASSUME NEW r \in StatPorts, Traffic(r) PROVE MaximumInv'
  <2>1. /\ nic' = [nic EXCEPT ![r] = @ + 1]
        /\ UNCHANGED <<zero, max_total, cumm, stats_at, clear_at, overlapped>>
    BY <1>2 DEF Traffic
  <2>2. \A p \in StatPorts : Gain[p] \in Int /\ Gain'[p] \in Int
                             /\ Gain'[p] = IF p = r THEN Gain[p] + 1 ELSE Gain[p]
    <3>1. \A p \in StatPorts : nic'[p] = IF p = r THEN nic[p] + 1 ELSE nic[p]
      BY <2>1 DEF RateTypes
    <3>2. \A p \in StatPorts : Gain'[p] = nic'[p] - zero[p]
      BY <2>1 DEF Gain
    <3>3. \A p \in StatPorts : nic[p] \in Nat /\ zero[p] \in Nat
      BY DEF RateTypes
    <3> QED
      BY <3>1, <3>2, <3>3, Gains
  <2>3. Added' = Added
    BY <2>1 DEF Added
  <2>4. ASSUME NEW T \in SUBSET StatPorts
        PROVE  SumFunctionOnSet(Gain, T) <= SumFunctionOnSet(Gain', T)
    <3> DEFINE g == Gain
               h == Gain'
    <3>1. IsFiniteSet(T) /\ \A p \in T : g[p] \in Int /\ h[p] \in Int
      BY <2>2, FS_Subset, StatisticsAssumption
    <3>2. \A p \in T \ {r} : g[p] = h[p]
      BY <2>2
    <3>3. r \in T => h[r] - g[r] = 1
      BY <2>2
    <3> HIDE DEF g, h
    <3>4. /\ SumFunctionOnSet(g, T) \in Int
          /\ SumFunctionOnSet(h, T) = SumFunctionOnSet(g, T) + (IF r \in T THEN h[r] - g[r] ELSE 0)
      BY <3>1, <3>2, SumMoves
    <3> QED
      BY <3>3, <3>4 DEF g, h
  <2>5. /\ SumFunctionOnSet(Gain, StatPorts) <= SumFunctionOnSet(Gain, StatPorts)'
        /\ SumFunctionOnSet(Gain, Added) <= SumFunctionOnSet(Gain, Added)'
    BY <2>3, <2>4 DEF Added
  <2>6. \A p \in StatPorts : Gain'[p] \in Nat
    BY <2>2, Gains
  <2>7. /\ SumFunctionOnSet(Gain, StatPorts)' \in Nat /\ SumFunctionOnSet(Gain, Added)' \in Nat
    <3> DEFINE h == Gain'
    <3>1. \A p \in StatPorts : h[p] \in Nat
      BY <2>6
    <3> HIDE DEF h
    <3>2. SumFunctionOnSet(h, StatPorts) \in Nat /\ SumFunctionOnSet(h, Added) \in Nat
      BY <3>1, SumIsNat, Gains
    <3> QED
      BY <2>3, <3>2 DEF h
  <2>8. cumm \in Nat /\ max_total \in Nat
    BY DEF RateTypes
  <2> QED
    BY <2>1, <2>5, <2>7, <2>8, Gains DEF MaximumInv, Calm, Clearing
<1>3. CASE BeginRound \/ ProcessStep
  <2>1. Overlap /\ UNCHANGED <<nic, zero, max_total, cumm, clear_at>>
    BY <1>3 DEF BeginRound, ProcessStep, ReadStats, Normalize, FigureRate, SavePrevious, SetUpXstats,
                TestXstats, UseXstats, NextPort, console_side, totals
  <2>2. Calm' => Calm
    BY <2>1, Marks DEF Calm
  <2>3. \/ stats_at'.pc \in {"read", "idle"}
        \/ \E pc \in Processing : stats_at' = [stats_at EXCEPT !.pc = pc]
    BY <1>3 DEF BeginRound, ProcessStep, ReadStats, Normalize, FigureRate, SavePrevious, SetUpXstats,
                TestXstats, UseXstats, NextPort, Then, Processing
  <2>4. stats_at'.pc \notin Adding
    BY <2>3 DEF RateTypes, Processing, Adding
  <2>5. SumFunctionOnSet(Gain, StatPorts)' = SumFunctionOnSet(Gain, StatPorts)
    BY <2>1 DEF Gain
  <2> QED
    BY <2>1, <2>2, <2>4, <2>5 DEF MaximumInv, Clearing
<1>4. CASE BeginTotals \/ TotalsStep
  <2>1. Overlap /\ UNCHANGED <<nic, zero, clear_at>> /\ ~crashed
    BY <1>4 DEF BeginTotals, TotalsStep, AddRate, Maximum, console_side, InRound
  <2>2. Calm' => Calm /\ ~Clearing
    <3>1. Clearing => c_ \in StatPorts /\ c_ \in clear_at.ports
      BY PortsOfThreads DEF Clearing
    <3> QED
      BY <2>1, <3>1, Marks DEF Calm
  <2>3. Gain' = Gain /\ (Clearing' <=> Clearing)
    BY <2>1 DEF Gain, Clearing
  <2>4. CASE BeginTotals
    <3>1. cumm' = 0 /\ max_total' = max_total
          /\ stats_at' = [pc |-> "add", port |-> First(StatPorts)]
      BY <2>4 DEF BeginTotals
    <3>2. Added' = {}
      BY <3>1, PortsOfThreads DEF Added
    <3>3. SumFunctionOnSet(Gain, Added)' = 0
      BY <2>3, <3>2, SumEmpty
    <3> QED
      BY <2>1, <2>2, <2>3, <3>1, <3>3 DEF MaximumInv, Clearing
  <2>5. CASE AddRate
    <3>1. PICK q \in StatPorts : q = p_
      BY <2>5, PortsOfThreads DEF AddRate, InRound
    <3>2. /\ stats_at.pc = "add" /\ cumm' = Plus(cumm, rate[q]) /\ max_total' = max_total
          /\ stats_at' = [stats_at EXCEPT !.pc = "maximum"]
      BY <2>5, <3>1 DEF AddRate, InRound, Then
    <3>3. stats_at'.pc = "maximum" /\ stats_at'.port = q /\ stats_at.port = q
      BY <3>1, <3>2 DEF RateTypes, p_
    <3>4. Added' \ {q} = Added /\ q \in Added' /\ Added' \in SUBSET StatPorts
      BY <3>2, <3>3, StatisticsAssumption DEF Added
    <3>5. SumFunctionOnSet(Gain, Added)' = Gain[q] + SumFunctionOnSet(Gain, Added)
      <4>1. IsFiniteSet(Added') /\ \A x \in Added' : Gain[x] \in Int
        BY <3>4, Gains, FS_Subset
      <4> QED
        BY <2>3, <3>4, <4>1, SumRemove
    <3>6. Calm => rate[q] <= Gain[q]
      BY Gains DEF Calm, PortInv, OrderInv
    <3>7. cumm \in Nat /\ rate[q] \in Nat /\ cumm' \in Nat /\ cumm' <= cumm + rate[q]
      BY <3>2, Sums_ DEF RateTypes
    <3>8. Gain[q] \in Nat /\ SumFunctionOnSet(Gain, Added) \in Nat
      BY Gains
    <3>9. Calm' => cumm' <= SumFunctionOnSet(Gain, Added)'
      BY <2>2, <3>2, <3>5, <3>6, <3>7, <3>8 DEF MaximumInv, Adding
    <3> QED
      BY <2>1, <2>2, <2>3, <3>2, <3>9 DEF MaximumInv, Clearing
  <2>6. CASE Maximum
    <3> DEFINE later == {p \in StatPorts : p > p_}
    <3>1. /\ stats_at.pc = "maximum" /\ cumm' = cumm
          /\ max_total' = IF cumm > max_total THEN cumm ELSE max_total
          /\ stats_at' = IF later = {} THEN [pc |-> "idle", port |-> 0]
                         ELSE [pc |-> "add", port |-> Min(later)]
      BY <2>6 DEF Maximum, InRound
    <3>2. p_ \in Nat /\ p_ = stats_at.port
      BY DEF p_, RateTypes
    <3>3. stats_at'.pc \in Adding => Added' = Added
      <4>1. SUFFICES ASSUME later # {} PROVE Added' = Added
        BY <3>1 DEF Adding
      <4>2. PICK m \in later : m = Min(later) /\ \A y \in later : m <= y
        BY <4>1, Leasts, StatisticsAssumption
      <4>3. stats_at' = [pc |-> "add", port |-> m]
        BY <3>1, <4>1, <4>2
      <4>4. \A p \in StatPorts : p \in Nat /\ (p < m <=> (p < p_ \/ p = p_))
        <5>1. m \in Nat /\ m > p_ /\ \A p \in StatPorts : p \in Nat /\ (p > p_ => m <= p)
          BY <4>2, StatisticsAssumption
        <5> QED
          BY <3>2, <5>1
      <4>5. Added' = {p \in StatPorts : p < m}
        BY <4>3 DEF Added
      <4> HIDE DEF later
      <4> QED
        BY <3>1, <3>2, <4>4, <4>5 DEF Added
    <3>4. Calm' => cumm <= SumFunctionOnSet(Gain, Added) /\ max_total <= SumFunctionOnSet(Gain, StatPorts)
      BY <2>2, <3>1 DEF MaximumInv, Adding
    <3>5. Calm' => max_total' <= SumFunctionOnSet(Gain, StatPorts)
      BY <3>1, <3>4, Gains DEF RateTypes
    <3> HIDE DEF later
    <3> QED
      BY <2>1, <2>2, <2>3, <3>1, <3>3, <3>4, <3>5 DEF MaximumInv, Clearing
  <2> QED
    BY <1>4, <2>4, <2>5, <2>6 DEF TotalsStep
<1>5. CASE ClearStats \/ ZeroStats \/ SetBase \/ ClearMaximum
  <2>1. /\ clear_at'.pc # "idle" /\ (clear_at'.pc = "totals" => max_total' = 0)
    <3>1. CASE ClearStats
      BY <3>1 DEF ClearStats
    <3>2. CASE ZeroStats \/ SetBase
      BY <3>2 DEF ZeroStats, SetBase, RateTypes
    <3>3. CASE ClearMaximum
      BY <3>3 DEF ClearMaximum, RateTypes
    <3> QED
      BY <1>5, <3>1, <3>2, <3>3
  <2> QED
    BY <2>1 DEF MaximumInv, Clearing
<1>6. CASE ClearTotals
  <2>1. PICK c \in StatPorts : c = c_
    BY <1>6, PortsOfThreads DEF ClearTotals, Clear
  <2>2. /\ clear_at.pc = "totals" /\ UNCHANGED <<nic, zero, max_total, stats_at>>
        /\ overlapped' = [overlapped EXCEPT ![c] = @ \/ stats_at.pc # "idle"]
        /\ clear_at'.pc # "totals"
    BY <1>6, <2>1 DEF ClearTotals, Clear, Met, timer_side
  <2>3. Calm' => Calm /\ stats_at.pc = "idle"
    <3>1. \A p \in StatPorts : overlapped'[p] = IF p = c THEN overlapped[p] \/ stats_at.pc # "idle"
                                                ELSE overlapped[p]
      BY <2>2 DEF RateTypes
    <3> QED
      BY <3>1 DEF Calm
  <2>4. Calm' => max_total' = 0
    BY <2>2, <2>3 DEF MaximumInv
  <2>5. 0 <= SumFunctionOnSet(Gain, StatPorts)'
    <3>1. Gain' = Gain
      BY <2>2 DEF Gain
    <3> QED
      BY <3>1, Gains
  <2>6. stats_at.pc = "idle" => stats_at'.pc \notin Adding
    BY <2>2 DEF Adding
  <2> QED
    BY <2>2, <2>3, <2>4, <2>5, <2>6 DEF MaximumInv
<1>7. \/ UNCHANGED counters \/ (\E p \in StatPorts : Traffic(p))
      \/ BeginRound \/ ProcessStep \/ BeginTotals \/ TotalsStep
      \/ ClearStats \/ ZeroStats \/ SetBase \/ ClearMaximum \/ ClearTotals
  BY DEF Next, TimerTurn, ConsoleStep, NewCommand, LcoreStep, LcoreReceives, Pages_, Statistics_, Log_,
         Dump_, Theme_, DumpPaused, all, ClearStep
<1> QED
  BY <1>1, <1>2, <1>3, <1>4, <1>5, <1>6, <1>7

\* pktgen_process_stats and the totals of pktgen_page_stats against
\* pktgen_clear_stats: when both rest, rates and totals are those between the
\* readings, also after a clear that met the timer in any of its steps; a
\* clear that met nothing leaves the maximum sound, and no pointer is
\* followed that is gone.
THEOREM RatesTrue == Spec => []RatesAreTrue
<1> DEFINE Inv == RateInv /\ SafeInv /\ MaximumInv
<1>1. Init => Inv
  <2> SUFFICES ASSUME Init PROVE Inv
    OBVIOUS
  <2>1. RateInv
    BY RateInvInit
  <2>2. stats_at.pc = "idle" /\ clear_at.pc = "idle" /\ max_total = 0 /\ crashed = FALSE
    BY DEF Init, StatisticsInit
  <2>3. SafeInv
    BY <2>2 DEF SafeInv, AtOneOf
  <2>4. 0 <= SumFunctionOnSet(Gain, StatPorts)
    BY <2>1, Gains
  <2>5. MaximumInv
    BY <2>2, <2>4 DEF MaximumInv, Adding
  <2> QED
    BY <2>1, <2>3, <2>5
<1>2. Inv /\ [Next]_all => Inv'
  BY RateInvKept, SafeInvKept, MaximumInvKept
<1>3. Inv => RatesAreTrue
  <2> SUFFICES ASSUME Inv PROVE RatesAreTrue
    OBVIOUS
  <2>1. CalmClearsAreSafe
    BY DEF CalmClearsAreSafe, SafeInv, MaximumInv, Calm, Gain
  <2> QED
    BY <2>1, RatesAreReadHere DEF RatesAreTrue
<1> HIDE DEF Inv
<1> QED
  BY <1>1, <1>2, <1>3, PTL DEF Spec

-----------------------------------------------------------------------------
(***************************************************************************)
(* The log.  Positions of the ring are counted back from log_head, so that *)
(* the invariant needs no remainders: the newest message is one back.      *)
(***************************************************************************)
LogPcs == {"idle", "write", "head", "tail", "file", "refresh"}
Messages == [id : Nat, lines : Nat \ {0}]
Back(k, i) == IF i <= k THEN k - i ELSE k - i + LOG_HISTORY
Least2(a, b) == IF a < b THEN a ELSE b

\* A logger is at one of the steps.
Logging(pcs) == \E l \in Loggers : log_pc[l] \in pcs

\* The messages that log_head has passed, those between log_tail and log_head,
\* and those that the file has.
Passed == IF Logging({"write", "head"}) THEN logged - 1 ELSE logged
Depth == IF Logging({"tail"}) THEN Least2(Passed, LOG_HISTORY) ELSE Least2(Passed, LOG_HISTORY - 1)
Filed == IF Logging({"write", "head", "tail", "file"}) THEN logged - 1 ELSE logged

LogTypes ==
    /\ ring \in [0 .. LOG_HISTORY - 1 -> Messages]
    /\ log_head \in 0 .. LOG_HISTORY - 1 /\ log_tail \in 0 .. LOG_HISTORY - 1
    /\ need_refresh \in BOOLEAN /\ lock \in SUBSET Loggers /\ log_pc \in [Loggers -> LogPcs]
    /\ log_file \in BOOLEAN /\ page_pc \in {"idle", "read", "refreshed"}
    /\ curr_msg \in 0 .. LOG_HISTORY - 1 /\ lines \in Seq(Messages) /\ page \in Seq(Messages)
    /\ logged \in Nat /\ wanted \in Nat /\ met \in 0 .. MaxPerDraw

LockInv ==
    /\ \A l \in Loggers : log_pc[l] # "idle" => lock = {l}
    /\ lock # {} => logged > 0 /\ \E l \in Loggers : lock = {l} /\ log_pc[l] # "idle"

RingInv ==
    /\ log_tail = Back(log_head, Depth)
    /\ ring[Back(log_head, 1)].id = Passed
    /\ \A i \in 1 .. Least2(Passed, LOG_HISTORY - 1) : ring[Back(log_head, i)].id = Passed + 1 - i
    /\ Logging({"head"}) => ring[log_head].id = logged

FileInv == file = IF log_file THEN [k \in 1 .. Filed |-> k] ELSE <<>>

\* What a walk has read: the messages from the newest there was back.
ReadInv ==
    /\ \A k \in 1 .. Len(lines) : lines[k].id = wanted - k + 1
    /\ Len(lines) <= wanted /\ Len(lines) <= OutputLines(lines)
    /\ Len(lines) > 0 => OutputLines(SubSeq(lines, 1, Len(lines) - 1)) < MAX_PAGE_LINES

\* How far it is: log_head has moved on by no more than was logged since.
WalkInv ==
    page_pc = "read" =>
        /\ ReadInv
        /\ wanted <= Passed /\ Passed - wanted + (IF Logging({"write", "head"}) THEN 1 ELSE 0) <= met
        /\ Len(lines) <= MAX_PAGE_LINES /\ Passed - wanted + Len(lines) <= Depth
        /\ curr_msg = Back(log_head, Passed - wanted + Len(lines))

MetInv ==
    /\ page_pc # "idle" /\ met = 0 => lock = {} /\ wanted = logged
    /\ page_pc = "refreshed" => Shows(wanted) \/ (page = <<>> /\ met > 0)
    /\ page_pc = "idle" /\ ~need_refresh /\ met = 0 => Shows(Held)

LogInv == LogTypes /\ LockInv /\ RingInv /\ FileInv /\ WalkInv /\ MetInv

-----------------------------------------------------------------------------
LEMMA Wrap ==
  ASSUME NEW R \in Nat \ {0}, NEW x \in Nat
  PROVE  /\ x < R => x % R = x
         /\ R <= x /\ x < R + R => x % R = x - R
  OBVIOUS

LEMMA Around ==
  ASSUME NEW k \in 0 .. LOG_HISTORY - 1
  PROVE  /\ After(k) = IF k = LOG_HISTORY - 1 THEN 0 ELSE k + 1
         /\ Before(k) = Back(k, 1)
<1> DEFINE x == k + 1
           y == k + LOG_HISTORY - 1
<1>1. /\ LOG_HISTORY \in Nat \ {0} /\ LOG_HISTORY >= 2 /\ k \in Nat /\ k < LOG_HISTORY
      /\ x \in Nat /\ y \in Nat /\ x < LOG_HISTORY + LOG_HISTORY /\ y < LOG_HISTORY + LOG_HISTORY
  BY LogAssumption
<1> HIDE DEF x, y
<1>2. /\ x < LOG_HISTORY => x % LOG_HISTORY = x
      /\ LOG_HISTORY <= x => x % LOG_HISTORY = x - LOG_HISTORY
      /\ y < LOG_HISTORY => y % LOG_HISTORY = y
      /\ LOG_HISTORY <= y => y % LOG_HISTORY = y - LOG_HISTORY
  BY <1>1, Wrap
<1>3. After(k) = x % LOG_HISTORY /\ Before(k) = y % LOG_HISTORY
  BY DEF After, Before, x, y
<1>4. x = k + 1 /\ y = k + LOG_HISTORY - 1
  BY DEF x, y
<1> QED
  BY <1>1, <1>2, <1>3, <1>4 DEF Back

LEMMA BackSteps ==
  ASSUME NEW k \in 0 .. LOG_HISTORY - 1, NEW i \in 0 .. LOG_HISTORY
  PROVE  /\ Back(k, i) \in 0 .. LOG_HISTORY - 1
         /\ Back(k, 0) = k
         /\ After(k) \in 0 .. LOG_HISTORY - 1
         /\ i < LOG_HISTORY => Back(After(k), i + 1) = Back(k, i)
         /\ i < LOG_HISTORY => Before(Back(k, i)) = Back(k, i + 1)
         /\ Back(k, i) = k <=> (i = 0 \/ i = LOG_HISTORY)
         /\ After(k) = Back(k, LOG_HISTORY - 1)
         /\ \A j \in 0 .. LOG_HISTORY :
              Back(k, i) = Back(k, j) => i = j \/ (i = 0 /\ j = LOG_HISTORY) \/ (i = LOG_HISTORY /\ j = 0)
<1>1. LOG_HISTORY \in Nat /\ LOG_HISTORY >= 2
  BY LogAssumption
<1>2. /\ After(k) = IF k = LOG_HISTORY - 1 THEN 0 ELSE k + 1
      /\ Back(k, i) \in 0 .. LOG_HISTORY - 1
  BY <1>1, Around DEF Back
<1>3. Before(Back(k, i)) = Back(Back(k, i), 1)
  BY <1>2, Around
<1> QED
  BY <1>1, <1>2, <1>3 DEF Back

-----------------------------------------------------------------------------

Heights(s) == [k \in 1 .. Len(s) |-> s[k].lines]

LEMMA OutputIsSum ==
  ASSUME NEW s \in Seq(Messages)
  PROVE  /\ OutputLines(s) = SumFunctionOnSet(Heights(s), 1 .. Len(s))
         /\ Len(s) \in Nat /\ DOMAIN s = 1 .. Len(s) /\ IsFiniteSet(1 .. Len(s))
         /\ \A k \in 1 .. Len(s) : s[k] \in Messages /\ Heights(s)[k] \in Nat \ {0}
                                   /\ Heights(s)[k] = s[k].lines
         /\ OutputLines(s) \in Nat
<1>1. Len(s) \in Nat /\ DOMAIN s = 1 .. Len(s) /\ DOMAIN Heights(s) = 1 .. Len(s)
      /\ [k \in DOMAIN s |-> s[k].lines] = Heights(s)
  BY DEF Heights
<1>2. IsFiniteSet(1 .. Len(s))
  BY <1>1, FS_Interval
<1>3. OutputLines(s) = SumFunctionOnSet(Heights(s), 1 .. Len(s))
  BY <1>1 DEF OutputLines, SumFunction
<1>4. \A k \in 1 .. Len(s) : s[k] \in Messages /\ Heights(s)[k] \in Nat \ {0}
                             /\ Heights(s)[k] = s[k].lines
  <2> SUFFICES ASSUME NEW k \in 1 .. Len(s)
               PROVE  s[k] \in Messages /\ Heights(s)[k] \in Nat \ {0} /\ Heights(s)[k] = s[k].lines
    OBVIOUS
  <2>1. s[k] \in Messages /\ Heights(s)[k] = s[k].lines
    BY <1>1 DEF Heights
  <2> QED
    BY <2>1 DEF Messages
<1>5. SumFunctionOnSet(Heights(s), 1 .. Len(s)) \in Nat
  BY <1>2, <1>4, SumIsNat
<1> QED
  BY <1>1, <1>2, <1>3, <1>4, <1>5

LEMMA OutputOfNone == OutputLines(<<>>) = 0
<1>1. <<>> \in Seq(Messages) /\ 1 .. Len(<<>>) = {}
  OBVIOUS
<1> QED
  BY <1>1, OutputIsSum, SumEmpty

LEMMA OutputAppend ==
  ASSUME NEW s \in Seq(Messages), NEW m \in Messages
  PROVE  /\ OutputLines(Append(s, m)) = OutputLines(s) + m.lines
         /\ m.lines \in Nat \ {0}
         /\ SubSeq(Append(s, m), 1, Len(s)) = s
<1> DEFINE t == Append(s, m)
<1>0. PICK n \in Nat : n = Len(s)
  OBVIOUS
<1>1. t \in Seq(Messages) /\ Len(t) = n + 1 /\ t[n + 1] = m
      /\ \A k \in 1 .. n : t[k] = s[k]
  BY <1>0
<1>2. SubSeq(t, 1, n) = s
  BY <1>0
<1> HIDE DEF t
<1>h. /\ OutputLines(t) = SumFunctionOnSet(Heights(t), 1 .. n + 1)
      /\ \A k \in 1 .. n + 1 : Heights(t)[k] \in Nat \ {0} /\ Heights(t)[k] = t[k].lines
      /\ IsFiniteSet(1 .. n + 1)
  <2>1. Len(t) = n + 1
    BY <1>1
  <2> QED
    BY <1>1, <2>1, OutputIsSum
<1>s. /\ OutputLines(s) = SumFunctionOnSet(Heights(s), 1 .. n) /\ OutputLines(s) \in Nat
      /\ \A k \in 1 .. n : Heights(s)[k] = s[k].lines
      /\ IsFiniteSet(1 .. n)
  BY <1>0, OutputIsSum
<1>3. SumFunctionOnSet(Heights(t), 1 .. n + 1)
        = Heights(t)[n + 1] + SumFunctionOnSet(Heights(t), (1 .. n + 1) \ {n + 1})
  <2>1. IsFiniteSet(1 .. n + 1) /\ (\A k \in 1 .. n + 1 : Heights(t)[k] \in Int) /\ n + 1 \in 1 .. n + 1
    BY <1>h
  <2> QED
    BY <2>1, SumRemove
<1>4. (1 .. n + 1) \ {n + 1} = 1 .. n
  BY <1>1
<1>5. SumFunctionOnSet(Heights(t), 1 .. n) = SumFunctionOnSet(Heights(s), 1 .. n)
  <2>1. IsFiniteSet(1 .. n) /\ \A k \in 1 .. n : Heights(t)[k] = Heights(s)[k]
    BY <1>1, <1>h, <1>s
  <2> QED
    BY <2>1, SumSame
<1>6. Heights(t)[n + 1] = m.lines /\ m.lines \in Nat \ {0}
  BY <1>1, <1>h DEF Messages
<1>8. OutputLines(t) = OutputLines(s) + m.lines
  <2>1. OutputLines(t) = Heights(t)[n + 1] + SumFunctionOnSet(Heights(t), 1 .. n)
    BY <1>3, <1>4, <1>h, Zenon
  <2>2. OutputLines(t) = m.lines + OutputLines(s)
    BY <1>5, <1>6, <1>s, <2>1, Zenon
  <2> QED
    BY <1>6, <1>s, <2>2
<1> QED
  BY <1>0, <1>2, <1>6, <1>8 DEF t

LEMMA OutputReverse ==
  ASSUME NEW s \in Seq(Messages)
  PROVE  /\ Reverse(s) \in Seq(Messages) /\ Len(Reverse(s)) = Len(s)
         /\ OutputLines(Reverse(s)) = OutputLines(s)
         /\ s # <<>> => Tail(Reverse(s)) = Reverse(SubSeq(s, 1, Len(s) - 1))
<1>0. PICK n \in Nat : n = Len(s)
  OBVIOUS
<1> DEFINE t == Reverse(s)
           h == [k \in 1 .. n |-> n - k + 1]
<1>1. t = [k \in 1 .. n |-> s[(n - k) + 1]]
  BY <1>0 DEF Reverse
<1>2. \A k \in 1 .. n : (n - k) + 1 \in 1 .. n /\ s[(n - k) + 1] \in Messages
  BY <1>0
<1>3. t \in Seq(Messages) /\ Len(t) = n /\ \A k \in 1 .. n : t[k] = s[(n - k) + 1]
  <2>1. t \in [1 .. n -> Messages]
    BY <1>1, <1>2
  <2>2. \A k \in 1 .. n : t[k] = s[(n - k) + 1]
    BY <1>1
  <2> HIDE DEF t
  <2>3. t \in Seq(Messages) /\ Len(t) = n
    BY <2>1
  <2> QED
    BY <2>2, <2>3
<1> HIDE DEF t
<1>4. OutputLines(t) = OutputLines(s)
  <2>1. /\ OutputLines(t) = SumFunctionOnSet(Heights(t), 1 .. n)
        /\ OutputLines(s) = SumFunctionOnSet(Heights(s), 1 .. n)
        /\ IsFiniteSet(1 .. n)
        /\ \A k \in 1 .. n : Heights(t)[k] \in Int /\ Heights(s)[k] \in Int
    BY <1>0, <1>3, OutputIsSum
  <2>2. h \in [1 .. n -> 1 .. n] /\ \A x, y \in 1 .. n : h[x] = h[y] => x = y
    OBVIOUS
  <2>3. \A k \in 1 .. n : Heights(s)[h[k]] = Heights(t)[k]
    <3> SUFFICES ASSUME NEW k \in 1 .. n PROVE Heights(s)[h[k]] = Heights(t)[k]
      OBVIOUS
    <3>1. h[k] = (n - k) + 1 /\ h[k] \in 1 .. n /\ t[k] = s[(n - k) + 1]
      BY <1>3
    <3>2. Heights(t)[k] = t[k].lines
      BY <1>3, OutputIsSum
    <3>3. Heights(s)[h[k]] = s[h[k]].lines
      BY <1>0, <3>1, OutputIsSum
    <3> QED
      BY <3>1, <3>2, <3>3
  <2>4. ASSUME NEW y \in 1 .. n PROVE \E x \in 1 .. n : h[x] = y
    <3>1. n - y + 1 \in 1 .. n /\ h[n - y + 1] = y
      BY <2>4
    <3> QED
      BY <3>1
  <2> DEFINE f == Heights(t)
             g == Heights(s)
             S == 1 .. n
  <2>5. /\ IsFiniteSet(S) /\ (\A k \in S : f[k] \in Int) /\ (\A k \in S : g[k] \in Int)
        /\ h \in [S -> S] /\ (\A x \in S : g[h[x]] = f[x])
        /\ (\A x, y \in S : h[x] = h[y] => x = y)
        /\ (\A y \in S : \E x \in S : h[x] = y)
    BY <2>1, <2>2, <2>3, <2>4
  <2> HIDE DEF h, f, g, S
  <2>6. SumFunctionOnSet(f, S) = SumFunctionOnSet(g, S)
    BY <2>5, SumRenamed
  <2> QED
    BY <2>1, <2>6 DEF f, g, S
<1>5. ASSUME s # <<>> PROVE Tail(t) = Reverse(SubSeq(s, 1, n - 1))
  <2> DEFINE u == SubSeq(s, 1, n - 1)
  <2>1. n \in Nat \ {0}
    BY <1>0, <1>5
  <2>2. u \in Seq(Messages) /\ Len(u) = n - 1 /\ \A k \in 1 .. n - 1 : u[k] = s[k]
    BY <1>0, <2>1
  <2> HIDE DEF u
  <2>3. Reverse(u) = [k \in 1 .. n - 1 |-> u[(n - 1 - k) + 1]]
    BY <2>2 DEF Reverse
  <2>4. Tail(t) = [k \in 1 .. n - 1 |-> t[k + 1]]
    <3>1. Tail(t) \in Seq(Messages) /\ Len(Tail(t)) = n - 1 /\ \A k \in 1 .. n - 1 : Tail(t)[k] = t[k + 1]
      BY <1>3, <2>1
    <3>2. Tail(t) \in [1 .. n - 1 -> Messages]
      BY <3>1, LenProperties
    <3> QED
      BY <3>1, <3>2
  <2>5. \A k \in 1 .. n - 1 : t[k + 1] = u[(n - 1 - k) + 1]
    <3> SUFFICES ASSUME NEW k \in 1 .. n - 1 PROVE t[k + 1] = u[(n - 1 - k) + 1]
      OBVIOUS
    <3>1. k + 1 \in 1 .. n /\ (n - (k + 1)) + 1 = (n - 1 - k) + 1 /\ (n - 1 - k) + 1 \in 1 .. n - 1
      BY <2>1
    <3>2. t[k + 1] = s[(n - (k + 1)) + 1]
      BY <1>3, <3>1
    <3> QED
      BY <2>2, <3>1, <3>2
  <2> QED
    BY <2>3, <2>4, <2>5 DEF u
<1> QED
  BY <1>0, <1>3, <1>4, <1>5 DEF t

-----------------------------------------------------------------------------
\* The lock is free: nobody logs.
LEMMA NobodyLogs ==
  ASSUME LogTypes, LockInv, lock = {}
  PROVE  /\ \A l \in Loggers : log_pc[l] = "idle"
         /\ ~Logging({"write", "head"}) /\ ~Logging({"tail"}) /\ ~Logging({"head"})
         /\ ~Logging({"write", "head", "tail", "file"})
         /\ Passed = logged /\ Filed = logged /\ Depth = Least2(logged, LOG_HISTORY - 1)
<1>1. \A l \in Loggers : log_pc[l] = "idle"
  BY DEF LockInv
<1>2. /\ ~Logging({"write", "head"}) /\ ~Logging({"tail"}) /\ ~Logging({"head"})
      /\ ~Logging({"write", "head", "tail", "file"})
  BY <1>1 DEF Logging
<1> QED
  BY <1>1, <1>2 DEF Passed, Filed, Depth

\* Who logs has the lock.
LEMMA OneLogs ==
  ASSUME LogTypes, LockInv, NEW l \in Loggers, log_pc[l] # "idle"
  PROVE  /\ lock = {l} /\ logged \in Nat \ {0} /\ \A m \in Loggers : m # l => log_pc[m] = "idle"
         /\ Logging({"write", "head"}) <=> log_pc[l] \in {"write", "head"}
         /\ Logging({"tail"}) <=> log_pc[l] = "tail"
         /\ Logging({"head"}) <=> log_pc[l] = "head"
         /\ Logging({"write", "head", "tail", "file"}) <=> log_pc[l] \in {"write", "head", "tail", "file"}
<1>1. lock = {l} /\ logged \in Nat \ {0} /\ \A m \in Loggers : m # l => log_pc[m] = "idle"
  <2>1. lock = {l}
    BY DEF LockInv
  <2>2. logged > 0 /\ logged \in Nat
    BY <2>1 DEF LockInv, LogTypes
  <2>3. ASSUME NEW m \in Loggers, m # l PROVE log_pc[m] = "idle"
    BY <2>1, <2>3 DEF LockInv
  <2> QED
    BY <2>1, <2>2, <2>3
<1> QED
  BY <1>1 DEF Logging

\* A logger goes to its next step.
LEMMA GoesOn ==
  ASSUME LogTypes, NEW l \in Loggers, \A m \in Loggers : m # l => log_pc[m] = "idle",
         NEW pc \in LogPcs, LogGoto(l, pc)
  PROVE  /\ log_pc' \in [Loggers -> LogPcs] /\ log_pc'[l] = pc
         /\ \A m \in Loggers : m # l => log_pc'[m] = "idle"
         /\ Logging({"write", "head"})' <=> pc \in {"write", "head"}
         /\ Logging({"tail"})' <=> pc = "tail"
         /\ Logging({"head"})' <=> pc = "head"
         /\ Logging({"write", "head", "tail", "file"})' <=> pc \in {"write", "head", "tail", "file"}
<1>1. /\ log_pc' \in [Loggers -> LogPcs] /\ log_pc'[l] = pc
      /\ \A m \in Loggers : m # l => log_pc'[m] = "idle"
  BY DEF LogTypes, LogGoto
<1> QED
  BY <1>1 DEF Logging

\* The walk and the page are not touched by a logger.
LEMMA ReaderStays ==
  ASSUME UNCHANGED reader
  PROVE  /\ UNCHANGED <<page_pc, curr_msg, lines, page, wanted>>
         /\ ReadInv' <=> ReadInv
         /\ \A n : Shows(n)' <=> Shows(n)
<1>1. UNCHANGED <<page_pc, curr_msg, lines, page, wanted>>
  BY DEF reader
<1> QED
  BY <1>1 DEF ReadInv, Shows

LEMMA OpenSlotKeeps ==
  ASSUME LogInv, NEW l \in Loggers, OpenSlot(l)
  PROVE  LogInv'
<1> USE DEF LogInv
<1>1. /\ log_pc[l] = "idle" /\ lock = {} /\ lock' = {l} /\ logged' = logged + 1
      /\ page_pc # "idle" => met < MaxPerDraw
      /\ met' = (IF page_pc = "idle" THEN met ELSE met + 1)
      /\ ring' = [ring EXCEPT ![log_head] = Torn] /\ LogGoto(l, "write")
      /\ UNCHANGED <<log_head, log_tail, need_refresh, log_file, file, reader>>
  BY DEF OpenSlot, LogAt
<1>2. /\ \A m \in Loggers : m # l => log_pc[m] = "idle"
      /\ ~Logging({"write", "head"}) /\ ~Logging({"tail"}) /\ ~Logging({"head"})
      /\ ~Logging({"write", "head", "tail", "file"})
      /\ Passed = logged /\ Filed = logged /\ Depth = Least2(logged, LOG_HISTORY - 1)
  BY <1>1, NobodyLogs
<1>3. /\ log_pc' \in [Loggers -> LogPcs] /\ log_pc'[l] = "write"
      /\ \A m \in Loggers : m # l => log_pc'[m] = "idle"
      /\ Logging({"write", "head"})' /\ ~Logging({"tail"})' /\ ~Logging({"head"})'
      /\ Logging({"write", "head", "tail", "file"})'
  BY <1>1, <1>2, GoesOn DEF LogPcs
<1>4. logged \in Nat /\ Passed' = Passed /\ Filed' = Filed /\ Depth' = Depth
  BY <1>1, <1>2, <1>3 DEF Passed, Filed, Depth, LogTypes
<1>5. LogTypes'
  <2>1. Torn \in Messages
    BY DEF Torn, Messages
  <2>2. ring' \in [0 .. LOG_HISTORY - 1 -> Messages]
    BY <1>1, <2>1 DEF LogTypes
  <2>3. met' \in 0 .. MaxPerDraw
    BY <1>1, LogAssumption DEF LogTypes
  <2> QED
    BY <1>1, <1>3, <2>2, <2>3 DEF LogTypes, reader
<1>6. LockInv'
  BY <1>1, <1>3, <1>4 DEF LockInv
<1>7. RingInv'
  <2>1. \A i \in 1 .. LOG_HISTORY - 1 : ring'[Back(log_head, i)] = ring[Back(log_head, i)]
    <3> SUFFICES ASSUME NEW i \in 1 .. LOG_HISTORY - 1
                 PROVE  ring'[Back(log_head, i)] = ring[Back(log_head, i)]
      OBVIOUS
    <3>1. Back(log_head, i) # log_head /\ Back(log_head, i) \in 0 .. LOG_HISTORY - 1
      <4>1. i \in 0 .. LOG_HISTORY /\ i # 0 /\ i # LOG_HISTORY /\ log_head \in 0 .. LOG_HISTORY - 1
        BY LogAssumption DEF LogTypes
      <4> QED
        BY <4>1, BackSteps
    <3> QED
      BY <1>1, <3>1 DEF LogTypes
  <2>2. 1 \in 1 .. LOG_HISTORY - 1
        /\ \A i \in 1 .. Least2(Passed, LOG_HISTORY - 1) : i \in 1 .. LOG_HISTORY - 1
    BY <1>2, <1>4, LogAssumption DEF Least2
  <2> QED
    BY <1>1, <1>3, <1>4, <2>1, <2>2 DEF RingInv
<1>8. FileInv'
  BY <1>1, <1>4 DEF FileInv
<1>9. WalkInv'
  <2>1. UNCHANGED <<page_pc, curr_msg, lines, wanted>> /\ (ReadInv' <=> ReadInv)
    BY <1>1, ReaderStays
  <2>2. page_pc = "read" => met' = met + 1 /\ met \in Nat /\ wanted \in Nat
    BY <1>1 DEF LogTypes
  <2> QED
    BY <1>1, <1>2, <1>3, <1>4, <2>1, <2>2 DEF WalkInv
<1>10. MetInv'
  <2>1. UNCHANGED <<page_pc, page, wanted>> /\ \A n : Shows(n)' <=> Shows(n)
    BY <1>1, ReaderStays
  <2>2. met \in Nat
    BY DEF LogTypes
  <2>3. page_pc # "idle" => met' > 0
    BY <1>1, <2>2
  <2>4. Held' = Held
    BY <1>1, <1>4 DEF Held
  <2>5. page_pc = "idle" /\ ~need_refresh' /\ met' = 0 => Shows(Held)'
    BY <1>1, <2>1, <2>4 DEF MetInv, Shows
  <2>6. page_pc = "refreshed" => Shows(wanted)' \/ (page = <<>> /\ met' > 0)
    BY <2>1, <2>3 DEF MetInv, Shows
  <2> QED
    BY <2>1, <2>3, <2>5, <2>6 DEF MetInv
<1> QED
  BY <1>5, <1>6, <1>7, <1>8, <1>9, <1>10

\* The steps that change neither positions nor what is asked of the page.
LEMMA QuietLogStep ==
  ASSUME LogInv, NEW l \in Loggers, log_pc[l] \in LogPcs \ {"idle"},
         NEW pc \in LogPcs \ {"idle"}, LogGoto(l, pc),
         UNCHANGED <<need_refresh, lock, log_file, logged, met, reader>>,
         ring' \in [0 .. LOG_HISTORY - 1 -> Messages],
         log_head' \in 0 .. LOG_HISTORY - 1, log_tail' \in 0 .. LOG_HISTORY - 1
  PROVE  LogTypes' /\ LockInv' /\ MetInv'
<1> USE DEF LogInv
<1>1. log_pc[l] # "idle" /\ pc # "idle" /\ pc \in LogPcs
  OBVIOUS
<1>2. lock = {l} /\ \A m \in Loggers : m # l => log_pc[m] = "idle"
  BY <1>1, OneLogs
<1>3. log_pc' \in [Loggers -> LogPcs] /\ log_pc'[l] = pc
      /\ \A m \in Loggers : m # l => log_pc'[m] = "idle"
  BY <1>1, <1>2, GoesOn
<1>4. LogTypes'
  BY <1>3 DEF LogTypes, reader
<1>5. LockInv'
  BY <1>1, <1>2, <1>3 DEF LockInv
<1>6. MetInv'
  <2>1. UNCHANGED <<page_pc, page, wanted>> /\ (\A n : Shows(n)' <=> Shows(n))
    BY ReaderStays
  <2>2. Held' = Held
    BY DEF Held
  <2> QED
    BY <2>1, <2>2 DEF MetInv, Shows
<1> QED
  BY <1>4, <1>5, <1>6

LEMMA WriteSlotKeeps ==
  ASSUME LogInv, NEW l \in Loggers, WriteSlot(l)
  PROVE  LogInv'
<1> USE DEF LogInv
<1>1. PICK n \in MessageLines : ring' = [ring EXCEPT ![log_head] = [id |-> logged, lines |-> n]]
  BY Zenon DEF WriteSlot
<1>2. /\ log_pc[l] = "write" /\ LogGoto(l, "head")
      /\ UNCHANGED <<log_head, log_tail, need_refresh, lock, log_file, file, logged, met, reader>>
  BY DEF WriteSlot, LogAt
<1>3. /\ Logging({"write", "head"}) /\ ~Logging({"tail"}) /\ Logging({"write", "head", "tail", "file"})
      /\ logged \in Nat \ {0} /\ \A m \in Loggers : m # l => log_pc[m] = "idle"
  BY <1>2, OneLogs
<1>4. /\ Logging({"write", "head"})' /\ ~Logging({"tail"})' /\ Logging({"write", "head", "tail", "file"})'
  BY <1>2, <1>3, GoesOn DEF LogPcs
<1>5. /\ Passed = logged - 1 /\ Passed' = Passed /\ Filed' = Filed /\ Depth' = Depth
      /\ Depth = Least2(Passed, LOG_HISTORY - 1)
  BY <1>2, <1>3, <1>4 DEF Passed, Filed, Depth
<1>6. ring' \in [0 .. LOG_HISTORY - 1 -> Messages] /\ log_head \in 0 .. LOG_HISTORY - 1
      /\ log_tail \in 0 .. LOG_HISTORY - 1
  <2>1. [id |-> logged, lines |-> n] \in Messages
    BY <1>3, LogAssumption DEF Messages
  <2> QED
    BY <1>1, <2>1 DEF LogTypes
<1>7. LogTypes' /\ LockInv' /\ MetInv'
  BY <1>2, <1>6, QuietLogStep DEF LogPcs
<1>8. RingInv'
  <2>1. \A i \in 1 .. LOG_HISTORY - 1 : ring'[Back(log_head, i)] = ring[Back(log_head, i)]
    <3> SUFFICES ASSUME NEW i \in 1 .. LOG_HISTORY - 1
                 PROVE  ring'[Back(log_head, i)] = ring[Back(log_head, i)]
      OBVIOUS
    <3>1. i \in 0 .. LOG_HISTORY /\ i # 0 /\ i # LOG_HISTORY
      BY LogAssumption
    <3>2. Back(log_head, i) # log_head /\ Back(log_head, i) \in 0 .. LOG_HISTORY - 1
      BY <1>6, <3>1, BackSteps
    <3> QED
      BY <1>1, <3>2 DEF LogTypes
  <2>2. 1 \in 1 .. LOG_HISTORY - 1
        /\ \A i \in 1 .. Least2(Passed, LOG_HISTORY - 1) : i \in 1 .. LOG_HISTORY - 1
    BY <1>3, <1>5, LogAssumption DEF Least2
  <2>3. ring'[log_head].id = logged
    BY <1>1, <1>6 DEF LogTypes
  <2> QED
    BY <1>2, <1>5, <2>1, <2>2, <2>3 DEF RingInv
<1>9. FileInv'
  BY <1>2, <1>5 DEF FileInv
<1>10. WalkInv'
  <2>1. UNCHANGED <<page_pc, curr_msg, lines, wanted>> /\ (ReadInv' <=> ReadInv)
    BY <1>2, ReaderStays
  <2> QED
    BY <1>2, <1>3, <1>4, <1>5, <2>1 DEF WalkInv
<1> QED
  BY <1>7, <1>8, <1>9, <1>10

LEMMA LogHeadKeeps ==
  ASSUME LogInv, NEW l \in Loggers, LogHead(l)
  PROVE  LogInv'
<1> USE DEF LogInv
<1>1. /\ log_pc[l] = "head" /\ LogGoto(l, "tail") /\ log_head' = After(log_head)
      /\ UNCHANGED <<ring, log_tail, need_refresh, lock, log_file, file, logged, met, reader>>
  BY DEF LogHead, LogAt
<1>2. /\ Logging({"write", "head"}) /\ ~Logging({"tail"}) /\ Logging({"write", "head", "tail", "file"})
      /\ Logging({"head"})
      /\ logged \in Nat \ {0} /\ \A m \in Loggers : m # l => log_pc[m] = "idle"
  BY <1>1, OneLogs
<1>3. /\ ~Logging({"write", "head"})' /\ Logging({"tail"})' /\ Logging({"write", "head", "tail", "file"})'
      /\ ~Logging({"head"})'
  BY <1>1, <1>2, GoesOn DEF LogPcs
<1>4. /\ Passed = logged - 1 /\ Passed' = Passed + 1 /\ Filed' = Filed /\ Passed \in Nat
      /\ Depth = Least2(Passed, LOG_HISTORY - 1) /\ Depth' = Least2(Passed + 1, LOG_HISTORY)
  BY <1>1, <1>2, <1>3 DEF Passed, Filed, Depth
<1>5. Depth' = Depth + 1 /\ Depth \in 0 .. LOG_HISTORY - 1 /\ LOG_HISTORY \in Nat /\ LOG_HISTORY >= 2
  BY <1>4, LogAssumption DEF Least2
<1>6. /\ log_head \in 0 .. LOG_HISTORY - 1 /\ log_head' \in 0 .. LOG_HISTORY - 1
      /\ \A i \in 0 .. LOG_HISTORY - 1 : Back(log_head', i + 1) = Back(log_head, i)
      /\ Back(log_head, 0) = log_head
  <2>1. log_head \in 0 .. LOG_HISTORY - 1
    BY DEF LogTypes
  <2>2. \A i \in 0 .. LOG_HISTORY - 1 : i \in 0 .. LOG_HISTORY /\ i < LOG_HISTORY
    BY <1>5
  <2>3. 0 \in 0 .. LOG_HISTORY
    BY <1>5
  <2> QED
    BY <1>1, <2>1, <2>2, <2>3, BackSteps
<1>7. LogTypes' /\ LockInv' /\ MetInv'
  <2>1. ring' \in [0 .. LOG_HISTORY - 1 -> Messages] /\ log_tail' \in 0 .. LOG_HISTORY - 1
    BY <1>1 DEF LogTypes
  <2> QED
    BY <1>1, <1>6, <2>1, QuietLogStep DEF LogPcs
<1>8. RingInv'
  <2>1. log_tail' = Back(log_head', Depth')
    BY <1>1, <1>5, <1>6 DEF RingInv
  <2>2. Back(log_head', 1) = log_head /\ ring[log_head].id = logged
    <3>1. 0 \in 0 .. LOG_HISTORY - 1
      BY <1>5
    <3>2. Back(log_head', 0 + 1) = log_head
      BY <1>6, <3>1
    <3> QED
      BY <1>2, <3>2 DEF RingInv
  <2>3. ASSUME NEW i \in 1 .. Least2(Passed + 1, LOG_HISTORY - 1)
        PROVE  ring[Back(log_head', i)].id = Passed + 1 + 1 - i
    <3>1. CASE i = 1
      <4>1. Back(log_head', i) = log_head /\ Passed + 1 + 1 - i = logged
        BY <1>2, <1>4, <2>2, <3>1
      <4> QED
        BY <2>2, <4>1
    <3>2. CASE i # 1
      <4>1. i - 1 \in 0 .. LOG_HISTORY - 1 /\ i - 1 \in 1 .. Least2(Passed, LOG_HISTORY - 1)
        BY <1>4, <1>5, <2>3, <3>2 DEF Least2
      <4>2. Back(log_head', (i - 1) + 1) = Back(log_head, i - 1)
        BY <1>6, <4>1
      <4>3. ring[Back(log_head, i - 1)].id = Passed + 1 - (i - 1)
        BY <4>1 DEF RingInv
      <4> QED
        BY <1>4, <4>1, <4>2, <4>3
    <3> QED
      BY <3>1, <3>2
  <2>4. ring'[Back(log_head', 1)].id = Passed'
    BY <1>1, <1>2, <1>4, <2>2
  <2>5. \A i \in 1 .. Least2(Passed', LOG_HISTORY - 1) : ring'[Back(log_head', i)].id = Passed' + 1 - i
    BY <1>1, <1>4, <2>3
  <2> QED
    BY <1>3, <2>1, <2>4, <2>5 DEF RingInv
<1>9. FileInv'
  BY <1>1, <1>4 DEF FileInv
<1>10. WalkInv'
  <2>1. UNCHANGED <<page_pc, curr_msg, lines, wanted>> /\ (ReadInv' <=> ReadInv)
    BY <1>1, ReaderStays
  <2> SUFFICES ASSUME page_pc = "read" PROVE WalkInv'
    BY <2>1 DEF WalkInv
  <2>2. /\ ReadInv /\ wanted <= Passed /\ Passed - wanted + 1 <= met /\ Len(lines) <= MAX_PAGE_LINES
        /\ Passed - wanted + Len(lines) <= Depth /\ wanted \in Nat /\ Len(lines) \in Nat
        /\ curr_msg = Back(log_head, Passed - wanted + Len(lines))
    BY <1>2 DEF WalkInv, LogTypes
  <2>3. PICK x \in Nat : x = Passed - wanted + Len(lines)
    <3>1. Passed - wanted \in Nat
      BY <1>4, <2>2
    <3> QED
      BY <2>2, <3>1
  <2>4. curr_msg = Back(log_head', x + 1)
    <3>1. x \in 0 .. LOG_HISTORY - 1
      BY <1>5, <2>2, <2>3
    <3> QED
      BY <1>6, <2>2, <2>3, <3>1
  <2>5. x + 1 = Passed' - wanted + Len(lines)
    <3>1. x + 1 = (Passed + 1) - wanted + Len(lines)
      BY <1>4, <2>2, <2>3
    <3> QED
      BY <1>4, <3>1
  <2>7. x + 1 <= Depth'
    <3>1. x + 1 <= Depth + 1
      BY <1>5, <2>2, <2>3
    <3> QED
      BY <1>5, <3>1
  <2>6. wanted <= Passed' /\ Passed' - wanted <= met
    BY <1>4, <2>2
  <2>8. Passed' - wanted' + (IF Logging({"write", "head"})' THEN 1 ELSE 0) <= met'
    <3>1. Passed' - wanted + 0 <= met
      BY <1>4, <2>2
    <3> QED
      BY <1>1, <1>3, <2>1, <3>1
  <2>9. ReadInv' /\ wanted' <= Passed' /\ Len(lines') <= MAX_PAGE_LINES
        /\ Passed' - wanted' + Len(lines') <= Depth'
        /\ curr_msg' = Back(log_head', Passed' - wanted' + Len(lines'))
    BY <2>1, <2>2, <2>4, <2>5, <2>6, <2>7
  <2> QED
    BY <2>8, <2>9 DEF WalkInv
<1> QED
  BY <1>7, <1>8, <1>9, <1>10

\* The bound on what is logged during a drawing keeps the walk within the ring.
LEMMA WalkIsShort ==
  ASSUME LogInv, page_pc = "read"
  PROVE  /\ Passed - wanted \in Nat /\ Len(lines) \in Nat /\ wanted \in Nat /\ Passed \in Nat
         /\ Passed - wanted <= MaxPerDraw /\ Len(lines) <= MAX_PAGE_LINES
         /\ Passed - wanted + Len(lines) <= LOG_HISTORY - 1
         /\ Passed - wanted + Len(lines) <= Depth
         /\ curr_msg = Back(log_head, Passed - wanted + Len(lines))
         /\ wanted <= Passed /\ ReadInv
<1> USE DEF LogInv
<1>1. met \in 0 .. MaxPerDraw /\ wanted \in Nat /\ Len(lines) \in Nat /\ logged \in Nat
  BY DEF LogTypes
<1>2. Passed \in Int
  BY <1>1 DEF Passed
<1>3. /\ ReadInv /\ wanted <= Passed /\ Passed - wanted <= met /\ Len(lines) <= MAX_PAGE_LINES
      /\ Passed - wanted + Len(lines) <= Depth
      /\ curr_msg = Back(log_head, Passed - wanted + Len(lines))
  <2>1. Passed - wanted + (IF Logging({"write", "head"}) THEN 1 ELSE 0) <= met
    BY DEF WalkInv
  <2>2. Passed - wanted <= met
    BY <1>1, <1>2, <2>1
  <2> QED
    BY <2>2 DEF WalkInv
<1>4. Passed \in Nat /\ Passed - wanted \in Nat /\ Passed - wanted <= MaxPerDraw
  BY <1>1, <1>2, <1>3, LogAssumption
<1>5. Passed - wanted + Len(lines) <= LOG_HISTORY - 1
  BY <1>1, <1>3, <1>4, LogAssumption
<1> QED
  BY <1>1, <1>3, <1>4, <1>5

LEMMA LogTailKeeps ==
  ASSUME LogInv, NEW l \in Loggers, LogTail(l)
  PROVE  LogInv'
<1> USE DEF LogInv
<1>1. /\ log_pc[l] = "tail" /\ LogGoto(l, "file")
      /\ log_tail' = IF log_head = log_tail THEN After(log_tail) ELSE log_tail
      /\ UNCHANGED <<ring, log_head, need_refresh, lock, log_file, file, logged, met, reader>>
  BY DEF LogTail, LogAt
<1>2. /\ ~Logging({"write", "head"}) /\ Logging({"tail"}) /\ Logging({"write", "head", "tail", "file"})
      /\ logged \in Nat \ {0} /\ \A m \in Loggers : m # l => log_pc[m] = "idle"
  BY <1>1, OneLogs
<1>3. /\ ~Logging({"write", "head"})' /\ ~Logging({"tail"})' /\ Logging({"write", "head", "tail", "file"})'
      /\ ~Logging({"head"})'
  BY <1>1, <1>2, GoesOn DEF LogPcs
<1>4. /\ Passed = logged /\ Passed' = Passed /\ Filed' = Filed
      /\ Depth = Least2(Passed, LOG_HISTORY) /\ Depth' = Least2(Passed, LOG_HISTORY - 1)
  BY <1>1, <1>2, <1>3 DEF Passed, Filed, Depth
<1>5. /\ LOG_HISTORY \in Nat /\ LOG_HISTORY >= 2 /\ Depth \in 1 .. LOG_HISTORY
      /\ Depth' = IF Depth = LOG_HISTORY THEN LOG_HISTORY - 1 ELSE Depth
  BY <1>2, <1>4, LogAssumption DEF Least2
<1>6. log_head \in 0 .. LOG_HISTORY - 1 /\ log_tail \in 0 .. LOG_HISTORY - 1
  BY DEF LogTypes
<1>7. log_tail' = Back(log_head, Depth') /\ log_tail' \in 0 .. LOG_HISTORY - 1
  <2>1. log_tail = Back(log_head, Depth)
    BY DEF RingInv
  <2>2. Depth \in 0 .. LOG_HISTORY /\ Depth # 0
    BY <1>5
  <2>3. log_head = log_tail <=> Depth = LOG_HISTORY
    BY <1>6, <2>1, <2>2, BackSteps
  <2>4. After(log_head) = Back(log_head, LOG_HISTORY - 1) /\ After(log_head) \in 0 .. LOG_HISTORY - 1
    BY <1>6, <2>2, BackSteps
  <2>5. CASE Depth = LOG_HISTORY
    BY <1>1, <1>5, <2>3, <2>4, <2>5
  <2>6. CASE Depth # LOG_HISTORY
    BY <1>1, <1>5, <1>6, <2>1, <2>3, <2>6
  <2> QED
    BY <2>5, <2>6
<1>8. LogTypes' /\ LockInv' /\ MetInv'
  <2>1. ring' \in [0 .. LOG_HISTORY - 1 -> Messages]
    BY <1>1 DEF LogTypes
  <2> QED
    BY <1>1, <1>6, <1>7, <2>1, QuietLogStep DEF LogPcs
<1>9. RingInv'
  BY <1>1, <1>3, <1>4, <1>7 DEF RingInv
<1>10. FileInv'
  BY <1>1, <1>4 DEF FileInv
<1>11. WalkInv'
  <2>1. UNCHANGED <<page_pc, curr_msg, lines, wanted>> /\ (ReadInv' <=> ReadInv)
    BY <1>1, ReaderStays
  <2> SUFFICES ASSUME page_pc = "read" PROVE WalkInv'
    BY <2>1 DEF WalkInv
  <2>2. Passed - wanted + Len(lines) <= Depth'
    BY <1>5, WalkIsShort
  <2> QED
    BY <1>1, <1>2, <1>3, <1>4, <2>1, <2>2 DEF WalkInv
<1> QED
  BY <1>8, <1>9, <1>10, <1>11

LEMMA LogToFileKeeps ==
  ASSUME LogInv, NEW l \in Loggers, LogToFile(l)
  PROVE  LogInv'
<1> USE DEF LogInv
<1>1. /\ log_pc[l] = "file" /\ LogGoto(l, "refresh")
      /\ file' = IF log_file THEN Append(file, ring[Before(log_head)].id) ELSE file
      /\ UNCHANGED <<ring, log_head, log_tail, need_refresh, lock, log_file, logged, met, reader>>
  BY DEF LogToFile, LogAt
<1>2. /\ ~Logging({"write", "head"}) /\ ~Logging({"tail"}) /\ Logging({"write", "head", "tail", "file"})
      /\ logged \in Nat \ {0} /\ \A m \in Loggers : m # l => log_pc[m] = "idle"
  BY <1>1, OneLogs
<1>3. /\ ~Logging({"write", "head"})' /\ ~Logging({"tail"})' /\ ~Logging({"head"})'
      /\ ~Logging({"write", "head", "tail", "file"})'
  BY <1>1, <1>2, GoesOn DEF LogPcs
<1>4. /\ Passed = logged /\ Passed' = Passed /\ Filed = logged - 1 /\ Filed' = logged /\ Depth' = Depth
  BY <1>1, <1>2, <1>3 DEF Passed, Filed, Depth
<1>5. LogTypes' /\ LockInv' /\ MetInv'
  <2>1. /\ ring' \in [0 .. LOG_HISTORY - 1 -> Messages]
        /\ log_head' \in 0 .. LOG_HISTORY - 1 /\ log_tail' \in 0 .. LOG_HISTORY - 1
    BY <1>1 DEF LogTypes
  <2> QED
    BY <1>1, <2>1, QuietLogStep DEF LogPcs
<1>6. RingInv'
  BY <1>1, <1>3, <1>4 DEF RingInv
<1>7. FileInv'
  <2>1. ring[Before(log_head)].id = logged
    <3>1. Before(log_head) = Back(log_head, 1)
      BY Around DEF LogTypes
    <3> QED
      BY <1>4, <3>1 DEF RingInv
  <2>2. ASSUME NEW n \in Nat PROVE Append([k \in 1 .. n |-> k], n + 1) = [k \in 1 .. n + 1 |-> k]
    OBVIOUS
  <2>3. log_file => file' = [k \in 1 .. logged |-> k]
    <3>1. PICK n \in Nat : n = logged - 1
      BY <1>2
    <3>2. logged = n + 1
      BY <1>2, <3>1
    <3>3. log_file => file = [k \in 1 .. n |-> k]
      BY <1>4, <3>1 DEF FileInv
    <3> QED
      BY <1>1, <2>1, <2>2, <3>2, <3>3
  <2>4. ~log_file => file' = <<>>
    BY <1>1 DEF FileInv
  <2> QED
    BY <1>1, <1>4, <2>3, <2>4 DEF FileInv
<1>8. WalkInv'
  <2>1. UNCHANGED <<page_pc, curr_msg, lines, wanted>> /\ (ReadInv' <=> ReadInv)
    BY <1>1, ReaderStays
  <2> QED
    BY <1>1, <1>2, <1>3, <1>4, <2>1 DEF WalkInv
<1> QED
  BY <1>5, <1>6, <1>7, <1>8

LEMMA AskForRefreshKeeps ==
  ASSUME LogInv, NEW l \in Loggers, AskForRefresh(l)
  PROVE  LogInv'
<1> USE DEF LogInv
<1>1. /\ log_pc[l] = "refresh" /\ LogGoto(l, "idle") /\ need_refresh' = TRUE /\ lock' = {}
      /\ UNCHANGED <<ring, log_head, log_tail, log_file, file, logged, met, reader>>
  BY DEF AskForRefresh, LogAt
<1>2. /\ ~Logging({"write", "head"}) /\ ~Logging({"tail"}) /\ ~Logging({"write", "head", "tail", "file"})
      /\ lock = {l} /\ \A m \in Loggers : m # l => log_pc[m] = "idle"
  BY <1>1, OneLogs
<1>3. /\ ~Logging({"write", "head"})' /\ ~Logging({"tail"})' /\ ~Logging({"head"})'
      /\ ~Logging({"write", "head", "tail", "file"})'
      /\ log_pc' \in [Loggers -> LogPcs] /\ log_pc'[l] = "idle"
      /\ \A m \in Loggers : m # l => log_pc'[m] = "idle"
  BY <1>1, <1>2, GoesOn DEF LogPcs
<1>4. Passed' = Passed /\ Filed' = Filed /\ Depth' = Depth
  BY <1>1, <1>2, <1>3 DEF Passed, Filed, Depth
<1>5. LogTypes'
  BY <1>1, <1>3 DEF LogTypes, reader
<1>6. LockInv'
  BY <1>1, <1>3 DEF LockInv
<1>7. RingInv' /\ FileInv'
  BY <1>1, <1>3, <1>4 DEF RingInv, FileInv
<1>8. WalkInv'
  <2>1. UNCHANGED <<page_pc, curr_msg, lines, wanted>> /\ (ReadInv' <=> ReadInv)
    BY <1>1, ReaderStays
  <2> QED
    BY <1>1, <1>2, <1>3, <1>4, <2>1 DEF WalkInv
<1>9. MetInv'
  <2>1. UNCHANGED <<page_pc, page, wanted>> /\ (\A n : Shows(n)' <=> Shows(n))
    BY <1>1, ReaderStays
  <2>2. page_pc # "idle" => met # 0
    BY <1>2 DEF MetInv
  <2> QED
    BY <1>1, <2>1, <2>2 DEF MetInv, Shows
<1> QED
  BY <1>5, <1>6, <1>7, <1>8, <1>9

\* The loggers are not touched by the timer thread.
LEMMA WriterStays ==
  ASSUME UNCHANGED writer
  PROVE  /\ UNCHANGED <<ring, log_head, log_tail, lock, log_pc, log_file, file, logged>>
         /\ Passed' = Passed /\ Filed' = Filed /\ Depth' = Depth /\ Held' = Held
         /\ Logging({"write", "head"})' <=> Logging({"write", "head"})
         /\ LockInv' <=> LockInv
         /\ RingInv' <=> RingInv
         /\ FileInv' <=> FileInv
<1>1. UNCHANGED <<ring, log_head, log_tail, lock, log_pc, log_file, file, logged>>
  BY DEF writer
<1> QED
  BY <1>1 DEF Passed, Filed, Depth, Logging, LockInv, RingInv, FileInv, Held

LEMMA BeginPageKeeps ==
  ASSUME LogInv, BeginPage
  PROVE  LogInv'
<1> USE DEF LogInv
<1>1. /\ page_pc = "idle" /\ page_pc' = "read" /\ curr_msg' = log_head /\ lines' = <<>>
      /\ met' = Cardinality(lock) /\ wanted' = ring[Before(log_head)].id
      /\ UNCHANGED <<writer, need_refresh, page>>
  BY DEF BeginPage
<1>2. /\ UNCHANGED <<ring, log_head, log_tail, lock, log_pc, log_file, file, logged>>
      /\ Passed' = Passed /\ Depth' = Depth
      /\ Logging({"write", "head"})' <=> Logging({"write", "head"})
      /\ LockInv' /\ RingInv' /\ FileInv'
  BY <1>1, WriterStays
<1>3. wanted' = Passed /\ log_head \in 0 .. LOG_HISTORY - 1
  <2>1. log_head \in 0 .. LOG_HISTORY - 1
    BY DEF LogTypes
  <2>2. Before(log_head) = Back(log_head, 1)
    BY <2>1, Around
  <2> QED
    BY <1>1, <2>1, <2>2 DEF RingInv
<1>4. /\ lock = {} => met' = 0 /\ ~Logging({"write", "head"}) /\ Passed = logged
      /\ lock # {} => met' = 1
      /\ logged \in Nat /\ (lock # {} => logged > 0)
  <2>1. lock # {} => \E l \in Loggers : lock = {l}
    BY DEF LockInv
  <2>2. lock # {} => met' = 1
    BY <1>1, <2>1, FS_Singleton
  <2>3. lock = {} => met' = 0
    BY <1>1, FS_EmptySet
  <2> QED
    BY <2>2, <2>3, NobodyLogs DEF LockInv, LogTypes
<1>5. Passed \in Nat
  BY <1>4 DEF Passed
<1>6. LogTypes'
  <2>1. met' \in 0 .. MaxPerDraw
    BY <1>4, LogAssumption
  <2>2. lines' \in Seq(Messages)
    BY <1>1
  <2> QED
    BY <1>1, <1>2, <1>3, <1>5, <2>1, <2>2 DEF LogTypes
<1>7. WalkInv'
  <2>1. Len(lines') = 0 /\ OutputLines(lines') = 0
    BY <1>1, OutputOfNone
  <2>2. ReadInv'
    BY <1>3, <1>5, <2>1 DEF ReadInv
  <2>3. Depth \in Nat
    BY <1>5, LogAssumption DEF Depth, Least2
  <2>4. Back(log_head, 0) = log_head
    BY <1>3 DEF Back
  <2>5. Passed - wanted' = 0 /\ Passed - wanted' + Len(lines') = 0
    BY <1>3, <1>5, <2>1
  <2>6. Passed - wanted' + (IF Logging({"write", "head"}) THEN 1 ELSE 0) <= met'
    BY <1>4, <2>5
  <2>7. MAX_PAGE_LINES \in Nat
    BY LogAssumption
  <2> QED
    BY <1>1, <1>2, <1>3, <1>5, <2>1, <2>2, <2>3, <2>4, <2>5, <2>6, <2>7 DEF WalkInv
<1>8. MetInv'
  BY <1>1, <1>2, <1>3, <1>4 DEF MetInv
<1> QED
  BY <1>2, <1>6, <1>7, <1>8

LEMMA ReadMessageKeeps ==
  ASSUME LogInv, ReadMessage
  PROVE  LogInv'
<1> USE DEF LogInv
<1>1. /\ page_pc = "read" /\ curr_msg # log_tail /\ OutputLines(lines) < MAX_PAGE_LINES
      /\ curr_msg' = Before(curr_msg) /\ lines' = Append(lines, ring[Before(curr_msg)])
      /\ UNCHANGED <<writer, need_refresh, page_pc, page, wanted, met>>
  BY DEF ReadMessage
<1>2. /\ UNCHANGED <<ring, log_head, log_tail, lock, log_pc, log_file, file, logged>>
      /\ Passed' = Passed /\ Depth' = Depth /\ Held' = Held
      /\ Logging({"write", "head"})' <=> Logging({"write", "head"})
      /\ LockInv' /\ RingInv' /\ FileInv'
  BY <1>1, WriterStays
<1>3. PICK n \in Nat : n = Len(lines)
  BY DEF LogTypes
<1>4. PICK a \in Nat : a = Passed - wanted
  BY <1>1, WalkIsShort
<1>5. /\ a <= MaxPerDraw /\ n <= MAX_PAGE_LINES /\ a + n <= LOG_HISTORY - 1 /\ a + n <= Depth
      /\ curr_msg = Back(log_head, a + n) /\ wanted \in Nat /\ Passed \in Nat /\ wanted <= Passed
      /\ ReadInv
  BY <1>1, <1>3, <1>4, WalkIsShort
<1>6. LOG_HISTORY \in Nat /\ LOG_HISTORY >= 2 /\ log_head \in 0 .. LOG_HISTORY - 1
      /\ MaxPerDraw \in Nat /\ MAX_PAGE_LINES \in Nat /\ MAX_PAGE_LINES + MaxPerDraw < LOG_HISTORY
      /\ lines \in Seq(Messages)
  BY LogAssumption DEF LogTypes
<1>7. OutputLines(lines) \in Nat /\ n <= OutputLines(lines) /\ n + 1 <= MAX_PAGE_LINES
      /\ a + n + 1 <= LOG_HISTORY - 1
  <2>1. OutputLines(lines) \in Nat
    BY <1>6, OutputIsSum
  <2> QED
    BY <1>1, <1>3, <1>5, <1>6, <2>1 DEF ReadInv
<1>8. a + n # Depth
  BY <1>1, <1>5 DEF RingInv
<1>9. a + n + 1 <= Depth /\ a + n + 1 \in 1 .. Least2(Passed, LOG_HISTORY - 1)
  <2>1. Depth \in Int /\ a + n + 1 <= Depth
    <3>1. Depth \in Int
      BY <1>5, <1>6 DEF Depth, Least2
    <3> QED
      BY <1>5, <1>8, <3>1
  <2>2. a + n + 1 <= Passed
    BY <1>5, <1>6, <2>1 DEF Depth, Least2
  <2> QED
    BY <1>7, <2>1, <2>2, <1>6, <1>5 DEF Least2
<1>10. Before(curr_msg) = Back(log_head, a + n + 1) /\ Before(curr_msg) \in 0 .. LOG_HISTORY - 1
  <2>1. a + n \in 0 .. LOG_HISTORY /\ a + n + 1 \in 0 .. LOG_HISTORY /\ a + n < LOG_HISTORY
    BY <1>6, <1>7
  <2>2. Before(Back(log_head, a + n)) = Back(log_head, (a + n) + 1)
    BY <1>6, <2>1, BackSteps
  <2>3. Back(log_head, a + n + 1) \in 0 .. LOG_HISTORY - 1
    BY <1>6, <2>1, BackSteps
  <2> QED
    BY <1>5, <2>2, <2>3
<1> DEFINE m == ring[Before(curr_msg)]
<1>11. m \in Messages /\ m.id = wanted - n
  <2>1. m \in Messages
    BY <1>10 DEF LogTypes
  <2>2. m.id = Passed + 1 - (a + n + 1)
    BY <1>9, <1>10 DEF RingInv
  <2> QED
    BY <1>4, <1>5, <2>1, <2>2
<1> HIDE DEF m
<1>12. /\ lines' = Append(lines, m) /\ lines' \in Seq(Messages) /\ Len(lines') = n + 1
       /\ lines'[n + 1] = m /\ \A k \in 1 .. n : lines'[k] = lines[k]
  <2>1. lines' = Append(lines, m)
    BY <1>1 DEF m
  <2> QED
    BY <1>3, <1>6, <1>11, <2>1
<1>13. LogTypes'
  <2>1. curr_msg' \in 0 .. LOG_HISTORY - 1
    BY <1>1, <1>10
  <2> QED
    BY <1>1, <1>2, <1>12, <2>1 DEF LogTypes
<1>14. ReadInv'
  <2>1. /\ OutputLines(lines') = OutputLines(lines) + m.lines /\ m.lines \in Nat \ {0}
        /\ SubSeq(lines', 1, n) = lines
    BY <1>3, <1>6, <1>11, <1>12, OutputAppend
  <2>2. ASSUME NEW k \in 1 .. n + 1 PROVE lines'[k].id = wanted - k + 1
    <3>1. CASE k = n + 1
      BY <1>5, <1>11, <1>12, <3>1
    <3>2. CASE k # n + 1
      <4>1. k \in 1 .. n
        BY <3>2
      <4> QED
        BY <1>3, <1>5, <1>12, <4>1 DEF ReadInv
    <3> QED
      BY <3>1, <3>2
  <2>3. n + 1 <= wanted
    <3>1. m.id \in Nat
      BY <1>11 DEF Messages
    <3>2. a + n + 1 <= Passed
      BY <1>5, <1>6, <1>9 DEF Least2
    <3> QED
      BY <1>4, <1>5, <3>2
  <2>4. n + 1 <= OutputLines(lines')
    BY <1>7, <2>1
  <2>5. SubSeq(lines', 1, Len(lines') - 1) = lines
    BY <1>12, <2>1
  <2> QED
    BY <1>1, <1>12, <2>2, <2>3, <2>4, <2>5 DEF ReadInv
<1>15. WalkInv'
  <2>1. curr_msg' = Back(log_head, a + n + 1) /\ a + (n + 1) = a + n + 1
    BY <1>1, <1>10
  <2>2. Passed - wanted + (IF Logging({"write", "head"}) THEN 1 ELSE 0) <= met
    BY <1>1 DEF WalkInv
  <2> QED
    BY <1>1, <1>2, <1>4, <1>5, <1>7, <1>9, <1>12, <1>14, <2>1, <2>2 DEF WalkInv
<1>16. MetInv'
  BY <1>1, <1>2 DEF MetInv, Shows
<1> QED
  BY <1>2, <1>13, <1>15, <1>16

LEMMA PrintLinesKeeps ==
  ASSUME LogInv, PrintLines
  PROVE  LogInv'
<1> USE DEF LogInv
<1>1. /\ page_pc = "read" /\ (curr_msg = log_tail \/ OutputLines(lines) >= MAX_PAGE_LINES)
      /\ page' = Reverse(lines) /\ lines' = <<>> /\ page_pc' = "refreshed"
      /\ UNCHANGED <<writer, need_refresh, curr_msg, wanted, met>>
  BY DEF PrintLines
<1>2. /\ UNCHANGED <<ring, log_head, log_tail, lock, log_pc, log_file, file, logged>>
      /\ LockInv' /\ RingInv' /\ FileInv'
  BY <1>1, WriterStays
<1>3. PICK n \in Nat : n = Len(lines)
  BY DEF LogTypes
<1>4. PICK a \in Nat : a = Passed - wanted
  BY <1>1, WalkIsShort
<1>5. /\ a <= MaxPerDraw /\ n <= MAX_PAGE_LINES /\ a + n <= LOG_HISTORY - 1 /\ a + n <= Depth
      /\ curr_msg = Back(log_head, a + n) /\ wanted \in Nat /\ Passed \in Nat /\ wanted <= Passed
      /\ ReadInv
  BY <1>1, <1>3, <1>4, WalkIsShort
<1>6. LOG_HISTORY \in Nat /\ LOG_HISTORY >= 2 /\ log_head \in 0 .. LOG_HISTORY - 1
      /\ MaxPerDraw \in Nat /\ MAX_PAGE_LINES \in Nat /\ MAX_PAGE_LINES + MaxPerDraw < LOG_HISTORY
      /\ lines \in Seq(Messages) /\ met \in Nat
  BY LogAssumption DEF LogTypes
<1>7. /\ page' \in Seq(Messages) /\ Len(page') = n /\ OutputLines(page') = OutputLines(lines)
      /\ lines # <<>> => Tail(page') = Reverse(SubSeq(lines, 1, n - 1))
      /\ OutputLines(lines) \in Nat
  BY <1>1, <1>3, <1>6, OutputReverse, OutputIsSum
<1>8. LogTypes'
  BY <1>1, <1>2, <1>7 DEF LogTypes
<1>9. ASSUME ~(page' = <<>> /\ met > 0) PROVE Shows(wanted)'
  <2>1. ASSUME NEW k \in DOMAIN page' PROVE page'[k].id = wanted - Len(page') + k
    <3>1. k \in 1 .. n
      BY <1>7, <2>1
    <3>2. (n - k) + 1 \in 1 .. n
      BY <3>1
    <3>3. page'[k] = lines[(n - k) + 1]
      BY <1>1, <1>3, <3>1 DEF Reverse
    <3>4. lines[(n - k) + 1].id = wanted - ((n - k) + 1) + 1
      BY <1>3, <1>5, <3>2 DEF ReadInv
    <3> QED
      BY <1>5, <1>7, <3>1, <3>3, <3>4
  <2>2. ASSUME n < wanted, OutputLines(lines) < MAX_PAGE_LINES PROVE n = LOG_HISTORY - 1
    <3>1. Back(log_head, a + n) = Back(log_head, Depth)
      BY <1>1, <1>5, <1>6, <1>7, <2>2 DEF RingInv
    <3>2. /\ Depth \in 0 .. LOG_HISTORY /\ a + n \in 0 .. LOG_HISTORY
          /\ Depth >= Least2(Passed, LOG_HISTORY - 1)
      BY <1>5, <1>6 DEF Depth, Least2
    <3>3. a + n = Depth \/ (a + n = 0 /\ Depth = LOG_HISTORY)
      BY <1>5, <1>6, <3>1, <3>2, BackSteps
    <3>4. CASE a + n = Depth
      <4>1. a + n >= LOG_HISTORY - 1
        <5>1. a + n < Passed
          BY <1>4, <1>5, <2>2
        <5> QED
          BY <1>5, <1>6, <3>2, <3>4, <5>1 DEF Least2
      <4>2. n = MAX_PAGE_LINES
        BY <1>5, <1>6, <4>1
      <4>3. n <= OutputLines(lines)
        BY <1>3, <1>5 DEF ReadInv
      <4> QED
        BY <1>6, <1>7, <2>2, <4>2, <4>3
    <3>5. CASE a + n = 0 /\ Depth = LOG_HISTORY
      <4>1. Logging({"tail"})
        BY <1>5, <1>6, <3>5 DEF Depth, Least2
      <4>2. lock # {}
        BY <4>1 DEF Logging, LockInv
      <4>3. met # 0
        BY <1>1, <4>2 DEF MetInv
      <4>4. page' = <<>>
        BY <1>7, <3>5
      <4> QED
        BY <1>6, <1>9, <4>3, <4>4
    <3> QED
      BY <3>3, <3>4, <3>5
  <2>3. Len(page') < wanted => OutputLines(page') >= MAX_PAGE_LINES \/ Len(page') = LOG_HISTORY - 1
    BY <1>6, <1>7, <2>2
  <2>4. page' # <<>> => OutputLines(Tail(page')) < MAX_PAGE_LINES
    <3> SUFFICES ASSUME page' # <<>> PROVE OutputLines(Tail(page')) < MAX_PAGE_LINES
      OBVIOUS
    <3>1. n > 0 /\ lines # <<>>
      BY <1>3, <1>7
    <3>2. SubSeq(lines, 1, n - 1) \in Seq(Messages)
      BY <1>3, <1>6, <3>1
    <3>3. OutputLines(Tail(page')) = OutputLines(SubSeq(lines, 1, n - 1))
      BY <1>7, <3>1, <3>2, OutputReverse
    <3> QED
      BY <1>3, <1>5, <3>1, <3>3 DEF ReadInv
  <2> QED
    BY <1>1, <2>1, <2>3, <2>4 DEF Shows
<1>10. MetInv'
  BY <1>1, <1>2, <1>6, <1>9 DEF MetInv
<1>11. WalkInv'
  BY <1>1 DEF WalkInv
<1> QED
  BY <1>2, <1>8, <1>10, <1>11

LEMMA EndPageKeeps ==
  ASSUME LogInv, EndPage
  PROVE  LogInv'
<1> USE DEF LogInv
<1>1. /\ page_pc = "refreshed" /\ need_refresh' = FALSE /\ page_pc' = "idle"
      /\ UNCHANGED <<writer, curr_msg, lines, page, wanted, met>>
  BY DEF EndPage
<1>2. /\ UNCHANGED <<ring, log_head, log_tail, lock, log_pc, log_file, file, logged>>
      /\ LockInv' /\ RingInv' /\ FileInv' /\ Held' = Held
  BY <1>1, WriterStays
<1>3. LogTypes' /\ WalkInv'
  BY <1>1, <1>2 DEF LogTypes, WalkInv
<1>4. met = 0 => Held = wanted /\ Shows(wanted)
  BY <1>1 DEF MetInv, Held
<1>5. met = 0 => Shows(Held)'
  BY <1>1, <1>2, <1>4 DEF Shows
<1>6. MetInv'
  BY <1>1, <1>5 DEF MetInv
<1> QED
  BY <1>2, <1>3, <1>6

LEMMA LogInvInit == Init => LogInv
<1> SUFFICES ASSUME Init PROVE LogInv
  OBVIOUS
<1>1. /\ ring = [k \in 0 .. LOG_HISTORY - 1 |-> Torn]
      /\ log_head = 0 /\ log_tail = 0 /\ need_refresh = FALSE
      /\ lock = {} /\ log_pc = [l \in Loggers |-> "idle"]
      /\ log_file \in BOOLEAN /\ file = <<>>
      /\ page_pc = "idle" /\ curr_msg = 0 /\ lines = <<>> /\ page = <<>>
      /\ logged = 0 /\ wanted = 0 /\ met = 0
  BY DEF Init, LogInit
<1>2. LOG_HISTORY \in Nat /\ LOG_HISTORY >= 2 /\ MaxPerDraw \in Nat
  BY LogAssumption
<1>3. LogTypes
  <2>1. Torn \in Messages
    BY DEF Torn, Messages
  <2>2. ring \in [0 .. LOG_HISTORY - 1 -> Messages] /\ log_pc \in [Loggers -> LogPcs]
    BY <1>1, <2>1 DEF LogPcs
  <2> QED
    BY <1>1, <1>2, <2>2 DEF LogTypes
<1>4. LockInv
  BY <1>1 DEF LockInv
<1>5. /\ ~Logging({"write", "head"}) /\ ~Logging({"tail"}) /\ ~Logging({"head"})
      /\ Passed = 0 /\ Filed = 0 /\ Depth = Least2(0, LOG_HISTORY - 1)
  BY <1>1, <1>3, <1>4, NobodyLogs
<1>6. Least2(0, LOG_HISTORY - 1) = 0
  BY <1>2 DEF Least2
<1>7. RingInv
  <2>1. Back(0, 0) = 0 /\ Back(0, 1) \in 0 .. LOG_HISTORY - 1
    BY <1>2 DEF Back
  <2>2. ring[Back(0, 1)].id = 0
    BY <1>1, <2>1 DEF Torn
  <2> QED
    BY <1>1, <1>5, <1>6, <2>1, <2>2 DEF RingInv
<1>8. FileInv
  BY <1>1, <1>5 DEF FileInv
<1>9. WalkInv /\ MetInv
  BY <1>1 DEF WalkInv, MetInv, Shows, Held
<1> QED
  BY <1>3, <1>4, <1>7, <1>8, <1>9 DEF LogInv

LEMMA LogInvKept ==
  ASSUME LogInv, [Next]_all
  PROVE  LogInv'
<1>1. \/ UNCHANGED log \/ BeginPage \/ ReadMessage \/ PrintLines \/ EndPage
      \/ \E l \in {"console", "lcore"} : OpenSlot(l) \/ LogStep(l)
  BY DEF Next, TimerTurn, ConsoleStep, NewCommand, LcoreStep, LcoreReceives, Pages_, Statistics_, Log_,
         Dump_, Theme_, DumpPaused, all, PageLogStep
<1>2. CASE UNCHANGED log
  <2>1. UNCHANGED <<ring, log_head, log_tail, need_refresh, lock, log_pc, log_file, file, page_pc,
                    curr_msg, lines, page, logged, wanted, met>>
    BY <1>2 DEF log
  <2>2. UNCHANGED writer
    BY <2>1 DEF writer
  <2>3. /\ Passed' = Passed /\ Depth' = Depth /\ Held' = Held
        /\ Logging({"write", "head"})' <=> Logging({"write", "head"})
        /\ LockInv' /\ RingInv' /\ FileInv'
    BY <2>2, WriterStays DEF LogInv
  <2>4. WalkInv' /\ MetInv' /\ LogTypes'
    BY <2>1, <2>3 DEF LogInv, WalkInv, MetInv, Shows, ReadInv, LogTypes
  <2> QED
    BY <2>3, <2>4 DEF LogInv
<1>3. CASE \E l \in {"console", "lcore"} : OpenSlot(l) \/ LogStep(l)
  BY <1>3, OpenSlotKeeps, WriteSlotKeeps, LogHeadKeeps, LogTailKeeps, LogToFileKeeps, AskForRefreshKeeps,
     TimerAssumption
  DEF LogStep
<1> QED
  BY <1>1, <1>2, <1>3, BeginPageKeeps, ReadMessageKeeps, PrintLinesKeeps, EndPageKeeps

LEMMA LogInvHolds == LogInv => LogIsKept
<1> SUFFICES ASSUME LogInv PROVE LogIsKept
  OBVIOUS
<1>1. lock = {} => Filed = logged
  BY NobodyLogs DEF LogInv
<1> QED
  BY <1>1 DEF LogInv, LogIsKept, MetInv, FileInv

\* pktgen_page_stats and pktgen_page_log show what is so: the rates are those
\* of RatesTrue, the log page shows the newest messages whole and in order,
\* also when the ring is written while the page is drawn, it is drawn again
\* when it does not, and the file has every message.
THEOREM ScreenTrue == Spec => []ScreenIsTrue
<1>1. Spec => []LogIsKept
  <2>1. Init => LogInv
    BY LogInvInit
  <2>2. LogInv /\ [Next]_all => LogInv'
    BY LogInvKept
  <2>3. LogInv => LogIsKept
    BY LogInvHolds
  <2> QED
    BY <2>1, <2>2, <2>3, PTL DEF Spec
<1>2. Spec => []RatesAreTrue
  BY RatesTrue
<1>3. RatesAreTrue /\ LogIsKept => ScreenIsTrue
  BY DEF ScreenIsTrue
<1> QED
  BY <1>1, <1>2, <1>3, PTL

-----------------------------------------------------------------------------
(***************************************************************************)
(* The packet dump: with one RX lcore, and commands that come while it and *)
(* the timer thread rest, every copy is reachable, freed once, and printed *)
(* in order.                                                               *)
(***************************************************************************)
\* The port has one RX lcore.
OneLcore == \E c : Lcores = {c}

\* It, where it is, the packets of its burst it has still to copy, and how
\* many it will take off the count.
lcore == CHOOSE c \in Lcores : TRUE
at == rx_pc[lcore]
ahead == burst[lcore]
nb == nb_dump[lcore]

Printing == timer_pc \in {"print", "free", "clear", "advance"}

\* Slots the lcore has filled and the timer thread has not left behind.
Filled(k) == (dump_head <= k /\ k < dump_tail) \/ (at = "advance" /\ k = dump_tail)

DumpTypes ==
    /\ dump_list \in [Slots -> Blocks \cup {NULL}]
    /\ dump_head \in UInt8 /\ dump_tail \in UInt8 /\ dump_count \in UInt8
    /\ rx_pc \in [Lcores -> {"poll", "dump", "advance", "count"}]
    /\ burst \in [Lcores -> Seq(Blocks)] /\ nb_dump \in [Lcores -> Nat]
    /\ timer_pc \in {"tick", "test", "print", "free", "clear", "advance"}
    /\ pdata \in Blocks \cup {NULL}
    /\ cli_pc \in {"idle", "tail", "head", "free", "count"} /\ cnt \in 0 .. MAX_DUMP_PACKETS
    /\ heap \subseteq Blocks /\ corrupt \in BOOLEAN
    /\ packets \in 0 .. MaxPackets /\ commands \in 0 .. MaxCommands
    /\ printed \in Seq(Blocks) /\ quota \in 0 .. MAX_DUMP_PACKETS

\* What is copied and what is still to be copied is what was asked for.
CountInv ==
    /\ cli_pc = "idle" =>
        /\ dump_head <= dump_tail
        /\ at = "poll" => dump_tail + dump_count = quota
        /\ at \in {"dump", "advance"} => dump_tail + Len(ahead) + dump_count = quota + nb
        /\ at = "count" => dump_tail + dump_count = quota + nb
        /\ at # "poll" => nb <= dump_count
    /\ at \in {"dump", "advance"} => Len(ahead) > 0
    /\ at \in {"poll", "count"} => Len(ahead) = 0
    /\ Printing => dump_head < dump_tail

\* While a command is under way nothing is going on and nothing is stored.
CommandInv ==
    cli_pc # "idle" =>
        /\ at = "poll" /\ ~Printing /\ dump_count = 0 /\ cnt = quota /\ printed = <<>>
        /\ dump_tail <= MAX_DUMP_PACKETS
        /\ cli_pc = "tail" => dump_head = dump_tail
        /\ cli_pc # "tail" => dump_tail = 0
        /\ cli_pc \in {"free", "count"} => dump_head = 0

\* Slots that are filled hold copies in the order of arrival, which are on the
\* heap until they are freed, and nothing else is.
SlotInv ==
    /\ \A k \in Slots :
        dump_list[k] # NULL <=> Filled(k) /\ ~(timer_pc = "advance" /\ k = dump_head)
    /\ \A k, l \in Slots : k < l /\ dump_list[k] # NULL /\ dump_list[l] # NULL => dump_list[k] < dump_list[l]
    /\ \A k \in Slots : dump_list[k] # NULL =>
        (dump_list[k] \in heap <=> ~(timer_pc = "clear" /\ k = dump_head))
    /\ NothingLeaks
    /\ \A k \in Slots : dump_list[k] <= packets

\* What is ahead is newer than what is stored.
AheadInv ==
    /\ \A j \in 1 .. Len(ahead) : ahead[j] <= packets
    /\ \A j, l \in 1 .. Len(ahead) : j < l => ahead[j] < ahead[l]
    /\ \A k \in Slots, j \in 1 .. Len(ahead) :
        dump_list[k] < ahead[j] \/ (at = "advance" /\ k = dump_tail /\ j = 1)

\* What is printed is older than what is stored.
PrintedInv ==
    /\ cli_pc = "idle" =>
        Len(printed) = dump_head + (IF timer_pc \in {"free", "clear", "advance"} THEN 1 ELSE 0)
    /\ \A j \in 1 .. Len(printed) : printed[j] <= packets
    /\ \A j, l \in 1 .. Len(printed) : j < l => printed[j] < printed[l]
    /\ \A j \in 1 .. Len(printed), l \in 1 .. Len(ahead) : printed[j] < ahead[l]
    /\ \A j \in 1 .. Len(printed), k \in Slots : dump_list[k] # NULL =>
        printed[j] < dump_list[k]
        \/ (timer_pc \in {"free", "clear"} /\ k = dump_head /\ j = Len(printed))
    /\ timer_pc = "print" => pdata = dump_list[dump_head]

DumpInv == DumpTypes /\ CountInv /\ CommandInv /\ SlotInv /\ AheadInv /\ PrintedInv /\ ~corrupt

-----------------------------------------------------------------------------
LEMMA LeastOfTwo ==
  ASSUME NEW a \in Int, NEW b \in Int
  PROVE  Least({a, b}) \in {a, b} /\ Least({a, b}) <= a /\ Least({a, b}) <= b
<1>1. \E x \in {a, b} : \A y \in {a, b} : x <= y
  <2>1. CASE a <= b
    BY <2>1
  <2>2. CASE b <= a
    BY <2>2
  <2>3. QED
    BY <2>1, <2>2
<1>2. QED
  BY <1>1 DEF Least

LEMMA LeastOfThree ==
  ASSUME NEW a \in Int, NEW b \in Int, NEW c \in Int
  PROVE  /\ Least({a, b, c}) \in {a, b, c}
         /\ Least({a, b, c}) <= a /\ Least({a, b, c}) <= b /\ Least({a, b, c}) <= c
<1>1. \E x \in {a, b, c} : \A y \in {a, b, c} : x <= y
  <2>1. CASE a <= b /\ a <= c
    BY <2>1
  <2>2. CASE b <= a /\ b <= c
    BY <2>2
  <2>3. CASE c <= a /\ c <= b
    BY <2>3
  <2>4. QED
    BY <2>1, <2>2, <2>3
<1>2. QED
  BY <1>1 DEF Least

LEMMA TheLcore ==
  ASSUME OneLcore
  PROVE  Lcores = {lcore} /\ lcore \in Lcores
BY DEF OneLcore, lcore

-----------------------------------------------------------------------------
LEMMA DumpStarts ==
  ASSUME OneLcore, DumpInit
  PROVE  DumpInv
<1> USE TheLcore, DumpAssumption DEF DumpInit
<1>1. DumpTypes
  BY DEF DumpTypes, UInt8, NULL, Slots
<1>2. at = "poll" /\ ahead = <<>> /\ nb = 0
  BY DEF at, ahead, nb
<1>3. CountInv
  BY <1>2 DEF CountInv, Printing
<1>4. CommandInv
  BY DEF CommandInv
<1>5. SlotInv
  BY <1>2 DEF SlotInv, Filled, NothingLeaks, Slots, NULL
<1>6. AheadInv
  BY <1>2 DEF AheadInv
<1>7. PrintedInv
  BY <1>2 DEF PrintedInv
<1>8. QED
  BY <1>1, <1>3, <1>4, <1>5, <1>6, <1>7 DEF DumpInv

-----------------------------------------------------------------------------
(***************************************************************************)
(* The timer thread.                                                       *)
(***************************************************************************)
LEMMA TurnKeeps ==
  ASSUME DumpInv, BeginPrint \/ NothingToPrint
  PROVE  DumpInv'
<1> USE DEF DumpInv, BeginPrint, NothingToPrint, fields, rx, cli
<1>1. DumpTypes'
  BY DEF DumpTypes
<1>2. at' = at /\ ahead' = ahead /\ nb' = nb
  BY DEF at, ahead, nb
<1>3. CountInv'
  BY <1>2 DEF CountInv, Printing
<1>4. CommandInv'
  BY <1>2 DEF CommandInv, Printing
<1>5. SlotInv'
  BY <1>2 DEF SlotInv, Filled, NothingLeaks
<1>6. AheadInv'
  BY <1>2 DEF AheadInv
<1>7. PrintedInv'
  BY <1>2 DEF PrintedInv
<1>8. QED
  BY <1>1, <1>3, <1>4, <1>5, <1>6, <1>7

\* Between its two ends the list is inside the array.
LEMMA EndsInArray ==
  ASSUME DumpInv, OneLcore
  PROVE  /\ dump_head \in Nat /\ dump_tail \in Nat /\ dump_tail <= MAX_DUMP_PACKETS
         /\ Printing => dump_head \in Slots
         /\ at \in {"dump", "advance"} => dump_tail \in Slots
         /\ cli_pc # "idle" => ~Printing /\ ~(dump_head < dump_tail)
<1> USE DEF DumpInv
<1>1. dump_head \in 0 .. 255 /\ dump_tail \in 0 .. 255 /\ dump_count \in 0 .. 255
      /\ quota \in 0 .. MAX_DUMP_PACKETS
  BY DEF DumpTypes, UInt8
<1>2. ahead \in Seq(Blocks) /\ nb \in Nat /\ at \in {"poll", "dump", "advance", "count"}
  BY TheLcore DEF DumpTypes, ahead, nb, at
<1>3. Len(ahead) \in Nat
  BY <1>2
<1>4. CASE cli_pc # "idle"
  <2>1. at = "poll" /\ ~Printing /\ dump_tail <= MAX_DUMP_PACKETS
    BY <1>4 DEF CommandInv
  <2>2. cli_pc = "tail" => dump_head = dump_tail
    BY DEF CommandInv
  <2>3. cli_pc # "tail" => dump_tail = 0
    BY <1>4 DEF CommandInv
  <2>4. ~(dump_head < dump_tail)
    BY <1>1, <2>2, <2>3
  <2>5. QED
    BY <1>1, <1>4, <2>1, <2>4
<1>5. CASE cli_pc = "idle"
  <2>1. dump_tail <= MAX_DUMP_PACKETS /\ (at \in {"dump", "advance"} => dump_tail < MAX_DUMP_PACKETS)
    <3>1. CASE at = "poll"
      BY <3>1, <1>1, <1>3, <1>5, DumpAssumption DEF CountInv
    <3>2. CASE at \in {"dump", "advance"}
      BY <3>2, <1>1, <1>2, <1>3, <1>5, DumpAssumption DEF CountInv
    <3>3. CASE at = "count"
      BY <3>3, <1>1, <1>2, <1>5, DumpAssumption DEF CountInv
    <3>4. QED
      BY <3>1, <3>2, <3>3, <1>2
  <2>2. Printing => dump_head < dump_tail
    BY DEF CountInv
  <2>3. QED
    BY <2>1, <2>2, <1>1, <1>5, DumpAssumption DEF Slots
<1>6. QED
  BY <1>4, <1>5, <1>1 DEF Slots

LEMMA TestHeadKeeps ==
  ASSUME DumpInv, OneLcore, TestHead
  PROVE  DumpInv'
<1> USE DEF DumpInv, TestHead, fields, rx, cli
<1>1. dump_head \in Slots
  BY EndsInArray, DumpAssumption DEF Slots
<1>2. DumpTypes'
  BY <1>1 DEF DumpTypes, Slot
<1>3. at' = at /\ ahead' = ahead /\ nb' = nb
  BY DEF at, ahead, nb
<1>4. cli_pc = "idle"
  BY EndsInArray
<1>5. CountInv'
  BY <1>3 DEF CountInv, Printing
<1>6. CommandInv'
  BY <1>4 DEF CommandInv
<1>7. SlotInv'
  BY <1>3 DEF SlotInv, Filled, NothingLeaks
<1>8. AheadInv'
  BY <1>3 DEF AheadInv
<1>9. pdata' = dump_list[dump_head]
  BY <1>1 DEF Slot
<1>10. PrintedInv'
  BY <1>3, <1>9 DEF PrintedInv
<1>11. QED
  BY <1>2, <1>5, <1>6, <1>7, <1>8, <1>10

\* What is printed next is in the slot of dump_head, and alive.
LEMMA HeadIsAlive ==
  ASSUME DumpInv, OneLcore, timer_pc \in {"print", "free"}
  PROVE  /\ dump_head \in Slots /\ dump_list[dump_head] \in heap /\ dump_list[dump_head] # NULL
         /\ cli_pc = "idle"
<1> USE DEF DumpInv
<1>1. dump_head < dump_tail /\ dump_head \in Slots /\ cli_pc = "idle"
  BY EndsInArray DEF CountInv, Printing
<1>2. dump_list[dump_head] # NULL
  BY <1>1, EndsInArray DEF SlotInv, Filled
<1>3. QED
  BY <1>1, <1>2 DEF SlotInv

LEMMA PrintKeeps ==
  ASSUME DumpInv, OneLcore, PrintPacket
  PROVE  DumpInv'
<1> USE DEF DumpInv, PrintPacket, fields, rx, cli
<1>1. /\ dump_head \in Slots /\ dump_list[dump_head] \in heap
      /\ dump_list[dump_head] # NULL /\ cli_pc = "idle"
  BY HeadIsAlive
<1>2. pdata = dump_list[dump_head]
  BY DEF PrintedInv
<1>3. printed' = Append(printed, pdata) /\ corrupt' = FALSE
  BY <1>1, <1>2
<1>4. printed \in Seq(Blocks) /\ pdata \in Blocks /\ pdata \in Nat /\ packets \in Nat
  BY <1>1, <1>2, DumpAssumption DEF DumpTypes, Blocks
<1>5. /\ Len(printed') = Len(printed) + 1 /\ printed'[Len(printed) + 1] = pdata
      /\ Len(printed) \in Nat
      /\ \A j \in 1 .. Len(printed) : printed'[j] = printed[j] /\ printed[j] \in Nat
  <2>1. Len(printed) \in Nat /\ \A j \in 1 .. Len(printed) : printed[j] \in Blocks
    BY <1>4
  <2>2. /\ Len(printed') = Len(printed) + 1 /\ printed'[Len(printed) + 1] = pdata
        /\ \A j \in 1 .. Len(printed) : printed'[j] = printed[j]
    BY <1>3, <1>4
  <2>3. \A b \in Blocks : b \in Nat
    BY DumpAssumption DEF Blocks
  <2>4. QED
    BY <2>1, <2>2, <2>3
<1>6. DumpTypes'
  BY <1>3, <1>4 DEF DumpTypes
<1>7. at' = at /\ ahead' = ahead /\ nb' = nb
  BY DEF at, ahead, nb
<1>8. CountInv'
  BY <1>7 DEF CountInv, Printing
<1>9. CommandInv'
  BY <1>1 DEF CommandInv
<1>10. SlotInv'
  BY <1>7 DEF SlotInv, Filled, NothingLeaks
<1>11. AheadInv'
  BY <1>7 DEF AheadInv
<1>12. PrintedInv'
  <2>1. Len(printed') = dump_head + 1
    <3>1. Len(printed) = dump_head
      BY <1>1, EndsInArray DEF PrintedInv
    <3>2. QED
      BY <3>1, <1>5
  <2>2. pdata <= packets
    BY <1>1, <1>2 DEF SlotInv
  <2>3. \A j \in 1 .. Len(printed) : printed[j] < pdata
    BY <1>1, <1>2 DEF PrintedInv
  <2>4. \A l \in 1 .. Len(ahead) : pdata < ahead[l]
    <3>1. dump_head < dump_tail
      BY DEF CountInv, Printing
    <3>2. QED
      BY <3>1, <1>1, <1>2, EndsInArray DEF AheadInv
  <2>5. \A k \in Slots : dump_list[k] # NULL /\ k # dump_head => pdata < dump_list[k]
    <3>1. TAKE k \in Slots
    <3>2. HAVE dump_list[k] # NULL /\ k # dump_head
    <3>3. dump_head < dump_tail
      BY DEF CountInv, Printing
    <3>4. Filled(k)
      BY <3>2 DEF SlotInv
    <3>5. dump_head < k
      BY <3>2, <3>3, <3>4, EndsInArray DEF Filled, Slots
    <3>6. QED
      BY <1>1, <1>2, <3>2, <3>5 DEF SlotInv
  <2>6. \A j \in 1 .. Len(printed') : j \in 1 .. Len(printed) \/ j = Len(printed) + 1
    BY <1>5
  <2>7. \A j \in 1 .. Len(printed') : printed'[j] <= packets
    BY <1>5, <2>2, <2>6 DEF PrintedInv
  <2>8. \A j, l \in 1 .. Len(printed') : j < l => printed'[j] < printed'[l]
    <3>1. TAKE j, l \in 1 .. Len(printed')
    <3>2. HAVE j < l
    <3>3. j \in 1 .. Len(printed)
      BY <1>5, <3>2
    <3>4. CASE l = Len(printed) + 1
      BY <1>5, <2>3, <3>3, <3>4
    <3>5. CASE l \in 1 .. Len(printed)
      BY <1>5, <3>2, <3>3, <3>5 DEF PrintedInv
    <3>6. QED
      BY <2>6, <3>4, <3>5
  <2>9. \A j \in 1 .. Len(printed'), l \in 1 .. Len(ahead') : printed'[j] < ahead'[l]
    BY <1>5, <1>7, <2>4, <2>6 DEF PrintedInv
  <2>10. \A j \in 1 .. Len(printed'), k \in Slots : dump_list'[k] # NULL =>
            printed'[j] < dump_list'[k] \/ (k = dump_head /\ j = Len(printed'))
    BY <1>5, <2>5, <2>6 DEF PrintedInv
  <2>11. QED
    BY <1>1, <2>1, <2>7, <2>8, <2>9, <2>10 DEF PrintedInv
<1>13. QED
  BY <1>3, <1>6, <1>8, <1>9, <1>10, <1>11, <1>12

LEMMA FreeKeeps ==
  ASSUME DumpInv, OneLcore, FreePrinted
  PROVE  DumpInv'
<1> USE DEF DumpInv, FreePrinted, fields, rx, cli
<1>1. /\ dump_head \in Slots /\ dump_list[dump_head] \in heap
      /\ dump_list[dump_head] # NULL /\ cli_pc = "idle"
  BY HeadIsAlive
<1>2. heap' = heap \ {dump_list[dump_head]} /\ corrupt' = FALSE
  BY <1>1 DEF Free, Slot
<1>3. DumpTypes'
  BY <1>2 DEF DumpTypes
<1>4. at' = at /\ ahead' = ahead /\ nb' = nb
  BY DEF at, ahead, nb
<1>5. CountInv'
  BY <1>4 DEF CountInv, Printing
<1>6. CommandInv'
  BY <1>1 DEF CommandInv
<1>7. SlotInv'
  <2>1. \A k \in Slots : dump_list[k] # NULL /\ k # dump_head => dump_list[k] # dump_list[dump_head]
    <3>1. TAKE k \in Slots
    <3>2. HAVE dump_list[k] # NULL /\ k # dump_head
    <3>3. dump_list[k] \in Int /\ dump_list[dump_head] \in Int /\ k \in Int /\ dump_head \in Int
      BY <1>1, DumpAssumption DEF DumpTypes, Blocks, NULL, Slots
    <3>4. k < dump_head \/ dump_head < k
      BY <3>2, <3>3
    <3>5. QED
      BY <1>1, <3>2, <3>3, <3>4 DEF SlotInv
  <2>2. \A k \in Slots : dump_list[k] # NULL => (dump_list[k] \in heap' <=> k # dump_head)
    BY <1>2, <2>1 DEF SlotInv
  <2>3. NothingLeaks'
    BY <1>2 DEF SlotInv, NothingLeaks
  <2>4. \A k \in Slots : Filled(k)' <=> Filled(k)
    BY <1>4 DEF Filled
  <2>5. QED
    BY <2>2, <2>3, <2>4 DEF SlotInv
<1>8. AheadInv'
  BY <1>4 DEF AheadInv
<1>9. PrintedInv'
  BY <1>4 DEF PrintedInv
<1>10. QED
  BY <1>2, <1>3, <1>5, <1>6, <1>7, <1>8, <1>9

LEMMA ClearKeeps ==
  ASSUME DumpInv, OneLcore, ClearSlot
  PROVE  DumpInv'
<1> USE DEF DumpInv, ClearSlot, fields, rx, cli
<1>1. dump_head \in Slots /\ cli_pc = "idle" /\ dump_head < dump_tail
  BY EndsInArray DEF CountInv, Printing
<1>2. /\ dump_list'[dump_head] = NULL
      /\ \A k \in Slots : k # dump_head => dump_list'[k] = dump_list[k]
  BY <1>1 DEF DumpTypes
<1>3. DumpTypes'
  BY DEF DumpTypes
<1>4. at' = at /\ ahead' = ahead /\ nb' = nb
  BY DEF at, ahead, nb
<1>5. CountInv'
  BY <1>4 DEF CountInv, Printing
<1>6. CommandInv'
  BY <1>1 DEF CommandInv
<1>7. dump_list[dump_head] # NULL /\ dump_list[dump_head] \notin heap
  BY <1>1, EndsInArray DEF SlotInv, Filled
<1>8. SlotInv'
  <2>1. \A k \in Slots : Filled(k)' <=> Filled(k)
    BY <1>4 DEF Filled
  <2>2. \A k \in Slots : dump_list'[k] # NULL <=> Filled(k) /\ k # dump_head
    BY <1>2 DEF SlotInv
  <2>3. \A k, l \in Slots : k < l /\ dump_list'[k] # NULL /\ dump_list'[l] # NULL
            => dump_list'[k] < dump_list'[l]
    BY <1>2 DEF SlotInv
  <2>4. \A k \in Slots : dump_list'[k] # NULL => dump_list'[k] \in heap
    BY <1>2 DEF SlotInv
  <2>5. \A b \in heap : \E k \in Slots : dump_list'[k] = b
    BY <1>2, <1>7 DEF SlotInv, NothingLeaks
  <2>6. \A k \in Slots : dump_list'[k] <= packets
    BY <1>2, DumpAssumption DEF SlotInv, DumpTypes, NULL
  <2>7. QED
    BY <2>1, <2>2, <2>3, <2>4, <2>5, <2>6 DEF SlotInv, NothingLeaks
<1>9. AheadInv'
  <2>1. \A j \in 1 .. Len(ahead) : NULL < ahead[j]
    BY TheLcore, DumpAssumption DEF DumpTypes, ahead, Blocks, NULL
  <2>2. QED
    BY <1>2, <1>4, <2>1 DEF AheadInv
<1>10. PrintedInv'
  <2>1. \A j \in 1 .. Len(printed), k \in Slots : dump_list'[k] # NULL => printed[j] < dump_list'[k]
    BY <1>2 DEF PrintedInv
  <2>2. QED
    BY <1>1, <1>4, <2>1 DEF PrintedInv
<1>11. QED
  BY <1>3, <1>5, <1>6, <1>8, <1>9, <1>10

LEMMA AdvanceHeadKeeps ==
  ASSUME DumpInv, OneLcore, AdvanceHead
  PROVE  DumpInv'
<1> USE DEF DumpInv, AdvanceHead, fields, rx, cli
<1>1. dump_head \in Slots /\ cli_pc = "idle" /\ dump_head < dump_tail
  BY EndsInArray DEF CountInv, Printing
<1>2. dump_head' = dump_head + 1 /\ dump_head + 1 \in UInt8
  BY <1>1, EndsInArray, DumpAssumption DEF Slots, UInt8
<1>3. DumpTypes'
  BY <1>2 DEF DumpTypes
<1>4. at' = at /\ ahead' = ahead /\ nb' = nb
  BY DEF at, ahead, nb
<1>5. CountInv'
  BY <1>1, <1>2, <1>4, EndsInArray DEF CountInv, Printing
<1>6. CommandInv'
  BY <1>1 DEF CommandInv
<1>7. SlotInv'
  <2>1. \A k \in Slots : Filled(k)' <=> Filled(k) /\ k # dump_head
    BY <1>1, <1>2, <1>4, EndsInArray DEF Filled, Slots
  <2>2. QED
    BY <2>1 DEF SlotInv, NothingLeaks
<1>8. AheadInv'
  BY <1>4 DEF AheadInv
<1>9. PrintedInv'
  <2>1. Len(printed) = dump_head + 1
    BY <1>1 DEF PrintedInv
  <2>2. QED
    BY <1>2, <1>4, <2>1 DEF PrintedInv
<1>10. QED
  BY <1>3, <1>5, <1>6, <1>7, <1>8, <1>9

-----------------------------------------------------------------------------
(***************************************************************************)
(* The lcore.                                                              *)
(***************************************************************************)
LEMMA CounterTypes ==
  ASSUME DumpInv
  PROVE  /\ dump_head \in Nat /\ dump_tail \in Nat /\ dump_count \in Nat /\ dump_count <= 255
         /\ quota \in Nat /\ quota <= MAX_DUMP_PACKETS /\ packets \in Nat /\ packets <= MaxPackets
         /\ MAX_DUMP_PACKETS \in Nat /\ MAX_DUMP_PACKETS <= 255 /\ MaxPackets \in Nat
BY DumpAssumption DEF DumpInv, DumpTypes, UInt8

LEMMA LcoreTypes ==
  ASSUME DumpInv, OneLcore
  PROVE  /\ at \in {"poll", "dump", "advance", "count"} /\ ahead \in Seq(Blocks) /\ nb \in Nat
         /\ Len(ahead) \in Nat /\ \A j \in 1 .. Len(ahead) : ahead[j] \in Blocks /\ ahead[j] \in Nat
         /\ at # "poll" => cli_pc = "idle"
<1>1. at \in {"poll", "dump", "advance", "count"} /\ ahead \in Seq(Blocks) /\ nb \in Nat
  BY TheLcore DEF DumpInv, DumpTypes, at, ahead, nb
<1>2. Len(ahead) \in Nat /\ \A j \in 1 .. Len(ahead) : ahead[j] \in Blocks
  BY <1>1
<1>3. \A b \in Blocks : b \in Nat
  BY DumpAssumption DEF Blocks
<1>4. QED
  BY <1>1, <1>2, <1>3, DumpAssumption DEF DumpInv, CommandInv

LEMMA BulkKeeps ==
  ASSUME DumpInv, OneLcore, DumpBulk(lcore)
  PROVE  DumpInv'
<1> USE DEF DumpInv, fields, timer, cli
<1>1. at = "poll" /\ dump_count > 0 /\ Len(ahead) = 0
  BY DEF DumpBulk, at, CountInv
<1>2. cli_pc = "idle"
  BY <1>1, CounterTypes DEF CommandInv
<1>3. PICK n \in Bursts :
        /\ packets + n <= MaxPackets /\ packets' = packets + n
        /\ nb_dump' = [nb_dump EXCEPT ![lcore] = Least({n, dump_count, MAX_DUMP_PACKETS - dump_tail})]
        /\ burst' = [burst EXCEPT ![lcore] =
                        [k \in 1 .. Least({n, dump_count, MAX_DUMP_PACKETS - dump_tail}) |-> packets + k]]
        /\ rx_pc' = [rx_pc EXCEPT ![lcore] =
                        IF Least({n, dump_count, MAX_DUMP_PACKETS - dump_tail}) = 0 THEN "poll" ELSE "dump"]
  BY DEF DumpBulk
<1>4. PICK m : m = Least({n, dump_count, MAX_DUMP_PACKETS - dump_tail})
  OBVIOUS
<1>5. n \in Nat /\ n > 0
  BY DumpAssumption
<1>6. dump_tail + dump_count = quota
  BY <1>1, <1>2, CounterTypes DEF CountInv
<1>7. m \in {n, dump_count, MAX_DUMP_PACKETS - dump_tail} /\ m <= n /\ m <= dump_count
  <2>1. n \in Int /\ dump_count \in Int /\ MAX_DUMP_PACKETS - dump_tail \in Int
    BY <1>5, CounterTypes, DumpAssumption
  <2>2. QED
    BY <1>4, <2>1, LeastOfThree
<1>8. m \in Nat /\ m > 0
  <2>1. /\ dump_tail \in Nat /\ dump_count \in Nat /\ quota \in Nat /\ MAX_DUMP_PACKETS \in Nat
        /\ quota <= MAX_DUMP_PACKETS
    BY CounterTypes
  <2>2. MAX_DUMP_PACKETS - dump_tail \in Nat /\ MAX_DUMP_PACKETS - dump_tail > 0
    BY <1>1, <1>6, <2>1
  <2>3. QED
    BY <1>1, <1>5, <1>7, <2>1, <2>2
<1>9. /\ nb' = m /\ ahead' = [k \in 1 .. m |-> packets + k] /\ at' = "dump"
      /\ rx_pc' \in [Lcores -> {"poll", "dump", "advance", "count"}] /\ nb_dump' \in [Lcores -> Nat]
  BY <1>3, <1>4, <1>8, TheLcore DEF DumpTypes, nb, ahead, at
<1>10. Len(ahead') = m /\ \A j \in 1 .. m : ahead'[j] = packets + j
  BY <1>8, <1>9
<1>11. ahead' \in Seq(Blocks)
  <2>1. \A j \in 1 .. m : packets + j \in Blocks
    BY <1>3, <1>5, <1>7, <1>8, CounterTypes, DumpAssumption DEF Blocks
  <2>2. QED
    BY <1>8, <1>9, <2>1
<1>12. burst' \in [Lcores -> Seq(Blocks)]
  BY <1>3, <1>4, <1>9, <1>11, TheLcore DEF DumpTypes, ahead
<1>13. DumpTypes'
  <2>1. packets' \in 0 .. MaxPackets
    BY <1>3, <1>5, CounterTypes, DumpAssumption
  <2>2. QED
    BY <1>9, <1>12, <2>1 DEF DumpTypes, DumpBulk
<1>14. UNCHANGED <<dump_list, dump_head, dump_tail, dump_count, timer_pc, pdata, cli_pc, cnt, heap,
                   corrupt, printed, quota>>
  BY DEF DumpBulk
<1>15. CountInv'
  <2>1. dump_tail + m + dump_count = quota + m
    BY <1>6, <1>8, CounterTypes
  <2>2. Printing' = Printing
    BY <1>14 DEF Printing
  <2>3. QED
    BY <1>2, <1>7, <1>8, <1>9, <1>10, <1>14, <2>1, <2>2 DEF CountInv
<1>16. CommandInv'
  BY <1>2, <1>14 DEF CommandInv
<1>17. \A b \in Int : b <= packets => b <= packets'
  BY <1>3, <1>5, CounterTypes
<1>18. dump_list \in [Slots -> Int] /\ \A j \in 1 .. Len(printed) : printed[j] \in Int
  BY DumpAssumption DEF DumpTypes, Blocks, NULL
<1>19. SlotInv'
  <2>1. \A k \in Slots : dump_list[k] <= packets'
    BY <1>17, <1>18 DEF SlotInv
  <2>2. \A k \in Slots : Filled(k)' <=> Filled(k)
    BY <1>1, <1>9, <1>14 DEF Filled
  <2>3. QED
    BY <1>14, <2>1, <2>2 DEF SlotInv, NothingLeaks
<1>20. AheadInv'
  <2>1. \A j \in 1 .. m : ahead'[j] <= packets'
    BY <1>3, <1>5, <1>7, <1>8, <1>10, CounterTypes
  <2>2. \A j, l \in 1 .. m : j < l => ahead'[j] < ahead'[l]
    BY <1>10, <1>8, CounterTypes
  <2>3. \A k \in Slots, j \in 1 .. m : dump_list[k] < ahead'[j]
    BY <1>10, <1>8, <1>18, CounterTypes DEF SlotInv
  <2>4. QED
    BY <1>10, <1>14, <2>1, <2>2, <2>3 DEF AheadInv
<1>21. PrintedInv'
  <2>1. \A j \in 1 .. Len(printed) : printed[j] <= packets'
    BY <1>17, <1>18 DEF PrintedInv
  <2>2. \A j \in 1 .. Len(printed), l \in 1 .. m : printed[j] < ahead'[l]
    BY <1>10, <1>8, <1>18, CounterTypes DEF PrintedInv
  <2>3. QED
    BY <1>10, <1>14, <2>1, <2>2 DEF PrintedInv
<1>22. QED
  BY <1>13, <1>14, <1>15, <1>16, <1>19, <1>20, <1>21

LEMMA CopyKeeps ==
  ASSUME DumpInv, OneLcore, PacketDump(lcore)
  PROVE  DumpInv'
<1> USE DEF DumpInv, fields, timer, cli
<1>1. at = "dump"
  BY DEF PacketDump, at
<1>2. cli_pc = "idle" /\ dump_tail \in Slots /\ Len(ahead) > 0
  BY <1>1, LcoreTypes, EndsInArray DEF CountInv
<1>3. /\ UNCHANGED <<dump_head, dump_tail, dump_count, burst, nb_dump, timer_pc, pdata, cli_pc, cnt,
                     commands, packets, printed, quota>>
      /\ rx_pc' = [rx_pc EXCEPT ![lcore] = "advance"]
      /\ dump_list' = [dump_list EXCEPT ![dump_tail] = Head(ahead)]
      /\ heap' = (heap \ {Slot(dump_tail)}) \cup {Head(ahead)}
      /\ corrupt' = (corrupt \/ dump_tail \notin Slots
                     \/ (Slot(dump_tail) # NULL /\ Slot(dump_tail) \notin heap))
  BY DEF PacketDump, ahead
<1>4. PICK b : b = Head(ahead)
  OBVIOUS
<1>5. b = ahead[1] /\ b \in Blocks /\ b \in Nat /\ b # NULL /\ 1 \in 1 .. Len(ahead)
  <2>1. b = ahead[1] /\ 1 \in 1 .. Len(ahead)
    BY <1>2, <1>4, LcoreTypes
  <2>2. QED
    BY <2>1, LcoreTypes DEF Blocks, NULL
<1>6. Slot(dump_tail) = NULL /\ dump_list[dump_tail] = NULL
  BY <1>1, <1>2, CounterTypes DEF Slot, SlotInv, Filled
<1>7. NULL \notin heap
  BY DEF DumpTypes, Blocks, NULL
<1>8. heap' = heap \cup {b} /\ corrupt' = FALSE
  BY <1>2, <1>3, <1>4, <1>6, <1>7
<1>9. /\ dump_list'[dump_tail] = b
      /\ \A k \in Slots : k # dump_tail => dump_list'[k] = dump_list[k]
      /\ dump_list' \in [Slots -> Blocks \cup {NULL}]
  BY <1>2, <1>3, <1>4, <1>5 DEF DumpTypes
<1>10. at' = "advance" /\ ahead' = ahead /\ nb' = nb
       /\ rx_pc' \in [Lcores -> {"poll", "dump", "advance", "count"}]
  BY <1>3, TheLcore DEF DumpTypes, at, ahead, nb
<1>11. DumpTypes'
  BY <1>3, <1>5, <1>8, <1>9, <1>10 DEF DumpTypes
<1>12. CountInv'
  BY <1>1, <1>3, <1>10 DEF CountInv, Printing
<1>13. CommandInv'
  BY <1>2, <1>3 DEF CommandInv
<1>14. dump_list \in [Slots -> Int] /\ \A k \in Slots : k \in Int
  BY DumpAssumption DEF DumpTypes, Blocks, NULL, Slots
<1>15. \A k \in Slots : dump_list[k] < b
  BY <1>1, <1>5 DEF AheadInv
<1>16. SlotInv'
  <2>1. \A k \in Slots : Filled(k)' <=> Filled(k) \/ k = dump_tail
    BY <1>1, <1>3, <1>10 DEF Filled
  <2>2. Printing => dump_head # dump_tail
    BY CounterTypes DEF CountInv
  <2>3. timer_pc' \in {"clear", "advance"} => dump_head # dump_tail
    BY <1>3, <2>2 DEF Printing
  <2>4. \A k \in Slots :
          dump_list'[k] # NULL <=> Filled(k)' /\ ~(timer_pc = "advance" /\ k = dump_head)
    BY <1>3, <1>5, <1>9, <2>1, <2>3 DEF SlotInv
  <2>5. \A k \in Slots : dump_list[k] # NULL => k < dump_tail
    <3>1. TAKE k \in Slots
    <3>2. HAVE dump_list[k] # NULL
    <3>3. Filled(k)
      BY <3>2 DEF SlotInv
    <3>4. QED
      BY <1>1, <3>3 DEF Filled
  <2>6. \A k, l \in Slots : k < l /\ dump_list'[k] # NULL /\ dump_list'[l] # NULL
          => dump_list'[k] < dump_list'[l]
    <3>1. TAKE k, l \in Slots
    <3>2. HAVE k < l /\ dump_list'[k] # NULL /\ dump_list'[l] # NULL
    <3>3. CASE l = dump_tail
      BY <1>9, <1>14, <1>15, <3>2, <3>3
    <3>4. CASE l # dump_tail
      <4>1. k # dump_tail
        BY <1>2, <1>9, <1>14, <2>5, <3>2, <3>4
      <4>2. QED
        BY <1>9, <3>2, <3>4, <4>1 DEF SlotInv
    <3>5. QED
      BY <3>3, <3>4
  <2>7. \A k \in Slots : dump_list'[k] # NULL =>
          (dump_list'[k] \in heap' <=> ~(timer_pc = "clear" /\ k = dump_head))
    <3>1. TAKE k \in Slots
    <3>2. HAVE dump_list'[k] # NULL
    <3>3. CASE k = dump_tail
      BY <1>3, <1>8, <1>9, <2>3, <3>3
    <3>4. CASE k # dump_tail
      <4>1. dump_list'[k] = dump_list[k] /\ dump_list[k] # b
        BY <1>5, <1>9, <1>14, <1>15, <3>4
      <4>2. QED
        BY <1>8, <3>2, <4>1 DEF SlotInv
    <3>5. QED
      BY <3>3, <3>4
  <2>8. \A e \in heap' : \E k \in Slots : dump_list'[k] = e
    <3>1. TAKE e \in heap'
    <3>2. CASE e = b
      BY <1>2, <1>9, <3>2
    <3>3. CASE e \in heap
      <4>1. PICK k \in Slots : dump_list[k] = e
        BY <3>3 DEF SlotInv, NothingLeaks
      <4>2. k # dump_tail
        BY <1>6, <1>7, <3>3, <4>1
      <4>3. QED
        BY <1>9, <4>1, <4>2
    <3>4. QED
      BY <1>8, <3>2, <3>3
  <2>9. \A k \in Slots : dump_list'[k] <= packets
    BY <1>5, <1>9 DEF SlotInv, AheadInv
  <2>10. QED
    BY <1>3, <2>4, <2>6, <2>7, <2>8, <2>9 DEF SlotInv, NothingLeaks
<1>17. AheadInv'
  <2>1. \A k \in Slots, j \in 1 .. Len(ahead) : dump_list'[k] < ahead[j] \/ (k = dump_tail /\ j = 1)
    <3>1. TAKE k \in Slots, j \in 1 .. Len(ahead)
    <3>2. CASE k = dump_tail /\ j # 1
      <4>1. 1 < j
        BY <3>2, LcoreTypes
      <4>2. QED
        BY <1>5, <1>9, <3>2, <4>1 DEF AheadInv
    <3>3. CASE k # dump_tail
      BY <1>1, <1>9, <3>3 DEF AheadInv
    <3>4. QED
      BY <3>2, <3>3
  <2>2. QED
    BY <1>3, <1>10, <2>1 DEF AheadInv
<1>18. PrintedInv'
  <2>1. Len(printed) \in Nat
    BY DEF DumpTypes
  <2>2. \A j \in 1 .. Len(printed) : printed[j] < b
    BY <1>5 DEF PrintedInv
  <2>3. \A j \in 1 .. Len(printed), k \in Slots : dump_list'[k] # NULL =>
          printed[j] < dump_list'[k]
          \/ (timer_pc \in {"free", "clear"} /\ k = dump_head /\ j = Len(printed))
    BY <1>9, <2>2 DEF PrintedInv
  <2>4. timer_pc = "print" => dump_head # dump_tail /\ dump_head \in Slots
    BY EndsInArray, CounterTypes DEF CountInv, Printing
  <2>5. timer_pc = "print" => pdata = dump_list'[dump_head]
    BY <1>9, <2>4 DEF PrintedInv
  <2>6. QED
    BY <1>3, <1>10, <2>3, <2>5 DEF PrintedInv
<1>19. QED
  BY <1>8, <1>11, <1>12, <1>13, <1>16, <1>17, <1>18

LEMMA AdvanceTailKeeps ==
  ASSUME DumpInv, OneLcore, AdvanceTail(lcore)
  PROVE  DumpInv'
<1> USE DEF DumpInv, fields, timer, cli
<1>1. at = "advance"
  BY DEF AdvanceTail, at
<1>2. cli_pc = "idle" /\ dump_tail \in Slots /\ Len(ahead) > 0 /\ Len(ahead) \in Nat
  BY <1>1, LcoreTypes, EndsInArray DEF CountInv
<1>3. /\ UNCHANGED <<dump_list, dump_head, dump_count, nb_dump, timer_pc, pdata, cli_pc, cnt,
                     commands, heap, corrupt, packets, printed, quota>>
      /\ dump_tail' = (dump_tail + 1) % 256
      /\ burst' = [burst EXCEPT ![lcore] = Tail(ahead)]
      /\ rx_pc' = [rx_pc EXCEPT ![lcore] = IF Len(ahead) > 1 THEN "dump" ELSE "count"]
  BY DEF AdvanceTail, ahead
<1>4. dump_tail' = dump_tail + 1 /\ dump_tail + 1 \in UInt8 /\ dump_head <= dump_tail
  <2>1. dump_tail \in Nat /\ dump_tail + 1 <= 255
    BY <1>2, CounterTypes DEF Slots
  <2>2. dump_tail' = dump_tail + 1
    BY <1>3, <2>1
  <2>3. dump_head <= dump_tail
    BY <1>2 DEF CountInv
  <2>4. QED
    BY <2>1, <2>2, <2>3 DEF UInt8
<1>5. /\ Tail(ahead) \in Seq(Blocks) /\ Len(Tail(ahead)) = Len(ahead) - 1
      /\ \A j \in 1 .. Len(ahead) - 1 : Tail(ahead)[j] = ahead[j + 1]
  BY <1>2, LcoreTypes
<1>6. /\ ahead' = Tail(ahead) /\ nb' = nb /\ at' = IF Len(ahead) > 1 THEN "dump" ELSE "count"
      /\ rx_pc' \in [Lcores -> {"poll", "dump", "advance", "count"}]
      /\ burst' \in [Lcores -> Seq(Blocks)]
  BY <1>3, <1>5, TheLcore DEF DumpTypes, at, ahead, nb
<1>7. DumpTypes'
  BY <1>3, <1>4, <1>6 DEF DumpTypes
<1>8. CountInv'
  <2>1. dump_tail + Len(ahead) + dump_count = quota + nb /\ nb <= dump_count
    BY <1>1, <1>2 DEF CountInv
  <2>2. Len(ahead') = Len(ahead) - 1
    BY <1>5, <1>6
  <2>3. dump_tail' + Len(ahead') + dump_count = quota + nb
    BY <1>2, <1>4, <2>1, <2>2, CounterTypes
  <2>4. (Printing => dump_head < dump_tail)'
    BY <1>3, <1>4, CounterTypes DEF CountInv, Printing
  <2>5. dump_head <= dump_tail' /\ nb <= dump_count
    BY <1>4, <2>1, CounterTypes
  <2>6. CASE Len(ahead) > 1
    <3>1. at' = "dump" /\ Len(ahead') > 0
      BY <1>2, <1>6, <2>2, <2>6
    <3>2. QED
      BY <1>3, <1>6, <2>3, <2>4, <2>5, <3>1 DEF CountInv
  <2>7. CASE Len(ahead) = 1
    <3>1. at' = "count" /\ Len(ahead') = 0
      BY <1>6, <2>2, <2>7
    <3>2. dump_tail' + dump_count = quota + nb
      BY <1>4, <2>3, <3>1, CounterTypes
    <3>3. QED
      BY <1>3, <1>6, <2>4, <2>5, <3>1, <3>2 DEF CountInv
  <2>8. \A n \in Nat : n > 0 => n > 1 \/ n = 1
    OBVIOUS
  <2>9. QED
    BY <1>2, <2>6, <2>7, <2>8, Zenon
<1>9. CommandInv'
  BY <1>2, <1>3 DEF CommandInv
<1>10. SlotInv'
  <2>1. \A k \in Slots : Filled(k)' <=> Filled(k)
    BY <1>1, <1>3, <1>4, <1>6, CounterTypes DEF Filled, Slots
  <2>2. QED
    BY <1>3, <2>1 DEF SlotInv, NothingLeaks
<1>11. \A j \in 1 .. Len(ahead') : j + 1 \in 1 .. Len(ahead) /\ j + 1 # 1 /\ ahead'[j] = ahead[j + 1]
  BY <1>2, <1>5, <1>6
<1>12. AheadInv'
  <2>1. \A j \in 1 .. Len(ahead') : ahead'[j] <= packets
    BY <1>11 DEF AheadInv
  <2>2. \A j, l \in 1 .. Len(ahead') : j < l => ahead'[j] < ahead'[l]
    <3>1. TAKE j, l \in 1 .. Len(ahead')
    <3>2. HAVE j < l
    <3>3. j + 1 < l + 1
      BY <1>5, <1>6, <3>2
    <3>4. QED
      BY <1>11, <3>3 DEF AheadInv
  <2>3. \A k \in Slots, j \in 1 .. Len(ahead') : dump_list[k] < ahead'[j]
    BY <1>11 DEF AheadInv
  <2>4. QED
    BY <1>3, <2>1, <2>2, <2>3 DEF AheadInv
<1>13. PrintedInv'
  <2>1. \A j \in 1 .. Len(printed), l \in 1 .. Len(ahead') : printed[j] < ahead'[l]
    BY <1>11 DEF PrintedInv
  <2>2. QED
    BY <1>3, <2>1 DEF PrintedInv
<1>14. QED
  BY <1>3, <1>7, <1>8, <1>9, <1>10, <1>12, <1>13

LEMMA CountKeeps ==
  ASSUME DumpInv, OneLcore, Count(lcore)
  PROVE  DumpInv'
<1> USE DEF DumpInv, fields, timer, cli
<1>1. at = "count"
  BY DEF Count, at
<1>2. cli_pc = "idle" /\ nb \in Nat /\ nb <= dump_count /\ dump_tail + dump_count = quota + nb
      /\ Len(ahead) = 0
  BY <1>1, LcoreTypes DEF CountInv
<1>3. /\ UNCHANGED <<dump_list, dump_head, dump_tail, burst, nb_dump, timer_pc, pdata, cli_pc, cnt,
                     commands, heap, corrupt, packets, printed, quota>>
      /\ dump_count' = (dump_count - nb) % 256
      /\ rx_pc' = [rx_pc EXCEPT ![lcore] = "poll"]
  BY DEF Count, nb
<1>4. dump_count' = dump_count - nb /\ dump_count - nb \in UInt8
  <2>1. nb \in Nat /\ nb <= dump_count /\ dump_count \in Nat /\ dump_count <= 255
    BY <1>2, CounterTypes
  <2>2. dump_count - nb \in 0 .. 255
    BY <2>1
  <2>3. QED
    BY <1>3, <2>2 DEF UInt8
<1>5. /\ ahead' = ahead /\ nb' = nb /\ at' = "poll"
      /\ rx_pc' \in [Lcores -> {"poll", "dump", "advance", "count"}]
  BY <1>3, TheLcore DEF DumpTypes, at, ahead, nb
<1>6. DumpTypes'
  BY <1>3, <1>4, <1>5 DEF DumpTypes
<1>7. CountInv'
  <2>1. dump_tail + dump_count' = quota
    BY <1>2, <1>4, CounterTypes
  <2>2. dump_head <= dump_tail
    BY <1>2 DEF CountInv
  <2>3. (Printing => dump_head < dump_tail)'
    BY <1>3 DEF CountInv, Printing
  <2>4. QED
    BY <1>2, <1>3, <1>5, <2>1, <2>2, <2>3 DEF CountInv
<1>8. CommandInv'
  BY <1>2, <1>3 DEF CommandInv
<1>9. SlotInv'
  <2>1. \A k \in Slots : Filled(k)' <=> Filled(k)
    BY <1>1, <1>3, <1>5 DEF Filled
  <2>2. QED
    BY <1>3, <2>1 DEF SlotInv, NothingLeaks
<1>10. AheadInv'
  BY <1>2, <1>3, <1>5 DEF AheadInv
<1>11. PrintedInv'
  BY <1>3, <1>5 DEF PrintedInv
<1>12. QED
  BY <1>3, <1>6, <1>7, <1>8, <1>9, <1>10, <1>11

-----------------------------------------------------------------------------
(***************************************************************************)
(* The command.                                                            *)
(***************************************************************************)

\* Where nothing is going on and nothing is stored every slot is empty.
LEMMA SlotsAreEmpty ==
  ASSUME DumpInv, OneLcore, at = "poll", dump_head >= dump_tail
  PROVE  (\A k \in Slots : dump_list[k] = NULL /\ ~Filled(k)) /\ heap = {}
<1> USE DEF DumpInv
<1>1. \A k \in Slots : ~Filled(k)
  BY CounterTypes DEF Filled, Slots
<1>2. \A k \in Slots : dump_list[k] = NULL
  BY <1>1 DEF SlotInv
<1>3. heap = {}
  BY <1>2 DEF SlotInv, NothingLeaks, DumpTypes, Blocks, NULL
<1>4. QED
  BY <1>1, <1>2, <1>3

LEMMA SetDumpKeeps ==
  ASSUME DumpInv, OneLcore, Quiet, NEW n \in Asked, SetDump(n)
  PROVE  DumpInv'
<1> USE DEF DumpInv, fields, rx, timer
<1>1. timer_pc = "tick" /\ ~(dump_head < dump_tail) /\ at = "poll" /\ cli_pc = "idle"
  BY TheLcore DEF SetDump, MayCommand, at
<1>2. /\ UNCHANGED <<dump_list, dump_head, dump_tail, rx_pc, burst, nb_dump, timer_pc, pdata, heap,
                     corrupt, packets>>
      /\ cnt' = Least({n, MAX_DUMP_PACKETS}) /\ quota' = cnt' /\ dump_count' = 0
      /\ cli_pc' = "tail" /\ commands' = commands + 1 /\ commands < MaxCommands /\ printed' = <<>>
  BY DEF SetDump, MayCommand
<1>3. cnt' \in 0 .. MAX_DUMP_PACKETS
  <2>1. n \in Nat /\ MAX_DUMP_PACKETS \in Nat
    BY DumpAssumption
  <2>2. n \in Int /\ MAX_DUMP_PACKETS \in Int
    BY <2>1
  <2>3. /\ Least({n, MAX_DUMP_PACKETS}) \in {n, MAX_DUMP_PACKETS}
        /\ Least({n, MAX_DUMP_PACKETS}) <= MAX_DUMP_PACKETS
    BY <2>2, LeastOfTwo
  <2>4. QED
    BY <1>2, <2>1, <2>3
<1>4. DumpTypes'
  BY <1>2, <1>3, DumpAssumption DEF DumpTypes, UInt8
<1>5. at' = at /\ ahead' = ahead /\ nb' = nb
  BY <1>2 DEF at, ahead, nb
<1>6. CountInv'
  BY <1>1, <1>2, <1>5 DEF CountInv, Printing
<1>7. CommandInv'
  <2>1. dump_tail <= MAX_DUMP_PACKETS
    BY EndsInArray
  <2>2. dump_head = dump_tail
    BY <1>1, CounterTypes DEF CountInv
  <2>3. QED
    BY <1>1, <1>2, <1>5, <2>1, <2>2 DEF CommandInv, Printing
<1>8. SlotInv'
  BY <1>2, <1>5 DEF SlotInv, Filled, NothingLeaks
<1>9. AheadInv'
  BY <1>2, <1>5 DEF AheadInv
<1>10. PrintedInv'
  BY <1>1, <1>2, <1>5 DEF PrintedInv
<1>11. QED
  BY <1>2, <1>4, <1>6, <1>7, <1>8, <1>9, <1>10

LEMMA ResetsKeep ==
  ASSUME DumpInv, OneLcore, ResetTail \/ ResetHead
  PROVE  DumpInv'
<1> USE DEF DumpInv, fields, rx, timer
<1>1. /\ UNCHANGED <<dump_list, dump_count, rx_pc, burst, nb_dump, timer_pc, pdata, cnt, commands,
                     heap, corrupt, packets, printed, quota>>
      /\ \/ cli_pc = "tail" /\ cli_pc' = "head" /\ dump_tail' = 0 /\ dump_head' = dump_head
         \/ cli_pc = "head" /\ cli_pc' = "free" /\ dump_tail' = dump_tail /\ dump_head' = 0
  BY DEF ResetTail, ResetHead
<1>2. /\ at = "poll" /\ ~Printing /\ dump_count = 0 /\ cnt = quota /\ printed = <<>>
      /\ cli_pc = "tail" => dump_head = dump_tail
      /\ cli_pc = "head" => dump_tail = 0
  BY <1>1 DEF CommandInv
<1>3. dump_tail' = 0 /\ dump_head' \in Nat
  BY <1>1, <1>2, CounterTypes
<1>4. at' = at /\ ahead' = ahead /\ nb' = nb /\ Printing' = Printing
  BY <1>1 DEF at, ahead, nb, Printing
<1>5. DumpTypes'
  <2>1. 0 \in UInt8
    BY DEF UInt8
  <2>2. dump_tail' \in UInt8 /\ dump_head' \in UInt8
    BY <1>1, <2>1 DEF DumpTypes
  <2>3. QED
    BY <1>1, <2>2 DEF DumpTypes
<1>6. CountInv'
  BY <1>1, <1>2, <1>4 DEF CountInv
<1>7. CommandInv'
  BY <1>1, <1>2, <1>3, <1>4, DumpAssumption DEF CommandInv
<1>8. SlotInv'
  <2>1. ~(dump_head < dump_tail)
    BY <1>1, EndsInArray
  <2>2. \A k \in Slots : ~Filled(k) /\ ~Filled(k)'
    BY <1>2, <1>3, <1>4, <2>1, CounterTypes DEF Filled, Slots
  <2>3. \A k \in Slots : dump_list[k] = NULL
    BY <2>2 DEF SlotInv
  <2>4. QED
    BY <1>1, <2>2, <2>3 DEF SlotInv, NothingLeaks
<1>9. AheadInv'
  BY <1>1, <1>2, <1>4 DEF AheadInv, CountInv
<1>10. PrintedInv'
  BY <1>1, <1>2, <1>4 DEF PrintedInv, Printing
<1>11. QED
  BY <1>1, <1>5, <1>6, <1>7, <1>8, <1>9, <1>10

\* Slot 0 is empty when the command frees it: nothing happens.
LEMMA FreeSlotsKeeps ==
  ASSUME DumpInv, OneLcore, FreeSlots
  PROVE  DumpInv'
<1> USE DEF DumpInv, fields, rx, timer
<1>1. /\ at = "poll" /\ ~Printing /\ dump_count = 0 /\ cnt = quota /\ printed = <<>>
      /\ dump_tail = 0 /\ dump_head = 0 /\ dump_tail <= MAX_DUMP_PACKETS
  BY DEF CommandInv, FreeSlots
<1>2. dump_list[0] = NULL
  BY <1>1, SlotsAreEmpty, DumpAssumption DEF Slots
<1>3. dump_list' = dump_list
  BY <1>2 DEF FreeSlots, DumpTypes
<1>4. heap' = heap /\ corrupt' = corrupt
  BY <1>2 DEF FreeSlots, Free, DumpTypes, Blocks, NULL
<1>5. UNCHANGED <<dump_head, dump_tail, dump_count, rx_pc, burst, nb_dump, timer_pc, pdata, cnt,
                  commands, packets, printed, quota>> /\ cli_pc = "free" /\ cli_pc' = "count"
  BY DEF FreeSlots
<1>6. at' = at /\ ahead' = ahead /\ nb' = nb /\ Printing' = Printing
  BY <1>5 DEF at, ahead, nb, Printing
<1>7. DumpTypes'
  BY <1>3, <1>4, <1>5 DEF DumpTypes
<1>8. CountInv'
  BY <1>5, <1>6 DEF CountInv
<1>9. CommandInv'
  BY <1>1, <1>5, <1>6 DEF CommandInv
<1>10. SlotInv'
  BY <1>3, <1>4, <1>5, <1>6 DEF SlotInv, Filled, NothingLeaks
<1>11. AheadInv'
  BY <1>3, <1>5, <1>6 DEF AheadInv
<1>12. PrintedInv'
  BY <1>3, <1>5, <1>6 DEF PrintedInv
<1>13. QED
  BY <1>4, <1>7, <1>8, <1>9, <1>10, <1>11, <1>12

LEMMA SetCountKeeps ==
  ASSUME DumpInv, OneLcore, SetCount
  PROVE  DumpInv'
<1> USE DEF DumpInv, fields, rx, timer
<1>1. UNCHANGED <<dump_list, dump_head, dump_tail, rx_pc, burst, nb_dump, timer_pc, pdata, cnt,
                  commands, heap, corrupt, packets, printed, quota>>
      /\ cli_pc = "count" /\ cli_pc' = "idle" /\ dump_count' = cnt
  BY DEF SetCount
<1>2. /\ at = "poll" /\ ~Printing /\ dump_count = 0 /\ cnt = quota /\ printed = <<>>
      /\ dump_tail = 0 /\ dump_head = 0
  BY <1>1 DEF CommandInv
<1>3. at' = at /\ ahead' = ahead /\ nb' = nb /\ Printing' = Printing
  BY <1>1 DEF at, ahead, nb, Printing
<1>4. dump_count' \in UInt8
  <2>1. dump_count' = quota /\ quota \in Nat /\ quota <= MAX_DUMP_PACKETS
        /\ MAX_DUMP_PACKETS \in Nat /\ MAX_DUMP_PACKETS <= 255
    BY <1>1, <1>2, CounterTypes
  <2>2. QED
    BY <2>1 DEF UInt8
<1>5. DumpTypes'
  BY <1>1, <1>4 DEF DumpTypes
<1>6. CountInv'
  <2>1. dump_tail + dump_count' = quota
    BY <1>1, <1>2, CounterTypes
  <2>2. Len(ahead) = 0
    BY <1>2 DEF CountInv
  <2>3. QED
    BY <1>1, <1>2, <1>3, <2>1, <2>2 DEF CountInv
<1>7. CommandInv'
  BY <1>1 DEF CommandInv
<1>8. SlotInv'
  BY <1>1, <1>3 DEF SlotInv, Filled, NothingLeaks
<1>9. AheadInv'
  BY <1>1, <1>3 DEF AheadInv
<1>10. PrintedInv'
  <2>1. timer_pc' \notin {"free", "clear", "advance"} /\ Len(printed) = 0 /\ timer_pc # "print"
    BY <1>1, <1>2 DEF Printing
  <2>2. QED
    BY <1>1, <1>2, <1>3, <2>1 DEF PrintedInv
<1>11. QED
  BY <1>1, <1>5, <1>6, <1>7, <1>8, <1>9, <1>10

-----------------------------------------------------------------------------
(***************************************************************************)
(* All of it.                                                              *)
(***************************************************************************)
LEMMA UnmovedKeeps ==
  ASSUME DumpInv, UNCHANGED dumping
  PROVE  DumpInv'
<1> USE DEF DumpInv, dumping, fields, rx, timer, cli
<1>1. at' = at /\ ahead' = ahead /\ nb' = nb
  BY DEF at, ahead, nb
<1>2. DumpTypes' /\ CountInv' /\ CommandInv'
  BY <1>1 DEF DumpTypes, CountInv, CommandInv, Printing
<1>3. SlotInv' /\ AheadInv' /\ PrintedInv'
  BY <1>1 DEF SlotInv, AheadInv, PrintedInv, Filled, NothingLeaks
<1>4. QED
  BY <1>2, <1>3

LEMMA StepKeeps ==
  ASSUME DumpInv, OneLcore, Quiet, [Next]_all
  PROVE  DumpInv'
<1>1. CASE TimerTurn
  <2>1. UNCHANGED dumping \/ BeginPrint \/ PrintStep
    BY <1>1 DEF TimerTurn, Pages_, Statistics_, Log_, Dump_
  <2>2. QED
    BY <2>1, UnmovedKeeps, TurnKeeps, TestHeadKeeps, PrintKeeps, FreeKeeps, ClearKeeps,
       AdvanceHeadKeeps DEF PrintStep
<1>2. CASE ConsoleStep
  <2>1. UNCHANGED dumping \/ DumpCommandStep
    BY <1>2 DEF ConsoleStep, Pages_, Statistics_, Log_, Dump_
  <2>2. QED
    BY <2>1, UnmovedKeeps, ResetsKeep, FreeSlotsKeeps, SetCountKeeps DEF DumpCommandStep
<1>3. CASE NewCommand
  <2>1. UNCHANGED dumping \/ DumpCommand
    BY <1>3 DEF NewCommand, Pages_, Statistics_, Log_, Dump_, Theme_, DumpPaused
  <2>2. QED
    BY <2>1, UnmovedKeeps, SetDumpKeeps DEF DumpCommand
<1>4. CASE LcoreStep
  <2>1. UNCHANGED dumping \/ \E c \in Lcores : PacketDump(c) \/ AdvanceTail(c) \/ Count(c)
    BY <1>4 DEF LcoreStep, Pages_, Log_, Dump_
  <2>2. UNCHANGED dumping \/ PacketDump(lcore) \/ AdvanceTail(lcore) \/ Count(lcore)
    BY <2>1, TheLcore
  <2>3. QED
    BY <2>2, UnmovedKeeps, CopyKeeps, AdvanceTailKeeps, CountKeeps
<1>5. CASE LcoreReceives
  <2>1. UNCHANGED dumping \/ \E c \in Lcores : DumpBulk(c)
    BY <1>5 DEF LcoreReceives, Pages_, Statistics_, Log_, Dump_
  <2>2. UNCHANGED dumping \/ DumpBulk(lcore)
    BY <2>1, TheLcore
  <2>3. QED
    BY <2>2, UnmovedKeeps, BulkKeeps
<1>6. CASE UNCHANGED all
  BY <1>6, UnmovedKeeps DEF all
<1>7. QED
  BY <1>1, <1>2, <1>3, <1>4, <1>5, <1>6 DEF Next

LEMMA InvImpliesPrinted ==
  ASSUME DumpInv, OneLcore
  PROVE  CopiesArePrinted
<1> USE DEF DumpInv
<1>1. DumpTypeOK
  BY DEF DumpTypes, DumpTypeOK
<1>2. MemoryIsSafe /\ NothingLeaks
  BY DEF MemoryIsSafe, SlotInv
<1>3. WaitingAreAlive
  <2>1. SUFFICES ASSUME NEW k \in Slots, dump_head < k, k < dump_tail
                 PROVE  /\ dump_list[k] \in heap
                        /\ \A l \in Slots : l # k => dump_list[l] # dump_list[k]
    BY DEF WaitingAreAlive
  <2>2. dump_head # k /\ Filled(k)
    BY <2>1, CounterTypes DEF Filled, Slots
  <2>3. dump_list[k] # NULL
    BY <2>2 DEF SlotInv
  <2>4. dump_list[k] \in heap
    BY <2>2, <2>3 DEF SlotInv
  <2>5. ASSUME NEW l \in Slots, l # k, dump_list[l] = dump_list[k] PROVE FALSE
    <3>1. l < k \/ k < l
      BY <2>5 DEF Slots
    <3>2. dump_list[l] < dump_list[k] \/ dump_list[k] < dump_list[l]
      BY <2>3, <2>5, <3>1 DEF SlotInv
    <3>3. dump_list[k] \in Int
      BY DumpAssumption DEF DumpTypes, Blocks, NULL
    <3>4. QED
      BY <2>5, <3>2, <3>3
  <2>6. QED
    BY <2>4, <2>5
<1>4. NoMoreThanAsked
  <2>1. Len(printed) \in Nat
    BY DEF DumpTypes
  <2>2. CASE cli_pc # "idle"
    BY <2>2, CounterTypes DEF CommandInv, NoMoreThanAsked
  <2>3. CASE cli_pc = "idle"
    <3>1. Len(printed) <= dump_tail
      <4>1. CASE timer_pc \in {"free", "clear", "advance"}
        BY <2>3, <4>1, CounterTypes DEF PrintedInv, CountInv, Printing
      <4>2. CASE timer_pc \notin {"free", "clear", "advance"}
        BY <2>3, <4>2, CounterTypes DEF PrintedInv, CountInv
      <4>3. QED
        BY <4>1, <4>2
    <3>2. dump_tail <= quota
      <4>1. at \in {"poll", "dump", "advance", "count"} /\ nb \in Nat /\ Len(ahead) \in Nat
        BY LcoreTypes
      <4>2. CASE at = "poll"
        BY <2>3, <4>2, CounterTypes DEF CountInv
      <4>3. CASE at \in {"dump", "advance"}
        <5>1. dump_tail + Len(ahead) + dump_count = quota + nb /\ nb <= dump_count
          BY <2>3, <4>3 DEF CountInv
        <5>2. QED
          BY <4>1, <5>1, CounterTypes
      <4>4. CASE at = "count"
        <5>1. dump_tail + dump_count = quota + nb /\ nb <= dump_count
          BY <2>3, <4>4 DEF CountInv
        <5>2. QED
          BY <4>1, <5>1, CounterTypes
      <4>5. QED
        BY <4>1, <4>2, <4>3, <4>4
    <3>3. QED
      BY <2>1, <3>1, <3>2, CounterTypes DEF NoMoreThanAsked
  <2>4. QED
    BY <2>2, <2>3
<1>5. PrintedInOrder
  <2>1. Len(printed) \in Nat
    BY DEF DumpTypes
  <2>2. \A j \in 2 .. Len(printed) : j \in 1 .. Len(printed) /\ j - 1 \in 1 .. Len(printed) /\ j - 1 < j
    BY <2>1
  <2>3. QED
    BY <2>2 DEF PrintedInOrder, PrintedInv
<1>6. QED
  BY <1>1, <1>2, <1>3, <1>4, <1>5 DEF CopiesArePrinted

\* debug_set_port_dump, pktgen_packet_dump and pktgen_print_packet_dump with
\* one RX lcore and a command that waits until they rest: no copy is freed
\* twice, printed after it was freed, or lost, and what is printed is what
\* arrived, in order and no more than asked, whatever the bursts and the array.
THEOREM CopiesPrinted == OneLcore /\ Quiet /\ Spec => []CopiesArePrinted
<1> SUFFICES ASSUME OneLcore, Quiet
             PROVE  Spec => []CopiesArePrinted
  OBVIOUS
<1>1. Init => DumpInv
  BY DumpStarts DEF Init
<1>2. DumpInv /\ [Next]_all => DumpInv'
  BY StepKeeps
<1>3. DumpInv => CopiesArePrinted
  BY InvImpliesPrinted
<1>4. QED
  BY <1>1, <1>2, <1>3, PTL DEF Spec

-----------------------------------------------------------------------------
(***************************************************************************)
(* The colors.  A name is the first of the table that has the number, a    *)
(* number the first that has the name; what the lines of a file make of a  *)
(* theme is the fold that FoldLeft is defined by, found in closed form.    *)
(***************************************************************************)
\* The colors a theme may have, and its attributes.
ColorNumbers == 0 .. 7 \cup {9, 98}
AttrNumbers == {0, 1, 4, 5, 7, 8}

\* The first entry that satisfies the test of FirstWith.
LEMMA FirstIs ==
  ASSUME NEW k \in Nat, NEW F \in SUBSET Nat, k \in F, \A j \in F : k <= j
  PROVE  F # {} /\ Min(F) = k
<1>1. \A x \in F : (\A y \in F : x <= y) => x = k
  OBVIOUS
<1> QED
  BY <1>1 DEF Min

\* The tables, row by row.
LEMMA ColorTable ==
  /\ DOMAIN string_color_map = 1 .. 14
  /\ string_color_map[1] = <<"black", 0>> /\ string_color_map[2] = <<"white", 9>>
  /\ string_color_map[3] = <<"red", 1>> /\ string_color_map[4] = <<"green", 2>>
  /\ string_color_map[5] = <<"yellow", 3>> /\ string_color_map[6] = <<"blue", 4>>
  /\ string_color_map[7] = <<"magenta", 5>> /\ string_color_map[8] = <<"cyan", 6>>
  /\ string_color_map[9] = <<"white", 7>> /\ string_color_map[10] = <<"black", 9>>
  /\ string_color_map[11] = <<"default", 0>> /\ string_color_map[12] = <<"none", 98>>
  /\ string_color_map[13] = <<"default_fg", 7>> /\ string_color_map[14] = <<"default_bg", 0>>
  BY DEF string_color_map

LEMMA AttrTable ==
  /\ DOMAIN string_attr_map = 1 .. 9
  /\ string_attr_map[1] = <<"off", 0>> /\ string_attr_map[2] = <<"default", 0>>
  /\ string_attr_map[3] = <<"bold", 1>> /\ string_attr_map[4] = <<"bright", 1>>
  /\ string_attr_map[5] = <<"underscore", 4>> /\ string_attr_map[6] = <<"underline", 4>>
  /\ string_attr_map[7] = <<"blink", 5>> /\ string_attr_map[8] = <<"reverse", 7>>
  /\ string_attr_map[9] = <<"concealed", 8>>
  BY DEF string_attr_map

\* What a table is searched for is in the first row that has it.
LEMMA NameOfColor ==
  ASSUME NEW c, NEW k \in 1 .. 14, string_color_map[k][2] = c,
         \A j \in 1 .. k - 1 : string_color_map[j][2] # c
  PROVE  get_name_by_color(c) = string_color_map[k][1]
<1> DEFINE F == {j \in DOMAIN string_color_map : string_color_map[j][2] = c}
<1>1. F # {} /\ Min(F) = k
  <2>1. k \in F /\ F \in SUBSET Nat /\ k \in Nat /\ \A j \in F : k <= j
    BY ColorTable
  <2> HIDE DEF F
  <2> QED
    BY <2>1, FirstIs
<1> QED
  BY <1>1 DEF get_name_by_color, FirstWith

LEMMA ValueOfColor ==
  ASSUME NEW c, NEW k \in 1 .. 14, string_color_map[k][1] = c,
         \A j \in 1 .. k - 1 : string_color_map[j][1] # c
  PROVE  get_color_by_name(c) = string_color_map[k][2]
<1> DEFINE F == {j \in DOMAIN string_color_map : string_color_map[j][1] = c}
<1>1. F # {} /\ Min(F) = k
  <2>1. k \in F /\ F \in SUBSET Nat /\ k \in Nat /\ \A j \in F : k <= j
    BY ColorTable
  <2> HIDE DEF F
  <2> QED
    BY <2>1, FirstIs
<1> QED
  BY <1>1 DEF get_color_by_name, FirstWith

LEMMA NameOfAttr ==
  ASSUME NEW c, NEW k \in 1 .. 9, string_attr_map[k][2] = c,
         \A j \in 1 .. k - 1 : string_attr_map[j][2] # c
  PROVE  get_name_by_attr(c) = string_attr_map[k][1]
<1> DEFINE F == {j \in DOMAIN string_attr_map : string_attr_map[j][2] = c}
<1>1. F # {} /\ Min(F) = k
  <2>1. k \in F /\ F \in SUBSET Nat /\ k \in Nat /\ \A j \in F : k <= j
    BY AttrTable
  <2> HIDE DEF F
  <2> QED
    BY <2>1, FirstIs
<1> QED
  BY <1>1 DEF get_name_by_attr, FirstWith

LEMMA ValueOfAttr ==
  ASSUME NEW c, NEW k \in 1 .. 9, string_attr_map[k][1] = c,
         \A j \in 1 .. k - 1 : string_attr_map[j][1] # c
  PROVE  get_attr_by_name(c) = string_attr_map[k][2]
<1> DEFINE F == {j \in DOMAIN string_attr_map : string_attr_map[j][1] = c}
<1>1. F # {} /\ Min(F) = k
  <2>1. k \in F /\ F \in SUBSET Nat /\ k \in Nat /\ \A j \in F : k <= j
    BY AttrTable
  <2> HIDE DEF F
  <2> QED
    BY <2>1, FirstIs
<1> QED
  BY <1>1 DEF get_attr_by_name, FirstWith

\* The searches, for all numbers of the tables and the names they are given.
LEMMA ColorNames ==
  /\ get_name_by_color(0) = "black"
  /\ get_name_by_color(9) = "white"
  /\ get_name_by_color(1) = "red"
  /\ get_name_by_color(2) = "green"
  /\ get_name_by_color(3) = "yellow"
  /\ get_name_by_color(4) = "blue"
  /\ get_name_by_color(5) = "magenta"
  /\ get_name_by_color(6) = "cyan"
  /\ get_name_by_color(7) = "white"
  /\ get_name_by_color(98) = "none"
<1>1. get_name_by_color(0) = "black"
  BY ColorTable, NameOfColor
<1>2. get_name_by_color(9) = "white"
  BY ColorTable, NameOfColor
<1>3. get_name_by_color(1) = "red"
  BY ColorTable, NameOfColor
<1>4. get_name_by_color(2) = "green"
  BY ColorTable, NameOfColor
<1>5. get_name_by_color(3) = "yellow"
  BY ColorTable, NameOfColor
<1>6. get_name_by_color(4) = "blue"
  BY ColorTable, NameOfColor
<1>7. get_name_by_color(5) = "magenta"
  BY ColorTable, NameOfColor
<1>8. get_name_by_color(6) = "cyan"
  BY ColorTable, NameOfColor
<1>9. get_name_by_color(7) = "white"
  BY ColorTable, NameOfColor
<1>10. get_name_by_color(98) = "none"
  BY ColorTable, NameOfColor
<1> QED
  BY <1>1, <1>2, <1>3, <1>4, <1>5, <1>6, <1>7, <1>8, <1>9, <1>10

LEMMA ColorValues ==
  /\ get_color_by_name("black") = 0
  /\ get_color_by_name("white") = 9
  /\ get_color_by_name("red") = 1
  /\ get_color_by_name("green") = 2
  /\ get_color_by_name("yellow") = 3
  /\ get_color_by_name("blue") = 4
  /\ get_color_by_name("magenta") = 5
  /\ get_color_by_name("cyan") = 6
  /\ get_color_by_name("none") = 98
<1>1. get_color_by_name("black") = 0
  BY ColorTable, ValueOfColor
<1>2. get_color_by_name("white") = 9
  BY ColorTable, ValueOfColor
<1>3. get_color_by_name("red") = 1
  BY ColorTable, ValueOfColor
<1>4. get_color_by_name("green") = 2
  BY ColorTable, ValueOfColor
<1>5. get_color_by_name("yellow") = 3
  BY ColorTable, ValueOfColor
<1>6. get_color_by_name("blue") = 4
  BY ColorTable, ValueOfColor
<1>7. get_color_by_name("magenta") = 5
  BY ColorTable, ValueOfColor
<1>8. get_color_by_name("cyan") = 6
  BY ColorTable, ValueOfColor
<1>9. get_color_by_name("none") = 98
  BY ColorTable, ValueOfColor
<1> QED
  BY <1>1, <1>2, <1>3, <1>4, <1>5, <1>6, <1>7, <1>8, <1>9

LEMMA AttrNames ==
  /\ get_name_by_attr(0) = "off"
  /\ get_name_by_attr(1) = "bold"
  /\ get_name_by_attr(4) = "underscore"
  /\ get_name_by_attr(5) = "blink"
  /\ get_name_by_attr(7) = "reverse"
  /\ get_name_by_attr(8) = "concealed"
<1>1. get_name_by_attr(0) = "off"
  BY AttrTable, NameOfAttr
<1>2. get_name_by_attr(1) = "bold"
  BY AttrTable, NameOfAttr
<1>3. get_name_by_attr(4) = "underscore"
  BY AttrTable, NameOfAttr
<1>4. get_name_by_attr(5) = "blink"
  BY AttrTable, NameOfAttr
<1>5. get_name_by_attr(7) = "reverse"
  BY AttrTable, NameOfAttr
<1>6. get_name_by_attr(8) = "concealed"
  BY AttrTable, NameOfAttr
<1> QED
  BY <1>1, <1>2, <1>3, <1>4, <1>5, <1>6

LEMMA AttrValues ==
  /\ get_attr_by_name("off") = 0
  /\ get_attr_by_name("bold") = 1
  /\ get_attr_by_name("underscore") = 4
  /\ get_attr_by_name("blink") = 5
  /\ get_attr_by_name("reverse") = 7
  /\ get_attr_by_name("concealed") = 8
<1>1. get_attr_by_name("off") = 0
  BY AttrTable, ValueOfAttr
<1>2. get_attr_by_name("bold") = 1
  BY AttrTable, ValueOfAttr
<1>3. get_attr_by_name("underscore") = 4
  BY AttrTable, ValueOfAttr
<1>4. get_attr_by_name("blink") = 5
  BY AttrTable, ValueOfAttr
<1>5. get_attr_by_name("reverse") = 7
  BY AttrTable, ValueOfAttr
<1>6. get_attr_by_name("concealed") = 8
  BY AttrTable, ValueOfAttr
<1> QED
  BY <1>1, <1>2, <1>3, <1>4, <1>5, <1>6

\* A name that was written is read as the same number, but for white.
LEMMA NamesComeBack ==
  /\ \A c \in ColorNumbers :
       /\ get_color_by_name(get_name_by_color(c)) = Kept(c)
       /\ get_name_by_color(Kept(c)) = get_name_by_color(c)
       /\ Kept(c) \in ColorNumbers /\ Kept(c) # UnknownColor /\ Kept(Kept(c)) = Kept(c)
  /\ \A a \in AttrNumbers : get_attr_by_name(get_name_by_attr(a)) = a /\ a # UnknownAttr
<1>1. ASSUME NEW c \in ColorNumbers
      PROVE  /\ get_color_by_name(get_name_by_color(c)) = Kept(c)
             /\ get_name_by_color(Kept(c)) = get_name_by_color(c)
  BY ColorNames, ColorValues DEF ColorNumbers, Kept
<1>2. ASSUME NEW c \in ColorNumbers
      PROVE  Kept(c) \in ColorNumbers /\ Kept(c) # UnknownColor /\ Kept(Kept(c)) = Kept(c)
  BY DEF ColorNumbers, Kept, UnknownColor
<1>3. ASSUME NEW a \in AttrNumbers
      PROVE  get_attr_by_name(get_name_by_attr(a)) = a /\ a # UnknownAttr
  BY AttrNames, AttrValues DEF AttrNumbers, UnknownAttr
<1> QED
  BY <1>1, <1>2, <1>3

\* Every word has a number of the table, or none.
LEMMA NumbersOfWords ==
  ASSUME NEW word
  PROVE  /\ get_color_by_name(word) \in ColorNumbers \cup {UnknownColor}
         /\ get_attr_by_name(word) \in AttrNumbers \cup {UnknownAttr}
<1>1. get_color_by_name(word) \in ColorNumbers \cup {UnknownColor}
  <2> DEFINE F == {k \in DOMAIN string_color_map : string_color_map[k][1] = word}
  <2>1. get_color_by_name(word) = IF F = {} THEN UnknownColor ELSE string_color_map[Min(F)][2]
    BY DEF get_color_by_name, FirstWith
  <2>2. F \subseteq 1 .. 14
    BY ColorTable
  <2>3. \A k \in 1 .. 14 : string_color_map[k][2] \in ColorNumbers
    BY ColorTable DEF ColorNumbers
  <2> HIDE DEF F
  <2>4. F # {} => Min(F) \in F
    <3>1. F \subseteq Nat
      BY <2>2
    <3> QED
      BY <3>1, Leasts
  <2> QED
    BY <2>1, <2>2, <2>3, <2>4
<1>2. get_attr_by_name(word) \in AttrNumbers \cup {UnknownAttr}
  <2> DEFINE F == {k \in DOMAIN string_attr_map : string_attr_map[k][1] = word}
  <2>1. get_attr_by_name(word) = IF F = {} THEN UnknownAttr ELSE string_attr_map[Min(F)][2]
    BY DEF get_attr_by_name, FirstWith
  <2>2. F \subseteq 1 .. 9
    BY AttrTable
  <2>3. \A k \in 1 .. 9 : string_attr_map[k][2] \in AttrNumbers
    BY AttrTable DEF AttrNumbers
  <2> HIDE DEF F
  <2>4. F # {} => Min(F) \in F
    <3>1. F \subseteq Nat
      BY <2>2
    <3> QED
      BY <3>1, Leasts
  <2> QED
    BY <2>1, <2>2, <2>3, <2>4
<1> QED
  BY <1>1, <1>2

Elements == [fg : ColorNumbers, bg : ColorNumbers, attr : AttrNumbers]
Themes == [ThemeItems -> Elements]

\* A theme as the loading of its file brings it back.
Restored(t) == [item \in ThemeItems |-> [t[item] EXCEPT !.fg = Kept(@), !.bg = Kept(@)]]

LEMMA SetItemKeeps ==
  ASSUME NEW t \in Themes, NEW item, NEW fg, NEW bg, NEW attr
  PROVE  SetItem(t, item, fg, bg, attr) \in Themes
<1> DEFINE f == get_color_by_name(fg)
           b == get_color_by_name(bg)
           a == get_attr_by_name(attr)
<1>1. /\ f \in ColorNumbers \cup {UnknownColor} /\ b \in ColorNumbers \cup {UnknownColor}
      /\ a \in AttrNumbers \cup {UnknownAttr}
  BY NumbersOfWords
<1>2. SetItem(t, item, fg, bg, attr)
        = IF item \notin DOMAIN t \/ UnknownColor \in {f, b} \/ a = UnknownAttr THEN t
          ELSE [t EXCEPT ![item] = Colors(f, b, a)]
  BY DEF SetItem, Colors
<1> HIDE DEF f, b, a
<1>3. ASSUME f \in ColorNumbers, b \in ColorNumbers, a \in AttrNumbers
      PROVE  Colors(f, b, a) \in Elements
  BY <1>3 DEF Colors, Elements
<1> HIDE DEF Elements
<1>4. CASE f \in ColorNumbers /\ b \in ColorNumbers /\ a \in AttrNumbers
  BY <1>2, <1>3, <1>4 DEF Themes
<1>5. CASE ~(f \in ColorNumbers /\ b \in ColorNumbers /\ a \in AttrNumbers)
  BY <1>1, <1>2, <1>5
<1> QED
  BY <1>4, <1>5

\* The line of an element puts back its colors.
LEMMA LineRestores ==
  ASSUME NEW t \in Themes, NEW v \in Themes, NEW item \in ThemeItems
  PROVE  LET line == Line(item, v[item]) IN
         SetItem(t, line.item, line.fg, line.bg, line.attr)
           = [t EXCEPT ![item] = Restored(v)[item]]
<1> DEFINE c == v[item]
           line == Line(item, c)
<1>1. c.fg \in ColorNumbers /\ c.bg \in ColorNumbers /\ c.attr \in AttrNumbers
      /\ c = Colors(c.fg, c.bg, c.attr)
  BY DEF Themes, Elements, Colors
<1>2. /\ line.item = item /\ line.fg = get_name_by_color(c.fg)
      /\ line.bg = get_name_by_color(c.bg) /\ line.attr = get_name_by_attr(c.attr)
  BY DEF Line
<1>3. Restored(v)[item] = [c EXCEPT !.fg = Kept(@), !.bg = Kept(@)]
  BY DEF Restored
<1> HIDE DEF c, line
<1>4. Restored(v)[item] = Colors(Kept(c.fg), Kept(c.bg), c.attr)
  BY <1>1, <1>3 DEF Colors
<1>5. /\ get_color_by_name(line.fg) = Kept(c.fg) /\ get_color_by_name(line.bg) = Kept(c.bg)
      /\ get_attr_by_name(line.attr) = c.attr
      /\ Kept(c.fg) # UnknownColor /\ Kept(c.bg) # UnknownColor /\ c.attr # UnknownAttr
  BY <1>1, <1>2, NamesComeBack
<1>6. item \in DOMAIN t
  BY DEF Themes
<1>7. SetItem(t, line.item, line.fg, line.bg, line.attr)
        = [t EXCEPT ![item] = Colors(Kept(c.fg), Kept(c.bg), c.attr)]
  BY <1>2, <1>5, <1>6 DEF SetItem, Colors
<1> QED
  BY <1>4, <1>7 DEF line, c

LEMMA RestoredIsTheme ==
  ASSUME NEW v \in Themes
  PROVE  Restored(v) \in Themes /\ Restored(Restored(v)) = Restored(v)
<1>1. ASSUME NEW item \in ThemeItems
      PROVE  /\ Restored(v)[item] \in Elements
             /\ Restored(Restored(v))[item] = Restored(v)[item]
  <2> DEFINE c == v[item]
  <2>1. c.fg \in ColorNumbers /\ c.bg \in ColorNumbers /\ c.attr \in AttrNumbers
        /\ c = Colors(c.fg, c.bg, c.attr)
    BY DEF Themes, Elements, Colors
  <2>2. Restored(v)[item] = [c EXCEPT !.fg = Kept(@), !.bg = Kept(@)]
    BY DEF Restored
  <2>3. Restored(Restored(v))[item] = [Restored(v)[item] EXCEPT !.fg = Kept(@), !.bg = Kept(@)]
    BY DEF Restored
  <2> HIDE DEF c
  <2>4. Restored(v)[item] = Colors(Kept(c.fg), Kept(c.bg), c.attr)
    BY <2>1, <2>2 DEF Colors
  <2>5. /\ Kept(c.fg) \in ColorNumbers /\ Kept(Kept(c.fg)) = Kept(c.fg)
        /\ Kept(c.bg) \in ColorNumbers /\ Kept(Kept(c.bg)) = Kept(c.bg)
    BY <2>1, NamesComeBack
  <2>6. Restored(v)[item] \in Elements
    BY <2>1, <2>4, <2>5 DEF Colors, Elements
  <2>7. Restored(Restored(v))[item] = Colors(Kept(Kept(c.fg)), Kept(Kept(c.bg)), c.attr)
    <3> DEFINE e == Restored(v)[item]
    <3>1. e = [fg |-> Kept(c.fg), bg |-> Kept(c.bg), attr |-> c.attr]
      BY <2>4 DEF Colors
    <3>2. Restored(Restored(v))[item] = [e EXCEPT !.fg = Kept(e.fg), !.bg = Kept(e.bg)]
      BY <2>3
    <3> HIDE DEF e
    <3> QED
      BY <3>1, <3>2 DEF Colors
  <2> QED
    BY <2>4, <2>5, <2>6, <2>7
<1>2. \A t : Restored(t) = [item \in ThemeItems |-> Restored(t)[item]]
  BY DEF Restored
<1>3. Restored(v) \in Themes
  BY <1>1, <1>2 DEF Themes
<1> QED
  BY <1>1, <1>2, <1>3

\* The elements in the order of the file.
ItemSeq == SetToSeq(ThemeItems)
FileRows == 1 .. Cardinality(ThemeItems)

LEMMA ItemsInOrder ==
  /\ IsFiniteSet(FileRows) /\ FileRows \subseteq Nat /\ Cardinality(ThemeItems) \in Nat
  /\ ItemSeq \in [FileRows -> ThemeItems]
  /\ \A j, k \in FileRows : ItemSeq[j] = ItemSeq[k] => j = k
  /\ \A item \in ThemeItems : \E k \in FileRows : ItemSeq[k] = item
<1>1. IsFiniteSet(ThemeItems)
  <2>1. ThemeItems \subseteq {"default", "top.page", "stats.port.label", "stats.ip"}
    BY ItemsAssumption DEF theme_color_map
  <2>2. IsFiniteSet({"default", "top.page", "stats.port.label", "stats.ip"})
    <3>1. IsFiniteSet({"default"})
      BY FS_Singleton
    <3>2. IsFiniteSet({"default"} \cup {"top.page"})
      BY <3>1, FS_AddElement
    <3>3. IsFiniteSet(({"default"} \cup {"top.page"}) \cup {"stats.port.label"})
      BY <3>2, FS_AddElement
    <3>4. IsFiniteSet((({"default"} \cup {"top.page"}) \cup {"stats.port.label"}) \cup {"stats.ip"})
      BY <3>3, FS_AddElement
    <3>5. {"default", "top.page", "stats.port.label", "stats.ip"}
            = (({"default"} \cup {"top.page"}) \cup {"stats.port.label"}) \cup {"stats.ip"}
      OBVIOUS
    <3> QED
      BY <3>4, <3>5
  <2> QED
    BY <2>1, <2>2, FS_Subset
<1>2. Cardinality(ThemeItems) \in Nat /\ ExistsBijection(FileRows, ThemeItems)
  BY <1>1, FS_CardinalityType DEF FileRows
<1>3. IsFiniteSet(FileRows) /\ FileRows \subseteq Nat /\ Cardinality(FileRows) = Cardinality(ThemeItems)
  BY <1>2, FS_Interval DEF FileRows
<1>4. \E f \in [FileRows -> ThemeItems] : IsInjective(f)
  BY <1>2 DEF ExistsBijection, Bijection, Injection, IsInjective
<1>5. ItemSeq \in [FileRows -> ThemeItems] /\ IsInjective(ItemSeq)
  BY <1>4 DEF ItemSeq, SetToSeq, FileRows
<1>6. ItemSeq \in Injection(FileRows, ThemeItems)
  BY <1>5 DEF Injection, IsInjective
<1>7. ItemSeq \in Surjection(FileRows, ThemeItems)
  BY <1>1, <1>3, <1>6, FS_Injection
<1> QED
  BY <1>2, <1>3, <1>5, <1>7 DEF Surjection, IsInjective

LEMMA FileOfRows ==
  ASSUME NEW t
  PROVE  /\ DOMAIN FileOf(t) = FileRows
         /\ \A k \in FileRows : FileOf(t)[k] = Line(ItemSeq[k], t[ItemSeq[k]])
  BY ItemsInOrder DEF FileOf, ItemSeq

\* The same lines are written of a theme and of what its file restores.
LEMMA FileOfRestored ==
  ASSUME NEW v \in Themes
  PROVE  FileOf(Restored(v)) = FileOf(v)
<1>1. ASSUME NEW item \in ThemeItems
      PROVE  Line(item, Restored(v)[item]) = Line(item, v[item])
  <2> DEFINE c == v[item]
             e == Restored(v)[item]
  <2>1. c.fg \in ColorNumbers /\ c.bg \in ColorNumbers
        /\ c = [fg |-> c.fg, bg |-> c.bg, attr |-> c.attr]
    BY DEF Themes, Elements
  <2>2. e = [c EXCEPT !.fg = Kept(c.fg), !.bg = Kept(c.bg)]
    BY DEF Restored
  <2> HIDE DEF c, e
  <2>3. e.fg = Kept(c.fg) /\ e.bg = Kept(c.bg) /\ e.attr = c.attr
    BY <2>1, <2>2
  <2>4. get_name_by_color(e.fg) = get_name_by_color(c.fg)
        /\ get_name_by_color(e.bg) = get_name_by_color(c.bg)
    BY <2>1, <2>3, NamesComeBack
  <2>5. Line(item, e) = Line(item, c)
    BY <2>3, <2>4 DEF Line
  <2> QED
    BY <2>5 DEF c, e
<1>2. \A k \in FileRows : ItemSeq[k] \in ThemeItems
  BY ItemsInOrder
<1>3. \A t : FileOf(t) = [k \in FileRows |-> Line(ItemSeq[k], t[ItemSeq[k]])]
  BY ItemsInOrder DEF FileOf, ItemSeq
<1> QED
  BY <1>1, <1>2, <1>3

-----------------------------------------------------------------------------
\* g is what the lines of a file make of a theme, set by set of lines, the
\* last line last.
IsLoading(g, t, file_) ==
    g = [s \in SUBSET DOMAIN file_ |->
           IF s = {} THEN t
           ELSE LET x == Max(s)
                    line == file_[x]
                IN  SetItem(g[s \ {x}], line.item, line.fg, line.bg, line.attr)]

LoadingOf(t, file_) == CHOOSE g : IsLoading(g, t, file_)

LEMMA LoadedDef ==
  ASSUME NEW t, NEW file_
  PROVE  Loaded(t, file_) = LoadingOf(t, file_)[DOMAIN file_]
  BY DEF Loaded, FoldLeft, MapThenFoldSet, LoadingOf, IsLoading

\* A set of rows that has one has a last one.
LEMMA Lasts ==
  ASSUME NEW s \in SUBSET FileRows, s # {}
  PROVE  Max(s) \in s
<1> DEFINE n == Cardinality(ThemeItems)
           D == {n - k : k \in s}
<1>1. n \in Nat /\ \A k \in s : k \in Nat /\ k <= n
  <2>1. n \in Nat
    BY ItemsInOrder
  <2> QED
    BY <2>1 DEF FileRows
<1>2. D \subseteq Nat /\ D # {}
  BY <1>1
<1> HIDE DEF D
<1>3. Min(D) \in D /\ \A d \in D : Min(D) <= d
  BY <1>2, Leasts
<1> USE DEF D
<1>4. PICK k \in s : Min(D) = n - k
  BY <1>3
<1>5. ASSUME NEW j \in s PROVE k >= j
  <2>1. n - j \in D
    OBVIOUS
  <2> HIDE DEF D
  <2>2. n - k <= n - j
    BY <1>3, <1>4, <2>1
  <2> QED
    BY <1>1, <2>2
<1> QED
  BY <1>5 DEF Max

LEMMA UnfoldLoading ==
  ASSUME NEW g, NEW t, NEW file_, IsLoading(g, t, file_), NEW s \in SUBSET DOMAIN file_
  PROVE  g[s] = IF s = {} THEN t
                ELSE SetItem(g[s \ {Max(s)}], file_[Max(s)].item, file_[Max(s)].fg,
                             file_[Max(s)].bg, file_[Max(s)].attr)
<1> DEFINE r(u) == IF u = {} THEN t
                   ELSE SetItem(g[u \ {Max(u)}], file_[Max(u)].item, file_[Max(u)].fg,
                                file_[Max(u)].bg, file_[Max(u)].attr)
<1>1. g = [u \in SUBSET DOMAIN file_ |-> r(u)]
  BY DEF IsLoading
<1>2. [u \in SUBSET DOMAIN file_ |-> r(u)][s] = r(s)
  OBVIOUS
<1> HIDE DEF r
<1>3. g[s] = r(s)
  BY <1>1, <1>2, Zenon
<1> QED
  BY <1>3 DEF r

LEMMA LoadingsAgree ==
  ASSUME NEW g, NEW h, NEW t, NEW file_, DOMAIN file_ = FileRows,
         IsLoading(g, t, file_), IsLoading(h, t, file_)
  PROVE  g[FileRows] = h[FileRows]
<1> DEFINE F == {s \in SUBSET FileRows : g[s] # h[s]}
<1>1. ASSUME F # {} PROVE FALSE
  <2>1. PICK s \in F : \A u \in F : ~(u \subseteq s /\ u # s)
    <3>1. F \subseteq SUBSET FileRows
      OBVIOUS
    <3>2. IsFiniteSet(FileRows)
      BY ItemsInOrder
    <3> HIDE DEF F
    <3> QED
      BY <1>1, <3>1, <3>2, SmallestSubset
  <2>2. s \in SUBSET FileRows /\ g[s] # h[s]
    OBVIOUS
  <2>3. s # {}
    BY <2>2, UnfoldLoading
  <2>4. Max(s) \in s
    BY <2>2, <2>3, Lasts
  <2>5. g[s \ {Max(s)}] = h[s \ {Max(s)}]
    BY <2>1, <2>2, <2>4
  <2>6. g[s] = h[s]
    <3>1. s \in SUBSET DOMAIN file_
      BY <2>2
    <3> QED
      BY <2>3, <2>5, <3>1, UnfoldLoading
  <2> QED
    BY <2>2, <2>6
<1> QED
  BY <1>1

\* Loading the file of a theme brings it back, whatever the colors were.
LEMMA LoadedIsRestored ==
  ASSUME NEW t \in Themes, NEW v \in Themes
  PROVE  Loaded(t, FileOf(v)) = Restored(v)
<1> DEFINE file_ == FileOf(v)
           With(s) == [item \in ThemeItems |-> IF \E k \in s : ItemSeq[k] = item
                                               THEN Restored(v)[item] ELSE t[item]]
           g == [s \in SUBSET FileRows |-> With(s)]
<1>1. DOMAIN file_ = FileRows /\ \A k \in FileRows : file_[k] = Line(ItemSeq[k], v[ItemSeq[k]])
  BY FileOfRows
<1>2. Restored(v) \in Themes
  BY RestoredIsTheme
<1>3. ASSUME NEW s \in SUBSET FileRows PROVE With(s) \in Themes
  BY <1>2 DEF Themes
<1>4. ASSUME NEW s \in SUBSET FileRows, s # {}, NEW x, x = Max(s), NEW line, line = file_[x]
      PROVE  With(s) = SetItem(g[s \ {x}], line.item, line.fg, line.bg, line.attr)
  <2>1. x \in s /\ x \in FileRows
    BY <1>4, Lasts
  <2> DEFINE i == ItemSeq[x]
             w == With(s \ {x})
  <2>2. i \in ThemeItems /\ w \in Themes /\ g[s \ {x}] = w
    <3>1. s \ {x} \in SUBSET FileRows
      OBVIOUS
    <3>2. i \in ThemeItems
      BY <2>1, ItemsInOrder
    <3>3. w \in Themes
      BY <1>3, <3>1
    <3>4. g[s \ {x}] = w
      BY <3>1
    <3> QED
      BY <3>2, <3>3, <3>4
  <2>3. line = Line(i, v[i])
    BY <1>1, <1>4, <2>1
  <2>4. SetItem(w, line.item, line.fg, line.bg, line.attr) = [w EXCEPT ![i] = Restored(v)[i]]
    <3> HIDE DEF i, w
    <3> QED
      BY <2>2, <2>3, LineRestores
  <2>5. With(s) = [w EXCEPT ![i] = Restored(v)[i]]
    <3>1. ASSUME NEW item \in ThemeItems
          PROVE  With(s)[item] = [w EXCEPT ![i] = Restored(v)[i]][item]
      <4>1. CASE item = i
        BY <2>1, <2>2, <4>1
      <4>2. CASE item # i
        <5>1. (\E k \in s : ItemSeq[k] = item) <=> (\E k \in s \ {x} : ItemSeq[k] = item)
          BY <4>2
        <5> QED
          BY <2>2, <4>2, <5>1
      <4> QED
        BY <4>1, <4>2
    <3>2. DOMAIN With(s) = ThemeItems /\ DOMAIN [w EXCEPT ![i] = Restored(v)[i]] = ThemeItems
      OBVIOUS
    <3>3. With(s) = [item \in ThemeItems |-> With(s)[item]]
      OBVIOUS
    <3>4. [w EXCEPT ![i] = Restored(v)[i]]
            = [item \in ThemeItems |-> [w EXCEPT ![i] = Restored(v)[i]][item]]
      BY <2>2 DEF Themes
    <3> QED
      BY <3>1, <3>3, <3>4
  <2> QED
    BY <2>2, <2>4, <2>5
<1>5. With({}) = t
  <2>1. t = [item \in ThemeItems |-> t[item]]
    BY DEF Themes
  <2> QED
    BY <2>1
<1> HIDE DEF With
<1>6. IsLoading(g, t, file_)
  <2> DEFINE r(s) == IF s = {} THEN t
                     ELSE LET x == Max(s)
                              line == file_[x]
                          IN  SetItem(g[s \ {x}], line.item, line.fg, line.bg, line.attr)
  <2>1. ASSUME NEW s \in SUBSET FileRows PROVE With(s) = r(s)
    BY <1>4, <1>5
  <2> HIDE DEF r
  <2>2. g = [s \in SUBSET FileRows |-> r(s)]
    BY <2>1
  <2>3. g = [s \in SUBSET DOMAIN file_ |-> r(s)]
    BY <1>1, <2>2
  <2> HIDE DEF g
  <2> USE DEF r
  <2> QED
    BY <2>3 DEF IsLoading
<1>7. With(FileRows) = Restored(v)
  <2>1. Restored(v) = [item \in ThemeItems |-> Restored(v)[item]]
    BY DEF Restored
  <2> QED
    BY <2>1, ItemsInOrder DEF With
<1>8. g[FileRows] = Restored(v)
  BY <1>7
<1> HIDE DEF g, file_
<1>9. IsLoading(LoadingOf(t, file_), t, file_)
  BY <1>6 DEF LoadingOf
<1>10. LoadingOf(t, file_)[FileRows] = g[FileRows]
  BY <1>1, <1>6, <1>9, LoadingsAgree
<1> QED
  BY <1>1, <1>8, <1>10, LoadedDef DEF file_

-----------------------------------------------------------------------------
\* The file is that of the theme that was saved; loading it restored it.
ThemeInv ==
    /\ theme \in Themes /\ theme_saved \in Themes /\ theme_loaded \in BOOLEAN
    /\ theme_file = <<>> \/ theme_file = FileOf(theme_saved)
    /\ theme_loaded => theme = Restored(theme_saved) /\ theme_file = FileOf(theme_saved)

LEMMA InitialIsTheme == Initial \in Themes
<1>1. ThemeItems \subseteq {"default", "top.page", "stats.port.label", "stats.ip"}
  BY ItemsAssumption DEF theme_color_map
<1>2. \A item \in ThemeItems : theme_color_map[item] \in Elements
  BY <1>1 DEF theme_color_map, Colors, Elements, ColorNumbers, AttrNumbers
<1> QED
  BY <1>2 DEF Initial, Themes

LEMMA ThemeInvInit == ThemeInit => ThemeInv
  BY InitialIsTheme DEF ThemeInit, ThemeInv

LEMMA ThemeInvKept ==
  ASSUME ThemeInv, ThemeCommand \/ UNCHANGED colors
  PROVE  ThemeInv'
<1>1. CASE SetThemeItem
  <2>1. theme' \in Themes /\ theme_loaded' = FALSE
        /\ UNCHANGED <<theme_file, theme_saved>>
    BY <1>1, SetItemKeeps DEF SetThemeItem, ThemeInv
  <2> QED
    BY <2>1 DEF ThemeInv
<1>2. CASE ThemeState
  BY <1>2 DEF ThemeState, ThemeInv
<1>3. CASE ThemeSave
  <2>1. /\ theme_file' = FileOf(theme) /\ theme_saved' = theme /\ theme' = theme
        /\ theme_loaded' = theme_loaded
    BY <1>3 DEF ThemeSave
  <2>2. theme_loaded => theme = Restored(theme)
    BY RestoredIsTheme DEF ThemeInv
  <2> QED
    BY <2>1, <2>2 DEF ThemeInv
<1>4. CASE ThemeLoad
  <2>1. /\ theme_file # <<>> /\ theme_loaded' = TRUE
        /\ UNCHANGED <<theme_file, theme_saved>>
        /\ \E from \in {theme, Initial} : theme' = Loaded(from, theme_file)
    BY <1>4 DEF ThemeLoad
  <2>2. theme_file = FileOf(theme_saved)
    BY <2>1 DEF ThemeInv
  <2>3. theme' = Restored(theme_saved)
    BY <2>1, <2>2, InitialIsTheme, LoadedIsRestored DEF ThemeInv
  <2>4. theme' \in Themes
    BY <2>3, RestoredIsTheme DEF ThemeInv
  <2> QED
    BY <2>1, <2>2, <2>3, <2>4 DEF ThemeInv
<1>5. CASE UNCHANGED colors
  BY <1>5 DEF colors, ThemeInv
<1> QED
  BY <1>1, <1>2, <1>3, <1>4, <1>5 DEF ThemeCommand

LEMMA ThemeInvHolds == ThemeInv => ThemeIsRestored
<1> SUFFICES ASSUME ThemeInv PROVE ThemeIsRestored
  OBVIOUS
<1>1. theme_loaded => theme = Restored(theme_saved) /\ FileOf(theme) = theme_file
  BY FileOfRestored DEF ThemeInv
<1>2. Restored(theme_saved)
        = [item \in ThemeItems |-> [theme_saved[item] EXCEPT !.fg = Kept(@), !.bg = Kept(@)]]
  BY Zenon DEF Restored
<1> QED
  BY Zenon, <1>1, <1>2 DEF ThemeIsRestored

LEMMA ThemeInvNext == ThemeInv /\ [Next]_all => ThemeInv'
<1> SUFFICES ASSUME ThemeInv, [Next]_all PROVE ThemeInv'
  OBVIOUS
<1>1. ThemeCommand \/ UNCHANGED colors
  BY DEF Next, TimerTurn, ConsoleStep, NewCommand, LcoreStep, LcoreReceives, Pages_, Statistics_, Log_,
         Dump_, Theme_, DumpPaused, all
<1> QED
  BY <1>1, ThemeInvKept

\* "theme save" and "load" (pktgen_theme_save, cli_execute_cmdfile): whatever
\* was set, saved, switched and loaded before, and for any words, the theme
\* that is loaded is the one that was saved, but for white, and saving it again
\* would write the same file.
THEOREM ThemeComesBack == Spec => []ThemeIsRestored
<1>1. Init => ThemeInv
  BY ThemeInvInit DEF Init
<1>2. ThemeInv /\ [Next]_all => ThemeInv'
  BY ThemeInvNext
<1>3. ThemeInv => ThemeIsRestored
  BY ThemeInvHolds
<1> QED
  BY <1>1, <1>2, <1>3, PTL DEF Spec
=============================================================================
