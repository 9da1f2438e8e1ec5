--------------------------- MODULE TransmitContract ---------------------------
(***************************************************************************)
(* What start, stop, prime and "set count" promise of one port, without    *)
(* flags, queues or mbufs: a counted run hands over exactly the packets    *)
(* asked for and ends by itself, a forever run ends only with stop, and    *)
(* after the end of a run each lcore may finish the one burst it had       *)
(* already decided on.                                                     *)
(***************************************************************************)
EXTENDS Naturals

CONSTANTS
    Cores, \* the TX lcores of the port
    Sizes  \* the sizes a counted run may have

VARIABLES
    mode,  \* "idle", "counted" or "forever"
    left,  \* packets of the counted run not yet drawn by a lcore
    hand,  \* hand[c]: packets drawn by lcore c and not yet handed to the NIC
    done,  \* packets of counted runs handed over so far
    stale, \* lcores that have yet to notice that the run is over
    asked  \* a stop command has seen the run and is about to end it

vars == <<mode, left, hand, done, stale, asked>>

TypeOK ==
    /\ mode \in {"idle", "counted", "forever"}
    /\ left \in Nat /\ done \in Nat /\ hand \in [Cores -> Nat]
    /\ stale \subseteq Cores /\ asked \in BOOLEAN

Init ==
    /\ mode = "idle" /\ left = 0 /\ done = 0 /\ stale = {} /\ asked = FALSE
    /\ hand = [c \in Cores |-> 0]

\* start with a count, or prime
RunCounted ==
    /\ mode = "idle"
    /\ mode' = "counted" /\ left' \in Sizes /\ stale' = {}
    /\ UNCHANGED <<hand, done, asked>>

RunForever ==
    /\ mode = "idle" /\ stale = {}
    /\ mode' = "forever" /\ left' = 0
    /\ UNCHANGED <<hand, done, stale, asked>>

\* a prime command while a forever run is on keeps its packets in reserve
Refill ==
    /\ mode = "forever"
    /\ left' \in Sizes
    /\ UNCHANGED <<mode, hand, done, stale, asked>>

\* Once the run is over and every lcore knows, what was left is forgotten.
Leftover(remaining, unaware) == IF unaware = {} THEN 0 ELSE remaining

Draw(c, k) ==
    /\ hand[c] = 0 /\ k \in 1 .. left
    /\ hand' = [hand EXCEPT ![c] = k]
    /\ \/ mode = "counted" /\ left' = left - k /\ UNCHANGED stale
       \/ /\ mode = "idle" /\ c \in stale
          /\ stale' = stale \ {c}
          /\ left' = Leftover(left - k, stale')
    /\ UNCHANGED <<mode, done, asked>>

Notice(c) ==
    /\ mode = "idle" /\ c \in stale
    /\ stale' = stale \ {c}
    /\ left' = Leftover(left, stale')
    /\ UNCHANGED <<mode, hand, done, asked>>

HandOver(c) ==
    /\ hand[c] > 0
    /\ done' = done + hand[c]
    /\ hand' = [hand EXCEPT ![c] = 0]
    /\ UNCHANGED <<mode, left, stale, asked>>

EndRun ==
    /\ mode' = "idle"
    /\ stale' \in SUBSET Cores
    /\ left' = Leftover(left, stale')
    /\ UNCHANGED <<hand, done>>

\* A counted run ends by itself only when nothing is left of it.
Complete == mode = "counted" /\ left = 0 /\ EndRun /\ UNCHANGED asked

AskStop ==
    /\ mode # "idle"
    /\ asked' = TRUE
    /\ UNCHANGED <<mode, left, hand, done, stale>>

\* The run may have completed since the stop command looked at it.
Stop ==
    /\ asked /\ asked' = FALSE
    /\ \/ mode # "idle" /\ EndRun
       \/ mode = "idle" /\ UNCHANGED <<mode, left, hand, done, stale>>

\* reset forgets the rest of the run at once
Forget ==
    /\ mode = "idle"
    /\ left' = 0
    /\ UNCHANGED <<mode, hand, done, stale, asked>>

Next ==
    \/ RunCounted \/ RunForever \/ Refill
    \/ Complete \/ AskStop \/ Stop \/ Forget
    \/ \E c \in Cores : Notice(c) \/ HandOver(c) \/ \E k \in 1 .. left : Draw(c, k)

Spec == Init /\ [][Next]_vars
=============================================================================
