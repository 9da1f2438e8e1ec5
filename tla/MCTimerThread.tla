---------------------------- MODULE MCTimerThread ----------------------------
(* Model values for TimerThread. *)
EXTENDS TimerThread, TLC

CONSTANT rx0

Word(p, n) == [page |-> p, n |-> n]
MCPageRequests == {Word("number", n) : n \in {0, 1, 3}}
    \cup {Word(p, 0) : p \in {"next", "range", "qstats", "cpu"}}
MCItems == {"default", "top.page"}
=============================================================================
