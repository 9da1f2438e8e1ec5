------------------------------- MODULE MCReceive -------------------------------
(* Model values for Receive: r1, r3 and s belong to queue 0, r2 and t to    *)
(* queue 1 when there is one.                                                  *)
EXTENDS Receive, TLC

CONSTANTS r1, r2, r3, s1, s2, t1, t2

MCQueueOf == [m \in Mbufs |-> IF m \in {r2, t1, t2} /\ RxCnt = 2 THEN 1 ELSE 0]
=============================================================================
