------------------------------ MODULE MCCapture ------------------------------
(* Mappings for Capture. *)
EXTENDS Capture, TLC

\* Port p0 on socket s0 and port p1 on socket s1, one lcore each.
OnePortEach == 1 :> "p0" @@ 2 :> "p1"
OneSocketEach == 1 :> "s0" @@ 2 :> "s1"
=============================================================================
