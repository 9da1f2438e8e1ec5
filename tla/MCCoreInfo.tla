----------------------------- MODULE MCCoreInfo -----------------------------
(***************************************************************************)
(* Machines of one or two sockets, with one or two threads, whose cores    *)
(* have gaps in their numbers and whose lcores are numbered in three ways; *)
(* and calls with three keys that collide.                                 *)
(***************************************************************************)
EXTENDS CoreInfo

Machine(s, c, t, Number(_, _, _)) ==
    LET places == [socket : 0 .. s - 1, core : 0 .. c - 1, thread : 0 .. t - 1]
        At(l) == CHOOSE p \in places : Number(p.socket, p.core, p.thread) = l
        Gap(n) == IF n = 2 THEN 4 ELSE n
    IN  [l \in 0 .. s * c * t - 1 |-> [At(l) EXCEPT !.core = Gap(@)]]

MCMachines == UNION {
    {Machine(s, c, t, LAMBDA i, j, k : k * s * c + i * c + j),
     Machine(s, c, t, LAMBDA i, j, k : k * s * c + j * s + i),
     Machine(s, c, t, LAMBDA i, j, k : (i * c + j) * t + k)} :
    <<s, c, t>> \in {1, 2} \X {1, 2, 3} \X {1, 2}}

MCKeys == {<<"a">>, <<"b">>, <<"c">>, <<"prefix", "c">>}
MCTypes(key) ==
    CASE key = <<"a">> -> {"u16", "u16_array"} [] key = <<"b">> -> {"i8"} [] key = <<"c">> -> {"string"}
      [] OTHER -> {"u16"}
MCValue(op, type) == CASE op = "add" -> 1 [] op = "update" -> IF type = "i8" THEN -2 ELSE 2 [] OTHER -> 0
MCCount(op, type) == IF type \notin ArrayTypes THEN 0 ELSE CASE op = "add" -> 2 [] op = "update" -> 3 [] OTHER -> 0
MCCalls ==
    UNION {{[op |-> op, key |-> key, type |-> type, v |-> MCValue(op, type), count |-> MCCount(op, type)] :
               op \in {"add", "update", "get", "del"}, type \in MCTypes(key)} : key \in MCKeys}

\* Keys of the second user meet in the last slot of a small table.
MCHash(key) ==
    CASE key = <<"a">> -> 5 [] key = <<"b">> -> 5 [] key = <<"c">> -> 6 [] key = <<"prefix", "c">> -> 1
      [] Len(key) = 1 -> 7 [] Len(key) = 2 -> 3 * key[2] [] OTHER -> key[2] + key[3] + 2 * key[4]
=============================================================================
