---------------------------- MODULE MapContract ----------------------------
(***************************************************************************)
(* What a hash map promises its callers: a partial function from keys to   *)
(* values of a type, that takes a limited number of them.                  *)
(***************************************************************************)
EXTENDS Naturals, FiniteSets, Functions

CONSTANT
    Calls       \* records [op, key, type, v, count], count = 0 but for arrays

VARIABLES
    limit,      \* keys that there is room for
    size,       \* slots of the table
    map,        \* key -> [type, v, count]
    call,       \* the last call
    ret         \* its result, -1 or a count, and the value it got

vars == <<limit, size, map, call, ret>>

None == [op |-> "none", key |-> <<>>, type |-> "", v |-> 0, count |-> 0]
Answer(code, v) == [code |-> code, v |-> v]
OK == Answer(0, 0)
Failed == Answer(-1, 0)

Init == limit \in Nat /\ size \in Nat /\ map = <<>> /\ call = None /\ ret = OK

Known(c) == c.key \in DOMAIN map
HasRoom == Cardinality(DOMAIN map) < limit

\* A new key may make the table grow, and the arrays that are in it then lose
\* their counts.
Put(c) ==
    /\ size' \in (IF Known(c) THEN {size} ELSE size .. limit)
    /\ map' = [k \in DOMAIN map \cup {c.key} |->
                  IF k = c.key THEN [type |-> c.type, v |-> c.v, count |-> c.count]
                  ELSE IF size' = size THEN map[k]
                  ELSE [map[k] EXCEPT !.count = 0]]
    /\ ret' = OK

Fails == ret' = Failed /\ UNCHANGED <<size, map>>

Add(c) ==
    /\ c.op = "add"
    /\ IF ~Known(c) /\ HasRoom THEN Put(c) ELSE Fails

Update(c) ==
    /\ c.op = "update"
    /\ IF (Known(c) /\ map[c.key].type = c.type) \/ (~Known(c) /\ HasRoom) THEN Put(c) ELSE Fails

Delete(c) ==
    /\ c.op = "del" /\ Known(c)
    /\ map' = Restrict(map, DOMAIN map \ {c.key}) /\ ret' = OK
    /\ UNCHANGED size

\* The result for an array is the number of its elements, 0 for other types.
Get(c) ==
    /\ c.op = "get"
    /\ ret' = IF Known(c) /\ map[c.key].type = c.type
              THEN Answer(map[c.key].count, map[c.key].v) ELSE Failed
    /\ UNCHANGED <<size, map>>

Next ==
    /\ \E c \in Calls : call' = c /\ (Add(c) \/ Update(c) \/ Delete(c) \/ Get(c))
    /\ limit' = limit

Spec == Init /\ [][Next]_vars
=============================================================================
