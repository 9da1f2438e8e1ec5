------------------------------ MODULE HashMap ------------------------------
(***************************************************************************)
(* The hash map of src/lib/hmap, as functions of its state:                *)
(*   map             the table, a slot is a key/value pair or Empty        *)
(*   capacity        slots of the table                                    *)
(*   max_capacity    how far it may grow                                   *)
(*   curr_capacity   pairs in the table                                    *)
(* A collision goes to the next slot.  A pair that is deleted leaves an    *)
(* empty slot, so a search never stops at one: it goes around the table.   *)
(*                                                                         *)
(* A key stands for the prefix and the key of the code, which are compared *)
(* together.  A value is of a type, and arrays have a count.  A slot has   *)
(* one word for it, in which a negative number is kept as an unsigned one. *)
(***************************************************************************)
EXTENDS Integers, Sequences, FiniteSets, Functions, SequencesExt

CONSTANTS
    HMAP_STARTING_CAPACITY, HMAP_DEFAULT_CAPACITY,
    hash_fn(_)

ASSUME CapacityAssumption ==
    /\ HMAP_STARTING_CAPACITY \in Nat \ {0}
    /\ HMAP_DEFAULT_CAPACITY \in Nat /\ HMAP_DEFAULT_CAPACITY >= HMAP_STARTING_CAPACITY

U32 == 2 ^ 20   \* values of uint32_t, in proportion

\* The types of numbers, and how many values each has, in proportion.
Unsigned == [u8 |-> 2 ^ 8, u16 |-> 2 ^ 16, u32 |-> U32, u64 |-> 2 ^ 24]
Signed == [i8 |-> 2 ^ 8, i16 |-> 2 ^ 16, i32 |-> U32, i64 |-> 2 ^ 24]
ArrayTypes == {"u16_array", "string_array"}

Kvp(type, key, count, v) == [type |-> type, key |-> key, count |-> count, v |-> v]
Empty == Kvp("empty", <<>>, 0, 0)
NoSlot == -1

Largest(a, b) == IF a > b THEN a ELSE b
Result(hmap, ret) == [hmap |-> hmap, ret |-> ret]

hmap_create(max_capacity) ==
    LET max == IF max_capacity = 0 THEN HMAP_DEFAULT_CAPACITY
               ELSE Largest(max_capacity, HMAP_STARTING_CAPACITY)
        capacity == IF max \div 4 = 0 THEN HMAP_STARTING_CAPACITY ELSE max \div 4
    IN  [capacity |-> capacity, max_capacity |-> max, curr_capacity |-> 0,
         map |-> [i \in 0 .. capacity - 1 |-> Empty]]

\* The slots in the order they are looked at.
Probe(hmap, key) == [n \in 1 .. hmap.capacity |-> (hash_fn(key) + n - 1) % hmap.capacity]

FirstSlot(hmap, key, slots) ==
    LET found == SelectSeq(Probe(hmap, key), LAMBDA i : i \in slots)
    IN  IF found = <<>> THEN NoSlot ELSE Head(found)

hmap_kvp_lookup(hmap, key) == FirstSlot(hmap, key, {i \in DOMAIN hmap.map : hmap.map[i].key = key})

\* The count of an array is set later, by the function that adds it.
hmap_kvp_update(hmap, slot, v) ==
    [hmap EXCEPT !.map[slot].v = v,
                 !.map[slot].count = IF hmap.map[slot].type \in ArrayTypes THEN @ ELSE 0]

\* Mutant: no look for an empty slot.
__add_value_Overwrites(hmap, type, key, v) ==
    Result([hmap EXCEPT !.map[hash_fn(key) % hmap.capacity] = Kvp(type, key, 0, v),
                        !.curr_capacity = @ + 1], 0)

__add_value(hmap, type, key, v) ==
    LET slot == FirstSlot(hmap, key, {i \in DOMAIN hmap.map : hmap.map[i] = Empty})
    IN  IF slot = NoSlot THEN Result(hmap, -1)
        ELSE Result([hmap EXCEPT !.map[slot] = Kvp(type, key, 0, v), !.curr_capacity = @ + 1], 0)

\* A table that fills is replaced by a larger one, to which every pair is added,
\* without the counts of its arrays.
_hmap_update_capacity(hmap) ==
    LET grown == hmap.capacity + HMAP_STARTING_CAPACITY
        fresh == [hmap EXCEPT !.capacity = grown, !.curr_capacity = 0,
                              !.map = [i \in 0 .. grown - 1 |-> Empty]]
        pairs == SelectSeq([n \in 1 .. hmap.capacity |-> hmap.map[n - 1]], LAMBDA p : p # Empty)
    IN  IF hmap.curr_capacity >= hmap.capacity - HMAP_STARTING_CAPACITY \div 4 /\ grown <= hmap.max_capacity
        THEN FoldLeft(LAMBDA h, p : __add_value(h, p.type, p.key, p.v).hmap, fresh, pairs)
        ELSE hmap

hmap_add(hmap, type, key, v) ==
    IF hmap_kvp_lookup(hmap, key) # NoSlot THEN Result(hmap, -1)
    ELSE __add_value(_hmap_update_capacity(hmap), type, key, v)

\* The type of a key does not change.
hmap_update(hmap, type, key, v) ==
    LET slot == hmap_kvp_lookup(hmap, key)
    IN  CASE slot = NoSlot -> __add_value(_hmap_update_capacity(hmap), type, key, v)
          [] slot # NoSlot /\ hmap.map[slot].type # type -> Result(hmap, -1)
          [] OTHER -> Result(hmap_kvp_update(hmap, slot, v), 0)

\* A key that is not there is counted too.
hmap_del(hmap, key) ==
    LET slot == hmap_kvp_lookup(hmap, key)
    IN  Result([hmap EXCEPT !.curr_capacity = (@ - 1) % U32,
                            !.map = IF slot = NoSlot THEN @ ELSE [@ EXCEPT ![slot] = Empty]], 0)

\* Pairs in the order of the slots; next is the slot to go on with.
hmap_iterate(hmap, next) ==
    LET rest == {i \in next .. hmap.capacity - 1 : hmap.map[i] # Empty}
    IN  IF rest = {} THEN [found |-> FALSE, slot |-> NoSlot, next |-> next]
        ELSE LET i == CHOOSE i \in rest : \A j \in rest : i <= j
             IN  [found |-> TRUE, slot |-> i, next |-> i + 1]

\* What is printed, not sorted: as many pairs as hmap_iterate() finds.
hmap_list(hmap) ==
    LET listed[n \in 0 .. hmap.capacity] ==
            IF n = 0 THEN <<>>
            ELSE LET it == hmap_iterate(hmap, n - 1)
                 IN  IF it.found /\ it.slot = n - 1 THEN Append(listed[n - 1], hmap.map[it.slot])
                     ELSE listed[n - 1]
    IN  listed[hmap.capacity]

-----------------------------------------------------------------------------
(***************************************************************************)
(* The functions for values of a type and for arrays.                      *)
(***************************************************************************)

\* A number as it is kept in the word of its slot.
Word(type, v) ==
    CASE type \in DOMAIN Unsigned -> v % Unsigned[type]
      [] type \in DOMAIN Signed -> v % Signed[type]
      [] OTHER -> v

_hmap_add_scalar(hmap, type, key, v) == hmap_add(hmap, type, key, Word(type, v))
_hmap_update_scalar(hmap, type, key, v) == hmap_update(hmap, type, key, Word(type, v))

Counted(result, key, count) ==
    LET slot == hmap_kvp_lookup(result.hmap, key)
    IN  IF result.ret # 0 THEN result ELSE [result EXCEPT !.hmap.map[slot].count = count]

_hmap_add_array(hmap, type, key, v, count) == Counted(hmap_add(hmap, type, key, v), key, count)
_hmap_update_array(hmap, type, key, v, count) == Counted(hmap_update(hmap, type, key, v), key, count)

\* The slot of a key that has a value of this type.
__get_kvp(hmap, type, key) ==
    LET slot == hmap_kvp_lookup(hmap, key)
    IN  IF slot # NoSlot /\ hmap.map[slot].type = type THEN slot ELSE NoSlot

\* What is returned, and the value, which keeps its old content without one.
Found(slot, old, v) == IF slot = NoSlot THEN [ret |-> -1, v |-> old] ELSE [ret |-> 0, v |-> v]

_hmap_get_unsigned(hmap, type, key, old) ==
    LET slot == __get_kvp(hmap, type, key)
    IN  Found(slot, old, hmap.map[slot].v % Unsigned[type])

\* The upper half of the words of a type are its negative numbers.
AsSigned(type, word) ==
    LET n == word % Signed[type] IN IF n < Signed[type] \div 2 THEN n ELSE n - Signed[type]

_hmap_get_signed(hmap, type, key, old) ==
    LET slot == __get_kvp(hmap, type, key)
    IN  Found(slot, old, AsSigned(type, hmap.map[slot].v))

\* Strings, pointers and doubles are not converted.
_hmap_get_object(hmap, type, key, old) ==
    LET slot == __get_kvp(hmap, type, key) IN Found(slot, old, hmap.map[slot].v)

\* The type of the variable chooses the function.
hmap_get_value(hmap, type, key, old) ==
    CASE type \in DOMAIN Unsigned -> _hmap_get_unsigned(hmap, type, key, old)
      [] type \in DOMAIN Signed -> _hmap_get_signed(hmap, type, key, old)
      [] OTHER -> _hmap_get_object(hmap, type, key, old)

_hmap_get_array(hmap, type, key, old) ==
    LET slot == __get_kvp(hmap, type, key)
    IN  IF slot = NoSlot THEN [ret |-> -1, v |-> old]
        ELSE [ret |-> hmap.map[slot].count, v |-> hmap.map[slot].v]
=============================================================================
