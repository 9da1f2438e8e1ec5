---------------------------- MODULE ConsoleProofs ----------------------------
(***************************************************************************)
(* No key, in any order, takes a pointer of the gap buffer out of its      *)
(* memory, and the arrows start from an entry that is on the list, for     *)
(* every alphabet, gap, history size and length of lines.                  *)
(*                                                                         *)
(* The buffer alone is inductive once the text is known to consist of      *)
(* characters.  The keys that insert a kept line need more: that the       *)
(* killed text and the lines of the history are texts, and that an arrow   *)
(* finds an entry, which is what ArrowsStartOnTheList is needed for.       *)
(*                                                                         *)
(* The history shows each entry once, no line twice in a row and no alias, *)
(* if the line of the alias does not begin with its own name: what is      *)
(* remembered is trimmed and cut into words first, so the proof follows    *)
(* where its first word ends.                                              *)
(*                                                                         *)
(* The keys implement CommandLine.tla: each is a step of a line with a     *)
(* cursor, for which the text of every buffer operation is computed first. *)
(* What the history can show is what was entered, so the invariant is that *)
(* the lines shown are among them (LinesInv).                              *)
(***************************************************************************)
EXTENDS Console, SequenceTheorems, Sums, TLAPS

TextCells(g) == \A i \in 0 .. g.ebuf - 1 : i < g.gap \/ i >= g.egap => g.cell[i] \in Chars

Sound(g) == IsBuffer(g) /\ InBounds(g) /\ OutsideGap(g) /\ TextCells(g)

(***************************************************************************)
(* The operations of the gap buffer.                                       *)
(***************************************************************************)

LEMMA CreateIsSound == Sound(gb_create)
  <1> DEFINE m == gb_create
  <1>1. /\ m.egap = GB_DEFAULT_GAP_SIZE /\ m.gap = 0 /\ m.point = 0
        /\ m.ebuf = GB_DEFAULT_GAP_SIZE /\ m.alloc = GB_DEFAULT_GAP_SIZE
        /\ DOMAIN m.cell = 0 .. GB_DEFAULT_GAP_SIZE - 1
        /\ m = [cell |-> m.cell, gap |-> m.gap, egap |-> m.egap, ebuf |-> m.ebuf,
                alloc |-> m.alloc, point |-> m.point]
    BY DEF gb_create, Buffer
  <1> HIDE DEF m
  <1> QED BY <1>1, GapAssumption DEF Sound, IsBuffer, InBounds, OutsideGap, TextCells, m

LEMMA ResetIsSound ==
    ASSUME NEW g, Sound(g)
    PROVE  Sound(gb_reset_buf(g)) /\ gb_data_size(gb_reset_buf(g)) = 0
  <1> DEFINE m == gb_reset_buf(g)
  <1>1. /\ m.egap = g.ebuf /\ m.gap = 0 /\ m.point = 0 /\ m.ebuf = g.ebuf /\ m.alloc = g.alloc
        /\ DOMAIN m.cell = 0 .. g.ebuf - 1
        /\ m = [cell |-> m.cell, gap |-> m.gap, egap |-> m.egap, ebuf |-> m.ebuf,
                alloc |-> m.alloc, point |-> m.point]
    BY DEF gb_reset_buf, Buffer
  <1> HIDE DEF m
  <1>2. Sound(m)
    BY <1>1 DEF Sound, IsBuffer, InBounds, OutsideGap, TextCells
  <1>3. gb_data_size(m) = 0
    BY <1>1 DEF gb_data_size, gb_gap_size, Sound, IsBuffer
  <1> QED BY <1>2, <1>3 DEF m

\* Only the point moves.
LEMMA PointIsSound ==
    ASSUME NEW g, Sound(g), NEW p \in Nat, p <= g.gap \/ (g.egap <= p /\ p <= g.ebuf)
    PROVE  /\ Sound([g EXCEPT !.point = p])
           /\ [g EXCEPT !.point = p].point = p
           /\ [g EXCEPT !.point = p].gap = g.gap
           /\ [g EXCEPT !.point = p].egap = g.egap
           /\ [g EXCEPT !.point = p].ebuf = g.ebuf
  <1> DEFINE m == [g EXCEPT !.point = p]
  <1>1. m = [cell |-> g.cell, gap |-> g.gap, egap |-> g.egap, ebuf |-> g.ebuf,
             alloc |-> g.alloc, point |-> p]
    BY DEF Sound, IsBuffer
  <1>2. /\ m.egap = g.egap /\ m.gap = g.gap /\ m.point = p /\ m.ebuf = g.ebuf /\ m.alloc = g.alloc
        /\ m.cell = g.cell
        /\ m = [cell |-> m.cell, gap |-> m.gap, egap |-> m.egap, ebuf |-> m.ebuf,
                alloc |-> m.alloc, point |-> m.point]
    BY <1>1
  <1> HIDE DEF m
  <1>3. Sound(m)
    BY <1>2 DEF Sound, IsBuffer, InBounds, OutsideGap, TextCells
  <1> QED BY <1>2, <1>3 DEF m

LEMMA MoveGapLeft ==
    ASSUME NEW g, Sound(g), g.point < g.gap
    PROVE  LET m == gb_move_gap_left(g) IN
           /\ Sound(m) /\ m.point = g.point /\ m.gap = g.point
           /\ m.egap = g.egap - (g.gap - g.point) /\ m.ebuf = g.ebuf
  <1> DEFINE m == gb_move_gap_left(g)
             egap == g.egap - (g.gap - g.point)
  <1>1. /\ m.egap = egap /\ m.gap = g.point /\ m.point = g.point
        /\ m.ebuf = g.ebuf /\ m.alloc = g.alloc
        /\ m.cell = [i \in 0 .. g.ebuf - 1 |-> IF i < g.point \/ i >= egap
              THEN IF i >= egap /\ i < g.egap THEN g.cell[i - egap + g.point] ELSE g.cell[i]
              ELSE Junk]
        /\ m = [cell |-> m.cell, gap |-> m.gap, egap |-> m.egap, ebuf |-> m.ebuf,
                alloc |-> m.alloc, point |-> m.point]
    BY DEF gb_move_gap_left, Buffer
  <1> HIDE DEF m
  <1>2. IsBuffer(m) /\ InBounds(m) /\ OutsideGap(m)
    BY <1>1 DEF Sound, IsBuffer, InBounds, OutsideGap
  <1>3. TextCells(m)
    BY <1>1 DEF Sound, IsBuffer, InBounds, TextCells
  <1> QED BY <1>1, <1>2, <1>3 DEF Sound, m

LEMMA MoveGapRight ==
    ASSUME NEW g, Sound(g), g.point > g.gap, g.point # g.egap
    PROVE  LET m == gb_move_gap_right(g) IN
           /\ Sound(m) /\ m.point = m.gap /\ m.gap = g.gap + (g.point - g.egap)
           /\ m.egap = g.point /\ m.ebuf = g.ebuf
  <1> DEFINE m == gb_move_gap_right(g)
             gap == g.gap + (g.point - g.egap)
  <1>0. g.point > g.egap /\ g.point <= g.ebuf
    BY DEF Sound, OutsideGap, IsBuffer, InBounds
  <1>1. /\ m.egap = g.point /\ m.gap = gap /\ m.point = gap
        /\ m.ebuf = g.ebuf /\ m.alloc = g.alloc
        /\ m.cell = [i \in 0 .. g.ebuf - 1 |-> IF i < gap \/ i >= g.point
              THEN IF i >= g.gap /\ i < gap THEN g.cell[i - g.gap + g.egap] ELSE g.cell[i]
              ELSE Junk]
        /\ m = [cell |-> m.cell, gap |-> m.gap, egap |-> m.egap, ebuf |-> m.ebuf,
                alloc |-> m.alloc, point |-> m.point]
    BY DEF gb_move_gap_right, Buffer
  <1> HIDE DEF m
  <1>2. IsBuffer(m) /\ InBounds(m) /\ OutsideGap(m)
    BY <1>0, <1>1 DEF Sound, IsBuffer, InBounds, OutsideGap
  <1>3. ASSUME NEW i \in 0 .. g.ebuf - 1, i < gap \/ i >= g.point
        PROVE  m.cell[i] \in Chars
    <2>0. {g.gap, g.egap, g.ebuf, g.point} \subseteq Nat /\ g.gap <= g.egap
      BY DEF Sound, IsBuffer, InBounds
    <2>1. CASE i >= g.gap /\ i < gap
      <3>1. i - g.gap + g.egap \in 0 .. g.ebuf - 1 /\ i - g.gap + g.egap >= g.egap
        BY <2>0, <2>1, <1>0
      <3> QED BY <3>1, <2>1, <1>1 DEF Sound, TextCells
    <2>2. CASE ~(i >= g.gap /\ i < gap)
      <3>1. i < g.gap \/ i >= g.egap
        BY <2>0, <2>2, <1>0, <1>3
      <3> QED BY <3>1, <2>2, <1>1, <1>3 DEF Sound, TextCells
    <2> QED BY <2>1, <2>2
  <1>4. TextCells(m)
    BY <1>1, <1>3 DEF TextCells
  <1> QED BY <1>1, <1>2, <1>4 DEF Sound, m

\* The gap comes to the cursor and the text keeps its length.
LEMMA MoveGap ==
    ASSUME NEW g, Sound(g)
    PROVE  LET m == gb_move_gap_to_point(g) IN
           /\ Sound(m) /\ m.point = m.gap
           /\ m.gap = CursorOf(g) /\ gb_data_size(m) = gb_data_size(g)
  <1> USE DEF gb_data_size, gb_gap_size, CursorOf
  <1>0. {g.gap, g.egap, g.ebuf, g.point} \subseteq Nat /\ g.gap <= g.egap
    BY DEF Sound, IsBuffer, InBounds
  <1>1. CASE g.point = g.gap
    BY <1>0, <1>1 DEF gb_move_gap_to_point
  <1>2. CASE g.point # g.gap /\ g.point = g.egap
    BY <1>0, <1>2, PointIsSound DEF gb_move_gap_to_point
  <1>3. CASE g.point < g.gap
    BY <1>0, <1>3, MoveGapLeft DEF gb_move_gap_to_point
  <1>4. CASE g.point > g.gap /\ g.point # g.egap
    BY <1>0, <1>4, MoveGapRight DEF gb_move_gap_to_point
  <1> QED BY <1>0, <1>1, <1>2, <1>3, <1>4

LEMMA ExpandBuf ==
    ASSUME NEW g, Sound(g), g.point = g.gap, NEW more \in Nat
    PROVE  LET m == gb_expand_buf(g, more) IN
           /\ Sound(m) /\ m.point = m.gap /\ m.gap = g.gap
           /\ m.egap = g.egap + more /\ m.ebuf = g.ebuf + more
  <1> DEFINE m == gb_expand_buf(g, more)
  <1>0. {g.gap, g.egap, g.ebuf, g.point} \subseteq Nat /\ g.gap <= g.egap /\ g.egap <= g.ebuf
    BY DEF Sound, IsBuffer, InBounds
  <1>1. /\ m.egap = g.egap + more /\ m.gap = g.gap /\ m.point = g.point
        /\ m.ebuf = g.ebuf + more /\ m.alloc = g.ebuf + more + GB_DEFAULT_GAP_SIZE
        /\ m.cell = [i \in 0 .. (g.ebuf + more) - 1 |-> IF i < g.gap \/ i >= g.egap + more
              THEN IF i >= g.egap + more THEN g.cell[i - more] ELSE g.cell[i]
              ELSE Junk]
        /\ m = [cell |-> m.cell, gap |-> m.gap, egap |-> m.egap, ebuf |-> m.ebuf,
                alloc |-> m.alloc, point |-> m.point]
    BY DEF gb_expand_buf, Buffer
  <1> HIDE DEF m
  <1>2. IsBuffer(m) /\ InBounds(m) /\ OutsideGap(m)
    BY <1>0, <1>1, GapAssumption DEF IsBuffer, InBounds, OutsideGap
  <1>3. ASSUME NEW i \in 0 .. (g.ebuf + more) - 1, i < g.gap \/ i >= g.egap + more
        PROVE  m.cell[i] \in Chars
    <2>1. CASE i >= g.egap + more
      <3>1. i - more \in 0 .. g.ebuf - 1 /\ i - more >= g.egap
        BY <1>0, <2>1
      <3>2. m.cell[i] = g.cell[i - more]
        BY <2>1, <1>1
      <3> QED BY <3>1, <3>2 DEF Sound, TextCells
    <2>2. CASE ~(i >= g.egap + more)
      <3>1. i \in 0 .. g.ebuf - 1 /\ i < g.gap
        BY <1>0, <2>2, <1>3
      <3>2. m.cell[i] = g.cell[i]
        BY <2>2, <1>1, <1>3
      <3> QED BY <3>1, <3>2 DEF Sound, TextCells
    <2> QED BY <2>1, <2>2
  <1>4. TextCells(m)
    BY <1>1, <1>3 DEF TextCells
  <1> QED BY <1>1, <1>2, <1>4 DEF Sound, m

LEMMA ExpandGap ==
    ASSUME NEW g, Sound(g), g.point = g.gap, NEW size \in Nat
    PROVE  LET m == gb_expand_gap(g, size) IN
           /\ Sound(m) /\ m.point = m.gap /\ m.gap = g.gap /\ size <= gb_gap_size(m)
           /\ gb_data_size(m) = gb_data_size(g)
  <1>0. {g.gap, g.egap, g.ebuf, GB_DEFAULT_GAP_SIZE} \subseteq Nat /\ g.gap <= g.egap
    BY GapAssumption DEF Sound, IsBuffer, InBounds
  <1>1. CASE size <= gb_gap_size(g)
    BY <1>1 DEF gb_expand_gap
  <1>2. CASE ~(size <= gb_gap_size(g))
    <2> DEFINE m == gb_expand_buf(g, size + GB_DEFAULT_GAP_SIZE)
    <2>1. size + GB_DEFAULT_GAP_SIZE \in Nat
      BY <1>0
    <2>2. /\ Sound(m) /\ m.point = m.gap /\ m.gap = g.gap
          /\ m.egap = g.egap + (size + GB_DEFAULT_GAP_SIZE)
          /\ m.ebuf = g.ebuf + (size + GB_DEFAULT_GAP_SIZE)
      BY <2>1, ExpandBuf
    <2>3. gb_expand_gap(g, size) = m
      BY <1>2 DEF gb_expand_gap
    <2> HIDE DEF m
    <2>4. size <= gb_gap_size(m)
      BY <1>0, <2>2 DEF gb_gap_size
    <2>5. gb_data_size(m) = gb_data_size(g)
      BY <1>0, <2>2 DEF gb_data_size, gb_gap_size
    <2> QED BY <2>2, <2>3, <2>4, <2>5
  <1> QED BY <1>1, <1>2

LEMMA PutIsSound ==
    ASSUME NEW g, Sound(g), NEW str \in Seq(Chars), Len(str) <= gb_gap_size(g)
    PROVE  Sound(gb_putc(g, str))
  <1> DEFINE m == gb_putc(g, str)
             gap == g.gap + Len(str)
  <1>0. Len(str) \in Nat /\ \A k \in 1 .. Len(str) : str[k] \in Chars
    OBVIOUS
  <1>1. /\ m.egap = g.egap /\ m.gap = gap /\ m.point = gap
        /\ m.ebuf = g.ebuf /\ m.alloc = g.alloc
        /\ m.cell = [i \in 0 .. g.ebuf - 1 |-> IF i < gap \/ i >= g.egap
              THEN IF i >= g.gap /\ i < gap THEN str[i - g.gap + 1] ELSE g.cell[i]
              ELSE Junk]
        /\ m = [cell |-> m.cell, gap |-> m.gap, egap |-> m.egap, ebuf |-> m.ebuf,
                alloc |-> m.alloc, point |-> m.point]
    BY DEF gb_putc, Buffer
  <1> HIDE DEF m
  <1>2. IsBuffer(m) /\ InBounds(m) /\ OutsideGap(m)
    BY <1>0, <1>1 DEF Sound, IsBuffer, InBounds, OutsideGap, gb_gap_size
  <1>3. TextCells(m)
    BY <1>0, <1>1 DEF Sound, IsBuffer, InBounds, TextCells, gb_gap_size
  <1> QED BY <1>2, <1>3 DEF Sound, m

LEMMA InsertIsSound ==
    ASSUME NEW g, Sound(g), NEW str \in Seq(Chars)
    PROVE  Sound(gb_str_insert(g, str))
  <1> DEFINE m == gb_move_gap_to_point(g)
             e == gb_expand_gap(m, Len(str))
  <1>1. Sound(m) /\ m.point = m.gap /\ Len(str) \in Nat
    BY MoveGap
  <1> HIDE DEF m
  <1>2. Sound(e) /\ Len(str) <= gb_gap_size(e)
    BY <1>1, ExpandGap
  <1> HIDE DEF e
  <1>3. Sound(gb_putc(e, str))
    BY <1>2, PutIsSound
  <1> QED BY <1>3 DEF gb_str_insert, m, e

\* A string put into an empty buffer is all of its text.
LEMMA InsertGrows ==
    ASSUME NEW g, Sound(g), gb_data_size(g) = 0, NEW str \in Seq(Chars)
    PROVE  Sound(gb_str_insert(g, str)) /\ gb_data_size(gb_str_insert(g, str)) = Len(str)
  <1> DEFINE m == gb_move_gap_to_point(g)
             e == gb_expand_gap(m, Len(str))
             r == gb_putc(e, str)
  <1>1. Sound(m) /\ m.point = m.gap /\ gb_data_size(m) = 0 /\ Len(str) \in Nat
    BY MoveGap
  <1> HIDE DEF m
  <1>2. Sound(e) /\ gb_data_size(e) = 0
    BY <1>1, ExpandGap
  <1>3. r.gap = e.gap + Len(str) /\ r.egap = e.egap /\ r.ebuf = e.ebuf
    BY DEF gb_putc, Buffer
  <1> HIDE DEF e
  <1>4. gb_data_size(r) = Len(str)
    <2>1. {e.gap, e.egap, e.ebuf} \subseteq Nat
      BY <1>2 DEF Sound, IsBuffer
    <2> HIDE DEF r
    <2> QED BY <1>1, <1>2, <1>3, <2>1 DEF gb_data_size, gb_gap_size
  <1>5. Sound(gb_str_insert(g, str))
    BY InsertIsSound
  <1>6. CASE str = <<>>
    BY <1>5, <1>6 DEF gb_str_insert
  <1>7. CASE str # <<>>
    BY <1>4, <1>5, <1>7 DEF gb_str_insert, r, e, m
  <1> QED BY <1>6, <1>7

\* Deleting to the right, as long as there is something to delete.
LEMMA DeleteIsSound ==
    ASSUME NEW g, Sound(g), NEW cnt \in Nat, CursorOf(g) + cnt <= gb_data_size(g)
    PROVE  Sound(gb_del(g, cnt))
  <1> DEFINE b == gb_move_gap_to_point(g)
             m == gb_del(g, cnt)
  <1>0. /\ Sound(b) /\ b.point = b.gap
        /\ b.gap = CursorOf(g) /\ gb_data_size(b) = gb_data_size(g)
    BY MoveGap
  <1>1. /\ m.egap = b.egap + cnt /\ m.gap = b.gap /\ m.point = b.point
        /\ m.ebuf = b.ebuf /\ m.alloc = b.alloc
        /\ m.cell = [i \in 0 .. b.ebuf - 1 |->
              IF i < b.gap \/ i >= b.egap + cnt THEN b.cell[i] ELSE Junk]
        /\ m = [cell |-> m.cell, gap |-> m.gap, egap |-> m.egap, ebuf |-> m.ebuf,
                alloc |-> m.alloc, point |-> m.point]
    BY DEF gb_del, Buffer
  <1> HIDE DEF m, b
  <1>2. b.egap + cnt <= b.ebuf
    BY <1>0 DEF Sound, IsBuffer, gb_data_size, gb_gap_size
  <1>3. IsBuffer(m) /\ InBounds(m) /\ OutsideGap(m)
    BY <1>0, <1>1, <1>2 DEF Sound, IsBuffer, InBounds, OutsideGap
  <1>4. TextCells(m)
    BY <1>0, <1>1, <1>2 DEF Sound, IsBuffer, InBounds, TextCells
  <1> QED BY <1>3, <1>4 DEF Sound, m

LEMMA CursorInText ==
    ASSUME NEW g, Sound(g)
    PROVE  CursorOf(g) \in Nat /\ gb_data_size(g) \in Nat /\ CursorOf(g) <= gb_data_size(g)
  BY DEF Sound, IsBuffer, InBounds, OutsideGap, CursorOf, gb_data_size, gb_gap_size

LEMMA TextIsASequence ==
    ASSUME NEW g, Sound(g)
    PROVE  TextOf(g) \in Seq(Chars) /\ Len(TextOf(g)) = gb_data_size(g)
  <1>1. gb_data_size(g) \in Nat
    BY CursorInText
  <1>2. \A i \in 1 .. gb_data_size(g) :
           (IF i <= g.gap THEN g.cell[i - 1] ELSE g.cell[i - 1 + gb_gap_size(g)]) \in Chars
    <2> TAKE i \in 1 .. gb_data_size(g)
    <2>0. {g.gap, g.egap, g.ebuf} \subseteq Nat /\ g.gap <= g.egap /\ g.egap <= g.ebuf
      BY DEF Sound, IsBuffer, InBounds
    <2>1. CASE i <= g.gap
      <3>1. i - 1 \in 0 .. g.ebuf - 1 /\ i - 1 < g.gap
        BY <2>0, <2>1
      <3> QED BY <3>1, <2>1 DEF Sound, TextCells
    <2>2. CASE ~(i <= g.gap)
      <3>1. i - 1 + gb_gap_size(g) \in 0 .. g.ebuf - 1 /\ i - 1 + gb_gap_size(g) >= g.egap
        BY <2>0, <2>2 DEF gb_data_size, gb_gap_size
      <3> QED BY <3>1, <2>2 DEF Sound, TextCells
    <2> QED BY <2>1, <2>2
  <1>3. TextOf(g) \in [1 .. gb_data_size(g) -> Chars]
    BY <1>2 DEF TextOf
  <1>4. TextOf(g) \in Seq(Chars)
    BY <1>1, <1>3
  <1> QED BY <1>1, <1>3, <1>4, LenProperties
-----------------------------------------------------------------------------
(***************************************************************************)
(* The point moves without the text.                                       *)
(***************************************************************************)

LEMMA SetPointIsSound ==
    ASSUME NEW g, Sound(g), NEW idx \in Int, idx = -1 \/ idx \in 0 .. gb_data_size(g)
    PROVE  Sound(gb_set_point(g, idx))
  <1> DEFINE p == gb_set_point(g, idx).point
  <1>0. /\ {g.gap, g.egap, g.ebuf} \subseteq Nat /\ g.gap <= g.egap /\ g.egap <= g.ebuf
        /\ gb_set_point(g, idx) = [g EXCEPT !.point = p]
        /\ g = [cell |-> g.cell, gap |-> g.gap, egap |-> g.egap, ebuf |-> g.ebuf,
                alloc |-> g.alloc, point |-> g.point]
    BY DEF Sound, IsBuffer, InBounds, gb_set_point
  <1>1. p \in Nat /\ (p <= g.gap \/ (g.egap <= p /\ p <= g.ebuf))
    <2>1. CASE idx = -1
      BY <1>0, <2>1 DEF gb_set_point
    <2>2. CASE idx \in 0 .. g.gap
      BY <1>0, <2>2 DEF gb_set_point
    <2>3. CASE idx # -1 /\ idx \notin 0 .. g.gap
      <3>1. p = idx + gb_gap_size(g)
        BY <1>0, <2>3 DEF gb_set_point
      <3> QED BY <1>0, <2>3, <3>1 DEF gb_data_size, gb_gap_size
    <2> QED BY <2>1, <2>2, <2>3
  <1> HIDE DEF p
  <1> QED BY <1>0, <1>1, PointIsSound

LEMMA MoveRightIsSound ==
    ASSUME NEW g, Sound(g)
    PROVE  Sound(gb_move_right(g))
  <1> DEFINE p == gb_move_right(g).point
  <1>0. /\ {g.gap, g.egap, g.ebuf, g.point} \subseteq Nat /\ g.gap <= g.egap /\ g.egap <= g.ebuf
        /\ gb_move_right(g) = [g EXCEPT !.point = p]
        /\ g = [cell |-> g.cell, gap |-> g.gap, egap |-> g.egap, ebuf |-> g.ebuf,
                alloc |-> g.alloc, point |-> g.point]
    BY DEF Sound, IsBuffer, InBounds, gb_move_right
  <1>1. p \in Nat /\ (p <= g.gap \/ (g.egap <= p /\ p <= g.ebuf))
    BY <1>0 DEF Sound, OutsideGap, gb_move_right
  <1> HIDE DEF p
  <1> QED BY <1>0, <1>1, PointIsSound

\* One to the left, and there is a character right of the point then, unless
\* the buffer is empty and the point is behind its gap.
LEMMA MoveLeftIsSound ==
    ASSUME NEW g, Sound(g)
    PROVE  /\ Sound(gb_move_left(g))
           /\ (~gb_point_at_start(g) /\ ~(g.gap = 0 /\ g.egap = g.ebuf))
                  => CursorOf(gb_move_left(g)) + 1 <= gb_data_size(gb_move_left(g))
  <1> DEFINE m == gb_move_left(g)
             p == m.point
  <1>0. /\ {g.gap, g.egap, g.ebuf, g.point} \subseteq Nat /\ g.gap <= g.egap /\ g.egap <= g.ebuf
        /\ m = [g EXCEPT !.point = p]
        /\ m.gap = g.gap /\ m.egap = g.egap /\ m.ebuf = g.ebuf
        /\ g = [cell |-> g.cell, gap |-> g.gap, egap |-> g.egap, ebuf |-> g.ebuf,
                alloc |-> g.alloc, point |-> g.point]
        /\ g.point <= g.gap \/ (g.egap <= g.point /\ g.point <= g.ebuf)
    BY DEF Sound, IsBuffer, InBounds, OutsideGap, gb_move_left
  <1>1. p = IF g.point = g.egap THEN IF g.gap = 0 THEN 0 ELSE g.gap - 1
            ELSE IF g.point = 0 THEN 0 ELSE g.point - 1
    BY <1>0 DEF gb_move_left
  <1>2. p \in Nat /\ (p <= g.gap \/ (g.egap <= p /\ p <= g.ebuf))
    BY <1>0, <1>1
  <1>3. ASSUME g.point # 0, ~(g.gap = 0 /\ g.egap = g.ebuf)
        PROVE  CursorOf(m) + 1 <= gb_data_size(m)
    <2>1. (IF p <= g.gap THEN p ELSE p - (g.egap - g.gap)) + 1 <= g.ebuf - (g.egap - g.gap)
      BY <1>0, <1>1, <1>2, <1>3
    <2> QED BY <2>1, <1>0 DEF CursorOf, gb_data_size, gb_gap_size
  <1>4. Sound(m)
    <2> HIDE DEF m
    <2> QED BY <1>0, <1>2, PointIsSound
  <1> QED BY <1>3, <1>4 DEF gb_point_at_start
-----------------------------------------------------------------------------
(***************************************************************************)
(* Texts and the history.                                                  *)
(***************************************************************************)

LEMMA PartIsAText ==
    ASSUME NEW t \in Seq(Chars), NEW a \in Nat \ {0}, NEW b \in Int, b <= Len(t)
    PROVE  SubSeq(t, a, b) \in Seq(Chars)
  <1>1. \A i \in a .. b : t[i] \in Chars
    BY LenProperties, ElementOfSeq
  <1> QED BY <1>1, SubSeqProperties

LEMMA SpanIsInText ==
    ASSUME NEW t \in Seq(Chars), Spans(t) # {}
    PROVE  Span(t)[1] \in 1 .. Len(t) /\ Span(t)[2] \in 1 .. Len(t)
  <1>1. Span(t) \in Spans(t)
    BY DEF Span
  <1>2. Span(t) \in (DOMAIN t) \X (DOMAIN t)
    BY <1>1 DEF Spans
  <1> QED BY <1>2, LenProperties

LEMMA TrimmedIsAText ==
    ASSUME NEW t \in Seq(Chars)
    PROVE  Trimmed(t) \in Seq(Chars)
  <1>1. CASE Spans(t) = {}
    BY <1>1, EmptySeq DEF Trimmed
  <1>2. CASE Spans(t) # {}
    <2>1. Span(t)[1] \in Nat \ {0} /\ Span(t)[2] \in Int /\ Span(t)[2] <= Len(t)
      BY <1>2, SpanIsInText, LenProperties
    <2> QED BY <1>2, <2>1, PartIsAText DEF Trimmed
  <1> QED BY <1>1, <1>2

LEMMA AliasTextIsAText ==
    ASSUME NEW t \in Seq(Chars)
    PROVE  AliasText(t) \in Seq(Chars)
  <1>1. SubSeq(t, 2, Len(t)) \in Seq(Chars)
    BY PartIsAText, LenProperties
  <1> QED BY <1>1, ConsoleAssumption, ConcatProperties DEF AliasText

Typed(h) ==
    /\ h.hd \in Seq(Hists) /\ h.free \in Seq(Hists)
    /\ h.line \in [Hists -> Seq(Chars)] /\ h.broken \in BOOLEAN

LEMMA AddIsTyped ==
    ASSUME NEW h, Typed(h), NEW t \in Seq(Chars)
    PROVE  Typed(cli_history_add(h, t))
  <1> DEFINE repeated == h.hd # <<>> /\ h.line[Last(h.hd)] = t
             evict == h.free = <<>>
             e == IF evict THEN Head(h.hd) ELSE Head(h.free)
             r == HistOf(Append(IF evict THEN Tail(h.hd) ELSE h.hd, e),
                         IF evict THEN h.free ELSE Tail(h.free),
                         [h.line EXCEPT ![e] = t], h.broken)
  <1>1. CASE repeated
    BY <1>1 DEF cli_history_add
  <1>2. CASE ~repeated /\ evict /\ h.hd = <<>>
    <2>1. cli_history_add(h, t) = HistOf(h.hd, h.free, h.line, TRUE)
      BY <1>2 DEF cli_history_add
    <2> QED BY <2>1 DEF Typed, HistOf
  <1>3. CASE ~repeated /\ ~(evict /\ h.hd = <<>>)
    <2>1. cli_history_add(h, t) = r
      BY <1>3 DEF cli_history_add
    <2>2. e \in Hists
      BY <1>3, HeadTailProperties DEF Typed
    <2>3. (IF evict THEN Tail(h.hd) ELSE h.hd) \in Seq(Hists)
      BY <1>3, HeadTailProperties DEF Typed
    <2>4. (IF evict THEN h.free ELSE Tail(h.free)) \in Seq(Hists)
      BY HeadTailProperties DEF Typed
    <2>5. Append(IF evict THEN Tail(h.hd) ELSE h.hd, e) \in Seq(Hists)
      BY <2>2, <2>3, AppendProperties
    <2>6. [h.line EXCEPT ![e] = t] \in [Hists -> Seq(Chars)]
      BY <2>2 DEF Typed
    <2>7. r.hd = Append(IF evict THEN Tail(h.hd) ELSE h.hd, e)
          /\ r.free = (IF evict THEN h.free ELSE Tail(h.free))
          /\ r.line = [h.line EXCEPT ![e] = t] /\ r.broken = h.broken
      BY DEF HistOf
    <2> HIDE DEF r, e, evict
    <2> QED BY <2>1, <2>4, <2>5, <2>6, <2>7 DEF Typed
  <1> QED BY <1>1, <1>2, <1>3

LEMMA DelIsTyped ==
    ASSUME NEW h, Typed(h)
    PROVE  Typed(cli_history_del(h))
  <1>1. Front(h.hd) \in Seq(Hists)
    <2>1. Len(h.hd) \in Nat /\ \A i \in 1 .. Len(h.hd) - 1 : h.hd[i] \in Hists
      BY LenProperties, ElementOfSeq DEF Typed
    <2> QED BY <2>1, SubSeqProperties DEF Front
  <1> QED BY <1>1 DEF Typed, cli_history_del, HistOf

LEMMA RememberedIsTyped ==
    ASSUME NEW h, Typed(h), NEW t \in Seq(Chars)
    PROVE  Typed(Remembered(h, t))
  BY AddIsTyped, TrimmedIsAText DEF Remembered

LEMMA ExecuteIsTyped ==
    ASSUME NEW h, Typed(h), NEW g, Sound(g)
    PROVE  Typed(Execute(h, g).hist) /\ Sound(Execute(h, g).gb)
  <1> DEFINE t == TextOf(g)
             first == Remembered(h, t)
             isAlias == FirstWord(Executed(first, t)) = <<AliasWord>>
             second == Remembered(cli_history_del(first), AliasText(t))
             new == gb_str_insert(gb_reset_buf(g), AliasText(t))
  <1>1. t \in Seq(Chars)
    BY TextIsASequence
  <1>2. Typed(first)
    BY <1>1, RememberedIsTyped
  <1>3. AliasText(t) \in Seq(Chars)
    BY <1>1, AliasTextIsAText
  <1>4. Typed(second)
    BY <1>2, <1>3, DelIsTyped, RememberedIsTyped
  <1>5. Sound(new)
    BY <1>3, ResetIsSound, InsertIsSound
  <1>6. Execute(h, g) = IF first.broken \/ ~isAlias THEN [hist |-> first, gb |-> g]
                        ELSE [hist |-> second, gb |-> new]
    BY DEF Execute
  <1> HIDE DEF t, first, isAlias, second, new
  <1> QED BY <1>2, <1>4, <1>5, <1>6
-----------------------------------------------------------------------------
(***************************************************************************)
(* The keys.                                                               *)
(***************************************************************************)

OnTheList == curr_hist # NULL => curr_hist \in Elements(hd_hist)

IInv ==
    /\ Sound(gb)
    /\ Typed(History)
    /\ kill.freed \in BOOLEAN /\ kill.text \in Seq(Chars)
    /\ curr_hist \in Hists \cup {NULL}
    /\ OnTheList
    /\ quit_flag \in BOOLEAN
    /\ bound \in Bounds
    /\ kills \in 0 .. bound.kills /\ returns \in 0 .. bound.returns

LEMMA BoundIsTyped ==
    ASSUME bound \in Bounds
    PROVE  bound.chars \subseteq Chars /\ bound.kills \in Nat /\ bound.returns \in Nat
  BY ConsoleAssumption

\* A key that only edits the buffer keeps the invariant if it keeps the buffer.
LEMMA EditKeeps ==
    ASSUME IInv, NEW g, Sound(g), Edit(g)
    PROVE  IInv'
  BY DEF IInv, Edit, OnTheList, History, HistOf, hist, Typed

LEMMA CharKeeps ==
    ASSUME IInv, NEW c \in bound.chars, handle_input_display(c)
    PROVE  IInv'
  <1>1. <<c>> \in Seq(Chars)
    BY BoundIsTyped DEF IInv
  <1>2. Sound(gb_insert(gb, c))
    BY <1>1, InsertIsSound DEF gb_insert, IInv
  <1> QED BY <1>2, EditKeeps DEF handle_input_display

LEMMA MoveKeeps ==
    ASSUME IInv, CursorKeys
    PROVE  IInv'
  <1>0. Sound(gb) /\ Len(Text) = gb_data_size(gb)
    BY TextIsASequence DEF IInv, Text
  <1>a. /\ {gb.gap, gb.egap, gb.ebuf} \subseteq Nat /\ gb.gap <= gb.egap /\ gb.egap <= gb.ebuf
    BY <1>0 DEF Sound, IsBuffer, InBounds
  <1>b. CursorOf(gb) \in Nat /\ gb_data_size(gb) \in Nat /\ CursorOf(gb) <= gb_data_size(gb)
    BY <1>0, CursorInText
  <1>1. CASE Edit(key_right_arr(gb))
    BY <1>0, <1>1, MoveRightIsSound, EditKeeps DEF key_right_arr
  <1>2. CASE Edit(key_left_arr(gb))
    BY <1>0, <1>2, MoveLeftIsSound, EditKeeps DEF key_left_arr
  <1>3. CASE Edit(gb_set_point(gb, 0))
    BY <1>0, <1>3, <1>b, SetPointIsSound, EditKeeps
  <1>4. CASE Edit(gb_set_point(gb, -1))
    BY <1>0, <1>4, SetPointIsSound, EditKeeps
  <1>5. CASE key_word_left
    <2>1. PICK at \in 0 .. CursorOf(gb) : Edit(gb_set_point(gb, at))
      BY <1>5 DEF key_word_left
    <2>2. at \in Int /\ at \in 0 .. gb_data_size(gb)
      BY <1>b
    <2> QED BY <1>0, <2>1, <2>2, SetPointIsSound, EditKeeps
  <1>6. CASE key_word_right
    <2> DEFINE p(at) == IF at < gb.gap THEN at ELSE at + gb_gap_size(gb)
    <2>1. PICK at \in CursorOf(gb) .. Len(Text) : Edit([gb EXCEPT !.point = p(at)])
      BY <1>6 DEF key_word_right
    <2>2. p(at) \in Nat /\ (p(at) <= gb.gap \/ (gb.egap <= p(at) /\ p(at) <= gb.ebuf))
      BY <1>0, <1>a, <1>b DEF gb_data_size, gb_gap_size
    <2> HIDE DEF p
    <2>3. Sound([gb EXCEPT !.point = p(at)])
      BY <1>0, <2>2, PointIsSound
    <2> QED BY <2>1, <2>3, EditKeeps
  <1>7. CASE Edit(gb_move_gap_to_point(gb))
    BY <1>0, <1>7, MoveGap, EditKeeps
  <1> QED BY <1>1, <1>2, <1>3, <1>4, <1>5, <1>6, <1>7 DEF CursorKeys

LEMMA BackspaceKeeps ==
    ASSUME IInv, key_backspace
    PROVE  IInv'
  <1>0. Sound(gb)
    BY DEF IInv
  <1>1. CASE ~gb_point_at_start(gb) /\ gb.gap = 0 /\ gb.egap = gb.ebuf
    BY <1>1 DEF key_backspace, IInv, OnTheList, History, HistOf, hist, Typed
  <1>2. CASE gb_point_at_start(gb)
    BY <1>0, <1>2, EditKeeps DEF key_backspace
  <1>3. CASE ~gb_point_at_start(gb) /\ ~(gb.gap = 0 /\ gb.egap = gb.ebuf)
    <2> DEFINE m == gb_move_left(gb)
    <2>1. Edit(gb_del(m, 1))
      BY <1>3 DEF key_backspace
    <2>2. Sound(m) /\ CursorOf(m) + 1 <= gb_data_size(m)
      BY <1>0, <1>3, MoveLeftIsSound
    <2> HIDE DEF m
    <2>3. Sound(gb_del(m, 1))
      BY <2>2, DeleteIsSound
    <2> QED BY <2>1, <2>3, EditKeeps
  <1> QED BY <1>1, <1>2, <1>3

LEMMA KillKeeps ==
    ASSUME IInv, key_ctrl_k
    PROVE  IInv'
  <1> DEFINE g == gb_move_gap_to_point(gb)
             right == gb_right_data_size(g)
  <1>0. Sound(gb) /\ Text \in Seq(Chars) /\ CursorOf(gb) \in Nat
    BY TextIsASequence, CursorInText DEF IInv, Text
  <1>1. Sound(g) /\ g.point = g.gap
    BY <1>0, MoveGap
  <1> HIDE DEF g
  <1>2. right \in Nat /\ CursorOf(g) + right <= gb_data_size(g)
    BY <1>1 DEF Sound, IsBuffer, InBounds, gb_right_data_size, gb_eof, CursorOf,
                gb_data_size, gb_gap_size
  <1> HIDE DEF right
  <1>3. Sound(gb_del(g, right))
    BY <1>1, <1>2, DeleteIsSound
  <1>4. gb' = gb_del(g, right)
    BY DEF key_ctrl_k, g, right
  <1>5. SubSeq(Text, CursorOf(gb) + 1, Len(Text)) \in Seq(Chars)
    BY <1>0, PartIsAText, LenProperties
  <1>6. kill'.freed \in BOOLEAN /\ kill'.text \in Seq(Chars)
    <2>1. kill' \in {[freed |-> FALSE, text |-> SubSeq(Text, CursorOf(gb) + 1, Len(Text))],
                     NoText, Freed}
      BY <1>2 DEF key_ctrl_k, g, right
    <2>2. <<>> \in Seq(Chars)
      BY EmptySeq
    <2> DEFINE right_text == SubSeq(Text, CursorOf(gb) + 1, Len(Text))
    <2>3. CASE kill' = [freed |-> FALSE, text |-> right_text]
      <3>1. kill'.freed = FALSE /\ kill'.text = right_text
        BY <2>3
      <3> QED BY <1>5, <3>1
    <2>4. CASE kill' = NoText
      <3>1. NoText.freed \in BOOLEAN /\ NoText.text \in Seq(Chars)
        BY <2>2 DEF NoText
      <3> QED BY <2>4, <3>1
    <2>5. CASE kill' = Freed
      <3>1. Freed.freed \in BOOLEAN /\ Freed.text \in Seq(Chars)
        BY <2>2 DEF Freed
      <3> QED BY <2>5, <3>1
    <2> QED BY <2>1, <2>3, <2>4, <2>5
  <1>7. kills' \in 0 .. bound'.kills /\ broken' \in BOOLEAN
    BY BoundIsTyped DEF key_ctrl_k, IInv
  <1> QED BY <1>3, <1>4, <1>6, <1>7 DEF key_ctrl_k, IInv, OnTheList, History, HistOf, hist, Typed

LEMMA YankKeeps ==
    ASSUME IInv, key_ctrl_y
    PROVE  IInv'
  <1>1. Sound(gb_str_insert(gb, kill.text))
    BY InsertIsSound DEF IInv
  <1> QED BY <1>1 DEF key_ctrl_y, IInv, OnTheList, History, HistOf, hist, Typed

LEMMA ClearKeeps ==
    ASSUME IInv, key_ctrl_c
    PROVE  IInv'
  <1>1. Sound(gb_reset_buf(gb))
    BY ResetIsSound DEF IInv
  <1> QED BY <1>1 DEF key_ctrl_c, IInv, OnTheList, History, HistOf, hist, Typed, NULL

\* The line of an entry on the list is a text.
LEMMA RecallKeeps ==
    ASSUME IInv, NEW h \in Elements(hd_hist), Recall(h)
    PROVE  IInv'
  <1> DEFINE r == gb_reset_buf(gb)
             g == gb_str_insert(r, line[h])
  <1>1. h \in Hists /\ line[h] \in Seq(Chars)
    <2>1. hd_hist \in Seq(Hists) /\ line \in [Hists -> Seq(Chars)]
      BY DEF IInv, Typed, History, HistOf
    <2> QED BY <2>1, LenProperties, ElementOfSeq DEF Elements
  <1>2. Sound(r) /\ gb_data_size(r) = 0
    BY ResetIsSound DEF IInv
  <1> HIDE DEF r
  <1>3. Sound(g) /\ gb_data_size(g) = Len(line[h])
    BY <1>1, <1>2, InsertGrows
  <1>4. Len(line[h]) \in Nat
    BY <1>1
  <1> HIDE DEF g
  <1>5. Sound(gb_set_point(g, Len(line[h])))
    BY <1>3, <1>4, SetPointIsSound
  <1>6. gb' = gb_set_point(g, Len(line[h]))
    BY DEF Recall, g, r
  <1> QED BY <1>1, <1>5, <1>6 DEF Recall, IInv, OnTheList, History, HistOf, hist, Typed

\* cli_history_prev gives a line of the list: the one before the line shown, the
\* last one when none is shown.
LEMMA PrevIsOnTheList ==
    ASSUME IInv, key_up_arr
    PROVE  cli_history_prev \in Elements(hd_hist)
  <1>1. hd_hist \in Seq(Hists) /\ hd_hist # <<>> /\ Len(hd_hist) \in Nat \ {0}
    BY EmptySeq DEF key_up_arr, IInv, Typed, History, HistOf
  <1>2. CASE curr_hist = NULL
    BY <1>1, <1>2, LenProperties DEF cli_history_prev, Last, Elements
  <1>3. CASE curr_hist # NULL /\ curr_hist = Head(hd_hist)
    BY <1>1, <1>3 DEF cli_history_prev, IInv, OnTheList
  <1>4. CASE curr_hist # NULL /\ curr_hist # Head(hd_hist)
    <2> DEFINE i == CHOOSE i \in DOMAIN hd_hist : hd_hist[i] = curr_hist
    <2>1. i \in DOMAIN hd_hist /\ hd_hist[i] = curr_hist
      BY <1>4 DEF IInv, OnTheList, Elements
    <2>2. i # 1 /\ DOMAIN hd_hist = 1 .. Len(hd_hist)
      BY <1>1, <1>4, <2>1
    <2>3. cli_history_prev = hd_hist[i - 1]
      BY <1>4 DEF cli_history_prev
    <2> HIDE DEF i
    <2>4. i - 1 \in DOMAIN hd_hist
      BY <1>1, <2>1, <2>2
    <2> QED BY <2>3, <2>4 DEF Elements
  <1> QED BY <1>2, <1>3, <1>4

\* cli_history_next gives a line of the list while the line shown is not the last.
LEMMA NextIsOnTheList ==
    ASSUME IInv, key_down_arr, curr_hist # Last(hd_hist)
    PROVE  cli_history_next \in Elements(hd_hist)
  <1> DEFINE i == CHOOSE i \in DOMAIN hd_hist : hd_hist[i] = curr_hist
  <1>1. hd_hist \in Seq(Hists) /\ hd_hist # <<>> /\ Len(hd_hist) \in Nat \ {0}
    BY EmptySeq DEF key_down_arr, IInv, Typed, History, HistOf
  <1>2. i \in DOMAIN hd_hist /\ hd_hist[i] = curr_hist
    BY DEF key_down_arr, IInv, OnTheList, Elements
  <1>3. i # Len(hd_hist) /\ DOMAIN hd_hist = 1 .. Len(hd_hist)
    BY <1>1, <1>2 DEF Last
  <1>4. cli_history_next = hd_hist[i + 1]
    BY DEF cli_history_next
  <1> HIDE DEF i
  <1>5. i + 1 \in DOMAIN hd_hist
    BY <1>1, <1>2, <1>3
  <1> QED BY <1>4, <1>5 DEF Elements

LEMMA UpKeeps ==
    ASSUME IInv, key_up_arr
    PROVE  IInv'
  BY PrevIsOnTheList, RecallKeeps DEF key_up_arr

LEMMA DownKeeps ==
    ASSUME IInv, key_down_arr
    PROVE  IInv'
  <1>1. CASE curr_hist = Last(hd_hist)
    <2> DEFINE r == gb_reset_buf(gb)
    <2>1. Sound(r) /\ gb_data_size(r) = 0
      BY ResetIsSound DEF IInv
    <2>2. Edit(gb_set_point(r, 0))
      BY <1>1 DEF key_down_arr
    <2> HIDE DEF r
    <2>3. Sound(gb_set_point(r, 0))
      BY <2>1, SetPointIsSound
    <2> QED BY <2>2, <2>3, EditKeeps
  <1>2. CASE curr_hist # Last(hd_hist)
    BY <1>2, NextIsOnTheList, RecallKeeps DEF key_down_arr
  <1> QED BY <1>1, <1>2

LEMMA ReturnKeeps ==
    ASSUME IInv, key_return
    PROVE  IInv'
  <1> DEFINE r == Execute(History, gb)
  <1>1. Typed(r.hist) /\ Sound(r.gb)
    BY ExecuteIsTyped DEF IInv
  <1>2. /\ hd_hist' = r.hist.hd /\ free_hist' = r.hist.free /\ line' = r.hist.line
        /\ broken' = r.hist.broken /\ gb' = gb_reset_buf(r.gb)
    BY DEF key_return
  <1> HIDE DEF r
  <1>3. Sound(gb')
    BY <1>1, <1>2, ResetIsSound
  <1>4. Typed(History)'
    BY <1>1, <1>2 DEF Typed, History, HistOf
  <1>5. returns' \in 0 .. bound'.returns
    BY BoundIsTyped DEF key_return, IInv
  <1> QED BY <1>3, <1>4, <1>5 DEF key_return, IInv, OnTheList, NULL

LEMMA NextKeeps == IInv /\ [Next]_vars => IInv'
  <1> SUFFICES ASSUME IInv, [Next]_vars PROVE IInv'
    OBVIOUS
  <1>1. CASE key_ctrl_x
    BY <1>1 DEF key_ctrl_x, IInv, OnTheList, History, HistOf, hist, Typed
  <1>2. CASE UNCHANGED vars
    BY <1>2 DEF vars, IInv, OnTheList, History, HistOf, hist, Typed
  <1> QED BY <1>1, <1>2, CharKeeps, MoveKeeps, BackspaceKeeps, KillKeeps, YankKeeps, ClearKeeps,
             UpKeeps, DownKeeps, ReturnKeeps DEF Next

LEMMA InitHolds == Init => IInv
  <1> SUFFICES ASSUME Init PROVE IInv
    OBVIOUS
  <1>1. Sound(gb)
    BY CreateIsSound DEF Init
  <1>2. free_hist \in Seq(Hists)
    BY ConsoleAssumption DEF Init, Hists
  <1>3. Typed(History)
    BY <1>2, EmptySeq DEF Init, Typed, History, HistOf
  <1>4. kills \in 0 .. bound.kills /\ returns \in 0 .. bound.returns
    BY BoundIsTyped DEF Init
  <1> QED BY <1>1, <1>3, <1>4, EmptySeq DEF Init, IInv, OnTheList, NoText, NULL

LEMMA SpecKeeps == Spec => []IInv
  BY InitHolds, NextKeeps, PTL DEF Spec

\* gb_insert, gb_str_insert, gb_del, gb_move_gap_* and gb_set_point leave every
\* pointer of the buffer inside its memory and the point outside the gap.
THEOREM BufferIsSafe == Spec => []BufferStaysInMemory
  <1>1. IInv => BufferStaysInMemory
    BY DEF IInv, Sound, BufferStaysInMemory
  <1> QED BY <1>1, SpecKeeps, PTL

\* cli_history_add and cli_history_del may reuse or drop any entry, and still
\* cli_history_prev and cli_history_next find the one they start from.
THEOREM ArrowsAreSafe == Spec => []ArrowsStartOnTheList
  <1>1. IInv => ArrowsStartOnTheList
    BY DEF IInv, OnTheList, ArrowsStartOnTheList
  <1> QED BY <1>1, SpecKeeps, PTL

\* Text, history and killed text consist of characters, whatever is typed.
THEOREM TypesHold == Spec => []TypeOK
  <1>1. IInv => TypeOK
    <2> SUFFICES ASSUME IInv PROVE TypeOK
      OBVIOUS
    <2>0. \A S : \A s \in Seq(S) : Elements(s) \subseteq S
      BY LenProperties, ElementOfSeq DEF Elements
    <2>1. Text \in Seq(Chars)
      BY TextIsASequence DEF IInv, Text
    <2>2. IsBuffer(gb)
      BY DEF IInv, Sound
    <2>3. /\ hd_hist \in Seq(Hists) /\ free_hist \in Seq(Hists)
          /\ line \in [Hists -> Seq(Chars)] /\ broken \in BOOLEAN
      BY DEF IInv, Typed, History, HistOf
    <2>4. Elements(hd_hist) \subseteq Hists /\ Elements(free_hist) \subseteq Hists
      BY <2>0, <2>3
    <2>5. \A h \in Hists : Elements(line[h]) \subseteq Chars
      BY <2>0, <2>3
    <2>6. Elements(Text) \subseteq Chars
      BY <2>0, <2>1
    <2>7. Elements(kill.text) \subseteq Chars
      BY <2>0 DEF IInv
    <2> QED BY <2>2, <2>3, <2>4, <2>5, <2>6, <2>7 DEF IInv, TypeOK
  <1> QED BY <1>1, SpecKeeps, PTL
-----------------------------------------------------------------------------
(***************************************************************************)
(* The history.                                                            *)
(***************************************************************************)

Distinct(s) == \A i, j \in 1 .. Len(s) : s[i] = s[j] => i = j

\* No entry is twice on a list, or on both.
OnePlace(h) ==
    /\ Distinct(h.hd) /\ Distinct(h.free)
    /\ \A i \in 1 .. Len(h.hd), j \in 1 .. Len(h.free) : h.hd[i] # h.free[j]

Differ(h) == \A i \in 1 .. Len(h.hd) - 1 : h.line[h.hd[i]] # h.line[h.hd[i + 1]]

IsName(t) == FirstWord(t) = <<AliasWord>>

NoNames(h) == \A i \in 1 .. Len(h.hd) : ~IsName(h.line[h.hd[i]])

SoundHistory(h) == Typed(h) /\ OnePlace(h) /\ Differ(h) /\ NoNames(h)

\* What the new history shows it showed before, or is the new line.
ShowsBesides(n, h, t) ==
    \A i \in 1 .. Len(n.hd) :
        \/ i = Len(n.hd) /\ n.line[n.hd[i]] = t
        \/ \E j \in 1 .. Len(h.hd) : n.line[n.hd[i]] = h.line[h.hd[j]]

\* e is on neither list, and t is not the last line.
Fresh(old, rest, e, l, t) ==
    /\ old \in Seq(Hists) /\ rest \in Seq(Hists) /\ e \in Hists
    /\ l \in [Hists -> Seq(Chars)] /\ t \in Seq(Chars)
    /\ Distinct(old) /\ Distinct(rest)
    /\ \A i \in 1 .. Len(old), j \in 1 .. Len(rest) : old[i] # rest[j]
    /\ \A i \in 1 .. Len(old) : old[i] # e
    /\ \A j \in 1 .. Len(rest) : rest[j] # e
    /\ \A i \in 1 .. Len(old) - 1 : l[old[i]] # l[old[i + 1]]
    /\ Len(old) > 0 => l[old[Len(old)]] # t

Added(n, old, l, t) ==
    /\ OnePlace(n) /\ Differ(n) /\ n.line[n.hd[Len(n.hd)]] = t /\ Len(n.hd) = Len(old) + 1
    /\ \A i \in 1 .. Len(old) : n.line[n.hd[i]] = l[old[i]]

LEMMA AddAnEntry ==
    ASSUME NEW old, NEW rest, NEW e, NEW l, NEW t, NEW b, Fresh(old, rest, e, l, t),
           NEW n, n = HistOf(Append(old, e), rest, [l EXCEPT ![e] = t], b)
    PROVE  Added(n, old, l, t)
  <1> USE DEF Fresh
  <1> DEFINE hd == Append(old, e)
             m == [l EXCEPT ![e] = t]
  <1>1. /\ Len(old) \in Nat /\ Len(hd) = Len(old) + 1 /\ hd[Len(old) + 1] = e
        /\ \A i \in 1 .. Len(old) : hd[i] = old[i] /\ old[i] \in Hists
    BY AppendProperties, LenProperties, ElementOfSeq
  <1>2. m[e] = t /\ \A x \in Hists : x # e => m[x] = l[x]
    OBVIOUS
  <1>3. n.hd = hd /\ n.free = rest /\ n.line = m
    BY DEF HistOf
  <1>4. Distinct(old) /\ Distinct(rest) /\ \A i \in 1 .. Len(old), j \in 1 .. Len(rest) : old[i] # rest[j]
    OBVIOUS
  <1> HIDE DEF hd, m
  <1>5. \A i \in 1 .. Len(hd) : i \in 1 .. Len(old) \/ i = Len(old) + 1
    BY <1>1
  <1>6. Distinct(hd)
    <2>1. SUFFICES ASSUME NEW i \in 1 .. Len(hd), NEW j \in 1 .. Len(hd), hd[i] = hd[j] PROVE i = j
      BY DEF Distinct
    <2>2. CASE i \in 1 .. Len(old) /\ j \in 1 .. Len(old)
      <3>1. old[i] = old[j]
        BY <1>1, <2>1, <2>2
      <3> QED BY <1>4, <2>2, <3>1 DEF Distinct
    <2>3. CASE i \in 1 .. Len(old) /\ j = Len(old) + 1
      BY <1>1, <2>1, <2>3
    <2>4. CASE i = Len(old) + 1 /\ j \in 1 .. Len(old)
      BY <1>1, <2>1, <2>4
    <2> QED BY <1>5, <2>2, <2>3, <2>4
  <1>7. \A i \in 1 .. Len(hd), j \in 1 .. Len(rest) : hd[i] # rest[j]
    <2>1. SUFFICES ASSUME NEW i \in 1 .. Len(hd), NEW j \in 1 .. Len(rest) PROVE hd[i] # rest[j]
      OBVIOUS
    <2>2. CASE i \in 1 .. Len(old)
      BY <1>1, <1>4, <2>2
    <2>3. CASE i = Len(old) + 1
      BY <1>1, <2>3
    <2> QED BY <1>5, <2>2, <2>3
  <1>8. \A i \in 1 .. Len(old) : m[hd[i]] = l[old[i]]
    BY <1>1, <1>2
  <1>9. \A i \in 1 .. Len(hd) - 1 : m[hd[i]] # m[hd[i + 1]]
    <2>1. SUFFICES ASSUME NEW i \in 1 .. Len(hd) - 1 PROVE m[hd[i]] # m[hd[i + 1]]
      OBVIOUS
    <2>2. i \in 1 .. Len(old)
      BY <1>1
    <2>3. CASE i = Len(old)
      BY <1>1, <1>2, <1>8, <2>2, <2>3
    <2>4. CASE i # Len(old)
      <3>1. i \in 1 .. Len(old) - 1 /\ i + 1 \in 1 .. Len(old)
        BY <1>1, <2>2, <2>4
      <3> QED BY <1>8, <3>1
    <2> QED BY <2>3, <2>4
  <1>10. m[hd[Len(hd)]] = t
    BY <1>1, <1>2
  <1>11. OnePlace(n) /\ Differ(n)
    <2>1. OnePlace(n)
      <3>1. Distinct(n.hd) /\ Distinct(n.free)
        BY <1>3, <1>4, <1>6
      <3>2. \A i \in 1 .. Len(n.hd), j \in 1 .. Len(n.free) : n.hd[i] # n.free[j]
        BY <1>3, <1>7
      <3> QED BY <3>1, <3>2 DEF OnePlace
    <2>2. Differ(n)
      BY <1>3, <1>9 DEF Differ
    <2> QED BY <2>1, <2>2
  <1>12. n.line[n.hd[Len(n.hd)]] = t /\ Len(n.hd) = Len(old) + 1
         /\ \A i \in 1 .. Len(old) : n.line[n.hd[i]] = l[old[i]]
    BY <1>1, <1>3, <1>8, <1>10
  <1> QED BY <1>11, <1>12 DEF Added

LEMMA AddIsSound ==
    ASSUME NEW h, Typed(h), OnePlace(h), Differ(h), ~h.broken, NEW t \in Seq(Chars)
    PROVE  LET n == cli_history_add(h, t)
           IN  /\ Typed(n) /\ OnePlace(n) /\ Differ(n) /\ ShowsBesides(n, h, t)
               /\ n.broken => n.hd = h.hd /\ n.line = h.line
  <1> DEFINE repeated == h.hd # <<>> /\ h.line[Last(h.hd)] = t
             evict == h.free = <<>>
             n == cli_history_add(h, t)
  <1>0. Typed(n)
    BY AddIsTyped
  <1>1. CASE repeated
    <2>1. n = h
      BY <1>1 DEF cli_history_add
    <2> QED BY <1>0, <2>1 DEF ShowsBesides
  <1>2. CASE ~repeated /\ evict /\ h.hd = <<>>
    <2>1. n = HistOf(h.hd, h.free, h.line, TRUE)
      BY <1>2 DEF cli_history_add
    <2>2. n.hd = h.hd /\ n.free = h.free /\ n.line = h.line
      BY <2>1 DEF HistOf
    <2> HIDE DEF n
    <2>3. OnePlace(n) /\ Differ(n) /\ ShowsBesides(n, h, t)
      BY <2>2 DEF OnePlace, Differ, ShowsBesides
    <2> QED BY <1>0, <2>2, <2>3 DEF n
  <1>3. CASE ~repeated /\ evict /\ h.hd # <<>>
    <2> DEFINE old == Tail(h.hd)
               e == Head(h.hd)
    <2>1. n = HistOf(Append(old, e), h.free, [h.line EXCEPT ![e] = t], h.broken)
      BY <1>3 DEF cli_history_add
    <2>2. h.hd \in Seq(Hists) /\ h.free \in Seq(Hists) /\ h.line \in [Hists -> Seq(Chars)] /\ Len(h.free) = 0
      BY <1>3, EmptySeq DEF Typed
    <2>3. /\ old \in Seq(Hists) /\ e \in Hists /\ Len(old) = Len(h.hd) - 1 /\ Len(h.hd) \in Nat \ {0}
          /\ \A i \in 1 .. Len(old) : old[i] = h.hd[i + 1]
      BY <1>3, <2>2, HeadTailProperties, EmptySeq
    <2>4. e = h.hd[1]
      BY <1>3, <2>2
    <2> HIDE DEF old, e, n
    <2>5. Distinct(h.hd)
      BY DEF OnePlace
    <2>6. \A i \in 1 .. Len(old) : i + 1 \in 1 .. Len(h.hd) /\ i + 1 # 1 /\ 1 \in 1 .. Len(h.hd)
      BY <2>3
    <2>7. \A i \in 1 .. Len(old) : old[i] # e
      BY <2>3, <2>4, <2>5, <2>6 DEF Distinct
    <2>8. Distinct(old)
      <3>1. SUFFICES ASSUME NEW i \in 1 .. Len(old), NEW j \in 1 .. Len(old), old[i] = old[j] PROVE i = j
        BY DEF Distinct
      <3>2. i + 1 = j + 1
        BY <2>3, <2>5, <2>6, <3>1 DEF Distinct
      <3> QED BY <2>3, <3>2
    <2>9. Distinct(h.free) /\ \A i \in 1 .. Len(old), j \in 1 .. Len(h.free) : old[i] # h.free[j]
      <3>1. \A j \in 1 .. Len(h.free) : FALSE
        BY <2>2
      <3> QED BY <3>1 DEF Distinct
    <2>10. \A i \in 1 .. Len(old) - 1 : h.line[old[i]] # h.line[old[i + 1]]
      <3>1. \A i \in 1 .. Len(old) - 1 :
              i \in 1 .. Len(old) /\ i + 1 \in 1 .. Len(old) /\ i + 1 \in 1 .. Len(h.hd) - 1
        BY <2>3
      <3> QED BY <2>3, <3>1 DEF Differ
    <2>11. Len(old) > 0 => h.line[old[Len(old)]] # t
      <3>1. HAVE Len(old) > 0
      <3>2. Len(old) \in 1 .. Len(old) /\ Len(old) + 1 = Len(h.hd)
        BY <2>3, <3>1
      <3>3. old[Len(old)] = h.hd[Len(h.hd)]
        BY <2>3, <3>2
      <3> QED BY <1>3, <3>3 DEF Last
    <2>12. \A j \in 1 .. Len(h.free) : h.free[j] # e
      BY <2>2
    <2>13. /\ OnePlace(n) /\ Differ(n) /\ n.line[n.hd[Len(n.hd)]] = t /\ Len(n.hd) = Len(old) + 1
           /\ \A i \in 1 .. Len(old) : n.line[n.hd[i]] = h.line[old[i]]
      <3>1. Fresh(old, h.free, e, h.line, t)
        BY <2>2, <2>3, <2>7, <2>8, <2>9, <2>10, <2>11, <2>12 DEF Fresh
      <3>2. Added(n, old, h.line, t)
        BY <2>1, <3>1, AddAnEntry
      <3> QED BY <3>2 DEF Added
    <2>14. ~n.broken
      BY <2>1 DEF HistOf
    <2>15. ShowsBesides(n, h, t)
      <3>1. SUFFICES ASSUME NEW i \in 1 .. Len(n.hd), i # Len(n.hd)
                     PROVE  \E j \in 1 .. Len(h.hd) : n.line[n.hd[i]] = h.line[h.hd[j]]
        BY <2>13 DEF ShowsBesides
      <3>2. i \in 1 .. Len(old)
        BY <2>3, <2>13, <3>1
      <3> QED BY <2>3, <2>6, <2>13, <3>2
    <2> QED BY <1>0, <2>13, <2>14, <2>15 DEF n
  <1>4. CASE ~repeated /\ ~evict
    <2> DEFINE rest == Tail(h.free)
               e == Head(h.free)
    <2>1. n = HistOf(Append(h.hd, e), rest, [h.line EXCEPT ![e] = t], h.broken)
      BY <1>4 DEF cli_history_add
    <2>2. h.hd \in Seq(Hists) /\ h.free \in Seq(Hists) /\ h.line \in [Hists -> Seq(Chars)]
      BY DEF Typed
    <2>3. /\ rest \in Seq(Hists) /\ e \in Hists /\ Len(rest) = Len(h.free) - 1 /\ Len(h.free) \in Nat \ {0}
          /\ \A j \in 1 .. Len(rest) : rest[j] = h.free[j + 1]
      BY <1>4, <2>2, HeadTailProperties, EmptySeq
    <2>4. e = h.free[1]
      BY <1>4, <2>2
    <2> HIDE DEF rest, e, n
    <2>5. /\ Distinct(h.hd) /\ Distinct(h.free)
          /\ \A i \in 1 .. Len(h.hd), j \in 1 .. Len(h.free) : h.hd[i] # h.free[j]
      BY DEF OnePlace
    <2>6. 1 \in 1 .. Len(h.free) /\ \A j \in 1 .. Len(rest) : j + 1 \in 1 .. Len(h.free) /\ j + 1 # 1
      BY <2>3
    <2>7. \A j \in 1 .. Len(rest) : rest[j] # e
      BY <2>3, <2>4, <2>5, <2>6 DEF Distinct
    <2>8. Distinct(rest)
      <3>1. SUFFICES ASSUME NEW i \in 1 .. Len(rest), NEW j \in 1 .. Len(rest), rest[i] = rest[j] PROVE i = j
        BY DEF Distinct
      <3>2. i + 1 = j + 1
        BY <2>3, <2>5, <2>6, <3>1 DEF Distinct
      <3> QED BY <2>3, <3>2
    <2>9. \A i \in 1 .. Len(h.hd), j \in 1 .. Len(rest) : h.hd[i] # rest[j]
      BY <2>3, <2>5, <2>6
    <2>10. \A i \in 1 .. Len(h.hd) : h.hd[i] # e
      BY <2>4, <2>5, <2>6
    <2>11. Len(h.hd) > 0 => h.line[h.hd[Len(h.hd)]] # t
      BY <1>4, <2>2, EmptySeq DEF Last
    <2>12. \A i \in 1 .. Len(h.hd) - 1 : h.line[h.hd[i]] # h.line[h.hd[i + 1]]
      BY DEF Differ
    <2>13. /\ OnePlace(n) /\ Differ(n) /\ n.line[n.hd[Len(n.hd)]] = t /\ Len(n.hd) = Len(h.hd) + 1
           /\ \A i \in 1 .. Len(h.hd) : n.line[n.hd[i]] = h.line[h.hd[i]]
      <3>1. Fresh(h.hd, rest, e, h.line, t)
        BY <2>2, <2>3, <2>5, <2>7, <2>8, <2>9, <2>10, <2>11, <2>12 DEF Fresh
      <3>2. Added(n, h.hd, h.line, t)
        BY <2>1, <3>1, AddAnEntry
      <3> QED BY <3>2 DEF Added
    <2>14. ~n.broken
      BY <2>1 DEF HistOf
    <2>15. ShowsBesides(n, h, t)
      <3>1. SUFFICES ASSUME NEW i \in 1 .. Len(n.hd), i # Len(n.hd)
                     PROVE  \E j \in 1 .. Len(h.hd) : n.line[n.hd[i]] = h.line[h.hd[j]]
        BY <2>13 DEF ShowsBesides
      <3>2. i \in 1 .. Len(h.hd)
        BY <2>2, <2>13, <3>1, LenProperties
      <3> QED BY <2>13, <3>2
    <2> QED BY <1>0, <2>13, <2>14, <2>15 DEF n
  <1> QED BY <1>1, <1>2, <1>3, <1>4

LEMMA DelIsSound ==
    ASSUME NEW h, Typed(h), OnePlace(h), Differ(h)
    PROVE  LET n == cli_history_del(h)
           IN  /\ Typed(n) /\ OnePlace(n) /\ Differ(n) /\ n.line = h.line /\ n.broken = h.broken
               /\ \A i \in 1 .. Len(n.hd) : i \in 1 .. Len(h.hd) - 1 /\ n.hd[i] = h.hd[i]
  <1> DEFINE n == cli_history_del(h)
  <1>1. n.free = h.free /\ n.line = h.line /\ n.broken = h.broken
        /\ n.hd = IF h.hd = <<>> THEN h.hd ELSE Front(h.hd)
    BY DEF cli_history_del, HistOf
  <1>2. Typed(n)
    BY DelIsTyped
  <1> HIDE DEF n
  <1>3. h.hd \in Seq(Hists) /\ Len(h.hd) \in Nat /\ \A i \in 1 .. Len(h.hd) : h.hd[i] \in Hists
    BY LenProperties, ElementOfSeq DEF Typed
  <1>4. Len(n.hd) \in Nat /\ \A i \in 1 .. Len(n.hd) : i \in 1 .. Len(h.hd) - 1 /\ n.hd[i] = h.hd[i]
    <2>1. CASE h.hd = <<>>
      BY <1>1, <2>1, EmptySeq
    <2>2. CASE h.hd # <<>>
      <3>1. Len(h.hd) \in Nat \ {0}
        BY <1>3, <2>2, EmptySeq
      <3>2. \A i \in 1 .. Len(h.hd) - 1 : h.hd[i] \in Hists
        BY <1>3
      <3>3. /\ Len(Front(h.hd)) = IF 1 <= Len(h.hd) - 1 THEN (Len(h.hd) - 1) - 1 + 1 ELSE 0
            /\ \A i \in 1 .. (Len(h.hd) - 1) - 1 + 1 : Front(h.hd)[i] = h.hd[1 + i - 1]
        <4>1. 1 \in Int /\ Len(h.hd) - 1 \in Int
          BY <3>1
        <4> QED BY <3>2, <4>1, SubSeqProperties DEF Front
      <3>4. Len(Front(h.hd)) = Len(h.hd) - 1
        BY <3>1, <3>3
      <3> QED BY <1>1, <2>2, <3>1, <3>3, <3>4
    <2> QED BY <2>1, <2>2
  <1>5. \A i \in 1 .. Len(n.hd) : i \in 1 .. Len(h.hd)
    BY <1>3, <1>4
  <1>6. OnePlace(n)
    BY <1>1, <1>4, <1>5 DEF OnePlace, Distinct
  <1>7. Differ(n)
    <2>1. \A i \in 1 .. Len(n.hd) - 1 : i \in 1 .. Len(n.hd) /\ i + 1 \in 1 .. Len(n.hd)
      BY <1>4
    <2> QED BY <1>1, <1>4, <2>1 DEF Differ
  <1> QED BY <1>1, <1>2, <1>4, <1>6, <1>7 DEF n

\* Of finitely many parts one contains no smaller one.
LEMMA SmallestPart ==
    ASSUME NEW E, IsFiniteSet(E), E # {}, NEW part, part \in [E -> SUBSET E]
    PROVE  \E i \in E : \A j \in E : ~(part[j] \subseteq part[i] /\ part[j] # part[i])
  <1>1. PICK F : F = {part[i] : i \in E}
    OBVIOUS
  <1>2. F \subseteq SUBSET E /\ F # {}
    BY <1>1
  <1>3. \E X \in F : \A Y \in F : ~(Y \subseteq X /\ Y # X)
    BY <1>2, SmallestSubset
  <1> QED BY <1>1, <1>3

\* Some blank of a text is the first.
LEMMA FirstOfSome ==
    \A n \in Nat : \A E \in SUBSET (1 .. n) : E # {} => \E i \in E : \A j \in E : i <= j
  <1>1. SUFFICES ASSUME NEW n, NEW E, n \in Nat, E \subseteq 1 .. n, E # {}
                 PROVE  \E i \in E : \A j \in E : i <= j
    OBVIOUS
  <1> DEFINE upto == [i \in E |-> {j \in E : j <= i}]
  <1>2. IsFiniteSet(E) /\ E # {}
    <2>1. IsFiniteSet(1 .. n)
      BY <1>1, FS_Interval
    <2> QED BY <1>1, <2>1, FS_Subset
  <1>3. \A k \in E : k \in Int
    BY <1>1
  <1>4. upto \in [E -> SUBSET E]
    OBVIOUS
  <1> HIDE DEF upto
  <1>5. PICK i \in E : \A j \in E : ~(upto[j] \subseteq upto[i] /\ upto[j] # upto[i])
    BY <1>2, <1>4, SmallestPart
  <1>6. ASSUME NEW j \in E, j < i PROVE FALSE
    <2>1. upto[j] = {k \in E : k <= j} /\ upto[i] = {k \in E : k <= i}
      BY DEF upto
    <2>2. upto[j] \subseteq upto[i]
      <3>1. \A k \in E : k <= j => k <= i
        BY <1>3, <1>6
      <3> QED BY <2>1, <3>1
    <2>3. i \in upto[i] /\ i \notin upto[j]
      BY <1>3, <1>6, <2>1
    <2> QED BY <1>5, <2>2, <2>3
  <1> QED BY <1>3, <1>6

LEMMA SpanCovers ==
    ASSUME NEW t \in Seq(Chars), Spans(t) # {}
    PROVE  /\ Span(t)[1] \in 1 .. Len(t) /\ Span(t)[2] \in 1 .. Len(t)
           /\ \A i \in 1 .. Len(t) : t[i] # Blank => Span(t)[1] <= i /\ i <= Span(t)[2]
           /\ t[Span(t)[1]] # Blank /\ t[Span(t)[2]] # Blank
  <1>1. Span(t) \in Spans(t)
    BY DEF Span
  <1>2. /\ Blank \notin {t[Span(t)[1]], t[Span(t)[2]]}
        /\ \A i \in DOMAIN t : t[i] # Blank => i \in Span(t)[1] .. Span(t)[2]
    BY <1>1 DEF Spans
  <1>3. Span(t)[1] \in 1 .. Len(t) /\ Span(t)[2] \in 1 .. Len(t)
    BY SpanIsInText
  <1>4. DOMAIN t = 1 .. Len(t)
    BY LenProperties
  <1> QED BY <1>2, <1>3, <1>4

\* A line that begins with a character is trimmed only at its end.
LEMMA TrimmedFromTheFirst ==
    ASSUME NEW t \in Seq(Chars), Len(t) > 0, t[1] # Blank
    PROVE  LET u == Trimmed(t) IN
           /\ u \in Seq(Chars) /\ \A i \in 1 .. Len(u) : i \in 1 .. Len(t) /\ u[i] = t[i]
           /\ Len(u) > 0 => \A i \in 1 .. Len(t) : t[i] # Blank => i <= Len(u)
           /\ Len(u) > 0 => u[1] # Blank
  <1> DEFINE u == Trimmed(t)
  <1>0. u \in Seq(Chars) /\ Len(t) \in Nat
    BY TrimmedIsAText, LenProperties
  <1>1. CASE Spans(t) = {}
    <2>1. u = <<>>
      BY <1>1 DEF Trimmed
    <2>2. Len(u) = 0
      BY <2>1, EmptySeq
    <2> QED BY <1>0, <2>2
  <1>2. CASE Spans(t) # {}
    <2>1. PICK a, b : a = Span(t)[1] /\ b = Span(t)[2]
      OBVIOUS
    <2>2. /\ a \in 1 .. Len(t) /\ b \in 1 .. Len(t)
          /\ \A i \in 1 .. Len(t) : t[i] # Blank => a <= i /\ i <= b
      BY <1>2, <2>1, SpanCovers
    <2>3. 1 \in 1 .. Len(t) /\ a = 1
      BY <1>0, <2>2
    <2>4. u = SubSeq(t, 1, b)
      BY <1>2, <2>1, <2>3 DEF Trimmed
    <2> HIDE DEF u
    <2>5. \A i \in 1 .. b : i \in 1 .. Len(t) /\ t[i] \in Chars
      <3>1. \A i \in 1 .. b : i \in 1 .. Len(t)
        BY <1>0, <2>2
      <3> QED BY <3>1, ElementOfSeq
    <2>6. b \in Int /\ 1 \in Int /\ 1 <= b
      BY <2>2
    <2>7. /\ Len(u) = IF 1 <= b THEN b - 1 + 1 ELSE 0
          /\ \A i \in 1 .. b - 1 + 1 : u[i] = t[1 + i - 1]
      BY <2>4, <2>5, <2>6, SubSeqProperties
    <2>8. Len(u) = b /\ \A i \in 1 .. b : u[i] = t[i]
      BY <2>6, <2>7
    <2>9. 1 \in 1 .. b /\ u[1] = t[1]
      BY <2>6, <2>8
    <2> QED BY <1>0, <2>2, <2>5, <2>8, <2>9 DEF u
  <1> QED BY <1>1, <1>2

\* A text whose first word is the alias starts with its name and a blank, or is
\* the name.
LEMMA NameAtTheStart ==
    ASSUME NEW t \in Seq(Chars), Len(t) > 0, t[1] # Blank, IsName(t)
    PROVE  t[1] = AliasWord /\ (Len(t) = 1 \/ t[2] = Blank)
  <1> DEFINE u == Trimmed(t)
             ends == {i \in DOMAIN u : u[i] = Blank}
             k == CHOOSE i \in ends : \A j \in ends : i <= j
  <1>1. /\ u \in Seq(Chars) /\ \A i \in 1 .. Len(u) : i \in 1 .. Len(t) /\ u[i] = t[i]
        /\ Len(u) > 0 => \A i \in 1 .. Len(t) : t[i] # Blank => i <= Len(u)
    BY TrimmedFromTheFirst
  <1>2. FirstWord(t) = IF ends = {} THEN u ELSE SubSeq(u, 1, k - 1)
    BY DEF FirstWord
  <1>3. FirstWord(t) = <<AliasWord>>
    BY DEF IsName
  <1> HIDE DEF u
  <1>4. Len(t) \in Nat /\ Len(u) \in Nat /\ DOMAIN u = 1 .. Len(u)
    BY <1>1, LenProperties
  <1>5. CASE ends = {}
    <2>1. u = <<AliasWord>>
      BY <1>2, <1>3, <1>5
    <2>2. Len(u) = 1 /\ u[1] = AliasWord
      BY <2>1
    <2>3. t[1] = AliasWord
      BY <1>1, <2>2
    <2>4. Len(t) = 1 \/ 2 \in 1 .. Len(t)
      <3>1. \A n \in Nat : n > 0 => n = 1 \/ 2 \in 1 .. n
        OBVIOUS
      <3> QED BY <1>4, <3>1, Zenon
    <2> QED BY <1>1, <2>2, <2>3, <2>4
  <1>6. CASE ends # {}
    <2>1. ends \subseteq 1 .. Len(u)
      BY <1>4
    <2>2. \E i \in ends : \A j \in ends : i <= j
      <3> HIDE DEF ends
      <3> QED BY <1>4, <1>6, <2>1, FirstOfSome
    <2>3. k \in ends
      BY <2>2
    <2>4. k \in 1 .. Len(u) /\ u[k] = Blank
      BY <1>4, <2>3
    <2>5. SubSeq(u, 1, k - 1) = <<AliasWord>>
      BY <1>2, <1>3, <1>6
    <2> HIDE DEF k, ends
    <2>6. \A i \in 1 .. k - 1 : u[i] \in Chars
      <3>1. \A i \in 1 .. k - 1 : i \in 1 .. Len(u)
        BY <1>4, <2>4
      <3> QED BY <1>1, <3>1, ElementOfSeq
    <2>7. /\ Len(SubSeq(u, 1, k - 1)) = IF 1 <= k - 1 THEN k - 1 - 1 + 1 ELSE 0
          /\ \A i \in 1 .. k - 1 - 1 + 1 : SubSeq(u, 1, k - 1)[i] = u[1 + i - 1]
      <3>1. 1 \in Int /\ k - 1 \in Int
        BY <2>4
      <3> QED BY <2>6, <3>1, SubSeqProperties
    <2>8. Len(<<AliasWord>>) = 1 /\ <<AliasWord>>[1] = AliasWord
      OBVIOUS
    <2>9. k = 2
      <3>1. (IF 1 <= k - 1 THEN k - 1 - 1 + 1 ELSE 0) = 1
        BY <2>5, <2>7, <2>8
      <3> QED BY <2>4, <3>1
    <2>10. u[1] = AliasWord
      <3>1. 1 \in 1 .. k - 1 - 1 + 1 /\ 1 + 1 - 1 = 1
        BY <2>9
      <3>2. SubSeq(u, 1, k - 1)[1] = u[1]
        BY <2>7, <3>1
      <3> QED BY <2>5, <2>8, <3>2
    <2>11. 1 \in 1 .. Len(u) /\ 2 \in 1 .. Len(u)
      BY <1>4, <2>4, <2>9
    <2> QED BY <1>1, <2>4, <2>9, <2>10, <2>11
  <1> QED BY <1>5, <1>6

\* The alias stands for the line of another command.
AnotherCommand == AliasLine[1] # AliasWord \/ (Len(AliasLine) > 1 /\ AliasLine[2] # Blank)

LEMMA AliasTextIsNoName ==
    ASSUME AnotherCommand, NEW t \in Seq(Chars)
    PROVE  ~IsName(Trimmed(AliasText(t)))
  <1> DEFINE a == AliasText(t)
             u == Trimmed(a)
  <1>1. a \in Seq(Chars)
    BY AliasTextIsAText
  <1>2. AliasLine \in Seq(Chars) /\ Len(AliasLine) \in Nat \ {0} /\ AliasLine[1] # Blank
    <2>1. AliasLine \in Seq(Chars) /\ AliasLine # <<>> /\ Head(AliasLine) # Blank
      BY ConsoleAssumption
    <2> QED BY <2>1, EmptySeq
  <1>3. SubSeq(t, 2, Len(t)) \in Seq(Chars)
    BY PartIsAText, LenProperties
  <1>4. Len(a) >= Len(AliasLine) /\ Len(a) \in Nat /\ \A i \in 1 .. Len(AliasLine) : a[i] = AliasLine[i]
    <2> DEFINE s == SubSeq(t, 2, Len(t))
    <2>1. a = AliasLine \o s
      BY DEF AliasText
    <2>2. s \in Seq(Chars)
      BY <1>3
    <2> HIDE DEF s, a
    <2>3. Len(s) \in Nat
      BY <2>2, LenProperties
    <2>4. /\ Len(a) = Len(AliasLine) + Len(s)
          /\ \A i \in 1 .. Len(AliasLine) + Len(s) : a[i] = IF i <= Len(AliasLine) THEN AliasLine[i]
                                                            ELSE s[i - Len(AliasLine)]
      BY <1>2, <2>1, <2>2, ConcatProperties
    <2>5. \A i \in 1 .. Len(AliasLine) : i \in 1 .. Len(AliasLine) + Len(s) /\ i <= Len(AliasLine)
      BY <1>2, <2>3
    <2> QED BY <1>2, <2>3, <2>4, <2>5
  <1> HIDE DEF a
  <1>5. 1 \in 1 .. Len(AliasLine) /\ a[1] = AliasLine[1] /\ Len(a) > 0 /\ a[1] # Blank
    BY <1>2, <1>4
  <1>6. /\ u \in Seq(Chars) /\ \A i \in 1 .. Len(u) : i \in 1 .. Len(a) /\ u[i] = a[i]
        /\ Len(u) > 0 => \A i \in 1 .. Len(a) : a[i] # Blank => i <= Len(u)
        /\ Len(u) > 0 => u[1] # Blank
    BY <1>1, <1>5, TrimmedFromTheFirst
  <1> HIDE DEF u
  <1>7. Len(u) \in Nat
    BY <1>6, LenProperties
  <1>8. CASE Len(u) = 0
    <2>1. u = <<>>
      BY <1>6, <1>8, EmptySeq
    <2>2. ~IsName(<<>>)
      <3>1. Spans(<<>>) = {}
        BY EmptySeq DEF Spans
      <3>2. Trimmed(<<>>) = <<>>
        BY <3>1 DEF Trimmed
      <3>3. FirstWord(<<>>) = <<>>
        BY <3>2 DEF FirstWord
      <3>4. Len(<<>>) = 0 /\ Len(<<AliasWord>>) = 1
        OBVIOUS
      <3>5. <<>> # <<AliasWord>>
        BY <3>4
      <3> QED BY <3>3, <3>5 DEF IsName
    <2> QED BY <2>1, <2>2 DEF u, a
  <1>9. CASE Len(u) > 0
    <2>1. SUFFICES ASSUME IsName(u) PROVE FALSE
      BY DEF u, a
    <2>2. u[1] = AliasWord /\ (Len(u) = 1 \/ u[2] = Blank)
      BY <1>6, <1>9, <2>1, NameAtTheStart
    <2>3. 1 \in 1 .. Len(u) /\ AliasLine[1] = AliasWord
      BY <1>5, <1>6, <1>7, <1>9, <2>2
    <2>4. Len(AliasLine) > 1 /\ AliasLine[2] # Blank
      BY <2>3 DEF AnotherCommand
    <2>5. 2 \in 1 .. Len(AliasLine) /\ 2 \in 1 .. Len(a)
      BY <1>2, <1>4, <2>4
    <2>6. a[2] # Blank
      BY <1>4, <2>4, <2>5
    <2>7. 2 <= Len(u)
      BY <1>6, <1>9, <2>5, <2>6
    <2>8. 2 \in 1 .. Len(u) /\ Len(u) # 1
      <3>1. \A n \in Nat : 2 <= n => 2 \in 1 .. n /\ n # 1
        OBVIOUS
      <3> QED BY <1>7, <2>7, <3>1, Zenon
    <2> QED BY <1>6, <2>2, <2>6, <2>8
  <1> QED BY <1>7, <1>8, <1>9

\* A line is remembered as it was executed.
LEMMA RememberedIsSound ==
    ASSUME NEW h, Typed(h), OnePlace(h), Differ(h), ~h.broken, NEW t \in Seq(Chars)
    PROVE  LET n == Remembered(h, t)
           IN  /\ Typed(n) /\ OnePlace(n) /\ Differ(n)
               /\ n = h \/ ShowsBesides(n, h, Trimmed(t))
               /\ n.broken => n.hd = h.hd /\ n.line = h.line
  BY AddIsSound, TrimmedIsAText DEF Remembered

LEMMA ExecuteIsSound ==
    ASSUME AnotherCommand, NEW h, SoundHistory(h), ~h.broken, NEW g, Sound(g)
    PROVE  SoundHistory(Execute(h, g).hist)
  <1> DEFINE t == TextOf(g)
             first == Remembered(h, t)
             isAlias == IsName(Executed(first, t))
             shorter == cli_history_del(first)
             second == Remembered(shorter, AliasText(t))
             new == gb_str_insert(gb_reset_buf(g), AliasText(t))
  <1>1. t \in Seq(Chars) /\ AliasText(t) \in Seq(Chars) /\ Trimmed(t) \in Seq(Chars)
    BY TextIsASequence, AliasTextIsAText, TrimmedIsAText
  <1>2. Typed(h) /\ OnePlace(h) /\ Differ(h) /\ NoNames(h)
    BY DEF SoundHistory
  <1>3. /\ Typed(first) /\ OnePlace(first) /\ Differ(first)
        /\ first = h \/ ShowsBesides(first, h, Trimmed(t))
        /\ first.broken => first.hd = h.hd /\ first.line = h.line
    BY <1>1, <1>2, RememberedIsSound
  <1>4. Execute(h, g).hist = IF first.broken \/ ~isAlias THEN first ELSE second
    BY DEF Execute, IsName
  <1>5. first # h => Executed(first, t) = Trimmed(t)
    <2>1. HAVE first # h
    <2>2. ~(Trimmed(t) = <<>> \/ Head(Trimmed(t)) \in {Comment, Bang})
      BY <2>1 DEF Remembered
    <2> HIDE DEF first
    <2> QED BY <2>2 DEF Executed
  <1>6. ~IsName(Trimmed(AliasText(t)))
    BY <1>1, AliasTextIsNoName
  <1> HIDE DEF t, first
  <1>7. CASE first.broken
    BY <1>2, <1>3, <1>4, <1>7 DEF SoundHistory, NoNames
  <1>8. CASE ~first.broken /\ ~isAlias
    <2>1. NoNames(first)
      <3>1. CASE first = h
        BY <1>2, <3>1
      <3>2. CASE first # h
        BY <1>2, <1>3, <1>5, <1>8, <3>2 DEF NoNames, ShowsBesides
      <3> QED BY <3>1, <3>2
    <2> QED BY <1>3, <1>4, <1>8, <2>1 DEF SoundHistory
  <1>9. CASE ~first.broken /\ isAlias
    <2>1. /\ Typed(shorter) /\ OnePlace(shorter) /\ Differ(shorter) /\ shorter.line = first.line
          /\ shorter.broken = first.broken
          /\ \A i \in 1 .. Len(shorter.hd) : i \in 1 .. Len(first.hd) - 1 /\ shorter.hd[i] = first.hd[i]
      BY <1>3, DelIsSound
    <2> HIDE DEF shorter
    <2>2. Len(first.hd) \in Nat
      BY <1>3, LenProperties DEF Typed
    <2>3. \A i \in 1 .. Len(shorter.hd) : i \in 1 .. Len(first.hd) /\ i # Len(first.hd)
      BY <2>1, <2>2
    <2>4. NoNames(shorter)
      <3>1. CASE first = h
        BY <1>2, <2>1, <2>3, <3>1 DEF NoNames
      <3>2. CASE first # h
        <4>1. ShowsBesides(first, h, Trimmed(t))
          BY <1>3, <3>2
        <4> QED BY <1>2, <2>1, <2>3, <4>1 DEF NoNames, ShowsBesides
      <3> QED BY <3>1, <3>2
    <2>5. /\ Typed(second) /\ OnePlace(second) /\ Differ(second)
          /\ second = shorter \/ ShowsBesides(second, shorter, Trimmed(AliasText(t)))
      BY <1>1, <1>9, <2>1, RememberedIsSound
    <2> HIDE DEF second
    <2>6. NoNames(second)
      BY <1>6, <2>4, <2>5 DEF NoNames, ShowsBesides
    <2> QED BY <1>4, <1>9, <2>5, <2>6 DEF SoundHistory
  <1> QED BY <1>7, <1>8, <1>9

HistoryInv == SoundHistory(History)

\* Only key_return changes the history.
LEMMA HistoryKeeps ==
    ASSUME AnotherCommand, IInv, HistoryInv, [Next]_vars
    PROVE  HistoryInv'
  <1>1. CASE key_return
    <2> DEFINE r == Execute(History, gb)
    <2>1. ~broken /\ ~History.broken
      BY <1>1 DEF key_return, Alive, History, HistOf
    <2>2. SoundHistory(r.hist)
      BY <2>1, ExecuteIsSound DEF HistoryInv, IInv
    <2>3. hd_hist' = r.hist.hd /\ free_hist' = r.hist.free /\ line' = r.hist.line /\ broken' = r.hist.broken
      BY <1>1 DEF key_return
    <2> HIDE DEF r
    <2> QED BY <2>2, <2>3 DEF HistoryInv, History, HistOf, SoundHistory, Typed, OnePlace, Differ, NoNames
  <1>2. CASE ~key_return
    <2>1. UNCHANGED hist
      BY <1>2 DEF Next, vars, handle_input_display, CursorKeys, key_word_left, key_word_right, Edit,
         key_backspace, key_ctrl_k, key_ctrl_y, key_ctrl_c, key_up_arr, key_down_arr, Recall, key_ctrl_x
    <2>2. broken' \in BOOLEAN
      BY NextKeeps DEF IInv, Typed, History, HistOf
    <2>3. /\ hd_hist' = hd_hist /\ free_hist' = free_hist /\ line' = line
      BY <2>1 DEF hist
    <2> QED BY <2>2, <2>3 DEF HistoryInv, History, HistOf, SoundHistory, Typed, OnePlace, Differ, NoNames
  <1> QED BY <1>1, <1>2

LEMMA HistoryStarts == Init => HistoryInv
  <1> SUFFICES ASSUME Init PROVE HistoryInv
    OBVIOUS
  <1>1. Typed(History)
    BY InitHolds DEF IInv
  <1>2. History.hd = <<>> /\ History.free = [x \in Hists |-> x]
    BY DEF Init, History, HistOf
  <1>3. Len(History.free) = NbHist /\ NbHist \in Nat
    BY <1>2, ConsoleAssumption DEF Hists
  <1>4. Distinct(History.free)
    BY <1>2, <1>3 DEF Distinct, Hists
  <1>5. Len(History.hd) = 0
    BY <1>2, EmptySeq
  <1> QED BY <1>1, <1>4, <1>5 DEF HistoryInv, SoundHistory, OnePlace, Differ, NoNames, Distinct

\* cli_history_add and cli_history_del, also for an alias, whose line they take
\* out and put another in: an entry is on one list, once; no two neighbours are
\* the same; no alias is shown.
THEOREM HistoryHolds == AnotherCommand /\ Spec => []HistoryIsSound
  <1> SUFFICES ASSUME AnotherCommand PROVE Spec => []HistoryIsSound
    OBVIOUS
  <1>1. ASSUME TypeOK, IInv, HistoryInv PROVE HistoryIsSound
    <2>1. /\ hd_hist \in Seq(Hists) /\ free_hist \in Seq(Hists)
          /\ Len(hd_hist) \in Nat /\ Len(free_hist) \in Nat
          /\ DOMAIN hd_hist = 1 .. Len(hd_hist)
      BY <1>1, LenProperties DEF HistoryInv, SoundHistory, Typed, History, HistOf
    <2>2. /\ Distinct(hd_hist) /\ Distinct(free_hist)
          /\ \A i \in 1 .. Len(hd_hist), j \in 1 .. Len(free_hist) : hd_hist[i] # free_hist[j]
      BY <1>1 DEF HistoryInv, SoundHistory, OnePlace, History, HistOf
    <2>3. EntriesAreInOnePlace
      <3> DEFINE all == hd_hist \o free_hist
                 n == Len(hd_hist)
      <3>1. /\ Len(all) = n + Len(free_hist) /\ all \in Seq(Hists)
            /\ \A i \in 1 .. n + Len(free_hist) : all[i] = IF i <= n THEN hd_hist[i] ELSE free_hist[i - n]
        BY <2>1, ConcatProperties
      <3>2. DOMAIN all = 1 .. n + Len(free_hist)
        BY <3>1, LenProperties
      <3> HIDE DEF all
      <3>3. ASSUME NEW i \in 1 .. n + Len(free_hist), NEW j \in 1 .. n + Len(free_hist), all[i] = all[j]
            PROVE  i = j
        <4>1. CASE i <= n /\ j <= n
          <5>1. i \in 1 .. n /\ j \in 1 .. n /\ hd_hist[i] = hd_hist[j]
            BY <2>1, <3>1, <3>3, <4>1
          <5> QED BY <2>2, <5>1 DEF Distinct
        <4>2. CASE ~(i <= n) /\ ~(j <= n)
          <5>1. i - n \in 1 .. Len(free_hist) /\ j - n \in 1 .. Len(free_hist)
                /\ free_hist[i - n] = free_hist[j - n]
            BY <2>1, <3>1, <3>3, <4>2
          <5>2. i - n = j - n
            BY <2>2, <5>1 DEF Distinct
          <5> QED BY <2>1, <5>2
        <4>3. CASE i <= n /\ ~(j <= n)
          <5>1. i \in 1 .. n /\ j - n \in 1 .. Len(free_hist) /\ hd_hist[i] = free_hist[j - n]
            BY <2>1, <3>1, <3>3, <4>3
          <5> QED BY <2>2, <5>1
        <4>4. CASE ~(i <= n) /\ j <= n
          <5>1. j \in 1 .. n /\ i - n \in 1 .. Len(free_hist) /\ hd_hist[j] = free_hist[i - n]
            BY <2>1, <3>1, <3>3, <4>4
          <5> QED BY <2>2, <5>1
        <4> QED BY <4>1, <4>2, <4>3, <4>4
      <3> QED BY <3>2, <3>3 DEF EntriesAreInOnePlace, all
    <2>4. NeighboursDiffer
      BY <1>1 DEF HistoryInv, SoundHistory, Differ, NeighboursDiffer, History, HistOf
    <2>5. AliasesAreNotRemembered
      BY <1>1, <2>1 DEF HistoryInv, SoundHistory, NoNames, IsName, AliasesAreNotRemembered, Elements,
         History, HistOf
    <2> QED BY <1>1, <2>3, <2>4, <2>5 DEF HistoryIsSound
  <1>2. IInv /\ HistoryInv /\ [Next]_vars => HistoryInv'
    BY HistoryKeeps
  <1> QED BY <1>1, <1>2, HistoryStarts, SpecKeeps, TypesHold, PTL DEF Spec
-----------------------------------------------------------------------------
(***************************************************************************)
(* What the keys do to the text: the buffer implements a line with a       *)
(* cursor.                                                                 *)
(***************************************************************************)

LEMMA Pointers ==
    ASSUME NEW g, Sound(g)
    PROVE  /\ {g.gap, g.egap, g.ebuf, g.point, gb_gap_size(g), gb_data_size(g), CursorOf(g)} \subseteq Nat
           /\ g.gap <= g.egap /\ g.egap <= g.ebuf /\ CursorOf(g) <= gb_data_size(g)
           /\ g.point <= g.gap \/ (g.egap <= g.point /\ g.point <= g.ebuf)
           /\ gb_gap_size(g) = g.egap - g.gap /\ gb_data_size(g) = g.ebuf - (g.egap - g.gap)
           /\ CursorOf(g) = IF g.point <= g.gap THEN g.point ELSE g.point - (g.egap - g.gap)
  BY CursorInText DEF Sound, IsBuffer, InBounds, OutsideGap, gb_gap_size, gb_data_size, CursorOf

\* A character of the text is before the gap or behind it.
LEMMA CharacterAt ==
    ASSUME NEW g, Sound(g), NEW i \in 1 .. gb_data_size(g)
    PROVE  TextOf(g)[i] = IF i <= g.gap THEN g.cell[i - 1] ELSE g.cell[i - 1 + (g.egap - g.gap)]
  BY Pointers DEF TextOf

LEMMA SameText ==
    ASSUME NEW g, Sound(g), NEW m, Sound(m), gb_data_size(m) = gb_data_size(g),
           \A i \in 1 .. gb_data_size(g) : TextOf(m)[i] = TextOf(g)[i]
    PROVE  TextOf(m) = TextOf(g)
  <1>1. /\ TextOf(g) \in Seq(Chars) /\ Len(TextOf(g)) = gb_data_size(g)
        /\ TextOf(m) \in Seq(Chars) /\ Len(TextOf(m)) = gb_data_size(g)
    BY TextIsASequence
  <1> QED BY <1>1, SeqEqual

\* u is t with str in the place of what is between c and d.
IsSpliced(u, t, c, d, str) ==
    /\ t \in Seq(Chars) /\ str \in Seq(Chars) /\ u \in Seq(Chars)
    /\ c \in 0 .. Len(t) /\ d \in c .. Len(t)
    /\ Len(u) = c + Len(str) + (Len(t) - d)
    /\ \A i \in 1 .. c : u[i] = t[i]
    /\ \A i \in 1 .. Len(str) : u[c + i] = str[i]
    /\ \A i \in 1 .. Len(t) - d : u[c + Len(str) + i] = t[d + i]

LEMMA Spliced ==
    ASSUME NEW t, NEW str, NEW u, NEW c, NEW d, IsSpliced(u, t, c, d, str)
    PROVE  u = SubSeq(t, 1, c) \o str \o SubSeq(t, d + 1, Len(t))
  <1> USE DEF IsSpliced
  <1> DEFINE a == SubSeq(t, 1, c)
             b == SubSeq(t, d + 1, Len(t))
  <1>0. Len(t) \in Nat /\ Len(str) \in Nat /\ c \in Nat /\ d \in Nat /\ c <= d /\ d <= Len(t)
    BY LenProperties
  <1>1. a \in Seq(Chars) /\ Len(a) = c /\ \A i \in 1 .. c : a[i] = t[i]
    <2>1. \A i \in 1 .. c : t[i] \in Chars
      BY <1>0, ElementOfSeq
    <2> QED BY <1>0, <2>1, SubSeqProperties
  <1>2. b \in Seq(Chars) /\ Len(b) = Len(t) - d /\ \A i \in 1 .. Len(t) - d : b[i] = t[d + i]
    <2>1. \A i \in d + 1 .. Len(t) : t[i] \in Chars
      BY <1>0, ElementOfSeq
    <2>2. /\ b \in Seq(Chars) /\ Len(b) = IF d + 1 <= Len(t) THEN Len(t) - (d + 1) + 1 ELSE 0
          /\ \A i \in 1 .. Len(t) - (d + 1) + 1 : b[i] = t[d + 1 + i - 1]
      BY <1>0, <2>1, SubSeqProperties
    <2> HIDE DEF b
    <2>3. b \in Seq(Chars) /\ Len(b) = Len(t) - d
      BY <1>0, <2>2
    <2>4. ASSUME NEW i \in 1 .. Len(t) - d PROVE b[i] = t[d + i]
      <3>1. i \in 1 .. Len(t) - (d + 1) + 1 /\ d + 1 + i - 1 = d + i
        BY <1>0
      <3> QED BY <2>2, <3>1
    <2> QED BY <2>3, <2>4
  <1> HIDE DEF a, b
  <1>3. /\ a \o str \in Seq(Chars) /\ Len(a \o str) = c + Len(str)
        /\ \A i \in 1 .. c : (a \o str)[i] = t[i]
        /\ \A i \in 1 .. Len(str) : (a \o str)[c + i] = str[i]
    <2>0. /\ a \o str \in Seq(Chars) /\ Len(a \o str) = Len(a) + Len(str)
          /\ \A i \in 1 .. Len(a) + Len(str) : (a \o str)[i] = IF i <= Len(a) THEN a[i] ELSE str[i - Len(a)]
      BY Zenon, <1>1, ConcatProperties
    <2>1. /\ a \o str \in Seq(Chars) /\ Len(a \o str) = c + Len(str)
          /\ \A i \in 1 .. c + Len(str) : (a \o str)[i] = IF i <= c THEN a[i] ELSE str[i - c]
      BY Zenon, <1>1, <2>0
    <2>2. \A i \in 1 .. c : (a \o str)[i] = t[i]
      BY <1>0, <1>1, <2>1
    <2>3. ASSUME NEW i \in 1 .. Len(str) PROVE (a \o str)[c + i] = str[i]
      <3>1. c + i \in 1 .. c + Len(str) /\ ~(c + i <= c) /\ c + i - c = i
        BY <1>0
      <3> QED BY <2>1, <3>1
    <2> QED BY <2>1, <2>2, <2>3
  <1> DEFINE f == a \o str
             v == f \o b
  <1>4. /\ v \in Seq(Chars) /\ Len(v) = Len(u)
        /\ \A i \in 1 .. Len(u) : v[i] = IF i <= c + Len(str) THEN f[i] ELSE b[i - (c + Len(str))]
    <2>1. /\ f \o b \in Seq(Chars) /\ Len(f \o b) = Len(f) + Len(b)
          /\ \A i \in 1 .. Len(f) + Len(b) : (f \o b)[i] = IF i <= Len(f) THEN f[i] ELSE b[i - Len(f)]
      <3>1. f \in Seq(Chars)
        BY <1>3
      <3> HIDE DEF f
      <3> QED BY Zenon, <1>2, <3>1, ConcatProperties
    <2>2. Len(f) = c + Len(str) /\ Len(f) + Len(b) = Len(u)
      BY <1>0, <1>2, <1>3
    <2> QED BY Zenon, <2>1, <2>2
  <1> HIDE DEF f, v
  <1>5. ASSUME NEW i \in 1 .. Len(u) PROVE v[i] = u[i]
    <2>1. CASE i <= c
      <3>1. i \in 1 .. c /\ i <= c + Len(str)
        BY <1>0, <2>1
      <3> QED BY <1>3, <1>4, <3>1 DEF f
    <2>2. CASE c < i /\ i <= c + Len(str)
      <3>1. i - c \in 1 .. Len(str) /\ c + (i - c) = i
        BY <1>0, <2>2
      <3> QED BY <1>3, <1>4, <2>2, <3>1 DEF f
    <2>3. CASE c + Len(str) < i
      <3>1. i - (c + Len(str)) \in 1 .. Len(t) - d /\ c + Len(str) + (i - (c + Len(str))) = i
            /\ ~(i <= c + Len(str))
        BY <1>0, <2>3
      <3> QED BY <1>2, <1>4, <3>1
    <2> QED BY <1>0, <2>1, <2>2, <2>3
  <1>6. u = v
    BY <1>4, <1>5, SeqEqual
  <1> QED BY <1>6 DEF v, f, a, b

LEMMA MoveGapLeftText ==
    ASSUME NEW g, Sound(g), g.point < g.gap
    PROVE  TextOf(gb_move_gap_left(g)) = TextOf(g)
  <1> DEFINE m == gb_move_gap_left(g)
             egap == g.egap - (g.gap - g.point)
  <1>1. /\ Sound(m) /\ m.gap = g.point /\ m.egap = egap /\ m.ebuf = g.ebuf
    BY MoveGapLeft
  <1>2. m.cell = [i \in 0 .. g.ebuf - 1 |-> IF i < g.point \/ i >= egap
              THEN IF i >= egap /\ i < g.egap THEN g.cell[i - egap + g.point] ELSE g.cell[i]
              ELSE Junk]
    BY DEF gb_move_gap_left, Buffer
  <1>3. /\ {g.gap, g.egap, g.ebuf, g.point} \subseteq Nat /\ g.gap <= g.egap /\ g.egap <= g.ebuf
        /\ gb_data_size(g) = g.ebuf - (g.egap - g.gap)
    BY Pointers
  <1> HIDE DEF m
  <1>4. gb_data_size(m) = gb_data_size(g) /\ m.egap - m.gap = g.egap - g.gap
    BY <1>1, <1>3, Pointers
  <1>5. ASSUME NEW i \in 1 .. gb_data_size(g) PROVE TextOf(m)[i] = TextOf(g)[i]
    <2> DEFINE j == i - 1
               k == i - 1 + (g.egap - g.gap)
    <2>0. /\ TextOf(m)[i] = IF i <= g.point THEN m.cell[j] ELSE m.cell[k]
          /\ TextOf(g)[i] = IF i <= g.gap THEN g.cell[j] ELSE g.cell[k]
      BY <1>1, <1>4, CharacterAt
    <2>1. CASE i <= g.point
      <3>1. j \in 0 .. g.ebuf - 1 /\ j < g.point /\ ~(j >= egap) /\ i <= g.gap
        BY <1>3, <2>1
      <3> QED BY <1>2, <2>0, <2>1, <3>1
    <2>2. CASE g.point < i /\ i <= g.gap
      <3>1. /\ k \in 0 .. g.ebuf - 1 /\ k >= egap /\ k < g.egap /\ k - egap + g.point = j
            /\ ~(i <= g.point)
        BY <1>3, <2>2
      <3> QED BY <1>2, <2>0, <2>2, <3>1
    <2>3. CASE g.gap < i
      <3>1. k \in 0 .. g.ebuf - 1 /\ k >= egap /\ ~(k < g.egap) /\ ~(i <= g.point) /\ ~(i <= g.gap)
        BY <1>3, <2>3
      <3> QED BY <1>2, <2>0, <3>1
    <2> QED BY <1>3, <2>1, <2>2, <2>3
  <1> QED BY <1>1, <1>4, <1>5, SameText DEF m

LEMMA MoveGapRightText ==
    ASSUME NEW g, Sound(g), g.point > g.gap, g.point # g.egap
    PROVE  TextOf(gb_move_gap_right(g)) = TextOf(g)
  <1> DEFINE m == gb_move_gap_right(g)
             gap == g.gap + (g.point - g.egap)
  <1>1. Sound(m) /\ m.gap = gap /\ m.egap = g.point /\ m.ebuf = g.ebuf
    BY MoveGapRight
  <1>2. m.cell = [i \in 0 .. g.ebuf - 1 |-> IF i < gap \/ i >= g.point
              THEN IF i >= g.gap /\ i < gap THEN g.cell[i - g.gap + g.egap] ELSE g.cell[i]
              ELSE Junk]
    BY DEF gb_move_gap_right, Buffer
  <1>3. /\ {g.gap, g.egap, g.ebuf, g.point} \subseteq Nat /\ g.gap <= g.egap /\ g.egap <= g.ebuf
        /\ gb_data_size(g) = g.ebuf - (g.egap - g.gap) /\ g.egap < g.point /\ g.point <= g.ebuf
    BY Pointers
  <1> HIDE DEF m
  <1>4. gb_data_size(m) = gb_data_size(g) /\ m.egap - m.gap = g.egap - g.gap
    BY <1>1, <1>3, Pointers
  <1>5. ASSUME NEW i \in 1 .. gb_data_size(g) PROVE TextOf(m)[i] = TextOf(g)[i]
    <2> DEFINE j == i - 1
               k == i - 1 + (g.egap - g.gap)
    <2>0. /\ TextOf(m)[i] = IF i <= gap THEN m.cell[j] ELSE m.cell[k]
          /\ TextOf(g)[i] = IF i <= g.gap THEN g.cell[j] ELSE g.cell[k]
      BY <1>1, <1>4, CharacterAt
    <2>1. CASE i <= g.gap
      <3>1. j \in 0 .. g.ebuf - 1 /\ j < gap /\ ~(j >= g.gap) /\ i <= gap
        BY <1>3, <2>1
      <3> QED BY <1>2, <2>0, <2>1, <3>1
    <2>2. CASE g.gap < i /\ i <= gap
      <3>1. j \in 0 .. g.ebuf - 1 /\ j < gap /\ j >= g.gap /\ j - g.gap + g.egap = k /\ ~(i <= g.gap)
        BY <1>3, <2>2
      <3> QED BY <1>2, <2>0, <2>2, <3>1
    <2>3. CASE gap < i
      <3>1. k \in 0 .. g.ebuf - 1 /\ k >= g.point /\ ~(k < gap) /\ ~(i <= gap) /\ ~(i <= g.gap)
        BY <1>3, <2>3
      <3> QED BY <1>2, <2>0, <3>1
    <2> QED BY <1>3, <2>1, <2>2, <2>3
  <1> QED BY <1>1, <1>4, <1>5, SameText DEF m

\* The text is the same wherever the point is.
LEMMA PointText ==
    ASSUME NEW g, Sound(g), NEW p
    PROVE  TextOf([g EXCEPT !.point = p]) = TextOf(g)
  <1> DEFINE m == [g EXCEPT !.point = p]
  <1>1. m.cell = g.cell /\ m.gap = g.gap /\ m.egap = g.egap /\ m.ebuf = g.ebuf
    BY DEF Sound, IsBuffer
  <1> HIDE DEF m
  <1>2. TextOf(m) = TextOf(g)
    BY <1>1 DEF TextOf, gb_data_size, gb_gap_size
  <1> QED BY <1>2 DEF m

LEMMA MoveGapText ==
    ASSUME NEW g, Sound(g)
    PROVE  TextOf(gb_move_gap_to_point(g)) = TextOf(g)
  <1>0. {g.gap, g.egap, g.point} \subseteq Nat
    BY Pointers
  <1>1. CASE g.point = g.gap
    BY <1>1 DEF gb_move_gap_to_point
  <1>2. CASE g.point # g.gap /\ g.point = g.egap
    BY <1>2, PointText DEF gb_move_gap_to_point
  <1>3. CASE g.point < g.gap
    <2>1. g.point # g.gap /\ g.point # g.egap
      BY <1>0, <1>3, Pointers
    <2> QED BY <1>3, <2>1, MoveGapLeftText DEF gb_move_gap_to_point
  <1>4. CASE g.point > g.gap /\ g.point # g.egap
    <2>1. g.point # g.gap /\ ~(g.point < g.gap)
      BY <1>0, <1>4
    <2> QED BY <1>4, <2>1, MoveGapRightText DEF gb_move_gap_to_point
  <1> QED BY <1>0, <1>1, <1>2, <1>3, <1>4

LEMMA ExpandText ==
    ASSUME NEW g, Sound(g), g.point = g.gap, NEW size \in Nat
    PROVE  TextOf(gb_expand_gap(g, size)) = TextOf(g)
  <1>1. CASE size <= gb_gap_size(g)
    BY <1>1 DEF gb_expand_gap
  <1>2. CASE ~(size <= gb_gap_size(g))
    <2> DEFINE more == size + GB_DEFAULT_GAP_SIZE
               m == gb_expand_buf(g, more)
    <2>0. more \in Nat
      BY GapAssumption
    <2> HIDE DEF more
    <2>1. Sound(m) /\ m.gap = g.gap /\ m.egap = g.egap + more /\ m.ebuf = g.ebuf + more
      BY <2>0, ExpandBuf
    <2>2. m.cell = [i \in 0 .. (g.ebuf + more) - 1 |-> IF i < g.gap \/ i >= g.egap + more
                THEN IF i >= g.egap + more THEN g.cell[i - more] ELSE g.cell[i]
                ELSE Junk]
      BY DEF gb_expand_buf, Buffer
    <2>3. /\ {g.gap, g.egap, g.ebuf, g.point} \subseteq Nat /\ g.gap <= g.egap /\ g.egap <= g.ebuf
          /\ gb_data_size(g) = g.ebuf - (g.egap - g.gap)
      BY Pointers
    <2> HIDE DEF m
    <2>4. gb_data_size(m) = gb_data_size(g) /\ m.egap - m.gap = (g.egap - g.gap) + more
      BY <2>0, <2>1, <2>3, Pointers
    <2>5. ASSUME NEW i \in 1 .. gb_data_size(g) PROVE TextOf(m)[i] = TextOf(g)[i]
      <3> DEFINE j == i - 1
                 k == i - 1 + (g.egap - g.gap)
      <3>0. /\ TextOf(m)[i] = IF i <= g.gap THEN m.cell[j] ELSE m.cell[i - 1 + (m.egap - m.gap)]
            /\ TextOf(g)[i] = IF i <= g.gap THEN g.cell[j] ELSE g.cell[k]
        BY <2>1, <2>4, CharacterAt
      <3>1. CASE i <= g.gap
        <4>1. j \in 0 .. (g.ebuf + more) - 1 /\ j < g.gap /\ ~(j >= g.egap + more)
          BY <2>0, <2>3, <3>1
        <4> QED BY <2>2, <3>0, <3>1, <4>1
      <3>2. CASE ~(i <= g.gap)
        <4>1. /\ k + more \in 0 .. (g.ebuf + more) - 1 /\ k + more >= g.egap + more
              /\ (k + more) - more = k /\ i - 1 + (m.egap - m.gap) = k + more
          BY <2>0, <2>1, <2>3, <2>4, <3>2
        <4> QED BY <2>2, <3>0, <3>2, <4>1
      <3> QED BY <3>1, <3>2
    <2> QED BY <1>2, <2>1, <2>4, <2>5, SameText DEF gb_expand_gap, m, more
  <1> QED BY <1>1, <1>2

\* The text with str at the place c.
Inserted(t, c, str) == SubSeq(t, 1, c) \o str \o SubSeq(t, c + 1, Len(t))

LEMMA PutText ==
    ASSUME NEW g, Sound(g), g.point = g.gap, NEW str \in Seq(Chars), Len(str) <= gb_gap_size(g)
    PROVE  /\ TextOf(gb_putc(g, str)) = Inserted(TextOf(g), g.gap, str)
           /\ CursorOf(gb_putc(g, str)) = g.gap + Len(str)
  <1> DEFINE m == gb_putc(g, str)
             t == TextOf(g)
             u == TextOf(m)
  <1>0. Sound(m) /\ Len(str) \in Nat
    BY PutIsSound
  <1>p. /\ {g.gap, g.egap, g.ebuf} \subseteq Nat /\ g.gap <= g.egap /\ g.egap <= g.ebuf
        /\ gb_data_size(g) = g.ebuf - (g.egap - g.gap) /\ gb_gap_size(g) = g.egap - g.gap
    BY Pointers
  <1>q. g.gap + Len(str) <= g.egap
    BY <1>0, <1>p
  <1>1. PICK c \in Nat, egap \in Nat, ebuf \in Nat, n \in Nat :
           /\ c = g.gap /\ egap = g.egap /\ ebuf = g.ebuf /\ n = Len(str)
           /\ c + n <= egap /\ egap <= ebuf /\ c <= egap
           /\ gb_data_size(g) = ebuf - (egap - c)
    BY <1>0, <1>p, <1>q
  <1>a. c + n <= egap /\ egap <= ebuf /\ c <= egap
    BY <1>1
  <1>2. m.gap = c + n /\ m.egap = egap /\ m.ebuf = ebuf /\ m.point = c + n
    BY <1>1 DEF gb_putc, Buffer
  <1>3. m.cell = [i \in 0 .. ebuf - 1 |-> IF i < c + n \/ i >= egap
              THEN IF i >= c /\ i < c + n THEN str[i - c + 1] ELSE g.cell[i]
              ELSE Junk]
    BY <1>1 DEF gb_putc, Buffer
  <1> HIDE DEF m
  <1>4. gb_data_size(m) = ebuf - (egap - c) + n /\ CursorOf(m) = c + n
    <2>1. /\ gb_data_size(m) = m.ebuf - (m.egap - m.gap)
          /\ CursorOf(m) = IF m.point <= m.gap THEN m.point ELSE m.point - (m.egap - m.gap)
      BY <1>0, Pointers
    <2> QED BY <1>1, <1>2, <2>1
  <1>5. /\ t \in Seq(Chars) /\ Len(t) = ebuf - (egap - c)
        /\ u \in Seq(Chars) /\ Len(u) = ebuf - (egap - c) + n
    BY <1>0, <1>1, <1>4, TextIsASequence
  <1>6. /\ \A i \in 1 .. ebuf - (egap - c) + n :
              u[i] = IF i <= c + n THEN m.cell[i - 1] ELSE m.cell[i - 1 + (egap - (c + n))]
        /\ \A i \in 1 .. ebuf - (egap - c) :
              t[i] = IF i <= c THEN g.cell[i - 1] ELSE g.cell[i - 1 + (egap - c)]
    BY <1>0, <1>1, <1>2, <1>4, CharacterAt
  <1> HIDE DEF t, u
  <1>7. \A i \in 1 .. c : u[i] = t[i]
    <2> TAKE i \in 1 .. c
    <2>1. /\ i \in 1 .. ebuf - (egap - c) + n /\ i \in 1 .. ebuf - (egap - c)
          /\ i <= c + n /\ i <= c /\ i - 1 \in 0 .. ebuf - 1 /\ i - 1 < c + n /\ ~(i - 1 >= c)
      BY <1>a
    <2>2. u[i] = m.cell[i - 1] /\ t[i] = g.cell[i - 1]
      BY Zenon, <1>6, <2>1
    <2> QED BY <1>3, <2>1, <2>2
  <1>8. \A i \in 1 .. n : u[c + i] = str[i]
    <2> TAKE i \in 1 .. n
    <2>1. /\ c + i \in 1 .. ebuf - (egap - c) + n /\ c + i <= c + n
          /\ (c + i) - 1 \in 0 .. ebuf - 1 /\ (c + i) - 1 < c + n /\ (c + i) - 1 >= c
          /\ (c + i) - 1 - c + 1 = i
      BY <1>a
    <2>2. u[c + i] = m.cell[(c + i) - 1]
      BY Zenon, <1>6, <2>1
    <2>3. m.cell[(c + i) - 1] = str[(c + i) - 1 - c + 1]
      BY Zenon, <1>3, <2>1
    <2> QED BY Zenon, <2>1, <2>2, <2>3
  <1>9. \A i \in 1 .. (ebuf - (egap - c)) - c : u[c + n + i] = t[c + i]
    <2> TAKE i \in 1 .. (ebuf - (egap - c)) - c
    <2> DEFINE k == c + n + i
               j == c + i - 1 + (egap - c)
    <2>1. /\ k \in 1 .. ebuf - (egap - c) + n /\ ~(k <= c + n) /\ k - 1 + (egap - (c + n)) = j
          /\ c + i \in 1 .. ebuf - (egap - c) /\ ~(c + i <= c) /\ (c + i) - 1 + (egap - c) = j
          /\ j \in 0 .. ebuf - 1 /\ j >= egap /\ ~(j < c + n)
      BY <1>a
    <2> HIDE DEF k, j
    <2>2. u[k] = m.cell[j] /\ t[c + i] = g.cell[j]
      BY Zenon, <1>6, <2>1
    <2>3. m.cell[j] = g.cell[j]
      BY <1>3, <2>1
    <2> QED BY <2>2, <2>3 DEF k
  <1>10. IsSpliced(u, t, c, c, str)
    <2>1. c \in 0 .. Len(t) /\ c \in c .. Len(t) /\ Len(u) = c + n + (Len(t) - c)
      <3>1. c \in 0 .. ebuf - (egap - c) /\ c \in c .. ebuf - (egap - c)
            /\ ebuf - (egap - c) + n = c + n + ((ebuf - (egap - c)) - c)
        BY <1>a
      <3> QED BY Zenon, <1>5, <3>1
    <2> QED BY Zenon, <1>1, <1>5, <1>7, <1>8, <1>9, <2>1 DEF IsSpliced
  <1>11. u = Inserted(t, c, str)
    BY <1>10, Spliced DEF Inserted
  <1> QED BY <1>1, <1>4, <1>11 DEF u, t, m

LEMMA InsertText ==
    ASSUME NEW g, Sound(g), NEW str \in Seq(Chars)
    PROVE  /\ TextOf(gb_str_insert(g, str)) = Inserted(TextOf(g), CursorOf(g), str)
           /\ CursorOf(gb_str_insert(g, str)) = CursorOf(g) + Len(str)
  <1>1. CASE str = <<>>
    <2> DEFINE t == TextOf(g)
               c == CursorOf(g)
    <2>1. t \in Seq(Chars) /\ Len(t) \in Nat /\ c \in 0 .. Len(t) /\ c \in c .. Len(t) /\ Len(str) = 0
      BY <1>1, TextIsASequence, Pointers
    <2> HIDE DEF t, c
    <2>2. t = SubSeq(t, 1, c) \o str \o SubSeq(t, c + 1, Len(t))
      <3>1. Len(t) = c + Len(str) + (Len(t) - c)
        BY <2>1
      <3>2. \A i \in 1 .. Len(str) : t[c + i] = str[i]
        BY <2>1
      <3>3. \A i \in 1 .. Len(t) - c : t[c + Len(str) + i] = t[c + i]
        BY <2>1
      <3>4. IsSpliced(t, t, c, c, str)
        BY <2>1, <3>1, <3>2, <3>3 DEF IsSpliced
      <3> QED BY <3>4, Spliced
    <2>3. c + Len(str) = c
      BY <2>1
    <2> QED BY <1>1, <2>2, <2>3 DEF gb_str_insert, Inserted, t, c
  <1>2. CASE str # <<>>
    <2> DEFINE m == gb_move_gap_to_point(g)
               e == gb_expand_gap(m, Len(str))
    <2>1. Sound(m) /\ m.point = m.gap /\ m.gap = CursorOf(g) /\ TextOf(m) = TextOf(g) /\ Len(str) \in Nat
      BY MoveGap, MoveGapText
    <2> HIDE DEF m
    <2>2. /\ Sound(e) /\ e.point = e.gap /\ e.gap = CursorOf(g) /\ TextOf(e) = TextOf(g)
          /\ Len(str) <= gb_gap_size(e)
      BY <2>1, ExpandGap, ExpandText
    <2> HIDE DEF e
    <2>3. /\ TextOf(gb_putc(e, str)) = Inserted(TextOf(e), e.gap, str)
          /\ CursorOf(gb_putc(e, str)) = e.gap + Len(str)
      BY <2>2, PutText
    <2> QED BY <1>2, <2>2, <2>3 DEF gb_str_insert, e, m
  <1> QED BY <1>1, <1>2

LEMMA DeleteText ==
    ASSUME NEW g, Sound(g), NEW cnt \in Nat, CursorOf(g) + cnt <= gb_data_size(g)
    PROVE  /\ TextOf(gb_del(g, cnt)) = SubSeq(TextOf(g), 1, CursorOf(g))
                  \o SubSeq(TextOf(g), CursorOf(g) + cnt + 1, Len(TextOf(g)))
           /\ CursorOf(gb_del(g, cnt)) = CursorOf(g)
  <1> DEFINE b == gb_move_gap_to_point(g)
             m == gb_del(g, cnt)
             t == TextOf(g)
             u == TextOf(m)
  <1>0. /\ Sound(m) /\ Sound(b) /\ b.point = b.gap /\ b.gap = CursorOf(g) /\ TextOf(b) = t
        /\ gb_data_size(b) = gb_data_size(g)
    BY MoveGap, MoveGapText, DeleteIsSound
  <1>p. /\ {b.gap, b.egap, b.ebuf} \subseteq Nat /\ b.gap <= b.egap /\ b.egap <= b.ebuf
        /\ gb_data_size(b) = b.ebuf - (b.egap - b.gap)
    <2> HIDE DEF b
    <2> QED BY <1>0, Pointers
  <1>1. PICK c \in Nat, egap \in Nat, ebuf \in Nat :
           /\ c = b.gap /\ egap = b.egap /\ ebuf = b.ebuf /\ c = CursorOf(g)
           /\ c <= egap /\ egap + cnt <= ebuf /\ gb_data_size(b) = ebuf - (egap - c)
    <2> HIDE DEF b
    <2>1. b.egap + cnt <= b.ebuf
      BY <1>0, <1>p
    <2> QED BY <1>0, <1>p, <2>1
  <1>a. c <= egap /\ egap + cnt <= ebuf
    BY <1>1
  <1>2. m.gap = c /\ m.egap = egap + cnt /\ m.ebuf = ebuf /\ m.point = c
    BY <1>0, <1>1 DEF gb_del, Buffer
  <1>3. m.cell = [i \in 0 .. ebuf - 1 |-> IF i < c \/ i >= egap + cnt THEN b.cell[i] ELSE Junk]
    BY <1>1 DEF gb_del, Buffer
  <1> HIDE DEF m, b
  <1>4. gb_data_size(m) = ebuf - (egap + cnt - c) /\ CursorOf(m) = c
    <2>1. /\ gb_data_size(m) = m.ebuf - (m.egap - m.gap)
          /\ CursorOf(m) = IF m.point <= m.gap THEN m.point ELSE m.point - (m.egap - m.gap)
      BY <1>0, Pointers
    <2> QED BY <1>a, <1>2, <2>1
  <1>5. /\ t \in Seq(Chars) /\ Len(t) = ebuf - (egap - c)
        /\ u \in Seq(Chars) /\ Len(u) = ebuf - (egap + cnt - c)
    <2>1. t \in Seq(Chars) /\ Len(t) = gb_data_size(b) /\ u \in Seq(Chars) /\ Len(u) = gb_data_size(m)
      BY <1>0, TextIsASequence
    <2> QED BY <1>1, <1>4, <2>1
  <1>6. /\ \A i \in 1 .. ebuf - (egap + cnt - c) :
              u[i] = IF i <= c THEN m.cell[i - 1] ELSE m.cell[i - 1 + (egap + cnt - c)]
        /\ \A i \in 1 .. ebuf - (egap - c) :
              t[i] = IF i <= c THEN b.cell[i - 1] ELSE b.cell[i - 1 + (egap - c)]
    <2>1. \A i \in 1 .. gb_data_size(m) :
             u[i] = IF i <= m.gap THEN m.cell[i - 1] ELSE m.cell[i - 1 + (m.egap - m.gap)]
      BY <1>0, CharacterAt
    <2>2. \A i \in 1 .. gb_data_size(b) :
             TextOf(b)[i] = IF i <= b.gap THEN b.cell[i - 1] ELSE b.cell[i - 1 + (b.egap - b.gap)]
      BY <1>0, CharacterAt
    <2> HIDE DEF t, u
    <2>3. \A i \in 1 .. ebuf - (egap + cnt - c) :
              u[i] = IF i <= c THEN m.cell[i - 1] ELSE m.cell[i - 1 + (egap + cnt - c)]
      BY <1>2, <1>4, <2>1
    <2>4. \A i \in 1 .. ebuf - (egap - c) :
              t[i] = IF i <= c THEN b.cell[i - 1] ELSE b.cell[i - 1 + (egap - c)]
      BY Zenon, <1>0, <1>1, <2>2
    <2> QED BY <2>3, <2>4
  <1> HIDE DEF t, u
  <1>7. \A i \in 1 .. c : u[i] = t[i]
    <2> TAKE i \in 1 .. c
    <2>1. /\ i \in 1 .. ebuf - (egap + cnt - c) /\ i \in 1 .. ebuf - (egap - c)
          /\ i <= c /\ i - 1 \in 0 .. ebuf - 1 /\ i - 1 < c
      BY <1>a
    <2>2. u[i] = m.cell[i - 1] /\ t[i] = b.cell[i - 1]
      BY Zenon, <1>6, <2>1
    <2> QED BY <1>3, <2>1, <2>2
  <1>8. \A i \in 1 .. (ebuf - (egap - c)) - (c + cnt) : u[c + 0 + i] = t[c + cnt + i]
    <2> TAKE i \in 1 .. (ebuf - (egap - c)) - (c + cnt)
    <2> DEFINE k == c + 0 + i
               l == c + cnt + i
               j == c + cnt + i - 1 + (egap - c)
    <2>1. /\ k \in 1 .. ebuf - (egap + cnt - c) /\ ~(k <= c) /\ k - 1 + (egap + cnt - c) = j
          /\ l \in 1 .. ebuf - (egap - c) /\ ~(l <= c) /\ l - 1 + (egap - c) = j
          /\ j \in 0 .. ebuf - 1 /\ j >= egap + cnt
      BY <1>a
    <2> HIDE DEF k, l, j
    <2>2. u[k] = m.cell[j] /\ t[l] = b.cell[j]
      BY Zenon, <1>6, <2>1
    <2>3. m.cell[j] = b.cell[j]
      BY <1>3, <2>1
    <2> QED BY <2>2, <2>3 DEF k, l
  <1>9. IsSpliced(u, t, c, c + cnt, <<>>)
    <2>1. Len(<<>>) = 0 /\ <<>> \in Seq(Chars)
      BY EmptySeq
    <2>2. /\ c \in 0 .. ebuf - (egap - c) /\ c + cnt \in c .. ebuf - (egap - c)
          /\ ebuf - (egap + cnt - c) = c + 0 + ((ebuf - (egap - c)) - (c + cnt))
      BY <1>a
    <2>3. \A i \in 1 .. Len(<<>>) : u[c + i] = <<>>[i]
      BY <2>1
    <2> QED BY Zenon, <1>5, <1>7, <1>8, <2>1, <2>2, <2>3 DEF IsSpliced
  <1>10. u = SubSeq(t, 1, c) \o <<>> \o SubSeq(t, c + cnt + 1, Len(t))
    BY <1>9, Spliced
  <1>11. SubSeq(t, 1, c) \o <<>> = SubSeq(t, 1, c)
    <2>1. c \in Int /\ c <= Len(t) /\ 1 \in Nat \ {0}
      BY <1>a, <1>5
    <2>2. SubSeq(t, 1, c) \in Seq(Chars)
      BY <1>5, <2>1, PartIsAText
    <2> QED BY <2>2, ConcatEmptySeq
  <1> QED BY <1>1, <1>4, <1>10, <1>11 DEF u, t, m

LEMMA ResetText ==
    ASSUME NEW g, Sound(g)
    PROVE  LET r == gb_reset_buf(g) IN Sound(r) /\ TextOf(r) = <<>> /\ CursorOf(r) = 0
  <1> DEFINE r == gb_reset_buf(g)
  <1>1. Sound(r) /\ gb_data_size(r) = 0
    BY ResetIsSound
  <1>2. r.gap = 0 /\ r.point = 0
    BY DEF gb_reset_buf, Buffer
  <1> HIDE DEF r
  <1>3. TextOf(r) \in Seq(Chars) /\ Len(TextOf(r)) = 0
    BY <1>1, TextIsASequence
  <1>4. TextOf(r) = <<>>
    BY <1>3, EmptySeq
  <1>5. CursorOf(r) = 0
    BY <1>2 DEF CursorOf
  <1> QED BY <1>1, <1>4, <1>5 DEF r

LEMMA SetPointText ==
    ASSUME NEW g, Sound(g), NEW idx \in Int, idx = -1 \/ idx \in 0 .. gb_data_size(g)
    PROVE  /\ TextOf(gb_set_point(g, idx)) = TextOf(g)
           /\ CursorOf(gb_set_point(g, idx)) = IF idx = -1 THEN gb_data_size(g) ELSE idx
  <1> DEFINE m == gb_set_point(g, idx)
             p == CASE idx = -1 -> g.ebuf [] idx \in 0 .. g.gap -> idx [] OTHER -> idx + gb_gap_size(g)
  <1>1. m = [g EXCEPT !.point = p]
    BY DEF gb_set_point
  <1>2. TextOf(m) = TextOf(g)
    BY <1>1, PointText
  <1>3. m.point = p /\ m.gap = g.gap /\ m.egap = g.egap
    BY <1>1 DEF Sound, IsBuffer
  <1>4. /\ {g.gap, g.egap, g.ebuf} \subseteq Nat /\ g.gap <= g.egap /\ g.egap <= g.ebuf
        /\ gb_data_size(g) = g.ebuf - (g.egap - g.gap) /\ gb_gap_size(g) = g.egap - g.gap
    BY Pointers
  <1> HIDE DEF m
  <1>5. CursorOf(m) = IF p <= g.gap THEN p ELSE p - (g.egap - g.gap)
    BY <1>3 DEF CursorOf, gb_gap_size
  <1>6. CASE idx = -1
    <2>1. p = g.ebuf
      BY <1>6
    <2> HIDE DEF p
    <2> QED BY <1>2, <1>4, <1>5, <1>6, <2>1 DEF m
  <1>7. CASE idx \in 0 .. g.gap
    <2>1. p = idx /\ idx # -1
      BY <1>4, <1>7
    <2> HIDE DEF p
    <2> QED BY <1>2, <1>4, <1>5, <1>7, <2>1 DEF m
  <1>8. CASE idx # -1 /\ idx \notin 0 .. g.gap
    <2>1. p = idx + (g.egap - g.gap)
      BY <1>4, <1>8
    <2> HIDE DEF p
    <2> QED BY <1>2, <1>4, <1>5, <1>8, <2>1 DEF m
  <1> QED BY <1>6, <1>7, <1>8

\* An arrow to the right that is not at the end goes one character on.
LEMMA MoveRightText ==
    ASSUME NEW g, Sound(g), ~gb_eof(g)
    PROVE  /\ TextOf(gb_move_right(g)) = TextOf(g)
           /\ CursorOf(gb_move_right(g)) = CursorOf(g) + 1 /\ CursorOf(g) + 1 <= gb_data_size(g)
  <1> DEFINE m == gb_move_right(g)
             p == IF g.point = g.gap THEN g.egap ELSE g.point
             q == IF p + 1 > g.ebuf THEN g.ebuf ELSE p + 1
  <1>1. m = [g EXCEPT !.point = q]
    BY DEF gb_move_right
  <1>2. TextOf(m) = TextOf(g)
    BY <1>1, PointText
  <1>3. m.point = q /\ m.gap = g.gap /\ m.egap = g.egap
    BY <1>1 DEF Sound, IsBuffer
  <1>4. /\ {g.gap, g.egap, g.ebuf, g.point} \subseteq Nat /\ g.gap <= g.egap /\ g.egap <= g.ebuf
        /\ g.point <= g.gap \/ (g.egap <= g.point /\ g.point <= g.ebuf)
        /\ gb_data_size(g) = g.ebuf - (g.egap - g.gap)
        /\ CursorOf(g) = IF g.point <= g.gap THEN g.point ELSE g.point - (g.egap - g.gap)
    BY Pointers
  <1>5. IF g.point = g.gap THEN g.egap < g.ebuf ELSE g.point < g.ebuf
    BY <1>4 DEF gb_eof
  <1> HIDE DEF m
  <1>6. CursorOf(m) = IF q <= g.gap THEN q ELSE q - (g.egap - g.gap)
    BY <1>3 DEF CursorOf, gb_gap_size
  <1>7. (IF q <= g.gap THEN q ELSE q - (g.egap - g.gap)) = CursorOf(g) + 1 /\ CursorOf(g) + 1 <= gb_data_size(g)
    BY <1>4, <1>5
  <1> QED BY <1>2, <1>6, <1>7 DEF m

\* One to the left goes one character back, if there is one.
LEMMA MoveLeftText ==
    ASSUME NEW g, Sound(g), g.point # 0
    PROVE  /\ TextOf(gb_move_left(g)) = TextOf(g)
           /\ CursorOf(gb_move_left(g)) = IF CursorOf(g) = 0 THEN 0 ELSE CursorOf(g) - 1
  <1> DEFINE m == gb_move_left(g)
             p == IF g.point = g.egap THEN g.gap ELSE g.point
             q == IF p = 0 THEN 0 ELSE p - 1
  <1>1. m = [g EXCEPT !.point = q]
    BY DEF gb_move_left
  <1>2. TextOf(m) = TextOf(g)
    BY <1>1, PointText
  <1>3. m.point = q /\ m.gap = g.gap /\ m.egap = g.egap
    BY <1>1 DEF Sound, IsBuffer
  <1>4. /\ {g.gap, g.egap, g.ebuf, g.point} \subseteq Nat /\ g.gap <= g.egap /\ g.egap <= g.ebuf
        /\ g.point <= g.gap \/ (g.egap <= g.point /\ g.point <= g.ebuf)
        /\ CursorOf(g) = IF g.point <= g.gap THEN g.point ELSE g.point - (g.egap - g.gap)
    BY Pointers
  <1> HIDE DEF m
  <1>5. CursorOf(m) = IF q <= g.gap THEN q ELSE q - (g.egap - g.gap)
    BY <1>3 DEF CursorOf, gb_gap_size
  <1>6. (IF q <= g.gap THEN q ELSE q - (g.egap - g.gap)) = IF CursorOf(g) = 0 THEN 0 ELSE CursorOf(g) - 1
    BY <1>4
  <1> QED BY <1>2, <1>5, <1>6 DEF m

\* The lines that the arrows can show.
Shown(h) == {h.line[h.hd[i]] : i \in 1 .. Len(h.hd)}

LEMMA AddShows ==
    ASSUME NEW h, Typed(h), NEW t \in Seq(Chars)
    PROVE  Shown(cli_history_add(h, t)) \subseteq Shown(h) \cup {t}
  <1> DEFINE repeated == h.hd # <<>> /\ h.line[Last(h.hd)] = t
             evict == h.free = <<>>
             e == IF evict THEN Head(h.hd) ELSE Head(h.free)
             rest == IF evict THEN Tail(h.hd) ELSE h.hd
             r == HistOf(Append(rest, e), IF evict THEN h.free ELSE Tail(h.free),
                         [h.line EXCEPT ![e] = t], h.broken)
  <1>1. CASE repeated
    BY <1>1 DEF cli_history_add
  <1>2. CASE ~repeated /\ evict /\ h.hd = <<>>
    <2>1. cli_history_add(h, t) = HistOf(h.hd, h.free, h.line, TRUE)
      BY <1>2 DEF cli_history_add
    <2> QED BY <2>1 DEF HistOf, Shown
  <1>3. CASE ~repeated /\ ~(evict /\ h.hd = <<>>)
    <2>1. cli_history_add(h, t) = r
      BY <1>3 DEF cli_history_add
    <2>2. e \in Hists
      BY <1>3, HeadTailProperties DEF Typed
    <2>3. rest \in Seq(Hists) /\ Len(rest) \in Nat
          /\ \A i \in 1 .. Len(rest) : \E j \in 1 .. Len(h.hd) : rest[i] = h.hd[j]
      <3>1. CASE evict
        <4>1. /\ rest \in Seq(Hists) /\ Len(rest) = Len(h.hd) - 1
              /\ \A i \in 1 .. Len(rest) : rest[i] = h.hd[i + 1]
          BY <1>3, <3>1, HeadTailProperties DEF Typed
        <4>2. Len(h.hd) \in Nat /\ Len(rest) \in Nat
          BY <4>1, LenProperties DEF Typed
        <4> HIDE DEF rest
        <4>3. \A i \in 1 .. Len(rest) : i + 1 \in 1 .. Len(h.hd)
          BY <4>1, <4>2
        <4> QED BY <4>1, <4>2, <4>3
      <3>2. CASE ~evict
        BY <3>2, LenProperties DEF Typed
      <3> QED BY <3>1, <3>2
    <2>4. r.hd = Append(rest, e) /\ r.line = [h.line EXCEPT ![e] = t]
      BY DEF HistOf
    <2> HIDE DEF r, e, rest
    <2>5. /\ Len(r.hd) = Len(rest) + 1 /\ r.hd[Len(rest) + 1] = e
          /\ \A i \in 1 .. Len(rest) : r.hd[i] = rest[i]
      BY <2>2, <2>3, <2>4, AppendProperties
    <2>6. \A k \in Hists : r.line[k] = IF k = e THEN t ELSE h.line[k]
      BY <2>4 DEF Typed
    <2>7. ASSUME NEW i \in 1 .. Len(r.hd) PROVE r.line[r.hd[i]] \in Shown(h) \cup {t}
      <3>1. CASE i = Len(rest) + 1
        BY <2>2, <2>5, <2>6, <3>1
      <3>2. CASE i # Len(rest) + 1
        <4>1. i \in 1 .. Len(rest)
          BY <2>3, <2>5, <3>2
        <4>2. PICK j \in 1 .. Len(h.hd) : r.hd[i] = h.hd[j]
          BY <2>3, <2>5, <4>1
        <4>3. h.hd[j] \in Hists
          BY <4>2, ElementOfSeq DEF Typed
        <4> QED BY <2>6, <4>2, <4>3 DEF Shown
      <3> QED BY <3>1, <3>2
    <2> QED BY <2>1, <2>7 DEF Shown
  <1> QED BY <1>1, <1>2, <1>3

LEMMA DelShows ==
    ASSUME NEW h, Typed(h)
    PROVE  Shown(cli_history_del(h)) \subseteq Shown(h)
  <1>1. CASE h.hd = <<>>
    BY <1>1 DEF cli_history_del, HistOf, Shown
  <1>2. CASE h.hd # <<>>
    <2> DEFINE f == Front(h.hd)
    <2>1. Len(h.hd) \in Nat \ {0} /\ \A i \in 1 .. Len(h.hd) - 1 : h.hd[i] \in Hists
      BY <1>2, EmptySeq, LenProperties, ElementOfSeq DEF Typed
    <2>2. Len(f) = Len(h.hd) - 1 /\ \A i \in 1 .. Len(h.hd) - 1 : f[i] = h.hd[i]
      BY <2>1, SubSeqProperties DEF Front
    <2>3. cli_history_del(h).hd = f /\ cli_history_del(h).line = h.line
      BY <1>2 DEF cli_history_del, HistOf
    <2> HIDE DEF f
    <2> QED BY <2>1, <2>2, <2>3 DEF Shown
  <1> QED BY <1>1, <1>2

LEMMA RememberedShows ==
    ASSUME NEW h, Typed(h), NEW t \in Seq(Chars)
    PROVE  Shown(Remembered(h, t)) \subseteq Shown(h) \cup {Trimmed(t)}
  <1>1. Shown(cli_history_add(h, Trimmed(t))) \subseteq Shown(h) \cup {Trimmed(t)}
    BY AddShows, TrimmedIsAText
  <1> QED BY <1>1 DEF Remembered

LEMMA ExecuteShows ==
    ASSUME NEW h, Typed(h), NEW g, Sound(g)
    PROVE  Shown(Execute(h, g).hist) \subseteq
               Shown(h) \cup {Trimmed(TextOf(g)), Trimmed(AliasText(TextOf(g)))}
  <1> DEFINE t == TextOf(g)
             first == Remembered(h, t)
             less == cli_history_del(first)
             isAlias == FirstWord(Executed(first, t)) = <<AliasWord>>
             second == Remembered(less, AliasText(t))
             new == gb_str_insert(gb_reset_buf(g), AliasText(t))
  <1>1. t \in Seq(Chars) /\ AliasText(t) \in Seq(Chars)
    BY TextIsASequence, AliasTextIsAText
  <1>2. Typed(first) /\ Typed(less)
    BY <1>1, RememberedIsTyped, DelIsTyped
  <1>3. Shown(first) \subseteq Shown(h) \cup {Trimmed(t)}
    BY <1>1, RememberedShows
  <1>4. Shown(less) \subseteq Shown(first)
    BY <1>2, DelShows
  <1> HIDE DEF less
  <1>5. Shown(second) \subseteq Shown(less) \cup {Trimmed(AliasText(t))}
    BY <1>1, <1>2, RememberedShows
  <1>6. Execute(h, g) = IF first.broken \/ ~isAlias THEN [hist |-> first, gb |-> g]
                        ELSE [hist |-> second, gb |-> new]
    BY DEF Execute, less
  <1> HIDE DEF t, first, isAlias, second, new
  <1>7. Execute(h, g).hist = first \/ Execute(h, g).hist = second
    BY <1>6
  <1> QED BY <1>3, <1>4, <1>5, <1>7 DEF t

\* The arrows show lines that were entered.
LinesInv == Shown(History) \subseteq entered

LEMMA LinesKeep ==
    ASSUME IInv, LinesInv, [Next]_vars
    PROVE  LinesInv'
  <1>1. CASE key_return
    <2> DEFINE r == Execute(History, gb)
    <2>1. Shown(r.hist) \subseteq Shown(History) \cup {Trimmed(Text), Trimmed(AliasText(Text))}
      BY ExecuteShows DEF IInv, Text
    <2>2. /\ hd_hist' = r.hist.hd /\ line' = r.hist.line
          /\ entered' = entered \cup {Trimmed(Text), Trimmed(AliasText(Text))}
      BY <1>1 DEF key_return
    <2> HIDE DEF r
    <2>3. Shown(History)' = Shown(r.hist)
      BY <2>2 DEF Shown, History, HistOf
    <2> QED BY <2>1, <2>2, <2>3 DEF LinesInv
  <1>2. CASE ~key_return
    <2>1. UNCHANGED <<hd_hist, line, entered>>
      BY <1>2 DEF Next, vars, hist, handle_input_display, CursorKeys, key_word_left, key_word_right, Edit,
                  key_backspace, key_ctrl_k, key_ctrl_y, key_ctrl_c, key_up_arr, key_down_arr,
                  Recall, key_ctrl_x
    <2> QED BY <2>1 DEF LinesInv, Shown, History, HistOf
  <1> QED BY <1>1, <1>2

LEMMA LinesStart == Init => LinesInv
  <1> SUFFICES ASSUME Init PROVE LinesInv
    OBVIOUS
  <1>1. hd_hist = <<>> /\ Len(<<>>) = 0
    BY EmptySeq DEF Init
  <1> QED BY <1>1 DEF LinesInv, Shown, History, HistOf

-----------------------------------------------------------------------------
(***************************************************************************)
(* Each key is a step of the line, or changes nothing that is seen.        *)
(***************************************************************************)

LineStep == [Line!LineNext]_(Line!view)

Goes(t, at) == Text' = t /\ CursorOf(gb)' = at /\ kill' = kill /\ entered' = entered

LEMMA EditGoes ==
    ASSUME NEW g, Edit(g)
    PROVE  Goes(TextOf(g), CursorOf(g))
  BY DEF Edit, Goes, Text

LEMMA LineTypes ==
    ASSUME IInv
    PROVE  /\ Sound(gb) /\ Text \in Seq(Chars) /\ Len(Text) = gb_data_size(gb)
           /\ Len(Text) \in Nat /\ CursorOf(gb) \in Nat /\ CursorOf(gb) <= Len(Text)
  BY TextIsASequence, CursorInText DEF IInv, Text

LEMMA Stays ==
    ASSUME Goes(Text, CursorOf(gb))
    PROVE  LineStep
  BY DEF Goes, LineStep, Line!view

LEMMA Moves ==
    ASSUME NEW at \in 0 .. Len(Text), Goes(Text, at),
           at \in {CursorOf(gb) - 1, CursorOf(gb) + 1, 0, Len(Text)}
    PROVE  LineStep
  BY DEF Goes, LineStep, Line!LineNext, Line!Move, Line!Show

LEMMA CharStep ==
    ASSUME IInv, NEW c \in bound.chars, handle_input_display(c)
    PROVE  LineStep
  <1> DEFINE g == gb_insert(gb, c)
             before == SubSeq(Text, 1, CursorOf(gb))
             after == SubSeq(Text, CursorOf(gb) + 1, Len(Text))
  <1>1. c \in Chars /\ <<c>> \in Seq(Chars) /\ Len(<<c>>) = 1
    BY BoundIsTyped DEF IInv
  <1>2. before \in Seq(Chars)
    BY LineTypes, PartIsAText
  <1>3. TextOf(g) = before \o <<c>> \o after /\ CursorOf(g) = CursorOf(gb) + 1
    BY <1>1, LineTypes, InsertText DEF gb_insert, Inserted, Text
  <1>4. before \o <<c>> = Append(before, c)
    BY <1>1, <1>2, AppendIsConcat
  <1>5. Goes(TextOf(g), CursorOf(g))
    BY EditGoes DEF handle_input_display
  <1>6. Goes(Append(before, c) \o after, CursorOf(gb) + 1)
    BY <1>3, <1>4, <1>5
  <1> QED
    BY <1>1, <1>6 DEF Goes, LineStep, Line!LineNext, Line!Type, Line!Show, Line!Before, Line!After

LEMMA RightStep ==
    ASSUME IInv, Edit(key_right_arr(gb))
    PROVE  LineStep
  <1>1. CASE gb_eof(gb)
    BY <1>1, EditGoes, Stays DEF key_right_arr, Text
  <1>2. CASE ~gb_eof(gb)
    <2> DEFINE at == CursorOf(gb) + 1
    <2>1. Goes(Text, at) /\ at <= gb_data_size(gb)
      BY <1>2, LineTypes, EditGoes, MoveRightText DEF key_right_arr, Text
    <2>2. at \in 0 .. Len(Text)
      BY <2>1, LineTypes
    <2> QED BY <2>1, <2>2, Moves
  <1> QED BY <1>1, <1>2

LEMMA LeftStep ==
    ASSUME IInv, Edit(key_left_arr(gb))
    PROVE  LineStep
  <1>1. CASE gb_point_at_start(gb)
    BY <1>1, EditGoes, Stays DEF key_left_arr, Text
  <1>2. CASE ~gb_point_at_start(gb)
    <2> DEFINE at == IF CursorOf(gb) = 0 THEN 0 ELSE CursorOf(gb) - 1
    <2>1. Goes(Text, at)
      BY <1>2, LineTypes, EditGoes, MoveLeftText DEF key_left_arr, Text, gb_point_at_start
    <2>2. at \in 0 .. Len(Text) /\ at \in {0, CursorOf(gb) - 1}
      BY LineTypes
    <2> HIDE DEF at
    <2> QED BY <2>1, <2>2, Moves
  <1> QED BY <1>1, <1>2

LEMMA EndsStep ==
    ASSUME IInv, Edit(gb_set_point(gb, 0)) \/ Edit(gb_set_point(gb, -1))
    PROVE  LineStep
  <1>1. CASE Edit(gb_set_point(gb, 0))
    <2>1. Goes(Text, 0) /\ 0 \in 0 .. Len(Text)
      BY <1>1, LineTypes, EditGoes, SetPointText DEF Text
    <2> QED BY <2>1, Moves
  <1>2. CASE Edit(gb_set_point(gb, -1))
    <2>1. Goes(Text, Len(Text)) /\ Len(Text) \in 0 .. Len(Text)
      BY <1>2, LineTypes, EditGoes, SetPointText DEF Text
    <2> QED BY <2>1, Moves
  <1> QED BY <1>1, <1>2

LEMMA WordLeftStep ==
    ASSUME IInv, key_word_left
    PROVE  LineStep
  <1>1. PICK at \in 0 .. CursorOf(gb) :
           /\ at > 0 => at < CursorOf(gb) /\ Text[at] = Blank
           /\ \A k \in at + 1 .. CursorOf(gb) - 1 : Text[k] # Blank
           /\ Edit(gb_set_point(gb, at))
    BY DEF key_word_left
  <1>2. at \in Nat /\ at \in Int /\ at \in 0 .. gb_data_size(gb) /\ at # -1
    BY LineTypes
  <1>3. Goes(Text, at)
    BY <1>1, <1>2, LineTypes, EditGoes, SetPointText DEF Text
  <1>4. CASE at = CursorOf(gb)
    BY <1>3, <1>4, Stays
  <1>5. CASE at # CursorOf(gb)
    <2>1. at \in 0 .. CursorOf(gb) - 1
      BY <1>5, LineTypes
    <2>2. at = 0 \/ Text[at] = Blank
      BY <1>1, <1>2
    <2> QED
      BY <1>1, <1>3, <2>1, <2>2 DEF Goes, LineStep, Line!LineNext, Line!WordLeft, Line!Show
  <1> QED BY <1>4, <1>5

LEMMA WordRightStep ==
    ASSUME IInv, key_word_right
    PROVE  LineStep
  <1> DEFINE p(at) == IF at < gb.gap THEN at ELSE at + gb_gap_size(gb)
  <1>1. PICK at \in CursorOf(gb) .. Len(Text) :
           /\ at < Len(Text) => at > CursorOf(gb) /\ Text[at + 1] = Blank
           /\ \A k \in CursorOf(gb) + 1 .. at - 1 : Text[k + 1] # Blank
           /\ Edit([gb EXCEPT !.point = p(at)])
    BY DEF key_word_right
  <1> DEFINE m == [gb EXCEPT !.point = p(at)]
  <1>2. TextOf(m) = Text
    BY LineTypes, PointText DEF Text
  <1>3. CursorOf(m) = at
    <2>1. m.point = p(at) /\ m.gap = gb.gap /\ m.egap = gb.egap
      BY LineTypes DEF Sound, IsBuffer
    <2>2. gb.gap \in Nat /\ gb.egap \in Nat /\ gb.gap <= gb.egap /\ gb_gap_size(gb) = gb.egap - gb.gap
      BY LineTypes, Pointers
    <2>3. at \in Nat
      BY LineTypes
    <2> HIDE DEF m
    <2>4. CursorOf(m) = IF p(at) <= gb.gap THEN p(at) ELSE p(at) - (gb.egap - gb.gap)
      BY <2>1 DEF CursorOf, gb_gap_size
    <2>5. (IF p(at) <= gb.gap THEN p(at) ELSE p(at) - (gb.egap - gb.gap)) = at
      BY <2>2, <2>3
    <2> QED BY <2>4, <2>5
  <1> HIDE DEF m
  <1>4. Goes(Text, at)
    BY <1>1, <1>2, <1>3, EditGoes DEF m
  <1>5. CASE at = CursorOf(gb)
    BY <1>4, <1>5, Stays
  <1>6. CASE at # CursorOf(gb)
    <2>1. at \in CursorOf(gb) + 1 .. Len(Text)
      BY <1>6, LineTypes
    <2>2. at = Len(Text) \/ Text[at + 1] = Blank
      BY <1>1, LineTypes
    <2> QED
      BY <1>1, <1>4, <2>1, <2>2 DEF Goes, LineStep, Line!LineNext, Line!WordRight, Line!Show
  <1> QED BY <1>5, <1>6

LEMMA CursorStep ==
    ASSUME IInv, CursorKeys
    PROVE  LineStep
  <1>1. CASE Edit(gb_move_gap_to_point(gb))
    <2>1. TextOf(gb_move_gap_to_point(gb)) = Text
      BY LineTypes, MoveGapText DEF Text
    <2>2. CursorOf(gb_move_gap_to_point(gb)) = CursorOf(gb)
      <3> DEFINE m == gb_move_gap_to_point(gb)
      <3>1. Sound(m) /\ m.point = m.gap /\ m.gap = CursorOf(gb)
        BY LineTypes, MoveGap
      <3> HIDE DEF m
      <3>2. CursorOf(m) = CursorOf(gb)
        BY <3>1, Pointers, LineTypes
      <3> QED BY <3>2 DEF m
    <2> QED BY <1>1, <2>1, <2>2, EditGoes, Stays
  <1> QED BY <1>1, RightStep, LeftStep, EndsStep, WordLeftStep, WordRightStep DEF CursorKeys

\* What is left of the first c characters without the last of them.
LEMMA FrontOfPart ==
    ASSUME NEW t \in Seq(Chars), NEW c \in 1 .. Len(t)
    PROVE  Front(SubSeq(t, 1, c)) = SubSeq(t, 1, c - 1)
  <1>1. Len(t) \in Nat /\ c \in Nat /\ 1 <= c /\ c <= Len(t)
    OBVIOUS
  <1>2. Len(SubSeq(t, 1, c)) = c
    <2>1. \A i \in 1 .. c : t[i] \in Chars
      BY <1>1, ElementOfSeq
    <2> QED BY <1>1, <2>1, SubSeqProperties
  <1>3. Front(SubSeq(t, 1, c)) = SubSeq(SubSeq(t, 1, c), 1, c - 1)
    BY <1>2 DEF Front
  <1>4. CASE c = 1
    BY <1>3, <1>4, SubSeqEmpty
  <1>5. CASE c # 1
    <2> DEFINE n == c - 1
    <2>1. 1 \in 1 .. Len(t) /\ 1 \in 1 .. c - 1 + 1 /\ n \in 1 .. c - 1 + 1 /\ 1 + 1 - 1 = 1 /\ 1 + n - 1 = n
      BY <1>1, <1>5
    <2> HIDE DEF n
    <2>2. SubSeq(SubSeq(t, 1, c), 1, n) = SubSeq(t, 1 + 1 - 1, 1 + n - 1)
      BY <2>1, SubSeqOfSubSeq
    <2> QED BY <1>3, <2>1, <2>2 DEF n
  <1> QED BY <1>4, <1>5

LEMMA BackspaceStep ==
    ASSUME IInv, key_backspace
    PROVE  LineStep
  <1>1. CASE ~gb_point_at_start(gb) /\ gb.gap = 0 /\ gb.egap = gb.ebuf
    BY <1>1 DEF key_backspace, LineStep, Line!view, Text
  <1>2. CASE gb_point_at_start(gb)
    BY <1>2, EditGoes, Stays DEF key_backspace, Text
  <1>3. CASE ~gb_point_at_start(gb) /\ ~(gb.gap = 0 /\ gb.egap = gb.ebuf)
    <2> DEFINE m == gb_move_left(gb)
               c == CursorOf(gb)
               at == IF c = 0 THEN 0 ELSE c - 1
               new == SubSeq(Text, 1, at) \o SubSeq(Text, at + 1 + 1, Len(Text))
    <2>1. Sound(m) /\ CursorOf(m) + 1 <= gb_data_size(m)
      BY <1>3, LineTypes, MoveLeftIsSound
    <2>2. TextOf(m) = Text /\ CursorOf(m) = at
      BY <1>3, LineTypes, MoveLeftText DEF gb_point_at_start, Text
    <2>3. Edit(gb_del(m, 1))
      BY <1>3 DEF key_backspace
    <2> HIDE DEF m, at
    <2>4. TextOf(gb_del(m, 1)) = new /\ CursorOf(gb_del(m, 1)) = at
      BY <2>1, <2>2, DeleteText
    <2>5. Goes(new, at)
      BY <2>3, <2>4, EditGoes
    <2>6. CASE c > 0
      <3>1. at = c - 1 /\ at + 1 + 1 = c + 1 /\ c \in 1 .. Len(Text)
        BY <2>6, LineTypes DEF at
      <3>2. Front(SubSeq(Text, 1, c)) = SubSeq(Text, 1, c - 1)
        BY <3>1, LineTypes, FrontOfPart
      <3>3. Goes(Front(SubSeq(Text, 1, c)) \o SubSeq(Text, c + 1, Len(Text)), c - 1)
        BY <2>5, <3>1, <3>2
      <3> QED
        BY <2>6, <3>3 DEF Goes, LineStep, Line!LineNext, Line!Backspace, Line!Show, Line!Before,
                              Line!After, Line!Front, Front
    <2>7. CASE c = 0
      <3>1. at = 0 /\ at + 1 + 1 = 2
        BY <2>7 DEF at
      <3>2. Text # <<>>
        <4>1. Len(Text) = gb_data_size(m)
          BY <2>1, <2>2, TextIsASequence
        <4>2. 1 <= Len(Text)
          BY <2>1, <2>2, <3>1, <4>1
        <4> QED BY <4>2, EmptySeq
      <3>3. SubSeq(Text, 1, 0) = <<>> /\ SubSeq(Text, 2, Len(Text)) = Tail(Text)
        BY <3>2, LineTypes, SubSeqEmpty, TailIsSubSeq
      <3>4. Tail(Text) \in Seq(Chars)
        BY <3>2, LineTypes, HeadTailProperties
      <3>5. <<>> \o Tail(Text) = Tail(Text)
        BY <3>4, ConcatEmptySeq
      <3>6. Goes(Tail(Text), 0)
        BY <2>5, <3>1, <3>3, <3>5
      <3> QED
        BY <2>7, <3>2, <3>6 DEF Goes, LineStep, Line!LineNext, Line!BackspaceAtStart, Line!Show
    <2>8. c \in Nat
      BY LineTypes
    <2> QED BY <2>6, <2>7, <2>8
  <1> QED BY <1>1, <1>2, <1>3

LEMMA KillStep ==
    ASSUME IInv, key_ctrl_k
    PROVE  LineStep
  <1> DEFINE g == gb_move_gap_to_point(gb)
             right == gb_right_data_size(g)
             c == CursorOf(gb)
             before == SubSeq(Text, 1, c)
             after == SubSeq(Text, c + 1, Len(Text))
  <1>1. Sound(g) /\ g.point = g.gap /\ g.gap = c /\ TextOf(g) = Text
    BY LineTypes, MoveGap, MoveGapText DEF Text
  <1>2. gb' = gb_del(g, right) /\ entered' = entered
        /\ kill' = CASE right > 0 -> [freed |-> FALSE, text |-> after]
                     [] right = 0 /\ kill = NoText -> NoText
                     [] OTHER -> Freed
    BY DEF key_ctrl_k
  <1> HIDE DEF g
  <1>3. CursorOf(g) = c /\ gb_data_size(g) = Len(Text)
    BY <1>1, Pointers, LineTypes, TextIsASequence
  <1>4. right = Len(Text) - c
    BY <1>1, <1>3, Pointers DEF gb_right_data_size, gb_eof
  <1> HIDE DEF right
  <1>5. right \in Nat /\ CursorOf(g) + right <= gb_data_size(g) /\ c + right + 1 = Len(Text) + 1
    BY <1>3, <1>4, LineTypes
  <1>6. TextOf(gb') = before /\ CursorOf(gb') = c
    <2>1. TextOf(gb') = SubSeq(Text, 1, c) \o SubSeq(Text, c + right + 1, Len(Text)) /\ CursorOf(gb') = c
      BY <1>1, <1>2, <1>3, <1>5, DeleteText
    <2>2. SubSeq(Text, Len(Text) + 1, Len(Text)) = <<>>
      BY LineTypes, SubSeqEmpty
    <2>3. before \in Seq(Chars)
      BY LineTypes, PartIsAText
    <2>4. before \o <<>> = before
      BY <2>3, ConcatEmptySeq
    <2> QED BY <1>5, <2>1, <2>2, <2>4
  <1>7. kill'.text = after
    <2>1. CASE right > 0
      <3> HIDE DEF after
      <3>1. kill' = [freed |-> FALSE, text |-> after]
        BY <1>2, <2>1
      <3> QED BY <3>1
    <2>2. CASE right = 0
      <3>1. kill'.text = <<>>
        BY <1>2, <2>2 DEF NoText, Freed
      <3>2. c + 1 = Len(Text) + 1
        BY <1>4, <2>2, LineTypes
      <3>3. after = <<>>
        BY <3>2, LineTypes, SubSeqEmpty
      <3> QED BY <3>1, <3>3
    <2> QED BY <1>5, <2>1, <2>2
  <1> QED
    BY <1>2, <1>6, <1>7 DEF LineStep, Line!LineNext, Line!Kill, Line!Before, Line!After, Text

LEMMA YankStep ==
    ASSUME IInv, key_ctrl_y
    PROVE  LineStep
  <1>1. kill.text \in Seq(Chars) /\ gb' = gb_str_insert(gb, kill.text) /\ UNCHANGED <<kill, entered>>
    BY DEF IInv, key_ctrl_y
  <1>2. CASE kill.text = <<>>
    BY <1>1, <1>2 DEF gb_str_insert, LineStep, Line!view, Text
  <1>3. CASE kill.text # <<>>
    <2>1. TextOf(gb') = Inserted(Text, CursorOf(gb), kill.text)
          /\ CursorOf(gb') = CursorOf(gb) + Len(kill.text)
      BY <1>1, LineTypes, InsertText DEF Text
    <2> QED
      BY <1>1, <1>3, <2>1 DEF Inserted, LineStep, Line!LineNext, Line!Yank, Line!Show, Line!Before,
                              Line!After, Text
  <1> QED BY <1>2, <1>3

\* An empty line with the cursor at its start.
LEMMA Clears ==
    ASSUME Goes(<<>>, 0)
    PROVE  LineStep
  BY DEF Goes, LineStep, Line!LineNext, Line!Clear, Line!Show

LEMMA ClearStep ==
    ASSUME IInv, key_ctrl_c
    PROVE  LineStep
  <1>1. TextOf(gb_reset_buf(gb)) = <<>> /\ CursorOf(gb_reset_buf(gb)) = 0
    BY LineTypes, ResetText
  <1>2. Goes(<<>>, 0)
    BY <1>1 DEF key_ctrl_c, Goes, Text, hist
  <1> QED BY <1>2, Clears

\* The entry's line replaces the text, and the cursor is behind it.
LEMMA RecallStep ==
    ASSUME IInv, LinesInv, NEW h \in Elements(hd_hist), Recall(h)
    PROVE  LineStep
  <1> DEFINE r == gb_reset_buf(gb)
             g == gb_str_insert(r, line[h])
             l == line[h]
  <1>1. h \in Hists /\ l \in Seq(Chars) /\ l \in entered
    <2>1. hd_hist \in Seq(Hists) /\ line \in [Hists -> Seq(Chars)]
      BY DEF IInv, Typed, History, HistOf
    <2>2. PICK i \in 1 .. Len(hd_hist) : h = hd_hist[i]
      BY <2>1, LenProperties DEF Elements
    <2>3. h \in Hists
      BY <2>1, <2>2, ElementOfSeq
    <2>4. l \in Shown(History)
      BY <2>2 DEF Shown, History, HistOf
    <2> QED BY <2>1, <2>3, <2>4 DEF LinesInv
  <1>2. gb' = gb_set_point(g, Len(l)) /\ UNCHANGED <<kill, entered>>
    BY DEF Recall
  <1> HIDE DEF l
  <1>3. Sound(r) /\ TextOf(r) = <<>> /\ CursorOf(r) = 0
    BY LineTypes, ResetText
  <1> HIDE DEF r
  <1>4. Sound(g) /\ TextOf(g) = l
    <2>1. Sound(g) /\ TextOf(g) = Inserted(<<>>, 0, l)
      BY <1>1, <1>3, InsertIsSound, InsertText DEF l
    <2>2. SubSeq(<<>>, 1, 0) = <<>> /\ SubSeq(<<>>, 0 + 1, Len(<<>>)) = <<>>
      BY EmptySeq, SubSeqEmpty
    <2>3. <<>> \o l \o <<>> = l
      BY <1>1, ConcatEmptySeq
    <2> QED BY <2>1, <2>2, <2>3 DEF Inserted
  <1> HIDE DEF g
  <1>5. TextOf(gb') = l /\ CursorOf(gb') = Len(l)
    <2>1. Len(l) \in Nat /\ gb_data_size(g) = Len(l)
      BY <1>1, <1>4, TextIsASequence
    <2>2. Len(l) \in Int /\ Len(l) \in 0 .. gb_data_size(g) /\ Len(l) # -1
      BY <2>1
    <2> QED BY <1>2, <1>4, <2>2, SetPointText
  <1>6. Goes(l, Len(l))
    BY <1>2, <1>5 DEF Goes, Text
  <1> QED
    BY <1>1, <1>6 DEF Goes, LineStep, Line!LineNext, Line!Recall, Line!Show

LEMMA UpStep ==
    ASSUME IInv, LinesInv, key_up_arr
    PROVE  LineStep
  <1>1. cli_history_prev \in Elements(hd_hist)
    BY PrevIsOnTheList
  <1> QED BY <1>1, RecallStep DEF key_up_arr

LEMMA DownStep ==
    ASSUME IInv, LinesInv, key_down_arr
    PROVE  LineStep
  <1>1. CASE curr_hist = Last(hd_hist)
    <2> DEFINE r == gb_reset_buf(gb)
    <2>1. Sound(r) /\ TextOf(r) = <<>> /\ CursorOf(r) = 0
      BY LineTypes, ResetText
    <2>2. Edit(gb_set_point(r, 0))
      BY <1>1 DEF key_down_arr
    <2> HIDE DEF r
    <2>3. gb_data_size(r) \in Nat
      BY <2>1, CursorInText
    <2>4. TextOf(gb_set_point(r, 0)) = <<>> /\ CursorOf(gb_set_point(r, 0)) = 0
      BY <2>1, <2>3, SetPointText
    <2>5. Goes(<<>>, 0)
      BY <2>2, <2>4, EditGoes
    <2> QED BY <2>5, Clears
  <1>2. CASE curr_hist # Last(hd_hist)
    <2>1. cli_history_next \in Elements(hd_hist)
      BY <1>2, NextIsOnTheList
    <2> QED BY <1>2, <2>1, RecallStep DEF key_down_arr
  <1> QED BY <1>1, <1>2

LEMMA ReturnStep ==
    ASSUME IInv, key_return
    PROVE  LineStep
  <1> DEFINE r == Execute(History, gb)
  <1>1. Sound(r.gb)
    BY ExecuteIsTyped DEF IInv
  <1>2. /\ gb' = gb_reset_buf(r.gb) /\ kill' = kill
        /\ entered' = entered \cup {Trimmed(Text), Trimmed(AliasText(Text))}
    BY DEF key_return
  <1> HIDE DEF r
  <1>3. TextOf(gb') = <<>> /\ CursorOf(gb') = 0
    BY <1>1, <1>2, ResetText
  <1> QED
    BY <1>2, <1>3 DEF LineStep, Line!LineNext, Line!Enter, Text

LEMMA NextIsALineStep ==
    ASSUME IInv, LinesInv, [Next]_vars
    PROVE  LineStep
  <1>1. CASE key_ctrl_x
    BY <1>1 DEF key_ctrl_x, LineStep, Line!view, Text
  <1>2. CASE UNCHANGED vars
    BY <1>2 DEF vars, LineStep, Line!view, Text
  <1> QED
    BY <1>1, <1>2, CharStep, CursorStep, BackspaceStep, KillStep, YankStep, ClearStep, UpStep,
       DownStep, ReturnStep DEF Next

LEMMA LineStarts == Init => Line!LineInit
  <1> SUFFICES ASSUME Init PROVE Line!LineInit
    OBVIOUS
  <1>1. Sound(gb_create) /\ gb_data_size(gb_create) = 0 /\ CursorOf(gb_create) = 0
    <2> DEFINE m == gb_create
    <2>1. m.gap = 0 /\ m.point = 0 /\ m.egap = GB_DEFAULT_GAP_SIZE /\ m.ebuf = GB_DEFAULT_GAP_SIZE
      BY DEF gb_create, Buffer
    <2>2. Sound(m)
      BY CreateIsSound
    <2> HIDE DEF m
    <2> QED BY <2>1, <2>2, GapAssumption DEF gb_data_size, gb_gap_size, CursorOf, m
  <1>2. TextOf(gb_create) \in Seq(Chars) /\ Len(TextOf(gb_create)) = 0
    BY <1>1, TextIsASequence
  <1>3. TextOf(gb_create) = <<>>
    BY <1>2, EmptySeq
  <1> QED BY <1>1, <1>3 DEF Init, Line!LineInit, Text, NoText

\* The gap buffer, the killed text and the history implement the line with a
\* cursor that CommandLine.tla describes: every key of cli_vt100.c is a step of
\* it, and an arrow shows only what was entered.
THEOREM KeysHold == Spec => KeysDoWhatTheySay
  <1>1. Init => LinesInv /\ Line!LineInit
    BY LinesStart, LineStarts
  <1>2. IInv /\ LinesInv /\ [Next]_vars => LinesInv'
    BY LinesKeep
  <1>3. IInv /\ LinesInv /\ [Next]_vars => [Line!LineNext]_(Line!view)
    BY NextIsALineStep DEF LineStep
  <1> QED
    BY <1>1, <1>2, <1>3, SpecKeeps, PTL DEF Spec, KeysDoWhatTheySay, Line!LineSpec
=============================================================================
