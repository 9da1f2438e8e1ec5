------------------------------- MODULE GapBuffer -------------------------------
(***************************************************************************)
(* The gap buffer the command line is edited in: cli_gapbuf.h and          *)
(* cli_gapbuf.c.  A pointer is its distance from gb->buf, so buf is 0:     *)
(* the text is what lies before gap and from egap to ebuf, and point is    *)
(* the place the next character goes to.  What the cells of the gap hold   *)
(* is not kept.                                                            *)
(***************************************************************************)
EXTENDS Integers, Sequences

CONSTANT GB_DEFAULT_GAP_SIZE

ASSUME GapAssumption == GB_DEFAULT_GAP_SIZE \in Nat \ {0}

Junk == "?"    \* a cell of the gap, or one that was never written

gb_gap_size(g) == g.egap - g.gap
gb_data_size(g) == g.ebuf - gb_gap_size(g)

IsBuffer(g) ==
    /\ g = [cell |-> g.cell, gap |-> g.gap, egap |-> g.egap, ebuf |-> g.ebuf,
            alloc |-> g.alloc, point |-> g.point]
    /\ {g.gap, g.egap, g.ebuf, g.alloc, g.point} \subseteq Nat
    /\ DOMAIN g.cell = 0 .. g.ebuf - 1

\* Memory the buffer may touch, with alloc the size of the last realloc.
InBounds(g) ==
    g.gap <= g.egap /\ g.egap <= g.ebuf /\ g.ebuf <= g.alloc

\* The point is never inside the gap.
OutsideGap(g) == g.point <= g.gap \/ (g.egap <= g.point /\ g.point <= g.ebuf)

\* The buffer with these pointers whose text has character c(i) in cell i.
Buffer(gap, egap, ebuf, alloc, point, c(_)) ==
    [cell |-> [i \in 0 .. ebuf - 1 |-> IF i < gap \/ i >= egap THEN c(i) ELSE Junk],
     gap |-> gap, egap |-> egap, ebuf |-> ebuf, alloc |-> alloc, point |-> point]

\* The text, and the number of characters before the point.
TextOf(g) == [i \in 1 .. gb_data_size(g) |->
                 IF i <= g.gap THEN g.cell[i - 1] ELSE g.cell[i - 1 + gb_gap_size(g)]]
CursorOf(g) == IF g.point <= g.gap THEN g.point ELSE g.point - gb_gap_size(g)

-----------------------------------------------------------------------------
gb_reset_buf(g) == Buffer(0, g.ebuf, g.ebuf, g.alloc, 0, LAMBDA i : Junk)

gb_create ==
    Buffer(0, GB_DEFAULT_GAP_SIZE, GB_DEFAULT_GAP_SIZE, GB_DEFAULT_GAP_SIZE, 0, LAMBDA i : Junk)

gb_point_at_start(g) == g.point = 0
gb_eof(g) == IF g.point = g.gap THEN g.egap = g.ebuf ELSE g.point = g.ebuf
gb_right_data_size(g) == IF gb_eof(g) THEN 0 ELSE g.ebuf - g.egap

\* -1 is the end of the buffer
gb_set_point(g, idx) ==
    [g EXCEPT !.point = CASE idx = -1 -> g.ebuf
                          [] idx \in 0 .. g.gap -> idx
                          [] OTHER -> idx + gb_gap_size(g)]

\* memmove of the characters between the point and the gap to its other side.
gb_move_gap_left(g) ==
    LET egap == g.egap - (g.gap - g.point)
    IN  Buffer(g.point, egap, g.ebuf, g.alloc, g.point,
               LAMBDA i : IF i >= egap /\ i < g.egap THEN g.cell[i - egap + g.point] ELSE g.cell[i])

gb_move_gap_right(g) ==
    LET gap == g.gap + (g.point - g.egap)
    IN  Buffer(gap, g.point, g.ebuf, g.alloc, gap,
               LAMBDA i : IF i >= g.gap /\ i < gap THEN g.cell[i - g.gap + g.egap] ELSE g.cell[i])

\* A point inside the gap, which the code handles too, does not exist.
gb_move_gap_to_point(g) ==
    IF g.point = g.gap THEN g
    ELSE IF g.point = g.egap THEN [g EXCEPT !.point = g.gap]
    ELSE IF g.point < g.gap THEN gb_move_gap_left(g)
    ELSE gb_move_gap_right(g)

\* Mutant: the text after the gap is not moved up.
gb_expand_buf_NoMove(g, more) ==
    Buffer(g.gap, g.egap + more, g.ebuf + more, g.ebuf + more + GB_DEFAULT_GAP_SIZE, g.point,
           LAMBDA i : IF i < g.ebuf THEN g.cell[i] ELSE Junk)

\* Mutant: the memory grows by less than the gap.
gb_expand_buf_Short(g, more) ==
    Buffer(g.gap, g.egap + more, g.ebuf + more, g.ebuf + more - GB_DEFAULT_GAP_SIZE, g.point,
           LAMBDA i : IF i >= g.egap + more THEN g.cell[i - more] ELSE g.cell[i])

\* realloc(ebuf - buf + more + GB_DEFAULT_GAP_SIZE) and the memmove after it
gb_expand_buf(g, more) ==
    Buffer(g.gap, g.egap + more, g.ebuf + more, g.ebuf + more + GB_DEFAULT_GAP_SIZE, g.point,
           LAMBDA i : IF i >= g.egap + more THEN g.cell[i - more] ELSE g.cell[i])

gb_expand_gap(g, size) ==
    IF size <= gb_gap_size(g) THEN g ELSE gb_expand_buf(g, size + GB_DEFAULT_GAP_SIZE)

\* The characters of str, at the gap and the point.
gb_putc(g, str) ==
    LET gap == g.gap + Len(str)
    IN  Buffer(gap, g.egap, g.ebuf, g.alloc, gap,
               LAMBDA i : IF i >= g.gap /\ i < gap THEN str[i - g.gap + 1] ELSE g.cell[i])

\* An empty string returns before the gap is moved.
gb_str_insert(g, str) ==
    IF str = <<>> THEN g
    ELSE gb_putc(gb_expand_gap(gb_move_gap_to_point(g), Len(str)), str)

\* gb_expand_gap(gb, 1) for a full gap: the same as for a string of one.
gb_insert(g, c) == gb_str_insert(g, <<c>>)

gb_del(g, cnt) ==
    LET m == gb_move_gap_to_point(g)
    IN  Buffer(m.gap, m.egap + cnt, m.ebuf, m.alloc, m.point, LAMBDA i : m.cell[i])

gb_move_right(g) ==
    LET p == IF g.point = g.gap THEN g.egap ELSE g.point
    IN  [g EXCEPT !.point = IF p + 1 > g.ebuf THEN g.ebuf ELSE p + 1]

gb_move_left(g) ==
    LET p == IF g.point = g.egap THEN g.gap ELSE g.point
    IN  [g EXCEPT !.point = IF p = 0 THEN 0 ELSE p - 1]
=============================================================================
