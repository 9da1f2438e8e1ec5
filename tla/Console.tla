------------------------------- MODULE Console -------------------------------
(***************************************************************************)
(* The command line of the CLI: keys that edit it (cli_vt100.c,            *)
(* cli_input.c), the history (cli_history.c) and its execution up to the   *)
(* call of the command (cli.c).  One thread reads one key at a time.       *)
(*                                                                         *)
(* A line is a sequence of characters.  The words of the command tree that *)
(* a line can start with are a command and an alias of a command.          *)
(***************************************************************************)
EXTENDS GapBuffer, FiniteSets, SequencesExt

CONSTANTS
    Chars,       \* printable characters that are typed
    Blank,       \* the space
    Comment,     \* "#"
    Bang,        \* "!", alone it names history line 0
    AliasWord,   \* the name of an alias
    AliasLine,   \* the line it stands for
    NbHist,      \* nb_hist, lines of history
    Bounds       \* the sessions to look at, each by the characters typed, the
                 \* length of a line, the kills and the lines entered

ASSUME ConsoleAssumption ==
    /\ {Blank, Comment, Bang, AliasWord} \subseteq Chars \cup {Comment, Bang}
    /\ AliasLine \in Seq(Chars) /\ AliasLine # <<>> /\ Head(AliasLine) \notin {Blank, Comment, Bang}
    /\ NbHist \in Nat \ {0}
    /\ Bounds \subseteq [chars : SUBSET Chars, line : Nat, kills : Nat, returns : Nat]

Hists == 1 .. NbHist    \* the entries of cli->hist_mem
NULL == 0

VARIABLES
    gb,        \* cli->gb
    kill,      \* cli->kill: "none", "freed" or the text of the last kill
    hd_hist,   \* entries in use, oldest first
    free_hist, \* entries free
    line,      \* line[h]: h->line
    curr_hist, \* entry the arrows are at, or NULL
    quit_flag,
    broken,    \* memory that is not ours was used: nothing is known any more
    entered,   \* history: lines entered, and what they are as aliases
    kills, returns, \* kills and lines entered
    bound      \* the session's member of Bounds

hist == <<hd_hist, free_hist, line>>
vars == <<gb, kill, hist, curr_hist, quit_flag, broken, entered, kills, returns, bound>>

Text == TextOf(gb)
Elements(s) == {s[i] : i \in DOMAIN s}
NoText == [freed |-> FALSE, text |-> <<>>]
Freed == [freed |-> TRUE, text |-> <<>>]

TypeOK ==
    /\ IsBuffer(gb) /\ Elements(Text) \subseteq Chars
    /\ kill.freed \in BOOLEAN /\ Elements(kill.text) \subseteq Chars
    /\ Elements(hd_hist) \cup Elements(free_hist) \subseteq Hists
    /\ \A h \in Hists : Elements(line[h]) \subseteq Chars
    /\ curr_hist \in Hists \cup {NULL}
    /\ quit_flag \in BOOLEAN /\ broken \in BOOLEAN 
    /\ kills \in 0 .. bound.kills /\ returns \in 0 .. bound.returns /\ bound \in Bounds

Init ==
    /\ gb = gb_create /\ kill = NoText
    /\ hd_hist = <<>> /\ free_hist = [h \in Hists |-> h] /\ line = [h \in Hists |-> <<>>]
    /\ curr_hist = NULL /\ quit_flag = FALSE /\ broken = FALSE
    /\ entered = {} /\ kills = 0 /\ returns = 0 /\ bound \in Bounds

-----------------------------------------------------------------------------
(***************************************************************************)
(* The history, as functions of its lists: hd, free and the lines.         *)
(***************************************************************************)

HistOf(hd, free, l, b) == [hd |-> hd, free |-> free, line |-> l, broken |-> b]
History == HistOf(hd_hist, free_hist, line, broken)

\* A line like the last one is not added.  Without a free entry the oldest is
\* used again; without any entry CIRCLEQ_FIRST is the list head itself, which
\* is then removed from itself and freed.
cli_history_add(h, text) ==
    LET repeated == h.hd # <<>> /\ h.line[Last(h.hd)] = text
        evict == h.free = <<>>
        e == IF evict THEN Head(h.hd) ELSE Head(h.free)
    IN  CASE repeated -> h
          [] ~repeated /\ evict /\ h.hd = <<>> -> HistOf(h.hd, h.free, h.line, TRUE)
          [] OTHER -> HistOf(Append(IF evict THEN Tail(h.hd) ELSE h.hd, e),
                             IF evict THEN h.free ELSE Tail(h.free),
                             [h.line EXCEPT ![e] = text], h.broken)

\* Mutant: nothing is deleted.
cli_history_del_Nothing(h) == h

\* The newest entry leaves the list and goes nowhere.
cli_history_del(h) ==
    HistOf(IF h.hd = <<>> THEN h.hd ELSE Front(h.hd), h.free, h.line, h.broken)

\* The entry whose line an arrow shows, and the next arrow starts from.
cli_history_prev ==
    CASE curr_hist = NULL -> Last(hd_hist)
      [] curr_hist # NULL /\ curr_hist = Head(hd_hist) -> curr_hist
      [] OTHER -> hd_hist[(CHOOSE i \in DOMAIN hd_hist : hd_hist[i] = curr_hist) - 1]

cli_history_next ==
    IF curr_hist = Last(hd_hist) THEN curr_hist
    ELSE hd_hist[(CHOOSE i \in DOMAIN hd_hist : hd_hist[i] = curr_hist) + 1]

-----------------------------------------------------------------------------
(***************************************************************************)
(* Execution.                                                              *)
(***************************************************************************)

\* pg_strtrim: what lies between the blanks at the start and at the end.
Spans(text) == {s \in (DOMAIN text) \X (DOMAIN text) :
    /\ Blank \notin {text[s[1]], text[s[2]]}
    /\ \A i \in DOMAIN text : text[i] # Blank => i \in s[1] .. s[2]}
Span(text) == CHOOSE s \in Spans(text) : TRUE
Trimmed(text) ==
    IF Spans(text) = {} THEN <<>> ELSE SubSeq(text, Span(text)[1], Span(text)[2])

\* The first word of a line: argv[0].
FirstWord(text) ==
    LET t == Trimmed(text)
        ends == {i \in DOMAIN t : t[i] = Blank}
    IN  IF ends = {} THEN t ELSE SubSeq(t, 1, (CHOOSE i \in ends : \A j \in ends : i <= j) - 1)

\* The line that is executed.  A history line is copied to the start of the
\* buffer, and read from where the "!" was found.
Executed(h, text) ==
    LET t == Trimmed(text)
    IN  CASE t = <<>> -> <<>>
          [] t # <<>> /\ Head(t) = Comment -> <<>>
          [] t # <<>> /\ Head(t) = Bang ->
                IF h.hd = <<>> THEN <<>>
                ELSE LET l == h.line[Head(h.hd)] IN SubSeq(l, Span(text)[1], Len(l))
          [] OTHER -> t

Remembered(h, text) ==
    LET t == Trimmed(text)
    IN  IF t = <<>> \/ Head(t) \in {Comment, Bang} THEN h ELSE cli_history_add(h, t)

\* The line of an alias takes the place of its name, with what followed it in
\* the buffer.  The name's own line is taken out of the history: if it was not
\* added, the one before it is.
AliasText(text) == AliasLine \o SubSeq(text, 2, Len(text))

\* cli_execute: the history after it, and the buffer.  An alias executes again.
Execute(h, g) ==
    LET text == TextOf(g)
        first == Remembered(h, text)
        isAlias == FirstWord(Executed(first, text)) = <<AliasWord>>
    IN  IF first.broken \/ ~isAlias THEN [hist |-> first, gb |-> g]
        ELSE [hist |-> Remembered(cli_history_del(first), AliasText(text)),
              gb |-> gb_str_insert(gb_reset_buf(g), AliasText(text))]

-----------------------------------------------------------------------------
(***************************************************************************)
(* The keys.                                                               *)
(***************************************************************************)

Alive == ~quit_flag /\ ~broken

Edit(g) ==
    /\ gb' = g
    /\ UNCHANGED <<kill, hist, curr_hist, quit_flag, broken, entered, kills, returns, bound>>

key_right_arr(g) == IF gb_eof(g) THEN g ELSE gb_move_right(g)
key_left_arr(g) == IF gb_point_at_start(g) THEN g ELSE gb_move_left(g)

\* Left until the character before the point is a blank, or to the start.
\* gb_get_prev takes the point from the end of the gap to its start.
key_word_left == \E at \in 0 .. CursorOf(gb) :
    /\ at > 0 => at < CursorOf(gb) /\ Text[at] = Blank
    /\ \A k \in at + 1 .. CursorOf(gb) - 1 : Text[k] # Blank
    /\ Edit(gb_set_point(gb, at))

\* Right until the character at the point is a blank, or to the end, where
\* gb_get reads one byte more.  gb_get takes the point over the gap.
key_word_right == \E at \in CursorOf(gb) .. Len(Text) :
    /\ at < Len(Text) => at > CursorOf(gb) /\ Text[at + 1] = Blank
    /\ \A k \in CursorOf(gb) + 1 .. at - 1 : Text[k + 1] # Blank
    /\ Edit([gb EXCEPT !.point = IF at < gb.gap THEN at ELSE at + gb_gap_size(gb)])

handle_input_display(c) ==
    /\ Alive /\ Len(Text) < bound.line
    /\ Edit(gb_insert(gb, c))

CursorKeys ==
    /\ Alive
    /\ \/ Edit(key_right_arr(gb))         \* also ctrl-F
       \/ Edit(key_left_arr(gb))          \* also ctrl-B
       \/ Edit(gb_set_point(gb, 0))       \* key_ctrl_a
       \/ Edit(gb_set_point(gb, -1))      \* key_ctrl_e
       \/ key_word_left
       \/ key_word_right
       \/ Edit(gb_move_gap_to_point(gb))  \* key_ctrl_l

\* Also key_suppr.  With an empty buffer and the point behind its gap, as
\* ctrl-E leaves it, there is no character left of the point and none right of
\* it: egap passes ebuf and the size of the text becomes 2^32 - 1.
key_backspace ==
    /\ Alive
    /\ LET empty == gb.gap = 0 /\ gb.egap = gb.ebuf
       IN  IF ~gb_point_at_start(gb) /\ empty
           THEN /\ broken' = TRUE
                /\ UNCHANGED <<gb, kill, hist, curr_hist, quit_flag, entered, kills, returns, bound>>
           ELSE Edit(IF gb_point_at_start(gb) THEN gb ELSE gb_del(gb_move_left(gb), 1))

\* The killed text is freed before the new one is copied, and not set to NULL
\* when there is nothing to copy.
key_ctrl_k ==
    LET g == gb_move_gap_to_point(gb)
        right == gb_right_data_size(g)
    IN  /\ Alive /\ kills < bound.kills /\ kills' = kills + 1
        /\ gb' = gb_del(g, right)
        /\ kill' = CASE right > 0 -> [freed |-> FALSE, text |-> SubSeq(Text, CursorOf(gb) + 1, Len(Text))]
                     [] right = 0 /\ kill = NoText -> NoText
                     [] OTHER -> Freed
        /\ broken' = kill.freed
        /\ UNCHANGED <<hist, curr_hist, quit_flag, entered, returns, bound>>

key_ctrl_y ==
    /\ Alive /\ kill # NoText /\ Len(Text) + Len(kill.text) <= bound.line
    /\ gb' = gb_str_insert(gb, kill.text)
    /\ broken' = kill.freed
    /\ UNCHANGED <<kill, hist, curr_hist, quit_flag, entered, kills, returns, bound>>

key_ctrl_c ==
    /\ Alive
    /\ gb' = gb_reset_buf(gb) /\ curr_hist' = NULL
    /\ UNCHANGED <<kill, hist, quit_flag, broken, entered, kills, returns, bound>>

Recall(h) ==
    /\ curr_hist' = h
    /\ LET g == gb_str_insert(gb_reset_buf(gb), line[h]) IN gb' = gb_set_point(g, Len(line[h]))
    /\ UNCHANGED <<kill, hist, quit_flag, broken, entered, kills, returns, bound>>

key_up_arr == Alive /\ hd_hist # <<>> /\ Recall(cli_history_prev)

\* Below the newest line there is an empty one.
key_down_arr ==
    /\ Alive /\ hd_hist # <<>> /\ curr_hist # NULL
    /\ IF curr_hist = Last(hd_hist) THEN Edit(gb_set_point(gb_reset_buf(gb), 0))
       ELSE Recall(cli_history_next)

\* Mutant: the arrows go on from where they were.
key_return_KeepsCurr ==
    /\ Alive /\ returns < bound.returns
    /\ LET r == Execute(History, gb)
       IN  /\ hd_hist' = r.hist.hd /\ free_hist' = r.hist.free /\ line' = r.hist.line
           /\ broken' = r.hist.broken
           /\ gb' = gb_reset_buf(r.gb)
    /\ entered' = entered \cup {Trimmed(Text), Trimmed(AliasText(Text))} /\ returns' = returns + 1
    /\ UNCHANGED <<kill, curr_hist, quit_flag, kills, bound>>

\* cli_history_reset puts curr_hist at the oldest entry; it is NULL after that.
key_return ==
    /\ Alive /\ returns < bound.returns
    /\ LET r == Execute(History, gb)
       IN  /\ hd_hist' = r.hist.hd /\ free_hist' = r.hist.free /\ line' = r.hist.line
           /\ broken' = r.hist.broken
           /\ gb' = gb_reset_buf(r.gb)
    /\ entered' = entered \cup {Trimmed(Text), Trimmed(AliasText(Text))} /\ returns' = returns + 1
    /\ curr_hist' = NULL
    /\ UNCHANGED <<kill, quit_flag, kills, bound>>

key_ctrl_x ==
    /\ Alive /\ quit_flag' = TRUE
    /\ UNCHANGED <<gb, kill, hist, curr_hist, broken, entered, kills, returns, bound>>

Next ==
    \/ \E c \in bound.chars : handle_input_display(c)
    \/ CursorKeys \/ key_backspace \/ key_ctrl_k \/ key_ctrl_y \/ key_ctrl_c
    \/ key_up_arr \/ key_down_arr \/ key_return \/ key_ctrl_x

Spec == Init /\ [][Next]_vars

-----------------------------------------------------------------------------
(***************************************************************************)
(* Properties.                                                             *)
(***************************************************************************)

\* Every key does to the text what the person typing expects of it, wherever
\* the gap is, and the arrows only ever show lines that were entered, also
\* after their entry was used again.
Line == INSTANCE CommandLine WITH
    Printable <- Chars, Space <- Blank, Trim <- Trimmed,
    Expand <- LAMBDA t : Trimmed(AliasText(t)),
    text <- Text, cursor <- CursorOf(gb), killed <- kill.text, remembered <- entered

KeysDoWhatTheySay == Line!LineSpec

\* No key sequence takes a pointer of the buffer out of the memory it has.
BufferStaysInMemory == InBounds(gb) /\ OutsideGap(gb)

\* The arrows walk from an entry that is still on the list, although the list
\* is changed by every line: cli_history_prev looks for its neighbours there.
ArrowsStartOnTheList == Alive /\ curr_hist # NULL => curr_hist \in Elements(hd_hist)

\* cli_hist_alloc never hands out an entry that is on the list, and no entry is
\* on a list twice.
EntriesAreInOnePlace ==
    LET all == hd_hist \o free_hist
    IN  \A i, j \in DOMAIN all : all[i] = all[j] => i = j

\* "Do not allow duplicate lines compared to the last line": also when the last
\* line was deleted for an alias, no two neighbours are the same.
NeighboursDiffer ==
    \A i \in 1 .. Len(hd_hist) - 1 : line[hd_hist[i]] # line[hd_hist[i + 1]]

\* "Delete the alias history line just added": the arrows show what an alias
\* stands for and never its name.
AliasesAreNotRemembered ==
    \A h \in Elements(hd_hist) : FirstWord(line[h]) # <<AliasWord>>

\* The history shows what was entered, once and not as an alias, and each of its
\* entries is in one place.
HistoryIsSound ==
    TypeOK /\ EntriesAreInOnePlace /\ NeighboursDiffer /\ AliasesAreNotRemembered
=============================================================================
