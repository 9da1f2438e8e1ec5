----------------------------- MODULE MessageLog -----------------------------
(***************************************************************************)
(* The message log: a ring that threads write under a lock, a file if one  *)
(* was named on the command line, and the page that shows the newest       *)
(* messages, which the timer thread draws without the lock.                *)
(*                                                                         *)
(* A message is its number and the lines it has once it is formatted.  One *)
(* slot of the ring stays empty, so that head = tail means that there is   *)
(* no message.                                                             *)
(***************************************************************************)
EXTENDS Integers, Sequences, FiniteSets, SequencesExt

CONSTANTS
    Loggers,         \* threads that log
    LOG_HISTORY,     \* slots of the ring
    MAX_PAGE_LINES,  \* lines of the page
    MessageLines,    \* lines a message may have
    MaxMessages,     \* bound
    MaxPerDraw       \* assumption: messages logged while the page is drawn

ASSUME LogAssumption ==
    /\ LOG_HISTORY \in Nat \ {0, 1} /\ MAX_PAGE_LINES \in Nat \ {0}
    /\ MessageLines \subseteq Nat \ {0} /\ MaxMessages \in Nat /\ MaxPerDraw \in Nat \ {0}
    \* 28 lines of 64 messages: a drawing is done before the ring comes around.
    /\ MAX_PAGE_LINES + MaxPerDraw < LOG_HISTORY

VARIABLES
    ring,            \* log_history.msg
    log_head, log_tail, need_refresh,
    lock,            \* who holds log_history.lock, as a set
    log_pc,          \* per logger: its next step
    log_file,        \* there is a file
    file,            \* what is in it
    page_pc, curr_msg, \* the timer thread in pktgen_page_log
    lines,           \* what it has read, newest first
    page,            \* what the page shows, oldest first
    logged,          \* counter for the bound: messages so far
    \* History:
    wanted,          \* the last message when log_head was read
    met              \* messages logged while the page was drawn

log == <<ring, log_head, log_tail, need_refresh, lock, log_pc, log_file, file, page_pc, curr_msg,
         lines, page, logged, wanted, met>>

\* A slot whose strings are freed and being written.
Torn == [id |-> 0, lines |-> 1]

LogInit ==
    /\ ring = [k \in 0 .. LOG_HISTORY - 1 |-> Torn]
    /\ log_head = 0 /\ log_tail = 0 /\ need_refresh = FALSE
    /\ lock = {} /\ log_pc = [l \in Loggers |-> "idle"]
    /\ log_file \in BOOLEAN /\ file = <<>>
    /\ page_pc = "idle" /\ curr_msg = 0 /\ lines = <<>> /\ page = <<>>
    /\ logged = 0 /\ wanted = 0 /\ met = 0

After(k) == (k + 1) % LOG_HISTORY
Before(k) == (k + LOG_HISTORY - 1) % LOG_HISTORY
OutputLines(read) == SumFunction([k \in DOMAIN read |-> read[k].lines])

-----------------------------------------------------------------------------
(***************************************************************************)
(* pktgen_log.                                                             *)
(***************************************************************************)
reader == <<page_pc, curr_msg, lines, page, wanted>>
LogAt(l, pc) == log_pc[l] = pc
LogGoto(l, pc) == log_pc' = [log_pc EXCEPT ![l] = pc]

\* The lock is taken, and the strings of the slot are freed.
OpenSlot(l) ==
    /\ LogAt(l, "idle") /\ lock = {} /\ logged < MaxMessages
    /\ page_pc # "idle" => met < MaxPerDraw
    /\ lock' = {l} /\ logged' = logged + 1 /\ met' = IF page_pc = "idle" THEN met ELSE met + 1
    /\ ring' = [ring EXCEPT ![log_head] = Torn]
    /\ LogGoto(l, "write")
    /\ UNCHANGED <<log_head, log_tail, need_refresh, log_file, file, reader>>

WriteSlot(l) ==
    /\ LogAt(l, "write")
    /\ \E n \in MessageLines : ring' = [ring EXCEPT ![log_head] = [id |-> logged, lines |-> n]]
    /\ LogGoto(l, "head")
    /\ UNCHANGED <<log_head, log_tail, need_refresh, lock, log_file, file, logged, met, reader>>

LogHead(l) ==
    /\ LogAt(l, "head")
    /\ log_head' = After(log_head)
    /\ LogGoto(l, "tail")
    /\ UNCHANGED <<ring, log_tail, need_refresh, lock, log_file, file, logged, met, reader>>

LogTail(l) ==
    /\ LogAt(l, "tail")
    /\ log_tail' = IF log_head = log_tail THEN After(log_tail) ELSE log_tail
    /\ LogGoto(l, "file")
    /\ UNCHANGED <<ring, log_head, need_refresh, lock, log_file, file, logged, met, reader>>

LogToFile(l) ==
    /\ LogAt(l, "file")
    /\ file' = IF log_file THEN Append(file, ring[Before(log_head)].id) ELSE file
    /\ LogGoto(l, "refresh")
    /\ UNCHANGED <<ring, log_head, log_tail, need_refresh, lock, log_file, logged, met, reader>>

AskForRefresh(l) ==
    /\ LogAt(l, "refresh")
    /\ need_refresh' = TRUE /\ lock' = {}
    /\ LogGoto(l, "idle")
    /\ UNCHANGED <<ring, log_head, log_tail, log_file, file, logged, met, reader>>

LogStep(l) ==
    WriteSlot(l) \/ LogHead(l) \/ LogTail(l) \/ LogToFile(l) \/ AskForRefresh(l)

-----------------------------------------------------------------------------
(***************************************************************************)
(* pktgen_page_log.                                                        *)
(***************************************************************************)
writer == <<ring, log_head, log_tail, lock, log_pc, log_file, file, logged>>

BeginPage ==
    /\ page_pc = "idle"
    /\ \E labels \in BOOLEAN : labels \/ need_refresh
    /\ page_pc' = "read" /\ curr_msg' = log_head /\ lines' = <<>>
    /\ met' = Cardinality(lock) \* a message under way counts
    /\ wanted' = ring[Before(log_head)].id
    /\ UNCHANGED <<writer, need_refresh, page>>

\* The walk looks at log_tail each time.
ReadMessage ==
    /\ page_pc = "read" /\ curr_msg # log_tail /\ OutputLines(lines) < MAX_PAGE_LINES
    /\ curr_msg' = Before(curr_msg)
    /\ lines' = Append(lines, ring[Before(curr_msg)])
    /\ UNCHANGED <<writer, need_refresh, page_pc, page, wanted, met>>

PrintLines ==
    /\ page_pc = "read" /\ (curr_msg = log_tail \/ OutputLines(lines) >= MAX_PAGE_LINES)
    /\ page' = Reverse(lines) /\ lines' = <<>>
    /\ page_pc' = "refreshed"
    /\ UNCHANGED <<writer, need_refresh, curr_msg, wanted, met>>

EndPage ==
    /\ page_pc = "refreshed"
    /\ need_refresh' = FALSE /\ page_pc' = "idle"
    /\ UNCHANGED <<writer, curr_msg, lines, page, wanted, met>>

PageLogStep == ReadMessage \/ PrintLines \/ EndPage

-----------------------------------------------------------------------------
\* The page ends with the message n, is without a gap, and is not shorter than
\* it must be.
Shows(n) ==
    /\ \A k \in DOMAIN page : page[k].id = n - Len(page) + k
    /\ Len(page) < n => OutputLines(page) >= MAX_PAGE_LINES \/ Len(page) = LOG_HISTORY - 1
    /\ page # <<>> => OutputLines(Tail(page)) < MAX_PAGE_LINES

Held == IF lock = {} THEN logged ELSE logged - 1

\* "log page doesn't contain the latest messages" of need_refresh, and the lock
\* of the ring: the page shows the newest messages there were when its drawing
\* began, none of them torn, or nothing if that was in the middle of a message;
\* and while it is not to be drawn again the newest there are, unless one was
\* logged during the drawing.  The file has all, in order.
LogIsKept ==
    /\ page_pc = "refreshed" => Shows(wanted) \/ (page = <<>> /\ met > 0)
    /\ page_pc = "idle" /\ ~need_refresh /\ met = 0 => Shows(Held)
    /\ lock = {} => file = IF log_file THEN [k \in 1 .. logged |-> k] ELSE <<>>
=============================================================================
