------------------------------ MODULE PacketDump ------------------------------
(***************************************************************************)
(* "set <portlist> dump <count>" for one port: the RX lcores copy the next *)
(* received packets into dump_list, the timer thread prints them and frees *)
(* the copies, and a command restarts the whole thing.  Nothing is locked. *)
(*                                                                         *)
(* A copy is a heap block with a number of its own; freeing a block that   *)
(* is not allocated, or printing one, is an error the C library does not   *)
(* forgive (corrupt).                                                      *)
(***************************************************************************)
EXTENDS Integers, Sequences, FiniteSets, SequencesExt

CONSTANTS
    Lcores,            \* the RX lcores of the port
    MAX_DUMP_PACKETS,
    Bursts,            \* numbers of packets one rx_burst returns
    Asked,             \* values given to "set dump"
    Quiet,             \* TRUE: commands come only while lcores and timer idle
    MaxPackets, MaxCommands \* bounds

NULL == 0
Slots == 0 .. MAX_DUMP_PACKETS - 1
Blocks == 1 .. MaxPackets   \* a block is named after the packet it copies
UInt8 == 0 .. 255

ASSUME DumpAssumption ==
    /\ MAX_DUMP_PACKETS \in 1 .. 255
    /\ Bursts \subseteq Nat \ {0}
    /\ Asked \subseteq Nat
    /\ Quiet \in BOOLEAN
    /\ MaxPackets \in Nat /\ MaxCommands \in Nat

VARIABLES
    dump_list,  \* dump_list[k]: the block in slot k, or NULL
    dump_head, dump_tail, dump_count,
    rx_pc,      \* rx_pc[c]: next step of lcore c
    burst,      \* burst[c]: packets of the burst that are still to be copied
    nb_dump,    \* nb_dump[c]: the local variable, set once per burst
    timer_pc, pdata, \* the timer thread and its pointer to the data printed
    cli_pc, cnt, \* the command and its argument
    heap,       \* allocated blocks
    corrupt,    \* a block was freed twice or used after it was freed
    packets, commands, \* counters for the bounds
    printed,    \* history: packets printed since the last command
    quota       \* history: packets the last command asked for

fields == <<dump_list, dump_head, dump_tail, dump_count>>
rx == <<rx_pc, burst, nb_dump>>
timer == <<timer_pc, pdata>>
cli == <<cli_pc, cnt, commands>>
dumping == <<fields, rx, timer, cli, heap, corrupt, packets, printed, quota>>

DumpTypeOK ==
    /\ dump_list \in [Slots -> Blocks \cup {NULL}]
    /\ dump_head \in UInt8 /\ dump_tail \in UInt8 /\ dump_count \in UInt8
    /\ rx_pc \in [Lcores -> {"poll", "dump", "advance", "count"}]
    /\ burst \in [Lcores -> Seq(Blocks)] /\ nb_dump \in [Lcores -> Nat]
    /\ timer_pc \in {"tick", "test", "print", "free", "clear", "advance"}
    /\ pdata \in Blocks \cup {NULL}
    /\ cli_pc \in {"idle", "tail", "head", "free", "count"} /\ cnt \in 0 .. MAX_DUMP_PACKETS
    /\ heap \subseteq Blocks /\ corrupt \in BOOLEAN
    /\ packets \in 0 .. MaxPackets /\ commands \in 0 .. MaxCommands
    /\ printed \in Seq(Blocks) /\ quota \in 0 .. MAX_DUMP_PACKETS

DumpInit ==
    /\ dump_list = [k \in Slots |-> NULL]
    /\ dump_head = 0 /\ dump_tail = 0 /\ dump_count = 0
    /\ rx_pc = [c \in Lcores |-> "poll"]
    /\ burst = [c \in Lcores |-> <<>>] /\ nb_dump = [c \in Lcores |-> 0]
    /\ timer_pc = "tick" /\ pdata = NULL
    /\ cli_pc = "idle" /\ cnt = 0
    /\ heap = {} /\ corrupt = FALSE
    /\ packets = 0 /\ commands = 0
    /\ printed = <<>> /\ quota = 0

\* rte_free(NULL) does nothing.
Free(b) ==
    /\ heap' = heap \ {b}
    /\ corrupt' = (corrupt \/ (b # NULL /\ b \notin heap))

Slot(k) == IF k \in Slots THEN dump_list[k] ELSE NULL

Least(S) == CHOOSE x \in S : \A y \in S : x <= y

-----------------------------------------------------------------------------
(***************************************************************************)
(* RX lcores: pktgen_packet_dump_bulk and pktgen_packet_dump.              *)
(***************************************************************************)

\* A burst was received while dump_count is not 0.
DumpBulk(c) ==
    /\ rx_pc[c] = "poll" /\ dump_count > 0
    /\ \E n \in Bursts :
        LET nb == Least({n, dump_count, MAX_DUMP_PACKETS - dump_tail}) IN
        /\ packets + n <= MaxPackets
        /\ packets' = packets + n
        /\ nb_dump' = [nb_dump EXCEPT ![c] = nb]
        /\ burst' = [burst EXCEPT ![c] = [k \in 1 .. nb |-> packets + k]]
        /\ rx_pc' = [rx_pc EXCEPT ![c] = IF nb = 0 THEN "poll" ELSE "dump"]
    /\ UNCHANGED <<fields, timer, cli, heap, corrupt, printed, quota>>

\* Free what is in the slot, allocate, copy the packet.  Beyond the array
\* there is no slot.
PacketDump(c) ==
    /\ rx_pc[c] = "dump"
    /\ LET old == Slot(dump_tail) IN
        /\ heap' = (heap \ {old}) \cup {Head(burst[c])}
        /\ corrupt' = (corrupt \/ dump_tail \notin Slots \/ (old # NULL /\ old \notin heap))
    /\ dump_list' = [dump_list EXCEPT ![dump_tail] = Head(burst[c])]
    /\ rx_pc' = [rx_pc EXCEPT ![c] = "advance"]
    /\ UNCHANGED <<dump_head, dump_tail, dump_count, burst, nb_dump, timer, cli, packets,
                   printed, quota>>

AdvanceTail(c) ==
    /\ rx_pc[c] = "advance"
    /\ dump_tail' = (dump_tail + 1) % 256
    /\ burst' = [burst EXCEPT ![c] = Tail(@)]
    /\ rx_pc' = [rx_pc EXCEPT ![c] = IF Len(burst[c]) > 1 THEN "dump" ELSE "count"]
    /\ UNCHANGED <<dump_list, dump_head, dump_count, nb_dump, timer, cli, heap, corrupt,
                   packets, printed, quota>>

\* dump_count is a uint8_t.
Count(c) ==
    /\ rx_pc[c] = "count"
    /\ dump_count' = (dump_count - nb_dump[c]) % 256
    /\ rx_pc' = [rx_pc EXCEPT ![c] = "poll"]
    /\ UNCHANGED <<dump_list, dump_head, dump_tail, burst, nb_dump, timer, cli, heap, corrupt,
                   packets, printed, quota>>

RxStep(c) ==
    DumpBulk(c) \/ PacketDump(c) \/ AdvanceTail(c) \/ Count(c)

(***************************************************************************)
(* The timer thread: pktgen_print_packet_dump.                             *)
(***************************************************************************)

\* pktgen_page_display calls it, unless the screen is paused.
BeginPrint ==
    /\ timer_pc = "tick" /\ timer_pc' = "test"
    /\ UNCHANGED <<fields, rx, pdata, cli, heap, corrupt, packets, printed, quota>>

TestHead ==
    /\ timer_pc = "test" /\ dump_head < dump_tail
    /\ pdata' = Slot(dump_head)
    /\ timer_pc' = "print"
    /\ UNCHANGED <<fields, rx, cli, heap, corrupt, packets, printed, quota>>

NothingToPrint ==
    /\ timer_pc = "test" /\ dump_head >= dump_tail
    /\ timer_pc' = "tick"
    /\ UNCHANGED <<fields, rx, pdata, cli, heap, corrupt, packets, printed, quota>>

PrintPacket ==
    /\ timer_pc = "print"
    /\ printed' = IF pdata = NULL THEN printed ELSE Append(printed, pdata)
    /\ corrupt' = (corrupt \/ pdata \notin heap)
    /\ timer_pc' = "free"
    /\ UNCHANGED <<fields, rx, pdata, cli, heap, packets, quota>>

\* Mutant: the newest copy is freed.
FreePrinted_Newest ==
    /\ timer_pc = "free"
    /\ Free(Slot(dump_tail - 1))
    /\ timer_pc' = "clear"
    /\ UNCHANGED <<fields, rx, pdata, cli, packets, printed, quota>>

\* Frees what the slot of dump_head holds now.
FreePrinted ==
    /\ timer_pc = "free"
    /\ Free(Slot(dump_head))
    /\ timer_pc' = "clear"
    /\ UNCHANGED <<fields, rx, pdata, cli, packets, printed, quota>>

ClearSlot ==
    /\ timer_pc = "clear"
    /\ dump_list' = [dump_list EXCEPT ![dump_head] = NULL]
    /\ timer_pc' = "advance"
    /\ UNCHANGED <<dump_head, dump_tail, dump_count, rx, pdata, cli, heap, corrupt, packets,
                   printed, quota>>

\* Mutant: dump_head stays.
AdvanceHead_Stays ==
    /\ timer_pc = "advance"
    /\ timer_pc' = "test"
    /\ UNCHANGED <<fields, rx, pdata, cli, heap, corrupt, packets, printed, quota>>

AdvanceHead ==
    /\ timer_pc = "advance"
    /\ dump_head' = (dump_head + 1) % 256
    /\ timer_pc' = "test"
    /\ UNCHANGED <<dump_list, dump_tail, dump_count, rx, pdata, cli, heap, corrupt, packets,
                   printed, quota>>

PrintStep == TestHead \/ NothingToPrint \/ PrintPacket \/ FreePrinted \/ ClearSlot \/ AdvanceHead

(***************************************************************************)
(* The command: debug_set_port_dump.                                       *)
(***************************************************************************)

MayCommand ==
    /\ commands < MaxCommands
    /\ Quiet => /\ timer_pc = "tick" /\ ~(dump_head < dump_tail)
                /\ \A c \in Lcores : rx_pc[c] = "poll"

\* dump_count = 0
SetDump(n) ==
    /\ cli_pc = "idle" /\ MayCommand
    /\ cnt' = Least({n, MAX_DUMP_PACKETS})
    /\ dump_count' = 0
    /\ cli_pc' = "tail"
    /\ commands' = commands + 1
    /\ printed' = <<>>
    /\ quota' = Least({n, MAX_DUMP_PACKETS})
    /\ UNCHANGED <<dump_list, dump_head, dump_tail, rx, timer, heap, corrupt, packets>>

ResetTail ==
    /\ cli_pc = "tail"
    /\ dump_tail' = 0
    /\ cli_pc' = "head"
    /\ UNCHANGED <<dump_list, dump_head, dump_count, rx, timer, cnt, commands, heap, corrupt,
                   packets, printed, quota>>

ResetHead ==
    /\ cli_pc = "head"
    /\ dump_head' = 0
    /\ cli_pc' = "free"
    /\ UNCHANGED <<dump_list, dump_tail, dump_count, rx, timer, cnt, commands, heap, corrupt,
                   packets, printed, quota>>

\* The loop looks at dump_list->data, which is slot 0, every time.
FreeSlots ==
    /\ cli_pc = "free"
    /\ Free(dump_list[0])
    /\ dump_list' = [dump_list EXCEPT ![0] = NULL]
    /\ cli_pc' = "count"
    /\ UNCHANGED <<dump_head, dump_tail, dump_count, rx, timer, cnt, commands, packets,
                   printed, quota>>

SetCount ==
    /\ cli_pc = "count"
    /\ dump_count' = cnt
    /\ cli_pc' = "idle"
    /\ UNCHANGED <<dump_list, dump_head, dump_tail, rx, timer, cnt, commands, heap, corrupt,
                   packets, printed, quota>>

DumpCommand == \E n \in Asked : SetDump(n)
DumpCommandStep == ResetTail \/ ResetHead \/ FreeSlots \/ SetCount

-----------------------------------------------------------------------------
(***************************************************************************)
(* Properties.                                                             *)
(***************************************************************************)

\* debug_set_port_dump, "Prevent concurrency issues by setting the fields in
\* this specific order": no copy is freed twice or printed after it was freed,
\* and no index leaves dump_list.
MemoryIsSafe == ~corrupt

\* A copy that is allocated can be reached, so that someone can free it: it is
\* in dump_list, or a lcore or the timer is on its way with it.
NothingLeaks == \A b \in heap : \E k \in Slots : dump_list[k] = b

\* Copies that wait to be printed are allocated and distinct.
WaitingAreAlive ==
    \A k \in Slots : dump_head < k /\ k < dump_tail =>
        /\ dump_list[k] \in heap
        /\ \A l \in Slots : l # k => dump_list[l] # dump_list[k]

\* "dump <value> - Dump the next 1-32 received packets": never more than were
\* asked for.
NoMoreThanAsked == Len(printed) <= quota

\* The packets are printed in the order of their arrival, none twice.
PrintedInOrder == \A j \in 2 .. Len(printed) : printed[j - 1] < printed[j]

\* The copies of dump_list, between the lcore that fills it and the timer that
\* empties it: types and indices, no use after free, no leak, no sharing; and
\* what is printed is what was copied, in order, once, and no more than asked.
CopiesArePrinted ==
    /\ DumpTypeOK /\ MemoryIsSafe /\ NothingLeaks /\ WaitingAreAlive
    /\ NoMoreThanAsked /\ PrintedInOrder
=============================================================================
