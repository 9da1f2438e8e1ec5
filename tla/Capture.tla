------------------------------- MODULE Capture -------------------------------
(***************************************************************************)
(* "enable|disable <portlist> capture".  There is one capture buffer per   *)
(* NUMA socket.  An RX lcore appends the packets of a port that has        *)
(* CAPTURE_PKTS set to the buffer of its own socket, if that buffer is     *)
(* assigned to the port; disabling the capture writes the buffer to a file.*)
(*                                                                         *)
(* A buffer has CapLen units; a header takes one unit and a packet as many *)
(* as its size.  The cell of a header holds the packet, 0 is the header    *)
(* with pkt_len 0 that ends the records, -1 is anything else.              *)
(***************************************************************************)
EXTENDS Integers, Sequences, FiniteSets, SequencesExt

CONSTANTS
    Ports, Sockets,
    Lcores,           \* lcores that are mapped to a port, 1 .. n
    RxLcores,         \* those that receive
    PortOf, SocketOf, \* port and socket of every lcore
    CapLen,           \* length of a buffer
    Sizes,            \* packet sizes
    Burst,            \* largest number of packets per burst
    Settled,          \* TRUE: a capture is enabled only while all lcores rest
    MaxPackets, MaxCommands \* bounds

NoPort == "RTE_MAX_ETHPORTS"
NoSocket == "RTE_MAX_NUMA_NODES"
Cells == 0 .. CapLen - 1
End == CapLen - 1   \* cap->end: just before the last header
Packets == [id : 1 .. MaxPackets, size : Sizes]
Contents == Packets \cup {[id |-> 0, size |-> 0], [id |-> -1, size |-> 0]}
Sentinel == [id |-> 0, size |-> 0]
Junk == [id |-> -1, size |-> 0]

ASSUME CaptureAssumption ==
    /\ Lcores \subseteq Nat /\ RxLcores \subseteq Lcores
    /\ PortOf \in [Lcores -> Ports] /\ SocketOf \in [Lcores -> Sockets]
    /\ Ports # {} /\ Sockets # {} /\ NoPort \notin Ports /\ NoSocket \notin Sockets
    /\ \A p \in Ports : \E c \in Lcores : PortOf[c] = p
    /\ CapLen \in Nat \ {0} /\ Sizes \subseteq Nat \ {0} /\ Burst \in Nat \ {0}
    /\ Settled \in BOOLEAN
    /\ MaxPackets \in Nat /\ MaxCommands \in Nat

VARIABLES
    capturing, \* the ports with CAPTURE_PKTS set
    port, used, nb_pkts, tail, \* the fields of pktgen.capture[sid]
    mem,       \* mem[sid]: the memzone of the buffer
    rx_pc, pkts, \* RX lcores: next step, packets of the burst still to do
    cli_pc, cli_port, sid, \* the command, its port and the socket it works on
    hdr, i,    \* its pointer into the buffer and record counter
    file,      \* the packets written to the capture file
    crashed,   \* the program has died of a division by zero
    packets, commands, \* counters for the bounds
    \* History, read by no step:
    starts,    \* starts[s]: where the records in the buffer begin
    taken,     \* taken[p]: packets captured on p since it was enabled
    need       \* how many of them before the disable

cap == <<port, used, nb_pkts, tail, mem>>
rx == <<rx_pc, pkts, packets>>
cli == <<cli_pc, cli_port, sid, hdr, i, file, crashed, commands>>
vars == <<capturing, cap, rx, cli, starts, taken, need>>

TypeOK ==
    /\ capturing \subseteq Ports
    /\ port \in [Sockets -> Ports \cup {NoPort}]
    /\ used \in [Sockets -> Nat] /\ nb_pkts \in [Sockets -> 0 .. MaxPackets]
    /\ tail \in [Sockets -> 0 .. End]
    /\ mem \in [Sockets -> [Cells -> Contents]]
    /\ rx_pc \in [RxLcores -> {"poll", "write", "advance", "count"}]
    /\ pkts \in [RxLcores -> Seq(Packets)]
    /\ cli_pc \in {"idle", "en_tail", "en_flag", "find", "dump", "reset", "dis_flag"}
    /\ cli_port \in Ports /\ sid \in Sockets
    /\ hdr \in Nat /\ i \in Nat /\ file \in Seq(-1 .. MaxPackets) /\ crashed \in BOOLEAN
    /\ packets \in 0 .. MaxPackets /\ commands \in 0 .. MaxCommands
    /\ starts \in [Sockets -> Seq(Cells)]
    /\ taken \in [Ports -> Seq(1 .. MaxPackets)] /\ need \in Nat

\* pktgen_packet_capture_init
Init ==
    /\ capturing = {}
    /\ port = [s \in Sockets |-> NoPort]
    /\ used = [s \in Sockets |-> 0] /\ nb_pkts = [s \in Sockets |-> 0]
    /\ tail = [s \in Sockets |-> 0]
    /\ mem = [s \in Sockets |-> [k \in Cells |-> Sentinel]]
    /\ rx_pc = [c \in RxLcores |-> "poll"] /\ pkts = [c \in RxLcores |-> <<>>]
    /\ packets = 0
    /\ cli_pc = "idle" /\ cli_port = CHOOSE p \in Ports : TRUE
    /\ sid = CHOOSE s \in Sockets : TRUE
    /\ hdr = 0 /\ i = 0 /\ file = <<>> /\ crashed = FALSE /\ commands = 0
    /\ starts = [s \in Sockets |-> <<>>]
    /\ taken = [p \in Ports |-> <<>>] /\ need = 0

-----------------------------------------------------------------------------
(***************************************************************************)
(* RX lcores: pktgen_main_receive and pktgen_packet_capture_bulk.          *)
(***************************************************************************)

\* A burst is received on a port that captures, and the buffer of the lcore's
\* socket belongs to the port and is not full.
CaptureBulk(c) ==
    LET s == SocketOf[c] IN
    /\ rx_pc[c] = "poll"
    /\ PortOf[c] \in capturing /\ port[s] = PortOf[c]
    /\ tail[s] < End
    /\ \E n \in 1 .. Burst :
        /\ packets + n <= MaxPackets
        /\ \E f \in [1 .. n -> Sizes] :
            pkts' = [pkts EXCEPT ![c] = [k \in 1 .. n |-> [id |-> packets + k, size |-> f[k]]]]
        /\ packets' = packets + n
    /\ rx_pc' = [rx_pc EXCEPT ![c] = "write"]
    /\ UNCHANGED <<capturing, cap, cli, starts, taken, need>>

Fits(s, pkt) == tail[s] + 1 + pkt.size <= End

\* A header and a packet are written at tail.
Store(m, at, pkt) ==
    [k \in Cells |-> IF k = at THEN pkt ELSE IF at < k /\ k <= at + pkt.size THEN Junk ELSE m[k]]

WriteRecord(c) ==
    LET s == SocketOf[c] IN
    /\ rx_pc[c] = "write"
    /\ pkts[c] # <<>> /\ Fits(s, Head(pkts[c]))
    /\ mem' = [mem EXCEPT ![s] = Store(@, tail[s], Head(pkts[c]))]
    /\ rx_pc' = [rx_pc EXCEPT ![c] = "advance"]
    /\ UNCHANGED <<capturing, port, used, nb_pkts, tail, pkts, packets, cli, starts, taken, need>>

\* Mutant: the header is not stepped over.
AdvanceTail_NoHeader(c) ==
    LET s == SocketOf[c] IN
    /\ rx_pc[c] = "advance"
    /\ tail' = [tail EXCEPT ![s] = @ + Head(pkts[c]).size]
    /\ starts' = [starts EXCEPT ![s] = Append(@, tail[s])]
    /\ rx_pc' = [rx_pc EXCEPT ![c] = "count"]
    /\ UNCHANGED <<capturing, port, used, nb_pkts, mem, pkts, packets, cli, taken, need>>

AdvanceTail(c) ==
    LET s == SocketOf[c] IN
    /\ rx_pc[c] = "advance"
    /\ tail' = [tail EXCEPT ![s] = @ + 1 + Head(pkts[c]).size]
    /\ starts' = [starts EXCEPT ![s] = Append(@, tail[s])]
    /\ rx_pc' = [rx_pc EXCEPT ![c] = "count"]
    /\ UNCHANGED <<capturing, port, used, nb_pkts, mem, pkts, packets, cli, taken, need>>

CountRecord(c) ==
    LET s == SocketOf[c] IN
    /\ rx_pc[c] = "count"
    /\ nb_pkts' = [nb_pkts EXCEPT ![s] = @ + 1]
    /\ taken' = [taken EXCEPT ![PortOf[c]] = Append(@, Head(pkts[c]).id)]
    /\ pkts' = [pkts EXCEPT ![c] = Tail(@)]
    /\ rx_pc' = [rx_pc EXCEPT ![c] = "write"]
    /\ UNCHANGED <<capturing, port, used, tail, mem, packets, cli, starts, need>>

\* After the burst, or at the first packet that does not fit: the rest of the
\* burst is dropped and the records are closed.
EndOfBurst(c) ==
    LET s == SocketOf[c] IN
    /\ rx_pc[c] = "write"
    /\ pkts[c] # <<>> => ~Fits(s, Head(pkts[c]))
    /\ mem' = [mem EXCEPT ![s][tail[s]] = Sentinel]
    /\ used' = [used EXCEPT ![s] = tail[s]]
    /\ pkts' = [pkts EXCEPT ![c] = <<>>]
    /\ rx_pc' = [rx_pc EXCEPT ![c] = "poll"]
    /\ UNCHANGED <<capturing, port, nb_pkts, tail, packets, cli, starts, taken, need>>

RxStep(c) ==
    CaptureBulk(c) \/ WriteRecord(c) \/ AdvanceTail(c) \/ CountRecord(c) \/ EndOfBurst(c)

(***************************************************************************)
(* The command: pktgen_set_capture.                                        *)
(***************************************************************************)

\* l2p_get_lcore_by_pid: the first lcore of the port, whatever it does
FirstLcore(p) == CHOOSE c \in Lcores :
    PortOf[c] = p /\ \A d \in Lcores : PortOf[d] = p => c <= d

Command(p) ==
    /\ cli_pc = "idle" /\ commands < MaxCommands
    /\ commands' = commands + 1
    /\ cli_port' = p

\* Mutant: the count of the last capture is kept.
Enable_KeepsCount(p) ==
    LET s == SocketOf[FirstLcore(p)] IN
    /\ Command(p)
    /\ p \notin capturing
    /\ Settled => \A c \in RxLcores : rx_pc[c] = "poll"
    /\ sid' = s
    /\ used' = [used EXCEPT ![s] = 0] /\ port' = [port EXCEPT ![s] = p]
    /\ starts' = [starts EXCEPT ![s] = <<>>]
    /\ taken' = [taken EXCEPT ![p] = <<>>]
    /\ cli_pc' = "en_tail"
    /\ UNCHANGED <<capturing, nb_pkts, tail, mem, rx, hdr, i, file, crashed, need>>

Enable(p) ==
    LET s == SocketOf[FirstLcore(p)] IN
    /\ Command(p)
    /\ p \notin capturing
    /\ Settled => \A c \in RxLcores : rx_pc[c] = "poll"
    /\ sid' = s
    /\ used' = [used EXCEPT ![s] = 0] /\ port' = [port EXCEPT ![s] = p]
    /\ nb_pkts' = [nb_pkts EXCEPT ![s] = 0]
    /\ starts' = [starts EXCEPT ![s] = <<>>]
    /\ taken' = [taken EXCEPT ![p] = <<>>]
    /\ cli_pc' = "en_tail"
    /\ UNCHANGED <<capturing, tail, mem, rx, hdr, i, file, crashed, need>>

EnableTail ==
    /\ cli_pc = "en_tail"
    /\ tail' = [tail EXCEPT ![sid] = 0]
    /\ mem' = [mem EXCEPT ![sid][0] = Sentinel, ![sid][End] = Sentinel]
    /\ cli_pc' = "en_flag"
    /\ UNCHANGED <<capturing, port, used, nb_pkts, rx, cli_port, sid, hdr, i, file, crashed, commands,
                   starts, taken, need>>

EnableFlag ==
    /\ cli_pc = "en_flag"
    /\ capturing' = capturing \cup {cli_port}
    /\ cli_pc' = "idle"
    /\ UNCHANGED <<cap, rx, cli_port, sid, hdr, i, file, crashed, commands, starts, taken, need>>

\* The socket is looked up; not finding it "should never happen".
Disable(p) ==
    LET found == {s \in Sockets : port[s] = p} IN
    /\ Command(p)
    /\ p \in capturing
    /\ need' = Len(taken[p])
    /\ cli_pc' = IF found = {} THEN "idle" ELSE "dump"
    /\ \E s \in (IF found = {} THEN {sid} ELSE found) : sid' = s
    /\ hdr' = 0 /\ i' = 0 /\ file' = <<>>
    /\ UNCHANGED <<capturing, cap, rx, crashed, starts, taken>>

\* The part that is written is divided by used for the percentage.  Division by
\* zero is undefined: the program is killed (x86) or goes on (ARM).
Percentage(s) == crashed' \in (IF used[s] = 0 THEN BOOLEAN ELSE {FALSE})

\* One round of the loop; nb_pkts is read every time.
DumpRecord ==
    /\ cli_pc = "dump"
    /\ i < nb_pkts[sid] /\ hdr \in Cells /\ mem[sid][hdr].id # 0
    /\ file' = Append(file, mem[sid][hdr].id)
    /\ hdr' = hdr + 1 + mem[sid][hdr].size
    /\ i' = i + 1
    /\ Percentage(sid)
    /\ UNCHANGED <<capturing, cap, rx, cli_pc, cli_port, sid, commands, starts, taken, need>>

DumpDone ==
    /\ cli_pc = "dump"
    /\ \/ i >= nb_pkts[sid]
       \/ hdr \notin Cells
       \/ hdr \in Cells /\ mem[sid][hdr].id = 0
    /\ cli_pc' = "reset"
    /\ UNCHANGED <<capturing, cap, rx, cli_port, sid, hdr, i, file, crashed, commands, starts,
                   taken, need>>

DisableReset ==
    /\ cli_pc = "reset"
    /\ used' = [used EXCEPT ![sid] = 0] /\ tail' = [tail EXCEPT ![sid] = 0]
    /\ port' = [port EXCEPT ![sid] = NoPort]
    /\ cli_pc' = "dis_flag"
    /\ UNCHANGED <<capturing, nb_pkts, mem, rx, cli_port, sid, hdr, i, file, crashed, commands, starts,
                   taken, need>>

DisableFlag ==
    /\ cli_pc = "dis_flag"
    /\ capturing' = capturing \ {cli_port}
    /\ cli_pc' = "idle"
    /\ UNCHANGED <<cap, rx, cli_port, sid, hdr, i, file, crashed, commands, starts, taken, need>>

Next ==
    /\ ~crashed
    /\ \/ \E c \in RxLcores : RxStep(c)
       \/ \E p \in Ports : Enable(p) \/ Disable(p)
       \/ EnableTail \/ EnableFlag \/ DumpRecord \/ DumpDone \/ DisableReset \/ DisableFlag

Spec == Init /\ [][Next]_vars

-----------------------------------------------------------------------------
(***************************************************************************)
(* Properties.                                                             *)
(***************************************************************************)

\* No burst has been finished in the buffer since it was enabled, and one is
\* being written.
InFirstBurst(s) == used[s] = 0 /\ \E c \in RxLcores : SocketOf[c] = s /\ rx_pc[c] # "poll"

\* commands.rst, "disable to save capture": the file holds what was captured,
\* in order, and at least everything that was there when disable was given.
\* Saving kills the program only in one case, a disable that is given while the
\* first burst after enable is being written: its packets are counted in nb_pkts
\* one by one, and used is set at its end, pktgen-capture.c:287 and :292.
SavedIsCaptured ==
    /\ cli_pc = "reset" => IsPrefix(file, taken[cli_port]) /\ Len(file) >= need
    /\ crashed => InFirstBurst(sid)

\* Where the k-th record begins; the one after the last would begin at tail.
Bound(s, k) == IF k <= Len(starts[s]) THEN starts[s][k] ELSE tail[s]

\* From its start to its tail the buffer is one record after the other.
Chained(s) ==
    /\ Bound(s, 1) = 0
    /\ \A k \in 1 .. Len(starts[s]) :
        /\ starts[s][k] < tail[s]
        /\ mem[s][starts[s][k]].id > 0
        /\ Bound(s, k + 1) = starts[s][k] + 1 + mem[s][starts[s][k]].size

\* The records of a buffer can be walked from its start to its tail, and they are
\* as many as it counts: whatever an enabled capture holds can be written to a
\* file.
RecordsAreLinked ==
    \A c \in RxLcores :
        LET s == SocketOf[c] IN
        rx_pc[c] = "poll" /\ PortOf[c] \in capturing /\ port[s] = PortOf[c] =>
            Len(starts[s]) = nb_pkts[s] /\ Chained(s)

\* pktgen_set_capture, "make sure only 1 port per socket is in capture mode".
OnePortPerSocket ==
    \A p, q \in capturing :
        SocketOf[FirstLcore(p)] = SocketOf[FirstLcore(q)] => p = q

\* pktgen_set_capture, "Find an lcore that can capture packets for the
\* requested port": a port in capture mode has a buffer and an RX lcore that
\* fills it.
EnabledIsCaptured ==
    cli_pc = "idle" => \A p \in capturing :
        \E c \in RxLcores : PortOf[c] = p /\ port[SocketOf[c]] = p

\* A buffer that is being filled is a chain of whole records up to its tail, and
\* ports in capture mode and socket buffers belong to each other.
BufferIsSound == TypeOK /\ RecordsAreLinked /\ OnePortPerSocket /\ EnabledIsCaptured

\* What both need of the machine: a socket has lcores of one port, one of them
\* receives, and the first lcore of a port is on the socket of one that does.
SocketsAreSeparate ==
    /\ \A c, d \in Lcores : SocketOf[c] = SocketOf[d] => PortOf[c] = PortOf[d]
    /\ \A c, d \in RxLcores : SocketOf[c] = SocketOf[d] => c = d
    /\ \A p \in Ports : \E c \in RxLcores : PortOf[c] = p /\ SocketOf[c] = SocketOf[FirstLcore(p)]
=============================================================================
