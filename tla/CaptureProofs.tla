--------------------------- MODULE CaptureProofs ---------------------------
(***************************************************************************)
(* Proofs about Capture: on a machine whose sockets are separate, and with *)
(* captures that are enabled while the lcores rest, the buffers are sound  *)
(* and the file is what was captured.                                      *)
(***************************************************************************)
EXTENDS Capture, TLAPS

Home(p) == SocketOf[FirstLcore(p)]

\* What is counted, and what is still to be counted, has been received; a record
\* that is written has room, also in a buffer that is reset at the same time.
Room ==
    /\ \A s \in Sockets : nb_pkts[s] <= packets
    /\ \A c \in RxLcores :
        /\ nb_pkts[SocketOf[c]] + Len(pkts[c]) <= packets
        /\ rx_pc[c] \in {"advance", "count"} => pkts[c] # <<>>
        /\ rx_pc[c] = "advance" => Fits(SocketOf[c], Head(pkts[c]))

\* A buffer is the one at home of its port; lcores of other sockets never work
\* on it; a port is enabled with its lcores at rest.
Places ==
    /\ \A s \in Sockets : port[s] # NoPort => s = Home(port[s])
    /\ \A c \in RxLcores : rx_pc[c] # "poll" => SocketOf[c] = Home(PortOf[c])
    /\ \A p \in capturing : (cli_pc = "dis_flag" /\ cli_port = p) \/ port[Home(p)] = p
    /\ cli_pc \in {"en_tail", "en_flag"} =>
        /\ cli_port \notin capturing
        /\ \A c \in RxLcores : PortOf[c] = cli_port => rx_pc[c] = "poll"
    /\ cli_pc \in {"en_tail", "en_flag", "dump", "reset"} => port[sid] = cli_port
    /\ cli_pc = "en_tail" =>
        starts[sid] = <<>> /\ nb_pkts[sid] = 0 /\ used[sid] = 0 /\ taken[cli_port] = <<>>

\* The buffer of c's socket is in use for c's port.
Live(c) == port[SocketOf[c]] = PortOf[c] /\ ~(cli_pc = "en_tail" /\ sid = SocketOf[c])

\* The records are what was taken, and the one that is being written.
Kept(c) ==
    LET s == SocketOf[c]
        seq == taken[PortOf[c]]
    IN  /\ Chained(s)
        /\ nb_pkts[s] = Len(seq)
        /\ Len(starts[s]) = IF rx_pc[c] = "count" THEN Len(seq) + 1 ELSE Len(seq)
        /\ \A k \in 1 .. Len(seq) : mem[s][starts[s][k]].id = seq[k]
        /\ rx_pc[c] = "count" => mem[s][starts[s][Len(seq) + 1]].id = Head(pkts[c]).id
        /\ rx_pc[c] = "advance" => mem[s][tail[s]] = Head(pkts[c])
        /\ rx_pc[c] = "poll" => used[s] = tail[s]

Records == \A c \in RxLcores : Live(c) => Kept(c)

\* The file is as much of what was taken as the walk has passed.
Copied ==
    cli_pc \in {"dump", "reset"} =>
        /\ Len(file) = i /\ i <= Len(taken[cli_port]) /\ need <= Len(taken[cli_port])
        /\ \A k \in 1 .. i : file[k] = taken[cli_port][k]
        /\ cli_pc = "dump" => hdr = Bound(sid, i + 1)
        /\ cli_pc = "reset" => need <= i

\* Saving kills the program only during the first burst.
Deaths == crashed => InFirstBurst(sid)

IInv == TypeOK /\ Room /\ Places /\ Records /\ Copied /\ Deaths

-----------------------------------------------------------------------------
(***************************************************************************)
(* Places and buffers.                                                     *)
(***************************************************************************)

LEMMA Lengths == End \in Nat /\ Cells = 0 .. End /\ 0 \in Cells /\ End \in Cells
  BY CaptureAssumption DEF CaptureAssumption, End, Cells

\* A port has a home with a lcore of its own that receives, and no other port.
LEMMA Homes ==
  ASSUME SocketsAreSeparate
  PROVE  /\ \A p \in Ports :
              /\ Home(p) \in Sockets
              /\ \E c \in RxLcores : PortOf[c] = p /\ SocketOf[c] = Home(p)
         /\ \A p, q \in Ports : Home(p) = Home(q) => p = q
  BY CaptureAssumption DEF CaptureAssumption, SocketsAreSeparate, Home

\* What the constants of a lcore are.
LEMMA LcoreTypes ==
  ASSUME NEW c \in RxLcores
  PROVE  c \in Lcores /\ PortOf[c] \in Ports /\ SocketOf[c] \in Sockets
  BY CaptureAssumption DEF CaptureAssumption

\* Writing a record leaves what is before it alone.
LEMMA Stored ==
  ASSUME NEW m \in [Cells -> Contents], NEW at \in Cells, NEW pkt \in Packets
  PROVE  /\ Store(m, at, pkt) \in [Cells -> Contents]
         /\ Store(m, at, pkt)[at] = pkt
         /\ \A k \in Cells : k < at => Store(m, at, pkt)[k] = m[k]
  BY Lengths DEF Store, Contents, Junk, Cells

LEMMA PacketTypes ==
  ASSUME NEW pkt \in Packets
  PROVE  pkt.id \in 1 .. MaxPackets /\ pkt.size \in Nat \ {0} /\ pkt \in Contents
  BY CaptureAssumption DEF CaptureAssumption, Packets, Contents

\* A cell is a header, or is not.
LEMMA CellTypes ==
  ASSUME NEW x \in Contents
  PROVE  /\ x.id \in -1 .. MaxPackets /\ x.size \in Nat
         /\ Sentinel \in Contents /\ Junk \in Contents
  BY PacketTypes, CaptureAssumption DEF Contents, Sentinel, Junk, CaptureAssumption

-----------------------------------------------------------------------------
(***************************************************************************)
(* Types.                                                                  *)
(***************************************************************************)

LEMMA TypeInit == Init => TypeOK
  <1> SUFFICES ASSUME Init PROVE TypeOK
    OBVIOUS
  <1>1. Sentinel \in Contents
    BY DEF Sentinel, Contents
  <1>2. cli_port \in Ports /\ sid \in Sockets
    BY CaptureAssumption DEF Init, CaptureAssumption
  <1>3. /\ capturing \subseteq Ports /\ port \in [Sockets -> Ports \cup {NoPort}]
        /\ used \in [Sockets -> Nat] /\ tail \in [Sockets -> 0 .. End]
        /\ mem \in [Sockets -> [Cells -> Contents]]
    BY <1>1, Lengths DEF Init
  <1>4. /\ nb_pkts \in [Sockets -> 0 .. MaxPackets]
        /\ packets \in 0 .. MaxPackets /\ commands \in 0 .. MaxCommands
    BY CaptureAssumption DEF Init, CaptureAssumption
  <1>5. /\ rx_pc \in [RxLcores -> {"poll", "write", "advance", "count"}]
        /\ pkts \in [RxLcores -> Seq(Packets)] /\ starts \in [Sockets -> Seq(Cells)]
        /\ taken \in [Ports -> Seq(1 .. MaxPackets)]
    BY DEF Init
  <1>6. /\ cli_pc = "idle" /\ hdr \in Nat /\ i \in Nat /\ need \in Nat
        /\ file \in Seq(-1 .. MaxPackets)
    BY DEF Init
  <1>7. crashed \in BOOLEAN
    BY Zenon DEF Init
  <1> QED
    BY <1>2, <1>3, <1>4, <1>5, <1>6, <1>7 DEF TypeOK

\* Every packet of a burst is one.
LEMMA BurstTypes ==
  ASSUME TypeOK, NEW n \in 1 .. Burst, packets + n <= MaxPackets, NEW f \in [1 .. n -> Sizes]
  PROVE  /\ [k \in 1 .. n |-> [id |-> packets + k, size |-> f[k]]] \in Seq(Packets)
         /\ Len([k \in 1 .. n |-> [id |-> packets + k, size |-> f[k]]]) = n
  <1>1. \A k \in 1 .. n : [id |-> packets + k, size |-> f[k]] \in Packets
    <2> TAKE k \in 1 .. n
    <2>1. n \in Nat /\ packets \in Nat /\ MaxPackets \in Nat
      BY CaptureAssumption DEF CaptureAssumption, TypeOK
    <2>2. packets + k \in 1 .. MaxPackets /\ f[k] \in Sizes
      BY <2>1
    <2> QED
      BY <2>2 DEF Packets
  <1>2. n \in Nat
    BY CaptureAssumption DEF CaptureAssumption
  <1> QED
    BY <1>1, <1>2

LEMMA RxTypes ==
  ASSUME TypeOK, Room, NEW c \in RxLcores, RxStep(c)
  PROVE  TypeOK'
  <1> DEFINE s == SocketOf[c]
  <1>1. c \in Lcores /\ PortOf[c] \in Ports /\ s \in Sockets
    BY LcoreTypes
  <1>2. CASE CaptureBulk(c)
    <2>1. PICK n \in 1 .. Burst : \E f \in [1 .. n -> Sizes] :
              /\ packets + n <= MaxPackets /\ packets' = packets + n
              /\ pkts' = [pkts EXCEPT ![c] = [k \in 1 .. n |-> [id |-> packets + k, size |-> f[k]]]]
      BY <1>2 DEF CaptureBulk
    <2>2. pkts' \in [RxLcores -> Seq(Packets)]
      <3>1. PICK f \in [1 .. n -> Sizes] :
                /\ packets + n <= MaxPackets
                /\ pkts' = [pkts EXCEPT ![c] = [k \in 1 .. n |-> [id |-> packets + k, size |-> f[k]]]]
        BY <2>1
      <3>2. [k \in 1 .. n |-> [id |-> packets + k, size |-> f[k]]] \in Seq(Packets)
        BY <3>1, BurstTypes
      <3> QED
        BY <3>1, <3>2 DEF TypeOK
    <2>3. packets' \in 0 .. MaxPackets
      BY <2>1, CaptureAssumption DEF TypeOK, CaptureAssumption
    <2>4. rx_pc' \in [RxLcores -> {"poll", "write", "advance", "count"}]
      BY <1>2 DEF CaptureBulk, TypeOK
    <2> QED
      BY <1>2, <2>2, <2>3, <2>4 DEF CaptureBulk, TypeOK, cap, cli
  <1>3. CASE WriteRecord(c)
    <2>1. tail[s] \in Cells /\ Head(pkts[c]) \in Packets
      BY <1>1, <1>3, Lengths DEF WriteRecord, TypeOK
    <2>2. Store(mem[s], tail[s], Head(pkts[c])) \in [Cells -> Contents]
      BY <1>1, <2>1, Stored DEF TypeOK
    <2> QED
      BY <1>1, <1>3, <2>2 DEF WriteRecord, TypeOK, cap, cli
  <1>4. CASE AdvanceTail(c)
    <2>0. pkts[c] \in Seq(Packets) /\ pkts[c] # <<>>
      BY <1>1, <1>4 DEF AdvanceTail, TypeOK, Room
    <2>1. Head(pkts[c]) \in Packets /\ tail[s] + 1 + Head(pkts[c]).size <= End
      BY <2>0, <1>4 DEF AdvanceTail, Room, Fits
    <2>2. tail[s] + 1 + Head(pkts[c]).size \in 0 .. End
      <3>0. End \in Nat /\ tail[s] \in 0 .. End
        BY <1>1, Lengths DEF TypeOK
      <3>1. tail[s] \in Nat /\ Head(pkts[c]).size \in Nat
        BY <2>1, <3>0, PacketTypes
      <3> QED
        BY <2>1, <3>0, <3>1
    <2>3. Append(starts[s], tail[s]) \in Seq(Cells)
      BY <1>1, Lengths DEF TypeOK
    <2> QED
      BY <1>1, <1>4, <2>2, <2>3 DEF AdvanceTail, TypeOK, cap, cli
  <1>5. CASE CountRecord(c)
    <2>1. pkts[c] \in Seq(Packets) /\ pkts[c] # <<>> /\ nb_pkts[s] + Len(pkts[c]) <= packets
      BY <1>1, <1>5 DEF CountRecord, TypeOK, Room
    <2>2. Head(pkts[c]).id \in 1 .. MaxPackets /\ Tail(pkts[c]) \in Seq(Packets)
      BY <2>1, PacketTypes
    <2>3. nb_pkts[s] + 1 \in 0 .. MaxPackets
      <3>1. nb_pkts[s] \in Nat /\ packets \in 0 .. MaxPackets /\ MaxPackets \in Nat
        BY <1>1, CaptureAssumption DEF TypeOK, CaptureAssumption
      <3>2. Len(pkts[c]) \in Nat \ {0}
        BY <2>1
      <3> QED
        BY <2>1, <3>1, <3>2
    <2>4. nb_pkts' \in [Sockets -> 0 .. MaxPackets]
      BY <1>1, <1>5, <2>3 DEF CountRecord, TypeOK
    <2>5. taken' \in [Ports -> Seq(1 .. MaxPackets)]
      <3>1. taken[PortOf[c]] \in Seq(1 .. MaxPackets)
        BY <1>1 DEF TypeOK
      <3>2. Append(taken[PortOf[c]], Head(pkts[c]).id) \in Seq(1 .. MaxPackets)
        BY <2>2, <3>1
      <3> QED
        BY <1>1, <1>5, <3>2 DEF CountRecord, TypeOK
    <2>6. pkts' \in [RxLcores -> Seq(Packets)]
      BY <1>5, <2>2 DEF CountRecord, TypeOK
    <2>7. rx_pc' \in [RxLcores -> {"poll", "write", "advance", "count"}]
      BY <1>5 DEF CountRecord, TypeOK
    <2> QED
      BY <1>5, <2>4, <2>5, <2>6, <2>7 DEF CountRecord, TypeOK, cap, cli
  <1>6. CASE EndOfBurst(c)
    <2>1. Sentinel \in Contents /\ tail[s] \in Cells
      BY <1>1, Lengths DEF TypeOK, Sentinel, Contents
    <2>2. mem' \in [Sockets -> [Cells -> Contents]]
      BY <1>1, <1>6, <2>1 DEF EndOfBurst, TypeOK
    <2>3. used' \in [Sockets -> Nat]
      BY <1>1, <1>6, Lengths DEF EndOfBurst, TypeOK
    <2>4. pkts' \in [RxLcores -> Seq(Packets)] /\ rx_pc' \in [RxLcores -> {"poll", "write", "advance", "count"}]
      BY <1>6 DEF EndOfBurst, TypeOK
    <2> QED
      BY <1>6, <2>2, <2>3, <2>4 DEF EndOfBurst, TypeOK, cap, cli
  <1> QED
    BY <1>2, <1>3, <1>4, <1>5, <1>6 DEF RxStep

LEMMA CommandTypes ==
  ASSUME SocketsAreSeparate, TypeOK,
         \/ \E p \in Ports : Enable(p) \/ Disable(p)
         \/ EnableTail \/ EnableFlag \/ DumpRecord \/ DumpDone \/ DisableReset \/ DisableFlag
  PROVE  TypeOK'
  <1>1. ASSUME NEW p \in Ports, Enable(p) PROVE TypeOK'
    <2>1. SocketOf[FirstLcore(p)] \in Sockets
      BY Homes DEF Home
    <2>2. port' \in [Sockets -> Ports \cup {NoPort}] /\ used' \in [Sockets -> Nat]
      BY <1>1, <2>1 DEF Enable, TypeOK
    <2>3. nb_pkts' \in [Sockets -> 0 .. MaxPackets]
      BY <1>1, <2>1, CaptureAssumption DEF Enable, TypeOK, CaptureAssumption
    <2>4. starts' \in [Sockets -> Seq(Cells)] /\ taken' \in [Ports -> Seq(1 .. MaxPackets)]
      BY <1>1, <2>1 DEF Enable, TypeOK
    <2>5. commands' \in 0 .. MaxCommands /\ cli_port' \in Ports /\ sid' \in Sockets /\ cli_pc' = "en_tail"
      BY <1>1, <2>1, CaptureAssumption DEF Enable, Command, TypeOK, CaptureAssumption
    <2> QED
      BY <1>1, <2>2, <2>3, <2>4, <2>5 DEF Enable, TypeOK, rx
  <1>2. ASSUME NEW p \in Ports, Disable(p) PROVE TypeOK'
    <2>1. commands' \in 0 .. MaxCommands /\ cli_port' \in Ports /\ cli_pc' \in {"idle", "dump"}
      BY <1>2, CaptureAssumption DEF Disable, Command, TypeOK, CaptureAssumption
    <2>2. sid' \in Sockets
      BY <1>2 DEF Disable, TypeOK
    <2>3. taken[p] \in Seq(1 .. MaxPackets)
      BY DEF TypeOK
    <2>4. need' \in Nat /\ hdr' \in Nat /\ i' \in Nat /\ file' \in Seq(-1 .. MaxPackets)
      BY <1>2, <2>3 DEF Disable
    <2> QED
      BY <1>2, <2>1, <2>2, <2>4 DEF Disable, TypeOK, cap, rx
  <1>3. CASE EnableTail
    <2>1. Sentinel \in Contents /\ 0 \in Cells /\ End \in Cells /\ 0 \in 0 .. End
      BY Lengths DEF Sentinel, Contents
    <2> QED
      BY <1>3, <2>1 DEF EnableTail, TypeOK, rx
  <1>4. CASE EnableFlag
    BY <1>4 DEF EnableFlag, TypeOK, cap, rx
  <1>5. CASE DumpRecord
    <2>1. mem[sid][hdr].id \in -1 .. MaxPackets /\ mem[sid][hdr].size \in Nat
      BY <1>5, CellTypes DEF DumpRecord, TypeOK
    <2>2. file' = Append(file, mem[sid][hdr].id) /\ hdr' = hdr + 1 + mem[sid][hdr].size /\ i' = i + 1
      BY <1>5 DEF DumpRecord
    <2>3. file \in Seq(-1 .. MaxPackets) /\ hdr \in Nat /\ i \in Nat
      BY DEF TypeOK
    <2>4. file' \in Seq(-1 .. MaxPackets)
      BY <2>1, <2>2, <2>3
    <2>5. hdr' \in Nat /\ i' \in Nat
      BY <2>1, <2>2, <2>3
    <2>6. crashed' \in BOOLEAN
      BY <1>5 DEF DumpRecord, Percentage
    <2> QED
      BY <1>5, <2>4, <2>5, <2>6 DEF DumpRecord, TypeOK, cap, rx
  <1>6. CASE DumpDone
    BY <1>6 DEF DumpDone, TypeOK, cap, rx
  <1>7. CASE DisableReset
    BY <1>7, Lengths DEF DisableReset, TypeOK, rx
  <1>8. CASE DisableFlag
    BY <1>8 DEF DisableFlag, TypeOK, cap, rx
  <1> QED
    BY <1>1, <1>2, <1>3, <1>4, <1>5, <1>6, <1>7, <1>8

-----------------------------------------------------------------------------
(***************************************************************************)
(* Room.                                                                   *)
(***************************************************************************)

\* The sums and the records of the lcores.
LEMMA Numbers ==
  ASSUME TypeOK, NEW c \in RxLcores
  PROVE  /\ packets \in Nat /\ nb_pkts[SocketOf[c]] \in Nat /\ tail[SocketOf[c]] \in Nat
         /\ pkts[c] \in Seq(Packets) /\ Len(pkts[c]) \in Nat
         /\ pkts[c] # <<>> => /\ Head(pkts[c]) \in Packets
                              /\ Head(pkts[c]).size \in Nat \ {0}
                              /\ Head(pkts[c]).id \in 1 .. MaxPackets
                              /\ Len(Tail(pkts[c])) = Len(pkts[c]) - 1 /\ Len(pkts[c]) > 0
  <1>1. packets \in Nat /\ nb_pkts[SocketOf[c]] \in Nat
    BY LcoreTypes, CaptureAssumption DEF TypeOK, CaptureAssumption
  <1>2. tail[SocketOf[c]] \in Nat
    BY LcoreTypes, Lengths DEF TypeOK
  <1>3. pkts[c] \in Seq(Packets)
    BY DEF TypeOK
  <1>4. pkts[c] # <<>> => Head(pkts[c]) \in Packets
    BY <1>3
  <1> QED
    BY <1>1, <1>2, <1>3, <1>4, PacketTypes

LEMMA Counts ==
  ASSUME TypeOK
  PROVE  packets \in Nat /\ \A t \in Sockets : nb_pkts[t] \in Nat /\ tail[t] \in Nat
  <1>1. packets \in 0 .. MaxPackets /\ MaxPackets \in Nat /\ End \in Nat
    BY Lengths, CaptureAssumption DEF TypeOK, CaptureAssumption
  <1>2. \A t \in Sockets : nb_pkts[t] \in 0 .. MaxPackets /\ tail[t] \in 0 .. End
    BY DEF TypeOK
  <1> QED
    BY <1>1, <1>2

LEMMA RxRoom ==
  ASSUME SocketsAreSeparate, TypeOK, Room, NEW c \in RxLcores, RxStep(c)
  PROVE  Room'
  <1> DEFINE s == SocketOf[c]
  <1>1. s \in Sockets /\ \A d \in RxLcores : d # c => SocketOf[d] # s
    BY LcoreTypes DEF SocketsAreSeparate
  <1>2. CASE CaptureBulk(c)
    <2>1. PICK n \in 1 .. Burst : \E f \in [1 .. n -> Sizes] :
              /\ packets + n <= MaxPackets /\ packets' = packets + n
              /\ pkts' = [pkts EXCEPT ![c] = [k \in 1 .. n |-> [id |-> packets + k, size |-> f[k]]]]
      BY <1>2 DEF CaptureBulk
    <2>2. Len(pkts'[c]) = n /\ \A d \in RxLcores : d # c => pkts'[d] = pkts[d]
      <3>1. PICK f \in [1 .. n -> Sizes] :
                /\ packets + n <= MaxPackets
                /\ pkts' = [pkts EXCEPT ![c] = [k \in 1 .. n |-> [id |-> packets + k, size |-> f[k]]]]
        BY <2>1
      <3>2. Len([k \in 1 .. n |-> [id |-> packets + k, size |-> f[k]]]) = n
        BY <3>1, BurstTypes
      <3> QED
        BY <3>1, <3>2 DEF TypeOK
    <2>3. n \in Nat /\ packets' = packets + n /\ nb_pkts' = nb_pkts /\ tail' = tail
      BY <1>2, <2>1, CaptureAssumption DEF CaptureBulk, cap, CaptureAssumption
    <2>4. rx_pc'[c] = "write" /\ \A d \in RxLcores : d # c => rx_pc'[d] = rx_pc[d]
      BY <1>2 DEF CaptureBulk, TypeOK
    <2>5. \A t \in Sockets : nb_pkts'[t] <= packets'
      BY <2>3, Counts DEF Room
    <2>6. nb_pkts'[s] + Len(pkts'[c]) <= packets'
      BY <1>1, <2>2, <2>3, Numbers DEF Room
    <2>7. ASSUME NEW d \in RxLcores, d # c
          PROVE  nb_pkts'[SocketOf[d]] + Len(pkts'[d]) <= packets'
      BY <2>2, <2>3, <2>7, Numbers DEF Room
    <2> QED
      BY <2>2, <2>3, <2>4, <2>5, <2>6, <2>7 DEF Room, Fits
  <1>3. CASE WriteRecord(c)
    BY <1>3 DEF WriteRecord, Room, Fits, TypeOK
  <1>4. CASE AdvanceTail(c)
    <2>1. \A d \in RxLcores : d # c => tail'[SocketOf[d]] = tail[SocketOf[d]] /\ rx_pc'[d] = rx_pc[d]
      BY <1>1, <1>4, LcoreTypes DEF AdvanceTail, TypeOK
    <2>2. rx_pc'[c] = "count" /\ rx_pc[c] = "advance"
      BY <1>4 DEF AdvanceTail, TypeOK
    <2> QED
      BY <1>4, <2>1, <2>2 DEF AdvanceTail, Room, Fits
  <1>5. CASE CountRecord(c)
    <2>1. /\ \A t \in Sockets : t # s => nb_pkts'[t] = nb_pkts[t]
          /\ nb_pkts'[s] = nb_pkts[s] + 1 /\ pkts'[c] = Tail(pkts[c]) /\ rx_pc'[c] = "write"
          /\ \A d \in RxLcores : d # c => pkts'[d] = pkts[d] /\ rx_pc'[d] = rx_pc[d]
      BY <1>1, <1>5 DEF CountRecord, TypeOK
    <2>2. nb_pkts'[s] + Len(pkts'[c]) <= packets /\ nb_pkts'[s] <= packets
      <3>1. pkts[c] # <<>> /\ nb_pkts[s] + Len(pkts[c]) <= packets
        BY <1>5 DEF CountRecord, Room
      <3>2. Len(Tail(pkts[c])) = Len(pkts[c]) - 1 /\ Len(pkts[c]) \in Nat \ {0} /\ nb_pkts[s] \in Nat /\ packets \in Nat
        BY <3>1, Numbers
      <3> QED
        BY <2>1, <3>1, <3>2
    <2> QED
      BY <1>1, <1>5, <2>1, <2>2, LcoreTypes DEF CountRecord, Room, Fits
  <1>6. CASE EndOfBurst(c)
    <2>1. /\ pkts'[c] = <<>> /\ rx_pc'[c] = "poll"
          /\ \A d \in RxLcores : d # c => pkts'[d] = pkts[d] /\ rx_pc'[d] = rx_pc[d]
      BY <1>6 DEF EndOfBurst, TypeOK
    <2>2. nb_pkts[s] + Len(pkts'[c]) <= packets
      BY <1>1, <2>1, Numbers DEF Room
    <2> QED
      BY <1>6, <2>1, <2>2 DEF EndOfBurst, Room, Fits
  <1> QED
    BY <1>2, <1>3, <1>4, <1>5, <1>6 DEF RxStep

\* A buffer that is reset has as much room as before.
LEMMA CommandRoom ==
  ASSUME SocketsAreSeparate, TypeOK, Room,
         \/ \E p \in Ports : Enable(p) \/ Disable(p)
         \/ EnableTail \/ EnableFlag \/ DumpRecord \/ DumpDone \/ DisableReset \/ DisableFlag
  PROVE  Room'
  <1>1. packets' = packets /\ pkts' = pkts /\ rx_pc' = rx_pc
    BY DEF Enable, Disable, EnableTail, EnableFlag, DumpRecord, DumpDone, DisableReset, DisableFlag, rx
  <1>2. \A t \in Sockets : nb_pkts'[t] = nb_pkts[t] \/ nb_pkts'[t] = 0
    BY DEF Enable, Disable, EnableTail, EnableFlag, DumpRecord, DumpDone, DisableReset, DisableFlag, cap, TypeOK
  <1>3. \A t \in Sockets : tail'[t] = tail[t] \/ tail'[t] = 0
    BY DEF Enable, Disable, EnableTail, EnableFlag, DumpRecord, DumpDone, DisableReset, DisableFlag, cap, TypeOK
  <1>4. \A t \in Sockets : nb_pkts'[t] <= packets
    BY <1>2, Counts DEF Room
  <1>5. ASSUME NEW c \in RxLcores
        PROVE  nb_pkts'[SocketOf[c]] + Len(pkts[c]) <= packets
    BY <1>2, Numbers, LcoreTypes DEF Room
  <1>6. ASSUME NEW c \in RxLcores, rx_pc[c] = "advance"
        PROVE  tail'[SocketOf[c]] + 1 + Head(pkts[c]).size <= End
    <2>1. tail[SocketOf[c]] + 1 + Head(pkts[c]).size <= End /\ pkts[c] # <<>>
      BY <1>6 DEF Room, Fits
    <2> QED
      BY <1>3, <2>1, Numbers, LcoreTypes, Lengths
  <1> QED
    BY <1>1, <1>4, <1>5, <1>6 DEF Room, Fits

-----------------------------------------------------------------------------
(***************************************************************************)
(* Places.                                                                 *)
(***************************************************************************)

\* Lcores receive only into the buffer at home of their port, and do not touch
\* what the command has prepared.
LEMMA RxPlaces ==
  ASSUME SocketsAreSeparate, TypeOK, Places, NEW c \in RxLcores, RxStep(c)
  PROVE  Places'
  <1> DEFINE s == SocketOf[c]
  <1>1. s \in Sockets /\ PortOf[c] \in Ports
    BY LcoreTypes
  <1>2. s = Home(PortOf[c])
    BY <1>1, CaptureAssumption DEF RxStep, CaptureBulk, WriteRecord, AdvanceTail, CountRecord, EndOfBurst,
       Places, CaptureAssumption
  <1>3. ~(cli_pc \in {"en_tail", "en_flag"} /\ cli_port = PortOf[c])
    BY DEF RxStep, CaptureBulk, WriteRecord, AdvanceTail, CountRecord, EndOfBurst, Places
  <1>4. \A d \in RxLcores : d # c => rx_pc'[d] = rx_pc[d]
    BY DEF RxStep, CaptureBulk, WriteRecord, AdvanceTail, CountRecord, EndOfBurst, TypeOK
  <1>5. capturing' = capturing /\ port' = port /\ cli_pc' = cli_pc /\ cli_port' = cli_port /\ sid' = sid
    BY DEF RxStep, CaptureBulk, WriteRecord, AdvanceTail, CountRecord, EndOfBurst, cap, cli
  <1>6. cli_pc = "en_tail" => sid # s
    BY <1>1, <1>2, <1>3, Homes, CaptureAssumption DEF Places, TypeOK, CaptureAssumption
  <1>7. cli_pc = "en_tail" => /\ starts'[sid] = starts[sid] /\ nb_pkts'[sid] = nb_pkts[sid]
                              /\ used'[sid] = used[sid] /\ taken'[cli_port] = taken[cli_port]
    BY <1>3, <1>6 DEF RxStep, CaptureBulk, WriteRecord, AdvanceTail, CountRecord, EndOfBurst, cap, TypeOK
  <1> QED
    BY <1>2, <1>3, <1>4, <1>5, <1>7 DEF Places

LEMMA CommandPlaces ==
  ASSUME SocketsAreSeparate, Settled, TypeOK, Places,
         \/ \E p \in Ports : Enable(p) \/ Disable(p)
         \/ EnableTail \/ EnableFlag \/ DumpRecord \/ DumpDone \/ DisableReset \/ DisableFlag
  PROVE  Places'
  <1>1. ASSUME NEW p \in Ports, Enable(p) PROVE Places'
    <2>1. /\ sid' = Home(p) /\ cli_port' = p /\ cli_pc' = "en_tail" /\ cli_pc = "idle"
          /\ rx_pc' = rx_pc /\ \A c \in RxLcores : rx_pc[c] = "poll"
          /\ capturing' = capturing /\ p \notin capturing
      BY <1>1 DEF Enable, Command, Home, rx
    <2>2. Home(p) \in Sockets
      BY Homes
    <2>3. /\ port'[Home(p)] = p /\ starts'[Home(p)] = <<>> /\ nb_pkts'[Home(p)] = 0 /\ taken'[p] = <<>>
          /\ used'[Home(p)] = 0
          /\ \A t \in Sockets : t # Home(p) => port'[t] = port[t]
      BY <1>1, <2>2 DEF Enable, Home, TypeOK
    <2>4. \A t \in Sockets : port'[t] # NoPort => t = Home(port'[t])
      BY <2>3 DEF Places
    <2>5. \A q \in capturing : port'[Home(q)] = q
      <3> TAKE q \in capturing
      <3>1. q \in Ports /\ q # p /\ port[Home(q)] = q
        BY <2>1 DEF Places, TypeOK
      <3>2. Home(q) \in Sockets /\ Home(q) # Home(p)
        BY <3>1, Homes
      <3> QED
        BY <2>3, <3>1, <3>2
    <2> QED
      BY <2>1, <2>3, <2>4, <2>5 DEF Places
  <1>2. ASSUME NEW p \in Ports, Disable(p) PROVE Places'
    <2>1. cli_pc = "idle" /\ cli_port' = p /\ cli_pc' \in {"idle", "dump"} /\ p \in capturing
      BY <1>2 DEF Disable, Command
    <2>2. port[Home(p)] = p /\ Home(p) \in Sockets
      BY <2>1, Homes DEF Places
    <2>3. port[sid'] = p
      BY <1>2, <2>2 DEF Disable
    <2>4. capturing' = capturing /\ port' = port /\ rx_pc' = rx_pc
      BY <1>2 DEF Disable, cap, rx
    <2> QED
      BY <2>1, <2>3, <2>4 DEF Places
  <1>3. CASE EnableTail
    BY <1>3 DEF EnableTail, Places, rx
  <1>4. CASE EnableFlag
    <2>1. port[Home(cli_port)] = cli_port
      <3>1. cli_pc = "en_flag"
        BY <1>4 DEF EnableFlag
      <3>2. port[sid] = cli_port /\ sid \in Sockets /\ cli_port \in Ports
        BY <3>1 DEF Places, TypeOK
      <3>3. port[sid] # NoPort
        BY <3>2, CaptureAssumption
      <3> QED
        BY <3>2, <3>3 DEF Places
    <2> QED
      BY <1>4, <2>1 DEF EnableFlag, Places, cap, rx
  <1>5. CASE DumpRecord
    BY <1>5 DEF DumpRecord, Places, cap, rx
  <1>6. CASE DumpDone
    BY <1>6 DEF DumpDone, Places, cap, rx
  <1>7. CASE DisableReset
    <2>1. /\ port'[sid] = NoPort /\ \A t \in Sockets : t # sid => port'[t] = port[t]
          /\ cli_pc' = "dis_flag" /\ cli_port' = cli_port /\ capturing' = capturing /\ rx_pc' = rx_pc
          /\ cli_pc = "reset" /\ port[sid] = cli_port
      BY <1>7 DEF DisableReset, TypeOK, rx, Places
    <2>2. \A q \in capturing : q # cli_port => port'[Home(q)] = q
      BY <2>1, Homes DEF Places, TypeOK
    <2> QED
      BY <2>1, <2>2 DEF Places
  <1>8. CASE DisableFlag
    BY <1>8 DEF DisableFlag, Places, cap, rx
  <1> QED
    BY <1>1, <1>2, <1>3, <1>4, <1>5, <1>6, <1>7, <1>8

-----------------------------------------------------------------------------
(***************************************************************************)
(* Records.                                                                *)
(***************************************************************************)

\* What a buffer holds depends on what is stored for it only.
LEMMA KeptFrame ==
  ASSUME NEW d \in RxLcores, Kept(d),
         starts'[SocketOf[d]] = starts[SocketOf[d]], tail'[SocketOf[d]] = tail[SocketOf[d]],
         mem'[SocketOf[d]] = mem[SocketOf[d]], nb_pkts'[SocketOf[d]] = nb_pkts[SocketOf[d]],
         used'[SocketOf[d]] = used[SocketOf[d]],
         taken'[PortOf[d]] = taken[PortOf[d]], pkts'[d] = pkts[d], rx_pc'[d] = rx_pc[d]
  PROVE  Kept(d)'
  BY DEF Kept, Chained, Bound

LEMMA RecordTypes ==
  ASSUME TypeOK, NEW d \in RxLcores
  PROVE  /\ starts[SocketOf[d]] \in Seq(Cells) /\ mem[SocketOf[d]] \in [Cells -> Contents]
         /\ tail[SocketOf[d]] \in Cells /\ tail[SocketOf[d]] \in Nat
         /\ taken[PortOf[d]] \in Seq(1 .. MaxPackets) /\ Len(taken[PortOf[d]]) \in Nat
         /\ Len(starts[SocketOf[d]]) \in Nat
         /\ \A k \in 1 .. Len(starts[SocketOf[d]]) : starts[SocketOf[d]][k] \in Cells
  <1>1. PortOf[d] \in Ports /\ SocketOf[d] \in Sockets
    BY LcoreTypes
  <1>2. starts[SocketOf[d]] \in Seq(Cells) /\ mem[SocketOf[d]] \in [Cells -> Contents]
    BY <1>1 DEF TypeOK
  <1>3. taken[PortOf[d]] \in Seq(1 .. MaxPackets)
    BY <1>1 DEF TypeOK
  <1>4. tail[SocketOf[d]] \in Cells /\ tail[SocketOf[d]] \in Nat
    BY <1>1, Lengths, Counts DEF TypeOK
  <1> QED
    BY <1>2, <1>3, <1>4

\* A lcore leaves the buffers of the others alone.
LEMMA RecordsElsewhere ==
  ASSUME SocketsAreSeparate, TypeOK, Places, NEW c \in RxLcores, RxStep(c),
         NEW d \in RxLcores, d # c, Live(d), Kept(d)
  PROVE  Kept(d)'
  <1>1. /\ SocketOf[c] \in Sockets /\ PortOf[c] \in Ports
        /\ SocketOf[d] \in Sockets /\ PortOf[d] \in Ports /\ SocketOf[d] # SocketOf[c]
    BY LcoreTypes DEF SocketsAreSeparate
  <1>2. SocketOf[c] = Home(PortOf[c])
    BY <1>1, CaptureAssumption DEF RxStep, CaptureBulk, WriteRecord, AdvanceTail, CountRecord, EndOfBurst,
       Places, CaptureAssumption
  <1>3. SocketOf[d] = Home(PortOf[d])
    BY <1>1, CaptureAssumption DEF Live, Places, CaptureAssumption
  <1>4. PortOf[d] # PortOf[c]
    BY <1>1, <1>2, <1>3
  <1>5. pkts'[d] = pkts[d] /\ rx_pc'[d] = rx_pc[d]
    BY DEF RxStep, CaptureBulk, WriteRecord, AdvanceTail, CountRecord, EndOfBurst, TypeOK
  <1>6. starts'[SocketOf[d]] = starts[SocketOf[d]] /\ tail'[SocketOf[d]] = tail[SocketOf[d]]
    BY <1>1 DEF RxStep, CaptureBulk, WriteRecord, AdvanceTail, CountRecord, EndOfBurst, TypeOK, cap
  <1>7. mem'[SocketOf[d]] = mem[SocketOf[d]] /\ nb_pkts'[SocketOf[d]] = nb_pkts[SocketOf[d]]
    BY <1>1 DEF RxStep, CaptureBulk, WriteRecord, AdvanceTail, CountRecord, EndOfBurst, TypeOK, cap
  <1>9. used'[SocketOf[d]] = used[SocketOf[d]]
    BY <1>1 DEF RxStep, CaptureBulk, WriteRecord, AdvanceTail, CountRecord, EndOfBurst, TypeOK, cap
  <1>8. taken'[PortOf[d]] = taken[PortOf[d]]
    BY <1>1, <1>4 DEF RxStep, CaptureBulk, WriteRecord, AdvanceTail, CountRecord, EndOfBurst, TypeOK
  <1> QED
    BY <1>5, <1>6, <1>7, <1>8, <1>9, KeptFrame

LEMMA BulkKeeps ==
  ASSUME TypeOK, NEW c \in RxLcores, CaptureBulk(c), Kept(c)
  PROVE  Kept(c)'
  <1>1. rx_pc[c] = "poll" /\ rx_pc'[c] = "write"
    BY DEF CaptureBulk, TypeOK
  <1>2. UNCHANGED <<cap, starts, taken>>
    BY DEF CaptureBulk
  <1> QED
    BY <1>1, <1>2 DEF Kept, Chained, Bound, cap

LEMMA WriteKeeps ==
  ASSUME TypeOK, NEW c \in RxLcores, WriteRecord(c), Kept(c)
  PROVE  Kept(c)'
  <1> DEFINE s == SocketOf[c]
             seq == taken[PortOf[c]]
  <1>1. rx_pc[c] = "write" /\ rx_pc'[c] = "advance" /\ pkts[c] # <<>> /\ s \in Sockets
    BY LcoreTypes DEF WriteRecord, TypeOK
  <1>2. UNCHANGED <<port, nb_pkts, tail, starts, taken, pkts>>
    BY DEF WriteRecord
  <1>3. /\ mem'[s][tail[s]] = Head(pkts[c])
        /\ \A k \in Cells : k < tail[s] => mem'[s][k] = mem[s][k]
    <2>1. mem'[s] = Store(mem[s], tail[s], Head(pkts[c]))
      BY <1>1 DEF WriteRecord, TypeOK
    <2>2. Head(pkts[c]) \in Packets
      BY <1>1, Numbers
    <2> QED
      BY <2>1, <2>2, RecordTypes, Stored
  <1>4. /\ Len(starts[s]) = Len(seq)
        /\ \A k \in 1 .. Len(seq) : starts[s][k] \in Cells /\ mem'[s][starts[s][k]] = mem[s][starts[s][k]]
    BY <1>1, <1>3, RecordTypes DEF Kept, Chained
  <1>5. Chained(s)'
    BY <1>2, <1>4 DEF Kept, Chained, Bound
  <1> QED
    BY <1>1, <1>2, <1>3, <1>4, <1>5 DEF Kept

LEMMA AdvanceKeeps ==
  ASSUME TypeOK, Room, NEW c \in RxLcores, AdvanceTail(c), Kept(c)
  PROVE  Kept(c)'
  <1> DEFINE s == SocketOf[c]
             seq == taken[PortOf[c]]
             pkt == Head(pkts[c])
  <1>0. PICK n \in Nat : n = Len(seq)
    BY RecordTypes
  <1>1. rx_pc[c] = "advance" /\ rx_pc'[c] = "count" /\ pkts[c] # <<>> /\ s \in Sockets
    BY LcoreTypes DEF AdvanceTail, TypeOK, Room
  <1>2. UNCHANGED <<port, nb_pkts, mem, taken, pkts>>
    BY DEF AdvanceTail
  <1>3. starts'[s] = Append(starts[s], tail[s]) /\ tail'[s] = tail[s] + 1 + pkt.size
    BY <1>1 DEF AdvanceTail, TypeOK
  <1>4. n \in Nat /\ Len(starts[s]) = n /\ mem[s][tail[s]] = pkt /\ nb_pkts[s] = n
    BY <1>0, <1>1 DEF Kept
  <1>5. /\ Len(starts'[s]) = n + 1 /\ starts'[s][n + 1] = tail[s]
        /\ \A k \in 1 .. n : starts'[s][k] = starts[s][k]
    BY <1>3, <1>4, RecordTypes
  <1>6. tail[s] < tail'[s] /\ tail[s] \in Nat /\ tail'[s] \in Nat /\ pkt.id > 0
    <2>1. pkt.size \in Nat /\ tail[s] \in Nat /\ pkt.id \in 1 .. MaxPackets
      BY <1>1, Numbers
    <2>2. \A a, b \in Nat : a < a + 1 + b /\ a + 1 + b \in Nat
      OBVIOUS
    <2>3. tail[s] < tail[s] + 1 + pkt.size /\ tail[s] + 1 + pkt.size \in Nat
      BY <2>1, <2>2
    <2>4. pkt.id > 0
      BY <2>1
    <2> QED
      BY <1>3, <2>1, <2>3, <2>4
  <1>7. \A k \in 1 .. n + 1 : Bound(s, k)' = Bound(s, k)
    BY <1>4, <1>5 DEF Bound
  <1>8. Bound(s, (n + 1) + 1)' = tail[s] + 1 + pkt.size
    <2>1. ~((n + 1) + 1 <= Len(starts'[s]))
      BY <1>4, <1>5
    <2> QED
      BY <1>3, <2>1 DEF Bound
  <1>9. ASSUME NEW k \in 1 .. n
        PROVE  /\ starts'[s][k] < tail'[s] /\ mem'[s][starts'[s][k]].id > 0
               /\ Bound(s, k + 1)' = starts'[s][k] + 1 + mem'[s][starts'[s][k]].size
    <2>1. k \in 1 .. n + 1 /\ k + 1 \in 1 .. n + 1 /\ starts[s][k] \in Nat
      BY <1>4, RecordTypes, Lengths
    <2>2. /\ starts[s][k] < tail[s] /\ mem[s][starts[s][k]].id > 0
          /\ Bound(s, k + 1) = starts[s][k] + 1 + mem[s][starts[s][k]].size
      BY <1>4 DEF Kept, Chained
    <2>3. starts'[s][k] < tail'[s]
      <3>1. \A x, y, z \in Nat : x < y /\ y < z => x < z
        OBVIOUS
      <3> QED
        BY <1>5, <1>6, <2>1, <2>2, <3>1
    <2> QED
      BY <1>2, <1>5, <1>7, <2>1, <2>2, <2>3
  <1>10. Chained(s)'
    <2>1. Bound(s, 1)' = 0
      BY <1>4, <1>7 DEF Kept, Chained
    <2>2. /\ starts'[s][n + 1] < tail'[s] /\ mem'[s][starts'[s][n + 1]].id > 0
          /\ Bound(s, (n + 1) + 1)' = starts'[s][n + 1] + 1 + mem'[s][starts'[s][n + 1]].size
      BY <1>2, <1>3, <1>4, <1>5, <1>6, <1>8
    <2>3. \A k \in 1 .. n + 1 :
              /\ starts'[s][k] < tail'[s] /\ mem'[s][starts'[s][k]].id > 0
              /\ Bound(s, k + 1)' = starts'[s][k] + 1 + mem'[s][starts'[s][k]].size
      <3>1. TAKE k \in 1 .. n + 1
      <3>2. CASE k = n + 1
        BY <2>2, <3>2
      <3>3. CASE k # n + 1
        <4>1. k \in 1 .. n
          BY <1>4, <3>3
        <4> QED
          BY <1>9, <4>1
      <3> QED
        BY <3>2, <3>3
    <2> QED
      BY <1>5, <2>1, <2>3 DEF Chained
  <1>11. \A k \in 1 .. n : mem'[s][starts'[s][k]].id = seq[k]
    BY <1>0, <1>2, <1>5 DEF Kept
  <1> QED
    BY <1>0, <1>1, <1>2, <1>4, <1>5, <1>10, <1>11 DEF Kept

LEMMA CountKeeps ==
  ASSUME TypeOK, Room, NEW c \in RxLcores, CountRecord(c), Kept(c)
  PROVE  Kept(c)'
  <1> DEFINE s == SocketOf[c]
             seq == taken[PortOf[c]]
             n == Len(seq)
  <1>1. rx_pc[c] = "count" /\ rx_pc'[c] = "write" /\ s \in Sockets /\ PortOf[c] \in Ports /\ pkts[c] # <<>>
    BY LcoreTypes DEF CountRecord, TypeOK, Room
  <1>2. UNCHANGED <<tail, mem, starts>>
    BY DEF CountRecord
  <1>3. nb_pkts'[s] = nb_pkts[s] + 1 /\ taken'[PortOf[c]] = Append(seq, Head(pkts[c]).id)
    BY <1>1 DEF CountRecord, TypeOK
  <1>4. n \in Nat /\ Len(starts[s]) = n + 1 /\ mem[s][starts[s][n + 1]].id = Head(pkts[c]).id /\ nb_pkts[s] = n
    BY <1>1, RecordTypes DEF Kept
  <1>5. Head(pkts[c]).id \in 1 .. MaxPackets
    BY <1>1, Numbers
  <1>6. /\ Len(taken'[PortOf[c]]) = n + 1 /\ taken'[PortOf[c]][n + 1] = Head(pkts[c]).id
        /\ \A k \in 1 .. n : taken'[PortOf[c]][k] = seq[k]
    BY <1>3, <1>5, RecordTypes
  <1>7. Chained(s)'
    BY <1>2 DEF Kept, Chained, Bound
  <1>8. \A k \in 1 .. n + 1 : mem'[s][starts'[s][k]].id = taken'[PortOf[c]][k]
    <2>1. TAKE k \in 1 .. n + 1
    <2>2. CASE k = n + 1
      BY <1>2, <1>4, <1>6, <2>2
    <2>3. CASE k # n + 1
      <3>1. k \in 1 .. n
        BY <1>4, <2>3
      <3> QED
        BY <1>2, <1>6, <3>1 DEF Kept
    <2> QED
      BY <2>2, <2>3
  <1> QED
    BY <1>1, <1>2, <1>3, <1>4, <1>6, <1>7, <1>8 DEF Kept

LEMMA EndKeeps ==
  ASSUME TypeOK, NEW c \in RxLcores, EndOfBurst(c), Kept(c)
  PROVE  Kept(c)'
  <1> DEFINE s == SocketOf[c]
             seq == taken[PortOf[c]]
  <1>1. rx_pc[c] = "write" /\ rx_pc'[c] = "poll" /\ s \in Sockets
    BY LcoreTypes DEF EndOfBurst, TypeOK
  <1>2. UNCHANGED <<port, nb_pkts, tail, starts, taken>>
    BY DEF EndOfBurst
  <1>3. \A k \in Cells : k # tail[s] => mem'[s][k] = mem[s][k]
    BY <1>1, RecordTypes DEF EndOfBurst, TypeOK
  <1>4. /\ Len(starts[s]) = Len(seq)
        /\ \A k \in 1 .. Len(seq) : mem'[s][starts[s][k]] = mem[s][starts[s][k]]
    <2>1. Len(starts[s]) = Len(seq)
      BY <1>1 DEF Kept
    <2>2. ASSUME NEW k \in 1 .. Len(seq) PROVE mem'[s][starts[s][k]] = mem[s][starts[s][k]]
      <3>1. starts[s][k] \in Cells /\ starts[s][k] < tail[s] /\ tail[s] \in Nat
        BY <2>1, RecordTypes DEF Kept, Chained
      <3>2. starts[s][k] # tail[s]
        BY <3>1
      <3> QED
        BY <1>3, <3>1, <3>2
    <2> QED
      BY <2>1, <2>2
  <1>5. Chained(s)'
    BY <1>2, <1>4 DEF Kept, Chained, Bound
  <1>6. used'[s] = tail'[s]
    BY <1>1, <1>2 DEF EndOfBurst, TypeOK
  <1> QED
    BY <1>1, <1>2, <1>4, <1>5, <1>6 DEF Kept

LEMMA RxRecords ==
  ASSUME SocketsAreSeparate, TypeOK, Room, Places, Records, NEW c \in RxLcores, RxStep(c)
  PROVE  Records'
  <1>1. UNCHANGED <<port, cli_pc, sid>>
    BY DEF RxStep, CaptureBulk, WriteRecord, AdvanceTail, CountRecord, EndOfBurst, cap, cli
  <1>2. ASSUME NEW d \in RxLcores, Live(d)' PROVE Kept(d)'
    <2>1. Live(d) /\ Kept(d)
      BY <1>1, <1>2 DEF Live, Records
    <2>2. CASE d # c
      BY <2>1, <2>2, RecordsElsewhere
    <2>3. CASE d = c
      BY <2>1, <2>3, BulkKeeps, WriteKeeps, AdvanceKeeps, CountKeeps, EndKeeps DEF RxStep
    <2> QED
      BY <2>2, <2>3
  <1> QED
    BY <1>2 DEF Records

\* The command empties a buffer whose lcores rest, or gives it up.
LEMMA CommandRecords ==
  ASSUME SocketsAreSeparate, Settled, TypeOK, Places, Records,
         \/ \E p \in Ports : Enable(p) \/ Disable(p)
         \/ EnableTail \/ EnableFlag \/ DumpRecord \/ DumpDone \/ DisableReset \/ DisableFlag
  PROVE  Records'
  <1> SUFFICES ASSUME NEW d \in RxLcores, Live(d)' PROVE Kept(d)'
    BY DEF Records
  <1>0. SocketOf[d] \in Sockets /\ PortOf[d] \in Ports
    BY LcoreTypes
  <1>1. ASSUME NEW p \in Ports, Enable(p) PROVE Kept(d)'
    <2>1. Home(p) \in Sockets /\ cli_pc = "idle"
      BY <1>1, Homes DEF Enable, Command
    <2>2. port'[Home(p)] = p /\ sid' = Home(p) /\ cli_pc' = "en_tail"
      BY <1>1, <2>1 DEF Enable, Home, TypeOK
    <2>3. SocketOf[d] # Home(p)
      BY <2>2 DEF Live
    <2>4. port'[SocketOf[d]] = port[SocketOf[d]]
      BY <1>0, <1>1, <2>3 DEF Enable, Home, TypeOK
    <2>5. Live(d) /\ Kept(d)
      BY <2>1, <2>4 DEF Live, Records
    <2>6. PortOf[d] # p
      BY <1>0, <2>3, <2>5, CaptureAssumption DEF Live, Places, CaptureAssumption
    <2>7. /\ starts'[SocketOf[d]] = starts[SocketOf[d]] /\ tail'[SocketOf[d]] = tail[SocketOf[d]]
          /\ mem'[SocketOf[d]] = mem[SocketOf[d]] /\ nb_pkts'[SocketOf[d]] = nb_pkts[SocketOf[d]]
          /\ used'[SocketOf[d]] = used[SocketOf[d]]
      BY <1>0, <1>1, <2>3 DEF Enable, Home, TypeOK
    <2>8. taken'[PortOf[d]] = taken[PortOf[d]] /\ pkts'[d] = pkts[d] /\ rx_pc'[d] = rx_pc[d]
      BY <1>0, <1>1, <2>6 DEF Enable, rx, TypeOK
    <2> QED
      BY <2>5, <2>7, <2>8, KeptFrame
  <1>2. ASSUME NEW p \in Ports, Disable(p) PROVE Kept(d)'
    <2>1. Live(d)
      BY <1>2 DEF Disable, Command, Live, cap
    <2> QED
      BY <1>2, <2>1, KeptFrame DEF Disable, Records, cap, rx
  <1>3. CASE EnableTail
    <2>1. CASE SocketOf[d] = sid
      <3>1. /\ starts[sid] = <<>> /\ nb_pkts[sid] = 0 /\ used[sid] = 0
            /\ taken[cli_port] = <<>> /\ port[sid] = cli_port
            /\ \A c \in RxLcores : PortOf[c] = cli_port => rx_pc[c] = "poll"
        BY <1>3 DEF EnableTail, Places
      <3>2. UNCHANGED <<port, nb_pkts, used, rx, starts, taken, cli_port>> /\ tail'[sid] = 0
        BY <1>0, <1>3, <2>1 DEF EnableTail, TypeOK
      <3>3. PortOf[d] = cli_port /\ rx_pc[d] = "poll"
        BY <2>1, <3>1, <3>2 DEF Live
      <3>4. Len(starts'[sid]) = 0 /\ Len(taken'[PortOf[d]]) = 0
        BY <3>1, <3>2, <3>3
      <3>5. Bound(SocketOf[d], 1)' = 0
        BY <2>1, <3>2, <3>4 DEF Bound
      <3>6. Chained(SocketOf[d])'
        BY <2>1, <3>4, <3>5 DEF Chained
      <3> QED
        BY <2>1, <3>1, <3>2, <3>3, <3>4, <3>6 DEF Kept, rx
    <2>2. CASE SocketOf[d] # sid
      <3>1. Live(d)
        BY <1>3, <2>2 DEF EnableTail, Live
      <3>2. /\ starts'[SocketOf[d]] = starts[SocketOf[d]] /\ tail'[SocketOf[d]] = tail[SocketOf[d]]
            /\ mem'[SocketOf[d]] = mem[SocketOf[d]] /\ nb_pkts'[SocketOf[d]] = nb_pkts[SocketOf[d]]
            /\ used'[SocketOf[d]] = used[SocketOf[d]]
        BY <1>0, <1>3, <2>2 DEF EnableTail, TypeOK
      <3> QED
        BY <1>3, <3>1, <3>2, KeptFrame DEF EnableTail, Records, rx
    <2> QED
      BY <2>1, <2>2
  <1>4. CASE EnableFlag \/ DumpRecord \/ DumpDone \/ DisableFlag
    <2>1. UNCHANGED <<cap, rx, starts, taken, sid>>
      BY <1>4 DEF EnableFlag, DumpRecord, DumpDone, DisableFlag
    <2>2. Live(d)
      BY <1>4, <2>1 DEF EnableFlag, DumpRecord, DumpDone, DisableFlag, Live, cap
    <2> QED
      BY <2>1, <2>2, KeptFrame DEF Records, cap, rx
  <1>5. CASE DisableReset
    <2>1. SocketOf[d] # sid
      BY <1>0, <1>5, CaptureAssumption DEF DisableReset, Live, TypeOK, CaptureAssumption
    <2>2. Live(d)
      BY <1>0, <1>5, <2>1 DEF DisableReset, Live, TypeOK
    <2>3. tail'[SocketOf[d]] = tail[SocketOf[d]] /\ used'[SocketOf[d]] = used[SocketOf[d]]
      BY <1>0, <1>5, <2>1 DEF DisableReset, TypeOK
    <2> QED
      BY <1>5, <2>2, <2>3, KeptFrame DEF DisableReset, Records, rx
  <1> QED
    BY <1>1, <1>2, <1>3, <1>4, <1>5

-----------------------------------------------------------------------------
(***************************************************************************)
(* The file.                                                               *)
(***************************************************************************)

\* While a capture is saved there is a lcore that fills its buffer.
LEMMA Filling ==
  ASSUME SocketsAreSeparate, TypeOK, Places, Records, cli_pc \in {"dump", "reset"}
  PROVE  \E d \in RxLcores : SocketOf[d] = sid /\ PortOf[d] = cli_port /\ Kept(d)
  <1>0. port[sid] = cli_port /\ cli_port \in Ports /\ sid \in Sockets
    BY DEF Places, TypeOK
  <1>1. port[sid] = cli_port /\ sid = Home(cli_port)
    BY <1>0, CaptureAssumption DEF Places, CaptureAssumption
  <1>2. PICK d \in RxLcores : PortOf[d] = cli_port /\ SocketOf[d] = sid
    BY <1>1, Homes DEF TypeOK
  <1>3. Live(d)
    BY <1>1, <1>2 DEF Live
  <1> QED
    BY <1>2, <1>3 DEF Records

\* What is captured meanwhile comes after what the walk has passed.
LEMMA RxCopied ==
  ASSUME SocketsAreSeparate, TypeOK, Room, Places, Records, Copied, NEW c \in RxLcores, RxStep(c)
  PROVE  Copied'
  <1>1. UNCHANGED <<cli_pc, cli_port, sid, hdr, i, file, need>>
    BY DEF RxStep, CaptureBulk, WriteRecord, AdvanceTail, CountRecord, EndOfBurst, cli
  <1> SUFFICES ASSUME cli_pc \in {"dump", "reset"} PROVE Copied'
    BY <1>1 DEF Copied
  <1>2. PICK d \in RxLcores : SocketOf[d] = sid /\ PortOf[d] = cli_port /\ Kept(d)
    BY Filling
  <1>3. cli_port \in Ports /\ sid \in Sockets /\ i \in Nat /\ need \in Nat
    BY DEF TypeOK
  <1> DEFINE seq == taken[cli_port]
  <1>4. seq \in Seq(1 .. MaxPackets) /\ Len(seq) \in Nat /\ Len(starts[sid]) \in Nat /\ starts[sid] \in Seq(Cells)
    BY <1>2, RecordTypes
  <1>5. taken'[cli_port] = seq \/ \E x \in 1 .. MaxPackets : taken'[cli_port] = Append(seq, x)
    <2>1. CASE CountRecord(c)
      <3>1. Head(pkts[c]).id \in 1 .. MaxPackets
        BY <2>1, Numbers DEF CountRecord, Room
      <3> QED
        BY <1>3, <2>1, <3>1 DEF CountRecord, TypeOK
    <2> QED
      BY <2>1 DEF RxStep, CaptureBulk, WriteRecord, AdvanceTail, EndOfBurst
  <1>6. Len(taken'[cli_port]) >= Len(seq) /\ \A k \in 1 .. Len(seq) : taken'[cli_port][k] = seq[k]
    BY <1>4, <1>5
  <1>7. Len(seq) <= Len(starts[sid])
    BY <1>2, <1>4 DEF Kept
  <1>8. Bound(sid, i + 1)' = Bound(sid, i + 1)
    <2>1. i <= Len(starts[sid])
      BY <1>3, <1>4, <1>7 DEF Copied
    <2>2. CASE AdvanceTail(c) /\ SocketOf[c] = sid
      <3>1. starts'[sid] = Append(starts[sid], tail[sid])
        BY <1>3, <2>2 DEF AdvanceTail, TypeOK
      <3>2. /\ Len(starts'[sid]) = Len(starts[sid]) + 1 /\ starts'[sid][Len(starts[sid]) + 1] = tail[sid]
            /\ \A k \in 1 .. Len(starts[sid]) : starts'[sid][k] = starts[sid][k]
        BY <1>4, <3>1
      <3> QED
        BY <1>1, <1>3, <1>4, <2>1, <2>2, <3>2 DEF AdvanceTail, Bound
    <2>3. CASE ~(AdvanceTail(c) /\ SocketOf[c] = sid)
      <3>1. starts'[sid] = starts[sid] /\ tail'[sid] = tail[sid]
        BY <1>3, <2>3 DEF RxStep, CaptureBulk, WriteRecord, AdvanceTail, CountRecord, EndOfBurst, cap, TypeOK
      <3> QED
        BY <1>1, <3>1 DEF Bound
    <2> QED
      BY <2>2, <2>3
  <1> QED
    BY <1>1, <1>3, <1>4, <1>6, <1>8 DEF Copied

LEMMA CommandCopied ==
  ASSUME SocketsAreSeparate, TypeOK, Places, Records, Copied,
         \/ \E p \in Ports : Enable(p) \/ Disable(p)
         \/ EnableTail \/ EnableFlag \/ DumpRecord \/ DumpDone \/ DisableReset \/ DisableFlag
  PROVE  Copied'
  <1>1. ASSUME NEW p \in Ports, Enable(p) PROVE Copied'
    BY <1>1 DEF Enable, Copied
  <1>2. ASSUME NEW p \in Ports, Disable(p) PROVE Copied'
    <2>1. /\ cli_pc = "idle" /\ cli_port' = p /\ p \in capturing /\ need' = Len(taken[p]) /\ taken' = taken
          /\ hdr' = 0 /\ i' = 0 /\ file' = <<>> /\ tail' = tail /\ starts' = starts /\ mem' = mem
          /\ cli_pc' \in {"idle", "dump"}
      BY <1>2 DEF Disable, Command, cap
    <2>2. port[Home(p)] = p /\ Home(p) \in Sockets
      BY <2>1, Homes DEF Places
    <2>3. port[sid'] = p /\ sid' \in Sockets
      BY <1>2, <2>2 DEF Disable
    <2>4. sid' = Home(p)
      BY <2>3, CaptureAssumption DEF Places, CaptureAssumption
    <2>5. PICK d \in RxLcores : PortOf[d] = p /\ SocketOf[d] = Home(p)
      BY Homes
    <2>6. Kept(d)
      BY <2>1, <2>2, <2>5 DEF Records, Live
    <2>7. Bound(sid', 1) = 0
      BY <2>4, <2>5, <2>6 DEF Kept, Chained
    <2>8. Bound(sid, i + 1)' = 0
      BY <2>1, <2>7 DEF Bound
    <2>9. Len(file') = 0 /\ Len(taken[p]) \in Nat
      BY <2>1 DEF TypeOK
    <2> QED
      BY <2>1, <2>8, <2>9 DEF Copied
  <1>3. CASE EnableTail
    BY <1>3 DEF EnableTail, Copied
  <1>4. CASE EnableFlag
    BY <1>4 DEF EnableFlag, Copied
  <1>5. CASE DumpRecord
    <2>1. PICK d \in RxLcores : SocketOf[d] = sid /\ PortOf[d] = cli_port /\ Kept(d)
      BY <1>5, Filling DEF DumpRecord
    <2>2. /\ i \in Nat /\ need \in Nat /\ file \in Seq(-1 .. MaxPackets) /\ Len(taken[cli_port]) \in Nat
          /\ Len(starts[sid]) \in Nat
      BY <2>1, RecordTypes DEF TypeOK
    <2>3. i < Len(taken[cli_port]) /\ Len(taken[cli_port]) <= Len(starts[sid])
      BY <1>5, <2>1, <2>2 DEF DumpRecord, Kept
    <2>4. hdr = starts[sid][i + 1] /\ i + 1 \in 1 .. Len(starts[sid]) /\ i + 1 \in 1 .. Len(taken[cli_port])
      BY <1>5, <2>2, <2>3 DEF DumpRecord, Copied, Bound
    <2>5. mem[sid][hdr].id = taken[cli_port][i + 1]
      BY <2>1, <2>4 DEF Kept
    <2>6. Bound(sid, (i + 1) + 1) = hdr + 1 + mem[sid][hdr].size
      BY <2>1, <2>4 DEF Kept, Chained
    <2>7. /\ i' = i + 1 /\ hdr' = hdr + 1 + mem[sid][hdr].size /\ file' = Append(file, mem[sid][hdr].id)
          /\ UNCHANGED <<cli_pc, cli_port, sid, need, tail, starts, taken>> /\ cli_pc = "dump"
      BY <1>5 DEF DumpRecord, cap
    <2>8. hdr' = Bound(sid, i + 1)'
      BY <2>6, <2>7 DEF Bound
    <2>9. Len(file) = i /\ need <= Len(taken[cli_port]) /\ \A k \in 1 .. i : file[k] = taken[cli_port][k]
      BY <2>7 DEF Copied
    <2>10. mem[sid][hdr].id \in -1 .. MaxPackets
      BY <1>5, CellTypes DEF DumpRecord, TypeOK
    <2>11. Len(file') = i + 1 /\ file'[i + 1] = taken[cli_port][i + 1] /\ \A k \in 1 .. i : file'[k] = file[k]
      BY <2>2, <2>5, <2>7, <2>9, <2>10
    <2>12. \A k \in 1 .. i + 1 : file'[k] = taken[cli_port][k]
      BY <2>2, <2>9, <2>11
    <2> QED
      BY <2>2, <2>3, <2>7, <2>8, <2>9, <2>11, <2>12 DEF Copied
  <1>6. CASE DumpDone
    <2>1. PICK d \in RxLcores : SocketOf[d] = sid /\ PortOf[d] = cli_port /\ Kept(d)
      BY <1>6, Filling DEF DumpDone
    <2>2. i \in Nat /\ need \in Nat /\ Len(taken[cli_port]) \in Nat /\ Len(starts[sid]) \in Nat
      BY <2>1, RecordTypes DEF TypeOK
    <2>3. nb_pkts[sid] = Len(taken[cli_port]) /\ Len(taken[cli_port]) <= Len(starts[sid])
      BY <2>1, <2>2 DEF Kept
    <2>4. cli_pc = "dump" /\ hdr = Bound(sid, i + 1) /\ need <= Len(taken[cli_port]) /\ i <= Len(taken[cli_port])
      BY <1>6 DEF DumpDone, Copied
    <2>5. ASSUME i < nb_pkts[sid] PROVE FALSE
      <3>1. i + 1 \in 1 .. Len(starts[sid])
        BY <2>2, <2>3, <2>5
      <3>2. hdr = starts[sid][i + 1]
        BY <2>4, <3>1 DEF Bound
      <3>3. hdr \in Cells /\ mem[sid][hdr].id > 0
        BY <2>1, <3>1, <3>2, RecordTypes DEF Kept, Chained
      <3> QED
        BY <1>6, <2>2, <2>3, <2>5, <3>3 DEF DumpDone
    <2>6. need <= i
      BY <2>2, <2>3, <2>4, <2>5
    <2> QED
      BY <1>6, <2>6 DEF DumpDone, Copied, cap
  <1>7. CASE DisableReset
    BY <1>7 DEF DisableReset, Copied
  <1>8. CASE DisableFlag
    BY <1>8 DEF DisableFlag, Copied
  <1> QED
    BY <1>1, <1>2, <1>3, <1>4, <1>5, <1>6, <1>7, <1>8

\* A burst that was finished has set used, and a record is counted after one
\* has taken room.
LEMMA DeathStep ==
  ASSUME SocketsAreSeparate, TypeOK, Places, Records, Deaths, Next
  PROVE  Deaths'
  <1>1. ~crashed
    BY DEF Next
  <1>2. CASE DumpRecord
    <2>1. PICK d \in RxLcores : SocketOf[d] = sid /\ PortOf[d] = cli_port /\ Kept(d)
      BY <1>2, Filling DEF DumpRecord
    <2>2. UNCHANGED <<used, rx_pc, sid>> /\ i < nb_pkts[sid] /\ i \in Nat
      BY <1>2 DEF DumpRecord, cap, rx, TypeOK
    <2>3. ASSUME crashed', rx_pc[d] = "poll" PROVE FALSE
      <3>1. used[sid] = 0 /\ tail[sid] = 0
        BY <1>2, <2>1, <2>3 DEF DumpRecord, Percentage, Kept
      <3>2. 1 \in 1 .. Len(starts[sid])
        <4>1. Len(starts[sid]) = nb_pkts[sid] /\ nb_pkts[sid] \in Nat
          BY <2>1, <2>3, Numbers DEF Kept
        <4> QED
          BY <2>2, <4>1
      <3>3. starts[sid][1] < tail[sid]
        <4>1. Chained(sid)
          BY <2>1 DEF Kept
        <4> QED
          BY <3>2, <4>1 DEF Chained
      <3>4. starts[sid][1] \in Cells
        BY <2>1, <3>2, RecordTypes
      <3>5. starts[sid][1] \in Nat
        BY <3>4, Lengths
      <3> QED
        BY <3>1, <3>3, <3>5
    <2>4. crashed' => used[sid] = 0
      BY <1>2 DEF DumpRecord, Percentage
    <2> QED
      BY <2>1, <2>2, <2>3, <2>4 DEF Deaths, InFirstBurst
  <1>3. CASE ~DumpRecord
    <2>1. crashed' = crashed
      BY <1>3 DEF Next, RxStep, CaptureBulk, WriteRecord, AdvanceTail, CountRecord, EndOfBurst, Enable,
         Disable, EnableTail, EnableFlag, DumpDone, DisableReset, DisableFlag, cli
    <2> QED
      BY <1>1, <2>1 DEF Deaths
  <1> QED
    BY <1>2, <1>3

-----------------------------------------------------------------------------
(***************************************************************************)
(* The theorems.                                                           *)
(***************************************************************************)

LEMMA IInvInit == Init => IInv
  <1> SUFFICES ASSUME Init PROVE IInv
    OBVIOUS
  <1>1. TypeOK
    BY TypeInit
  <1>2. \A c \in RxLcores : SocketOf[c] \in Sockets /\ PortOf[c] \in Ports /\ port[SocketOf[c]] = NoPort
    BY LcoreTypes DEF Init
  <1>3. Room
    BY <1>2, CaptureAssumption DEF Init, Room, CaptureAssumption
  <1>4. Places
    BY DEF Init, Places
  <1>5. Records
    BY <1>2, CaptureAssumption DEF Records, Live, CaptureAssumption
  <1>6. Copied
    BY DEF Init, Copied
  <1>7. Deaths
    BY DEF Init, Deaths
  <1> QED
    BY <1>1, <1>3, <1>4, <1>5, <1>6, <1>7 DEF IInv

LEMMA IInvStep == SocketsAreSeparate /\ Settled /\ IInv /\ [Next]_vars => IInv'
  <1> SUFFICES ASSUME SocketsAreSeparate, Settled, IInv, [Next]_vars PROVE IInv'
    OBVIOUS
  <1> USE DEF IInv
  <1>1. ASSUME Next, NEW c \in RxLcores, RxStep(c) PROVE IInv'
    BY <1>1, RxTypes, RxRoom, RxPlaces, RxRecords, RxCopied, DeathStep
  <1>2. CASE /\ Next
             /\ \/ \E p \in Ports : Enable(p) \/ Disable(p)
                \/ EnableTail \/ EnableFlag \/ DumpRecord \/ DumpDone \/ DisableReset \/ DisableFlag
    BY <1>2, CommandTypes, CommandRoom, CommandPlaces, CommandRecords, CommandCopied, DeathStep
  <1>3. CASE UNCHANGED vars
    BY <1>3 DEF vars, cap, rx, cli, TypeOK, Room, Fits, Places, Records, Live, Kept, Chained, Bound, Copied,
       Deaths, InFirstBurst
  <1> QED
    BY <1>1, <1>2, <1>3 DEF Next

LEMMA SoundBuffer == SocketsAreSeparate /\ IInv => BufferIsSound
  <1> SUFFICES ASSUME SocketsAreSeparate, IInv PROVE BufferIsSound
    OBVIOUS
  <1>1. RecordsAreLinked
    <2> SUFFICES ASSUME NEW c \in RxLcores, rx_pc[c] = "poll", PortOf[c] \in capturing, port[SocketOf[c]] = PortOf[c]
                 PROVE  Len(starts[SocketOf[c]]) = nb_pkts[SocketOf[c]] /\ Chained(SocketOf[c])
      BY DEF RecordsAreLinked
    <2>1. ~(cli_pc = "en_tail" /\ sid = SocketOf[c])
      BY DEF IInv, Places
    <2> QED
      BY <2>1 DEF IInv, Records, Live, Kept
  <1>2. OnePortPerSocket
    BY Homes DEF IInv, TypeOK, OnePortPerSocket, Home
  <1>3. EnabledIsCaptured
    <2> SUFFICES ASSUME cli_pc = "idle", NEW p \in capturing
                 PROVE  \E c \in RxLcores : PortOf[c] = p /\ port[SocketOf[c]] = p
      BY DEF EnabledIsCaptured
    <2>1. p \in Ports /\ port[Home(p)] = p
      BY DEF IInv, Places, TypeOK
    <2> QED
      BY <2>1, Homes
  <1> QED
    BY <1>1, <1>2, <1>3 DEF IInv, BufferIsSound

LEMMA SavedFile == IInv => SavedIsCaptured
  <1> SUFFICES ASSUME IInv, cli_pc = "reset"
               PROVE  IsPrefix(file, taken[cli_port]) /\ Len(file) >= need
    BY DEF SavedIsCaptured, IInv, Deaths
  <1>1. /\ file \in Seq(-1 .. MaxPackets) /\ i \in Nat /\ need \in Nat
        /\ taken[cli_port] \in Seq(1 .. MaxPackets)
    BY DEF IInv, TypeOK
  <1>2. /\ Len(file) = i /\ i <= Len(taken[cli_port]) /\ need <= i
        /\ \A k \in 1 .. i : file[k] = taken[cli_port][k]
    BY DEF IInv, Copied
  <1>3. SubSeq(file, 1, i) = SubSeq(taken[cli_port], 1, i)
    BY <1>1, <1>2
  <1> QED
    BY <1>1, <1>2, <1>3 DEF IsPrefix

\* commands.rst, "enable/disable capture": while a capture is enabled its buffer
\* is a chain of whole records, as many as it counts, a buffer belongs to one
\* port, and every enabled port has one that is filled.
THEOREM BuffersAreSound == SocketsAreSeparate /\ Settled /\ Spec => []BufferIsSound
  <1> SUFFICES ASSUME SocketsAreSeparate, Settled PROVE Spec => []BufferIsSound
    OBVIOUS
  <1>1. Init => IInv
    BY IInvInit
  <1>2. IInv /\ [Next]_vars => IInv'
    BY IInvStep
  <1>3. IInv => BufferIsSound
    BY SoundBuffer
  <1> QED
    BY <1>1, <1>2, <1>3, PTL DEF Spec

\* The file that disabling a capture writes holds the packets of the port in the
\* order in which they were captured, none left out, and all that had been
\* captured when the command came; the lcore goes on capturing meanwhile.  The
\* division by used kills the program only if no burst has been finished since
\* the capture was enabled and one is being written.
THEOREM FileIsCaptured == SocketsAreSeparate /\ Settled /\ Spec => []SavedIsCaptured
  <1> SUFFICES ASSUME SocketsAreSeparate, Settled PROVE Spec => []SavedIsCaptured
    OBVIOUS
  <1>1. Init => IInv
    BY IInvInit
  <1>2. IInv /\ [Next]_vars => IInv'
    BY IInvStep
  <1>3. IInv => SavedIsCaptured
    BY SavedFile
  <1> QED
    BY <1>1, <1>2, <1>3, PTL DEF Spec
=============================================================================
