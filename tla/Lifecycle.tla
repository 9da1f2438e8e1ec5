------------------------------ MODULE Lifecycle ------------------------------
(***************************************************************************)
(* The life of the program: its command line, the setup of the ports, the  *)
(* packet loops of the lcores, the commands that stop and start a device   *)
(* or change its rate, and the end.                                        *)
(*                                                                         *)
(* Three kinds of threads: the main thread, which is the console once the  *)
(* lcores run, the lcores, and the timer thread (TimerThread adds what it  *)
(* does).  What they share are port_flags, tx_cycles, timer_running and    *)
(* force_quit; a device is external, DeviceSetup says what it accepts.     *)
(* What a burst of packets contains, requests for special packets and the  *)
(* flush of bonded ports are left out.                                     *)
(***************************************************************************)
EXTENDS LcoreMap, DeviceSetup, FiniteSetsExt, Functions

CONSTANTS
    Sessions,   \* what the program is started with and what happens then
    MAX_TX_LAG, \* DEFAULT_MAX_TX_LAG
    Hz,         \* cycles per second
    MaxMaps,    \* RTE_MAX_ETHPORTS
    PcapMbufs   \* least number of mbufs of a pool: DEFAULT_TX_DESC * 4

ASSUME LifecycleAssumption == MAX_TX_LAG \in Nat /\ Hz \in Nat \ {0} /\ MaxMaps \in Nat /\ PcapMbufs \in Nat \ {0}

-----------------------------------------------------------------------------
(***************************************************************************)
(* The PCAP files a port replays (pktgen-pcap.c): what opening a file      *)
(* reads from it, and the mbufs that are written from its records.         *)
(*                                                                         *)
(* A file is a record: "swapped" if it was written with the other byte     *)
(* order, "valid" if its first word is the magic number in one of the two, *)
(* and "recs", the packets.  A packet has its length as the header stores  *)
(* it, the name of its data, and the bytes the file has of it: a file that *)
(* was cut has fewer than the length says in its last packet.  Lengths     *)
(* have 16 bits here.                                                      *)
(***************************************************************************)

Ntoh(n) == (n % 256) * 256 + n \div 256

\* pcap_convert and the end of pcap_get_info's magic: lengths as the host reads them
Convert(file, rec) == IF file.swapped THEN Ntoh(rec.len) ELSE rec.len

Lengths(file) == {Convert(file, file.recs[k]) : k \in DOMAIN file.recs}
TotalSize(file) == SumFunction([k \in DOMAIN file.recs |-> Convert(file, file.recs[k])])

\* pcap_get_info.  The average of no packets is a division by zero.
PcapGetInfo(file) ==
    [outcome |-> IF ~file.valid THEN "exit" ELSE IF file.recs = <<>> THEN "crash" ELSE "ok",
     pkt_count |-> Len(file.recs),
     max_pkt_size |-> IF file.recs = <<>> THEN 0 ELSE Max(Lengths(file)),
     avg_pkt_size |-> IF file.recs = <<>> THEN 0 ELSE TotalSize(file) \div Len(file.recs)]

\* mbuf_iterate_cb on the i-th mbuf: the next record, after the last the first.
RecordOf(file, i) == file.recs[((i - 1) % Len(file.recs)) + 1]
\* Mutant: the header that is read after the rewind is not converted.
MbufIterate_RewoundIsRaw(file, i) ==
    [data |-> RecordOf(file, i).data,
     len |-> IF i > 1 /\ (i - 1) % Len(file.recs) = 0 THEN RecordOf(file, i).len
             ELSE Convert(file, RecordOf(file, i))]

MbufIterate(file, i) ==
    LET rec == RecordOf(file, i) IN [data |-> rec.data, len |-> Convert(file, rec)]

Mbufs(file) == IF Len(file.recs) < PcapMbufs THEN PcapMbufs ELSE Len(file.recs)

\* One turn of pktgen_pcap_open.  Reading no data of a packet ends the program.
PcapOpen(file) ==
    LET info == PcapGetInfo(file)
        unread == \E k \in DOMAIN file.recs : k <= Mbufs(file) /\ file.recs[k].have = 0
    IN  [outcome |-> IF info.outcome = "ok" /\ unread THEN "exit" ELSE info.outcome,
         avg |-> info.avg_pkt_size,
         dataroom |-> info.max_pkt_size,
         mp |-> IF info.outcome = "ok" THEN [i \in 1 .. Mbufs(file) |-> MbufIterate(file, i)] ELSE <<>>]

\* The packets of a whole file are replayed in their order, over and over, each
\* with its length, and each fits in its mbuf.
Replays(file, opened) ==
    LET length(k) == IF file.swapped THEN (file.recs[k].len % 256) * 256 + file.recs[k].len \div 256
                     ELSE file.recs[k].len
    IN  /\ \A k \in DOMAIN file.recs : opened.mp[k] = [data |-> file.recs[k].data, len |-> length(k)]
        /\ \A i \in DOMAIN opened.mp : i > Len(file.recs) => opened.mp[i] = opened.mp[i - Len(file.recs)]
        /\ \A i \in DOMAIN opened.mp : opened.mp[i].len <= opened.dataroom

-----------------------------------------------------------------------------
(***************************************************************************)
(* The program.                                                            *)
(***************************************************************************)

VARIABLES
    session,       \* options, devices, link speeds, commands, the bound of time;
                   \* "live" are the lcores whose turns are looked at; if there are none,
                   \* the program is looked at until it has started
    main,          \* where the main thread is
    args,          \* what the command line set
    pcaps,         \* per port: its opened file
    dev,           \* per port: its device
    nb_desc,       \* nb_rxd and nb_txd
    timer,         \* the timer thread: "none", "created", "on", "off"
    timer_running, force_quit,
    core,          \* per lcore: its next step
    done,          \* lcores that have left their loop
    flags,         \* per port: SENDING, STOP_RECEIVING
    script, cmd,   \* commands to come; the step and port of the one under way
    tsc,           \* the cycle counter
    next,          \* per lcore: tx_next_cycle
    rate,          \* per port: tx_rate in hundredths of a percent
    cycles,        \* per port: tx_cycles
    link,          \* per port: pinfo->link.link_speed, 0 if it is down
    \* History, read by no step but WakeUp and Tick:
    passed,        \* lcores that began a turn since the console sleeps
    polled,        \* TX lcores that looked at tsc since it last changed
    paced          \* per port: tsc when tx_cycles last changed, and per lcore
                   \* next then and the bursts since

startup == <<session, args, pcaps, nb_desc>>
threads == <<timer, timer_running, force_quit, core, done>>
console == <<main, script, cmd>>
pace == <<tsc, next, rate, cycles, link, polled, paced>>
life == <<startup, threads, console, pace, dev, flags, passed>>
mapping == <<mappings, given, phase, l2p, pinfo, rx_pkts, tx_pkts>>

PortOf(l) == lports[l].port
TxLcores(p) == {l \in running : PortOf(l) = p /\ lports[l].mode \in Tx}
Matrix(options) ==
    LET maps == SelectSeq(options, LAMBDA o : o.opt = "m") IN [k \in DOMAIN maps |-> maps[k].arg]

NoAccount == [since |-> 0, next |-> [l \in Lcores |-> 0], bursts |-> [l \in Lcores |-> 0]]

LifeInit ==
    /\ \E s \in Sessions : session = s /\ InitWith(Matrix(s.options))
    /\ main = "args" /\ args = Defaults /\ pcaps = [p \in Ports |-> <<>>]
    /\ dev = [p \in Ports |-> [state |-> "none"]] /\ nb_desc = [rx |-> 0, tx |-> 0]
    /\ timer = "none" /\ timer_running = FALSE /\ force_quit = FALSE
    /\ core = [l \in Lcores |-> "top"] /\ done = {}
    /\ flags = [p \in Ports |-> {}]
    /\ script = session.commands /\ cmd = [step |-> "idle"]
    /\ tsc = 0 /\ next = [l \in Lcores |-> 0] /\ rate = [p \in Ports |-> 0]
    /\ cycles = rate /\ link = rate
    /\ passed = {} /\ polled = {}
    /\ paced = [p \in Ports |-> NoAccount]

-----------------------------------------------------------------------------
(***************************************************************************)
(* Startup.                                                                *)
(***************************************************************************)

Exit == phase' = "exit" /\ UNCHANGED <<mappings, given, l2p, pinfo, rx_pkts, tx_pkts, running>>

ParseArgs ==
    /\ main = "args" /\ phase = "parse"
    /\ \E a \in {FoldLeft(LAMBDA b, o : ParseOption(b, o, MaxMaps), Defaults, session.options)} :
        IF a.failed
        THEN Exit /\ UNCHANGED <<main, args, nb_desc>>
        ELSE /\ args' = a /\ nb_desc' = [rx |-> a.rxd, tx |-> a.txd] /\ main' = "mappings"
             /\ UNCHANGED <<mapping, running>>
    /\ UNCHANGED <<session, pcaps, threads, script, cmd, pace, dev, flags, passed>>

\* l2p_parse_mappings
ParseMappings ==
    /\ main = "mappings" /\ (ParseMapping \/ RefuseMapping)
    /\ UNCHANGED life

\* pktgen_pcap_open.  A file of a port without a mapping is read and forgotten.
OpenPcaps ==
    /\ main = "mappings" /\ phase = "parse" /\ mappings = <<>>
    /\ \E opened \in {[f \in args.pcaps |-> PcapOpen(f.file)]} :
        IF \E f \in args.pcaps : opened[f].outcome # "ok"
        THEN Exit /\ UNCHANGED <<main, pcaps>>
        ELSE /\ pcaps' = [p \in Ports |->
                    IF \E f \in args.pcaps : f.port = p /\ Mapped(p)
                    THEN opened[CHOOSE f \in args.pcaps : f.port = p] ELSE <<>>]
             /\ main' = "config" /\ UNCHANGED <<mapping, running>>
    /\ UNCHANGED <<session, args, nb_desc, threads, script, cmd, pace, dev, flags, passed>>

CheckMainLcore == main = "config" /\ CheckMain /\ UNCHANGED life

SetUpDevice(p) == InitializePort(NewDevice(session.info[p], args.flags, nb_desc.rx, nb_desc.tx),
                                 rxcnt[p], txcnt[p], rx_mp[p])

\* initialize_port_info; pktgen_port_defaults sets the rate to 100 percent, and
\* a link without a speed has no pace.
SetUpPort(p) ==
    /\ main = "config"
    /\ \E d \in {SetUpDevice(p)} :
        IF d.refused
        THEN /\ phase = "config" /\ p \notin pinfo /\ (\A o \in Ports : o < p => o \in pinfo) /\ Mapped(p)
             /\ dev' = [dev EXCEPT ![p] = d] /\ Exit
             /\ UNCHANGED <<nb_desc, rate>>
        ELSE /\ AllocatePortInfo(p)
             /\ dev' = [dev EXCEPT ![p] = d] /\ nb_desc' = [rx |-> d.nb_rxd, tx |-> d.nb_txd]
             /\ rate' = [rate EXCEPT ![p] = 10000]
    /\ UNCHANGED <<session, args, pcaps, threads, console, tsc, next, cycles, link, polled, paced,
                   flags, passed>>

RefusePort(p) == main = "config" /\ PanicOnPort(p) /\ UNCHANGED life

\* rte_eal_mp_remote_launch
LaunchLcores ==
    /\ main = "config" /\ ConfigDone /\ main' = "timer"
    /\ UNCHANGED <<startup, threads, script, cmd, pace, dev, flags, passed>>

\* The three loops begin; one that only transmits waits for a burst's time.
EnterLoop(l) ==
    /\ l \notin done /\ Launch(l)
    /\ next' = [next EXCEPT ![l] = tsc + (IF lports[l].mode = "tx" THEN cycles[PortOf(l)] ELSE 0)]
    /\ paced' = IF cycles[PortOf(l)] = 0 THEN paced ELSE [paced EXCEPT ![PortOf(l)].next[l] = next'[l]]
    /\ UNCHANGED <<startup, threads, console, tsc, rate, cycles, link, polled, dev, flags, passed>>

EnterWithoutPort(l) == LaunchWithoutPort(l) /\ UNCHANGED life

\* pktgen_timer_setup
TimerSetup ==
    /\ session.live # {}
    /\ main = "timer" /\ phase = "launch" /\ main' = "console" /\ timer' = "created"
    /\ UNCHANGED <<startup, timer_running, force_quit, core, done, script, cmd, pace, dev, flags, passed,
                   mapping, running>>

TimerStarts ==
    /\ timer = "created" /\ phase = "launch"
    /\ timer' = "on" /\ timer_running' = TRUE
    /\ UNCHANGED <<startup, force_quit, core, done, console, pace, dev, flags, passed, mapping, running>>

TimerEnds ==
    /\ timer = "on" /\ ~timer_running /\ phase = "launch"
    /\ timer' = "off"
    /\ UNCHANGED <<startup, timer_running, force_quit, core, done, console, pace, dev, flags, passed,
                   mapping, running>>

-----------------------------------------------------------------------------
(***************************************************************************)
(* The packet loops.                                                       *)
(***************************************************************************)

Goto(l, step) == core' = [core EXCEPT ![l] = step]

\* A turn begins: while (force_quit == 0), and pktgen_main_receive's test.
Turn(l) ==
    /\ phase = "launch" /\ l \in running \cap session.live /\ core[l] = "top" /\ ~force_quit
    /\ passed' = IF cmd.step = "asleep" THEN passed \cup {l} ELSE passed
    /\ \/ /\ lports[l].mode \in Rx /\ "STOP_RECEIVING" \notin flags[PortOf(l)] /\ Goto(l, "rx")
       \/ /\ lports[l].mode = "rx" /\ "STOP_RECEIVING" \in flags[PortOf(l)] /\ Goto(l, "top")
       \/ /\ lports[l].mode = "both" /\ "STOP_RECEIVING" \in flags[PortOf(l)] /\ Goto(l, "pace")
       \/ /\ lports[l].mode = "tx" /\ Goto(l, "pace")
    /\ UNCHANGED <<startup, timer, timer_running, force_quit, done, console, pace, dev, flags, mapping, running>>

LeaveLoop(l) ==
    /\ phase = "launch" /\ l \in running /\ core[l] = "top" /\ force_quit
    /\ running' = running \ {l} /\ done' = done \cup {l}
    /\ UNCHANGED <<startup, timer, timer_running, force_quit, core, console, pace, dev, flags, passed, mapping>>

\* rte_eth_rx_burst and what becomes of the packets
Receive(l) ==
    /\ phase = "launch" /\ core[l] = "rx"
    /\ Goto(l, IF lports[l].mode = "both" THEN "pace" ELSE "top")
    /\ UNCHANGED <<startup, timer, timer_running, force_quit, done, console, pace, dev, flags, passed,
                   mapping, running>>

\* Mutant: whatever was missed is made up for.
NextCycle_AlwaysCatchesUp(l, dt) == tsc + cycles[PortOf(l)] - dt

\* The burst that is late by dt: the next is due a whole number of intervals
\* after it was, unless it is too late for that.
NextCycle(l, dt) == tsc + cycles[PortOf(l)] - (IF dt <= MAX_TX_LAG THEN dt ELSE 0)
Pace(l) ==
    /\ phase = "launch" /\ core[l] = "pace"
    /\ polled' = IF cycles[PortOf(l)] > 0 THEN polled \cup {l} ELSE polled
    /\ IF tsc >= next[l]
       THEN /\ next' = [next EXCEPT ![l] = NextCycle(l, tsc - next[l])]
            /\ paced' = IF cycles[PortOf(l)] = 0 THEN paced
                        ELSE [paced EXCEPT ![PortOf(l)].bursts[l] = @ + 1]
            /\ Goto(l, IF "SENDING" \in flags[PortOf(l)] THEN "tx" ELSE "top")
       ELSE Goto(l, "top") /\ UNCHANGED <<next, paced>>
    /\ UNCHANGED <<startup, timer, timer_running, force_quit, done, console, tsc, rate, cycles, link,
                   dev, flags, passed, mapping, running>>

\* rte_eth_tx_burst
Transmit(l) ==
    /\ phase = "launch" /\ core[l] = "tx" /\ Goto(l, "top")
    /\ UNCHANGED <<startup, timer, timer_running, force_quit, done, console, pace, dev, flags, passed,
                   mapping, running>>

\* Time passes once the lcores run; in a steady session not before each lcore
\* that transmits looked at it.
Tick ==
    /\ Started /\ main = "console" /\ tsc < session.ticks
    /\ session.steady => \A p \in Ports : cycles[p] > 0 => TxLcores(p) \cap session.live \subseteq polled
    /\ tsc' = tsc + 1 /\ polled' = {}
    /\ UNCHANGED <<startup, threads, console, next, rate, cycles, link, paced, dev, flags, passed,
                   mapping, running>>

-----------------------------------------------------------------------------
(***************************************************************************)
(* The rate of a port.                                                     *)
(***************************************************************************)

\* pktgen_wire_size: 24 bytes more than the packet, or than the average of its
\* sequence or its file.
WireSize(p) == 8 * (24 + (IF pcaps[p] # <<>> THEN pcaps[p].avg ELSE session.pkt_size))

\* pktgen_packet_rate: the rate is divided among the queues, and the interval
\* is that of a burst of all of them.
PacketRate(p, speed, percent) ==
    IF speed = 0 \/ percent = 0 \/ txcnt[p] = 0 THEN 0
    ELSE LET rated == ((speed \div WireSize(p)) * percent) \div (10000 * txcnt[p])
             pps == IF rated > 0 THEN rated ELSE 1
         IN  (pps \div 2 + txcnt[p] * session.burst * Hz) \div pps

\* A new tx_cycles begins a new account of the port's bursts.
SetCycles(p, c) ==
    /\ cycles' = [cycles EXCEPT ![p] = c]
    /\ paced' = [paced EXCEPT ![p] = IF c = 0 THEN NoAccount ELSE [NoAccount EXCEPT !.since = tsc, !.next = next]]

\* pktgen_get_link_status: a change sets the pace anew.
GetLinkStatus(p, speed) ==
    /\ link' = [link EXCEPT ![p] = speed]
    /\ IF speed # link[p] THEN SetCycles(p, PacketRate(p, speed, rate[p]))
       ELSE UNCHANGED <<cycles, paced>>

\* The timer thread looks at the links once a second.
LookAtLink(p) ==
    /\ timer = "on" /\ timer_running /\ phase = "launch"
    /\ \E speed \in session.speeds[p] : speed # link[p] /\ GetLinkStatus(p, speed)
    /\ UNCHANGED <<startup, threads, console, tsc, next, rate, polled, dev, flags, passed, mapping, running>>

-----------------------------------------------------------------------------
(***************************************************************************)
(* The console.                                                            *)
(***************************************************************************)

Step(from, to) == cmd.step = from /\ cmd' = [cmd EXCEPT !.step = to]
Console == phase = "launch" /\ main = "console"

Command(what, first) ==
    /\ Console /\ cmd.step = "idle" /\ script # <<>> /\ Head(script).cmd = what
    /\ cmd' = [step |-> first, port |-> Head(script).port, arg |-> Head(script).arg]
    /\ script' = Tail(script)

SetFlag(p, flag, on) == flags' = [flags EXCEPT ![p] = IF on THEN @ \cup {flag} ELSE @ \ {flag}]

\* start and stop of the port: Transmit has their steps.
StartOrStop ==
    /\ Command("start", "idle") \/ Command("stop", "idle")
    /\ SetFlag(Head(script).port, "SENDING", Head(script).cmd = "start")
    /\ UNCHANGED <<startup, threads, main, pace, dev, passed, mapping, running>>

\* single_set_tx_rate: no pace, then the one of the new rate.
SetTxRate ==
    /\ Command("rate", "rate")
    /\ rate' = [rate EXCEPT ![cmd'.port] = Clamp(cmd'.arg, 1, 10000)]
    /\ SetCycles(cmd'.port, 0)
    /\ UNCHANGED <<startup, threads, main, tsc, next, link, polled, dev, flags, passed, mapping, running>>

SetRateDone ==
    /\ Console /\ Step("rate", "idle")
    /\ SetCycles(cmd.port, PacketRate(cmd.port, link[cmd.port], rate[cmd.port]))
    /\ UNCHANGED <<startup, threads, main, script, tsc, next, rate, link, polled, dev, flags, passed,
                   mapping, running>>

\* Mutant: packets are received while the device is stopped.
Restart_Receiving ==
    /\ Command("restart", "restart_stop")
    /\ UNCHANGED <<startup, threads, main, pace, dev, flags, passed, mapping, running>>

\* pktgen_port_restart
Restart ==
    /\ Command("restart", "restart_stop")
    /\ SetFlag(Head(script).port, "STOP_RECEIVING", TRUE)
    /\ UNCHANGED <<startup, threads, main, pace, dev, passed, mapping, running>>

RestartStopsTransmitting ==
    /\ Console /\ Step("restart_stop", "asleep") /\ SetFlag(cmd.port, "SENDING", FALSE)
    /\ passed' = {}
    /\ UNCHANGED <<startup, threads, main, script, pace, dev, mapping, running>>

\* 10 ms are longer than what is left of the turn of any lcore.
WakeUp ==
    /\ Console /\ Step("asleep", "restart_start")
    /\ \A l \in running : PortOf(l) = cmd.port => l \in passed /\ core[l] = "top"
    /\ dev' = [dev EXCEPT ![cmd.port].state = "stopped"]
    /\ UNCHANGED <<startup, threads, main, script, pace, flags, passed, mapping, running>>

RestartStarts ==
    /\ Console /\ Step("restart_start", "restart_receive")
    /\ dev' = [dev EXCEPT ![cmd.port].state = "started"]
    /\ UNCHANGED <<startup, threads, main, script, pace, flags, passed, mapping, running>>

RestartReceives ==
    /\ Console /\ Step("restart_receive", "idle") /\ SetFlag(cmd.port, "STOP_RECEIVING", FALSE)
    /\ UNCHANGED <<startup, threads, main, script, pace, dev, passed, mapping, running>>

-----------------------------------------------------------------------------
(***************************************************************************)
(* The end.                                                                *)
(***************************************************************************)

\* pktgen_stop_running: the timer is told first.  A timer thread that had not
\* started by then sets timer_running again.
StopTimer ==
    /\ Console /\ cmd.step = "idle" /\ script = <<>>
    /\ main' = "quit" /\ timer_running' = FALSE
    /\ UNCHANGED <<startup, timer, force_quit, core, done, script, cmd, pace, dev, flags, passed, mapping, running>>

\* Mutant: only the timer thread is told.
ForceQuit_TellsNoLcore ==
    /\ main = "quit" /\ main' = "wait"
    /\ UNCHANGED <<startup, threads, script, cmd, pace, dev, flags, passed, mapping, running>>

ForceQuit ==
    /\ main = "quit" /\ main' = "wait" /\ force_quit' = TRUE
    /\ UNCHANGED <<startup, timer, timer_running, core, done, script, cmd, pace, dev, flags, passed, mapping, running>>

\* rte_eal_mp_wait_lcore: also lcores that have yet to enter their loop
WaitLcores ==
    /\ main = "wait" /\ phase = "launch"
    /\ \A l \in Lcores \ {MainLcore} : lports[l] # Unused => l \in done
    /\ main' = "stop"
    /\ UNCHANGED <<startup, threads, script, cmd, pace, dev, flags, passed, mapping, running>>

StopDevice(p) ==
    /\ main = "stop" /\ phase = "launch"
    /\ dev[p].state = "started" /\ \A o \in Ports : o < p => dev[o].state = "stopped"
    /\ dev' = [dev EXCEPT ![p].state = "stopped"]
    /\ UNCHANGED <<startup, threads, console, pace, flags, passed, mapping, running>>

Destroy ==
    /\ main = "stop" /\ phase = "launch" /\ \A p \in Ports : dev[p].state = "stopped"
    /\ main' = "gone" /\ Exit
    /\ UNCHANGED <<startup, threads, script, cmd, pace, dev, flags, passed>>

Startup ==
    \/ ParseArgs \/ ParseMappings \/ OpenPcaps \/ CheckMainLcore \/ LaunchLcores \/ TimerSetup
    \/ \E p \in Ports : SetUpPort(p) \/ RefusePort(p)
Loops == \E l \in Lcores :
    \/ EnterLoop(l) \/ EnterWithoutPort(l) \/ Turn(l) \/ LeaveLoop(l)
    \/ Receive(l) \/ Pace(l) \/ Transmit(l)
Commands ==
    \/ StartOrStop \/ SetTxRate \/ SetRateDone
    \/ Restart \/ RestartStopsTransmitting \/ WakeUp \/ RestartStarts \/ RestartReceives
End == StopTimer \/ ForceQuit \/ WaitLcores \/ Destroy \/ \E p \in Ports : StopDevice(p)

LifeNext ==
    \/ Startup \/ Loops \/ Commands \/ End
    \/ TimerStarts \/ TimerEnds \/ Tick
    \/ \E p \in Ports : LookAtLink(p)

LifeSpec == LifeInit /\ [][LifeNext]_<<mapping, running, life>>
\* The main thread goes on, and so does each lcore: what NICs do is not up to it.
FairLife ==
    /\ LifeSpec /\ WF_<<mapping, running, life>>(End)
    /\ \A l \in Lcores : WF_<<mapping, running, life>>(
        EnterLoop(l) \/ Turn(l) \/ LeaveLoop(l) \/ Receive(l) \/ Pace(l) \/ Transmit(l))

-----------------------------------------------------------------------------
(***************************************************************************)
(* Properties.                                                             *)
(***************************************************************************)

\* Whatever the limits of a device that describes itself are, startup asks for
\* nothing it refuses, except for more queues than it has.
StartupIsAccepted ==
    \A p \in Ports :
        /\ dev[p].state # "none" /\ Describes(session.info[p])
        /\ rxcnt[p] + txcnt[p] > 0
        /\ rxcnt[p] <= session.info[p].max_rx_queues /\ txcnt[p] <= session.info[p].max_tx_queues
        => ~dev[p].refused

\* A file whose packets are whole is replayed as it is, over and over.
FilesAreReplayed ==
    \A f \in args.pcaps :
        /\ f.port \in Ports /\ pcaps[f.port] # <<>>
        /\ \A k \in DOMAIN f.file.recs : f.file.recs[k].have = Convert(f.file, f.file.recs[k])
        => Replays(f.file, pcaps[f.port])

\* An lcore is in a burst of a device, or about to be, only while the device is
\* started: restart and quit stop it when no lcore uses it.
DevicesRunWhenUsed ==
    phase = "launch" => \A l \in running : core[l] \in {"rx", "tx"} => dev[PortOf(l)].state = "started"

\* Devices are asked for what they have, and used while they run.
DevicesAreUsedWell == StartupIsAccepted /\ DevicesRunWhenUsed

\* An lcore does not send more bursts than its interval allows for the time
\* since the interval was set, except to make up for at most MAX_TX_LAG; and in
\* a steady session not fewer.
PaceIsKept ==
    phase = "launch" => \A p \in Ports : cycles[p] > 0 => \A l \in TxLcores(p) :
        LET account == paced[p]
            start == IF account.next[l] > account.since THEN account.next[l] ELSE account.since
        IN  /\ (account.bursts[l] - 1) * cycles[p] <= tsc - account.since + MAX_TX_LAG
            /\ session.steady /\ l \in polled /\ tsc >= start
               => account.bursts[l] * cycles[p] >= tsc - start

\* Once the program is told to end it does, whatever its lcores were doing, also
\* those that have not entered their loops.
QuitEnds == (main = "quit") ~> (main = "gone")
=============================================================================
