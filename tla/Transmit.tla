------------------------------- MODULE Transmit -------------------------------
(***************************************************************************)
(* Starting, running and stopping packet transmission on one port.         *)
(*                                                                         *)
(* Commanders are the threads that execute commands: the interactive CLI   *)
(* and the Lua socket server.  They talk to the TX lcores of the port only *)
(* through the atomic words of port_info_t: port_flags, transmit_count and *)
(* current_tx_count, and through tx_burst, a plain field.  Each read or    *)
(* compare-and-set of one of them is one step of the thread that does it.  *)
(*                                                                         *)
(* TX lcore q owns TX queue q.  The NIC and the mbuf pools are external:   *)
(* a pool is the number of its free mbufs, a TX descriptor ring the number *)
(* of mbufs waiting in it.                                                 *)
(***************************************************************************)
EXTENDS Integers, FiniteSets, Functions

CONSTANTS
    Commanders,   \* threads that execute start, stop, prime, reset, set
    TxCnt,        \* number of TX queues of the port (l2p_get_txcnt)
    PcapMode,     \* TRUE: SEND_PCAP_PKTS is set, all queues share pcap->mp
    PoolSize,     \* mbufs of one pool
    RingSize,     \* TX descriptors of one queue
    Bursts,       \* the values the burst command may set
    DefaultBurst, \* DEFAULT_PKT_TX_BURST
    Counts,       \* the values the count command may set; 0 is "forever"
    PrimeCount,   \* pinfo->prime_cnt
    MaxConfig,    \* bound on changes of the packet templates
    MaxCommands,  \* bound on the commands executed
    Settled       \* TRUE: start and prime wait for the last run, see MayStart

TxQueues == 0 .. TxCnt - 1
Pools == IF PcapMode THEN {0} ELSE TxQueues
PoolOf(q) == IF PcapMode THEN 0 ELSE q

ASSUME ConstantsAssumption ==
    /\ TxCnt \in Nat \ {0} /\ PcapMode \in BOOLEAN /\ Settled \in BOOLEAN
    /\ PoolSize \in Nat /\ RingSize \in Nat \ {0}
    /\ Bursts \subseteq Nat \ {0} /\ DefaultBurst \in Bursts
    /\ Counts \subseteq Nat /\ PrimeCount \in Nat \ {0}
    /\ MaxConfig \in Nat /\ MaxCommands \in Nat

Flags == {"SENDING_PACKETS", "SEND_FOREVER", "SETUP_TRANSMIT_PKTS"}

CorePCs == {"test_sending", "test_forever", "draw", "cap", "clear_sending",
            "get_bulk", "tx_burst"}

StartPCs == {"start_test", "start_count", "start_forever", "start_setup",
             "setup_test", "setup_clear", "setup_pool", "start_sending"}
StopPCs == {"stop_test", "stop_clear"}
ResetPCs == {"reset_count", "reset_current", "reset_burst"}
CmdPCs == {"idle", "prime_sending"} \cup StartPCs \cup StopPCs \cup ResetPCs

VARIABLES
    port_flags,       \* the flags set in pinfo->port_flags
    transmit_count,   \* packets per run, 0 is "forever"
    current_tx_count, \* packets left to draw in this run
    tx_burst,         \* packets per burst
    config,           \* version of the packet templates in seq_pkt
    built,            \* built[p]: version the mbufs of pool p were written from
    cmd_pc, cmd_q,    \* per commander: next step, next TX queue to set up
    cmd_then,         \* per commander: where stop_transmitting returns to
    core_pc,          \* per TX lcore: next step
    n,                \* per TX lcore: txCnt, the packets of its burst
    free,             \* per pool: mbufs free
    ring,             \* per TX queue: mbufs handed to the NIC, not yet freed
    commands,         \* commands executed, at most MaxCommands
    \* History, read by no step:
    asked,     \* count the last start loaded
    run,       \* "on" from the end of a start or prime to the next stop command
    issued,    \* packets put in current_tx_count minus those overwritten
    counted,   \* the TX lcores whose n packets were drawn from current_tx_count
    handed,    \* packets drawn and given to tx_send_packets
    lost,      \* packets drawn and never given to tx_send_packets
    late       \* per TX lcore: bursts since SENDING_PACKETS was cleared

shared == <<port_flags, transmit_count, current_tx_count, tx_burst>>
packets == <<config, built>>
commander == <<cmd_pc, cmd_q, cmd_then, commands>>
lcore == <<core_pc, n>>
buffers == <<free, ring>>
history == <<asked, run, issued, counted, handed, lost, late>>
vars == <<shared, packets, commander, lcore, buffers, history>>

Tst(f) == f \in port_flags
MinOf(a, b) == IF a < b THEN a ELSE b

TypeOK ==
    /\ port_flags \subseteq Flags
    /\ transmit_count \in Nat /\ current_tx_count \in Nat /\ tx_burst \in Nat
    /\ config \in Nat /\ built \in [Pools -> Nat]
    /\ cmd_pc \in [Commanders -> CmdPCs]
    /\ cmd_q \in [Commanders -> 0 .. TxCnt]
    /\ cmd_then \in [Commanders -> {"idle", "reset_count"}]
    /\ core_pc \in [TxQueues -> CorePCs]
    /\ n \in [TxQueues -> Nat]
    /\ free \in [Pools -> Nat] /\ ring \in [TxQueues -> 0 .. RingSize]
    /\ commands \in 0 .. MaxCommands
    /\ asked \in Nat /\ run \in {"on", "off"}
    /\ issued \in Int /\ handed \in Nat /\ lost \in Int
    /\ counted \subseteq TxQueues /\ late \in [TxQueues -> Nat]

\* pktgen_port_defaults and allocate_port_info have run, nothing is sent yet.
Init ==
    /\ port_flags = {}
    /\ transmit_count = 0 /\ current_tx_count = 0 /\ tx_burst = DefaultBurst
    /\ config = 1 /\ built = [p \in Pools |-> IF PcapMode THEN 1 ELSE 0]
    /\ cmd_pc = [m \in Commanders |-> "idle"]
    /\ cmd_q = [m \in Commanders |-> 0]
    /\ cmd_then = [m \in Commanders |-> "idle"]
    /\ core_pc = [q \in TxQueues |-> "test_sending"]
    /\ n = [q \in TxQueues |-> 0]
    /\ free = [p \in Pools |-> PoolSize]
    /\ ring = [q \in TxQueues |-> 0]
    /\ commands = 0
    /\ asked = 0 /\ run = "off" /\ issued = 0 /\ handed = 0 /\ lost = 0
    /\ counted = {} /\ late = [q \in TxQueues |-> 0]

-----------------------------------------------------------------------------
(***************************************************************************)
(* The commanders.                                                         *)
(***************************************************************************)

CmdStep(m, from, to) == cmd_pc[m] = from /\ cmd_pc' = [cmd_pc EXCEPT ![m] = to]

\* Setting SENDING_PACKETS opens a new window for the late-burst history.
SetSending ==
    /\ port_flags' = port_flags \cup {"SENDING_PACKETS"}
    /\ late' = [q \in TxQueues |-> 0]

NoLcoreInABurst == \A q \in TxQueues : core_pc[q] = "test_sending"

\* What a careful user waits for: the last run is over, its last bursts too,
\* or the port sends for ever and start changes nothing.
MayStart ==
    Settled => \/ Tst("SEND_FOREVER")
               \/ NoLcoreInABurst /\ ~Tst("SENDING_PACKETS")

\* The dispatch of one command: the first step of it is still to come.
Command(m, to, then) ==
    /\ commands < MaxCommands
    /\ CmdStep(m, "idle", to)
    /\ cmd_then' = [cmd_then EXCEPT ![m] = then]
    /\ commands' = commands + 1
    /\ UNCHANGED cmd_q

StartCommand(m) ==
    /\ MayStart
    /\ Command(m, "start_test", "idle")
    /\ UNCHANGED <<shared, packets, lcore, buffers, history>>

StopCommand(m) ==
    /\ Command(m, "stop_test", "idle")
    /\ run' = "off"
    /\ UNCHANGED <<shared, packets, lcore, buffers, asked, issued, counted,
                   handed, lost, late>>

ResetCommand(m) ==
    /\ Command(m, "stop_test", "reset_count")
    /\ run' = "off"
    /\ UNCHANGED <<shared, packets, lcore, buffers, asked, issued, counted, handed,
                   lost, late>>

\* pktgen_prime_ports: current_tx_count is set, then SENDING_PACKETS.
PrimeCommand(m) ==
    /\ MayStart
    /\ Command(m, "prime_sending", "idle")
    /\ issued' = issued + PrimeCount - current_tx_count
    /\ current_tx_count' = PrimeCount
    /\ asked' = IF Tst("SENDING_PACKETS") THEN asked ELSE PrimeCount
    /\ UNCHANGED <<port_flags, transmit_count, tx_burst, packets, lcore, buffers,
                   run, counted, handed, lost, late>>

PrimeSending(m) ==
    /\ CmdStep(m, "prime_sending", "idle")
    /\ SetSending
    /\ run' = "on"
    /\ UNCHANGED <<transmit_count, current_tx_count, tx_burst, packets, cmd_q, cmd_then,
                   commands, lcore, buffers, asked, issued, counted, handed, lost>>

\* single_set_tx_count
SetTxCount(m, c) ==
    /\ Command(m, "idle", "idle")
    /\ transmit_count' = c
    /\ UNCHANGED <<port_flags, current_tx_count, tx_burst, packets, lcore, buffers, history>>

\* single_set_tx_burst; b is already forced into 1 .. MAX_PKT_TX_BURST
SetTxBurst(m, b) ==
    /\ Command(m, "idle", "idle")
    /\ tx_burst' = b
    /\ UNCHANGED <<port_flags, transmit_count, current_tx_count, packets, lcore, buffers,
                   history>>

\* A set command that edits the packet templates, e.g. single_set_pkt_size
SetPacket(m) ==
    /\ config < MaxConfig
    /\ Command(m, "idle", "idle")
    /\ config' = config + 1
    /\ UNCHANGED <<shared, built, lcore, buffers, history>>

\* pktgen_start_transmitting, one atomic access at a time
StartTest(m) ==
    /\ CmdStep(m, "start_test", IF Tst("SENDING_PACKETS") THEN "idle" ELSE "start_count")
    /\ UNCHANGED <<shared, packets, cmd_q, cmd_then, commands, lcore, buffers, history>>

StartCount(m) ==
    /\ CmdStep(m, "start_count", "start_forever")
    /\ issued' = issued + transmit_count - current_tx_count
    /\ current_tx_count' = transmit_count
    /\ asked' = transmit_count
    /\ UNCHANGED <<port_flags, transmit_count, tx_burst, packets, cmd_q, cmd_then, commands,
                   lcore, buffers, run, counted, handed, lost, late>>

StartForever(m) ==
    /\ CmdStep(m, "start_forever", "start_setup")
    /\ port_flags' = IF current_tx_count = 0 THEN port_flags \cup {"SEND_FOREVER"}
                                             ELSE port_flags
    /\ UNCHANGED <<transmit_count, current_tx_count, tx_burst, packets, cmd_q, cmd_then,
                   commands, lcore, buffers, history>>

StartSetup(m) ==
    /\ CmdStep(m, "start_setup", "setup_test")
    /\ port_flags' = port_flags \cup {"SETUP_TRANSMIT_PKTS"}
    /\ UNCHANGED <<transmit_count, current_tx_count, tx_burst, packets, cmd_q, cmd_then,
                   commands, lcore, buffers, history>>

StartSending(m) ==
    /\ CmdStep(m, "start_sending", "idle")
    /\ SetSending
    /\ run' = "on"
    /\ UNCHANGED <<transmit_count, current_tx_count, tx_burst, packets, cmd_q, cmd_then,
                   commands, lcore, buffers, asked, issued, counted, handed, lost>>

\* pktgen_setup_packets
SetupTest(m) ==
    /\ CmdStep(m, "setup_test",
               IF Tst("SETUP_TRANSMIT_PKTS") THEN "setup_clear" ELSE "start_sending")
    /\ UNCHANGED <<shared, packets, cmd_q, cmd_then, commands, lcore, buffers, history>>

SetupClear(m) ==
    /\ CmdStep(m, "setup_clear", IF PcapMode THEN "start_sending" ELSE "setup_pool")
    /\ port_flags' = port_flags \ {"SETUP_TRANSMIT_PKTS"}
    /\ cmd_q' = [cmd_q EXCEPT ![m] = 0]
    /\ UNCHANGED <<transmit_count, current_tx_count, tx_burst, packets, cmd_then, commands,
                   lcore, buffers, history>>

\* Mutant: the last queue is left out.
SetupPool_SkipsLast(m) ==
    LET q == cmd_q[m] IN
    /\ q \in TxQueues
    /\ CmdStep(m, "setup_pool", IF q + 2 < TxCnt THEN "setup_pool" ELSE "start_sending")
    /\ built' = [built EXCEPT ![PoolOf(q)] = config]
    /\ cmd_q' = [cmd_q EXCEPT ![m] = q + 1]
    /\ UNCHANGED <<shared, config, cmd_then, commands, lcore, buffers, history>>

\* rte_mempool_obj_iter rewrites every mbuf of the pool of the next TX queue
SetupPool(m) ==
    LET q == cmd_q[m] IN
    /\ q \in TxQueues
    /\ CmdStep(m, "setup_pool", IF q + 1 < TxCnt THEN "setup_pool" ELSE "start_sending")
    /\ built' = [built EXCEPT ![PoolOf(q)] = config]
    /\ cmd_q' = [cmd_q EXCEPT ![m] = q + 1]
    /\ UNCHANGED <<shared, config, cmd_then, commands, lcore, buffers, history>>

\* pktgen_stop_transmitting
StopTest(m) ==
    /\ CmdStep(m, "stop_test", IF Tst("SENDING_PACKETS") THEN "stop_clear" ELSE cmd_then[m])
    /\ UNCHANGED <<shared, packets, cmd_q, cmd_then, commands, lcore, buffers, history>>

StopClear(m) ==
    /\ CmdStep(m, "stop_clear", cmd_then[m])
    /\ port_flags' = port_flags \ {"SENDING_PACKETS", "SEND_FOREVER"}
    /\ UNCHANGED <<transmit_count, current_tx_count, tx_burst, packets, cmd_q, cmd_then,
                   commands, lcore, buffers, history>>

\* The rest of pktgen_reset that touches this state: pktgen_port_defaults
ResetCount(m) ==
    /\ CmdStep(m, "reset_count", "reset_current")
    /\ transmit_count' = 0
    /\ UNCHANGED <<port_flags, current_tx_count, tx_burst, packets, cmd_q, cmd_then, commands,
                   lcore, buffers, history>>

ResetCurrent(m) ==
    /\ CmdStep(m, "reset_current", "reset_burst")
    /\ issued' = issued - current_tx_count
    /\ current_tx_count' = 0
    /\ UNCHANGED <<port_flags, transmit_count, tx_burst, packets, cmd_q, cmd_then, commands,
                   lcore, buffers, asked, run, counted, handed, lost, late>>

ResetBurst(m) ==
    /\ CmdStep(m, "reset_burst", "idle")
    /\ tx_burst' = DefaultBurst
    /\ UNCHANGED <<port_flags, transmit_count, current_tx_count, packets, cmd_q, cmd_then,
                   commands, lcore, buffers, history>>

CommanderStep(m) ==
    \/ StartCommand(m) \/ StopCommand(m) \/ ResetCommand(m) \/ PrimeCommand(m)
    \/ \E c \in Counts : SetTxCount(m, c)
    \/ \E b \in Bursts : SetTxBurst(m, b)
    \/ SetPacket(m)
    \/ StartTest(m) \/ StartCount(m) \/ StartForever(m) \/ StartSetup(m) \/ StartSending(m)
    \/ SetupTest(m) \/ SetupClear(m) \/ SetupPool(m)
    \/ StopTest(m) \/ StopClear(m) \/ PrimeSending(m)
    \/ ResetCount(m) \/ ResetCurrent(m) \/ ResetBurst(m)

-----------------------------------------------------------------------------
(***************************************************************************)
(* A TX lcore: pktgen_main_transmit and pktgen_send_pkts.                  *)
(***************************************************************************)

CoreStep(q, from, to) == core_pc[q] = from /\ core_pc' = [core_pc EXCEPT ![q] = to]

\* Between two bursts the lcore polls SENDING_PACKETS; when it is clear the
\* step changes nothing.
TestSending(q) ==
    /\ Tst("SENDING_PACKETS")
    /\ CoreStep(q, "test_sending", "test_forever")
    /\ UNCHANGED <<shared, packets, commander, n, buffers, history>>

\* tx_burst is read here, as an argument or as the size of the burst.
TestForever(q) ==
    /\ CoreStep(q, "test_forever", IF Tst("SEND_FOREVER") THEN "get_bulk" ELSE "draw")
    /\ n' = [n EXCEPT ![q] = tx_burst]
    /\ UNCHANGED <<shared, packets, commander, buffers, history>>

\* Mutant: a short tail of the count is taken for an empty one.
Draw_ShortTail(q) ==
    LET k == IF current_tx_count < n[q] THEN 0 ELSE n[q] IN
    /\ CoreStep(q, "draw", IF k = 0 THEN "clear_sending" ELSE "cap")
    /\ current_tx_count' = current_tx_count - k
    /\ n' = [n EXCEPT ![q] = k]
    /\ counted' = IF k > 0 THEN counted \cup {q} ELSE counted
    /\ UNCHANGED <<port_flags, transmit_count, tx_burst, packets, commander, buffers,
                   asked, run, issued, handed, lost, late>>

\* Mutant: a full burst is drawn from a count that is smaller.
Draw_NoMinimum(q) ==
    LET k == IF current_tx_count = 0 THEN 0 ELSE n[q] IN
    /\ CoreStep(q, "draw", IF current_tx_count = 0 THEN "clear_sending" ELSE "cap")
    /\ current_tx_count' = current_tx_count - MinOf(k, current_tx_count)
    /\ n' = [n EXCEPT ![q] = k]
    /\ counted' = IF k > 0 THEN counted \cup {q} ELSE counted
    /\ UNCHANGED <<port_flags, transmit_count, tx_burst, packets, commander, buffers,
                   asked, run, issued, handed, lost, late>>

\* pkt_atomic64_tx_count: the compare-and-set that succeeds
Draw(q) ==
    LET k == MinOf(n[q], current_tx_count) IN
    /\ CoreStep(q, "draw", IF current_tx_count = 0 THEN "clear_sending" ELSE "cap")
    /\ current_tx_count' = current_tx_count - k
    /\ n' = [n EXCEPT ![q] = k]
    /\ counted' = IF k > 0 THEN counted \cup {q} ELSE counted
    /\ UNCHANGED <<port_flags, transmit_count, tx_burst, packets, commander, buffers,
                   asked, run, issued, handed, lost, late>>

ClearSending(q) ==
    /\ CoreStep(q, "clear_sending", "test_sending")
    /\ port_flags' = port_flags \ {"SENDING_PACKETS"}
    /\ UNCHANGED <<transmit_count, current_tx_count, tx_burst, packets, commander, n, buffers,
                   history>>

\* Mutant: a burst is cut one packet short.
Cap_OffByOne(q) ==
    LET k == MinOf(n[q], tx_burst - 1) IN
    /\ CoreStep(q, "cap", "get_bulk")
    /\ n' = [n EXCEPT ![q] = k]
    /\ lost' = lost + n[q] - k
    /\ UNCHANGED <<shared, packets, commander, buffers, asked, run, issued, counted,
                   handed, late>>

\* "if (txCnt > pinfo->tx_burst) txCnt = pinfo->tx_burst"
Cap(q) ==
    LET k == MinOf(n[q], tx_burst) IN
    /\ CoreStep(q, "cap", "get_bulk")
    /\ n' = [n EXCEPT ![q] = k]
    /\ lost' = lost + n[q] - k
    /\ UNCHANGED <<shared, packets, commander, buffers, asked, run, issued, counted,
                   handed, late>>

\* rte_mempool_get_bulk gives all n mbufs or none; none ends this burst.
GetBulk(q) ==
    /\ n[q] <= free[PoolOf(q)]
    /\ CoreStep(q, "get_bulk", "tx_burst")
    /\ free' = [free EXCEPT ![PoolOf(q)] = @ - n[q]]
    /\ late' = IF Tst("SENDING_PACKETS") THEN late ELSE [late EXCEPT ![q] = @ + 1]
    /\ handed' = IF q \in counted THEN handed + n[q] ELSE handed
    /\ counted' = counted \ {q}
    /\ UNCHANGED <<shared, packets, commander, n, ring, asked, run, issued, lost>>

GetBulkFails(q) ==
    /\ n[q] > free[PoolOf(q)]
    /\ CoreStep(q, "get_bulk", "test_sending")
    /\ n' = [n EXCEPT ![q] = 0]
    /\ lost' = IF q \in counted THEN lost + n[q] ELSE lost
    /\ counted' = counted \ {q}
    /\ UNCHANGED <<shared, packets, commander, buffers, asked, run, issued, handed, late>>

\* Mutant: the lcore does not look at SENDING_PACKETS again.
TxBurst_NoRetest(q) ==
    \E k \in 1 .. MinOf(n[q], RingSize - ring[q]) :
        /\ CoreStep(q, "tx_burst", IF k = n[q] THEN "test_forever" ELSE "tx_burst")
        /\ n' = [n EXCEPT ![q] = @ - k]
        /\ ring' = [ring EXCEPT ![q] = @ + k]
        /\ UNCHANGED <<shared, packets, commander, free, history>>

\* Mutant: the whole burst is offered again after a part was accepted.
TxBurst_Resends(q) ==
    \E k \in 1 .. MinOf(n[q], RingSize - ring[q]) :
        /\ CoreStep(q, "tx_burst", IF k = n[q] THEN "test_sending" ELSE "tx_burst")
        /\ n' = [n EXCEPT ![q] = IF k = @ THEN 0 ELSE @]
        /\ ring' = [ring EXCEPT ![q] = @ + k]
        /\ UNCHANGED <<shared, packets, commander, free, history>>

\* Mutant: the lcore insists on a ring with room for the whole burst.
TxBurst_AllOrNothing(q) ==
    /\ n[q] <= RingSize - ring[q]
    /\ CoreStep(q, "tx_burst", "test_sending")
    /\ n' = [n EXCEPT ![q] = 0]
    /\ ring' = [ring EXCEPT ![q] = @ + n[q]]
    /\ UNCHANGED <<shared, packets, commander, free, history>>

\* tx_send_packets: rte_eth_tx_burst accepts what fits and is called again
\* for the rest; a full ring accepts nothing.
TxBurst(q) ==
    \E k \in 1 .. MinOf(n[q], RingSize - ring[q]) :
        /\ CoreStep(q, "tx_burst", IF k = n[q] THEN "test_sending" ELSE "tx_burst")
        /\ n' = [n EXCEPT ![q] = @ - k]
        /\ ring' = [ring EXCEPT ![q] = @ + k]
        /\ UNCHANGED <<shared, packets, commander, free, history>>

TxCoreStep(q) ==
    \/ TestSending(q) \/ TestForever(q) \/ Draw(q) \/ ClearSending(q) \/ Cap(q)
    \/ GetBulk(q) \/ GetBulkFails(q) \/ TxBurst(q)

\* The NIC puts one packet of queue q on the wire and its mbuf goes back.
NicTransmit(q) ==
    /\ ring[q] > 0
    /\ ring' = [ring EXCEPT ![q] = @ - 1]
    /\ free' = [free EXCEPT ![PoolOf(q)] = @ + 1]
    /\ UNCHANGED <<shared, packets, commander, lcore, history>>

Next ==
    \/ \E m \in Commanders : CommanderStep(m)
    \/ \E q \in TxQueues : TxCoreStep(q) \/ NicTransmit(q)

Spec == Init /\ [][Next]_vars

\* The lcores poll for ever, the NIC transmits, and a command once begun
\* runs to its end; nobody has to type a command.
Fairness ==
    /\ \A q \in TxQueues : WF_vars(TxCoreStep(q)) /\ WF_vars(NicTransmit(q))
    /\ \A m \in Commanders : WF_vars(cmd_pc[m] # "idle" /\ CommanderStep(m))

FairSpec == Spec /\ Fairness

-----------------------------------------------------------------------------
(***************************************************************************)
(* Safety.                                                                 *)
(***************************************************************************)

InHand(q) == IF q \in counted THEN n[q] ELSE 0
InBurst(q) == IF core_pc[q] = "tx_burst" THEN n[q] ELSE 0
Hands == [q \in TxQueues |-> InHand(q)]
Taken == [q \in TxQueues |-> ring[q] + InBurst(q)]
UsersOf(p) == {q \in TxQueues : PoolOf(q) = p}
AllIdle == \A m \in Commanders : cmd_pc[m] = "idle"

\* Every packet that start or prime put in current_tx_count is there still, in
\* the hands of exactly one lcore, handed over, or lost: concurrent lcores
\* never draw the same packet twice and never draw one that is not there.
CountLedger ==
    issued = current_tx_count + handed + lost + SumFunctionOnSet(Hands, TxQueues)

\* Every mbuf of a pool is free, in the burst of one lcore, or at the NIC.
MbufLedger ==
    \A p \in Pools : PoolSize = free[p] + SumFunctionOnSet(Taken, UsersOf(p))

\* No packet and no mbuf is counted twice or gets out of sight, in any order of
\* draws, retries, starts and stops.
NothingIsUnaccounted == CountLedger /\ MbufLedger

\* After SENDING_PACKETS is cleared an lcore begins at most the one burst it
\* had decided on, whatever the commanders do meanwhile.
OneBurstAfterStop == \A q \in TxQueues : late[q] <= 1

\* No packet that was drawn is lost for want of an mbuf, and none because
\* tx_burst changed between the draw and its use.
NothingLost == lost = 0

\* When the queues of a port transmit, their pools were all written from the
\* same version of the packet templates: SENDING_PACKETS is set after the last
\* pool is set up.
SamePacketsOnAllQueues ==
    Tst("SENDING_PACKETS") => \A p, r \in Pools : built[p] = built[r]

\* commands.rst "start <portlist> - Start transmitting packets": a run that was
\* started, not stopped, and is not complete is being sent.
StartedRunIsSent ==
    AllIdle /\ run = "on" /\ (current_tx_count > 0 \/ Tst("SEND_FOREVER"))
        => Tst("SENDING_PACKETS")

(***************************************************************************)
(* Liveness.                                                               *)
(***************************************************************************)

\* A counted run ends: its lcores draw it to zero and clear SENDING_PACKETS.
CountedRunEnds ==
    Tst("SENDING_PACKETS") /\ ~Tst("SEND_FOREVER")
        ~> ~Tst("SENDING_PACKETS") \/ Tst("SEND_FOREVER")

\* After a stop every lcore gets out of its burst, through a full ring too.
StopQuiets == ~Tst("SENDING_PACKETS") ~> Tst("SENDING_PACKETS") \/ NoLcoreInABurst

\* Runs end, by their count or by a stop, and then the lcores rest.
RunsEnd == CountedRunEnds /\ StopQuiets

(***************************************************************************)
(* Refinement of the contract.                                             *)
(***************************************************************************)
Unaware == IF Tst("SENDING_PACKETS") THEN {}
           ELSE {q \in TxQueues : core_pc[q] \in {"test_forever", "draw"}}

Mode == IF ~Tst("SENDING_PACKETS") THEN "idle"
        ELSE IF Tst("SEND_FOREVER") THEN "forever" ELSE "counted"

Contract == INSTANCE TransmitContract WITH
    Cores <- TxQueues,
    Sizes <- Counts \cup {PrimeCount},
    mode <- Mode,
    left <- IF Mode # "idle" \/ Unaware # {} THEN current_tx_count ELSE 0,
    hand <- Hands,
    done <- handed,
    stale <- Unaware,
    asked <- \E m \in Commanders : cmd_pc[m] = "stop_clear"

\* With one commander that waits for the bursts of a run to end before it
\* starts the next, the protocol on flags and counters keeps the contract.
ImplementsContract == Contract!Spec
=============================================================================
