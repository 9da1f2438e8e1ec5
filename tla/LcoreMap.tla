------------------------------- MODULE LcoreMap -------------------------------
(***************************************************************************)
(* The "-m" mappings of lcores to ports and queues, and what startup makes *)
(* of them: parsing (l2p.c), the port structures (pktgen-port-cfg.c) and   *)
(* the lcores (pktgen.c).  The main thread does the first two alone; then  *)
(* the lcores start in any order.                                          *)
(*                                                                         *)
(* A mapping "[rx:tx].port" is a record of its core lists and its port.  A *)
(* core list is the sequence of its parts between slashes, each a sequence *)
(* of one number or of the two numbers of a range: "2/4-5" is              *)
(* <<<<2>>, <<4, 5>>>>.                                                    *)
(***************************************************************************)
EXTENDS Integers, Sequences, FiniteSets, SequencesExt

CONSTANTS
    Lcores,     \* numbers of the lcores of the EAL
    MainLcore,  \* rte_get_main_lcore
    Ports,      \* ports the devices have: RTE_ETH_FOREACH_DEV
    MAX_QUEUES_PER_PORT,
    Matrices    \* the sequences of -m options to start with

CoreLists == Seq(Seq(Lcores))

ASSUME LcoreMapAssumption ==
    /\ Lcores \subseteq Nat /\ MainLcore \in Lcores
    /\ Ports \subseteq Nat /\ MAX_QUEUES_PER_PORT \in Nat \ {0}
    /\ \A matrix \in Matrices : \A k \in DOMAIN matrix :
        /\ matrix[k].cores \in Seq(CoreLists) /\ matrix[k].cores # <<>>
        /\ matrix[k].port \in Nat

VARIABLES
    mappings,  \* the options that are still to be parsed
    given,     \* history: all options
    phase,     \* "parse", "config", "launch", "exit"
    lports,    \* lports[l]: port, mode and queues of lcore l
    rxcnt, txcnt, \* num_rx_qids and num_tx_qids of each port
    rx_mp, tx_mp, sp_mp, \* the queues of each port that have a pool
    pinfo,     \* ports whose port_info_t exists
    rx_pkts, tx_pkts,    \* the queues of each port that have a burst array
    running    \* lcores in their packet loop

l2p == <<lports, rxcnt, txcnt, rx_mp, tx_mp, sp_mp>>
vars == <<mappings, given, phase, l2p, pinfo, rx_pkts, tx_pkts, running>>

Unused == [mode |-> "unknown"]
Rx == {"rx", "both"}
Tx == {"tx", "both"}
Qids == 0 .. MAX_QUEUES_PER_PORT - 1
MapPorts == Ports \cup {given[k].port : k \in DOMAIN given}

TypeOK ==
    /\ phase \in {"parse", "config", "launch", "exit"}
    /\ \A l \in Lcores : lports[l] = Unused \/ lports[l] \in
        [port : MapPorts, mode : {"rx", "tx", "both"}, rx_qid : Qids, tx_qid : Qids]
    /\ \A p \in MapPorts :
        /\ {rxcnt[p], txcnt[p]} \subseteq 0 .. MAX_QUEUES_PER_PORT
        /\ UNION {rx_mp[p], tx_mp[p], sp_mp[p], rx_pkts[p], tx_pkts[p]} \subseteq Qids
    /\ pinfo \subseteq Ports /\ running \subseteq Lcores \ {MainLcore}

InitWith(matrix) ==
    /\ mappings = matrix /\ given = matrix
    /\ phase = "parse"
    /\ lports = [l \in Lcores |-> Unused]
    /\ rxcnt = [p \in MapPorts |-> 0] /\ txcnt = rxcnt
    /\ rx_mp = [p \in MapPorts |-> {}] /\ tx_mp = rx_mp /\ sp_mp = rx_mp
    /\ pinfo = {} /\ rx_pkts = rx_mp /\ tx_pkts = rx_mp
    /\ running = {}

Init == \E matrix \in Matrices : InitWith(matrix)

-----------------------------------------------------------------------------
(***************************************************************************)
(* Parsing.                                                                *)
(***************************************************************************)

\* parse_cores splits the whole list at dashes and reads a number at the start
\* of each piece, up to the next slash.
Dashes(list) == {k \in DOMAIN list : Len(list[k]) = 2}
Low(list) == list[1][1]
High(list) ==
    IF Dashes(list) = {} THEN Low(list) ELSE list[CHOOSE k \in Dashes(list) : TRUE][2]

\* do ... while (l++ < h)
LcoresOf(list) ==
    [k \in 1 .. (IF High(list) < Low(list) THEN 1 ELSE High(list) - Low(list) + 1) |-> Low(list) + k - 1]

Tables == [lports |-> lports, rxcnt |-> rxcnt, txcnt |-> txcnt,
           rx_mp |-> rx_mp, tx_mp |-> tx_mp, sp_mp |-> sp_mp, full |-> FALSE]

\* Mutant: an lcore that is named again keeps its port.
Assign_KeepsPort(t, l, p, mode) ==
    LET rx == mode \in Rx
        tx == mode \in Tx
    IN  [t EXCEPT
        !.lports[l] = [port |-> IF @ = Unused THEN p ELSE @.port, mode |-> mode,
                       rx_qid |-> IF rx THEN t.rxcnt[p] ELSE 0,
                       tx_qid |-> IF tx THEN t.txcnt[p] ELSE 0],
        !.rxcnt[p] = IF rx THEN @ + 1 ELSE @,
        !.txcnt[p] = IF tx THEN @ + 1 ELSE @,
        !.rx_mp[p] = IF rx THEN @ \cup {t.rxcnt[p]} ELSE @,
        !.tx_mp[p] = IF tx THEN @ \cup {t.txcnt[p]} ELSE @,
        !.sp_mp[p] = IF tx THEN @ \cup {t.txcnt[p]} ELSE @]

\* One turn of the loop.  An lcore that is already in use is only reported:
\* its new port, mode and queues replace those it had, except that the queue
\* number of the direction it no longer serves stays.
Assign(t, l, p, mode) ==
    LET rx == mode \in Rx
        tx == mode \in Tx
        old == IF t.lports[l] = Unused THEN [rx_qid |-> 0, tx_qid |-> 0] ELSE t.lports[l]
    IN  [t EXCEPT
        !.lports[l] = [port |-> p, mode |-> mode,
                       rx_qid |-> IF rx THEN t.rxcnt[p] ELSE old.rx_qid,
                       tx_qid |-> IF tx THEN t.txcnt[p] ELSE old.tx_qid],
        !.rxcnt[p] = IF rx THEN @ + 1 ELSE @,
        !.txcnt[p] = IF tx THEN @ + 1 ELSE @,
        !.rx_mp[p] = IF rx THEN @ \cup {t.rxcnt[p]} ELSE @,
        !.tx_mp[p] = IF tx THEN @ \cup {t.txcnt[p]} ELSE @,
        !.sp_mp[p] = IF tx THEN @ \cup {t.txcnt[p]} ELSE @]

\* "Too many RX queues for port"
NoQueueLeft(t, p, mode) ==
    \/ mode \in Rx /\ t.rxcnt[p] >= MAX_QUEUES_PER_PORT
    \/ mode \in Tx /\ t.txcnt[p] >= MAX_QUEUES_PER_PORT

ParseCores(t, p, list, mode) ==
    FoldLeft(LAMBDA u, l : IF u.full \/ NoQueueLeft(u, p, mode) THEN [u EXCEPT !.full = TRUE]
                           ELSE Assign(u, l, p, mode),
             t, LcoresOf(list))

\* parse_mapping: one list serves both directions, two are rx and tx.
ParseLists(m) ==
    CASE Len(m.cores) = 1 -> ParseCores(Tables, m.port, m.cores[1], "both")
      [] Len(m.cores) = 2 ->
            LET t == ParseCores(Tables, m.port, m.cores[1], "rx")
            IN  IF t.full THEN t ELSE ParseCores(t, m.port, m.cores[2], "tx")
      [] OTHER -> Tables

\* rte_exit on a list with two ranges, or with too many lcores
Refused(m) ==
    \/ Len(m.cores) < 3 /\ \E k \in DOMAIN m.cores : Cardinality(Dashes(m.cores[k])) > 1
    \/ ParseLists(m).full

\* A mapping with a third list is logged as an error; the options after it
\* are not parsed and startup goes on.
ParseMapping ==
    /\ phase = "parse" /\ mappings # <<>> /\ ~Refused(Head(mappings))
    /\ LET t == ParseLists(Head(mappings)) IN
        /\ lports' = t.lports /\ rxcnt' = t.rxcnt /\ txcnt' = t.txcnt
        /\ rx_mp' = t.rx_mp /\ tx_mp' = t.tx_mp /\ sp_mp' = t.sp_mp
    /\ mappings' = IF Len(Head(mappings).cores) > 2 THEN <<>> ELSE Tail(mappings)
    /\ UNCHANGED <<given, phase, pinfo, rx_pkts, tx_pkts, running>>

RefuseMapping ==
    /\ phase = "parse" /\ mappings # <<>> /\ Refused(Head(mappings))
    /\ phase' = "exit"
    /\ UNCHANGED <<mappings, given, l2p, pinfo, rx_pkts, tx_pkts, running>>

\* "can not use initial lcore for port handling"
CheckMain ==
    /\ phase = "parse" /\ mappings = <<>>
    /\ phase' = IF lports[MainLcore] = Unused THEN "config" ELSE "exit"
    /\ UNCHANGED <<mappings, given, l2p, pinfo, rx_pkts, tx_pkts, running>>

(***************************************************************************)
(* pktgen_config_ports.                                                    *)
(***************************************************************************)

\* ports[pid].pid was set: parse_mapping does that before it looks at lists.
Mapped(p) == \E k \in 1 .. Len(given) - Len(mappings) :
    /\ given[k].port = p
    /\ \A j \in 1 .. k - 1 : Len(given[j].cores) < 3

\* Both arrays are allocated for as many queues as the port transmits on.
AllocatePortInfo(p) ==
    /\ phase = "config" /\ p \notin pinfo /\ \A o \in Ports : o < p => o \in pinfo
    /\ Mapped(p)
    /\ pinfo' = pinfo \cup {p}
    /\ rx_pkts' = [rx_pkts EXCEPT ![p] = 0 .. txcnt[p] - 1]
    /\ tx_pkts' = [tx_pkts EXCEPT ![p] = 0 .. txcnt[p] - 1]
    /\ UNCHANGED <<mappings, given, phase, l2p, running>>

\* "Unable to allocate port_info_t": l2p_set_port_pinfo refuses the port.
PanicOnPort(p) ==
    /\ phase = "config" /\ p \notin pinfo /\ \A o \in Ports : o < p => o \in pinfo
    /\ ~Mapped(p)
    /\ phase' = "exit"
    /\ UNCHANGED <<mappings, given, l2p, pinfo, rx_pkts, tx_pkts, running>>

ConfigDone ==
    /\ phase = "config" /\ pinfo = Ports
    /\ phase' = "launch"
    /\ UNCHANGED <<mappings, given, l2p, pinfo, rx_pkts, tx_pkts, running>>

(***************************************************************************)
(* pktgen_launch_one_lcore on every lcore but the main one.                *)
(***************************************************************************)

Launch(l) ==
    /\ phase = "launch" /\ l \notin running \cup {MainLcore}
    /\ lports[l] # Unused /\ lports[l].port \in pinfo
    /\ running' = running \cup {l}
    /\ UNCHANGED <<mappings, given, phase, l2p, pinfo, rx_pkts, tx_pkts>>

\* An lcore of a port without a device dereferences the missing port_info_t.
LaunchWithoutPort(l) ==
    /\ phase = "launch" /\ l # MainLcore
    /\ lports[l] # Unused /\ lports[l].port \notin pinfo
    /\ phase' = "exit"
    /\ UNCHANGED <<mappings, given, l2p, pinfo, rx_pkts, tx_pkts, running>>

Next ==
    \/ ParseMapping \/ RefuseMapping \/ CheckMain
    \/ \E p \in Ports : AllocatePortInfo(p) \/ PanicOnPort(p)
    \/ ConfigDone
    \/ \E l \in Lcores : Launch(l) \/ LaunchWithoutPort(l)

Spec == Init /\ [][Next]_vars

-----------------------------------------------------------------------------
(***************************************************************************)
(* Properties.                                                             *)
(***************************************************************************)

\* The lcores a list names, as usage_pktgen.rst reads it: "cores 2,4,5" for
\* "2/4-5".  A descending range names its first number.
Documented(list) ==
    UNION {{list[k][1]} \cup list[k][1] .. list[k][Len(list[k])] : k \in DOMAIN list}

\* What the options ask for.  The reading of the guide holds for one number or
\* one range.  A list with slashes gets every lcore from its first number to
\* the number after the dash instead: 2-5 for "2/4-5", 1 for "1/3".
Named(list) == IF Len(list) = 1 THEN Documented(list) ELSE {Low(list)} \cup Low(list) .. High(list)

\* "A single lcore can only handle a single port/queue": the options name each
\* lcore once.
LcoresNamedOnce ==
    \A j, k \in DOMAIN given : \A a \in DOMAIN given[j].cores, b \in DOMAIN given[k].cores :
        Named(given[j].cores[a]) \cap Named(given[k].cores[b]) # {} => j = k /\ a = b

Started == phase = "launch" /\ \A l \in Lcores \ {MainLcore} : lports[l] # Unused => l \in running

\* BNF of l2p.c: "A single lcore can only handle a single port/queue".  Once
\* started, each queue the device spreads packets over, or was configured to
\* send from, is served by exactly one lcore.
QueuesAreServed ==
    Started /\ LcoresNamedOnce => \A p \in Ports :
        /\ \A q \in 0 .. rxcnt[p] - 1 : \E l \in running :
            {l} = {k \in running : lports[k].port = p /\ lports[k].mode \in Rx /\ lports[k].rx_qid = q}
        /\ \A q \in 0 .. txcnt[p] - 1 : \E l \in running :
            {l} = {k \in running : lports[k].port = p /\ lports[k].mode \in Tx /\ lports[k].tx_qid = q}

\* An lcore that transmits has both of its pools and its burst array, also
\* when lcores were named twice.
TransmitIsSetUp ==
    \A l \in running : lports[l].mode \in Tx =>
        lports[l].tx_qid \in tx_mp[lports[l].port] \cap sp_mp[lports[l].port] \cap tx_pkts[lports[l].port]

\* usage_pktgen.rst: the lcores of a number or a range ("[0-1].0 - cores 0,1
\* handle port 0 rx/tx") serve the port, and no others do.  Lists with slashes
\* are excepted from what the guide says of them ("[2/4-5].1 - cores 2,4,5",
\* see Named): the lcores from the first to the last number serve the port.
NamedLcoresServe ==
    Started /\ LcoresNamedOnce => \A l \in Lcores, p \in Ports :
        (l \in running /\ lports[l].port = p) <=>
            \E k \in DOMAIN given : given[k].port = p /\
                \E a \in DOMAIN given[k].cores : l \in Named(given[k].cores[a])

\* The tables of l2p.c stay in range, and what a transmitting lcore uses exists.
TransmitTablesExist == TypeOK /\ TransmitIsSetUp

\* Every lcore named is at work and every queue has its lcore, if each is named
\* once; whatever the options say, an lcore that transmits has what it uses.
LcoresServe == QueuesAreServed /\ NamedLcoresServe /\ TransmitTablesExist
=============================================================================
