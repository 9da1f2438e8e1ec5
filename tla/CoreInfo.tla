------------------------------ MODULE CoreInfo ------------------------------
(***************************************************************************)
(* What pktgen knows of the cores of its machine: coreinfo.c reads         *)
(* /proc/cpuinfo before main() and keeps the cores in a hash map,          *)
(* cli_cmap.c reads it again for the command cmap, and lscpu.c reads the   *)
(* output of lscpu for the page of the CPU.  Captures are written and port *)
(* memory is allocated on the sockets that coreinfo reports.               *)
(*                                                                         *)
(* The hash map has a second user here, who calls it at will.              *)
(***************************************************************************)
EXTENDS HashMap

CONSTANTS
    Machines,       \* set of functions: lcore -> [socket, core, thread]
    Calls,          \* calls of the second user
    Capacities      \* max_capacity of his maps

VARIABLES
    machine, user,  \* the machine, and whose turn it is: "coreinfo" or "any"
    pass, pos,      \* what is read, and the line
    cid,            \* coreinfo_data
    lcores,         \* the list of cmap_create(), the newest first
    lscpu,          \* numa_cpus
    hmap, call, ret \* the map of the second user, his call and its result

machineVars == <<machine, user>>
callVars == <<hmap, call, ret>>
vars == <<machine, user, pass, pos, cid, lcores, lscpu, hmap, call, ret>>

Least(set) == CHOOSE m \in set : \A n \in set : m <= n
Greatest(set) == CHOOSE m \in set : \A n \in set : n <= m

-----------------------------------------------------------------------------
(***************************************************************************)
(* The files.  A line is a name and a value.                               *)
(***************************************************************************)

Sockets == {machine[l].socket : l \in DOMAIN machine}
CpuCores(s) == {machine[l].core : l \in {m \in DOMAIN machine : machine[m].socket = s}}
Siblings(s) == {l \in DOMAIN machine : machine[l].socket = s}

cpuinfo ==
    LET Lcore(l) == LET s == machine[l].socket IN
            << <<"processor", l>>, <<"physical id", s>>, <<"siblings", Cardinality(Siblings(s))>>,
               <<"core id", machine[l].core>>, <<"cpu cores", Cardinality(CpuCores(s))>>, <<"\n", 0>> >>
    IN  FlattenSeq([n \in 1 .. Cardinality(DOMAIN machine) |-> Lcore(n - 1)])

\* Runs of neighbours, such as "0-3,8".
Runs(cpus) ==
    {<<a, b>> \in cpus \X cpus : a .. b \subseteq cpus /\ a - 1 \notin cpus /\ b + 1 \notin cpus /\ a <= b}
nodes == [n \in 1 .. Cardinality(Sockets) |-> <<n - 1, Runs(Siblings(n - 1))>>]

-----------------------------------------------------------------------------
(***************************************************************************)
(* coreinfo.c.                                                             *)
(***************************************************************************)

GetValue(key) == hmap_get_value(cid.map, "u16", key, 0).v
WithoutValue(key) == hmap_kvp_lookup(cid.map, key) = NoSlot
Stored(type, key, v) == [cid EXCEPT !.map = _hmap_add_scalar(@, type, key, v).hmap]

set_siblings(v) == IF WithoutValue(<<"num_siblings">>) THEN Stored("u16", <<"num_siblings">>, v) ELSE cid
set_cpu_cores(v) == IF WithoutValue(<<"num_cpu_cores">>) THEN Stored("u16", <<"num_cpu_cores">>, v) ELSE cid

\* Mutant: the thread is not divided by the number of sockets.
ThreadOf_OneSocket(lcore, num_cpu_cores, num_sockets) == lcore \div num_cpu_cores

\* The n-th round of the numbers of the lcores is taken to be that of the n-th
\* threads.
ThreadOf(lcore, num_cpu_cores, num_sockets) ==
    (lcore \div num_cpu_cores) \div (IF num_sockets = 0 THEN 1 ELSE num_sockets)

\* The end of the lines of a lcore: it is stored twice, by its number and by its
\* place, and counted.
lcore_terminator ==
    LET l == cid.lcore_id
        thread == ThreadOf(l, GetValue(<<"num_cpu_cores">>), GetValue(<<"num_sockets">>))
        ci == [lcore_id |-> l, socket_id |-> cid.socket_id, core_id |-> cid.core_id, thread_id |-> thread]
        m1 == _hmap_add_scalar(cid.map, "pointer", <<"lcore", l>>, ci).hmap
        m2 == _hmap_add_scalar(m1, "u16", <<"sct", cid.socket_id, cid.core_id, thread>>, l).hmap
        count == hmap_get_value(m2, "u16", <<"num_lcores">>, 0).v
    IN  [cid EXCEPT !.thread_id = thread, !.max_threads = Largest(@, thread),
                    !.map = _hmap_update_scalar(m2, "u16", <<"num_lcores">>, count + 1).hmap]

get_matching_action(line) ==
    CASE line[1] = "processor" -> [cid EXCEPT !.lcore_id = line[2]]
      [] line[1] = "physical id" -> [cid EXCEPT !.socket_id = line[2]]
      [] line[1] = "core id" -> [cid EXCEPT !.core_id = line[2]]
      [] line[1] = "siblings" -> set_siblings(line[2])
      [] line[1] = "cpu cores" -> set_cpu_cores(line[2])
      [] line[1] = "\n" -> lcore_terminator
      [] OTHER -> cid

Reading(p) == user = "coreinfo" /\ pass = p
NextLine(count) == pos <= count /\ pos' = pos + 1 /\ pass' = pass
NextPass(count, p) == pos > count /\ pos' = 1 /\ pass' = p

\* The first pass of coreinfo_create(): the largest number of a socket.
FindSockets ==
    /\ Reading("sockets")
    /\ \/ /\ NextLine(Len(cpuinfo))
          /\ cid' = IF cpuinfo[pos][1] # "physical id" THEN cid
                    ELSE [cid EXCEPT !.max_socket_id = Largest(@, cpuinfo[pos][2])]
       \/ /\ NextPass(Len(cpuinfo), "lcores")
          /\ cid' = Stored("u16", <<"num_sockets">>, cid.max_socket_id + 1)
    /\ UNCHANGED <<machineVars, lcores, lscpu, callVars>>

\* The second pass.
FindLcores ==
    /\ Reading("lcores")
    /\ \/ NextLine(Len(cpuinfo)) /\ cid' = get_matching_action(cpuinfo[pos])
       \/ /\ NextPass(Len(cpuinfo), "cmap")
          /\ cid' = Stored("u16", <<"num_threads">>, cid.max_threads + 1)
    /\ UNCHANGED <<machineVars, lcores, lscpu, callVars>>

coreinfo_get(l) == hmap_get_value(cid.map, "pointer", <<"lcore", l>>, Empty).v
coreinfo_cnt(key) == GetValue(key)
-----------------------------------------------------------------------------
(***************************************************************************)
(* cli_cmap.c and lscpu.c.                                                 *)
(***************************************************************************)

Lcore(lid, sid, cid_, tid) == [lid |-> lid, sid |-> sid, cid |-> cid_, tid |-> tid]

\* One more than that of the lcore before it in the same place.
get_next_thread_id(rest, sid, core) ==
    LET same == {n \in DOMAIN rest : rest[n].sid = sid /\ rest[n].cid = core}
    IN  IF same = {} THEN 0 ELSE rest[Least(same)].tid + 1

cmap_matching_action(line) ==
    CASE line[1] = "processor" -> <<Lcore(line[2], 0, 0, 0)>> \o lcores
      [] line[1] = "physical id" -> [lcores EXCEPT ![1].sid = line[2]]
      [] line[1] = "core id" -> [lcores EXCEPT ![1].cid = line[2]]
      [] line[1] = "\n" ->
            [lcores EXCEPT ![1].tid = get_next_thread_id(Tail(lcores), lcores[1].sid, lcores[1].cid)]
      [] OTHER -> lcores

\* Mutant: numbers are kept.
zero_base_Keeps(list, field) == list

\* The least number becomes 0, the next one 1, and so on.
zero_base(list, field) ==
    LET numbers == {list[n][field] : n \in DOMAIN list}
    IN  [n \in DOMAIN list |->
            [list[n] EXCEPT ![field] = Cardinality({m \in numbers : m < list[n][field]})]]

cmap_cnt(list, field) == Greatest({list[n][field] : n \in DOMAIN list}) + 1

\* cmap_create().
ReadCmap ==
    /\ Reading("cmap")
    /\ \/ NextLine(Len(cpuinfo)) /\ lcores' = cmap_matching_action(cpuinfo[pos])
       \/ NextPass(Len(cpuinfo), "lscpu") /\ lcores' = zero_base(zero_base(lcores, "sid"), "cid")
    /\ UNCHANGED <<machineVars, cid, lscpu, callVars>>

\* A cell of the table that cmap shows: 0 also stands for a lcore it does not find.
sct(s, c, t) ==
    LET found == {n \in DOMAIN lcores : lcores[n].sid = s /\ lcores[n].cid = c /\ lcores[n].tid = t}
    IN  IF found = {} THEN 0 ELSE lcores[Least(found)].lid

\* The lines of the nodes, each with its runs of numbers.
numa_nodeX_cpus(node, runs) ==
    [lscpu EXCEPT ![node] = @ \cup UNION {run[1] .. run[2] : run \in runs}]
ReadLscpu ==
    /\ Reading("lscpu")
    /\ \/ NextLine(Len(nodes)) /\ lscpu' = numa_nodeX_cpus(nodes[pos][1], nodes[pos][2])
       \/ NextPass(Len(nodes), "done") /\ UNCHANGED lscpu
    /\ UNCHANGED <<machineVars, cid, lcores, callVars>>

-----------------------------------------------------------------------------
(***************************************************************************)
(* The second user of the hash map, who deletes only keys that are there.  *)
(***************************************************************************)

Answer(code, v) == [code |-> code, v |-> v]
Call(c) ==
    LET Changed(result) == [hmap |-> result.hmap, ret |-> Answer(result.ret, 0)]
        Got(found) == [hmap |-> hmap, ret |-> Answer(found.ret, found.v)]
        isArray == c.type \in ArrayTypes
    IN  CASE c.op = "add" /\ ~isArray -> Changed(_hmap_add_scalar(hmap, c.type, c.key, c.v))
          [] c.op = "add" /\ isArray -> Changed(_hmap_add_array(hmap, c.type, c.key, c.v, c.count))
          [] c.op = "update" /\ ~isArray -> Changed(_hmap_update_scalar(hmap, c.type, c.key, c.v))
          [] c.op = "update" /\ isArray -> Changed(_hmap_update_array(hmap, c.type, c.key, c.v, c.count))
          [] c.op = "get" /\ ~isArray -> Got(hmap_get_value(hmap, c.type, c.key, 0))
          [] c.op = "get" /\ isArray -> Got(_hmap_get_array(hmap, c.type, c.key, 0))
          [] OTHER -> Changed(hmap_del(hmap, c.key))

CallMap ==
    /\ user = "any"
    /\ \E c \in Calls :
        /\ c.op = "del" => hmap_kvp_lookup(hmap, c.key) # NoSlot
        /\ call' = c
        /\ \E done \in {Call(c)} : hmap' = done.hmap /\ ret' = done.ret
    /\ UNCHANGED <<machineVars, pass, pos, cid, lcores, lscpu>>

coreinfo_create ==
    [lcore_id |-> 0, socket_id |-> 0, core_id |-> 0, thread_id |-> 0,
     max_socket_id |-> 0, max_threads |-> 0, map |-> hmap_create(0)]

NoCall == [op |-> "none", key |-> <<>>, type |-> "", v |-> 0, count |-> 0]

Init ==
    /\ \/ user = "coreinfo" /\ machine \in Machines /\ hmap = hmap_create(0)
       \/ /\ user = "any" /\ machine = <<>>
          /\ \E max \in Capacities : hmap = hmap_create(max)
    /\ pass = "sockets" /\ pos = 1 /\ cid = coreinfo_create /\ lcores = <<>>
    /\ lscpu = [n \in 0 .. 3 |-> {}]
    /\ call = NoCall /\ ret = Answer(0, 0)

Next == FindSockets \/ FindLcores \/ ReadCmap \/ ReadLscpu \/ CallMap

Spec == Init /\ [][Next]_vars

-----------------------------------------------------------------------------
(***************************************************************************)
(* Properties.                                                             *)
(***************************************************************************)

\* The table is the set of its pairs, however they collide and move when it
\* grows: a list shows every pair once, as many as were counted (hmap_list()
\* allocates that many), and every pair is found.
IsSound(h) ==
    LET pairs == hmap_list(h)
    IN  /\ Len(pairs) = h.curr_capacity /\ h.curr_capacity <= h.capacity
        /\ h.capacity <= h.max_capacity
        /\ \A n \in DOMAIN pairs :
              LET slot == hmap_kvp_lookup(h, pairs[n].key)
              IN  slot # NoSlot /\ h.map[slot] = pairs[n]

TablesAreSound == IsSound(hmap) /\ IsSound(cid.map)

\* How far a table can grow: it does so in steps of HMAP_STARTING_CAPACITY and
\* not beyond max_capacity, which it need not reach.
Limit ==
    LET first == hmap_create(hmap.max_capacity).capacity
    IN  first + HMAP_STARTING_CAPACITY * ((hmap.max_capacity - first) \div HMAP_STARTING_CAPACITY)

\* The hash map does what a map does: every call returns and changes what the
\* function from keys to values tells, through collisions and growth; a key is
\* refused only when it is there, is of another type, or the table is full.
\* One thing that hmap.h says is excepted: "Number of elements on success" is
\* what an array was stored with only until the table grows, and 0 from then on
\* (_hmap_update_capacity), until the array is stored again.
Pairs ==
    LET used == {n \in DOMAIN hmap.map : hmap.map[n] # Empty}
    IN  [k \in {hmap.map[n].key : n \in used} |->
            LET n == CHOOSE i \in used : hmap.map[i].key = k
                type == hmap.map[n].type
            IN  [type |-> type, count |-> hmap.map[n].count,
                 v |-> IF type \in DOMAIN Signed THEN AsSigned(type, hmap.map[n].v) ELSE hmap.map[n].v]]

Contract == INSTANCE MapContract WITH map <- Pairs, limit <- Limit, size <- hmap.capacity
MapIsAFunction == Contract!Spec

\* The three readers know the same machine: coreinfo gives every lcore its
\* socket and its core, the table of cmap shows every lcore in one cell of its
\* own, in the row of its core, and lscpu puts it on the node of its socket.
\* That the threads of coreinfo are those of cmap holds for machines that number
\* the first threads of all cores first.
Rank(n, numbers) == Cardinality({m \in numbers : m < n})
Cores == {machine[l].core : l \in DOMAIN machine}
FirstThreadsFirst ==
    \A k, l \in DOMAIN machine : k < l => machine[k].thread <= machine[l].thread

MachineIsRead ==
    pass = "done" =>
        /\ coreinfo_cnt(<<"num_lcores">>) = Cardinality(DOMAIN machine)
        /\ coreinfo_cnt(<<"num_sockets">>) = Cardinality(Sockets)
        /\ Len(lcores) = Cardinality(DOMAIN machine)
        /\ \A l \in DOMAIN machine :
              LET ci == coreinfo_get(l)
                  shown == lcores[CHOOSE n \in DOMAIN lcores : lcores[n].lid = l]
              IN  /\ ci.lcore_id = l /\ ci.socket_id = machine[l].socket /\ ci.core_id = machine[l].core
                  /\ shown.sid = Rank(machine[l].socket, Sockets) /\ shown.cid = Rank(machine[l].core, Cores)
                  /\ shown.sid < cmap_cnt(lcores, "sid") /\ shown.cid < cmap_cnt(lcores, "cid")
                  /\ sct(shown.sid, shown.cid, shown.tid) = l
                  /\ l \in lscpu[ci.socket_id]
                  /\ FirstThreadsFirst => ci.thread_id = shown.tid

\* The tables are whole, and hold the machine.
CoresAreFound == TablesAreSound /\ MachineIsRead
=============================================================================
