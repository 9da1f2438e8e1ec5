------------------------------ MODULE NodeTree ------------------------------
(***************************************************************************)
(* The tree of directories, commands, aliases and files that the CLI       *)
(* works in (cli.c, cli_search.c), as functions of its state:              *)
(*   type, name, text, parent   of each node; text is what an alias is for *)
(*   free                       the nodes to allocate, next one first      *)
(*   bins                       cli->bins: the current directory, then the *)
(*                              directories that are searched for commands *)
(* A node is in the list of items of its parent, if it is not free.        *)
(***************************************************************************)
EXTENDS ArgumentMaps

-----------------------------------------------------------------------------
(***************************************************************************)
(* The tables of the CLI: the patterns of the arguments of the commands,   *)
(* and the nodes of the tree that commands live in (cli-functions.c,       *)
(* cli_cmds.c), of a build with Lua.                                       *)
(***************************************************************************)

SMMI == "%|start|minimum|maximum|increment|min|max|inc"
set_types == "count|size|rate|burst|tx_cycles|sport|dport|prime|dump|vlan|vlanid|seq_cnt|seqCnt|"
             \o "seqcnt|ttl|txburst|rxburst"
ed_type == "process|mpls|qinq|gre|gre_eth|vlan|random|latency|pcap|blink|icmp|range|capture|"
           \o "bonding|vxlan|rate|rnd_s_ip|rnd_s_pt|lat"

range_map == <<
    <<20, "range %P dst mac " \o SMMI \o " %m">>,
    <<21, "range %P src mac " \o SMMI \o " %m">>, <<22, "range %P dst mac %m %m %m %m">>,
    <<23, "range %P src mac %m %m %m %m">>, <<30, "range %P dst ip " \o SMMI \o " %4">>,
    <<31, "range %P src ip " \o SMMI \o " %4">>, <<32, "range %P dst ip %4 %4 %4 %4">>,
    <<33, "range %P src ip %4 %4 %4 %4">>, <<34, "range %P dst ip " \o SMMI \o " %6">>,
    <<35, "range %P src ip " \o SMMI \o " %6">>, <<36, "range %P dst ip %6 %6 %6 %6">>,
    <<37, "range %P src ip %6 %6 %6 %6">>, <<40, "range %P proto %|tcp|udp">>,
    <<41, "range %P type %|ipv4|ipv6">>, <<42, "range %P tcp %|flag|flags %c">>,
    <<44, "range %P tcp seq %d %d %d %d">>, <<45, "range %P tcp ack %d %d %d %d">>,
    <<46, "range %P tcp seq " \o SMMI \o " %d">>,
    <<47, "range %P tcp ack " \o SMMI \o " %d">>,
    <<50, "range %P dst port " \o SMMI \o " %d">>,
    <<51, "range %P src port " \o SMMI \o " %d">>, <<52, "range %P dst port %d %d %d %d">>,
    <<53, "range %P src port %d %d %d %d">>, <<55, "range %P ttl " \o SMMI \o " %b">>,
    <<56, "range %P ttl %b %b %b %b">>, <<60, "range %P vlan " \o SMMI \o " %d">>,
    <<61, "range %P vlan %d %d %d %d">>, <<70, "range %P size " \o SMMI \o " %d">>,
    <<71, "range %P size %d %d %d %d">>, <<80, "range %P mpls entry %h">>,
    <<85, "range %P qinq index %d %d">>, <<90, "range %P gre key %d">>,
    <<91, "range %P gre_key %d">>, <<100, "range %P gtpu " \o SMMI \o " %d">>,
    <<101, "range %P gtpu %d %d %d %d">>, <<160, "range %P cos " \o SMMI \o " %d">>,
    <<161, "range %P cos %d %d %d %d">>, <<170, "range %P tos " \o SMMI \o " %d">>,
    <<171, "range %P tos %d %d %d %d">>, <<172, "range %P hop_limits " \o SMMI \o " %b">>,
    <<173, "range %P hop_limits %d %d %d %d">>,
    <<174, "range %P traffic_class " \o SMMI \o " %d">>,
    <<175, "range %P traffic_class %d %d %d %d">>
>>

set_map == <<
    <<10, "set %P %|" \o set_types \o " %d">>, <<11, "set %P jitter %D">>,
    <<20, "set %P type %|arp|ipv4|ipv6|ip4|ip6|vlan">>,
    <<21, "set %P proto %|udp|tcp|icmp">>, <<22, "set %P src mac %m">>,
    <<23, "set %P dst mac %m">>, <<24, "set %P pattern %|abc|none|user|zero">>,
    <<25, "set %P user pattern %s">>, <<30, "set %P src ip %4">>,
    <<31, "set %P dst ip %4">>, <<32, "set %P src ip %6">>, <<33, "set %P dst ip %6">>,
    <<34, "set %P tcp %|flag|flags %c">>, <<36, "set %P tcp seq %d">>,
    <<37, "set %P tcp ack %d">>, <<40, "set ports_per_page %d">>,
    <<50, "set %P qinqids %d %d">>, <<60, "set %P rnd %d %d %s">>,
    <<70, "set %P cos %d">>, <<80, "set %P tos %d">>, <<90, "set %P vxlan %h %d %d">>,
    <<100, "set %P latsampler %|simple|poisson %d %d %s">>
>>

pcap_map == <<
    <<10, "pcap %D">>, <<20, "pcap show">>, <<21, "pcap show all">>,
    <<30, "pcap filter %P %s">>
>>

start_map == <<
    <<10, "start %P">>, <<20, "stop %P">>, <<40, "start %P prime">>,
    <<50, "start %P arp %|request|gratuitous|req|grat">>, <<60, "start %P latsampler">>,
    <<70, "stop %P latsampler">>
>>

theme_map == <<
    <<0, "theme">>, <<10, "theme %|on|off">>, <<20, "theme %s %s %s %s">>,
    <<30, "theme save %s">>
>>

enable_map == <<
    <<10, "enable %P %|" \o ed_type>>, <<20, "disable %P %|" \o ed_type>>,
    <<30, "enable %|screen|mac_from_arp">>, <<31, "disable %|screen|mac_from_arp">>,
    <<40, "enable clock_gettime">>, <<41, "disable clock_gettime">>
>>

dbg_map == <<
    <<20, "dbg %|tx_dbg|dbg">>, <<21, "dbg tx_rate %P">>,
    <<30, "dbg %|mempool|dump %P %s">>, <<50, "dbg memzone">>, <<51, "dbg memseg">>,
    <<60, "dbg hexdump %H %d">>, <<61, "dbg hexdump %H">>, <<80, "dbg break">>,
    <<90, "dbg memcpy">>, <<91, "dbg memcpy %d %d">>
>>

seq_map == <<
    <<10, "%|seq|sequence %d %P %m %m %4 %4 %d %d %|ipv4|ipv6 %|udp|tcp|icmp %d %d">>,
    <<11, "%|seq|sequence %d %P %m %m %4 %4 %d %d %|ipv4|ipv6 %|udp|tcp|icmp %d %d %d">>,
    <<12, "%|seq|sequence %d %P dst %m src %m dst %4 src %4 sport %d dport %d %|ipv4|ipv6"
        \o " %|udp|tcp|icmp vlan %d size %d">>,
    <<13, "%|seq|sequence %d %P dst %m src %m dst %4 src %4 sport %d dport %d %|ipv4|ipv6"
        \o " %|udp|tcp|icmp vlan %d size %d teid %d">>,
    <<15, "%|seq|sequence %d %P cos %d tos %d">>,
    <<16, "%|seq|sequence %d %P vxlan %d gid %d vid %d">>,
    <<17, "%|seq|sequence %d %P vxlan %h gid %d vid %d">>,
    <<18, "%|seq|sequence %d %P tcp %|flag|flags %c">>
>>

misc_map == <<
    <<10, "clear %P stats">>, <<20, "geometry">>, <<30, "load %s">>,
    <<40, "script %l">>, <<50, "lua %l">>, <<60, "save %s">>, <<70, "redisplay">>,
    <<100, "reset %P">>, <<110, "restart %P">>, <<130, "port %d">>,
    <<140, "ping4 %P">>
>>

page_map == <<
    <<10, "page %d">>,
    <<11, "page %|main|range|cpu|system|sys|next|sequence|seq|rnd"
        \o "|log|latency|lat|stats|qstats|xstats">>
>>

plugin_map == <<
    <<10, "plugin">>, <<20, "plugin load %s">>, <<21, "plugin load %s %s">>,
    <<30, "plugin %|rm|del|delete %s">>
>>

latency_map == <<
    <<10, "latency %P rate %u">>, <<20, "latency %P entropy %u">>
>>

hmap_map == <<
    <<10, "hmap list">>, <<20, "hmap dump all">>, <<30, "hmap dump %s">>
>>

cli_env_map == <<
    <<10, "env">>, <<20, "env get %s">>, <<30, "env set %s %s">>, <<40, "env del %s">>
>>

\* In the order of cli_help_add().
RegisteredTables == <<cli_env_map, page_map, enable_map, set_map, range_map, seq_map, pcap_map,
    start_map, dbg_map, misc_map, theme_map, plugin_map, latency_map, hmap_map>>

-----------------------------------------------------------------------------
(***************************************************************************)
(* The nodes of the tree.                                                  *)
(***************************************************************************)

TreeItem(type, name, text) == [type |-> type, name |-> name, text |-> text]
c_file(name) == <<TreeItem("file", name, "")>>
c_alias(name, text) == <<TreeItem("alias", name, text)>>
c_cmds(names) == [i \in DOMAIN names |-> TreeItem("cmd", names[i], "")]

\* A table is a sequence of directories and what follows each in the table.
c_dir(path, nodes) == [path |-> path, isBin |-> FALSE, nodes |-> nodes]
c_bin(path, nodes) == [path |-> path, isBin |-> TRUE, nodes |-> nodes]

cli_default_tree == <<
    c_dir("/", c_file("copyright") \o c_file("dpdk-version")),
    c_bin("/sbin",
        c_cmds(<<"delay", "sleep", "chelp", "mkdir", "rm", "ls", "cd", "pwd", "screen.clear", "quit">>)
        \o c_alias("exit", "quit")
        \o c_cmds(<<"history", "more", "cmap", "hugepages", "path", "env", "script", "echo",
                    "version">>))>>

default_tree == <<
    c_dir("/pktgen/bin",
        c_cmds(<<"help", "clear", "geometry", "load", "script", "lua", "save", "redisplay", "reset",
                 "restart", "port", "ping4", "sequence", "page", "theme", "range", "enable",
                 "disable", "start", "stop", "pcap", "set", "dbg", "plugin", "latency", "hmap">>)
        \o c_alias("clr", "clear all stats") \o c_alias("geom", "geometry")
        \o c_alias("cls", "redisplay") \o c_alias("rst", "reset all") \o c_alias("seq", "sequence")
        \o c_alias("str", "start all") \o c_alias("stp", "stop all")
        \o c_alias("on", "enable screen") \o c_alias("off", "disable screen"))>>

\* Variables of the environment.
EnvironmentStrings == {"SHELL", "DPDK_VER"}

-----------------------------------------------------------------------------
(***************************************************************************)
(* The state of the tree.                                                  *)
(***************************************************************************)

CONSTANT NbNodes    \* nb_nodes, as many as cli_init() is asked for

ASSUME NbNodesAssumption == NbNodes \in Nat \ {0}

CLI_MAX_BINS == 32
NodeIds == 1 .. NbNodes
NULL == 0
Root == 1    \* the first node that is allocated

CLI_EXE_TYPE == {"cmd", "alias"}
CLI_OTHER_TYPE == {"dir", "file"}
CLI_ALL_TYPE == CLI_EXE_TYPE \cup CLI_OTHER_TYPE

Live(t) == NodeIds \ ToSet(t.free)
items(t, dir) == {n \in Live(t) : t.parent[n] = dir}
is_directory(t, n) == t.type[n] = "dir"
is_executable(t, n) == t.type[n] \in CLI_EXE_TYPE
get_cwd(t) == t.bins[1]
set_cwd(t, n) == [t EXCEPT !.bins = <<n>> \o (IF @ = <<>> THEN @ ELSE Tail(@))]

OneOf(nodes) == IF nodes = {} THEN NULL ELSE CHOOSE n \in nodes : TRUE

-----------------------------------------------------------------------------
(***************************************************************************)
(* Search.                                                                 *)
(***************************************************************************)

cli_search_dir(t, dir, name, types) ==
    CASE ~is_directory(t, dir) -> NULL
      [] is_directory(t, dir) /\ name = ".." -> t.parent[dir]
      [] is_directory(t, dir) /\ name = "." -> dir
      [] OTHER -> OneOf({n \in items(t, dir) : t.name[n] = name /\ t.type[n] \in types})

IsAbsolute(path) == StartsWith(path, "/")

\* The walk along a path ends at the first part that is no directory: node is
\* what was found there, dir the last directory before it.
At(dir, node, goes) == [dir |-> dir, node |-> node, goes |-> goes]
Into(t, dir, node) ==
    IF node # NULL /\ is_directory(t, node) THEN At(node, node, TRUE) ELSE At(dir, node, FALSE)
WalkBy(t, parts, start) ==
    LET after[i \in 0 .. Len(parts)] ==
            IF i = 0 THEN At(start, NULL, TRUE)
            ELSE LET w == after[i - 1]
                 IN  IF w.goes THEN Into(t, w.dir, cli_search_dir(t, w.dir, parts[i], CLI_ALL_TYPE)) ELSE w
    IN  after[Len(parts)]

StartOf(t, path) == IF IsAbsolute(path) THEN Root ELSE get_cwd(t)
Walk(t, path) == WalkBy(t, pg_strtok(path, "/"), StartOf(t, path))

cli_find_node(t, path) ==
    CASE path = "" -> NULL
      [] path = "/" -> Root
      [] OTHER -> Walk(t, path).node

cli_last_dir_in_path(t, path) == IF path = "/" THEN Root ELSE Walk(t, path).dir

\* A path, or the name of a command in one of the bins.
FoundInBins(places) ==
    LET found == {p \in places : p.node # NULL}
    IN  IF found = {} THEN NULL ELSE (CHOOSE p \in found : \A q \in found : p.bin <= q.bin).node
cli_find_cmd(t, path) ==
    LET Found(node) ==
            IF node # NULL THEN node
            ELSE FoundInBins({[bin |-> i, node |-> cli_search_dir(t, t.bins[i], path, CLI_EXE_TYPE)] :
                                 i \in DOMAIN t.bins})
    IN  Found(cli_find_node(t, path))

\* Nodes of a directory, or of all bins, that are of one of the types.
cli_node_list_with_type(t, dir, types) ==
    IF dir # NULL
    THEN {n \in items(t, dir) : is_directory(t, dir) /\ t.type[n] \in types}
    ELSE {n \in UNION {items(t, b) : b \in ToSet(t.bins)} : t.type[n] \in types}

-----------------------------------------------------------------------------
(***************************************************************************)
(* Changes.                                                                *)
(***************************************************************************)

\* A new node, or NULL when none is free.
Added(t, node) == [tree |-> t, node |-> node]
__add_node(t, name, parent, type, text) ==
    IF t.free = <<>> THEN Added(t, NULL)
    ELSE LET n == Head(t.free)
         IN  Added([t EXCEPT !.free = Tail(@), !.name[n] = name, !.parent[n] = parent,
                             !.type[n] = type, !.text[n] = text], n)

\* The directories of the path that do not exist yet.  It ends at once when no
\* node is free, and leaves what it has made.
MakeIn(a, name, found) ==
    CASE ~a.goes -> a
      [] a.goes /\ found # NULL -> [a EXCEPT !.dir = found]
      [] OTHER -> LET Made(new) == [a EXCEPT !.tree = new.tree, !.node = new.node, !.dir = new.node,
                                                !.goes = new.node # NULL]
                  IN  Made(__add_node(a.tree, name, a.dir, "dir", ""))
MakeDirectories(t, parts, start, prefix) ==
    LET Step(a, part) ==
            LET path == a.path \o part
            IN  MakeIn([a EXCEPT !.path = path \o "/"], part, cli_find_node(a.tree, path))
    IN  FoldLeft(Step, [tree |-> t, node |-> NULL, dir |-> start, goes |-> TRUE, path |-> prefix], parts)
cli_add_dir(t, path) ==
    LET Made(found) ==
            IF found # NULL THEN Added(t, found)
            ELSE MakeDirectories(t, pg_strtok(path, "/"), StartOf(t, path), IF IsAbsolute(path) THEN "/" ELSE "")
    IN  Made(cli_find_node(t, path))

\* A directory with the name of one that is in the list already is not added.
cli_add_bin(t, dir) ==
    IF /\ dir # NULL /\ is_directory(t, dir) /\ Len(t.bins) < CLI_MAX_BINS
       /\ \A i \in DOMAIN t.bins : t.name[t.bins[i]] # t.name[dir]
    THEN [t EXCEPT !.bins = Append(@, dir)]
    ELSE t

\* Mutant: a directory that is removed stays in the path.
cli_del_bin_Not(bins, gone) == bins

\* The first place of each directory that is removed is closed.
cli_del_bin(bins, gone) ==
    LET kept == {i \in DOMAIN bins : bins[i] \notin gone \/ \E j \in 1 .. i - 1 : bins[j] = bins[i]}
    IN  [k \in 1 .. Cardinality(kept) |->
            bins[CHOOSE i \in kept : Cardinality({j \in kept : j <= i}) = k]]

\* A node and what is below it; a node that is no directory keeps its items.
RECURSIVE Below(_, _)
Below(t, n) == {n} \cup IF is_directory(t, n) THEN UNION {Below(t, m) : m \in items(t, n)} ELSE {}

\* In which order the nodes of a directory become free is not modelled.
InSomeOrder(nodes) ==
    [k \in 1 .. Cardinality(nodes) |->
        CHOOSE n \in nodes : Cardinality({m \in nodes : m <= n}) = k]
cli_remove_node(t, n) ==
    IF t.parent[n] = NULL THEN t
    ELSE [t EXCEPT !.free = @ \o InSomeOrder(Below(t, n)), !.bins = cli_del_bin(@, Below(t, n))]

\* Nodes for which there is room, one after the other.
AddNodes(t, nodes, dir) ==
    LET used == SubSeq(t.free, 1, Len(nodes))
        Of(n) == nodes[CHOOSE i \in DOMAIN used : used[i] = n]
        Set(field, value(_)) == [n \in NodeIds |-> IF n \in ToSet(used) THEN value(n) ELSE field[n]]
    IN  [t EXCEPT !.free = SubSeq(@, Len(nodes) + 1, Len(@)),
                  !.name = Set(@, LAMBDA n : Of(n).name), !.type = Set(@, LAMBDA n : Of(n).type),
                  !.text = Set(@, LAMBDA n : Of(n).text), !.parent = Set(@, LAMBDA n : dir)]

\* The directories of a table, each with what follows it.
cli_add_tree(t, table) ==
    LET Section(s, d) ==
            LET made == cli_add_dir(s, d.path)
            IN  AddNodes(IF d.isBin THEN cli_add_bin(made.tree, made.node) ELSE made.tree,
                         d.nodes, made.node)
    IN  FoldLeft(Section, t, table)

\* The root, which is the current directory, and nothing else.
cli_create_root ==
    [type |-> [n \in NodeIds |-> "dir"], name |-> [n \in NodeIds |-> "/"],
     text |-> [n \in NodeIds |-> ""], parent |-> [n \in NodeIds |-> NULL],
     free |-> [n \in 1 .. NbNodes - 1 |-> n + 1], bins |-> <<Root>>]

\* The trees of the CLI and of pktgen, and its commands as the last bin.
init_tree ==
    LET t == cli_add_tree(cli_add_tree(cli_create_root, cli_default_tree), default_tree)
    IN  cli_add_bin(t, cli_find_node(t, "/pktgen/bin"))
=============================================================================
