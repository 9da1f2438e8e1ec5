------------------------------- MODULE Shell -------------------------------
(***************************************************************************)
(* The shell of the CLI: a line is typed, completed with Tab               *)
(* (cli_auto_complete.c) and executed with Return (cli_execute() in cli.c, *)
(* the commands of cli_cmds.c).  Completion and execution look at the same *)
(* tree, path and maps, each with functions of its own.                    *)
(*                                                                         *)
(* The cursor is at the end of the line.  Editing and the history are in   *)
(* module Console; the commands of pktgen change nothing here.             *)
(***************************************************************************)
EXTENDS NodeTree

CONSTANTS
    Commands,   \* sequence: what is typed as a command, line by line
    Paths,      \* what is typed as the argument of a command without a map
    Parts,      \* what is typed behind the "/" of a directory
    Values      \* what is typed for a placeholder, by its letter

ASSUME CommandsAssumption == Commands \in Seq(SUBSET STRING)

VARIABLES
    tree,       \* nodes and cli->bins
    env,        \* name -> value of the variables
    line,       \* the words in the gap buffer
    blank,      \* a blank follows them
    quit,       \* quit_flag
    lines       \* lines that were executed

vars == <<tree, env, line, blank, quit, lines>>
DPDK_VER == "DPDK_VER"   \* its value is what rte_version() returns
rte_version == "DPDK"

Registry ==
    LET after[i \in 0 .. Len(RegisteredTables)] ==
            IF i = 0 THEN <<>> ELSE cli_register_cmd_maps(after[i - 1], MapOf(RegisteredTables[i]))
    IN  after[Len(RegisteredTables)]

-----------------------------------------------------------------------------
(***************************************************************************)
(* Execution, as a function of what a command may change.                  *)
(***************************************************************************)

Here == [tree |-> tree, env |-> env, quit |-> quit]

cli_env_get(variables, name) == IF name = DPDK_VER THEN rte_version ELSE variables[name]

\* A word that names a variable becomes the words of its value.
cli_env_substitution(variables, words) ==
    LET Name(w) == SubSeq(w, 3, Len(w) - 1)
        Value(w) == IF Name(w) \in DOMAIN variables THEN cli_env_get(variables, Name(w)) ELSE "oops!"
        IsVariable(w) == \/ StartsWith(w, "${") /\ SubSeq(w, Len(w), Len(w)) = "}"
                         \/ StartsWith(w, "$(") /\ SubSeq(w, Len(w), Len(w)) = ")"
    IN  FoldLeft(LAMBDA ws, w : ws \o IF IsVariable(w) THEN pg_strtok(Value(w), " ") ELSE <<w>>,
                 <<>>, words)

cd_cmd(s, argv) ==
    LET To(node) == IF node = NULL THEN s ELSE [s EXCEPT !.tree = set_cwd(@, node)]
    IN  IF Len(argv) < 2 THEN s ELSE To(IF argv[2] = "-?" THEN NULL ELSE cli_find_node(s.tree, argv[2]))

mkdir_cmd(s, argv) ==
    IF Len(argv) # 2 THEN s ELSE [s EXCEPT !.tree = cli_add_dir(@, argv[2]).tree]

rm_cmd(s, argv) ==
    LET Without(node) == IF node = NULL THEN s ELSE [s EXCEPT !.tree = cli_remove_node(@, node)]
    IN  IF Len(argv) # 2 THEN s ELSE Without(cli_find_node(s.tree, argv[2]))

quit_cmd(s, argv) == [s EXCEPT !.quit = TRUE]

env_cmd(s, argv) ==
    LET Done(index) ==
            CASE index = 30 -> [s EXCEPT !.env = (argv[3] :> argv[4]) @@ @]
              [] index = 40 -> [s EXCEPT !.env = [v \in DOMAIN @ \ {argv[3]} |-> @[v]]]
              [] OTHER -> s
    IN  Done(cli_mapping(MapOf(cli_env_map), argv).index)

cfunc(s, name, argv) ==
    CASE name = "cd" -> cd_cmd(s, argv)
      [] name = "mkdir" -> mkdir_cmd(s, argv)
      [] name = "rm" -> rm_cmd(s, argv)
      [] name = "quit" -> quit_cmd(s, argv)
      [] name = "env" -> env_cmd(s, argv)
      [] OTHER -> s

Joined(words) == IF words = <<>> THEN "" ELSE FoldLeft(LAMBDA s, w : s \o " " \o w, Head(words), Tail(words))

\* The text of the alias, and the line behind as many characters as its name has.
AliasLine(t, alias, words) ==
    LET text == Joined(words)
        rest == SubSeq(text, Len(t.name[alias]) + 1, Len(text))
    IN  pg_strtok(t.text[alias] \o rest, " ")

Command(s, argv) ==
    LET Of(node) == [argv |-> argv, node |-> node, type |-> IF node = NULL THEN "none" ELSE s.tree.type[node]]
    IN  Of(IF argv = <<>> THEN NULL ELSE cli_find_cmd(s.tree, argv[1]))

Run(s, c) == IF c.type = "cmd" THEN cfunc(s, s.tree.name[c.node], c.argv) ELSE s

\* The command of an alias is no alias.
cli_execute(s, words) ==
    LET Execute(c) ==
            IF c.type = "alias"
            THEN Run(s, Command(s, cli_env_substitution(s.env, AliasLine(s.tree, c.node, words))))
            ELSE Run(s, c)
    IN  IF StartsWith(words[1], "#") THEN s ELSE Execute(Command(s, cli_env_substitution(s.env, words)))

-----------------------------------------------------------------------------
(***************************************************************************)
(* Completion: the line that Tab makes of a line.                          *)
(***************************************************************************)

Text(words, space) == [words |-> words, blank |-> space]

\* The last word is ended with what remains of the name, and a "/" or a blank.
LastPart(word) ==
    LET slashes == {i \in 1 .. Len(word) : SubSeq(word, i, i) = "/"}
    IN  IF slashes = {} THEN word ELSE SubSeq(word, (CHOOSE i \in slashes : \A j \in slashes : j <= i) + 1, Len(word))
Slashes(word) == Cardinality({i \in 1 .. Len(word) : SubSeq(word, i, i) = "/"})

Ended(t, words, hits) ==
    LET n == OneOf(hits)
        done == LastPart(Last(words))
        rest == SubSeq(t.name[n], Len(done) + 1, Len(t.name[n])) \o IF is_directory(t, n) THEN "/" ELSE ""
    IN  IF Cardinality(hits) # 1 THEN Text(words, FALSE)
        ELSE Text([words EXCEPT ![Len(words)] = @ \o rest], ~is_directory(t, n))

\* Mutant: a path is completed with the names of the bins.
complete_args_NoPath(t, words) ==
    Ended(t, words, {n \in cli_node_list_with_type(t, NULL, CLI_ALL_TYPE) :
                        StartsWith(t.name[n], LastPart(Last(words)))})

\* Exactly one name must begin with what is typed.
complete_args(t, words) ==
    LET word == Last(words)
        types == IF Len(words) > 1 THEN CLI_OTHER_TYPE ELSE CLI_ALL_TYPE
        onlyDirs == Slashes(word) = 1 /\ StartsWith(word, "/")
        In(dir) == {n \in cli_node_list_with_type(t, dir, types) :
                       StartsWith(t.name[n], LastPart(word)) /\ (onlyDirs => is_directory(t, n))}
        Found(node) == node # NULL /\ is_executable(t, node)
    IN  CASE Slashes(word) = 0 -> Ended(t, words, In(NULL))
          [] Slashes(word) > 0 /\ Found(cli_find_node(t, word)) -> Text(words, FALSE)
          [] OTHER -> Ended(t, words, In(cli_last_dir_in_path(t, word)))

\* A value that is complete is ended with a blank, and the next word is looked for.
complete_map(maps, words, space, variables) ==
    LET at == IF space THEN Len(words) ELSE Len(words) - 1
        Inserted(found, new) ==
            LET w == CHOOSE x \in found : TRUE
            IN  IF Cardinality(found) # 1 \/ found = {Hint} THEN Text(words, new)
                ELSE Text(IF new THEN Append(words, w) ELSE [words EXCEPT ![Len(words)] = w], TRUE)
        OrNext(found) ==
            IF /\ found = {} /\ ~space
               /\ _map_current_is_user_value(maps, words, at)
               /\ _map_has_tokens_after(maps, words, at)
            THEN Inserted(_map_collect_candidates(maps, words, Len(words), "", variables), TRUE)
            ELSE Inserted(found, space)
    IN  OrNext(_map_collect_candidates(maps, words, at, IF space THEN "" ELSE Last(words), variables))

HasMap(words) == words[1] \in DOMAIN Registry

\* A command without a map is executed with "-?", and the line is put back.
cli_auto_complete(s, words, space) ==
    LET Completed(text) == [after |-> s, text |-> text]
        byMap == HasMap(words) /\ (space \/ Len(words) > 1)
    IN  IF words = <<>> THEN Completed(Text(words, space))
        ELSE IF byMap THEN Completed(complete_map(Registry[words[1]], words, space, DOMAIN s.env))
        ELSE IF ~space THEN Completed(complete_args(s.tree, words))
        ELSE [after |-> cli_execute(s, Append(words, "-?")), text |-> Text(words, space)]

-----------------------------------------------------------------------------
(***************************************************************************)
(* The user.                                                               *)
(***************************************************************************)

Init ==
    /\ tree = init_tree
    /\ env = [v \in EnvironmentStrings |-> IF v = DPDK_VER THEN "" ELSE "CLI shell"]
    /\ line = <<>> /\ blank = FALSE
    /\ quit = FALSE
    /\ lines = 0

\* A first letter of a word is typed for it too: Tab may end it.
Typed ==
    LET at == Len(line)
        For(token) == IF IsPlaceholder(token) THEN Values[token.letter]
                      ELSE token.words \cup {SubSeq(w, 1, 1) : w \in token.words}
    IN  CASE at = 0 -> Commands[lines + 1]
          [] at > 0 /\ HasMap(line) ->
                UNION {For(e.tokens[at + 1]) :
                          e \in {f \in Fitting(Registry[line[1]], line, at) : Len(f.tokens) > at}}
          [] at = 1 /\ ~HasMap(line) -> Paths
          [] OTHER -> {}

TypeWord ==
    /\ ~quit /\ lines < Len(Commands)
    /\ line = <<>> \/ blank
    /\ \E w \in Typed : line' = Append(line, w)
    /\ blank' = FALSE
    /\ UNCHANGED <<tree, env, quit, lines>>

TypePart ==
    /\ ~quit /\ line # <<>> /\ ~blank /\ SubSeq(Last(line), Len(Last(line)), Len(Last(line))) = "/"
    /\ \E p \in Parts : line' = [line EXCEPT ![Len(line)] = @ \o p]
    /\ UNCHANGED <<tree, env, blank, quit, lines>>

TypeBlank ==
    /\ ~quit /\ line # <<>> /\ ~blank
    /\ blank' = TRUE
    /\ UNCHANGED <<tree, env, line, quit, lines>>

Put(s) == tree' = s.tree /\ env' = s.env /\ quit' = s.quit

\* The user does not remove the directory he is in, changes to directories, and
\* makes no ".." where there is none, in the root.
IsCareful(t) ==
    /\ get_cwd(tree) \in Live(t)
    /\ is_directory(t, get_cwd(t))
    /\ \A n \in Live(t) : t.name[n] # ".."

Tab ==
    /\ ~quit
    /\ \E c \in {cli_auto_complete(Here, line, blank)} :
        /\ IsCareful(c.after.tree)
        /\ Put(c.after)
        /\ line' = c.text.words /\ blank' = c.text.blank
    /\ UNCHANGED lines

Return ==
    /\ ~quit /\ line # <<>>
    /\ \E s \in {cli_execute(Here, line)} : IsCareful(s.tree) /\ Put(s)
    /\ line' = <<>> /\ blank' = FALSE
    /\ lines' = lines + 1

Next == TypeWord \/ TypePart \/ TypeBlank \/ Tab \/ Return

Spec == Init /\ [][Next]_vars

-----------------------------------------------------------------------------
(***************************************************************************)
(* Properties.                                                             *)
(***************************************************************************)

\* Every node in use is found again by the path that cli_path_string() prints
\* of it, so no command, directory or alias is cut off or hidden by another of
\* its name, whatever was made and removed; a free node is in no directory and
\* is free once.
cli_path_string(t) ==
    LET path[n \in NodeIds] == IF t.parent[n] = NULL THEN "" ELSE path[t.parent[n]] \o "/" \o t.name[n]
    IN  path

TreeIsSound ==
    LET paths == cli_path_string(tree)
    IN  /\ Cardinality(ToSet(tree.free)) = Len(tree.free)
        /\ \A n \in Live(tree) \ {Root} :
              /\ tree.parent[n] \in Live(tree)
              /\ cli_find_node(tree, paths[n]) = n

\* The path of commands is the current directory and those of the two
\* directories of the start that still exist, in their order: removing and
\* making directories neither drops one of them nor leaves one that is gone.
PathIsKept ==
    LET start == Tail(init_tree.bins)
    IN  Tail(tree.bins) = SelectSeq(start, LAMBDA b : b \in Live(tree))

\* Whatever is made and removed, all that is reached is whole.
DirectoriesAreSound == TreeIsSound /\ PathIsKept

\* Tab adds to the line and never takes away; and nothing but the line changes,
\* unless the command is one that does not look at the "-?" it is asked with.
\* cd looks at its first argument only.
IsExtended(before, after) ==
    /\ Len(before) <= Len(after)
    /\ \A i \in 1 .. Len(before) : StartsWith(after[i], before[i]) /\ (i < Len(before) => after[i] = before[i])

IgnoresHelp == {"mkdir", "rm", "quit", "exit"}

TabOnlyExtends ==
    [][Tab => /\ IsExtended(line, line')
              /\ blank => blank' \/ Len(line') > Len(line)
              /\ (line # <<>> => line[1] \notin IgnoresHelp /\ (line[1] = "cd" => Len(line) = 1))
                    => UNCHANGED <<tree, env, quit>>]_vars

\* What Tab has completed is what Return finds: the only word is a command or a
\* directory that cli_find_cmd() finds, a further word is a path that the
\* commands find, or a word with which an entry of the map can be matched.  (An
\* argument without "/" is looked for in the whole path, which no command does.)
IsUnderstood(t, words) ==
    CASE Len(words) = 1 -> cli_find_cmd(t, words[1]) # NULL
      [] Len(words) > 1 /\ HasMap(words) ->
            \E e \in ToSet(Registry[words[1]]) :
                Len(e.tokens) >= Len(words) /\ TokenIsMatched(e.tokens[Len(words)], Last(words))
      [] OTHER -> \/ cli_find_node(t, Last(words)) # NULL
                  \/ \E b \in ToSet(t.bins) : cli_search_dir(t, b, pg_strtok(Last(words), "/")[1], {"dir"}) # NULL

TabIsUnderstood ==
    [][Tab /\ line # <<>> /\ line' # line => IsUnderstood(tree, line')]_vars

\* What Tab does to a line leaves its meaning and all else alone.
TabCompletes == TabOnlyExtends /\ TabIsUnderstood

\* A line whose words all fit the words and values of one entry, the way Tab
\* reads them, is executed, and as an entry that fits it the same way: no other
\* entry that is laxer in execution takes it.  (The entry 17 of seq is never
\* executed: entry 16 is the same but for a placeholder that takes any word.)
OfferedIsAccepted ==
    (line # <<>> /\ Len(line) > 1 /\ HasMap(line) /\ ~blank) =>
        LET maps == Registry[line[1]]
            full == {e \in Fitting(maps, line, Len(line)) : Len(e.tokens) = Len(line)}
        IN  full # {} => \/ cli_mapping(maps, line) \in full
                         \/ line[1] \in {"seq", "sequence"} /\ cli_mapping(maps, line).index = 16
=============================================================================
