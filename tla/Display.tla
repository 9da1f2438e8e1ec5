------------------------------- MODULE Display -------------------------------
(***************************************************************************)
(* The screen: the pages, the flags that say which page is drawn and what  *)
(* of it, and the commands that change them.                               *)
(*                                                                         *)
(* Two threads draw, the timer thread and the console, and they share one  *)
(* processor: what is one instruction cannot be split, the rest can.  An   *)
(* RX lcore, on a processor of its own, asks for the labels when an ARP    *)
(* reply changed a destination address.  What is drawn of a port is its    *)
(* settings, as of some change of them, or its values (counters, rates).   *)
(***************************************************************************)
EXTENDS Integers, Sequences, FiniteSets, SequencesExt, FiniteSetsExt

CONSTANTS
    NbPorts,            \* pktgen.nb_ports
    PortsPerPage,       \* DEFAULT_PORTS_PER_PAGE
    UpdateInterval,     \* UPDATE_DISPLAY_TICK_INTERVAL
    PageRequests,       \* words given to "page"
    MaxScreenCommands   \* bound

ASSUME DisplayAssumption ==
    /\ NbPorts \in Nat \ {0} /\ PortsPerPage \in Nat \ {0} /\ UpdateInterval \in Nat \ {0}
    /\ MaxScreenCommands \in Nat

\* The order in which _page_display looks at the flags.
PageOrder == <<"main", "system", "range", "cpu", "sequence", "random", "log", "latency",
               "qstats", "xstats">>
Pages == ToSet(PageOrder)
Drawers == {"timer", "console"}
Huge == UpdateInterval + 1 \* a counter of 32 bits that went below 0

VARIABLES
    pflags,         \* pktgen.flags: "labels", "update" and the page bits
    paused,         \* the screen is paused
    update_display, \* the static counter of pktgen_page_display
    rounds4,        \* the static counters of the system and the CPU page
    screen,         \* what was drawn since the screen was cleared
    view,           \* starting_port, nb_ports_per_page, curr_port
    settings,       \* how often the settings of the ports changed
    draw,           \* per thread: its step in pktgen_page_display and the page it chose
    todo,           \* the rest of the command: steps
    loaded,         \* flags as the console and the lcore have read them to change them
    arp,            \* the RX lcore: "idle", "load", "store"
    screen_commands, \* counter for the bound
    asked,          \* history: the page the last command asked for
    spoiled         \* history: a step fell between steps of another thread that belong together

drawn == <<pflags, paused, update_display, rounds4, screen, view, settings, draw, todo, loaded,
           arp, screen_commands, asked, spoiled>>

Idle == [pc |-> "idle", page |-> "main"]
Done == [Idle EXCEPT !.pc = "done"]

DisplayInit ==
    /\ pflags = {"labels"} /\ paused = FALSE /\ update_display = 1
    /\ rounds4 = [p \in {"system", "cpu"} |-> 0]
    /\ screen = {}
    /\ view = [start |-> 0, per_page |-> PortsPerPage, port |-> 0]
    /\ settings = 0
    /\ draw = [t \in Drawers |-> Idle]
    /\ todo = <<>> /\ loaded = [console |-> {}, lcore |-> {}] /\ arp = "idle"
    /\ screen_commands = 0 /\ asked = "main" /\ spoiled = FALSE

\* A thread is on its way through pktgen_page_display.
Drawing(t) == draw[t].pc \notin {"idle", "done"}
\* What is written now may meet a drawing or an lcore that has read before.
Meets == Drawing("timer") \/ arp = "store"

-----------------------------------------------------------------------------
(***************************************************************************)
(* What the pages draw.  A part belongs to ports and, if it shows          *)
(* settings, to the last change of them.                                   *)
(***************************************************************************)
Part(page, part, ports) == [page |-> page, part |-> part, ports |-> ports, of |-> 0]
Settings(page, ports) == [Part(page, "settings", ports) EXCEPT !.of = settings]

\* The ports that have a column.
Columns == {p \in view.start .. view.start + view.per_page - 1 : p < NbPorts}
\* These columns show what belongs to the first ports.
FirstPorts == {p - view.start : p \in Columns}

MainStatics == {Settings("main", Columns), Part("main", "device", FirstPorts)}
LatencyStatics == {Settings("latency", Columns), Part("latency", "device", FirstPorts)}
RangeStatics == {Settings("range", Columns)}
RandomStatics == {Settings("random", {view.port})}

\* Drawn only when the labels are asked for.
Statics(page) ==
    CASE page = "main" -> MainStatics
      [] page = "latency" -> LatencyStatics
      [] page = "range" -> RangeStatics
      [] page = "random" -> RandomStatics
      [] OTHER -> {}

MainValues == {Part("main", "values", Columns)}
LatencyValues == {Part("latency", "values", Columns), Part("latency", "link", FirstPorts)}
SequenceValues == {Settings("sequence", {view.port})}
QstatsValues == {Part("qstats", "values", {view.port})}
XstatsValues == {Part("xstats", "values", {view.port})}
\* These two are drawn every fourth time only.
SystemValues == IF rounds4["system"] % 4 = 0 THEN {Part("system", "values", {})} ELSE {}
CpuValues == IF rounds4["cpu"] % 4 = 0 THEN {Part("cpu", "values", {})} ELSE {}

\* Drawn each time.
Values(page) ==
    CASE page = "main" -> MainValues
      [] page = "latency" -> LatencyValues
      [] page = "sequence" -> SequenceValues
      [] page = "qstats" -> QstatsValues
      [] page = "xstats" -> XstatsValues
      [] page = "system" -> SystemValues
      [] page = "cpu" -> CpuValues
      [] OTHER -> {}

\* What is drawn at the place of something else replaces it.
Over(old, new) ==
    {o \in old : \A n \in new : o.page # n.page \/ o.part # n.part} \cup new

ClearsLabels(page, labels) ==
    \/ page \in {"main", "latency", "range"} /\ labels
    \/ page \in {"system", "cpu"} /\ Values(page) # {}

-----------------------------------------------------------------------------
(***************************************************************************)
(* pktgen_page_display and _page_display.                                  *)
(***************************************************************************)
Goto(t, pc) == draw' = [draw EXCEPT ![t].pc = pc]
At(t, pc) == draw[t].pc = pc
others == <<paused, view, settings, todo, loaded, arp, screen_commands, asked>>

\* "Leave if the screen is paused"
Call(t) == Goto(t, IF paused THEN "done" ELSE "update")

TestUpdate(t) ==
    /\ At(t, "update")
    /\ Goto(t, IF "update" \in pflags THEN "clear" ELSE "count")
    /\ UNCHANGED <<pflags, update_display, rounds4, screen, spoiled, others>>

ClearUpdate(t) ==
    /\ At(t, "clear")
    /\ pflags' = pflags \ {"update"} /\ Goto(t, "now")
    /\ UNCHANGED <<update_display, rounds4, screen, spoiled, others>>

UpdateNow(t) ==
    /\ At(t, "now")
    /\ update_display' = 1 /\ Goto(t, "count")
    /\ UNCHANGED <<pflags, rounds4, screen, spoiled, others>>

\* update_display--, which both threads do.
CountDown(t) ==
    /\ At(t, "count")
    /\ update_display' = IF update_display \in {0, Huge} THEN Huge ELSE update_display - 1
    /\ Goto(t, IF update_display' = 0 THEN "interval" ELSE "done")
    /\ UNCHANGED <<pflags, rounds4, screen, spoiled, others>>

Interval(t) ==
    /\ At(t, "interval")
    /\ update_display' = UpdateInterval /\ Goto(t, "fallback")
    /\ UNCHANGED <<pflags, rounds4, screen, spoiled, others>>

\* No page at all is the main page; between the two steps of a command that
\* changes the page this adds one.
Fallback(t) ==
    /\ At(t, "fallback")
    /\ pflags' = IF pflags \cap Pages = {} THEN pflags \cup {"main"} ELSE pflags
    /\ spoiled' = (spoiled \/ (pflags # pflags' /\ (todo # <<>> \/ arp = "store")))
    /\ Goto(t, "page")
    /\ UNCHANGED <<update_display, rounds4, screen, others>>

ChoosePage(t) ==
    /\ At(t, "page")
    /\ LET set == SelectSeq(PageOrder, LAMBDA p : p \in pflags) IN
        draw' = [draw EXCEPT ![t] = [pc |-> "statics", page |-> IF set = <<>> THEN "main" ELSE set[1]]]
    /\ UNCHANGED <<pflags, update_display, rounds4, screen, spoiled, others>>

DrawStatics(t) ==
    /\ At(t, "statics")
    /\ LET page == draw[t].page  labels == "labels" \in pflags IN
        /\ screen' = Over(screen, IF labels THEN Statics(page) ELSE {})
        /\ Goto(t, IF ClearsLabels(page, labels) THEN "unlabel" ELSE "values")
    /\ UNCHANGED <<pflags, update_display, rounds4, spoiled, others>>

\* The pages that have labels clear the flag themselves.
ClearLabels(t) ==
    /\ At(t, "unlabel")
    /\ pflags' = pflags \ {"labels"} /\ Goto(t, "values")
    /\ UNCHANGED <<update_display, rounds4, screen, spoiled, others>>

DrawValues(t) ==
    /\ At(t, "values")
    /\ LET page == draw[t].page IN
        /\ screen' = Over(screen, Values(page))
        /\ rounds4' = IF page \in DOMAIN rounds4 THEN [rounds4 EXCEPT ![page] = (@ + 1) % 4]
                      ELSE rounds4
    /\ Goto(t, "after")
    /\ UNCHANGED <<pflags, update_display, spoiled, others>>

LeaveDisplay(t) ==
    /\ At(t, "after")
    /\ pflags' = pflags \ {"labels"} /\ draw' = [draw EXCEPT ![t] = Done]
    /\ UNCHANGED <<update_display, rounds4, screen, spoiled, others>>

DrawStep(t) ==
    \/ TestUpdate(t) \/ ClearUpdate(t) \/ UpdateNow(t) \/ CountDown(t) \/ Interval(t)
    \/ Fallback(t) \/ ChoosePage(t) \/ DrawStatics(t) \/ ClearLabels(t) \/ DrawValues(t)
    \/ LeaveDisplay(t)

-----------------------------------------------------------------------------
(***************************************************************************)
(* The commands, as sequences of steps that write flags, screen or view.   *)
(***************************************************************************)
Step(do) == [do |-> do, page |-> "main", n |-> 0]
StepN(do, n) == [Step(do) EXCEPT !.n = n]
StepP(do, page) == [Step(do) EXCEPT !.page = page]

\* pktgen_update_display: labels and everything else.
UpdateDisplay == <<Step("update")>>

\* pktgen_clear_display; what it does is decided when it looks at pause.
ClearDisplay == <<Step("clear display")>>
ClearedDisplay ==
    <<Step("pause"), Step("cls")>> \o UpdateDisplay \o <<Step("resume"), Step("display")>>

\* pktgen_force_update
ForceUpdate == <<Step("force"), Step("display")>>

\* pktgen_screen; the command line, not Lua, asks for the labels afterwards.
Screen(on) ==
    IF on THEN <<Step("cls"), Step("resume")>> \o ForceUpdate
    ELSE IF paused THEN <<>>
    ELSE <<Step("pause"), Step("cls")>>

\* "page <word>".  The two assignments to the flags may be two instructions,
\* or one value that is loaded, changed and stored.
SetPage(word) ==
    LET page == IF word.page \in Pages THEN word.page ELSE "main"
        start == word.n * view.per_page
        Bits(set) == {<<Step("clear pages"), set>>, <<Step("load"), StepP("store", set.page)>>} IN
    IF word.page = "next" THEN {<<Step("labels")>>}
    ELSE IF page # "main" THEN Bits(StepP("set page", page))
    ELSE {(IF start # view.start /\ start < NbPorts THEN <<StepN("start", start)>> ELSE <<>>) \o s :
          s \in (IF pflags \cap Pages # {} THEN Bits(StepP("set page", "main")) ELSE {<<>>})}

\* Mutant: a page command does not draw.
PageCommand_DrawsNot ==
    /\ todo = <<>>
    /\ \E word \in PageRequests :
        /\ word.n <= NbPorts
        /\ \E bits \in SetPage(word) : todo' = bits
        /\ asked' = IF word.page = "next" THEN asked
                    ELSE IF word.page \in Pages THEN word.page ELSE "main"
    /\ spoiled' = (spoiled /\ paused)

\* "page <word>": a number beyond the ports is ignored.
PageCommand ==
    /\ todo = <<>>
    /\ \E word \in PageRequests :
        /\ word.n <= NbPorts
        /\ \E bits \in SetPage(word) : todo' = bits \o ClearDisplay
        /\ asked' = IF word.page = "next" THEN asked
                    ELSE IF word.page \in Pages THEN word.page ELSE "main"
    /\ spoiled' = (spoiled /\ paused)

\* "enable|disable screen"
ScreenCommand ==
    /\ todo = <<>>
    /\ \E on \in BOOLEAN : todo' = Screen(on) \o UpdateDisplay
    /\ UNCHANGED <<asked, spoiled>>

\* pktgen.screen() of Lua
LuaScreen ==
    /\ todo = <<>>
    /\ \E on \in BOOLEAN :
        /\ todo' = Screen(on)
        /\ spoiled' = (spoiled \/ on)
    /\ UNCHANGED asked

\* pktgen.updateDisplay() of Lua, and "clear" once the statistics are cleared.
LuaUpdate ==
    /\ todo = <<>>
    /\ todo' = UpdateDisplay
    /\ UNCHANGED <<asked, spoiled>>

\* "port <number>"
PortCommand ==
    /\ todo = <<>>
    /\ \E n \in 0 .. NbPorts :
        todo' = IF n < NbPorts THEN <<StepN("port", n)>> \o ClearDisplay ELSE <<>>
    /\ UNCHANGED <<asked, spoiled>>

\* "set ports_per_page <number>"
PageSizeCommand ==
    /\ todo = <<>>
    /\ \E n \in 0 .. 7 :
        todo' = IF n > 0 /\ n <= NbPorts /\ n <= 6 THEN <<StepN("per page", n)>> \o ClearDisplay
                ELSE <<>>
    /\ UNCHANGED <<asked, spoiled>>

\* A command that changes a port.
SettingCommand ==
    /\ todo = <<>>
    /\ todo' = <<Step("setting")>> \o UpdateDisplay
    /\ UNCHANGED <<asked, spoiled>>

\* "help" leaves the screen as it found it.
HelpCommand ==
    /\ todo = <<>>
    /\ todo' = IF paused THEN <<Step("cls")>>
               ELSE <<Step("pause"), Step("cls"), Step("resume")>> \o ClearDisplay
    /\ UNCHANGED <<asked, spoiled>>

\* "redisplay", "cls" and "theme on|off"; "ping4"
RedisplayCommand ==
    /\ todo = <<>>
    /\ todo' \in {ClearDisplay, ForceUpdate}
    /\ UNCHANGED <<asked, spoiled>>

DisplayCommand ==
    /\ screen_commands < MaxScreenCommands
    /\ PageCommand \/ ScreenCommand \/ LuaScreen \/ LuaUpdate \/ PortCommand
        \/ PageSizeCommand \/ SettingCommand \/ HelpCommand \/ RedisplayCommand
    /\ screen_commands' = screen_commands + 1
    /\ UNCHANGED <<pflags, paused, update_display, rounds4, screen, view, settings, draw, loaded,
                   arp>>

Doing(do) == todo # <<>> /\ Head(todo).do = do
Pop == todo' = Tail(todo)
fixed == <<update_display, rounds4, arp, screen_commands, asked>>

\* What the steps make of the flags.
FlagsAfter(s) ==
    CASE s.do = "clear pages" -> pflags \ Pages
      [] s.do = "set page" -> pflags \cup {s.page} \cup (IF s.page = "main" THEN {"labels"} ELSE {})
      [] s.do = "store" -> (loaded.console \ Pages) \cup {s.page} \cup (IF s.page = "main" THEN {"labels"} ELSE {})
      [] s.do = "labels" -> pflags \cup {"labels"}
      [] s.do = "update" -> pflags \cup {"labels", "update"}
      [] s.do = "force" -> pflags \cup {"update"}

WriteFlags ==
    /\ \E do \in {"clear pages", "set page", "store", "labels", "update", "force"} : Doing(do)
    /\ pflags' = FlagsAfter(Head(todo)) /\ Pop
    /\ loaded' = [loaded EXCEPT !.console = {}]
    /\ spoiled' = (spoiled \/ Meets)
    /\ UNCHANGED <<paused, screen, view, settings, draw, fixed>>

LoadFlags ==
    /\ Doing("load") /\ loaded' = [loaded EXCEPT !.console = pflags] /\ Pop
    /\ UNCHANGED <<pflags, paused, screen, view, settings, draw, spoiled, fixed>>

LookAtPause ==
    /\ Doing("clear display")
    /\ todo' = (IF paused THEN <<>> ELSE ClearedDisplay) \o Tail(todo)
    /\ UNCHANGED <<pflags, paused, screen, view, settings, draw, loaded, spoiled, fixed>>

PauseScreen ==
    /\ Doing("pause") \/ Doing("resume")
    /\ paused' = Doing("pause") /\ Pop
    /\ UNCHANGED <<pflags, screen, view, settings, draw, loaded, spoiled, fixed>>

ClearScreen ==
    /\ Doing("cls") /\ screen' = {} /\ Pop
    /\ spoiled' = (spoiled \/ Meets)
    /\ UNCHANGED <<pflags, paused, view, settings, draw, loaded, fixed>>

SetView ==
    /\ \/ Doing("start") /\ view' = [view EXCEPT !.start = Head(todo).n]
       \/ Doing("per page") /\ view' = [view EXCEPT !.per_page = Head(todo).n]
       \/ Doing("port") /\ view' = [view EXCEPT !.port = Head(todo).n]
    /\ Pop /\ spoiled' = (spoiled \/ Meets)
    /\ UNCHANGED <<pflags, paused, screen, settings, draw, loaded, fixed>>

ChangeSetting ==
    /\ Doing("setting") /\ settings' = settings + 1 /\ Pop
    /\ spoiled' = (spoiled \/ Meets)
    /\ UNCHANGED <<pflags, paused, screen, view, draw, loaded, fixed>>

\* The console draws itself, and goes on when it has.
CallDisplay ==
    /\ Doing("display") /\ At("console", "idle")
    /\ Call("console")
    /\ UNCHANGED <<pflags, paused, screen, view, settings, todo, loaded, spoiled, fixed>>

Displayed ==
    /\ Doing("display") /\ At("console", "done")
    /\ Goto("console", "idle") /\ Pop
    /\ UNCHANGED <<pflags, paused, screen, view, settings, loaded, spoiled, fixed>>

CommandStep ==
    \/ WriteFlags \/ LoadFlags \/ LookAtPause \/ PauseScreen \/ ClearScreen \/ SetView
    \/ ChangeSetting \/ CallDisplay

-----------------------------------------------------------------------------
(***************************************************************************)
(* pktgen_process_arp on an RX lcore: an ARP reply for this port.          *)
(***************************************************************************)
ArpReply ==
    \/ /\ arp = "idle" /\ screen_commands < MaxScreenCommands
       /\ settings' = settings + 1 /\ arp' = "load" /\ screen_commands' = screen_commands + 1
       /\ spoiled' = (spoiled \/ Drawing("timer") \/ Drawing("console"))
       /\ UNCHANGED <<pflags, loaded>>
    \/ /\ arp = "load"
       /\ loaded' = [loaded EXCEPT !.lcore = pflags] /\ arp' = "store"
       /\ spoiled' = (spoiled \/ Doing("store"))
       /\ UNCHANGED <<pflags, settings, screen_commands>>
    \/ /\ arp = "store"
       /\ pflags' = loaded.lcore \cup {"labels"} /\ arp' = "idle"
       /\ loaded' = [loaded EXCEPT !.lcore = {}]
       /\ spoiled' = (spoiled \/ loaded.lcore # pflags \/ Drawing("timer") \/ Drawing("console")
                      \/ Doing("store"))
       /\ UNCHANGED <<settings, screen_commands>>

ArpStep ==
    ArpReply /\ UNCHANGED <<paused, update_display, rounds4, screen, view, draw, todo, asked>>

-----------------------------------------------------------------------------
\* What the page that was asked for consists of.
Wanted(page) ==
    LET ports == IF page \in {"main", "latency", "range"} THEN Columns
                 ELSE IF page \in {"system", "cpu"} THEN {} ELSE {view.port} IN
    (IF page \in {"main", "latency", "range", "random", "sequence"} THEN {Settings(page, ports)} ELSE {})
    \cup (IF page \in {"main", "latency", "qstats", "xstats", "system", "cpu"}
          THEN {Part(page, "values", ports)} ELSE {})

Shown == {i \in screen : i.part \in {"settings", "values"}}
ShowsWhatWasAsked == paused \/ Shown = Wanted(asked)
==============================================================================
