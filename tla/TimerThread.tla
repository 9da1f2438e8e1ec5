----------------------------- MODULE TimerThread -----------------------------
(***************************************************************************)
(* What the timer thread does: once a second the statistics, and several   *)
(* times a second the page, the log page among them, and the packets that  *)
(* wait to be printed; and those it shares state with: the console, which  *)
(* draws too, and lcores that receive, log and ask for labels.             *)
(*                                                                         *)
(* The parts of the thread's turn follow each other and share no state     *)
(* but the pause of the screen, so a behaviour looks at one of them, with  *)
(* everything it meets: the pages, the statistics, the log page, the dump, *)
(* or the colors.                                                          *)
(***************************************************************************)
EXTENDS PacketDump, Display, Statistics, MessageLog, Theme

CONSTANT Parts      \* the parts of the turn that are looked at

ASSUME TimerAssumption ==
    /\ Parts \subseteq {"pages", "statistics", "log", "dump", "theme"}
    /\ {"console", "lcore"} \subseteq Loggers \* who logs here

VARIABLE looks_at

all == <<looks_at, drawn, counters, log, colors, dumping>>

Init ==
    /\ looks_at \in Parts
    /\ DisplayInit /\ StatisticsInit /\ LogInit /\ ThemeInit /\ DumpInit
    /\ looks_at # "log" => ~log_file
    /\ looks_at # "theme" => ~theme_on

\* After a spoiled drawing nothing is said of the screen, and nothing looked at.
Pages_(A) == looks_at = "pages" /\ ~spoiled /\ A /\ UNCHANGED <<looks_at, counters, log, colors, dumping>>
Statistics_(A) == looks_at = "statistics" /\ A /\ UNCHANGED <<looks_at, drawn, log, colors, dumping>>
Log_(A) == looks_at = "log" /\ A /\ UNCHANGED <<looks_at, drawn, counters, colors, dumping>>
Dump_(A) == looks_at = "dump" /\ A /\ UNCHANGED <<looks_at, drawn, counters, log, colors>>
Theme_(A) == looks_at = "theme" /\ A /\ UNCHANGED <<looks_at, drawn, counters, log, dumping>>

-----------------------------------------------------------------------------
\* The next page_timeout has come.
PageTimeout ==
    /\ At("timer", "idle") \/ At("timer", "done")
    /\ Call("timer")
    /\ UNCHANGED <<pflags, paused, update_display, rounds4, screen, view, settings, todo, loaded,
                   arp, screen_commands, asked, spoiled>>

\* _timer_thread
TimerTurn ==
    \/ Pages_(PageTimeout \/ DrawStep("timer"))
    \/ Statistics_(BeginRound \/ ProcessStep \/ BeginTotals \/ TotalsStep)
    \/ Log_(BeginPage \/ PageLogStep)
    \/ Dump_((BeginPrint /\ ~paused) \/ PrintStep)

\* A command goes on.
ConsoleStep ==
    \/ Pages_(CommandStep \/ DrawStep("console") \/ Displayed)
    \/ Statistics_(ClearStep)
    \/ Log_(LogStep("console"))
    \/ Dump_(DumpCommandStep)

\* "disable|enable screen", as far as the dump sees it.
DumpPaused ==
    /\ looks_at = "dump"
    /\ paused' = ~paused
    /\ UNCHANGED <<looks_at, pflags, update_display, rounds4, screen, view, settings, draw, todo,
                   loaded, arp, screen_commands, asked, spoiled, counters, log, colors, dumping>>

NewCommand ==
    \/ Pages_(DisplayCommand)
    \/ Statistics_(ClearStats)
    \/ Log_(OpenSlot("console"))
    \/ Dump_(DumpCommand)
    \/ Theme_(ThemeCommand)
    \/ DumpPaused

LcoreStep ==
    \/ Pages_(arp # "idle" /\ ArpStep)
    \/ Log_(LogStep("lcore"))
    \/ \E c \in Lcores : Dump_(PacketDump(c) \/ AdvanceTail(c) \/ Count(c))

LcoreReceives ==
    \/ Pages_(arp = "idle" /\ ArpStep)
    \/ Statistics_(\E p \in StatPorts : Traffic(p))
    \/ Log_(OpenSlot("lcore"))
    \/ \E c \in Lcores : Dump_(DumpBulk(c))

Next == TimerTurn \/ ConsoleStep \/ NewCommand \/ LcoreStep \/ LcoreReceives

\* The timer thread and the lcores never rest, a command that has begun comes
\* to its end; nobody has to give commands or to send packets.  What must
\* come to pass is about pages and dump: of other parts no fairness is asked.
MustGoOn == looks_at \in {"pages", "dump"}

Spec == /\ Init /\ [][Next]_all
        /\ WF_all(MustGoOn /\ TimerTurn) /\ WF_all(MustGoOn /\ ConsoleStep)
        /\ WF_all(MustGoOn /\ LcoreStep)

-----------------------------------------------------------------------------
(***************************************************************************)
(* Properties of the parts together with what they meet.                   *)
(***************************************************************************)

\* pktgen_process_stats, "Calculate the per port rates", against
\* pktgen_clear_stats: totals and rates are those between the readings, also
\* after a clear that met the timer in any of its steps; a clear that met
\* nothing leaves the maximum sound and follows no pointer that is gone.
RatesAreTrue == RatesAreRead /\ CalmClearsAreSafe

\* What the pages of the statistics and of the log show is so.
ScreenIsTrue == RatesAreTrue /\ LogIsKept

\* "page <pages>": when the last command is done, the page that it asked for
\* is shown, with the settings that are in force, unless commands met a
\* drawing or an ARP reply between two steps that belong together.
PageAskedIsShown == looks_at = "pages" => <>[](spoiled \/ ShowsWhatWasAsked)

\* Everything that is copied is eventually printed, as long as the screen is
\* not paused.
DumpedIsPrinted == (dump_head < dump_tail) ~> (dump_head >= dump_tail \/ paused)
=============================================================================
