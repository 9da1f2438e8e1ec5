-------------------------------- MODULE Theme --------------------------------
(***************************************************************************)
(* The colors of the screen's elements: setting one, saving all to a file  *)
(* of commands, and loading that file in the same or in a later run.       *)
(*                                                                         *)
(* Colors and attributes are the numbers of cli_scrn.h, and the tables     *)
(* that name them are searched from the front.                             *)
(***************************************************************************)
EXTENDS Integers, Sequences, FiniteSets, SequencesExt

CONSTANTS
    ThemeItems,        \* elements that commands name, with initial colors
    ColorWords, AttributeWords, \* what is given to "theme"
    MaxThemeCommands   \* bound

ASSUME ThemeAssumption == MaxThemeCommands \in Nat

UnknownColor == 99
UnknownAttr == 99

\* SCRN_DEFAULT_FG and SCRN_DEFAULT_BG are both 9.
string_color_map == <<
    <<"black", 0>>, <<"white", 9>>, <<"red", 1>>, <<"green", 2>>, <<"yellow", 3>>, <<"blue", 4>>,
    <<"magenta", 5>>, <<"cyan", 6>>, <<"white", 7>>, <<"black", 9>>, <<"default", 0>>,
    <<"none", 98>>, <<"default_fg", 7>>, <<"default_bg", 0>>>>

string_attr_map == <<
    <<"off", 0>>, <<"default", 0>>, <<"bold", 1>>, <<"bright", 1>>, <<"underscore", 4>>,
    <<"underline", 4>>, <<"blink", 5>>, <<"reverse", 7>>, <<"concealed", 8>>>>

\* The first entry of a table that satisfies a test; its other half.
FirstWith(map, Test(_), half, otherwise) ==
    LET found == {k \in DOMAIN map : Test(map[k])}
    IN  IF found = {} THEN otherwise ELSE map[Min(found)][half]

get_name_by_color(color) == FirstWith(string_color_map, LAMBDA e : e[2] = color, 1, "(null)")
get_name_by_attr(attr) == FirstWith(string_attr_map, LAMBDA e : e[2] = attr, 1, "(null)")
get_color_by_name(name) == FirstWith(string_color_map, LAMBDA e : e[1] = name, 2, UnknownColor)
get_attr_by_name(name) == FirstWith(string_attr_map, LAMBDA e : e[1] = name, 2, UnknownAttr)

Colors(fg, bg, attr) == [fg |-> fg, bg |-> bg, attr |-> attr]

\* Some rows of the table the program starts with.
theme_color_map == [item \in {"default", "top.page", "stats.port.label", "stats.ip"} |->
    CASE item = "default" -> Colors(9, 9, 0)
      [] item = "top.page" -> Colors(7, 98, 1)
      [] item = "stats.port.label" -> Colors(4, 98, 1)
      [] item = "stats.ip" -> Colors(6, 98, 0)]

ASSUME ItemsAssumption == ThemeItems \subseteq DOMAIN theme_color_map

VARIABLES
    theme,           \* theme_color_map
    theme_on,        \* this_scrn->theme, which the colors of the prompt follow
    theme_file,      \* the lines of the saved file
    theme_commands,  \* counter for the bound
    \* History:
    theme_saved,     \* the theme when the file was written
    theme_loaded     \* the last command loaded the file

colors == <<theme, theme_on, theme_file, theme_commands, theme_saved, theme_loaded>>

Initial == [item \in ThemeItems |-> theme_color_map[item]]

ThemeInit ==
    /\ theme = Initial /\ theme_on \in BOOLEAN
    /\ theme_file = <<>> /\ theme_commands = 0
    /\ theme_saved = Initial /\ theme_loaded = FALSE

Counts == theme_commands < MaxThemeCommands /\ theme_commands' = theme_commands + 1

\* What "theme <item> <fg> <bg> <attr>" makes of a theme; an unknown word
\* leaves it.
SetItem(t, item, fg, bg, attr) ==
    LET new == Colors(get_color_by_name(fg), get_color_by_name(bg), get_attr_by_name(attr)) IN
    IF item \notin DOMAIN t \/ UnknownColor \in {new.fg, new.bg} \/ new.attr = UnknownAttr THEN t
    ELSE [t EXCEPT ![item] = new]

SetThemeItem ==
    /\ Counts
    /\ \E item \in ThemeItems \cup {"unknown"}, fg, bg \in ColorWords, attr \in AttributeWords :
        theme' = SetItem(theme, item, fg, bg, attr)
    /\ theme_loaded' = FALSE
    /\ UNCHANGED <<theme_on, theme_file, theme_saved>>

\* "theme on|off"
ThemeState ==
    /\ Counts
    /\ theme_on' \in BOOLEAN
    /\ UNCHANGED <<theme, theme_file, theme_saved, theme_loaded>>

Line(item, c) ==
    [item |-> item, fg |-> get_name_by_color(c.fg), bg |-> get_name_by_color(c.bg),
     attr |-> get_name_by_attr(c.attr)]

\* Mutant: the two colors change places.
FileOf_Swapped(t) ==
    LET items == SetToSeq(ThemeItems) IN
    [k \in DOMAIN items |-> Line(items[k], Colors(t[items[k]].bg, t[items[k]].fg, t[items[k]].attr))]

FileOf(t) ==
    LET items == SetToSeq(ThemeItems) IN
    [k \in DOMAIN items |-> Line(items[k], t[items[k]])]

ThemeSave ==
    /\ Counts
    /\ theme_file' = FileOf(theme) /\ theme_saved' = theme
    /\ UNCHANGED <<theme, theme_on, theme_loaded>>

Loaded(t, file_) ==
    FoldLeft(LAMBDA u, line : SetItem(u, line.item, line.fg, line.bg, line.attr), t, file_)

\* "load <file>", by the program that saved it or by a new one.
ThemeLoad ==
    /\ Counts /\ theme_file # <<>>
    /\ \E from \in {theme, Initial} : theme' = Loaded(from, theme_file)
    /\ theme_loaded' = TRUE
    /\ UNCHANGED <<theme_on, theme_file, theme_saved>>

ThemeCommand == SetThemeItem \/ ThemeState \/ ThemeSave \/ ThemeLoad

\* SCRN_WHITE has the name that SCRN_DEFAULT_FG is found by.
Kept(color) == IF color = 7 THEN 9 ELSE color

\* "Save the current color theme to a file": loading the file brings back the
\* theme that was saved, but for white, and the same file would be saved again.
ThemeIsRestored ==
    theme_loaded =>
        /\ theme = [item \in ThemeItems |->
                    [theme_saved[item] EXCEPT !.fg = Kept(@), !.bg = Kept(@)]]
        /\ FileOf(theme) = theme_file
=============================================================================
