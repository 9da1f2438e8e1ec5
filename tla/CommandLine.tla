----------------------------- MODULE CommandLine -----------------------------
(***************************************************************************)
(* What the command line promises to the person who types: a text, a       *)
(* cursor in it and the keys that change them.  How the text is kept, and  *)
(* how the history keeps its lines, is not said.                           *)
(***************************************************************************)
EXTENDS Integers, Sequences, SequencesExt

CONSTANTS
    Printable,  \* characters that can be typed
    Space,
    Trim(_),    \* a line without the blanks around it
    Expand(_)   \* the line that takes the place of an alias line

VARIABLES
    text, cursor, \* cursor is the number of characters before it
    killed,       \* the text of the last kill, <<>> when it is lost
    remembered    \* lines the arrows may show

view == <<text, cursor, killed, remembered>>

LineInit == text = <<>> /\ cursor = 0 /\ killed = <<>> /\ remembered = {}

Before == SubSeq(text, 1, cursor)
After == SubSeq(text, cursor + 1, Len(text))

Show(new, at) == text' = new /\ cursor' = at /\ UNCHANGED <<killed, remembered>>

Type == \E c \in Printable : Show(Append(Before, c) \o After, cursor + 1)

Move == \E at \in 0 .. Len(text) :
    /\ at \in {cursor - 1, cursor + 1, 0, Len(text)}
    /\ Show(text, at)

\* To the place after the nearest blank on the left that is not at the cursor.
WordLeft == \E at \in 0 .. cursor - 1 :
    /\ at = 0 \/ text[at] = Space
    /\ \A k \in at + 1 .. cursor - 1 : text[k] # Space
    /\ Show(text, at)

\* To the nearest blank on the right that is not at the cursor.
WordRight == \E at \in cursor + 1 .. Len(text) :
    /\ at = Len(text) \/ text[at + 1] = Space
    /\ \A k \in cursor + 1 .. at - 1 : text[k + 1] # Space
    /\ Show(text, at)

Backspace == cursor > 0 /\ Show(Front(Before) \o After, cursor - 1)

\* At the start a backspace has nothing to delete.  One that comes after the
\* cursor went to the right and back may take the character at the cursor.
BackspaceAtStart == cursor = 0 /\ text # <<>> /\ Show(Tail(text), 0)

Kill ==
    /\ text' = Before /\ killed' = After
    /\ UNCHANGED <<cursor, remembered>>

Yank == killed # <<>> /\ Show(Before \o killed \o After, cursor + Len(killed))

Recall == \E l \in remembered \cup {<<>>} : Show(l, Len(l))

Clear == Show(<<>>, 0)

Enter ==
    /\ text' = <<>> /\ cursor' = 0
    /\ remembered' = remembered \cup {Trim(text), Expand(text)}
    /\ UNCHANGED killed

LineNext ==
    \/ Type \/ Move \/ WordLeft \/ WordRight \/ Backspace \/ BackspaceAtStart
    \/ Kill \/ Yank \/ Recall \/ Clear \/ Enter

LineSpec == LineInit /\ [][LineNext]_view
=============================================================================
