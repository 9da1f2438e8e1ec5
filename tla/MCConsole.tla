------------------------------ MODULE MCConsole ------------------------------
(***************************************************************************)
(* A history of two lines; "s" is an alias of the command "x".  One        *)
(* session edits lines, the others enter some.                             *)
(***************************************************************************)
EXTENDS Console

MCChars == {"s", "x", " ", "!"}
MCAliasLine == <<"x">>
MCBounds == {[chars |-> {"x", " "}, line |-> 3, kills |-> 3, returns |-> 0],
             [chars |-> {"s", "x"}, line |-> 2, kills |-> 1, returns |-> 1],
             [chars |-> {"s", "x", "!"}, line |-> 2, kills |-> 0, returns |-> 3],
             [chars |-> {"s", "!", " "}, line |-> 2, kills |-> 0, returns |-> 2]}
=============================================================================
