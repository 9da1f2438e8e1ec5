---------------------------- MODULE ArgumentMaps ----------------------------
(***************************************************************************)
(* How a command chooses the variant that is meant by its arguments        *)
(* (cli_map.c), and what Tab offers for the next argument                  *)
(* (cli_auto_complete.c).  Both read the same patterns, such as            *)
(* "set %P src ip %4", and both have their own idea of what fits.          *)
(*                                                                         *)
(* A map is a sequence of entries, each an index and the tokens of its     *)
(* pattern.  Words are strings; what they contain is a set of characters.  *)
(***************************************************************************)
EXTENDS Integers, Sequences, FiniteSets, SequencesExt

CONSTANTS
    IPv4Words, IPv6Words    \* words that _atoip() reads as an address

\* The words of a string, without empty ones.
pg_strtok(s, delim) ==
    LET Cut(i) == i \in {0, Len(s) + 1} \/ SubSeq(s, i, i) = delim
        starts == {i \in 1 .. Len(s) : Cut(i - 1) /\ ~Cut(i)}
        Word(i) == SubSeq(s, i, CHOOSE j \in i .. Len(s) : Cut(j + 1) /\ \A k \in i .. j : ~Cut(k))
    IN  [n \in 1 .. Cardinality(starts) |->
            Word(CHOOSE i \in starts : Cardinality({j \in starts : j <= i}) = n)]

Chars(word) == {SubSeq(word, i, i) : i \in 1 .. Len(word)}
StartsWith(word, prefix) ==
    Len(prefix) <= Len(word) /\ SubSeq(word, 1, Len(prefix)) = prefix

Digits == {"0", "1", "2", "3", "4", "5", "6", "7", "8", "9"}
HexDigits == Digits \cup {"a", "b", "c", "d", "e", "f", "A", "B", "C", "D", "E", "F"}

(***************************************************************************)
(* A token stands for one of some words: for itself, or for the choices of *)
(* "%|a|b".  Otherwise it is a placeholder, a letter for a kind of value.  *)
(***************************************************************************)
Token(text) ==
    CASE StartsWith(text, "%|") ->
            [letter |-> "", words |-> ToSet(pg_strtok(SubSeq(text, 3, Len(text)), "|"))]
      [] StartsWith(text, "%") /\ ~StartsWith(text, "%|") ->
            [letter |-> SubSeq(text, 2, 2), words |-> {}]
      [] OTHER -> [letter |-> "", words |-> {text}]

IsPlaceholder(token) == token.letter # ""

\* The entries {index, fmt} of a struct cli_map.
MapOf(table) ==
    [e \in DOMAIN table |->
        LET parts == pg_strtok(table[e][2], " ")
        IN  [index |-> table[e][1], tokens |-> [i \in DOMAIN parts |-> Token(parts[i])]]]

-----------------------------------------------------------------------------
(***************************************************************************)
(* What is executed.                                                       *)
(***************************************************************************)

\* Mutant: every character must be valid, as the comment above the loop says.
is_map_valid_All(letter, word) ==
    CASE letter \in {"b", "d", "D", "u", "U", "n"} -> Chars(word) \subseteq Digits
      [] letter \in {"h", "H", "m"} -> Chars(word) \subseteq HexDigits
      [] letter \in {"P", "C"} -> Chars(word) \subseteq Digits \cup {"a"}
      [] OTHER -> TRUE

\* The loop ends with the first character that is valid.
is_map_valid(letter, word) ==
    LET Has(chars) == Chars(word) \cap chars # {}
    IN  CASE letter \in {"%", "k", "l", "s", "c"} -> TRUE
          [] letter \in {"b", "d", "D", "u", "U", "n"} -> Has(Digits)
          [] letter \in {"h", "H", "m"} -> Has(HexDigits)
          [] letter \in {"P", "C"} -> Has(Digits \cup {"a"})
          [] letter = "4" -> word \in IPv4Words
          [] letter = "6" -> word \in IPv6Words
          [] OTHER -> FALSE

TokenIsMatched(token, word) ==
    IF IsPlaceholder(token) THEN is_map_valid(token.letter, word) ELSE word \in token.words

NoEntry == [index |-> -1, tokens |-> <<>>]
AsksForHelp(argv) == Last(argv) \in {"-?", "?"}

\* The first entry whose tokens all match; none when help is asked for.
cli_mapping(maps, argv) ==
    LET Matches(i) == /\ Len(maps[i].tokens) = Len(argv)
                      /\ \A j \in DOMAIN argv : TokenIsMatched(maps[i].tokens[j], argv[j])
        found == {i \in DOMAIN maps : Matches(i)}
    IN  IF AsksForHelp(argv) \/ found = {} THEN NoEntry
        ELSE maps[CHOOSE i \in found : \A j \in found : i <= j]

-----------------------------------------------------------------------------
(***************************************************************************)
(* What is completed.  "at" is the number of words before the one that is  *)
(* completed.                                                              *)
(***************************************************************************)

WithoutSign(word) == IF StartsWith(word, "-") THEN SubSeq(word, 2, Len(word)) ELSE word
WithoutHexMark(word) ==
    IF StartsWith(word, "0x") \/ StartsWith(word, "0X") THEN SubSeq(word, 3, Len(word)) ELSE word

_tok_all_digits(word) == WithoutSign(word) # "" /\ Chars(WithoutSign(word)) \subseteq Digits
_tok_all_hex_with_seps(word) == word # "" /\ Chars(word) \subseteq HexDigits \cup {":", "-", "."}
_tok_looks_like_ipv4(word) == Chars(word) \subseteq Digits \cup {".", "/"} /\ "." \in Chars(word)
_tok_looks_like_ipv6(word) == Chars(word) \subseteq HexDigits \cup {":", "/", "."} /\ ":" \in Chars(word)

_map_tok_compatible_with_user_tok(token, word) ==
    CASE ~IsPlaceholder(token) -> word \in token.words
      [] token.letter \in {"d", "D", "u", "U", "b", "n"} -> _tok_all_digits(word)
      [] token.letter \in {"h", "H"} -> _tok_all_hex_with_seps(WithoutHexMark(word))
      [] token.letter = "m" -> _tok_all_hex_with_seps(word)
      [] token.letter = "4" -> _tok_looks_like_ipv4(word)
      [] token.letter = "6" -> _tok_looks_like_ipv6(word)
      [] token.letter \in {"P", "C"} -> word = "all" \/ Chars(word) \subseteq Digits \cup {",", "-"}
      [] OTHER -> TRUE

\* The entry is one of this command, and what was typed so far fits it.
FitsSoFar(entry, argv, at) ==
    /\ argv[1] \in entry.tokens[1].words
    /\ \A i \in 1 .. at : i \in DOMAIN entry.tokens =>
            _map_tok_compatible_with_user_tok(entry.tokens[i], argv[i])

Fitting(maps, argv, at) == {e \in ToSet(maps) : FitsSoFar(e, argv, at)}

\* A text such as "<portlist>", which is printed and never inserted.
Hint == "<hint>"

\* Names of variables, the word "all" of a port list, or only a hint.
_map_collect_placeholder_candidates(token, argv, at, prefix, variables) ==
    LET hint == IF prefix = "" THEN {Hint} ELSE {}
    IN  CASE argv[1] = "env" /\ at = 2 /\ argv[2] \in {"get", "set", "del"} ->
                LET found == {v \in variables : StartsWith(v, prefix)}
                IN  IF found = {} THEN hint ELSE found
          [] argv[1] # "env" /\ token.letter = "P" /\ StartsWith("all", prefix) -> {"all"} \cup hint
          [] OTHER -> hint

Candidates(entry, argv, at, prefix, variables) ==
    LET token == entry.tokens[at + 1]
    IN  IF IsPlaceholder(token)
        THEN _map_collect_placeholder_candidates(token, argv, at, prefix, variables)
        ELSE {w \in token.words : StartsWith(w, prefix)}

_map_collect_candidates(maps, argv, at, prefix, variables) ==
    UNION {Candidates(e, argv, at, prefix, variables) :
              e \in {f \in Fitting(maps, argv, at) : Len(f.tokens) > at}}

_map_current_is_user_value(maps, argv, at) ==
    \E e \in Fitting(maps, argv, at) : Len(e.tokens) > at /\ IsPlaceholder(e.tokens[at + 1])

_map_has_tokens_after(maps, argv, at) ==
    \E e \in Fitting(maps, argv, at) : Len(e.tokens) > at + 1

-----------------------------------------------------------------------------
(***************************************************************************)
(* The maps that are registered for completion: a list of pairs of the     *)
(* name of a command and a map.                                            *)
(***************************************************************************)

\* A map that is registered later takes the place of the one before.
cli_register_cmd_maps(registry, maps) ==
    LET names == UNION {e.tokens[1].words : e \in ToSet(maps)}
    IN  [n \in names \cup DOMAIN registry |-> IF n \in names THEN maps ELSE registry[n]]

=============================================================================
