----------------------------- MODULE Characters -----------------------------
(***************************************************************************)
(* What src/lexer.h knows of single characters: the classes of ctype.h it  *)
(* asks for, its two tables, and the function that looks at a character    *)
(* without moving.  A text is a sequence of characters; a position is the  *)
(* number of characters before it.                                         *)
(*                                                                         *)
(* EOF is what lexer_state_eat_char returns at the end.  It is also the    *)
(* byte 255 of a text: char is signed on the target, and both are -1.      *)
(***************************************************************************)
EXTENDS Integers, Sequences

CONSTANTS
  Letter,              \* isalpha, or the underscore
  Digit,               \* isdigit
  Unknown,             \* ispunct, and no operator: #, ', ~, ...
  Other,               \* no token starts with it: a carriage return, a control
  EOF

Blank == {" ", "\n", "\t"}
Quote == "\""

\* operator_map, by its keys.
OneChar == {"@", "=", ",", ")", "}", ".", ";", "(", "{", "+", "-", "/", "*", "%",
            "&", "|", "^", "!", "<", ">"}
TwoChars == {<<"<", "<">>, <<">", ">">>, <<"=", "=">>, <<"!", "=">>, <<"|", "|">>,
             <<">", "=">>, <<"<", "=">>}

\* keyword_map.
Keywords == {<<"f", "n">>, <<"t", "y", "p", "e">>, <<"r", "e", "t", "u", "r", "n">>}

Char == Letter \cup Digit \cup Unknown \cup Other \cup {EOF} \cup Blank \cup {Quote} \cup OneChar

ASSUME AlphabetAssumption ==
  /\ Letter \cap (Digit \cup Unknown \cup Other \cup {EOF, Quote} \cup Blank \cup OneChar) = {}
  /\ Digit \cap (Unknown \cup Other \cup {EOF, Quote} \cup Blank \cup OneChar) = {}
  /\ Unknown \cap (Other \cup {EOF, Quote} \cup Blank \cup OneChar) = {}
  /\ Other \cap ({EOF, Quote} \cup Blank \cup OneChar) = {}
  /\ EOF \notin {Quote} \cup Blank \cup OneChar

\* lexer_state_peek_char.
CharAt(text, p) == IF p >= Len(text) THEN EOF ELSE text[p + 1]
Pair(text, p)   == <<CharAt(text, p), CharAt(text, p + 1)>>

\* A token: its type, the position get_token was called at (Token.location),
\* and the first and last character of its value.
Token(type, from, first, last) == [type |-> type, from |-> from, first |-> first, last |-> last]

NoToken == Token("none", 0, 0, 0)

Types == {"EOF_OR_INVALID", "IDENTIFIER", "KEYWORD", "STRING", "NUMBER", "OPERATOR"}

WordType(word) == IF word \in Keywords THEN "KEYWORD" ELSE "IDENTIFIER"
=============================================================================
