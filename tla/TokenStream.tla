---------------------------- MODULE TokenStream -----------------------------
(***************************************************************************)
(* What the lexer promises its client: the tokens of a text, one after the *)
(* other, read through a cursor.  There is no buffer and no scanning here: *)
(* a token is the longest word, number or operator at the first place that *)
(* is neither blank nor comment, and looking ahead changes nothing.        *)
(*                                                                         *)
(* Two things a client must know are part of the promise: a character that *)
(* is no operator ends the process up to Slots tokens before the client    *)
(* gets there, and a word that ends with the text is not the last token -  *)
(* its last character is read again.                                       *)
(***************************************************************************)
EXTENDS Characters

CONSTANTS
  Texts,               \* the texts there are
  Slots                \* how many tokens the client can see

VARIABLES
  content,             \* the text
  cursor,              \* the position of the next token
  answer,              \* the token the client was given last
  exited               \* whether the process has ended

stream_vars == <<content, cursor, answer, exited>>

Least(S)    == CHOOSE x \in S : \A y \in S : x <= y
Greatest(S) == CHOOSE x \in S : \A y \in S : x >= y

-----------------------------------------------------------------------------
\* Where the comment that opens at p can end.  The star that opens a block
\* comment may close it.
BlockEnds(text, p) ==
  {q \in p + 3 .. Len(text) : text[q - 1] = "*" /\ text[q] = "/"}
LineEnds(text, p) == {q \in p + 3 .. Len(text) : text[q] = "\n"}

CommentEnds(text, p) ==
  IF Pair(text, p) = <<"/", "*">> THEN BlockEnds(text, p) ELSE LineEnds(text, p)

OpensComment(text, p) == Pair(text, p) \in {<<"/", "*">>, <<"/", "/">>}

\* The first place at or after p that is neither blank nor in a comment, or
\* Stuck if a comment on the way is not closed.
Stuck == -1
Start(text, p) ==
  LET start[q \in 0 .. Len(text)] ==
        IF OpensComment(text, q)
        THEN IF CommentEnds(text, q) = {} THEN Stuck ELSE start[Least(CommentEnds(text, q))]
        ELSE IF CharAt(text, q) \in Blank THEN start[q + 1] ELSE q
  IN start[p]

\* The last character of the longest run of S that starts after s.
RunEnd(text, s, S) ==
  Greatest({l \in s + 1 .. Len(text) : \A k \in s + 1 .. l : text[k] \in S})

\* Where a string that opens at s ends: at a quote, an EOF, or the end.
StringEnd(text, s) ==
  Least({q \in s + 2 .. Len(text) : text[q] \in {Quote, EOF}} \cup {Len(text) + 1})

\* A token and the position after it.
At(token, next) == [token |-> token, next |-> next]

\* A word or a number: at the end of the text its last character stays.
RunAt(type, p, s, e, text) ==
  At(Token(type, p, s + 1, e), IF e = Len(text) THEN e - 1 ELSE e)

StringAt(text, p, s) ==
  LET e == StringEnd(text, s)
  IN IF CharAt(text, e - 1) = Quote THEN At(Token("STRING", p, s + 2, e - 1), e)
     ELSE At(Token("EOF_OR_INVALID", p, s + 2, e - 1), IF e > Len(text) THEN Len(text) ELSE e)

\* What is read at p, if there is a token there.
ReadAt(text, p) ==
  LET s == Start(text, p)
      c == CharAt(text, s)
  IN CASE s = Len(text)         -> At(Token("EOF_OR_INVALID", p, s + 1, s), s)
       [] s < Len(text) /\ c \in Other \cup {EOF} -> At(Token("EOF_OR_INVALID", p, s + 1, s), s + 1)
       [] c = Quote             -> StringAt(text, p, s)
       [] c \in Letter          ->
            LET e == RunEnd(text, s, Letter \cup Digit)
            IN RunAt(WordType(SubSeq(text, s + 1, e)), p, s, e, text)
       [] c \in Digit           -> RunAt("NUMBER", p, s, RunEnd(text, s, Digit), text)
       [] Pair(text, s) \in TwoChars -> At(Token("OPERATOR", p, s + 1, s + 2), s + 2)
       [] c \in OneChar /\ Pair(text, s) \notin TwoChars -> At(Token("OPERATOR", p, s + 1, s + 1), s + 1)

\* No token can be read at p: the scan runs into an open comment or an unknown
\* character.
Open(text, p) == Start(text, p) = Stuck
Bad(text, p)  == ~Open(text, p) /\ CharAt(text, Start(text, p)) \in Unknown
Whole(text, p) == ~Open(text, p) /\ ~Bad(text, p)

\* The position of the n-th token after the one at p, as far as all the tokens
\* before it are whole; where one is not, there the client gets stuck.
Ahead(text, p, n) ==
  LET ahead[k \in 0 .. n] ==
        IF k = 0 THEN p
        ELSE IF Whole(text, ahead[k - 1]) THEN ReadAt(text, ahead[k - 1]).next ELSE ahead[k - 1]
  IN ahead[n]

\* All the tokens that are read before the client is answered can be read.
Filled == \A n \in 0 .. Slots - 1 : Whole(content, Ahead(content, cursor, n))

-----------------------------------------------------------------------------
StreamInit == /\ content \in Texts
              /\ cursor = 0
              /\ answer = NoToken
              /\ exited = FALSE

\* The client looks at the n-th token from the cursor.
Look(n) == /\ ~exited /\ Filled
           /\ answer' = ReadAt(content, Ahead(content, cursor, n)).token
           /\ UNCHANGED <<content, cursor, exited>>

\* The client takes the token at the cursor.
Take == /\ ~exited /\ Filled
        /\ answer' = ReadAt(content, cursor).token
        /\ cursor' = ReadAt(content, cursor).next
        /\ UNCHANGED <<content, exited>>

\* The client asks again: the last answer is forgotten.
Ask == /\ ~exited
       /\ answer' = NoToken
       /\ UNCHANGED <<content, cursor, exited>>

\* An unknown character within reach, or a client that expected another token
\* or looked too far.
Fail == /\ ~exited
        /\ \/ Bad(content, Ahead(content, cursor, Slots - 1))
           \/ Filled
        /\ exited' = TRUE
        /\ UNCHANGED <<content, cursor, answer>>

StreamNext == (\E n \in 0 .. Slots - 1 : Look(n)) \/ Take \/ Ask \/ Fail

StreamSpec == StreamInit /\ [][StreamNext]_stream_vars
=============================================================================
