----------------------------- MODULE LexerProofs -----------------------------
(***************************************************************************)
(* What TLAPS proves of Lexer.tla, for every alphabet, every set of texts  *)
(* and every number of slots: the tokens lie in the text and in its order, *)
(* nothing but the end follows the end, lines are counted, and what the    *)
(* client is given is the stream of TokenStream.tla.                       *)
(***************************************************************************)
EXTENDS Lexer, Recursion, SequenceTheorems, FiniteSetTheorems, TLAPS

-----------------------------------------------------------------------------
(***************************************************************************)
(* The inductive invariant                                                 *)
(***************************************************************************)
Tokens == [type : Types, from : Nat, first : Nat, last : Nat]
Words  == {"IDENTIFIER", "KEYWORD", "NUMBER"}

\* The state of a scan: what it has eaten lies after the place it was asked for.
Reading ==
  /\ mode # "idle" => from <= position /\ Len(lookahead) < Slots
  /\ mode \in {"word", "number"} => first \in from + 1 .. position
  /\ mode = "string" => first \in from + 2 .. position + 1

\* Where the next token of the buffer is read from.
Asked == IF mode = "idle" THEN position ELSE from

Inside(t) == /\ t.first \in 1 .. Len(content) + 1
             /\ t.last \in t.first - 1 .. Len(content)

\* A token that is read from p can follow a.
Follows(a, p) ==
  /\ a.from <= p
  /\ \/ a.last <= p
     \/ a.last = Len(content) /\ a.type \in Words /\ p = Len(content) - 1

InOrder ==
  /\ \A k \in DOMAIN lookahead : k + 1 \in DOMAIN lookahead =>
       Follows(lookahead[k], lookahead[k + 1].from)
  /\ lookahead # <<>> => Follows(lookahead[Len(lookahead)], Asked)

EndRead(t) == t.type = "EOF_OR_INVALID" /\ t.from = Len(content)

\* After the end has been read the scanner is at the end, and in no comment.
AtEnd ==
  \A k \in DOMAIN lookahead : EndRead(lookahead[k]) =>
    /\ position = Len(content) /\ mode \in {"idle", "start"}
    /\ \A j \in DOMAIN lookahead : j >= k => lookahead[j].type = "EOF_OR_INVALID"

Inv == /\ TypeOK
       /\ Reading
       /\ \A k \in DOMAIN lookahead : Inside(lookahead[k])
       /\ InOrder
       /\ AtEnd

LEMMA Numbers ==
  ASSUME Inv
  PROVE  /\ Len(content) \in Nat /\ position \in 0 .. Len(content) /\ from \in Nat
         /\ first \in Nat /\ line \in Nat \ {0} /\ Slots \in Nat \ {0}
         /\ lookahead \in Seq(Tokens) /\ Len(lookahead) \in Nat
         /\ DOMAIN lookahead = 1 .. Len(lookahead)
         /\ \A k \in DOMAIN lookahead : lookahead[k] \in Tokens
<1>1. content \in Seq(Char) /\ lookahead \in Seq(Tokens)
  BY DEF Inv, TypeOK, Tokens
<1>2. /\ Len(content) \in Nat /\ Len(lookahead) \in Nat
      /\ DOMAIN lookahead = 1 .. Len(lookahead)
      /\ \A k \in DOMAIN lookahead : lookahead[k] \in Tokens
  BY <1>1
<1>3. /\ position \in 0 .. Len(content) /\ from \in 0 .. Len(content)
      /\ first \in Nat /\ line \in Nat \ {0}
  BY DEF Inv, TypeOK
<1>4. from \in Nat
  BY <1>2, <1>3
<1> QED
  BY <1>1, <1>2, <1>3, <1>4, LexerAssumption

LEMMA InvInit == Init => Inv
<1> SUFFICES ASSUME Init
             PROVE  Inv
  OBVIOUS
<1>1. /\ content \in Seq(Char) /\ position = 0 /\ line = 1 /\ lookahead = <<>>
      /\ mode = "idle" /\ from = 0 /\ first = 0 /\ request = NoCall
      /\ answer = NoToken /\ exited = FALSE
  BY LexerAssumption DEF Init
<1>2. Len(content) \in Nat /\ Slots \in Nat
  BY <1>1, LexerAssumption
<1>3. /\ lookahead \in Seq(Tokens) /\ Len(lookahead) = 0 /\ DOMAIN lookahead = {}
  BY <1>1
<1>4. TypeOK
  <2>1. lookahead \in Seq([type : Types, from : Nat, first : Nat, last : Nat])
    BY <1>3 DEF Tokens
  <2>2. Len(lookahead) <= Slots /\ 0 \in 0 .. Len(content) /\ 1 \in Nat \ {0}
    BY <1>2, <1>3
  <2>3. mode \in Modes
    BY <1>1 DEF Modes
  <2> QED
    BY <1>1, <2>1, <2>2, <2>3 DEF TypeOK
<1> QED
  BY <1>1, <1>3, <1>4 DEF Inv, Reading, InOrder, AtEnd

-----------------------------------------------------------------------------
(***************************************************************************)
(* Characters                                                              *)
(***************************************************************************)
\* A character that is not the end is one of the text.
LEMMA InText ==
  ASSUME Inv, NEW p \in Nat, CharAt(content, p) # EOF
  PROVE  p < Len(content)
BY Numbers DEF CharAt

LEMMA NextInText ==
  ASSUME Inv, Next_char # EOF
  PROVE  position < Len(content)
BY Numbers, InText DEF Next_char

\* The marks of comments and the operators are no ends.
LEMMA PairInText ==
  ASSUME Inv, NEW a \in OneChar, NEW b \in OneChar, Pair(content, position) = <<a, b>>
  PROVE  position + 1 < Len(content) /\ Next_char = a
<1>1. CharAt(content, position) = a /\ CharAt(content, position + 1) = b
  BY DEF Pair
<1>2. a # EOF /\ b # EOF
  BY AlphabetAssumption
<1> QED
  BY <1>1, <1>2, Numbers, InText DEF Next_char

\* What the classes of characters have to do with the end.
LEMMA Classes ==
  /\ EOF \notin Blank \cup Letter \cup Digit \cup Unknown \cup OneChar \cup {Quote}
  /\ "\n" \in Blank /\ "/" \in OneChar /\ "*" \in OneChar
BY AlphabetAssumption DEF Blank, OneChar, Quote

-----------------------------------------------------------------------------
(***************************************************************************)
(* The two kinds of steps of get_token                                     *)
(***************************************************************************)
\* A round of a loop: the scan moves on and no token is delivered.
LEMMA ScanStep ==
  ASSUME Inv, mode # "idle", mode' \in Modes \ {"idle"}, Go_on,
         position' \in position .. Len(content), first' \in Nat, line' \in Nat \ {0},
         mode' \in {"word", "number"} => first' \in from + 1 .. position',
         mode' = "string" => first' \in from + 2 .. position' + 1,
         mode = "start" => position < Len(content)
  PROVE  Inv'
<1>1. /\ content' = content /\ from' = from /\ lookahead' = lookahead
      /\ request' = request /\ answer' = answer /\ exited' = exited
  BY DEF Go_on
<1>2. TypeOK'
  BY <1>1, Numbers DEF Inv, TypeOK
<1>3. Reading'
  <2>1. from <= position /\ Len(lookahead) < Slots
    BY DEF Inv, Reading
  <2>2. position \in Nat /\ position' \in Nat /\ from \in Nat /\ position <= position'
    BY Numbers
  <2>3. from <= position'
    BY <2>1, <2>2
  <2> QED
    BY <1>1, <2>1, <2>3 DEF Reading
<1>4. Asked' = Asked
  BY <1>1 DEF Asked
<1>5. InOrder'
  BY <1>1, <1>4 DEF Inv, InOrder, Follows
<1>6. \A k \in DOMAIN lookahead : ~EndRead(lookahead[k])
  BY Numbers DEF Inv, AtEnd
<1>7. AtEnd'
  BY <1>1, <1>6 DEF AtEnd, EndRead
<1> QED
  BY <1>1, <1>2, <1>3, <1>5, <1>7 DEF Inv, Inside

\* A token is delivered.
LEMMA DeliverStep ==
  ASSUME Inv, mode # "idle", NEW type \in Types, NEW start \in Nat, NEW last \in Nat,
         Deliver(type, start, last),
         position' \in 0 .. Len(content), line' \in Nat \ {0},
         start \in 1 .. Len(content) + 1, last \in start - 1 .. Len(content),
         from <= position',
         \/ last <= position'
         \/ last = Len(content) /\ type \in Words /\ position' = Len(content) - 1,
         type = "EOF_OR_INVALID" /\ from = Len(content) => position' = Len(content),
         mode = "start" /\ position = Len(content) =>
           type = "EOF_OR_INVALID" /\ position' = Len(content)
  PROVE  Inv'
<1> DEFINE t == Token(type, from, start, last)
           L == Len(lookahead)
<1>1. /\ lookahead' = Append(lookahead, t) /\ mode' = "idle"
      /\ content' = content /\ from' = from /\ first' = first
      /\ request' = request /\ answer' = answer /\ exited' = exited
  BY DEF Deliver
<1>2. /\ t \in Tokens /\ t.type = type /\ t.from = from /\ t.first = start /\ t.last = last
  BY Numbers DEF Token, Tokens
<1> HIDE DEF t
<1>3. /\ L \in Nat /\ lookahead' \in Seq(Tokens) /\ Len(lookahead') = L + 1
      /\ DOMAIN lookahead = 1 .. L /\ DOMAIN lookahead' = 1 .. L + 1
      /\ \A k \in 1 .. L : lookahead'[k] = lookahead[k]
      /\ lookahead'[L + 1] = t
  BY <1>1, <1>2, Numbers
<1>4. L < Slots /\ from <= position
  BY DEF Inv, Reading
<1> HIDE DEF L
<1>5. \A k \in DOMAIN lookahead' : k \in 1 .. L \/ k = L + 1
  BY <1>3
<1>6. TypeOK'
  <2>1. Len(lookahead') <= Slots
    BY <1>3, <1>4, Numbers
  <2>2. lookahead' \in Seq([type : Types, from : Nat, first : Nat, last : Nat])
    BY <1>3 DEF Tokens
  <2> QED
    BY <1>1, <2>1, <2>2 DEF Inv, TypeOK, Modes
<1>7. Reading'
  BY <1>1 DEF Reading
<1>8. ASSUME NEW k \in DOMAIN lookahead'
      PROVE  Inside(lookahead[k])' 
  <2>1. CASE k = L + 1
    BY <1>1, <1>2, <1>3, <2>1 DEF Inside
  <2>2. CASE k \in 1 .. L
    BY <1>1, <1>3, <2>2 DEF Inv, Inside
  <2> QED
    BY <1>5, <2>1, <2>2
<1>9. InOrder'
  <2>1. Asked' = position' /\ Asked = from
    BY <1>1 DEF Asked
  <2>2. ASSUME NEW k \in DOMAIN lookahead', k + 1 \in DOMAIN lookahead'
        PROVE  Follows(lookahead'[k], lookahead'[k + 1].from)
    <3>1. k \in 1 .. L
      BY <1>3, <2>2
    <3>2. CASE k = L
      <4>1. Follows(lookahead[L], Asked) 
        BY <1>3, <3>1, <3>2 DEF Inv, InOrder, L
      <4> QED
        BY <1>2, <1>3, <2>1, <3>1, <3>2, <4>1
    <3>3. CASE k # L
      <4>1. k \in DOMAIN lookahead /\ k + 1 \in DOMAIN lookahead
        BY <1>3, <3>1, <3>3
      <4>2. Follows(lookahead[k], lookahead[k + 1].from)
        BY <4>1 DEF Inv, InOrder
      <4> QED
        BY <1>3, <4>1, <4>2
    <3> QED
      BY <3>2, <3>3
  <2>3. Follows(lookahead'[L + 1], position')
    BY <1>2, <1>3 DEF Follows
  <2> QED
    BY <1>1, <1>3, <2>1, <2>2, <2>3 DEF InOrder, Follows
<1>10. AtEnd'
  <2>1. ASSUME NEW k \in DOMAIN lookahead', EndRead(lookahead'[k])
        PROVE  /\ position' = Len(content)
               /\ \A j \in DOMAIN lookahead' : j >= k => lookahead'[j].type = "EOF_OR_INVALID"
    <3>1. CASE k = L + 1
      <4>1. type = "EOF_OR_INVALID" /\ from = Len(content)
        BY <1>2, <1>3, <2>1, <3>1 DEF EndRead
      <4>2. \A j \in DOMAIN lookahead' : j >= k => j = L + 1
        BY <1>3, <3>1
      <4> QED
        BY <1>2, <1>3, <4>1, <4>2
    <3>2. CASE k \in 1 .. L
      <4>1. EndRead(lookahead[k]) /\ k \in DOMAIN lookahead
        BY <1>3, <2>1, <3>2
      <4>2. /\ position = Len(content) /\ mode = "start"
            /\ \A j \in DOMAIN lookahead : j >= k => lookahead[j].type = "EOF_OR_INVALID"
        BY <4>1 DEF Inv, AtEnd
      <4>3. type = "EOF_OR_INVALID" /\ position' = Len(content)
        BY <4>2
      <4> QED
        BY <1>2, <1>3, <1>5, <4>2, <4>3
    <3> QED
      BY <1>5, <3>1, <3>2
  <2> QED
    BY <1>1, <2>1 DEF AtEnd, EndRead
<1> QED
  BY <1>6, <1>7, <1>8, <1>9, <1>10 DEF Inv

-----------------------------------------------------------------------------
(***************************************************************************)
(* get_token                                                               *)
(***************************************************************************)
\* lexer_state_eat_char where there is something to eat, and where not.
LEMMA Eaten ==
  ASSUME Inv, Eat
  PROVE  /\ position' \in position .. Len(content) /\ line' \in Nat \ {0}
         /\ Next_char # EOF => position < Len(content) /\ position' = position + 1
         /\ position = Len(content) => position' = position
<1>1. Next_char # EOF => position < Len(content)
  BY NextInText
<1> QED
  BY <1>1, Numbers DEF Eat

LEMMA StartSteps ==
  ASSUME Inv, EatBlank \/ OpenBlockComment \/ OpenLineComment \/ OpenString \/ OpenWord
  PROVE  Inv'
<1>1. mode = "start" /\ from <= position /\ Go_on
  BY DEF EatBlank, OpenBlockComment, OpenLineComment, OpenString, OpenWord, Scanning,
         Inv, Reading
<1>2. CASE EatBlank
  <2>1. Next_char # EOF /\ Eat /\ mode' = mode /\ first' = first
    BY <1>2, Classes DEF EatBlank
  <2> QED
    BY <1>1, <2>1, Eaten, Numbers, ScanStep DEF Modes
<1>3. CASE OpenBlockComment
  <2>1. Next_char # EOF /\ Eat /\ mode' = "block" /\ first' = first
    BY <1>3, PairInText, Classes DEF OpenBlockComment
  <2> QED
    BY <1>1, <2>1, Eaten, Numbers, ScanStep DEF Modes
<1>4. CASE OpenLineComment
  <2>1. position + 1 < Len(content)
    BY <1>4, PairInText, Classes DEF OpenLineComment
  <2>2. position' = position + 2 /\ line' = line /\ mode' = "line" /\ first' = first
    BY <1>4 DEF OpenLineComment
  <2>3. position' \in position .. Len(content) /\ position < Len(content)
    BY <2>1, <2>2, Numbers
  <2> QED
    BY <1>1, <2>2, <2>3, Numbers, ScanStep DEF Modes
<1>5. CASE OpenString
  <2>1. Next_char # EOF /\ Eat /\ mode' = "string" /\ first' = position + 2
    BY <1>5, Classes DEF OpenString
  <2>2. /\ position' \in position .. Len(content) /\ line' \in Nat \ {0}
        /\ position < Len(content) /\ position' = position + 1
    BY <2>1, Eaten
  <2>3. first' \in Nat /\ first' \in from + 2 .. position' + 1
    BY <1>1, <2>1, <2>2, Numbers
  <2> QED
    BY <1>1, <2>1, <2>2, <2>3, ScanStep DEF Modes
<1>6. CASE OpenWord
  <2>1. /\ Next_char # EOF /\ Eat /\ mode' \in {"word", "number"}
        /\ first' = position + 1
    BY <1>6, Classes DEF OpenWord
  <2>2. /\ position' \in position .. Len(content) /\ line' \in Nat \ {0}
        /\ position < Len(content) /\ position' = position + 1
    BY <2>1, Eaten
  <2>3. first' \in Nat /\ first' \in from + 1 .. position'
    BY <1>1, <2>1, <2>2, Numbers
  <2> QED
    BY <1>1, <2>1, <2>2, <2>3, ScanStep DEF Modes
<1> QED
  BY <1>2, <1>3, <1>4, <1>5, <1>6

LEMMA CommentSteps ==
  ASSUME Inv, SkipBlockComment \/ SkipLineComment
  PROVE  Inv'
<1>1. mode \in {"block", "line"} /\ Go_on /\ first' = first
  BY DEF SkipBlockComment, SkipLineComment, Scanning
<1>2. mode' \in {"start", "block", "line"}
  BY <1>1 DEF SkipBlockComment, SkipLineComment
<1>3. position' \in position .. Len(content) /\ line' \in Nat \ {0}
  <2>1. CASE Eat
    BY <2>1, Eaten
  <2>2. CASE ~Eat
    <3>1. Pair(content, position) = <<"*", "/">> /\ position' = position + 2 /\ line' = line
      BY <2>2 DEF SkipBlockComment, SkipLineComment
    <3>2. position + 1 < Len(content)
      BY <3>1, PairInText, Classes
    <3> QED
      BY <3>1, <3>2, Numbers
  <2> QED
    BY <2>1, <2>2
<1>4. first' \in Nat /\ mode # "start" /\ mode # "idle" /\ mode' \in Modes \ {"idle"}
  BY <1>1, <1>2, Numbers DEF Modes
<1> QED
  BY <1>1, <1>2, <1>3, <1>4, ScanStep

\* The value of a string begins in what has been read, however far the scan is.
LEMMA Further ==
  ASSUME NEW a \in Nat, NEW p \in Nat, NEW q \in Nat, NEW f \in a + 2 .. p + 1, p <= q
  PROVE  f \in a + 2 .. q + 1
OBVIOUS

LEMMA StringStep ==
  ASSUME Inv, ReadString
  PROVE  Inv'
<1>1. mode = "string" /\ Eat
  BY DEF ReadString, Scanning
<1>2. first \in from + 2 .. position + 1 /\ from <= position
  BY <1>1 DEF Inv, Reading
<1>3. /\ position' \in position .. Len(content) /\ line' \in Nat \ {0}
      /\ position \in Nat /\ position <= Len(content) /\ Len(content) \in Nat
      /\ from \in Nat /\ first \in Nat
  BY <1>1, Eaten, Numbers
<1>4. CASE Deliver("STRING", first, position) \/ Deliver("EOF_OR_INVALID", first, position)
  <2>1. /\ first \in 1 .. Len(content) + 1 /\ position \in first - 1 .. Len(content)
        /\ from <= position' /\ position <= position' /\ position' \in 0 .. Len(content)
        /\ from # Len(content)
    BY <1>2, <1>3
  <2>2. "STRING" \in Types /\ "EOF_OR_INVALID" \in Types
    BY DEF Types
  <2> QED
    BY <1>1, <1>3, <1>4, <2>1, <2>2, DeliverStep
<1>5. CASE UNCHANGED <<mode, first>> /\ Go_on
  <2>1. first' \in from + 2 .. position' + 1
    <3>1. first' = first
      BY <1>5
    <3>2. position' \in Nat /\ position <= position' /\ position \in Nat /\ from \in Nat
      BY <1>3
    <3> QED
      BY <1>2, <3>1, <3>2, Further
  <2> QED
    BY <1>1, <1>3, <1>5, <2>1, ScanStep DEF Modes
<1> QED
  BY <1>4, <1>5 DEF ReadString

LEMMA WordSteps ==
  ASSUME Inv, ReadWord \/ EndWord
  PROVE  Inv'
<1>1. mode \in {"word", "number"}
  BY DEF ReadWord, EndWord
<1>2. first \in from + 1 .. position
  BY <1>1 DEF Inv, Reading
<1>3. /\ position \in Nat /\ position <= Len(content) /\ Len(content) \in Nat
      /\ from \in Nat /\ first \in Nat /\ line \in Nat \ {0}
  BY Numbers
<1>4. CASE ReadWord
  <2>1. Eat /\ mode' = mode /\ first' = first /\ Go_on
    BY <1>4 DEF ReadWord
  <2>2. position' \in position .. Len(content) /\ line' \in Nat \ {0}
    BY <2>1, Eaten
  <2>3. first' \in from + 1 .. position'
    BY <1>2, <1>3, <2>1, <2>2
  <2> QED
    BY <1>1, <1>3, <2>1, <2>2, <2>3, ScanStep DEF Modes
<1>5. CASE EndWord
  <2> DEFINE type == IF mode = "number" THEN "NUMBER"
                     ELSE WordType(SubSeq(content, first, position))
  <2>1. Unread /\ Deliver(type, first, position)
    BY <1>5 DEF EndWord
  <2>2. type \in Words /\ type \in Types
    BY DEF WordType, Words, Types
  <2> HIDE DEF type
  <2>3. line' \in Nat \ {0}
    BY <1>3, <2>1 DEF Unread
  <2>4. position' = IF position < Len(content) THEN position ELSE position - 1
    BY <2>1 DEF Unread
  <2>5. /\ position' \in 0 .. Len(content)
        /\ first \in 1 .. Len(content) + 1 /\ position \in first - 1 .. Len(content)
        /\ from <= position'
        /\ position <= position' \/ (position = Len(content) /\ position' = Len(content) - 1)
    BY <1>2, <1>3, <2>4
  <2>6. type # "EOF_OR_INVALID" /\ mode # "start" /\ mode # "idle"
    BY <1>1, <2>2 DEF Words
  <2> QED
    BY <1>3, <2>1, <2>2, <2>3, <2>5, <2>6, DeliverStep
<1> QED
  BY <1>4, <1>5

LEMMA MarkSteps ==
  ASSUME Inv, EndOfInput \/ ReadOperator
  PROVE  Inv'
<1>1. mode = "start" /\ from <= position
  BY DEF EndOfInput, ReadOperator, Scanning, Inv, Reading
<1>2. /\ position \in Nat /\ position <= Len(content) /\ Len(content) \in Nat
      /\ from \in Nat /\ line \in Nat \ {0}
  BY Numbers
<1>3. CASE EndOfInput
  <2>1. Eat /\ Deliver("EOF_OR_INVALID", position + 1, position)
    BY <1>3 DEF EndOfInput
  <2>2. /\ position' \in position .. Len(content) /\ line' \in Nat \ {0}
        /\ position = Len(content) => position' = position
    BY <2>1, Eaten
  <2>3. /\ position' \in 0 .. Len(content) /\ position + 1 \in 1 .. Len(content) + 1
        /\ position \in (position + 1) - 1 .. Len(content) /\ position + 1 \in Nat
        /\ from <= position' /\ position <= position'
        /\ from = Len(content) => position' = Len(content)
    BY <1>1, <1>2, <2>2
  <2>4. "EOF_OR_INVALID" \in Types
    BY DEF Types
  <2> QED
    BY <1>1, <1>2, <2>1, <2>2, <2>3, <2>4, DeliverStep
<1>4. CASE ReadOperator
  <2> DEFINE length == IF Pair(content, position) \in TwoChars THEN 2 ELSE 1
  <2>1. /\ Next_char \in OneChar /\ position' = position + length /\ line' = line
        /\ Deliver("OPERATOR", position + 1, position + length)
    BY <1>4 DEF ReadOperator
  <2>2. position < Len(content)
    BY <2>1, Classes, NextInText
  <2>3. length \in {1, 2} /\ position + length <= Len(content)
    <3>1. CASE Pair(content, position) \in TwoChars
      <4>1. PICK a \in OneChar, b \in OneChar : Pair(content, position) = <<a, b>>
        BY <3>1 DEF TwoChars, OneChar
      <4>2. position + 1 < Len(content)
        BY <4>1, PairInText
      <4> QED
        BY <1>2, <3>1, <4>2
    <3>2. CASE Pair(content, position) \notin TwoChars
      BY <1>2, <2>2, <3>2
    <3> QED
      BY <3>1, <3>2
  <2> HIDE DEF length
  <2>4. /\ position' \in 0 .. Len(content) /\ position + 1 \in 1 .. Len(content) + 1
        /\ position + length \in (position + 1) - 1 .. Len(content)
        /\ position + 1 \in Nat /\ position + length \in Nat
        /\ from <= position' /\ position + length <= position'
        /\ position # Len(content) /\ line' \in Nat \ {0}
    BY <1>1, <1>2, <2>1, <2>2, <2>3
  <2>5. "OPERATOR" \in Types /\ "OPERATOR" # "EOF_OR_INVALID"
    BY DEF Types
  <2> QED
    BY <1>1, <2>1, <2>4, <2>5, DeliverStep
<1> QED
  BY <1>3, <1>4

-----------------------------------------------------------------------------
(***************************************************************************)
(* The calls                                                               *)
(***************************************************************************)
\* Steps that touch neither the scan nor the buffer.
LEMMA QuietStep ==
  ASSUME Inv, UNCHANGED <<content, scanner, lookahead>>,
         request' \in Requests \cup {NoCall}, answer' \in Tokens \cup {NoToken},
         exited' \in BOOLEAN
  PROVE  Inv'
<1>1. /\ content' = content /\ position' = position /\ line' = line /\ mode' = mode
      /\ from' = from /\ first' = first /\ lookahead' = lookahead
  BY DEF scanner
<1>2. TypeOK'
  BY <1>1 DEF Inv, TypeOK, Tokens
<1>3. InOrder'
  BY <1>1 DEF Inv, InOrder, Asked, Follows
<1> QED
  BY <1>1, <1>2, <1>3 DEF Inv, Reading, Inside, AtEnd, EndRead

\* The token at the front is taken.
LEMMA TakeStep ==
  ASSUME Inv, Len(lookahead) = Slots, lookahead' = Tail(lookahead),
         answer' = lookahead[1], request' = NoCall,
         UNCHANGED <<content, scanner, exited>>
  PROVE  Inv'
<1> DEFINE L == Len(lookahead)
<1>1. /\ content' = content /\ position' = position /\ line' = line /\ mode' = mode
      /\ from' = from /\ first' = first /\ exited' = exited
  BY DEF scanner
<1>2. /\ lookahead \in Seq(Tokens) /\ L \in Nat /\ L >= 1 /\ DOMAIN lookahead = 1 .. L
      /\ L = Slots /\ lookahead # <<>>
  BY Numbers
<1>3. /\ lookahead' \in Seq(Tokens) /\ Len(lookahead') = L - 1
      /\ \A k \in 1 .. L - 1 : lookahead'[k] = lookahead[k + 1]
  BY <1>2
<1>4. DOMAIN lookahead' = 1 .. L - 1 /\ lookahead[1] \in Tokens
  BY <1>2, <1>3
<1> HIDE DEF L
<1>5. \A k \in DOMAIN lookahead' : /\ k + 1 \in DOMAIN lookahead /\ k \in Nat
                                    /\ lookahead'[k] = lookahead[k + 1]
  BY <1>2, <1>3, <1>4
<1>6. TypeOK'
  <2>1. Len(lookahead') <= Slots
    BY <1>2, <1>3
  <2> QED
    BY <1>1, <1>3, <1>4, <2>1 DEF Inv, TypeOK, Tokens
<1>7. mode = "idle" /\ Reading'
  <2>1. mode = "idle"
    BY <1>2 DEF Inv, Reading, L
  <2> QED
    BY <1>1, <2>1 DEF Reading
<1>8. \A k \in DOMAIN lookahead' : Inside(lookahead'[k])
  BY <1>5 DEF Inv
<1>9. InOrder'
  <2>1. ASSUME NEW k \in DOMAIN lookahead', k + 1 \in DOMAIN lookahead'
        PROVE  Follows(lookahead'[k], lookahead'[k + 1].from)
    <3>1. /\ lookahead'[k] = lookahead[k + 1] /\ lookahead'[k + 1] = lookahead[(k + 1) + 1]
          /\ k + 1 \in DOMAIN lookahead /\ (k + 1) + 1 \in DOMAIN lookahead
      BY <1>5, <2>1
    <3> QED
      BY <3>1 DEF Inv, InOrder
  <2>2. ASSUME lookahead' # <<>>
        PROVE  Follows(lookahead'[Len(lookahead')], Asked)
    <3>1. Len(lookahead') \in DOMAIN lookahead'
      BY <1>2, <1>3, <1>4, <2>2
    <3>2. lookahead'[Len(lookahead')] = lookahead[L]
      BY <1>2, <1>3, <1>5, <3>1
    <3> QED
      BY <1>2, <3>2 DEF Inv, InOrder, L
  <2>3. Asked' = Asked
    BY <1>1 DEF Asked
  <2> QED
    BY <1>1, <2>1, <2>2, <2>3 DEF InOrder, Follows
<1>10. AtEnd'
  <2>1. ASSUME NEW k \in DOMAIN lookahead', EndRead(lookahead'[k])
        PROVE  /\ position = Len(content)
               /\ \A j \in DOMAIN lookahead' : j >= k => lookahead'[j].type = "EOF_OR_INVALID"
    <3>1. k + 1 \in DOMAIN lookahead /\ EndRead(lookahead[k + 1])
      BY <1>5, <2>1
    <3>2. /\ position = Len(content)
          /\ \A j \in DOMAIN lookahead : j >= k + 1 => lookahead[j].type = "EOF_OR_INVALID"
      BY <3>1 DEF Inv, AtEnd
    <3>3. ASSUME NEW j \in DOMAIN lookahead', j >= k
          PROVE  lookahead'[j].type = "EOF_OR_INVALID"
      <4>1. j + 1 >= k + 1
        BY <1>5, <2>1, <3>3
      <4> QED
        BY <1>5, <3>2, <4>1
    <3> QED
      BY <3>2, <3>3
  <2> QED
    BY <1>1, <1>7, <2>1 DEF AtEnd, EndRead
<1> QED
  BY <1>1, <1>6, <1>7, <1>8, <1>9, <1>10 DEF Inv, Inside

\* A call of token_lookahead names a place.
LEMMA AskedPlace ==
  ASSUME Inv, request.call = "lookahead"
  PROVE  request.n \in 0 .. Slots
<1>1. request \in Requests \cup {NoCall}
  BY DEF Inv, TypeOK
<1>2. \A r \in [call : {"expect"}, type : Types] : r.call = "expect"
  OBVIOUS
<1>3. request \in [call : {"lookahead"}, n : 0 .. Slots]
  BY <1>1, <1>2 DEF Requests, NoCall
<1> QED
  BY <1>3

LEMMA CallSteps ==
  ASSUME Inv, \/ Call \/ token_peek \/ token_eat \/ token_lookahead \/ token_expect
              \/ UnknownOperator \/ Halt \/ UNCHANGED vars
  PROVE  Inv'
<1>1. /\ request \in Requests \cup {NoCall} /\ answer \in Tokens \cup {NoToken}
      /\ exited \in BOOLEAN
  BY DEF Inv, TypeOK, Tokens
<1>2. Len(lookahead) = Slots => 1 \in DOMAIN lookahead /\ lookahead[1] \in Tokens
  <2>1. Len(lookahead) = Slots => 1 \in 1 .. Len(lookahead)
    BY Numbers
  <2> QED
    BY <2>1, Numbers
<1>3. CASE Call
  BY <1>1, <1>3, QuietStep DEF Call
<1>4. CASE token_peek
  BY <1>1, <1>2, <1>4, QuietStep DEF token_peek, Full, Return
<1>5. CASE token_eat
  BY <1>5, TakeStep DEF token_eat, Full, Return
<1>6. CASE token_lookahead
  <2>1. CASE request.n < Slots /\ Return(lookahead[request.n + 1]) /\ lookahead' = lookahead
    <3>1. request.n \in 0 .. Slots /\ Len(lookahead) = Slots /\ Slots \in Nat
      BY <1>6, AskedPlace, Numbers DEF token_lookahead, Full
    <3>2. request.n + 1 \in 1 .. Len(lookahead)
      BY <2>1, <3>1
    <3>3. lookahead[request.n + 1] \in Tokens
      BY <3>2, Numbers
    <3> QED
      BY <1>1, <2>1, <3>3, QuietStep DEF Return
  <2>2. CASE Exit
    BY <1>1, <2>2, QuietStep DEF Exit
  <2> QED
    BY <1>6, <2>1, <2>2 DEF token_lookahead
<1>7. CASE token_expect
  <2>1. CASE Exit
    BY <1>1, <2>1, QuietStep DEF Exit
  <2>2. CASE Return(lookahead[1]) /\ lookahead' = Tail(lookahead)
    BY <1>7, <2>2, TakeStep DEF token_expect, Full, Return
  <2> QED
    BY <1>7, <2>1, <2>2 DEF token_expect
<1>8. CASE UnknownOperator
  BY <1>1, <1>8, QuietStep DEF UnknownOperator
<1>9. CASE Halt \/ UNCHANGED vars
  BY <1>1, <1>9, QuietStep DEF Halt, vars
<1> QED
  BY <1>3, <1>4, <1>5, <1>6, <1>7, <1>8, <1>9

LEMMA BeginStep ==
  ASSUME Inv, BeginToken
  PROVE  Inv'
<1>1. /\ mode = "idle" /\ Len(lookahead) < Slots /\ mode' = "start" /\ from' = position
      /\ content' = content /\ position' = position /\ line' = line /\ first' = first
      /\ lookahead' = lookahead /\ request' = request /\ answer' = answer /\ exited' = exited
  BY DEF BeginToken
<1>2. TypeOK'
  BY <1>1 DEF Inv, TypeOK, Modes
<1>3. Reading'
  BY <1>1, Numbers DEF Reading
<1>4. Asked' = Asked
  BY <1>1 DEF Asked
<1>5. InOrder'
  BY <1>1, <1>4 DEF Inv, InOrder, Follows
<1> QED
  BY <1>1, <1>2, <1>3, <1>5 DEF Inv, Inside, AtEnd, EndRead

LEMMA InvStep == Inv /\ [Next]_vars => Inv'
BY StartSteps, CommentSteps, StringStep, WordSteps, MarkSteps, CallSteps, BeginStep
   DEF Next, Serve, get_token

-----------------------------------------------------------------------------
(***************************************************************************)
(* The line                                                                *)
(***************************************************************************)
\* A word has just ended before a newline, and the newline was counted when it
\* was put back.
CountedAhead ==
  /\ mode \in {"idle", "start"} /\ position \in 1 .. Len(content) - 1
  /\ content[position] \in Letter \cup Digit /\ content[position + 1] = "\n"

\* How far the line can be from the newlines that have been passed.
Lines ==
  /\ Newlines(position) < line
  /\ line <= 2 * Newlines(position) + (IF CountedAhead THEN 2 ELSE 1)
  /\ ~WordBeforeNewline => line = Newlines(position) + 1
  /\ mode \in {"word", "number"} => content[position] \in Letter \cup Digit

\* The newlines up to a place, and up to the next one.
LEMMA NewlinesStep ==
  ASSUME Inv, NEW p \in Nat
  PROVE  /\ Newlines(p) \in Nat
         /\ Newlines(p + 1) = IF content[p + 1] = "\n" THEN Newlines(p) + 1 ELSE Newlines(p)
<1> DEFINE N(q) == {k \in 1 .. q : content[k] = "\n"}
<1>1. IsFiniteSet(N(p)) /\ Cardinality(N(p)) \in Nat
  <2>1. IsFiniteSet(1 .. p) /\ N(p) \in SUBSET (1 .. p)
    BY FS_Interval
  <2> QED
    BY <2>1, FS_Subset, FS_CardinalityType
<1>2. 1 .. p + 1 = (1 .. p) \cup {p + 1} /\ p + 1 \notin 1 .. p
  OBVIOUS
<1>3. CASE content[p + 1] = "\n"
  <2>1. N(p + 1) = N(p) \cup {p + 1} /\ p + 1 \notin N(p)
    BY <1>2, <1>3
  <2> HIDE DEF N
  <2>2. Cardinality(N(p + 1)) = Cardinality(N(p)) + 1
    BY <1>1, <2>1, FS_AddElement
  <2> QED
    BY <1>1, <1>3, <2>2 DEF Newlines, N
<1>4. CASE content[p + 1] # "\n"
  <2>1. N(p + 1) = N(p)
    BY <1>2, <1>4
  <2> QED
    BY <1>1, <1>4, <2>1 DEF Newlines
<1> QED
  BY <1>3, <1>4

\* There are no fewer of them further on.
LEMMA NewlinesMonotonic ==
  ASSUME Inv, NEW p \in Nat, NEW q \in Nat, p <= q
  PROVE  Newlines(p) <= Newlines(q)
<1> DEFINE N(r) == {k \in 1 .. r : content[k] = "\n"}
<1>1. IsFiniteSet(N(q)) /\ N(p) \in SUBSET N(q)
  <2>1. IsFiniteSet(1 .. q) /\ N(q) \in SUBSET (1 .. q)
    BY FS_Interval
  <2>2. N(p) \in SUBSET N(q)
    OBVIOUS
  <2> QED
    BY <2>1, <2>2, FS_Subset
<1> HIDE DEF N
<1>2. Cardinality(N(p)) <= Cardinality(N(q))
  BY <1>1, FS_Subset
<1> QED
  BY <1>2 DEF N, Newlines

\* The scan eats one character, or moves over one that is no newline.
LEMMA EatLine ==
  ASSUME Inv, Lines, Eat, content' = content, mode # "idle",
         mode' \in {"word", "number"} => Next_char \in Letter \cup Digit
  PROVE  Lines'
<1>1. /\ position \in Nat /\ position <= Len(content) /\ Len(content) \in Nat /\ line \in Nat
      /\ Newlines(position) \in Nat
  BY Numbers, NewlinesStep
<1>2. CASE position < Len(content)
  <2>1. position' = position + 1 /\ Next_char = content[position + 1]
    BY <1>1, <1>2 DEF Eat, Next_char, CharAt
  <2>2. /\ Newlines(position)' = Newlines(position + 1)
        /\ WordBeforeNewline' = WordBeforeNewline
    BY <2>1 DEF Newlines, WordBeforeNewline
  <2>3. Newlines(position + 1) = IF Next_char = "\n" THEN Newlines(position) + 1
                                                     ELSE Newlines(position)
    BY <1>1, <2>1, NewlinesStep
  <2>4. line' = IF Next_char = "\n" THEN line + 1 ELSE line
    BY DEF Eat
  <2>5. Next_char # "\n" => line <= 2 * Newlines(position) + 1
    BY <2>1 DEF Lines, CountedAhead
  <2>6. line <= 2 * Newlines(position) + 2
    BY <1>1 DEF Lines
  <2>7. Newlines(position)' < line' /\ line' <= 2 * Newlines(position)' + 1
    BY <1>1, <2>2, <2>3, <2>4, <2>5, <2>6 DEF Lines
  <2>8. ~WordBeforeNewline' => line' = Newlines(position)' + 1
    BY <1>1, <2>2, <2>3, <2>4 DEF Lines
  <2>9. mode' \in {"word", "number"} => content'[position'] \in Letter \cup Digit
    BY <2>1
  <2>10. Newlines(position)' \in Nat /\ line' \in Nat
    BY <1>1, <2>2, <2>3, <2>4
  <2> QED
    BY <2>7, <2>8, <2>9, <2>10 DEF Lines
<1>3. CASE position = Len(content)
  <2>1. Next_char = EOF /\ position' = position /\ line' = line
    BY <1>1, <1>3, Classes DEF Eat, Next_char, CharAt
  <2>2. mode' \notin {"word", "number"} /\ ~CountedAhead
    BY <1>1, <1>3, <2>1, Classes DEF CountedAhead
  <2>3. Newlines(position)' = Newlines(position) /\ WordBeforeNewline' = WordBeforeNewline
    BY <2>1 DEF Newlines, WordBeforeNewline
  <2>4. line' <= 2 * Newlines(position)' + 1 /\ Newlines(position)' \in Nat
    BY <1>1, <2>1, <2>2, <2>3 DEF Lines
  <2> QED
    BY <1>1, <2>1, <2>2, <2>3, <2>4 DEF Lines
<1> QED
  BY <1>1, <1>2, <1>3

\* The scan moves over one or two characters none of which is a newline.
LEMMA SkipLine ==
  ASSUME Inv, Lines, content' = content, line' = line, mode # "idle",
         position' \in {position + 1, position + 2}, position' <= Len(content),
         Next_char # "\n", CharAt(content, position + 1) # "\n" \/ position' = position + 1,
         mode' \notin {"word", "number"}
  PROVE  Lines'
<1>1. /\ position \in Nat /\ position < Len(content) /\ Len(content) \in Nat /\ line \in Nat
      /\ Newlines(position) \in Nat
  <2>1. position \in Nat
    BY Numbers
  <2> QED
    BY <2>1, Numbers, NewlinesStep
<1>2. Next_char = content[position + 1]
  BY <1>1 DEF Next_char, CharAt
<1>3. Newlines(position + 1) = Newlines(position)
  BY <1>1, <1>2, NewlinesStep
<1>4. position' = position + 2 => Newlines(position + 2) = Newlines(position)
  <2> SUFFICES ASSUME position' = position + 2
               PROVE  Newlines(position + 2) = Newlines(position)
    OBVIOUS
  <2>1. CharAt(content, position + 1) = content[(position + 1) + 1]
    BY <1>1 DEF CharAt
  <2>2. content[(position + 1) + 1] # "\n" /\ position + 1 \in Nat
    BY <1>1, <2>1
  <2>3. Newlines((position + 1) + 1) = Newlines(position + 1)
    BY <2>2, NewlinesStep
  <2> QED
    BY <1>1, <1>3, <2>3
<1>5. Newlines(position)' = Newlines(position) /\ WordBeforeNewline' = WordBeforeNewline
  <2>1. Newlines(position)' = Newlines(position')
    BY DEF Newlines
  <2> QED
    BY <1>3, <1>4, <2>1 DEF WordBeforeNewline
<1>6. ~CountedAhead
  BY <1>2 DEF CountedAhead
<1>7. line' <= 2 * Newlines(position)' + 1 /\ Newlines(position)' \in Nat
  BY <1>1, <1>5, <1>6 DEF Lines
<1> QED
  BY <1>1, <1>5, <1>7 DEF Lines

\* A word puts back the character after it, and counts it once more; at the end
\* of the text it puts back its own last character.
LEMMA EndWordLine ==
  ASSUME Inv, Lines, EndWord
  PROVE  Lines'
<1>1. /\ mode \in {"word", "number"} /\ Unread /\ content' = content /\ mode' = "idle"
      /\ first \in from + 1 .. position
  BY DEF EndWord, Deliver, Inv, Reading
<1>2. /\ position \in Nat /\ position <= Len(content) /\ Len(content) \in Nat /\ line \in Nat
      /\ Newlines(position) \in Nat /\ 1 <= position
  <2>1. position \in Nat /\ from \in Nat
    BY Numbers
  <2>2. 1 <= position
    BY <1>1, <2>1
  <2> QED
    BY <2>1, <2>2, Numbers, NewlinesStep
<1>3. /\ content[position] \in Letter \cup Digit /\ ~CountedAhead
      /\ WordBeforeNewline' = WordBeforeNewline
  BY <1>1 DEF Lines, CountedAhead, WordBeforeNewline
<1>4. CASE position < Len(content)
  <2>1. position' = position /\ Next_char = content[position + 1]
    BY <1>1, <1>2, <1>4 DEF Unread, Next_char, CharAt
  <2>2. Newlines(position)' = Newlines(position)
    BY <1>1, <2>1 DEF Newlines
  <2>3. CASE Next_char = "\n"
    <3>1. line' = line + 1 /\ line <= 2 * Newlines(position) + 1
      BY <1>1, <1>3, <2>3 DEF Unread, Lines
    <3>2. /\ position \in 1 .. Len(content) - 1 /\ content[position] \in Letter \cup Digit
          /\ content[position + 1] = "\n"
      BY <1>2, <1>3, <1>4, <2>1, <2>3
    <3>3. CountedAhead' /\ WordBeforeNewline
      BY <1>1, <2>1, <3>2 DEF CountedAhead, WordBeforeNewline
    <3>4. mode' \notin {"word", "number"} /\ Newlines(position)' < line'
          /\ line' <= 2 * Newlines(position)' + 2
      BY <1>1, <1>2, <2>2, <3>1 DEF Lines
    <3> QED
      BY <1>3, <3>3, <3>4 DEF Lines
  <2>4. CASE Next_char # "\n"
    <3>1. line' = line
      BY <1>1, <2>4 DEF Unread
    <3> QED
      BY <1>1, <1>2, <1>3, <2>2, <3>1 DEF Lines
  <2> QED
    BY <2>3, <2>4
<1>5. CASE position = Len(content)
  <2>1. position' = position - 1 /\ line' = line
    BY <1>1, <1>2, <1>5, Classes DEF Unread, Next_char, CharAt
  <2>2. position - 1 \in Nat /\ (position - 1) + 1 = position /\ content[position] # "\n"
    BY <1>2, <1>3, AlphabetAssumption, Classes
  <2>3. Newlines(position - 1) = Newlines(position)
    BY <2>2, NewlinesStep
  <2>4. Newlines(position)' = Newlines(position)
    <3>1. Newlines(position)' = Newlines(position - 1)
      BY <1>1, <2>1 DEF Newlines
    <3> QED
      BY <2>3, <3>1
  <2> QED
    BY <1>1, <1>2, <1>3, <2>1, <2>4 DEF Lines
<1> QED
  BY <1>2, <1>4, <1>5

LEMMA LinesInit == Init => Lines
<1> SUFFICES ASSUME Init
             PROVE  Lines
  OBVIOUS
<1>1. position = 0 /\ line = 1 /\ mode = "idle" /\ Inv
  BY InvInit DEF Init
<1>2. Newlines(position) = 0
  <2>1. {k \in 1 .. 0 : content[k] = "\n"} = {}
    OBVIOUS
  <2> QED
    BY <1>1, <2>1, FS_EmptySet DEF Newlines
<1> QED
  BY <1>1, <1>2 DEF Lines, CountedAhead

LEMMA LinesStep == Inv /\ Lines /\ [Next]_vars => Lines'
<1> SUFFICES ASSUME Inv, Lines, [Next]_vars
             PROVE  Lines'
  OBVIOUS
<1>1. "\n" \notin OneChar /\ "\n" \notin Letter \cup Digit \cup Other \cup {EOF}
  BY AlphabetAssumption, Classes DEF OneChar
<1>3. CASE \/ EatBlank \/ OpenBlockComment \/ OpenString \/ OpenWord \/ EndOfInput
           \/ SkipLineComment \/ ReadString \/ ReadWord \/ (SkipBlockComment /\ Eat)
  <2>1. Eat /\ content' = content /\ mode # "idle"
    BY <1>3 DEF EatBlank, OpenBlockComment, OpenString, OpenWord, EndOfInput, SkipLineComment,
                ReadString, ReadWord, Scanning, Go_on, Deliver, SkipBlockComment
  <2>2. mode' \in {"word", "number"} => Next_char \in Letter \cup Digit
    BY <1>3 DEF EatBlank, OpenBlockComment, OpenString, OpenWord, EndOfInput, SkipLineComment,
                ReadString, ReadWord, Scanning, Go_on, Deliver, SkipBlockComment, Continues
  <2> QED
    BY <2>1, <2>2, EatLine
<1>4. CASE OpenLineComment \/ (SkipBlockComment /\ ~Eat)
  <2>1. PICK a \in OneChar, b \in OneChar : Pair(content, position) = <<a, b>>
    BY <1>4, Classes DEF OpenLineComment, SkipBlockComment
  <2>2. /\ content' = content /\ line' = line /\ mode # "idle"
        /\ position' = position + 2 /\ mode' \notin {"word", "number"}
    BY <1>4 DEF OpenLineComment, SkipBlockComment, Scanning, Go_on
  <2>3. position' <= Len(content) /\ Next_char = a /\ CharAt(content, position + 1) = b
    BY <2>1, <2>2, PairInText, Numbers DEF Pair
  <2>4. Next_char # "\n" /\ CharAt(content, position + 1) # "\n"
    BY <1>1, <2>3
  <2> QED
    BY <2>2, <2>3, <2>4, SkipLine
<1>5. CASE ReadOperator
  <2>1. /\ Next_char \in OneChar /\ content' = content /\ line' = line /\ mode = "start"
        /\ mode' = "idle"
        /\ position' = position + (IF Pair(content, position) \in TwoChars THEN 2 ELSE 1)
    BY <1>5 DEF ReadOperator, Deliver, Scanning
  <2>2. position < Len(content) /\ position \in Nat /\ Next_char # "\n"
    BY <1>1, <2>1, Classes, NextInText, Numbers
  <2>3. Pair(content, position) \in TwoChars =>
          CharAt(content, position + 1) # "\n" /\ position + 1 < Len(content)
    <3> SUFFICES ASSUME Pair(content, position) \in TwoChars
                 PROVE  CharAt(content, position + 1) # "\n" /\ position + 1 < Len(content)
      OBVIOUS
    <3>1. PICK a \in OneChar, b \in OneChar : Pair(content, position) = <<a, b>>
      BY DEF TwoChars, OneChar
    <3>2. CharAt(content, position + 1) = b
      BY <3>1 DEF Pair
    <3> QED
      BY <1>1, <3>1, <3>2, PairInText
  <2>4. /\ position' \in {position + 1, position + 2} /\ position' <= Len(content)
        /\ CharAt(content, position + 1) # "\n" \/ position' = position + 1
    BY <2>1, <2>2, <2>3, Numbers
  <2> QED
    BY <2>1, <2>2, <2>4, SkipLine
<1>6. CASE EndWord
  BY <1>6, EndWordLine
<1>7. CASE BeginToken
  <2>1. /\ content' = content /\ position' = position /\ line' = line
        /\ mode = "idle" /\ mode' = "start"
    BY <1>7 DEF BeginToken
  <2> QED
    BY <2>1 DEF Lines, CountedAhead, Newlines, WordBeforeNewline
<1>8. CASE UNCHANGED <<content, scanner>>
  <2>1. content' = content /\ position' = position /\ line' = line /\ mode' = mode
    BY <1>8 DEF scanner
  <2> QED
    BY <2>1 DEF Lines, CountedAhead, Newlines, WordBeforeNewline
<1>9. /\ Call \/ token_peek \/ token_eat \/ token_lookahead \/ token_expect \/ UnknownOperator
         \/ Halt \/ UNCHANGED vars => UNCHANGED <<content, scanner>>
  BY DEF Call, token_peek, token_eat, token_lookahead, token_expect, UnknownOperator, Halt,
         vars, Return, Exit
<1> QED
  BY <1>3, <1>4, <1>5, <1>6, <1>7, <1>8, <1>9 DEF Next, Serve, get_token

-----------------------------------------------------------------------------
(***************************************************************************)
(* The theorems                                                            *)
(***************************************************************************)
LEMMA Invariance == Spec => []Inv
BY InvInit, InvStep, PTL DEF Spec

\* Every variable of the lexer keeps its type: the position stays in the text,
\* also where it is put back (lexer.h:307-327).
THEOREM TypeCorrectness == Spec => []TypeOK
<1>1. Inv => TypeOK
  BY DEF Inv
<1> QED
  BY <1>1, Invariance, PTL

\* No token's value reaches outside the text or has a negative length
\* (lexer.h:307-327).
THEOREM ValuesCorrectness == Spec => []ValuesInsideText
<1>1. Inv => ValuesInsideText
  <2> SUFFICES ASSUME Inv
               PROVE  ValuesInsideText
    OBVIOUS
  <2>1. mode \in {"word", "number"} => first \in 1 .. position
    BY Numbers DEF Inv, Reading
  <2> QED
    BY <2>1 DEF Inv, Inside, ValuesInsideText
<1> QED
  BY <1>1, Invariance, PTL

\* The buffer holds tokens in the order of the text (lexer.h:322, 338).
THEOREM OrderCorrectness == Spec => []TokensInOrder
<1>1. Inv => TokensInOrder
  <2> SUFFICES ASSUME Inv, NEW k \in 1 .. Len(lookahead) - 1
               PROVE  LET a == lookahead[k]  b == lookahead[k + 1]
                      IN /\ a.from <= b.from
                         /\ \/ a.last <= b.from
                            \/ a.last = Len(content)
                               /\ a.type \in {"IDENTIFIER", "KEYWORD", "NUMBER"}
                               /\ b.from = Len(content) - 1
    BY DEF TokensInOrder
  <2>1. k \in DOMAIN lookahead /\ k + 1 \in DOMAIN lookahead
    BY Numbers
  <2>2. Follows(lookahead[k], lookahead[k + 1].from)
    BY <2>1 DEF Inv, InOrder
  <2> QED
    BY <2>2 DEF Follows, Words
<1> QED
  BY <1>1, Invariance, PTL

\* After the end of the text the lexer delivers nothing but the end
\* (lexer.h:276-281, 381-383).
THEOREM EndCorrectness == Spec => []EndIsFinal
<1>1. Inv => EndIsFinal
  <2> SUFFICES ASSUME Inv, NEW k \in DOMAIN lookahead, EndRead(lookahead[k])
               PROVE  /\ position = Len(content)
                      /\ \A j \in k .. Len(lookahead) : lookahead[j].type = "EOF_OR_INVALID"
    BY DEF EndIsFinal, EndRead
  <2>1. \A j \in k .. Len(lookahead) : j \in DOMAIN lookahead /\ j >= k
    BY Numbers
  <2> QED
    BY <2>1 DEF Inv, AtEnd
<1> QED
  BY <1>1, Invariance, PTL

\* The line that is reported lies between the line read and twice as many
\* newlines, and is exact where no word ends a line (lexer.h:307-327).
THEOREM LineCorrectness == Spec => []LineIsNear
<1>1. Inv /\ Lines => LineIsNear
  <2> SUFFICES ASSUME Inv, Lines
               PROVE  LineIsNear
    OBVIOUS
  <2>1. /\ position \in Nat /\ Len(content) \in Nat /\ position <= Len(content)
        /\ line \in Nat /\ Newlines(position) \in Nat /\ Newlines(Len(content)) \in Nat
        /\ Newlines(position) <= Newlines(Len(content))
    BY Numbers, NewlinesStep, NewlinesMonotonic
  <2>2. CASE CountedAhead
    <3>1. position + 1 \in Nat /\ position + 1 <= Len(content) /\ content[position + 1] = "\n"
      BY <2>1, <2>2 DEF CountedAhead
    <3>2. Newlines(position) + 1 <= Newlines(Len(content))
      BY <2>1, <3>1, NewlinesStep, NewlinesMonotonic
    <3>3. line <= 2 * Newlines(position) + 2
      BY <2>2 DEF Lines
    <3> QED
      BY <2>1, <3>2, <3>3 DEF Lines, LineIsNear
  <2>3. CASE ~CountedAhead
    <3>1. line <= 2 * Newlines(position) + 1
      BY <2>3 DEF Lines
    <3> QED
      BY <2>1, <3>1 DEF Lines, LineIsNear
  <2> QED
    BY <2>2, <2>3
<1> QED
  BY <1>1, Invariance, LinesInit, LinesStep, PTL DEF Spec

-----------------------------------------------------------------------------
(***************************************************************************)
(* The promise of TokenStream.  First what its operators are, which are    *)
(* defined by recursion and by choice.                                     *)
(***************************************************************************)
LEMMA SameCharacters ==
  /\ \A t, p : Stream!CharAt(t, p) = CharAt(t, p) /\ Stream!Pair(t, p) = Pair(t, p)
  /\ Stream!Blank = Blank /\ Stream!Quote = Quote
  /\ Stream!OneChar = OneChar /\ Stream!TwoChars = TwoChars
  /\ \A type, a, b, c : Stream!Token(type, a, b, c) = Token(type, a, b, c)
  /\ Stream!NoToken = NoToken /\ \A w : Stream!WordType(w) = WordType(w)
BY DEF Stream!CharAt, CharAt, Stream!Pair, Pair, Stream!Blank, Blank, Stream!Quote, Quote,
       Stream!OneChar, OneChar, Stream!TwoChars, TwoChars, Stream!Token, Token,
       Stream!NoToken, NoToken, Stream!WordType, WordType, Stream!Keywords, Keywords

LEMMA LeastOf ==
  ASSUME NEW S, S \subseteq Nat, NEW m \in S, \A k \in S : m <= k
  PROVE  Stream!Least(S) = m
<1> DEFINE c == CHOOSE x \in S : \A y \in S : x <= y
<1>1. c \in S /\ \A y \in S : c <= y
  OBVIOUS
<1> HIDE DEF c
<1>2. c = m
  BY <1>1
<1> QED
  BY <1>2 DEF Stream!Least, c

LEMMA GreatestOf ==
  ASSUME NEW S, S \subseteq Nat, NEW m \in S, \A k \in S : m >= k
  PROVE  Stream!Greatest(S) = m
<1> DEFINE c == CHOOSE x \in S : \A y \in S : x >= y
<1>1. c \in S /\ \A y \in S : c >= y
  OBVIOUS
<1> HIDE DEF c
<1>2. c = m
  BY <1>1
<1> QED
  BY <1>2 DEF Stream!Greatest, c

\* One round of the search for the start of a token, which goes on with f.
Onward(text, f, q) ==
  IF Stream!OpensComment(text, q)
  THEN IF Stream!CommentEnds(text, q) = {} THEN Stream!Stuck
       ELSE f[Stream!Least(Stream!CommentEnds(text, q))]
  ELSE IF CharAt(text, q) \in Blank THEN f[q + 1] ELSE q

\* The search only moves forward, and has ended at the end of the text.
LEMMA Forward ==
  ASSUME NEW text \in Seq(Char), NEW q \in 0 .. Len(text)
  PROVE  /\ Stream!OpensComment(text, q) => q < Len(text)
         /\ Stream!CommentEnds(text, q) # {} =>
              /\ Stream!Least(Stream!CommentEnds(text, q)) \in Stream!CommentEnds(text, q)
              /\ Stream!Least(Stream!CommentEnds(text, q)) \in q + 3 .. Len(text)
         /\ CharAt(text, q) \in Blank => q < Len(text)
<1>1. Len(text) \in Nat /\ q \in Nat /\ q <= Len(text)
  OBVIOUS
<1>2. q >= Len(text) => CharAt(text, q) = EOF
  BY DEF CharAt
<1>3. EOF \notin Blank /\ EOF # "/"
  BY Classes
<1>4. Stream!OpensComment(text, q) => q < Len(text)
  <2>1. Stream!OpensComment(text, q) => CharAt(text, q) = "/"
    BY SameCharacters DEF Stream!OpensComment, Pair
  <2> QED
    BY <1>1, <1>2, <1>3, <2>1
<1>5. CharAt(text, q) \in Blank => q < Len(text)
  BY <1>1, <1>2, <1>3
<1> DEFINE E == Stream!CommentEnds(text, q)
<1>6. E \subseteq q + 3 .. Len(text)
  BY DEF Stream!CommentEnds, Stream!BlockEnds, Stream!LineEnds
<1> HIDE DEF E
<1>7. E \subseteq Nat
  BY <1>1, <1>6
<1>8. E # {} => Stream!Least(E) \in E
  BY <1>7, Smallest, LeastOf
<1> QED
  BY <1>4, <1>5, <1>6, <1>8 DEF E

\* What one round looks at of the rest.
LEMMA OnwardLooksAhead ==
  ASSUME NEW text \in Seq(Char), NEW q \in 0 .. Len(text), NEW f, NEW g,
         \A k \in q + 1 .. Len(text) : f[k] = g[k]
  PROVE  Onward(text, f, q) = Onward(text, g, q)
<1> DEFINE e == Stream!Least(Stream!CommentEnds(text, q))
<1>1. Stream!CommentEnds(text, q) # {} => e \in q + 3 .. Len(text)
  BY Forward
<1>2. CharAt(text, q) \in Blank => q + 1 \in q + 1 .. Len(text)
  BY Forward
<1> HIDE DEF e
<1>3. Stream!CommentEnds(text, q) # {} => e \in q + 1 .. Len(text)
  BY <1>1
<1> QED
  BY <1>2, <1>3 DEF Onward, e

Searches(text, f, n) == f = [q \in Len(text) - n .. Len(text) |-> Onward(text, f, q)]

LEMMA SearchExists ==
  ASSUME NEW text \in Seq(Char)
  PROVE  \E f : f = [q \in 0 .. Len(text) |-> Onward(text, f, q)]
<1> DEFINE L == Len(text)
           S == {n \in Nat : n <= L => \E f : Searches(text, f, n)}
<1>0. L \in Nat
  OBVIOUS
<1>1. 0 \in S
  <2> DEFINE f == [q \in L .. L |-> L]
  <2>1. ASSUME NEW q \in L .. L
        PROVE  f[q] = Onward(text, f, q)
    <3>1. q = L /\ q \in 0 .. Len(text)
      BY <1>0
    <3>2. ~Stream!OpensComment(text, q) /\ CharAt(text, q) \notin Blank
      BY <1>0, <3>1, Forward
    <3> QED
      BY <3>1, <3>2 DEF Onward
  <2>2. L - 0 = L
    BY <1>0
  <2>3. f = [q \in L .. L |-> Onward(text, f, q)]
    BY <2>1
  <2>4. Searches(text, f, 0)
    BY <2>2, <2>3 DEF Searches
  <2> QED
    BY <2>4
<1>2. ASSUME NEW n \in Nat, n \in S
      PROVE  n + 1 \in S
  <2> SUFFICES ASSUME n + 1 <= L
               PROVE  \E g : Searches(text, g, n + 1)
    OBVIOUS
  <2> DEFINE a == L - (n + 1)
  <2>1. /\ a \in 0 .. L /\ L - n = a + 1 /\ a \notin a + 1 .. L
        /\ \A q \in a .. L : q = a \/ q \in a + 1 .. L
        /\ \A q \in a + 1 .. L : q \in a .. L /\ q \in 0 .. L
        /\ a \in a .. L
    BY <1>0
  <2>2. PICK f : Searches(text, f, n)
    BY <1>0, <1>2
  <2>3. \A q \in a + 1 .. L : f[q] = Onward(text, f, q)
    BY <2>1, <2>2 DEF Searches
  <2> DEFINE g == [q \in a .. L |-> IF q = a THEN Onward(text, f, a) ELSE f[q]]
  <2>4. g = [q \in a .. L |-> g[q]] /\ g[a] = Onward(text, f, a) /\ \A q \in a + 1 .. L : g[q] = f[q]
    BY <2>1
  <2> HIDE DEF g, a
  <2>5. \A q \in a .. L : \A k \in q + 1 .. L : f[k] = g[k]
    <3>1. \A q \in a .. L : \A k \in q + 1 .. L : k \in a + 1 .. L
      BY <1>0, <2>1
    <3> QED
      BY <2>4, <3>1
  <2>6. \A q \in a .. L : q \in 0 .. L
    BY <2>1
  <2>7. \A q \in a .. L : Onward(text, f, q) = Onward(text, g, q)
    <3> TAKE q \in a .. L
    <3>1. \A k \in q + 1 .. Len(text) : f[k] = g[k]
      BY <2>5
    <3>2. q \in 0 .. Len(text)
      BY <2>6
    <3> QED
      BY <3>1, <3>2, OnwardLooksAhead
  <2>8. \A q \in a .. L : g[q] = Onward(text, g, q)
    BY <2>1, <2>3, <2>4, <2>7
  <2>9. g = [q \in a .. L |-> Onward(text, g, q)]
    BY <2>4, <2>8
  <2>10. Searches(text, g, n + 1)
    BY <2>9 DEF Searches, a
  <2> QED
    BY <2>10
<1> HIDE DEF S
<1>3. Nat \subseteq S
  BY <1>1, <1>2, Induction
<1>4. PICK f : Searches(text, f, L)
  BY <1>0, <1>3 DEF S
<1>5. L - L = 0
  BY <1>0
<1> QED
  BY <1>4, <1>5 DEF Searches

\* The equation that defines where a token starts.
LEMMA StartEquation ==
  ASSUME NEW text \in Seq(Char), NEW p \in 0 .. Len(text)
  PROVE  Stream!Start(text, p) =
           IF Stream!OpensComment(text, p)
           THEN IF Stream!CommentEnds(text, p) = {} THEN Stream!Stuck
                ELSE Stream!Start(text, Stream!Least(Stream!CommentEnds(text, p)))
           ELSE IF CharAt(text, p) \in Blank THEN Stream!Start(text, p + 1) ELSE p
<1> DEFINE f == CHOOSE start : start = [q \in 0 .. Len(text) |->
                  IF Stream!OpensComment(text, q)
                  THEN IF Stream!CommentEnds(text, q) = {} THEN Stream!Stuck
                       ELSE start[Stream!Least(Stream!CommentEnds(text, q))]
                  ELSE IF Stream!CharAt(text, q) \in Stream!Blank THEN start[q + 1] ELSE q]
<1>1. \A q : Stream!Start(text, q) = f[q]
  BY DEF Stream!Start
<1>2. f = [q \in 0 .. Len(text) |-> Onward(text, f, q)]
  BY SearchExists, SameCharacters DEF Onward
<1> HIDE DEF f
<1>3. f[p] = Onward(text, f, p)
  BY <1>2
<1> QED
  BY <1>1, <1>3 DEF Onward

\* The positions of the tokens ahead: one round of the recursion.
LookOn(text, p, f, k) ==
  IF k = 0 THEN p
  ELSE IF Stream!Whole(text, f[k - 1]) THEN Stream!ReadAt(text, f[k - 1]).next ELSE f[k - 1]

LooksAhead(text, p, f, n) == f = [k \in 0 .. n |-> LookOn(text, p, f, k)]

LEMMA LookExists ==
  ASSUME NEW text, NEW p, NEW n \in Nat
  PROVE  \E f : LooksAhead(text, p, f, n)
<1> DEFINE S == {m \in Nat : \E f : LooksAhead(text, p, f, m)}
<1>1. 0 \in S
  <2> DEFINE f == [k \in 0 .. 0 |-> p]
  <2>1. f = [k \in 0 .. 0 |-> LookOn(text, p, f, k)]
    BY DEF LookOn
  <2> QED
    BY <2>1 DEF LooksAhead
<1>2. ASSUME NEW m \in Nat, m \in S
      PROVE  m + 1 \in S
  <2>1. PICK f : LooksAhead(text, p, f, m)
    BY <1>2
  <2>2. \A k \in 0 .. m : f[k] = LookOn(text, p, f, k)
    BY <2>1 DEF LooksAhead
  <2> DEFINE g == [k \in 0 .. m + 1 |-> IF k = m + 1 THEN LookOn(text, p, f, k) ELSE f[k]]
  <2>3. /\ g = [k \in 0 .. m + 1 |-> g[k]] /\ g[m + 1] = LookOn(text, p, f, m + 1)
        /\ \A k \in 0 .. m : g[k] = f[k]
    <3>1. \A k \in 0 .. m : k # m + 1 /\ k \in 0 .. m + 1
      OBVIOUS
    <3>2. m + 1 \in 0 .. m + 1
      OBVIOUS
    <3> QED
      BY <3>1, <3>2
  <2> HIDE DEF g
  <2>4. ASSUME NEW k \in 0 .. m + 1
        PROVE  g[k] = LookOn(text, p, g, k)
    <3>1. k \in 0 .. m \/ k = m + 1
      OBVIOUS
    <3>2. k # 0 => k - 1 \in 0 .. m
      OBVIOUS
    <3>3. LookOn(text, p, g, k) = LookOn(text, p, f, k)
      BY <2>3, <3>2 DEF LookOn
    <3> QED
      BY <2>2, <2>3, <3>1, <3>3
  <2>5. LooksAhead(text, p, g, m + 1)
    BY <2>3, <2>4 DEF LooksAhead
  <2> QED
    BY <2>5
<1> HIDE DEF S
<1>3. Nat \subseteq S
  BY <1>1, <1>2, Induction
<1> QED
  BY <1>3 DEF S

\* However far one looks, the tokens on the way are the same.
LEMMA LookAgrees ==
  ASSUME NEW text, NEW p, NEW n \in Nat, NEW f, NEW m \in Nat, NEW g,
         LooksAhead(text, p, f, n), LooksAhead(text, p, g, m), n <= m
  PROVE  \A k \in 0 .. n : f[k] = g[k]
<1> DEFINE S == {k \in Nat : k <= n => f[k] = g[k]}
<1>1. /\ \A k \in 0 .. n : f[k] = LookOn(text, p, f, k)
      /\ \A k \in 0 .. m : g[k] = LookOn(text, p, g, k)
  BY DEF LooksAhead
<1>2. 0 \in S
  <2>1. 0 \in 0 .. n /\ 0 \in 0 .. m
    OBVIOUS
  <2> QED
    BY <1>1, <2>1 DEF LookOn
<1>3. ASSUME NEW k \in Nat, k \in S
      PROVE  k + 1 \in S
  <2> SUFFICES ASSUME k + 1 <= n
               PROVE  f[k + 1] = g[k + 1]
    OBVIOUS
  <2>1. k + 1 \in 0 .. n /\ k + 1 \in 0 .. m /\ (k + 1) - 1 = k /\ k + 1 # 0
    OBVIOUS
  <2>2. f[k] = g[k]
    BY <1>3
  <2> QED
    BY <1>1, <2>1, <2>2 DEF LookOn
<1> HIDE DEF S
<1>4. Nat \subseteq S
  BY <1>2, <1>3, Induction
<1> QED
  BY <1>4 DEF S

LEMMA AheadEquation ==
  ASSUME NEW text, NEW p
  PROVE  /\ Stream!Ahead(text, p, 0) = p
         /\ \A n \in Nat :
              Stream!Ahead(text, p, n + 1) =
                IF Stream!Whole(text, Stream!Ahead(text, p, n))
                THEN Stream!ReadAt(text, Stream!Ahead(text, p, n)).next
                ELSE Stream!Ahead(text, p, n)
<1>1. ASSUME NEW n \in Nat
      PROVE  \E f : LooksAhead(text, p, f, n) /\ Stream!Ahead(text, p, n) = f[n]
  <2> DEFINE f == CHOOSE ahead : ahead = [k \in 0 .. n |->
                    IF k = 0 THEN p
                    ELSE IF Stream!Whole(text, ahead[k - 1])
                         THEN Stream!ReadAt(text, ahead[k - 1]).next ELSE ahead[k - 1]]
  <2>1. Stream!Ahead(text, p, n) = f[n]
    BY DEF Stream!Ahead
  <2>2. \E g : LooksAhead(text, p, g, n)
    BY LookExists
  <2>3. LooksAhead(text, p, f, n)
    BY <2>2 DEF LooksAhead, LookOn
  <2> QED
    BY <2>1, <2>3
<1>2. Stream!Ahead(text, p, 0) = p
  <2>1. PICK f : LooksAhead(text, p, f, 0) /\ Stream!Ahead(text, p, 0) = f[0]
    BY <1>1
  <2> QED
    BY <2>1 DEF LooksAhead, LookOn
<1>3. ASSUME NEW n \in Nat
      PROVE  Stream!Ahead(text, p, n + 1) =
                IF Stream!Whole(text, Stream!Ahead(text, p, n))
                THEN Stream!ReadAt(text, Stream!Ahead(text, p, n)).next
                ELSE Stream!Ahead(text, p, n)
  <2>1. PICK f : LooksAhead(text, p, f, n) /\ Stream!Ahead(text, p, n) = f[n]
    BY <1>1
  <2>2. PICK g : LooksAhead(text, p, g, n + 1) /\ Stream!Ahead(text, p, n + 1) = g[n + 1]
    BY <1>1
  <2>3. n \in 0 .. n /\ n <= n + 1 /\ n + 1 \in Nat
    OBVIOUS
  <2>4. g[n] = f[n]
    BY <2>1, <2>2, <2>3, LookAgrees
  <2>5. g[n + 1] = LookOn(text, p, g, n + 1)
    BY <2>2 DEF LooksAhead
  <2>6. n + 1 # 0 /\ (n + 1) - 1 = n
    OBVIOUS
  <2> QED
    BY <2>1, <2>2, <2>4, <2>5, <2>6 DEF LookOn
<1> QED
  BY <1>2, <1>3

-----------------------------------------------------------------------------
(***************************************************************************)
(* What the scan has found out so far                                      *)
(***************************************************************************)
Begun == Stream!Start(content, from)

\* A comment that opens at o is the next thing on the way.
InBlock(o) == /\ o \in 0 .. Len(content) /\ Begun = Stream!Start(content, o)
              /\ Pair(content, o) = <<"/", "*">> /\ position >= o + 1
              /\ \A e \in Stream!BlockEnds(content, o) : e >= position + 2

InLine(o) == /\ o \in 0 .. Len(content) /\ Begun = Stream!Start(content, o)
             /\ Pair(content, o) = <<"/", "/">> /\ position >= o + 2
             /\ \A e \in Stream!LineEnds(content, o) : e >= position + 1

InString == /\ Begun = first - 2 /\ CharAt(content, first - 2) = Quote
            /\ \A k \in first .. position : content[k] \notin {Quote, EOF}

InRun(starts, runs) == /\ Begun = first - 1 /\ CharAt(content, first - 1) \in starts
                       /\ \A k \in first .. position : content[k] \in runs

Scan == /\ mode = "start"  => Begun = Stream!Start(content, position)
        /\ mode = "block"  => \E o : InBlock(o)
        /\ mode = "line"   => \E o : InLine(o)
        /\ mode = "string" => InString
        /\ mode = "word"   => InRun(Letter, Letter \cup Digit)
        /\ mode = "number" => InRun(Digit, Digit)

\* The buffer holds what the stream has, in a row.
Promised(t) == Stream!Whole(content, t.from) /\ t = Stream!ReadAt(content, t.from).token

Buffer ==
  /\ \A k \in DOMAIN lookahead : Promised(lookahead[k])
  /\ \A k \in DOMAIN lookahead : k + 1 \in DOMAIN lookahead =>
       lookahead[k + 1].from = Stream!ReadAt(content, lookahead[k].from).next
  /\ lookahead # <<>> => Asked = Stream!ReadAt(content, lookahead[Len(lookahead)].from).next

Promise == Scan /\ Buffer

LEMMA StartAt ==
  ASSUME Inv, NEW p \in 0 .. Len(content)
  PROVE  /\ Pair(content, p) = <<"/", "*">> =>
              \A e \in Stream!BlockEnds(content, p) :
                (\A k \in Stream!BlockEnds(content, p) : e <= k) =>
                  Stream!Start(content, p) = Stream!Start(content, e)
         /\ Pair(content, p) = <<"/", "/">> =>
              \A e \in Stream!LineEnds(content, p) :
                (\A k \in Stream!LineEnds(content, p) : e <= k) =>
                  Stream!Start(content, p) = Stream!Start(content, e)
         /\ CharAt(content, p) \in Blank => Stream!Start(content, p) = Stream!Start(content, p + 1)
         /\ CharAt(content, p) \notin Blank /\ Pair(content, p) \notin {<<"/", "*">>, <<"/", "/">>} =>
              Stream!Start(content, p) = p
<1>1. content \in Seq(Char) /\ Len(content) \in Nat /\ p \in Nat
  BY Numbers DEF Inv, TypeOK
<1>2. Stream!OpensComment(content, p) <=> Pair(content, p) \in {<<"/", "*">>, <<"/", "/">>}
  BY SameCharacters DEF Stream!OpensComment
<1>3. Stream!BlockEnds(content, p) \subseteq Nat /\ Stream!LineEnds(content, p) \subseteq Nat
  <2>1. p + 3 .. Len(content) \subseteq Nat
    BY <1>1
  <2> QED
    BY <2>1 DEF Stream!BlockEnds, Stream!LineEnds
<1>4. /\ Pair(content, p) = <<"/", "*">> => Stream!CommentEnds(content, p) = Stream!BlockEnds(content, p)
      /\ Pair(content, p) = <<"/", "/">> => Stream!CommentEnds(content, p) = Stream!LineEnds(content, p)
  <2>1. <<"/", "/">> # <<"/", "*">>
    OBVIOUS
  <2> QED
    BY <2>1, SameCharacters DEF Stream!CommentEnds
<1>5. CharAt(content, p) \in Blank => ~Stream!OpensComment(content, p)
  <2>1. "/" \notin Blank
    BY DEF Blank
  <2>2. Stream!OpensComment(content, p) => CharAt(content, p) = "/"
    BY <1>2 DEF Pair
  <2> QED
    BY <2>1, <2>2
<1>6. Stream!Start(content, p) =
           IF Stream!OpensComment(content, p)
           THEN IF Stream!CommentEnds(content, p) = {} THEN Stream!Stuck
                ELSE Stream!Start(content, Stream!Least(Stream!CommentEnds(content, p)))
           ELSE IF CharAt(content, p) \in Blank THEN Stream!Start(content, p + 1) ELSE p
  BY <1>1, StartEquation
<1>7. ASSUME NEW e \in Stream!CommentEnds(content, p), Stream!OpensComment(content, p),
             \A k \in Stream!CommentEnds(content, p) : e <= k,
             Stream!CommentEnds(content, p) \subseteq Nat
      PROVE  Stream!Start(content, p) = Stream!Start(content, e)
  BY <1>6, <1>7, LeastOf
<1> QED
  BY <1>2, <1>3, <1>4, <1>5, <1>6, <1>7

\* What the scan has found does not depend on what it does not change.
LEMMA BufferKept ==
  ASSUME Buffer, content' = content, lookahead' = lookahead, Asked' = Asked
  PROVE  Buffer'
BY DEF Buffer, Promised

LEMMA StartScans ==
  ASSUME Inv, Scan, EatBlank \/ OpenBlockComment \/ OpenLineComment \/ OpenString \/ OpenWord
  PROVE  Scan'
<1>1. /\ mode = "start" /\ Begun = Stream!Start(content, position)
      /\ content' = content /\ from' = from
  BY DEF EatBlank, OpenBlockComment, OpenLineComment, OpenString, OpenWord, Scanning, Scan, Go_on
<1>2. Begun' = Begun
  BY <1>1 DEF Begun
<1>3. /\ position \in 0 .. Len(content) /\ position \in Nat /\ Len(content) \in Nat
      /\ content \in Seq(Char)
  BY Numbers DEF Inv, TypeOK
<1>4. CASE EatBlank
  <2>1. Next_char \in Blank /\ Eat /\ mode' = "start"
    BY <1>1, <1>4 DEF EatBlank
  <2>2. position' = position + 1
    BY <2>1, Eaten, Classes
  <2>3. Begun = Stream!Start(content, position + 1)
    BY <1>1, <1>3, <2>1, StartAt DEF Next_char
  <2> QED
    BY <1>1, <1>2, <2>1, <2>2, <2>3 DEF Scan
<1>5. CASE OpenBlockComment
  <2>1. Pair(content, position) = <<"/", "*">> /\ Eat /\ mode' = "block"
    BY <1>5 DEF OpenBlockComment
  <2>2. position' = position + 1
    BY <2>1, Eaten, PairInText, Classes
  <2>3. \A e \in Stream!BlockEnds(content, position) : e >= (position + 1) + 2
    BY <1>3 DEF Stream!BlockEnds
  <2>4. \E o : InBlock(o)'
    <3>1. PICK o : o = position
      OBVIOUS
    <3>2. /\ o \in 0 .. Len(content) /\ Begun = Stream!Start(content, o)
          /\ Pair(content, o) = <<"/", "*">> /\ position + 1 >= o + 1
          /\ \A e \in Stream!BlockEnds(content, o) : e >= (position + 1) + 2
      BY <1>1, <1>3, <2>1, <2>3, <3>1
    <3>3. InBlock(o)'
      BY <1>1, <1>2, <2>2, <3>2 DEF InBlock
    <3> QED
      BY <3>3
  <2> QED
    BY <2>1, <2>4 DEF Scan
<1>6. CASE OpenLineComment
  <2>1. Pair(content, position) = <<"/", "/">> /\ position' = position + 2 /\ mode' = "line"
    BY <1>6 DEF OpenLineComment
  <2>2. \A e \in Stream!LineEnds(content, position) : e >= (position + 2) + 1
    BY <1>3 DEF Stream!LineEnds
  <2>3. \E o : InLine(o)'
    <3>1. PICK o : o = position
      OBVIOUS
    <3>2. /\ o \in 0 .. Len(content) /\ Begun = Stream!Start(content, o)
          /\ Pair(content, o) = <<"/", "/">> /\ position + 2 >= o + 2
          /\ \A e \in Stream!LineEnds(content, o) : e >= (position + 2) + 1
      BY <1>1, <1>3, <2>1, <2>2, <3>1
    <3>3. InLine(o)'
      BY <1>1, <1>2, <2>1, <3>2 DEF InLine
    <3> QED
      BY <3>3
  <2> QED
    BY <2>1, <2>3 DEF Scan
<1>7. Next_char = Quote \/ Next_char \in Letter \cup Digit => Begun = position
  <2>1. "/" \notin Letter \cup Digit /\ "/" # Quote
    BY AlphabetAssumption DEF OneChar, Quote
  <2>2. Next_char = Quote \/ Next_char \in Letter \cup Digit =>
          Pair(content, position) \notin {<<"/", "*">>, <<"/", "/">>}
    BY <2>1 DEF Pair, Next_char
  <2>3. Quote \notin Blank /\ Blank \cap (Letter \cup Digit) = {}
    BY AlphabetAssumption DEF Blank, Quote
  <2> QED
    BY <1>1, <1>3, <2>2, <2>3, StartAt DEF Next_char
<1>8. CASE OpenString
  <2>1. Next_char = Quote /\ Eat /\ first' = position + 2 /\ mode' = "string"
    BY <1>8 DEF OpenString
  <2>2. position' = position + 1 /\ first' - 2 = position
    BY <1>3, <2>1, Eaten, Classes
  <2>3. \A k \in first' .. position' : FALSE
    BY <1>3, <2>1, <2>2
  <2>4. InString'
    BY <1>1, <1>2, <1>7, <2>1, <2>2, <2>3 DEF InString, Next_char
  <2> QED
    BY <2>1, <2>4 DEF Scan
<1>9. CASE OpenWord
  <2>1. /\ Next_char \in Letter \cup Digit /\ Eat /\ first' = position + 1
        /\ mode' = IF Next_char \in Letter THEN "word" ELSE "number"
    BY <1>9 DEF OpenWord
  <2>2. position' = position + 1 /\ first' - 1 = position /\ position < Len(content)
    BY <1>3, <2>1, Eaten, Classes
  <2>3. content[position + 1] = Next_char
    BY <1>3, <2>2 DEF Next_char, CharAt
  <2>4. \A k \in first' .. position' : content[k] = Next_char
    <3>1. \A k \in first' .. position' : k = position + 1
      BY <1>3, <2>1, <2>2
    <3> QED
      BY <2>3, <3>1
  <2>5. ASSUME NEW starts, NEW runs, Next_char \in starts, starts \subseteq runs
        PROVE  InRun(starts, runs)'
    BY <1>1, <1>2, <1>7, <2>1, <2>2, <2>4, <2>5 DEF InRun, Next_char
  <2>6. CASE Next_char \in Letter
    <3>1. InRun(Letter, Letter \cup Digit)'
      BY <2>5, <2>6
    <3> QED
      BY <2>1, <2>6, <3>1 DEF Scan
  <2>7. CASE Next_char \notin Letter
    <3>1. InRun(Digit, Digit)'
      BY <2>1, <2>5, <2>7
    <3> QED
      BY <2>1, <2>7, <3>1 DEF Scan
  <2> QED
    BY <2>6, <2>7
<1> QED
  BY <1>4, <1>5, <1>6, <1>8, <1>9

\* Two characters in a row are in the text when neither can be its end.
LEMMA TwoInText ==
  ASSUME Inv, NEW a \in OneChar, NEW b \in OneChar
  PROVE  Pair(content, position) = <<a, b>> <=>
           /\ position + 2 <= Len(content)
           /\ content[position + 1] = a /\ content[position + 2] = b
<1>1. position \in Nat /\ Len(content) \in Nat
  BY Numbers
<1>2. ASSUME Pair(content, position) = <<a, b>>
      PROVE  position + 1 < Len(content)
  BY <1>2, PairInText
<1>3. ASSUME position + 2 <= Len(content)
      PROVE  /\ CharAt(content, position) = content[position + 1]
             /\ CharAt(content, position + 1) = content[position + 2]
  <2>1. ~(position >= Len(content)) /\ ~(position + 1 >= Len(content))
        /\ (position + 1) + 1 = position + 2
    BY <1>1, <1>3
  <2> QED
    BY <2>1 DEF CharAt
<1> QED
  BY <1>1, <1>2, <1>3 DEF Pair

LEMMA BlockScan ==
  ASSUME Inv, Scan, SkipBlockComment
  PROVE  Scan'
<1>1. mode = "block" /\ content' = content /\ from' = from
  BY DEF SkipBlockComment, Scanning, Go_on
<1>2. Begun' = Begun
  BY <1>1 DEF Begun
<1>3. position \in 0 .. Len(content) /\ position \in Nat /\ Len(content) \in Nat
  BY Numbers
<1>4. PICK o : InBlock(o)
  BY <1>1 DEF Scan
<1>5. /\ o \in 0 .. Len(content) /\ o \in Nat /\ Begun = Stream!Start(content, o)
      /\ Pair(content, o) = <<"/", "*">> /\ position >= o + 1
      /\ \A e \in Stream!BlockEnds(content, o) : e >= position + 2
  BY <1>3, <1>4 DEF InBlock
<1>6. position + 2 \in Stream!BlockEnds(content, o) <=> Pair(content, position) = <<"*", "/">>
  <2>1. position + 2 >= o + 3 /\ position + 2 \in Int /\ o + 3 \in Int /\ (position + 2) - 1 = position + 1
    BY <1>3, <1>5
  <2>2. position + 2 \in Stream!BlockEnds(content, o) <=>
          position + 2 <= Len(content) /\ content[position + 1] = "*" /\ content[position + 2] = "/"
    BY <1>3, <2>1 DEF Stream!BlockEnds
  <2> QED
    BY <2>2, TwoInText, Classes
<1>7. CASE Pair(content, position) = <<"*", "/">>
  <2>1. position' = position + 2 /\ mode' = "start"
    BY <1>7 DEF SkipBlockComment
  <2>2. Stream!Start(content, o) = Stream!Start(content, position + 2)
    BY <1>5, <1>6, <1>7, StartAt
  <2> QED
    BY <1>1, <1>2, <1>5, <2>1, <2>2 DEF Scan
<1>8. CASE Pair(content, position) # <<"*", "/">>
  <2>1. Eat /\ mode' = "block"
    BY <1>1, <1>8 DEF SkipBlockComment
  <2>2. position' \in position .. position + 1
    BY <1>3, <2>1 DEF Eat
  <2>3. \A e \in Stream!BlockEnds(content, o) : e >= position' + 2
    <3> TAKE e \in Stream!BlockEnds(content, o)
    <3>1. e \in Int
      BY <1>3, <1>5 DEF Stream!BlockEnds
    <3>2. e >= position + 2 /\ e # position + 2
      BY <1>5, <1>6, <1>8
    <3>3. position' = position \/ position' = position + 1
      BY <1>3, <2>2
    <3>4. e >= (position + 1) + 2
      BY <1>3, <3>1, <3>2
    <3> QED
      BY <3>2, <3>3, <3>4
  <2>4. position' >= o + 1
    BY <1>3, <1>5, <2>2
  <2>5. InBlock(o)'
    BY <1>1, <1>2, <1>5, <2>3, <2>4 DEF InBlock
  <2> QED
    BY <2>1, <2>5 DEF Scan
<1> QED
  BY <1>7, <1>8

LEMMA LineScan ==
  ASSUME Inv, Scan, SkipLineComment
  PROVE  Scan'
<1>1. mode = "line" /\ content' = content /\ from' = from /\ Eat
      /\ mode' = IF Next_char = "\n" THEN "start" ELSE mode
  BY DEF SkipLineComment, Scanning, Go_on
<1>2. Begun' = Begun
  BY <1>1 DEF Begun
<1>3. position \in 0 .. Len(content) /\ position \in Nat /\ Len(content) \in Nat
  BY Numbers
<1>4. PICK o : InLine(o)
  BY <1>1 DEF Scan
<1>5. /\ o \in 0 .. Len(content) /\ o \in Nat /\ Begun = Stream!Start(content, o)
      /\ Pair(content, o) = <<"/", "/">> /\ position >= o + 2
      /\ \A e \in Stream!LineEnds(content, o) : e >= position + 1
  BY <1>3, <1>4 DEF InLine
<1>6. position + 1 \in Stream!LineEnds(content, o) <=> Next_char = "\n"
  <2>1. position + 1 >= o + 3 /\ position + 1 \in Int /\ o + 3 \in Int
    BY <1>3, <1>5
  <2>2. position + 1 \in Stream!LineEnds(content, o) <=>
          position + 1 <= Len(content) /\ content[position + 1] = "\n"
    BY <1>3, <2>1 DEF Stream!LineEnds
  <2>3. EOF # "\n"
    BY Classes
  <2> QED
    BY <1>3, <2>2, <2>3 DEF Next_char, CharAt
<1>7. CASE Next_char = "\n"
  <2>1. position' = position + 1 /\ mode' = "start"
    BY <1>1, <1>7, Eaten, Classes
  <2>2. Stream!Start(content, o) = Stream!Start(content, position + 1)
    BY <1>5, <1>6, <1>7, StartAt
  <2> QED
    BY <1>1, <1>2, <1>5, <2>1, <2>2 DEF Scan
<1>8. CASE Next_char # "\n"
  <2>1. mode' = "line"
    BY <1>1, <1>8
  <2>2. position' \in position .. position + 1
    BY <1>1, <1>3 DEF Eat
  <2>3. \A e \in Stream!LineEnds(content, o) : e >= position' + 1
    <3> TAKE e \in Stream!LineEnds(content, o)
    <3>1. e \in Int
      BY <1>3, <1>5 DEF Stream!LineEnds
    <3>2. e >= position + 1 /\ e # position + 1
      BY <1>5, <1>6, <1>8
    <3>3. position' = position \/ position' = position + 1
      BY <1>3, <2>2
    <3>4. e >= (position + 1) + 1
      BY <1>3, <3>1, <3>2
    <3> QED
      BY <3>2, <3>3, <3>4
  <2>4. position' >= o + 2
    BY <1>3, <1>5, <2>2
  <2>5. InLine(o)'
    BY <1>1, <1>2, <1>5, <2>3, <2>4 DEF InLine
  <2> QED
    BY <2>1, <2>5 DEF Scan
<1> QED
  BY <1>7, <1>8

\* The character just eaten is neither the quote nor the end, or goes on a run.
LEMMA EatenOne ==
  ASSUME Inv, Eat, Next_char # EOF, NEW f \in Nat,
         NEW runs, Next_char \in runs, \A k \in f .. position : content[k] \in runs
  PROVE  \A k \in f .. position' : content[k] \in runs
<1>1. position \in Nat /\ Len(content) \in Nat
  BY Numbers
<1>2. position < Len(content) /\ position' = position + 1
  BY Eaten
<1>3. content[position + 1] = Next_char
  BY <1>1, <1>2 DEF Next_char, CharAt
<1>4. \A k \in f .. position' : k \in f .. position \/ k = position + 1
  BY <1>1, <1>2
<1> QED
  BY <1>3, <1>4

LEMMA StringScan ==
  ASSUME Inv, Scan, ReadString, mode' # "idle"
  PROVE  Scan' /\ Go_on
<1>1. mode = "string" /\ Eat /\ InString
  BY DEF ReadString, Scanning, Scan
<1>2. /\ Next_char # Quote /\ Next_char # EOF /\ mode' = mode /\ first' = first /\ Go_on
  BY DEF ReadString, Deliver
<1>3. content' = content /\ from' = from
  BY <1>2 DEF Go_on
<1>4. Begun' = Begun
  BY <1>3 DEF Begun
<1> DEFINE runs == {content[k] : k \in first .. position} \cup {Next_char}
<1>5. \A k \in first .. position' : content[k] \in runs
  <2>1. \A k \in first .. position : content[k] \in runs
    OBVIOUS
  <2>2. first \in Nat /\ Next_char \in runs
    BY Numbers
  <2> HIDE DEF runs
  <2> QED
    BY <1>1, <1>2, <2>1, <2>2, EatenOne
<1>6. \A k \in first .. position' : content[k] \notin {Quote, EOF}
  <2>1. \A c \in runs : c \notin {Quote, EOF}
    BY <1>1, <1>2 DEF InString
  <2> HIDE DEF runs
  <2> QED
    BY <1>5, <2>1
<1>7. InString'
  BY <1>1, <1>2, <1>3, <1>4, <1>6 DEF InString
<1> QED
  BY <1>1, <1>2, <1>7 DEF Scan

LEMMA WordScan ==
  ASSUME Inv, Scan, ReadWord
  PROVE  Scan'
<1>1. /\ mode \in {"word", "number"} /\ Next_char \in Continues /\ Eat
      /\ mode' = mode /\ first' = first /\ content' = content /\ from' = from
  BY DEF ReadWord, Go_on
<1>2. Begun' = Begun
  BY <1>1 DEF Begun
<1>3. Next_char # EOF /\ first \in Nat
  BY <1>1, Classes, Numbers DEF Continues
<1>4. ASSUME NEW starts, NEW runs, InRun(starts, runs), Next_char \in runs
      PROVE  InRun(starts, runs)'
  <2>1. \A k \in first .. position' : content[k] \in runs
    BY <1>1, <1>3, <1>4, EatenOne DEF InRun
  <2> QED
    BY <1>1, <1>2, <1>4, <2>1 DEF InRun
<1>5. CASE mode = "word"
  <2>1. InRun(Letter, Letter \cup Digit)'
    BY <1>1, <1>4, <1>5 DEF Scan, Continues
  <2> QED
    BY <1>1, <1>5, <2>1 DEF Scan
<1>6. CASE mode = "number"
  <2>1. InRun(Digit, Digit)'
    BY <1>1, <1>4, <1>6 DEF Scan, Continues
  <2> QED
    BY <1>1, <1>6, <2>1 DEF Scan
<1> QED
  BY <1>1, <1>5, <1>6

-----------------------------------------------------------------------------
(***************************************************************************)
(* The token that is delivered is the one the stream has                   *)
(***************************************************************************)
\* The classes of characters a token can start with exclude each other.
LEMMA Kinds ==
  ASSUME NEW c
  PROVE  /\ c \in Letter => /\ c \notin Digit /\ c \notin Other \cup {EOF} /\ c \notin OneChar
                            /\ c \notin Unknown /\ c # Quote
         /\ c \in Digit => /\ c \notin Letter /\ c \notin Other \cup {EOF} /\ c \notin OneChar
                           /\ c \notin Unknown /\ c # Quote
         /\ c = Quote => /\ c \notin Letter /\ c \notin Digit /\ c \notin Other \cup {EOF}
                         /\ c \notin OneChar /\ c \notin Unknown
         /\ c \in OneChar => /\ c \notin Letter /\ c \notin Digit /\ c \notin Other \cup {EOF}
                             /\ c \notin Unknown /\ c # Quote
         /\ c \in Other \cup {EOF} => /\ c \notin Letter /\ c \notin Digit /\ c \notin OneChar
                                      /\ c \notin Unknown /\ c # Quote /\ c \notin Blank
         /\ c \in Unknown => c \notin Blank /\ c \notin OneChar
<1>1. Quote \notin OneChar
  BY DEF Quote, OneChar
<1> QED
  BY <1>1, AlphabetAssumption

LEMMA TwoStart ==
  ASSUME NEW text, NEW s, Pair(text, s) \in TwoChars
  PROVE  CharAt(text, s) \in OneChar
BY DEF Pair, TwoChars, OneChar

\* What is read at p, by the character s the token starts with.
LEMMA ReadCases ==
  ASSUME NEW text, Len(text) \in Nat, NEW p, NEW s \in 0 .. Len(text), Stream!Start(text, p) = s
  PROVE  /\ s = Len(text) =>
              Stream!ReadAt(text, p) = Stream!At(Token("EOF_OR_INVALID", p, s + 1, s), s)
         /\ s < Len(text) /\ CharAt(text, s) \in Other \cup {EOF} =>
              Stream!ReadAt(text, p) = Stream!At(Token("EOF_OR_INVALID", p, s + 1, s), s + 1)
         /\ CharAt(text, s) = Quote => Stream!ReadAt(text, p) = Stream!StringAt(text, p, s)
         /\ CharAt(text, s) \in Letter =>
              Stream!ReadAt(text, p) =
                Stream!RunAt(WordType(SubSeq(text, s + 1, Stream!RunEnd(text, s, Letter \cup Digit))),
                             p, s, Stream!RunEnd(text, s, Letter \cup Digit), text)
         /\ CharAt(text, s) \in Digit =>
              Stream!ReadAt(text, p) = Stream!RunAt("NUMBER", p, s, Stream!RunEnd(text, s, Digit), text)
         /\ Pair(text, s) \in TwoChars =>
              Stream!ReadAt(text, p) = Stream!At(Token("OPERATOR", p, s + 1, s + 2), s + 2)
         /\ CharAt(text, s) \in OneChar /\ Pair(text, s) \notin TwoChars =>
              Stream!ReadAt(text, p) = Stream!At(Token("OPERATOR", p, s + 1, s + 1), s + 1)
<1> DEFINE c  == CharAt(text, s)
           A1 == Stream!At(Token("EOF_OR_INVALID", p, s + 1, s), s)
           A2 == Stream!At(Token("EOF_OR_INVALID", p, s + 1, s), s + 1)
           A3 == Stream!StringAt(text, p, s)
           A4 == Stream!RunAt(WordType(SubSeq(text, s + 1, Stream!RunEnd(text, s, Letter \cup Digit))),
                              p, s, Stream!RunEnd(text, s, Letter \cup Digit), text)
           A5 == Stream!RunAt("NUMBER", p, s, Stream!RunEnd(text, s, Digit), text)
           A6 == Stream!At(Token("OPERATOR", p, s + 1, s + 2), s + 2)
           A7 == Stream!At(Token("OPERATOR", p, s + 1, s + 1), s + 1)
           g1 == s = Len(text)
           g2 == s < Len(text) /\ c \in Other \cup {EOF}
           g3 == c = Quote
           g4 == c \in Letter
           g5 == c \in Digit
           g6 == Pair(text, s) \in TwoChars
           g7 == c \in OneChar /\ Pair(text, s) \notin TwoChars
<1>1. Stream!ReadAt(text, p) =
        CASE g1 -> A1 [] g2 -> A2 [] g3 -> A3 [] g4 -> A4 [] g5 -> A5 [] g6 -> A6 [] g7 -> A7
  BY SameCharacters DEF Stream!ReadAt
<1>2. g1 => c = EOF
  BY DEF CharAt
<1>3. g6 => c \in OneChar
  BY TwoStart
<1>4. /\ g1 => ~g2 /\ ~g3 /\ ~g4 /\ ~g5 /\ ~g6 /\ ~g7
      /\ g2 => ~g1 /\ ~g3 /\ ~g4 /\ ~g5 /\ ~g6 /\ ~g7
      /\ g3 => ~g1 /\ ~g2 /\ ~g4 /\ ~g5 /\ ~g6 /\ ~g7
      /\ g4 => ~g1 /\ ~g2 /\ ~g3 /\ ~g5 /\ ~g6 /\ ~g7
      /\ g5 => ~g1 /\ ~g2 /\ ~g3 /\ ~g4 /\ ~g6 /\ ~g7
      /\ g6 => ~g1 /\ ~g2 /\ ~g3 /\ ~g4 /\ ~g5 /\ ~g7
      /\ g7 => ~g1 /\ ~g2 /\ ~g3 /\ ~g4 /\ ~g5 /\ ~g6
  <2>1. g1 => ~g2
    OBVIOUS
  <2> HIDE DEF c
  <2> QED
    BY <1>2, <1>3, <2>1, Kinds
<1> HIDE DEF c, A1, A2, A3, A4, A5, A6, A7, g1, g2, g3, g4, g5, g6, g7
<1>5. /\ g1 => Stream!ReadAt(text, p) = A1
      /\ g2 => Stream!ReadAt(text, p) = A2
      /\ g3 => Stream!ReadAt(text, p) = A3
      /\ g4 => Stream!ReadAt(text, p) = A4
      /\ g5 => Stream!ReadAt(text, p) = A5
      /\ g6 => Stream!ReadAt(text, p) = A6
      /\ g7 => Stream!ReadAt(text, p) = A7
  BY <1>1, <1>4
<1> QED
  BY <1>5 DEF c, A1, A2, A3, A4, A5, A6, A7, g1, g2, g3, g4, g5, g6, g7

\* Where a token starts there is one, unless the character is unknown.
LEMMA WholeAt ==
  ASSUME NEW text, NEW p, NEW s \in Nat, Stream!Start(text, p) = s
  PROVE  /\ Stream!Whole(text, p) <=> CharAt(text, s) \notin Unknown
         /\ Stream!Bad(text, p) <=> CharAt(text, s) \in Unknown
<1>1. s # -1
  OBVIOUS
<1> QED
  BY <1>1, SameCharacters DEF Stream!Whole, Stream!Open, Stream!Bad, Stream!Stuck

\* get_token returns the token of the stream, and stops behind it.
LEMMA DeliverPromise ==
  ASSUME Inv, Buffer, mode # "idle", NEW type, NEW a, NEW b, Deliver(type, a, b),
         Stream!Whole(content, from),
         Stream!ReadAt(content, from) = Stream!At(Token(type, from, a, b), position')
  PROVE  Promise'
<1> DEFINE t == Token(type, from, a, b)
<1>0. PICK n : n = Len(lookahead)
  OBVIOUS
<1>1. lookahead' = Append(lookahead, t) /\ mode' = "idle" /\ content' = content
  BY DEF Deliver
<1>2. lookahead \in Seq(Tokens) /\ n \in Nat /\ DOMAIN lookahead = 1 .. n
  BY <1>0, Numbers
<1>3. /\ t.from = from
      /\ t = Stream!ReadAt(content, t.from).token
      /\ position' = Stream!ReadAt(content, t.from).next
  BY DEF Token, Stream!At
<1> HIDE DEF t
<1>4. /\ DOMAIN lookahead' = 1 .. n + 1 /\ Len(lookahead') = n + 1 /\ lookahead'[n + 1] = t
      /\ \A k \in 1 .. n : lookahead'[k] = lookahead[k]
  <2>1. lookahead \in Seq(Tokens \cup {t})
    BY <1>2
  <2> QED
    BY <1>0, <1>1, <1>2, <2>1, AppendProperties
<1>5. Asked = from /\ Asked' = position'
  BY <1>1 DEF Asked
<1>6. \A k \in DOMAIN lookahead' : Promised(lookahead[k])' \/ k = n + 1
  <2> TAKE k \in DOMAIN lookahead'
  <2>1. k \in 1 .. n \/ k = n + 1
    BY <1>2, <1>4
  <2>2. k \in 1 .. n => Promised(lookahead[k])
    BY <1>2 DEF Buffer
  <2>3. k \in 1 .. n => Promised(lookahead[k])'
    BY <1>1, <1>4, <2>2 DEF Promised
  <2> QED
    BY <2>1, <2>3
<1>7. Promised(lookahead[n + 1])'
  BY <1>1, <1>3, <1>4 DEF Promised
<1>8. ASSUME NEW k \in DOMAIN lookahead', k + 1 \in DOMAIN lookahead'
      PROVE  lookahead'[k + 1].from = Stream!ReadAt(content, lookahead'[k].from).next
  <2>1. k \in 1 .. n /\ (k + 1 \in 1 .. n \/ k = n)
    BY <1>2, <1>4, <1>8
  <2>2. CASE k + 1 \in 1 .. n
    BY <1>2, <1>4, <2>1, <2>2 DEF Buffer
  <2>3. CASE k = n
    <3>1. lookahead # <<>>
      BY <1>2, <2>1, <2>3
    <3>2. Asked = Stream!ReadAt(content, lookahead[n].from).next
      BY <1>0, <3>1 DEF Buffer
    <3> QED
      BY <1>3, <1>4, <1>5, <2>1, <2>3, <3>2
  <2> QED
    BY <2>1, <2>2, <2>3
<1>9. Asked' = Stream!ReadAt(content, lookahead'[Len(lookahead')].from).next
  BY <1>3, <1>4, <1>5
<1>10. Buffer'
  BY <1>1, <1>4, <1>6, <1>7, <1>8, <1>9 DEF Buffer
<1> QED
  BY <1>1, <1>10 DEF Promise, Scan

\* A token that starts with a character that is neither blank nor a slash
\* that opens a comment starts where the scan is.
LEMMA StartsHere ==
  ASSUME Inv, Scan, mode = "start", Next_char \notin Blank,
         Pair(content, position) \notin {<<"/", "*">>, <<"/", "/">>}
  PROVE  Stream!Start(content, from) = position
BY Numbers, StartAt DEF Scan, Begun, Next_char

LEMMA EndPromise ==
  ASSUME Inv, Promise, EndOfInput
  PROVE  Promise'
<1>1. /\ mode = "start" /\ Next_char \in Other \cup {EOF} /\ Eat
      /\ Deliver("EOF_OR_INVALID", position + 1, position)
  BY DEF EndOfInput, Scanning
<1>2. position \in Nat /\ Len(content) \in Nat /\ position \in 0 .. Len(content)
  BY Numbers
<1>3. /\ Next_char \notin OneChar /\ Next_char \notin Blank /\ Next_char \notin Unknown
  BY <1>1, Kinds
<1>4. Pair(content, position) \notin {<<"/", "*">>, <<"/", "/">>}
  BY <1>3 DEF Pair, Next_char, OneChar
<1>5. Stream!Start(content, from) = position
  BY <1>1, <1>3, <1>4, StartsHere DEF Promise
<1>6. Stream!Whole(content, from)
  BY <1>2, <1>3, <1>5, WholeAt DEF Next_char
<1>7. Stream!ReadAt(content, from) =
        Stream!At(Token("EOF_OR_INVALID", from, position + 1, position), position')
  <2>1. CASE position = Len(content)
    <3>1. position' = position
      BY <1>1, <1>2, <2>1 DEF Eat
    <3> QED
      BY <1>2, <1>5, <2>1, <3>1, ReadCases
  <2>2. CASE position < Len(content)
    <3>1. position' = position + 1
      BY <1>1, <1>2, <2>2 DEF Eat
    <3> QED
      BY <1>1, <1>2, <1>5, <2>2, <3>1, ReadCases DEF Next_char
  <2> QED
    BY <1>2, <2>1, <2>2
<1> QED
  BY <1>1, <1>6, <1>7, DeliverPromise DEF Promise

LEMMA OperatorPromise ==
  ASSUME Inv, Promise, ReadOperator
  PROVE  Promise'
<1> DEFINE length == IF Pair(content, position) \in TwoChars THEN 2 ELSE 1
<1>1. /\ mode = "start" /\ Next_char \in OneChar
      /\ Pair(content, position) \notin {<<"/", "*">>, <<"/", "/">>}
      /\ position' = position + length
      /\ Deliver("OPERATOR", position + 1, position + length)
  BY DEF ReadOperator, Scanning
<1>2. position \in Nat /\ Len(content) \in Nat /\ position \in 0 .. Len(content)
  BY Numbers
<1>3. Next_char \notin Blank /\ Next_char \notin Unknown
  <2>1. OneChar \cap Blank = {}
    BY DEF OneChar, Blank
  <2> QED
    BY <1>1, <2>1, Kinds
<1>4. Stream!Start(content, from) = position
  BY <1>1, <1>3, StartsHere DEF Promise
<1>5. Stream!Whole(content, from)
  BY <1>2, <1>3, <1>4, WholeAt DEF Next_char
<1>6. Stream!ReadAt(content, from) =
        Stream!At(Token("OPERATOR", from, position + 1, position + length), position')
  <2>1. CASE Pair(content, position) \in TwoChars
    BY <1>1, <1>2, <1>4, <2>1, ReadCases
  <2>2. CASE Pair(content, position) \notin TwoChars
    BY <1>1, <1>2, <1>4, <2>2, ReadCases DEF Next_char
  <2> QED
    BY <2>1, <2>2
<1> QED
  BY <1>1, <1>5, <1>6, DeliverPromise DEF Promise

\* A string ends at the first quote, byte 255 or end after it has begun.
LEMMA StringEndsHere ==
  ASSUME Inv, NEW s \in Nat, position >= s + 1,
         \A k \in s + 2 .. position : content[k] \notin {Quote, EOF},
         Next_char \in {Quote, EOF}
  PROVE  Stream!StringEnd(content, s) = position + 1
<1> DEFINE S == {q \in s + 2 .. Len(content) : content[q] \in {Quote, EOF}} \cup {Len(content) + 1}
<1>1. position \in Nat /\ Len(content) \in Nat /\ position \in 0 .. Len(content)
  BY Numbers
<1>2. S \subseteq Nat
  BY <1>1
<1>3. position + 1 \in S
  <2>1. CASE position = Len(content)
    BY <1>1, <2>1
  <2>2. CASE position < Len(content)
    <3>1. content[position + 1] = Next_char
      BY <1>1, <2>2 DEF Next_char, CharAt
    <3>2. position + 1 \in s + 2 .. Len(content)
      BY <1>1, <2>2
    <3> QED
      BY <3>1, <3>2
  <2> QED
    BY <1>1, <2>1, <2>2
<1>4. ASSUME NEW q \in S
      PROVE  position + 1 <= q
  <2>1. CASE q = Len(content) + 1
    BY <1>1, <2>1
  <2>2. CASE q \in s + 2 .. Len(content) /\ content[q] \in {Quote, EOF}
    <3>1. q \notin s + 2 .. position
      BY <2>2
    <3> QED
      BY <1>1, <2>2, <3>1
  <2> QED
    BY <2>1, <2>2
<1>5. Stream!StringEnd(content, s) = Stream!Least(S)
  BY SameCharacters DEF Stream!StringEnd
<1> HIDE DEF S
<1> QED
  BY <1>2, <1>3, <1>4, <1>5, LeastOf

LEMMA StringPromise ==
  ASSUME Inv, Promise, ReadString, mode' = "idle"
  PROVE  Promise'
<1>1. mode = "string" /\ Eat /\ InString
  BY DEF ReadString, Scanning, Promise, Scan
<1>2. /\ Next_char \in {Quote, EOF}
      /\ Deliver(IF Next_char = Quote THEN "STRING" ELSE "EOF_OR_INVALID", first, position)
  BY <1>1 DEF ReadString
<1>3. /\ position \in Nat /\ Len(content) \in Nat /\ position \in 0 .. Len(content)
      /\ from \in Nat /\ first \in Nat /\ first \in from + 2 .. position + 1
  BY <1>1, Numbers DEF Inv, Reading
<1>4. PICK s \in Nat : first = s + 2
  <2>1. first - 2 \in Nat /\ first = (first - 2) + 2
    BY <1>3
  <2> QED
    BY <2>1
<1>5. first - 2 = s /\ position >= s + 1 /\ (position + 1) - 1 = position /\ s \in 0 .. Len(content)
  BY <1>3, <1>4
<1>6. Stream!Start(content, from) = s /\ CharAt(content, s) = Quote
  BY <1>1, <1>5 DEF InString, Begun
<1>7. Stream!Whole(content, from)
  BY <1>6, WholeAt, Kinds
<1>8. Stream!StringEnd(content, s) = position + 1
  BY <1>1, <1>2, <1>4, <1>5, StringEndsHere DEF InString
<1>9. Stream!ReadAt(content, from) = Stream!StringAt(content, from, s)
  BY <1>3, <1>5, <1>6, ReadCases
<1>10. Stream!ReadAt(content, from) =
         Stream!At(Token(IF Next_char = Quote THEN "STRING" ELSE "EOF_OR_INVALID",
                         from, first, position), position')
  <2>1. CASE Next_char = Quote
    <3>1. position' = position + 1
      BY <1>1, <2>1, Eaten, Classes
    <3> QED
      BY <1>4, <1>5, <1>8, <1>9, <2>1, <3>1, SameCharacters DEF Stream!StringAt, Next_char
  <2>2. CASE Next_char # Quote
    <3>1. position' = IF position + 1 > Len(content) THEN Len(content) ELSE position + 1
      BY <1>1, <1>3 DEF Eat
    <3> QED
      BY <1>4, <1>5, <1>8, <1>9, <2>2, <3>1, SameCharacters DEF Stream!StringAt, Next_char
  <2> QED
    BY <2>1, <2>2
<1> QED
  BY <1>1, <1>2, <1>7, <1>10, DeliverPromise DEF Promise

\* A word or a number ends at the first character it cannot go on with.
LEMMA RunEndsHere ==
  ASSUME Inv, NEW s \in Nat, position >= s + 1, NEW runs,
         \A k \in s + 1 .. position : content[k] \in runs,
         Next_char \notin runs
  PROVE  Stream!RunEnd(content, s, runs) = position
<1> DEFINE S == {l \in s + 1 .. Len(content) : \A k \in s + 1 .. l : content[k] \in runs}
<1>1. position \in Nat /\ Len(content) \in Nat /\ position \in 0 .. Len(content)
  BY Numbers
<1>2. S \subseteq Nat
  BY <1>1
<1>3. position \in S
  BY <1>1
<1>4. ASSUME NEW l \in S
      PROVE  position >= l
  <2>1. CASE position = Len(content)
    BY <1>1, <2>1
  <2>2. CASE position < Len(content)
    <3>1. content[position + 1] = Next_char
      BY <1>1, <2>2 DEF Next_char, CharAt
    <3>2. position + 1 \notin s + 1 .. l
      BY <3>1
    <3>3. l \in Nat
      BY <1>1
    <3> QED
      BY <1>1, <3>2, <3>3
  <2> QED
    BY <1>1, <2>1, <2>2
<1>5. Stream!RunEnd(content, s, runs) = Stream!Greatest(S)
  BY DEF Stream!RunEnd
<1> HIDE DEF S
<1> QED
  BY <1>2, <1>3, <1>4, <1>5, GreatestOf

LEMMA WordPromise ==
  ASSUME Inv, Promise, EndWord
  PROVE  Promise'
<1>1. /\ mode \in {"word", "number"} /\ Next_char \notin Continues /\ Unread
      /\ Deliver(IF mode = "number" THEN "NUMBER" ELSE WordType(SubSeq(content, first, position)),
                 first, position)
  BY DEF EndWord
<1>2. /\ position \in Nat /\ Len(content) \in Nat /\ position \in 0 .. Len(content)
      /\ from \in Nat /\ first \in Nat /\ first \in from + 1 .. position
  BY <1>1, Numbers DEF Inv, Reading
<1>3. PICK s \in Nat : first = s + 1
  <2>1. first - 1 \in Nat /\ first = (first - 1) + 1
    BY <1>2
  <2> QED
    BY <2>1
<1>4. first - 1 = s /\ position >= s + 1 /\ s \in 0 .. Len(content)
  BY <1>2, <1>3
<1>5. position' = IF position = Len(content) THEN position - 1 ELSE position
  BY <1>1, <1>2 DEF Unread
<1>6. ASSUME NEW starts, NEW runs, InRun(starts, runs), Next_char \notin runs
      PROVE  /\ Stream!Start(content, from) = s /\ CharAt(content, s) \in starts
             /\ Stream!RunEnd(content, s, runs) = position
  <2>1. Stream!Start(content, from) = s /\ CharAt(content, s) \in starts
    BY <1>4, <1>6 DEF InRun, Begun
  <2>2. \A k \in s + 1 .. position : content[k] \in runs
    BY <1>3, <1>6 DEF InRun
  <2> QED
    BY <1>4, <1>6, <2>1, <2>2, RunEndsHere
<1>7. CASE mode = "word"
  <2>1. /\ InRun(Letter, Letter \cup Digit) /\ Next_char \notin Letter \cup Digit
        /\ Deliver(WordType(SubSeq(content, first, position)), first, position)
    BY <1>1, <1>7 DEF Promise, Scan, Continues
  <2>2. /\ Stream!Start(content, from) = s /\ CharAt(content, s) \in Letter
        /\ Stream!RunEnd(content, s, Letter \cup Digit) = position
    BY <1>6, <2>1
  <2>3. Stream!Whole(content, from)
    BY <2>2, WholeAt, Kinds
  <2>4. Stream!ReadAt(content, from) =
          Stream!RunAt(WordType(SubSeq(content, first, position)), from, s, position, content)
    BY <1>2, <1>3, <1>4, <2>2, ReadCases
  <2>5. Stream!ReadAt(content, from) =
          Stream!At(Token(WordType(SubSeq(content, first, position)), from, first, position), position')
    BY <1>3, <1>5, <2>4, SameCharacters DEF Stream!RunAt
  <2> QED
    BY <1>7, <2>1, <2>3, <2>5, DeliverPromise DEF Promise
<1>8. CASE mode = "number"
  <2>1. /\ InRun(Digit, Digit) /\ Next_char \notin Digit
        /\ Deliver("NUMBER", first, position)
    BY <1>1, <1>8 DEF Promise, Scan, Continues
  <2>2. /\ Stream!Start(content, from) = s /\ CharAt(content, s) \in Digit
        /\ Stream!RunEnd(content, s, Digit) = position
    BY <1>6, <2>1
  <2>3. Stream!Whole(content, from)
    BY <2>2, WholeAt, Kinds
  <2>4. Stream!ReadAt(content, from) = Stream!RunAt("NUMBER", from, s, position, content)
    BY <1>2, <1>4, <2>2, ReadCases
  <2>5. Stream!ReadAt(content, from) =
          Stream!At(Token("NUMBER", from, first, position), position')
    BY <1>3, <1>5, <2>4, SameCharacters DEF Stream!RunAt
  <2> QED
    BY <1>8, <2>1, <2>3, <2>5, DeliverPromise DEF Promise
<1> QED
  BY <1>1, <1>7, <1>8

LEMMA PromiseInit == Init => Promise
BY DEF Init, Promise, Scan, Buffer

\* A step that leaves the scanner and the buffer alone.
LEMMA IdlePromise ==
  ASSUME Promise, UNCHANGED <<content, scanner, lookahead>>
  PROVE  Promise'
<1>1. /\ content' = content /\ position' = position /\ mode' = mode /\ from' = from
      /\ first' = first /\ lookahead' = lookahead
  BY DEF scanner
<1>2. Begun' = Begun /\ Asked' = Asked
  BY <1>1 DEF Begun, Asked
<1>3. Buffer'
  BY <1>1, <1>2, BufferKept DEF Promise
<1>4. /\ (mode = "string" => InString)'
      /\ (mode = "word" => InRun(Letter, Letter \cup Digit))'
      /\ (mode = "number" => InRun(Digit, Digit))'
      /\ (mode = "start" => Begun = Stream!Start(content, position))'
  BY <1>1, <1>2 DEF Promise, Scan, InString, InRun
<1>5. mode' = "block" => \E o : InBlock(o)'
  <2> SUFFICES ASSUME mode' = "block"
               PROVE  \E o : InBlock(o)'
    OBVIOUS
  <2>1. PICK o : InBlock(o)
    BY <1>1 DEF Promise, Scan
  <2>2. InBlock(o)'
    BY <1>1, <1>2, <2>1 DEF InBlock
  <2> QED
    BY <2>2
<1>6. mode' = "line" => \E o : InLine(o)'
  <2> SUFFICES ASSUME mode' = "line"
               PROVE  \E o : InLine(o)'
    OBVIOUS
  <2>1. PICK o : InLine(o)
    BY <1>1 DEF Promise, Scan
  <2>2. InLine(o)'
    BY <1>1, <1>2, <2>1 DEF InLine
  <2> QED
    BY <2>2
<1> QED
  BY <1>3, <1>4, <1>5, <1>6 DEF Promise, Scan

\* The client takes the first token: the rest of the buffer is still in a row.
LEMMA TakePromise ==
  ASSUME Inv, Promise, Len(lookahead) = Slots, lookahead' = Tail(lookahead),
         UNCHANGED <<content, scanner>>
  PROVE  /\ Promise'
         /\ Cursor' = Stream!ReadAt(content, lookahead[1].from).next
<1>1. /\ content' = content /\ position' = position /\ mode' = mode /\ from' = from
  BY DEF scanner
<1>2. /\ lookahead \in Seq(Tokens) /\ Slots \in Nat \ {0} /\ DOMAIN lookahead = 1 .. Slots
  BY Numbers
<1>3. mode = "idle"
  BY <1>2 DEF Inv, Reading
<1>4. PICK n \in Nat : Slots = n + 1
  <2>1. Slots - 1 \in Nat /\ Slots = (Slots - 1) + 1
    BY <1>2
  <2> QED
    BY <2>1
<1>5. /\ Len(lookahead') = n /\ DOMAIN lookahead' = 1 .. n
      /\ \A k \in 1 .. n : lookahead'[k] = lookahead[k + 1]
  BY <1>2, <1>4
<1>6. Asked' = Asked
  BY <1>1 DEF Asked
<1>7. \A k \in 1 .. n : k \in 1 .. Slots /\ k + 1 \in 1 .. Slots
  BY <1>4
<1>8. \A k \in DOMAIN lookahead' : Promised(lookahead[k])'
  <2> TAKE k \in DOMAIN lookahead'
  <2>1. Promised(lookahead[k + 1])
    BY <1>2, <1>5, <1>7 DEF Promise, Buffer
  <2> QED
    BY <1>1, <1>5, <2>1 DEF Promised
<1>9. ASSUME NEW k \in DOMAIN lookahead', k + 1 \in DOMAIN lookahead'
      PROVE  lookahead'[k + 1].from = Stream!ReadAt(content, lookahead'[k].from).next
  <2>1. /\ k \in 1 .. n /\ k + 1 \in 1 .. n /\ k + 1 \in 1 .. Slots /\ (k + 1) + 1 \in 1 .. Slots
    BY <1>5, <1>7, <1>9
  <2>2. lookahead[(k + 1) + 1].from = Stream!ReadAt(content, lookahead[k + 1].from).next
    BY <1>2, <2>1 DEF Promise, Buffer
  <2> QED
    BY <1>5, <2>1, <2>2
<1>10. lookahead # <<>> /\ Asked = Stream!ReadAt(content, lookahead[n + 1].from).next
  <2>1. lookahead # <<>>
    BY <1>2
  <2> QED
    BY <1>4, <2>1 DEF Promise, Buffer
<1>11. lookahead' # <<>> => Asked' = Stream!ReadAt(content, lookahead'[Len(lookahead')].from).next
  <2>1. lookahead' # <<>> => n \in 1 .. n
    BY <1>5
  <2> QED
    BY <1>5, <1>6, <1>10, <2>1
<1>12. Buffer'
  BY <1>1, <1>8, <1>9, <1>11 DEF Buffer
<1>13. Promise'
  BY <1>1, <1>3, <1>12 DEF Promise, Scan
<1>14. Cursor' = Stream!ReadAt(content, lookahead[1].from).next
  <2>1. Cursor' = IF lookahead' # <<>> THEN lookahead'[1].from ELSE Asked'
    BY <1>1, <1>3 DEF Cursor, Asked
  <2>2. CASE n = 0
    <3>1. lookahead' = <<>>
      BY <1>5, <2>2
    <3> QED
      BY <1>6, <1>10, <2>1, <2>2, <3>1
  <2>3. CASE n # 0
    <3>1. lookahead' # <<>> /\ 1 \in 1 .. n /\ 1 \in 1 .. Slots /\ 1 + 1 \in 1 .. Slots
      BY <1>4, <1>5, <2>3
    <3>2. lookahead[1 + 1].from = Stream!ReadAt(content, lookahead[1].from).next
      BY <1>2, <3>1 DEF Promise, Buffer
    <3> QED
      BY <1>5, <2>1, <3>1, <3>2
  <2> QED
    BY <2>2, <2>3
<1> QED
  BY <1>13, <1>14

LEMMA GetTokenPromise ==
  ASSUME Inv, Promise, get_token
  PROVE  Promise'
<1>1. ASSUME content' = content, from' = from, lookahead' = lookahead,
             mode # "idle", mode' # "idle", Scan'
      PROVE  Promise'
  <2>1. Asked' = Asked
    BY <1>1 DEF Asked
  <2> QED
    BY <1>1, <2>1, BufferKept DEF Promise
<1>2. CASE EatBlank \/ OpenBlockComment \/ OpenLineComment \/ OpenString \/ OpenWord
  <2>1. Scan'
    BY <1>2, StartScans DEF Promise
  <2>2. mode = "start" /\ mode' # "idle" /\ Go_on
    BY <1>2 DEF EatBlank, OpenBlockComment, OpenLineComment, OpenString, OpenWord, Scanning
  <2> QED
    BY <1>1, <2>1, <2>2 DEF Go_on
<1>3. CASE SkipBlockComment
  <2>1. Scan'
    BY <1>3, BlockScan DEF Promise
  <2>2. mode = "block" /\ mode' # "idle" /\ Go_on
    BY <1>3 DEF SkipBlockComment, Scanning
  <2> QED
    BY <1>1, <2>1, <2>2 DEF Go_on
<1>4. CASE SkipLineComment
  <2>1. Scan'
    BY <1>4, LineScan DEF Promise
  <2>2. mode = "line" /\ mode' # "idle" /\ Go_on
    BY <1>4 DEF SkipLineComment, Scanning
  <2> QED
    BY <1>1, <2>1, <2>2 DEF Go_on
<1>5. CASE ReadWord
  <2>1. Scan'
    BY <1>5, WordScan DEF Promise
  <2>2. mode \in {"word", "number"} /\ mode' = mode /\ Go_on
    BY <1>5 DEF ReadWord
  <2> QED
    BY <1>1, <2>1, <2>2 DEF Go_on
<1>6. CASE ReadString
  <2>1. CASE mode' = "idle"
    BY <1>6, <2>1, StringPromise
  <2>2. CASE mode' # "idle"
    <3>1. Scan' /\ Go_on /\ mode = "string"
      BY <1>6, <2>2, StringScan DEF Promise, ReadString, Scanning
    <3> QED
      BY <1>1, <2>2, <3>1 DEF Go_on
  <2> QED
    BY <2>1, <2>2
<1>7. CASE UnknownOperator
  BY <1>7, IdlePromise DEF UnknownOperator
<1> QED
  BY <1>2, <1>3, <1>4, <1>5, <1>6, <1>7, EndPromise, OperatorPromise, WordPromise DEF get_token

LEMMA BeginPromise ==
  ASSUME Inv, Promise, BeginToken
  PROVE  Promise'
<1>1. /\ mode = "idle" /\ mode' = "start" /\ from' = position /\ position' = position
      /\ content' = content /\ lookahead' = lookahead
  BY DEF BeginToken
<1>2. Asked' = Asked
  BY <1>1 DEF Asked
<1>3. Scan'
  BY <1>1 DEF Scan, Begun
<1> QED
  BY <1>1, <1>2, <1>3, BufferKept DEF Promise

\* One case for each action.
LEMMA PromiseStep == Inv /\ Promise /\ [Next]_vars => Promise'
<1> SUFFICES ASSUME Inv, Promise, [Next]_vars
             PROVE  Promise'
  OBVIOUS
<1>1. CASE Call \/ Halt \/ UNCHANGED vars
  BY <1>1, IdlePromise DEF Call, Halt, vars
<1>2. CASE BeginToken
  BY <1>2, BeginPromise
<1>3. CASE get_token
  BY <1>3, GetTokenPromise
<1>4. CASE token_peek
  BY <1>4, IdlePromise DEF token_peek, Return
<1>5. CASE token_eat
  BY <1>5, TakePromise DEF token_eat, Return, Full
<1>6. CASE token_lookahead
  BY <1>6, IdlePromise DEF token_lookahead, Return, Exit
<1>7. CASE token_expect
  BY <1>7, IdlePromise, TakePromise DEF token_expect, Return, Exit, Full
<1> QED
  BY <1>1, <1>2, <1>3, <1>4, <1>5, <1>6, <1>7 DEF Next, Serve

-----------------------------------------------------------------------------
(***************************************************************************)
(* Every step is a step of the stream, or one nobody can notice            *)
(***************************************************************************)
\* The tokens ahead of the cursor are those of the buffer, then the next one.
Place(k) == IF k < Len(lookahead) THEN lookahead[k + 1].from ELSE Asked

LEMMA Queue ==
  ASSUME Inv, Promise
  PROVE  \A k \in 0 .. Len(lookahead) : Stream!Ahead(content, Cursor, k) = Place(k)
<1> DEFINE S == {k \in Nat : k <= Len(lookahead) => Stream!Ahead(content, Cursor, k) = Place(k)}
<1>0. Len(lookahead) \in Nat /\ DOMAIN lookahead = 1 .. Len(lookahead) /\ lookahead \in Seq(Tokens)
  BY Numbers
<1>1. 0 \in S
  <2>1. lookahead # <<>> <=> 0 < Len(lookahead)
    BY <1>0
  <2>2. Cursor = Place(0)
    BY <2>1 DEF Cursor, Place, Asked
  <2> QED
    BY <2>2, AheadEquation
<1>2. ASSUME NEW k \in Nat, k \in S
      PROVE  k + 1 \in S
  <2> SUFFICES ASSUME k + 1 <= Len(lookahead)
               PROVE  Stream!Ahead(content, Cursor, k + 1) = Place(k + 1)
    OBVIOUS
  <2>0. k \in Nat
    BY <1>2
  <2>1. k < Len(lookahead) /\ k + 1 \in DOMAIN lookahead /\ lookahead # <<>>
    BY <1>0
  <2>2. Stream!Ahead(content, Cursor, k) = lookahead[k + 1].from
    BY <1>2, <2>1 DEF Place
  <2>3. Stream!Whole(content, lookahead[k + 1].from)
    BY <2>1 DEF Promise, Buffer, Promised
  <2>4. Stream!Ahead(content, Cursor, k + 1) = Stream!ReadAt(content, lookahead[k + 1].from).next
    <3>1. Stream!Ahead(content, Cursor, k + 1) =
            IF Stream!Whole(content, Stream!Ahead(content, Cursor, k))
            THEN Stream!ReadAt(content, Stream!Ahead(content, Cursor, k)).next
            ELSE Stream!Ahead(content, Cursor, k)
      BY <2>0, AheadEquation
    <3> QED
      BY <2>2, <2>3, <3>1
  <2>5. CASE k + 1 < Len(lookahead)
    <3>1. (k + 1) + 1 \in DOMAIN lookahead
      BY <1>0, <2>5
    <3>2. lookahead[(k + 1) + 1].from = Stream!ReadAt(content, lookahead[k + 1].from).next
      BY <2>1, <3>1 DEF Promise, Buffer
    <3> QED
      BY <2>4, <2>5, <3>2 DEF Place
  <2>6. CASE k + 1 = Len(lookahead)
    <3>1. Asked = Stream!ReadAt(content, lookahead[k + 1].from).next
      BY <2>1, <2>6 DEF Promise, Buffer
    <3>2. ~(k + 1 < Len(lookahead))
      BY <1>0, <2>6
    <3> QED
      BY <2>4, <3>1, <3>2 DEF Place
  <2>7. \A L \in Nat : k + 1 <= L => k + 1 < L \/ k + 1 = L
    BY <2>0
  <2> QED
    BY <1>0, <2>5, <2>6, <2>7
<1> HIDE DEF S
<1>3. Nat \subseteq S
  BY <1>1, <1>2, Induction
<1> QED
  BY <1>0, <1>3 DEF S

\* When the buffer is full all its tokens can be read in the stream.
LEMMA FullIsFilled ==
  ASSUME Inv, Promise, Len(lookahead) = Slots
  PROVE  /\ Stream!Filled
         /\ \A n \in 0 .. Slots - 1 :
              lookahead[n + 1] = Stream!ReadAt(content, Stream!Ahead(content, Cursor, n)).token
         /\ Cursor = lookahead[1].from
         /\ lookahead[1] = Stream!ReadAt(content, Cursor).token
<1>1. Slots \in Nat \ {0} /\ DOMAIN lookahead = 1 .. Slots /\ lookahead \in Seq(Tokens)
  BY Numbers
<1>2. ASSUME NEW n \in 0 .. Slots - 1
      PROVE  /\ Stream!Ahead(content, Cursor, n) = lookahead[n + 1].from
             /\ Promised(lookahead[n + 1])
  <2>1. n \in 0 .. Len(lookahead) /\ n < Len(lookahead) /\ n + 1 \in DOMAIN lookahead
    BY <1>1
  <2> QED
    BY <2>1, Queue DEF Place, Promise, Buffer
<1>3. Stream!Filled
  BY <1>2 DEF Stream!Filled, Promised
<1>4. \A n \in 0 .. Slots - 1 :
        lookahead[n + 1] = Stream!ReadAt(content, Stream!Ahead(content, Cursor, n)).token
  BY <1>2 DEF Promised
<1>5. Cursor = lookahead[1].from /\ Promised(lookahead[1])
  <2>1. lookahead # <<>> /\ 1 \in DOMAIN lookahead
    BY <1>1
  <2> QED
    BY <2>1 DEF Cursor, Promise, Buffer
<1> QED
  BY <1>3, <1>4, <1>5 DEF Promised

\* An unknown character stops the process where the stream allows it to.
LEMMA UnknownIsBad ==
  ASSUME Inv, Promise, UnknownOperator
  PROVE  Stream!Bad(content, Stream!Ahead(content, Cursor, Slots - 1))
<1>1. mode = "start" /\ Next_char \in Unknown
  BY DEF UnknownOperator, Scanning
<1>2. /\ position \in Nat /\ Slots \in Nat \ {0} /\ Len(lookahead) \in Nat
      /\ Len(lookahead) < Slots
  BY <1>1, Numbers DEF Inv, Reading
<1>3. Next_char \notin Blank /\ Next_char \notin OneChar
  BY <1>1, Kinds
<1>4. Pair(content, position) \notin {<<"/", "*">>, <<"/", "/">>}
  BY <1>3 DEF Pair, Next_char, OneChar
<1>5. Stream!Start(content, from) = position
  BY <1>1, <1>3, <1>4, StartsHere DEF Promise
<1>6. Stream!Bad(content, from) /\ ~Stream!Whole(content, from)
  BY <1>1, <1>2, <1>5, WholeAt DEF Next_char
<1> DEFINE S == {k \in Nat : Stream!Ahead(content, Cursor, Len(lookahead) + k) = from}
<1>7. 0 \in S
  <2>1. Len(lookahead) \in 0 .. Len(lookahead) /\ ~(Len(lookahead) < Len(lookahead))
        /\ Len(lookahead) + 0 = Len(lookahead)
    BY <1>2
  <2>2. Asked = from
    BY <1>1 DEF Asked
  <2> QED
    BY <2>1, <2>2, Queue DEF Place
<1>8. ASSUME NEW k \in Nat, k \in S
      PROVE  k + 1 \in S
  <2>1. Len(lookahead) + k \in Nat /\ (Len(lookahead) + k) + 1 = Len(lookahead) + (k + 1)
    BY <1>2
  <2>2. Stream!Ahead(content, Cursor, Len(lookahead) + k) = from
    BY <1>8
  <2>3. Stream!Ahead(content, Cursor, (Len(lookahead) + k) + 1) = from
    BY <1>6, <2>1, <2>2, AheadEquation
  <2> QED
    BY <2>1, <2>3
<1> HIDE DEF S
<1>9. Nat \subseteq S
  BY <1>7, <1>8, Induction
<1>10. (Slots - 1) - Len(lookahead) \in Nat
       /\ Len(lookahead) + ((Slots - 1) - Len(lookahead)) = Slots - 1
  BY <1>2
<1> QED
  BY <1>6, <1>9, <1>10 DEF S

\* What leaves the first token of the buffer, or the place it will be asked
\* for at, leaves the cursor.
LEMMA CursorKept ==
  ASSUME Inv, BeginToken \/ get_token \/ UNCHANGED <<scanner, lookahead>>
  PROVE  Cursor' = Cursor
<1>0. lookahead \in Seq(Tokens) /\ Len(lookahead) \in Nat
  BY Numbers
<1>1. Cursor = IF lookahead # <<>> THEN lookahead[1].from ELSE Asked
  BY DEF Cursor, Asked
<1>2. Cursor' = IF lookahead' # <<>> THEN lookahead'[1].from ELSE Asked'
  BY DEF Cursor, Asked
<1>3. ASSUME lookahead' = lookahead, Asked' = Asked
      PROVE  Cursor' = Cursor
  BY <1>1, <1>2, <1>3
<1>4. ASSUME Go_on, mode # "idle", mode' # "idle"
      PROVE  Cursor' = Cursor
  BY <1>3, <1>4 DEF Go_on, Asked
<1>5. ASSUME NEW type, NEW a, NEW b, Deliver(type, a, b), mode # "idle"
      PROVE  Cursor' = Cursor
  <2> DEFINE t == Token(type, from, a, b)
  <2>1. lookahead' = Append(lookahead, t) /\ t.from = from /\ Asked = from
    BY <1>5 DEF Deliver, Token, Asked
  <2> HIDE DEF t
  <2>2. lookahead \in Seq(Tokens \cup {t})
    BY <1>0
  <2>3. lookahead' # <<>> /\ lookahead'[1] = IF lookahead # <<>> THEN lookahead[1] ELSE t
    <3>1. /\ Len(lookahead') = Len(lookahead) + 1 /\ lookahead'[Len(lookahead) + 1] = t
          /\ \A k \in 1 .. Len(lookahead) : lookahead'[k] = lookahead[k]
      BY <1>0, <2>1, <2>2, AppendProperties
    <3>2. lookahead = <<>> => Len(lookahead) = 0
      OBVIOUS
    <3>3. lookahead # <<>> => 1 \in 1 .. Len(lookahead)
      BY <1>0
    <3>4. lookahead' # <<>>
      BY <1>0, <3>1
    <3> QED
      BY <3>1, <3>2, <3>3, <3>4
  <2> QED
    BY <1>1, <1>2, <2>1, <2>3
<1>6. CASE BeginToken
  BY <1>3, <1>6 DEF BeginToken, Asked
<1>7. CASE get_token
  <2>1. CASE EatBlank \/ OpenBlockComment \/ OpenLineComment \/ OpenString \/ OpenWord
    <3>1. mode = "start" /\ mode' # "idle" /\ Go_on
      BY <2>1 DEF EatBlank, OpenBlockComment, OpenLineComment, OpenString, OpenWord, Scanning
    <3> QED
      BY <1>4, <3>1
  <2>2. CASE SkipBlockComment \/ SkipLineComment \/ ReadWord
    <3>1. mode # "idle" /\ mode' # "idle" /\ Go_on
      BY <2>2 DEF SkipBlockComment, SkipLineComment, ReadWord, Scanning
    <3> QED
      BY <1>4, <3>1
  <2>3. CASE EndOfInput
    <3>1. mode # "idle" /\ Deliver("EOF_OR_INVALID", position + 1, position)
      BY <2>3 DEF EndOfInput, Scanning
    <3> QED
      BY <1>5, <3>1
  <2>4. CASE ReadOperator
    <3>1. mode # "idle" /\ \E b : Deliver("OPERATOR", position + 1, b)
      BY <2>4 DEF ReadOperator, Scanning
    <3> QED
      BY <1>5, <3>1
  <2>5. CASE ReadString
    <3>1. mode = "string" /\ ((Go_on /\ mode' = mode) \/ \E type : Deliver(type, first, position))
      BY <2>5 DEF ReadString, Scanning
    <3> QED
      BY <1>4, <1>5, <3>1
  <2>6. CASE EndWord
    <3>1. mode # "idle" /\ \E type : Deliver(type, first, position)
      BY <2>6 DEF EndWord
    <3> QED
      BY <1>5, <3>1
  <2>7. CASE UnknownOperator
    BY <1>3, <2>7 DEF UnknownOperator, scanner, Asked
  <2> QED
    BY <1>7, <2>1, <2>2, <2>3, <2>4, <2>5, <2>6, <2>7 DEF get_token
<1>8. CASE UNCHANGED <<scanner, lookahead>>
  BY <1>3, <1>8 DEF scanner, Asked
<1> QED
  BY <1>6, <1>7, <1>8

LEMMA StreamStep ==
  Inv /\ Promise /\ [Next]_vars => [Stream!StreamNext]_(Stream!stream_vars)
<1> SUFFICES ASSUME Inv, Promise, [Next]_vars
             PROVE  [Stream!StreamNext]_(Stream!stream_vars)
  OBVIOUS
<1>1. ASSUME content' = content, Cursor' = Cursor, answer' = answer, exited' = exited
      PROVE  UNCHANGED Stream!stream_vars
  BY <1>1 DEF Stream!stream_vars
<1>2. CASE Call
  <2>1. Cursor' = Cursor
    BY <1>2, CursorKept DEF Call
  <2>2. Stream!Ask
    BY <1>2, <2>1, SameCharacters DEF Call, Stream!Ask
  <2> QED
    BY <2>2 DEF Stream!StreamNext
<1>3. CASE BeginToken
  <2>1. Cursor' = Cursor
    BY <1>3, CursorKept
  <2> QED
    BY <1>1, <1>3, <2>1 DEF BeginToken
<1>4. CASE get_token /\ ~UnknownOperator
  <2>1. Cursor' = Cursor
    BY <1>4, CursorKept
  <2>2. content' = content /\ answer' = answer /\ exited' = exited
    BY <1>4 DEF get_token, Go_on, Deliver, EatBlank, OpenBlockComment, OpenLineComment,
         OpenString, OpenWord, EndOfInput, ReadOperator, SkipBlockComment, SkipLineComment,
         ReadString, ReadWord, EndWord
  <2> QED
    BY <1>1, <2>1, <2>2
<1>5. CASE UnknownOperator
  <2>1. Cursor' = Cursor
    BY <1>5, CursorKept DEF UnknownOperator
  <2>2. Stream!Fail
    BY <1>5, <2>1, UnknownIsBad DEF UnknownOperator, Scanning, Stream!Fail
  <2> QED
    BY <2>2 DEF Stream!StreamNext
<1>6. ASSUME Len(lookahead) = Slots, ~exited, Exit
      PROVE  Stream!StreamNext
  <2>1. Cursor' = Cursor
    BY <1>6, CursorKept DEF Exit
  <2>2. Stream!Fail
    BY <1>6, <2>1, FullIsFilled DEF Exit, Stream!Fail
  <2> QED
    BY <2>2 DEF Stream!StreamNext
<1>7. ASSUME Len(lookahead) = Slots, ~exited, NEW n \in 0 .. Slots - 1,
             Return(lookahead[n + 1]), lookahead' = lookahead
      PROVE  Stream!StreamNext
  <2>1. Cursor' = Cursor
    BY <1>7, CursorKept DEF Return
  <2>2. Stream!Look(n)
    BY <1>7, <2>1, FullIsFilled DEF Return, Stream!Look
  <2> QED
    BY <2>2 DEF Stream!StreamNext
<1>8. ASSUME Len(lookahead) = Slots, ~exited, Return(lookahead[1]), lookahead' = Tail(lookahead)
      PROVE  Stream!StreamNext
  <2>1. Cursor' = Stream!ReadAt(content, lookahead[1].from).next
    BY <1>8, TakePromise DEF Return
  <2>2. Stream!Take
    BY <1>8, <2>1, FullIsFilled DEF Return, Stream!Take
  <2> QED
    BY <2>2 DEF Stream!StreamNext
<1>9. CASE token_peek
  <2>1. 0 \in 0 .. Slots - 1 /\ 0 + 1 = 1
    BY Numbers
  <2> QED
    BY <1>7, <1>9, <2>1 DEF token_peek, Full
<1>10. CASE token_eat
  BY <1>8, <1>10 DEF token_eat, Full
<1>11. CASE token_lookahead
  <2>1. CASE request.n < Slots /\ Return(lookahead[request.n + 1]) /\ lookahead' = lookahead
    <3>1. request.n \in 0 .. Slots /\ Slots \in Nat
      BY <1>11, AskedPlace, Numbers DEF token_lookahead, Full
    <3>2. request.n \in 0 .. Slots - 1
      BY <2>1, <3>1
    <3> QED
      BY <1>7, <1>11, <2>1, <3>2 DEF token_lookahead, Full
  <2>2. CASE Exit
    BY <1>6, <1>11, <2>2 DEF token_lookahead, Full
  <2> QED
    BY <1>11, <2>1, <2>2 DEF token_lookahead
<1>12. CASE token_expect
  BY <1>6, <1>8, <1>12 DEF token_expect, Full
<1>13. CASE Halt \/ UNCHANGED vars
  <2>1. UNCHANGED <<content, scanner, lookahead, answer, exited>>
    BY <1>13 DEF Halt, vars
  <2>2. Cursor' = Cursor
    BY <2>1, CursorKept
  <2> QED
    BY <1>1, <2>1, <2>2
<1> QED
  BY <1>2, <1>3, <1>4, <1>5, <1>9, <1>10, <1>11, <1>12, <1>13 DEF Next, Serve

LEMMA StreamStart == Init => Stream!StreamInit
BY SameCharacters DEF Init, Cursor, Stream!StreamInit

\* The lexer is the stream: its client sees the tokens of the text one after
\* the other, longest first, comments and blanks left out, and can notice
\* neither that eight of them are read before the first is handed out nor how
\* many characters the scan is ahead (lexer.h:269-427, 84-130).
THEOREM StreamCorrectness == Spec => ReadsTheStream
<1>1. Init => Promise
  BY PromiseInit
<1>2. Inv /\ Promise /\ [Next]_vars => Promise'
  BY PromiseStep
<1>3. Init => Stream!StreamInit
  BY StreamStart
<1>4. Inv /\ Promise /\ [Next]_vars => [Stream!StreamNext]_(Stream!stream_vars)
  BY StreamStep
<1>5. Spec => []Inv
  BY Invariance
<1> QED
  BY <1>1, <1>2, <1>3, <1>4, <1>5, PTL DEF Spec, ReadsTheStream, Stream!StreamSpec
=============================================================================
