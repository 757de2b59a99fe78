------------------------------- MODULE Lexer --------------------------------
(***************************************************************************)
(* src/lexer.h: get_token as a scan over single characters, and the token_ *)
(* functions of the parser's interface over a buffer of Slots tokens that  *)
(* is filled before any of them answers.  A step is one round of a loop of *)
(* get_token, the start of a token, or the answer to the client; the       *)
(* client calls whatever it likes, one call at a time.                     *)
(*                                                                         *)
(* The text of a token is the place of its characters.  Of the location    *)
(* only the line is kept; the position get_token was called at stands for  *)
(* the rest of it.                                                         *)
(***************************************************************************)
EXTENDS Characters, FiniteSets

CONSTANTS
  Texts,               \* the files that may be read
  Slots                \* the slots of Lexer_State.lookahead: 8

ASSUME LexerAssumption == Slots \in Nat \ {0} /\ Texts \subseteq Seq(Char)

VARIABLES
  content,             \* the file
  position,            \* Lexer_State.position
  line,                \* Lexer_State.location.line
  lookahead,           \* the tokens in the buffer
  mode,                \* the loop get_token is in, or "idle" between tokens
  from,                \* the position the token being read was asked for at
  first,               \* the first character of its value
  request,             \* the call that is being served
  answer,              \* what the last one returned
  exited               \* whether the process has ended

scanner == <<position, line, mode, from, first>>
vars == <<content, scanner, lookahead, request, answer, exited>>

NoCall == [call |-> "none"]
Modes  == {"idle", "start", "block", "line", "string", "word", "number"}

\* The calls of the interface; a call of token_lookahead may ask for more than
\* there is, token_expect names the type it wants.
Requests == {[call |-> "peek"], [call |-> "eat"]}
            \cup [call : {"lookahead"}, n : 0 .. Slots]
            \cup [call : {"expect"}, type : Types]

Next_char == CharAt(content, position)

TypeOK ==
  /\ content \in Seq(Char)
  /\ position \in 0 .. Len(content)
  /\ line \in Nat \ {0}
  /\ lookahead \in Seq([type : Types, from : Nat, first : Nat, last : Nat])
  /\ Len(lookahead) <= Slots
  /\ mode \in Modes
  /\ from \in 0 .. Len(content)
  /\ first \in Nat
  /\ request \in Requests \cup {NoCall}
  /\ answer \in [type : Types, from : Nat, first : Nat, last : Nat] \cup {NoToken}
  /\ exited \in BOOLEAN

-----------------------------------------------------------------------------
Init == /\ content \in Texts
        /\ position = 0
        /\ line = 1
        /\ lookahead = <<>>
        /\ mode = "idle"
        /\ from = 0
        /\ first = 0
        /\ request = NoCall
        /\ answer = NoToken
        /\ exited = FALSE

Call == /\ ~exited /\ request = NoCall
        /\ request' \in Requests
        /\ answer' = NoToken
        /\ UNCHANGED <<content, scanner, lookahead, exited>>

\* lexer_state_populate_lookahead_buffer: one more token.
BeginToken ==
  /\ ~exited /\ request # NoCall
  /\ mode = "idle" /\ Len(lookahead) < Slots
  /\ mode' = "start"
  /\ from' = position
  /\ UNCHANGED <<content, position, line, first, lookahead, request, answer, exited>>

\* lexer_state_eat_char: at the end of the text nothing is eaten.
Eat == /\ position' = IF position < Len(content) THEN position + 1 ELSE position
       /\ line' = IF Next_char = "\n" THEN line + 1 ELSE line

\* get_token is in this loop, and its next step goes on without a token.
Scanning(m) == ~exited /\ request # NoCall /\ mode = m
Go_on == UNCHANGED <<content, from, lookahead, request, answer, exited>>

\* get_token returns.
Deliver(type, start, last) ==
  /\ lookahead' = Append(lookahead, Token(type, from, start, last))
  /\ mode' = "idle"
  /\ UNCHANGED <<content, from, first, request, answer, exited>>

\* The character is not put back into the line count when it is unread, and
\* position is decremented even when there was nothing to eat.
Unread == /\ position' = IF position < Len(content) THEN position ELSE position - 1
          /\ line' = IF Next_char = "\n" THEN line + 1 ELSE line

EatBlank == /\ Scanning("start")
            /\ Next_char \in Blank
            /\ Eat
            /\ UNCHANGED <<mode, first>> /\ Go_on

\* The star stays where it is: it may be the first half of the closing mark.
OpenBlockComment ==
  /\ Scanning("start")
  /\ Pair(content, position) = <<"/", "*">>
  /\ Eat
  /\ mode' = "block"
  /\ UNCHANGED first /\ Go_on

OpenLineComment ==
  /\ Scanning("start")
  /\ Pair(content, position) = <<"/", "/">>
  /\ position' = position + 2
  /\ mode' = "line"
  /\ UNCHANGED <<line, first>> /\ Go_on

OpenString == /\ Scanning("start")
              /\ Next_char = Quote
              /\ Eat
              /\ first' = position + 2
              /\ mode' = "string"
              /\ Go_on

\* A mutant of OpenWord: the value starts after the character just eaten.
OpenWordLate == /\ Scanning("start")
                /\ Next_char \in Letter \cup Digit
                /\ Eat
                /\ first' = position + 2
                /\ mode' = IF Next_char \in Letter THEN "word" ELSE "number"
                /\ Go_on

OpenWord == /\ Scanning("start")
            /\ Next_char \in Letter \cup Digit
            /\ Eat
            /\ first' = position + 1
            /\ mode' = IF Next_char \in Letter THEN "word" ELSE "number"
            /\ Go_on

\* A mutant of EndOfInput: the end is unread as after a word.
EndOfInputUnread == /\ Scanning("start")
                    /\ Next_char \in Other \cup {EOF}
                    /\ position' = IF position = 0 THEN 0 ELSE position - 1
                    /\ UNCHANGED line
                    /\ Deliver("EOF_OR_INVALID", position + 1, position)

\* The end of the text, or a character no token starts with.
EndOfInput == /\ Scanning("start")
              /\ Next_char \in Other \cup {EOF}
              /\ Eat
              /\ Deliver("EOF_OR_INVALID", position + 1, position)

\* A mutant of ReadOperator: the second character of an operator is not eaten.
ReadOperatorUneaten ==
  /\ Scanning("start")
  /\ Next_char \in OneChar
  /\ Pair(content, position) \notin {<<"/", "*">>, <<"/", "/">>}
  /\ LET length == IF Pair(content, position) \in TwoChars THEN 2 ELSE 1
     IN Deliver("OPERATOR", position + 1, position + length)
  /\ position' = position + 1
  /\ UNCHANGED line

\* Operators of two characters are looked for first.
ReadOperator ==
  /\ Scanning("start")
  /\ Next_char \in OneChar
  /\ Pair(content, position) \notin {<<"/", "*">>, <<"/", "/">>}
  /\ LET length == IF Pair(content, position) \in TwoChars THEN 2 ELSE 1
     IN /\ position' = position + length
        /\ Deliver("OPERATOR", position + 1, position + length)
  /\ UNCHANGED line

UnknownOperator == /\ Scanning("start")
                   /\ Next_char \in Unknown
                   /\ exited' = TRUE
                   /\ UNCHANGED <<content, scanner, lookahead, request, answer>>

\* One round of the loop of a block comment: it has no test for the end.
SkipBlockComment ==
  /\ Scanning("block")
  /\ IF Pair(content, position) = <<"*", "/">>
     THEN position' = position + 2 /\ mode' = "start" /\ UNCHANGED line
     ELSE Eat /\ UNCHANGED mode
  /\ UNCHANGED first /\ Go_on

\* A mutant of SkipLineComment: its newline is not counted.
SkipLineCommentUncounted ==
  /\ Scanning("line")
  /\ position' = IF position < Len(content) THEN position + 1 ELSE position
  /\ mode' = IF Next_char = "\n" THEN "start" ELSE mode
  /\ UNCHANGED <<line, first>> /\ Go_on

\* One round of the loop of a line comment: it has none either.
SkipLineComment ==
  /\ Scanning("line")
  /\ Eat
  /\ mode' = IF Next_char = "\n" THEN "start" ELSE mode
  /\ UNCHANGED first /\ Go_on

\* A mutant of ReadString: the loop has no test for the end.
ReadStringOpen ==
  /\ Scanning("string")
  /\ Eat
  /\ IF Next_char = Quote THEN Deliver("STRING", first, position)
     ELSE UNCHANGED <<mode, first>> /\ Go_on

ReadString ==
  /\ Scanning("string")
  /\ Eat
  /\ IF Next_char = Quote    THEN Deliver("STRING", first, position)
     ELSE IF Next_char = EOF THEN Deliver("EOF_OR_INVALID", first, position)
     ELSE UNCHANGED <<mode, first>> /\ Go_on

\* The characters a word or a number goes on with.
Continues == IF mode = "word" THEN Letter \cup Digit ELSE Digit

ReadWord == /\ mode \in {"word", "number"} /\ Scanning(mode)
            /\ Next_char \in Continues
            /\ Eat
            /\ UNCHANGED <<mode, first>> /\ Go_on

EndWord ==
  /\ mode \in {"word", "number"} /\ Scanning(mode)
  /\ Next_char \notin Continues
  /\ Unread
  /\ Deliver(IF mode = "number" THEN "NUMBER" ELSE WordType(SubSeq(content, first, position)),
             first, position)

get_token == \/ EatBlank \/ OpenBlockComment \/ OpenLineComment \/ OpenString
             \/ OpenWord \/ EndOfInput \/ ReadOperator \/ UnknownOperator
             \/ SkipBlockComment \/ SkipLineComment \/ ReadString \/ ReadWord \/ EndWord

-----------------------------------------------------------------------------
\* The call returns, once the buffer is full.
Full(call) == /\ ~exited
              /\ request.call = call
              /\ Len(lookahead) = Slots
Return(token) == /\ answer' = token
                 /\ request' = NoCall
                 /\ UNCHANGED <<content, scanner, exited>>
Exit == /\ exited' = TRUE
        /\ UNCHANGED <<content, scanner, lookahead, request, answer>>

token_peek == /\ Full("peek")
              /\ Return(lookahead[1])
              /\ UNCHANGED lookahead

\* A mutant of token_eat: the first token is handed out and the last one dropped.
token_eat_last == /\ Full("eat")
                  /\ Return(lookahead[1])
                  /\ lookahead' = SubSeq(lookahead, 1, Slots - 1)

token_eat == /\ Full("eat")
             /\ Return(lookahead[1])
             /\ lookahead' = Tail(lookahead)

token_lookahead == /\ Full("lookahead")
                   /\ \/ /\ request.n < Slots
                         /\ Return(lookahead[request.n + 1])
                         /\ UNCHANGED lookahead
                      \/ request.n >= Slots /\ Exit

token_expect == /\ Full("expect")
                /\ \/ /\ lookahead[1].type = request.type
                      /\ Return(lookahead[1])
                      /\ lookahead' = Tail(lookahead)
                   \/ lookahead[1].type # request.type /\ Exit

Serve == BeginToken \/ get_token \/ token_peek \/ token_eat \/ token_lookahead \/ token_expect

Halt == exited /\ UNCHANGED vars

Next == Call \/ Serve \/ Halt

\* One thread: what the lexer is asked it works on; nobody has to ask.
Spec == Init /\ [][Next]_vars /\ WF_vars(Serve)
-----------------------------------------------------------------------------
(***************************************************************************)
(* Properties                                                              *)
(***************************************************************************)
Newlines(p) == Cardinality({k \in 1 .. p : content[k] = "\n"})

\* The values of the tokens lie inside the text, so that String_new copies
\* nothing else, and a value is never read with a negative length; nothing is
\* unread at the start of the text (lexer.h:307-327).
ValuesInsideText ==
  /\ \A k \in DOMAIN lookahead :
       /\ lookahead[k].first \in 1 .. Len(content) + 1
       /\ lookahead[k].last \in lookahead[k].first - 1 .. Len(content)
  /\ mode \in {"word", "number"} => first \in 1 .. position

\* The tokens in the buffer are in the order of the text, each read from where
\* the one before it ended; only the last character of the text can be part
\* of two of them (lexer.h:322, 338).
TokensInOrder ==
  \A k \in 1 .. Len(lookahead) - 1 :
    LET a == lookahead[k]  b == lookahead[k + 1]
    IN /\ a.from <= b.from
       /\ \/ a.last <= b.from
          \/ a.last = Len(content) /\ a.type \in {"IDENTIFIER", "KEYWORD", "NUMBER"}
             /\ b.from = Len(content) - 1

\* Once the end of the text has been read nothing but the end follows: the
\* parser sees it again and again, as EndOfProgram and NullStatement of the
\* parser rely on; an invalid character in the middle has no such effect.
EndIsFinal ==
  \A k \in DOMAIN lookahead : lookahead[k].type = "EOF_OR_INVALID" /\ lookahead[k].from = Len(content) =>
    /\ position = Len(content)
    /\ \A j \in k .. Len(lookahead) : lookahead[j].type = "EOF_OR_INVALID"

\* The line of a message is never before the line read, and never more than
\* twice as far: a newline right after a word is counted when it is unread and
\* again when it is read.  Where no word ends a line the count is exact.
WordBeforeNewline ==
  \E k \in 1 .. Len(content) - 1 : content[k] \in Letter \cup Digit /\ content[k + 1] = "\n"

LineIsNear ==
  /\ Newlines(position) < line
  /\ line <= 2 * Newlines(Len(content)) + 1
  /\ ~WordBeforeNewline => line = Newlines(position) + 1

\* A call is answered or ends the process, unless the text ends inside a
\* comment: the loops over comments are the only ones that do not look for the
\* end (lexer.h:284-298).
InOpenComment == mode \in {"block", "line"} /\ position = Len(content)

CallsAreAnswered == (request # NoCall) ~> (request = NoCall \/ exited \/ InOpenComment)

\* The lexer keeps the promise of TokenStream: neither the buffer nor the scan
\* that runs ahead of the client can be noticed.
Cursor == IF lookahead # <<>> THEN lookahead[1].from
          ELSE IF mode # "idle" THEN from ELSE position

Stream == INSTANCE TokenStream WITH cursor <- Cursor

ReadsTheStream == Stream!StreamSpec
=============================================================================
