------------------------------- MODULE Parser -------------------------------
(***************************************************************************)
(* parse_program (src/main.c:19-26, src/parser.c): the syntax tree of a    *)
(* sequence of tokens.  The parsing functions call each other; calls is    *)
(* the stack of the active ones, each with the node that it fills in, and  *)
(* value the expression that parse_postfix_expression has so far.          *)
(*                                                                         *)
(* Behind the text the lexer returns an invalid token for ever; one in the *)
(* midst of it is an end, too, since no token is eaten there.  Literals    *)
(* have no text; the names of parameters and members are kept here, though *)
(* no later pass reads them.                                               *)
(***************************************************************************)
EXTENDS Ast, SequencesExt

CONSTANTS
  Texts,               \* the sequences of tokens the lexer may produce
  MaxNulls             \* how many null statements a block is filled with

Token(type)     == [kind |-> "token", type |-> type, value |-> type]
Id(name)        == [kind |-> "token", type |-> "identifier", value |-> name]
Operator(op)    == [kind |-> "token", type |-> "operator", value |-> op]
Invalid         == Token("EOF_OR_INVALID")

\* Names and operators have a text: a name is not empty, and no dots.
IsToken(token) ==
  /\ token = [kind |-> "token", type |-> token.type, value |-> token.value]
  /\ token.type \notin {"identifier", "operator"} => token.value = token.type
  /\ token.type = "identifier" => token.value \notin {"", Vararg}
  /\ token # Invalid

ASSUME TextsAssumption ==
  /\ MaxNulls \in Nat
  /\ \A ts \in Texts : /\ ts \in Seq({ts[k] : k \in DOMAIN ts})
                       /\ \A k \in DOMAIN ts : IsToken(ts[k])

VARIABLES
  text,                \* the whole input
  tokens,              \* what is left of it
  calls,               \* the active calls of parsing functions, the innermost last
  value,               \* the expression to the left of the next dot, or NoValue
  outcome              \* "parsing", "done", or the message of the exit

vars == <<text, tokens, calls, value, outcome>>

\* A call, the node it works on and the symbol table of that; of expressions,
\* parse_binary_expression has a call and the functions below it do without.
Active(at, node) == [at |-> at, node |-> node, symbols |-> {}]
Expression       == Active("expression", NoValue)
Caller           == Last(Front(calls))
Outer            == Front(Front(calls))

Program == [kind |-> "program", block |-> <<>>]
FunctionNode(name) ==
  [kind |-> "function", name |-> name, parameters |-> <<>>, names |-> <<>>, return_type |-> "void",
   is_extern |-> FALSE, is_entry |-> FALSE, block |-> <<>>]
TypeNode(name) == [kind |-> "type", name |-> name, members |-> <<>>, names |-> <<>>]

Init == /\ text \in Texts
        /\ tokens = text
        /\ calls = <<Active("block", Program)>>
        /\ value = NoValue
        /\ outcome = "parsing"

-----------------------------------------------------------------------------
(* The lexer's functions. *)
token_lookahead(n) == IF n < Len(tokens) THEN tokens[n + 1] ELSE Invalid
token_peek         == token_lookahead(0)
Eaten(n)           == SubSeq(tokens, n + 1, Len(tokens))

Ahead(type)    == token_peek.type = type
Follows(types) == \A k \in DOMAIN types : token_lookahead(k - 1).type = types[k]

Exit(message) == outcome' = message /\ UNCHANGED <<text, tokens, calls, value>>

\* n tokens are eaten, and these calls are active then; or an operand was read.
Read(n, stack) == /\ calls' = stack
                  /\ tokens' = Eaten(n)
                  /\ value' = NoValue
                  /\ UNCHANGED <<text, outcome>>
Got(n, node)   == /\ value' = node
                  /\ tokens' = Eaten(n)
                  /\ UNCHANGED <<text, calls, outcome>>

\* token_expect, for one token after the other.
Expect(types, stack) ==
  IF Follows(types) THEN Read(Len(types), stack) ELSE Exit("expected another token")

-----------------------------------------------------------------------------
(* Statements and symbols. *)

\* The statement joins the list of the innermost block.
Joined(stack, statement) ==
  Append(Front(stack), [Last(stack) EXCEPT !.node.block = Append(@, statement)])

\* find_symbol and insert_symbol: in the innermost block and those around it.
Declared(name) == \E k \in DOMAIN calls : name \in calls[k].symbols
Entered(stack, name) ==
  Append(Front(stack), [Last(stack) EXCEPT !.symbols = @ \cup {name}])

\* A declaration ends with these tokens; its name must be new.
Declare(types, stack, node) ==
  IF ~Follows(types) THEN Exit("expected another token")
  ELSE IF Declared(node.name) THEN Exit("re-declaration of symbol")
  ELSE Read(Len(types), Entered(Joined(stack, node), node.name))

In(at) == outcome = "parsing" /\ Last(calls).at = at

\* parse_next_statement sees a token of this type.
AtStatement(type) == In("block") /\ Ahead(type)

ReturnStatement ==
  /\ AtStatement("return")
  /\ IF Follows(<<"return", ";">>) THEN Read(2, Joined(calls, Return(NoValue)))
     ELSE Read(1, calls \o <<Active("return", Return(NoValue)), Expression>>)

AtDeclaration == Follows(<<"identifier", "identifier">>)

\* A mutant of VariableDeclaration: the name is not entered.
VariableDeclarationUnnamed ==
  /\ AtStatement("identifier") /\ AtDeclaration
  /\ LET variable == Variable(tokens[1].value, tokens[2].value, NoValue)
     IN IF token_lookahead(2) = Operator("=")
        THEN Read(3, calls \o <<Active("variable", variable), Expression>>)
        ELSE Expect(<<"identifier", "identifier", ";">>, Joined(calls, variable))

VariableDeclaration ==
  /\ AtStatement("identifier") /\ AtDeclaration
  /\ LET variable == Variable(tokens[1].value, tokens[2].value, NoValue)
     IN IF token_lookahead(2) = Operator("=")
        THEN Read(3, calls \o <<Active("variable", variable), Expression>>)
        ELSE Declare(<<"identifier", "identifier", ";">>, calls, variable)

\* A mutant of ExpressionStatement: it does not go on.
ExpressionStatementAgain ==
  AtStatement("identifier") /\ ~AtDeclaration /\ UNCHANGED vars

\* An assignment is looked for after the expression too, where there is never
\* one: parse_binary_expression takes it for an operator.
ExpressionStatement ==
  /\ AtStatement("identifier") /\ ~AtDeclaration
  /\ Read(0, calls \o <<Active("statement", NoValue), Expression>>)

\* A list goes on after a comma; it may also end there.
Item(n, stack) ==
  CASE token_lookahead(n).type = ")" -> Read(n, stack)
    [] token_lookahead(n).type = "," -> Read(n + 1, stack)
    [] OTHER                         -> Exit("expected another token")

\* The innermost call with another node.
With(node) == Append(Front(calls), [Last(calls) EXCEPT !.node = node])

FunctionDeclaration ==
  /\ AtStatement("fn")
  /\ Expect(<<"fn", "identifier", "(">>, Append(calls, Active("parameters", FunctionNode(tokens[2].value))))

\* A parameter may go without a name, "..." has none.
Parameter ==
  /\ In("parameters") /\ ~Ahead(")")
  /\ LET f == Last(calls).node
         More(type, name) == With([f EXCEPT !.parameters = Append(@, type), !.names = Append(@, name)])
     IN CASE Follows(<<".", ".", ".">>)                -> Item(3, More(Vararg, ""))
          [] Follows(<<"identifier", "identifier">>)   -> Item(2, More(tokens[1].value, tokens[2].value))
          [] Ahead("identifier") /\ ~AtDeclaration     -> Item(1, More(tokens[1].value, ""))
          [] OTHER                                     -> Exit("expected another token")

EndParameters ==
  /\ In("parameters") /\ Ahead(")")
  /\ LET f == Last(calls).node
         Signature(type) == Append(Front(calls), Active("attributes", [f EXCEPT !.return_type = type]))
     IN IF Follows(<<")", "identifier">>) THEN Read(2, Signature(tokens[2].value))
        ELSE Read(1, Signature("void"))

Attribute ==
  /\ In("attributes") /\ Ahead("@")
  /\ LET f == Last(calls).node
     IN CASE ~Follows(<<"@", "identifier">>)   -> Exit("expected another token")
          [] token_lookahead(1) = Id("extern") -> Read(2, With([f EXCEPT !.is_extern = TRUE]))
          [] token_lookahead(1) = Id("entry")  -> Read(2, With([f EXCEPT !.is_entry = TRUE]))
          [] OTHER                             -> Exit("unexpected identifier for '@...'")

\* The name is entered before the block is read: what the block declares must
\* differ from it.
EndSignature ==
  /\ In("attributes") /\ ~Ahead("@")
  /\ LET f == Last(calls).node
     IN IF Declared(f.name) THEN Exit("re-declaration of symbol")
        ELSE IF f.is_extern THEN Expect(<<";">>, Entered(Joined(Front(calls), f), f.name))
        ELSE Expect(<<"{">>, Append(Entered(Front(calls), f.name), Active("block", f)))

TypeDeclaration ==
  /\ AtStatement("type")
  /\ Expect(<<"type", "identifier", "(">>, Append(calls, Active("members", TypeNode(tokens[2].value))))

Member ==
  /\ In("members") /\ ~Ahead(")")
  /\ IF Follows(<<"identifier", "identifier">>)
     THEN Item(2, With([Last(calls).node EXCEPT !.members = Append(@, tokens[1].value),
                                                !.names = Append(@, tokens[2].value)]))
     ELSE Exit("expected another token")

EndMembers ==
  In("members") /\ Ahead(")") /\ Declare(<<")", ";">>, Front(calls), Last(calls).node)

\* A mutant of CloseBlock: the block loses its first statement.
CloseBlockShort ==
  /\ AtStatement("}") /\ Len(calls) > 1
  /\ Read(1, Joined(Front(calls), [Last(calls).node EXCEPT !.block = SubSeq(@, 2, Len(@))]))

\* The end of parse_block: the function is a statement of the block around it.
CloseBlock ==
  AtStatement("}") /\ Len(calls) > 1 /\ Read(1, Joined(Front(calls), Last(calls).node))

\* No statement starts with this token.
UnexpectedToken ==
  /\ In("block")
  /\ token_peek.type \notin {"return", "identifier", "fn", "type", "EOF_OR_INVALID"}
  /\ ~(Ahead("}") /\ Len(calls) > 1)
  /\ Exit("Unexpected token")

\* At the end of the input the program is complete ...
EndOfProgram ==
  /\ AtStatement("EOF_OR_INVALID") /\ Len(calls) = 1
  /\ outcome' = "done"
  /\ UNCHANGED <<text, tokens, calls, value>>

\* ... but a block waits for its curly, and takes a null statement each time
\* around (MaxNulls of them are counted).
NullStatement ==
  /\ AtStatement("EOF_OR_INVALID") /\ Len(calls) > 1
  /\ calls' = IF Cardinality({k \in DOMAIN Last(calls).node.block : Last(calls).node.block[k] = NoValue}) < MaxNulls
              THEN Joined(calls, NoValue) ELSE calls
  /\ UNCHANGED <<text, tokens, value, outcome>>

parse_next_statement ==
  \/ ReturnStatement \/ VariableDeclaration \/ ExpressionStatement
  \/ FunctionDeclaration \/ Parameter \/ EndParameters \/ Attribute \/ EndSignature \/ CloseBlock
  \/ TypeDeclaration \/ Member \/ EndMembers
  \/ UnexpectedToken \/ EndOfProgram \/ NullStatement

-----------------------------------------------------------------------------
(* Expressions. *)
AtOperand    == In("expression") /\ value = NoValue
AfterOperand == In("expression") /\ value # NoValue

Leaf(token) == CASE token.type = "string"     -> Text
                 [] token.type = "number"     -> Number
                 [] token.type = "identifier" -> Identifier(token.value)

\* parse_expression
Operand ==
  /\ AtOperand /\ ~Follows(<<"identifier", "(">>)
  /\ IF token_peek.type \in {"string", "number", "identifier"} THEN Got(1, Leaf(tokens[1]))
     ELSE Exit("Unexpected token in expression")

FunctionCall ==
  /\ AtOperand /\ Follows(<<"identifier", "(">>)
  /\ Read(2, Append(calls, Active("arguments", Call(tokens[1].value, <<>>))))

Argument == In("arguments") /\ ~Ahead(")") /\ Read(0, Append(calls, Expression))

EndArguments ==
  /\ In("arguments") /\ Ahead(")")
  /\ calls' = Front(calls) /\ value' = Last(calls).node /\ tokens' = Eaten(1)
  /\ UNCHANGED <<text, outcome>>

\* parse_postfix_expression
DotExpression ==
  /\ AfterOperand /\ Ahead(".")
  /\ IF Follows(<<".", "identifier">>) THEN Got(2, Dot(value, tokens[2].value))
     ELSE Exit("expected another token")

\* What parse_binary_expression has for its left side when an operand was read.
Left == IF Last(calls).node = NoValue THEN value ELSE [Last(calls).node EXCEPT !.right = value]

\* Every binary operator, the assignment among them, takes what was read so
\* far for its left operand: there is no precedence.
BinaryExpression ==
  AfterOperand /\ Ahead("operator") /\ Read(1, With(Binary(tokens[1].value, Left, NoValue)))

\* parse_binary_expression returns, to the caller that then goes on like this.
Returns(to) == AfterOperand /\ ~Ahead(".") /\ ~Ahead("operator") /\ Caller.at = to

EndArgument ==
  /\ Returns("arguments")
  /\ Item(0, Append(Outer, [Caller EXCEPT !.node.arguments = Append(@, Left)]))

EndReturn    == Returns("return") /\ Expect(<<";">>, Joined(Outer, Return(Left)))
EndVariable  == Returns("variable") /\ Declare(<<";">>, Outer, [Caller.node EXCEPT !.value = Left])
EndStatement == Returns("statement") /\ Expect(<<";">>, Joined(Outer, Left))

parse_binary_expression ==
  \/ Operand \/ FunctionCall \/ Argument \/ EndArguments \/ DotExpression \/ BinaryExpression
  \/ EndArgument \/ EndReturn \/ EndVariable \/ EndStatement

Halt == outcome # "parsing" /\ UNCHANGED vars

Next == parse_next_statement \/ parse_binary_expression \/ Halt

\* One thread, which nothing blocks.
Spec == Init /\ [][Next]_vars /\ WF_vars(Next)
-----------------------------------------------------------------------------
(***************************************************************************)
(* Properties                                                              *)
(***************************************************************************)
program == calls[1].node.block

ParameterPieces(f) == FlattenSeq([k \in DOMAIN f.parameters |->
  IF f.parameters[k] = Vararg THEN <<Token("."), Token("."), Token(".")>>
  ELSE <<Id(f.parameters[k])>> \o (IF f.names[k] = "" THEN <<>> ELSE <<Id(f.names[k])>>)])
MemberPieces(t) == FlattenSeq([k \in DOMAIN t.members |-> <<Id(t.members[k]), Id(t.names[k])>>])

\* A statement that is an expression has its semicolon from the block.
StatementPieces(s) ==
  CASE s.kind = "null" -> <<>>
    [] s.kind \in {"identifier", "function_call", "dot", "binary", "number", "string"} -> <<s, Token(";")>>
    [] OTHER -> <<s>>
BlockPieces(block) == FlattenSeq([k \in DOMAIN block |-> StatementPieces(block[k])])

SignaturePieces(f) ==
  <<Token("fn"), Id(f.name), Token("(")>> \o ParameterPieces(f) \o <<Token(")")>>
  \o (IF f.return_type = "void" THEN <<>> ELSE <<Id(f.return_type)>>)

\* What a node is written with: tokens, and the nodes below it.
Pieces(t) ==
  CASE t.kind = "token"         -> <<t>>
    [] t.kind = "identifier"    -> <<Id(t.name)>>
    [] t.kind = "number"        -> <<Token("number")>>
    [] t.kind = "string"        -> <<Token("string")>>
    [] t.kind = "dot"           -> <<t.left, Token("."), Id(t.member)>>
    [] t.kind = "function_call" -> <<Id(t.name), Token("(")>> \o t.arguments \o <<Token(")")>>
    [] t.kind = "binary"        -> <<t.left, Operator(t.operator), t.right>>
    [] t.kind = "return"        -> <<Token("return")>> \o (IF t.value = NoValue THEN <<>> ELSE <<t.value>>)
                                   \o <<Token(";")>>
    [] t.kind = "variable"      -> <<Id(t.type), Id(t.name)>>
                                   \o (IF t.value = NoValue THEN <<>> ELSE <<Operator("="), t.value>>)
                                   \o <<Token(";")>>
    [] t.kind = "type"          -> <<Token("type"), Id(t.name), Token("(")>> \o MemberPieces(t)
                                   \o <<Token(")"), Token(";")>>
    [] t.kind = "function"      -> SignaturePieces(t)
                                   \o (IF t.is_extern THEN <<Token(";")>>
                                       ELSE <<Token("{")>> \o BlockPieces(t.block) \o <<Token("}")>>)

\* The nodes in a text are written out, n levels down.
Unfold(items) == FlattenSeq([k \in DOMAIN items |-> Pieces(items[k])])
Written(items, n) ==
  LET level[m \in Nat] == IF m = 0 THEN items ELSE Unfold(level[m - 1]) IN level[n]

\* What a tree cannot tell apart: whether a list ends with a comma, whether a
\* function returns "void" or has no return type, and the order of attributes.
Forgotten == {Token(","), Token("@"), Id("extern"), Id("entry"), Id("void")}
Kept(ts) == FlattenSeq([k \in DOMAIN ts |-> IF ts[k] \in Forgotten THEN <<>> ELSE <<ts[k]>>])

\* A program that was read is, token by token, the text it was read from but
\* for what a tree cannot tell: no statement, operand, argument or parameter is
\* lost, doubled or moved while tokens and nodes go from one parsing function
\* to the other (parser.c:4-242).
ReadsWhatIsWritten ==
  outcome = "done" => Kept(Written(BlockPieces(program), Len(text))) = Kept(text)

\* The programs that are let through have the scopes that the dependency graph
\* is built on, and the lists that its handlers walk (DepGraph, ProgramsAssumption;
\* parser.c:80-169, 244-260).
ReadProgramsAreAccepted == outcome = "done" => Accepted(program) /\ IsTree(program)

Count(type) == Cardinality({k \in DOMAIN text : text[k].type = type})

\* When every block is closed, the parser comes to an end: it is done or it
\* reports an error, whatever else is wrong with the text (parser.c:171-242).
ClosedTextsEnd == (Count("{") <= Count("}")) ~> outcome # "parsing"
=============================================================================
