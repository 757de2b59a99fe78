-------------------------------- MODULE Ast ---------------------------------
(***************************************************************************)
(* The syntax tree (AST, src/parser.h) as the later passes see it, and the *)
(* symbol tables the parser leaves on it.  A program is the sequence of    *)
(* its top-level statements; names are strings, literals carry no text.    *)
(* A node is named by its path from the root: <<d>> is the d-th top-level  *)
(* statement, <<d, k>> the k-th statement of its block, and a further      *)
(* component picks a child of that statement.                              *)
(*                                                                         *)
(* Blocks inside blocks do not exist (parse_next_statement has no case for *)
(* an open curly); a declaration nested in a block is a symbol of it, and  *)
(* what it declares inside is left out of the symbols below.               *)
(***************************************************************************)
EXTENDS Integers, Sequences

\* The parameter "..." and the node a missing initialiser points to.
Vararg  == "..."
NoValue == [kind |-> "null"]

Identifier(n)     == [kind |-> "identifier", name |-> n]
Number            == [kind |-> "number"]
Text              == [kind |-> "string"]
Dot(base, member) == [kind |-> "dot", left |-> base, member |-> member]
Call(f, args)     == [kind |-> "function_call", name |-> f, arguments |-> args]
Binary(op, l, r)  == [kind |-> "binary", operator |-> op, left |-> l, right |-> r]

Variable(t, n, v) == [kind |-> "variable", type |-> t, name |-> n, value |-> v]
Return(e)         == [kind |-> "return", value |-> e]

Function(n, ps, ret, block) ==
  [kind |-> "function", name |-> n, parameters |-> ps, return_type |-> ret,
   is_extern |-> FALSE, is_entry |-> FALSE, block |-> block]
Extern(n, ps, ret)       == [Function(n, ps, ret, <<>>) EXCEPT !.is_extern = TRUE]
Entry(n, ps, ret, block) == [Function(n, ps, ret, block) EXCEPT !.is_entry = TRUE]
TypeDecl(n, ms) == [kind |-> "type", name |-> n, members |-> ms]

\* Paths: the expression of a variable or a return, the operands of a binary.
NullPath         == <<>>
ValueOf(path)    == path \o <<0>>
LeftOf(path)     == path \o <<1>>
RightOf(path)    == path \o <<2>>

-----------------------------------------------------------------------------
(* The symbol tables: one on the program, one on the block of a function.  *)

\* The statements that enter a symbol, and the name they enter.
IsNamed(s) == s.kind \in {"function", "type", "variable"}
Names(s, name) == IsNamed(s) /\ s.name = name

Locals(source, d) ==
  IF source[d].kind # "function" THEN {}
  ELSE {k \in DOMAIN source[d].block : IsNamed(source[d].block[k])}

LocalVariables(source, d) ==
  {k \in Locals(source, d) : source[d].block[k].kind = "variable"}

BlockSymbols(source, d, name) ==
  {<<d, k>> : k \in {l \in Locals(source, d) : source[d].block[l].name = name}}
ProgramSymbols(source, name) ==
  {<<e>> : e \in {c \in DOMAIN source : Names(source[c], name)}}

\* find_symbol from a statement of the d-th declaration: the symbols of its
\* block hide those of the program.  The result is the symbol's node, or
\* NullPath; builtin types have no symbol.
find_symbol(source, d, name) ==
  LET inner == BlockSymbols(source, d, name)
      outer == ProgramSymbols(source, name)
  IN IF inner # {} THEN CHOOSE p \in inner : TRUE
     ELSE IF outer # {} THEN CHOOSE p \in outer : TRUE
     ELSE NullPath

\* find_symbol from the signature of a declaration: its parent is the program.
find_program_symbol(source, name) ==
  LET outer == ProgramSymbols(source, name)
  IN IF outer # {} THEN CHOOSE p \in outer : TRUE ELSE NullPath

\* What every tree of the parser is: the parameters and the block of a function and
\* the members of a type are lists, and a name is an identifier, never the three dots.
IsList(s) == s \in Seq({s[k] : k \in DOMAIN s})

IsTree(source) ==
  \A d \in DOMAIN source :
    /\ IsNamed(source[d]) => source[d].name # Vararg
    /\ source[d].kind = "function" => IsList(source[d].parameters) /\ IsList(source[d].block)
    /\ source[d].kind = "type" => IsList(source[d].members)

\* The programs insert_symbol lets through: a name must be new to the scope it
\* enters and to the scopes around it at that point of the text.
Accepted(source) ==
  /\ \A d, e \in DOMAIN source :
       IsNamed(source[d]) /\ Names(source[e], source[d].name) => d = e
  /\ \A d \in DOMAIN source : \A k \in Locals(source, d) :
       /\ \A e \in 1 .. d : ~Names(source[e], source[d].block[k].name)
       /\ \A l \in Locals(source, d) :
            source[d].block[l].name = source[d].block[k].name => l = k
=============================================================================
