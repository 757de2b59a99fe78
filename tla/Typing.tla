------------------------------- MODULE Typing -------------------------------
(***************************************************************************)
(* generate_thir_from_ast (src/typer.c:29-228): the THIR of one node of a  *)
(* syntax tree, made of the trees of its children, which are made before   *)
(* it (done).  It reads and extends the type table and the one list of     *)
(* symbols that all functions share, and ends with the tree, with a        *)
(* message and exit, or on a null pointer.                                 *)
(*                                                                         *)
(* An environment holds the types, the symbols, the outcome so far ("ok",  *)
(* the message the process exits with, or "crash") and the tree made last. *)
(***************************************************************************)
EXTENDS Ast, Types, SequencesExt

NoTree == [kind |-> "null"]

Env(types, symbols) == [types |-> types, symbols |-> symbols, outcome |-> "ok",
                        thir |-> NoTree]

\* find_thir_symbol: the first symbol of that name, whoever declared it.
SymbolsOf(symbols, name) == {k \in DOMAIN symbols : symbols[k].name = name}
find_thir_symbol(symbols, name) == symbols[First(SymbolsOf(symbols, name))].thir

Result(env, thir)  == [env EXCEPT !.thir = thir]
Exit(env, message) == [env EXCEPT !.outcome = message]
Crash(env)         == Exit(env, "crash")

Declare(env, name, thir) ==
  [env EXCEPT !.thir = thir, !.symbols = Append(@, [name |-> name, thir |-> thir])]

\* What base_type->$struct.members reads: a builtin type is all zeroes; of a
\* function type it takes the pointer to the parameters for a length.
MemberType(types, id, name) ==
  LET type == get_type(types, id)
  IN IF type.kind = "struct" THEN find_member(type, name) ELSE NoType
MembersUnreadable(types, id) ==
  LET type == get_type(types, id)
  IN type.kind = "function" /\ type.parameters # <<>>

\* What fn_type->$function.$return reads: of a struct, the size of a member,
\* which is no type's id in a table of fewer than 24 types.
SizeOfMember == 24
ReturnType(types, id) ==
  LET type == get_type(types, id)
  IN CASE type.kind = "function" -> type.return
       [] type.kind = "struct"   -> SizeOfMember
       [] OTHER                  -> VOID

-----------------------------------------------------------------------------
(* The calls of generate_thir_from_ast on the way down.                     *)

\* A mutant of Children: the loop over a block ends one statement short.
ChildrenButTheLast(ast) ==
  CASE ast.kind = "dot"                    -> <<ast.left>>
    [] ast.kind = "function_call"          -> ast.arguments
    [] ast.kind = "binary"                 -> <<ast.left, ast.right>>
    [] ast.kind \in {"return", "variable"} -> IF ast.value = NoValue THEN <<>> ELSE <<ast.value>>
    [] ast.kind = "function"               -> SubSeq(ast.block, 1, Len(ast.block) - 1)
    [] OTHER                               -> <<>>

\* What is typed before a node, in this order.
Children(ast) ==
  CASE ast.kind = "dot"                    -> <<ast.left>>
    [] ast.kind = "function_call"          -> ast.arguments
    [] ast.kind = "binary"                 -> <<ast.left, ast.right>>
    [] ast.kind \in {"return", "variable"} -> IF ast.value = NoValue THEN <<>> ELSE <<ast.value>>
    [] ast.kind = "function"               -> ast.block
    [] OTHER                               -> <<>>

\* What is looked up before the children are typed, the callee of a call and the
\* type of a variable, can end the process there.  Later it is found again: both
\* lists only grow, and the first of a name is taken.
Objection(ast, types, symbols) ==
  CASE ast.kind = "function_call" /\ SymbolsOf(symbols, ast.name) = {} -> "use of undeclared function"
    [] ast.kind = "variable" /\ find_type(types, ast.type) = NoType    -> "crash"
    [] OTHER                                                           -> "ok"

-----------------------------------------------------------------------------
(* The trees, on the way up.                                               *)

TypedIdentifier(ast, env) ==
  IF SymbolsOf(env.symbols, ast.name) = {} THEN Crash(env)
  ELSE LET resolved == find_thir_symbol(env.symbols, ast.name)
       IN Result(env, [kind |-> "identifier", type |-> resolved.type, name |-> ast.name,
                       resolved |-> resolved])

TypedDot(ast, done, env) ==
  LET base == done[1]
  IN IF base.type >= Len(env.types) \/ MembersUnreadable(env.types, base.type)
     THEN Crash(env)
     ELSE LET member == MemberType(env.types, base.type, ast.member)
          IN IF member = NoType THEN Exit(env, "unable to find member")
             ELSE Result(env, [kind |-> "member_access", type |-> member, base |-> base,
                               member |-> ast.member])

TypedCall(ast, done, env) ==
  LET function == find_thir_symbol(env.symbols, ast.name)
  IN Result(env, [kind |-> "call", type |-> ReturnType(env.types, function.type),
                  arguments |-> done, function |-> function])

TypedBinary(ast, done, env) ==
  Result(env, [kind |-> "binary", type |-> done[1].type, operator |-> ast.operator,
               left |-> done[1], right |-> done[2]])

\* The value of a return or a variable, if it has one.
ValueIn(done) == IF done = <<>> THEN NoTree ELSE done[1]

TypedReturn(done, env) ==
  Result(env, [kind |-> "return", type |-> VOID, expression |-> ValueIn(done)])

\* A parameter of a type that is not in the table (yet) is made void.
ParameterType(types, name) ==
  IF find_type(types, name) = NoType THEN VOID ELSE find_type(types, name)

IsVariadic(function) == Vararg \in Range(function.parameters)

\* Where the dots stand in the list of parameters: the parser lets them stand anywhere.
VarargPlaces(function) == {k \in DOMAIN function.parameters : function.parameters[k] = Vararg}
NamedParameters(function) ==
  FlattenSeq([k \in DOMAIN function.parameters |->
    IF function.parameters[k] = Vararg THEN <<>> ELSE <<function.parameters[k]>>])

\* The block was first, now the signature: the parameters are no symbols, and the
\* function is one only from here on.
TypedFunction(ast, done, env) ==
  LET named == NamedParameters(ast)
      types == [k \in DOMAIN named |-> ParameterType(env.types, named[k])]
      ret   == find_type(env.types, ast.return_type)
      made  == create_or_find_function_type(env.types, ret, types, IsVariadic(ast))
  IN IF ret = NoType THEN Crash(env)
     ELSE Declare([env EXCEPT !.types = made.types], ast.name,
                  [kind |-> "function", type |-> made.id, name |-> ast.name,
                   parameters |-> types, varargs |-> VarargPlaces(ast),
                   is_extern |-> ast.is_extern, is_entry |-> ast.is_entry,
                   block |-> done])

\* The struct is in the table before its members are looked up: it finds itself.
TypedType(ast, env) ==
  LET id     == NextId(env.types)
      opened == Append(env.types, Struct(ast.name, <<>>))
      member == [k \in DOMAIN ast.members |-> find_type(opened, ast.members[k])]
  IN IF \E k \in DOMAIN member : member[k] = NoType THEN Crash(env)
     ELSE Declare([env EXCEPT !.types = Append(@, Struct(ast.name,
                     [k \in DOMAIN member |-> [name |-> k, type |-> member[k]]]))],
                  ast.name, [kind |-> "type", type |-> id, name |-> ast.name])

TypedVariable(ast, done, env) ==
  LET expected == find_type(env.types, ast.type)
  IN IF done # <<>> /\ done[1].type # expected
     THEN Exit(env, "invalid type in variable declaration")
     ELSE Declare(env, ast.name, [kind |-> "variable", type |-> expected, name |-> ast.name,
                                  value |-> ValueIn(done)])

Typed(ast, done, env) ==
  CASE ast.kind = "identifier"    -> TypedIdentifier(ast, env)
    [] ast.kind = "number"        -> Result(env, [kind |-> "number", type |-> I32])
    [] ast.kind = "string"        -> Result(env, [kind |-> "string", type |-> STRING_TYPE])
    [] ast.kind = "dot"           -> TypedDot(ast, done, env)
    [] ast.kind = "function_call" -> TypedCall(ast, done, env)
    [] ast.kind = "binary"        -> TypedBinary(ast, done, env)
    [] ast.kind = "return"        -> TypedReturn(done, env)
    [] ast.kind = "function"      -> TypedFunction(ast, done, env)
    [] ast.kind = "type"          -> TypedType(ast, env)
    [] ast.kind = "variable"      -> TypedVariable(ast, done, env)
    [] OTHER                      -> Result(env, NoTree)

-----------------------------------------------------------------------------
\* The syntax tree at a path; graph.c goes down to the operands of a value.
Child(ast, step) == CASE step = 0 -> ast.value [] step = 1 -> ast.left [] step = 2 -> ast.right

AstAt(source, path) ==
  LET outer     == source[path[1]]
      inner     == outer.block[path[2]]
      value     == Child(inner, path[3])
      operand   == Child(value, path[4])
  IN CASE Len(path) = 1 -> outer
       [] Len(path) = 2 -> inner
       [] Len(path) = 3 -> value
       [] Len(path) = 4 -> operand

\* What every node of a tree of the parser is like: only blocks hold declarations,
\* and "" is the name of none.
IsSyntax(ast) ==
  /\ IsList(Children(ast))
  /\ ast.kind # "function" => \A child \in Range(Children(ast)) : ~IsNamed(child)
  /\ IsNamed(ast) => ast.name # ""
  /\ ast.kind = "type" => IsList(ast.members)
=============================================================================
