------------------------------ MODULE Compiler ------------------------------
(***************************************************************************)
(* The front end with its typer: FrontEnd decides which node is generated  *)
(* next, Typing what generate_thir_from_ast makes of it, and the two share *)
(* the type table and the list of symbols that grow from node to node      *)
(* (src/main.c:44-66, src/typer.c:244).  Where the scheduler leaves open   *)
(* whether a node is generated or ends the process, the typer decides.     *)
(***************************************************************************)
EXTENDS FrontEnd, Typing

CONSTANT Asts              \* for each program, the nodes of its syntax tree

ASSUME SyntaxAssumption ==
  \A p \in Programs :
    /\ Range(p) \subseteq Asts[p]
    /\ \A ast \in Asts[p] : IsSyntax(ast) /\ Range(Children(ast)) \subseteq Asts[p]

VARIABLES
  types,               \* type_table
  symbols,             \* thir_symbols
  thir,                \* the THIR of the statements of program
  typing,              \* the active calls of generate_thir_from_ast
  outcome              \* "ok", the message of the exit, or "crash"

typer_vars == <<types, symbols, thir, typing, outcome>>

CompilerInit == /\ FrontEndInit
                /\ types = initialize_type_system
                /\ symbols = <<>>
                /\ thir = <<>>
                /\ typing = <<>>
                /\ outcome = "ok"

Generating == building = "built" /\ printing = "printed"

\* generate_thir_for_node has seen to the dependencies of the node.
AtNode == /\ Generating
          /\ phase \notin Generator!Halted
          /\ stack # <<>>
          /\ Generator!Top.next > Len(dependencies[Generator!Top.node])

\* A call on a node: done are the trees of the children typed so far.
Innermost == typing[Len(typing)]
Complete  == typing # <<>> /\ Len(Innermost.done) = Len(Children(Innermost.ast))

\* The node generate_thir_from_ast is called on next, and what it makes of the
\* one whose children are all typed.
NextAst == IF typing = <<>> THEN AstAt(source, registry[Generator!Top.node])
           ELSE Children(Innermost.ast)[Len(Innermost.done) + 1]
Made    == Typed(Innermost.ast, Innermost.done, Env(types, symbols))

Schedule ==
  /\ Generating
  /\ typing = <<>>
  /\ Generator!generate_thir \/ Generator!Visit
  /\ UNCHANGED <<builder_vars, printer_vars, typer_vars>>

OpenAst ==
  /\ AtNode
  /\ ~Complete
  /\ Objection(NextAst, types, symbols) = "ok"
  /\ typing' = Append(typing, [ast |-> NextAst, done |-> <<>>])
  /\ UNCHANGED <<vars, types, symbols, thir, outcome>>

\* The call returns its tree to the call on the parent.
CloseAst ==
  /\ AtNode
  /\ Complete
  /\ Len(typing) > 1
  /\ Made.outcome = "ok"
  /\ types' = Made.types
  /\ symbols' = Made.symbols
  /\ LET callers == SubSeq(typing, 1, Len(typing) - 1)
     IN typing' = [callers EXCEPT ![Len(callers)].done = Append(@, Made.thir)]
  /\ UNCHANGED <<vars, thir, outcome>>

\* The outermost call returns to generate_thir_for_node.
TypeNode ==
  /\ Generating
  /\ Complete
  /\ Len(typing) = 1
  /\ Made.outcome = "ok"
  /\ Generator!GenerateNode
  /\ types' = Made.types
  /\ symbols' = Made.symbols
  /\ thir' = Append(thir, Made.thir)
  /\ typing' = <<>>
  /\ UNCHANGED <<builder_vars, printer_vars, outcome>>

RejectNode ==
  /\ Generating
  /\ Generator!FailNode
  /\ outcome' = IF Complete THEN Made.outcome ELSE Objection(NextAst, types, symbols)
  /\ outcome' # "ok"
  /\ UNCHANGED <<builder_vars, printer_vars, types, symbols, thir, typing>>

generate_thir_from_ast == OpenAst \/ CloseAst \/ TypeNode \/ RejectNode

CompilerNext == \/ (BuildGraph \/ PrintGraph) /\ UNCHANGED typer_vars
                \/ Schedule \/ generate_thir_from_ast
                \/ End /\ UNCHANGED typer_vars

CompilerSpec == CompilerInit /\ [][CompilerNext]_<<vars, typer_vars>>
-----------------------------------------------------------------------------
(***************************************************************************)
(* Properties                                                              *)
(***************************************************************************)
DeclarationOf(k)   == AstAt(source, registry[program[k]])
GeneratedFunctions == {k \in DOMAIN thir : thir[k].kind = "function"}

BuiltinNames == {"void", "i32", "f32", "String"}

IsTypeName(name) ==
  \/ name \in BuiltinNames
  \/ \E d \in DOMAIN source : source[d].kind = "type" /\ source[d].name = name

\* The cached type a function gets is one of its own parameters, in number and
\* kind, with its own "...", whatever functions were typed before it
\* (type.h:76-122): the back end passes arguments by it.
FunctionTypesFit ==
  \A k \in GeneratedFunctions :
    LET type == get_type(types, thir[k].type)
    IN /\ type.kind = "function"
       /\ type.parameters = thir[k].parameters
       /\ type.is_varargs <=> Vararg \in Range(DeclarationOf(k).parameters)

\* No parameter of a type that exists silently becomes void because the type
\* was generated too late (typer.c:142-147), in the functions of the program:
\* the graph has no edges for a function inside another.
ParametersKeepTheirTypes ==
  \A k \in GeneratedFunctions : Len(registry[program[k]]) = 1 =>
    LET named == NamedParameters(DeclarationOf(k))
    IN \A p \in DOMAIN named :
         IsTypeName(named[p]) => get_type(types, thir[k].parameters[p]).name = named[p]

\* A type declared inside a block, which the block's function makes again.
DeclaredInBlock(name) ==
  \E ast \in Asts[source] : ast.kind = "function" /\
    \E s \in Range(ast.block) : s.kind = "type" /\ s.name = name

\* When the generator returns, every type declaration is in the table, with the
\* members it was declared with - no lookup of a member met a table that lacked
\* the member's type - and it is there once, so that every use of its name finds
\* the same one (typer.c:176-191), but for a name that a block declares too or
\* that is a builtin's.
TypesAreComplete ==
  phase = "done" =>
    \A d \in DOMAIN source : source[d].kind = "type" =>
      LET entries == {k \in DOMAIN types : types[k].name = source[d].name}
      IN /\ \E k \in entries :
              /\ types[k].kind = "struct"
              /\ Len(types[k].members) = Len(source[d].members)
              /\ \A m \in DOMAIN types[k].members :
                   get_type(types, types[k].members[m].type).name = source[d].members[m]
         /\ ~DeclaredInBlock(source[d].name) /\ source[d].name \notin BuiltinNames =>
              \A k, l \in entries : k = l

\* The calls that are statements, or the initialisers of variables.
Calls(block) == {s \in Range(block) : s.kind = "function_call"}
                \cup {s.value : s \in {t \in Range(block) : t.kind = "variable"
                                         /\ t.value.kind = "function_call"}}

DeclaredSomewhere(name) == \E ast \in Asts[source] : Names(ast, name)

\* A program that calls something nobody declares, not even as a variable of
\* another function, does not get to the back end, whichever statement of a
\* block the call is, or is the whole initialiser of (calls in arguments, operands
\* and returns are not looked at here): the graph builder looks at the first
\* statement only, the typer at a list that grows (graph.c:42-61, typer.c:78-81).
NothingUndeclaredCompiles ==
  phase = "done" =>
    \A d \in DOMAIN source : source[d].kind = "function" =>
      \A call \in Calls(source[d].block) : DeclaredSomewhere(call.name)

\* A function without a return type is a void function (parser.c:121), and the
\* second sample, plans.it, declares main so (plans.it:1): the type a function
\* is given returns what the function was declared to return.
ReturnTypesAreKept ==
  \A k \in GeneratedFunctions :
    get_type(types, get_type(types, thir[k].type).return).name = DeclarationOf(k).return_type

=============================================================================
