------------------------------ MODULE BackEnd -------------------------------
(***************************************************************************)
(* The LLVM back end (src/backend.c) behind the front end: the module that *)
(* emit_thir_program builds from the THIR of a finished compilation.       *)
(*                                                                         *)
(* A module is a sequence of functions, a function a sequence of blocks, a *)
(* block a sequence of instructions.  The builder stands at the end of one *)
(* block.  A value is what an instruction results in, a constant, a        *)
(* function, or the null pointer that many emit_ functions return; what    *)
(* LLVM does with a null operand (a crash, or a module clang rejects) is   *)
(* not told apart.  Where the code has no defined behaviour, the outcome   *)
(* is "undefined" and nothing is said of what follows.  Passes, files and  *)
(* the target are left out, and so are the bytes of strings and numbers.   *)
(***************************************************************************)
EXTENDS Compiler

VARIABLE emission          \* the module and LLVM_Emit_Context, once it is emitted

NoEmission == [outcome |-> "none"]
NullValue  == [kind |-> "null", type |-> <<"none">>]

Nowhere == [function |-> 0, block |-> 0]

\* An LLVM_Emit_Context whose dont_load has this value when main makes it, in a
\* compiler whose frame of to_llvm_type has room to spare behind param_types.
Context(dont_load, spare) ==
  [functions |-> <<>>, builder |-> Nowhere, dont_load |-> dont_load, made_with |-> dont_load,
   spare |-> spare, value |-> NullValue, outcome |-> "ok"]

Undefined(e) == [e EXCEPT !.outcome = "undefined"]

-----------------------------------------------------------------------------
(* Types: the builtin ones by their names in LLVM, a struct's by its id.    *)
Void    == <<"void">>
Int32   == <<"i32">>
Bit     == <<"i1">>
Float   == <<"float">>
Pointer == <<"ptr">>
StructOf(id) == <<"struct", id>>

\* Types are typed after those they name: only itself can a struct contain
\* before it has a size.
RECURSIVE HasNoSize(_, _)
HasNoSize(table, id) ==
  LET type == get_type(table, id)
  IN type.kind = "struct" /\ \E k \in DOMAIN type.members :
       type.members[k].type = id \/ HasNoSize(table, type.members[k].type)

to_llvm_type(table, id) ==
  CASE id = VOID                             -> Void
    [] id = I32                              -> Int32
    [] id = F32                              -> Float
    [] id = STRING_TYPE                      -> Pointer
    [] get_type(table, id).kind = "struct"   -> StructOf(id)
    [] get_type(table, id).kind = "function" -> <<"function", id>>

\* What a function type is made of; it is never variadic, whatever its type says.
Signature(table, id) ==
  LET type == get_type(table, id)
  IN [return |-> type.return, parameters |-> type.parameters, is_varargs |-> FALSE]

\* param_types has a cell less than there are parameters where the type has "..."
\* (2^64 - 1 cells where there are none), but all parameters are written to it.
Overruns(table, id) ==
  LET type == get_type(table, id) IN type.kind = "function" /\ type.is_varargs

get_member_index(type, name) == First({k \in DOMAIN type.members : type.members[k].name = name})

-----------------------------------------------------------------------------
(* The builder. *)
Yield(e, value) == [e EXCEPT !.value = value]

\* The block the builder stands in.
BlockAt(e) == e.functions[e.builder.function].blocks[e.builder.block]

\* The instruction joins the block; its result has this type.
Build(e, instruction, type) ==
  LET f == e.builder.function  b == e.builder.block
  IN [e EXCEPT !.functions[f].blocks[b] = Append(@, instruction),
               !.value = [kind |-> "instruction", type |-> type, function |-> f, block |-> b,
                          index |-> Len(BlockAt(e)) + 1]]

Alloca(type, name)          == [op |-> "alloca", type |-> type, name |-> name]
Load(type, address)         == [op |-> "load", type |-> type, operands |-> <<address>>]
Store(value, address)       == [op |-> "store", operands |-> <<value, address>>]
Gep(struct, base, index)    == [op |-> "gep", struct |-> struct, index |-> index, operands |-> <<base>>]
Invoke(signature, callee, args) == [op |-> "call", signature |-> signature, operands |-> <<callee>> \o args]
Operate(operator, l, r)     == [op |-> "binary", operator |-> operator, operands |-> <<l, r>>]
Ret(values)                 == [op |-> "ret", operands |-> values]

Operands(instruction) == IF instruction.op = "alloca" THEN <<>> ELSE instruction.operands

-----------------------------------------------------------------------------
RECURSIVE emit_thir_node(_, _), EmitAll(_, _, _)

\* The nodes of a list, in order, and the values they yield.
EmitAll(nodes, e, values) ==
  IF nodes = <<>> \/ e.outcome # "ok" THEN [e |-> e, values |-> values]
  ELSE LET next == emit_thir_node(Head(nodes), e)
       IN EmitAll(Tail(nodes), next, Append(values, next.value))

\* The function of that name, if the module has it: its place, or zero.
NamedFunction(e, name) ==
  LET found == {k \in DOMAIN e.functions : e.functions[k].name = name}
  IN IF found = {} THEN 0 ELSE First(found)

\* The loop over the parameters stops at the first "...", the length is one less
\* then: any parameter behind it is a pointer that malloc left there.
HasUnsetParameters(node) ==
  ~(node.varargs \subseteq {Len(node.parameters) + Cardinality(node.varargs)})

\* The type is made of the node's own parameters and its type's return type.
emit_thir_function_forward_declaration(node, e) ==
  IF HasUnsetParameters(node) THEN Undefined(e)
  ELSE IF NamedFunction(e, node.name) # 0 THEN e
  ELSE [e EXCEPT !.functions = Append(@,
          [name |-> node.name, blocks |-> <<>>, parameters |-> node.parameters,
           is_varargs |-> node.varargs # {}, return |-> get_type(types, node.type).return])]

FunctionValue(f) == [kind |-> "function", type |-> Pointer, function |-> f]

\* A mutant of emit_thir_function: no return is added.
emit_thir_function_open(node, e) ==
  LET declared == emit_thir_function_forward_declaration(node, e)
      f        == NamedFunction(declared, node.name)
      opened   == [declared EXCEPT !.functions[f].blocks = Append(@, <<>>)]
  IN IF node.is_extern \/ declared.outcome # "ok" THEN Yield(declared, FunctionValue(f))
     ELSE Yield(EmitAll(node.block, [opened EXCEPT !.builder =
                  [function |-> f, block |-> Len(opened.functions[f].blocks)]], <<>>).e, NullValue)

\* The body is emitted again, to a new block, each time the function is used,
\* and the builder stays there.
emit_thir_function(node, e) ==
  LET declared == emit_thir_function_forward_declaration(node, e)
      f        == NamedFunction(declared, node.name)
      opened   == [declared EXCEPT !.functions[f].blocks = Append(@, <<>>)]
      body     == EmitAll(node.block, [opened EXCEPT !.builder =
                    [function |-> f, block |-> Len(opened.functions[f].blocks)]], <<>>).e
  IN IF node.is_extern \/ declared.outcome # "ok" THEN Yield(declared, FunctionValue(f))
     ELSE IF body.outcome = "ok" /\ get_type(types, node.type).return = VOID
     THEN Yield(Build(body, Ret(<<>>), Void), NullValue)
     ELSE Yield(body, NullValue)

\* A mutant of emit_thir_variable_declaration: the initialiser is left out.
emit_thir_variable_declaration_bare(node, e) ==
  IF HasNoSize(types, node.type) THEN [e EXCEPT !.outcome = "crash"]
  ELSE Build(e, Alloca(to_llvm_type(types, node.type), node.name), Pointer)

\* The size of the cell is needed at once: there is none for a struct in itself.
emit_thir_variable_declaration(node, e) ==
  LET cell == Build(e, Alloca(to_llvm_type(types, node.type), node.name), Pointer)
      init == emit_thir_node(node.value, cell)
  IN IF HasNoSize(types, node.type) THEN [e EXCEPT !.outcome = "crash"]
     ELSE IF node.value = NoValue THEN cell
     ELSE IF init.outcome # "ok" THEN init
     ELSE Yield(Build(init, Store(init.value, cell.value), Void), cell.value)

\* The declaration is emitted again for each use of its name; LLVM has no load of
\* a function.
emit_thir_identifier(node, e) ==
  LET cell == emit_thir_node(node.resolved, e)
      type == to_llvm_type(types, node.type)
  IN IF cell.outcome # "ok" THEN cell
     ELSE IF Overruns(types, node.type) /\ ~cell.spare THEN Undefined(cell)
     ELSE IF cell.dont_load THEN cell
     ELSE IF get_type(types, node.type).kind = "function" THEN Undefined(cell)
     ELSE Build(cell, Load(type, cell.value), type)

\* A mutant of Addressed: the old state of dont_load is not put back.
AddressedForGood(node, e) == emit_thir_node(node, [e EXCEPT !.dont_load = TRUE])

\* DONT_LOAD: the address of what the node names.
Addressed(node, e) ==
  [emit_thir_node(node, [e EXCEPT !.dont_load = TRUE]) EXCEPT !.dont_load = e.dont_load]

emit_thir_member_access(node, e) ==
  LET left   == Addressed(node.base, e)
      struct == get_type(types, node.base.type)
      index  == get_member_index(struct, node.member)
      gep    == Build(left, Gep(to_llvm_type(types, node.base.type), left.value, index), Pointer)
      type   == to_llvm_type(types, struct.members[index].type)
  IN IF left.outcome # "ok" THEN left
     ELSE IF gep.dont_load THEN gep
     ELSE Build(gep, Load(type, gep.value), type)

\* The callee is a node like any other, and comes before the arguments.  What
\* is called need not be a function: a call of a variable is undefined.
emit_thir_call(node, e) ==
  LET callee == emit_thir_node(node.function, e)
      args   == EmitAll(node.arguments, callee, <<>>)
      type   == Signature(types, node.function.type)
  IN IF args.e.outcome # "ok" THEN args.e
     ELSE IF node.function.kind # "function" THEN Undefined(args.e)
     ELSE IF Overruns(types, node.function.type) /\ ~args.e.spare THEN Undefined(args.e)
     ELSE Build(args.e, Invoke(type, callee.value, args.values), to_llvm_type(types, type.return))

EmitAssignment(node, e) ==
  LET left  == Addressed(node.left, e)
      right == emit_thir_node(node.right, left)
  IN IF left.outcome # "ok" THEN left
     ELSE IF right.outcome # "ok" THEN right
     ELSE Yield(Build(right, Store(right.value, left.value), Void), NullValue)

Comparisons == {"==", "!=", "<", ">", "<=", ">="}

emit_thir_binary_expression(node, e) ==
  IF node.operator = "=" THEN EmitAssignment(node, e)
  ELSE LET both == EmitAll(<<node.left, node.right>>, e, <<>>)
       IN IF both.e.outcome # "ok" THEN both.e
          ELSE Build(both.e, Operate(node.operator, both.values[1], both.values[2]),
                     IF node.operator \in Comparisons THEN Bit ELSE both.values[1].type)

\* A null value makes a return without one.
emit_thir_return(node, e) ==
  LET value == IF node.expression = NoValue THEN Yield(e, NullValue)
               ELSE emit_thir_node(node.expression, e)
  IN IF value.outcome # "ok" THEN value
     ELSE Yield(Build(value, Ret(IF value.value = NullValue THEN <<>> ELSE <<value.value>>), Void),
                NullValue)

emit_thir_node(node, e) ==
  CASE node.kind = "type"          -> Yield(e, NullValue)
    [] node.kind = "function"      -> emit_thir_function(node, e)
    [] node.kind = "variable"      -> emit_thir_variable_declaration(node, e)
    [] node.kind = "identifier"    -> emit_thir_identifier(node, e)
    [] node.kind = "number"        -> Yield(e, [kind |-> "constant", type |-> Int32])
    [] node.kind = "string"        -> Yield(e, [kind |-> "constant", type |-> Pointer])
    [] node.kind = "member_access" -> emit_thir_member_access(node, e)
    [] node.kind = "call"          -> emit_thir_call(node, e)
    [] node.kind = "binary"        -> emit_thir_binary_expression(node, e)
    [] node.kind = "return"        -> emit_thir_return(node, e)

-----------------------------------------------------------------------------
Entries == {k \in DOMAIN thir : thir[k].kind = "function" /\ thir[k].is_entry}

\* The first entry in the order of generation, which need not be the text's,
\* and what its calls lead to; nothing else is emitted.  Nothing has ever set
\* dont_load, and the build decides what lies behind param_types.
emit_thir_program ==
  /\ phase = "done" /\ emission = NoEmission
  /\ \E dont_load, spare \in BOOLEAN :
       emission' = IF Entries = {} THEN Context(dont_load, spare)
                   ELSE emit_thir_node(thir[First(Entries)], Context(dont_load, spare))
  /\ UNCHANGED <<vars, typer_vars>>

BackEndInit == CompilerInit /\ emission = NoEmission

BackEndNext == (CompilerNext /\ UNCHANGED emission) \/ emit_thir_program

BackEndSpec == BackEndInit /\ [][BackEndNext]_<<vars, typer_vars, emission>>
-----------------------------------------------------------------------------
(***************************************************************************)
(* Properties                                                              *)
(***************************************************************************)
Emitted == emission.outcome = "ok" /\ Entries # {}
EntryNode == thir[First(Entries)]

Operations(node) ==
  CASE node.kind = "identifier"    -> {node.resolved}
    [] node.kind = "member_access" -> {node.base}
    [] node.kind = "call"          -> {node.function} \cup Range(node.arguments)
    [] node.kind = "binary"        -> {node.left, node.right}
    [] node.kind = "variable"      -> {node.value} \ {NoValue}
    [] node.kind = "return"        -> {node.expression} \ {NoValue}
    [] OTHER                       -> {}

\* The nodes that are emitted for a node.
RECURSIVE Nodes(_)
Nodes(node) ==
  {node} \cup UNION {Nodes(n) : n \in Operations(node) \cup
                        (IF node.kind = "function" THEN Range(node.block) ELSE {})}

Assigns(node)  == node.kind = "binary" /\ node.operator = "="
Compares(node) == node.kind = "binary" /\ node.operator \in Comparisons

\* Statements such as those of max.it: they call externs only, declare no
\* function, name variables only, and use no assignment for its value.
Plain(node) ==
  /\ node.kind = "call" => node.function.kind = "function"
  /\ node.kind = "function" => node = EntryNode \/ node.is_extern
  /\ node.kind = "identifier" => node.resolved.kind = "variable"
  /\ \A n \in Operations(node) : ~Assigns(n)

\* A function that returns what its type says: nothing, or by its last
\* statement, and nowhere else.
ReturnsAtTheEnd(function) ==
  LET block == function.block
      returns == {k \in DOMAIN block : block[k].kind = "return"}
  IN returns = IF get_type(types, function.type).return = VOID THEN {} ELSE {Len(block)}

PlainEntry == /\ \A n \in Nodes(EntryNode) : Plain(n)
              /\ ReturnsAtTheEnd(EntryNode)

Blocks       == UNION {Range(f.blocks) : f \in Range(emission.functions)}
Instructions == UNION {Range(b) : b \in Blocks}

\* A block ends in its return and has no other.
EndsInItsReturn(block) ==
  block # <<>> /\ \A k \in DOMAIN block : block[k].op = "ret" <=> k = Len(block)

\* What LLVM asks of a module: each block ends in its only return, and every
\* operand is there, in the same block and before its use.  The builder moves
\* with each function that is emitted and never back, and assignments and
\* functions yield null (backend.c:242-259, 316-335): the module is as it must
\* be where the only function emitted with a block is the entry and where no
\* assignment is used for its value.
ModuleIsWellFormed ==
  Emitted /\ PlainEntry =>
    /\ \A block \in Blocks : EndsInItsReturn(block)
    /\ \A f \in DOMAIN emission.functions : \A b \in DOMAIN emission.functions[f].blocks :
         LET block == emission.functions[f].blocks[b]
         IN \A k \in DOMAIN block : \A o \in Range(Operands(block[k])) :
              /\ o.kind # "null"
              /\ o.kind = "instruction" => o.function = f /\ o.block = b /\ o.index < k

InstructionOf(value) == emission.functions[value.function].blocks[value.block][value.index]

\* The type of what is stored at an address.
CellType(address) ==
  LET at == InstructionOf(address)
  IN IF at.op = "alloca" THEN at.type
     ELSE to_llvm_type(types, get_type(types, at.struct[2]).members[at.index].type)

\* The typer looks at the operands neither of an operator nor of an assignment;
\* an i1 counts as what was compared, and a string is an address.
TypedAlike(node) ==
  /\ node.kind = "binary" => node.left.type = node.right.type
  /\ node.kind = "binary" /\ ~Assigns(node) => node.left.type # STRING_TYPE
  /\ \A n \in Operations(node) : ~Compares(n)

RECURSIVE IsPlace(_)
IsPlace(node) ==
  node.kind = "identifier" \/ (node.kind = "member_access" /\ IsPlace(node.base))

Reads(node) == \E n \in Nodes(node) : n.kind \in {"identifier", "member_access"}

\* What is emitted under dont_load: the left side of a dot and of an assignment.
AddressOf(node) ==
  CASE node.kind = "member_access" -> {node.base}
    [] Assigns(node)               -> {node.left}
    [] OTHER                       -> {}

\* Only variables and their members are addressed, and none that is initialised
\* from another: the initialiser comes with the variable and would give an
\* address, not a value.  An initialiser of constants and calls may be there.
AddressesPlaces(node) ==
  \A n \in AddressOf(node) :
    IsPlace(n) /\ \A m \in Nodes(n) : m.kind = "variable" => ~Reads(m.value)

WellTypedEntry ==
  PlainEntry /\ \A n \in Nodes(EntryNode) : TypedAlike(n) /\ AddressesPlaces(n)

\* Where the typer finds two types equal, or does not look but they are, the
\* values have equal types: what is stored fits its cell, an address is an
\* address, and nothing is added to one.  This hangs on dont_load, which is
\* saved and restored around every name on the left of a dot or an equals sign
\* and which main leaves uninitialised (backend.c:86-89, 282-334, main.c:74).
TypesAgree ==
  Emitted /\ WellTypedEntry /\ ~emission.made_with =>
    \A instruction \in Instructions :
      LET o == Operands(instruction)
      IN /\ instruction.op \in {"load", "gep"} => o[1].type = Pointer
         /\ instruction.op = "store"  => o[2].type = Pointer /\ o[1].type = CellType(o[2])
         /\ instruction.op = "binary" => o[1].type = o[2].type /\ o[1].type # Pointer

\* The calls that an expression or a statement makes, arguments first.
RECURSIVE CallsOf(_)
CallsOf(ast) ==
  FlattenSeq([k \in DOMAIN Children(ast) |-> CallsOf(Children(ast)[k])])
  \o (IF ast.kind = "function_call" THEN <<ast.name>> ELSE <<>>)

CallsNothing(node) == \A n \in Nodes(node) : n.kind # "call"

\* The program calls what the entry calls, once each and in the order of the
\* text, through the nodes the typer makes and the loops and operands of the back
\* end (typer.c:77-128, backend.c:266-412), but for the initialisers that each
\* use of their variable emits again (backend.c:278).
CallsKeepTheirOrder ==
  Emitted /\ PlainEntry /\ ~EntryNode.is_extern
  /\ (\A n \in Nodes(EntryNode) : n.kind = "identifier" => CallsNothing(n.resolved)) =>
    LET made == SelectSeq(emission.functions[1].blocks[1], LAMBDA step : step.op = "call")
    IN [k \in DOMAIN made |-> emission.functions[made[k].operands[1].function].name]
       = CallsOf(DeclarationOf(First(Entries)))

\* The cell an address points into: the alloca it starts from.
RECURSIVE Base(_), Place(_)
Base(address) ==
  LET at == InstructionOf(address)
  IN IF at.op = "gep" THEN Base(at.operands[1]) ELSE address

\* The variable and the members on the way to it.
Place(address) ==
  LET at == InstructionOf(address)
  IN IF at.op = "gep" THEN Append(Place(at.operands[1]), at.index) ELSE <<at.name>>

\* A variable is stored, "in your symbol table for this variable" as the code
\* puts it (backend.c:269), so that a use finds what was assigned: max.it
\* assigns three members and prints them and their sum (max.it:6-18).  What is
\* loaded from a place was last stored, if ever, to the same cell.
VariablesKeepTheirValues ==
  Emitted /\ PlainEntry /\ ~emission.made_with =>
    \A f \in DOMAIN emission.functions : \A block \in Range(emission.functions[f].blocks) :
      \A k \in DOMAIN block : block[k].op = "load" =>
        LET address == block[k].operands[1]
            stores  == {j \in 1 .. k - 1 : block[j].op = "store"
                          /\ Place(block[j].operands[2]) = Place(address)}
        IN stores # {} =>
             Base(block[CHOOSE j \in stores : \A l \in stores : l <= j].operands[2]) = Base(address)

RECURSIVE Dots(_), DeclaredType(_, _)

\* The dot expressions in a statement or an expression.
Dots(e) ==
  CASE e.kind = "dot"                     -> {e} \cup Dots(e.left)
    [] e.kind = "binary"                  -> Dots(e.left) \cup Dots(e.right)
    [] e.kind \in {"variable", "return"}  -> Dots(e.value)
    [] e.kind = "function_call"           -> UNION {Dots(a) : a \in Range(e.arguments)}
    [] OTHER                              -> {}

\* The types of the declared members called m of the type declarations called t.
MemberTypes(t, m) ==
  {source[d].members[m] : d \in {e \in DOMAIN source :
     source[e].name = t /\ source[e].kind = "type" /\ m \in DOMAIN source[e].members}}

\* The type names that the d-th declaration gives a variable or a path of
\* members of one: none, if there is no such variable or member.
DeclaredType(d, e) ==
  CASE e.kind = "identifier" ->
         {source[d].block[k].type : k \in {l \in LocalVariables(source, d) : source[d].block[l].name = e.name}}
    [] e.kind = "dot" -> UNION {MemberTypes(t, e.member) : t \in DeclaredType(d, e.left)}
    [] OTHER -> {}

\* The message "unable to find member '%s' in type '%s'" (typer.c:72) is given
\* of a member that the declared type of its base does not have.
MissingMemberIsMissing ==
  outcome = "unable to find member" =>
    \E d \in DOMAIN source : source[d].kind = "function" /\
      \E s \in Range(source[d].block) : \E dot \in Dots(s) : DeclaredType(d, dot) = {}
=============================================================================
