--------------------------- MODULE CompilerProofs ---------------------------
(***************************************************************************)
(* What TLAPS proves of Compiler.tla, for every set of accepted programs:  *)
(* what the typer makes of a declaration fits the declaration, and nothing *)
(* that is declared nowhere is called.  The table of types and the list of *)
(* symbols only grow, so that what was found in them is found again.       *)
(***************************************************************************)
EXTENDS Compiler, FrontEndProofs

-----------------------------------------------------------------------------
(***************************************************************************)
(* The inductive invariant                                                 *)
(***************************************************************************)

\* A node of the tree: a top-level statement, or a child of a node.
IsAst(path) ==
  \/ \E d \in DOMAIN source : path = <<d>>
  \/ \E parent \in Asts[source] : AstAt(source, path) \in Range(Children(parent))

SyntaxInv ==
  /\ source \in Programs
  /\ \A n \in DOMAIN registry : IsAst(registry[n])
  /\ \A u \in Range(pending) : u # NullPath => IsAst(u)

\* A list that begins with another one.
Extends(more, list) ==
  Len(list) <= Len(more) /\ \A k \in DOMAIN list : more[k] = list[k]

HasName(list, name) == \E k \in DOMAIN list : list[k].name = name

\* What is known of the tree of a function and of its type ...
FunctionFits(table, tree, ast) ==
  LET type == get_type(table, tree.type)
  IN /\ tree.type + 1 \in DOMAIN table
     /\ type.kind = "function"
     /\ type.parameters = tree.parameters
     /\ type.is_varargs <=> Vararg \in Range(ast.parameters)

\* ... of its parameters ...
ParametersFit(table, tree, ast) ==
  LET named == NamedParameters(ast)
  IN \A p \in DOMAIN named : IsTypeName(named[p]) =>
       /\ tree.parameters[p] + 1 \in DOMAIN table
       /\ get_type(table, tree.parameters[p]).name = named[p]

\* ... and of a type declaration.
TypeFits(table, tree, ast) ==
  LET type == get_type(table, tree.type)
  IN /\ tree.type + 1 \in DOMAIN table
     /\ type.name = ast.name
     /\ type.kind = "struct"
     /\ Len(type.members) = Len(ast.members)
     /\ \A m \in DOMAIN type.members :
          /\ type.members[m].type + 1 \in DOMAIN table
          /\ get_type(table, type.members[m].type).name = ast.members[m]

\* A call, and a variable that is initialised by one, has found its callee.
Called(ast) == ast.kind = "function_call" => HasName(symbols, ast.name)
Passed(ast) == Called(ast) /\ (ast.kind = "variable" => Called(ast.value))

TreeFits(k) ==
  LET ast == DeclarationOf(k)
  IN /\ thir[k].kind = "function" <=> ast.kind = "function"
     /\ ast.kind = "function" =>
          /\ FunctionFits(types, thir[k], ast)
          /\ Len(registry[program[k]]) = 1 => ParametersFit(types, thir[k], ast)
          /\ \A s \in Range(ast.block) : Passed(s)
     /\ ast.kind = "type" => TypeFits(types, thir[k], ast)

\* Function types have no name.
Nameless(type) == type.name = ""

\* Where the entries of the table come from.
Origin(k) ==
  \/ k <= 4
  \/ Nameless(types[k])
  \/ DeclaredInBlock(types[k].name)
  \/ \E j \in DOMAIN program : \E d \in DOMAIN source :
       /\ registry[program[j]] = <<d>> /\ source[d].kind = "type"
       /\ types[k].name = source[d].name /\ k = thir[j].type + 1

Tables ==
  /\ IsList(types) /\ Extends(types, initialize_type_system)
  /\ \A k \in DOMAIN types : Origin(k)
  /\ IsList(symbols)
  /\ \A k \in DOMAIN symbols : DeclaredSomewhere(symbols[k].name)
  /\ IsList(thir) /\ Len(thir) = Len(program)
  /\ \A k \in DOMAIN program : TreeFits(k)

\* A call of generate_thir_from_ast: what it has looked up and typed so far.
CallFits(n) ==
  LET ast == typing[n].ast  done == typing[n].done
  IN /\ typing[n] = [ast |-> ast, done |-> done]
     /\ ast \in Asts[source]
     /\ IsList(done) /\ Len(done) <= Len(Children(ast))
     /\ Called(ast)
     /\ \A j \in 1 .. Len(done) : Passed(Children(ast)[j])

\* The calls go down the tree from the node the generator is at.
Calling ==
  /\ IsList(typing)
  /\ typing # <<>> =>
       /\ Generating /\ stack # <<>>
       /\ typing[1].ast = AstAt(source, registry[Generator!Top.node])
  /\ \A n \in DOMAIN typing :
       /\ CallFits(n)
       /\ n + 1 \in DOMAIN typing =>
            /\ Len(typing[n].done) < Len(Children(typing[n].ast))
            /\ typing[n + 1].ast = Children(typing[n].ast)[Len(typing[n].done) + 1]

CompilerInv == FrontEndInv /\ SyntaxInv /\ Tables /\ Calling

-----------------------------------------------------------------------------
(***************************************************************************)
(* Lists                                                                   *)
(***************************************************************************)
LEMMA ListOf ==
  ASSUME NEW S, NEW s \in Seq(S)
  PROVE  IsList(s) /\ Len(s) \in Nat /\ DOMAIN s = 1 .. Len(s)
<1>1. Len(s) \in Nat /\ DOMAIN s = 1 .. Len(s) /\ s = [k \in 1 .. Len(s) |-> s[k]]
  OBVIOUS
<1>2. s \in [1 .. Len(s) -> {s[k] : k \in DOMAIN s}]
  BY <1>1
<1> QED
  BY <1>1, <1>2 DEF IsList

LEMMA ListFacts ==
  ASSUME NEW s, IsList(s)
  PROVE  Len(s) \in Nat /\ DOMAIN s = 1 .. Len(s)
BY DEF IsList

LEMMA ListAppend ==
  ASSUME NEW s, IsList(s), NEW e
  PROVE  /\ IsList(Append(s, e)) /\ Len(Append(s, e)) = Len(s) + 1
         /\ DOMAIN Append(s, e) = 1 .. Len(s) + 1
         /\ \A k \in 1 .. Len(s) : Append(s, e)[k] = s[k]
         /\ Append(s, e)[Len(s) + 1] = e
<1> DEFINE S == {s[k] : k \in DOMAIN s} \cup {e}
           t == Append(s, e)
<1>1. s \in Seq(S)
  BY LargerSet DEF IsList
<1>2. t \in Seq(S) /\ Len(t) = Len(s) + 1 /\ Len(s) \in Nat
  BY <1>1
<1>3. /\ \A k \in 1 .. Len(s) : t[k] = s[k]
      /\ t[Len(s) + 1] = e
  BY <1>1
<1>4. IsList(t) /\ DOMAIN t = 1 .. Len(t)
  BY <1>2, ListOf
<1> QED
  BY <1>2, <1>3, <1>4

Down(path, step) == path \o <<step>>

LEMMA OneMore ==
  \A s, c, t : IsList(s) /\ t = Down(s, c) =>
    /\ IsList(t) /\ Len(t) = Len(s) + 1
    /\ \A k \in 1 .. Len(s) : t[k] = s[k]
    /\ t[Len(s) + 1] = c
<1> SUFFICES ASSUME NEW s, NEW c, IsList(s)
             PROVE  LET t == Down(s, c)
                    IN /\ IsList(t) /\ Len(t) = Len(s) + 1
                       /\ \A k \in 1 .. Len(s) : t[k] = s[k]
                       /\ t[Len(s) + 1] = c
  OBVIOUS
<1> DEFINE S == {s[k] : k \in DOMAIN s} \cup {c}
           u == <<c>>
           t == s \o u
<1>1. s \in Seq(S) /\ u \in Seq(S) /\ Len(u) = 1 /\ u[1] = c /\ Len(s) \in Nat
  BY LargerSet DEF IsList
<1> HIDE DEF u, S
<1>2. /\ t \in Seq(S) /\ Len(t) = Len(s) + 1
      /\ \A k \in 1 .. Len(s) : t[k] = s[k]
      /\ t[Len(s) + 1] = c
  BY <1>1, ConcatProperties
<1> HIDE DEF t
<1>3. IsList(t)
  BY <1>2, ListOf
<1> QED
  BY <1>1, <1>2, <1>3 DEF t, u, Down

LEMMA ListChange ==
  ASSUME NEW s, IsList(s), NEW k \in DOMAIN s, NEW e
  PROVE  LET t == [s EXCEPT ![k] = e]
         IN /\ IsList(t) /\ Len(t) = Len(s) /\ DOMAIN t = DOMAIN s /\ t[k] = e
            /\ \A j \in DOMAIN s : j # k => t[j] = s[j]
<1> DEFINE S == {s[j] : j \in DOMAIN s} \cup {e}
           t == [s EXCEPT ![k] = e]
<1>1. s \in Seq(S) /\ Len(s) \in Nat /\ DOMAIN s = 1 .. Len(s)
  BY LargerSet DEF IsList
<1>2. t \in [1 .. Len(s) -> S] /\ t[k] = e /\ \A j \in DOMAIN s : j # k => t[j] = s[j]
  BY <1>1
<1>3. t \in Seq(S) /\ Len(t) = Len(s) /\ DOMAIN t = DOMAIN s
  BY <1>1, <1>2
<1> QED
  BY <1>2, <1>3, ListOf

LEMMA ListFront ==
  ASSUME NEW s, IsList(s), s # <<>>
  PROVE  LET t == SubSeq(s, 1, Len(s) - 1)
         IN /\ IsList(t) /\ Len(t) = Len(s) - 1 /\ DOMAIN t = 1 .. Len(s) - 1
            /\ \A j \in 1 .. Len(s) - 1 : t[j] = s[j]
<1> DEFINE S == {s[j] : j \in DOMAIN s}
           t == SubSeq(s, 1, Len(s) - 1)
<1>1. s \in Seq(S) /\ Len(s) \in Nat /\ Len(s) >= 1 /\ DOMAIN s = 1 .. Len(s)
  BY DEF IsList
<1>2. \A j \in 1 .. Len(s) - 1 : s[j] \in S
  BY <1>1
<1>3. t \in Seq(S) /\ Len(t) = Len(s) - 1 /\ \A j \in 1 .. Len(s) - 1 : t[j] = s[j]
  BY <1>1, <1>2, SubSeqProperties
<1> QED
  BY <1>1, <1>3, ListOf

LEMMA ExtendsAppend ==
  ASSUME NEW s, IsList(s), NEW e
  PROVE  Extends(Append(s, e), s)
BY ListAppend, ListFacts DEF Extends

LEMMA ExtendsMore ==
  ASSUME NEW a, NEW b, NEW c, IsList(a), IsList(b), IsList(c), Extends(b, a), Extends(c, b)
  PROVE  Extends(c, a)
BY ListFacts DEF Extends

LEMMA KeepsName ==
  ASSUME NEW a, NEW b, NEW name, IsList(a), IsList(b), Extends(b, a), HasName(a, name)
  PROVE  HasName(b, name)
BY ListFacts DEF Extends, HasName

-----------------------------------------------------------------------------
(***************************************************************************)
(* Looking up                                                              *)
(***************************************************************************)
LEMMA FirstIs ==
  ASSUME NEW S, S \subseteq Nat, S # {}
  PROVE  First(S) \in S /\ \A k \in S : First(S) <= k
BY Smallest DEF First

LEMMA FoundType ==
  ASSUME NEW table, IsList(table), NEW name
  PROVE  /\ find_type(table, name) # NoType <=> HasName(table, name)
         /\ find_type(table, name) # NoType =>
              /\ find_type(table, name) \in Nat
              /\ find_type(table, name) + 1 \in DOMAIN table
              /\ get_type(table, find_type(table, name)).name = name
<1> DEFINE S == {k \in DOMAIN table : table[k].name = name}
<1>1. S \subseteq Nat \ {0} /\ (S # {} <=> HasName(table, name))
  BY ListFacts DEF HasName
<1>2. CASE S = {}
  BY <1>1, <1>2 DEF find_type, NoType
<1>3. CASE S # {}
  <2>1. First(S) \in S
    BY <1>1, <1>3, FirstIs
  <2>2. find_type(table, name) = First(S) - 1
    BY <1>3 DEF find_type
  <2> QED
    BY <1>1, <1>3, <2>1, <2>2 DEF NoType, get_type
<1> QED
  BY <1>2, <1>3

LEMMA FoundSymbol ==
  ASSUME NEW name
  PROVE  SymbolsOf(symbols, name) # {} <=> HasName(symbols, name)
BY DEF SymbolsOf, HasName

-----------------------------------------------------------------------------
(***************************************************************************)
(* What generate_thir_from_ast makes of one node                           *)
(***************************************************************************)
Here == Env(types, symbols)

LEMMA HereIs ==
  /\ Here.types = types /\ Here.symbols = symbols /\ Here.outcome = "ok"
  /\ \A t : /\ Result(Here, t).types = types /\ Result(Here, t).symbols = symbols
            /\ Result(Here, t).thir = t
  /\ \A m : Exit(Here, m).outcome = m
  /\ Crash(Here).outcome = "crash"
BY DEF Here, Env, Result, Exit, Crash

With(table) == [Here EXCEPT !.types = table]

LEMMA DeclaredHere ==
  \A name, t :
    /\ Declare(Here, name, t).types = types
    /\ Declare(Here, name, t).thir = t
    /\ Declare(Here, name, t).symbols = Append(symbols, [name |-> name, thir |-> t])
    /\ \A table :
         /\ Declare(With(table), name, t).types = table
         /\ Declare(With(table), name, t).thir = t
         /\ Declare(With(table), name, t).symbols
              = Append(symbols, [name |-> name, thir |-> t])
BY DEF Declare, Here, Env, With

\* The nodes that declare nothing.
LEMMA PlainTree ==
  ASSUME NEW ast, NEW done, ~IsNamed(ast),
         Typed(ast, done, Here).outcome = "ok"
  PROVE  LET e == Typed(ast, done, Here)
         IN e.types = types /\ e.symbols = symbols /\ e.thir.kind # "function"
<1> DEFINE e == Typed(ast, done, Here)
<1>1. CASE ast.kind = "identifier"
  BY <1>1, HereIs DEF Typed, TypedIdentifier
<1>2. CASE ast.kind \in {"number", "string"}
  <2>1. \/ e = Result(Here, [kind |-> "number", type |-> I32])
        \/ e = Result(Here, [kind |-> "string", type |-> STRING_TYPE])
    BY <1>2 DEF Typed
  <2> QED
    BY <2>1, HereIs
<1>3. CASE ast.kind = "dot"
  <2> DEFINE member == MemberType(Here.types, done[1].type, ast.member)
             tree   == [kind |-> "member_access", type |-> member, base |-> done[1],
                        member |-> ast.member]
  <2>1. e = TypedDot(ast, done, Here)
    BY <1>3 DEF Typed
  <2>2. \/ e = Crash(Here) \/ e = Exit(Here, "unable to find member")
        \/ e = Result(Here, tree)
    BY <2>1 DEF TypedDot
  <2>3. tree.kind = "member_access"
    OBVIOUS
  <2> HIDE DEF tree, member
  <2> QED
    BY <2>2, <2>3, HereIs
<1>4. CASE ast.kind = "function_call"
  BY <1>4, HereIs DEF Typed, TypedCall
<1>5. CASE ast.kind = "binary"
  BY <1>5, HereIs DEF Typed, TypedBinary
<1>6. CASE ast.kind = "return"
  BY <1>6, HereIs DEF Typed, TypedReturn
<1>7. CASE ast.kind \notin {"identifier", "number", "string", "dot", "function_call", "binary", "return"}
  <2>1. ast.kind \notin {"identifier", "number", "string", "dot", "function_call", "binary", "return",
                        "function", "type", "variable"}
    BY <1>7 DEF IsNamed
  <2>2. e = Result(Here, NoTree)
    BY <2>1 DEF Typed
  <2> QED
    BY <2>2, HereIs DEF NoTree
<1> QED
  BY <1>1, <1>2, <1>3, <1>4, <1>5, <1>6, <1>7

LEMMA VariableTree ==
  ASSUME NEW ast, NEW done, ast.kind = "variable",
         Typed(ast, done, Here).outcome = "ok"
  PROVE  LET e == Typed(ast, done, Here)
         IN /\ e.types = types /\ e.thir.kind = "variable"
            /\ e.symbols = Append(symbols, [name |-> ast.name, thir |-> e.thir])
<1> DEFINE e == Typed(ast, done, Here)
           tree == [kind |-> "variable", type |-> find_type(Here.types, ast.type),
                    name |-> ast.name, value |-> ValueIn(done)]
<1>1. e = TypedVariable(ast, done, Here)
  BY DEF Typed
<1>2. e = Exit(Here, "invalid type in variable declaration") \/ e = Declare(Here, ast.name, tree)
  BY <1>1 DEF TypedVariable
<1>3. tree.kind = "variable"
  OBVIOUS
<1> HIDE DEF tree
<1>4. e = Declare(Here, ast.name, tree)
  <2>1. "invalid type in variable declaration" # "ok"
    OBVIOUS
  <2> QED
    BY <1>2, <2>1, HereIs
<1> QED
  BY <1>3, <1>4, DeclaredHere

LEMMA FunctionTree ==
  ASSUME NEW ast, NEW done, ast.kind = "function", IsList(types),
         Typed(ast, done, Here).outcome = "ok"
  PROVE  LET e == Typed(ast, done, Here)
         IN /\ IsList(e.types) /\ Extends(e.types, types)
            /\ \A k \in DOMAIN e.types : k \in DOMAIN types \/ Nameless(e.types[k])
            /\ e.symbols = Append(symbols, [name |-> ast.name, thir |-> e.thir])
            /\ e.thir.kind = "function"
            /\ FunctionFits(e.types, e.thir, ast)
            /\ \A p \in DOMAIN NamedParameters(ast) :
                 e.thir.parameters[p] = ParameterType(types, NamedParameters(ast)[p])
<1> DEFINE e     == Typed(ast, done, Here)
           named == NamedParameters(ast)
           ps    == [k \in DOMAIN named |-> ParameterType(types, named[k])]
           ret   == find_type(types, ast.return_type)
           v     == IsVariadic(ast)
           made  == create_or_find_function_type(types, ret, ps, v)
           tree  == [kind |-> "function", type |-> made.id, name |-> ast.name,
                     parameters |-> ps, varargs |-> VarargPlaces(ast), is_extern |-> ast.is_extern,
                     is_entry |-> ast.is_entry, block |-> done]
<1>1. e = TypedFunction(ast, done, Here)
  BY DEF Typed
<1>2. /\ e.types = made.types
      /\ e.symbols = Append(symbols, [name |-> ast.name, thir |-> e.thir])
      /\ e.thir.kind = "function" /\ e.thir.type = made.id /\ e.thir.parameters = ps
  <2>1. e = Crash(Here) \/ e = Declare([Here EXCEPT !.types = made.types], ast.name, tree)
    BY <1>1, HereIs DEF TypedFunction
  <2>2. tree.kind = "function" /\ tree.type = made.id /\ tree.parameters = ps
    OBVIOUS
  <2> HIDE DEF tree, made, ps
  <2>3. e = Declare(With(made.types), ast.name, tree)
    BY <2>1, HereIs DEF With
  <2> QED
    BY <2>2, <2>3, DeclaredHere
<1>3. /\ IsList(made.types) /\ Extends(made.types, types)
      /\ \A k \in DOMAIN made.types : k \in DOMAIN types \/ Nameless(made.types[k])
      /\ made.id + 1 \in DOMAIN made.types
      /\ LET type == made.types[made.id + 1]
         IN type.kind = "function" /\ type.parameters = ps /\ type.is_varargs = v
  <2> DEFINE S == {k \in DOMAIN types : SameSignature(types[k], ret, ps, v)}
  <2>0. Len(types) \in Nat /\ DOMAIN types = 1 .. Len(types)
    BY ListFacts
  <2>1. CASE S = {}
    <3>1. /\ made.types = Append(types, FunctionType(ret, ps, v)) /\ made.id = Len(types)
      BY <2>1 DEF create_or_find_function_type, NextId
    <3>2. LET type == FunctionType(ret, ps, v)
          IN type.kind = "function" /\ type.parameters = ps /\ type.is_varargs = v /\ Nameless(type)
      BY DEF FunctionType, Nameless
    <3> DEFINE new == FunctionType(ret, ps, v)
    <3> HIDE DEF ps, v, ret, new, made
    <3>3. /\ IsList(Append(types, new)) /\ Extends(Append(types, new), types)
          /\ DOMAIN Append(types, new) = 1 .. Len(types) + 1
          /\ Append(types, new)[Len(types) + 1] = new
      BY ListAppend, ExtendsAppend
    <3>4. Len(types) + 1 \in 1 .. Len(types) + 1
      BY <2>0
    <3>5. \A k \in 1 .. Len(types) + 1 : k \in 1 .. Len(types) \/ k = Len(types) + 1
      BY <2>0
    <3> QED
      BY <2>0, <3>1, <3>2, <3>3, <3>4, <3>5 DEF new
  <2>2. CASE S # {}
    <3>1. made.types = types /\ made.id = First(S) - 1
      BY <2>2 DEF create_or_find_function_type
    <3>2. First(S) \in S
      <4>1. S \subseteq Nat
        BY <2>0
      <4> HIDE DEF S
      <4> QED
        BY <2>2, <4>1, FirstIs
    <3>3. First(S) \in 1 .. Len(types) /\ SameSignature(types[First(S)], ret, ps, v)
      BY <2>0, <3>2
    <3> HIDE DEF ps, v, ret, S, made
    <3>4. made.id + 1 = First(S)
      BY <2>0, <3>1, <3>3
    <3>5. IsList(made.types) /\ Extends(made.types, types) /\ DOMAIN made.types = DOMAIN types
      BY <2>0, <3>1 DEF Extends
    <3>6. LET type == made.types[made.id + 1]
          IN type.kind = "function" /\ type.parameters = ps /\ type.is_varargs = v
      BY <3>1, <3>3, <3>4 DEF SameSignature
    <3> QED
      BY <2>0, <3>3, <3>4, <3>5, <3>6
  <2> QED
    BY <2>1, <2>2
<1>4. FunctionFits(e.types, e.thir, ast)
  BY <1>2, <1>3 DEF FunctionFits, get_type, IsVariadic
<1>5. \A p \in DOMAIN named : e.thir.parameters[p] = ParameterType(types, named[p])
  BY <1>2
<1> QED
  BY <1>2, <1>3, <1>4, <1>5

LEMMA TypeTree ==
  ASSUME NEW ast, NEW done, ast.kind = "type", IsList(types), IsList(ast.members),
         Typed(ast, done, Here).outcome = "ok"
  PROVE  LET e == Typed(ast, done, Here)
         IN /\ IsList(e.types) /\ Extends(e.types, types)
            /\ DOMAIN e.types = 1 .. Len(types) + 1
            /\ e.thir.type = Len(types)
            /\ e.symbols = Append(symbols, [name |-> ast.name, thir |-> e.thir])
            /\ e.thir.kind = "type"
            /\ TypeFits(e.types, e.thir, ast)
<1> DEFINE e      == Typed(ast, done, Here)
           opened == Append(types, Struct(ast.name, <<>>))
           member == [k \in DOMAIN ast.members |-> find_type(opened, ast.members[k])]
           fields == [k \in DOMAIN member |-> [name |-> k, type |-> member[k]]]
           closed == Append(types, Struct(ast.name, fields))
<1>1. e = TypedType(ast, Here)
  BY DEF Typed
<1>2. /\ \A k \in DOMAIN member : member[k] # NoType
      /\ e.types = closed
      /\ e.symbols = Append(symbols, [name |-> ast.name, thir |-> e.thir])
      /\ e.thir.kind = "type" /\ e.thir.type = Len(types)
  <2> DEFINE tree == [kind |-> "type", type |-> Len(types), name |-> ast.name]
  <2>1. \/ e = Crash(Here)
        \/ /\ ~\E k \in DOMAIN member : member[k] = NoType
           /\ e = Declare([Here EXCEPT !.types = Append(@, Struct(ast.name, fields))], ast.name, tree)
    BY <1>1, HereIs DEF TypedType, NextId
  <2>2. [Here EXCEPT !.types = Append(@, Struct(ast.name, fields))] = [Here EXCEPT !.types = closed]
    BY HereIs DEF Here, Env
  <2>3. tree.kind = "type" /\ tree.type = Len(types)
    OBVIOUS
  <2> HIDE DEF tree, closed, fields, member
  <2>4. /\ ~\E k \in DOMAIN member : member[k] = NoType
        /\ e = Declare(With(closed), ast.name, tree)
    BY <2>1, <2>2, HereIs DEF With
  <2> QED
    BY <2>3, <2>4, DeclaredHere
<1>3. /\ IsList(opened) /\ DOMAIN opened = 1 .. Len(types) + 1
      /\ IsList(closed) /\ DOMAIN closed = 1 .. Len(types) + 1
      /\ \A k \in 1 .. Len(types) : opened[k] = types[k] /\ closed[k] = types[k]
      /\ opened[Len(types) + 1] = Struct(ast.name, <<>>)
      /\ closed[Len(types) + 1] = Struct(ast.name, fields)
      /\ Extends(closed, types) /\ Len(types) \in Nat
  BY ListAppend, ListFacts, ExtendsAppend
<1>4. \A k \in DOMAIN opened : closed[k].name = opened[k].name
  <2> HIDE DEF fields
  <2> QED
    BY <1>3 DEF Struct
<1>5. Len(fields) = Len(ast.members) /\ DOMAIN fields = DOMAIN ast.members
  <2>1. Len(ast.members) \in Nat /\ DOMAIN ast.members = 1 .. Len(ast.members)
    BY ListFacts
  <2>2. DOMAIN fields = 1 .. Len(ast.members)
    BY <2>1
  <2> HIDE DEF fields
  <2> QED
    BY <2>1, <2>2
<1>6. \A m \in DOMAIN fields :
        /\ fields[m].type + 1 \in DOMAIN closed
        /\ get_type(closed, fields[m].type).name = ast.members[m]
  <2> SUFFICES ASSUME NEW m \in DOMAIN ast.members
               PROVE  /\ fields[m].type + 1 \in DOMAIN closed
                      /\ get_type(closed, fields[m].type).name = ast.members[m]
    BY <1>5
  <2>1. fields[m].type = find_type(opened, ast.members[m]) /\ find_type(opened, ast.members[m]) # NoType
    BY <1>2
  <2> HIDE DEF opened, fields, closed, member
  <2>2. /\ fields[m].type + 1 \in DOMAIN opened
        /\ get_type(opened, fields[m].type).name = ast.members[m]
    BY <1>3, <2>1, FoundType
  <2> QED
    BY <1>3, <1>4, <2>2 DEF get_type
<1>7. TypeFits(e.types, e.thir, ast)
  <2>1. get_type(closed, Len(types)) = Struct(ast.name, fields)
    BY <1>3 DEF get_type
  <2> HIDE DEF closed, fields, opened, member
  <2>2. LET type == get_type(closed, Len(types))
        IN type.name = ast.name /\ type.kind = "struct" /\ type.members = fields
    BY <2>1 DEF Struct
  <2>3. Len(types) + 1 \in DOMAIN closed
    BY <1>3
  <2> QED
    BY <1>2, <1>5, <1>6, <2>2, <2>3 DEF TypeFits
<1> QED
  BY <1>2, <1>3, <1>7

LEMMA Grown ==
  ASSUME IsList(types), IsList(symbols), NEW ast, NEW done,
         ast.kind = "type" => IsList(ast.members),
         Typed(ast, done, Here).outcome = "ok"
  PROVE  LET e == Typed(ast, done, Here)
         IN /\ IsList(e.types) /\ Extends(e.types, types)
            /\ \A k \in DOMAIN e.types :
                 \/ k \in DOMAIN types
                 \/ Nameless(e.types[k])
                 \/ ast.kind = "type" /\ e.types[k].name = ast.name /\ k = e.thir.type + 1
            /\ IsList(e.symbols) /\ Extends(e.symbols, symbols)
            /\ \A k \in DOMAIN e.symbols : k \in DOMAIN symbols \/ Names(ast, e.symbols[k].name)
            /\ e.thir.kind = "function" <=> ast.kind = "function"
<1> DEFINE e   == Typed(ast, done, Here)
           new == [name |-> ast.name, thir |-> e.thir]
<1>0. Len(types) \in Nat /\ DOMAIN types = 1 .. Len(types) /\ DOMAIN symbols = 1 .. Len(symbols)
  BY ListFacts
<1>1. IsNamed(ast) /\ e.symbols = Append(symbols, new) =>
        /\ IsList(e.symbols) /\ Extends(e.symbols, symbols)
        /\ \A k \in DOMAIN e.symbols : k \in DOMAIN symbols \/ Names(ast, e.symbols[k].name)
  <2> SUFFICES ASSUME IsNamed(ast), e.symbols = Append(symbols, new)
               PROVE  /\ IsList(e.symbols) /\ Extends(e.symbols, symbols)
                      /\ \A k \in DOMAIN e.symbols : k \in DOMAIN symbols \/ Names(ast, e.symbols[k].name)
    OBVIOUS
  <2>1. new.name = ast.name
    OBVIOUS
  <2> HIDE DEF new, e
  <2>2. /\ IsList(Append(symbols, new)) /\ DOMAIN Append(symbols, new) = 1 .. Len(symbols) + 1
        /\ Append(symbols, new)[Len(symbols) + 1] = new
        /\ Extends(Append(symbols, new), symbols) /\ Len(symbols) \in Nat
    BY ListAppend, ListFacts, ExtendsAppend
  <2>3. \A k \in 1 .. Len(symbols) + 1 : k \in 1 .. Len(symbols) \/ k = Len(symbols) + 1
    BY <2>2
  <2> QED
    BY <1>0, <2>1, <2>2, <2>3 DEF Names
<1>2. Extends(types, types) /\ Extends(symbols, symbols)
  BY ListFacts DEF Extends
<1>3. CASE ~IsNamed(ast)
  <2>1. e.types = types /\ e.symbols = symbols /\ e.thir.kind # "function"
    BY <1>3, PlainTree
  <2> QED
    BY <1>2, <1>3, <2>1 DEF IsNamed
<1>4. CASE ast.kind = "variable"
  <2>1. e.types = types /\ e.symbols = Append(symbols, new) /\ e.thir.kind = "variable"
    BY <1>4, VariableTree
  <2>2. IsNamed(ast)
    BY <1>4 DEF IsNamed
  <2> HIDE DEF new
  <2> QED
    BY <1>1, <1>2, <1>4, <2>1, <2>2
<1>5. CASE ast.kind = "function"
  <2>1. /\ IsList(e.types) /\ Extends(e.types, types)
        /\ \A k \in DOMAIN e.types : k \in DOMAIN types \/ Nameless(e.types[k])
        /\ e.symbols = Append(symbols, new) /\ e.thir.kind = "function"
    BY <1>5, FunctionTree
  <2>2. IsNamed(ast)
    BY <1>5 DEF IsNamed
  <2> HIDE DEF new
  <2> QED
    BY <1>1, <1>5, <2>1, <2>2
<1>6. CASE ast.kind = "type"
  <2>1. /\ IsList(e.types) /\ Extends(e.types, types)
        /\ DOMAIN e.types = 1 .. Len(types) + 1 /\ e.thir.type = Len(types)
        /\ e.symbols = Append(symbols, new) /\ e.thir.kind = "type"
        /\ TypeFits(e.types, e.thir, ast)
    BY <1>6, TypeTree
  <2>2. IsNamed(ast)
    BY <1>6 DEF IsNamed
  <2> HIDE DEF new
  <2>3. ASSUME NEW k \in DOMAIN e.types, k \notin DOMAIN types
        PROVE  e.types[k].name = ast.name /\ k = e.thir.type + 1
    <3>1. k = e.thir.type + 1
      BY <1>0, <2>1, <2>3
    <3> QED
      BY <2>1, <3>1 DEF TypeFits, get_type
  <2> QED
    BY <1>1, <1>6, <2>1, <2>2, <2>3
<1> QED
  BY <1>3, <1>4, <1>5, <1>6 DEF IsNamed

\* What fits a table fits a longer one.
LEMMA FitsStay ==
  ASSUME NEW a, NEW b, IsList(a), IsList(b), Extends(b, a), NEW tree, NEW ast
  PROVE  /\ FunctionFits(a, tree, ast) => FunctionFits(b, tree, ast)
         /\ ParametersFit(a, tree, ast) => ParametersFit(b, tree, ast)
         /\ TypeFits(a, tree, ast) => TypeFits(b, tree, ast)
<1>1. DOMAIN a \subseteq DOMAIN b
  BY ListFacts DEF Extends
<1>2. \A id : id + 1 \in DOMAIN a => get_type(b, id) = get_type(a, id)
  BY DEF Extends, get_type
<1>3. FunctionFits(a, tree, ast) => FunctionFits(b, tree, ast)
  BY <1>1, <1>2 DEF FunctionFits
<1>4. ParametersFit(a, tree, ast) => ParametersFit(b, tree, ast)
  BY <1>1, <1>2 DEF ParametersFit
<1>5. TypeFits(a, tree, ast) => TypeFits(b, tree, ast)
  <2> SUFFICES ASSUME TypeFits(a, tree, ast)
               PROVE  TypeFits(b, tree, ast)
    OBVIOUS
  <2>1. tree.type + 1 \in DOMAIN a
    BY DEF TypeFits
  <2>2. get_type(b, tree.type) = get_type(a, tree.type)
    BY <1>2, <2>1
  <2>3. \A m \in DOMAIN get_type(a, tree.type).members :
          LET id == get_type(a, tree.type).members[m].type
          IN /\ id + 1 \in DOMAIN b
             /\ get_type(b, id) = get_type(a, id)
    BY <1>1, <1>2 DEF TypeFits
  <2> QED
    BY <1>1, <2>1, <2>2, <2>3 DEF TypeFits
<1> QED
  BY <1>3, <1>4, <1>5

-----------------------------------------------------------------------------
(***************************************************************************)
(* The nodes of the graph are nodes of the syntax tree                     *)
(***************************************************************************)

\* Every step of the compiler is one of the front end.
LEMMA Underlying == [CompilerNext]_<<vars, typer_vars>> => [FrontEndNext]_vars
BY DEF CompilerNext, FrontEndNext, Schedule, generate_thir_from_ast, OpenAst, CloseAst,
       TypeNode, RejectNode, GenerateThir, Generating, Generator!generate_thir_for_node

LEMMA TreeNodes ==
  ASSUME source \in Programs
  PROVE  /\ \A ast \in Asts[source] : IsSyntax(ast) /\ Range(Children(ast)) \subseteq Asts[source]
         /\ \A d \in DOMAIN source :
              source[d] \in Asts[source] /\ AstAt(source, <<d>>) = source[d]
         /\ \A path : IsAst(path) => AstAt(source, path) \in Asts[source]
<1>1. /\ \A ast \in Asts[source] : IsSyntax(ast) /\ Range(Children(ast)) \subseteq Asts[source]
      /\ Range(source) \subseteq Asts[source]
  BY SyntaxAssumption
<1>2. \A d \in DOMAIN source : source[d] \in Asts[source] /\ AstAt(source, <<d>>) = source[d]
  <2> TAKE d \in DOMAIN source
  <2>1. Len(<<d>>) = 1 /\ <<d>>[1] = d
    OBVIOUS
  <2>2. AstAt(source, <<d>>) = source[d]
    BY <2>1 DEF AstAt
  <2> QED
    BY <1>1, <2>2 DEF Range
<1>3. \A path : IsAst(path) => AstAt(source, path) \in Asts[source]
  BY <1>1, <1>2 DEF IsAst
<1> QED
  BY <1>1, <1>2, <1>3

\* The child of a node of the tree is one.
LEMMA ChildIs ==
  ASSUME source \in Programs, NEW path, NEW parent \in Asts[source],
         NEW k \in DOMAIN Children(parent), AstAt(source, path) = Children(parent)[k]
  PROVE  IsAst(path)
BY DEF IsAst, Range

LEMMA PathsDown ==
  ASSUME NEW d, NEW k
  PROVE  LET s == source[d].block[k]
         IN /\ AstAt(source, <<d, k>>) = s
            /\ AstAt(source, ValueOf(<<d, k>>)) = s.value
            /\ AstAt(source, LeftOf(<<d, k>>)) = s.left
            /\ AstAt(source, RightOf(<<d, k>>)) = s.right
            /\ AstAt(source, LeftOf(ValueOf(<<d, k>>))) = s.value.left
            /\ AstAt(source, RightOf(ValueOf(<<d, k>>))) = s.value.right
<1> DEFINE s == source[d].block[k]
           p == <<d, k>>
<1>1. IsList(p) /\ Len(p) = 2 /\ p[1] = d /\ p[2] = k
  <2>1. p \in Seq({d, k})
    OBVIOUS
  <2> QED
    BY <2>1, ListOf
<1> HIDE DEF p
<1>2. ASSUME NEW c
      PROVE  LET q == Down(p, c)
             IN IsList(q) /\ Len(q) = 3 /\ q[1] = d /\ q[2] = k /\ q[3] = c
  <2>1. PICK q : q = Down(p, c)
    OBVIOUS
  <2>2. /\ IsList(q) /\ Len(q) = Len(p) + 1 /\ q[Len(p) + 1] = c
        /\ \A j \in 1 .. Len(p) : q[j] = p[j]
    <3>1. IsList(p)
      BY <1>1
    <3> QED
      BY <2>1, <3>1, OneMore
  <2>3. 1 \in 1 .. 2 /\ 2 \in 1 .. 2 /\ 2 + 1 = 3
    OBVIOUS
  <2> QED
    BY <1>1, <2>1, <2>2, <2>3
<1>3. ASSUME NEW b, NEW c
      PROVE  LET q == Down(Down(p, b), c)
             IN Len(q) = 4 /\ q[1] = d /\ q[2] = k /\ q[3] = b /\ q[4] = c
  <2>1. PICK r : r = Down(p, b)
    OBVIOUS
  <2>2. IsList(r) /\ Len(r) = 3 /\ r[1] = d /\ r[2] = k /\ r[3] = b
    BY <1>2, <2>1
  <2>3. PICK q : q = Down(r, c)
    OBVIOUS
  <2>4. /\ Len(q) = Len(r) + 1 /\ q[Len(r) + 1] = c
        /\ \A j \in 1 .. Len(r) : q[j] = r[j]
    <3>1. IsList(r)
      BY <2>2
    <3> QED
      BY <2>3, <3>1, OneMore
  <2>5. 1 \in 1 .. 3 /\ 2 \in 1 .. 3 /\ 3 \in 1 .. 3 /\ 3 + 1 = 4
    OBVIOUS
  <2> QED
    BY <2>1, <2>2, <2>3, <2>4, <2>5
<1>4. /\ \A q : Len(q) = 2 => AstAt(source, q) = source[q[1]].block[q[2]]
      /\ \A q : Len(q) = 3 => AstAt(source, q) = Child(source[q[1]].block[q[2]], q[3])
      /\ \A q : Len(q) = 4 =>
           AstAt(source, q) = Child(Child(source[q[1]].block[q[2]], q[3]), q[4])
  BY DEF AstAt
<1>5. AstAt(source, p) = s /\ \A c : AstAt(source, Down(p, c)) = Child(s, c)
  BY <1>1, <1>2, <1>4
<1>6. \A b, c : AstAt(source, Down(Down(p, b), c)) = Child(Child(s, b), c)
  BY <1>3, <1>4
<1>7. \A ast : Child(ast, 0) = ast.value /\ Child(ast, 1) = ast.left /\ Child(ast, 2) = ast.right
  BY DEF Child
<1> HIDE DEF s
<1>8. /\ AstAt(source, p) = s
      /\ AstAt(source, ValueOf(p)) = s.value
      /\ AstAt(source, LeftOf(p)) = s.left
      /\ AstAt(source, RightOf(p)) = s.right
      /\ AstAt(source, LeftOf(ValueOf(p))) = s.value.left
      /\ AstAt(source, RightOf(ValueOf(p))) = s.value.right
  BY <1>5, <1>6, <1>7 DEF ValueOf, LeftOf, RightOf, Down
<1> QED
  BY <1>8 DEF p, s

AllAsts(uses) == \A u \in Range(uses) : u # NullPath => IsAst(u)

LEMMA ShortUses ==
  /\ AllAsts(<<>>)
  /\ \A p : (p # NullPath => IsAst(p)) => AllAsts(<<p>>)
  /\ \A p, q : IsAst(p) /\ IsAst(q) => AllAsts(<<p, q>>)
<1>1. Range(<<>>) = {}
  BY DEF Range
<1>2. \A p : Range(<<p>>) = {p}
  BY DEF Range
<1>3. \A p, q : Range(<<p, q>>) = {p, q}
  BY DEF Range
<1> QED
  BY <1>1, <1>2, <1>3 DEF AllAsts

\* What find_symbol finds is a node of the tree.
LEMMA SymbolIs ==
  ASSUME source \in Programs, NEW name
  PROVE  /\ LET p == find_program_symbol(source, name) IN p # NullPath => IsAst(p)
         /\ \A d \in DOMAIN source :
              LET p == find_symbol(source, d, name) IN p # NullPath => IsAst(p)
<1>1. \A p \in ProgramSymbols(source, name) : IsAst(p)
  BY DEF ProgramSymbols, IsAst
<1>2. ASSUME NEW d \in DOMAIN source, NEW p \in BlockSymbols(source, d, name)
      PROVE  IsAst(p)
  <2>1. PICK k \in Locals(source, d) : p = <<d, k>>
    BY DEF BlockSymbols
  <2>2. source[d].kind = "function" /\ k \in DOMAIN source[d].block
    BY <2>1 DEF Locals
  <2>3. Children(source[d]) = source[d].block
    BY <2>2 DEF Children
  <2>4. AstAt(source, p) = source[d].block[k]
    BY <2>1, PathsDown
  <2> QED
    BY <2>2, <2>3, <2>4, TreeNodes, ChildIs
<1> QED
  BY <1>1, <1>2 DEF find_program_symbol, find_symbol

\* What a statement of a block mentions.
LEMMA StatementUse ==
  ASSUME source \in Programs, NEW d \in DOMAIN source, source[d].kind = "function",
         NEW k \in DOMAIN source[d].block
  PROVE  LET s == source[d].block[k]
         IN /\ \A call : AllAsts(CallUse(d, call))
            /\ s.kind = "binary" => AllAsts(BinaryUse(<<d, k>>))
            /\ s.kind = "return" => AllAsts(ReturnUse(<<d, k>>, s))
            /\ s.kind = "variable" /\ s.value.kind = "binary" => AllAsts(BinaryUse(ValueOf(<<d, k>>)))
<1> DEFINE s == source[d].block[k]
<1>1. s \in Asts[source] /\ (s.value \in Range(Children(s)) => s.value \in Asts[source])
  <2>1. Children(source[d]) = source[d].block
    BY DEF Children
  <2>2. s \in Range(Children(source[d]))
    BY <2>1 DEF Range
  <2> QED
    BY <2>2, TreeNodes
<1>2. \A ast : ast.kind = "binary" =>
        ast.left \in Range(Children(ast)) /\ ast.right \in Range(Children(ast))
  <2> SUFFICES ASSUME NEW ast, ast.kind = "binary"
               PROVE  ast.left \in Range(Children(ast)) /\ ast.right \in Range(Children(ast))
    OBVIOUS
  <2>1. Children(ast) = <<ast.left, ast.right>>
    BY DEF Children
  <2> QED
    BY <2>1 DEF Range
<1>3. \A call : AllAsts(CallUse(d, call))
  BY SymbolIs, ShortUses DEF CallUse
<1>4. s.kind \in {"return", "variable"} /\ s.value # NoValue => s.value \in Range(Children(s))
  <2> SUFFICES ASSUME s.kind \in {"return", "variable"}, s.value # NoValue
               PROVE  s.value \in Range(Children(s))
    OBVIOUS
  <2>1. Children(s) = <<s.value>>
    BY DEF Children
  <2> QED
    BY <2>1 DEF Range
<1> HIDE DEF s
<1>5. /\ AstAt(source, ValueOf(<<d, k>>)) = s.value
      /\ AstAt(source, LeftOf(<<d, k>>)) = s.left
      /\ AstAt(source, RightOf(<<d, k>>)) = s.right
      /\ AstAt(source, LeftOf(ValueOf(<<d, k>>))) = s.value.left
      /\ AstAt(source, RightOf(ValueOf(<<d, k>>))) = s.value.right
  BY PathsDown DEF s
<1>6. s.kind = "binary" => AllAsts(BinaryUse(<<d, k>>))
  BY <1>1, <1>2, <1>5, ShortUses DEF BinaryUse, IsAst
<1>7. s.kind = "return" => AllAsts(ReturnUse(<<d, k>>, s))
  BY <1>1, <1>4, <1>5, ShortUses DEF ReturnUse, IsAst
<1>8. s.kind = "variable" /\ s.value.kind = "binary" => AllAsts(BinaryUse(ValueOf(<<d, k>>)))
  <2> SUFFICES ASSUME s.kind = "variable", s.value.kind = "binary"
               PROVE  AllAsts(BinaryUse(ValueOf(<<d, k>>)))
    OBVIOUS
  <2>1. s.value # NoValue
    BY DEF NoValue
  <2>2. s.value \in Asts[source]
    BY <1>1, <1>4, <2>1
  <2> QED
    BY <1>2, <1>5, <2>2, ShortUses DEF BinaryUse, IsAst
<1> QED
  BY <1>3, <1>6, <1>7, <1>8 DEF s

LEMMA BlockAsts ==
  ASSUME source \in Programs, NEW d \in DOMAIN source, source[d].kind = "function",
         IsList(source[d].block)
  PROVE  AllAsts(BlockUse(d))
<1> DEFINE block   == source[d].block
           handled == {k \in DOMAIN block : block[k].kind \in Handled}
<1>1. CASE handled = {}
  BY <1>1, ShortUses DEF BlockUse
<1>2. CASE handled # {}
  <2> DEFINE k == CHOOSE k \in handled : \A l \in handled : k <= l
             s == block[k]
  <2>1. BlockUse(d) = CASE s.kind = "variable"      -> VariableUse(d, <<d, k>>, s)
                        [] s.kind = "function_call" -> CallUse(d, s)
                        [] s.kind = "binary"        -> BinaryUse(<<d, k>>)
                        [] s.kind = "return"        -> ReturnUse(<<d, k>>, s)
    BY <1>2 DEF BlockUse
  <2>2. k \in DOMAIN block /\ s.kind \in Handled
    <3>1. \E l \in handled : \A m \in handled : l <= m
      <4>1. handled # {} /\ handled \subseteq DOMAIN block
        BY <1>2
      <4>2. DOMAIN block \subseteq Nat
        BY DEF IsList
      <4> HIDE DEF handled
      <4> QED
        BY <4>1, <4>2, Smallest
    <3>2. k \in handled
      BY <3>1
    <3> QED
      BY <3>2
  <2> HIDE DEF k
  <2>3. /\ \A call : AllAsts(CallUse(d, call))
        /\ s.kind = "binary" => AllAsts(BinaryUse(<<d, k>>))
        /\ s.kind = "return" => AllAsts(ReturnUse(<<d, k>>, s))
        /\ s.kind = "variable" /\ s.value.kind = "binary" => AllAsts(BinaryUse(ValueOf(<<d, k>>)))
    BY <2>2, StatementUse
  <2> HIDE DEF s
  <2>4. s.kind = "variable" => AllAsts(VariableUse(d, <<d, k>>, s))
    <3> SUFFICES ASSUME s.kind = "variable"
                 PROVE  AllAsts(VariableUse(d, <<d, k>>, s))
      OBVIOUS
    <3> DEFINE a == TypeUse(find_symbol(source, d, s.type))
               b == CASE s.value.kind = "function_call" -> CallUse(d, s.value)
                      [] s.value.kind = "binary"        -> BinaryUse(ValueOf(<<d, k>>))
                      [] OTHER                          -> <<>>
    <3>1. AllAsts(a) /\ ListOfPaths(a)
      BY SymbolIs, ShortUses, Found, ShortLists DEF TypeUse
    <3>2. AllAsts(b) /\ ListOfPaths(b)
      <4>1. ListOfPaths(BinaryUse(ValueOf(<<d, k>>))) /\ ListOfPaths(CallUse(d, s.value))
        BY ChildPaths, Found, ShortLists DEF BinaryUse, CallUse
      <4> QED
        BY <2>3, <4>1, ShortUses, ShortLists
    <3>3. VariableUse(d, <<d, k>>, s) = a \o b
      BY DEF VariableUse
    <3> HIDE DEF a, b
    <3>4. Range(a \o b) = Range(a) \cup Range(b)
      BY <3>1, <3>2, JoinedLists
    <3> QED
      BY <3>1, <3>2, <3>3, <3>4 DEF AllAsts
  <2> QED
    BY <2>1, <2>2, <2>3, <2>4 DEF Handled
<1> QED
  BY <1>1, <1>2

LEMMA SyntaxStep ==
  ASSUME Inv, SignatureInv, SyntaxInv, populate_dep_graph
  PROVE  SyntaxInv'
<1>0. source' = source /\ (\A path : IsAst(path)' <=> IsAst(path))
  <2>1. source' = source
    BY DEF populate_dep_graph, FunctionDeclaration, TypeDeclaration, OtherStatement,
           AddDependency, NullSymbol, EndStatement, Finish
  <2> QED
    BY <2>1 DEF IsAst
<1>1. IsRegistry(registry)
  BY DEF Inv, TypeOK, OneNodePerAst, IsRegistry
<1>2. ASSUME NEW path, IsAst(path), registry' = create_dep_node(path)
      PROVE  \A n \in DOMAIN registry' : IsAst(registry'[n])
  <2>1. /\ \A n \in DOMAIN registry : registry'[n] = registry[n]
        /\ \A n \in DOMAIN registry' : n \in DOMAIN registry \/ registry'[n] = path
    BY <1>1, <1>2, Created
  <2> QED
    BY <1>2, <2>1 DEF SyntaxInv
<1>3. ASSUME \A n \in DOMAIN registry' : IsAst(registry'[n]), AllAsts(pending')
      PROVE  SyntaxInv'
  BY <1>0, <1>3 DEF SyntaxInv, AllAsts
<1>4. AllAsts(pending) /\ \A n \in DOMAIN registry : IsAst(registry[n])
  BY DEF SyntaxInv, AllAsts
<1>5. \A u : (\E name : u = find_program_symbol(source, name)) => (u # NullPath => IsAst(u))
  BY SymbolIs DEF SyntaxInv
<1>6. CASE FunctionDeclaration
  <2>1. /\ statement \in DOMAIN source /\ source[statement].kind = "function"
        /\ registry' = create_dep_node(<<statement>>) /\ IsAst(<<statement>>)
        /\ pending' = ParameterUse(statement) \o
             (IF source[statement].is_extern THEN <<>> ELSE BlockUse(statement))
    BY <1>6, StatementNumber DEF FunctionDeclaration, IsAst
  <2>2. /\ ListOfPaths(ParameterUse(statement)) /\ AllAsts(ParameterUse(statement))
    BY <1>5, <2>1, SignatureUse DEF SignatureInv, AllAsts
  <2>3. IsList(source[statement].block)
    BY <2>1 DEF SignatureInv, IsTree
  <2> DEFINE body == IF source[statement].is_extern THEN <<>> ELSE BlockUse(statement)
  <2>4. ListOfPaths(body) /\ AllAsts(body)
    BY <2>1, <2>3, BlockPaths, BlockAsts, ShortLists, ShortUses DEF SyntaxInv
  <2>5. pending' = ParameterUse(statement) \o body
    BY <2>1
  <2> HIDE DEF body
  <2>6. Range(pending') = Range(ParameterUse(statement)) \cup Range(body)
    BY <2>2, <2>4, <2>5, JoinedLists
  <2>7. AllAsts(pending')
    BY <2>2, <2>4, <2>6 DEF AllAsts
  <2> QED
    BY <1>2, <1>3, <2>1, <2>7
<1>7. CASE TypeDeclaration
  <2>1. /\ statement \in DOMAIN source /\ source[statement].kind = "type"
        /\ registry' = create_dep_node(<<statement>>) /\ IsAst(<<statement>>)
        /\ pending' = MemberUse(statement)
    BY <1>7, StatementNumber DEF TypeDeclaration, IsAst
  <2>2. AllAsts(pending')
    BY <1>5, <2>1, SignatureUse DEF SignatureInv, AllAsts
  <2> QED
    BY <1>2, <1>3, <2>1, <2>2
<1>8. CASE AddDependency
  <2>1. /\ pending # <<>> /\ Head(pending) # NullPath
        /\ registry' = create_dep_node(Head(pending)) /\ pending' = Tail(pending)
    BY <1>8 DEF AddDependency
  <2>2. Head(pending) \in Range(pending) /\ Range(Tail(pending)) \subseteq Range(pending)
    BY <2>1, HeadAndTail DEF SignatureInv
  <2> QED
    BY <1>2, <1>3, <1>4, <2>1, <2>2 DEF AllAsts
<1>9. CASE OtherStatement \/ NullSymbol \/ EndStatement \/ Finish
  <2>1. registry' = registry /\ pending' = pending
    BY <1>9 DEF OtherStatement, NullSymbol, EndStatement, Finish
  <2> QED
    BY <1>3, <1>4, <2>1
<1> QED
  BY <1>6, <1>7, <1>8, <1>9 DEF populate_dep_graph

-----------------------------------------------------------------------------
(***************************************************************************)
(* The tables grow                                                         *)
(***************************************************************************)

\* What has been found is found again, and the trees go on fitting.
LEMMA PassedStays ==
  ASSUME IsList(symbols), IsList(symbols'), Extends(symbols', symbols)
  PROVE  \A ast : (Called(ast) => Called(ast)') /\ (Passed(ast) => Passed(ast)')
<1>1. \A name : HasName(symbols, name) => HasName(symbols', name)
  BY KeepsName
<1> QED
  BY <1>1 DEF Called, Passed

LEMMA TreeStays ==
  ASSUME IsList(types), IsList(types'), Extends(types', types),
         IsList(symbols), IsList(symbols'), Extends(symbols', symbols),
         source' = source, registry' = registry,
         NEW k, program'[k] = program[k], thir'[k] = thir[k], TreeFits(k)
  PROVE  TreeFits(k)'
<1>1. PICK ast : ast = DeclarationOf(k)
  OBVIOUS
<1>2. DeclarationOf(k)' = ast
  BY <1>1 DEF DeclarationOf
<1>3. PICK tree : tree = thir[k]
  OBVIOUS
<1>4. /\ tree.kind = "function" <=> ast.kind = "function"
      /\ ast.kind = "function" =>
           /\ FunctionFits(types, tree, ast)
           /\ Len(registry[program[k]]) = 1 => ParametersFit(types, tree, ast)
           /\ \A s \in Range(ast.block) : Passed(s)
      /\ ast.kind = "type" => TypeFits(types, tree, ast)
  BY <1>1, <1>3 DEF TreeFits
<1>5. /\ FunctionFits(types, tree, ast) => FunctionFits(types', tree, ast)
      /\ ParametersFit(types, tree, ast) => ParametersFit(types', tree, ast)
      /\ TypeFits(types, tree, ast) => TypeFits(types', tree, ast)
  BY FitsStay
<1>6. \A name : IsTypeName(name)' <=> IsTypeName(name)
  BY DEF IsTypeName
<1>7. \A s : Passed(s) => Passed(s)'
  BY PassedStays
<1>8. /\ ast.kind = "function" =>
           /\ FunctionFits(types', tree, ast)
           /\ Len(registry'[program'[k]]) = 1 => ParametersFit(types', tree, ast)
           /\ \A s \in Range(ast.block) : Passed(s)'
      /\ ast.kind = "type" => TypeFits(types', tree, ast)
  BY <1>4, <1>5, <1>7
<1>9. thir'[k] = tree
  BY <1>3
<1> QED
  BY <1>2, <1>4, <1>6, <1>8, <1>9 DEF TreeFits, ParametersFit

\* Only the block of a function holds a declaration.
LEMMA InBlock ==
  ASSUME source \in Programs, NEW parent \in Asts[source], NEW ast \in Range(Children(parent)),
         ast.kind = "type"
  PROVE  DeclaredInBlock(ast.name)
<1>1. IsNamed(ast)
  BY DEF IsNamed
<1>2. parent.kind = "function"
  BY <1>1, TreeNodes DEF IsSyntax
<1>3. Children(parent) = parent.block
  BY <1>2 DEF Children
<1> QED
  BY <1>2, <1>3 DEF DeclaredInBlock

\* The call that has all its trees.
LEMMA TheInnermost ==
  ASSUME SyntaxInv, Calling, typing # <<>>
  PROVE  /\ Len(typing) \in Nat /\ Len(typing) >= 1 /\ DOMAIN typing = 1 .. Len(typing)
         /\ CallFits(Len(typing))
         /\ Innermost.ast \in Asts[source] /\ IsSyntax(Innermost.ast)
         /\ IsList(Children(Innermost.ast)) /\ IsList(Innermost.done)
         /\ Range(Children(Innermost.ast)) \subseteq Asts[source]
<1>1. IsList(typing)
  BY DEF Calling
<1>2. Len(typing) \in Nat /\ DOMAIN typing = 1 .. Len(typing)
  BY <1>1, ListFacts
<1>3. Len(typing) # 0
  BY <1>1 DEF IsList
<1>4. Len(typing) \in DOMAIN typing
  BY <1>2, <1>3
<1>5. CallFits(Len(typing))
  BY <1>4 DEF Calling
<1>6. Innermost.ast \in Asts[source] /\ IsList(Innermost.done)
  BY <1>5 DEF CallFits, Innermost
<1>7. IsSyntax(Innermost.ast) /\ Range(Children(Innermost.ast)) \subseteq Asts[source]
  BY <1>6, TreeNodes DEF SyntaxInv
<1>8. IsList(Children(Innermost.ast))
  BY <1>7 DEF IsSyntax
<1> QED
  BY <1>2, <1>3, <1>5, <1>6, <1>7, <1>8

LEMMA MadeTables ==
  ASSUME SyntaxInv, Tables, Calling, Complete, Made.outcome = "ok",
         types' = Made.types, symbols' = Made.symbols
  PROVE  /\ IsList(types') /\ Extends(types', types) /\ Extends(types', initialize_type_system)
         /\ \A k \in DOMAIN types' :
              \/ k \in DOMAIN types /\ types'[k] = types[k]
              \/ Nameless(types'[k])
              \/ /\ Innermost.ast.kind = "type" /\ types'[k].name = Innermost.ast.name
                 /\ k = Made.thir.type + 1
         /\ IsList(symbols') /\ Extends(symbols', symbols)
         /\ \A k \in DOMAIN symbols' : DeclaredSomewhere(symbols'[k].name)
<1>1. PICK ast, done : ast = Innermost.ast /\ done = Innermost.done
  OBVIOUS
<1>2. Made = Typed(ast, done, Here)
  BY <1>1 DEF Made, Here
<1>3. ast \in Asts[source] /\ (ast.kind = "type" => IsList(ast.members))
  BY <1>1, TheInnermost DEF Complete, IsSyntax
<1>4. /\ IsList(types') /\ Extends(types', types)
      /\ \A k \in DOMAIN types' :
           \/ k \in DOMAIN types
           \/ Nameless(types'[k])
           \/ ast.kind = "type" /\ types'[k].name = ast.name /\ k = Made.thir.type + 1
      /\ IsList(symbols') /\ Extends(symbols', symbols)
      /\ \A k \in DOMAIN symbols' : k \in DOMAIN symbols \/ Names(ast, symbols'[k].name)
  BY <1>2, <1>3, Grown DEF Tables
<1>5. /\ \A k \in DOMAIN types : types'[k] = types[k]
      /\ \A k \in DOMAIN symbols : symbols'[k] = symbols[k]
  BY <1>4 DEF Extends
<1>6. Extends(types', initialize_type_system)
  <2>1. IsList(initialize_type_system)
    <3>1. initialize_type_system \in Seq(Range(initialize_type_system))
      <4> DEFINE S == {Builtin("void"), Builtin("i32"), Builtin("f32"), Builtin("String")}
      <4>1. initialize_type_system \in Seq(S)
        BY DEF initialize_type_system
      <4> QED
        BY <4>1, OwnElements
    <3> QED
      BY <3>1, ListOf
  <2> QED
    BY <1>4, <2>1, ExtendsMore DEF Tables
<1>7. \A k \in DOMAIN symbols' : DeclaredSomewhere(symbols'[k].name)
  BY <1>3, <1>4, <1>5 DEF Tables, DeclaredSomewhere
<1> QED
  BY <1>1, <1>4, <1>5, <1>6, <1>7

\* A call that is not the innermost one waits for a child of its node.
LEMMA Callers ==
  ASSUME SyntaxInv, Calling, NEW n \in DOMAIN typing, n + 1 \in DOMAIN typing
  PROVE  /\ typing[n].ast \in Asts[source]
         /\ typing[n + 1].ast \in Range(Children(typing[n].ast))
<1>1. CallFits(n) /\ Len(typing[n].done) < Len(Children(typing[n].ast))
      /\ typing[n + 1].ast = Children(typing[n].ast)[Len(typing[n].done) + 1]
  BY DEF Calling
<1>2. typing[n].ast \in Asts[source] /\ IsList(typing[n].done)
  BY <1>1 DEF CallFits
<1>3. IsList(Children(typing[n].ast))
  BY <1>2, TreeNodes DEF SyntaxInv, IsSyntax
<1>4. Len(typing[n].done) + 1 \in DOMAIN Children(typing[n].ast)
  <2>1. Len(typing[n].done) \in Nat
    BY <1>2, ListFacts
  <2>2. /\ Len(Children(typing[n].ast)) \in Nat
        /\ DOMAIN Children(typing[n].ast) = 1 .. Len(Children(typing[n].ast))
    BY <1>3, ListFacts
  <2> QED
    BY <1>1, <2>1, <2>2
<1> QED
  BY <1>1, <1>2, <1>4 DEF Range

LEMMA OriginStays ==
  ASSUME source' = source, registry' = registry, NEW k,
         types'[k] = types[k], Origin(k), DOMAIN program \subseteq DOMAIN program',
         \A j \in DOMAIN program : program'[j] = program[j] /\ thir'[j] = thir[j]
  PROVE  Origin(k)'
BY DEF Origin, DeclaredInBlock

LEMMA CloseTables ==
  ASSUME SyntaxInv, Tables, Calling, CloseAst
  PROVE  Tables'
<1>1. /\ Complete /\ Len(typing) > 1 /\ Made.outcome = "ok"
      /\ types' = Made.types /\ symbols' = Made.symbols
      /\ source' = source /\ registry' = registry /\ program' = program /\ thir' = thir
  BY DEF CloseAst, vars, builder_vars, generator_vars
<1>2. /\ IsList(types') /\ Extends(types', types) /\ Extends(types', initialize_type_system)
      /\ \A k \in DOMAIN types' :
           \/ k \in DOMAIN types /\ types'[k] = types[k]
           \/ Nameless(types'[k])
           \/ Innermost.ast.kind = "type" /\ types'[k].name = Innermost.ast.name
      /\ IsList(symbols') /\ Extends(symbols', symbols)
      /\ \A k \in DOMAIN symbols' : DeclaredSomewhere(symbols'[k].name)
  BY <1>1, MadeTables
<1>3. Innermost.ast.kind = "type" => DeclaredInBlock(Innermost.ast.name)
  <2>1. Len(typing) \in Nat /\ DOMAIN typing = 1 .. Len(typing)
    BY <1>1, TheInnermost DEF Complete
  <2>2. Len(typing) - 1 \in DOMAIN typing /\ (Len(typing) - 1) + 1 = Len(typing)
        /\ Len(typing) \in DOMAIN typing
    BY <1>1, <2>1
  <2>3. PICK n \in DOMAIN typing : n + 1 = Len(typing) /\ n + 1 \in DOMAIN typing
    BY <2>2
  <2>4. typing[n].ast \in Asts[source] /\ Innermost.ast \in Range(Children(typing[n].ast))
    BY <2>3, Callers DEF Innermost
  <2> QED
    BY <2>4, InBlock DEF SyntaxInv
<1>4. \A k \in DOMAIN types' : Origin(k)'
  <2>1. \A k : Origin(k) /\ types'[k] = types[k] => Origin(k)'
    BY <1>1, OriginStays
  <2>2. \A name : DeclaredInBlock(name)' <=> DeclaredInBlock(name)
    BY <1>1 DEF DeclaredInBlock
  <2>3. \A k : DeclaredInBlock(types'[k].name) => Origin(k)'
    BY <2>2 DEF Origin
  <2>4. \A k : Nameless(types'[k]) => Origin(k)'
    BY DEF Origin
  <2> QED
    BY <1>2, <1>3, <2>1, <2>3, <2>4 DEF Tables
<1>5. \A name : DeclaredSomewhere(name)' <=> DeclaredSomewhere(name)
  BY <1>1 DEF DeclaredSomewhere
<1>6. \A k \in DOMAIN program' : TreeFits(k)'
  <2>1. \A k \in DOMAIN program : TreeFits(k)
    BY DEF Tables
  <2>2. IsList(types) /\ IsList(symbols)
    BY DEF Tables
  <2>3. \A k : TreeFits(k) => TreeFits(k)'
    BY <1>1, <1>2, <2>2, TreeStays
  <2> QED
    BY <1>1, <2>1, <2>3
<1> QED
  BY <1>1, <1>2, <1>4, <1>5, <1>6 DEF Tables

\* The node the generator is at is one of the tree.
LEMMA TopIsNode ==
  ASSUME FrontEndInv, SyntaxInv, Generating, stack # <<>>
  PROVE  /\ Generator!Top.node \in DOMAIN registry
         /\ IsAst(registry[Generator!Top.node])
         /\ AstAt(source, registry[Generator!Top.node]) \in Asts[source]
<1>1. Inv /\ G!Inv
  BY DEF FrontEndInv, Generating
<1>2. G!TypeOK /\ G!OnlyNeeded
  BY <1>1 DEF G!Inv
<1>3. Len(stack) \in DOMAIN stack
  BY <1>2, G!TopFrame, GeneratorAssumptions
<1>4. Generator!Top.node \in G!Needed
  BY <1>2, <1>3 DEF G!OnlyNeeded, Generator!Top
<1>5. Generator!Top.node \in DOMAIN registry
  BY <1>1, <1>4, NeededAreNodes
<1>6. IsAst(registry[Generator!Top.node])
  BY <1>5 DEF SyntaxInv
<1> QED
  BY <1>5, <1>6, TreeNodes DEF SyntaxInv

\* The types of the program that a function names are in the table before it.
LEMMA BuiltinIsThere ==
  ASSUME Tables, NEW name \in BuiltinNames
  PROVE  HasName(types, name)
<1> DEFINE first == initialize_type_system
<1>1. HasName(first, name)
  <2>1. /\ 1 \in DOMAIN first /\ first[1] = Builtin("void")
        /\ 2 \in DOMAIN first /\ first[2] = Builtin("i32")
        /\ 3 \in DOMAIN first /\ first[3] = Builtin("f32")
        /\ 4 \in DOMAIN first /\ first[4] = Builtin("String")
    BY DEF initialize_type_system
  <2>2. \A n : Builtin(n).name = n
    BY DEF Builtin
  <2> HIDE DEF first
  <2> QED
    BY <2>1, <2>2 DEF HasName, BuiltinNames
<1>2. Extends(types, first) /\ IsList(types)
  BY DEF Tables
<1>3. DOMAIN first \subseteq DOMAIN types
  <2>1. Len(first) = 4 /\ DOMAIN first = 1 .. 4
    BY DEF initialize_type_system
  <2> HIDE DEF first
  <2> QED
    BY <1>2, <2>1, ListFacts DEF Extends
<1> HIDE DEF first
<1> QED
  BY <1>1, <1>2, <1>3 DEF HasName, Extends

LEMMA DeclaredIsThere ==
  ASSUME SyntaxInv, Tables, NEW e \in DOMAIN source, source[e].kind = "type",
         NEW j \in DOMAIN program, registry[program[j]] = <<e>>
  PROVE  HasName(types, source[e].name)
<1>1. DeclarationOf(j) = source[e]
  BY TreeNodes DEF DeclarationOf, SyntaxInv
<1>2. TypeFits(types, thir[j], source[e])
  BY <1>1 DEF Tables, TreeFits
<1> QED
  BY <1>2 DEF TypeFits, HasName, get_type

\* The named parameters of a function are some of its parameters.
LEMMA NamedIs ==
  ASSUME NEW ast, IsList(ast.parameters)
  PROVE  \A p \in DOMAIN NamedParameters(ast) : NamedParameters(ast)[p] \in Range(ast.parameters)
<1> DEFINE ps == ast.parameters
           S  == Range(ps)
           own(k) == IF ps[k] = Vararg THEN <<>> ELSE <<ps[k]>>
           ss == [k \in DOMAIN ps |-> own(k)]
<1>1. Len(ps) \in Nat /\ DOMAIN ps = 1 .. Len(ps)
  BY ListFacts
<1>2. \A k \in DOMAIN ps : own(k) \in Seq(S)
  <2> TAKE k \in DOMAIN ps
  <2>1. ps[k] \in S
    BY DEF Range
  <2> HIDE DEF S
  <2>2. <<>> \in Seq(S) /\ <<ps[k]>> \in Seq(S)
    BY <2>1
  <2> QED
    BY <2>2
<1>3. NamedParameters(ast) = FlattenSeq(ss)
  BY DEF NamedParameters
<1> HIDE DEF S, own
<1>4. ss \in Seq(Seq(S))
  BY <1>1, <1>2
<1> HIDE DEF ss
<1>5. NamedParameters(ast) \in Seq(S)
  BY <1>3, <1>4, FlattenElements
<1> QED
  BY <1>5 DEF S

\* What one call of generate_thir_from_ast on a node of the graph adds to the program.
LEMMA NodeGrows ==
  ASSUME FrontEndInv, Tables, TypeNode
  PROVE  LET L == Len(program)
         IN /\ L \in Nat /\ DOMAIN program = 1 .. L /\ DOMAIN thir = 1 .. L
            /\ DOMAIN program' = 1 .. L + 1 /\ Len(program') = L + 1
            /\ \A k \in 1 .. L : program'[k] = program[k] /\ thir'[k] = thir[k]
            /\ program'[L + 1] = Generator!Top.node
            /\ IsList(thir') /\ Len(thir') = L + 1 /\ thir'[L + 1] = Made.thir
<1>1. Generator!GenerateNode /\ Generating /\ thir' = Append(thir, Made.thir)
  BY DEF TypeNode
<1>2. G!TypeOK
  BY <1>1 DEF FrontEndInv, Generating, G!Inv
<1>3. G!GenerateNode /\ G!Top = Generator!Top
  BY <1>1 DEF G!GenerateNode, Generator!GenerateNode, G!Top, Generator!Top, G!Halted,
              Generator!Halted, G!inputs, Generator!inputs
<1>4. /\ Len(program) \in Nat /\ DOMAIN program = 1 .. Len(program)
      /\ DOMAIN program' = 1 .. Len(program) + 1
      /\ \A k \in 1 .. Len(program) : program'[k] = program[k]
      /\ program'[Len(program) + 1] = G!Top.node
  BY <1>2, <1>3, G!ProgramGrows, GeneratorAssumptions
<1>5. Len(program') = Len(program) + 1
  <2>1. program' = Append(program, G!Top.node) /\ program \in Seq(Node)
    BY <1>2, <1>3 DEF G!GenerateNode, G!TypeOK
  <2>2. G!Top.node \in Node
    BY <1>1, <1>2, <1>3, G!TopFrame, GeneratorAssumptions DEF G!GenerateNode
  <2> QED
    BY <2>1, <2>2
<1>6. IsList(thir) /\ Len(thir) = Len(program)
  BY DEF Tables
<1>7. DOMAIN thir = 1 .. Len(thir)
  BY <1>6, ListFacts
<1>8. /\ IsList(thir') /\ Len(thir') = Len(thir) + 1
      /\ \A k \in 1 .. Len(thir) : thir'[k] = thir[k]
      /\ thir'[Len(thir) + 1] = Made.thir
  BY <1>1, <1>6, ListAppend
<1> QED
  BY <1>3, <1>4, <1>5, <1>6, <1>7, <1>8

\* The types that the parameters of a function of the program name are in the table.
LEMMA SignatureIsThere ==
  ASSUME FrontEndInv, SyntaxInv, Tables, SignatureTypesComeFirst', TypeNode,
         NEW d \in DOMAIN source, registry[Generator!Top.node] = <<d>>,
         source[d].kind = "function",
         NEW name \in Range(source[d].parameters), IsTypeName(name)
  PROVE  HasName(types, name)
<1>1. CASE name \in BuiltinNames
  BY <1>1, BuiltinIsThere
<1>2. CASE name \notin BuiltinNames
  <2>1. PICK e \in DOMAIN source : source[e].kind = "type" /\ source[e].name = name
    BY <1>2 DEF IsTypeName
  <2>2. e # d /\ IsNamed(source[e])
    BY <2>1 DEF IsNamed
  <2>3. /\ source' = source /\ registry' = registry
    BY DEF TypeNode, builder_vars
  <2>4. PICK L \in Nat : /\ DOMAIN program = 1 .. L /\ DOMAIN program' = 1 .. L + 1
                        /\ program'[L + 1] = Generator!Top.node
                        /\ (\A k \in 1 .. L : program'[k] = program[k])
    BY NodeGrows
  <2>5. PICK k : k = L + 1
    OBVIOUS
  <2>6. /\ k \in DOMAIN program' /\ 1 .. k - 1 = 1 .. L
        /\ Len(registry'[program'[k]]) = 1 /\ registry'[program'[k]][1] = d
    <3>1. registry'[program'[k]] = <<d>>
      BY <2>3, <2>4, <2>5
    <3>2. k \in 1 .. L + 1 /\ k - 1 = L
      BY <2>4, <2>5
    <3> QED
      BY <2>4, <3>1, <3>2
  <2>7. GeneratedBefore(<<e>>, k)'
    BY <2>1, <2>2, <2>3, <2>6 DEF SignatureTypesComeFirst
  <2>8. PICK j \in 1 .. L : registry'[program'[j]] = <<e>>
    BY <2>6, <2>7 DEF GeneratedBefore
  <2>9. registry[program[j]] = <<e>>
    BY <2>3, <2>4, <2>8
  <2> QED
    BY <2>1, <2>4, <2>9, DeclaredIsThere
<1> QED
  BY <1>1, <1>2

\* The node that generate_thir_for_node has typed: the calls have come back to it,
\* and all that it calls has been found.
LEMMA NodeTyped ==
  ASSUME FrontEndInv, SyntaxInv, Calling, TypeNode
  PROVE  LET ast == Innermost.ast
         IN /\ ast = AstAt(source, registry[Generator!Top.node])
            /\ IsAst(registry[Generator!Top.node])
            /\ ast \in Asts[source]
            /\ \A s \in Range(Children(ast)) : Passed(s)
<1>1. Complete /\ typing # <<>> /\ Len(typing) = 1 /\ Generating
  BY DEF TypeNode, Complete
<1>2. stack # <<>> /\ Innermost.ast = AstAt(source, registry[Generator!Top.node])
  BY <1>1 DEF Calling, Innermost
<1>3. IsAst(registry[Generator!Top.node])
  BY <1>1, <1>2, TopIsNode
<1>4. CallFits(Len(typing)) /\ Innermost.ast \in Asts[source] /\ IsList(Children(Innermost.ast))
  BY <1>1, TheInnermost
<1>5. DOMAIN Children(Innermost.ast) = 1 .. Len(Children(Innermost.ast))
  BY <1>4, ListFacts
<1>6. \A j \in DOMAIN Children(Innermost.ast) : Passed(Children(Innermost.ast)[j])
  BY <1>1, <1>4, <1>5 DEF CallFits, Complete, Innermost
<1> QED
  BY <1>2, <1>3, <1>4, <1>6 DEF Range

\* The tree it adds fits the declaration.
LEMMA NodeFits ==
  ASSUME FrontEndInv, SyntaxInv, Tables, Calling, SignatureTypesComeFirst', TypeNode,
         NEW k, k = Len(program) + 1
  PROVE  TreeFits(k)'
<1>1. PICK n : n = Generator!Top.node
  OBVIOUS
<1>2. /\ Complete /\ Made.outcome = "ok" /\ types' = Made.types /\ symbols' = Made.symbols
      /\ source' = source /\ registry' = registry
  BY DEF TypeNode, builder_vars
<1>3. program'[k] = n /\ thir'[k] = Made.thir
  BY <1>1, NodeGrows
<1>4. PICK ast, done : ast = Innermost.ast /\ done = Innermost.done
  OBVIOUS
<1>5. /\ ast = AstAt(source, registry[n]) /\ IsAst(registry[n]) /\ ast \in Asts[source]
      /\ \A s \in Range(Children(ast)) : Passed(s)
  BY <1>1, <1>4, NodeTyped
<1>6. PICK tree : tree = Made.thir
  OBVIOUS
<1>7. Made = Typed(ast, done, Here)
  BY <1>4 DEF Made, Here
<1>8. IsList(types) /\ IsList(symbols) /\ (ast.kind = "type" => IsList(ast.members))
  BY <1>5, TreeNodes DEF Tables, SyntaxInv, IsSyntax
<1>9. IsList(types') /\ Extends(types', types) /\ IsList(symbols') /\ Extends(symbols', symbols)
  BY <1>2, MadeTables
<1>10. tree.kind = "function" <=> ast.kind = "function"
  BY <1>2, <1>6, <1>7, <1>8, Grown
<1>11. ASSUME ast.kind = "function"
       PROVE  /\ FunctionFits(types', tree, ast)
              /\ \A p \in DOMAIN NamedParameters(ast) :
                   tree.parameters[p] = ParameterType(types, NamedParameters(ast)[p])
              /\ Children(ast) = ast.block
  BY <1>2, <1>6, <1>7, <1>8, <1>11, FunctionTree DEF Children
<1>12. ASSUME ast.kind = "type"
       PROVE  TypeFits(types', tree, ast)
  BY <1>2, <1>6, <1>7, <1>8, <1>12, TypeTree
<1>13. ASSUME ast.kind = "function", Len(registry[n]) = 1
       PROVE  ParametersFit(types', tree, ast)
  <2>1. PICK d \in DOMAIN source : registry[n] = <<d>>
    <3>1. n \in DOMAIN registry
      BY <1>1, <1>2, TopIsNode DEF TypeNode, Generator!GenerateNode
    <3>2. IsPath(registry[n])
      BY <3>1 DEF FrontEndInv, SignatureInv
    <3>3. registry[n] # NullPath
      BY <1>13 DEF NullPath
    <3>4. ~(Len(registry[n]) > 1)
      BY <1>13
    <3> QED
      BY <3>2, <3>3, <3>4, Zenon DEF IsPath
  <2>2. ast = source[d]
    BY <1>5, <2>1, TreeNodes DEF SyntaxInv
  <2>3. IsList(ast.parameters)
    BY <1>13, <2>2 DEF FrontEndInv, SignatureInv, IsTree
  <2>4. ASSUME NEW p \in DOMAIN NamedParameters(ast), IsTypeName(NamedParameters(ast)[p])
        PROVE  /\ tree.parameters[p] + 1 \in DOMAIN types'
               /\ get_type(types', tree.parameters[p]).name = NamedParameters(ast)[p]
    <3>1. PICK name : name = NamedParameters(ast)[p]
      OBVIOUS
    <3>2. name \in Range(source[d].parameters) /\ IsTypeName(name)
      BY <2>2, <2>3, <2>4, <3>1, NamedIs
    <3>3. HasName(types, name)
      BY <1>1, <1>13, <2>1, <2>2, <3>2, SignatureIsThere
    <3>4. /\ find_type(types, name) + 1 \in DOMAIN types
          /\ get_type(types, find_type(types, name)).name = name
          /\ find_type(types, name) # NoType
      BY <1>8, <3>3, FoundType
    <3>5. tree.parameters[p] = find_type(types, name)
      BY <1>11, <1>13, <3>1, <3>4 DEF ParameterType
    <3>6. DOMAIN types \subseteq DOMAIN types' /\ \A j \in DOMAIN types : types'[j] = types[j]
      BY <1>8, <1>9, ListFacts DEF Extends
    <3> QED
      BY <3>1, <3>4, <3>5, <3>6 DEF get_type
  <2> QED
    BY <2>4 DEF ParametersFit
<1>14. \A s : Passed(s) => Passed(s)'
  BY <1>8, <1>9, PassedStays
<1>15. DeclarationOf(k)' = ast
  BY <1>2, <1>3, <1>5 DEF DeclarationOf
<1>16. \A name : IsTypeName(name)' <=> IsTypeName(name)
  BY <1>2 DEF IsTypeName
<1>17. thir'[k] = tree /\ registry'[program'[k]] = registry[n]
  BY <1>2, <1>3, <1>6
<1> QED
  BY <1>5, <1>10, <1>11, <1>12, <1>13, <1>14, <1>15, <1>16, <1>17 DEF TreeFits, ParametersFit

LEMMA NodeTables ==
  ASSUME FrontEndInv, SyntaxInv, Tables, Calling, SignatureTypesComeFirst', TypeNode
  PROVE  Tables'
<1>1. /\ Complete /\ Made.outcome = "ok" /\ types' = Made.types /\ symbols' = Made.symbols
      /\ source' = source /\ registry' = registry
  BY DEF TypeNode, builder_vars
<1>2. PICK L \in Nat :
        /\ L = Len(program) /\ DOMAIN program = 1 .. L /\ DOMAIN thir = 1 .. L
        /\ DOMAIN program' = 1 .. L + 1 /\ Len(program') = L + 1
        /\ program'[L + 1] = Generator!Top.node
        /\ IsList(thir') /\ Len(thir') = L + 1 /\ thir'[L + 1] = Made.thir
        /\ (\A j \in 1 .. L : program'[j] = program[j] /\ thir'[j] = thir[j])
  BY NodeGrows
<1>3. /\ IsList(types') /\ Extends(types', types) /\ Extends(types', initialize_type_system)
      /\ IsList(symbols') /\ Extends(symbols', symbols)
      /\ \A k \in DOMAIN symbols' : DeclaredSomewhere(symbols'[k].name)
  BY <1>1, MadeTables
<1>4. \A k \in DOMAIN types' :
        \/ k \in DOMAIN types /\ types'[k] = types[k]
        \/ Nameless(types'[k])
        \/ /\ Innermost.ast.kind = "type" /\ types'[k].name = Innermost.ast.name
           /\ k = Made.thir.type + 1
  BY <1>1, MadeTables
<1>5. DOMAIN program \subseteq DOMAIN program' /\ L + 1 \in DOMAIN program'
  BY <1>2
<1>6. ASSUME NEW k, Innermost.ast.kind = "type", types'[k].name = Innermost.ast.name,
             k = Made.thir.type + 1
      PROVE  Origin(k)'
  <2>1. PICK ast : ast = Innermost.ast
    OBVIOUS
  <2>2. ast = AstAt(source, registry[Generator!Top.node]) /\ IsAst(registry[Generator!Top.node])
    BY <2>1, NodeTyped
  <2>3. CASE \E d \in DOMAIN source : registry[Generator!Top.node] = <<d>>
    <3>1. PICK d \in DOMAIN source : registry[Generator!Top.node] = <<d>>
      BY <2>3
    <3>2. ast = source[d]
      BY <2>2, <3>1, TreeNodes DEF SyntaxInv
    <3>3. /\ registry'[program'[L + 1]] = <<d>> /\ source'[d].kind = "type"
          /\ types'[k].name = source'[d].name /\ k = thir'[L + 1].type + 1
      BY <1>1, <1>2, <1>6, <2>1, <3>1, <3>2
    <3>4. d \in DOMAIN source'
      BY <1>1
    <3> QED
      BY <1>5, <3>3, <3>4 DEF Origin
  <2>4. CASE \E parent \in Asts[source] : ast \in Range(Children(parent))
    <3>1. DeclaredInBlock(ast.name)
      BY <1>6, <2>1, <2>4, InBlock DEF SyntaxInv
    <3>2. DeclaredInBlock(types'[k].name)
      BY <1>6, <2>1, <3>1
    <3>3. \A name : DeclaredInBlock(name)' <=> DeclaredInBlock(name)
      BY <1>1 DEF DeclaredInBlock
    <3> QED
      BY <3>2, <3>3 DEF Origin
  <2> QED
    BY <2>2, <2>3, <2>4 DEF IsAst
<1>7. \A k \in DOMAIN types' : Origin(k)'
  <2>1. \A k : Origin(k) /\ types'[k] = types[k] => Origin(k)'
    BY <1>1, <1>2, <1>5, OriginStays
  <2>2. \A k : Nameless(types'[k]) => Origin(k)'
    BY DEF Origin
  <2> QED
    BY <1>4, <1>6, <2>1, <2>2 DEF Tables
<1>8. \A name : DeclaredSomewhere(name)' <=> DeclaredSomewhere(name)
  BY <1>1 DEF DeclaredSomewhere
<1>9. \A k \in DOMAIN program' : TreeFits(k)'
  <2>1. IsList(types) /\ IsList(symbols) /\ \A k \in 1 .. L : TreeFits(k)
    BY <1>2 DEF Tables
  <2>2. \A k : /\ TreeFits(k) /\ program'[k] = program[k] /\ thir'[k] = thir[k]
               => TreeFits(k)'
    BY <1>1, <1>3, <2>1, TreeStays
  <2>3. \A k : k = Len(program) + 1 => TreeFits(k)'
    BY NodeFits
  <2>4. \A k \in 1 .. L + 1 : k \in 1 .. L \/ k = L + 1
    OBVIOUS
  <2> QED
    BY <1>2, <2>1, <2>2, <2>3, <2>4
<1> QED
  BY <1>2, <1>3, <1>7, <1>8, <1>9 DEF Tables

-----------------------------------------------------------------------------
(***************************************************************************)
(* The calls of generate_thir_from_ast                                     *)
(***************************************************************************)

\* What the next call is on.
LEMMA NextIs ==
  ASSUME FrontEndInv, SyntaxInv, Calling, AtNode, ~Complete
  PROVE  /\ NextAst \in Asts[source]
         /\ typing # <<>> =>
              /\ Len(Innermost.done) < Len(Children(Innermost.ast))
              /\ NextAst = Children(Innermost.ast)[Len(Innermost.done) + 1]
<1>1. CASE typing = <<>>
  BY <1>1, TopIsNode DEF AtNode, NextAst
<1>2. CASE typing # <<>>
  <2>1. PICK ast, done : ast = Innermost.ast /\ done = Innermost.done
    OBVIOUS
  <2>2. /\ CallFits(Len(typing)) /\ IsList(Children(ast)) /\ IsList(done)
        /\ Range(Children(ast)) \subseteq Asts[source]
    BY <1>2, <2>1, TheInnermost
  <2>3. /\ Len(done) \in Nat /\ Len(Children(ast)) \in Nat
        /\ DOMAIN Children(ast) = 1 .. Len(Children(ast))
    BY <2>2, ListFacts
  <2>4. Len(done) <= Len(Children(ast)) /\ Len(done) # Len(Children(ast))
    BY <1>2, <2>1, <2>2 DEF CallFits, Innermost, Complete
  <2>5. Len(done) < Len(Children(ast)) /\ Len(done) + 1 \in DOMAIN Children(ast)
    BY <2>3, <2>4
  <2>6. NextAst = Children(ast)[Len(done) + 1]
    BY <1>2, <2>1 DEF NextAst
  <2> QED
    BY <2>1, <2>2, <2>5, <2>6 DEF Range
<1> QED
  BY <1>1, <1>2

LEMMA OpenCalls ==
  ASSUME FrontEndInv, SyntaxInv, Calling, OpenAst
  PROVE  Calling'
<1>1. /\ AtNode /\ ~Complete /\ Objection(NextAst, types, symbols) = "ok"
      /\ source' = source /\ registry' = registry /\ stack' = stack
      /\ building' = building /\ printing' = printing /\ symbols' = symbols
  BY DEF OpenAst, vars, builder_vars, printer_vars, generator_vars
<1>2. PICK next, frame : next = NextAst /\ frame = [ast |-> next, done |-> <<>>]
  OBVIOUS
<1>3. frame.ast = next /\ frame.done = <<>> /\ typing' = Append(typing, frame)
  BY <1>2 DEF OpenAst
<1>4. IsList(typing) /\ Len(typing) \in Nat /\ DOMAIN typing = 1 .. Len(typing)
  BY ListFacts DEF Calling
<1>5. PICK L \in Nat : L = Len(typing)
  BY <1>4
<1>6. /\ IsList(typing') /\ Len(typing') = L + 1 /\ DOMAIN typing' = 1 .. L + 1
      /\ \A k \in 1 .. L : typing'[k] = typing[k]
      /\ typing'[L + 1] = frame
  BY <1>3, <1>4, <1>5, ListAppend
<1>7. \A ast : (Called(ast)' <=> Called(ast)) /\ (Passed(ast)' <=> Passed(ast))
  BY <1>1 DEF Called, Passed
<1>8. \A n \in 1 .. L : CallFits(n)'
  BY <1>1, <1>4, <1>5, <1>6, <1>7 DEF Calling, CallFits
<1>9. CallFits(L + 1)'
  <2>1. next \in Asts[source] /\ IsSyntax(next)
    BY <1>1, <1>2, NextIs, TreeNodes DEF SyntaxInv
  <2>2. Len(Children(next)) \in Nat
    BY <2>1, ListFacts DEF IsSyntax
  <2>3. IsList(<<>>) /\ Len(<<>>) = 0
    BY DEF IsList
  <2>4. Called(next)
    <3> SUFFICES ASSUME next.kind = "function_call"
                 PROVE  HasName(symbols, next.name)
      BY DEF Called
    <3>1. SymbolsOf(symbols, next.name) # {}
      BY <1>1, <1>2 DEF Objection
    <3> QED
      BY <3>1, FoundSymbol
  <2>5. \A j \in 1 .. Len(<<>>) : FALSE
    OBVIOUS
  <2> QED
    BY <1>1, <1>2, <1>3, <1>6, <1>7, <2>1, <2>2, <2>3, <2>4, <2>5 DEF CallFits
<1>10. typing'[1].ast = AstAt(source, registry[Generator!Top.node])
  <2>1. CASE typing = <<>>
    <3>1. L = 0 /\ typing'[1] = frame
      BY <1>5, <1>6, <2>1
    <3> QED
      BY <1>2, <1>3, <2>1, <3>1 DEF NextAst
  <2>2. CASE typing # <<>>
    <3>1. 1 \in 1 .. L
      BY <1>4, <1>5, <2>2, TheInnermost
    <3> QED
      BY <1>6, <2>2, <3>1 DEF Calling
  <2> QED
    BY <2>1, <2>2
<1>11. \A n \in 1 .. L : /\ Len(typing'[n].done) < Len(Children(typing'[n].ast))
                         /\ typing'[n + 1].ast
                              = Children(typing'[n].ast)[Len(typing'[n].done) + 1]
  <2> TAKE n \in 1 .. L
  <2>1. CASE n = L
    <3>1. typing # <<>>
      BY <1>5, <2>1
    <3>2. typing'[n] = Innermost /\ typing'[n + 1] = frame
      BY <1>5, <1>6, <2>1 DEF Innermost
    <3> QED
      BY <1>1, <1>2, <1>3, <3>1, <3>2, NextIs
  <2>2. CASE n # L
    <3>0. n \in 1 .. L /\ n + 1 \in 1 .. L
      BY <2>2
    <3>1. n \in DOMAIN typing /\ n + 1 \in DOMAIN typing
      BY <1>4, <1>5, <3>0
    <3>2. typing'[n] = typing[n] /\ typing'[n + 1] = typing[n + 1]
      BY <1>4, <1>5, <1>6, <3>1
    <3> QED
      BY <3>1, <3>2 DEF Calling
  <2> QED
    BY <2>1, <2>2
<1>12. \A n \in 1 .. L + 1 : n \in 1 .. L \/ n = L + 1
  OBVIOUS
<1>13. \A n \in 1 .. L + 1 : n + 1 \in 1 .. L + 1 => n \in 1 .. L
  OBVIOUS
<1>14. Generating' /\ stack' # <<>> /\ Generator!Top' = Generator!Top
  BY <1>1 DEF AtNode, Generating, Generator!Top
<1> QED
  BY <1>1, <1>6, <1>8, <1>9, <1>10, <1>11, <1>12, <1>13, <1>14 DEF Calling

\* A node whose children are typed has found what it calls, itself or as a value.
LEMMA ChildPassed ==
  ASSUME SyntaxInv, Calling, Complete
  PROVE  Passed(Innermost.ast)
<1>1. PICK ast, done : ast = Innermost.ast /\ done = Innermost.done
  OBVIOUS
<1>2. CallFits(Len(typing))
  BY TheInnermost DEF Complete
<1>3. /\ Called(ast) /\ Len(done) = Len(Children(ast))
      /\ \A j \in 1 .. Len(done) : Passed(Children(ast)[j])
  BY <1>1, <1>2 DEF CallFits, Complete, Innermost
<1>4. ASSUME ast.kind = "variable"
      PROVE  Called(ast.value)
  <2>1. CASE ast.value = NoValue
    <3>1. ast.value.kind = "null"
      BY <2>1 DEF NoValue
    <3> QED
      BY <3>1 DEF Called
  <2>2. CASE ast.value # NoValue
    <3>1. Children(ast) = <<ast.value>>
      BY <1>4, <2>2 DEF Children
    <3>2. Len(Children(ast)) = 1 /\ Children(ast)[1] = ast.value
      BY <3>1
    <3>3. Passed(ast.value)
      BY <1>3, <3>2
    <3> QED
      BY <3>3 DEF Passed
  <2> QED
    BY <2>1, <2>2
<1> QED
  BY <1>1, <1>3, <1>4 DEF Passed

LEMMA CloseCalls ==
  ASSUME SyntaxInv, Tables, Calling, CloseAst
  PROVE  Calling'
<1>1. /\ AtNode /\ Complete /\ Len(typing) > 1 /\ Made.outcome = "ok"
      /\ types' = Made.types /\ symbols' = Made.symbols
      /\ source' = source /\ registry' = registry /\ stack' = stack
      /\ building' = building /\ printing' = printing
  BY DEF CloseAst, vars, builder_vars, printer_vars, generator_vars
<1>2. IsList(symbols) /\ IsList(symbols') /\ Extends(symbols', symbols)
  BY <1>1, MadeTables DEF Tables
<1>3. \A ast : (Called(ast) => Called(ast)') /\ (Passed(ast) => Passed(ast)')
  BY <1>2, PassedStays
<1>4. IsList(typing) /\ Len(typing) \in Nat /\ DOMAIN typing = 1 .. Len(typing)
  BY ListFacts DEF Calling
<1>5. PICK L \in Nat : L >= 1 /\ L = Len(typing) - 1 /\ Len(typing) = L + 1
  <2>1. \A l \in Nat : l > 1 => l - 1 \in Nat /\ l - 1 >= 1 /\ l = (l - 1) + 1
    OBVIOUS
  <2> QED
    BY <1>1, <1>4, <2>1
<1>6. PICK callers, tree : callers = SubSeq(typing, 1, Len(typing) - 1) /\ tree = Made.thir
  OBVIOUS
<1>7. /\ IsList(callers) /\ Len(callers) = L /\ DOMAIN callers = 1 .. L
      /\ \A k \in 1 .. L : callers[k] = typing[k]
  <2>1. typing # <<>>
    BY <1>1 DEF Complete
  <2> QED
    BY <1>4, <1>5, <1>6, <2>1, ListFront
<1>8. PICK ast, done : ast = typing[L].ast /\ done = typing[L].done
  OBVIOUS
<1>9. PICK frame : frame = [ast |-> ast, done |-> Append(done, tree)]
  OBVIOUS
<1>10. /\ L \in DOMAIN typing /\ L + 1 \in DOMAIN typing /\ CallFits(L)
       /\ Len(done) < Len(Children(ast)) /\ Children(ast)[Len(done) + 1] = Innermost.ast
  <2>1. L \in 1 .. L + 1 /\ L + 1 \in 1 .. L + 1
    BY <1>5
  <2>2. L \in DOMAIN typing /\ L + 1 \in DOMAIN typing
    BY <1>4, <1>5, <2>1
  <2> QED
    BY <1>5, <1>8, <2>2 DEF Calling, Innermost
<1>11. typing' = [callers EXCEPT ![L] = frame]
  <2>1. [callers[L] EXCEPT !.done = Append(@, tree)] = frame
    <3>1. callers[L] = [ast |-> ast, done |-> done]
      BY <1>5, <1>7, <1>8, <1>10 DEF CallFits
    <3>2. \A more : [[ast |-> ast, done |-> done] EXCEPT !.done = more] = [ast |-> ast, done |-> more]
      OBVIOUS
    <3>3. callers[L].done = done
      BY <3>1
    <3>4. [callers[L] EXCEPT !.done = Append(done, tree)] = frame
      BY <1>9, <3>1, <3>2
    <3> QED
      BY <3>3, <3>4
  <2>2. typing' = [callers EXCEPT ![Len(callers)].done = Append(@, tree)]
    BY <1>6 DEF CloseAst
  <2>3. typing' = [callers EXCEPT ![L] = [callers[L] EXCEPT !.done = Append(@, tree)]]
    BY <1>7, <2>2
  <2> QED
    BY <2>1, <2>3
<1>12. /\ IsList(typing') /\ Len(typing') = L /\ DOMAIN typing' = 1 .. L
       /\ typing'[L] = frame
       /\ \A k \in 1 .. L : k # L => typing'[k] = typing[k]
  <2>1. L \in DOMAIN callers
    BY <1>5, <1>7
  <2> QED
    BY <1>7, <1>11, <2>1, ListChange
<1>13. /\ IsList(done) /\ IsList(Append(done, tree)) /\ Len(done) \in Nat
       /\ Len(Append(done, tree)) = Len(done) + 1
  BY <1>8, <1>10, ListAppend, ListFacts DEF CallFits
<1>14. Passed(Innermost.ast)
  BY <1>1, ChildPassed
<1>15. frame.ast = ast /\ frame.done = Append(done, tree)
  BY <1>9
<1>16. CallFits(L)'
  <2>1. ast \in Asts[source] /\ Called(ast) /\ \A j \in 1 .. Len(done) : Passed(Children(ast)[j])
    BY <1>8, <1>10 DEF CallFits
  <2>2. \A j \in 1 .. Len(done) + 1 : j \in 1 .. Len(done) \/ j = Len(done) + 1
    BY <1>13
  <2>3. \A j \in 1 .. Len(done) + 1 : Passed(Children(ast)[j])
    BY <1>10, <1>14, <2>1, <2>2
  <2>4. Len(done) + 1 <= Len(Children(ast))
    <3>1. IsList(Children(ast))
      BY <2>1, TreeNodes DEF SyntaxInv, IsSyntax
    <3>2. Len(Children(ast)) \in Nat
      BY <3>1, ListFacts
    <3> QED
      BY <1>10, <1>13, <3>2
  <2> QED
    BY <1>1, <1>3, <1>9, <1>12, <1>13, <1>15, <2>1, <2>3, <2>4 DEF CallFits
<1>17. ASSUME NEW n \in 1 .. L, n # L
       PROVE  /\ CallFits(n)'
              /\ Len(typing'[n].done) < Len(Children(typing'[n].ast))
              /\ typing'[n + 1].ast = Children(typing'[n].ast)[Len(typing'[n].done) + 1]
  <2>1. n \in 1 .. L + 1 /\ n + 1 \in 1 .. L + 1 /\ n + 1 \in 1 .. L
    BY <1>17
  <2>2. n \in DOMAIN typing /\ n + 1 \in DOMAIN typing
    BY <1>4, <1>5, <2>1
  <2>3. /\ CallFits(n) /\ Len(typing[n].done) < Len(Children(typing[n].ast))
        /\ typing[n + 1].ast = Children(typing[n].ast)[Len(typing[n].done) + 1]
    BY <2>2 DEF Calling
  <2>4. typing'[n] = typing[n]
    BY <1>12, <1>17
  <2>5. typing'[n + 1].ast = typing[n + 1].ast
    <3>1. CASE n + 1 = L
      BY <1>8, <1>12, <1>15, <3>1
    <3>2. CASE n + 1 # L
      BY <1>12, <2>1, <3>2
    <3> QED
      BY <3>1, <3>2
  <2>6. CallFits(n)'
    BY <1>1, <1>3, <2>3, <2>4 DEF CallFits
  <2> QED
    BY <2>3, <2>4, <2>5, <2>6
<1>18. typing'[1].ast = AstAt(source, registry[Generator!Top.node])
  <2>1. typing[1].ast = AstAt(source, registry[Generator!Top.node])
    BY <1>1 DEF Calling, Complete
  <2>2. CASE L = 1
    BY <1>8, <1>12, <1>15, <2>1, <2>2
  <2>3. CASE L # 1
    <3>1. 1 \in 1 .. L
      BY <1>5
    <3> QED
      BY <1>12, <2>1, <2>3, <3>1
  <2> QED
    BY <2>2, <2>3
<1>19. \A n \in 1 .. L : n + 1 \in 1 .. L => n # L
  BY <1>5
<1>20. Generating' /\ stack' # <<>> /\ Generator!Top' = Generator!Top
  BY <1>1 DEF AtNode, Generating, Generator!Top
<1> QED
  BY <1>1, <1>12, <1>16, <1>17, <1>18, <1>19, <1>20 DEF Calling

-----------------------------------------------------------------------------
(***************************************************************************)
(* The invariant is inductive                                              *)
(***************************************************************************)
LEMMA CallingEmpty ==
  ASSUME typing' = <<>>
  PROVE  Calling'
<1>1. IsList(<<>>) /\ DOMAIN <<>> = {}
  BY DEF IsList
<1> QED
  BY <1>1 DEF Calling

LEMMA CallingSame ==
  ASSUME Calling, UNCHANGED <<source, registry, building, printing, stack, symbols, typing>>
  PROVE  Calling'
<1>1. \A n : CallFits(n)' <=> CallFits(n)
  BY DEF CallFits, Called, Passed
<1>2. Generating' = Generating /\ Generator!Top' = Generator!Top
  BY DEF Generating, Generator!Top
<1> QED
  BY <1>1, <1>2 DEF Calling

LEMMA CallingStep ==
  ASSUME FrontEndInv, SyntaxInv, Tables, Calling, [CompilerNext]_<<vars, typer_vars>>
  PROVE  Calling'
<1>1. CASE (BuildGraph \/ PrintGraph) /\ UNCHANGED typer_vars
  <2>1. ~Generating
    <3>1. ASSUME BuildGraph
          PROVE  building # "built"
      BY <3>1 DEF BuildGraph, populate_dep_graph, FunctionDeclaration, TypeDeclaration,
                  OtherStatement, AddDependency, NullSymbol, EndStatement, Finish
    <3>2. ASSUME PrintGraph
          PROVE  printing # "printed"
      BY <3>2 DEF PrintGraph, Printer!print_graph, Printer!PrintRoot,
                  Printer!PrintDependency, Printer!EndNode, Printer!EndGraph
    <3> QED
      BY <1>1, <3>1, <3>2 DEF Generating
  <2>2. typing = <<>> /\ typing' = typing
    BY <1>1, <2>1 DEF Calling, typer_vars
  <2> QED
    BY <2>2, CallingEmpty
<1>2. CASE Schedule
  BY <1>2, CallingEmpty DEF Schedule, typer_vars
<1>3. CASE OpenAst
  BY <1>3, OpenCalls
<1>4. CASE CloseAst
  BY <1>4, CloseCalls
<1>5. CASE TypeNode
  BY <1>5, CallingEmpty DEF TypeNode
<1>6. CASE RejectNode
  BY <1>6, CallingSame DEF RejectNode, Generator!FailNode, builder_vars, printer_vars
<1>7. CASE UNCHANGED <<vars, typer_vars>>
  BY <1>7, CallingSame DEF vars, builder_vars, printer_vars, generator_vars, typer_vars
<1> QED
  BY <1>1, <1>2, <1>3, <1>4, <1>5, <1>6, <1>7
     DEF CompilerNext, generate_thir_from_ast, End

LEMMA TablesSame ==
  ASSUME Tables, UNCHANGED <<source, program, types, symbols, thir>>,
         registry' = registry \/ program = <<>>
  PROVE  Tables'
<1>1. /\ source' = source /\ program' = program /\ types' = types /\ symbols' = symbols
      /\ thir' = thir
  OBVIOUS
<1>2. \A k \in DOMAIN program : registry'[program[k]] = registry[program[k]]
  <2>1. DOMAIN <<>> = {}
    OBVIOUS
  <2> QED
    BY <2>1
<1>3. \A name : (DeclaredInBlock(name)' <=> DeclaredInBlock(name))
                /\ (DeclaredSomewhere(name)' <=> DeclaredSomewhere(name))
                /\ (IsTypeName(name)' <=> IsTypeName(name))
  BY <1>1 DEF DeclaredInBlock, DeclaredSomewhere, IsTypeName
<1>4. \A k : Origin(k) => Origin(k)'
  BY <1>1, <1>2, <1>3 DEF Origin
<1>5. \A ast : Passed(ast)' <=> Passed(ast)
  BY <1>1 DEF Passed, Called
<1>6. ASSUME NEW k \in DOMAIN program, TreeFits(k)
      PROVE  TreeFits(k)'
  <2>1. PICK ast : ast = DeclarationOf(k)
    OBVIOUS
  <2>2. DeclarationOf(k)' = ast
    BY <1>1, <1>2, <2>1 DEF DeclarationOf
  <2> QED
    BY <1>1, <1>2, <1>3, <1>5, <1>6, <2>1, <2>2 DEF TreeFits, ParametersFit
<1> QED
  BY <1>1, <1>3, <1>4, <1>6 DEF Tables

LEMMA TablesStep ==
  ASSUME FrontEndInv, SyntaxInv, Tables, Calling, SignatureTypesComeFirst',
         [CompilerNext]_<<vars, typer_vars>>
  PROVE  Tables'
<1>1. CASE BuildGraph /\ UNCHANGED typer_vars
  <2>1. building # "built" /\ source' = source
    BY <1>1 DEF BuildGraph, populate_dep_graph, FunctionDeclaration, TypeDeclaration,
                OtherStatement, AddDependency, NullSymbol, EndStatement, Finish
  <2>2. printing # "printed"
    BY <2>1 DEF FrontEndInv, PassesInTurn, Printer!Idle
  <2>3. program = <<>> /\ program' = program
    BY <1>1, <2>2 DEF FrontEndInv, PassesInTurn, Generator!Idle, BuildGraph, generator_vars
  <2> QED
    BY <1>1, <2>1, <2>3, TablesSame DEF typer_vars
<1>2. CASE PrintGraph /\ UNCHANGED typer_vars
  BY <1>2, TablesSame DEF typer_vars, PrintGraph, builder_vars, generator_vars, Printer!print_graph,
                Printer!PrintRoot, Printer!PrintDependency, Printer!EndNode, Printer!EndGraph
<1>3. CASE Schedule
  <2>1. program' = program
    BY <1>3 DEF Schedule, Generator!generate_thir, Generator!Visit, Generator!CountInDegrees,
                Generator!SeedQueue, Generator!EndSeed, Generator!Dequeue, Generator!Decrement,
                Generator!EndDecrement, Generator!EndKahn, Generator!ResolveRest, Generator!Return
  <2> QED
    BY <1>3, <2>1, TablesSame DEF typer_vars, Schedule, builder_vars
<1>4. CASE OpenAst
  <2>1. /\ source' = source /\ registry' = registry /\ program' = program
        /\ types' = types /\ symbols' = symbols /\ thir' = thir
    BY <1>4 DEF OpenAst, vars, builder_vars, generator_vars
  <2> QED
    BY <2>1, TablesSame
<1>5. CASE CloseAst
  BY <1>5, CloseTables
<1>6. CASE TypeNode
  BY <1>6, NodeTables
<1>7. CASE RejectNode
  <2>1. /\ source' = source /\ registry' = registry /\ program' = program
        /\ types' = types /\ symbols' = symbols /\ thir' = thir
    BY <1>7 DEF RejectNode, builder_vars, Generator!FailNode
  <2> QED
    BY <2>1, TablesSame
<1>8. CASE UNCHANGED <<vars, typer_vars>>
  BY <1>8, TablesSame DEF typer_vars, vars, builder_vars, generator_vars
<1> QED
  BY <1>1, <1>2, <1>3, <1>4, <1>5, <1>6, <1>7, <1>8
     DEF CompilerNext, generate_thir_from_ast, End

LEMMA SyntaxSame ==
  ASSUME FrontEndInv, SyntaxInv, [CompilerNext]_<<vars, typer_vars>>
  PROVE  SyntaxInv'
<1>1. CASE BuildGraph
  BY <1>1, SyntaxStep DEF BuildGraph, FrontEndInv
<1>2. ASSUME UNCHANGED builder_vars
      PROVE  SyntaxInv'
  BY <1>2 DEF builder_vars, SyntaxInv, IsAst
<1>3. CASE ~BuildGraph
  <2>1. UNCHANGED builder_vars
    BY <1>3 DEF CompilerNext, PrintGraph, Schedule, generate_thir_from_ast, OpenAst, CloseAst,
                TypeNode, RejectNode, End, vars
  <2> QED
    BY <1>2, <2>1
<1> QED
  BY <1>1, <1>3

LEMMA CompilerStart == CompilerInit => CompilerInv
<1> SUFFICES ASSUME CompilerInit
             PROVE  CompilerInv
  OBVIOUS
<1>1. FrontEndInv
  BY FrontEndStart DEF CompilerInit
<1>2. /\ types = initialize_type_system /\ symbols = <<>> /\ thir = <<>> /\ typing = <<>>
      /\ source \in Programs /\ registry = <<>> /\ pending = <<>> /\ program = <<>>
  BY DEF CompilerInit, FrontEndInit, Init, Generator!Idle
<1>3. IsList(<<>>) /\ DOMAIN <<>> = {} /\ Len(<<>>) = 0 /\ Range(<<>>) = {}
  BY DEF IsList, Range
<1>4. SyntaxInv
  BY <1>2, <1>3 DEF SyntaxInv
<1>5. Calling
  BY <1>2, <1>3 DEF Calling
<1>6. IsList(types) /\ Extends(types, initialize_type_system) /\ \A k \in DOMAIN types : k <= 4
  <2> DEFINE S == {Builtin("void"), Builtin("i32"), Builtin("f32"), Builtin("String")}
  <2>1. initialize_type_system \in Seq(S) /\ Len(initialize_type_system) = 4
    BY DEF initialize_type_system
  <2> QED
    BY <1>2, <2>1, ListOf DEF Extends
<1>7. Tables
  BY <1>2, <1>3, <1>6 DEF Tables, Origin
<1> QED
  BY <1>1, <1>4, <1>5, <1>7 DEF CompilerInv

LEMMA CompilerStep ==
  /\ CompilerInv /\ [CompilerNext]_<<vars, typer_vars>>
  /\ FrontEndInv' /\ SignatureTypesComeFirst'
  => CompilerInv'
BY SyntaxSame, TablesStep, CallingStep DEF CompilerInv

LEMMA CompilerInvariance == CompilerSpec => []CompilerInv
<1>1. CompilerInv => FrontEndInv
  BY DEF CompilerInv
<1> QED
  BY <1>1, CompilerStart, CompilerStep, Underlying, FrontEndStep, SignaturesFirst, PTL
     DEF CompilerSpec

-----------------------------------------------------------------------------
(***************************************************************************)
(* The properties                                                          *)
(***************************************************************************)
LEMMA FunctionsFit == CompilerInv => FunctionTypesFit /\ ParametersKeepTheirTypes
<1> SUFFICES ASSUME CompilerInv
             PROVE  FunctionTypesFit /\ ParametersKeepTheirTypes
  OBVIOUS
<1>1. \A k \in GeneratedFunctions : k \in DOMAIN program /\ TreeFits(k)
  <2>1. IsList(thir) /\ Len(thir) = Len(program) /\ \A k \in DOMAIN program : TreeFits(k)
    BY DEF CompilerInv, Tables
  <2>2. DOMAIN program = 1 .. Len(program)
    <3>1. CASE printing = "printed"
      <4>1. program \in Seq(Node)
        BY <3>1 DEF CompilerInv, FrontEndInv, G!Inv, G!TypeOK
      <4> QED
        BY <4>1
    <3>2. CASE printing # "printed"
      <4>1. program = <<>>
        BY <3>2 DEF CompilerInv, FrontEndInv, PassesInTurn, Generator!Idle
      <4> QED
        BY <4>1
    <3> QED
      BY <3>1, <3>2
  <2>3. DOMAIN thir = 1 .. Len(thir)
    BY <2>1, ListFacts
  <2> QED
    BY <2>1, <2>2, <2>3 DEF GeneratedFunctions
<1>2. \A k \in GeneratedFunctions :
        /\ FunctionFits(types, thir[k], DeclarationOf(k))
        /\ Len(registry[program[k]]) = 1 => ParametersFit(types, thir[k], DeclarationOf(k))
  BY <1>1 DEF GeneratedFunctions, TreeFits
<1>3. FunctionTypesFit
  BY <1>2 DEF FunctionTypesFit, FunctionFits
<1>4. ParametersKeepTheirTypes
  BY <1>2 DEF ParametersKeepTheirTypes, ParametersFit
<1> QED
  BY <1>3, <1>4

\* At the end, the trees of the declarations of the program are there.
LEMMA DoneIsTyped ==
  ASSUME CompilerInv, phase = "done", NEW d \in DOMAIN source, IsDeclaration(d)
  PROVE  \E k \in DOMAIN program :
           /\ registry[program[k]] = <<d>> /\ DeclarationOf(k) = source[d] /\ TreeFits(k)
           /\ \A j \in DOMAIN program : registry[program[j]] = <<d>> => j = k
<1>1. EveryDeclarationGenerated
  BY AllGenerated DEF CompilerInv
<1>2. PICK k \in DOMAIN program :
        /\ registry[program[k]] = <<d>>
        /\ \A j \in DOMAIN program : registry[program[j]] = <<d>> => j = k
  BY <1>1 DEF EveryDeclarationGenerated
<1>3. DeclarationOf(k) = source[d]
  BY <1>2, TreeNodes DEF DeclarationOf, CompilerInv, SyntaxInv
<1>4. TreeFits(k)
  BY DEF CompilerInv, Tables
<1> QED
  BY <1>2, <1>3, <1>4

LEMMA CalleesAreDeclared == CompilerInv => NothingUndeclaredCompiles
<1> SUFFICES ASSUME CompilerInv, phase = "done",
                    NEW d \in DOMAIN source, source[d].kind = "function",
                    NEW call \in Calls(source[d].block)
             PROVE  DeclaredSomewhere(call.name)
  BY DEF NothingUndeclaredCompiles
<1>1. IsDeclaration(d)
  BY DEF IsDeclaration
<1>2. \A s \in Range(source[d].block) : Passed(s)
  BY <1>1, DoneIsTyped DEF TreeFits
<1>3. HasName(symbols, call.name)
  BY <1>2 DEF Calls, Passed, Called
<1> QED
  BY <1>3 DEF CompilerInv, Tables, HasName

LEMMA TypesFound == CompilerInv => TypesAreComplete
<1> SUFFICES ASSUME CompilerInv, phase = "done",
                    NEW d \in DOMAIN source, source[d].kind = "type"
             PROVE  LET entries == {k \in DOMAIN types : types[k].name = source[d].name}
                    IN /\ \E k \in entries :
                            /\ types[k].kind = "struct"
                            /\ Len(types[k].members) = Len(source[d].members)
                            /\ \A m \in DOMAIN types[k].members :
                                 get_type(types, types[k].members[m].type).name
                                   = source[d].members[m]
                       /\ /\ ~DeclaredInBlock(source[d].name)
                          /\ source[d].name \notin BuiltinNames
                          => \A k, l \in entries : k = l
  BY DEF TypesAreComplete
<1>1. IsDeclaration(d) /\ IsNamed(source[d])
  BY DEF IsDeclaration, IsNamed
<1>2. PICK k \in DOMAIN program :
        /\ registry[program[k]] = <<d>> /\ DeclarationOf(k) = source[d] /\ TreeFits(k)
        /\ \A j \in DOMAIN program : registry[program[j]] = <<d>> => j = k
  BY <1>1, DoneIsTyped
<1>3. TypeFits(types, thir[k], source[d])
  BY <1>2 DEF TreeFits
<1>4. PICK own : own = thir[k].type + 1
  OBVIOUS
<1>5. /\ own \in DOMAIN types /\ types[own].name = source[d].name
      /\ types[own].kind = "struct"
      /\ Len(types[own].members) = Len(source[d].members)
      /\ \A m \in DOMAIN types[own].members :
           get_type(types, types[own].members[m].type).name = source[d].members[m]
  BY <1>3, <1>4 DEF TypeFits, get_type
<1>6. ASSUME NEW l \in DOMAIN types, types[l].name = source[d].name,
             ~DeclaredInBlock(source[d].name), source[d].name \notin BuiltinNames
      PROVE  l = own
  <2>1. Origin(l)
    BY DEF CompilerInv, Tables
  <2>2. ~(l <= 4)
    <3>1. types[l].name \in BuiltinNames \/ ~(l <= 4)
      <4> DEFINE first == initialize_type_system
      <4>1. Len(first) = 4 /\ first[1] = Builtin("void") /\ first[2] = Builtin("i32")
            /\ first[3] = Builtin("f32") /\ first[4] = Builtin("String") /\ DOMAIN first = 1 .. 4
        BY DEF initialize_type_system
      <4>2. \A n : Builtin(n).name = n
        BY DEF Builtin
      <4> HIDE DEF first
      <4>3. \A j \in 1 .. 4 : first[j].name \in BuiltinNames
        <5>1. \A j \in 1 .. 4 : j = 1 \/ j = 2 \/ j = 3 \/ j = 4
          OBVIOUS
        <5> QED
          BY <4>1, <4>2, <5>1 DEF BuiltinNames
      <4>4. IsList(types) /\ Extends(types, first)
        BY DEF CompilerInv, Tables, first
      <4>5. l \in Nat /\ l >= 1
        BY <4>4, ListFacts
      <4>6. l <= 4 => l \in 1 .. 4
        BY <4>5
      <4> QED
        BY <4>1, <4>3, <4>4, <4>6 DEF Extends
    <3> QED
      BY <1>6, <3>1
  <2>3. ~Nameless(types[l])
    <3>1. IsSyntax(source[d])
      BY TreeNodes DEF CompilerInv, SyntaxInv
    <3>2. ~Nameless(source[d])
      BY <1>1, <3>1 DEF IsSyntax, Nameless
    <3> QED
      BY <1>6, <3>2 DEF Nameless
  <2>4. PICK j \in DOMAIN program : \E e \in DOMAIN source :
          /\ registry[program[j]] = <<e>> /\ source[e].kind = "type"
          /\ types[l].name = source[e].name /\ l = thir[j].type + 1
    BY <1>6, <2>1, <2>2, <2>3 DEF Origin
  <2>5. PICK e \in DOMAIN source :
          /\ registry[program[j]] = <<e>> /\ source[e].kind = "type"
          /\ types[l].name = source[e].name /\ l = thir[j].type + 1
    BY <2>4
  <2>6. Accepted(source)
    BY DEF CompilerInv, FrontEndInv, Inv, TypeOK
  <2>7. e = d
    <3>1. IsNamed(source[e]) /\ source[e].name = source[d].name
      BY <1>6, <2>5 DEF IsNamed
    <3> QED
      BY <1>1, <2>6, <3>1 DEF Accepted, Names
  <2> QED
    BY <1>2, <1>4, <2>5, <2>7
<1> QED
  BY <1>5, <1>6

\* The function type that the cache hands out for a function has the parameters of the
\* function and its own "...", for every accepted program (type.h:76-122).
THEOREM FunctionTypesCorrectness == CompilerSpec => []FunctionTypesFit
BY CompilerInvariance, FunctionsFit, PTL

\* No parameter of a function of the program becomes void because its type was
\* generated too late (typer.c:142-147).
THEOREM ParametersCorrectness == CompilerSpec => []ParametersKeepTheirTypes
BY CompilerInvariance, FunctionsFit, PTL

\* What gets to the back end has every type of the program in the table, once, with
\* the members it was declared with (typer.c:176-191).
THEOREM TypesCorrectness == CompilerSpec => []TypesAreComplete
BY CompilerInvariance, TypesFound, PTL

\* What gets to the back end calls nothing that no node of the program declares
\* (graph.c:42-61, typer.c:78-81).
THEOREM CalleesCorrectness == CompilerSpec => []NothingUndeclaredCompiles
BY CompilerInvariance, CalleesAreDeclared, PTL
=============================================================================
