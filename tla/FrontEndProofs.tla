--------------------------- MODULE FrontEndProofs ---------------------------
(***************************************************************************)
(* What TLAPS proves of DepGraph.tla and FrontEnd.tla, for every set of    *)
(* accepted programs, every bound on the registry and every stack that is  *)
(* at least as deep.  First the builder: one node per syntax node, and a   *)
(* graph of the shape the printer and the generator are written for.  Then *)
(* the passes, which may rely on one another: the invariants of the        *)
(* builder, of the printer and of the generator are put together, and each *)
(* pass hands its successor what the invariant of that starts from.        *)
(***************************************************************************)
EXTENDS FrontEnd, Recursion, SequenceTheorems, FiniteSetTheorems, TLAPS

-----------------------------------------------------------------------------
(***************************************************************************)
(* create_dep_node                                                         *)
(***************************************************************************)
IsRegistry(r) == r \in Seq(Range(r)) /\ IsInjective(r)

\* The node of a syntax node that has one is the only one.
LEMMA NodeOf ==
  ASSUME NEW r, IsRegistry(r), NEW ast, NEW n \in DOMAIN r, r[n] = ast
  PROVE  DepNodeOf(r, ast) = n
<1>1. DepNodesOf(r, ast) = {n}
  BY DEF DepNodesOf, IsRegistry, IsInjective
<1> QED
  BY <1>1 DEF DepNodeOf

\* A sequence is one over its own elements, whatever they are.
LEMMA OwnElements ==
  ASSUME NEW S, NEW s \in Seq(S)
  PROVE  /\ s \in Seq(Range(s))
         /\ Len(s) \in Nat /\ DOMAIN s = 1 .. Len(s)
         /\ \A x : x \in Range(s) <=> \E k \in 1 .. Len(s) : s[k] = x
<1>1. Len(s) \in Nat /\ DOMAIN s = 1 .. Len(s)
  OBVIOUS
<1>2. Range(s) = {s[k] : k \in 1 .. Len(s)}
  BY <1>1 DEF Range
<1>3. s \in [1 .. Len(s) -> Range(s)]
  BY <1>1, <1>2
<1> QED
  BY <1>1, <1>2, <1>3, SeqDef

\* create_dep_node leaves the nodes there are where they are, and what it
\* returns is a node of ast.
LEMMA Created ==
  ASSUME IsRegistry(registry), NEW ast
  PROVE  /\ IsRegistry(create_dep_node(ast))
         /\ Len(registry) \in Nat /\ DOMAIN registry = 1 .. Len(registry)
         /\ DOMAIN registry \subseteq DOMAIN create_dep_node(ast)
         /\ \A n \in DOMAIN registry : create_dep_node(ast)[n] = registry[n]
         /\ \A n \in DOMAIN create_dep_node(ast) :
              n \in DOMAIN registry \/ create_dep_node(ast)[n] = ast
         /\ DepNodeOf(create_dep_node(ast), ast) \in DOMAIN create_dep_node(ast)
         /\ create_dep_node(ast)[DepNodeOf(create_dep_node(ast), ast)] = ast
         /\ Len(create_dep_node(ast)) \in Nat
         /\ DOMAIN create_dep_node(ast) = 1 .. Len(create_dep_node(ast))
<1> DEFINE r == create_dep_node(ast)
           S == Range(registry) \cup {ast}
<1>1. registry \in Seq(Range(registry)) /\ Len(registry) \in Nat
      /\ DOMAIN registry = 1 .. Len(registry)
  BY OwnElements DEF IsRegistry
<1>2. CASE DepNodesOf(registry, ast) # {}
  <2>1. r = registry
    BY <1>2 DEF create_dep_node
  <2>2. PICK n \in DOMAIN registry : registry[n] = ast
    BY <1>2 DEF DepNodesOf
  <2>3. DepNodeOf(r, ast) = n
    BY <2>1, <2>2, NodeOf
  <2> QED
    BY <1>1, <2>1, <2>2, <2>3
<1>3. CASE DepNodesOf(registry, ast) = {}
  <2>1. r = Append(registry, ast)
    BY <1>3 DEF create_dep_node
  <2>2. registry \in Seq(S) /\ ast \in S
    BY <1>1, OwnElements, SeqDef
  <2> DEFINE L == Len(registry)
  <2>3. /\ r \in Seq(S) /\ Len(r) = L + 1
        /\ \A n \in 1 .. L : r[n] = registry[n]
        /\ r[L + 1] = ast
    BY <2>1, <2>2
  <2>4. DOMAIN r = 1 .. L + 1 /\ r \in Seq(Range(r))
    BY <2>3, OwnElements
  <2> HIDE DEF L, r
  <2>5. L \in Nat /\ DOMAIN registry = 1 .. L
    BY <1>1 DEF L
  <2>6. \A n \in 1 .. L : registry[n] # ast
    BY <1>3, <2>5 DEF DepNodesOf
  <2>7. IsInjective(registry)
    BY DEF IsRegistry
  <2>8. ASSUME NEW a \in DOMAIN r, NEW b \in DOMAIN r, r[a] = r[b]
        PROVE  a = b
    <3>1. a \in 1 .. L \/ a = L + 1
      BY <2>4, <2>5
    <3>2. b \in 1 .. L \/ b = L + 1
      BY <2>4, <2>5
    <3> QED
      BY <2>3, <2>5, <2>6, <2>7, <2>8, <3>1, <3>2 DEF IsInjective
  <2>9. IsRegistry(r)
    BY <2>4, <2>8 DEF IsRegistry, IsInjective
  <2>10. L + 1 \in DOMAIN r
    BY <2>4, <2>5
  <2>11. DepNodeOf(r, ast) = L + 1
    BY <2>3, <2>9, <2>10, NodeOf
  <2>12. \A n \in DOMAIN r : n \in DOMAIN registry \/ r[n] = ast
    BY <2>3, <2>4, <2>5
  <2> QED
    BY <2>3, <2>4, <2>5, <2>9, <2>10, <2>11, <2>12 DEF L, r
<1> QED
  BY <1>2, <1>3

-----------------------------------------------------------------------------
(***************************************************************************)
(* Lists of nodes                                                          *)
(***************************************************************************)
LEMMA LargerSet ==
  ASSUME NEW S, NEW T, S \subseteq T
  PROVE  Seq(S) \subseteq Seq(T)
<1>1. ASSUME NEW s \in Seq(S)
      PROVE  s \in Seq(T)
  <2>1. s \in [1 .. Len(s) -> S] /\ Len(s) \in Nat
    OBVIOUS
  <2>2. s \in [1 .. Len(s) -> T]
    BY <2>1
  <2> QED
    BY <2>1, <2>2, SeqDef
<1> QED
  BY <1>1

\* What is new to a list without repetitions can be appended to it.
LEMMA AppendNew ==
  ASSUME NEW S, NEW s \in Seq(S), NEW x \in S, IsInjective(s), x \notin Range(s)
  PROVE  /\ IsInjective(Append(s, x))
         /\ Append(s, x) \in Seq(S)
         /\ Append(s, x) # <<>>
         /\ Range(Append(s, x)) = Range(s) \cup {x}
<1> DEFINE L == Len(s)
           t == Append(s, x)
<1>1. /\ L \in Nat /\ t \in Seq(S) /\ Len(t) = L + 1
      /\ \A n \in 1 .. L : t[n] = s[n]
      /\ t[L + 1] = x
  OBVIOUS
<1>2. /\ DOMAIN s = 1 .. L
      /\ \A y : y \in Range(s) <=> \E k \in 1 .. L : s[k] = y
  BY OwnElements
<1>3. /\ DOMAIN t = 1 .. L + 1
      /\ \A y : y \in Range(t) <=> \E k \in 1 .. L + 1 : t[k] = y
  <2>1. DOMAIN t = 1 .. Len(t) /\ \A y : y \in Range(t) <=> \E k \in 1 .. Len(t) : t[k] = y
    BY <1>1, OwnElements
  <2> QED
    BY <1>1, <2>1
<1> HIDE DEF L, t
<1>4. ASSUME NEW a \in DOMAIN t, NEW b \in DOMAIN t, t[a] = t[b]
      PROVE  a = b
  <2>1. a \in 1 .. L \/ a = L + 1
    BY <1>1, <1>3
  <2>2. b \in 1 .. L \/ b = L + 1
    BY <1>1, <1>3
  <2> QED
    BY <1>1, <1>2, <1>4, <2>1, <2>2 DEF IsInjective
<1>5. Range(t) = Range(s) \cup {x}
  <2>1. \A y : y \in Range(t) <=> y \in Range(s) \/ y = x
    <3>1. \A k : k \in 1 .. L + 1 <=> k \in 1 .. L \/ k = L + 1
      BY <1>1
    <3> QED
      BY <1>1, <1>2, <1>3, <3>1
  <2> QED
    BY <2>1
<1>6. t # <<>>
  BY <1>1
<1> QED
  BY <1>1, <1>4, <1>5, <1>6 DEF IsInjective, t

-----------------------------------------------------------------------------
(***************************************************************************)
(* The inductive invariant                                                 *)
(***************************************************************************)
\* A handler works on a declaration, which has its node.
Handling ==
  building \in {"link", "crashed"} =>
    /\ statement \in DOMAIN source
    /\ source[statement].kind \in {"function", "type"}
    /\ Parent \in DOMAIN registry
    /\ registry[Parent] = <<statement>>

\* The declarations that may have joined the graph: those before the current
\* one, and a function as soon as its handler runs.
Joined == {d \in DOMAIN source :
             \/ d < statement
             \/ d = statement /\ building \in {"link", "crashed"} /\ source[d].kind = "function"}

InGraph == \A k \in DOMAIN graph : \E d \in Joined : registry[graph[k]] = <<d>>

\* What is known of the dependencies of a node.
DependsWell(n) ==
  /\ IsInjective(dependencies[n])
  /\ n \notin Range(dependencies[n])
  /\ dependencies[n] # <<>> =>
       n \in DOMAIN registry /\ \E d \in DOMAIN source : registry[n] = <<d>>

Inv == /\ TypeOK
       /\ OneNodePerAst
       /\ Handling
       /\ InGraph
       /\ IsInjective(graph)
       /\ \A n \in Node : DependsWell(n)

LEMMA InvInit == Init => Inv
<1> SUFFICES ASSUME Init
             PROVE  Inv
  OBVIOUS
<1>1. source \in Seq(Range(source)) /\ Accepted(source) /\ MaxNodes \in Nat
  BY ProgramsAssumption DEF Init
<1>2. /\ registry = <<>> /\ graph = <<>> /\ dependencies = [n \in Node |-> <<>>]
      /\ statement = 1 /\ pending = <<>> /\ building = "visit"
  BY DEF Init
<1>3. Range(registry) = {}
  BY <1>2 DEF Range
<1>4. Len(source) \in Nat
  BY <1>1
<1>5. TypeOK
  BY <1>1, <1>2, <1>3, <1>4 DEF TypeOK
<1>6. \A n \in Node : DependsWell(n)
  BY <1>2 DEF DependsWell, IsInjective, Range
<1> QED
  BY <1>2, <1>5, <1>6 DEF Inv, OneNodePerAst, IsInjective, Handling, InGraph

\* The facts about a registry that has grown.
LEMMA RegistryGrown ==
  ASSUME Inv, NEW ast, ast # NullPath, registry' = create_dep_node(ast), Fits,
         source' = source
  PROVE  /\ registry' \in Seq(Range(registry')) /\ IsInjective(registry')
         /\ \A n \in DOMAIN registry' : registry'[n] # NullPath
         /\ Len(registry') <= MaxNodes
         /\ DOMAIN registry \subseteq DOMAIN registry' /\ DOMAIN registry' \subseteq Node
         /\ \A n \in DOMAIN registry : registry'[n] = registry[n]
         /\ DepNodeOf(registry', ast) \in DOMAIN registry'
         /\ registry'[DepNodeOf(registry', ast)] = ast
         /\ graph \in Seq(DOMAIN registry')
         /\ dependencies \in [Node -> Seq(DOMAIN registry')]
<1>1. IsRegistry(registry) /\ MaxNodes \in Nat
  BY ProgramsAssumption DEF Inv, TypeOK, OneNodePerAst, IsRegistry
<1>2. IsRegistry(registry') /\ Len(registry') \in Nat /\ DOMAIN registry' = 1 .. Len(registry')
  BY <1>1, Created
<1>3. /\ DOMAIN registry \subseteq DOMAIN registry'
      /\ \A n \in DOMAIN registry : registry'[n] = registry[n]
      /\ \A n \in DOMAIN registry' : n \in DOMAIN registry \/ registry'[n] = ast
      /\ DepNodeOf(registry', ast) \in DOMAIN registry'
      /\ registry'[DepNodeOf(registry', ast)] = ast
  BY <1>1, Created
<1>4. \A n \in DOMAIN registry' : registry'[n] # NullPath
  BY <1>3 DEF Inv, TypeOK
<1>5. Len(registry') <= MaxNodes /\ DOMAIN registry' \subseteq Node
  BY <1>1, <1>2 DEF Fits, Node
<1>6. Seq(DOMAIN registry) \subseteq Seq(DOMAIN registry')
  BY <1>3, LargerSet
<1>7. graph \in Seq(DOMAIN registry') /\ dependencies \in [Node -> Seq(DOMAIN registry')]
  BY <1>6 DEF Inv, TypeOK
<1> QED
  BY <1>2, <1>3, <1>4, <1>5, <1>7 DEF IsRegistry

-----------------------------------------------------------------------------
(***************************************************************************)
(* The steps                                                               *)
(***************************************************************************)
\* A longer registry does not change what is known of the dependencies.
LEMMA DependsWellKept ==
  ASSUME Inv, source' = source, dependencies' = dependencies,
         DOMAIN registry \subseteq DOMAIN registry',
         \A n \in DOMAIN registry : registry'[n] = registry[n]
  PROVE  \A n \in Node : DependsWell(n)'
BY DEF Inv, DependsWell

\* A node joins the graph: it stands for a declaration that is not in it yet.
LEMMA GraphGrows ==
  ASSUME Inv, NEW p \in DOMAIN registry', graph \in Seq(DOMAIN registry'),
         source' = source, statement \in DOMAIN source,
         DOMAIN registry \subseteq DOMAIN registry',
         \A n \in DOMAIN registry : registry'[n] = registry[n],
         statement \notin Joined, Joined \cup {statement} \subseteq Joined',
         registry'[p] = <<statement>>, graph' = Append(graph, p)
  PROVE  InGraph' /\ IsInjective(graph') /\ graph' \in Seq(DOMAIN registry')
<1>1. graph \in Seq(DOMAIN registry) /\ IsInjective(graph)
  BY DEF Inv, TypeOK
<1>2. ASSUME NEW n \in Range(graph)
      PROVE  n \in DOMAIN registry' /\ n # p /\ \E d \in Joined : registry'[n] = <<d>>
  <2>1. PICK k \in DOMAIN graph : graph[k] = n
    BY DEF Range
  <2>2. n \in DOMAIN registry
    BY <1>1, <2>1
  <2>3. PICK d \in Joined : registry[n] = <<d>>
    BY <2>1 DEF Inv, InGraph
  <2>4. d # statement
    BY <2>3
  <2> QED
    BY <2>2, <2>3, <2>4
<1>3. /\ IsInjective(graph') /\ graph' \in Seq(DOMAIN registry')
      /\ Range(graph') = Range(graph) \cup {p}
  BY <1>1, <1>2, AppendNew
<1>4. ASSUME NEW k \in DOMAIN graph'
      PROVE  \E d \in Joined' : registry'[graph'[k]] = <<d>>
  <2>1. graph'[k] \in Range(graph) \/ graph'[k] = p
    BY <1>3 DEF Range
  <2>2. CASE graph'[k] = p
    <3>1. statement \in Joined' /\ registry'[graph'[k]] = <<statement>>
      BY <2>2
    <3> QED
      BY <3>1
  <2>3. CASE graph'[k] \in Range(graph)
    BY <1>2, <2>3
  <2> QED
    BY <2>1, <2>2, <2>3
<1> QED
  BY <1>3, <1>4 DEF InGraph

LEMMA StatementNumber ==
  ASSUME Inv
  PROVE  /\ statement \in Nat /\ statement >= 1
         /\ Len(source) \in Nat /\ DOMAIN source = 1 .. Len(source)
BY OwnElements DEF Inv, TypeOK

LEMMA FunctionStep ==
  ASSUME Inv, FunctionDeclaration
  PROVE  Inv'
<1> DEFINE p == DepNodeOf(registry', <<statement>>)
<1>1. /\ building = "visit" /\ statement \in DOMAIN source
      /\ source[statement].kind = "function"
      /\ registry' = create_dep_node(<<statement>>) /\ Fits
      /\ graph' = Append(graph, p) /\ building' = "link"
      /\ source' = source /\ dependencies' = dependencies /\ statement' = statement
  BY StatementNumber DEF FunctionDeclaration
<1>2. <<statement>> # NullPath
  BY DEF NullPath
<1>3. /\ registry' \in Seq(Range(registry')) /\ IsInjective(registry')
      /\ \A n \in DOMAIN registry' : registry'[n] # NullPath
      /\ Len(registry') <= MaxNodes
      /\ DOMAIN registry \subseteq DOMAIN registry'
      /\ \A n \in DOMAIN registry : registry'[n] = registry[n]
      /\ p \in DOMAIN registry' /\ registry'[p] = <<statement>>
      /\ graph \in Seq(DOMAIN registry')
      /\ dependencies \in [Node -> Seq(DOMAIN registry')]
  BY <1>1, <1>2, RegistryGrown
<1>4. Parent' = p
  BY <1>1 DEF Parent
<1> HIDE DEF p
<1>5. statement \notin Joined /\ Joined \cup {statement} \subseteq Joined'
  BY <1>1, StatementNumber DEF Joined
<1>6. InGraph' /\ IsInjective(graph') /\ graph' \in Seq(DOMAIN registry')
  BY <1>1, <1>3, <1>5, GraphGrows
<1>7. TypeOK'
  BY <1>1, <1>3, <1>6 DEF Inv, TypeOK
<1>8. Handling'
  BY <1>1, <1>3, <1>4 DEF Handling
<1>9. \A n \in Node : DependsWell(n)'
  BY <1>1, <1>3, DependsWellKept
<1> QED
  BY <1>3, <1>6, <1>7, <1>8, <1>9 DEF Inv, OneNodePerAst

LEMMA TypeStep ==
  ASSUME Inv, TypeDeclaration
  PROVE  Inv'
<1> DEFINE p == DepNodeOf(registry', <<statement>>)
<1>1. /\ building = "visit" /\ statement \in DOMAIN source
      /\ source[statement].kind = "type"
      /\ registry' = create_dep_node(<<statement>>) /\ Fits
      /\ graph' = graph /\ building' = "link"
      /\ source' = source /\ dependencies' = dependencies /\ statement' = statement
  BY StatementNumber DEF TypeDeclaration
<1>2. <<statement>> # NullPath
  BY DEF NullPath
<1>3. /\ registry' \in Seq(Range(registry')) /\ IsInjective(registry')
      /\ \A n \in DOMAIN registry' : registry'[n] # NullPath
      /\ Len(registry') <= MaxNodes
      /\ DOMAIN registry \subseteq DOMAIN registry'
      /\ \A n \in DOMAIN registry : registry'[n] = registry[n]
      /\ p \in DOMAIN registry' /\ registry'[p] = <<statement>>
      /\ graph \in Seq(DOMAIN registry')
      /\ dependencies \in [Node -> Seq(DOMAIN registry')]
  BY <1>1, <1>2, RegistryGrown
<1>4. Parent' = p
  BY <1>1 DEF Parent
<1> HIDE DEF p
<1>5. Joined \subseteq Joined'
  BY <1>1 DEF Joined
<1>6. InGraph'
  <2>1. ASSUME NEW k \in DOMAIN graph
        PROVE  \E d \in Joined' : registry'[graph[k]] = <<d>>
    <3>1. graph[k] \in DOMAIN registry
      BY DEF Inv, TypeOK
    <3>2. PICK d \in Joined : registry[graph[k]] = <<d>>
      BY DEF Inv, InGraph
    <3> QED
      BY <1>3, <1>5, <3>1, <3>2
  <2> QED
    BY <1>1, <2>1 DEF InGraph
<1>7. TypeOK'
  BY <1>1, <1>3 DEF Inv, TypeOK
<1>8. Handling'
  BY <1>1, <1>3, <1>4 DEF Handling
<1>9. \A n \in Node : DependsWell(n)'
  BY <1>1, <1>3, DependsWellKept
<1> QED
  BY <1>1, <1>3, <1>6, <1>7, <1>8, <1>9 DEF Inv, OneNodePerAst

LEMMA LinkStep ==
  ASSUME Inv, AddDependency
  PROVE  Inv'
<1> DEFINE ast == Head(pending)
           dep == DepNodeOf(registry', ast)
           q == Parent
           more == Append(dependencies[q], dep)
<1>1. /\ building = "link" /\ building' = "link" /\ ast # NullPath
      /\ registry' = create_dep_node(ast) /\ Fits
      /\ dependencies' = IF dep = q \/ dep \in Range(dependencies[q]) THEN dependencies
                         ELSE [dependencies EXCEPT ![q] = more]
      /\ source' = source /\ graph' = graph /\ statement' = statement
  BY DEF AddDependency
<1>2. /\ registry' \in Seq(Range(registry')) /\ IsInjective(registry')
      /\ \A n \in DOMAIN registry' : registry'[n] # NullPath
      /\ Len(registry') <= MaxNodes
      /\ DOMAIN registry \subseteq DOMAIN registry' /\ DOMAIN registry' \subseteq Node
      /\ \A n \in DOMAIN registry : registry'[n] = registry[n]
      /\ dep \in DOMAIN registry'
      /\ graph \in Seq(DOMAIN registry')
      /\ dependencies \in [Node -> Seq(DOMAIN registry')]
  BY <1>1, RegistryGrown
<1>3. /\ statement \in DOMAIN source /\ source[statement].kind \in {"function", "type"}
      /\ q \in DOMAIN registry /\ registry[q] = <<statement>>
  BY <1>1 DEF Inv, Handling
<1>4. Parent' = q
  <2>1. IsRegistry(registry')
    BY <1>2 DEF IsRegistry
  <2>2. q \in DOMAIN registry' /\ registry'[q] = <<statement>>
    BY <1>2, <1>3
  <2>3. DepNodeOf(registry', <<statement>>) = q
    BY <2>1, <2>2, NodeOf
  <2> QED
    BY <1>1, <2>3 DEF Parent
<1> HIDE DEF ast, dep, q
<1>5. ASSUME ~(dep = q \/ dep \in Range(dependencies[q]))
      PROVE  /\ more \in Seq(DOMAIN registry') /\ IsInjective(more)
             /\ q \notin Range(more) /\ q \in Node
  <2>1. q \in Node /\ dependencies[q] \in Seq(DOMAIN registry')
    BY <1>2, <1>3
  <2>2. IsInjective(dependencies[q]) /\ q \notin Range(dependencies[q])
    BY <2>1 DEF Inv, DependsWell
  <2>3. /\ more \in Seq(DOMAIN registry') /\ IsInjective(more)
        /\ Range(more) = Range(dependencies[q]) \cup {dep}
    BY <1>2, <1>5, <2>1, <2>2, AppendNew
  <2> QED
    BY <1>5, <2>1, <2>2, <2>3
<1> HIDE DEF more
<1>6. dependencies' \in [Node -> Seq(DOMAIN registry')]
  BY <1>1, <1>2, <1>5
<1>7. ASSUME NEW n \in Node
      PROVE  DependsWell(n)'
  <2>1. DependsWell(n)
    BY DEF Inv
  <2>2. CASE dependencies'[n] = dependencies[n]
    BY <1>1, <1>2, <2>1, <2>2 DEF DependsWell
  <2>3. CASE dependencies'[n] # dependencies[n]
    <3>1. n = q /\ dependencies'[n] = more /\ ~(dep = q \/ dep \in Range(dependencies[q]))
      BY <1>1, <1>2, <2>3
    <3>2. n \in DOMAIN registry' /\ statement \in DOMAIN source' /\ registry'[n] = <<statement>>
      BY <1>1, <1>2, <1>3, <3>1
    <3>3. IsInjective(dependencies'[n]) /\ n \notin Range(dependencies'[n])
      BY <1>5, <3>1
    <3> QED
      BY <3>2, <3>3 DEF DependsWell
  <2> QED
    BY <2>2, <2>3
<1>8. Joined' = Joined
  BY <1>1 DEF Joined
<1>9. InGraph'
  BY <1>1, <1>2, <1>8 DEF Inv, InGraph, TypeOK
<1>10. TypeOK'
  BY <1>1, <1>2, <1>6 DEF Inv, TypeOK
<1>11. Handling'
  BY <1>1, <1>2, <1>3, <1>4 DEF Handling
<1> QED
  BY <1>1, <1>2, <1>7, <1>9, <1>10, <1>11 DEF Inv, OneNodePerAst

LEMMA EndStep ==
  ASSUME Inv, EndStatement
  PROVE  Inv'
<1>1. /\ building = "link" /\ building' = "visit" /\ pending = <<>> /\ pending' = pending
      /\ statement' = statement + 1
      /\ graph' = IF source[statement].kind = "type" THEN Append(graph, Parent) ELSE graph
      /\ source' = source /\ registry' = registry /\ dependencies' = dependencies
  BY DEF EndStatement
<1>2. /\ statement \in DOMAIN source /\ source[statement].kind \in {"function", "type"}
      /\ Parent \in DOMAIN registry /\ registry[Parent] = <<statement>>
  BY <1>1 DEF Inv, Handling
<1>3. /\ graph \in Seq(DOMAIN registry) /\ IsInjective(graph) /\ InGraph
      /\ DOMAIN registry' = DOMAIN registry
  BY <1>1 DEF Inv, TypeOK
<1>4. Joined \subseteq Joined' /\ statement \in Joined'
  BY <1>1, <1>2, StatementNumber DEF Joined
<1>5. InGraph' /\ IsInjective(graph') /\ graph' \in Seq(DOMAIN registry')
  <2>1. CASE source[statement].kind = "type"
    <3>1. statement \notin Joined
      BY <2>1, StatementNumber DEF Joined
    <3> DEFINE p == Parent
    <3>2. p \in DOMAIN registry' /\ registry'[p] = <<statement>> /\ graph' = Append(graph, p)
      BY <1>1, <1>2, <2>1
    <3> HIDE DEF p
    <3> QED
      BY <1>1, <1>2, <1>3, <1>4, <3>1, <3>2, GraphGrows
  <2>2. CASE source[statement].kind # "type"
    BY <1>1, <1>3, <1>4, <2>2 DEF InGraph
  <2> QED
    BY <2>1, <2>2
<1>6. TypeOK'
  <2>1. statement' \in 1 .. Len(source') + 1
    BY <1>1, <1>2, StatementNumber
  <2> QED
    BY <1>1, <1>5, <2>1 DEF Inv, TypeOK
<1>7. \A n \in Node : DependsWell(n)'
  BY <1>1, DependsWellKept
<1> QED
  BY <1>1, <1>5, <1>6, <1>7 DEF Inv, OneNodePerAst, Handling

LEMMA OtherSteps ==
  ASSUME Inv, OtherStatement \/ NullSymbol \/ Finish \/ Halt \/ UNCHANGED builder_vars
  PROVE  Inv'
<1>1. /\ source' = source /\ registry' = registry /\ dependencies' = dependencies
      /\ graph' = graph /\ pending' = pending
  BY DEF OtherStatement, NullSymbol, Finish, Halt, builder_vars
<1>2. /\ \/ building' = building /\ statement' = statement
         \/ building = "visit" /\ building' = "visit" /\ statement \in DOMAIN source
            /\ statement' = statement + 1
         \/ building = "link" /\ building' = "crashed" /\ statement' = statement
         \/ building = "visit" /\ building' = "built" /\ statement' = statement
  BY StatementNumber DEF OtherStatement, NullSymbol, Finish, Halt, builder_vars
<1>3. Joined \subseteq Joined'
  BY <1>1, <1>2, StatementNumber DEF Joined
<1>4. InGraph'
  BY <1>1, <1>3 DEF Inv, InGraph
<1>5. TypeOK'
  <2>1. statement' \in 1 .. Len(source') + 1
    BY <1>1, <1>2, StatementNumber DEF Inv, TypeOK
  <2>2. /\ building' \in {"visit", "link", "built", "crashed"}
        /\ pending' # <<>> => building' \in {"link", "crashed"}
    BY <1>1, <1>2 DEF Inv, TypeOK
  <2> QED
    BY <1>1, <2>1, <2>2 DEF Inv, TypeOK
<1>6. Parent' = Parent \/ ~(building' \in {"link", "crashed"})
  BY <1>1, <1>2 DEF Parent
<1>7. Handling'
  BY <1>1, <1>2, <1>6 DEF Inv, Handling
<1>8. \A n \in Node : DependsWell(n)'
  BY <1>1, DependsWellKept
<1> QED
  BY <1>1, <1>4, <1>5, <1>7, <1>8 DEF Inv, OneNodePerAst

LEMMA InvStep == Inv /\ [Next]_builder_vars => Inv'
<1> SUFFICES ASSUME Inv, [Next]_builder_vars
             PROVE  Inv'
  OBVIOUS
<1>1. CASE FunctionDeclaration
  BY <1>1, FunctionStep
<1>2. CASE TypeDeclaration
  BY <1>2, TypeStep
<1>3. CASE AddDependency
  BY <1>3, LinkStep
<1>4. CASE EndStatement
  BY <1>4, EndStep
<1>5. CASE OtherStatement \/ NullSymbol \/ Finish \/ Halt \/ UNCHANGED builder_vars
  BY <1>5, OtherSteps
<1> QED
  BY <1>1, <1>2, <1>3, <1>4, <1>5 DEF Next, populate_dep_graph

-----------------------------------------------------------------------------
(***************************************************************************)
(* The theorems                                                            *)
(***************************************************************************)
LEMMA Invariance == Spec => []Inv
BY InvInit, InvStep, PTL DEF Spec

\* Every variable of the builder keeps its type, and the registry its bound.
THEOREM TypeCorrectness == Spec => []TypeOK
<1>1. Inv => TypeOK
  BY DEF Inv
<1> QED
  BY <1>1, Invariance, PTL

\* No syntax node ever has two DepNodes: create_dep_node finds the one that a
\* forward reference made (graph.h:40-53).
THEOREM OneNodeCorrectness == Spec => []OneNodePerAst
<1>1. Inv => OneNodePerAst
  BY DEF Inv
<1> QED
  BY <1>1, Invariance, PTL

\* The finished graph has no node twice, nor has any list of dependencies, and
\* no node is among its own (graph.h:82-131).
THEOREM FeedCorrectness == Spec => []FeedsScheduler
<1>1. Inv => FeedsScheduler
  BY DEF Inv, DependsWell, FeedsScheduler
<1> QED
  BY <1>1, Invariance, PTL

\* Only declarations have dependencies (graph.c:5-40).
THEOREM DeclarationsCorrectness == Spec => []OnlyDeclarationsDepend
<1>1. Inv => OnlyDeclarationsDepend
  <2> SUFFICES ASSUME Inv, NEW n \in DOMAIN registry, dependencies[n] # <<>>
               PROVE  registry[n] \in {<<d>> : d \in DOMAIN source}
    BY DEF OnlyDeclarationsDepend
  <2>1. n \in Node
    <3>1. registry \in Seq(Range(registry)) /\ Len(registry) <= MaxNodes /\ MaxNodes \in Nat
      BY ProgramsAssumption DEF Inv, TypeOK
    <3> QED
      BY <3>1, OwnElements DEF Node
  <2> QED
    BY <2>1 DEF Inv, DependsWell
<1> QED
  BY <1>1, Invariance, PTL

-----------------------------------------------------------------------------
(***************************************************************************)
(* The graph is the program: what has joined the graph is what the loop    *)
(* has passed, in the order in which it passed it.                         *)
(***************************************************************************)
Entered == \A d \in Joined : IsDeclaration(d) =>
             \E k \in DOMAIN graph : registry[graph[k]] = <<d>>

InTextOrder == \A j, k \in DOMAIN graph :
                 j < k => registry[graph[j]][1] < registry[graph[k]][1]

HoldsDeclarations == \A k \in DOMAIN graph : IsDeclaration(registry[graph[k]][1])

LoopEnded == building = "built" => statement > Len(source)

ProgramInv == Entered /\ InTextOrder /\ HoldsDeclarations /\ LoopEnded

\* The two things a step may do to the graph.
GraphStays ==
  graph' = graph /\ \A d \in Joined' : d \in Joined \/ ~IsDeclaration(d)

GraphTakes(p) ==
  /\ graph' = Append(graph, p)
  /\ p \in DOMAIN registry' /\ registry'[p] = <<statement>>
  /\ statement \in DOMAIN source /\ statement \notin Joined /\ IsDeclaration(statement)
  /\ Joined' \subseteq Joined \cup {statement}

LEMMA GraphSteps ==
  ASSUME Inv, [Next]_builder_vars
  PROVE  /\ source' = source
         /\ DOMAIN registry \subseteq DOMAIN registry'
         /\ \A n \in DOMAIN registry : registry'[n] = registry[n]
         /\ GraphStays \/ \E p : GraphTakes(p)
<1>1. CASE FunctionDeclaration
  <2> DEFINE p == DepNodeOf(registry', <<statement>>)
  <2>1. /\ building = "visit" /\ statement \in DOMAIN source
        /\ source[statement].kind = "function"
        /\ registry' = create_dep_node(<<statement>>) /\ Fits
        /\ graph' = Append(graph, p) /\ building' = "link"
        /\ source' = source /\ statement' = statement /\ <<statement>> # NullPath
    BY <1>1, StatementNumber DEF FunctionDeclaration, NullPath
  <2>2. /\ DOMAIN registry \subseteq DOMAIN registry'
        /\ \A n \in DOMAIN registry : registry'[n] = registry[n]
        /\ p \in DOMAIN registry' /\ registry'[p] = <<statement>>
    BY <2>1, RegistryGrown
  <2> HIDE DEF p
  <2>3. statement \notin Joined /\ Joined' \subseteq Joined \cup {statement}
    BY <2>1, StatementNumber DEF Joined
  <2>4. GraphTakes(p)
    BY <2>1, <2>2, <2>3 DEF GraphTakes, IsDeclaration
  <2> QED
    BY <2>1, <2>2, <2>4
<1>2. CASE TypeDeclaration
  <2>1. /\ building = "visit" /\ building' = "link" /\ graph' = graph
        /\ source[statement].kind = "type"
        /\ registry' = create_dep_node(<<statement>>) /\ Fits
        /\ source' = source /\ statement' = statement /\ <<statement>> # NullPath
    BY <1>2 DEF TypeDeclaration, NullPath
  <2>2. /\ DOMAIN registry \subseteq DOMAIN registry'
        /\ \A n \in DOMAIN registry : registry'[n] = registry[n]
    BY <2>1, RegistryGrown
  <2>3. GraphStays
    BY <2>1 DEF GraphStays, Joined
  <2> QED
    BY <2>1, <2>2, <2>3
<1>3. CASE AddDependency
  <2> DEFINE ast == Head(pending)
  <2>1. /\ building = "link" /\ building' = "link" /\ graph' = graph
        /\ registry' = create_dep_node(ast) /\ Fits
        /\ source' = source /\ statement' = statement /\ ast # NullPath
    BY <1>3 DEF AddDependency
  <2>2. /\ DOMAIN registry \subseteq DOMAIN registry'
        /\ \A n \in DOMAIN registry : registry'[n] = registry[n]
    BY <2>1, RegistryGrown
  <2>3. GraphStays
    BY <2>1 DEF GraphStays, Joined
  <2> QED
    BY <2>1, <2>2, <2>3
<1>4. CASE EndStatement
  <2>1. /\ building = "link" /\ building' = "visit" /\ statement' = statement + 1
        /\ graph' = IF source[statement].kind = "type" THEN Append(graph, Parent) ELSE graph
        /\ source' = source /\ registry' = registry
    BY <1>4 DEF EndStatement
  <2>2. /\ statement \in DOMAIN source /\ source[statement].kind \in {"function", "type"}
        /\ Parent \in DOMAIN registry /\ registry[Parent] = <<statement>>
    BY <2>1 DEF Inv, Handling
  <2>3. CASE source[statement].kind = "type"
    <3> DEFINE p == Parent
    <3>1. statement \notin Joined /\ Joined' \subseteq Joined \cup {statement}
      BY <2>1, <2>2, <2>3, StatementNumber DEF Joined
    <3>2. /\ graph' = Append(graph, p)
          /\ p \in DOMAIN registry' /\ registry'[p] = <<statement>>
      BY <2>1, <2>2, <2>3
    <3> HIDE DEF p
    <3>3. GraphTakes(p)
      BY <2>2, <3>1, <3>2 DEF GraphTakes, IsDeclaration
    <3> QED
      BY <2>1, <3>3
  <2>4. CASE source[statement].kind = "function"
    <3>1. Joined' \subseteq Joined
      BY <2>1, <2>2, <2>4, StatementNumber DEF Joined
    <3> QED
      BY <2>1, <2>4, <3>1 DEF GraphStays
  <2> QED
    BY <2>2, <2>3, <2>4
<1>5. CASE OtherStatement
  <2>1. /\ source' = source /\ registry' = registry /\ graph' = graph
        /\ building = "visit" /\ building' = "visit" /\ statement' = statement + 1
        /\ statement \in DOMAIN source /\ ~IsDeclaration(statement)
    BY <1>5, StatementNumber DEF OtherStatement, IsDeclaration
  <2>2. Joined' \subseteq Joined \cup {statement}
    BY <2>1, StatementNumber DEF Joined
  <2> QED
    BY <2>1, <2>2 DEF GraphStays
<1>6. CASE NullSymbol \/ Finish \/ Halt \/ UNCHANGED builder_vars
  <2>1. /\ source' = source /\ registry' = registry /\ graph' = graph /\ statement' = statement
        /\ \/ building' = building
           \/ building = "link" /\ building' = "crashed"
           \/ building = "visit" /\ building' = "built"
    BY <1>6 DEF NullSymbol, Finish, Halt, builder_vars
  <2>2. Joined' \subseteq Joined
    BY <2>1 DEF Joined
  <2> QED
    BY <2>1, <2>2 DEF GraphStays
<1> QED
  BY <1>1, <1>2, <1>3, <1>4, <1>5, <1>6 DEF Next, populate_dep_graph

LEMMA ProgramStep ==
  ASSUME Inv, ProgramInv, [Next]_builder_vars
  PROVE  ProgramInv'
<1>1. LoopEnded'
  <2>1. CASE Finish
    BY <2>1 DEF Finish, LoopEnded
  <2>2. CASE ~Finish
    BY <2>2 DEF Next, populate_dep_graph, FunctionDeclaration, TypeDeclaration, OtherStatement,
                AddDependency, NullSymbol, EndStatement, Halt, builder_vars,
                LoopEnded, ProgramInv
  <2> QED
    BY <2>1, <2>2
<1>2. /\ source' = source
      /\ DOMAIN registry \subseteq DOMAIN registry'
      /\ \A n \in DOMAIN registry : registry'[n] = registry[n]
      /\ GraphStays \/ \E p : GraphTakes(p)
  BY GraphSteps
<1>3. /\ Entered /\ InTextOrder /\ HoldsDeclarations
      /\ \A k \in DOMAIN graph : graph[k] \in DOMAIN registry
      /\ \A k \in DOMAIN graph : registry'[graph[k]] = registry[graph[k]]
      /\ graph \in Seq(DOMAIN registry) /\ Len(graph) \in Nat
  BY <1>2 DEF ProgramInv, Inv, TypeOK
<1>4. CASE GraphStays
  <2>1. graph' = graph /\ \A d \in Joined' : d \in Joined \/ ~IsDeclaration(d)
    BY <1>4 DEF GraphStays
  <2>2. Entered'
    BY <1>2, <1>3, <2>1 DEF Entered, IsDeclaration
  <2>3. InTextOrder' /\ HoldsDeclarations'
    BY <1>2, <1>3, <2>1 DEF InTextOrder, HoldsDeclarations, IsDeclaration
  <2> QED
    BY <1>1, <2>2, <2>3 DEF ProgramInv
<1>5. CASE \E p : GraphTakes(p)
  <2>1. PICK p : GraphTakes(p)
    BY <1>5
  <2>2. /\ p \in DOMAIN registry' /\ registry'[p] = <<statement>>
        /\ statement \in DOMAIN source /\ statement \notin Joined /\ IsDeclaration(statement)
        /\ Joined' \subseteq Joined \cup {statement}
    BY <2>1 DEF GraphTakes
  <2> DEFINE L == Len(graph)
  <2>3. graph \in Seq(DOMAIN registry') /\ graph' = Append(graph, p)
    BY <1>2, <1>3, <2>1, LargerSet DEF GraphTakes
  <2>4. /\ L \in Nat /\ DOMAIN graph = 1 .. L /\ DOMAIN graph' = 1 .. L + 1
        /\ \A k \in 1 .. L : graph'[k] = graph[k]
        /\ graph'[L + 1] = p
    BY <1>3, <2>2, <2>3
  <2> HIDE DEF L
  <2>5. /\ \A k \in 1 .. L : registry'[graph'[k]] = registry[graph[k]]
        /\ registry'[graph'[L + 1]] = <<statement>>
    BY <1>3, <2>2, <2>4
  <2>6. \A k \in DOMAIN graph' : k \in 1 .. L \/ k = L + 1
    BY <2>4
  <2>7. L + 1 \in DOMAIN graph' /\ \A k \in 1 .. L : k \in DOMAIN graph'
    BY <2>4
  <2>8. Entered'
    <3>1. ASSUME NEW d \in Joined', IsDeclaration(d)
          PROVE  \E k \in DOMAIN graph' : registry'[graph'[k]] = <<d>>
      <4>1. CASE d = statement
        BY <2>5, <2>7, <4>1
      <4>2. CASE d \in Joined
        <5>1. PICK k \in DOMAIN graph : registry[graph[k]] = <<d>>
          BY <1>3, <3>1, <4>2 DEF Entered
        <5> QED
          BY <2>4, <2>5, <2>7, <5>1
      <4> QED
        BY <2>2, <4>1, <4>2
    <3> QED
      BY <1>2, <3>1 DEF Entered, IsDeclaration
  <2>9. HoldsDeclarations'
    <3>1. ASSUME NEW k \in DOMAIN graph'
          PROVE  IsDeclaration(registry'[graph'[k]][1])
      BY <1>3, <2>2, <2>4, <2>5, <2>6 DEF HoldsDeclarations
    <3> QED
      BY <1>2, <3>1 DEF HoldsDeclarations, IsDeclaration
  <2>10. \A k \in 1 .. L : registry'[graph'[k]][1] < statement
    <3>1. ASSUME NEW k \in 1 .. L
          PROVE  registry'[graph'[k]][1] < statement
      <4>1. PICK d \in Joined : registry[graph[k]] = <<d>>
        BY <2>4 DEF Inv, InGraph
      <4>2. d < statement
        BY <2>2, <4>1, StatementNumber DEF Joined
      <4>3. registry[graph[k]][1] = d
        BY <4>1
      <4> QED
        BY <2>5, <4>2, <4>3
    <3> QED
      BY <3>1
  <2>11. InTextOrder'
    <3>1. ASSUME NEW j \in DOMAIN graph', NEW k \in DOMAIN graph', j < k
          PROVE  registry'[graph'[j]][1] < registry'[graph'[k]][1]
      <4>1. j \in 1 .. L
        BY <2>4, <3>1
      <4>2. CASE k = L + 1
        <5>1. registry'[graph'[k]][1] = statement
          BY <2>5, <4>2
        <5> QED
          BY <2>10, <4>1, <5>1
      <4>3. CASE k \in 1 .. L
        BY <1>3, <2>4, <2>5, <3>1, <4>1, <4>3 DEF InTextOrder
      <4> QED
        BY <2>6, <4>2, <4>3
    <3> QED
      BY <3>1 DEF InTextOrder
  <2> QED
    BY <1>1, <2>8, <2>9, <2>11 DEF ProgramInv
<1> QED
  BY <1>2, <1>4, <1>5

LEMMA ProgramInit == Init => ProgramInv
<1> SUFFICES ASSUME Init
             PROVE  ProgramInv
  OBVIOUS
<1>1. Inv
  BY InvInit
<1>2. graph = <<>> /\ statement = 1 /\ building = "visit"
  BY DEF Init
<1>3. Joined = {}
  BY <1>1, <1>2, StatementNumber DEF Joined
<1> QED
  BY <1>2, <1>3 DEF ProgramInv, Entered, InTextOrder, HoldsDeclarations, LoopEnded

LEMMA ProgramIsWhole ==
  ASSUME Inv, ProgramInv
  PROVE  GraphIsProgram
<1> SUFFICES ASSUME building = "built"
             PROVE  /\ InTextOrder
                    /\ {registry[n] : n \in Range(graph)} = Declarations
                    /\ \A n \in DOMAIN registry : registry[n] \in Declarations => n \in Range(graph)
  BY DEF GraphIsProgram, InTextOrder
<1>1. Joined = DOMAIN source
  BY StatementNumber DEF ProgramInv, LoopEnded, Joined
<1>2. ASSUME NEW n \in Range(graph)
      PROVE  n \in DOMAIN registry /\ registry[n] \in Declarations
  <2>1. PICK k \in DOMAIN graph : graph[k] = n
    BY DEF Range
  <2>2. PICK d \in DOMAIN source : registry[n] = <<d>>
    BY <1>1, <2>1 DEF Inv, InGraph
  <2>3. IsDeclaration(d)
    BY <2>1, <2>2 DEF ProgramInv, HoldsDeclarations
  <2>4. n \in DOMAIN registry
    BY <2>1 DEF Inv, TypeOK
  <2> QED
    BY <2>2, <2>3, <2>4 DEF Declarations
<1>3. ASSUME NEW d \in DOMAIN source, IsDeclaration(d)
      PROVE  \E n \in Range(graph) : registry[n] = <<d>>
  <2>1. PICK k \in DOMAIN graph : registry[graph[k]] = <<d>>
    BY <1>1, <1>3 DEF ProgramInv, Entered
  <2> QED
    BY <2>1 DEF Range
<1>4. {registry[n] : n \in Range(graph)} = Declarations
  BY <1>2, <1>3 DEF Declarations
<1>5. ASSUME NEW n \in DOMAIN registry, registry[n] \in Declarations
      PROVE  n \in Range(graph)
  <2>1. PICK m \in Range(graph) : registry[m] = registry[n]
    BY <1>3, <1>5 DEF Declarations
  <2>2. m \in DOMAIN registry
    BY <1>2, <2>1
  <2> QED
    BY <2>1, <2>2 DEF Inv, OneNodePerAst, IsInjective
<1> QED
  BY <1>4, <1>5 DEF ProgramInv

LEMMA WholeStep == Inv /\ ProgramInv /\ [Next]_builder_vars => ProgramInv'
BY ProgramStep

\* Whatever refers to whatever, the finished graph is the declarations of the
\* program in the order of the text, and no declaration is only a dependency
\* (graph.c:63-117).
THEOREM ProgramCorrectness == Spec => []GraphIsProgram
<1>1. Inv /\ ProgramInv => GraphIsProgram
  BY ProgramIsWhole
<1> QED
  BY <1>1, Invariance, ProgramInit, WholeStep, PTL DEF Spec

-----------------------------------------------------------------------------
(***************************************************************************)
(* Signatures: what the parameters of a function and the members of a type *)
(* name has been linked when the handler returns.                          *)
(***************************************************************************)
TypeNames(d) == IF source[d].kind = "function" THEN Range(source[d].parameters)
                ELSE IF source[d].kind = "type" THEN Range(source[d].members) ELSE {}

\* The declarations of the program that a signature names, but for its own.
SignatureUses(d) ==
  {<<e>> : e \in {c \in DOMAIN source :
                    c # d /\ IsNamed(source[c]) /\ source[c].name \in TypeNames(d)}}

Linked(d, path) == \E n \in DOMAIN registry, m \in DOMAIN registry :
                     /\ registry[n] = <<d>> /\ registry[m] = path
                     /\ m \in Range(dependencies[n])

\* A path of length one is a statement of the program.
IsPath(p) == \/ p = NullPath
             \/ \E e \in DOMAIN source : p = <<e>>
             \/ Len(p) \in Nat /\ Len(p) > 1

ListOfPaths(s) == s \in Seq(Range(s)) /\ \A p \in Range(s) : IsPath(p)

SignatureInv ==
  /\ IsTree(source)
  /\ ListOfPaths(pending)
  /\ \A n \in DOMAIN registry : IsPath(registry[n])
  /\ \A d \in DOMAIN source : d < statement =>
       \A u \in SignatureUses(d) : Linked(d, u)
  /\ building = "link" =>
       \A u \in SignatureUses(statement) : u \in Range(pending) \/ Linked(statement, u)

LEMMA ShortLists ==
  /\ ListOfPaths(<<>>)
  /\ \A p : IsPath(p) => ListOfPaths(<<p>>)
  /\ \A p, q : IsPath(p) /\ IsPath(q) => ListOfPaths(<<p, q>>)
<1>1. ListOfPaths(<<>>)
  BY DEF ListOfPaths, Range
<1>2. ASSUME NEW p, IsPath(p)
      PROVE  ListOfPaths(<<p>>)
  <2>1. <<p>> \in Seq({p}) /\ Range(<<p>>) = {p}
    BY DEF Range
  <2> QED
    BY <1>2, <2>1 DEF ListOfPaths
<1>3. ASSUME NEW p, NEW q, IsPath(p), IsPath(q)
      PROVE  ListOfPaths(<<p, q>>)
  <2>1. <<p, q>> \in Seq({p, q}) /\ Range(<<p, q>>) = {p, q}
    BY DEF Range
  <2> QED
    BY <1>3, <2>1 DEF ListOfPaths
<1> QED
  BY <1>1, <1>2, <1>3

LEMMA JoinedLists ==
  ASSUME NEW a, NEW b, ListOfPaths(a), ListOfPaths(b)
  PROVE  ListOfPaths(a \o b) /\ Range(a \o b) = Range(a) \cup Range(b)
<1> DEFINE S == Range(a) \cup Range(b)
<1>1. a \in Seq(S) /\ b \in Seq(S)
  BY LargerSet DEF ListOfPaths
<1>2. a \o b \in Seq(S) /\ Range(a \o b) = S
  BY <1>1, JoinedElements
<1> QED
  BY <1>2 DEF ListOfPaths

\* What find_symbol finds is a path, and from a signature it finds the one
\* declaration of the program that has the name.
LEMMA Found ==
  ASSUME NEW name
  PROVE  /\ IsPath(find_program_symbol(source, name))
         /\ \A d : IsPath(find_symbol(source, d, name))
<1>1. \A p \in ProgramSymbols(source, name) : IsPath(p)
  BY DEF ProgramSymbols, IsPath
<1>2. \A d : \A p \in BlockSymbols(source, d, name) : IsPath(p)
  <2>1. \A d, k : Len(<<d, k>>) = 2
    OBVIOUS
  <2> QED
    BY <2>1 DEF BlockSymbols, IsPath
<1>3. IsPath(NullPath)
  BY DEF IsPath
<1> QED
  BY <1>1, <1>2, <1>3 DEF find_program_symbol, find_symbol

LEMMA FoundInProgram ==
  ASSUME Inv, NEW e \in DOMAIN source, IsNamed(source[e])
  PROVE  find_program_symbol(source, source[e].name) = <<e>>
<1>1. \A c \in DOMAIN source : Names(source[c], source[e].name) <=> c = e
  BY DEF Inv, TypeOK, Accepted, Names
<1>2. ProgramSymbols(source, source[e].name) = {<<e>>}
  BY <1>1 DEF ProgramSymbols
<1> QED
  BY <1>2 DEF find_program_symbol

\* The list a handler makes of a list of type names: every one of them that is
\* a declaration is in it.
UsesOf(names, skipped) ==
  FlattenSeq([k \in DOMAIN names |->
    IF names[k] \in skipped THEN <<>> ELSE TypeUse(find_program_symbol(source, names[k]))])

LEMMA UsesOfNames ==
  ASSUME Inv, NEW names, IsList(names), NEW skipped,
         \A e \in DOMAIN source : IsNamed(source[e]) => source[e].name \notin skipped
  PROVE  LET uses == UsesOf(names, skipped)
         IN /\ ListOfPaths(uses)
            /\ \A u \in Range(uses) : \E name : u = find_program_symbol(source, name)
            /\ \A e \in DOMAIN source :
                 IsNamed(source[e]) /\ source[e].name \in Range(names) => <<e>> \in Range(uses)
<1> DEFINE uses(k) == IF names[k] \in skipped THEN <<>>
                      ELSE TypeUse(find_program_symbol(source, names[k]))
           ss == [k \in DOMAIN names |-> uses(k)]
           S  == {find_program_symbol(source, names[k]) : k \in DOMAIN names}
<1>1. Len(names) \in Nat /\ DOMAIN names = 1 .. Len(names)
  BY DEF IsList
<1>2. \A k \in DOMAIN names : uses(k) \in Seq(S)
  <2> TAKE k \in DOMAIN names
  <2> DEFINE x == find_program_symbol(source, names[k])
  <2>1. x \in S
    OBVIOUS
  <2> HIDE DEF x, S
  <2>2. <<>> \in Seq(S) /\ <<x>> \in Seq(S)
    BY <2>1
  <2> QED
    BY <2>2 DEF TypeUse, x
<1>3. ss \in Seq(Seq(S)) /\ DOMAIN ss = DOMAIN names
  BY <1>1, <1>2
<1> HIDE DEF S, ss
<1>4. /\ FlattenSeq(ss) \in Seq(S)
      /\ \A x : x \in Range(FlattenSeq(ss)) <=> \E k \in DOMAIN ss : x \in Range(ss[k])
  BY <1>3, FlattenElements
<1>5. \A p \in S : IsPath(p)
  BY Found DEF S
<1>6. /\ ListOfPaths(FlattenSeq(ss))
      /\ \A u \in Range(FlattenSeq(ss)) : \E name : u = find_program_symbol(source, name)
  <2>1. FlattenSeq(ss) \in Seq(Range(FlattenSeq(ss)))
    BY <1>4, OwnElements
  <2>2. \A p \in Range(FlattenSeq(ss)) : p \in S
    BY <1>4, OwnElements
  <2>3. \A p \in S : \E name : p = find_program_symbol(source, name)
    BY DEF S
  <2> QED
    BY <1>5, <2>1, <2>2, <2>3 DEF ListOfPaths
<1>7. ASSUME NEW e \in DOMAIN source, IsNamed(source[e]), source[e].name \in Range(names)
      PROVE  <<e>> \in Range(FlattenSeq(ss))
  <2>1. PICK k \in DOMAIN names : names[k] = source[e].name
    BY <1>7 DEF Range
  <2>2. names[k] \notin skipped /\ find_program_symbol(source, names[k]) = <<e>>
    BY <1>7, <2>1, FoundInProgram
  <2>3. ss[k] = <<<<e>>>>
    BY <2>2 DEF ss, TypeUse, NullPath
  <2>4. <<e>> \in Range(ss[k])
    BY <2>3 DEF Range
  <2> QED
    BY <1>3, <1>4, <2>4
<1> QED
  BY <1>6, <1>7 DEF ss, UsesOf

LEMMA SignatureUse ==
  ASSUME Inv, IsTree(source), NEW d \in DOMAIN source
  PROVE  /\ source[d].kind = "function" => ListOfPaths(ParameterUse(d))
         /\ source[d].kind = "type" => ListOfPaths(MemberUse(d))
         /\ source[d].kind = "function" =>
              \A u \in Range(ParameterUse(d)) : \E name : u = find_program_symbol(source, name)
         /\ source[d].kind = "type" =>
              \A u \in Range(MemberUse(d)) : \E name : u = find_program_symbol(source, name)
         /\ source[d].kind = "function" => SignatureUses(d) \subseteq Range(ParameterUse(d))
         /\ source[d].kind = "type" => SignatureUses(d) \subseteq Range(MemberUse(d))
<1>1. CASE source[d].kind = "function"
  <2> DEFINE names == source[d].parameters
  <2>1. IsList(names) /\ \A e \in DOMAIN source : IsNamed(source[e]) => source[e].name \notin {Vararg}
    BY <1>1 DEF IsTree
  <2>2. ParameterUse(d) = UsesOf(names, {Vararg})
    BY DEF ParameterUse, UsesOf
  <2>3. /\ ListOfPaths(ParameterUse(d))
        /\ \A u \in Range(ParameterUse(d)) : \E name : u = find_program_symbol(source, name)
        /\ \A e \in DOMAIN source :
             IsNamed(source[e]) /\ source[e].name \in Range(names) => <<e>> \in Range(ParameterUse(d))
    BY <2>1, <2>2, UsesOfNames
  <2>4. SignatureUses(d) \subseteq Range(ParameterUse(d))
    BY <1>1, <2>3 DEF SignatureUses, TypeNames
  <2> QED
    BY <1>1, <2>3, <2>4
<1>2. CASE source[d].kind = "type"
  <2> DEFINE names == source[d].members
             none  == {}
  <2>1. IsList(names) /\ \A e \in DOMAIN source : IsNamed(source[e]) => source[e].name \notin none
    BY <1>2 DEF IsTree
  <2>2. MemberUse(d) = UsesOf(names, none)
    BY DEF MemberUse, UsesOf
  <2> HIDE DEF none
  <2>3. /\ ListOfPaths(MemberUse(d))
        /\ \A u \in Range(MemberUse(d)) : \E name : u = find_program_symbol(source, name)
        /\ \A e \in DOMAIN source :
             IsNamed(source[e]) /\ source[e].name \in Range(names) => <<e>> \in Range(MemberUse(d))
    BY <2>1, <2>2, UsesOfNames
  <2>4. SignatureUses(d) \subseteq Range(MemberUse(d))
    BY <1>2, <2>3 DEF SignatureUses, TypeNames
  <2> QED
    BY <1>2, <2>3, <2>4
<1> QED
  BY <1>1, <1>2

\* What else a function mentions.
LEMMA ChildPaths ==
  ASSUME NEW a, NEW b
  PROVE  /\ IsPath(ValueOf(<<a, b>>)) /\ IsPath(LeftOf(<<a, b>>)) /\ IsPath(RightOf(<<a, b>>))
         /\ IsPath(LeftOf(ValueOf(<<a, b>>))) /\ IsPath(RightOf(ValueOf(<<a, b>>)))
<1> DEFINE S == {a, b, 0, 1, 2}
<1>1. <<a, b>> \in Seq(S) /\ Len(<<a, b>>) = 2
  OBVIOUS
<1>2. /\ ValueOf(<<a, b>>) \in Seq(S) /\ Len(ValueOf(<<a, b>>)) = 3
      /\ Len(LeftOf(<<a, b>>)) = 3 /\ Len(RightOf(<<a, b>>)) = 3
  BY <1>1 DEF ValueOf, LeftOf, RightOf
<1>3. Len(LeftOf(ValueOf(<<a, b>>))) = 4 /\ Len(RightOf(ValueOf(<<a, b>>))) = 4
  <2> DEFINE v == ValueOf(<<a, b>>)
             x == <<1>>
             y == <<2>>
  <2>1. v \in Seq(S) /\ Len(v) = 3 /\ x \in Seq(S) /\ y \in Seq(S) /\ Len(x) = 1 /\ Len(y) = 1
    BY <1>2
  <2> HIDE DEF v, x, y, S
  <2>2. Len(v \o x) = 4 /\ Len(v \o y) = 4
    <3>1. Len(v \o x) = Len(v) + Len(x) /\ Len(v \o y) = Len(v) + Len(y)
      BY <2>1, ConcatProperties
    <3>2. 3 + 1 = 4
      OBVIOUS
    <3> QED
      BY <2>1, <3>1, <3>2
  <2> QED
    BY <2>2 DEF LeftOf, RightOf, v, x, y
<1> QED
  BY <1>2, <1>3 DEF IsPath

LEMMA BlockPaths ==
  ASSUME NEW d, IsList(source[d].block)
  PROVE  ListOfPaths(BlockUse(d))
<1> DEFINE block   == source[d].block
           handled == {k \in DOMAIN block : block[k].kind \in Handled}
<1>1. CASE handled = {}
  BY <1>1, ShortLists DEF BlockUse
<1>2. CASE handled # {}
  <2> DEFINE k == CHOOSE k \in handled : \A l \in handled : k <= l
             s == block[k]
  <2>1. BlockUse(d) = CASE s.kind = "variable"      -> VariableUse(d, <<d, k>>, s)
                        [] s.kind = "function_call" -> CallUse(d, s)
                        [] s.kind = "binary"        -> BinaryUse(<<d, k>>)
                        [] s.kind = "return"        -> ReturnUse(<<d, k>>, s)
    BY <1>2 DEF BlockUse
  <2>2. s.kind \in Handled
    <3>1. \E l \in handled : \A m \in handled : l <= m
      <4>1. handled # {} /\ handled \subseteq DOMAIN block
        BY <1>2
      <4>2. DOMAIN block \subseteq Nat
        BY DEF IsList
      <4> HIDE DEF handled
      <4> QED
        BY <4>1, <4>2, Smallest
    <3>2. k \in handled
      BY <3>1
    <3> QED
      BY <3>2
  <2> HIDE DEF s, k
  <2>3. \A call : ListOfPaths(CallUse(d, call))
    BY Found, ShortLists DEF CallUse
  <2>4. ListOfPaths(BinaryUse(<<d, k>>)) /\ ListOfPaths(BinaryUse(ValueOf(<<d, k>>)))
    BY ChildPaths, ShortLists DEF BinaryUse
  <2>5. ListOfPaths(ReturnUse(<<d, k>>, s))
    BY ChildPaths, ShortLists DEF ReturnUse
  <2>6. ListOfPaths(VariableUse(d, <<d, k>>, s))
    <3>1. ListOfPaths(TypeUse(find_symbol(source, d, s.type)))
      BY Found, ShortLists DEF TypeUse
    <3>2. ListOfPaths(CASE s.value.kind = "function_call" -> CallUse(d, s.value)
                        [] s.value.kind = "binary"        -> BinaryUse(ValueOf(<<d, k>>))
                        [] OTHER                          -> <<>>)
      BY <2>3, <2>4, ShortLists
    <3> QED
      BY <3>1, <3>2, JoinedLists DEF VariableUse
  <2> QED
    BY <2>1, <2>2, <2>3, <2>4, <2>5, <2>6 DEF Handled
<1> QED
  BY <1>1, <1>2

-----------------------------------------------------------------------------
\* What has been linked stays linked.
LEMMA LinkedStays ==
  ASSUME source' = source, DOMAIN registry \subseteq DOMAIN registry',
         \A n \in DOMAIN registry : registry'[n] = registry[n],
         \A n \in DOMAIN registry : Range(dependencies[n]) \subseteq Range(dependencies'[n])
  PROVE  /\ \A d, u : Linked(d, u) => Linked(d, u)'
         /\ \A d : SignatureUses(d)' = SignatureUses(d) /\ (IsTree(source)' <=> IsTree(source))
         /\ \A p : IsPath(p)' <=> IsPath(p)
         /\ \A s : ListOfPaths(s)' <=> ListOfPaths(s)
<1>1. \A d, u : Linked(d, u) => Linked(d, u)'
  BY DEF Linked
<1>2. \A d : SignatureUses(d)' = SignatureUses(d) /\ (IsTree(source)' <=> IsTree(source))
  BY DEF SignatureUses, TypeNames, IsTree
<1>3. \A p : IsPath(p)' <=> IsPath(p)
  BY DEF IsPath
<1>4. \A s : ListOfPaths(s)' <=> ListOfPaths(s)
  BY <1>3 DEF ListOfPaths
<1> QED
  BY <1>1, <1>2, <1>3, <1>4

LEMMA HeadAndTail ==
  ASSUME NEW s, ListOfPaths(s), s # <<>>
  PROVE  /\ IsPath(Head(s)) /\ ListOfPaths(Tail(s))
         /\ \A x \in Range(s) : x = Head(s) \/ x \in Range(Tail(s))
         /\ Head(s) \in Range(s) /\ Range(Tail(s)) \subseteq Range(s)
<1> DEFINE S == Range(s)
           t == Tail(s)
           L == Len(s)
<1>1. s \in Seq(S) /\ L \in Nat /\ DOMAIN s = 1 .. L /\ L >= 1
  BY DEF ListOfPaths
<1>2. /\ t \in Seq(S) /\ Len(t) = L - 1 /\ Head(s) = s[1]
      /\ \A k \in 1 .. L - 1 : t[k] = s[k + 1]
  BY <1>1
<1>3. /\ t \in Seq(Range(t)) /\ DOMAIN t = 1 .. L - 1
      /\ \A x : x \in Range(t) <=> \E k \in 1 .. L - 1 : t[k] = x
  <2> HIDE DEF t, L, S
  <2>1. /\ t \in Seq(Range(t)) /\ DOMAIN t = 1 .. Len(t)
        /\ \A x : x \in Range(t) <=> \E k \in 1 .. Len(t) : t[k] = x
    BY <1>2, OwnElements
  <2> QED
    BY <1>2, <2>1
<1>4. \A x : x \in Range(s) <=> \E k \in 1 .. L : s[k] = x
  BY <1>1, OwnElements
<1> HIDE DEF t, L
<1>5. Range(t) \subseteq Range(s)
  BY <1>1, <1>2, <1>3, <1>4
<1>6. IsPath(Head(s)) /\ ListOfPaths(t) /\ Head(s) \in Range(s)
  BY <1>1, <1>2, <1>3, <1>4, <1>5 DEF ListOfPaths
<1>7. ASSUME NEW x \in Range(s), x # Head(s)
      PROVE  x \in Range(t)
  <2>1. PICK k \in 1 .. L : s[k] = x
    BY <1>4
  <2>2. k # 1
    BY <1>2, <1>7, <2>1
  <2>3. k - 1 \in 1 .. L - 1 /\ (k - 1) + 1 = k
    BY <1>1, <2>2
  <2>4. t[k - 1] = x
    BY <1>2, <2>1, <2>3
  <2> QED
    BY <1>3, <2>3, <2>4
<1> QED
  BY <1>5, <1>6, <1>7 DEF t

LEMMA SignatureInit == Init => SignatureInv
<1> SUFFICES ASSUME Init
             PROVE  SignatureInv
  OBVIOUS
<1>1. /\ source \in Seq(Range(source)) /\ IsTree(source)
      /\ registry = <<>> /\ statement = 1 /\ pending = <<>> /\ building = "visit"
  BY ProgramsAssumption DEF Init
<1>2. \A d \in DOMAIN source : d >= 1
  BY <1>1
<1> QED
  BY <1>1, <1>2, ShortLists DEF SignatureInv

\* A handler starts: its list holds everything the signature names.
LEMMA HandlerStarts ==
  ASSUME Inv, SignatureInv, FunctionDeclaration \/ TypeDeclaration
  PROVE  SignatureInv'
<1>1. /\ statement \in DOMAIN source
      /\ registry' = create_dep_node(<<statement>>) /\ Fits /\ <<statement>> # NullPath
      /\ source' = source /\ statement' = statement /\ dependencies' = dependencies
  BY StatementNumber DEF FunctionDeclaration, TypeDeclaration, NullPath
<1>2. /\ DOMAIN registry \subseteq DOMAIN registry'
      /\ \A n \in DOMAIN registry : registry'[n] = registry[n]
  BY <1>1, RegistryGrown
<1>3. /\ \A d, u : Linked(d, u) => Linked(d, u)'
      /\ \A d : SignatureUses(d)' = SignatureUses(d) /\ (IsTree(source)' <=> IsTree(source))
      /\ \A p : IsPath(p)' <=> IsPath(p)
      /\ \A s : ListOfPaths(s)' <=> ListOfPaths(s)
  BY <1>1, <1>2, LinkedStays
<1>4. ListOfPaths(pending') /\ SignatureUses(statement) \subseteq Range(pending')
  <2>1. CASE FunctionDeclaration
    <3>1. /\ source[statement].kind = "function"
          /\ pending' = ParameterUse(statement) \o
               (IF source[statement].is_extern THEN <<>> ELSE BlockUse(statement))
      BY <2>1 DEF FunctionDeclaration
    <3>2. /\ ListOfPaths(ParameterUse(statement))
          /\ SignatureUses(statement) \subseteq Range(ParameterUse(statement))
      BY <1>1, <3>1, SignatureUse DEF SignatureInv
    <3> DEFINE body == IF source[statement].is_extern THEN <<>> ELSE BlockUse(statement)
    <3>3. ListOfPaths(body)
      <4>1. IsList(source[statement].block)
        BY <1>1, <3>1 DEF SignatureInv, IsTree
      <4> QED
        BY <4>1, ShortLists, BlockPaths
    <3>4. pending' = ParameterUse(statement) \o body
      BY <3>1
    <3> HIDE DEF body
    <3> QED
      BY <3>2, <3>3, <3>4, JoinedLists
  <2>2. CASE TypeDeclaration
    <3>1. source[statement].kind = "type" /\ pending' = MemberUse(statement)
      BY <2>2 DEF TypeDeclaration
    <3> QED
      BY <1>1, <3>1, SignatureUse DEF SignatureInv
  <2> QED
    BY <2>1, <2>2
<1>5. \A n \in DOMAIN registry' : IsPath(registry'[n])
  <2>1. IsRegistry(registry)
    BY DEF Inv, TypeOK, OneNodePerAst, IsRegistry
  <2>2. \A n \in DOMAIN registry' : n \in DOMAIN registry \/ registry'[n] = <<statement>>
    BY <1>1, <2>1, Created
  <2> QED
    BY <1>1, <1>2, <2>2 DEF SignatureInv, IsPath
<1> DEFINE uses(d) == SignatureUses(d)
<1>6. \A d \in DOMAIN source' : d < statement' => \A u \in uses(d)' : Linked(d, u)'
  BY <1>1, <1>3 DEF SignatureInv
<1>7. \A u \in uses(statement)' : u \in Range(pending')
  BY <1>1, <1>3, <1>4
<1> QED
  BY <1>1, <1>3, <1>4, <1>5, <1>6, <1>7 DEF SignatureInv

\* One entry of the list is linked.
LEMMA EntryLinked ==
  ASSUME Inv, SignatureInv, AddDependency
  PROVE  SignatureInv'
<1> DEFINE ast == Head(pending)
           dep == DepNodeOf(registry', ast)
           q == Parent
           more == Append(dependencies[q], dep)
<1>1. /\ building = "link" /\ building' = "link" /\ ast # NullPath
      /\ registry' = create_dep_node(ast) /\ Fits
      /\ dependencies' = IF dep = q \/ dep \in Range(dependencies[q]) THEN dependencies
                         ELSE [dependencies EXCEPT ![q] = more]
      /\ source' = source /\ statement' = statement
      /\ pending # <<>> /\ pending' = Tail(pending)
  BY DEF AddDependency
<1>2. /\ DOMAIN registry \subseteq DOMAIN registry' /\ DOMAIN registry' \subseteq Node
      /\ \A n \in DOMAIN registry : registry'[n] = registry[n]
      /\ dep \in DOMAIN registry' /\ registry'[dep] = ast
      /\ dependencies \in [Node -> Seq(DOMAIN registry')]
  BY <1>1, RegistryGrown
<1>3. /\ statement \in DOMAIN source
      /\ q \in DOMAIN registry /\ registry[q] = <<statement>>
  BY <1>1 DEF Inv, Handling
<1>4. \A n \in DOMAIN registry' : n \in DOMAIN registry \/ registry'[n] = ast
  <2>1. IsRegistry(registry)
    BY DEF Inv, TypeOK, OneNodePerAst, IsRegistry
  <2> QED
    BY <1>1, <2>1, Created
<1>5. /\ IsPath(ast) /\ ListOfPaths(pending')
      /\ \A x \in Range(pending) : x = ast \/ x \in Range(pending')
  BY <1>1, HeadAndTail DEF SignatureInv
<1> HIDE DEF ast, dep, q, more
<1>6. ASSUME ~(dep = q \/ dep \in Range(dependencies[q]))
      PROVE  Range(more) = Range(dependencies[q]) \cup {dep}
  <2>1. q \in Node /\ dependencies[q] \in Seq(DOMAIN registry')
    BY <1>2, <1>3
  <2>2. IsInjective(dependencies[q])
    BY <2>1 DEF Inv, DependsWell
  <2> QED
    BY <1>2, <1>6, <2>1, <2>2, AppendNew DEF more
<1>7. \A n \in DOMAIN registry : Range(dependencies[n]) \subseteq Range(dependencies'[n])
  <2>1. TAKE n \in DOMAIN registry
  <2>2. n \in Node
    BY <1>2
  <2>3. dependencies'[n] = dependencies[n]
        \/ (n = q /\ dependencies'[n] = more /\ ~(dep = q \/ dep \in Range(dependencies[q])))
    BY <1>1, <1>2, <2>2
  <2> QED
    BY <1>6, <2>3
<1>8. dep = q \/ dep \in Range(dependencies'[q])
  <2>1. q \in Node
    BY <1>2, <1>3
  <2>2. CASE dep = q \/ dep \in Range(dependencies[q])
    BY <1>1, <2>2
  <2>3. CASE ~(dep = q \/ dep \in Range(dependencies[q]))
    BY <1>1, <1>2, <1>6, <2>1, <2>3
  <2> QED
    BY <2>2, <2>3
<1>9. /\ \A d, u : Linked(d, u) => Linked(d, u)'
      /\ \A d : SignatureUses(d)' = SignatureUses(d) /\ (IsTree(source)' <=> IsTree(source))
      /\ \A p : IsPath(p)' <=> IsPath(p)
      /\ \A s : ListOfPaths(s)' <=> ListOfPaths(s)
  BY <1>1, <1>2, <1>7, LinkedStays
<1>10. ASSUME NEW u \in SignatureUses(statement)
       PROVE  u \in Range(pending') \/ Linked(statement, u)'
  <2>1. u \in Range(pending) \/ Linked(statement, u)
    BY <1>1 DEF SignatureInv
  <2>2. CASE u = ast
    <3>1. dep # q
      <4>1. u # <<statement>>
        BY DEF SignatureUses
      <4> QED
        BY <1>2, <1>3, <2>2, <4>1
    <3>2. /\ q \in DOMAIN registry' /\ dep \in DOMAIN registry' /\ dep \in Range(dependencies'[q])
          /\ registry'[q] = <<statement>> /\ registry'[dep] = u
      BY <1>2, <1>3, <1>8, <2>2, <3>1
    <3> QED
      BY <3>2, <1>1 DEF Linked
  <2>3. CASE u # ast
    <3>1. Linked(statement, u) => Linked(statement, u)'
      BY <1>1, <1>2, <1>7 DEF Linked
    <3> QED
      BY <1>5, <2>1, <2>3, <3>1
  <2> QED
    BY <2>2, <2>3
<1>11. \A n \in DOMAIN registry' : IsPath(registry'[n])
  BY <1>2, <1>4, <1>5 DEF SignatureInv
<1>12. \A d \in DOMAIN source' : d < statement' => \A u \in SignatureUses(d)' : Linked(d, u)'
  BY <1>1, <1>9 DEF SignatureInv
<1>13. \A u \in SignatureUses(statement)' : u \in Range(pending') \/ Linked(statement, u)'
  <2>1. SignatureUses(statement)' = SignatureUses(statement)
    BY <1>1 DEF SignatureUses, TypeNames
  <2> QED
    BY <1>10, <2>1
<1> QED
  BY <1>1, <1>5, <1>9, <1>11, <1>12, <1>13 DEF SignatureInv

\* The handler returns with an empty list, or the loop passes a statement that
\* names no type.
LEMMA HandlerEnds ==
  ASSUME Inv, SignatureInv,
         EndStatement \/ OtherStatement \/ NullSymbol \/ Finish \/ Halt \/ UNCHANGED builder_vars
  PROVE  SignatureInv'
<1>1. /\ source' = source /\ registry' = registry /\ dependencies' = dependencies
      /\ pending' = pending
  BY DEF EndStatement, OtherStatement, NullSymbol, Finish, Halt, builder_vars
<1>2. /\ \A d, u : Linked(d, u) => Linked(d, u)'
      /\ \A d : SignatureUses(d)' = SignatureUses(d) /\ (IsTree(source)' <=> IsTree(source))
      /\ \A p : IsPath(p)' <=> IsPath(p)
      /\ \A s : ListOfPaths(s)' <=> ListOfPaths(s)
  BY <1>1, LinkedStays
<1>3. \/ statement' = statement /\ (building' = "link" => building = "link")
      \/ /\ statement' = statement + 1 /\ building' = "visit"
         /\ \A u \in SignatureUses(statement) : Linked(statement, u)
  <2>1. CASE EndStatement
    <3>1. /\ building = "link" /\ pending = <<>>
          /\ statement' = statement + 1 /\ building' = "visit"
      BY <2>1 DEF EndStatement
    <3>2. Range(pending) = {}
      BY <3>1 DEF Range
    <3> QED
      BY <3>1, <3>2 DEF SignatureInv
  <2>2. CASE OtherStatement
    <3>1. /\ source[statement].kind \notin {"function", "type"} /\ building = "visit"
          /\ statement' = statement + 1 /\ building' = building
      BY <2>2 DEF OtherStatement
    <3>2. SignatureUses(statement) = {}
      BY <3>1 DEF SignatureUses, TypeNames
    <3> QED
      BY <3>1, <3>2
  <2>3. CASE NullSymbol \/ Finish \/ Halt \/ UNCHANGED builder_vars
    BY <2>3 DEF NullSymbol, Finish, Halt, builder_vars
  <2> QED
    BY <2>1, <2>2, <2>3
<1>4. \A d \in DOMAIN source' : d < statement' => \A u \in SignatureUses(d)' : Linked(d, u)'
  <2>1. \A d \in DOMAIN source :
          d < statement' => d < statement \/ (d = statement /\ statement' = statement + 1)
    BY <1>3, StatementNumber
  <2>2. statement # statement + 1
    BY StatementNumber
  <2> QED
    BY <1>1, <1>2, <1>3, <2>1, <2>2 DEF SignatureInv
<1>5. building' = "link" =>
        \A u \in SignatureUses(statement)' : u \in Range(pending') \/ Linked(statement, u)'
  BY <1>1, <1>2, <1>3 DEF SignatureInv
<1>6. \A n \in DOMAIN registry' : IsPath(registry'[n])
  BY <1>1 DEF SignatureInv
<1> QED
  BY <1>1, <1>2, <1>3, <1>4, <1>5, <1>6 DEF SignatureInv

LEMMA SignatureStep == Inv /\ SignatureInv /\ [Next]_builder_vars => SignatureInv'
BY HandlerStarts, EntryLinked, HandlerEnds DEF Next, populate_dep_graph

-----------------------------------------------------------------------------
(***************************************************************************)
(* The passes                                                              *)
(***************************************************************************)
\* The printer and the generator, for any graph over the registry.
AllGraphs == [graph : Seq(Node), dependencies : [Node -> Seq(Node)]]

P == INSTANCE GraphPrinterProofs WITH Graphs <- AllGraphs
G == INSTANCE SchedulerProofs
       WITH Inputs <- {x \in AllGraphs : Generator!WellFormed(x.graph, x.dependencies)}

\* What those modules assume of their constants.
LEMMA PrinterAssumptions == P!DepthAssumption /\ P!GraphsAssumption
<1>1. P!IsFiniteSet(Node) /\ P!Cardinality(Node) = MaxNodes
  <2>1. IsFiniteSet(Node) /\ Cardinality(Node) = MaxNodes
    BY FS_Interval, ProgramsAssumption DEF Node
  <2>2. P!IsFiniteSet(Node) <=> IsFiniteSet(Node)
    BY DEF P!IsFiniteSet, IsFiniteSet
  <2>3. P!Cardinality(Node) = Cardinality(Node)
    BY DEF P!Cardinality, Cardinality
  <2> QED
    BY <2>1, <2>2, <2>3
<1>2. P!DepthAssumption
  BY <1>1, DepthAssumption DEF P!DepthAssumption
<1>3. P!GraphsAssumption
  BY DEF P!GraphsAssumption, AllGraphs
<1> QED
  BY <1>2, <1>3

LEMMA GeneratorAssumptions == G!InputsAssumption
BY DEF G!InputsAssumption, G!WellFormed, Generator!WellFormed, G!IsInjective, Generator!IsInjective

LEMMA PrinterStep == P!Inv /\ [P!Next]_(P!vars) => P!Inv'
BY P!InvStep, PrinterAssumptions

LEMMA PrinterEnd == P!Inv => P!PrintedIsAcyclic
BY P!InvPrinted, PrinterAssumptions

LEMMA GeneratorStep == G!Inv /\ [G!Next]_(G!vars) => G!Inv'
BY G!InvStep, GeneratorAssumptions

LEMMA GeneratorEnd == G!Inv => G!DoneIsComplete
BY G!InvComplete, GeneratorAssumptions

LEMMA SamePrinter == Printer!print_graph => P!Next
BY DEF Printer!print_graph, P!print_graph, P!Next, Printer!PrintRoot, P!PrintRoot,
       Printer!PrintDependency, P!PrintDependency, Printer!EndNode, P!EndNode,
       Printer!EndGraph, P!EndGraph, Printer!Enter, P!Enter, Printer!Call, P!Call,
       Printer!Innermost, P!Innermost

LEMMA SameGenerator ==
  Generator!generate_thir \/ Generator!generate_thir_for_node => G!Next
BY DEF Generator!generate_thir, G!generate_thir, Generator!generate_thir_for_node,
       G!generate_thir_for_node, G!Next, Generator!CountInDegrees, G!CountInDegrees,
       Generator!SeedQueue, G!SeedQueue, Generator!EndSeed, G!EndSeed,
       Generator!Dequeue, G!Dequeue, Generator!Decrement, G!Decrement,
       Generator!EndDecrement, G!EndDecrement, Generator!EndKahn, G!EndKahn,
       Generator!ResolveRest, G!ResolveRest, Generator!Return, G!Return,
       Generator!Visit, G!Visit, Generator!GenerateNode, G!GenerateNode,
       Generator!FailNode, G!FailNode, Generator!Enter, G!Enter,
       Generator!Top, G!Top, Generator!Advanced, G!Advanced, Generator!inputs, G!inputs,
       Generator!DependsOn, G!DependsOn, Generator!Halted, G!Halted,
       Generator!Range, G!Range

-----------------------------------------------------------------------------
(***************************************************************************)
(* What one pass hands to the next                                         *)
(***************************************************************************)
LEMMA BuilderGraph ==
  ASSUME Inv
  PROVE  /\ graph \in Seq(Node) /\ IsInjective(graph)
         /\ dependencies \in [Node -> Seq(Node)]
         /\ \A n \in Node : IsInjective(dependencies[n])
         /\ DOMAIN registry \subseteq Node
<1>1. registry \in Seq(Range(registry)) /\ Len(registry) <= MaxNodes /\ MaxNodes \in Nat
  BY ProgramsAssumption DEF Inv, TypeOK
<1>2. DOMAIN registry \subseteq Node
  BY <1>1, OwnElements DEF Node
<1>3. Seq(DOMAIN registry) \subseteq Seq(Node)
  BY <1>2, LargerSet
<1> QED
  BY <1>2, <1>3 DEF Inv, TypeOK, DependsWell

\* The printer can start at any time: what the builder has done so far is a
\* graph over the registry.
LEMMA PrinterStarts ==
  ASSUME Inv, Printer!Idle
  PROVE  P!Inv
<1>1. [graph |-> graph, dependencies |-> dependencies] \in AllGraphs
  BY BuilderGraph DEF AllGraphs
<1>2. P!Idle
  BY DEF Printer!Idle, P!Idle
<1>3. P!Init
  BY <1>1, <1>2 DEF P!Init
<1> QED
  BY <1>3, P!InvInit, PrinterAssumptions

LEMMA BuilderWellFormed ==
  ASSUME Inv
  PROVE  Generator!WellFormed(graph, dependencies)
BY BuilderGraph DEF Generator!WellFormed, Generator!IsInjective, IsInjective

LEMMA GeneratorStarts ==
  ASSUME Inv, Generator!Idle
  PROVE  G!Inv
<1>1. [graph |-> graph, dependencies |-> dependencies]
        \in {x \in AllGraphs : Generator!WellFormed(x.graph, x.dependencies)}
  BY BuilderGraph, BuilderWellFormed DEF AllGraphs
<1>2. G!Idle
  BY DEF Generator!Idle, G!Idle
<1>3. G!Init
  BY <1>1, <1>2 DEF G!Init
<1> QED
  BY <1>3, G!InvInit, GeneratorAssumptions

-----------------------------------------------------------------------------
(***************************************************************************)
(* The inductive invariant of the front end                                *)
(***************************************************************************)
PassesInTurn == /\ building # "built" => Printer!Idle
                /\ printing # "printed" => Generator!Idle

FrontEndInv == /\ Inv /\ ProgramInv /\ SignatureInv
               /\ PassesInTurn
               /\ building = "built" => P!Inv
               /\ printing = "printed" => G!Inv

LEMMA FrontEndStart == FrontEndInit => FrontEndInv
<1> SUFFICES ASSUME FrontEndInit
             PROVE  FrontEndInv
  OBVIOUS
<1>1. Init /\ Printer!Idle /\ Generator!Idle
  BY DEF FrontEndInit
<1>2. Inv /\ ProgramInv /\ SignatureInv
  BY <1>1, InvInit, ProgramInit, SignatureInit
<1>3. building # "built" /\ printing # "printed"
  BY <1>1 DEF Init, Printer!Idle
<1> QED
  BY <1>1, <1>2, <1>3 DEF FrontEndInv, PassesInTurn

LEMMA BuildStep ==
  ASSUME FrontEndInv, BuildGraph
  PROVE  FrontEndInv'
<1>1. populate_dep_graph /\ UNCHANGED printer_vars /\ UNCHANGED generator_vars
  BY DEF BuildGraph
<1>2. building # "built"
  BY <1>1 DEF populate_dep_graph, FunctionDeclaration, TypeDeclaration, OtherStatement,
              AddDependency, NullSymbol, EndStatement, Finish
<1>3. Inv' /\ ProgramInv' /\ SignatureInv'
  BY <1>1, InvStep, WholeStep, SignatureStep DEF FrontEndInv, Next
<1>4. Printer!Idle /\ printing # "printed" /\ Generator!Idle
  BY <1>2 DEF FrontEndInv, PassesInTurn, Printer!Idle
<1>5. Printer!Idle' /\ printing' # "printed" /\ Generator!Idle'
  BY <1>1, <1>4 DEF printer_vars, generator_vars, Printer!Idle, Generator!Idle
<1>6. ASSUME building' = "built"
      PROVE  P!Inv'
  <2>1. Finish
    BY <1>1, <1>2, <1>6 DEF populate_dep_graph, FunctionDeclaration, TypeDeclaration,
       OtherStatement, AddDependency, NullSymbol, EndStatement
  <2>2. UNCHANGED P!vars
    BY <1>1, <2>1 DEF Finish, P!vars, P!printer_vars, printer_vars
  <2>3. P!Inv
    BY <1>4, PrinterStarts DEF FrontEndInv
  <2> QED
    BY <2>2, <2>3, PrinterStep
<1> QED
  BY <1>3, <1>5, <1>6 DEF FrontEndInv, PassesInTurn

LEMMA PrintStep ==
  ASSUME FrontEndInv, PrintGraph
  PROVE  FrontEndInv'
<1>1. /\ building = "built" /\ Printer!print_graph
      /\ UNCHANGED builder_vars /\ UNCHANGED generator_vars
  BY DEF PrintGraph
<1>2. Inv' /\ ProgramInv' /\ SignatureInv'
  BY <1>1, InvStep, WholeStep, SignatureStep DEF FrontEndInv
<1>3. P!Inv'
  BY <1>1, SamePrinter, PrinterStep DEF FrontEndInv
<1>4. printing = "printing"
  BY <1>1 DEF Printer!print_graph, Printer!PrintRoot, Printer!PrintDependency,
              Printer!EndNode, Printer!EndGraph
<1>5. Generator!Idle /\ Generator!Idle'
  BY <1>1, <1>4 DEF FrontEndInv, PassesInTurn, generator_vars, Generator!Idle
<1>6. G!Inv
  BY <1>5, GeneratorStarts DEF FrontEndInv
<1>7. UNCHANGED G!vars
  BY <1>1 DEF builder_vars, generator_vars, G!vars
<1>8. G!Inv'
  BY <1>6, <1>7, GeneratorStep
<1>9. building' = "built"
  BY <1>1 DEF builder_vars
<1> QED
  BY <1>2, <1>3, <1>5, <1>8, <1>9 DEF FrontEndInv, PassesInTurn

LEMMA GenerateStep ==
  ASSUME FrontEndInv, GenerateThir
  PROVE  FrontEndInv'
<1>1. /\ building = "built" /\ printing = "printed"
      /\ Generator!generate_thir \/ Generator!generate_thir_for_node
      /\ UNCHANGED builder_vars /\ UNCHANGED printer_vars
  BY DEF GenerateThir
<1>2. Inv' /\ ProgramInv' /\ SignatureInv'
  BY <1>1, InvStep, WholeStep, SignatureStep DEF FrontEndInv
<1>3. G!Inv'
  BY <1>1, SameGenerator, GeneratorStep DEF FrontEndInv
<1>4. UNCHANGED P!vars /\ building' = "built" /\ printing' = "printed"
  BY <1>1 DEF builder_vars, printer_vars, P!vars, P!printer_vars
<1>5. P!Inv'
  BY <1>1, <1>4, PrinterStep DEF FrontEndInv
<1> QED
  BY <1>2, <1>3, <1>4, <1>5 DEF FrontEndInv, PassesInTurn

LEMMA IdleStep ==
  ASSUME FrontEndInv, UNCHANGED vars
  PROVE  FrontEndInv'
<1>1. UNCHANGED builder_vars /\ UNCHANGED printer_vars /\ UNCHANGED generator_vars
  BY DEF vars
<1>2. Inv' /\ ProgramInv' /\ SignatureInv'
  BY <1>1, InvStep, WholeStep, SignatureStep DEF FrontEndInv
<1>3. UNCHANGED P!vars /\ UNCHANGED G!vars /\ building' = building /\ printing' = printing
  BY <1>1 DEF builder_vars, printer_vars, generator_vars, P!vars, P!printer_vars, G!vars
<1>4. /\ building = "built" => P!Inv'
      /\ printing = "printed" => G!Inv'
  BY <1>3, PrinterStep, GeneratorStep DEF FrontEndInv
<1>5. PassesInTurn'
  BY <1>1, <1>3 DEF FrontEndInv, PassesInTurn, printer_vars, generator_vars,
                    Printer!Idle, Generator!Idle
<1> QED
  BY <1>2, <1>3, <1>4, <1>5 DEF FrontEndInv

LEMMA FrontEndStep == FrontEndInv /\ [FrontEndNext]_vars => FrontEndInv'
BY BuildStep, PrintStep, GenerateStep, IdleStep DEF FrontEndNext, End

LEMMA FrontEndInvariance == FrontEndSpec => []FrontEndInv
BY FrontEndStart, FrontEndStep, PTL DEF FrontEndSpec

-----------------------------------------------------------------------------
(***************************************************************************)
(* The theorems                                                            *)
(***************************************************************************)
LEMMA SameNeeded ==
  /\ Generator!Needed = P!Needed /\ G!Needed = P!Needed
  /\ \A C : Printer!Circular(C) <=> P!Circular(C)
BY DEF Generator!Needed, G!Needed, P!Needed, Generator!Roots, G!Roots, P!Roots,
       Generator!Closed, G!Closed, P!Closed, Generator!DependsOn, G!DependsOn, P!DependsOn,
       Generator!Range, G!Range, P!Range, Printer!Circular, P!Circular,
       Printer!DependsOn, Printer!Range

\* Once the generator has moved, the passes before it are over.
LEMMA Moved ==
  ASSUME FrontEndInv, phase # "count"
  PROVE  /\ building = "built" /\ printing = "printed"
         /\ P!Inv /\ G!Inv
         /\ \A C \in SUBSET P!Needed : ~P!Circular(C)
<1>1. printing = "printed"
  BY DEF FrontEndInv, PassesInTurn, Generator!Idle
<1>2. building = "built"
  BY <1>1 DEF FrontEndInv, PassesInTurn, Printer!Idle
<1>3. P!Inv /\ G!Inv
  BY <1>1, <1>2 DEF FrontEndInv
<1>4. P!PrintedIsAcyclic
  BY <1>3, PrinterEnd
<1> QED
  BY <1>1, <1>2, <1>3, <1>4 DEF P!PrintedIsAcyclic

LEMMA NoCycle == FrontEndInv => CycleNeverReachesGenerator
<1> SUFFICES ASSUME FrontEndInv, phase = "cyclic"
             PROVE  FALSE
  BY DEF CycleNeverReachesGenerator
<1>1. G!Inv /\ \A C \in SUBSET P!Needed : ~P!Circular(C)
  BY Moved
<1>2. \E C \in SUBSET G!Needed : C # {} /\ \A n \in C : G!DependsOn(n) \cap C # {}
  BY <1>1 DEF G!Inv, G!CyclicOnlyOnCycle
<1> QED
  BY <1>1, <1>2, SameNeeded DEF P!Circular, G!DependsOn, P!DependsOn, G!Range, P!Range

LEMMA Handed == FrontEndInv => Handoff
<1> SUFFICES ASSUME FrontEndInv, phase # "count"
             PROVE  /\ Generator!WellFormed(graph, dependencies)
                    /\ statement > Len(source) /\ pending = <<>> /\ calls = <<>>
                    /\ \A C \in SUBSET Generator!Needed : ~Printer!Circular(C)
  BY DEF Handoff
<1>1. /\ building = "built" /\ printing = "printed"
      /\ P!Inv /\ \A C \in SUBSET P!Needed : ~P!Circular(C)
  BY Moved
<1>2. Inv /\ LoopEnded
  BY DEF FrontEndInv, ProgramInv
<1>3. Generator!WellFormed(graph, dependencies)
  BY <1>2, BuilderWellFormed
<1>4. statement > Len(source) /\ pending = <<>>
  BY <1>1, <1>2 DEF LoopEnded, Inv, TypeOK
<1>5. calls = <<>>
  BY <1>1 DEF P!Inv, P!Returned
<1> QED
  BY <1>1, <1>3, <1>4, <1>5, SameNeeded

\* The declarations need nothing that has no DepNode.
LEMMA NeededAreNodes ==
  ASSUME Inv
  PROVE  G!Needed \subseteq DOMAIN registry
<1>1. DOMAIN registry \subseteq Node
  BY BuilderGraph
<1>2. Range(graph) \subseteq DOMAIN registry
  <2>1. graph \in Seq(DOMAIN registry)
    BY DEF Inv, TypeOK
  <2>2. \A k \in DOMAIN graph : graph[k] \in DOMAIN registry
    BY <2>1
  <2> QED
    BY <2>2 DEF Range
<1>3. \A m \in DOMAIN registry : G!DependsOn(m) \subseteq DOMAIN registry
  BY <1>1 DEF Inv, TypeOK, G!DependsOn, G!Range
<1>4. G!Roots \subseteq DOMAIN registry
  BY <1>2 DEF G!Roots, G!Range, Range
<1> QED
  BY <1>1, <1>3, <1>4 DEF G!Needed, G!Closed

\* The declarations that a signature names are generated before it.
LEMMA SignaturesFirst == FrontEndInv => SignatureTypesComeFirst
<1> SUFFICES ASSUME FrontEndInv, NEW k \in DOMAIN program, Len(registry[program[k]]) = 1,
                    NEW e \in DOMAIN source, IsNamed(source[e]),
                    source[e].name \in TypeNames(registry[program[k]][1]),
                    e # registry[program[k]][1]
             PROVE  GeneratedBefore(<<e>>, k)
  BY DEF SignatureTypesComeFirst, TypeNames
<1>1. building = "built" /\ G!Inv
  <2>1. program # <<>>
    OBVIOUS
  <2>2. printing = "printed"
    BY <2>1 DEF FrontEndInv, PassesInTurn, Generator!Idle
  <2> QED
    BY <2>2 DEF FrontEndInv, PassesInTurn, Printer!Idle
<1>2. Inv /\ ProgramInv /\ SignatureInv
  BY DEF FrontEndInv
<1>3. /\ statement > Len(source) /\ statement \in Nat
      /\ Len(source) \in Nat /\ DOMAIN source = 1 .. Len(source)
  BY <1>1, <1>2, StatementNumber DEF ProgramInv, LoopEnded
<1> DEFINE n == program[k]
<1>4. n \in DOMAIN registry /\ registry \in Seq(Range(registry))
  <2>1. n \in G!Needed
    BY <1>1 DEF G!Inv, G!OnlyNeeded, G!Generated, G!Range
  <2> QED
    BY <1>2, <2>1, NeededAreNodes DEF Inv, TypeOK
<1>5. PICK d \in DOMAIN source : registry[n] = <<d>>
  <2>1. IsPath(registry[n])
    BY <1>2, <1>4 DEF SignatureInv
  <2>2. Len(registry[n]) = 1
    OBVIOUS
  <2> QED
    BY <2>1, <2>2 DEF IsPath, NullPath
<1>6. registry[program[k]][1] = d
  BY <1>5
<1>7. <<e>> \in SignatureUses(d)
  BY <1>6 DEF SignatureUses
<1>8. PICK a \in DOMAIN registry, b \in DOMAIN registry :
        registry[a] = <<d>> /\ registry[b] = <<e>> /\ b \in Range(dependencies[a])
  <2>1. d < statement
    BY <1>3
  <2> QED
    BY <1>2, <1>7, <2>1 DEF SignatureInv, Linked
<1>9. a = n
  BY <1>2, <1>4, <1>5, <1>8 DEF Inv, OneNodePerAst, IsInjective
<1>10. PICK j \in 1 .. k - 1 : program[j] = b
  <2>1. b \in G!DependsOn(program[k])
    BY <1>8, <1>9 DEF G!DependsOn, G!Range, Range
  <2> QED
    BY <1>1, <2>1 DEF G!Inv, G!GenerationOrder
<1> QED
  BY <1>8, <1>10 DEF GeneratedBefore

LEMMA AllGenerated == FrontEndInv => EveryDeclarationGenerated
<1> SUFFICES ASSUME FrontEndInv, phase = "done",
                    NEW d \in DOMAIN source, IsDeclaration(d)
             PROVE  \E k \in DOMAIN program :
                      /\ registry[program[k]] = <<d>>
                      /\ \A j \in DOMAIN program : registry[program[j]] = <<d>> => j = k
  BY DEF EveryDeclarationGenerated
<1>1. building = "built" /\ G!Inv
  BY Moved
<1>2. Inv /\ ProgramInv
  BY DEF FrontEndInv
<1>3. GraphIsProgram
  BY <1>2, ProgramIsWhole
<1>4. PICK n \in Range(graph) : registry[n] = <<d>>
  <2>1. <<d>> \in {registry[m] : m \in Range(graph)}
    BY <1>1, <1>3 DEF GraphIsProgram, Declarations
  <2> QED
    BY <2>1
<1>5. G!Needed \subseteq G!Generated /\ G!Generated \subseteq G!Needed
  BY <1>1, GeneratorEnd DEF G!DoneIsComplete
<1>6. Range(graph) \subseteq DOMAIN registry /\ DOMAIN registry \subseteq Node
  <2>1. graph \in Seq(DOMAIN registry)
    BY <1>2 DEF Inv, TypeOK
  <2>2. \A k \in DOMAIN graph : graph[k] \in DOMAIN registry
    BY <2>1
  <2>3. Range(graph) \subseteq DOMAIN registry
    BY <2>2 DEF Range
  <2> QED
    BY <1>2, <2>3, BuilderGraph
<1>7. n \in G!Needed
  BY <1>4, <1>6 DEF G!Needed, G!Roots, G!Range, Range
<1>8. G!Needed \subseteq DOMAIN registry
  BY <1>2, NeededAreNodes
<1>9. PICK k \in DOMAIN program : program[k] = n
  BY <1>5, <1>7 DEF G!Generated, G!Range
<1>10. ASSUME NEW j \in DOMAIN program, registry[program[j]] = <<d>>
       PROVE  j = k
  <2>1. program[j] \in DOMAIN registry /\ n \in DOMAIN registry
    BY <1>5, <1>7, <1>8 DEF G!Generated, G!Range
  <2>2. program[j] = n
    BY <1>2, <1>4, <1>10, <2>1 DEF Inv, OneNodePerAst, IsInjective
  <2>3. G!IsInjective(program)
    BY <1>1 DEF G!Inv, G!GenerationOrder
  <2> QED
    BY <1>9, <2>2, <2>3 DEF G!IsInjective
<1> QED
  BY <1>4, <1>9, <1>10

\* No accepted program reaches "cyclic dependency detected": the printer never
\* returns from a cycle (typer.c:233-236, main.c:53).
THEOREM NoCycleCorrectness == FrontEndSpec => []CycleNeverReachesGenerator
BY NoCycle, FrontEndInvariance, PTL

\* What the generator works on is finished, well formed and free of cycles
\* (main.c:46-66).
THEOREM HandoffCorrectness == FrontEndSpec => []Handoff
BY Handed, FrontEndInvariance, PTL

\* A compilation that gets to the back end has generated every function and
\* type of the program, each once (main.c:62-66).
THEOREM GeneratedCorrectness == FrontEndSpec => []EveryDeclarationGenerated
BY AllGenerated, FrontEndInvariance, PTL

\* What the parameters of a function and the members of a type name is in the
\* program before them, for every accepted program (typer.c:142-147, 184).
THEOREM SignatureCorrectness == FrontEndSpec => []SignatureTypesComeFirst
BY SignaturesFirst, FrontEndInvariance, PTL
=============================================================================
