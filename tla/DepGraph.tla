------------------------------ MODULE DepGraph ------------------------------
(***************************************************************************)
(* populate_dep_graph (src/graph.c, src/graph.h): one pass over the        *)
(* top-level statements makes a DepNode of every function and type         *)
(* declaration and links it to the nodes of what it mentions, creating     *)
(* them when they are not in the registry yet.  A DepNode is its index in  *)
(* the registry; the registry's entry is the path of its syntax node.      *)
(*                                                                         *)
(* A handler (graph_builder_function_declaration, ..._type_declaration)    *)
(* runs as: create the node, then one AddDependency step per call of       *)
(* add_dep_to_dep_node it makes, in the order it makes them (pending).     *)
(***************************************************************************)
EXTENDS Ast, SequencesExt

CONSTANTS
  Programs,            \* the syntax trees the parser may hand over
  MaxNodes             \* a bound on the DepNodes one program needs

ASSUME ProgramsAssumption ==
  /\ \A p \in Programs : p \in Seq(Range(p)) /\ IsTree(p) /\ Accepted(p)
  /\ MaxNodes \in Nat

VARIABLES
  source,              \* root_node->statements
  registry,            \* DepNodeRegistry.nodes: the ast_node of every DepNode
  graph,               \* DepGraph.nodes
  dependencies,        \* DepNode.dependencies, <<>> for nodes not allocated
  statement,           \* the loop variable of populate_dep_graph, plus one
  pending,             \* the syntax nodes the running handler has yet to link
  building             \* "visit", "link", "built" or "crashed"

builder_vars == <<source, registry, graph, dependencies, statement, pending,
                  building>>

Node == 1 .. MaxNodes

TypeOK ==
  /\ source \in Seq(Range(source)) /\ Accepted(source)
  /\ registry \in Seq(Range(registry))
  /\ \A n \in DOMAIN registry : registry[n] # NullPath
  /\ Len(registry) <= MaxNodes
  /\ graph \in Seq(DOMAIN registry)
  /\ dependencies \in [Node -> Seq(DOMAIN registry)]
  /\ statement \in 1 .. Len(source) + 1
  /\ building \in {"visit", "link", "built", "crashed"}
  /\ pending # <<>> => building \in {"link", "crashed"}

-----------------------------------------------------------------------------
Init == /\ source \in Programs
        /\ registry = <<>>
        /\ graph = <<>>
        /\ dependencies = [n \in Node |-> <<>>]
        /\ statement = 1
        /\ pending = <<>>
        /\ building = "visit"

\* create_dep_node: the node made of ast earlier, or a new one at the end.
DepNodesOf(reg, ast) == {n \in DOMAIN reg : reg[n] = ast}

\* A mutant of create_dep_node: without the search for an earlier node.
create_dep_node_anew(ast) == Append(registry, ast)

create_dep_node(ast) ==
  IF DepNodesOf(registry, ast) # {} THEN registry ELSE Append(registry, ast)

\* The bound on the registry.
Fits == Len(registry') <= MaxNodes

DepNodeOf(reg, ast) == CHOOSE n \in DepNodesOf(reg, ast) : TRUE

\* A type that is not user-defined has no symbol: no dependency.
TypeUse(symbol) == IF symbol = NullPath THEN <<>> ELSE <<symbol>>

\* The callee of a call; a missing symbol is not checked for.
CallUse(d, call) == <<find_symbol(source, d, call.name)>>

BinaryUse(path) == <<LeftOf(path), RightOf(path)>>

VariableUse(d, path, var) ==
  TypeUse(find_symbol(source, d, var.type)) \o
  CASE var.value.kind = "function_call" -> CallUse(d, var.value)
    [] var.value.kind = "binary"        -> BinaryUse(ValueOf(path))
    [] OTHER                            -> <<>>

ReturnUse(path, ret) ==
  IF ret.value = NoValue THEN <<>> ELSE <<ValueOf(path)>>

Handled == {"variable", "function_call", "binary", "return"}

\* graph_builder_block returns from its loop with the first statement of a
\* kind it handles; the statements after that one are never looked at.
BlockUse(d) ==
  LET block   == source[d].block
      handled == {k \in DOMAIN block : block[k].kind \in Handled}
  IN IF handled = {} THEN <<>>
     ELSE LET k    == CHOOSE k \in handled : \A l \in handled : k <= l
              s    == block[k]
          IN CASE s.kind = "variable"      -> VariableUse(d, <<d, k>>, s)
               [] s.kind = "function_call" -> CallUse(d, s)
               [] s.kind = "binary"        -> BinaryUse(<<d, k>>)
               [] s.kind = "return"        -> ReturnUse(<<d, k>>, s)

\* A mutant of ParameterUse: the loop starts at the second parameter.
ParameterUseLate(d) ==
  LET ps == source[d].parameters
  IN FlattenSeq([k \in DOMAIN ps |->
       IF k = 1 \/ ps[k] = Vararg THEN <<>>
       ELSE TypeUse(find_program_symbol(source, ps[k]))])

ParameterUse(d) ==
  LET ps == source[d].parameters
  IN FlattenSeq([k \in DOMAIN ps |->
       IF ps[k] = Vararg THEN <<>>
       ELSE TypeUse(find_program_symbol(source, ps[k]))])

MemberUse(d) ==
  LET ms == source[d].members
  IN FlattenSeq([k \in DOMAIN ms |-> TypeUse(find_program_symbol(source, ms[k]))])

\* The node of the statement a handler is working on: dep_node, or parent.
Parent == DepNodeOf(registry, <<statement>>)

FunctionDeclaration ==
  /\ building = "visit"
  /\ statement <= Len(source)
  /\ source[statement].kind = "function"
  /\ registry' = create_dep_node(<<statement>>) /\ Fits
  /\ graph' = Append(graph, DepNodeOf(registry', <<statement>>))
  /\ pending' = ParameterUse(statement) \o
                (IF source[statement].is_extern THEN <<>> ELSE BlockUse(statement))
  /\ building' = "link"
  /\ UNCHANGED <<source, dependencies, statement>>

TypeDeclaration ==
  /\ building = "visit"
  /\ statement <= Len(source)
  /\ source[statement].kind = "type"
  /\ registry' = create_dep_node(<<statement>>) /\ Fits
  /\ pending' = MemberUse(statement)
  /\ building' = "link"
  /\ UNCHANGED <<source, graph, dependencies, statement>>

\* A mutant of OtherStatement: the loop does not go on to the next statement.
OtherStatementAgain ==
  /\ building = "visit"
  /\ statement <= Len(source)
  /\ source[statement].kind \notin {"function", "type"}
  /\ UNCHANGED <<source, registry, graph, dependencies, statement, pending, building>>

\* The default case of populate_dep_graph.
OtherStatement ==
  /\ building = "visit"
  /\ statement <= Len(source)
  /\ source[statement].kind \notin {"function", "type"}
  /\ statement' = statement + 1
  /\ UNCHANGED <<source, registry, graph, dependencies, pending, building>>

\* Two mutants of AddDependency: a node may depend on itself, or twice on
\* another.
AddDependencySelf ==
  /\ building = "link"
  /\ pending # <<>>
  /\ Head(pending) # NullPath
  /\ registry' = create_dep_node(Head(pending)) /\ Fits
  /\ LET dep == DepNodeOf(registry', Head(pending))
     IN dependencies' = IF dep \in Range(dependencies[Parent]) THEN dependencies
                        ELSE [dependencies EXCEPT ![Parent] = Append(@, dep)]
  /\ pending' = Tail(pending)
  /\ UNCHANGED <<source, graph, statement, building>>

AddDependencyTwice ==
  /\ building = "link"
  /\ pending # <<>>
  /\ Head(pending) # NullPath
  /\ registry' = create_dep_node(Head(pending)) /\ Fits
  /\ LET dep == DepNodeOf(registry', Head(pending))
     IN dependencies' = IF dep = Parent THEN dependencies
                        ELSE [dependencies EXCEPT ![Parent] = Append(@, dep)]
  /\ pending' = Tail(pending)
  /\ UNCHANGED <<source, graph, statement, building>>

\* add_dep_to_dep_node(parent, create_dep_node(ast, registry)): no node
\* depends on itself, and none twice on another.
AddDependency ==
  /\ building = "link"
  /\ pending # <<>>
  /\ Head(pending) # NullPath
  /\ registry' = create_dep_node(Head(pending)) /\ Fits
  /\ LET dep == DepNodeOf(registry', Head(pending))
     IN dependencies' =
          IF dep = Parent \/ dep \in Range(dependencies[Parent])
          THEN dependencies
          ELSE [dependencies EXCEPT ![Parent] = Append(@, dep)]
  /\ pending' = Tail(pending)
  /\ UNCHANGED <<source, graph, statement, building>>

\* graph_builder_function_call reads symbol->node of a symbol that is NULL.
NullSymbol ==
  /\ building = "link"
  /\ pending # <<>>
  /\ Head(pending) = NullPath
  /\ building' = "crashed"
  /\ UNCHANGED <<source, registry, graph, dependencies, statement, pending>>

\* A mutant of EndStatement: a type joins the graph only as a dependency.
EndStatementLost ==
  /\ building = "link"
  /\ pending = <<>>
  /\ statement' = statement + 1
  /\ building' = "visit"
  /\ UNCHANGED <<source, registry, graph, dependencies, pending>>

\* The handler returns; a type joins the graph only now.
EndStatement ==
  /\ building = "link"
  /\ pending = <<>>
  /\ graph' = IF source[statement].kind = "type" THEN Append(graph, Parent) ELSE graph
  /\ statement' = statement + 1
  /\ building' = "visit"
  /\ UNCHANGED <<source, registry, dependencies, pending>>

Finish ==
  /\ building = "visit"
  /\ statement > Len(source)
  /\ building' = "built"
  /\ UNCHANGED <<source, registry, graph, dependencies, statement, pending>>

Halt == building \in {"built", "crashed"} /\ UNCHANGED builder_vars

populate_dep_graph == \/ FunctionDeclaration \/ TypeDeclaration \/ OtherStatement
                      \/ AddDependency \/ NullSymbol \/ EndStatement \/ Finish

Next == populate_dep_graph \/ Halt

Spec == Init /\ [][Next]_builder_vars /\ WF_builder_vars(Next)
-----------------------------------------------------------------------------
(***************************************************************************)
(* Properties                                                              *)
(***************************************************************************)
IsDeclaration(d) == source[d].kind \in {"function", "type"}

\* A syntax node never has two DepNodes: state and dependencies recorded for a
\* forward reference are the ones its declaration is handled with later
\* (graph.h:40-53).
OneNodePerAst == IsInjective(registry)

\* The finished graph is what generate_thir relies on: no declaration in it
\* twice, no node twice among the dependencies of another or among its own
\* (a self-dependency would be reported as a cycle), and no dependency of a
\* node that was never allocated (graph.h:110-131).
FeedsScheduler ==
  building = "built" =>
    /\ IsInjective(graph)
    /\ \A n \in Node : /\ IsInjective(dependencies[n])
                       /\ n \notin Range(dependencies[n])
                       /\ dependencies[n] # <<>> => n \in DOMAIN registry

\* The syntax nodes of the functions and types of the program.
Declarations == {<<d>> : d \in {e \in DOMAIN source : IsDeclaration(e)}}

\* The graph holds every function and type of the program in the order of the
\* text, whether or not something earlier referred to it, and a dependency
\* outside the graph is an operand, a variable or a declaration inside a block,
\* never one of the program (graph.c:63-117).
GraphIsProgram ==
  building = "built" =>
    /\ \A j, k \in DOMAIN graph : j < k => registry[graph[j]][1] < registry[graph[k]][1]
    /\ {registry[n] : n \in Range(graph)} = Declarations
    /\ \A n \in DOMAIN registry : registry[n] \in Declarations => n \in Range(graph)

\* Only declarations get dependencies: a node made for a use is a leaf, so a
\* path of the graph never leaves the declarations before its end
\* (graph.c:5-40: the builders never descend into what they link).
OnlyDeclarationsDepend ==
  \A n \in DOMAIN registry : dependencies[n] # <<>> => registry[n] \in {<<d>> : d \in DOMAIN source}
=============================================================================
