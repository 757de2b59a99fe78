---------------------------- MODULE GraphPrinter ----------------------------
(***************************************************************************)
(* print_graph and print_node (src/graph.h): between building the graph    *)
(* and typing it, main prints every node and, below it, the nodes it       *)
(* depends on.  print_node keeps no mark of where it has been; its         *)
(* recursion is an explicit stack of frames here, and MaxDepth of them are *)
(* all that fit on the stack of the process.                               *)
(***************************************************************************)
EXTENDS Integers, Sequences, FiniteSets, Functions

CONSTANTS
  Node,                \* the DepNodes of the registry
  Graphs,              \* the dependency graphs print_graph may be given
  MaxDepth             \* how many calls of print_node the C stack holds

\* The stack is deep enough for any path that visits each node once.
ASSUME DepthAssumption ==
  /\ IsFiniteSet(Node)
  /\ MaxDepth \in Nat
  /\ MaxDepth >= Cardinality(Node)

ASSUME GraphsAssumption ==
  \A x \in Graphs : /\ x.graph \in Seq(Node)
                    /\ x.dependencies \in [Node -> Seq(Node)]

VARIABLES
  graph,               \* DepGraph.nodes
  dependencies,        \* DepNode.dependencies, for every node
  root,                \* the loop variable of print_graph, plus one
  calls,               \* the active calls of print_node
  printing             \* "printing", "printed" or "overflow"

printer_vars == <<root, calls, printing>>
vars == <<graph, dependencies, printer_vars>>

DependsOn(n) == Range(dependencies[n])

\* A call of print_node: next is its loop variable i plus one.
Call(n)   == [node |-> n, next |-> 1]
Innermost == calls[Len(calls)]

TypeOK ==
  /\ graph \in Seq(Node)
  /\ dependencies \in [Node -> Seq(Node)]
  /\ root \in 1 .. Len(graph) + 1
  /\ calls \in Seq([node : Node, next : Nat \ {0}])
  /\ Len(calls) <= MaxDepth
  /\ printing \in {"printing", "printed", "overflow"}

-----------------------------------------------------------------------------
Idle == root = 1 /\ calls = <<>> /\ printing = "printing"

Init == /\ \E x \in Graphs : graph = x.graph /\ dependencies = x.dependencies
        /\ Idle

\* A mutant of Enter: frames of twice the size.
EnterWide(n, callers) ==
  IF 2 * Len(callers) < MaxDepth
  THEN calls' = Append(callers, Call(n)) /\ UNCHANGED printing
  ELSE printing' = "overflow" /\ UNCHANGED calls

\* A call above the given ones: node_printer_indentation is their number.
Enter(n, callers) ==
  IF Len(callers) < MaxDepth
  THEN calls' = Append(callers, Call(n)) /\ UNCHANGED printing
  ELSE printing' = "overflow" /\ UNCHANGED calls

\* A mutant of PrintRoot: the loop does not go on to the next node.
PrintRootAgain ==
  /\ printing = "printing"
  /\ calls = <<>>
  /\ root <= Len(graph)
  /\ Enter(graph[root], calls)
  /\ UNCHANGED <<graph, dependencies, root>>

PrintRoot ==
  /\ printing = "printing"
  /\ calls = <<>>
  /\ root <= Len(graph)
  /\ Enter(graph[root], calls)
  /\ root' = root + 1
  /\ UNCHANGED <<graph, dependencies>>

\* A mutant of PrintDependency: the loop does not go on to the next dependency.
PrintDependencyAgain ==
  /\ printing = "printing"
  /\ calls # <<>>
  /\ Innermost.next <= Len(dependencies[Innermost.node])
  /\ Enter(dependencies[Innermost.node][Innermost.next], calls)
  /\ UNCHANGED <<graph, dependencies, root>>

PrintDependency ==
  /\ printing = "printing"
  /\ calls # <<>>
  /\ Innermost.next <= Len(dependencies[Innermost.node])
  /\ Enter(dependencies[Innermost.node][Innermost.next],
           [calls EXCEPT ![Len(calls)] = [node |-> Innermost.node,
                                          next |-> Innermost.next + 1]])
  /\ UNCHANGED <<graph, dependencies, root>>

\* A mutant of EndNode: the loop ends one dependency short.
EndNodeEarly ==
  /\ printing = "printing"
  /\ calls # <<>>
  /\ Innermost.next >= Len(dependencies[Innermost.node])
  /\ calls' = SubSeq(calls, 1, Len(calls) - 1)
  /\ UNCHANGED <<graph, dependencies, root, printing>>

EndNode ==
  /\ printing = "printing"
  /\ calls # <<>>
  /\ Innermost.next > Len(dependencies[Innermost.node])
  /\ calls' = SubSeq(calls, 1, Len(calls) - 1)
  /\ UNCHANGED <<graph, dependencies, root, printing>>

EndGraph ==
  /\ printing = "printing"
  /\ calls = <<>>
  /\ root > Len(graph)
  /\ printing' = "printed"
  /\ UNCHANGED <<graph, dependencies, root, calls>>

\* print_graph has returned, or the process was killed by the overflow.
Halt == printing # "printing" /\ UNCHANGED vars

print_graph == PrintRoot \/ PrintDependency \/ EndNode \/ EndGraph

Next == print_graph \/ Halt

\* One thread runs the printer and nothing blocks it.
Spec == Init /\ [][Next]_vars /\ WF_vars(Next)
-----------------------------------------------------------------------------
(***************************************************************************)
(* Properties                                                              *)
(***************************************************************************)
Roots == Range(graph)

\* A set of nodes in which everyone has a successor: it holds a cycle.
Circular(C) == C # {} /\ \A n \in C : DependsOn(n) \cap C # {}

Closed(S) == \A n \in S : DependsOn(n) \subseteq S
Needed == {n \in Node : \A S \in SUBSET Node :
                          Roots \subseteq S /\ Closed(S) => n \in S}

\* The printer gets to the end of acyclic graphs only: whatever follows it is
\* never handed a cycle (graph.h:144-161, main.c:53).
PrintedIsAcyclic ==
  printing = "printed" => \A C \in SUBSET Needed : ~Circular(C)

\* The recursion is lost on a real cycle only: sharing, however deep, costs
\* time but no more stack than there are nodes (graph.h:150-152).
OverflowOnlyOnCycle ==
  printing = "overflow" => \E C \in SUBSET Needed : Circular(C)

\* Printing comes to an end, by itself or by running out of stack
\* (graph.h:144-161).
Terminates == <>(printing # "printing")
-----------------------------------------------------------------------------
(***************************************************************************)
(* The inductive invariant behind the safety properties.                   *)
(***************************************************************************)

\* No path from the node leads into a cycle: what is known of a node once its
\* call of print_node has returned.
Grounded(n) == \A C \in SUBSET Node : Circular(C) => n \notin C

\* The calls are a path from a root; what each is done with is grounded.
Path == /\ \A k \in DOMAIN calls : calls[k].node \in Needed
        /\ \A k \in DOMAIN calls :
             calls[k].next <= Len(dependencies[calls[k].node]) + 1
        /\ \A k \in 1 .. Len(calls) - 1 :
             /\ calls[k].next > 1
             /\ calls[k + 1].node = dependencies[calls[k].node][calls[k].next - 1]
        /\ calls # <<>> => root > 1 /\ calls[1].node = graph[root - 1]

Returned ==
  /\ \A k \in DOMAIN calls : \A j \in 1 .. calls[k].next - 1 :
       Grounded(dependencies[calls[k].node][j]) \/ (k < Len(calls) /\ j = calls[k].next - 1)
  /\ printing # "overflow" =>
       \A r \in 1 .. root - 1 : Grounded(graph[r]) \/ (calls # <<>> /\ r = root - 1)
  /\ printing = "printed" => root > Len(graph) /\ calls = <<>>

Inv == TypeOK /\ Path /\ Returned /\ OverflowOnlyOnCycle
=============================================================================
