----------------------------- MODULE Scheduler ------------------------------
(***************************************************************************)
(* generate_thir and generate_thir_for_node (src/typer.c): the order in    *)
(* which the nodes of the dependency graph are typed.  A first phase       *)
(* (Kahn) takes the nodes whose dependencies are all taken already out of  *)
(* a queue of n slots; a second pass resolves what the queue never reached *)
(* by a depth-first walk that marks the nodes it is inside of, and stops   *)
(* the compiler when it meets a mark.  The recursion is an explicit stack  *)
(* of frames; the step a loop of the code takes is a step here.            *)
(*                                                                         *)
(* What generate_thir_from_ast does with one node (src/typer.c:29) is      *)
(* abstracted to its two outcomes: the node's THIR is appended to the      *)
(* program, or the process exits.                                          *)
(***************************************************************************)
EXTENDS Integers, Sequences, FiniteSets, Functions

CONSTANTS
  Node,                \* the DepNodes of the registry
  Inputs               \* the dependency graphs generate_thir may be given

\* What populate_dep_graph guarantees of a graph (DepGraph.tla).
WellFormed(g, deps) ==
  /\ g \in Seq(Node) /\ IsInjective(g)
  /\ deps \in [Node -> Seq(Node)]
  /\ \A n \in Node : IsInjective(deps[n])

ASSUME InputsAssumption == \A x \in Inputs : WellFormed(x.graph, x.dependencies)

VARIABLES
  graph,               \* DepGraph.nodes
  dependencies,        \* DepNode.dependencies, for every node
  state,               \* DepNode.state
  in_degree,           \* in_degree[k]: dependencies of graph[k] not yet taken
  queue,               \* queue[0 .. qlen-1], a buffer of graph->length slots
  processed,           \* how many nodes were taken out of the queue
  i,                   \* the variable of the loop the generator is in
  stack,               \* the active calls of generate_thir_for_node
  program,             \* program->statements, the nodes whose THIR is in it
  phase                \* the loop of generate_thir, or how the process ended

inputs == <<graph, dependencies>>
vars == <<graph, dependencies, state, in_degree, queue, processed, i, stack,
          program, phase>>

Halted == {"done", "cyclic", "failed"}
Phases == {"count", "seed", "kahn", "decrement", "rest"} \cup Halted

DependsOn(n) == Range(dependencies[n])
Generated    == Range(program)

\* A call of generate_thir_for_node: next is its loop variable i plus one.
Frame == [node : Node, next : Nat \ {0}]
Top   == stack[Len(stack)]

\* A mutant of Advanced: the loop variable is incremented twice.
AdvancedTwice == [stack EXCEPT ![Len(stack)] = [node |-> Top.node, next |-> Top.next + 2]]

\* The active calls once the innermost one has moved on to its next dependency.
Advanced == [stack EXCEPT ![Len(stack)] = [node |-> Top.node, next |-> Top.next + 1]]

TypeOK ==
  /\ WellFormed(graph, dependencies)
  /\ state \in [Node -> {"UNRESOLVED", "RESOLVING", "RESOLVED"}]
  /\ in_degree \in [IF phase = "count" THEN {} ELSE DOMAIN graph -> Int]
  /\ queue \in Seq(Range(graph))
  /\ processed \in 0 .. Len(queue)
  /\ i \in 1 .. Len(graph) + 1
  /\ stack \in Seq(Frame)
  /\ program \in Seq(Node)
  /\ phase \in Phases

-----------------------------------------------------------------------------
\* Before generate_thir is called: every DepNode was allocated with zeroes.
Idle == /\ state = [n \in Node |-> "UNRESOLVED"]
        /\ in_degree = <<>>
        /\ queue = <<>>
        /\ processed = 0
        /\ i = 1
        /\ stack = <<>>
        /\ program = <<>>
        /\ phase = "count"

Init == /\ \E x \in Inputs : graph = x.graph /\ dependencies = x.dependencies
        /\ Idle

\* A call on a node that is resolved returns at once, on one that is being
\* resolved it stops the compiler, and otherwise it marks the node and opens
\* a frame above the ones of the callers.
Enter(n, callers, after) ==
  \/ /\ state[n] = "RESOLVED"
     /\ stack' = callers
     /\ phase' = after
     /\ UNCHANGED state
  \/ /\ state[n] = "RESOLVING"
     /\ phase' = "cyclic"
     /\ UNCHANGED <<stack, state>>
  \/ /\ state[n] = "UNRESOLVED"
     /\ state' = [state EXCEPT ![n] = "RESOLVING"]
     /\ stack' = Append(callers, [node |-> n, next |-> 1])
     /\ phase' = after

\* The loop over node->dependencies of the innermost call.
Visit ==
  /\ phase \notin Halted
  /\ stack # <<>>
  /\ Top.next <= Len(dependencies[Top.node])
  /\ Enter(dependencies[Top.node][Top.next], Advanced, phase)
  /\ UNCHANGED <<inputs, in_degree, queue, processed, i, program>>

\* A mutant of GenerateNode: the node is never marked RESOLVED.
GenerateNodeUnmarked ==
  /\ phase \notin Halted
  /\ stack # <<>>
  /\ Top.next > Len(dependencies[Top.node])
  /\ program' = Append(program, Top.node)
  /\ stack' = SubSeq(stack, 1, Len(stack) - 1)
  /\ UNCHANGED <<inputs, state, in_degree, queue, processed, i, phase>>

\* After the loop: the node's THIR joins the program and the call returns.
GenerateNode ==
  /\ phase \notin Halted
  /\ stack # <<>>
  /\ Top.next > Len(dependencies[Top.node])
  /\ program' = Append(program, Top.node)
  /\ state' = [state EXCEPT ![Top.node] = "RESOLVED"]
  /\ stack' = SubSeq(stack, 1, Len(stack) - 1)
  /\ UNCHANGED <<inputs, in_degree, queue, processed, i, phase>>

\* generate_thir_from_ast finds an error in the node and exits.
FailNode ==
  /\ phase \notin Halted
  /\ stack # <<>>
  /\ Top.next > Len(dependencies[Top.node])
  /\ phase' = "failed"
  /\ UNCHANGED <<inputs, state, in_degree, queue, processed, i, stack, program>>

-----------------------------------------------------------------------------
CountInDegrees ==
  /\ phase = "count"
  /\ in_degree' = [k \in DOMAIN graph |-> Len(dependencies[graph[k]])]
  /\ phase' = "seed"
  /\ UNCHANGED <<inputs, state, queue, processed, i, stack, program>>

\* A mutant of SeedQueue: a node with one dependency is taken for one without.
SeedQueueEarly ==
  /\ phase = "seed"
  /\ i <= Len(graph)
  /\ queue' = IF in_degree[i] <= 1 THEN Append(queue, graph[i]) ELSE queue
  /\ i' = i + 1
  /\ UNCHANGED <<inputs, state, in_degree, processed, stack, program, phase>>

\* Queue the nodes without dependencies.
SeedQueue ==
  /\ phase = "seed"
  /\ i <= Len(graph)
  /\ queue' = IF in_degree[i] = 0 THEN Append(queue, graph[i]) ELSE queue
  /\ i' = i + 1
  /\ UNCHANGED <<inputs, state, in_degree, processed, stack, program, phase>>

EndSeed ==
  /\ phase = "seed"
  /\ i > Len(graph)
  /\ phase' = "kahn"
  /\ UNCHANGED <<inputs, state, in_degree, queue, processed, i, stack, program>>

\* Take the next node of the queue and generate it; the loop that follows the
\* call runs once the call has returned (the stack is empty again).
Dequeue ==
  /\ phase = "kahn"
  /\ processed < Len(queue)
  /\ processed' = processed + 1
  /\ i' = 1
  /\ Enter(queue[processed + 1], stack, "decrement")
  /\ UNCHANGED <<inputs, in_degree, queue, program>>

\* A mutant of Decrement: a node is queued again at every count below two.
DecrementEager ==
  /\ phase = "decrement"
  /\ stack = <<>>
  /\ i <= Len(graph)
  /\ IF queue[processed] \in DependsOn(graph[i])
     THEN /\ in_degree' = [in_degree EXCEPT ![i] = @ - 1]
          /\ queue' = IF in_degree[i] <= 2 THEN Append(queue, graph[i]) ELSE queue
     ELSE UNCHANGED <<in_degree, queue>>
  /\ i' = i + 1
  /\ UNCHANGED <<inputs, state, processed, stack, program, phase>>

\* One round of the loop over the nodes that may depend on the one taken.
\* The dependencies of a node are distinct: the inner loop meets it once.
Decrement ==
  /\ phase = "decrement"
  /\ stack = <<>>
  /\ i <= Len(graph)
  /\ IF queue[processed] \in DependsOn(graph[i])
     THEN /\ in_degree' = [in_degree EXCEPT ![i] = @ - 1]
          /\ queue' = IF in_degree[i] = 1 THEN Append(queue, graph[i]) ELSE queue
     ELSE UNCHANGED <<in_degree, queue>>
  /\ i' = i + 1
  /\ UNCHANGED <<inputs, state, processed, stack, program, phase>>

EndDecrement ==
  /\ phase = "decrement"
  /\ stack = <<>>
  /\ i > Len(graph)
  /\ phase' = "kahn"
  /\ UNCHANGED <<inputs, state, in_degree, queue, processed, i, stack, program>>

\* Two mutants of EndKahn: no second pass; one that keeps the loop variable.
EndKahnLast ==
  /\ phase = "kahn"
  /\ processed = Len(queue)
  /\ phase' = "done"
  /\ i' = 1
  /\ UNCHANGED <<inputs, state, in_degree, queue, processed, stack, program>>

EndKahnKeep ==
  /\ phase = "kahn"
  /\ processed = Len(queue)
  /\ phase' = "rest"
  /\ UNCHANGED <<inputs, state, in_degree, queue, processed, i, stack, program>>

\* The queue is exhausted: in_degree and queue are freed.
EndKahn ==
  /\ phase = "kahn"
  /\ processed = Len(queue)
  /\ phase' = "rest"
  /\ i' = 1
  /\ UNCHANGED <<inputs, state, in_degree, queue, processed, stack, program>>

\* A mutant of ResolveRest: the loop does not go on to the next node.
ResolveRestAgain ==
  /\ phase = "rest"
  /\ stack = <<>>
  /\ i <= Len(graph)
  /\ Enter(graph[i], stack, phase)
  /\ UNCHANGED <<inputs, in_degree, queue, processed, i, program>>

\* The loop over the nodes the queue never reached.
ResolveRest ==
  /\ phase = "rest"
  /\ stack = <<>>
  /\ i <= Len(graph)
  /\ i' = i + 1
  /\ Enter(graph[i], stack, phase)
  /\ UNCHANGED <<inputs, in_degree, queue, processed, program>>

\* A mutant of Return: the loop ends one node short.
ReturnEarly ==
  /\ phase = "rest"
  /\ stack = <<>>
  /\ i >= Len(graph)
  /\ phase' = "done"
  /\ UNCHANGED <<inputs, state, in_degree, queue, processed, i, stack, program>>

Return ==
  /\ phase = "rest"
  /\ stack = <<>>
  /\ i > Len(graph)
  /\ phase' = "done"
  /\ UNCHANGED <<inputs, state, in_degree, queue, processed, i, stack, program>>

\* The generator has returned or the process has exited.
Halt == phase \in Halted /\ UNCHANGED vars

generate_thir_for_node == Visit \/ GenerateNode \/ FailNode

generate_thir == \/ CountInDegrees \/ SeedQueue \/ EndSeed
                 \/ Dequeue \/ Decrement \/ EndDecrement \/ EndKahn
                 \/ ResolveRest \/ Return

Next == generate_thir_for_node \/ generate_thir \/ Halt

\* One thread runs the generator and nothing blocks it.
Spec == Init /\ [][Next]_vars /\ WF_vars(Next)
-----------------------------------------------------------------------------
(***************************************************************************)
(* Properties                                                              *)
(***************************************************************************)
Roots == Range(graph)

Closed(S) == \A n \in S : DependsOn(n) \subseteq S

Needed == {n \in Node : \A S \in SUBSET Node :
                          Roots \subseteq S /\ Closed(S) => n \in S}

\* program->statements is an order of generation: a node is typed once, and
\* only after everything it depends on, so that the type and symbol tables
\* hold what generate_thir_from_ast looks up (typer.c:240-245).
GenerationOrder ==
  /\ IsInjective(program)
  /\ \A k \in DOMAIN program : \A d \in DependsOn(program[k]) :
       \E j \in 1 .. k - 1 : program[j] = d

\* "cyclic dependency detected" is reported only of a real cycle, and one that
\* the program needs: the marks a walk leaves behind never accuse a graph in
\* which two paths merely meet (typer.c:231-236).
CyclicOnlyOnCycle ==
  phase = "cyclic" =>
    \E C \in SUBSET Needed : C # {} /\ \A n \in C : DependsOn(n) \cap C # {}

\* When generate_thir returns, the program holds everything the declarations
\* need and nothing else: neither the queue nor the second pass loses a node
\* (typer.c:271-298).
DoneIsComplete ==
  /\ Generated \subseteq Needed
  /\ phase = "done" => Needed \subseteq Generated

\* The queue has graph->length slots and no bounds check, and in_degree is a
\* size_t: a node queued twice would run over the buffer, a dependency counted
\* out twice would wrap the count (typer.c:257, 280-281).
QueueInBounds ==
  /\ Len(queue) <= Len(graph)
  /\ IsInjective(queue)
  /\ \A k \in DOMAIN in_degree : in_degree[k] >= 0

\* What the queue hands out has all its dependencies resolved: in the first
\* phase the recursion is never more than one call deep, so it can neither
\* meet a cycle nor type a node outside the queue (typer.c:272-273).
QueueNeverRecurses ==
  phase \in {"kahn", "decrement"} =>
    /\ Len(stack) <= 1
    /\ Generated \subseteq Range(queue)

\* The generator always returns or exits: every loop of it is finite, and the
\* marks stop the recursion on any cycle (typer.c:230-299).
Terminates == <>(phase \in Halted)

\* The generator implements the abstract order of generation.
verdict == IF phase \in Halted THEN phase ELSE "running"

Order == INSTANCE CompileOrder

ImplementsCompileOrder == Order!Spec
-----------------------------------------------------------------------------
(***************************************************************************)
(* The inductive invariant behind the safety properties.                   *)
(***************************************************************************)

\* Between two calls of generate_thir_for_node no call is active.
Calls == phase \in {"count", "seed", "kahn", "done"} => stack = <<>>

\* The marks on the nodes say where they are: a node is RESOLVING while a call
\* on it is active, and RESOLVED once its THIR is in the program.
Marks ==
  /\ \A n \in Node : state[n] = "RESOLVING" <=> \E k \in DOMAIN stack : stack[k].node = n
  /\ \A n \in Node : state[n] = "RESOLVED" <=> n \in Generated

\* The stack is a path of the graph that visits no node twice; every call has
\* seen to the dependencies before its loop variable, but for the one the call
\* above it is still working on.
OnceOnStack == \A j, k \in DOMAIN stack : stack[j].node = stack[k].node => j = k
LoopBounds  == \A k \in DOMAIN stack :
                 stack[k].next <= Len(dependencies[stack[k].node]) + 1
Linked      == \A k \in DOMAIN stack : k < Len(stack) =>
                 /\ stack[k].next > 1
                 /\ stack[k + 1].node = dependencies[stack[k].node][stack[k].next - 1]
SeenTo      == \A k \in DOMAIN stack : \A m \in 1 .. stack[k].next - 1 :
                 \/ state[dependencies[stack[k].node][m]] = "RESOLVED"
                 \/ k < Len(stack) /\ m = stack[k].next - 1

Walk == OnceOnStack /\ LoopBounds /\ Linked /\ SeenTo

\* Nothing is visited that the roots do not need.
OnlyNeeded == /\ \A k \in DOMAIN stack : stack[k].node \in Needed
              /\ Generated \subseteq Needed

\* The second pass leaves no root behind it untouched.
RestPassed ==
  /\ phase = "rest" => \A j \in 1 .. i - 1 : state[graph[j]] # "UNRESOLVED"
  /\ phase = "done" => \A j \in DOMAIN graph : state[graph[j]] = "RESOLVED"

\* How many dependencies of graph[k] the queue has not handed out yet, while
\* the loop over the dependents of queue[processed] has come to graph[i].
Taken(k)  == {queue[q] : q \in 1 .. IF phase = "decrement" /\ k >= i
                                     THEN processed - 1 ELSE processed}
Counted   == phase \in {"seed", "kahn", "decrement"}
InDegrees ==
  Counted => \A k \in DOMAIN graph :
               in_degree[k] = Cardinality(DependsOn(graph[k]) \ Taken(k))

\* A node is in the queue once the count of its dependencies is down to zero.
Queued ==
  /\ Counted => \A k \in DOMAIN graph :
       graph[k] \in Range(queue) <=> /\ in_degree[k] = 0
                                     /\ phase = "seed" => k < i
  /\ phase = "count" => i = 1 /\ queue = <<>>
  /\ phase = "seed" => processed = 0
  /\ phase = "decrement" => processed >= 1

\* In the first phase the one active call is on the node taken last.
FirstPhase ==
  phase \in {"count", "seed", "kahn", "decrement"} =>
    /\ Generated = {queue[q] : q \in 1 .. processed - Len(stack)}
    /\ stack # <<>> => /\ Len(stack) = 1
                       /\ processed >= 1
                       /\ stack[1].node = queue[processed]
                       /\ i = 1

Inv == /\ TypeOK /\ Calls /\ Marks /\ Walk /\ OnlyNeeded /\ RestPassed
       /\ GenerationOrder /\ CyclicOnlyOnCycle
       /\ InDegrees /\ Queued /\ FirstPhase /\ QueueInBounds
=============================================================================
