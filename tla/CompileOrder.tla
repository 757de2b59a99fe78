---------------------------- MODULE CompileOrder ----------------------------
(***************************************************************************)
(* What the THIR generator promises, without saying how it keeps it: the   *)
(* program it returns is an order of generation in which every node comes  *)
(* after the nodes it depends on, holds exactly the nodes the roots need,  *)
(* and is complete, unless the compiler stops with an error.  The module   *)
(* knows nothing of the in-degree queue, of the recursion or of the marks  *)
(* on the nodes; Scheduler.tla refines it.                                 *)
(***************************************************************************)
EXTENDS Sequences, Functions

CONSTANT Node                  \* the dependency nodes of the registry

VARIABLES
  graph,                       \* the roots: the declarations of the program
  dependencies,                \* what each node depends on
  program,                     \* the nodes generated so far, in order
  verdict                      \* "running", or how the compilation ended

vars == <<graph, dependencies, program, verdict>>

Verdicts == {"running", "done", "cyclic", "failed"}

Roots     == Range(graph)
Generated == Range(program)
DependsOn(n) == Range(dependencies[n])

Closed(S) == \A n \in S : DependsOn(n) \subseteq S

\* What the roots need: the least set that holds them and is closed.
Needed == {n \in Node : \A S \in SUBSET Node :
                          Roots \subseteq S /\ Closed(S) => n \in S}

\* A cycle among the needed nodes: a set in which everyone has a successor.
Cyclic == \E C \in SUBSET Needed : /\ C # {}
                                   /\ \A n \in C : DependsOn(n) \cap C # {}

Ready(n) == /\ n \in Needed \ Generated
            /\ DependsOn(n) \subseteq Generated

Init == /\ graph \in Seq(Node)
        /\ dependencies \in [Node -> Seq(Node)]
        /\ program = <<>>
        /\ verdict = "running"

Generate == /\ verdict = "running"
            /\ \E n \in Node : Ready(n) /\ program' = Append(program, n)
            /\ UNCHANGED <<graph, dependencies, verdict>>

Finish == /\ verdict = "running"
          /\ Needed \subseteq Generated
          /\ verdict' = "done"
          /\ UNCHANGED <<graph, dependencies, program>>

RejectCycle == /\ verdict = "running"
               /\ Cyclic
               /\ verdict' = "cyclic"
               /\ UNCHANGED <<graph, dependencies, program>>

\* The generation of a node may itself end in an error (a type error).
RejectNode == /\ verdict = "running"
              /\ \E n \in Node : Ready(n)
              /\ verdict' = "failed"
              /\ UNCHANGED <<graph, dependencies, program>>

Next == Generate \/ Finish \/ RejectCycle \/ RejectNode

Spec == Init /\ [][Next]_vars /\ WF_vars(Next)
=============================================================================
