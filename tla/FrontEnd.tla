------------------------------ MODULE FrontEnd ------------------------------
(***************************************************************************)
(* main (src/main.c:28-66), from the syntax tree to the typed program: the *)
(* graph is built (DepGraph), printed (GraphPrinter) and handed to the     *)
(* generator (Scheduler), one after the other over the same DepNodes.  A   *)
(* phase that ends the process keeps the later ones from starting.         *)
(***************************************************************************)
EXTENDS DepGraph

CONSTANT MaxDepth          \* how many calls of print_node the C stack holds

\* The stack is deep enough for any path that visits each node once.
ASSUME DepthAssumption == MaxDepth \in Nat /\ MaxDepth >= MaxNodes

VARIABLES
  root, calls, printing,                               \* of GraphPrinter
  state, in_degree, queue, processed, i, stack,        \* of Scheduler
  program, phase

printer_vars   == <<root, calls, printing>>
generator_vars == <<state, in_degree, queue, processed, i, stack, program, phase>>
vars           == <<builder_vars, printer_vars, generator_vars>>

Printer   == INSTANCE GraphPrinter WITH Graphs <- {}
Generator == INSTANCE Scheduler WITH Inputs <- {}

FrontEndInit == Init /\ Printer!Idle /\ Generator!Idle

BuildGraph == populate_dep_graph /\ UNCHANGED <<printer_vars, generator_vars>>

PrintGraph == /\ building = "built"
              /\ Printer!print_graph
              /\ UNCHANGED <<builder_vars, generator_vars>>

\* A mutant of GenerateThir: the generator does not wait for the printer.
GenerateThirAtOnce == /\ building = "built"
                      /\ \/ Generator!generate_thir
                         \/ Generator!generate_thir_for_node
                      /\ UNCHANGED <<builder_vars, printer_vars>>

GenerateThir == /\ building = "built"
                /\ printing = "printed"
                /\ \/ Generator!generate_thir
                   \/ Generator!generate_thir_for_node
                /\ UNCHANGED <<builder_vars, printer_vars>>

\* main goes on to the back end, or the process is gone.
Ended == \/ building = "crashed"
         \/ printing = "overflow"
         \/ phase \in Generator!Halted

End == Ended /\ UNCHANGED vars

FrontEndNext == BuildGraph \/ PrintGraph \/ GenerateThir \/ End

\* One thread, which nothing blocks.
FrontEndSpec == FrontEndInit /\ [][FrontEndNext]_vars /\ WF_vars(FrontEndNext)
-----------------------------------------------------------------------------
(***************************************************************************)
(* Properties                                                              *)
(***************************************************************************)

\* What each phase may assume of the one before it: the generator only ever
\* works on a graph that is well formed, complete and free of cycles, and
\* nobody touches it any more (main.c:46-66).
Handoff ==
  phase # "count" =>
    /\ Generator!WellFormed(graph, dependencies)
    /\ statement > Len(source) /\ pending = <<>> /\ calls = <<>>
    /\ \A C \in SUBSET Generator!Needed : ~Printer!Circular(C)

\* The generator's own diagnosis, "cyclic dependency detected", is dead code:
\* no program gets as far as that with a cycle (typer.c:233-236, main.c:53).
CycleNeverReachesGenerator == phase # "cyclic"

GeneratedBefore(path, k) == \E j \in 1 .. k - 1 : registry[program[j]] = path

\* The types of the parameters of a function and of the members of a type are
\* in the type table when the declaration is generated: generate_thir_from_ast
\* takes find_type of a member without looking (typer.c:184), and makes a
\* parameter of an unknown type void (typer.c:142-147).
SignatureTypesComeFirst ==
  \A k \in DOMAIN program : Len(registry[program[k]]) = 1 =>
    LET d     == registry[program[k]][1]
        decl  == source[d]
        named == IF decl.kind = "function" THEN Range(decl.parameters)
                 ELSE IF decl.kind = "type" THEN Range(decl.members) ELSE {}
    IN \A e \in DOMAIN source :
         IsNamed(source[e]) /\ source[e].name \in named /\ e # d => GeneratedBefore(<<e>>, k)

\* A compilation that goes on to the back end has generated every function and
\* type of the program, each of them once (main.c:62-66).
EveryDeclarationGenerated ==
  phase = "done" =>
    \A d \in DOMAIN source : IsDeclaration(d) =>
      \E k \in DOMAIN program :
        /\ registry[program[k]] = <<d>>
        /\ \A j \in DOMAIN program : registry[program[j]] = <<d>> => j = k

\* main always gets past the front end, one way or another.
FrontEndTerminates == <>Ended

\* generate_thir_for_node has a message for a program that needs itself,
\* "cyclic dependency detected" (typer.c:234); print_graph, which main always
\* calls first, recurses over the cycle until the process is killed.
CyclesAreDiagnosed ==
  (building = "built" /\ \E C \in SUBSET Generator!Needed : Printer!Circular(C))
    ~> phase \in {"cyclic", "failed"}
=============================================================================
