--------------------------- MODULE MCGraphPrinter ---------------------------
(***************************************************************************)
(* Every dependency graph over NodeCount nodes, the first of which are its *)
(* declarations; a node has at most MaxDeps dependencies.                  *)
(***************************************************************************)
EXTENDS GraphPrinter

CONSTANTS
  NodeCount,           \* how many nodes the registry holds
  GraphSizes,          \* how many of them are declarations
  MaxDeps              \* bound on the dependencies of one node

MCNode == 1 .. NodeCount

DepLists == {<<>>} \cup UNION {{s \in [1 .. k -> MCNode] : IsInjective(s)} : k \in 1 .. MaxDeps}

MCGraphs ==
  LET lists == {d \in [MCNode -> DepLists] : \A n \in MCNode : n \notin Range(d[n])}
  IN {[graph |-> [k \in 1 .. size |-> k], dependencies |-> d] :
        size \in GraphSizes, d \in lists}
=============================================================================
