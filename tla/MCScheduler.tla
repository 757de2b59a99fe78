---------------------------- MODULE MCScheduler -----------------------------
(***************************************************************************)
(* Every dependency graph over a few nodes.  The nodes of the graph are    *)
(* numbered in the order of their declarations, the ones after them exist  *)
(* only in the registry (the operands and return expressions the builder   *)
(* makes nodes of).  A node has at most MaxDeps dependencies, none of them *)
(* itself, in the order of their numbers: another order is the same graph  *)
(* with its nodes renumbered, but for the order of the declarations.       *)
(***************************************************************************)
EXTENDS Scheduler

CONSTANTS
  NodeCount,           \* how many nodes the registry holds
  GraphSizes,          \* how many of them are declarations
  MaxDeps              \* bound on the dependencies of one node

MCNode == 1 .. NodeCount

DepLists == {<<>>} \cup UNION {{s \in [1 .. k -> MCNode] :
                  \A a, b \in 1 .. k : a < b => s[a] < s[b]} : k \in 1 .. MaxDeps}

MCInputs ==
  LET lists == {d \in [MCNode -> DepLists] :
                  \A n \in MCNode : \A k \in DOMAIN d[n] : d[n][k] # n}
  IN {[graph |-> [k \in 1 .. size |-> k], dependencies |-> d] :
        size \in GraphSizes, d \in lists}
=============================================================================
