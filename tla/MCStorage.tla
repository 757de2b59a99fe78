----------------------------- MODULE MCStorage ------------------------------
(***************************************************************************)
(* An AST arena with chunks of five nodes, and a THIR arena whose nodes    *)
(* overshoot its limit; lists that grow three times and more.              *)
(***************************************************************************)
EXTENDS Storage

AST_Arena  == [limit |-> 5, room |-> 5, size |-> 1, zeroed |-> TRUE, clears |-> FALSE]
THIR_Arena == [limit |-> 8, room |-> 11, size |-> 3, zeroed |-> FALSE, clears |-> TRUE]

MCArenas == {AST_Arena, THIR_Arena}
MCLists  == {"vector", "node_list", "dep_list"}
=============================================================================
