CONSTANTS
  Node <- MCNode
  Graphs <- MCGraphs
  MaxDepth = 4
  NodeCount = 4
  GraphSizes = {3}
  MaxDeps = 2
SPECIFICATION Spec
INVARIANTS
  PrintedIsAcyclic
  OverflowOnlyOnCycle
  Inv
PROPERTY Terminates
