CONSTANTS
  Node <- MCNode
  Inputs <- MCInputs
  NodeCount = 4
  GraphSizes = {3, 4}
  MaxDeps = 2
SPECIFICATION Spec
INVARIANTS
  GenerationOrder
  CyclicOnlyOnCycle
  DoneIsComplete
  QueueInBounds
  QueueNeverRecurses
  Inv
PROPERTIES
  ImplementsCompileOrder
  Terminates
