CONSTANTS
  Arenas <- MCArenas
  Lists <- MCLists
  MaxNodes = 75
SPECIFICATION Spec
INVARIANTS
  NodesAreApart
  ListHoldsNodes
  StartsZeroed
PROPERTY NodesArrive
