CONSTANTS
  Programs <- MCPrograms
  MaxNodes = 6
  MaxDepth = 6
SPECIFICATION FrontEndSpec
INVARIANTS
  OneNodePerAst
  FeedsScheduler
  GraphIsProgram
  Handoff
  CycleNeverReachesGenerator
  SignatureTypesComeFirst
  EveryDeclarationGenerated
PROPERTY FrontEndTerminates
