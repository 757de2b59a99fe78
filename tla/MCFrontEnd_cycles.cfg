CONSTANTS
  Programs <- MCPhasePrograms
  MaxNodes = 6
  MaxDepth = 6
SPECIFICATION FrontEndSpec
PROPERTY CyclesAreDiagnosed
