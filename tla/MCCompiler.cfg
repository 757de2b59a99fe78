CONSTANTS
  Programs <- MCPrograms
  Asts <- MCAsts
  MaxNodes = 8
  MaxDepth = 8
  Callees = {"g", "h"}
SPECIFICATION BackEndSpec
INVARIANTS
  FunctionTypesFit
  ParametersKeepTheirTypes
  TypesAreComplete
  NothingUndeclaredCompiles
  ModuleIsWellFormed
  TypesAgree
  CallsKeepTheirOrder
