CONSTANTS
  Programs <- MCPrograms
  Asts <- MCAsts
  MaxNodes = 8
  MaxDepth = 8
  Callees = {"g"}
SPECIFICATION BackEndSpec
INVARIANT MissingMemberIsMissing
