CONSTANTS
  Texts <- MCTexts
  MaxNulls = 2
SPECIFICATION Spec
INVARIANTS
  ReadsWhatIsWritten
  ReadProgramsAreAccepted
PROPERTY ClosedTextsEnd
