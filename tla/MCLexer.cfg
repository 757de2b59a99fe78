CONSTANTS
  Letter = {"f", "n"}
  Digit = {"1"}
  Unknown = {"#"}
  Other = {"CR"}
  EOF = "EOF"
  Slots = 2
  Texts <- MCTexts
SPECIFICATION Spec
INVARIANTS
  ValuesInsideText
  TokensInOrder
  EndIsFinal
  LineIsNear
PROPERTIES
  CallsAreAnswered
  ReadsTheStream
