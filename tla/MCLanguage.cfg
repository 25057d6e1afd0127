CONSTANTS
  Chunks <- LanguageChunks
  StackSize = 24
  MaxJump = 7
SPECIFICATION Spec
INVARIANTS
  TypeOK
  RunsAsMeant
  TopIsSetWhenRead
  ClosedBeforeReturn
PROPERTY Halts
CHECK_DEADLOCK FALSE
