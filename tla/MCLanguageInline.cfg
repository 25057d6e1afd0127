CONSTANTS
  Chunks <- InlineChunks
  StackSize = 24
  MaxJump = 31
SPECIFICATION Spec
INVARIANT RunsAsMeant
CHECK_DEADLOCK FALSE
