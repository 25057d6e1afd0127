CONSTANTS
  Chunks <- JumpChunks
  StackSize = 24
  MaxJump = 31
SPECIFICATION Spec
INVARIANT JumpsFit
CHECK_DEADLOCK FALSE
