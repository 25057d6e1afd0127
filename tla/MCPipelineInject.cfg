SPECIFICATION FairSpec
CONSTANTS
  c1 = c1
  c2 = c2
  c3 = c3
  Clicks = {c3}
  Symbols <- Letters
  Script <- OneScript
  NUL = NUL
  TriesLimit = 2
  MayDie = FALSE
PROPERTIES
  InjectReturns
CHECK_DEADLOCK FALSE
