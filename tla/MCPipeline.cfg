SPECIFICATION FairSpec
CONSTANTS
  c1 = c1
  c2 = c2
  c3 = c3
  Clicks = {c1, c2, c3}
  Symbols <- Letters
  Script <- MixedScripts
  NUL = NUL
  TriesLimit = 2
  MayDie = TRUE
INVARIANTS
  TypeOK
  ScriptsArrive
  FifoUnlessRaced
  OneLossAtMost
  FunctionsFirst
PROPERTIES
  QueuedScriptsRun
  ClientsFinish
CHECK_DEADLOCK FALSE
