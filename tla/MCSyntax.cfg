CONSTANTS
  Sources <- SyntaxSources
  RecursionLimit = 14
  ErrorLimit = 3
SPECIFICATION Spec
INVARIANTS
  TypeOK
  ParsesBack
  CompilesExactlyTheGrammar
  ScopesAreLeft
  ReportsTheDamage
CHECK_DEADLOCK FALSE
