SPECIFICATION LibSpec
CONSTANTS
  key1 = key1
  key2 = key2
  key3 = key3
  v = v
  w = w
  Nil = Nil
  NoKey = NoKey
  IntKeys = {1, 2, 3}
  ObjKeys = {key1}
  Values = {v, w}
  Hash <- SmallHash
  MaxArray = 2
  MaxHash = 1
  Stubborn = FALSE
  FrozenNodes = 0
VIEW WithoutReply
SYMMETRY SameValues
INVARIANTS
  TypeOK
  NoNestedRehash
  BoundaryInvariant
  EveryEntryIsFound
PROPERTIES
  ImplementsLists
