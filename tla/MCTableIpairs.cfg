SPECIFICATION Spec
CONSTANTS
  key1 = key1
  key2 = key2
  key3 = key3
  v = v
  w = w
  Nil = Nil
  NoKey = NoKey
  IntKeys = {1, 2}
  ObjKeys = {key1}
  Values = {v}
  Hash <- SmallHash
  MaxArray = 2
  MaxHash = 1
  Stubborn = TRUE
  FrozenNodes = 0
PROPERTIES
  IpairsIsGenerator
