SPECIFICATION Spec
CONSTANTS
  main = main
  co = co
  co2 = co2
  reg = reg
  glob = glob
  t1 = t1
  t2 = t2
  f1 = f1
  f2 = f2
  u1 = u1
  u2 = u2
  s1 = s1
  d1 = d1
  NoObj = NoObj
  Tables = {reg, glob, t1}
  Closures = {}
  UpVals = {}
  Threads = {main}
  Strings = {s1}
  Udatas = {d1}
  MainThread = main
  Registry = reg
  Globals = glob
  StackSize = 1
  Cap = 1
  Shelves = {glob}
  Keys = {NoObj, s1, t1}
  Modes <- WeakModes
  Loads = {t1, s1, d1, glob}
  Stores = {t1, s1, d1, NoObj}
  Metatables = {glob}
  BasicMetatables = {t1}
  Environments = {}
  ForceGC = FALSE
INVARIANTS
  TypeOK
  GrayLists
  NoDanglingRefs
  BlackNotToWhite
PROPERTIES
  ClearsOnlyWeak
