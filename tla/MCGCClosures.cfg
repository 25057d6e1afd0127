SPECIFICATION FairSpec
CONSTANTS
  main = main
  co = co
  co2 = co2
  reg = reg
  glob = glob
  t1 = t1
  t2 = t2
  f1 = f1
  f2 = f2
  u1 = u1
  u2 = u2
  s1 = s1
  d1 = d1
  NoObj = NoObj
  Tables = {reg, glob}
  Closures = {f1}
  UpVals = {u1}
  Threads = {main}
  Strings = {}
  Udatas = {}
  MainThread = main
  Registry = reg
  Globals = glob
  StackSize = 2
  Cap = 1
  Shelves = {reg}
  Keys = {NoObj}
  Modes <- NoModes
  Loads = {f1}
  Stores = {reg, glob, f1, main, NoObj}
  Metatables = {}
  BasicMetatables = {}
  Environments = {}
  ForceGC = TRUE
INVARIANTS
  DeadOnlyUnswept
PROPERTIES
  FreesOnlyGarbage
  GarbageIsFreed
  MarkingEnds
