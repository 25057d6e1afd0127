SPECIFICATION Spec
CONSTANTS
  main = main
  co = co
  co2 = co2
  reg = reg
  glob = glob
  t1 = t1
  t2 = t2
  f1 = f1
  f2 = f2
  u1 = u1
  u2 = u2
  s1 = s1
  d1 = d1
  NoObj = NoObj
  Tables = {reg, glob}
  Closures = {f1}
  UpVals = {u1}
  Threads = {main, co}
  Strings = {}
  Udatas = {}
  MainThread = main
  Registry = reg
  Globals = glob
  StackSize = 2
  Cap = 0
  Shelves = {}
  Keys = {}
  Modes <- NoModes
  Loads = {co}
  Stores = {co, f1}
  Metatables = {}
  BasicMetatables = {}
  Environments = {}
  ForceGC = FALSE
INVARIANTS
  SleepingThreads
  OpenUpvals
  ChainAnchored
