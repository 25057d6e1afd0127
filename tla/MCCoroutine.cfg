SPECIFICATION Spec
CONSTANTS
  co1 = co1
  co2 = co2
  Threads <- Pair
  MaxC = 4
  HardC = 6
  MaxFrames = 5
INVARIANTS
  TypeOK
  CountsNativeCalls
  NativeStackBounded
  ActiveIffOnStack
  LinkInv
PROPERTIES
  ImplementsCoroutines
