---------------------------- MODULE LuauGCProofs ----------------------------
(***************************************************************************)
(* Theorems about the collector, for any heap.                             *)
(***************************************************************************)
EXTENDS LuauGC, LeastNumber, TLAPS

\* The tops of the stacks, which never pass the limit.
TopTypes == top \in [Threads -> Int] /\ \A th \in Threads : top[th] <= StackSize

\* The running thread is a thread.
LEMMA RunningThread == ASSUME TypeOK PROVE L \in Threads
  BY DEF TypeOK, TopTypes, L

\* Marking changes colours of objects and grays objects that have a gclist.
LEMMA MarkingTypes ==
  ASSUME TypeOK, NEW X
  PROVE  /\ Shaded(X) \in [Obj -> Colours]
         /\ Grayed(X) \subseteq Listed
<1>1. Grayed(X) \subseteq Listed
  BY DEF Grayed
<1>2. ASSUME NEW o \in Obj PROVE Shade(o) \in Colours
  BY DEF Shade, Colours
<1>3. Shaded(X) \in [Obj -> Colours]
  BY <1>2 DEF Shaded, TypeOK, TopTypes
<1>. QED BY <1>1, <1>3

\* The kinds of objects are objects, and nothing else is.
LEMMA Kinds ==
  /\ Tables \subseteq Obj /\ Closures \subseteq Obj /\ UpVals \subseteq Obj
  /\ Threads \subseteq Obj /\ Strings \subseteq Obj /\ Udatas \subseteq Obj
  /\ Obj \subseteq Ref /\ NoObj \in Ref /\ Listed \subseteq Obj
  /\ MainThread \in Threads /\ Registry \in Tables /\ Globals \in Tables
  /\ StackSize \in Nat
  BY KindsAssumption, BoundsAssumption DEF Obj, Ref, Listed

\* The first state has the types.
LEMMA InitTypes == Init => TypeOK
<1>. SUFFICES ASSUME Init PROVE TypeOK OBVIOUS
<1>. USE Kinds DEF Init
<1>1. mark \in [Obj -> Colours] BY DEF Colours
<1>2. tab \in [Obj -> Tables \cup {NoObj}] OBVIOUS
<1>3. TopTypes BY DEF TopTypes
<1>4. chain \in Seq(Threads) /\ Len(chain) >= 1 OBVIOUS
<1>5. gcstate \in GCStates BY DEF GCStates
<1>. QED BY <1>1, <1>2, <1>3, <1>4, <1>5 DEF TypeOK, TopTypes

\* The root step keeps them.
LEMMA MarkRootTypes == ASSUME TypeOK, MarkRoot PROVE TypeOK'
  BY MarkingTypes DEF MarkRoot, TypeOK, TopTypes, heap, GCStates

\* A traversal keeps them.
LEMMA PropagateTypes ==
  ASSUME TypeOK, NEW o, Propagate(o) \/ AtomicPropagate(o)
  PROVE  TypeOK'
<1>. USE Kinds
<1>1. o \in Listed
  BY DEF Propagate, AtomicPropagate, TypeOK, TopTypes
<1>2. PropagateMark(o)
  BY DEF Propagate, AtomicPropagate
<1>3. mark' \in [Obj -> Colours]
  BY <1>2, MarkingTypes DEF PropagateMark, Colours
<1>4. GrayAfter(o) \subseteq Listed /\ AgainAfter(o) \subseteq Listed
  BY <1>1, MarkingTypes DEF GrayAfter, AgainAfter, TypeOK, TopTypes
<1>5. gray' \subseteq Listed /\ grayagain' \subseteq Listed /\ gcstate' \in GCStates
  BY <1>4 DEF Propagate, AtomicPropagate, TypeOK, TopTypes, GCStates
<1>6. weak' \subseteq Tables /\ sleeping' \subseteq Threads
  BY <1>2 DEF PropagateMark, StaysWeak, FallsAsleep, TypeOK, TopTypes
<1>7. stack' \in [Cells -> Ref]
  BY <1>2 DEF PropagateMark, TypeOK, TopTypes
<1>. QED BY <1>2, <1>3, <1>5, <1>6, <1>7 DEF PropagateMark, TypeOK, TopTypes

\* The loops of the atomic step keep them.
LEMMA AtomicTypes ==
  ASSUME TypeOK, AtomicUpvals \/ AtomicWeak \/ AtomicAgain \/ AtomicFlip
  PROVE  TypeOK'
<1>. USE Kinds
<1>1. CASE AtomicUpvals
  BY <1>1, MarkingTypes DEF AtomicUpvals, MarkObjects, TypeOK, TopTypes, heap, GCStates, AtomicLoop
<1>2. CASE AtomicWeak
  BY <1>2, MarkingTypes DEF AtomicWeak, TypeOK, TopTypes, heap, GCStates, AtomicLoop, Listed
<1>3. CASE AtomicAgain
  BY <1>3 DEF AtomicAgain, TypeOK, TopTypes, heap, GCStates, AtomicLoop
<1>4. CASE AtomicFlip
  <2>1. mark' \in [Obj -> Colours]
    BY <1>4 DEF AtomicFlip, TypeOK, TopTypes, Colours
  <2>2. entries' \in [Tables -> SUBSET (Ref \X Ref)]
    BY <1>4 DEF AtomicFlip, TypeOK, TopTypes
  <2>. QED BY <1>4, <2>1, <2>2 DEF AtomicFlip, TypeOK, TopTypes, GCStates
<1>. QED BY <1>1, <1>2, <1>3, <1>4

\* Closing upvalues keeps every type.
LEMMA ClosingTypes ==
  ASSUME TypeOK, NEW U \in SUBSET UpVals
  PROVE  /\ CloseMark(U) \in [Obj -> Colours]
         /\ CloseGray(U) \subseteq Listed
         /\ CloseUpvals(U) => /\ open' \in [UpVals -> Cells \cup {NoObj}]
                              /\ value' \in [UpVals -> Ref]
<1>. USE Kinds
<1>1. CloseMark(U) \in [Obj -> Colours]
  BY MarkingTypes DEF CloseMark, Colours
<1>2. CloseGray(U) \subseteq Listed
  BY MarkingTypes DEF CloseGray, TypeOK, TopTypes
<1>3. ASSUME NEW u \in UpVals PROVE UpValue(u) \in Ref
  BY DEF UpValue, IsOpen, TypeOK, TopTypes
<1>4. CloseUpvals(U) => /\ open' \in [UpVals -> Cells \cup {NoObj}]
                        /\ value' \in [UpVals -> Ref]
  BY <1>3 DEF CloseUpvals, TypeOK, TopTypes
<1>. QED BY <1>1, <1>2, <1>4

\* The sweep of an object keeps them.
LEMMA SweepTypes == ASSUME TypeOK, NEW o \in Obj, Sweep(o) PROVE TypeOK'
<1>. USE Kinds
<1>. DEFINE U == IF IsDead(o) /\ o \in Threads THEN Opened(o, 1)
                ELSE IF IsDead(o) /\ o \in UpVals THEN {o} ELSE {}
            swept == [CloseMark(U) EXCEPT ![o] = IF IsDead(o) THEN "free" ELSE "white"]
<1>1. U \in SUBSET UpVals
  BY DEF Opened
<1>2. CloseUpvals(U) /\ (mark' = swept \/ mark' = [swept EXCEPT ![MainThread] = "white"])
  BY DEF Sweep
<1>. HIDE DEF U
<1>6. /\ mark' \in [Obj -> Colours]
      /\ open' \in [UpVals -> Cells \cup {NoObj}] /\ value' \in [UpVals -> Ref]
  <2>1. CloseMark(U) \in [Obj -> Colours]
    BY <1>1, ClosingTypes
  <2>2. swept \in [Obj -> Colours]
    BY <2>1 DEF Colours
  <2>3. mark' \in [Obj -> Colours]
    BY <1>2, <2>2 DEF Colours
  <2>. QED BY <1>1, <1>2, <2>3, ClosingTypes
<1>3. /\ tab' \in [Obj -> Tables \cup {NoObj}] /\ stack' \in [Cells -> Ref]
      /\ entries' \in [Tables -> SUBSET (Ref \X Ref)]
      /\ mode' \in [Tables -> SUBSET {"k", "v"}]
      /\ uprefs' \in [Closures -> SUBSET Ref]
  BY DEF Sweep, TypeOK, TopTypes
<1>4. TopTypes'
  BY DEF Sweep, TypeOK, TopTypes
<1>5. gcstate' \in GCStates /\ full' \in {"no", "finish", "cycle"}
  BY DEF Sweep, TypeOK, TopTypes, GCStates
<1>. QED BY <1>3, <1>4, <1>5, <1>6 DEF Sweep, TypeOK, TopTypes

\* A request for a full collection keeps them.
LEMMA FullGCTypes == ASSUME TypeOK, FullGC PROVE TypeOK'
  BY DEF FullGC, TypeOK, TopTypes, heap, GCStates

\* The collector keeps them.
LEMMA CollectTypes == ASSUME TypeOK, Collect PROVE TypeOK'
<1>1. ASSUME NEW o \in gray, Propagate(o) \/ AtomicPropagate(o) PROVE TypeOK'
  BY <1>1, PropagateTypes
<1>2. ASSUME NEW o \in unswept, Sweep(o) PROVE TypeOK'
  BY <1>2, SweepTypes DEF TypeOK, TopTypes
<1>. QED BY <1>1, <1>2, MarkRootTypes, AtomicTypes DEF Collect

-----------------------------------------------------------------------------
(* The mutator. *)

\* A barrier keeps the types of what it changes.
LEMMA BarrierTypes ==
  ASSUME TypeOK, NEW o \in Obj, NEW x, NEW X,
         \/ o \in Tables /\ (BarrierT(o, X) \/ BarrierFast(o))
         \/ BarrierF(o, x) \/ BarrierUpval(o, x)
         \/ o \in Threads /\ Wake(o) /\ UNCHANGED gray
  PROVE  mark' \in [Obj -> Colours] /\ gray' \subseteq Listed /\ grayagain' \subseteq Listed
<1>1. ASSUME NEW Y, MarkObjects(Y) PROVE mark' \in [Obj -> Colours] /\ gray' \subseteq Listed
  BY <1>1, MarkingTypes DEF MarkObjects, TypeOK, TopTypes
<1>2. CASE o \in Tables /\ (BarrierT(o, X) \/ BarrierFast(o))
  BY <1>1, <1>2 DEF BarrierT, BarrierFast, TypeOK, TopTypes, Colours, Listed
<1>3. CASE BarrierF(o, x) \/ BarrierUpval(o, x)
  BY <1>1, <1>3 DEF BarrierF, BarrierUpval, TypeOK, TopTypes, Colours
<1>4. CASE o \in Threads /\ Wake(o) /\ UNCHANGED gray
  BY <1>4 DEF Wake, TypeOK, TopTypes, Colours, Listed
<1>. QED BY <1>2, <1>3, <1>4

\* Operands are references, and so is whatever one load can reach.
LEMMA OperandTypes ==
  ASSUME TypeOK
  PROVE  /\ Operands \subseteq Ref /\ Captured \subseteq UpVals /\ Loadable \subseteq Ref
         /\ Envs \subseteq Tables \cup {NoObj}
         /\ \A th \in Threads : LiveSlots(th) \subseteq Ref
<1>. USE Kinds, RunningThread
<1>1. ASSUME NEW th \in Threads PROVE LiveSlots(th) \subseteq Ref
  <2>1. ASSUME NEW i \in 1 .. top[th] PROVE <<th, i>> \in Cells
    <3>1. top[th] \in Int /\ top[th] <= StackSize
      BY DEF TypeOK, TopTypes
    <3>2. i \in 1 .. StackSize
      BY <3>1
    <3>. QED BY <3>2 DEF Cells, Slots
  <2>2. ASSUME NEW i \in 1 .. top[th] PROVE stack[<<th, i>>] \in Ref
    BY <2>1 DEF TypeOK, TopTypes
  <2>. QED BY <2>2 DEF LiveSlots
<1>2. Operands \subseteq Ref
  BY <1>1 DEF Operands
<1>3. Captured \subseteq UpVals
  BY DEF Captured
<1>4. Loadable \subseteq Ref
  BY BoundsAssumption DEF Loadable, Ref
<1>5. Envs \subseteq Tables \cup {NoObj}
  BY DEF Envs, TypeOK, TopTypes
<1>. QED BY <1>1, <1>2, <1>3, <1>4, <1>5

\* A push keeps the stack and its limit.
LEMMA PushTypes ==
  ASSUME TypeOK, NEW x \in Ref, Push(x)
  PROVE  stack' \in [Cells -> Ref] /\ TopTypes'
<1>. USE Kinds, RunningThread
<1>1. stack' \in [Cells -> Ref]
  BY DEF Push, TypeOK, TopTypes
<1>2. TopTypes'
  BY DEF Push, TypeOK, TopTypes
<1>. QED BY <1>1, <1>2

\* Allocation keeps the types.
LEMMA AllocationTypes == ASSUME TypeOK, Allocation PROVE TypeOK'
<1>. USE Kinds, RunningThread, OperandTypes, PushTypes
<1>1. ASSUME NEW t \in Tables, NewTable(t) PROVE TypeOK'
  BY <1>1 DEF NewTable, Allocate, TypeOK, TopTypes, gc, Colours
<1>2. ASSUME NEW u \in Udatas, NewUserdata(u) PROVE TypeOK'
  BY <1>2 DEF NewUserdata, Allocate, TypeOK, TopTypes, gc, Colours
<1>3. ASSUME NEW th \in Threads, NewThread(th) PROVE TypeOK'
  BY <1>3 DEF NewThread, Allocate, TypeOK, TopTypes, gc, Colours
<1>4. ASSUME NEW s \in Strings, NewString(s) PROVE TypeOK'
  BY <1>4 DEF NewString, TypeOK, TopTypes, gc, Colours
<1>5. ASSUME NEW c \in Closures, NEW env \in Envs, NEW X \in SUBSET (Operands \cup Captured),
             NewClosure(c, env, X)
      PROVE  TypeOK'
  <2>1. X \subseteq Ref
    OBVIOUS
  <2>. QED BY <1>5, <2>1 DEF NewClosure, Allocate, TypeOK, TopTypes, gc, Colours
<1>6. ASSUME NEW c \in Closures, NEW env \in Envs, NEW u \in UpVals, NEW i \in Slots,
             NewClosureRef(c, env, u, i)
      PROVE  TypeOK'
  <2>1. /\ mark' \in [Obj -> Colours] /\ UNCHANGED <<entries, mode, value, chain, basicmt, gc>>
        /\ tab' \in [Obj -> Tables \cup {NoObj}]
    BY <1>6 DEF NewClosureRef, TypeOK, Colours
  <2>2. uprefs' \in [Closures -> SUBSET Ref] /\ open' \in [UpVals -> Cells \cup {NoObj}]
    BY <1>6 DEF NewClosureRef, TypeOK, Cells
  <2>3. stack' \in [Cells -> Ref] /\ TopTypes'
    BY <1>6 DEF NewClosureRef
  <2>. QED BY <2>1, <2>2, <2>3 DEF TypeOK, TopTypes, gc
<1>. QED BY <1>1, <1>2, <1>3, <1>4, <1>5, <1>6 DEF Allocation

\* Loads and pops keep them.
LEMMA StackUseTypes == ASSUME TypeOK, StackUse PROVE TypeOK'
<1>. USE Kinds, RunningThread, OperandTypes
<1>1. ASSUME NEW i \in Slots, NEW x \in Loadable, Load(i, x) PROVE TypeOK'
  <2>1. stack' \in [Cells -> Ref]
    BY <1>1 DEF Load, TypeOK, TopTypes
  <2>2. i \in Int /\ i <= StackSize
    BY DEF Slots
  <2>3. TopTypes'
    BY <1>1, <2>2 DEF Load, TypeOK, TopTypes
  <2>. QED BY <1>1, <2>1, <2>3 DEF Load, TypeOK, TopTypes, gc
<1>2. CASE RaiseTop
  BY <1>2 DEF RaiseTop, TypeOK, TopTypes, gc
<1>3. CASE Pop
  BY <1>3 DEF Pop, TypeOK, TopTypes, gc
<1>4. ASSUME NEW i \in Slots, Close(i) PROVE TypeOK'
  <2>1. Opened(L, i) \in SUBSET UpVals
    BY DEF Opened
  <2>. QED BY <1>4, <2>1, ClosingTypes DEF Close, TypeOK, TopTypes
<1>. QED BY <1>1, <1>2, <1>3, <1>4 DEF StackUse

\* Stores and their barriers keep them.
LEMMA StoreTypes == ASSUME TypeOK, Store PROVE TypeOK'
<1>. USE Kinds, RunningThread, OperandTypes
<1>1. ASSUME NEW u \in Captured, NEW x \in Operands, SetUpval(u, x) PROVE TypeOK'
  BY <1>1, BarrierTypes DEF SetUpval, TypeOK, TopTypes
<1>2. ASSUME NEW c \in Closures, NEW y \in uprefs[c], NEW x \in Operands, SetUpvalue(c, y, x)
      PROVE  TypeOK'
  <2>1. mark' \in [Obj -> Colours] /\ gray' \subseteq Listed /\ grayagain' \subseteq Listed
    BY <1>2, BarrierTypes DEF SetUpvalue
  <2>2. x \in Ref
    OBVIOUS
  <2>3. uprefs' \in [Closures -> SUBSET Ref]
    BY <1>2, <2>2 DEF SetUpvalue, TypeOK, TopTypes
  <2>4. stack' \in [Cells -> Ref] /\ value' \in [UpVals -> Ref]
    BY <1>2, <2>2 DEF SetUpvalue, TypeOK, TopTypes
  <2>. QED BY <1>2, <2>1, <2>3, <2>4 DEF SetUpvalue, TypeOK, TopTypes
<1>3. ASSUME NEW t \in Shelves, NEW k \in Keys, NEW x \in Operands, SetTable(t, k, x)
      PROVE  TypeOK'
  <2>1. t \in Tables /\ <<k, x>> \in Ref \X Ref
    BY BoundsAssumption
  <2>. QED BY <1>3, <2>1, BarrierTypes DEF SetTable, TypeOK, TopTypes
<1>4. ASSUME NEW t \in Shelves, NEW x \in Operands, SetList(t, x) PROVE TypeOK'
  <2>1. t \in Tables /\ <<NoObj, x>> \in Ref \X Ref
    BY BoundsAssumption
  <2>. QED BY <1>4, <2>1, BarrierTypes DEF SetList, TypeOK, TopTypes
<1>5. ASSUME NEW t \in Shelves, NEW e \in entries[t], ClearEntry(t, e) PROVE TypeOK'
  BY <1>5 DEF ClearEntry, TypeOK, TopTypes, gc
<1>6. ASSUME NEW o \in Tables \cup Udatas, NEW mt \in Metatables \cup {NoObj}, SetMetatable(o, mt)
      PROVE  TypeOK'
  BY <1>6, BarrierTypes, BoundsAssumption DEF SetMetatable, TypeOK, TopTypes
<1>7. ASSUME NEW X \in SUBSET BasicMetatables, SetBasicMetatable(X) PROVE TypeOK'
  BY <1>7, BoundsAssumption DEF SetBasicMetatable, TypeOK, TopTypes, gc
<1>8. ASSUME NEW mt \in Metatables, NEW letters \in Modes, SetMode(mt, letters) PROVE TypeOK'
  BY <1>8, BoundsAssumption DEF SetMode, TypeOK, TopTypes, gc
<1>9. ASSUME NEW o \in Closures \cup Threads, NEW t \in Environments, SetFenv(o, t) PROVE TypeOK'
  BY <1>9, BarrierTypes, BoundsAssumption DEF SetFenv, TypeOK, TopTypes
<1>10. ASSUME NEW t \in Environments, SetGlobals(t) PROVE TypeOK'
  BY <1>10, BoundsAssumption DEF SetGlobals, TypeOK, TopTypes, gc
<1>11. ASSUME NEW c \in Closures, NEW x \in Operands, DupClosure(c, x) PROVE TypeOK'
  <2>1. mark' \in [Obj -> Colours] /\ gray' \subseteq Listed /\ grayagain' \subseteq Listed
    BY <1>11, BarrierTypes DEF DupClosure
  <2>2. uprefs' \in [Closures -> SUBSET Ref]
    BY <1>11 DEF DupClosure, TypeOK, TopTypes
  <2>. QED BY <1>11, <2>1, <2>2 DEF DupClosure, TypeOK, TopTypes
<1>. QED
  BY <1>1, <1>2, <1>3, <1>4, <1>5, <1>6, <1>7, <1>8, <1>9, <1>10, <1>11 DEF Store

\* The steps between coroutines keep them.
LEMMA CoroutineTypes == ASSUME TypeOK, Coroutine PROVE TypeOK'
<1>. USE Kinds, RunningThread, OperandTypes, PushTypes
<1>1. ASSUME NEW th \in Threads, NEW x \in Operands, XPush(th, x) PROVE TypeOK'
  <2>1. mark' \in [Obj -> Colours] /\ gray' \subseteq Listed /\ grayagain' \subseteq Listed
    BY <1>1, BarrierTypes DEF XPush, Wake
  <2>2. TopTypes'
    BY <1>1 DEF XPush, TypeOK, TopTypes
  <2>. QED BY <1>1, <2>1, <2>2 DEF XPush, Wake, TypeOK, TopTypes
<1>2. ASSUME NEW th \in Threads, XPop(th) PROVE TypeOK'
  <2>1. top[th] \in 1 .. StackSize
    BY <1>2 DEF XPop, TypeOK
  <2>2. <<th, top[th]>> \in Cells
    BY <2>1 DEF Cells, Slots
  <2>3. stack' \in [Cells -> Ref]
    BY <1>2, <2>2 DEF XPop, TypeOK
  <2>4. top \in [Threads -> Int] /\ top[L] < StackSize /\ top[th] <= StackSize
    BY <1>2, <2>1 DEF XPop, TypeOK
  <2>5. top' = [top EXCEPT ![th] = @ - 1, ![L] = @ + 1]
    BY <1>2 DEF XPop
  <2>6. \A x \in Threads : top[x] <= StackSize
    BY DEF TypeOK
  <2>7. TopTypes'
    BY <2>4, <2>5, <2>6 DEF TopTypes
  <2>. QED BY <1>2, <2>3, <2>7 DEF XPop, TypeOK, TopTypes, gc
<1>3. ASSUME NEW th \in Threads, Resume(th) PROVE TypeOK'
  <2>1. mark' \in [Obj -> Colours] /\ gray' \subseteq Listed /\ grayagain' \subseteq Listed
    BY <1>3, BarrierTypes DEF Resume, Wake
  <2>2. chain' \in Seq(Threads) /\ Len(chain') >= 1
    BY <1>3 DEF Resume, TypeOK, TopTypes
  <2>. QED BY <1>3, <2>1, <2>2 DEF Resume, Wake, TypeOK, TopTypes
<1>4. ASSUME NEW th \in Threads, ResetThread(th) PROVE TypeOK'
  <2>1. Opened(th, 1) \in SUBSET UpVals
    BY DEF Opened
  <2>. QED BY <1>4, <2>1, ClosingTypes DEF ResetThread, TypeOK, TopTypes
<1>5. CASE Yield
  <2>. DEFINE n == Len(chain)
  <2>1. n \in Nat /\ n > 1 /\ chain[n - 1] \in Threads
    BY <1>5 DEF Yield, TypeOK, TopTypes
  <2>2. chain' \in Seq(Threads) /\ Len(chain') >= 1
    BY <1>5, <2>1 DEF Yield, TypeOK, TopTypes
  <2>3. TopTypes'
    BY <1>5, <2>1, SMTT(30) DEF Yield, TypeOK, TopTypes
  <2>. QED BY <1>5, <2>2, <2>3 DEF Yield, TypeOK, TopTypes, gc
<1>. QED BY <1>1, <1>2, <1>3, <1>4, <1>5 DEF Coroutine

\* Every variable keeps its type, in a heap of any size.
THEOREM TypeCorrect == Spec => []TypeOK
<1>1. TypeOK /\ [Next]_vars => TypeOK'
  <2>. SUFFICES ASSUME TypeOK, [Next]_vars PROVE TypeOK' OBVIOUS
  <2>1. CASE Collect BY <2>1, CollectTypes
  <2>2. CASE FullGC BY <2>2, FullGCTypes
  <2>3. CASE Mutate
    BY <2>3, AllocationTypes, StackUseTypes, StoreTypes, CoroutineTypes DEF Mutate
  <2>4. CASE UNCHANGED vars
    BY <2>4 DEF TypeOK, TopTypes, vars, heap, gc
  <2>. QED BY <2>1, <2>2, <2>3, <2>4 DEF Next
<1>. QED BY <1>1, InitTypes, PTL DEF Spec

-----------------------------------------------------------------------------
(* Colours and lists: what a barrier or a collector step does to them. *)

\* What an object of some kind never refers to.
RefKinds == /\ \A o \in Strings \cup UpVals : tab[o] = NoObj
            /\ \A c \in Cells : stack[c] \notin UpVals
            /\ \A u \in UpVals : value[u] \notin UpVals

\* Userdata are never gray; closed upvalues neither, and open ones never black.
GrayKinds == /\ \A d \in Udatas : mark[d] # "gray"
             /\ \A u \in UpVals : /\ mark[u] = "gray" => IsOpen(u)
                                  /\ mark[u] = "black" => ~IsOpen(u)

\* Which colours, and which sleeping threads, the sweep has still to visit; it
\* visits objects only.
SweepFacts ==
  /\ gcstate = "sweep" =>
       /\ \A o \in Obj : mark[o] \in {"gray", "black"} => o \in unswept \cup {MainThread}
       /\ sleeping \subseteq unswept
  /\ gcstate = "pause" => sleeping = {}
  /\ \A o \in unswept : mark[o] # "free"

\* The main thread is never freed, and marked by the first step of a cycle.
MainFacts ==
  /\ MainThread \notin unswept /\ MainThread \notin sleeping
  /\ mark[MainThread] # "free"
  /\ Marking => NonWhite(MainThread)

ColourInv == /\ GrayKinds /\ SweepFacts /\ MainFacts
             /\ DeadOnlyUnswept /\ GrayLists /\ SleepingThreads

\* No object is of two kinds.
LEMMA Disjoint ==
  /\ \A t \in Tables : t \notin Closures \cup UpVals \cup Threads \cup Strings \cup Udatas
  /\ \A c \in Closures : c \notin UpVals \cup Threads \cup Strings \cup Udatas
  /\ \A u \in UpVals : u \notin Threads \cup Strings \cup Udatas
  /\ \A th \in Threads : th \notin Strings \cup Udatas
  /\ \A s \in Strings : s \notin Udatas
  /\ NoObj \notin Obj /\ NoObj \notin Cells
  BY KindsAssumption

\* The states of the collector, as far as the invariant tells them apart.
LEMMA States ==
  ASSUME TypeOK
  PROVE  /\ Marking <=> gcstate \notin {"pause", "sweep"}
         /\ gcstate \notin AtomicLoop => (Marking <=> KeepInvariant)
         /\ gcstate \in AtomicLoop => Marking
  BY DEF TypeOK, GCStates, Marking, KeepInvariant, AtomicLoop

-----------------------------------------------------------------------------
(* Marking and closing. *)

\* Marking shades white objects only, those of X among them.
LEMMA Shading ==
  ASSUME TypeOK, NEW X
  PROVE  /\ \A o \in Obj : \/ Shaded(X)[o] = mark[o]
                           \/ IsWhite(o) /\ Shaded(X)[o] = Shade(o)
         /\ \A o \in Listed : o \in Grayed(X) <=> IsWhite(o) /\ Shaded(X)[o] = "gray"
         /\ \A x \in X \cap Obj : Shaded(X)[x] \notin {"white", "dead"}
<1>. USE Kinds, Disjoint
<1>1. Marked(X) \subseteq {o \in Obj : IsWhite(o)}
  BY DEF Marked, Whites
<1>2. \A o \in Obj : IF o \in Marked(X) THEN Shaded(X)[o] = Shade(o) ELSE Shaded(X)[o] = mark[o]
  BY DEF Shaded
<1>3. \A o \in Obj : Shade(o) \in {"gray", "black"} /\ (o \in Listed => Shade(o) = "gray")
  BY DEF Shade, Listed
<1>4. \A x \in X \cap Obj : IsWhite(x) => x \in Marked(X)
  BY DEF Marked, Whites
<1>5. \A o \in Listed : o \in Grayed(X) <=> o \in Marked(X)
  BY DEF Grayed
<1>. QED BY <1>1, <1>2, <1>3, <1>4, <1>5 DEF IsWhite

\* Marking nothing changes nothing.
LEMMA ShadingNothing == ASSUME TypeOK PROVE Shaded({}) = mark
<1>1. Marked({}) = {}
  BY DEF Marked, Whites
<1>. QED BY <1>1 DEF Shaded, TypeOK

\* Closing turns gray upvalues black while marking and white otherwise.
LEMMA Closing ==
  ASSUME TypeOK, ColourInv, NEW U \in SUBSET UpVals, gcstate \notin AtomicLoop
  PROVE  \A o \in Obj :
           \/ o \in U /\ mark[o] = "gray"
              /\ CloseMark(U)[o] = IF KeepInvariant THEN "black" ELSE "white"
           \/ ~(o \in U /\ mark[o] = "gray") /\ CloseMark(U)[o] = mark[o]
           \/ KeepInvariant /\ IsWhite(o) /\ CloseMark(U)[o] = Shade(o)
<1>. USE Kinds
<1>. DEFINE grays  == {u \in U : mark[u] = "gray"}
            values == IF KeepInvariant THEN {UpValue(u) : u \in grays} ELSE {}
<1>1. \A o \in Obj : CloseMark(U)[o] = IF o \in grays THEN IF KeepInvariant THEN "black" ELSE "white"
                                                      ELSE Shaded(values)[o]
  BY DEF CloseMark
<1>2. ~KeepInvariant => Shaded(values) = mark
  BY ShadingNothing
<1>3. \A o \in Obj : \/ Shaded(values)[o] = mark[o]
                     \/ IsWhite(o) /\ Shaded(values)[o] = Shade(o)
  BY Shading
<1>. HIDE DEF values
<1>. QED BY <1>1, <1>2, <1>3

-----------------------------------------------------------------------------
(* What the mutator does to the colours.  A barrier either marks the stored  *)
(* object or hands the black object that it is stored into back to the       *)
(* collector; while nothing is marked, it whitens.                           *)

Recolouring(o) ==
  \/ mark'[o] = mark[o]
  \/ mark[o] \in {"free", "dead"} /\ mark'[o] = "white"
  \/ KeepInvariant /\ IsWhite(o) /\ mark'[o] \in {"gray", "black"}
     /\ (o \in Udatas => mark'[o] = "black") /\ (o \in Listed => mark'[o] = "gray")
  \/ mark[o] = "black" /\ mark'[o] = "gray" /\ o \in Listed
  \/ KeepInvariant /\ o \in UpVals /\ mark[o] = "gray" /\ mark'[o] = "black"
  \/ ~KeepInvariant /\ mark[o] \in {"gray", "black"} /\ mark'[o] = "white"

\* The lists follow the colours.
Relisting ==
  KeepInvariant =>
    /\ \A o \in Listed :
         /\ o \in gray' <=> o \in gray \/ (IsWhite(o) /\ mark'[o] = "gray")
         /\ o \in grayagain' <=> o \in grayagain \/ (mark[o] = "black" /\ mark'[o] = "gray")
    /\ \A th \in Threads : mark[th] = "black" => (th \in sleeping' <=> mark'[th] = "black")

Recoloured ==
  /\ \A o \in Obj : Recolouring(o)
  /\ Relisting
  /\ sleeping' \subseteq sleeping
  /\ \A u \in UpVals : /\ mark'[u] = "gray" => IsOpen(u)'
                       /\ mark'[u] = "black" => ~IsOpen(u)'

\* A recolouring step of the mutator preserves the invariant of the colours.
LEMMA RecolouringKeepsColours ==
  ASSUME TypeOK, TypeOK', ColourInv, Recoloured, gcstate \notin AtomicLoop,
         UNCHANGED <<gcstate, weak, unswept>>,
         KeepInvariant => \A th \in sleeping' : ~Active(th)'
  PROVE  ColourInv'
<1>. USE Kinds, Disjoint, States
<1>1. KeepInvariant' = KeepInvariant /\ Marking' = Marking /\ Marking = KeepInvariant
  BY DEF KeepInvariant, Marking
<1>2. GrayKinds'
  BY DEF GrayKinds, Recoloured, Recolouring, ColourInv, Listed
<1>3. DeadOnlyUnswept'
  <2>1. ASSUME NEW o \in Obj, mark'[o] = "dead" PROVE gcstate' = "sweep" /\ o \in unswept'
    BY <2>1 DEF DeadOnlyUnswept, Recoloured, Recolouring, ColourInv
  <2>2. ASSUME gcstate' = "pause", NEW o \in Obj PROVE mark'[o] \in {"free", "white"}
    <3>1. mark[o] \in {"free", "white"} /\ ~KeepInvariant
      BY <2>2 DEF DeadOnlyUnswept, ColourInv, KeepInvariant
    <3>. QED BY <3>1 DEF Recoloured, Recolouring
  <2>. QED BY <2>1, <2>2 DEF DeadOnlyUnswept
<1>4. SweepFacts'
  <2>1. \A o \in unswept' : o \in Obj /\ mark'[o] # "free"
    BY DEF SweepFacts, Recoloured, Recolouring, ColourInv, TypeOK
  <2>2. \A o \in Obj : gcstate' = "sweep" /\ mark'[o] \in {"gray", "black"} => o \in unswept' \cup {MainThread}
    BY DEF SweepFacts, Recoloured, Recolouring, ColourInv, KeepInvariant
  <2>3. /\ gcstate' = "sweep" => sleeping' \subseteq unswept'
        /\ gcstate' = "pause" => sleeping' = {}
    BY DEF SweepFacts, Recoloured, ColourInv
  <2>. QED BY <2>1, <2>2, <2>3 DEF SweepFacts
<1>5. MainFacts'
  BY <1>1 DEF MainFacts, NonWhite, IsWhite, Recoloured, Recolouring, ColourInv
<1>6. SleepingThreads'
  <2>. SUFFICES ASSUME KeepInvariant PROVE SleepingThreads'
    BY <1>1 DEF SleepingThreads
  <2>1. ASSUME NEW th \in Threads PROVE Black(th)' <=> th \in sleeping'
    BY <1>1 DEF SleepingThreads, Black, Recoloured, Recolouring, Relisting, ColourInv, Listed
  <2>. QED BY <2>1 DEF SleepingThreads
<1>7. GrayLists'
  <2>. SUFFICES ASSUME KeepInvariant PROVE GrayLists'
    BY <1>1 DEF GrayLists
  <2>1. ASSUME NEW o \in Listed
        PROVE  /\ o \in gray \cup grayagain \cup weak <=> mark[o] = "gray"
               /\ ~(o \in gray /\ o \in grayagain) /\ ~(o \in gray /\ o \in weak)
               /\ ~(o \in grayagain /\ o \in weak)
    BY <1>1 DEF GrayLists, ColourInv
  <2>2. ASSUME NEW o \in Listed
        PROVE  /\ o \in gray' \cup grayagain' \cup weak' <=> mark'[o] = "gray"
               /\ ~(o \in gray' /\ o \in grayagain') /\ ~(o \in gray' /\ o \in weak')
               /\ ~(o \in grayagain' /\ o \in weak')
    <3>1. \/ mark'[o] = mark[o]
          \/ mark[o] \in {"free", "dead"} /\ mark'[o] = "white"
          \/ IsWhite(o) /\ mark'[o] = "gray"
          \/ mark[o] = "black" /\ mark'[o] = "gray"
      BY DEF Recoloured, Recolouring, Listed
    <3>2. /\ o \in gray' <=> o \in gray \/ (IsWhite(o) /\ mark'[o] = "gray")
          /\ o \in grayagain' <=> o \in grayagain \/ (mark[o] = "black" /\ mark'[o] = "gray")
          /\ weak' = weak
      BY DEF Recoloured, Relisting
    <3>. QED BY <2>1, <3>1, <3>2 DEF IsWhite
  <2>3. gray' \subseteq Listed /\ grayagain' \subseteq Listed /\ weak' \subseteq Listed
    BY DEF TypeOK, Listed
  <2>. QED BY <2>2, <2>3 DEF GrayLists
<1>. QED BY <1>2, <1>3, <1>4, <1>5, <1>6, <1>7 DEF ColourInv

\* A new object is white, and so is a dead one that is found again.
LEMMA WhiteningRecolours ==
  ASSUME TypeOK, ColourInv, UNCHANGED <<gray, grayagain, sleeping>>,
         \A o \in Obj : \/ mark'[o] = mark[o]
                        \/ mark[o] \in {"free", "dead"} /\ mark'[o] = "white",
         \A u \in UpVals : /\ IsOpen(u) => IsOpen(u)'
                           /\ IsOpen(u)' => IsOpen(u) \/ mark[u] \in {"free", "dead"}
  PROVE  Recoloured
<1>. USE Kinds, Disjoint
<1>1. \A o \in Obj : Recolouring(o)
  BY DEF Recolouring
<1>2. Relisting
  BY DEF Relisting, IsWhite, SleepingThreads, Black, ColourInv, Marking, KeepInvariant
<1>3. \A u \in UpVals : (mark'[u] = "gray" => IsOpen(u)') /\ (mark'[u] = "black" => ~IsOpen(u)')
  BY DEF ColourInv, GrayKinds
<1>. QED BY <1>1, <1>2, <1>3 DEF Recoloured

\* Marking X while the mutator runs.
LEMMA MarkingRecolours ==
  ASSUME TypeOK, ColourInv, NEW X, MarkObjects(X), KeepInvariant,
         UNCHANGED <<grayagain, sleeping, open>>
  PROVE  Recoloured
<1>. USE Kinds, Disjoint
<1>1. \A o \in Obj : \/ mark'[o] = mark[o]
                     \/ IsWhite(o) /\ mark'[o] = Shade(o)
  BY Shading DEF MarkObjects
<1>2. \A o \in Listed : o \in gray' <=> o \in gray \/ (IsWhite(o) /\ mark'[o] = "gray")
  BY Shading DEF MarkObjects
<1>3. \A o \in Obj : Recolouring(o)
  BY <1>1 DEF Recolouring, Shade, Listed
<1>4. \A u \in UpVals : (mark'[u] = "gray" => IsOpen(u)') /\ (mark'[u] = "black" => ~IsOpen(u)')
  BY <1>1 DEF ColourInv, GrayKinds, Shade, IsOpen
<1>5. Relisting
  BY <1>1, <1>2 DEF Relisting, IsWhite, SleepingThreads, Black, ColourInv, Marking,
                    KeepInvariant, Shade, Listed
<1>. QED BY <1>3, <1>4, <1>5 DEF Recoloured

\* Handing the black object o, a table or a thread, back to the collector.
LEMMA RegrayingRecolours ==
  ASSUME TypeOK, ColourInv, NEW o \in Tables \cup Threads, mark[o] = "black",
         mark' = [mark EXCEPT ![o] = "gray"], grayagain' = grayagain \cup {o},
         UNCHANGED <<gray, open>>, sleeping' = sleeping \ {o}
  PROVE  Recoloured
<1>. USE Kinds, Disjoint
<1>1. mark \in [Obj -> Colours] /\ o \in Listed
  BY DEF TypeOK, Listed
<1>2. \A x \in Obj : Recolouring(x)
  BY <1>1 DEF Recolouring
<1>3. \A u \in UpVals : (mark'[u] = "gray" => IsOpen(u)') /\ (mark'[u] = "black" => ~IsOpen(u)')
  BY <1>1 DEF ColourInv, GrayKinds, IsOpen
<1>4. Relisting
  BY <1>1 DEF Relisting, IsWhite, SleepingThreads, Black, ColourInv, Marking, KeepInvariant
<1>. QED BY <1>2, <1>3, <1>4 DEF Recoloured

\* Every barrier recolours.
LEMMA BarriersRecolour ==
  ASSUME TypeOK, ColourInv, NEW o \in Obj, NEW x, NEW X, UNCHANGED <<sleeping, open>>,
         \/ o \in Tables /\ (BarrierT(o, X) \/ BarrierFast(o))
         \/ BarrierF(o, x) \/ BarrierUpval(o, x),
         gcstate \notin AtomicLoop
  PROVE  Recoloured
<1>. USE Kinds, Disjoint
<1>1. CASE UNCHANGED <<mark, gray, grayagain>>
  BY <1>1, WhiteningRecolours DEF IsOpen
<1>2. CASE KeepInvariant /\ UNCHANGED grayagain /\ \E Y : MarkObjects(Y)
  BY <1>2, MarkingRecolours
<1>3. CASE /\ o \in Tables /\ mark[o] = "black" /\ mark' = [mark EXCEPT ![o] = "gray"]
           /\ grayagain' = grayagain \cup {o} /\ UNCHANGED gray
  <2>1. o \notin sleeping
    BY <1>3 DEF TypeOK
  <2>. QED BY <1>3, <2>1, RegrayingRecolours
<1>4. CASE /\ ~KeepInvariant /\ mark[o] = "black" /\ mark' = [mark EXCEPT ![o] = "white"]
           /\ UNCHANGED <<gray, grayagain>>
  <2>1. \A y \in Obj : Recolouring(y)
    BY <1>4 DEF Recolouring, TypeOK
  <2>2. \A u \in UpVals : (mark'[u] = "gray" => IsOpen(u)') /\ (mark'[u] = "black" => ~IsOpen(u)')
    BY <1>4 DEF ColourInv, GrayKinds, IsOpen, TypeOK
  <2>. QED BY <1>4, <2>1, <2>2 DEF Recoloured, Relisting
<1>. QED
  BY <1>1, <1>2, <1>3, <1>4 DEF BarrierT, BarrierFast, BarrierF, BarrierUpval, KeepInvariant

\* Waking a thread, and closing upvalues.
LEMMA WakingRecolours ==
  ASSUME TypeOK, ColourInv, NEW th \in Threads, Wake(th), UNCHANGED open
  PROVE  Recoloured
<1>. USE Kinds, Disjoint
<1>1. CASE th \in sleeping /\ KeepInvariant
  <2>1. mark[th] = "black"
    BY <1>1 DEF ColourInv, SleepingThreads, Black, Marking
  <2>. QED BY <1>1, <2>1, RegrayingRecolours DEF Wake
<1>2. CASE ~(th \in sleeping /\ KeepInvariant)
  <2>1. UNCHANGED <<mark, gray, grayagain>>
    BY <1>2 DEF Wake
  <2>2. \A u \in UpVals : (mark'[u] = "gray" => IsOpen(u)') /\ (mark'[u] = "black" => ~IsOpen(u)')
    BY <2>1 DEF ColourInv, GrayKinds, IsOpen
  <2>3. Relisting
    BY <1>2, <2>1 DEF Relisting, IsWhite, SleepingThreads, Black, ColourInv, Marking,
                      KeepInvariant, Wake
  <2>. QED BY <2>1, <2>2, <2>3 DEF Recoloured, Recolouring, Wake
<1>. QED BY <1>1, <1>2

\* Closing upvalues is such a step.
LEMMA ClosingRecolours ==
  ASSUME TypeOK, RefKinds, ColourInv, NEW U \in SUBSET UpVals, gcstate \notin AtomicLoop,
         mark' = CloseMark(U), gray' = CloseGray(U), CloseUpvals(U),
         UNCHANGED <<grayagain, sleeping>>
  PROVE  Recoloured
<1>. USE Kinds, Disjoint
<1>1. \A o \in Obj :
           \/ o \in U /\ mark[o] = "gray"
              /\ mark'[o] = IF KeepInvariant THEN "black" ELSE "white"
           \/ ~(o \in U /\ mark[o] = "gray") /\ mark'[o] = mark[o]
           \/ KeepInvariant /\ IsWhite(o) /\ mark'[o] = Shade(o)
  BY Closing
<1>2. \A o \in Obj : Recolouring(o)
  BY <1>1 DEF Recolouring, Shade, Listed
<1>3. \A u \in UpVals : (mark'[u] = "gray" => IsOpen(u)') /\ (mark'[u] = "black" => ~IsOpen(u)')
  <2>. SUFFICES ASSUME NEW u \in UpVals
                PROVE  (mark'[u] = "gray" => IsOpen(u)') /\ (mark'[u] = "black" => ~IsOpen(u)')
    OBVIOUS
  <2>1. CASE u \notin U
    BY <1>1, <2>1 DEF ColourInv, GrayKinds, Shade, IsOpen, CloseUpvals
  <2>2. CASE u \in U
    <3>. ~IsOpen(u)'
      BY <2>2 DEF IsOpen, CloseUpvals
    <3>. DEFINE V == IF KeepInvariant THEN {UpValue(v) : v \in {w \in U : mark[w] = "gray"}} ELSE {}
    <3>1. V \cap UpVals = {}
      BY DEF UpValue, IsOpen, RefKinds, TypeOK
    <3>2. Marked(V) \cap UpVals = {}
      <4>. HIDE DEF V
      <4>1. Whites(V) \cap UpVals = {}
        BY <3>1 DEF Whites
      <4>2. Whites({UpValue(v) : v \in Whites(V) \cap UpVals}) = {}
        BY <4>1 DEF Whites
      <4>3. ASSUME NEW D \in SUBSET Udatas PROVE Whites({tab[d] : d \in D}) \cap UpVals = {}
        BY DEF Whites, TypeOK
      <4>. QED BY <4>1, <4>2, <4>3 DEF Marked
    <3>3. CloseMark(U)[u] = IF mark[u] = "gray" THEN IF KeepInvariant THEN "black" ELSE "white"
                                                ELSE mark[u]
      BY <2>2, <3>2 DEF CloseMark, Shaded
    <3>. QED BY <3>3
  <2>. QED BY <2>1, <2>2
<1>4. Relisting
  <2>. SUFFICES ASSUME KeepInvariant PROVE Relisting
    BY DEF Relisting
  <2>. DEFINE V == {UpValue(u) : u \in {v \in U : mark[v] = "gray"}}
  <2>1. gray' = gray \cup Grayed(V)
    BY DEF CloseGray
  <2>2. \A o \in Listed : mark'[o] = Shaded(V)[o]
    BY DEF CloseMark, Listed
  <2>3. \A o \in Listed : o \in gray' <=> o \in gray \/ (IsWhite(o) /\ mark'[o] = "gray")
    BY <2>1, <2>2, Shading
  <2>. QED BY <1>1, <2>3 DEF Relisting, IsWhite, SleepingThreads, Black, ColourInv, Marking,
                    KeepInvariant, Shade, Listed
<1>. QED BY <1>2, <1>3, <1>4 DEF Recoloured

-----------------------------------------------------------------------------
(* The actions of the mutator. *)

\* Nothing the mutator can name is an upvalue.
LEMMA NoUpvalues ==
  ASSUME TypeOK, RefKinds
  PROVE  /\ \A th \in Threads : LiveSlots(th) \cap UpVals = {}
         /\ Operands \cap UpVals = {} /\ Loadable \cap UpVals = {}
         /\ \A u \in UpVals : UpValue(u) \notin UpVals
<1>. USE Kinds, Disjoint, RunningThread
<1>1. ASSUME NEW th \in Threads, NEW i \in 1 .. top[th] PROVE <<th, i>> \in Cells
  <2>1. top[th] \in Int /\ top[th] <= StackSize
    BY DEF TypeOK
  <2>. QED BY <2>1 DEF Cells, Slots
<1>2. \A th \in Threads : LiveSlots(th) \cap UpVals = {}
  BY <1>1 DEF LiveSlots, RefKinds
<1>3. Operands \cap UpVals = {}
  BY <1>2 DEF Operands
<1>4. Loadable \cap UpVals = {}
  BY BoundsAssumption DEF Loadable
<1>5. \A u \in UpVals : UpValue(u) \notin UpVals
  BY DEF UpValue, IsOpen, RefKinds, TypeOK
<1>. QED BY <1>2, <1>3, <1>4, <1>5

\* A step keeps the invariant when it recolours and resumes no sleeping thread.
LEMMA MutatorKeepsColours ==
  ASSUME TypeOK, TypeOK', ColourInv, Recoloured, gcstate \notin AtomicLoop,
         UNCHANGED <<gcstate, weak, unswept, chain>>
  PROVE  ColourInv'
<1>1. KeepInvariant => \A th \in sleeping' : ~Active(th)'
  BY DEF Recoloured, ColourInv, SleepingThreads, Marking, KeepInvariant, Active
<1>. QED BY <1>1, RecolouringKeepsColours

\* Allocation keeps the colours right.
LEMMA AllocationColours ==
  ASSUME TypeOK, TypeOK', RefKinds, ColourInv, gcstate \notin AtomicLoop, Allocation
  PROVE  RefKinds' /\ ColourInv'
<1>. USE Kinds, Disjoint, RunningThread
<1>1. ASSUME NEW x \in Obj \ UpVals, Push(x) PROVE \A c \in Cells : stack'[c] \notin UpVals
  BY <1>1 DEF Push, RefKinds, TypeOK
<1>2. ASSUME NEW o \in Obj, mark' = [mark EXCEPT ![o] = "white"], mark[o] \in {"free", "dead"},
             UNCHANGED <<open, chain, gc>>
      PROVE  ColourInv'
  <2>1. Recoloured
    BY <1>2, WhiteningRecolours DEF TypeOK, gc, IsOpen
  <2>. QED BY <1>2, <2>1, MutatorKeepsColours DEF gc
<1>3. ASSUME NEW t \in Tables, NewTable(t) PROVE RefKinds' /\ ColourInv'
  BY <1>1, <1>2, <1>3 DEF NewTable, Allocate, RefKinds
<1>4. ASSUME NEW u \in Udatas, NewUserdata(u) PROVE RefKinds' /\ ColourInv'
  BY <1>1, <1>2, <1>4 DEF NewUserdata, Allocate, RefKinds
<1>5. ASSUME NEW th \in Threads, NewThread(th) PROVE RefKinds' /\ ColourInv'
  <2>1. RefKinds'
    BY <1>1, <1>5 DEF NewThread, Allocate, RefKinds, TypeOK
  <2>. QED BY <1>2, <1>5, <2>1 DEF NewThread, Allocate
<1>6. ASSUME NEW s \in Strings, NewString(s) PROVE RefKinds' /\ ColourInv'
  <2>1. RefKinds'
    BY <1>1, <1>6 DEF NewString, RefKinds
  <2>2. Recoloured
    BY <1>6, WhiteningRecolours DEF NewString, gc, IsOpen, TypeOK
  <2>. QED BY <1>6, <2>1, <2>2, MutatorKeepsColours DEF NewString, gc
<1>7. ASSUME NEW c \in Closures, NEW env, NEW X, NewClosure(c, env, X)
      PROVE  RefKinds' /\ ColourInv'
  <2>1. RefKinds'
    BY <1>1, <1>7 DEF NewClosure, Allocate, RefKinds, TypeOK
  <2>. QED BY <1>2, <1>7, <2>1 DEF NewClosure, Allocate
<1>8. ASSUME NEW c \in Closures, NEW env, NEW u \in UpVals, NEW i \in Slots,
             NewClosureRef(c, env, u, i)
      PROVE  RefKinds' /\ ColourInv'
  <2>1. RefKinds'
    BY <1>1, <1>8 DEF NewClosureRef, RefKinds, TypeOK
  <2>2. \A v \in UpVals : /\ IsOpen(v) => IsOpen(v)'
                          /\ IsOpen(v)' => IsOpen(v) \/ mark[v] \in {"free", "dead"}
    <3>1. <<L, i>> # NoObj
      BY DEF Cells
    <3>2. open' = [open EXCEPT ![u] = <<L, i>>] /\ (open[u] = <<L, i>> \/ mark[u] = "free")
      BY <1>8 DEF NewClosureRef
    <3>3. \A v \in UpVals : v # u => open'[v] = open[v]
      BY <3>2
    <3>4. open'[u] = <<L, i>>
      BY <3>2 DEF TypeOK
    <3>. QED BY <3>1, <3>2, <3>3, <3>4 DEF IsOpen
  <2>3. \A o \in Obj : \/ mark'[o] = mark[o]
                       \/ mark[o] \in {"free", "dead"} /\ mark'[o] = "white"
    BY <1>8 DEF NewClosureRef, TypeOK
  <2>4. Recoloured
    BY <1>8, <2>2, <2>3, WhiteningRecolours DEF NewClosureRef, gc
  <2>. QED BY <1>8, <2>1, <2>4, MutatorKeepsColours DEF NewClosureRef, gc
<1>. QED BY <1>3, <1>4, <1>5, <1>6, <1>7, <1>8 DEF Allocation

\* So do loads, pops and closed slots of the running thread.
LEMMA StackUseColours ==
  ASSUME TypeOK, TypeOK', RefKinds, ColourInv, gcstate \notin AtomicLoop, StackUse
  PROVE  RefKinds' /\ ColourInv'
<1>. USE Kinds, Disjoint, RunningThread
<1>1. ASSUME UNCHANGED <<mark, open, chain, gc>> PROVE ColourInv'
  <2>1. Recoloured
    BY <1>1, WhiteningRecolours DEF gc, IsOpen
  <2>. QED BY <1>1, <2>1, MutatorKeepsColours DEF gc
<1>2. ASSUME NEW i \in Slots, NEW x \in Loadable, Load(i, x) PROVE RefKinds' /\ ColourInv'
  <2>1. RefKinds'
    BY <1>2, NoUpvalues DEF Load, RefKinds, TypeOK
  <2>. QED BY <1>1, <1>2, <2>1 DEF Load
<1>3. CASE RaiseTop \/ Pop
  BY <1>1, <1>3 DEF RaiseTop, Pop, RefKinds
<1>4. ASSUME NEW i \in Slots, Close(i) PROVE RefKinds' /\ ColourInv'
  <2>1. Opened(L, i) \in SUBSET UpVals
    BY DEF Opened
  <2>2. RefKinds'
    BY <1>4, NoUpvalues DEF Close, CloseUpvals, RefKinds
  <2>3. Recoloured
    BY <1>4, <2>1, ClosingRecolours DEF Close
  <2>. QED BY <1>4, <2>2, <2>3, MutatorKeepsColours DEF Close
<1>. QED BY <1>2, <1>3, <1>4 DEF StackUse

\* So does every store, by its barrier.
LEMMA StoreColours ==
  ASSUME TypeOK, TypeOK', RefKinds, ColourInv, gcstate \notin AtomicLoop, Store
  PROVE  RefKinds' /\ ColourInv'
<1>. USE Kinds, Disjoint, RunningThread, NoUpvalues
<1>1. ASSUME NEW o \in Obj, NEW x, NEW X,
             UNCHANGED <<open, chain, gcstate, weak, unswept, sleeping>>,
             \/ o \in Tables /\ (BarrierT(o, X) \/ BarrierFast(o))
             \/ BarrierF(o, x) \/ BarrierUpval(o, x)
      PROVE  ColourInv'
  <2>1. Recoloured
    BY <1>1, BarriersRecolour
  <2>. QED BY <1>1, <2>1, MutatorKeepsColours
<1>2. ASSUME UNCHANGED <<mark, open, chain, gc>> PROVE ColourInv'
  <2>1. Recoloured
    BY <1>2, WhiteningRecolours DEF gc, IsOpen
  <2>. QED BY <1>2, <2>1, MutatorKeepsColours DEF gc
<1>3. ASSUME NEW u \in Captured, NEW x \in Operands, SetUpval(u, x) PROVE RefKinds' /\ ColourInv'
  <2>1. u \in UpVals
    BY DEF Captured
  <2>2. RefKinds'
    BY <1>3, <2>1 DEF SetUpval, RefKinds, TypeOK
  <2>. QED BY <1>1, <1>3, <2>1, <2>2 DEF SetUpval
<1>4. ASSUME NEW c \in Closures, NEW y \in uprefs[c], NEW x \in Operands, SetUpvalue(c, y, x)
      PROVE  RefKinds' /\ ColourInv'
  <2>1. RefKinds'
    BY <1>4 DEF SetUpvalue, RefKinds, TypeOK
  <2>. QED BY <1>1, <1>4, <2>1 DEF SetUpvalue
<1>5. ASSUME NEW t \in Shelves, NEW k \in Keys, NEW x \in Operands, SetTable(t, k, x)
      PROVE  RefKinds' /\ ColourInv'
  BY <1>1, <1>5, BoundsAssumption DEF SetTable, RefKinds
<1>6. ASSUME NEW t \in Shelves, NEW x \in Operands, SetList(t, x) PROVE RefKinds' /\ ColourInv'
  BY <1>1, <1>6, BoundsAssumption DEF SetList, RefKinds
<1>7. ASSUME NEW t \in Shelves, NEW e \in entries[t], ClearEntry(t, e) PROVE RefKinds' /\ ColourInv'
  BY <1>2, <1>7 DEF ClearEntry, RefKinds
<1>8. ASSUME NEW o \in Tables \cup Udatas, NEW mt \in Metatables \cup {NoObj}, SetMetatable(o, mt)
      PROVE  RefKinds' /\ ColourInv'
  <2>1. RefKinds'
    BY <1>8 DEF SetMetatable, RefKinds, TypeOK
  <2>. QED BY <1>1, <1>8, <2>1 DEF SetMetatable
<1>9. ASSUME NEW X \in SUBSET BasicMetatables, SetBasicMetatable(X) PROVE RefKinds' /\ ColourInv'
  BY <1>2, <1>9 DEF SetBasicMetatable, RefKinds
<1>10. ASSUME NEW mt \in Metatables, NEW letters \in Modes, SetMode(mt, letters)
       PROVE  RefKinds' /\ ColourInv'
  BY <1>2, <1>10 DEF SetMode, RefKinds
<1>11. ASSUME NEW o \in Closures \cup Threads, NEW t \in Environments, SetFenv(o, t)
       PROVE  RefKinds' /\ ColourInv'
  <2>1. RefKinds'
    BY <1>11 DEF SetFenv, RefKinds, TypeOK
  <2>. QED BY <1>1, <1>11, <2>1 DEF SetFenv
<1>12. ASSUME NEW t \in Environments, SetGlobals(t) PROVE RefKinds' /\ ColourInv'
  <2>1. RefKinds'
    BY <1>12 DEF SetGlobals, RefKinds, TypeOK
  <2>. QED BY <1>2, <1>12, <2>1 DEF SetGlobals
<1>13. ASSUME NEW c \in Closures, NEW x \in Operands, DupClosure(c, x) PROVE RefKinds' /\ ColourInv'
  <2>1. RefKinds'
    BY <1>13 DEF DupClosure, RefKinds, TypeOK
  <2>. QED BY <1>1, <1>13, <2>1 DEF DupClosure
<1>. QED
  BY <1>3, <1>4, <1>5, <1>6, <1>7, <1>8, <1>9, <1>10, <1>11, <1>12, <1>13 DEF Store

\* So do the steps between coroutines: a thread is woken before it is resumed.
LEMMA CoroutineColours ==
  ASSUME TypeOK, TypeOK', RefKinds, ColourInv, gcstate \notin AtomicLoop, Coroutine
  PROVE  RefKinds' /\ ColourInv'
<1>. USE Kinds, Disjoint, RunningThread, NoUpvalues
<1>1. ASSUME NEW th \in Threads, NEW x \in Operands, XPush(th, x) PROVE RefKinds' /\ ColourInv'
  <2>1. RefKinds'
    BY <1>1 DEF XPush, RefKinds, TypeOK
  <2>2. Recoloured
    BY <1>1, WakingRecolours DEF XPush
  <2>. QED BY <1>1, <2>1, <2>2, MutatorKeepsColours DEF XPush
<1>2. ASSUME NEW th \in Threads, XPop(th) PROVE RefKinds' /\ ColourInv'
  <2>1. stack[<<th, top[th]>>] \notin UpVals
    <3>1. top[th] \in 1 .. StackSize
      BY <1>2 DEF XPop, TypeOK
    <3>. QED BY <3>1 DEF RefKinds, Cells, Slots
  <2>2. RefKinds'
    BY <1>2, <2>1 DEF XPop, RefKinds, TypeOK
  <2>3. Recoloured
    BY <1>2, WhiteningRecolours DEF XPop, gc, IsOpen
  <2>. QED BY <1>2, <2>2, <2>3, MutatorKeepsColours DEF XPop, gc
<1>3. ASSUME NEW th \in Threads, Resume(th) PROVE RefKinds' /\ ColourInv'
  <2>1. RefKinds'
    BY <1>3 DEF Resume, Push, RefKinds, TypeOK
  <2>2. Recoloured
    BY <1>3, WakingRecolours DEF Resume
  <2>3. \A t \in Threads : Active(t)' => t = th \/ Active(t)
    <3>1. chain' = Append(chain, th) /\ chain \in Seq(Threads)
      BY <1>3 DEF Resume, TypeOK
    <3>2. \A i \in 1 .. Len(chain') : IF i \in 1 .. Len(chain) THEN chain'[i] = chain[i]
                                                            ELSE chain'[i] = th
      BY <3>1
    <3>. QED BY <3>2 DEF Active
  <2>4. KeepInvariant => \A t \in sleeping' : ~Active(t)'
    <3>1. sleeping' = sleeping \ {th} /\ sleeping \subseteq Threads
      BY <1>3 DEF Resume, Wake, TypeOK
    <3>. QED BY <2>3, <3>1 DEF ColourInv, SleepingThreads, Marking
  <2>. QED BY <1>3, <2>1, <2>2, <2>4, RecolouringKeepsColours DEF Resume
<1>4. ASSUME NEW th \in Threads, ResetThread(th) PROVE RefKinds' /\ ColourInv'
  <2>1. Opened(th, 1) \in SUBSET UpVals
    BY DEF Opened
  <2>2. RefKinds'
    BY <1>4 DEF ResetThread, CloseUpvals, RefKinds
  <2>3. Recoloured
    BY <1>4, <2>1, ClosingRecolours DEF ResetThread
  <2>. QED BY <1>4, <2>2, <2>3, MutatorKeepsColours DEF ResetThread
<1>5. CASE Yield
  <2>1. RefKinds'
    BY <1>5 DEF Yield, RefKinds
  <2>2. Recoloured
    BY <1>5, WhiteningRecolours DEF Yield, gc, IsOpen
  <2>3. \A t \in Threads : Active(t)' => Active(t)
    <3>1. chain' = SubSeq(chain, 1, Len(chain) - 1) /\ chain \in Seq(Threads) /\ Len(chain) > 1
      BY <1>5 DEF Yield, TypeOK
    <3>2. \A i \in 1 .. Len(chain') : i \in 1 .. Len(chain) /\ chain'[i] = chain[i]
      BY <3>1
    <3>. QED BY <3>2 DEF Active
  <2>4. KeepInvariant => \A t \in sleeping' : ~Active(t)'
    BY <1>5, <2>3 DEF Yield, gc, ColourInv, SleepingThreads, Marking, TypeOK
  <2>. QED BY <1>5, <2>1, <2>2, <2>4, RecolouringKeepsColours DEF Yield, gc
<1>. QED BY <1>1, <1>2, <1>3, <1>4, <1>5 DEF Coroutine

-----------------------------------------------------------------------------
(* The steps of the collector. *)

\* A cycle starts with the roots gray and everything else white.
LEMMA MarkRootColours ==
  ASSUME TypeOK, TypeOK', RefKinds, ColourInv, MarkRoot
  PROVE  RefKinds' /\ ColourInv'
<1>. USE Kinds, Disjoint
<1>. DEFINE roots == {MainThread, tab[MainThread], Registry} \cup basicmt
<1>0. RefKinds'
  BY DEF MarkRoot, heap, RefKinds
<1>1. /\ gcstate = "pause" /\ gcstate' = "propagate" /\ sleeping = {} /\ sleeping' = {}
      /\ \A o \in Obj : mark[o] \in {"free", "white"}
      /\ mark' = Shaded(roots) /\ gray' = Grayed(roots) /\ grayagain' = {} /\ weak' = {}
      /\ UNCHANGED <<open, unswept>>
  BY DEF MarkRoot, ColourInv, SweepFacts, DeadOnlyUnswept, heap
<1>2. /\ \A o \in Obj : \/ mark'[o] = mark[o]
                        \/ IsWhite(o) /\ mark'[o] = Shade(o)
      /\ \A o \in Listed : o \in gray' <=> IsWhite(o) /\ mark'[o] = "gray"
      /\ mark'[MainThread] \notin {"white", "dead"}
  <2>1. MainThread \in roots \cap Obj
    OBVIOUS
  <2>. HIDE DEF roots
  <2>. QED BY <1>1, <2>1, Shading
<1>. HIDE DEF roots
<1>3. GrayKinds'
  BY <1>1, <1>2 DEF GrayKinds, Shade, IsOpen
<1>4. SweepFacts'
  <2>1. \A o \in unswept' : mark'[o] # "free"
    BY <1>1, <1>2 DEF SweepFacts, ColourInv, Shade, TypeOK
  <2>. QED BY <1>1, <2>1 DEF SweepFacts
<1>5. MainFacts'
  BY <1>1, <1>2 DEF MainFacts, ColourInv, NonWhite, IsWhite, Shade
<1>6. DeadOnlyUnswept'
  BY <1>1, <1>2 DEF DeadOnlyUnswept, Shade
<1>7. GrayLists'
  <2>1. gray' \subseteq Listed
    BY DEF TypeOK
  <2>. QED BY <1>1, <1>2, <2>1 DEF GrayLists
<1>8. SleepingThreads'
  BY <1>1, <1>2 DEF SleepingThreads, Black, Shade
<1>. QED BY <1>0, <1>3, <1>4, <1>5, <1>6, <1>7, <1>8 DEF ColourInv

\* The colours after the traversal of o.
LEMMA TraversalColours ==
  ASSUME TypeOK, ColourInv, NEW o \in gray, PropagateMark(o), Marking
  PROVE  /\ mark[o] = "gray" /\ o \in Listed /\ o \notin grayagain /\ o \notin weak
         /\ mark'[o] = IF Requeued(o) \/ StaysWeak(o) THEN "gray" ELSE "black"
         /\ \A x \in Obj \ {o} : \/ mark'[x] = mark[x]
                                 \/ IsWhite(x) /\ mark'[x] = Shade(x)
         /\ \A x \in Listed \ {o} :
               x \in Grayed(Scanned(o)) <=> IsWhite(x) /\ mark'[x] = "gray"
         /\ o \notin Grayed(Scanned(o))
         /\ \A x \in (Scanned(o) \cap Obj) \ {o} : mark'[x] \notin {"white", "dead"}
<1>. USE Kinds, Disjoint
<1>. DEFINE X == Scanned(o)
<1>1. mark[o] = "gray" /\ o \in Listed /\ o \notin grayagain /\ o \notin weak
  BY DEF ColourInv, GrayLists, TypeOK
<1>2. Shaded(X) \in [Obj -> Colours]
  BY MarkingTypes
<1>3. mark' = [Shaded(X) EXCEPT ![o] = IF Requeued(o) \/ StaysWeak(o) THEN "gray" ELSE "black"]
  BY DEF PropagateMark
<1>4. /\ mark'[o] = IF Requeued(o) \/ StaysWeak(o) THEN "gray" ELSE "black"
      /\ \A x \in Obj \ {o} : mark'[x] = Shaded(X)[x]
  BY <1>1, <1>2, <1>3
<1>. HIDE DEF X
<1>5. /\ \A x \in Obj : Shaded(X)[x] = mark[x] \/ (IsWhite(x) /\ Shaded(X)[x] = Shade(x))
      /\ \A x \in Listed : x \in Grayed(X) <=> IsWhite(x) /\ Shaded(X)[x] = "gray"
      /\ \A x \in X \cap Obj : Shaded(X)[x] \notin {"white", "dead"}
  BY Shading
<1>. USE DEF X
<1>. QED BY <1>1, <1>4, <1>5 DEF IsWhite

\* A traversal moves one object from the gray list to where its colour belongs.
LEMMA PropagateColours ==
  ASSUME TypeOK, TypeOK', RefKinds, ColourInv, NEW o \in gray, Propagate(o) \/ AtomicPropagate(o)
  PROVE  RefKinds' /\ ColourInv'
<1>. USE Kinds, Disjoint
<1>0. PropagateMark(o) /\ UNCHANGED <<tab, value, open, unswept, chain>>
  BY DEF Propagate, AtomicPropagate, PropagateMark
<1>1. /\ Marking /\ Marking' /\ gcstate' \notin {"pause", "sweep"} /\ gcstate \notin {"pause", "sweep"}
  BY DEF Propagate, AtomicPropagate, Marking, KeepInvariant, AtomicLoop
<1>2. /\ mark[o] = "gray" /\ o \in Listed /\ o \notin grayagain /\ o \notin weak
      /\ mark'[o] = IF Requeued(o) \/ StaysWeak(o) THEN "gray" ELSE "black"
      /\ \A x \in Obj \ {o} : mark'[x] = mark[x] \/ (IsWhite(x) /\ mark'[x] = Shade(x))
      /\ \A x \in Listed \ {o} : x \in Grayed(Scanned(o)) <=> IsWhite(x) /\ mark'[x] = "gray"
      /\ o \notin Grayed(Scanned(o))
  BY <1>0, <1>1, TraversalColours
<1>3. RefKinds'
  BY <1>0 DEF PropagateMark, RefKinds
<1>4. GrayKinds'
  BY <1>0, <1>2 DEF GrayKinds, Shade, IsOpen, ColourInv, Listed
<1>5. SweepFacts' /\ DeadOnlyUnswept'
  <2>1. \A x \in unswept' : mark'[x] # "free"
    BY <1>0, <1>2, ZenonT(60) DEF SweepFacts, ColourInv, Shade, TypeOK
  <2>. QED BY <1>1, <1>2, <2>1 DEF SweepFacts, DeadOnlyUnswept, ColourInv, Shade
<1>6. sleeping' = IF FallsAsleep(o) THEN sleeping \cup {o} ELSE sleeping
  BY <1>0 DEF PropagateMark
<1>7. MainFacts'
  BY <1>0, <1>1, <1>2, <1>6 DEF MainFacts, ColourInv, NonWhite, IsWhite, Shade, FallsAsleep
<1>8. SleepingThreads'
  <2>1. \A th \in Threads : Active(th)' <=> Active(th)
    BY <1>0 DEF Active
  <2>2. \A th \in Threads : Black(th)' <=> th \in sleeping'
    BY <1>1, <1>2, <1>6 DEF SleepingThreads, ColourInv, Black, Shade, Requeued, StaysWeak,
                            FallsAsleep, Listed, IsWhite
  <2>3. \A th \in sleeping' : ~Active(th)
    BY <1>1, <1>6 DEF SleepingThreads, ColourInv, FallsAsleep
  <2>4. sleeping' \subseteq Threads
    BY DEF TypeOK
  <2>. QED BY <2>1, <2>2, <2>3, <2>4 DEF SleepingThreads
<1>9. GrayLists'
  <2>1. /\ gray' \cup grayagain' = GrayAfter(o) \cup AgainAfter(o)
        /\ \/ gray' = {} \/ grayagain' = {}
           \/ gray' = GrayAfter(o) /\ grayagain' = AgainAfter(o)
    BY DEF Propagate, AtomicPropagate
  <2>2. weak' = IF StaysWeak(o) THEN weak \cup {o} ELSE weak
    BY <1>0 DEF PropagateMark
  <2>3. ASSUME NEW x \in Listed
        PROVE  /\ x \in GrayAfter(o) \cup AgainAfter(o) \cup weak' <=> mark'[x] = "gray"
               /\ ~(x \in GrayAfter(o) /\ x \in AgainAfter(o))
               /\ ~(x \in GrayAfter(o) /\ x \in weak') /\ ~(x \in AgainAfter(o) /\ x \in weak')
    <3>1. /\ x \in gray \cup grayagain \cup weak <=> mark[x] = "gray"
          /\ ~(x \in gray /\ x \in grayagain)
          /\ ~(x \in gray /\ x \in weak) /\ ~(x \in grayagain /\ x \in weak)
      BY <1>1 DEF ColourInv, GrayLists
    <3>2. CASE x = o
      BY <1>2, <2>2, <3>2 DEF GrayAfter, AgainAfter, Requeued, StaysWeak
    <3>3. CASE x # o
      BY <1>2, <2>2, <3>1, <3>3 DEF GrayAfter, AgainAfter, IsWhite
    <3>. QED BY <3>2, <3>3
  <2>4. gray' \subseteq Listed /\ grayagain' \subseteq Listed /\ weak' \subseteq Listed
    BY DEF TypeOK, Listed
  <2>5. GrayAfter(o) \subseteq Listed /\ AgainAfter(o) \subseteq Listed
    BY <1>2, MarkingTypes, SMTT(30) DEF GrayAfter, AgainAfter, TypeOK
  <2>. QED BY <2>1, <2>3, <2>4, <2>5 DEF GrayLists
<1>. QED BY <1>3, <1>4, <1>5, <1>7, <1>8, <1>9 DEF ColourInv

\* The loops of the atomic step move whole lists to the gray list.
LEMMA AtomicColours ==
  ASSUME TypeOK, TypeOK', RefKinds, ColourInv,
         AtomicUpvals \/ AtomicWeak \/ AtomicAgain
  PROVE  RefKinds' /\ ColourInv'
<1>. USE Kinds, Disjoint
<1>1. /\ Marking /\ Marking' /\ {gcstate, gcstate'} \cap {"pause", "sweep"} = {}
      /\ UNCHANGED <<tab, stack, value, open, unswept, sleeping, chain>>
  BY DEF AtomicUpvals, AtomicWeak, AtomicAgain, heap, Marking, KeepInvariant, AtomicLoop
<1>2. \E X : /\ mark' = Shaded(X)
             /\ \/ gray' = gray \cup Grayed(X) /\ UNCHANGED <<grayagain, weak>>
                \/ gray = {} /\ gray' = weak \cup Grayed(X) /\ weak' = {} /\ UNCHANGED grayagain
                \/ gray = {} /\ gray' = grayagain \cup Grayed(X) /\ grayagain' = {} /\ UNCHANGED weak
  <2>1. CASE AtomicUpvals
    BY <2>1 DEF AtomicUpvals, MarkObjects
  <2>2. CASE AtomicWeak
    BY <2>2 DEF AtomicWeak
  <2>3. CASE AtomicAgain
    <3>1. mark' = Shaded({}) /\ Grayed({}) = {}
      <4>1. Marked({}) = {}
        BY DEF Marked, Whites
      <4>. QED BY <2>3, <4>1, ShadingNothing DEF AtomicAgain, Grayed
    <3>2. gray = {} /\ gray' = grayagain \cup Grayed({}) /\ grayagain' = {} /\ UNCHANGED weak
      BY <2>3, <3>1 DEF AtomicAgain
    <3>. QED BY <3>1, <3>2
  <2>. QED BY <2>1, <2>2, <2>3
<1>3. /\ \A o \in Obj : mark'[o] = mark[o] \/ (IsWhite(o) /\ mark'[o] = Shade(o))
      /\ \A o \in Listed : o \in gray' \cup grayagain' \cup weak'
                           <=> o \in gray \cup grayagain \cup weak \/ (IsWhite(o) /\ mark'[o] = "gray")
      /\ \A o \in Listed : IsWhite(o) /\ o \in grayagain' \cup weak' => o \in grayagain \cup weak
      /\ gray' \cap (grayagain' \cup weak') = {} /\ grayagain' \cap weak' = {}
  <2>1. PICK X : /\ mark' = Shaded(X)
             /\ \/ gray' = gray \cup Grayed(X) /\ UNCHANGED <<grayagain, weak>>
                \/ gray = {} /\ gray' = weak \cup Grayed(X) /\ weak' = {} /\ UNCHANGED grayagain
                \/ gray = {} /\ gray' = grayagain \cup Grayed(X) /\ grayagain' = {} /\ UNCHANGED weak
    BY <1>2
  <2>2. /\ \A o \in Obj : mark'[o] = mark[o] \/ (IsWhite(o) /\ mark'[o] = Shade(o))
        /\ \A o \in Listed : o \in Grayed(X) <=> IsWhite(o) /\ mark'[o] = "gray"
    BY <2>1, Shading
  <2>3. /\ \A o \in gray \cup grayagain \cup weak : ~IsWhite(o)
        /\ gray \cap grayagain = {} /\ gray \cap weak = {} /\ grayagain \cap weak = {}
    BY <1>1 DEF ColourInv, GrayLists, IsWhite
  <2>4. Grayed(X) \subseteq Listed
    BY MarkingTypes
  <2>. QED BY <2>1, <2>2, <2>3, <2>4
<1>4. RefKinds'
  BY <1>1 DEF RefKinds
<1>5. GrayKinds'
  BY <1>1, <1>3 DEF GrayKinds, Shade, IsOpen, ColourInv
<1>6. SweepFacts' /\ DeadOnlyUnswept'
  <2>1. \A o \in unswept' : mark'[o] # "free"
    BY <1>1, <1>3 DEF SweepFacts, ColourInv, Shade, TypeOK
  <2>. QED BY <1>1, <1>3, <2>1 DEF SweepFacts, DeadOnlyUnswept, ColourInv, Shade
<1>7. MainFacts'
  BY <1>1, <1>3 DEF MainFacts, ColourInv, NonWhite, IsWhite, Shade
<1>8. SleepingThreads'
  BY <1>1, <1>3 DEF SleepingThreads, ColourInv, Black, Shade, Active, IsWhite
<1>9. GrayLists'
  <2>1. gray' \subseteq Listed /\ grayagain' \subseteq Listed /\ weak' \subseteq Listed
    BY DEF TypeOK, Listed
  <2>2. ASSUME NEW o \in Listed
        PROVE  o \in gray' \cup grayagain' \cup weak' <=> mark'[o] = "gray"
    <3>1. o \in gray \cup grayagain \cup weak <=> mark[o] = "gray"
      BY <1>1 DEF ColourInv, GrayLists
    <3>. QED BY <1>3, <3>1 DEF Shade, Listed, IsWhite
  <2>. QED BY <1>3, <2>1, <2>2 DEF GrayLists
<1>. QED BY <1>4, <1>5, <1>6, <1>7, <1>8, <1>9 DEF ColourInv

\* The flip leaves only dead objects and marked ones, all of them to be swept.
LEMMA FlipColours ==
  ASSUME TypeOK, TypeOK', RefKinds, ColourInv, AtomicFlip
  PROVE  RefKinds' /\ ColourInv'
<1>. USE Kinds, Disjoint
<1>. DEFINE kept == Strings \cap UNION {LookedAt(t) : t \in weak}
<1>1. /\ Marking /\ gcstate' = "sweep"
      /\ unswept' = {o \in Obj : mark[o] # "free"} \ {MainThread}
      /\ UNCHANGED <<tab, stack, value, open, sleeping, chain>>
  BY DEF AtomicFlip, Marking, AtomicLoop
<1>2. \A o \in Obj : mark'[o] = IF IsWhite(o) /\ o \in kept THEN "gray"
                                ELSE IF mark[o] = "white" THEN "dead"
                                ELSE IF mark[o] = "dead" THEN "white"
                                ELSE mark[o]
  BY DEF AtomicFlip
<1>3. kept \subseteq Strings
  OBVIOUS
<1>. HIDE DEF kept
<1>4. \A o \in Obj : mark[o] # "dead"
  BY <1>1 DEF ColourInv, DeadOnlyUnswept, Marking, KeepInvariant, AtomicLoop
<1>5. RefKinds'
  BY <1>1 DEF RefKinds
<1>6. GrayKinds'
  BY <1>1, <1>2, <1>3 DEF GrayKinds, IsOpen, ColourInv
<1>7. DeadOnlyUnswept'
  BY <1>1, <1>2, <1>4 DEF DeadOnlyUnswept, ColourInv, MainFacts, NonWhite, IsWhite
<1>8. SweepFacts'
  <2>1. \A o \in Obj : mark'[o] \in {"gray", "black"} => o \in unswept' \cup {MainThread}
    BY <1>1, <1>2, <1>4 DEF IsWhite
  <2>2. sleeping \subseteq unswept'
    BY <1>1 DEF ColourInv, SleepingThreads, MainFacts, Black, TypeOK
  <2>3. \A o \in unswept' : mark'[o] # "free"
    BY <1>1, <1>2
  <2>. QED BY <1>1, <2>1, <2>2, <2>3 DEF SweepFacts
<1>9. MainFacts'
  BY <1>1, <1>2 DEF MainFacts, ColourInv, Marking, KeepInvariant, AtomicLoop
<1>10. SleepingThreads' /\ GrayLists'
  BY <1>1 DEF SleepingThreads, GrayLists, Marking, KeepInvariant, AtomicLoop
<1>. QED BY <1>5, <1>6, <1>7, <1>8, <1>9, <1>10 DEF ColourInv

\* A full collection drops the gray lists and sweeps every mark away.
LEMMA FullGCColours ==
  ASSUME TypeOK, TypeOK', RefKinds, ColourInv, FullGC
  PROVE  RefKinds' /\ ColourInv'
<1>. USE Kinds, Disjoint
<1>1. /\ UNCHANGED <<mark, tab, stack, value, open, chain, sleeping>> /\ gcstate' = "sweep"
      /\ \/ gcstate = "sweep" /\ UNCHANGED unswept
         \/ gcstate # "sweep" /\ unswept' = {o \in Obj : mark[o] # "free"} \ {MainThread}
  BY DEF FullGC, heap
<1>2. RefKinds' /\ GrayKinds' /\ MainFacts'
  BY <1>1 DEF RefKinds, GrayKinds, MainFacts, ColourInv, IsOpen, Marking, KeepInvariant, AtomicLoop
<1>3. DeadOnlyUnswept'
  BY <1>1 DEF ColourInv, DeadOnlyUnswept
<1>4. SweepFacts'
  <2>1. CASE gcstate = "sweep"
    BY <1>1, <2>1 DEF SweepFacts, ColourInv
  <2>2. CASE gcstate # "sweep"
    <3>1. \A o \in Obj : mark'[o] \in {"gray", "black"} => o \in unswept' \cup {MainThread}
      BY <1>1, <2>2
    <3>2. CASE gcstate = "pause"
      BY <1>1, <3>1, <3>2 DEF SweepFacts, ColourInv
    <3>3. CASE gcstate # "pause"
      <4>1. \A th \in sleeping : mark[th] = "black" /\ th # MainThread /\ th \in Obj
        BY <2>2, <3>3, States DEF ColourInv, SleepingThreads, Black, MainFacts, TypeOK
      <4>. QED BY <1>1, <2>2, <3>1, <4>1 DEF SweepFacts
    <3>. QED BY <3>2, <3>3
  <2>. QED BY <2>1, <2>2
<1>5. SleepingThreads' /\ GrayLists'
  BY <1>1 DEF SleepingThreads, GrayLists, Marking, KeepInvariant, AtomicLoop
<1>. QED BY <1>2, <1>3, <1>4, <1>5 DEF ColourInv

\* A swept object is white or free.
LEMMA SweepColours ==
  ASSUME TypeOK, TypeOK', RefKinds, ColourInv, NEW o \in unswept, Sweep(o)
  PROVE  RefKinds' /\ ColourInv'
<1>. USE Kinds, Disjoint
<1>. DEFINE U == IF IsDead(o) /\ o \in Threads THEN Opened(o, 1)
                ELSE IF IsDead(o) /\ o \in UpVals THEN {o} ELSE {}
            swept == [CloseMark(U) EXCEPT ![o] = IF IsDead(o) THEN "free" ELSE "white"]
            last == unswept = {o}
<1>1. /\ gcstate = "sweep" /\ o \in Obj /\ o # MainThread /\ ~KeepInvariant
      /\ mark' = IF last THEN [swept EXCEPT ![MainThread] = "white"] ELSE swept
      /\ CloseUpvals(U)
      /\ unswept' = unswept \ {o} /\ UNCHANGED chain
      /\ sleeping' = sleeping \ (IF last THEN {o, MainThread} ELSE {o})
      /\ (last <=> unswept' = {})
      /\ gcstate' = IF last THEN "pause" ELSE "sweep"
  BY DEF Sweep, TypeOK, ColourInv, MainFacts, KeepInvariant
<1>2. U \in SUBSET UpVals
  BY DEF Opened
<1>. HIDE DEF U
<1>3. RefKinds'
  <2>1. \A c \in Cells : stack'[c] \notin UpVals
    BY DEF Sweep, RefKinds
  <2>2. \A x \in Strings \cup UpVals : tab'[x] = NoObj
    BY <1>1 DEF Sweep, RefKinds, TypeOK
  <2>3. \A u \in UpVals : value'[u] \notin UpVals
    BY <1>1, NoUpvalues DEF CloseUpvals, RefKinds
  <2>. QED BY <2>1, <2>2, <2>3 DEF RefKinds
<1>4. /\ CloseMark(U) \in [Obj -> Colours]
      /\ \A x \in Obj : \/ x \in U /\ mark[x] = "gray" /\ CloseMark(U)[x] = "white"
                        \/ ~(x \in U /\ mark[x] = "gray") /\ CloseMark(U)[x] = mark[x]
  BY <1>1, <1>2, Closing, ClosingTypes DEF AtomicLoop
<1>5. /\ mark'[o] = IF IsDead(o) THEN "free" ELSE "white"
      /\ mark'[MainThread] = "white" \/ (~last /\ mark'[MainThread] = mark[MainThread])
      /\ \A x \in Obj \ {o, MainThread} :
           \/ x \in U /\ mark[x] = "gray" /\ mark'[x] = "white"
           \/ ~(x \in U /\ mark[x] = "gray") /\ mark'[x] = mark[x]
  <2>1. swept \in [Obj -> Colours]
    BY <1>1, <1>4 DEF Colours
  <2>2. MainThread \in Obj /\ MainThread \notin U
    BY <1>2
  <2>3. /\ swept[o] = IF IsDead(o) THEN "free" ELSE "white"
        /\ \A x \in Obj \ {o} : swept[x] = CloseMark(U)[x]
    BY <1>1, <1>4
  <2>. HIDE DEF swept
  <2>4. /\ mark'[o] = swept[o] /\ (last => mark'[MainThread] = "white")
        /\ ~last => mark'[MainThread] = swept[MainThread]
        /\ \A x \in Obj \ {o, MainThread} : mark'[x] = swept[x]
    BY <1>1, <2>1, <2>2
  <2>. QED BY <1>1, <1>4, <2>2, <2>3, <2>4
<1>. HIDE DEF swept, last
<1>6. GrayKinds'
  <2>1. \A d \in Udatas : mark'[d] # "gray"
    BY <1>1, <1>5 DEF GrayKinds, ColourInv
  <2>2. ASSUME NEW u \in UpVals, mark'[u] = "gray" PROVE IsOpen(u)'
    <3>1. u # o /\ mark[u] = "gray" /\ u \notin U
      BY <1>1, <1>5, <2>2
    <3>. QED BY <1>1, <3>1 DEF CloseUpvals, IsOpen, GrayKinds, ColourInv
  <2>3. ASSUME NEW u \in UpVals, mark'[u] = "black" PROVE ~IsOpen(u)'
    <3>1. u # o /\ mark[u] = "black"
      BY <1>1, <1>5, <2>3
    <3>. QED BY <1>1, <3>1 DEF CloseUpvals, IsOpen, GrayKinds, ColourInv
  <2>. QED BY <2>1, <2>2, <2>3 DEF GrayKinds
<1>7. DeadOnlyUnswept'
  <2>1. ASSUME NEW x \in Obj, mark'[x] = "dead" PROVE gcstate' = "sweep" /\ x \in unswept'
    <3>1. mark[x] = "dead" /\ x # o
      <4>1. mark[MainThread] # "dead"
        BY <1>1 DEF DeadOnlyUnswept, ColourInv, MainFacts
      <4>. QED BY <1>1, <1>5, <2>1, <4>1
    <3>2. x \in unswept'
      BY <1>1, <3>1 DEF DeadOnlyUnswept, ColourInv
    <3>. QED BY <1>1, <3>2
  <2>2. ASSUME gcstate' = "pause", NEW x \in Obj PROVE mark'[x] \in {"free", "white"}
    <3>1. last
      BY <1>1, <2>2
    <3>2. CASE x \in {o, MainThread}
      BY <1>5, <3>1, <3>2
    <3>3. CASE x \notin {o, MainThread}
      BY <1>1, <1>5, <3>1, <3>3, SMTT(30) DEF DeadOnlyUnswept, SweepFacts, ColourInv, TypeOK, Colours
    <3>. QED BY <3>2, <3>3
  <2>. QED BY <2>1, <2>2 DEF DeadOnlyUnswept
<1>8. SweepFacts'
  <2>1. \A x \in Obj : mark'[x] \in {"gray", "black"} => x \in unswept' \cup {MainThread}
    BY <1>1, <1>5 DEF SweepFacts, ColourInv
  <2>2. sleeping' \subseteq unswept'
    BY <1>1 DEF SweepFacts, ColourInv
  <2>3. \A x \in unswept' : mark'[x] # "free"
    BY <1>1, <1>5 DEF SweepFacts, ColourInv, TypeOK
  <2>. QED BY <1>1, <2>1, <2>2, <2>3 DEF SweepFacts
<1>9. MainFacts'
  BY <1>1, <1>5 DEF MainFacts, ColourInv, Marking, KeepInvariant, AtomicLoop
<1>10. SleepingThreads' /\ GrayLists'
  BY <1>1 DEF SleepingThreads, GrayLists, Marking, KeepInvariant, AtomicLoop
<1>. QED BY <1>3, <1>6, <1>7, <1>8, <1>9, <1>10 DEF ColourInv

-----------------------------------------------------------------------------
(* The theorems. *)

\* The first state of the runtime has white objects only.
LEMMA InitColours == Init => RefKinds /\ ColourInv
<1>. SUFFICES ASSUME Init PROVE RefKinds /\ ColourInv OBVIOUS
<1>. USE Kinds, Disjoint DEF Init
<1>1. RefKinds
  BY DEF RefKinds
<1>2. GrayKinds /\ SweepFacts /\ DeadOnlyUnswept
  BY DEF GrayKinds, SweepFacts, DeadOnlyUnswept
<1>3. ~Marking
  BY DEF Marking, KeepInvariant, AtomicLoop
<1>4. MainFacts /\ GrayLists /\ SleepingThreads
  BY <1>3 DEF MainFacts, GrayLists, SleepingThreads
<1>. QED BY <1>1, <1>2, <1>4 DEF ColourInv

\* Every step preserves the invariant of the colours.
LEMMA NextColours ==
  ASSUME TypeOK, TypeOK', RefKinds, ColourInv, [Next]_vars
  PROVE  RefKinds' /\ ColourInv'
<1>1. CASE Collect
  <2>1. ASSUME NEW o \in gray, Propagate(o) \/ AtomicPropagate(o) PROVE RefKinds' /\ ColourInv'
    BY <2>1, PropagateColours
  <2>2. ASSUME NEW o \in unswept, Sweep(o) PROVE RefKinds' /\ ColourInv'
    BY <2>2, SweepColours
  <2>. QED BY <1>1, <2>1, <2>2, MarkRootColours, AtomicColours, FlipColours DEF Collect
<1>2. CASE FullGC
  BY <1>2, FullGCColours
<1>3. CASE Mutate
  BY <1>3, AllocationColours, StackUseColours, StoreColours, CoroutineColours DEF Mutate
<1>4. CASE UNCHANGED vars
  <2>. USE <1>4 DEF vars, heap, gc
  <2>1. RefKinds' /\ GrayKinds' /\ SweepFacts' /\ DeadOnlyUnswept'
    BY DEF RefKinds, GrayKinds, SweepFacts, DeadOnlyUnswept, ColourInv, IsOpen
  <2>2. MainFacts' /\ GrayLists' /\ SleepingThreads'
    BY DEF MainFacts, GrayLists, SleepingThreads, ColourInv, Marking, KeepInvariant,
           NonWhite, IsWhite, Black, Active
  <2>. QED BY <2>1, <2>2 DEF ColourInv
<1>. QED BY <1>1, <1>2, <1>3, <1>4 DEF Next

\* The colours, the lists and the sleeping threads agree with each other in
\* every phase.
THEOREM ColoursHold == Spec => [](RefKinds /\ ColourInv)
<1>1. RefKinds /\ ColourInv /\ TypeOK /\ TypeOK' /\ [Next]_vars => (RefKinds /\ ColourInv)'
  BY NextColours
<1>. QED BY <1>1, InitColours, TypeCorrect, PTL DEF Spec

\* Dead objects exist only during a sweep and ahead of it; a cycle leaves every
\* object white, whatever the program and luaC_fullgc do in between.
THEOREM DeadAreUnswept == Spec => []DeadOnlyUnswept
<1>1. RefKinds /\ ColourInv => DeadOnlyUnswept
  BY DEF ColourInv
<1>. QED BY <1>1, ColoursHold, PTL

\* While marking, the three lists are disjoint and hold exactly the gray objects
\* that have a gclist: no barrier puts an object on two lists or on none.
THEOREM GrayAreListed == Spec => []GrayLists
<1>1. RefKinds /\ ColourInv => GrayLists
  BY DEF ColourInv
<1>. QED BY <1>1, ColoursHold, PTL

\* While marking, the black threads are the sleeping ones, and none of them is
\* being resumed.
THEOREM SleepersAreBlack == Spec => []SleepingThreads
<1>1. RefKinds /\ ColourInv => SleepingThreads
  BY DEF ColourInv
<1>. QED BY <1>1, ColoursHold, PTL

-----------------------------------------------------------------------------
(* The collector never frees what the program can still reach: the       *)
(* inductive invariant behind the safety properties of LuauGC.           *)

\* o refers to x, weakly or strongly, stale slots of a stack included.
Points(o, x) ==
  \/ x = tab[o]
  \/ o \in Tables /\ \E e \in entries[o] : x = e[1] \/ x = e[2]
  \/ o \in Closures /\ x \in uprefs[o]
  \/ o \in Threads /\ \E i \in Slots : x = stack[<<o, i>>]
  \/ o \in UpVals /\ x = UpValue(o)

\* The three invariants of the heap in terms of Points.
HeapClosed  == \A o, x \in Obj : Live(o) /\ Points(o, x) => Live(x)
BlackClosed == Marking => \A o, x \in Obj : Black(o) /\ Points(o, x) => ~IsWhite(x)
FreeEmpty   == /\ \A o, x \in Obj : mark[o] = "free" => ~Points(o, x)
               /\ \A th \in Threads : mark[th] = "free" => top[th] = 0

\* Every open upvalue belongs to a captured slot of a thread.
OpenLinks ==
  \A u \in UpVals : IsOpen(u) =>
    /\ Allocated(u) /\ Allocated(open[u][1]) /\ open[u][2] <= top[open[u][1]]
    /\ \A v \in UpVals : open[v] = open[u] => v = u

\* What a mark phase has marked from its beginning, and what each loop of the
\* atomic step adds.
AtomicFacts ==
  /\ Marking => ~IsWhite(Registry)
  /\ gcstate \in AtomicLoop =>
       \A u \in UpVals : mark[u] = "gray" => NonWhite(UpValue(u))
  /\ gcstate \in {"remarkweak", "remarkagain"} =>
       /\ ~IsWhite(L) /\ \A t \in basicmt : ~IsWhite(t)
       /\ \A t \in weak : \A x \in Scanned(t) : NonWhite(x)
  /\ gcstate = "remarkagain" =>
       \A o \in grayagain : o \in Threads /\ \A x \in Obj : Points(o, x) => ~IsWhite(x)

References == HeapClosed /\ LiveRoots /\ BlackClosed /\ FreeEmpty /\ AtomicFacts

HeapInv == References /\ OpenLinks /\ ChainAnchored

-----------------------------------------------------------------------------
(* What the mutator can reach in one step is live. *)

\* The slots of a stack are cells.
LEMMA StackCells ==
  ASSUME TypeOK, NEW th \in Threads, NEW i \in 1 .. top[th]
  PROVE  i \in Slots /\ <<th, i>> \in Cells
<1>1. top[th] \in Int /\ top[th] <= StackSize
  BY DEF TypeOK
<1>. QED BY <1>1, Kinds DEF Cells, Slots

\* A thread refers to its live slots.
LEMMA LiveSlotsPoint ==
  ASSUME TypeOK, NEW th \in Threads, NEW x \in LiveSlots(th)
  PROVE  Points(th, x)
  BY StackCells DEF LiveSlots, Points

\* The running thread is one of the resumed threads.
LEMMA RunningIsActive ==
  ASSUME TypeOK
  PROVE  /\ Active(L) /\ L \in Threads /\ Len(chain) \in 1 .. Len(chain)
         /\ \A i \in 1 .. Len(chain) : chain[i] \in Threads /\ Active(chain[i])
  BY DEF TypeOK, Active, L

\* Every resumed thread is live, and none is black while marking.
LEMMA ActiveThreads ==
  ASSUME TypeOK, ColourInv, LiveRoots, NEW th \in Threads, Active(th)
  PROVE  Live(th) /\ (Marking => ~Black(th))
  BY DEF LiveRoots, Active, ColourInv, SleepingThreads, Black

\* What the running thread can load, store or capture is live, and the thread
\* itself is not black.
LEMMA Accessible ==
  ASSUME TypeOK, RefKinds, ColourInv, HeapClosed, LiveRoots, NEW x \in Obj
  PROVE  /\ Live(L) /\ (Marking => ~Black(L))
         /\ x \in LiveSlots(L) \cup Held \cup Captured \cup Loadable \cup Operands \cup Envs
            => Live(x)
         /\ x \in LiveSlots(L) => \A y \in Obj : Points(x, y) => Live(y)
<1>. USE Kinds, Disjoint, RunningIsActive
<1>1. Live(L) /\ (Marking => ~Black(L))
  BY ActiveThreads
<1>2. \A o, y \in Obj : Live(o) /\ Points(o, y) => Live(y)
  BY DEF HeapClosed
<1>3. \A y \in Obj : y \in LiveSlots(L) => Live(y)
  BY <1>1, <1>2, LiveSlotsPoint
<1>4. \A y \in Obj : y \in Held => Live(y)
  <2>1. Live(Registry) /\ Points(L, tab[L])
    BY DEF LiveRoots, Points
  <2>. QED BY <1>1, <1>2, <1>3, <2>1 DEF Held
<1>5. \A u \in UpVals : u \in Captured => Live(u)
  BY <1>2, <1>3 DEF Captured, Points
<1>6. ASSUME x \in Loadable PROVE Live(x)
  <2>1. ASSUME NEW o \in Held \cap Obj, x \in Contents(o) PROVE Live(x)
    <3>4. Points(o, x)
      <4>1. CASE o \in Threads /\ x \in LiveSlots(o)
        BY <4>1, LiveSlotsPoint
      <4>2. CASE o \in Tables /\ x \in UNION {{e[1], e[2]} : e \in entries[o]}
        BY <4>2 DEF Points
      <4>3. CASE ~(o \in Threads /\ x \in LiveSlots(o))
                 /\ ~(o \in Tables /\ x \in UNION {{e[1], e[2]} : e \in entries[o]})
        BY <2>1, <4>3 DEF Contents, Points
      <4>. QED BY <4>1, <4>2, <4>3
    <3>. QED BY <1>2, <1>4, <3>4
  <2>2. ASSUME NEW u \in Captured, x = UpValue(u) PROVE Live(x)
    BY <1>2, <1>5, <2>2 DEF Points, Captured
  <2>3. CASE x \in Held \cup basicmt
    BY <1>4, <2>3 DEF LiveRoots
  <2>4. \/ x \in Held \cup basicmt
        \/ \E o \in Held \cap Obj : x \in Contents(o)
        \/ \E u \in Captured : x = UpValue(u)
    <3>1. x \in Held \cup basicmt \cup (UNION {Contents(o) : o \in Held \cap Obj})
               \cup {UpValue(u) : u \in Captured} \cup {NoObj}
      BY <1>6 DEF Loadable
    <3>2. x # NoObj
      BY Disjoint
    <3>. QED BY <3>1, <3>2
  <2>. QED BY <2>1, <2>2, <2>3, <2>4
<1>7. ASSUME x \in Envs PROVE Live(x)
  BY <1>1, <1>2, <1>3, <1>7 DEF Envs, Points
<1>8. Captured \subseteq UpVals /\ Operands \subseteq LiveSlots(L) \cup {NoObj}
  BY DEF Captured, Operands
<1>. QED BY <1>1, <1>2, <1>3, <1>4, <1>5, <1>6, <1>7, <1>8

\* An object that is marked at once, without being traversed, has its reference
\* marked with it.
LEMMA ShadingRefs ==
  ASSUME TypeOK, RefKinds, NEW X, NEW o \in Obj \ Listed, NEW x \in Obj,
         Shaded(X)[o] # mark[o], Points(o, x)
  PROVE  Shaded(X)[x] \notin {"white", "dead"}
<1>. USE Kinds, Disjoint
<1>. DEFINE m0 == Whites(X)
            m1 == Whites({UpValue(u) : u \in m0 \cap UpVals})
            m2 == Whites({tab[d] : d \in (m0 \cup m1) \cap Udatas})
<1>0. Marked(X) = m0 \cup m1 \cup m2
  BY DEF Marked
<1>1. o \in m0 \cup m1 \cup m2
  BY <1>0 DEF Shaded
<1>2. /\ m0 \subseteq X \cap Obj
      /\ m1 \subseteq Obj /\ m1 \cap UpVals = {}
      /\ m2 \subseteq Tables
  BY NoUpvalues DEF Whites, TypeOK
<1>3. o \in (m0 \cap UpVals) \cup ((m0 \cup m1) \cap Udatas) \cup Strings
  BY <1>1, <1>2 DEF Obj, Listed
<1>4. o \notin Strings
  BY <1>3 DEF Points, RefKinds, Listed
<1>5. x \in m0 \cup m1 \cup m2 \/ ~IsWhite(x)
  <2>1. CASE o \in m0 \cap UpVals
    <3>1. x = UpValue(o)
      BY <2>1 DEF Points, RefKinds
    <3>. QED BY <2>1, <3>1 DEF Whites
  <2>2. CASE o \in (m0 \cup m1) \cap Udatas
    <3>1. x = tab[o]
      BY <2>2 DEF Points
    <3>. QED BY <2>2, <3>1 DEF Whites
  <2>. QED BY <1>3, <1>4, <2>1, <2>2
<1>. QED BY <1>0, <1>5 DEF Shaded, Shade, IsWhite

-----------------------------------------------------------------------------
(* What a step of the mutator does to the heap. *)

\* Every new reference of a live object is to a live one, and every new
\* reference of a black object, or reference of a new black one, to one that is
\* not white.
NewEdges ==
  /\ \A o, x \in Obj : Live(o)' /\ Points(o, x)' => (Live(o) /\ Points(o, x)) \/ Live(x)'
  /\ KeepInvariant =>
       \A o, x \in Obj : Black(o)' /\ Points(o, x)' => (Black(o) /\ Points(o, x)) \/ ~IsWhite(x)'
  /\ \A o, x \in Obj : mark'[o] = "free" => ~Points(o, x)'
  /\ \A th \in Threads : mark'[th] = "free" => top'[th] = 0

NewRoots == /\ \A t \in basicmt' : Live(t)'
            /\ \A i \in 1 .. Len(chain') : Live(chain[i])'

\* Recolouring frees nothing and keeps what is marked.
LEMMA RecolouringKeepsLive ==
  ASSUME TypeOK, TypeOK', Recoloured, NEW o \in Obj
  PROVE  /\ Live(o) => Live(o)'
         /\ KeepInvariant /\ Live(o) /\ ~IsWhite(o) => ~IsWhite(o)'
         /\ mark'[o] = "free" => mark[o] = "free"
         /\ Live(o) \/ mark[o] \in {"free", "dead"}
<1>1. mark[o] \in Colours /\ mark'[o] \in Colours /\ Recolouring(o)
  BY DEF TypeOK, Recoloured
<1>. QED BY <1>1 DEF Recolouring, Live, IsWhite, Colours

\* A step of the mutator whose new references are harmless keeps the references
\* of the heap right.
LEMMA MutatorKeepsHeap ==
  ASSUME TypeOK, TypeOK', ColourInv, HeapInv, Recoloured, gcstate \notin AtomicLoop,
         UNCHANGED gcstate, NewEdges, NewRoots
  PROVE  References'
<1>. USE Kinds
<1>1. KeepInvariant' = KeepInvariant /\ Marking' = Marking /\ Marking = KeepInvariant
  BY States DEF KeepInvariant, Marking
<1>2. HeapClosed'
  BY RecolouringKeepsLive DEF HeapClosed, HeapInv, References, NewEdges
<1>3. LiveRoots'
  <2>1. Live(MainThread)' /\ Live(Registry)'
    BY RecolouringKeepsLive DEF LiveRoots, HeapInv, References
  <2>. QED BY <2>1 DEF LiveRoots, NewRoots
<1>4. BlackClosed'
  <2>. SUFFICES ASSUME KeepInvariant, NEW o \in Obj, NEW x \in Obj, Black(o)', Points(o, x)'
                PROVE  ~IsWhite(x)'
    BY <1>1 DEF BlackClosed
  <2>1. CASE Black(o) /\ Points(o, x)
    <3>1. Live(x) /\ ~IsWhite(x)
      BY <1>1, <2>1 DEF HeapInv, References, HeapClosed, BlackClosed, Live, Black
    <3>. QED BY <3>1, RecolouringKeepsLive
  <2>. QED BY <2>1 DEF NewEdges
<1>5. FreeEmpty'
  BY DEF FreeEmpty, NewEdges
<1>6. AtomicFacts'
  <2>1. Marking' => ~IsWhite(Registry)'
    BY <1>1, RecolouringKeepsLive DEF HeapInv, References, AtomicFacts, LiveRoots
  <2>. QED BY <2>1 DEF AtomicFacts, AtomicLoop
<1>. QED BY <1>2, <1>3, <1>4, <1>5, <1>6 DEF References

\* Marking makes nothing live, and blackens only objects whose references it
\* marks with them.
NewBlack ==
  /\ \A y \in Obj : Live(y)' => Live(y)
  /\ KeepInvariant => \A y \in Obj : Black(y)' /\ ~Black(y) =>
       y \notin Listed /\ \A x \in Obj : Points(y, x) => ~IsWhite(x)'

\* markobject outside a traversal blackens nothing that could refer to a white
\* object.
LEMMA MarkingEdges ==
  ASSUME TypeOK, RefKinds, ColourInv, NEW X, MarkObjects(X), KeepInvariant
  PROVE  NewBlack /\ \A x \in X \cap Obj : ~IsWhite(x)'
<1>. USE Kinds
<1>1. mark' = Shaded(X)
  BY DEF MarkObjects
<1>2. /\ \A y \in Obj : \/ mark'[y] = mark[y]
                        \/ IsWhite(y) /\ mark'[y] = Shade(y)
      /\ \A x \in X \cap Obj : ~IsWhite(x)'
  BY <1>1, Shading DEF IsWhite
<1>3. \A y \in Obj : mark[y] # "dead"
  BY DEF ColourInv, DeadOnlyUnswept, KeepInvariant
<1>4. \A y \in Obj : Live(y)' => Live(y)
  BY <1>2, <1>3 DEF Live, IsWhite
<1>5. ASSUME NEW y \in Obj, Black(y)', ~Black(y)
      PROVE  y \notin Listed /\ \A x \in Obj : Points(y, x) => ~IsWhite(x)'
  <2>1. mark'[y] # mark[y] /\ Shade(y) = "black"
    BY <1>2, <1>5 DEF Black
  <2>2. y \notin Listed
    BY <2>1, Disjoint DEF Shade, Listed
  <2>. QED BY <1>1, <2>1, <2>2, ShadingRefs DEF IsWhite
<1>. QED BY <1>2, <1>4, <1>5 DEF NewBlack

\* What each barrier promises to the store that calls it.
LEMMA NoMarkEdges == ASSUME UNCHANGED mark PROVE NewBlack
  BY DEF NewBlack, Live, Black

\* Handing an object back to the collector blackens nothing.
LEMMA UnblackEdges ==
  ASSUME TypeOK, NEW o \in Obj, mark[o] = "black", NEW c \in {"gray", "white"},
         mark' = [mark EXCEPT ![o] = c]
  PROVE  NewBlack /\ ~Black(o)'
<1>1. mark'[o] \in {"gray", "white"} /\ \A y \in Obj \ {o} : mark'[y] = mark[y]
  BY DEF TypeOK
<1>. QED BY <1>1 DEF NewBlack, Live, Black

\* luaC_barriert: the table goes back to the collector, or what it got is marked.
LEMMA BarrierTEdges ==
  ASSUME TypeOK, RefKinds, ColourInv, NEW t \in Tables, NEW X, BarrierT(t, X)
  PROVE  /\ NewBlack
         /\ Black(t)' => \A x \in X \cap Obj : ~IsWhite(x)'
<1>. USE Kinds
<1>1. CASE mark[t] = "black" /\ Whites(X) # {}
  <2>1. CASE gcstate = "propagateagain"
    BY <1>1, <2>1, MarkingEdges DEF BarrierT, KeepInvariant
  <2>2. CASE gcstate # "propagateagain"
    BY <1>1, <2>2, UnblackEdges DEF BarrierT
  <2>. QED BY <2>1, <2>2
<1>2. CASE ~(mark[t] = "black" /\ Whites(X) # {})
  <2>1. UNCHANGED mark
    BY <1>2 DEF BarrierT
  <2>2. Black(t)' => \A x \in X \cap Obj : ~IsWhite(x)'
    BY <1>2, <2>1 DEF Black, Whites, IsWhite
  <2>. QED BY <2>1, <2>2, NoMarkEdges
<1>. QED BY <1>1, <1>2

\* luaC_barrierfast: the table goes back to the collector.
LEMMA BarrierFastEdges ==
  ASSUME TypeOK, NEW t \in Tables, BarrierFast(t)
  PROVE  NewBlack /\ ~Black(t)'
<1>. USE Kinds
<1>1. CASE mark[t] = "black"
  BY <1>1, UnblackEdges DEF BarrierFast
<1>2. CASE mark[t] # "black"
  BY <1>2, NoMarkEdges DEF BarrierFast, Black
<1>. QED BY <1>1, <1>2

\* luaC_barrierf marks the stored object while marking and whitens the owner
\* otherwise.
LEMMA BarrierFEdges ==
  ASSUME TypeOK, RefKinds, ColourInv, NEW o \in Obj, NEW x, BarrierF(o, x)
  PROVE  /\ NewBlack
         /\ Black(o)' => Black(o) /\ (x \in Obj => ~IsWhite(x)')
<1>1. CASE mark[o] = "black" /\ Whites({x}) # {}
  <2>1. CASE KeepInvariant
    BY <1>1, <2>1, MarkingEdges DEF BarrierF, Black
  <2>2. CASE ~KeepInvariant
    BY <1>1, <2>2, UnblackEdges DEF BarrierF
  <2>. QED BY <2>1, <2>2
<1>2. CASE ~(mark[o] = "black" /\ Whites({x}) # {})
  <2>1. UNCHANGED mark
    BY <1>2 DEF BarrierF
  <2>2. Black(o)' => Black(o) /\ (x \in Obj => ~IsWhite(x)')
    BY <1>2, <2>1 DEF Black, Whites, IsWhite
  <2>. QED BY <2>1, <2>2, NoMarkEdges
<1>. QED BY <1>1, <1>2

\* luaC_upvalbarrier marks the stored object whatever the colour of the upvalue.
LEMMA BarrierUpvalEdges ==
  ASSUME TypeOK, RefKinds, ColourInv, NEW o \in Obj, NEW x, BarrierUpval(o, x)
  PROVE  /\ NewBlack
         /\ KeepInvariant /\ x \in Obj => ~IsWhite(x)'
<1>1. CASE KeepInvariant /\ Whites({x}) # {}
  BY <1>1, MarkingEdges DEF BarrierUpval
<1>2. CASE ~(KeepInvariant /\ Whites({x}) # {})
  <2>1. BarrierF(o, x)
    BY <1>2 DEF BarrierUpval
  <2>2. KeepInvariant => UNCHANGED mark
    BY <1>2, <2>1 DEF BarrierF
  <2>3. KeepInvariant /\ x \in Obj => ~IsWhite(x)'
    BY <1>2, <2>2 DEF Whites, IsWhite
  <2>. QED BY <2>1, <2>3, BarrierFEdges
<1>. QED BY <1>1, <1>2

-----------------------------------------------------------------------------
(* Allocation and the use of the stack. *)

\* No field of o changes, the stacks apart.
SameFields(o) ==
  /\ tab'[o] = tab[o]
  /\ o \in Tables => entries'[o] = entries[o]
  /\ o \in Closures => uprefs'[o] = uprefs[o]
  /\ o \in UpVals => open'[o] = open[o] /\ value'[o] = value[o]

\* A store of y into a stack cell gives a reference to y to its thread, and to
\* the upvalues that capture the cell.
LEMMA StackEdges ==
  ASSUME TypeOK, TypeOK', NEW cell \in Cells, NEW y, stack' = [stack EXCEPT ![cell] = y],
         NEW o \in Obj, NEW x \in Obj, SameFields(o), Points(o, x)'
  PROVE  \/ Points(o, x)
         \/ x = y /\ (o = cell[1] \/ (o \in UpVals /\ IsOpen(o)'))
<1>1. \A c \in Cells : stack'[c] = IF c = cell THEN y ELSE stack[c]
  BY DEF TypeOK
<1>2. CASE o \in Threads /\ \E i \in Slots : x = stack'[<<o, i>>]
  <2>1. PICK i \in Slots : x = stack'[<<o, i>>]
    BY <1>2
  <2>2. <<o, i>> \in Cells
    BY <1>2 DEF Cells
  <2>. QED BY <1>1, <1>2, <2>1, <2>2 DEF Points
<1>3. CASE o \in UpVals /\ x = UpValue(o)'
  <2>1. open'[o] = open[o] /\ value'[o] = value[o] /\ open[o] \in Cells \cup {NoObj}
    BY <1>3 DEF SameFields, TypeOK
  <2>. QED BY <1>1, <1>3, <2>1 DEF UpValue, IsOpen, Points
<1>4. CASE ~(o \in Threads /\ \E i \in Slots : x = stack'[<<o, i>>]) /\ ~(o \in UpVals /\ x = UpValue(o)')
  BY <1>4 DEF Points, SameFields
<1>. QED BY <1>2, <1>3, <1>4

\* A store to a stack by a step that otherwise only allocates or marks.
LEMMA StackStoreKeeps ==
  ASSUME TypeOK, TypeOK', ColourInv, ColourInv', HeapInv, Recoloured,
         gcstate \notin AtomicLoop, UNCHANGED gcstate,
         NEW cell \in Cells, NEW y, stack' = [stack EXCEPT ![cell] = y],
         y \in Obj => Live(y)',
         KeepInvariant /\ y \in Obj => ~Black(cell[1])' \/ ~IsWhite(y)',
         mark'[cell[1]] # "free",
         \A o \in Obj : Live(o) \/ mark'[o] = "free" => SameFields(o),
         \A o \in Obj : Live(o)' /\ ~Live(o) => \A x \in Obj : Points(o, x)' => Live(x)',
         KeepInvariant => \A o \in Obj : Black(o)' /\ ~Black(o) =>
             SameFields(o) /\ o \notin Listed /\ \A x \in Obj : Points(o, x) => ~IsWhite(x)',
         \A th \in Threads : mark'[th] = "free" => top'[th] = top[th],
         NewRoots
  PROVE  References'
<1>. USE Kinds, Disjoint
<1>0. cell[1] \in Threads
  BY DEF Cells
<1>1. ASSUME NEW o \in Obj, NEW x \in Obj, Live(o)', Points(o, x)'
      PROVE  (Live(o) /\ Points(o, x)) \/ Live(x)'
  <2>1. CASE Live(o)
    <3>1. SameFields(o)
      BY <2>1
    <3>2. Points(o, x) \/ x = y
      BY <1>1, <3>1, StackEdges
    <3>. QED BY <2>1, <3>2
  <2>. QED BY <1>1, <2>1
<1>2. ASSUME KeepInvariant, NEW o \in Obj, NEW x \in Obj, Black(o)', Points(o, x)'
      PROVE  (Black(o) /\ Points(o, x)) \/ ~IsWhite(x)'
  <2>1. SameFields(o)
    BY <1>2 DEF Black, Live
  <2>2. o \in UpVals => ~IsOpen(o)'
    BY <1>2 DEF ColourInv, GrayKinds, Black
  <2>3. Points(o, x) \/ (x = y /\ o = cell[1])
    BY <1>2, <2>1, <2>2, StackEdges
  <2>4. CASE Black(o)
    BY <1>2, <2>3, <2>4
  <2>5. CASE ~Black(o)
    <3>1. o # cell[1]
      BY <1>0, <1>2, <2>5 DEF Listed
    <3>. QED BY <1>2, <2>3, <2>5, <3>1
  <2>. QED BY <2>4, <2>5
<1>3. ASSUME NEW o \in Obj, NEW x \in Obj, mark'[o] = "free" PROVE ~Points(o, x)'
  <2>1. mark[o] = "free"
    BY <1>3, RecolouringKeepsLive
  <2>2. ~Points(o, x) /\ (o \in UpVals => ~IsOpen(o))
    BY <2>1 DEF HeapInv, References, FreeEmpty, OpenLinks, Allocated
  <2>3. SameFields(o) /\ (o \in UpVals => ~IsOpen(o)')
    BY <1>3, <2>2 DEF SameFields, IsOpen
  <2>. QED BY <1>3, <2>2, <2>3, StackEdges
<1>4. \A th \in Threads : mark'[th] = "free" => top'[th] = 0
  BY RecolouringKeepsLive DEF HeapInv, References, FreeEmpty
<1>5. NewEdges
  BY <1>1, <1>2, <1>3, <1>4 DEF NewEdges
<1>. QED BY <1>5, MutatorKeepsHeap

\* A push of a new object n, or of one that is found again.
LEMMA PushKeeps ==
  ASSUME TypeOK, TypeOK', RefKinds, ColourInv, ColourInv', HeapInv, Recoloured,
         gcstate \notin AtomicLoop, UNCHANGED <<gcstate, chain, basicmt>>,
         NEW n \in Obj, Push(n), Live(n)',
         \A o \in Obj : mark'[o] = mark[o] \/ mark'[o] = "white",
         \A o \in Obj : Live(o) \/ mark'[o] = "free" => SameFields(o),
         \A o \in Obj : Live(o)' /\ ~Live(o) => \A x \in Obj : Points(o, x)' => Live(x)'
  PROVE  References'
<1>. USE Kinds
<1>1. PICK l \in Threads : l = L
  BY RunningIsActive
<1>2. PICK cell \in Cells : cell = <<l, top[l] + 1>>
  <2>1. top[l] \in Int /\ top[l] >= 0 /\ top[l] < StackSize
    BY <1>1 DEF HeapInv, ChainAnchored, Push, TypeOK
  <2>2. top[l] + 1 \in Slots
    BY <2>1 DEF Slots
  <2>. QED BY <2>2 DEF Cells
<1>3. Live(l) /\ (Marking => ~Black(l))
  BY <1>1, ActiveThreads, RunningIsActive DEF HeapInv, References
<1>4. mark'[l] # "free" /\ (KeepInvariant => ~Black(l)')
  BY <1>3, States DEF Live, Black
<1>5. stack' = [stack EXCEPT ![cell] = n] /\ top' = [top EXCEPT ![l] = @ + 1]
  BY <1>1, <1>2 DEF Push
<1>6. \A th \in Threads : mark'[th] = "free" => top'[th] = top[th]
  BY <1>4, <1>5 DEF TypeOK
<1>7. NewRoots
  <2>1. basicmt \subseteq Obj /\ \A i \in 1 .. Len(chain) : chain[i] \in Obj
    BY RunningIsActive DEF TypeOK
  <2>. QED BY <2>1, RecolouringKeepsLive DEF NewRoots, HeapInv, References, LiveRoots
<1>8. \A o \in Obj : Black(o)' => Black(o)
  BY DEF Black
<1>9. cell[1] = l
  BY <1>2
<1>. QED BY <1>4, <1>5, <1>6, <1>7, <1>8, <1>9, StackStoreKeeps

\* The slots that anchor the resumed threads, but for the running one.
LEMMA Anchors ==
  ASSUME TypeOK, ChainAnchored, NEW i \in 1 .. Len(chain) - 1
  PROVE  /\ chain[i] \in Threads /\ Active(chain[i]) /\ chain[i] # L
         /\ top[chain[i]] \in Slots /\ <<chain[i], top[chain[i]]>> \in Cells
<1>. USE Kinds
<1>1. i \in 1 .. Len(chain) /\ Len(chain) \in 1 .. Len(chain) /\ i # Len(chain)
  BY DEF TypeOK
<1>2. chain[i] \in Threads /\ Active(chain[i]) /\ chain[i] # L
  BY <1>1, RunningIsActive DEF ChainAnchored, L
<1>3. top[chain[i]] \in Int /\ top[chain[i]] > 0 /\ top[chain[i]] <= StackSize
  BY <1>2 DEF ChainAnchored, TypeOK
<1>4. top[chain[i]] \in Slots
  BY <1>3 DEF Slots
<1>. QED BY <1>2, <1>4 DEF Cells

\* Upvalues keep their slots when open, mark and top do not take them away.
LEMMA OpenLinksKept ==
  ASSUME TypeOK, TypeOK', OpenLinks, Recoloured,
         \A u \in UpVals : open'[u] = open[u] \/ open'[u] = NoObj,
         \A u \in UpVals : open'[u] # NoObj => open[u][2] <= top'[open[u][1]]
  PROVE  OpenLinks'
<1>. USE Kinds
<1>1. \A o \in Obj : mark[o] # "free" => mark'[o] # "free"
  BY RecolouringKeepsLive
<1>. SUFFICES ASSUME NEW u \in UpVals, open'[u] # NoObj
              PROVE  /\ Allocated(u)' /\ mark'[open'[u][1]] # "free"
                     /\ open'[u][2] <= top'[open'[u][1]]
                     /\ \A v \in UpVals : open'[v] = open'[u] => v = u
  BY DEF OpenLinks, IsOpen, Allocated
<1>2. open'[u] = open[u] /\ open[u] \in Cells /\ open[u][1] \in Obj
  BY DEF TypeOK, Cells
<1>3. /\ Allocated(u) /\ Allocated(open[u][1])
      /\ \A v \in UpVals : open[v] = open[u] => v = u
  BY <1>2 DEF OpenLinks, IsOpen
<1>. QED BY <1>1, <1>2, <1>3 DEF Allocated

\* Resumed threads stay anchored when their last slots stay.
LEMMA ChainKept ==
  ASSUME TypeOK, ChainAnchored, UNCHANGED chain,
         \A th \in Threads : top'[th] >= 0,
         \A i \in 1 .. Len(chain) - 1 :
           /\ top'[chain[i]] = top[chain[i]]
           /\ stack'[<<chain[i], top[chain[i]]>>] = stack[<<chain[i], top[chain[i]]>>],
         NEW l, l = L, \A u \in UpVals : \/ open'[u] = open[u] \/ open'[u] = NoObj
                                         \/ \E j \in Slots : open'[u] = <<l, j>>
  PROVE  ChainAnchored'
<1>1. chain[1] = MainThread /\ \A i, j \in 1 .. Len(chain) : chain[i] = chain[j] => i = j
  BY DEF ChainAnchored
<1>2. ASSUME NEW i \in 1 .. Len(chain) - 1
      PROVE  /\ top'[chain[i]] > 0
             /\ stack'[<<chain[i], top'[chain[i]]>>] = chain[i + 1]
             /\ \A u \in UpVals : open'[u] # <<chain[i], top'[chain[i]]>>
  <2>1. /\ top[chain[i]] > 0 /\ stack[<<chain[i], top[chain[i]]>>] = chain[i + 1]
        /\ \A u \in UpVals : open[u] # <<chain[i], top[chain[i]]>>
    <3>1. NotCaptured(chain[i], top[chain[i]])
      BY DEF ChainAnchored
    <3>2. top[chain[i]] > 0 /\ stack[<<chain[i], top[chain[i]]>>] = chain[i + 1]
      BY DEF ChainAnchored
    <3>. QED BY <3>1, <3>2 DEF NotCaptured
  <2>2. chain[i] # l /\ <<chain[i], top[chain[i]]>> # NoObj
    <3>1. chain[i] # L /\ <<chain[i], top[chain[i]]>> \in Cells
      BY Anchors
    <3>. QED BY <3>1, Disjoint
  <2>3. /\ top'[chain[i]] = top[chain[i]]
        /\ stack'[<<chain[i], top[chain[i]]>>] = chain[i + 1]
    BY <2>1
  <2>4. ASSUME NEW u \in UpVals PROVE open'[u] # <<chain[i], top[chain[i]]>>
    BY <2>1, <2>2
  <2>. QED BY <2>1, <2>3, <2>4
<1>. QED BY <1>1, <1>2 DEF ChainAnchored, NotCaptured

\* A push and the capture of a slot of L keep the links.
LEMMA PushLinks ==
  ASSUME TypeOK, TypeOK', HeapInv, Recoloured, NEW n, Push(n), UNCHANGED <<open, chain>>
  PROVE  OpenLinks' /\ ChainAnchored'
<1>. USE Kinds
<1>1. PICK l \in Threads : l = L
  BY RunningIsActive
<1>2. /\ stack' = [stack EXCEPT ![<<l, top[l] + 1>>] = n]
      /\ top' = [top EXCEPT ![l] = top[l] + 1] /\ top \in [Threads -> Int]
  BY <1>1 DEF Push, TypeOK
<1>3. \A th \in Threads : top[th] >= 0 /\ top'[th] >= top[th]
  BY <1>2 DEF HeapInv, ChainAnchored
<1>4. OpenLinks'
  <2>1. ASSUME NEW u \in UpVals, open'[u] # NoObj PROVE open[u][2] <= top'[open[u][1]]
    <3>1. open[u] \in Cells /\ open[u][1] \in Threads /\ open[u][2] \in Int
      BY <2>1 DEF TypeOK, Cells, Slots
    <3>2. open[u][2] <= top[open[u][1]]
      BY <2>1 DEF HeapInv, OpenLinks, IsOpen
    <3>3. top[open[u][1]] \in Int /\ top'[open[u][1]] \in Int
      BY <3>1 DEF TypeOK
    <3>. QED BY <1>3, <3>1, <3>2, <3>3
  <2>. QED BY <2>1, OpenLinksKept DEF HeapInv
<1>5. ChainAnchored'
  <2>1. ASSUME NEW i \in 1 .. Len(chain) - 1
        PROVE  /\ top'[chain[i]] = top[chain[i]]
               /\ stack'[<<chain[i], top[chain[i]]>>] = stack[<<chain[i], top[chain[i]]>>]
    <3>1. chain[i] \in Threads /\ chain[i] # l /\ <<chain[i], top[chain[i]]>> \in Cells
      BY <1>1, Anchors DEF HeapInv
    <3>. QED BY <1>2, <3>1 DEF TypeOK
  <2>2. \A th \in Threads : top'[th] >= 0
    BY <1>3 DEF TypeOK
  <2>. QED BY <1>1, <2>1, <2>2, ChainKept DEF HeapInv
<1>. QED BY <1>4, <1>5

\* A new object of whatever kind refers to nothing but live objects.
LEMMA NewObjectKeeps ==
  ASSUME TypeOK, TypeOK', RefKinds, ColourInv, ColourInv', HeapInv,
         gcstate \notin AtomicLoop, UNCHANGED <<open, value, chain, basicmt, gc>>,
         NEW n \in Obj, Push(n), mark[n] = "free", mark' = [mark EXCEPT ![n] = "white"],
         \A o \in Obj \ {n} : SameFields(o),
         \A x \in Obj : \/ x = tab'[n] /\ tab'[n] # tab[n]
                        \/ n \in Closures /\ x \in uprefs'[n]
                        => Live(x),
         n \in Tables => entries'[n] = entries[n]
  PROVE  HeapInv'
<1>. USE Kinds, Disjoint
<1>1. PICK l \in Threads : l = L
  BY RunningIsActive
<1>2. Live(l)
  BY <1>1, ActiveThreads, RunningIsActive DEF HeapInv, References
<1>3. mark'[n] = "white" /\ (\A o \in Obj \ {n} : mark'[o] = mark[o]) /\ n # l
  BY <1>2 DEF TypeOK, Live
<1>4. Recoloured
  BY <1>3, WhiteningRecolours DEF gc, IsOpen
<1>5. \A x \in Obj : ~Points(n, x)
  BY DEF HeapInv, References, FreeEmpty
<1>6. ASSUME NEW x \in Obj, Points(n, x)' PROVE Live(x)'
  <2>1. CASE n \in Threads /\ \E i \in Slots : x = stack'[<<n, i>>]
    <3>1. PICK i \in Slots : x = stack'[<<n, i>>]
      BY <2>1
    <3>2. <<n, i>> \in Cells /\ stack' = [stack EXCEPT ![<<l, top[l] + 1>>] = n]
      BY <1>1, <2>1 DEF Cells, Push
    <3>3. x = stack[<<n, i>>]
      BY <1>3, <3>1, <3>2 DEF TypeOK
    <3>. QED BY <1>5, <2>1, <3>3 DEF Points
  <2>2. CASE n \in UpVals /\ x = UpValue(n)'
    <3>1. ~IsOpen(n)
      BY <2>2 DEF HeapInv, OpenLinks, Allocated
    <3>2. x = UpValue(n)
      BY <2>2, <3>1 DEF UpValue, IsOpen
    <3>. QED BY <1>5, <2>2, <3>2 DEF Points
  <2>3. CASE n \in Tables /\ \E e \in entries'[n] : x = e[1] \/ x = e[2]
    BY <1>5, <2>3 DEF Points
  <2>4. CASE x = tab'[n] \/ (n \in Closures /\ x \in uprefs'[n])
    <3>1. x = tab[n] \/ Live(x)
      BY <2>4
    <3>2. x # tab[n]
      BY <1>5 DEF Points
    <3>. QED BY <1>4, <3>1, <3>2, RecolouringKeepsLive
  <2>. QED BY <1>6, <2>1, <2>2, <2>3, <2>4 DEF Points
<1>7. \A o \in Obj : Live(o)' /\ ~Live(o) => \A x \in Obj : Points(o, x)' => Live(x)'
  BY <1>3, <1>6 DEF Live
<1>8. \A o \in Obj : Live(o) \/ mark'[o] = "free" => SameFields(o)
  BY <1>3 DEF Live
<1>9. \A o \in Obj : mark'[o] = mark[o] \/ mark'[o] = "white"
  BY <1>3
<1>10. References'
  BY <1>3, <1>4, <1>7, <1>8, <1>9, PushKeeps DEF gc, Live
<1>11. OpenLinks' /\ ChainAnchored'
  BY <1>4, PushLinks
<1>. QED BY <1>10, <1>11 DEF HeapInv

\* A new or resurrected string keeps the heap right.
LEMMA NewStringKeeps ==
  ASSUME TypeOK, TypeOK', RefKinds, RefKinds', ColourInv, ColourInv', HeapInv,
         gcstate \notin AtomicLoop, NEW s \in Strings, NewString(s)
  PROVE  HeapInv'
<1>. USE Kinds, Disjoint
<1>1. /\ mark' = IF mark[s] \in {"free", "dead"} THEN [mark EXCEPT ![s] = "white"] ELSE mark
      /\ Push(s) /\ UNCHANGED <<tab, entries, mode, uprefs, open, value, chain, basicmt, gc>>
  BY DEF NewString
<1>2. /\ Live(s)'
      /\ \A o \in Obj \ {s} : mark'[o] = mark[o]
      /\ mark'[s] = mark[s] \/ (mark[s] \in {"free", "dead"} /\ mark'[s] = "white")
  BY <1>1 DEF TypeOK, Live, Colours
<1>3. Recoloured
  BY <1>1, <1>2, WhiteningRecolours DEF gc, IsOpen
<1>4. \A x \in Obj : ~Points(s, x)'
  BY DEF Points, RefKinds
<1>5. \A o \in Obj : SameFields(o)
  BY <1>1 DEF SameFields
<1>6. \A o \in Obj : Live(o)' /\ ~Live(o) => \A x \in Obj : Points(o, x)' => Live(x)'
  BY <1>2, <1>4 DEF Live
<1>7. References'
  BY <1>1, <1>2, <1>3, <1>5, <1>6, PushKeeps DEF gc
<1>8. OpenLinks' /\ ChainAnchored'
  BY <1>1, <1>3, PushLinks
<1>. QED BY <1>7, <1>8 DEF HeapInv

\* The new closure is stored above the captured slot, so that the upvalue keeps
\* its value; a dead upvalue that is found again refers to a live object.
LEMMA NewClosureRefKeeps ==
  ASSUME TypeOK, TypeOK', RefKinds, ColourInv, ColourInv', HeapInv,
         gcstate \notin AtomicLoop, NEW c \in Closures, NEW env \in Envs,
         NEW u \in UpVals, NEW i \in Slots, NewClosureRef(c, env, u, i)
  PROVE  HeapInv'
<1>. USE Kinds, Disjoint
<1>1. PICK l \in Threads : l = L
  BY RunningIsActive
<1>2. /\ i <= top[l] /\ mark[c] = "free"
      /\ open[u] = <<l, i>> \/ (mark[u] = "free" /\ \A v \in UpVals : open[v] # <<l, i>>)
      /\ tab' = [tab EXCEPT ![c] = env] /\ uprefs' = [uprefs EXCEPT ![c] = {u}]
      /\ open' = [open EXCEPT ![u] = <<l, i>>]
      /\ stack' = [stack EXCEPT ![<<l, top[l] + 1>>] = c]
      /\ top' = [top EXCEPT ![l] = top[l] + 1]
      /\ Push(c)
      /\ UNCHANGED <<entries, mode, value, chain, basicmt, gc>>
  BY <1>1 DEF NewClosureRef, NotCaptured, Push
<1>3. /\ mark'[c] = "white" /\ (\A o \in Obj \ {c, u} : mark'[o] = mark[o])
      /\ mark'[u] = mark[u] \/ (mark[u] \in {"free", "dead"} /\ mark'[u] = "white")
      /\ mark'[u] \notin {"free", "dead"} /\ c # u
  BY DEF NewClosureRef, TypeOK
<1>4. Live(l)
  BY <1>1, ActiveThreads, RunningIsActive DEF HeapInv, References
<1>5. /\ <<l, i>> \in Cells /\ <<l, i>> # NoObj
      /\ open'[u] = <<l, i>> /\ \A v \in UpVals \ {u} : open'[v] = open[v]
  <2>1. <<l, i>> \in Cells /\ <<l, i>> # NoObj
    BY DEF Cells
  <2>. QED BY <1>2, <2>1 DEF TypeOK
<1>6. Recoloured
  <2>1. \A v \in UpVals : /\ IsOpen(v) => IsOpen(v)'
                          /\ IsOpen(v)' => IsOpen(v) \/ mark[v] \in {"free", "dead"}
    BY <1>2, <1>5 DEF IsOpen
  <2>. QED BY <1>2, <1>3, <2>1, WhiteningRecolours DEF gc
<1>7. ASSUME NEW x \in Obj, Points(c, x)' PROVE Live(x)'
  <2>1. \A y \in Obj : ~Points(c, y)
    BY <1>2 DEF HeapInv, References, FreeEmpty
  <2>2. x = env \/ x = u
    BY <1>2, <1>7, <2>1 DEF Points, TypeOK
  <2>3. x = env => Live(x)
    BY Accessible DEF HeapInv, References
  <2>4. x = u => Live(x)'
    BY <1>3 DEF Live, TypeOK, Colours
  <2>. QED BY <1>6, <2>2, <2>3, <2>4, RecolouringKeepsLive
<1>8. ASSUME NEW x \in Obj, Points(u, x)' PROVE Live(x)'
  <2>1. x = stack'[<<l, i>>]
    <3>1. UpValue(u)' = stack'[<<l, i>>]
      BY <1>5 DEF UpValue, IsOpen
    <3>2. tab'[u] = tab[u] /\ tab[u] = NoObj
      BY <1>2, <1>3 DEF TypeOK, RefKinds
    <3>. QED BY <1>8, <3>1, <3>2 DEF Points
  <2>2. x = stack[<<l, i>>]
    <3>1. top[l] \in Int /\ i \in Int
      BY DEF TypeOK, Slots
    <3>2. <<l, i>> # <<l, top[l] + 1>>
      BY <1>2, <3>1
    <3>. QED BY <1>2, <1>5, <2>1, <3>2 DEF TypeOK
  <2>3. Live(x)
    BY <1>4, <2>2 DEF HeapInv, References, HeapClosed, Points
  <2>. QED BY <1>6, <2>3, RecolouringKeepsLive
<1>9. \A o \in Obj : Live(o)' /\ ~Live(o) => \A x \in Obj : Points(o, x)' => Live(x)'
  BY <1>3, <1>7, <1>8 DEF Live
<1>10. \A o \in Obj : Live(o) \/ mark'[o] = "free" => SameFields(o)
  <2>1. \A o \in Obj \ {c, u} : SameFields(o)
    BY <1>2 DEF SameFields, TypeOK
  <2>2. Live(u) => SameFields(u)
    <3>1. Live(u) => open'[u] = open[u]
      BY <1>2, <1>5 DEF Live
    <3>2. tab'[u] = tab[u]
      BY <1>2, <1>3 DEF TypeOK
    <3>. QED BY <1>2, <3>1, <3>2 DEF SameFields
  <2>. QED BY <1>2, <1>3, <2>1, <2>2 DEF Live
<1>11. \A o \in Obj : mark'[o] = mark[o] \/ mark'[o] = "white"
  BY <1>3
<1>12. References'
  BY <1>2, <1>3, <1>6, <1>9, <1>10, <1>11, PushKeeps DEF gc, Live
<1>13. \A th \in Threads : top[th] >= 0 /\ top'[th] >= top[th] /\ top[th] \in Int /\ top'[th] \in Int
  BY <1>2 DEF HeapInv, ChainAnchored, TypeOK
<1>14. OpenLinks'
  <2>. SUFFICES ASSUME NEW v \in UpVals, open'[v] # NoObj
                PROVE  /\ mark'[v] # "free" /\ mark'[open'[v][1]] # "free"
                       /\ open'[v][2] <= top'[open'[v][1]]
                       /\ \A w \in UpVals : open'[w] = open'[v] => w = v
    BY DEF OpenLinks, IsOpen, Allocated
  <2>1. CASE v = u
    <3>1. open'[v] = <<l, i>>
      BY <1>2, <2>1 DEF TypeOK
    <3>2. mark'[l] # "free" /\ mark'[v] # "free"
      BY <1>3, <1>4, <1>6, <2>1, RecolouringKeepsLive DEF Live
    <3>3. i <= top'[l]
      BY <1>2, <1>13 DEF Slots
    <3>4. \A w \in UpVals : open'[w] = <<l, i>> => w = v
      <4>1. ASSUME NEW w \in UpVals, w # u PROVE open[w] # <<l, i>>
        BY <1>2, <1>5, <4>1 DEF HeapInv, OpenLinks, IsOpen
      <4>. QED BY <1>2, <2>1, <4>1 DEF TypeOK
    <3>. QED BY <3>1, <3>2, <3>3, <3>4
  <2>2. CASE v # u
    <3>1. open'[v] = open[v] /\ open[v] \in Cells /\ IsOpen(v)
      BY <1>2, <2>2 DEF IsOpen, TypeOK
    <3>2. open[v][1] \in Threads /\ open[v][2] \in Int
      BY <3>1 DEF Cells, Slots
    <3>3. /\ mark[v] # "free" /\ mark[open[v][1]] # "free" /\ open[v][2] <= top[open[v][1]]
          /\ \A w \in UpVals : open[w] = open[v] => w = v
      BY <3>1 DEF HeapInv, OpenLinks, Allocated
    <3>4. open[v] # <<l, i>>
      BY <1>2, <2>2, <3>3
    <3>5. mark'[v] # "free" /\ mark'[open[v][1]] # "free"
      BY <1>6, <3>2, <3>3, RecolouringKeepsLive
    <3>6. open[v][2] <= top'[open[v][1]]
      BY <1>13, <3>2, <3>3
    <3>7. \A w \in UpVals : open'[w] = open[v] => w = v
      BY <1>2, <3>3, <3>4 DEF TypeOK
    <3>. QED BY <3>1, <3>5, <3>6, <3>7
  <2>. QED BY <2>1, <2>2
<1>15. ChainAnchored'
  <2>1. ASSUME NEW j \in 1 .. Len(chain) - 1
        PROVE  /\ top'[chain[j]] = top[chain[j]]
               /\ stack'[<<chain[j], top[chain[j]]>>] = stack[<<chain[j], top[chain[j]]>>]
    <3>1. chain[j] \in Threads /\ chain[j] # l /\ <<chain[j], top[chain[j]]>> \in Cells
      BY <1>1, Anchors DEF HeapInv
    <3>. QED BY <1>2, <3>1 DEF TypeOK
  <2>2. \A th \in Threads : top'[th] >= 0
    BY <1>13
  <2>3. \A v \in UpVals : open'[v] = open[v] \/ \E j \in Slots : open'[v] = <<l, j>>
    BY <1>2 DEF TypeOK
  <2>. QED BY <1>1, <1>2, <2>1, <2>2, <2>3, ChainKept DEF HeapInv
<1>. QED BY <1>12, <1>14, <1>15 DEF HeapInv

\* Every allocation does.
LEMMA AllocationKeeps ==
  ASSUME TypeOK, TypeOK', RefKinds, RefKinds', ColourInv, ColourInv', HeapInv,
         gcstate \notin AtomicLoop, Allocation
  PROVE  HeapInv'
<1>. USE Kinds, Disjoint
<1>1. ASSUME NEW t \in Tables, NewTable(t) PROVE HeapInv'
  <2>1. t \in Obj /\ \A o \in Obj : SameFields(o)
    BY <1>1 DEF NewTable, SameFields
  <2>. QED BY <1>1, <2>1, NewObjectKeeps DEF NewTable, Allocate
<1>2. ASSUME NEW d \in Udatas, NewUserdata(d) PROVE HeapInv'
  <2>1. d \in Obj /\ \A o \in Obj : SameFields(o)
    BY <1>2 DEF NewUserdata, SameFields
  <2>. QED BY <1>2, <2>1, NewObjectKeeps DEF NewUserdata, Allocate
<1>3. ASSUME NEW th \in Threads, NewThread(th) PROVE HeapInv'
  <2>1. PICK g : g = tab[L]
    OBVIOUS
  <2>2. tab' = [tab EXCEPT ![th] = g]
    BY <1>3, <2>1 DEF NewThread
  <2>3. \A o \in Obj \ {th} : SameFields(o)
    BY <1>3, <2>2 DEF NewThread, SameFields, TypeOK
  <2>4. g \in Obj => Live(g)
    BY <2>1, Accessible DEF HeapInv, References, Envs
  <2>5. th \in Obj /\ tab'[th] = g
    BY <2>2 DEF TypeOK
  <2>. QED BY <1>3, <2>3, <2>4, <2>5, NewObjectKeeps DEF NewThread, Allocate
<1>4. ASSUME NEW s \in Strings, NewString(s) PROVE HeapInv'
  BY <1>4, NewStringKeeps
<1>5. ASSUME NEW c \in Closures, NEW env \in Envs, NEW X \in SUBSET (Operands \cup Captured),
             NewClosure(c, env, X)
      PROVE  HeapInv'
  <2>1. \A o \in Obj \ {c} : SameFields(o)
    BY <1>5 DEF NewClosure, SameFields, TypeOK
  <2>2. c \in Obj /\ tab'[c] = env /\ uprefs'[c] = X
    BY <1>5 DEF NewClosure, TypeOK
  <2>3. \A x \in Obj : x = env \/ x \in X => Live(x)
    BY Accessible DEF HeapInv, References
  <2>4. \A x \in Obj : \/ x = tab'[c] /\ tab'[c] # tab[c]
                       \/ c \in Closures /\ x \in uprefs'[c]
                       => Live(x)
    BY <2>2, <2>3
  <2>5. /\ UNCHANGED <<open, value, chain, basicmt, gc>> /\ Push(c)
        /\ mark[c] = "free" /\ mark' = [mark EXCEPT ![c] = "white"]
    BY <1>5 DEF NewClosure, Allocate
  <2>6. c \in Obj /\ c \notin Tables
    OBVIOUS
  <2>. QED BY <2>1, <2>4, <2>5, <2>6, NewObjectKeeps
<1>6. ASSUME NEW c \in Closures, NEW env \in Envs, NEW u \in UpVals, NEW i \in Slots,
             NewClosureRef(c, env, u, i)
      PROVE  HeapInv'
  BY <1>6, NewClosureRefKeeps
<1>7. ASSUME NEW c \in Closures, NEW env \in Envs,
             \/ NewClosure(c, env, {})
             \/ \E x \in Operands \cup Captured : NewClosure(c, env, {x})
      PROVE  HeapInv'
  <2>1. CASE NewClosure(c, env, {})
    BY <1>5, <2>1
  <2>2. ASSUME NEW x \in Operands \cup Captured, NewClosure(c, env, {x}) PROVE HeapInv'
    <3>1. {x} \in SUBSET (Operands \cup Captured)
      OBVIOUS
    <3>. QED BY <1>5, <2>2, <3>1
  <2>. QED BY <1>7, <2>1, <2>2
<1>. QED BY <1>1, <1>2, <1>3, <1>4, <1>6, <1>7 DEF Allocation

\* A step that changes neither marks nor references.
LEMMA NoEdgeKeeps ==
  ASSUME TypeOK, TypeOK', ColourInv, ColourInv', HeapInv, gcstate \notin AtomicLoop,
         UNCHANGED <<mark, tab, entries, uprefs, open, value, stack, gc>>,
         \A th \in Threads : mark[th] = "free" => top'[th] = top[th], NewRoots
  PROVE  References'
<1>1. Recoloured
  BY WhiteningRecolours DEF gc, IsOpen
<1>2. \A o, x \in Obj : Points(o, x)' <=> Points(o, x)
  BY DEF Points, UpValue, IsOpen
<1>3. NewEdges
  BY <1>2 DEF NewEdges, Live, Black, HeapInv, References, FreeEmpty
<1>. QED BY <1>1, <1>3, MutatorKeepsHeap DEF gc

\* Closing upvalues, and clearing stack cells that none of the others needs.
LEMMA ClosingKeeps ==
  ASSUME TypeOK, TypeOK', RefKinds, ColourInv, HeapInv, gcstate \notin AtomicLoop,
         UNCHANGED <<tab, entries, uprefs, gcstate, chain, basicmt>>, Recoloured,
         NEW U \in SUBSET UpVals, mark' = CloseMark(U), CloseUpvals(U),
         \A c \in Cells : \/ stack'[c] = stack[c]
                          \/ stack'[c] = NoObj /\ \A u \in UpVals : open'[u] # c,
         \A th \in Threads : mark'[th] = "free" => top'[th] = 0
  PROVE  References'
<1>. USE Kinds, Disjoint
<1>1. ASSUME NEW o \in Obj, NEW x \in Obj, Points(o, x)' PROVE Points(o, x)
  <2>1. CASE o \in Threads /\ \E i \in Slots : x = stack'[<<o, i>>]
    <3>1. PICK i \in Slots : x = stack'[<<o, i>>]
      BY <2>1
    <3>2. <<o, i>> \in Cells
      BY <2>1 DEF Cells
    <3>3. x = stack[<<o, i>>]
      BY <3>1, <3>2
    <3>. QED BY <2>1, <3>3 DEF Points
  <2>2. CASE o \in UpVals /\ x = UpValue(o)'
    <3>1. CASE o \in U
      <4>1. x = UpValue(o)
        BY <2>2, <3>1 DEF CloseUpvals, UpValue, IsOpen
      <4>. QED BY <2>2, <4>1 DEF Points
    <3>2. CASE o \notin U
      <4>1. open'[o] = open[o] /\ value'[o] = value[o] /\ open[o] \in Cells \cup {NoObj}
        BY <2>2, <3>2 DEF CloseUpvals, TypeOK
      <4>2. x = UpValue(o)
        BY <2>2, <4>1 DEF UpValue, IsOpen
      <4>. QED BY <2>2, <4>2 DEF Points
    <3>. QED BY <3>1, <3>2
  <2>3. CASE ~(o \in Threads /\ \E i \in Slots : x = stack'[<<o, i>>]) /\ ~(o \in UpVals /\ x = UpValue(o)')
    BY <1>1, <2>3 DEF Points
  <2>. QED BY <2>1, <2>2, <2>3
<1>2. \A o \in Obj :
           \/ o \in U /\ mark[o] = "gray"
              /\ mark'[o] = IF KeepInvariant THEN "black" ELSE "white"
           \/ ~(o \in U /\ mark[o] = "gray") /\ mark'[o] = mark[o]
           \/ KeepInvariant /\ IsWhite(o) /\ mark'[o] = Shade(o)
  BY Closing
<1>3. ASSUME NEW o \in Obj, Live(o)' PROVE Live(o)
  <2>1. KeepInvariant => mark[o] # "dead"
    BY DEF ColourInv, DeadOnlyUnswept, KeepInvariant
  <2>. QED BY <1>2, <1>3, <2>1 DEF Live, IsWhite
<1>4. ASSUME KeepInvariant, NEW o \in Obj, NEW x \in Obj, Black(o)', ~Black(o), Points(o, x)
      PROVE  ~IsWhite(x)'
  <2>. DEFINE grays == {u \in U : mark[u] = "gray"}
              V == {UpValue(u) : u \in grays}
  <2>1. \A y \in Obj : mark'[y] = IF y \in grays THEN "black" ELSE Shaded(V)[y]
    BY <1>4 DEF CloseMark
  <2>2. CASE o \in grays
    <3>1. x = UpValue(o)
      <4>1. o \in UpVals /\ tab[o] = NoObj /\ x # NoObj
        BY <2>2 DEF RefKinds
      <4>. QED BY <1>4, <4>1 DEF Points
    <3>2. x \in V
      BY <2>2, <3>1
    <3>. HIDE DEF V
    <3>. QED BY <2>1, <3>2, Shading DEF IsWhite
  <2>3. CASE o \notin grays
    <3>1. Shaded(V)[o] = "black" /\ mark[o] # "black"
      BY <1>4, <2>1, <2>3 DEF Black
    <3>. HIDE DEF V
    <3>2. o \notin Listed
      BY <3>1, Shading DEF Shade, Listed
    <3>3. Shaded(V)[x] \notin {"white", "dead"}
      BY <1>4, <3>1, <3>2, ShadingRefs
    <3>. QED BY <2>1, <3>3 DEF IsWhite
  <2>. QED BY <2>2, <2>3
<1>5. \A o, x \in Obj : mark'[o] = "free" => ~Points(o, x)'
  BY <1>1, RecolouringKeepsLive DEF HeapInv, References, FreeEmpty
<1>6. NewEdges
  BY <1>1, <1>3, <1>4, <1>5 DEF NewEdges
<1>7. NewRoots
  BY RecolouringKeepsLive DEF NewRoots, HeapInv, References, LiveRoots, TypeOK
<1>. QED BY <1>6, <1>7, MutatorKeepsHeap

\* The links and anchors survive a step that changes stacks of T only, the
\* captured slots of others apart, and pops no captured slot.
LEMMA StackLinks ==
  ASSUME TypeOK, TypeOK', HeapInv, Recoloured, UNCHANGED chain,
         NEW T \in SUBSET Threads, \A th \in T : th = L \/ ~Active(th),
         \A c \in Cells : c[1] \in T \/ stack'[c] = stack[c] \/ \E u \in UpVals : open[u] = c,
         \A th \in Threads : top'[th] >= 0 /\ (th \in T \/ top'[th] = top[th]),
         \A u \in UpVals : \/ open'[u] = NoObj
                           \/ open'[u] = open[u] /\ (open[u][1] \in T => open[u][2] <= top'[open[u][1]])
  PROVE  OpenLinks' /\ ChainAnchored'
<1>. USE Kinds
<1>1. OpenLinks'
  <2>1. ASSUME NEW u \in UpVals, open'[u] # NoObj PROVE open[u][2] <= top'[open[u][1]]
    <3>1. open'[u] = open[u] /\ open[u] \in Cells /\ open[u][1] \in Threads /\ IsOpen(u)
      BY <2>1 DEF TypeOK, Cells, IsOpen
    <3>2. open[u][2] <= top[open[u][1]]
      BY <3>1 DEF HeapInv, OpenLinks
    <3>. QED BY <2>1, <3>1, <3>2
  <2>. QED BY <2>1, OpenLinksKept DEF HeapInv
<1>2. ASSUME NEW i \in 1 .. Len(chain) - 1
      PROVE  /\ top'[chain[i]] = top[chain[i]]
             /\ stack'[<<chain[i], top[chain[i]]>>] = stack[<<chain[i], top[chain[i]]>>]
  <2>1. /\ chain[i] \in Threads /\ chain[i] \notin T
        /\ <<chain[i], top[chain[i]]>> \in Cells
    BY Anchors DEF HeapInv
  <2>2. \A u \in UpVals : open[u] # <<chain[i], top[chain[i]]>>
    BY DEF HeapInv, ChainAnchored, NotCaptured
  <2>. QED BY <2>1, <2>2
<1>3. PICK l : l = L
  OBVIOUS
<1>4. ChainAnchored'
  BY <1>2, <1>3, ChainKept DEF HeapInv
<1>. QED BY <1>1, <1>4

\* The same when the stack is the one of the running thread.
LEMMA RunningLinks ==
  ASSUME TypeOK, TypeOK', HeapInv, Recoloured, UNCHANGED chain, NEW l \in Threads, l = L,
         \A c \in Cells : c[1] = l \/ stack'[c] = stack[c],
         \A th \in Threads : top'[th] >= 0, \A th \in Threads \ {l} : top'[th] = top[th],
         \A u \in UpVals : \/ open'[u] = NoObj
                           \/ open'[u] = open[u] /\ (open[u][1] = l => open[u][2] <= top'[l])
  PROVE  OpenLinks' /\ ChainAnchored'
<1>1. PICK T \in SUBSET Threads : T = {l}
  OBVIOUS
<1>2. \A c \in Cells : c[1] \in T \/ stack'[c] = stack[c] \/ \E u \in UpVals : open[u] = c
  BY <1>1
<1>3. \A th \in Threads : top'[th] >= 0 /\ (th \in T \/ top'[th] = top[th])
  BY <1>1
<1>4. \A u \in UpVals : \/ open'[u] = NoObj
                        \/ open'[u] = open[u] /\ (open[u][1] \in T => open[u][2] <= top'[open[u][1]])
  BY <1>1
<1>5. \A th \in T : th = L \/ ~Active(th)
  BY <1>1
<1>. QED BY <1>2, <1>3, <1>4, <1>5, StackLinks

\* A load into the register on top of the stack does.
LEMMA LoadKeeps ==
  ASSUME TypeOK, TypeOK', RefKinds, ColourInv, ColourInv', HeapInv,
         gcstate \notin AtomicLoop, NEW i \in Slots, NEW x \in Loadable, Load(i, x)
  PROVE  HeapInv'
<1>. USE Kinds, Disjoint
<1>1. PICK l \in Threads : l = L
  BY RunningIsActive
<1>2. PICK cell \in Cells : cell = <<l, i>>
  BY DEF Cells
<1>3. /\ stack' = [stack EXCEPT ![cell] = x]
      /\ top' = [top EXCEPT ![l] = IF i > top[l] THEN i ELSE top[l]]
      /\ UNCHANGED <<mark, tab, entries, uprefs, open, value, chain, basicmt, gc>>
  BY <1>1, <1>2 DEF Load
<1>4. Recoloured
  BY <1>3, WhiteningRecolours DEF gc, IsOpen
<1>5. Live(l) /\ (Marking => ~Black(l)) /\ (x \in Obj => Live(x))
  BY <1>1, Accessible DEF HeapInv, References
<1>6. \A o \in Obj : SameFields(o)
  BY <1>3 DEF SameFields
<1>7. /\ \A th \in Threads \ {l} : top'[th] = top[th]
      /\ top'[l] >= top[l] /\ top[l] \in Int /\ top'[l] \in Int /\ i \in Int
      /\ \A c \in Cells : c[1] = l \/ stack'[c] = stack[c]
  BY <1>2, <1>3 DEF TypeOK, Slots
<1>8. References'
  <2>1. cell[1] = l /\ mark'[l] # "free" /\ (KeepInvariant => ~Black(l)') /\ (x \in Obj => Live(x)')
    BY <1>2, <1>3, <1>5, States DEF Live, Black
  <2>2. \A o \in Obj : (Live(o)' => Live(o)) /\ (Black(o)' => Black(o)) /\ mark'[o] = mark[o]
    BY <1>3 DEF Live, Black
  <2>3. NewRoots
    BY <1>3 DEF NewRoots, HeapInv, References, LiveRoots, Live
  <2>4. \A th \in Threads : mark'[th] = "free" => top'[th] = top[th]
    BY <1>7, <2>1
  <2>5. UNCHANGED gcstate
    BY <1>3 DEF gc
  <2>. QED BY <1>3, <1>4, <1>6, <2>1, <2>2, <2>3, <2>4, <2>5, StackStoreKeeps
<1>9. OpenLinks' /\ ChainAnchored'
  <2>1. \A th \in Threads : top'[th] >= 0
    <3>1. \A th \in Threads : top[th] >= 0 /\ top[th] \in Int
      BY DEF HeapInv, ChainAnchored, TypeOK
    <3>. QED BY <1>7, <3>1
  <2>2. ASSUME NEW u \in UpVals, open[u] # NoObj, open[u][1] = l PROVE open[u][2] <= top'[l]
    <3>1. open[u][2] <= top[l]
      BY <2>2 DEF HeapInv, OpenLinks, IsOpen
    <3>2. open[u] \in Cells /\ open[u][2] \in Int
      BY <2>2 DEF TypeOK, Cells, Slots
    <3>. QED BY <1>7, <3>1, <3>2
  <2>. QED BY <1>1, <1>3, <1>4, <1>7, <2>1, <2>2, RunningLinks
<1>. QED BY <1>8, <1>9 DEF HeapInv

\* Raising the top exposes a slot as it is: nothing new for the collector.
LEMMA StackUseKeeps ==
  ASSUME TypeOK, TypeOK', RefKinds, ColourInv, ColourInv', HeapInv,
         gcstate \notin AtomicLoop, StackUse
  PROVE  HeapInv'
<1>. USE Kinds, Disjoint
<1>1. PICK l \in Threads : l = L
  BY RunningIsActive
<1>2. Live(l)
  BY <1>1, Accessible DEF HeapInv, References
<1>3. ASSUME NEW i \in Slots, NEW x \in Loadable, Load(i, x) PROVE HeapInv'
  BY <1>3, LoadKeeps
<1>4. ASSUME UNCHANGED <<mark, tab, entries, uprefs, open, value, stack, chain, basicmt, gc>>,
             NEW d \in {-1, 1}, top' = [top EXCEPT ![l] = top[l] + d], top[l] + d >= 0,
             d = -1 => \A u \in UpVals : open[u] # <<l, top[l]>>
      PROVE  HeapInv'
  <2>1. /\ \A th \in Threads \ {l} : top'[th] = top[th]
        /\ top[l] \in Int /\ top'[l] = top[l] + d
    BY <1>4 DEF TypeOK
  <2>2. Recoloured
    BY <1>4, WhiteningRecolours DEF gc, IsOpen
  <2>3. References'
    <3>1. NewRoots
      BY <1>4 DEF NewRoots, HeapInv, References, LiveRoots, Live
    <3>. QED BY <1>2, <1>4, <2>1, <3>1, NoEdgeKeeps DEF Live
  <2>4. \A th \in Threads : top'[th] >= 0
    BY <1>4, <2>1 DEF HeapInv, ChainAnchored
  <2>5. ASSUME NEW u \in UpVals, open[u] # NoObj, open[u][1] = l PROVE open[u][2] <= top'[l]
    <3>1. open[u][2] <= top[l]
      BY <2>5 DEF HeapInv, OpenLinks, IsOpen
    <3>2. PICK i \in Slots : open[u] = <<l, i>>
      <4>1. open[u] \in Cells
        BY <2>5 DEF TypeOK
      <4>. QED BY <2>5, <4>1 DEF Cells
    <3>3. i \in Int /\ (d = -1 => i # top[l])
      BY <1>4, <3>2 DEF Slots
    <3>. QED BY <2>1, <3>1, <3>2, <3>3
  <2>6. OpenLinks' /\ ChainAnchored'
    BY <1>1, <1>4, <2>1, <2>2, <2>4, <2>5, RunningLinks
  <2>. QED BY <2>3, <2>6 DEF HeapInv
<1>5. CASE RaiseTop
  <2>1. top' = [top EXCEPT ![l] = top[l] + 1] /\ top[l] + 1 >= 0
    BY <1>1, <1>5 DEF RaiseTop, HeapInv, ChainAnchored, TypeOK
  <2>2. 1 \in {-1, 1} /\ (1 = -1 => \A u \in UpVals : open[u] # <<l, top[l]>>)
    OBVIOUS
  <2>. QED BY <1>4, <1>5, <2>1, <2>2 DEF RaiseTop
<1>6. CASE Pop
  <2>1. top' = [top EXCEPT ![l] = top[l] - 1] /\ top[l] > 0 /\ top[l] \in Int
        /\ \A u \in UpVals : open[u] # <<l, top[l]>>
    BY <1>1, <1>6 DEF Pop, TypeOK, NotCaptured
  <2>2. top[l] - 1 = top[l] + (-1) /\ top[l] + (-1) >= 0
    BY <2>1
  <2>. QED BY <1>4, <1>6, <2>1, <2>2 DEF Pop
<1>7. ASSUME NEW i \in Slots, Close(i) PROVE HeapInv'
  <2>1. PICK U \in SUBSET UpVals : U = Opened(l, i)
    BY DEF Opened
  <2>2. /\ mark' = CloseMark(U) /\ gray' = CloseGray(U) /\ CloseUpvals(U)
        /\ UNCHANGED <<tab, entries, mode, uprefs, stack, top, chain, basicmt, gcstate,
                       grayagain, weak, unswept, sleeping, full>>
    BY <1>1, <1>7, <2>1 DEF Close
  <2>3. Recoloured
    BY <2>2, ClosingRecolours
  <2>4. \A th \in Threads : mark'[th] = "free" => top'[th] = 0
    BY <2>2, <2>3, RecolouringKeepsLive DEF HeapInv, References, FreeEmpty
  <2>5. References'
    BY <2>2, <2>3, <2>4, ClosingKeeps
  <2>6. ASSUME NEW u \in UpVals
        PROVE  \/ open'[u] = NoObj
               \/ open'[u] = open[u] /\ (open[u][1] = l => open[u][2] <= top'[l])
    BY <2>2 DEF CloseUpvals, HeapInv, OpenLinks, IsOpen
  <2>7. OpenLinks' /\ ChainAnchored'
    BY <1>1, <2>2, <2>3, <2>6, RunningLinks DEF HeapInv, ChainAnchored
  <2>. QED BY <2>5, <2>7 DEF HeapInv
<1>. QED BY <1>3, <1>5, <1>6, <1>7 DEF StackUse

-----------------------------------------------------------------------------
(* Stores. *)

\* A step that leaves stacks and upvalues alone keeps the links between them.
LEMMA SameStackLinks ==
  ASSUME TypeOK, TypeOK', HeapInv, Recoloured, UNCHANGED <<open, stack, top, chain>>
  PROVE  OpenLinks' /\ ChainAnchored'
<1>1. PICK l \in Threads : l = L
  BY RunningIsActive
<1>2. ASSUME NEW u \in UpVals, open[u] # NoObj, open[u][1] = l PROVE open[u][2] <= top'[l]
  BY <1>2 DEF HeapInv, OpenLinks, IsOpen
<1>3. \A th \in Threads : top'[th] >= 0
  BY DEF HeapInv, ChainAnchored
<1>. QED BY <1>1, <1>2, <1>3, RunningLinks

\* A store of Y into the object h, stacks apart.
LEMMA FieldStoreKeeps ==
  ASSUME TypeOK, TypeOK', ColourInv, HeapInv, Recoloured, NewBlack, gcstate \notin AtomicLoop,
         UNCHANGED <<gcstate, open, stack, top, chain, basicmt>>,
         NEW h \in Obj, NEW Y, Live(h),
         \A o, x \in Obj : Points(o, x)' => Points(o, x) \/ (o = h /\ x \in Y),
         \A x \in Y \cap Obj : Live(x),
         KeepInvariant /\ Black(h)' => \A x \in Y \cap Obj : ~IsWhite(x)'
  PROVE  HeapInv'
<1>. USE Kinds
<1>1. ASSUME NEW o \in Obj, NEW x \in Obj, Live(o)', Points(o, x)'
      PROVE  (Live(o) /\ Points(o, x)) \/ Live(x)'
  BY <1>1, RecolouringKeepsLive DEF NewBlack
<1>2. ASSUME KeepInvariant, NEW o \in Obj, NEW x \in Obj, Black(o)', Points(o, x)'
      PROVE  (Black(o) /\ Points(o, x)) \/ ~IsWhite(x)'
  BY <1>2 DEF NewBlack
<1>3. ASSUME NEW o \in Obj, mark'[o] = "free"
      PROVE  mark[o] = "free" /\ \A x \in Obj : ~Points(o, x)'
  <2>1. mark[o] = "free"
    BY <1>3, RecolouringKeepsLive
  <2>. QED BY <2>1 DEF Live, HeapInv, References, FreeEmpty
<1>4. NewEdges
  BY <1>1, <1>2, <1>3 DEF NewEdges, HeapInv, References, FreeEmpty
<1>5. NewRoots
  BY RecolouringKeepsLive DEF NewRoots, HeapInv, References, LiveRoots, TypeOK
<1>6. References'
  BY <1>4, <1>5, MutatorKeepsHeap
<1>. QED BY <1>6, SameStackLinks DEF HeapInv

\* A store through an upvalue, into the stack of whatever thread it is open on.
LEMMA UpvalStoreKeeps ==
  ASSUME TypeOK, TypeOK', RefKinds, ColourInv, ColourInv', HeapInv, Recoloured, NewBlack,
         gcstate \notin AtomicLoop,
         UNCHANGED <<tab, entries, uprefs, open, top, chain, basicmt, gcstate>>,
         NEW u \in UpVals, Live(u), NEW x, x \in Obj => Live(x),
         KeepInvariant /\ (IsOpen(u) \/ Black(u)') /\ x \in Obj => ~IsWhite(x)',
         stack' = IF IsOpen(u) THEN [stack EXCEPT ![open[u]] = x] ELSE stack,
         value' = IF IsOpen(u) THEN value ELSE [value EXCEPT ![u] = x]
  PROVE  HeapInv'
<1>. USE Kinds, Disjoint
<1>1. CASE IsOpen(u)
  <2>1. PICK cell \in Cells : cell = open[u]
    BY <1>1 DEF TypeOK, IsOpen
  <2>2. stack' = [stack EXCEPT ![cell] = x] /\ UNCHANGED value
    BY <1>1, <2>1
  <2>3. cell[1] \in Threads /\ mark'[cell[1]] # "free"
    BY <1>1, <2>1, RecolouringKeepsLive DEF HeapInv, OpenLinks, Allocated, Cells
  <2>4. \A o \in Obj : SameFields(o)
    BY <2>2 DEF SameFields
  <2>5. NewRoots
    BY RecolouringKeepsLive DEF NewRoots, HeapInv, References, LiveRoots, TypeOK
  <2>6. x \in Obj => Live(x)'
    BY RecolouringKeepsLive
  <2>7. References'
    BY <1>1, <2>2, <2>3, <2>4, <2>5, <2>6, StackStoreKeeps DEF NewBlack
  <2>8. OpenLinks' /\ ChainAnchored'
    <3>1. PICK T \in SUBSET Threads : T = {}
      OBVIOUS
    <3>2. \A c \in Cells : stack'[c] = stack[c] \/ \E v \in UpVals : open[v] = c
      BY <2>1, <2>2 DEF TypeOK
    <3>3. \A th \in Threads : top'[th] >= 0
      BY DEF HeapInv, ChainAnchored
    <3>. QED BY <3>1, <3>2, <3>3, StackLinks
  <2>. QED BY <2>7, <2>8 DEF HeapInv
<1>2. CASE ~IsOpen(u)
  <2>1. UNCHANGED stack /\ value' = [value EXCEPT ![u] = x]
    BY <1>2
  <2>2. ASSUME NEW o \in Obj, NEW y \in Obj, Points(o, y)'
        PROVE  Points(o, y) \/ (o = u /\ y \in {x})
    <3>1. CASE o \in UpVals /\ y = UpValue(o)'
      BY <2>1, <3>1 DEF UpValue, IsOpen, Points, TypeOK
    <3>2. CASE ~(o \in UpVals /\ y = UpValue(o)')
      BY <2>1, <2>2, <3>2 DEF Points
    <3>. QED BY <3>1, <3>2
  <2>3. PICK Y : Y = {x}
    OBVIOUS
  <2>. QED BY <2>1, <2>2, <2>3, FieldStoreKeeps
<1>. QED BY <1>1, <1>2

\* Stores into upvalues keep the heap right.
LEMMA UpvalStoresKeep ==
  ASSUME TypeOK, TypeOK', RefKinds, ColourInv, ColourInv', HeapInv, gcstate \notin AtomicLoop,
         NEW x \in Operands,
         \/ \E u \in Captured : SetUpval(u, x)
         \/ \E c \in Closures : \E y \in uprefs[c] : SetUpvalue(c, y, x)
         \/ \E c \in Closures : DupClosure(c, x)
  PROVE  HeapInv'
<1>. USE Kinds, Disjoint
<1>1. \A y \in Obj : y \in LiveSlots(L) \cup Captured \cup Operands => Live(y)
  BY Accessible DEF HeapInv, References
<1>2. ASSUME NEW u \in Captured, SetUpval(u, x) PROVE HeapInv'
  <2>1. u \in UpVals /\ UNCHANGED <<sleeping, open>>
    BY <1>2 DEF Captured, SetUpval
  <2>2. Recoloured
    BY <1>2, <2>1, BarriersRecolour DEF SetUpval
  <2>3. NewBlack /\ (KeepInvariant /\ (IsOpen(u) \/ Black(u)') /\ x \in Obj => ~IsWhite(x)')
    BY <1>2, <2>1, BarrierFEdges, BarrierUpvalEdges DEF SetUpval
  <2>. QED BY <1>1, <1>2, <2>1, <2>2, <2>3, UpvalStoreKeeps DEF SetUpval
<1>3. ASSUME NEW c \in Closures, NEW y \in uprefs[c], SetUpvalue(c, y, x) PROVE HeapInv'
  <2>1. BarrierUpval(c, x) /\ UNCHANGED <<sleeping, open>> /\ c \in Obj
    BY <1>3 DEF SetUpvalue
  <2>2. Recoloured
    BY <2>1, BarriersRecolour
  <2>3. NewBlack /\ (KeepInvariant /\ x \in Obj => ~IsWhite(x)')
    BY <2>1, BarrierUpvalEdges
  <2>4. CASE y \in UpVals
    <3>1. Live(y)
      BY <1>1, <1>3, <2>4 DEF Captured, SetUpvalue
    <3>2. value' = IF IsOpen(y) THEN value ELSE [value EXCEPT ![y] = x]
      <4>1. /\ value' = [u \in UpVals |-> IF u = y /\ ~IsOpen(u) THEN x ELSE value[u]]
            /\ value = [u \in UpVals |-> value[u]]
        BY <1>3 DEF SetUpvalue, TypeOK
      <4>2. CASE IsOpen(y)
        BY <4>1, <4>2
      <4>3. CASE ~IsOpen(y)
        <5>1. value' = [u \in UpVals |-> IF u = y THEN x ELSE value[u]]
          BY <4>1, <4>3
        <5>2. [value EXCEPT ![y] = x] = [u \in UpVals |-> IF u = y THEN x ELSE value[u]]
          BY <4>1, Zenon
        <5>. QED BY <4>3, <5>1, <5>2
      <4>. QED BY <4>2, <4>3
    <3>3. stack' = IF IsOpen(y) THEN [stack EXCEPT ![open[y]] = x] ELSE stack
      BY <1>3, <2>4 DEF SetUpvalue, IsOpen
    <3>. QED BY <1>1, <1>3, <2>2, <2>3, <2>4, <3>1, <3>2, <3>3, UpvalStoreKeeps DEF SetUpvalue
  <2>5. CASE y \notin UpVals
    <3>1. /\ uprefs' = [uprefs EXCEPT ![c] = (uprefs[c] \ {y}) \cup {x}]
          /\ UNCHANGED <<tab, entries, open, stack, top, chain, basicmt, gcstate>>
          /\ value' = value
      BY <1>3, <2>5 DEF SetUpvalue, TypeOK
    <3>2. Live(c)
      BY <1>1, <1>3 DEF SetUpvalue
    <3>3. \A o, z \in Obj : Points(o, z)' => Points(o, z) \/ (o = c /\ z \in {x})
      <4>1. \A d \in Closures : \A z \in uprefs'[d] : z \in uprefs[d] \/ (d = c /\ z = x)
        BY <3>1 DEF TypeOK
      <4>. QED BY <3>1, <4>1 DEF Points, UpValue, IsOpen
    <3>4. PICK Y : Y = {x}
      OBVIOUS
    <3>. QED BY <1>1, <2>1, <2>2, <2>3, <3>1, <3>2, <3>3, <3>4, FieldStoreKeeps
  <2>. QED BY <2>4, <2>5
<1>4. ASSUME NEW c \in Closures, DupClosure(c, x) PROVE HeapInv'
  <2>1. BarrierF(c, x) /\ UNCHANGED <<sleeping, open>> /\ c \in Obj
    BY <1>4 DEF DupClosure
  <2>2. Recoloured
    BY <2>1, BarriersRecolour
  <2>3. NewBlack /\ (Black(c)' => \A y \in {x} \cap Obj : ~IsWhite(y)')
    BY <2>1, BarrierFEdges
  <2>4. /\ uprefs' = [uprefs EXCEPT ![c] = {x}]
        /\ UNCHANGED <<tab, entries, open, value, stack, top, chain, basicmt, gcstate>>
    BY <1>4 DEF DupClosure
  <2>5. Live(c)
    BY <1>1, <1>4 DEF DupClosure
  <2>6. \A o, z \in Obj : Points(o, z)' => Points(o, z) \/ (o = c /\ z \in {x})
    <3>1. \A d \in Closures : \A z \in uprefs'[d] : z \in uprefs[d] \/ (d = c /\ z = x)
      BY <2>4 DEF TypeOK
    <3>. QED BY <2>4, <3>1 DEF Points, UpValue, IsOpen
  <2>7. PICK Y : Y = {x}
    OBVIOUS
  <2>. QED BY <1>1, <2>1, <2>2, <2>3, <2>4, <2>5, <2>6, <2>7, FieldStoreKeeps
<1>. QED BY <1>2, <1>3, <1>4

\* Stores into tables, and of a metatable or an environment.
LEMMA FieldStoresKeep ==
  ASSUME TypeOK, TypeOK', RefKinds, ColourInv, ColourInv', HeapInv, gcstate \notin AtomicLoop,
         \/ \E t \in Shelves, k \in Keys, x \in Operands : SetTable(t, k, x)
         \/ \E t \in Shelves, x \in Operands : SetList(t, x)
         \/ \E t \in Shelves : \E e \in entries[t] : ClearEntry(t, e)
         \/ \E o \in Tables \cup Udatas, mt \in Metatables \cup {NoObj} : SetMetatable(o, mt)
         \/ \E o \in Closures \cup Threads, t \in Environments : SetFenv(o, t)
         \/ \E t \in Environments : SetGlobals(t)
  PROVE  HeapInv'
<1>. USE Kinds, Disjoint
<1>1. \A y \in Obj : y \in LiveSlots(L) \cup Held \cup Operands => Live(y)
  BY Accessible DEF HeapInv, References
<1>2. ASSUME NEW o \in Obj, NEW x, UNCHANGED <<sleeping, open>>, BarrierF(o, x)
      PROVE  /\ Recoloured /\ NewBlack
             /\ Black(o)' => \A z \in {x} \cap Obj : ~IsWhite(z)'
  BY <1>2, BarriersRecolour, BarrierFEdges
<1>3. ASSUME UNCHANGED <<mark, open, gc>> PROVE Recoloured /\ NewBlack
  BY <1>3, WhiteningRecolours, NoMarkEdges DEF gc, IsOpen
<1>4. ASSUME NEW t \in Shelves, NEW k \in Keys, NEW x \in Operands, SetTable(t, k, x)
      PROVE  HeapInv'
  <2>1. t \in Tables /\ BarrierT(t, {k, x}) /\ UNCHANGED <<sleeping, open>>
    BY <1>4, BoundsAssumption DEF SetTable
  <2>2. Recoloured
    BY <2>1, BarriersRecolour
  <2>3. PICK Y : Y = {k, x}
    OBVIOUS
  <2>4. NewBlack /\ (Black(t)' => \A z \in Y \cap Obj : ~IsWhite(z)')
    BY <2>1, <2>3, BarrierTEdges
  <2>5. Live(t) /\ \A z \in Y \cap Obj : Live(z)
    BY <1>1, <1>4, <2>1, <2>3 DEF SetTable
  <2>6. \A o, z \in Obj : Points(o, z)' => Points(o, z) \/ (o = t /\ z \in Y)
    <3>1. /\ UNCHANGED <<tab, uprefs, open, value, stack>>
          /\ entries' = [entries EXCEPT ![t] = {e \in entries[t] : k = NoObj \/ e[1] # k} \cup {<<k, x>>}]
      BY <1>4 DEF SetTable
    <3>2. \A o \in Tables : \A e \in entries'[o] : e \in entries[o] \/ (o = t /\ e = <<k, x>>)
      BY <2>1, <3>1 DEF TypeOK
    <3>. QED BY <2>3, <3>1, <3>2 DEF Points, UpValue, IsOpen
  <2>. QED BY <1>4, <2>1, <2>2, <2>4, <2>5, <2>6, FieldStoreKeeps DEF SetTable
<1>5. ASSUME NEW t \in Shelves, NEW x \in Operands, SetList(t, x) PROVE HeapInv'
  <2>1. t \in Tables /\ BarrierFast(t) /\ UNCHANGED <<sleeping, open>>
    BY <1>5, BoundsAssumption DEF SetList
  <2>2. Recoloured
    BY <2>1, BarriersRecolour
  <2>3. PICK Y : Y = {x}
    OBVIOUS
  <2>4. NewBlack /\ ~Black(t)'
    BY <2>1, BarrierFastEdges
  <2>5. Live(t) /\ \A z \in Y \cap Obj : Live(z)
    BY <1>1, <1>5, <2>1, <2>3 DEF SetList
  <2>6. \A o, z \in Obj : Points(o, z)' => Points(o, z) \/ (o = t /\ z \in Y)
    <3>1. /\ UNCHANGED <<tab, uprefs, open, value, stack>>
          /\ entries' = [entries EXCEPT ![t] = entries[t] \cup {<<NoObj, x>>}]
      BY <1>5 DEF SetList
    <3>2. \A o \in Tables : \A e \in entries'[o] : e \in entries[o] \/ (o = t /\ e = <<NoObj, x>>)
      BY <2>1, <3>1 DEF TypeOK
    <3>. QED BY <2>3, <3>1, <3>2 DEF Points, UpValue, IsOpen
  <2>. QED BY <1>5, <2>1, <2>2, <2>4, <2>5, <2>6, FieldStoreKeeps DEF SetList
<1>6. ASSUME NEW t \in Shelves, NEW e \in entries[t], ClearEntry(t, e) PROVE HeapInv'
  <2>1. /\ t \in Tables /\ Live(t)
        /\ UNCHANGED <<mark, tab, uprefs, open, value, stack, top, chain, basicmt, gc>>
        /\ entries' = [entries EXCEPT ![t] = entries[t] \ {e}]
    BY <1>1, <1>6, BoundsAssumption DEF ClearEntry
  <2>2. \A o \in Tables : entries'[o] \subseteq entries[o]
    BY <2>1 DEF TypeOK
  <2>3. PICK Y : Y = {}
    OBVIOUS
  <2>4. \A o, z \in Obj : Points(o, z)' => Points(o, z) \/ (o = t /\ z \in Y)
    BY <2>1, <2>2 DEF Points, UpValue, IsOpen
  <2>5. Recoloured /\ NewBlack /\ UNCHANGED gcstate
    BY <1>3, <2>1 DEF gc
  <2>6. t \in Obj /\ Y \cap Obj = {}
    BY <2>1, <2>3
  <2>. QED BY <2>1, <2>4, <2>5, <2>6, FieldStoreKeeps
<1>7. ASSUME NEW o \in Tables \cup Udatas \cup Closures \cup Threads, NEW x, o \in Held,
             x \in Obj => x \in LiveSlots(L), BarrierF(o, x), tab' = [tab EXCEPT ![o] = x],
             UNCHANGED <<entries, uprefs, open, value, stack, top, chain, basicmt, gcstate,
                         sleeping>>
      PROVE  HeapInv'
  <2>1. PICK Y : Y = {x}
    OBVIOUS
  <2>2. Recoloured /\ NewBlack /\ (Black(o)' => \A z \in Y \cap Obj : ~IsWhite(z)')
    BY <1>2, <1>7, <2>1
  <2>3. Live(o) /\ \A z \in Y \cap Obj : Live(z)
    BY <1>1, <1>7, <2>1
  <2>4. \A p, z \in Obj : Points(p, z)' => Points(p, z) \/ (p = o /\ z \in Y)
    BY <1>7, <2>1 DEF Points, UpValue, IsOpen, TypeOK
  <2>. QED BY <1>7, <2>2, <2>3, <2>4, FieldStoreKeeps
<1>8. ASSUME NEW o \in Tables \cup Udatas, NEW mt \in Metatables \cup {NoObj}, SetMetatable(o, mt)
      PROVE  HeapInv'
  <2>1. o \in Held /\ (mt \in Obj => mt \in LiveSlots(L))
    BY <1>8 DEF SetMetatable, Held
  <2>. QED BY <1>7, <1>8, <2>1 DEF SetMetatable
<1>9. ASSUME NEW o \in Closures \cup Threads, NEW t \in Environments, SetFenv(o, t)
      PROVE  HeapInv'
  BY <1>7, <1>9 DEF SetFenv
<1>10. ASSUME NEW t \in Environments, SetGlobals(t) PROVE HeapInv'
  <2>1. PICK l \in Threads : l = L
    BY RunningIsActive
  <2>2. /\ UNCHANGED <<mark, entries, uprefs, open, value, stack, top, chain, basicmt, gc>>
        /\ tab' = [tab EXCEPT ![l] = t]
    BY <1>10, <2>1 DEF SetGlobals
  <2>3. PICK Y : Y = {t}
    OBVIOUS
  <2>4. Live(l) /\ (KeepInvariant => ~Black(l)) /\ \A z \in Y \cap Obj : Live(z)
    BY <1>1, <1>10, <2>1, <2>3, Accessible DEF HeapInv, References, SetGlobals, Marking
  <2>5. \A p, z \in Obj : Points(p, z)' => Points(p, z) \/ (p = l /\ z \in Y)
    BY <2>2, <2>3 DEF Points, UpValue, IsOpen, TypeOK
  <2>6. KeepInvariant => ~Black(l)'
    BY <2>2, <2>4 DEF Black
  <2>. QED BY <1>3, <2>2, <2>4, <2>5, <2>6, FieldStoreKeeps DEF gc
<1>. QED BY <1>4, <1>5, <1>6, <1>8, <1>9, <1>10

\* Every store does.
LEMMA StoreKeeps ==
  ASSUME TypeOK, TypeOK', RefKinds, ColourInv, ColourInv', HeapInv,
         gcstate \notin AtomicLoop, Store
  PROVE  HeapInv'
<1>. USE Kinds, Disjoint
<1>1. ASSUME UNCHANGED <<mark, tab, entries, uprefs, open, value, stack, top, chain, gc>>,
             \A t \in basicmt' : Live(t)
      PROVE  HeapInv'
  <2>1. NewRoots
    BY <1>1 DEF NewRoots, HeapInv, References, LiveRoots, Live
  <2>2. References'
    BY <1>1, <2>1, NoEdgeKeeps
  <2>3. Recoloured
    BY <1>1, WhiteningRecolours DEF gc, IsOpen
  <2>. QED BY <1>1, <2>2, <2>3, SameStackLinks DEF HeapInv
<1>2. ASSUME NEW X \in SUBSET BasicMetatables, SetBasicMetatable(X) PROVE HeapInv'
  <2>1. \A t \in X : t \in Obj /\ t \in LiveSlots(L)
    BY <1>2, BoundsAssumption DEF SetBasicMetatable
  <2>2. \A t \in X : Live(t)
    BY <2>1, Accessible DEF HeapInv, References
  <2>. QED BY <1>1, <1>2, <2>2 DEF SetBasicMetatable
<1>3. ASSUME NEW mt \in Metatables, NEW letters \in Modes, SetMode(mt, letters) PROVE HeapInv'
  <2>1. \A t \in basicmt' : Live(t)
    BY <1>3 DEF SetMode, HeapInv, References, LiveRoots
  <2>. QED BY <1>1, <1>3, <2>1 DEF SetMode
<1>. QED BY <1>2, <1>3, UpvalStoresKeep, FieldStoresKeep DEF Store

-----------------------------------------------------------------------------
(* Coroutines. *)

\* Waking a thread makes its stack gray, so that stores need no barrier.
LEMMA WakeEdges ==
  ASSUME TypeOK, ColourInv, NEW th \in Threads, Wake(th)
  PROVE  NewBlack /\ (KeepInvariant => ~Black(th)')
<1>. USE Kinds
<1>1. KeepInvariant => (Black(th) <=> th \in sleeping)
  BY DEF ColourInv, SleepingThreads, Marking
<1>2. CASE th \in sleeping /\ KeepInvariant
  BY <1>1, <1>2, UnblackEdges DEF Wake, Black
<1>3. CASE ~(th \in sleeping /\ KeepInvariant)
  BY <1>1, <1>3, NoMarkEdges DEF Wake, Black
<1>. QED BY <1>2, <1>3

\* A store to a slot of a live thread that is not black.
LEMMA CellStoreKeeps ==
  ASSUME TypeOK, TypeOK', ColourInv, ColourInv', HeapInv, Recoloured, NewBlack,
         gcstate \notin AtomicLoop, UNCHANGED <<tab, entries, uprefs, open, value, gcstate>>,
         NEW cell \in Cells, NEW y, stack' = [stack EXCEPT ![cell] = y], y \in Obj => Live(y),
         Live(cell[1]), KeepInvariant => ~Black(cell[1])',
         \A th \in Threads : mark[th] = "free" => top'[th] = top[th], NewRoots
  PROVE  References'
<1>. USE Kinds
<1>1. \A o \in Obj : SameFields(o)
  BY DEF SameFields
<1>2. cell[1] \in Obj
  BY DEF Cells
<1>3. (y \in Obj => Live(y)') /\ mark'[cell[1]] # "free"
  BY <1>2, RecolouringKeepsLive DEF Live
<1>4. \A th \in Threads : mark'[th] = "free" => top'[th] = top[th]
  BY RecolouringKeepsLive
<1>. QED BY <1>1, <1>3, <1>4, StackStoreKeeps DEF NewBlack

\* So does handing a value to a suspended thread, which the barrier has woken.
LEMMA XPushKeeps ==
  ASSUME TypeOK, TypeOK', RefKinds, ColourInv, ColourInv', HeapInv, gcstate \notin AtomicLoop,
         NEW th \in Threads, NEW x \in Operands, XPush(th, x)
  PROVE  HeapInv'
<1>. USE Kinds, Disjoint
<1>1. /\ th \in LiveSlots(L) /\ ~Active(th) /\ top[th] < StackSize /\ Wake(th)
      /\ UNCHANGED <<tab, entries, uprefs, open, value, chain, basicmt, gcstate>>
  BY DEF XPush
<1>2. Recoloured /\ NewBlack /\ (KeepInvariant => ~Black(th)')
  BY <1>1, WakingRecolours, WakeEdges
<1>3. Live(th) /\ (x \in Obj => Live(x))
  BY <1>1, Accessible DEF HeapInv, References
<1>4. top[th] \in Int /\ top[th] >= 0 /\ top' = [top EXCEPT ![th] = top[th] + 1]
  BY DEF XPush, TypeOK, HeapInv, ChainAnchored
<1>5. PICK cell \in Cells : cell = <<th, top[th] + 1>>
  <2>1. top[th] + 1 \in Slots
    BY <1>1, <1>4, BoundsAssumption DEF Slots
  <2>. QED BY <2>1 DEF Cells
<1>6. stack' = [stack EXCEPT ![cell] = x] /\ cell[1] = th
  BY <1>5 DEF XPush
<1>7. top'[th] = top[th] + 1 /\ \A h \in Threads \ {th} : top'[h] = top[h]
  BY <1>4 DEF TypeOK
<1>8. References'
  <2>1. NewRoots
    BY <1>1, <1>2, RecolouringKeepsLive, SMTT(30) DEF NewRoots, HeapInv, References, LiveRoots, TypeOK
  <2>2. \A h \in Threads : mark[h] = "free" => top'[h] = top[h]
    BY <1>3, <1>7 DEF Live
  <2>. QED BY <1>1, <1>2, <1>3, <1>6, <2>1, <2>2, CellStoreKeeps
<1>9. OpenLinks' /\ ChainAnchored'
  <2>1. PICK T \in SUBSET Threads : T = {th}
    OBVIOUS
  <2>2. \A c \in Cells : c[1] \in T \/ stack'[c] = stack[c] \/ \E u \in UpVals : open[u] = c
    BY <1>6, <2>1 DEF TypeOK
  <2>3. \A h \in Threads : top'[h] >= 0 /\ (h \in T \/ top'[h] = top[h])
    BY <1>4, <1>7, <2>1 DEF HeapInv, ChainAnchored
  <2>4. ASSUME NEW u \in UpVals, open[u] # NoObj, open[u][1] = th PROVE open[u][2] <= top'[th]
    <3>1. open[u][2] <= top[th]
      BY <2>4 DEF HeapInv, OpenLinks, IsOpen
    <3>2. open[u] \in Cells /\ open[u][2] \in Int
      BY <2>4 DEF TypeOK, Cells, Slots
    <3>. QED BY <1>4, <1>7, <3>1, <3>2
  <2>5. \A u \in UpVals : \/ open'[u] = NoObj
                          \/ open'[u] = open[u] /\ (open[u][1] \in T => open[u][2] <= top'[open[u][1]])
    BY <1>1, <2>1, <2>4
  <2>6. \A h \in T : h = L \/ ~Active(h)
    BY <1>1, <2>1
  <2>. QED BY <1>1, <1>2, <2>2, <2>3, <2>5, <2>6, StackLinks
<1>. QED BY <1>8, <1>9 DEF HeapInv

\* So does taking a value from one, without a barrier.
LEMMA XPopKeeps ==
  ASSUME TypeOK, TypeOK', RefKinds, ColourInv, ColourInv', HeapInv, gcstate \notin AtomicLoop,
         NEW th \in Threads, XPop(th)
  PROVE  HeapInv'
<1>. USE Kinds, Disjoint
<1>1. PICK l \in Threads : l = L
  BY RunningIsActive
<1>2. PICK y : y = stack[<<th, top[th]>>]
  OBVIOUS
<1>3. /\ th \in LiveSlots(L) /\ ~Active(th) /\ top[th] > 0 /\ top[l] < StackSize
      /\ \A u \in UpVals : open[u] # <<th, top[th]>>
      /\ UNCHANGED <<mark, tab, entries, uprefs, open, value, chain, basicmt, gc>>
      /\ stack' = [stack EXCEPT ![<<l, top[l] + 1>>] = y]
  BY <1>1, <1>2 DEF XPop, NotCaptured
<1>4. l # th /\ top[th] \in Int /\ top[l] \in Int /\ top[l] >= 0 /\ top[th] <= StackSize
  BY <1>1, <1>3, RunningIsActive DEF TypeOK, HeapInv, ChainAnchored
<1>5. top'[th] = top[th] - 1 /\ top'[l] = top[l] + 1 /\ \A h \in Threads \ {l, th} : top'[h] = top[h]
  BY <1>1, <1>4 DEF XPop, TypeOK
<1>6. Recoloured /\ NewBlack
  BY <1>3, WhiteningRecolours, NoMarkEdges DEF gc, IsOpen
<1>7. Live(l) /\ Live(th) /\ (Marking => ~Black(l)) /\ (y \in Obj => Live(y))
  <2>1. y \in LiveSlots(th)
    BY <1>2, <1>3, <1>4 DEF LiveSlots
  <2>. QED BY <1>1, <1>3, <2>1, Accessible, LiveSlotsPoint DEF HeapInv, References
<1>8. PICK cell \in Cells : cell = <<l, top[l] + 1>>
  <2>1. top[l] + 1 \in Slots
    BY <1>3, <1>4, BoundsAssumption DEF Slots
  <2>. QED BY <2>1 DEF Cells
<1>9. stack' = [stack EXCEPT ![cell] = y] /\ cell[1] = l
  BY <1>3, <1>8
<1>10. References'
  <2>1. NewRoots
    BY <1>3 DEF NewRoots, HeapInv, References, LiveRoots, Live
  <2>2. \A h \in Threads : mark[h] = "free" => top'[h] = top[h]
    BY <1>5, <1>7 DEF Live
  <2>3. KeepInvariant => ~Black(l)'
    BY <1>3, <1>7 DEF Black, Marking
  <2>4. UNCHANGED gcstate
    BY <1>3 DEF gc
  <2>. QED BY <1>3, <1>6, <1>7, <1>9, <2>1, <2>2, <2>3, <2>4, CellStoreKeeps
<1>11. OpenLinks' /\ ChainAnchored'
  <2>1. PICK T \in SUBSET Threads : T = {l, th}
    OBVIOUS
  <2>2. \A c \in Cells : c[1] \in T \/ stack'[c] = stack[c] \/ \E u \in UpVals : open[u] = c
    <3>1. \A c \in Cells \ {cell} : stack'[c] = stack[c]
      BY <1>9 DEF TypeOK
    <3>. QED BY <1>9, <2>1, <3>1
  <2>3. \A h \in Threads : top'[h] >= 0 /\ (h \in T \/ top'[h] = top[h])
    BY <1>3, <1>4, <1>5, <2>1 DEF HeapInv, ChainAnchored
  <2>4. ASSUME NEW u \in UpVals, open[u] # NoObj, open[u][1] \in T
        PROVE  open[u][2] <= top'[open[u][1]]
    <3>1. open[u][2] <= top[open[u][1]]
      BY <2>4 DEF HeapInv, OpenLinks, IsOpen
    <3>2. PICK h \in Threads, i \in Slots : open[u] = <<h, i>>
      <4>1. open[u] \in Threads \X Slots
        BY <2>4 DEF TypeOK, Cells
      <4>. QED BY <4>1
    <3>3. i \in Int /\ (h = th => i # top[th])
      BY <1>3, <3>2 DEF Slots
    <3>. QED BY <1>4, <1>5, <2>1, <2>4, <3>1, <3>2, <3>3
  <2>5. \A u \in UpVals : \/ open'[u] = NoObj
                          \/ open'[u] = open[u] /\ (open[u][1] \in T => open[u][2] <= top'[open[u][1]])
    BY <1>3, <2>4
  <2>6. UNCHANGED chain /\ \A h \in T : h = L \/ ~Active(h)
    BY <1>1, <1>3, <2>1
  <2>. QED BY <1>6, <2>2, <2>3, <2>5, <2>6, StackLinks
<1>. QED BY <1>10, <1>11 DEF HeapInv

\* The resumed coroutine is the new anchor on the stack of its resumer.
LEMMA ResumeKeeps ==
  ASSUME TypeOK, TypeOK', RefKinds, ColourInv, ColourInv', HeapInv, gcstate \notin AtomicLoop,
         NEW th \in Threads, Resume(th)
  PROVE  HeapInv'
<1>. USE Kinds, Disjoint
<1>1. PICK l \in Threads : l = L
  BY RunningIsActive
<1>2. /\ th \in LiveSlots(L) /\ ~Active(th) /\ Wake(th) /\ top[l] < StackSize
      /\ UNCHANGED <<tab, entries, uprefs, open, value, basicmt, gcstate>>
      /\ stack' = [stack EXCEPT ![<<l, top[l] + 1>>] = th]
      /\ top' = [top EXCEPT ![l] = top[l] + 1]
      /\ chain' = Append(chain, th)
  BY <1>1 DEF Resume, Push
<1>3. /\ top[l] \in Int /\ top[l] >= 0
      /\ top'[l] = top[l] + 1 /\ \A h \in Threads \ {l} : top'[h] = top[h]
  BY <1>2 DEF TypeOK, HeapInv, ChainAnchored
<1>4. Recoloured /\ NewBlack
  BY <1>2, WakingRecolours, WakeEdges
<1>5. Live(l) /\ Live(th) /\ (Marking => ~Black(l))
  BY <1>1, <1>2, Accessible DEF HeapInv, References
<1>6. PICK cell \in Cells : cell = <<l, top[l] + 1>>
  <2>1. top[l] + 1 \in Slots
    BY <1>2, <1>3, BoundsAssumption DEF Slots
  <2>. QED BY <2>1 DEF Cells
<1>7. stack' = [stack EXCEPT ![cell] = th] /\ cell[1] = l
  BY <1>2, <1>6
<1>8. /\ Len(chain) \in Nat /\ Len(chain) >= 1 /\ Len(chain') = Len(chain) + 1
      /\ \A i \in 1 .. Len(chain) : chain'[i] = chain[i]
      /\ chain'[Len(chain) + 1] = th
  BY <1>2 DEF TypeOK
<1>9. References'
  <2>1. NewRoots
    <3>1. ASSUME NEW i \in 1 .. Len(chain') PROVE Live(chain'[i]) /\ chain'[i] \in Obj
      <4>1. i \in 1 .. Len(chain) \/ i = Len(chain) + 1
        BY <1>8
      <4>2. i \in 1 .. Len(chain) => Live(chain[i]) /\ chain[i] \in Obj
        BY RunningIsActive DEF HeapInv, References, LiveRoots
      <4>. QED BY <1>5, <1>8, <4>1, <4>2
    <3>. QED BY <1>2, <1>4, <3>1, RecolouringKeepsLive DEF NewRoots, HeapInv, References, LiveRoots, TypeOK
  <2>2. \A h \in Threads : mark[h] = "free" => top'[h] = top[h]
    BY <1>3, <1>5 DEF Live
  <2>3. KeepInvariant => ~Black(l)'
    BY <1>4, <1>5 DEF NewBlack, Marking, Listed
  <2>. QED BY <1>2, <1>4, <1>5, <1>7, <2>1, <2>2, <2>3, CellStoreKeeps
<1>10. OpenLinks'
  <2>1. ASSUME NEW u \in UpVals, open[u] # NoObj PROVE open[u][2] <= top'[open[u][1]]
    <3>1. open[u][2] <= top[open[u][1]] /\ open[u] \in Cells
      BY <2>1 DEF HeapInv, OpenLinks, IsOpen, TypeOK
    <3>2. open[u][1] \in Threads /\ open[u][2] \in Int
      BY <3>1 DEF Cells, Slots
    <3>. QED BY <1>3, <3>1, <3>2
  <2>. QED BY <1>2, <1>4, <2>1, OpenLinksKept DEF HeapInv
<1>11. ChainAnchored'
  <2>1. \A h \in Threads : top'[h] >= 0
    BY <1>3 DEF HeapInv, ChainAnchored
  <2>2. chain'[1] = MainThread
    BY <1>8 DEF HeapInv, ChainAnchored
  <2>3. \A i, j \in 1 .. Len(chain') : chain'[i] = chain'[j] => i = j
    <3>1. \A i \in 1 .. Len(chain) : chain[i] # th
      BY <1>2 DEF Active
    <3>2. \A i, j \in 1 .. Len(chain) : chain[i] = chain[j] => i = j
      BY DEF HeapInv, ChainAnchored
    <3>. QED BY <1>8, <3>1, <3>2
  <2>4. ASSUME NEW i \in 1 .. Len(chain') - 1
        PROVE  /\ top'[chain'[i]] > 0
               /\ stack'[<<chain'[i], top'[chain'[i]]>>] = chain'[i + 1]
               /\ \A u \in UpVals : open'[u] # <<chain'[i], top'[chain'[i]]>>
    <3>1. CASE i = Len(chain)
      <4>1. chain'[i] = l /\ chain'[i + 1] = th /\ top'[l] > 0
        BY <1>1, <1>3, <1>8, <3>1 DEF L
      <4>2. stack'[<<l, top'[l]>>] = th
        BY <1>3, <1>6, <1>7 DEF TypeOK
      <4>3. ASSUME NEW u \in UpVals, open[u] = <<l, top[l] + 1>> PROVE FALSE
        <5>1. open[u] # NoObj /\ open[u][1] = l /\ open[u][2] = top[l] + 1
          BY <1>6, <4>3
        <5>2. open[u][2] <= top[open[u][1]]
          BY <5>1 DEF HeapInv, OpenLinks, IsOpen
        <5>. QED BY <1>3, <5>1, <5>2
      <4>. QED BY <1>2, <1>3, <4>1, <4>2, <4>3
    <3>2. CASE i # Len(chain)
      <4>1. /\ i \in 1 .. Len(chain) - 1 /\ i \in 1 .. Len(chain) /\ i + 1 \in 1 .. Len(chain)
            /\ chain'[i] = chain[i] /\ chain'[i + 1] = chain[i + 1]
        BY <1>8, <3>2
      <4>2. /\ chain[i] \in Threads /\ chain[i] # l
            /\ <<chain[i], top[chain[i]]>> \in Cells
        BY <1>1, <4>1, Anchors DEF HeapInv
      <4>3. /\ top[chain[i]] > 0 /\ stack[<<chain[i], top[chain[i]]>>] = chain[i + 1]
            /\ \A u \in UpVals : open[u] # <<chain[i], top[chain[i]]>>
        BY <4>1 DEF HeapInv, ChainAnchored, NotCaptured
      <4>4. top'[chain[i]] = top[chain[i]]
        BY <1>3, <4>2
      <4>5. stack'[<<chain[i], top[chain[i]]>>] = stack[<<chain[i], top[chain[i]]>>]
        BY <1>6, <1>7, <4>2 DEF TypeOK
      <4>. QED BY <1>2, <4>1, <4>3, <4>4, <4>5
    <3>. QED BY <3>1, <3>2
  <2>. QED BY <2>1, <2>2, <2>3, <2>4 DEF ChainAnchored, NotCaptured
<1>. QED BY <1>9, <1>10, <1>11 DEF HeapInv

\* So does a yield.
LEMMA YieldKeeps ==
  ASSUME TypeOK, TypeOK', ColourInv, ColourInv', HeapInv, gcstate \notin AtomicLoop, Yield
  PROVE  HeapInv'
<1>. USE Kinds, Disjoint
<1>. DEFINE n == Len(chain)
<1>1. n \in Nat /\ n > 1 /\ \A i \in 1 .. n : chain[i] \in Threads
  BY DEF Yield, TypeOK
<1>2. PICK p \in Threads : p = chain[n - 1]
  BY <1>1
<1>3. n - 1 \in 1 .. n - 1 /\ n - 1 \in 1 .. n
  BY <1>1
<1>4. /\ chain' = SubSeq(chain, 1, n - 1) /\ top' = [top EXCEPT ![p] = top[p] - 1]
      /\ UNCHANGED <<mark, tab, entries, uprefs, open, value, stack, basicmt, gc>>
  BY <1>2 DEF Yield
<1>5. Len(chain') = n - 1 /\ \A i \in 1 .. n - 1 : chain'[i] = chain[i]
  BY <1>1, <1>4 DEF TypeOK
<1>6. top[p] \in Int /\ top[p] > 0 /\ \A u \in UpVals : open[u] # <<p, top[p]>>
  BY <1>2, <1>3 DEF HeapInv, ChainAnchored, NotCaptured, TypeOK
<1>7. top'[p] = top[p] - 1 /\ \A h \in Threads \ {p} : top'[h] = top[h]
  BY <1>4 DEF TypeOK
<1>8. Recoloured
  BY <1>4, WhiteningRecolours DEF gc, IsOpen
<1>9. References'
  <2>1. Live(p)
    BY <1>2, <1>3 DEF HeapInv, References, LiveRoots
  <2>2. NewRoots
    <3>1. \A i \in 1 .. n - 1 : i \in 1 .. n
      BY <1>1
    <3>2. \A i \in 1 .. n - 1 : Live(chain'[i])
      BY <1>5, <3>1 DEF HeapInv, References, LiveRoots
    <3>. QED BY <1>4, <1>5, <3>2 DEF NewRoots, HeapInv, References, LiveRoots, Live
  <2>3. \A h \in Threads : mark[h] = "free" => top'[h] = top[h]
    BY <1>7, <2>1 DEF Live
  <2>. QED BY <1>4, <2>2, <2>3, NoEdgeKeeps
<1>10. OpenLinks'
  <2>1. ASSUME NEW u \in UpVals, open[u] # NoObj PROVE open[u][2] <= top'[open[u][1]]
    <3>1. PICK h \in Threads, i \in Slots : open[u] = <<h, i>>
      <4>1. open[u] \in Threads \X Slots
        BY <2>1 DEF TypeOK, Cells
      <4>. QED BY <4>1
    <3>2. i <= top[h] /\ i \in Int /\ top[h] \in Int /\ (h = p => i # top[p])
      <4>1. open[u][1] = h /\ open[u][2] = i
        BY <3>1
      <4>2. open[u][2] <= top[open[u][1]]
        BY <2>1 DEF HeapInv, OpenLinks, IsOpen
      <4>3. i \in Int /\ top[h] \in Int
        BY DEF Slots, TypeOK
      <4>. QED BY <1>6, <3>1, <4>1, <4>2, <4>3
    <3>. QED BY <1>6, <1>7, <3>1, <3>2
  <2>. QED BY <1>4, <1>8, <2>1, OpenLinksKept DEF HeapInv
<1>11. ChainAnchored'
  <2>1. \A h \in Threads : top'[h] >= 0
    BY <1>6, <1>7 DEF HeapInv, ChainAnchored
  <2>2. chain'[1] = MainThread
    BY <1>1, <1>5 DEF HeapInv, ChainAnchored
  <2>3. \A i, j \in 1 .. Len(chain') : chain'[i] = chain'[j] => i = j
    BY <1>1, <1>5 DEF HeapInv, ChainAnchored
  <2>4. ASSUME NEW i \in 1 .. Len(chain') - 1
        PROVE  /\ top'[chain'[i]] > 0
               /\ stack'[<<chain'[i], top'[chain'[i]]>>] = chain'[i + 1]
               /\ \A u \in UpVals : open'[u] # <<chain'[i], top'[chain'[i]]>>
    <3>1. /\ i \in 1 .. n - 1 /\ i \in 1 .. n /\ i # n - 1
          /\ chain'[i] = chain[i] /\ chain'[i + 1] = chain[i + 1]
      BY <1>1, <1>5
    <3>2. chain[i] \in Threads /\ chain[i] # p
      BY <1>1, <1>2, <1>3, <3>1 DEF HeapInv, ChainAnchored
    <3>3. /\ top[chain[i]] > 0 /\ stack[<<chain[i], top[chain[i]]>>] = chain[i + 1]
          /\ \A u \in UpVals : open[u] # <<chain[i], top[chain[i]]>>
      BY <3>1 DEF HeapInv, ChainAnchored, NotCaptured
    <3>. QED BY <1>4, <1>7, <3>1, <3>2, <3>3
  <2>. QED BY <2>1, <2>2, <2>3, <2>4 DEF ChainAnchored, NotCaptured
<1>. QED BY <1>9, <1>10, <1>11 DEF HeapInv

\* So does coroutine.close, which closes the upvalues of the thread.
LEMMA ResetKeeps ==
  ASSUME TypeOK, TypeOK', RefKinds, ColourInv, HeapInv, gcstate \notin AtomicLoop,
         NEW th \in Threads, ResetThread(th)
  PROVE  HeapInv'
<1>. USE Kinds, Disjoint
<1>1. PICK U \in SUBSET UpVals : U = Opened(th, 1)
  BY DEF Opened
<1>2. /\ ~Active(th) /\ mark' = CloseMark(U) /\ gray' = CloseGray(U) /\ CloseUpvals(U)
      /\ stack' = [c \in Cells |-> IF c[1] = th THEN NoObj ELSE stack[c]]
      /\ top' = [top EXCEPT ![th] = 0]
      /\ UNCHANGED <<tab, entries, mode, uprefs, chain, basicmt, gcstate,
                     grayagain, weak, unswept, sleeping, full>>
  BY <1>1 DEF ResetThread
<1>3. Recoloured
  BY <1>2, ClosingRecolours
<1>4. top'[th] = 0 /\ \A h \in Threads \ {th} : top'[h] = top[h]
  BY <1>2 DEF TypeOK
<1>5. ASSUME NEW u \in UpVals
      PROVE  open'[u] = NoObj \/ (open'[u] = open[u] /\ open[u][1] # th)
  <2>1. open'[u] = IF u \in U THEN NoObj ELSE open[u]
    BY <1>2 DEF CloseUpvals
  <2>2. CASE u \notin U /\ open[u] # NoObj
    <3>1. PICK h \in Threads, i \in Slots : open[u] = <<h, i>>
      <4>1. open[u] \in Threads \X Slots
        BY <2>2 DEF TypeOK, Cells
      <4>. QED BY <4>1
    <3>2. i >= 1
      BY DEF Slots
    <3>. QED BY <1>1, <2>1, <2>2, <3>1, <3>2 DEF Opened, IsOpen
  <2>. QED BY <2>1, <2>2
<1>6. References'
  <2>1. \A h \in Threads : mark'[h] = "free" => top'[h] = 0
    BY <1>3, <1>4, RecolouringKeepsLive DEF HeapInv, References, FreeEmpty
  <2>2. \A c \in Cells : \/ stack'[c] = stack[c]
                         \/ stack'[c] = NoObj /\ \A u \in UpVals : open'[u] # c
    BY <1>2, <1>5
  <2>. QED BY <1>2, <1>3, <2>1, <2>2, ClosingKeeps
<1>7. OpenLinks' /\ ChainAnchored'
  <2>1. PICK T \in SUBSET Threads : T = {th}
    OBVIOUS
  <2>2. \A c \in Cells : c[1] \in T \/ stack'[c] = stack[c] \/ \E u \in UpVals : open[u] = c
    BY <1>2, <2>1
  <2>3. \A h \in Threads : top'[h] >= 0 /\ (h \in T \/ top'[h] = top[h])
    BY <1>4, <2>1 DEF HeapInv, ChainAnchored
  <2>4. \A u \in UpVals : \/ open'[u] = NoObj
                          \/ open'[u] = open[u] /\ (open[u][1] \in T => open[u][2] <= top'[open[u][1]])
    BY <1>5, <2>1
  <2>5. UNCHANGED chain /\ \A h \in T : h = L \/ ~Active(h)
    BY <1>2, <2>1
  <2>. QED BY <1>3, <2>2, <2>3, <2>4, <2>5, StackLinks
<1>. QED BY <1>6, <1>7 DEF HeapInv

\* Nothing the program does breaks the heap.
LEMMA MutateKeeps ==
  ASSUME TypeOK, TypeOK', RefKinds, RefKinds', ColourInv, ColourInv', HeapInv, Mutate
  PROVE  HeapInv'
<1>1. gcstate \notin AtomicLoop
  BY DEF Mutate
<1>2. CASE Coroutine
  <2>1. ASSUME NEW th \in Threads, NEW x \in Operands, XPush(th, x) PROVE HeapInv'
    BY <1>1, <2>1, XPushKeeps
  <2>2. ASSUME NEW th \in Threads, XPop(th) PROVE HeapInv'
    BY <1>1, <2>2, XPopKeeps
  <2>3. ASSUME NEW th \in Threads, Resume(th) PROVE HeapInv'
    BY <1>1, <2>3, ResumeKeeps
  <2>4. ASSUME NEW th \in Threads, ResetThread(th) PROVE HeapInv'
    BY <1>1, <2>4, ResetKeeps
  <2>5. CASE Yield
    BY <1>1, <2>5, YieldKeeps
  <2>. QED BY <1>2, <2>1, <2>2, <2>3, <2>4, <2>5 DEF Coroutine
<1>. QED BY <1>1, <1>2, AllocationKeeps, StackUseKeeps, StoreKeeps DEF Mutate

-----------------------------------------------------------------------------
(* The collector.  A step that marks adds no reference and frees nothing, so  *)
(* what is left to prove of it is what it blackens.                           *)

\* A step of the collector that only marks, and clears at most slots above a
\* top, keeps the heap closed.
LEMMA MarkingStepKeeps ==
  ASSUME TypeOK, TypeOK', ColourInv, HeapInv, gcstate # "sweep",
         UNCHANGED <<tab, entries, uprefs, open, value, top, chain, basicmt>>,
         \A c \in Cells : stack'[c] = stack[c] \/ (stack'[c] = NoObj /\ c[2] > top[c[1]]),
         \A o \in Obj : \/ mark'[o] = mark[o]
                        \/ mark[o] # "free" /\ mark'[o] \in {"gray", "black"}
  PROVE  /\ HeapClosed' /\ LiveRoots' /\ FreeEmpty' /\ OpenLinks' /\ ChainAnchored'
         /\ \A o, x \in Obj : Points(o, x)' => Points(o, x)
         /\ \A u \in UpVals : UpValue(u)' = UpValue(u)
         /\ \A o \in Obj : ~IsWhite(o) => ~IsWhite(o)'
<1>. USE Kinds, Disjoint
<1>1. \A o \in Obj : mark[o] \in Colours /\ mark[o] # "dead"
  BY DEF ColourInv, DeadOnlyUnswept, TypeOK
<1>2. \A o \in Obj : /\ Live(o)' <=> Live(o)
                     /\ ~IsWhite(o) => ~IsWhite(o)'
                     /\ mark'[o] = "free" <=> mark[o] = "free"
  BY <1>1 DEF Live, IsWhite, Colours
<1>3. ASSUME NEW u \in UpVals PROVE UpValue(u)' = UpValue(u)
  <2>1. CASE open[u] # NoObj
    <3>1. open[u] \in Cells /\ open[u][2] <= top[open[u][1]]
      BY <2>1 DEF TypeOK, HeapInv, OpenLinks, IsOpen
    <3>2. open[u][1] \in Threads /\ open[u][2] \in Int
      BY <3>1 DEF Cells, Slots
    <3>3. stack'[open[u]] = stack[open[u]]
      BY <3>1, <3>2 DEF TypeOK
    <3>. QED BY <2>1, <3>3 DEF UpValue, IsOpen
  <2>2. CASE open[u] = NoObj
    BY <2>2 DEF UpValue, IsOpen
  <2>. QED BY <2>1, <2>2
<1>4. ASSUME NEW o \in Obj, NEW x \in Obj, Points(o, x)' PROVE Points(o, x)
  <2>1. CASE o \in Threads /\ \E i \in Slots : x = stack'[<<o, i>>]
    <3>1. PICK i \in Slots : x = stack'[<<o, i>>]
      BY <2>1
    <3>2. <<o, i>> \in Cells
      BY <2>1 DEF Cells
    <3>3. x = stack[<<o, i>>]
      BY <3>1, <3>2
    <3>. QED BY <2>1, <3>3 DEF Points
  <2>2. CASE ~(o \in Threads /\ \E i \in Slots : x = stack'[<<o, i>>])
    BY <1>3, <1>4, <2>2 DEF Points
  <2>. QED BY <2>1, <2>2
<1>5. HeapClosed'
  BY <1>2, <1>4 DEF HeapClosed, HeapInv, References
<1>6. LiveRoots'
  BY <1>2 DEF LiveRoots, HeapInv, References, TypeOK
<1>7. FreeEmpty'
  BY <1>2, <1>4 DEF FreeEmpty, HeapInv, References
<1>8. OpenLinks'
  <2>1. ASSUME NEW u \in UpVals, IsOpen(u) PROVE open[u][1] \in Obj
    BY <2>1 DEF TypeOK, IsOpen, Cells
  <2>. QED BY <1>2, <2>1 DEF OpenLinks, HeapInv, IsOpen, Allocated
<1>9. ChainAnchored'
  <2>1. ASSUME NEW i \in 1 .. Len(chain) - 1
        PROVE  stack'[<<chain[i], top[chain[i]]>>] = stack[<<chain[i], top[chain[i]]>>]
    <3>1. <<chain[i], top[chain[i]]>> \in Cells /\ top[chain[i]] \in Slots
      BY Anchors DEF HeapInv
    <3>2. ~(top[chain[i]] > top[chain[i]])
      BY <3>1 DEF Slots
    <3>. QED BY <3>1, <3>2
  <2>. QED BY <2>1 DEF ChainAnchored, HeapInv, NotCaptured
<1>. QED BY <1>2, <1>3, <1>4, <1>5, <1>6, <1>7, <1>8, <1>9

\* Marking X, and giving the traversed objects O their new colours, keeps black
\* objects from referring to white ones.
LEMMA ShadedBlackClosed ==
  ASSUME TypeOK, RefKinds, BlackClosed, Marking \/ \A y \in Obj : ~Black(y), NEW X,
         NEW O \in SUBSET Obj, \A y \in Obj \ O : mark'[y] = Shaded(X)[y],
         \A y \in O : /\ mark'[y] \in {"gray", "black"}
                      /\ \A x \in Obj : Black(y)' /\ Points(y, x)' => ~IsWhite(x)',
         \A o, x \in Obj : Points(o, x)' => Points(o, x),
         \A o \in Obj : ~IsWhite(o) => ~IsWhite(o)'
  PROVE  BlackClosed'
<1>. USE Kinds, Disjoint
<1>. SUFFICES ASSUME NEW y \in Obj, NEW x \in Obj, Black(y)', Points(y, x)'
              PROVE  ~IsWhite(x)'
  BY DEF BlackClosed
<1>1. CASE y \in O
  BY <1>1
<1>2. CASE y \notin O /\ Shaded(X)[y] = mark[y]
  <2>1. Black(y) /\ Marking /\ Points(y, x)
    BY <1>2 DEF Black
  <2>. QED BY <2>1 DEF BlackClosed
<1>3. CASE y \notin O /\ Shaded(X)[y] # mark[y]
  <2>1. Shade(y) = "black"
    BY <1>3, Shading DEF Black
  <2>2. y \notin Listed
    BY <2>1 DEF Shade, Listed
  <2>3. Shaded(X)[x] \notin {"white", "dead"}
    BY <1>3, <2>2, ShadingRefs
  <2>. QED BY <2>3 DEF IsWhite
<1>. QED BY <1>1, <1>2, <1>3

\* The values of gray upvalues are marked with them.
LEMMA ShadedUpvals ==
  ASSUME TypeOK, RefKinds, NEW X,
         NEW O \in SUBSET Listed, \A y \in Obj \ O : mark'[y] = Shaded(X)[y],
         \A y \in O : mark'[y] \in {"gray", "black"},
         \A u \in UpVals : UpValue(u)' = UpValue(u),
         \A o \in Obj : ~IsWhite(o) => ~IsWhite(o)',
         \A u \in UpVals : mark[u] = "gray" => NonWhite(UpValue(u)) \/ UpValue(u) \in X
  PROVE  \A u \in UpVals : mark'[u] = "gray" => NonWhite(UpValue(u))'
<1>. USE Kinds, Disjoint
<1>. SUFFICES ASSUME NEW u \in UpVals, mark'[u] = "gray", UpValue(u) # NoObj
              PROVE  mark'[UpValue(u)] \notin {"white", "dead"}
  BY DEF NonWhite, IsWhite
<1>1. PICK x \in Obj : x = UpValue(u)
  BY DEF UpValue, IsOpen, TypeOK, Ref
<1>2. u \notin Listed /\ Points(u, x)
  BY <1>1 DEF Listed, Points
<1>3. CASE mark[u] = "gray" /\ ~IsWhite(x)
  BY <1>1, <1>3 DEF IsWhite
<1>4. CASE mark[u] = "gray" /\ x \in X
  <2>1. Shaded(X)[x] \notin {"white", "dead"}
    BY <1>4, Shading
  <2>. QED BY <1>1, <2>1
<1>5. CASE mark[u] # "gray"
  <2>1. Shaded(X)[x] \notin {"white", "dead"}
    BY <1>2, <1>5, ShadingRefs
  <2>. QED BY <1>1, <2>1
<1>. QED BY <1>1, <1>3, <1>4, <1>5 DEF NonWhite

\* The root step keeps the heap right.
LEMMA MarkRootKeeps ==
  ASSUME TypeOK, TypeOK', RefKinds, ColourInv, HeapInv, MarkRoot
  PROVE  HeapInv'
<1>. USE Kinds, Disjoint
<1>1. PICK X : X = {MainThread, tab[MainThread], Registry} \cup basicmt
  OBVIOUS
<1>2. /\ gcstate = "pause" /\ gcstate' = "propagate" /\ mark' = Shaded(X)
      /\ UNCHANGED <<tab, entries, uprefs, open, value, stack, top, chain, basicmt>>
  BY <1>1 DEF MarkRoot, heap
<1>3. \A o \in Obj : mark[o] \in {"free", "white"}
  BY <1>2 DEF ColourInv, DeadOnlyUnswept
<1>4. \A o \in Obj : \/ mark'[o] = mark[o]
                     \/ mark[o] # "free" /\ mark'[o] \in {"gray", "black"}
  BY <1>2, Shading DEF IsWhite, Shade
<1>5. /\ HeapClosed' /\ LiveRoots' /\ FreeEmpty' /\ OpenLinks' /\ ChainAnchored'
      /\ \A o, x \in Obj : Points(o, x)' => Points(o, x)
      /\ \A o \in Obj : ~IsWhite(o) => ~IsWhite(o)'
  BY <1>2, <1>4, MarkingStepKeeps
<1>6. BlackClosed'
  <2>1. PICK O \in SUBSET Obj : O = {}
    OBVIOUS
  <2>2. BlackClosed /\ \A y \in Obj : ~Black(y)
    BY <1>3 DEF HeapInv, References, Black
  <2>. QED BY <1>2, <1>5, <2>1, <2>2, ShadedBlackClosed
<1>7. AtomicFacts'
  <2>1. ~IsWhite(Registry)'
    BY <1>1, <1>2, Shading DEF IsWhite
  <2>. QED BY <1>2, <2>1 DEF AtomicFacts, AtomicLoop
<1>. QED BY <1>5, <1>6, <1>7 DEF HeapInv, References

\* What is traversed entirely refers to nothing else than was scanned: strong
\* tables, closures, and stacks that are cleared above the top.
LEMMA ScannedAll ==
  ASSUME TypeOK, TypeOK', NEW o \in Listed, PropagateMark(o), ~StaysWeak(o),
         o \in Threads => ClearsStack(o), NEW x \in Obj, Points(o, x)'
  PROVE  x \in Scanned(o)
<1>. USE Kinds, Disjoint
<1>0. UNCHANGED <<tab, entries, uprefs, open, value, top>>
  BY DEF PropagateMark
<1>1. CASE x = tab[o]
  BY <1>1 DEF Scanned
<1>2. CASE o \in Tables /\ \E e \in entries[o] : x = e[1] \/ x = e[2]
  <2>1. TableMode(o) = {}
    BY <1>2 DEF StaysWeak
  <2>2. /\ {e[1] : e \in entries[o]} \subseteq Scanned(o)
        /\ {e[2] : e \in entries[o]} \subseteq Scanned(o)
    BY <1>2, <2>1 DEF Scanned
  <2>. QED BY <1>2, <2>2
<1>3. CASE o \in Closures /\ x \in uprefs[o]
  BY <1>3 DEF Scanned
<1>4. CASE o \in Threads /\ \E i \in Slots : x = stack'[<<o, i>>]
  <2>1. PICK i \in Slots : x = stack'[<<o, i>>]
    BY <1>4
  <2>2. <<o, i>> \in Cells
    BY <1>4 DEF Cells
  <2>3. stack' = [c \in Cells |-> IF c[1] = o /\ c[2] > top[o] THEN NoObj ELSE stack[c]]
    BY <1>4 DEF PropagateMark
  <2>4. x = stack[<<o, i>>] /\ ~(i > top[o])
    BY <2>1, <2>2, <2>3
  <2>5. i \in 1 .. top[o]
    BY <1>4, <2>4 DEF Slots, TypeOK
  <2>6. x \in LiveSlots(o)
    BY <2>4, <2>5 DEF LiveSlots
  <2>. QED BY <1>4, <2>6 DEF Scanned
<1>5. o \notin UpVals
  BY DEF Listed
<1>6. \/ x = tab[o]
      \/ o \in Tables /\ \E e \in entries[o] : x = e[1] \/ x = e[2]
      \/ o \in Closures /\ x \in uprefs[o]
      \/ o \in Threads /\ \E i \in Slots : x = stack'[<<o, i>>]
  BY <1>0, <1>5 DEF Points
<1>. QED BY <1>1, <1>2, <1>3, <1>4, <1>6

\* A traversal does, in every state of the collector.
LEMMA PropagateKeeps ==
  ASSUME TypeOK, TypeOK', RefKinds, ColourInv, HeapInv,
         NEW o \in gray, Propagate(o) \/ AtomicPropagate(o)
  PROVE  HeapInv'
<1>. USE Kinds, Disjoint
<1>0. PropagateMark(o) /\ UNCHANGED <<tab, entries, mode, uprefs, open, value, top, chain, basicmt>>
  BY DEF Propagate, AtomicPropagate, PropagateMark
<1>1. Marking /\ gcstate # "sweep"
  BY DEF Propagate, AtomicPropagate, Marking, KeepInvariant, AtomicLoop
<1>2. /\ mark[o] = "gray" /\ o \in Listed
      /\ mark'[o] = IF Requeued(o) \/ StaysWeak(o) THEN "gray" ELSE "black"
      /\ \A x \in Obj \ {o} : mark'[x] = mark[x] \/ (IsWhite(x) /\ mark'[x] = Shade(x))
      /\ \A x \in (Scanned(o) \cap Obj) \ {o} : mark'[x] \notin {"white", "dead"}
  BY <1>0, <1>1, TraversalColours
<1>3. \A x \in Obj : \/ mark'[x] = mark[x]
                     \/ mark[x] # "free" /\ mark'[x] \in {"gray", "black"}
  BY <1>2 DEF IsWhite, Shade
<1>4. \A x \in Scanned(o) \cap Obj : ~IsWhite(x)'
  BY <1>2 DEF IsWhite
<1>5. \A c \in Cells : stack'[c] = stack[c] \/ (stack'[c] = NoObj /\ c[2] > top[c[1]])
  BY <1>0 DEF PropagateMark
<1>6. /\ HeapClosed' /\ LiveRoots' /\ FreeEmpty' /\ OpenLinks' /\ ChainAnchored'
      /\ \A y, x \in Obj : Points(y, x)' => Points(y, x)
      /\ \A u \in UpVals : UpValue(u)' = UpValue(u)
      /\ \A y \in Obj : ~IsWhite(y) => ~IsWhite(y)'
  BY <1>0, <1>1, <1>3, <1>5, MarkingStepKeeps
<1>7. PICK X : X = Scanned(o)
  OBVIOUS
<1>8. \A y \in Obj \ {o} : mark'[y] = Shaded(X)[y]
  BY <1>0, <1>7, MarkingTypes DEF PropagateMark
<1>9. PICK O \in SUBSET Listed : O = {o}
  BY <1>2
<1>10. BlackClosed'
  <2>1. ASSUME NEW x \in Obj, Black(o)', Points(o, x)' PROVE ~IsWhite(x)'
    <3>1. ~Requeued(o) /\ ~StaysWeak(o)
      BY <1>2, <2>1 DEF Black
    <3>2. o \in Threads => ClearsStack(o)
      BY <3>1 DEF Requeued, ClearsStack
    <3>. QED BY <1>0, <1>2, <1>4, <2>1, <3>1, <3>2, ScannedAll
  <2>2. /\ O \in SUBSET Obj /\ \A y \in Obj \ O : mark'[y] = Shaded(X)[y]
        /\ \A y \in O : /\ mark'[y] \in {"gray", "black"}
                        /\ \A x \in Obj : Black(y)' /\ Points(y, x)' => ~IsWhite(x)'
    BY <1>2, <1>8, <1>9, <2>1
  <2>3. BlackClosed
    BY DEF HeapInv, References
  <2>. QED BY <1>1, <1>6, <2>2, <2>3, ShadedBlackClosed
<1>11. AtomicFacts'
  <2>1. ~IsWhite(Registry)'
    BY <1>1, <1>6 DEF HeapInv, References, AtomicFacts
  <2>2. CASE gcstate' \notin AtomicLoop
    BY <2>1, <2>2 DEF AtomicFacts, AtomicLoop
  <2>3. CASE gcstate' \in AtomicLoop
    <3>1. gcstate' = gcstate /\ AtomicPropagate(o)
      BY <2>3 DEF Propagate, AtomicPropagate, AtomicLoop
    <3>2. \A u \in UpVals : mark'[u] = "gray" => NonWhite(UpValue(u))'
      <4>1. \A u \in UpVals : mark[u] = "gray" => NonWhite(UpValue(u)) \/ UpValue(u) \in X
        BY <2>3, <3>1 DEF HeapInv, References, AtomicFacts
      <4>2. \A y \in O : mark'[y] \in {"gray", "black"}
        BY <1>2, <1>9
      <4>3. \A y \in Obj \ O : mark'[y] = Shaded(X)[y]
        BY <1>8, <1>9
      <4>. QED BY <1>6, <4>1, <4>2, <4>3, ShadedUpvals
    <3>3. ASSUME gcstate \in {"remarkweak", "remarkagain"}
          PROVE  /\ ~IsWhite(L)' /\ \A t \in basicmt' : ~IsWhite(t)'
                 /\ \A t \in weak' : \A x \in Scanned(t)' : NonWhite(x)'
      <4>1. ~IsWhite(L) /\ L \in Obj /\ L' = L
        BY <1>0, <3>3, RunningIsActive DEF HeapInv, References, AtomicFacts, L
      <4>2. ~IsWhite(L)'
        BY <1>6, <4>1 DEF IsWhite
      <4>3. \A t \in basicmt' : ~IsWhite(t)'
        BY <1>0, <1>6, <3>3 DEF HeapInv, References, AtomicFacts, TypeOK
      <4>4. ASSUME NEW t \in weak', NEW x \in Scanned(t)' PROVE NonWhite(x)'
        <5>1. t \in Tables /\ (t \in weak \/ t = o)
          BY <1>0 DEF PropagateMark, TypeOK
        <5>2. x \in Scanned(t)
          BY <1>0, <4>4, <5>1 DEF Scanned, TableMode
        <5>3. x \in Ref
          BY <5>1, <5>2, SMTT(30) DEF Scanned, TypeOK
        <5>4. CASE t \in weak
          <6>1. NonWhite(x)
            BY <3>3, <5>2, <5>4 DEF HeapInv, References, AtomicFacts
          <6>. QED BY <1>6, <5>3, <6>1 DEF NonWhite, Ref
        <5>5. CASE t = o
          BY <1>4, <5>2, <5>3, <5>5 DEF NonWhite, Ref
        <5>. QED BY <5>1, <5>4, <5>5
      <4>. QED BY <4>2, <4>3, <4>4
    <3>4. ASSUME gcstate = "remarkagain", NEW y \in grayagain'
          PROVE  y \in Threads /\ \A x \in Obj : Points(y, x)' => ~IsWhite(x)'
      <4>1. CASE y \in grayagain
        <5>1. y \in Threads /\ \A x \in Obj : Points(y, x) => ~IsWhite(x)
          BY <3>4, <4>1 DEF HeapInv, References, AtomicFacts
        <5>. QED BY <1>6, <5>1
      <4>2. CASE y \notin grayagain
        <5>1. y = o /\ Requeued(o)
          BY <3>1, <3>4, <4>2 DEF AtomicPropagate, AgainAfter
        <5>2. o \in Threads /\ ClearsStack(o) /\ ~StaysWeak(o)
          BY <3>4, <5>1 DEF Requeued, ClearsStack, StaysWeak, AtomicLoop
        <5>. QED BY <1>0, <1>2, <1>4, <5>1, <5>2, ScannedAll
      <4>. QED BY <4>1, <4>2
    <3>. QED BY <2>1, <3>1, <3>2, <3>3, <3>4 DEF AtomicFacts
  <2>. QED BY <2>2, <2>3
<1>. QED BY <1>6, <1>10, <1>11 DEF HeapInv, References

\* The three loops of the atomic step, up to their marks.
LEMMA AtomicKeeps ==
  ASSUME TypeOK, TypeOK', RefKinds, ColourInv, HeapInv,
         AtomicUpvals \/ AtomicWeak \/ AtomicAgain
  PROVE  HeapInv'
<1>. USE Kinds, Disjoint
<1>1. /\ Marking /\ gcstate # "sweep"
      /\ UNCHANGED <<tab, entries, mode, uprefs, open, value, stack, top, chain, basicmt>>
  BY DEF AtomicUpvals, AtomicWeak, AtomicAgain, heap, Marking, KeepInvariant, AtomicLoop
<1>2. \E X : /\ mark' = Shaded(X)
             /\ AtomicUpvals => X = {UpValue(u) : u \in {v \in UpVals : IsOpen(v) /\ mark[v] = "gray"}}
             /\ AtomicWeak => X = {L} \cup basicmt
  <2>1. CASE AtomicUpvals
    <3>1. ~AtomicWeak
      BY <2>1 DEF AtomicUpvals, AtomicWeak
    <3>. QED BY <2>1, <3>1 DEF AtomicUpvals, MarkObjects
  <2>2. CASE AtomicWeak
    <3>1. ~AtomicUpvals
      BY <2>2 DEF AtomicUpvals, AtomicWeak
    <3>. QED BY <2>2, <3>1 DEF AtomicWeak
  <2>3. CASE AtomicAgain
    <3>1. ~AtomicWeak /\ ~AtomicUpvals
      BY <2>3 DEF AtomicUpvals, AtomicWeak, AtomicAgain
    <3>2. mark' = Shaded({})
      BY <2>3, ShadingNothing DEF AtomicAgain
    <3>. QED BY <3>1, <3>2
  <2>. QED BY <2>1, <2>2, <2>3
<1>3. PICK X : /\ mark' = Shaded(X)
               /\ AtomicUpvals => X = {UpValue(u) : u \in {v \in UpVals : IsOpen(v) /\ mark[v] = "gray"}}
               /\ AtomicWeak => X = {L} \cup basicmt
  BY <1>2
<1>4. \A o \in Obj : \/ mark'[o] = mark[o]
                     \/ mark[o] # "free" /\ mark'[o] \in {"gray", "black"}
  BY <1>3, Shading DEF IsWhite, Shade
<1>5. /\ HeapClosed' /\ LiveRoots' /\ FreeEmpty' /\ OpenLinks' /\ ChainAnchored'
      /\ \A o, x \in Obj : Points(o, x)' => Points(o, x)
      /\ \A u \in UpVals : UpValue(u)' = UpValue(u)
      /\ \A o \in Obj : ~IsWhite(o) => ~IsWhite(o)'
  BY <1>1, <1>4, MarkingStepKeeps
<1>6. PICK O \in SUBSET Listed : O = {}
  OBVIOUS
<1>7. O \in SUBSET Obj /\ \A y \in Obj \ O : mark'[y] = Shaded(X)[y]
  BY <1>3, <1>6
<1>8. BlackClosed'
  BY <1>1, <1>5, <1>6, <1>7, ShadedBlackClosed DEF HeapInv, References
<1>9. \A u \in UpVals : mark'[u] = "gray" => NonWhite(UpValue(u))'
  <2>1. ASSUME NEW u \in UpVals, mark[u] = "gray" PROVE NonWhite(UpValue(u)) \/ UpValue(u) \in X
    <3>1. CASE AtomicUpvals
      <4>1. IsOpen(u)
        BY <2>1 DEF ColourInv, GrayKinds
      <4>. QED BY <1>3, <2>1, <3>1, <4>1
    <3>2. CASE AtomicWeak \/ AtomicAgain
      BY <2>1, <3>2 DEF AtomicWeak, AtomicAgain, HeapInv, References, AtomicFacts, AtomicLoop
    <3>. QED BY <3>1, <3>2
  <2>. QED BY <1>5, <1>6, <1>7, <2>1, ShadedUpvals
<1>10. AtomicFacts'
  <2>1. ~IsWhite(Registry)'
    BY <1>1, <1>5 DEF HeapInv, References, AtomicFacts
  <2>2. L \in Obj /\ L' = L
    BY <1>1, RunningIsActive DEF L
  <2>3. CASE AtomicUpvals
    BY <1>9, <2>1, <2>3 DEF AtomicUpvals, AtomicFacts
  <2>4. CASE AtomicWeak
    <3>1. ~IsWhite(L)'
      BY <1>3, <2>2, <2>4, Shading DEF IsWhite
    <3>2. \A t \in basicmt' : ~IsWhite(t)'
      BY <1>1, <1>3, <2>4, Shading DEF IsWhite, TypeOK
    <3>3. gcstate' = "remarkweak" /\ weak' = {}
      BY <2>4 DEF AtomicWeak
    <3>. QED BY <1>9, <2>1, <3>1, <3>2, <3>3 DEF AtomicFacts
  <2>5. CASE AtomicAgain
    <3>1. /\ gcstate = "remarkweak" /\ gcstate' = "remarkagain"
          /\ weak' = weak /\ grayagain' = {} /\ mark' = mark
      BY <2>5 DEF AtomicAgain
    <3>2. /\ ~IsWhite(L) /\ \A t \in basicmt : ~IsWhite(t)
          /\ \A t \in weak : \A x \in Scanned(t) : NonWhite(x)
      BY <3>1 DEF HeapInv, References, AtomicFacts
    <3>3. ~IsWhite(L)' /\ \A t \in basicmt' : ~IsWhite(t)'
      BY <1>1, <2>2, <3>1, <3>2 DEF IsWhite
    <3>4. ASSUME NEW t \in weak' PROVE \A x \in Scanned(t)' : NonWhite(x)'
      <4>1. t \in weak /\ t \in Tables
        BY <3>1 DEF TypeOK
      <4>2. \A x \in Scanned(t)' : x \in Scanned(t)
        BY <1>1, <4>1 DEF Scanned, TableMode
      <4>. QED BY <3>1, <3>2, <4>1, <4>2 DEF NonWhite, IsWhite
    <3>. QED BY <1>9, <2>1, <3>1, <3>3, <3>4 DEF AtomicFacts
  <2>. QED BY <2>3, <2>4, <2>5
<1>. QED BY <1>5, <1>8, <1>10 DEF HeapInv, References

\* When marking ends, the resumed threads are marked: each is referred to by
\* the stack of the one before.
LEMMA ResumedAreMarked ==
  ASSUME TypeOK, ColourInv, HeapInv, gcstate = "remarkagain", gray = {}
  PROVE  \A i \in 1 .. Len(chain) : ~IsWhite(chain[i])
<1>. USE Kinds, Disjoint
<1>. DEFINE bad == {i \in Nat : i \in 1 .. Len(chain) /\ IsWhite(chain[i])}
<1>. SUFFICES ASSUME bad # {} PROVE FALSE
  BY DEF TypeOK
<1>1. PICK i \in bad : \A j \in bad : i <= j
  BY Least
<1>2. i \in 1 .. Len(chain) /\ IsWhite(chain[i]) /\ Len(chain) \in Nat
  BY <1>1 DEF TypeOK
<1>3. Marking
  BY DEF Marking, AtomicLoop
<1>4. i # 1
  BY <1>2, <1>3 DEF HeapInv, ChainAnchored, ColourInv, MainFacts, NonWhite
<1>5. PICK j \in Nat : j = i - 1
  BY <1>1
<1>6. j \in 1 .. Len(chain) /\ j \in 1 .. Len(chain) - 1 /\ j + 1 = i /\ j < i
  BY <1>2, <1>4, <1>5
<1>7. ~IsWhite(chain[j])
  <2>1. j \notin bad
    BY <1>1, <1>6
  <2>. QED BY <1>6, <2>1
<1>8. chain[j] \in Threads /\ Live(chain[j]) /\ ~Black(chain[j])
  BY <1>3, <1>6, ActiveThreads, RunningIsActive DEF HeapInv, References
<1>9. mark[chain[j]] = "gray"
  BY <1>7, <1>8 DEF Live, IsWhite, Black
<1>10. chain[j] \in grayagain
  BY <1>3, <1>8, <1>9 DEF ColourInv, GrayLists, Listed, TypeOK
<1>11. chain[i] \in Threads /\ Points(chain[j], chain[i])
  <2>1. stack[<<chain[j], top[chain[j]]>>] = chain[i] /\ top[chain[j]] \in Slots
    BY <1>6, Anchors DEF HeapInv, ChainAnchored
  <2>. QED BY <1>2, <1>8, <2>1, RunningIsActive DEF Points
<1>. QED BY <1>2, <1>10, <1>11 DEF HeapInv, References, AtomicFacts

\* At the flip no live object refers to a white one but over weak entries, which
\* are cleared.
LEMMA FlipKeeps ==
  ASSUME TypeOK, TypeOK', RefKinds, ColourInv, HeapInv, AtomicFlip
  PROVE  HeapInv'
<1>. USE Kinds, Disjoint
<1>1. PICK kept : kept = Strings \cap UNION {LookedAt(t) : t \in weak}
  OBVIOUS
<1>2. /\ gcstate = "remarkagain" /\ gray = {} /\ gcstate' = "sweep" /\ Marking
      /\ UNCHANGED <<tab, uprefs, open, value, stack, top, chain, basicmt>>
      /\ \A o \in Obj : mark'[o] = IF IsWhite(o) /\ o \in kept THEN "gray"
                                   ELSE IF mark[o] = "white" THEN "dead"
                                   ELSE IF mark[o] = "dead" THEN "white"
                                   ELSE mark[o]
      /\ entries' = [t \in Tables |-> IF t \in weak THEN entries[t] \ ClearedEntries(t)
                                                    ELSE entries[t]]
  BY <1>1 DEF AtomicFlip, Marking, AtomicLoop
<1>3. \A o \in Obj : mark[o] \in {"free", "white", "gray", "black"}
  BY <1>2 DEF ColourInv, DeadOnlyUnswept, TypeOK, Colours
<1>4. \A o \in Obj : /\ Live(o)' <=> mark[o] \in {"gray", "black"} \/ (IsWhite(o) /\ o \in kept)
                     /\ mark'[o] = "free" <=> mark[o] = "free"
                     /\ Live(o) /\ ~IsWhite(o) => Live(o)'
  BY <1>2, <1>3 DEF Live, IsWhite
<1>5. \A o, x \in Obj : Points(o, x)' => Points(o, x)
  BY <1>2 DEF Points, UpValue, IsOpen
<1>6. ASSUME NEW t \in weak, NEW x \in Obj, Points(t, x)' PROVE Live(x)'
  <2>1. t \in Tables /\ Live(t) /\ \A y \in Scanned(t) : NonWhite(y)
    BY <1>2 DEF HeapInv, References, AtomicFacts, ColourInv, GrayLists, TypeOK, Live
  <2>2. Live(x)
    BY <1>5, <1>6, <2>1 DEF HeapInv, References, HeapClosed
  <2>3. CASE x = tab[t]
    <3>1. NonWhite(x)
      BY <2>1, <2>3 DEF Scanned
    <3>. QED BY <1>4, <2>2, <3>1 DEF NonWhite
  <2>4. CASE \E e \in entries'[t] : x = e[1] \/ x = e[2]
    <3>1. PICK e \in entries'[t] : x = e[1] \/ x = e[2]
      BY <2>4
    <3>2. e \in entries[t] /\ ~IsCleared(e[1]) /\ ~IsCleared(e[2])
      BY <1>2, <2>1, <3>1 DEF ClearedEntries
    <3>3. CASE x \in Strings
      <4>1. x \in LookedAt(t)
        BY <3>1, <3>2 DEF LookedAt
      <4>2. x \in kept
        BY <1>1, <3>3, <4>1
      <4>. QED BY <1>4, <2>2, <4>2
    <3>4. CASE x \notin Strings
      <4>1. ~IsWhite(x)
        BY <3>1, <3>2, <3>4 DEF IsCleared
      <4>. QED BY <1>4, <2>2, <4>1
    <3>. QED BY <3>3, <3>4
  <2>. QED BY <1>2, <1>6, <2>1, <2>3, <2>4 DEF Points
<1>7. ASSUME NEW o \in Obj, NEW x \in Obj, Live(o)', Points(o, x)' PROVE Live(x)'
  <2>1. o \notin Strings
    BY <1>5, <1>7 DEF Points, RefKinds
  <2>2. mark[o] \in {"gray", "black"} /\ Points(o, x)
    BY <1>1, <1>4, <1>5, <1>7, <2>1
  <2>3. Live(x)
    BY <2>2 DEF Live, HeapInv, References, HeapClosed
  <2>4. CASE mark[o] = "black"
    <3>1. ~IsWhite(x)
      BY <1>2, <2>2, <2>4 DEF HeapInv, References, BlackClosed, Black
    <3>. QED BY <1>4, <2>3, <3>1
  <2>5. CASE mark[o] = "gray" /\ o \in Listed
    <3>1. o \in grayagain \cup weak
      BY <1>2, <2>5 DEF ColourInv, GrayLists
    <3>2. CASE o \in weak
      BY <1>6, <1>7, <3>2
    <3>3. CASE o \in grayagain
      <4>1. ~IsWhite(x)
        BY <1>2, <2>2, <3>3 DEF HeapInv, References, AtomicFacts
      <4>. QED BY <1>4, <2>3, <4>1
    <3>. QED BY <3>1, <3>2, <3>3
  <2>6. CASE mark[o] = "gray" /\ o \notin Listed
    <3>1. o \in UpVals
      BY <2>1, <2>6 DEF ColourInv, GrayKinds, Obj, Listed
    <3>2. x = UpValue(o)
      BY <2>2, <3>1 DEF Points, RefKinds
    <3>3. NonWhite(x)
      BY <1>2, <2>6, <3>1, <3>2 DEF HeapInv, References, AtomicFacts, AtomicLoop
    <3>. QED BY <1>4, <2>3, <3>3 DEF NonWhite
  <2>. QED BY <2>2, <2>4, <2>5, <2>6
<1>8. HeapClosed'
  BY <1>7 DEF HeapClosed
<1>9. LiveRoots'
  <2>1. /\ ~IsWhite(MainThread) /\ ~IsWhite(Registry) /\ \A t \in basicmt : ~IsWhite(t)
        /\ Live(MainThread) /\ Live(Registry) /\ \A t \in basicmt : Live(t) /\ t \in Obj
    BY <1>2 DEF ColourInv, MainFacts, NonWhite, HeapInv, References, AtomicFacts, LiveRoots, TypeOK
  <2>2. \A i \in 1 .. Len(chain) : ~IsWhite(chain[i]) /\ Live(chain[i]) /\ chain[i] \in Obj
    BY <1>2, ResumedAreMarked DEF HeapInv, References, LiveRoots, TypeOK
  <2>. QED BY <1>2, <1>4, <2>1, <2>2 DEF LiveRoots
<1>10. FreeEmpty'
  BY <1>2, <1>4, <1>5 DEF FreeEmpty, HeapInv, References
<1>11. BlackClosed' /\ AtomicFacts'
  BY <1>2 DEF BlackClosed, AtomicFacts, Marking, KeepInvariant, AtomicLoop
<1>12. OpenLinks'
  <2>1. ASSUME NEW u \in UpVals, IsOpen(u) PROVE open[u][1] \in Obj
    BY <2>1 DEF TypeOK, IsOpen, Cells
  <2>. QED BY <1>2, <1>4, <2>1 DEF OpenLinks, HeapInv, IsOpen, Allocated
<1>13. ChainAnchored'
  BY <1>2 DEF ChainAnchored, HeapInv, NotCaptured
<1>. QED BY <1>8, <1>9, <1>10, <1>11, <1>12, <1>13 DEF HeapInv, References

\* A full collection abandons a mark phase without harm.
LEMMA FullGCKeeps ==
  ASSUME TypeOK, TypeOK', HeapInv, FullGC
  PROVE  HeapInv'
<1>1. gcstate' = "sweep" /\ UNCHANGED mark
      /\ UNCHANGED <<tab, entries, mode, uprefs, open, value, stack, top, chain, basicmt>>
  BY DEF FullGC, heap
<1>2. \A o, x : Points(o, x)' <=> Points(o, x)
  BY <1>1 DEF Points, UpValue, IsOpen
<1>3. HeapClosed' /\ LiveRoots' /\ FreeEmpty'
  BY <1>1, <1>2 DEF HeapClosed, LiveRoots, FreeEmpty, HeapInv, References, Live
<1>4. BlackClosed' /\ AtomicFacts'
  BY <1>1 DEF BlackClosed, AtomicFacts, Marking, KeepInvariant, AtomicLoop
<1>5. OpenLinks' /\ ChainAnchored'
  BY <1>1 DEF OpenLinks, ChainAnchored, HeapInv, IsOpen, Allocated, NotCaptured
<1>. QED BY <1>3, <1>4, <1>5 DEF HeapInv, References

\* Freeing a dead object clears what it refers to and what refers into it: the
\* upvalues open on its stack, or its own link.
LEMMA SweepKeeps ==
  ASSUME TypeOK, TypeOK', RefKinds, ColourInv, HeapInv, NEW o \in unswept, Sweep(o)
  PROVE  HeapInv'
<1>. USE Kinds, Disjoint
<1>1. PICK U \in SUBSET UpVals :
             U = IF IsDead(o) /\ o \in Threads THEN Opened(o, 1)
                 ELSE IF IsDead(o) /\ o \in UpVals THEN {o} ELSE {}
  BY DEF Opened
<1>2. /\ gcstate = "sweep" /\ o \in Obj /\ o # MainThread /\ mark[o] # "free"
      /\ gcstate \notin AtomicLoop /\ ~KeepInvariant
      /\ gcstate' \in {"sweep", "pause"} /\ UNCHANGED <<chain, basicmt>>
      /\ CloseUpvals(U)
  BY <1>1 DEF Sweep, TypeOK, ColourInv, MainFacts, SweepFacts, AtomicLoop, KeepInvariant
<1>3. /\ \A x \in Obj : \/ CloseMark(U)[x] = mark[x]
                        \/ mark[x] = "gray" /\ CloseMark(U)[x] = "white"
      /\ CloseMark(U) \in [Obj -> Colours]
  BY <1>2, Closing, ClosingTypes
<1>4. PICK swept \in [Obj -> Colours] :
             swept = [CloseMark(U) EXCEPT ![o] = IF IsDead(o) THEN "free" ELSE "white"]
  BY <1>3 DEF Colours
<1>5. \/ mark' = swept
      \/ mark' = [swept EXCEPT ![MainThread] = "white"]
  BY <1>1, <1>4 DEF Sweep
<1>6. Live(MainThread)
  BY DEF HeapInv, References, LiveRoots
<1>7. \A x \in Obj : IF x = o THEN mark'[x] = IF IsDead(o) THEN "free" ELSE "white"
                              ELSE \/ mark'[x] = mark[x]
                                   \/ Live(x) /\ mark'[x] = "white"
  BY <1>2, <1>3, <1>4, <1>5, <1>6 DEF Live
<1>8. /\ \A x \in Obj : Live(x) => Live(x)'
      /\ \A x \in Obj : Live(x)' => Live(x)
      /\ \A x \in Obj : mark'[x] = "free" => mark[x] = "free" \/ (x = o /\ IsDead(o))
      /\ \A x \in Obj : mark[x] # "free" => mark'[x] # "free" \/ (x = o /\ IsDead(o))
  BY <1>2, <1>7 DEF Live, IsDead, TypeOK, Colours
<1>9. /\ \A x \in Obj : tab'[x] = IF IsDead(o) /\ x = o THEN NoObj ELSE tab[x]
      /\ \A t \in Tables : entries'[t] = IF IsDead(o) /\ t = o THEN {} ELSE entries[t]
      /\ \A c \in Closures : uprefs'[c] = IF IsDead(o) /\ c = o THEN {} ELSE uprefs[c]
      /\ \A c \in Cells : stack'[c] = IF IsDead(o) /\ c[1] = o THEN NoObj ELSE stack[c]
      /\ \A th \in Threads : top'[th] = IF IsDead(o) /\ th = o THEN 0 ELSE top[th]
  BY <1>2 DEF Sweep, TypeOK
<1>10. ASSUME NEW u \in UpVals
       PROVE  \/ open'[u] = NoObj
              \/ /\ open'[u] = open[u] /\ open[u] \in Cells
                 /\ IsDead(o) => open[u][1] # o /\ u # o
  <2>1. open'[u] = IF u \in U THEN NoObj ELSE open[u]
    BY <1>2 DEF CloseUpvals
  <2>2. CASE u \notin U /\ open[u] # NoObj
    <3>1. PICK h \in Threads, i \in Slots : open[u] = <<h, i>>
      <4>1. open[u] \in Threads \X Slots
        BY <2>2 DEF TypeOK, Cells
      <4>. QED BY <4>1
    <3>2. i >= 1
      BY DEF Slots
    <3>3. ASSUME IsDead(o), h = o PROVE FALSE
      <4>1. open[u][1] = o /\ open[u][2] >= 1
        BY <3>1, <3>2, <3>3
      <4>2. u \in Opened(o, 1)
        BY <2>2, <4>1 DEF Opened, IsOpen
      <4>. QED BY <1>1, <2>2, <3>3, <4>2
    <3>4. IsDead(o) => u # o
      BY <1>1, <2>2
    <3>. QED BY <2>1, <2>2, <3>1, <3>3, <3>4 DEF Cells
  <2>. QED BY <2>1, <2>2
<1>11. ASSUME NEW u \in UpVals
       PROVE  UpValue(u)' = UpValue(u) \/ UpValue(u)' = NoObj
  <2>1. CASE open'[u] = NoObj
    <3>1. UpValue(u)' = value'[u]
      BY <2>1 DEF UpValue, IsOpen
    <3>2. CASE u \in U
      BY <1>2, <3>1, <3>2 DEF CloseUpvals
    <3>3. CASE u \notin U
      <4>1. open[u] = NoObj /\ value'[u] = value[u]
        BY <1>2, <2>1, <3>3 DEF CloseUpvals
      <4>. QED BY <3>1, <4>1 DEF UpValue, IsOpen
    <3>. QED BY <3>2, <3>3
  <2>2. CASE open'[u] # NoObj
    <3>1. open'[u] = open[u] /\ open[u] \in Cells /\ (IsDead(o) => open[u][1] # o)
      BY <1>10, <2>2
    <3>2. stack'[open[u]] = stack[open[u]]
      BY <1>9, <3>1
    <3>. QED BY <2>2, <3>1, <3>2 DEF UpValue, IsOpen
  <2>. QED BY <2>1, <2>2
<1>12. ASSUME NEW y \in Obj, NEW x \in Obj, Points(y, x)' PROVE Points(y, x)
  <2>1. CASE y \in Threads /\ \E i \in Slots : x = stack'[<<y, i>>]
    <3>1. PICK i \in Slots : x = stack'[<<y, i>>]
      BY <2>1
    <3>2. <<y, i>> \in Cells
      BY <2>1 DEF Cells
    <3>3. x = stack[<<y, i>>]
      BY <1>9, <3>1, <3>2
    <3>. QED BY <2>1, <3>3 DEF Points
  <2>2. CASE y \in UpVals /\ x = UpValue(y)'
    BY <1>11, <2>2 DEF Points
  <2>3. CASE ~(y \in Threads /\ \E i \in Slots : x = stack'[<<y, i>>]) /\ ~(y \in UpVals /\ x = UpValue(y)')
    BY <1>9, <1>12, <2>3 DEF Points
  <2>. QED BY <2>1, <2>2, <2>3
<1>13. ASSUME IsDead(o), NEW x \in Obj PROVE ~Points(o, x)'
  <2>1. CASE o \in Threads
    <3>1. \A i \in Slots : <<o, i>> \in Cells /\ <<o, i>>[1] = o
      BY <2>1 DEF Cells
    <3>2. \A i \in Slots : stack'[<<o, i>>] = NoObj
      BY <1>9, <1>13, <3>1
    <3>3. tab'[o] = NoObj /\ x # NoObj /\ o \notin Tables \cup Closures \cup UpVals
      BY <1>2, <1>9, <1>13, <2>1
    <3>. QED BY <2>1, <3>2, <3>3 DEF Points
  <2>2. CASE o \in UpVals
    <3>1. open'[o] = NoObj /\ value'[o] = NoObj
      BY <1>1, <1>2, <1>13, <2>2 DEF CloseUpvals
    <3>. QED BY <1>9, <1>13, <2>2, <3>1 DEF Points, UpValue, IsOpen
  <2>3. CASE o \notin Threads \cup UpVals
    <3>1. /\ tab'[o] = NoObj /\ x # NoObj
          /\ o \in Tables => entries'[o] = {}
          /\ o \in Closures => uprefs'[o] = {}
      BY <1>2, <1>9, <1>13
    <3>. QED BY <2>3, <3>1 DEF Points
  <2>. QED BY <2>1, <2>2, <2>3
<1>14. HeapClosed'
  BY <1>8, <1>12 DEF HeapClosed, HeapInv, References
<1>15. LiveRoots'
  <2>1. basicmt \subseteq Obj /\ chain \in Seq(Threads)
    BY DEF TypeOK
  <2>2. \A i \in 1 .. Len(chain) : chain[i] \in Obj
    BY <2>1
  <2>3. LiveRoots
    BY DEF HeapInv, References
  <2>. QED BY <1>2, <1>8, <2>1, <2>2, <2>3 DEF LiveRoots
<1>16. FreeEmpty'
  BY <1>2, <1>8, <1>9, <1>12, <1>13 DEF FreeEmpty, HeapInv, References
<1>17. BlackClosed' /\ AtomicFacts'
  BY <1>2 DEF BlackClosed, AtomicFacts, Marking, KeepInvariant, AtomicLoop
<1>18. OpenLinks'
  <2>. SUFFICES ASSUME NEW u \in UpVals, open'[u] # NoObj
                PROVE  /\ mark'[u] # "free" /\ mark'[open'[u][1]] # "free"
                       /\ open'[u][2] <= top'[open'[u][1]]
                       /\ \A v \in UpVals : open'[v] = open'[u] => v = u
    BY DEF OpenLinks, IsOpen, Allocated
  <2>1. open'[u] = open[u] /\ open[u] \in Cells /\ (IsDead(o) => open[u][1] # o /\ u # o)
    BY <1>10
  <2>2. open[u][1] \in Threads
    BY <2>1 DEF Cells
  <2>3. /\ mark[u] # "free" /\ mark[open[u][1]] # "free" /\ open[u][2] <= top[open[u][1]]
        /\ \A v \in UpVals : open[v] = open[u] => v = u
    BY <2>1 DEF HeapInv, OpenLinks, IsOpen, Allocated
  <2>4. \A v \in UpVals : open'[v] = open'[u] => v = u
    BY <1>10, <2>1, <2>3
  <2>5. top'[open[u][1]] = top[open[u][1]]
    BY <1>9, <2>1, <2>2
  <2>. QED BY <1>8, <2>1, <2>2, <2>3, <2>4, <2>5
<1>19. ChainAnchored'
  <2>1. ASSUME NEW i \in 1 .. Len(chain) - 1
        PROVE  /\ top'[chain[i]] = top[chain[i]]
               /\ stack'[<<chain[i], top[chain[i]]>>] = stack[<<chain[i], top[chain[i]]>>]
    <3>1. chain[i] \in Threads /\ Active(chain[i]) /\ <<chain[i], top[chain[i]]>> \in Cells
      BY Anchors DEF HeapInv
    <3>2. Live(chain[i])
      BY <3>1, ActiveThreads DEF HeapInv, References
    <3>3. IsDead(o) => chain[i] # o
      BY <3>2 DEF Live, IsDead
    <3>. QED BY <1>9, <3>1, <3>3
  <2>2. \A th \in Threads : top'[th] >= 0
    BY <1>9 DEF HeapInv, ChainAnchored
  <2>3. PICK l : l = L
    OBVIOUS
  <2>4. \A u \in UpVals : open'[u] = open[u] \/ open'[u] = NoObj
    BY <1>10
  <2>. QED BY <1>2, <2>1, <2>2, <2>3, <2>4, ChainKept DEF HeapInv
<1>. QED BY <1>14, <1>15, <1>16, <1>17, <1>18, <1>19 DEF HeapInv, References

\* The first state of the runtime has a closed heap.
LEMMA InitHeap == Init => HeapInv
<1>. SUFFICES ASSUME Init PROVE HeapInv OBVIOUS
<1>. USE Kinds, Disjoint DEF Init
<1>1. ASSUME NEW o \in Obj, NEW x \in Obj, Points(o, x) PROVE o = MainThread /\ x = Globals
  <2>1. \A c \in Cells : stack[c] = NoObj
    OBVIOUS
  <2>2. o \in Threads => \A i \in Slots : stack[<<o, i>>] = NoObj
    BY <2>1 DEF Cells
  <2>3. o \in UpVals => UpValue(o) = NoObj
    BY DEF UpValue, IsOpen
  <2>. QED BY <1>1, <2>2, <2>3 DEF Points
<1>2. HeapClosed /\ FreeEmpty
  <2>1. Globals \in Obj /\ Live(Globals) /\ MainThread \in Obj /\ mark[MainThread] = "white"
    BY DEF Live
  <2>. QED BY <1>1, <2>1 DEF HeapClosed, FreeEmpty
<1>3. LiveRoots
  BY DEF LiveRoots, Live
<1>4. BlackClosed /\ AtomicFacts
  BY DEF BlackClosed, AtomicFacts, Marking, KeepInvariant, AtomicLoop
<1>5. OpenLinks
  BY DEF OpenLinks, IsOpen
<1>6. ChainAnchored
  BY DEF ChainAnchored
<1>. QED BY <1>2, <1>3, <1>4, <1>5, <1>6 DEF HeapInv, References

\* Every step keeps the heap right.
LEMMA NextHeap ==
  ASSUME TypeOK, TypeOK', RefKinds, RefKinds', ColourInv, ColourInv', HeapInv, [Next]_vars
  PROVE  HeapInv'
<1>1. CASE Collect
  <2>1. ASSUME NEW o \in gray, Propagate(o) \/ AtomicPropagate(o) PROVE HeapInv'
    BY <2>1, PropagateKeeps
  <2>2. ASSUME NEW o \in unswept, Sweep(o) PROVE HeapInv'
    BY <2>2, SweepKeeps
  <2>. QED BY <1>1, <2>1, <2>2, MarkRootKeeps, AtomicKeeps, FlipKeeps DEF Collect
<1>2. CASE FullGC
  BY <1>2, FullGCKeeps
<1>3. CASE Mutate
  BY <1>3, MutateKeeps
<1>4. CASE UNCHANGED vars
  <2>1. UNCHANGED <<mark, tab, entries, mode, uprefs, open, value, stack, top, chain, basicmt,
                    gcstate, gray, grayagain, weak, unswept, sleeping, full>>
    BY <1>4 DEF vars, heap, gc
  <2>2. \A o, x : Points(o, x)' <=> Points(o, x)
    BY <2>1 DEF Points, UpValue, IsOpen
  <2>3. HeapClosed' /\ LiveRoots' /\ BlackClosed' /\ FreeEmpty'
    BY <2>1, <2>2 DEF HeapClosed, LiveRoots, BlackClosed, FreeEmpty, HeapInv, References, Live,
                      Black, IsWhite, Marking, KeepInvariant
  <2>4. AtomicFacts'
    <3>1. \A t : Scanned(t)' = Scanned(t)
      BY <2>1 DEF Scanned, TableMode, LiveSlots
    <3>2. L' = L /\ Marking' = Marking /\ (\A x : IsWhite(x)' <=> IsWhite(x))
          /\ (\A x : NonWhite(x)' <=> NonWhite(x)) /\ (\A u : UpValue(u)' = UpValue(u))
      BY <2>1 DEF L, Marking, KeepInvariant, IsWhite, NonWhite, UpValue, IsOpen
    <3>. QED BY <2>1, <2>2, <3>1, <3>2 DEF AtomicFacts, HeapInv, References
  <2>5. OpenLinks' /\ ChainAnchored'
    BY <2>1 DEF OpenLinks, ChainAnchored, HeapInv, IsOpen, Allocated, NotCaptured
  <2>. QED BY <2>3, <2>4, <2>5 DEF HeapInv, References
<1>. QED BY <1>1, <1>2, <1>3, <1>4 DEF Next

-----------------------------------------------------------------------------
(* The theorems. *)

\* The inductive invariant of the heap, with that of the colours, holds in every
\* reachable state.
THEOREM HeapHolds == Spec => [](RefKinds /\ ColourInv /\ HeapInv)
<1>1. HeapInv /\ RefKinds /\ RefKinds' /\ ColourInv /\ ColourInv' /\ TypeOK /\ TypeOK' /\ [Next]_vars
      => HeapInv'
  BY NextHeap
<1>. QED BY <1>1, InitHeap, ColoursHold, TypeCorrect, PTL DEF Spec

\* Whatever the barriers, the sleeping threads, the weak tables and the atomic
\* step do, no live object ever refers to memory that is freed or about to be.
THEOREM NothingDangles == Spec => []NoDanglingRefs
<1>1. ASSUME TypeOK, RefKinds, ColourInv, HeapInv PROVE NoDanglingRefs
  <2>. USE Kinds, Disjoint
  <2>1. \A o, x \in Obj : Live(o) /\ Points(o, x) => Live(x)
    BY <1>1 DEF HeapInv, References, HeapClosed
  <2>2. LiveHeads
    BY <1>1, <2>1 DEF LiveHeads, LiveRef, Points, TypeOK
  <2>3. LiveEntries
    <3>. SUFFICES ASSUME NEW t \in Tables, Live(t), NEW e \in entries[t]
                  PROVE  LiveRef(e[1]) /\ LiveRef(e[2])
      BY DEF LiveEntries
    <3>1. e[1] \in Ref /\ e[2] \in Ref
      BY <1>1 DEF TypeOK
    <3>. QED BY <2>1, <3>1 DEF LiveRef, Points, Ref
  <2>4. LiveCaptures
    BY <1>1, <2>1 DEF LiveCaptures, LiveRef, Points, TypeOK, Ref
  <2>5. LiveStacks
    <3>. SUFFICES ASSUME NEW th \in Threads, NEW i \in Slots, Live(th)
                  PROVE  LiveRef(stack[<<th, i>>])
      BY DEF LiveStacks, Cells
    <3>1. stack[<<th, i>>] \in Ref
      BY <1>1 DEF TypeOK, Cells
    <3>. QED BY <2>1, <3>1 DEF LiveRef, Points, Ref
  <2>6. LiveValues
    <3>1. \A u \in UpVals : UpValue(u) \in Ref
      BY <1>1 DEF UpValue, IsOpen, TypeOK
    <3>. QED BY <2>1, <3>1 DEF LiveValues, LiveRef, Points, Ref
  <2>7. LiveRoots
    BY <1>1 DEF HeapInv, References
  <2>. QED BY <2>2, <2>3, <2>4, <2>5, <2>6, <2>7 DEF NoDanglingRefs
<1>. QED BY <1>1, HeapHolds, TypeCorrect, PTL

\* The tri-colour invariant that the write barriers are there for.
THEOREM BlackNeverToWhite == Spec => []BlackNotToWhite
<1>1. ASSUME TypeOK, RefKinds, ColourInv, HeapInv PROVE BlackNotToWhite
  <2>. USE Kinds, Disjoint
  <2>. SUFFICES ASSUME Marking PROVE BlackNotToWhite
    BY DEF BlackNotToWhite
  <2>1. \A o, x \in Obj : Black(o) /\ Points(o, x) => ~IsWhite(x)
    BY <1>1 DEF HeapInv, References, BlackClosed
  <2>2. \A o \in Obj : Black(o) => NonWhite(tab[o])
    BY <1>1, <2>1 DEF NonWhite, Points, TypeOK
  <2>3. ASSUME NEW t \in Tables, Black(t), NEW e \in entries[t]
        PROVE  NonWhite(e[1]) /\ NonWhite(e[2])
    <3>1. e[1] \in Ref /\ e[2] \in Ref
      BY <1>1 DEF TypeOK
    <3>. QED BY <2>1, <2>3, <3>1 DEF NonWhite, Points, Ref
  <2>4. \A c \in Closures : Black(c) => \A x \in uprefs[c] : NonWhite(x)
    BY <1>1, <2>1 DEF NonWhite, Points, TypeOK, Ref
  <2>5. ASSUME NEW c \in Cells, Black(c[1]) PROVE NonWhite(stack[c])
    <3>1. PICK th \in Threads, i \in Slots : c = <<th, i>>
      BY DEF Cells
    <3>2. stack[<<th, i>>] \in Ref
      BY <1>1 DEF TypeOK, Cells
    <3>. QED BY <2>1, <2>5, <3>1, <3>2 DEF NonWhite, Points, Ref
  <2>6. ASSUME NEW u \in UpVals, Black(u) PROVE NonWhite(value[u])
    <3>1. UpValue(u) = value[u] /\ value[u] \in Ref
      BY <1>1, <2>6 DEF ColourInv, GrayKinds, Black, UpValue, TypeOK
    <3>. QED BY <2>1, <2>6, <3>1 DEF NonWhite, Points, Ref
  <2>. QED BY <2>2, <2>3, <2>4, <2>5, <2>6 DEF BlackNotToWhite
<1>. QED BY <1>1, HeapHolds, TypeCorrect, PTL

\* An open upvalue is never left behind by the stack it points into, and never
\* black; a closed one is gray at no time while marking.
THEOREM UpvaluesAreLinked == Spec => []OpenUpvals
<1>1. ColourInv /\ HeapInv => OpenUpvals
  BY DEF OpenUpvals, ColourInv, GrayKinds, HeapInv, OpenLinks, Black
<1>. QED BY <1>1, HeapHolds, PTL

\* Every resumed thread is held by the stack of its resumer, however deep the
\* coroutines nest.
THEOREM ResumedAreAnchored == Spec => []ChainAnchored
<1>1. HeapInv => ChainAnchored
  BY DEF HeapInv
<1>. QED BY <1>1, HeapHolds, PTL

\* Only the sweep frees.
LEMMA MutatorFreesNothing ==
  ASSUME TypeOK, ColourInv, Mutate, NEW o \in Obj, mark'[o] = "free"
  PROVE  mark[o] = "free"
<1>. USE Kinds
<1>0. gcstate \notin AtomicLoop
  BY DEF Mutate
<1>1. \A X : Shaded(X)[o] = "free" => mark[o] = "free"
  BY Shading DEF Shade
<1>2. \A U \in SUBSET UpVals : CloseMark(U)[o] = "free" => mark[o] = "free"
  BY <1>0, Closing DEF Shade
<1>3. CASE \E X : MarkObjects(X)
  BY <1>1, <1>3 DEF MarkObjects
<1>4. CASE \E x \in Obj, c \in {"gray", "white"} : mark' = [mark EXCEPT ![x] = c]
  BY <1>4 DEF TypeOK
<1>5. CASE UNCHANGED mark
  BY <1>5
<1>6. CASE \E U \in SUBSET UpVals : mark' = CloseMark(U)
  BY <1>2, <1>6
<1>7. CASE \E s \in Strings : NewString(s)
  BY <1>4, <1>5, <1>7 DEF NewString
<1>8. CASE \E c \in Closures, env \in Envs, u \in UpVals, i \in Slots : NewClosureRef(c, env, u, i)
  BY <1>8 DEF NewClosureRef, TypeOK
<1>9. CASE Allocation
  BY <1>4, <1>7, <1>8, <1>9 DEF Allocation, NewTable, NewUserdata, NewThread, NewClosure, Allocate
<1>10. CASE StackUse
  <2>1. ASSUME NEW i \in Slots, Close(i) PROVE \E U \in SUBSET UpVals : mark' = CloseMark(U)
    BY <2>1 DEF Close, Opened
  <2>. QED BY <1>5, <1>6, <1>10, <2>1 DEF StackUse, Load, RaiseTop, Pop
<1>11. ASSUME NEW x \in Obj, NEW y, NEW X, BarrierT(x, X) \/ BarrierFast(x) \/ BarrierF(x, y) \/ BarrierUpval(x, y)
       PROVE  mark[o] = "free"
  BY <1>3, <1>4, <1>5, <1>11 DEF BarrierT, BarrierFast, BarrierF, BarrierUpval
<1>12. CASE Store
  <2>1. ASSUME NEW u \in Captured, NEW x \in Operands, SetUpval(u, x) PROVE mark[o] = "free"
    BY <1>11, <2>1 DEF SetUpval, Captured
  <2>2. ASSUME NEW c \in Closures, NEW y \in uprefs[c], NEW x \in Operands, SetUpvalue(c, y, x)
        PROVE  mark[o] = "free"
    BY <1>11, <2>2 DEF SetUpvalue
  <2>3. ASSUME NEW t \in Shelves, NEW k \in Keys, NEW x \in Operands, SetTable(t, k, x)
        PROVE  mark[o] = "free"
    BY <1>11, <2>3, BoundsAssumption DEF SetTable
  <2>4. ASSUME NEW t \in Shelves, NEW x \in Operands, SetList(t, x) PROVE mark[o] = "free"
    BY <1>11, <2>4, BoundsAssumption DEF SetList
  <2>5. ASSUME NEW x \in Obj, NEW mt, SetMetatable(x, mt) \/ SetFenv(x, mt) PROVE mark[o] = "free"
    BY <1>11, <2>5 DEF SetMetatable, SetFenv
  <2>6. ASSUME NEW c \in Closures, NEW x \in Operands, DupClosure(c, x) PROVE mark[o] = "free"
    BY <1>11, <2>6 DEF DupClosure
  <2>7. CASE UNCHANGED mark
    BY <2>7
  <2>. QED BY <1>12, <2>1, <2>2, <2>3, <2>4, <2>5, <2>6, <2>7 DEF Store, ClearEntry, SetBasicMetatable,
             SetMode, SetGlobals
<1>13. CASE Coroutine
  <2>1. ASSUME NEW th \in Threads, Wake(th) PROVE mark[o] = "free"
    BY <1>4, <1>5, <2>1 DEF Wake
  <2>2. ASSUME NEW th \in Threads, ResetThread(th) PROVE \E U \in SUBSET UpVals : mark' = CloseMark(U)
    BY <2>2 DEF ResetThread, Opened
  <2>. QED BY <1>5, <1>6, <1>13, <2>1, <2>2 DEF Coroutine, XPush, XPop, Resume, Yield
<1>. QED BY <1>9, <1>10, <1>12, <1>13 DEF Mutate

\* Of the steps of the collector only the sweep of a dead object frees it, and
\* with it no other.
LEMMA CollectorFreesDead ==
  ASSUME TypeOK, ColourInv, Collect, NEW o \in Obj, mark'[o] = "free", mark[o] # "free"
  PROVE  mark[o] = "dead"
<1>. USE Kinds, Disjoint
<1>1. \A X : Shaded(X)[o] = mark[o] \/ Shaded(X)[o] \in {"gray", "black"}
  BY Shading DEF Shade
<1>2. CASE MarkRoot \/ AtomicUpvals \/ AtomicWeak \/ AtomicAgain
  BY <1>1, <1>2 DEF MarkRoot, AtomicUpvals, MarkObjects, AtomicWeak, AtomicAgain
<1>3. CASE \E x \in gray : Propagate(x) \/ AtomicPropagate(x)
  <2>1. PICK x \in gray : PropagateMark(x)
    BY <1>3 DEF Propagate, AtomicPropagate
  <2>2. mark'[o] = Shaded(Scanned(x))[o] \/ mark'[o] \in {"gray", "black"}
    BY <2>1 DEF PropagateMark, Shaded
  <2>. QED BY <1>1, <2>2
<1>4. CASE AtomicFlip
  BY <1>4 DEF AtomicFlip
<1>5. ASSUME NEW x \in unswept, Sweep(x) PROVE mark[o] = "dead"
  <2>1. PICK U \in SUBSET UpVals :
          /\ mark' = IF unswept = {x}
                       THEN [[CloseMark(U) EXCEPT ![x] = IF IsDead(x) THEN "free" ELSE "white"]
                               EXCEPT ![MainThread] = "white"]
                       ELSE [CloseMark(U) EXCEPT ![x] = IF IsDead(x) THEN "free" ELSE "white"]
    <3>. DEFINE closed == IF IsDead(x) /\ x \in Threads THEN Opened(x, 1)
                          ELSE IF IsDead(x) /\ x \in UpVals THEN {x} ELSE {}
    <3>1. closed \in SUBSET UpVals
      BY DEF Opened
    <3>. QED BY <1>5, <3>1 DEF Sweep
  <2>2. gcstate \notin AtomicLoop
    BY <1>5 DEF Sweep, AtomicLoop
  <2>3. CloseMark(U)[o] # "free"
    BY <2>2, Closing DEF Shade
  <2>4. CloseMark(U) = [z \in Obj |-> CloseMark(U)[z]]
    BY DEF CloseMark
  <2>5. CASE o = x
    BY <2>1, <2>4, <2>5 DEF IsDead
  <2>6. CASE o # x
    BY <2>1, <2>3, <2>4, <2>6
  <2>. QED BY <2>5, <2>6
<1>. QED BY <1>2, <1>3, <1>4, <1>5 DEF Collect

\* The live objects witness that a dead one cannot be reached.
LEMMA DeadIsUnreachable ==
  ASSUME TypeOK, ColourInv, HeapInv, NEW o \in Obj, mark[o] = "dead"
  PROVE  Unreachable(o)
<1>. USE Kinds, Disjoint
<1>. DEFINE S == {x \in Obj : Live(x)}
<1>1. S \in SUBSET (Obj \ {o})
  BY DEF Live
<1>2. Roots \subseteq S
  BY DEF Roots, HeapInv, References, LiveRoots, TypeOK
<1>3. ASSUME NEW x \in S, NEW y \in Contents(x) \cap Obj PROVE y \in S
  <2>1. Points(x, y)
    <3>1. CASE x \in Threads /\ y \in LiveSlots(x)
      BY <3>1, LiveSlotsPoint
    <3>2. CASE x \in Tables /\ y \in UNION {{e[1], e[2]} : e \in entries[x]}
      BY <3>2 DEF Points
    <3>3. CASE ~(x \in Threads /\ y \in LiveSlots(x))
               /\ ~(x \in Tables /\ y \in UNION {{e[1], e[2]} : e \in entries[x]})
      BY <1>3, <3>3 DEF Contents, Points
    <3>. QED BY <3>1, <3>2, <3>3
  <2>. QED BY <2>1 DEF HeapInv, References, HeapClosed
<1>. HIDE DEF S
<1>. QED BY <1>1, <1>2, <1>3 DEF Unreachable

\* Sweeping frees an object only when no root reaches it any more, be it over
\* weak references.
THEOREM OnlyGarbageIsFreed == Spec => FreesOnlyGarbage
<1>1. ASSUME TypeOK, ColourInv, HeapInv, [Next]_vars,
             NEW o \in Obj, Allocated(o), ~Allocated(o)'
      PROVE  Unreachable(o)
  <2>1. mark[o] # "free" /\ mark'[o] = "free"
    BY <1>1 DEF Allocated
  <2>2. Collect \/ FullGC \/ Mutate
    BY <1>1, <2>1 DEF Next, vars
  <2>3. ~FullGC
    BY <2>1 DEF FullGC
  <2>4. ~Mutate
    BY <1>1, <2>1, MutatorFreesNothing
  <2>5. mark[o] = "dead"
    BY <1>1, <2>1, <2>2, <2>3, <2>4, CollectorFreesDead
  <2>. QED BY <1>1, <2>5, DeadIsUnreachable
<1>2. TypeOK /\ ColourInv /\ HeapInv /\ [Next]_vars
      => [\A o \in Obj : Allocated(o) /\ ~Allocated(o)' => Unreachable(o)]_vars
  BY <1>1
<1>. QED BY <1>2, HeapHolds, TypeCorrect, PTL DEF Spec, FreesOnlyGarbage

\* Strong references are references.
LEMMA StrongContentsPoint ==
  ASSUME TypeOK, NEW o \in Obj, NEW x \in StrongContents(o)
  PROVE  Points(o, x)
<1>. USE Kinds, Disjoint
<1>1. CASE o \in Threads /\ x \in LiveSlots(o)
  BY <1>1, LiveSlotsPoint
<1>2. CASE o \in Tables /\ \E e \in entries[o] : x = e[1] \/ x = e[2]
  BY <1>2 DEF Points
<1>3. CASE x = tab[o] \/ (o \in Closures /\ x \in uprefs[o]) \/ (o \in UpVals /\ x = UpValue(o))
  BY <1>3 DEF Points
<1>. QED BY <1>1, <1>2, <1>3 DEF StrongContents, Scanned

\* When marking ends, the marked objects witness that a white one is held by
\* weak references at most.
LEMMA WhiteIsWeak ==
  ASSUME TypeOK, RefKinds, ColourInv, HeapInv, gcstate = "remarkagain", gray = {},
         NEW x \in Obj, IsWhite(x)
  PROVE  OnlyWeaklyReachable(x)
<1>. USE Kinds, Disjoint
<1>. DEFINE S == {y \in Obj : mark[y] \in {"gray", "black"}}
<1>0. Marking
  BY DEF Marking, AtomicLoop
<1>1. S \in SUBSET (Obj \ {x})
  BY DEF IsWhite
<1>2. \A y \in Obj : Live(y) /\ ~IsWhite(y) => y \in S
  BY DEF Live, IsWhite
<1>3. Roots \subseteq S
  <2>1. /\ ~IsWhite(MainThread) /\ ~IsWhite(Registry) /\ \A t \in basicmt : ~IsWhite(t)
        /\ Live(MainThread) /\ Live(Registry) /\ \A t \in basicmt : Live(t) /\ t \in Obj
    BY <1>0 DEF ColourInv, MainFacts, NonWhite, HeapInv, References, AtomicFacts, LiveRoots, TypeOK
  <2>2. \A i \in 1 .. Len(chain) : ~IsWhite(chain[i]) /\ Live(chain[i]) /\ chain[i] \in Obj
    BY ResumedAreMarked DEF HeapInv, References, LiveRoots, TypeOK
  <2>. HIDE DEF S
  <2>. QED BY <1>2, <2>1, <2>2 DEF Roots
<1>4. ASSUME NEW o \in S, NEW y \in StrongContents(o) \cap Obj PROVE y \in S
  <2>1. Points(o, y)
    BY <1>4, StrongContentsPoint
  <2>2. Live(y)
    BY <2>1 DEF Live, HeapInv, References, HeapClosed
  <2>3. ~IsWhite(y)
    <3>1. CASE mark[o] = "black"
      BY <1>0, <2>1, <3>1 DEF HeapInv, References, BlackClosed, Black
    <3>2. CASE mark[o] = "gray" /\ o \in Listed
      <4>1. o \in grayagain \cup weak
        BY <1>0, <3>2 DEF ColourInv, GrayLists
      <4>2. CASE o \in weak
        <5>1. o \in Tables /\ y \in Scanned(o)
          BY <4>2 DEF TypeOK, StrongContents
        <5>. QED BY <4>2, <5>1 DEF HeapInv, References, AtomicFacts, NonWhite
      <4>3. CASE o \in grayagain
        BY <2>1, <4>3 DEF HeapInv, References, AtomicFacts
      <4>. QED BY <4>1, <4>2, <4>3
    <3>3. CASE mark[o] = "gray" /\ o \notin Listed
      <4>1. o \notin Strings
        BY <2>1 DEF Points, RefKinds
      <4>2. o \in UpVals
        BY <3>3, <4>1 DEF ColourInv, GrayKinds, Obj, Listed
      <4>3. y = UpValue(o)
        BY <2>1, <4>2 DEF Points, RefKinds
      <4>. QED BY <3>3, <4>2, <4>3 DEF HeapInv, References, AtomicFacts, AtomicLoop, NonWhite
    <3>. QED BY <3>1, <3>2, <3>3
  <2>. QED BY <1>2, <2>2, <2>3
<1>. HIDE DEF S
<1>. QED BY <1>1, <1>3, <1>4 DEF OnlyWeaklyReachable

\* The atomic step clears an entry of a weak table only when no root reaches its
\* key, or its value, over strong references.
THEOREM OnlyWeakIsCleared == Spec => ClearsOnlyWeak
<1>1. ASSUME TypeOK, RefKinds, ColourInv, HeapInv, [Next]_vars,
             gcstate = "remarkagain", gcstate' = "sweep",
             NEW t \in Tables, NEW e \in entries[t] \ entries'[t]
      PROVE  \E x \in {e[1], e[2]} \cap (Obj \ Strings) : OnlyWeaklyReachable(x)
  <2>1. AtomicFlip
    BY <1>1 DEF vars, gc, Next, Collect, FullGC, Mutate, AtomicLoop, MarkRoot, Propagate,
                AtomicPropagate, AtomicUpvals, AtomicWeak, AtomicAgain, Sweep
  <2>2. gray = {} /\ e \in ClearedEntries(t)
    BY <1>1, <2>1 DEF AtomicFlip
  <2>3. PICK x \in {e[1], e[2]} : IsCleared(x)
    BY <2>2 DEF ClearedEntries
  <2>4. x \in Obj \ Strings /\ IsWhite(x)
    BY <2>3 DEF IsCleared
  <2>5. OnlyWeaklyReachable(x)
    BY <1>1, <2>2, <2>4, WhiteIsWeak
  <2>. QED BY <2>3, <2>4, <2>5
<1>2. TypeOK /\ RefKinds /\ ColourInv /\ HeapInv /\ [Next]_vars
      => [gcstate = "remarkagain" /\ gcstate' = "sweep" =>
            \A t \in Tables : \A e \in entries[t] \ entries'[t] :
               \E x \in {e[1], e[2]} \cap (Obj \ Strings) : OnlyWeaklyReachable(x)]_vars
  BY <1>1
<1>. QED BY <1>2, HeapHolds, TypeCorrect, PTL DEF Spec, ClearsOnlyWeak
=============================================================================
