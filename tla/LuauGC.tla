------------------------------- MODULE LuauGC -------------------------------
(***************************************************************************)
(* The incremental mark-and-sweep collector of the embedded Luau runtime   *)
(* (lgc.cpp) together with every kind of heap mutation whose write barrier *)
(* it depends on (lapi.cpp, lvmexecute.cpp, lfunc.cpp, lstring.cpp,        *)
(* ldo.cpp, lcorolib.cpp).                                                 *)
(*                                                                         *)
(* The collector advances a little at each luaC_step; between two steps    *)
(* the running thread L changes tables, closures, upvalues and stacks.     *)
(* Only the step in state GCSatomic, and luaC_fullgc, run to their end     *)
(* before L continues.                                                     *)
(*                                                                         *)
(* Colours are relative to global_State.currentwhite: "white" stands for   *)
(* the current white, "dead" for the other one, and the flip at the end of *)
(* the atomic step exchanges the two.  "free" is memory that holds no      *)
(* object.                                                                 *)
(***************************************************************************)
EXTENDS Integers, Sequences, FiniteSets

CONSTANTS
  Tables, Closures, UpVals, Threads, Strings, Udatas,   \* objects, by kind
  NoObj,            \* nil and every other value that is not collectable
  MainThread,       \* global_State.mainthread
  Registry,         \* the table of global_State.registry
  Globals,          \* the table of globals of the main thread
  StackSize,        \* bound: stack slots per thread
  Cap,              \* bound: entries per table
  Shelves,          \* bound: the tables that scripts store into
  Keys,             \* bound: the keys they use
  Modes,            \* bound: the values of "__mode" they set
  Loads,            \* bound: the values they load into a register
  Stores,           \* bound: the values they store, capture or hand over
  Metatables,       \* bound: the tables they make a metatable of an object
  BasicMetatables,  \* bound: the tables they make a metatable of a basic type
  Environments,     \* bound: the tables they make an environment
  ForceGC           \* bound: whether they ask for luaC_fullgc

Obj  == Tables \cup Closures \cup UpVals \cup Threads \cup Strings \cup Udatas
Ref  == Obj \cup {NoObj}
Slots == 1 .. StackSize
Cells == Threads \X Slots

ASSUME KindsAssumption ==
  /\ Tables \cap (Closures \cup UpVals \cup Threads \cup Strings \cup Udatas) = {}
  /\ Closures \cap (UpVals \cup Threads \cup Strings \cup Udatas) = {}
  /\ UpVals \cap (Threads \cup Strings \cup Udatas) = {}
  /\ Threads \cap (Strings \cup Udatas) = {} /\ Strings \cap Udatas = {}
  /\ NoObj \notin Obj \cup Cells
  /\ MainThread \in Threads
  /\ Registry \in Tables /\ Globals \in Tables

ASSUME BoundsAssumption ==
  /\ StackSize \in Nat /\ Cap \in Nat
  /\ Shelves \subseteq Tables /\ Keys \subseteq Ref
  /\ Modes \subseteq SUBSET {"k", "v"}
  /\ Loads \subseteq Ref \ UpVals /\ Stores \subseteq Ref /\ ForceGC \in BOOLEAN
  /\ Metatables \subseteq Tables /\ BasicMetatables \subseteq Tables
  /\ Environments \subseteq Tables

VARIABLES
  \* the heap
  mark,      \* [Obj -> colour], the `marked' byte
  tab,       \* metatable of a table or userdata, env of a closure, gt of a thread
  entries,   \* [Tables -> set of <<key, value>>], non-nil values only
  mode,      \* [Tables -> letters of its field "__mode"]
  uprefs,    \* [Closures -> captured values and upvalues]
  open,      \* [UpVals -> the stack cell uv->v points to, NoObj when closed]
  value,     \* [UpVals -> u.value of a closed upvalue]
  stack,     \* [Cells -> Ref]
  top,       \* [Threads -> slots below L->top]
  chain,     \* the threads being resumed, the running one last
  basicmt,   \* metatables of the basic types (global_State.mt)
  \* the collector
  gcstate,   \* GCS state; the step `atomic' is split in its three loops
  gray,      \* the list of gray objects still to traverse
  grayagain, \* the list of objects to traverse again atomically
  weak,      \* the list of weak tables
  unswept,   \* objects that the sweep has not reached
  sleeping,  \* threads with THREAD_SLEEPINGBIT
  full       \* luaC_fullgc: "no", "finish" the old cycle, run a full "cycle"

heap == <<tab, entries, mode, uprefs, open, value, stack, top, chain, basicmt>>
gc   == <<gcstate, gray, grayagain, weak, unswept, sleeping, full>>
vars == <<mark, heap, gc>>

Colours    == {"free", "white", "dead", "gray", "black"}
AtomicLoop == {"remarkupvals", "remarkweak", "remarkagain"}
GCStates   == {"pause", "propagate", "propagateagain", "atomic", "sweep"} \cup AtomicLoop
Listed     == Tables \cup Closures \cup Threads     \* kinds with a gclist field

TypeOK ==
  /\ mark \in [Obj -> Colours]
  /\ tab \in [Obj -> Tables \cup {NoObj}]
  /\ entries \in [Tables -> SUBSET (Ref \X Ref)]
  /\ mode \in [Tables -> SUBSET {"k", "v"}]
  /\ uprefs \in [Closures -> SUBSET Ref]
  /\ open \in [UpVals -> Cells \cup {NoObj}]
  /\ value \in [UpVals -> Ref]
  /\ stack \in [Cells -> Ref]
  /\ top \in [Threads -> Int] /\ \A th \in Threads : top[th] <= StackSize
  /\ chain \in Seq(Threads) /\ Len(chain) >= 1
  /\ basicmt \subseteq Tables
  /\ gcstate \in GCStates
  /\ gray \subseteq Listed /\ grayagain \subseteq Listed /\ weak \subseteq Tables
  /\ unswept \subseteq Obj
  /\ sleeping \subseteq Threads
  /\ full \in {"no", "finish", "cycle"}

\* lua_newstate and f_luaopen: a main thread, its globals and the registry.
Init ==
  /\ mark = [o \in Obj |-> IF o \in {MainThread, Registry, Globals} THEN "white" ELSE "free"]
  /\ tab = [o \in Obj |-> IF o = MainThread THEN Globals ELSE NoObj]
  /\ entries = [t \in Tables |-> {}]
  /\ mode = [t \in Tables |-> {}]
  /\ uprefs = [c \in Closures |-> {}]
  /\ open = [u \in UpVals |-> NoObj]
  /\ value = [u \in UpVals |-> NoObj]
  /\ stack = [c \in Cells |-> NoObj]
  /\ top = [th \in Threads |-> 0]
  /\ chain = <<MainThread>>
  /\ basicmt = {}
  /\ gcstate = "pause"
  /\ gray = {} /\ grayagain = {} /\ weak = {} /\ unswept = {} /\ sleeping = {}
  /\ full = "no"

-----------------------------------------------------------------------------
(* Colours, references and marking. *)

\* Mutant: upvalues are left to the threads that own them.
IsDeadOwned(o) == mark[o] = "dead" /\ o # MainThread /\ o \notin UpVals

IsWhite(o) == mark[o] \in {"white", "dead"}
IsDead(o)  == mark[o] = "dead" /\ o # MainThread      \* the main thread is fixed

KeepInvariant == gcstate \in {"propagate", "propagateagain", "atomic"}

L == chain[Len(chain)]
Active(th) == \E i \in 1 .. Len(chain) : chain[i] = th

LiveSlots(th) == {stack[<<th, i>>] : i \in 1 .. top[th]}
IsOpen(u)     == open[u] # NoObj
UpValue(u)    == IF IsOpen(u) THEN stack[open[u]] ELSE value[u]

\* gettablemode: the metatable decides.
TableMode(t) == IF tab[t] = NoObj THEN {} ELSE mode[tab[t]]

Whites(X) == {x \in X \cap Obj : IsWhite(x)}

\* The objects reallymarkobject reaches from X: an upvalue marks its value and
\* a userdata its metatable at once; everything else waits in the gray list.
Marked(X) ==
  LET m0 == Whites(X)
      m1 == Whites({UpValue(u) : u \in m0 \cap UpVals})
      m2 == Whites({tab[d] : d \in (m0 \cup m1) \cap Udatas})
  IN  m0 \cup m1 \cup m2

\* Userdata are never gray, open upvalues are never black.
Shade(o) == IF o \in Udatas \/ (o \in UpVals /\ ~IsOpen(o)) THEN "black" ELSE "gray"

Shaded(X) == LET M == Marked(X)
             IN  [o \in Obj |-> IF o \in M THEN Shade(o) ELSE mark[o]]

Grayed(X) == Marked(X) \cap Listed

\* markobject on each of X, outside any traversal.
MarkObjects(X) == mark' = Shaded(X) /\ gray' = gray \cup Grayed(X)

-----------------------------------------------------------------------------
(* The collector: one action per unit of work of gcstep. *)

MarkRoot ==
  LET roots == {MainThread, tab[MainThread], Registry} \cup basicmt
  IN  /\ gcstate = "pause"
      /\ mark' = Shaded(roots) /\ gray' = Grayed(roots)
      /\ grayagain' = {} /\ weak' = {}
      /\ gcstate' = "propagate"
      /\ full' = IF full = "finish" THEN "cycle" ELSE full
      /\ UNCHANGED <<heap, unswept, sleeping>>

\* What traversing o marks: traversetable, traverseclosure, traversestack.
Scanned(o) ==
  {tab[o]}
  \cup (IF o \in Closures THEN uprefs[o] ELSE {})
  \cup (IF o \in Threads THEN LiveSlots(o) ELSE {})
  \cup (IF o \in Tables /\ "k" \notin TableMode(o) THEN {e[1] : e \in entries[o]} ELSE {})
  \cup (IF o \in Tables /\ "v" \notin TableMode(o) THEN {e[2] : e \in entries[o]} ELSE {})

\* A suspended thread is traversed once and put to sleep, but only in the first
\* propagation; any other thread is to be traversed again.
FallsAsleep(o) == o \in Threads /\ ~Active(o) /\ o # MainThread /\ gcstate = "propagate"
Requeued(o)    == o \in Threads /\ ~FallsAsleep(o)
StaysWeak(o)   == o \in Tables /\ TableMode(o) # {}
ClearsStack(o) == FallsAsleep(o) \/ (o \in Threads /\ gcstate \in AtomicLoop)

GrayAfter(o)  == (gray \ {o}) \cup Grayed(Scanned(o))
AgainAfter(o) == IF Requeued(o) THEN grayagain \cup {o} ELSE grayagain

\* propagatemark, up to the lists gray and grayagain.
PropagateMark(o) ==
  /\ mark' = [Shaded(Scanned(o)) EXCEPT
                ![o] = IF Requeued(o) \/ StaysWeak(o) THEN "gray" ELSE "black"]
  /\ weak' = IF StaysWeak(o) THEN weak \cup {o} ELSE weak
  /\ sleeping' = IF FallsAsleep(o) THEN sleeping \cup {o} ELSE sleeping
  /\ stack' = IF ClearsStack(o)
                THEN [c \in Cells |-> IF c[1] = o /\ c[2] > top[o] THEN NoObj ELSE stack[c]]
                ELSE stack
  /\ UNCHANGED <<tab, entries, mode, uprefs, open, value, top, chain, basicmt,
                 unswept, full>>

\* Mutant: the second propagation takes over grayagain like the first.
PropagateForever(o) ==
  /\ gcstate \in {"propagate", "propagateagain"} /\ o \in gray
  /\ PropagateMark(o)
  /\ IF GrayAfter(o) # {}
       THEN gray' = GrayAfter(o) /\ grayagain' = AgainAfter(o) /\ UNCHANGED gcstate
     ELSE IF AgainAfter(o) # {}
       THEN gray' = AgainAfter(o) /\ grayagain' = {} /\ gcstate' = "propagateagain"
       ELSE gray' = {} /\ grayagain' = {} /\ gcstate' = "atomic"

\* One object of the list; the step that empties the list changes the state.
Propagate(o) ==
  /\ gcstate \in {"propagate", "propagateagain"} /\ o \in gray
  /\ PropagateMark(o)
  /\ IF GrayAfter(o) # {}
       THEN gray' = GrayAfter(o) /\ grayagain' = AgainAfter(o) /\ UNCHANGED gcstate
     ELSE IF gcstate = "propagate"
       THEN gray' = AgainAfter(o) /\ grayagain' = {} /\ gcstate' = "propagateagain"
       ELSE gray' = {} /\ grayagain' = AgainAfter(o) /\ gcstate' = "atomic"

\* atomic: remarkupvals visits the open upvalues that are gray ...
AtomicUpvals ==
  /\ gcstate = "atomic"
  /\ MarkObjects({UpValue(u) : u \in {v \in UpVals : IsOpen(v) /\ mark[v] = "gray"}})
  /\ gcstate' = "remarkupvals"
  /\ UNCHANGED <<heap, grayagain, weak, unswept, sleeping, full>>

\* ... propagateall runs after each of the three parts ...
AtomicPropagate(o) ==
  /\ gcstate \in AtomicLoop /\ o \in gray
  /\ PropagateMark(o)
  /\ gray' = GrayAfter(o) /\ grayagain' = AgainAfter(o)
  /\ UNCHANGED gcstate

\* ... then the weak tables again, the running thread, the basic metatables ...
AtomicWeak ==
  /\ gcstate = "remarkupvals" /\ gray = {}
  /\ mark' = Shaded({L} \cup basicmt)
  /\ gray' = weak \cup Grayed({L} \cup basicmt)
  /\ weak' = {}
  /\ gcstate' = "remarkweak"
  /\ UNCHANGED <<heap, grayagain, unswept, sleeping, full>>

\* ... then what the barriers and the threads put on grayagain ...
AtomicAgain ==
  /\ gcstate = "remarkweak" /\ gray = {}
  /\ gray' = grayagain /\ grayagain' = {}
  /\ gcstate' = "remarkagain"
  /\ UNCHANGED <<mark, heap, weak, unswept, sleeping, full>>

\* Mutant: weak strings are cleared like objects.
IsClearedString(x) == x \in Obj /\ IsWhite(x)

\* isobjcleared: strings behave as values.
IsCleared(x) == x \in Obj \ Strings /\ IsWhite(x)

ClearedEntries(t) == {e \in entries[t] : IsCleared(e[1]) \/ IsCleared(e[2])}

\* Strings that cleartable looks at, and thereby marks.
LookedAt(t) == {e[1] : e \in entries[t]}
               \cup {e[2] : e \in {f \in entries[t] : ~IsCleared(f[1])}}

\* ... and last cleartable and the flip of the current white.
AtomicFlip ==
  /\ gcstate = "remarkagain" /\ gray = {}
  /\ LET kept == Strings \cap UNION {LookedAt(t) : t \in weak}
     IN  mark' = [o \in Obj |-> IF IsWhite(o) /\ o \in kept THEN "gray"
                                ELSE IF mark[o] = "white" THEN "dead"
                                ELSE IF mark[o] = "dead" THEN "white"
                                ELSE mark[o]]
  /\ entries' = [t \in Tables |-> IF t \in weak THEN entries[t] \ ClearedEntries(t)
                                               ELSE entries[t]]
  /\ weak' = {}
  /\ unswept' = {o \in Obj : mark[o] # "free"} \ {MainThread}
  /\ gcstate' = "sweep"
  /\ UNCHANGED <<tab, mode, uprefs, open, value, stack, top, chain, basicmt,
                 gray, grayagain, sleeping, full>>

Opened(th, level) == {u \in UpVals : IsOpen(u) /\ open[u][1] = th /\ open[u][2] >= level}

\* luaF_close of the upvalues U, with luaC_initupval for each that is not dead.
\* Their values are never upvalues, so the order of closing does not matter.
CloseMark(U) ==
  LET grays  == {u \in U : mark[u] = "gray"}
      values == IF KeepInvariant THEN {UpValue(u) : u \in grays} ELSE {}
  IN  [o \in Obj |-> IF o \in grays THEN IF KeepInvariant THEN "black" ELSE "white"
                     ELSE Shaded(values)[o]]

CloseGray(U) ==
  IF KeepInvariant THEN gray \cup Grayed({UpValue(u) : u \in {v \in U : mark[v] = "gray"}})
                   ELSE gray

CloseUpvals(U) ==
  /\ open' = [u \in UpVals |-> IF u \in U THEN NoObj ELSE open[u]]
  /\ value' = [u \in UpVals |-> IF u \in U THEN IF IsDead(u) THEN NoObj ELSE UpValue(u)
                                          ELSE value[u]]

\* sweepgco on one object, and on the main thread after the last.
\* Freeing a thread closes its upvalues, freeing an open upvalue unlinks it.
Sweep(o) ==
  LET freed  == IsDead(o)
      last   == unswept = {o}
      closed == IF freed /\ o \in Threads THEN Opened(o, 1)
                ELSE IF freed /\ o \in UpVals THEN {o} ELSE {}
      swept  == [CloseMark(closed) EXCEPT ![o] = IF freed THEN "free" ELSE "white"]
  IN  /\ gcstate = "sweep" /\ o \in unswept
      /\ mark' = IF last THEN [swept EXCEPT ![MainThread] = "white"] ELSE swept
      /\ CloseUpvals(closed)
      /\ tab' = IF freed THEN [tab EXCEPT ![o] = NoObj] ELSE tab
      /\ entries' = [t \in Tables |-> IF freed /\ t = o THEN {} ELSE entries[t]]
      /\ mode' = [t \in Tables |-> IF freed /\ t = o THEN {} ELSE mode[t]]
      /\ uprefs' = [c \in Closures |-> IF freed /\ c = o THEN {} ELSE uprefs[c]]
      /\ stack' = [c \in Cells |-> IF freed /\ c[1] = o THEN NoObj ELSE stack[c]]
      /\ top' = [th \in Threads |-> IF freed /\ th = o THEN 0 ELSE top[th]]
      /\ unswept' = unswept \ {o}
      /\ sleeping' = sleeping \ (IF last THEN {o, MainThread} ELSE {o})
      /\ gcstate' = IF last THEN "pause" ELSE "sweep"
      /\ full' = IF last /\ full = "cycle" THEN "no" ELSE full
      /\ UNCHANGED <<chain, basicmt, gray, grayagain, weak>>

\* Mutant: the marks of an abandoned cycle are not swept back to white.
FullGCUnswept ==
  /\ ForceGC /\ full = "no" /\ gcstate \notin AtomicLoop
  /\ full' = "finish"
  /\ IF gcstate = "sweep"
       THEN UNCHANGED <<gcstate, gray, grayagain, weak>>
       ELSE gcstate' = "pause" /\ gray' = {} /\ grayagain' = {} /\ weak' = {}
  /\ UNCHANGED <<mark, heap, unswept, sleeping>>

\* luaC_fullgc: drop a mark phase under way, finish the sweep without a flip,
\* then run one whole cycle, all before L continues.
FullGC ==
  /\ ForceGC /\ full = "no" /\ gcstate \notin AtomicLoop
  /\ full' = "finish"
  /\ IF gcstate = "sweep"
       THEN UNCHANGED <<gcstate, gray, grayagain, weak, unswept>>
       ELSE /\ gcstate' = "sweep"
            /\ gray' = {} /\ grayagain' = {} /\ weak' = {}
            /\ unswept' = {o \in Obj : mark[o] # "free"} \ {MainThread}
  /\ UNCHANGED <<mark, heap, sleeping>>

Collect ==
  \/ MarkRoot
  \/ \E o \in gray : Propagate(o) \/ AtomicPropagate(o)
  \/ AtomicUpvals \/ AtomicWeak \/ AtomicAgain \/ AtomicFlip
  \/ \E o \in unswept : Sweep(o)

-----------------------------------------------------------------------------
(* Barriers.  Each gives mark, gray and grayagain their next values. *)

\* Mutant: the second propagation does without barriers.
BarrierTOnce(t, X) ==
  IF mark[t] = "black" /\ Whites(X) # {} /\ gcstate # "propagateagain"
    THEN /\ mark' = [mark EXCEPT ![t] = "gray"]
         /\ grayagain' = grayagain \cup {t}
         /\ UNCHANGED gray
    ELSE UNCHANGED <<mark, gray, grayagain>>

\* Mutant: a gray table, already on a list, is put on grayagain as well.
BarrierTGray(t, X) ==
  IF mark[t] \in {"gray", "black"} /\ Whites(X) # {}
    THEN /\ mark' = [mark EXCEPT ![t] = "gray"]
         /\ grayagain' = grayagain \cup {t}
         /\ UNCHANGED gray
    ELSE UNCHANGED <<mark, gray, grayagain>>

\* luaC_barriert: a store into a table.  In the second propagation it marks the
\* stored objects, otherwise the table goes back to the collector.
BarrierT(t, X) ==
  IF mark[t] = "black" /\ Whites(X) # {}
    THEN IF gcstate = "propagateagain"
           THEN MarkObjects(X) /\ UNCHANGED grayagain
           ELSE /\ mark' = [mark EXCEPT ![t] = "gray"]
                /\ grayagain' = grayagain \cup {t}
                /\ UNCHANGED gray
    ELSE UNCHANGED <<mark, gray, grayagain>>

\* luaC_barrierfast: several stores into a table.
BarrierFast(t) ==
  IF mark[t] = "black"
    THEN /\ mark' = [mark EXCEPT ![t] = "gray"]
         /\ grayagain' = grayagain \cup {t}
         /\ UNCHANGED gray
    ELSE UNCHANGED <<mark, gray, grayagain>>

\* luaC_barrier and luaC_objbarrier: a store of x into an object o that is not a
\* table.  Outside marking, o is made white so that it asks for no more barriers.
BarrierF(o, x) ==
  IF mark[o] = "black" /\ Whites({x}) # {}
    THEN IF KeepInvariant
           THEN MarkObjects({x}) /\ UNCHANGED grayagain
           ELSE mark' = [mark EXCEPT ![o] = "white"] /\ UNCHANGED <<gray, grayagain>>
    ELSE UNCHANGED <<mark, gray, grayagain>>

\* luaC_barrier on o followed by luaC_upvalbarrier, which marks x whatever the
\* colour of the object that holds it.
BarrierUpval(o, x) ==
  IF KeepInvariant /\ Whites({x}) # {}
    THEN MarkObjects({x}) /\ UNCHANGED grayagain
    ELSE BarrierF(o, x)

\* luaC_checkthreadsleep.
Wake(th) ==
  /\ sleeping' = sleeping \ {th}
  /\ IF th \in sleeping /\ KeepInvariant
       THEN mark' = [mark EXCEPT ![th] = "gray"] /\ grayagain' = grayagain \cup {th}
       ELSE UNCHANGED <<mark, grayagain>>
  /\ UNCHANGED gray

-----------------------------------------------------------------------------
(* The mutator: what the running thread L does between collector steps.  An  *)
(* operand is in a slot of L's stack, or one load away from one.             *)

\* Everything o refers to, with no regard to weakness.
Contents(o) ==
  {tab[o]}
  \cup (IF o \in Closures THEN uprefs[o] ELSE {})
  \cup (IF o \in Threads THEN LiveSlots(o) ELSE {})
  \cup (IF o \in UpVals THEN {UpValue(o)} ELSE {})
  \cup (IF o \in Tables THEN UNION {{e[1], e[2]} : e \in entries[o]} ELSE {})

Held     == LiveSlots(L) \cup {L, Registry, tab[L]}
Captured == UpVals \cap UNION {uprefs[c] : c \in Closures \cap LiveSlots(L)}
Loadable == (Held \cup basicmt
             \cup (UNION {Contents(o) : o \in Held \cap Obj})
             \cup {UpValue(u) : u \in Captured}
             \cup {NoObj}) \cap Loads
Operands == (LiveSlots(L) \cup {NoObj}) \cap Stores

Push(x) == /\ top[L] < StackSize
           /\ stack' = [stack EXCEPT ![<<L, top[L] + 1>>] = x]
           /\ top' = [top EXCEPT ![L] = @ + 1]

\* A captured slot is a local variable; it is closed before its frame is popped.
NotCaptured(th, i) == \A u \in UpVals : open[u] # <<th, i>>

\* luaC_init: new objects are white.
Allocate(o) == mark[o] = "free" /\ mark' = [mark EXCEPT ![o] = "white"]

NewTable(t) ==
  /\ Allocate(t) /\ Push(t)
  /\ UNCHANGED <<tab, entries, mode, uprefs, open, value, chain, basicmt, gc>>

NewUserdata(u) ==
  /\ Allocate(u) /\ Push(u)
  /\ UNCHANGED <<tab, entries, mode, uprefs, open, value, chain, basicmt, gc>>

NewThread(th) ==
  /\ Allocate(th) /\ Push(th)
  /\ tab' = [tab EXCEPT ![th] = tab[L]]
  /\ UNCHANGED <<entries, mode, uprefs, open, value, chain, basicmt, gc>>

\* Mutant: a dead string is not resurrected.
NewStringDead(s) ==
  /\ mark' = IF mark[s] = "free" THEN [mark EXCEPT ![s] = "white"] ELSE mark
  /\ Push(s)
  /\ UNCHANGED <<tab, entries, mode, uprefs, open, value, chain, basicmt, gc>>

\* luaS_newlstr: an interned string is shared, and resurrected when dead.
NewString(s) ==
  /\ mark' = IF mark[s] \in {"free", "dead"} THEN [mark EXCEPT ![s] = "white"] ELSE mark
  /\ Push(s)
  /\ UNCHANGED <<tab, entries, mode, uprefs, open, value, chain, basicmt, gc>>

Envs == {tab[L]} \cup {tab[c] : c \in Closures \cap LiveSlots(L)}

\* A closure that captures at most one thing: a value, or an upvalue of a
\* closure in use.
NewClosure(c, env, X) ==
  /\ env \in Envs
  /\ X \subseteq Operands \cup Captured /\ Cardinality(X) <= 1
  /\ Allocate(c) /\ Push(c)
  /\ tab' = [tab EXCEPT ![c] = env]
  /\ uprefs' = [uprefs EXCEPT ![c] = X]
  /\ UNCHANGED <<entries, mode, open, value, chain, basicmt, gc>>

\* Mutant: a dead open upvalue is not resurrected.
NewClosureRefDead(c, env, u, i) ==
  /\ env \in Envs /\ i <= top[L]
  /\ mark[c] = "free"
  /\ open[u] = <<L, i>> \/ (mark[u] = "free" /\ NotCaptured(L, i))
  /\ mark' = [mark EXCEPT ![c] = "white", ![u] = IF @ = "free" THEN "white" ELSE @]
  /\ Push(c)
  /\ tab' = [tab EXCEPT ![c] = env]
  /\ uprefs' = [uprefs EXCEPT ![c] = {u}]
  /\ open' = [open EXCEPT ![u] = <<L, i>>]
  /\ UNCHANGED <<entries, mode, value, chain, basicmt, gc>>

\* A closure that captures slot i of L by reference: luaF_findupval finds the
\* open upvalue of the slot, resurrecting it when dead, or opens a new one.
NewClosureRef(c, env, u, i) ==
  /\ env \in Envs /\ i <= top[L]
  /\ mark[c] = "free"
  /\ open[u] = <<L, i>> \/ (mark[u] = "free" /\ NotCaptured(L, i))
  /\ mark' = [mark EXCEPT ![c] = "white",
                          ![u] = IF @ \in {"free", "dead"} THEN "white" ELSE @]
  /\ Push(c)
  /\ tab' = [tab EXCEPT ![c] = env]
  /\ uprefs' = [uprefs EXCEPT ![c] = {u}]
  /\ open' = [open EXCEPT ![u] = <<L, i>>]
  /\ UNCHANGED <<entries, mode, value, chain, basicmt, gc>>

\* A register of L gets a value; no barrier.
Load(i, x) ==
  /\ i <= top[L] + 1 /\ i <= StackSize
  /\ stack' = [stack EXCEPT ![<<L, i>>] = x]
  /\ top' = [top EXCEPT ![L] = IF i > @ THEN i ELSE @]
  /\ UNCHANGED <<mark, tab, entries, mode, uprefs, open, value, chain, basicmt, gc>>

\* Mutant: no check of the stack's limit.
RaiseTopUnchecked ==
  /\ top' = [top EXCEPT ![L] = @ + 1]
  /\ UNCHANGED <<mark, tab, entries, mode, uprefs, open, value, stack, chain, basicmt, gc>>

\* A new call frame takes slots above the top as they are.
RaiseTop ==
  /\ top[L] < StackSize
  /\ top' = [top EXCEPT ![L] = @ + 1]
  /\ UNCHANGED <<mark, tab, entries, mode, uprefs, open, value, stack, chain, basicmt, gc>>

Pop ==
  /\ top[L] > 0 /\ NotCaptured(L, top[L])
  /\ top' = [top EXCEPT ![L] = @ - 1]
  /\ UNCHANGED <<mark, tab, entries, mode, uprefs, open, value, stack, chain, basicmt, gc>>

\* luaF_close on the running thread, at the end of a scope, a call or a pcall.
Close(level) ==
  LET U == Opened(L, level)
  IN  /\ U # {}
      /\ mark' = CloseMark(U) /\ gray' = CloseGray(U)
      /\ CloseUpvals(U)
      /\ UNCHANGED <<tab, entries, mode, uprefs, stack, top, chain, basicmt, gcstate,
                     grayagain, weak, unswept, sleeping, full>>

SetUpval(u, x) ==
  /\ u \in Captured /\ x \in Operands
  /\ IF IsOpen(u) THEN BarrierUpval(u, x) ELSE BarrierF(u, x)
  /\ stack' = IF IsOpen(u) THEN [stack EXCEPT ![open[u]] = x] ELSE stack
  /\ value' = IF IsOpen(u) THEN value ELSE [value EXCEPT ![u] = x]
  /\ UNCHANGED <<tab, entries, mode, uprefs, open, top, chain, basicmt, gcstate,
                 weak, unswept, sleeping, full>>

\* lua_setupvalue: through the closure, whether y is a value or an upvalue.
SetUpvalue(c, y, x) ==
  /\ c \in LiveSlots(L) /\ y \in uprefs[c] /\ x \in Operands
  /\ BarrierUpval(c, x)
  /\ uprefs' = IF y \in UpVals THEN uprefs
                               ELSE [uprefs EXCEPT ![c] = (@ \ {y}) \cup {x}]
  /\ stack' = IF y \in UpVals /\ open[y] # NoObj THEN [stack EXCEPT ![open[y]] = x] ELSE stack
  /\ value' = [u \in UpVals |-> IF u = y /\ ~IsOpen(u) THEN x ELSE value[u]]
  /\ UNCHANGED <<tab, entries, mode, open, top, chain, basicmt, gcstate,
                 weak, unswept, sleeping, full>>

\* LOP_DUPCLOSURE: a shared closure, loaded without its upvalues, gets them from
\* its first use. Used again it stays as it is; not shared it is a NewClosure.
DupClosure(c, x) ==
  /\ c \in LiveSlots(L) /\ uprefs[c] = {} /\ x \in Operands
  /\ BarrierF(c, x)
  /\ uprefs' = [uprefs EXCEPT ![c] = {x}]
  /\ UNCHANGED <<tab, entries, mode, open, value, stack, top, chain, basicmt, gcstate,
                 weak, unswept, sleeping, full>>

\* A store t[k] = x, through the VM, lua_settable, lua_rawset or lua_ref.
SetTable(t, k, x) ==
  LET others == {e \in entries[t] : k = NoObj \/ e[1] # k}
  IN  /\ t \in Held /\ k \in Operands /\ x \in Operands /\ <<k, x>> # <<NoObj, NoObj>>
      /\ Cardinality(others \cup {<<k, x>>}) <= Cap
      /\ BarrierT(t, {k, x})
      /\ entries' = [entries EXCEPT ![t] = others \cup {<<k, x>>}]
      /\ UNCHANGED <<tab, mode, uprefs, open, value, stack, top, chain, basicmt,
                     gcstate, weak, unswept, sleeping, full>>

\* SETLIST and table.insert, table.move: array stores with one barrier.
SetList(t, x) ==
  /\ t \in LiveSlots(L) /\ x \in LiveSlots(L) \ {NoObj}
  /\ Cardinality(entries[t] \cup {<<NoObj, x>>}) <= Cap
  /\ BarrierFast(t)
  /\ entries' = [entries EXCEPT ![t] = @ \cup {<<NoObj, x>>}]
  /\ UNCHANGED <<tab, mode, uprefs, open, value, stack, top, chain, basicmt,
                 gcstate, weak, unswept, sleeping, full>>

\* t[k] = nil and lua_unref: nothing to mark.
ClearEntry(t, e) ==
  /\ t \in Held /\ e \in entries[t]
  /\ entries' = [entries EXCEPT ![t] = @ \ {e}]
  /\ UNCHANGED <<mark, tab, mode, uprefs, open, value, stack, top, chain, basicmt, gc>>

\* lua_setmetatable on a table or userdata.
SetMetatable(o, mt) ==
  /\ o \in LiveSlots(L) /\ mt \in LiveSlots(L) \cup {NoObj} /\ mt # tab[o]
  /\ BarrierF(o, mt)
  /\ tab' = [tab EXCEPT ![o] = mt]
  /\ UNCHANGED <<entries, mode, uprefs, open, value, stack, top, chain, basicmt,
                 gcstate, weak, unswept, sleeping, full>>

\* lua_setmetatable on a value of a basic type: no barrier, see AtomicWeak.
SetBasicMetatable(X) ==
  /\ X \subseteq LiveSlots(L) /\ Cardinality(X) <= 1 /\ X # basicmt
  /\ basicmt' = X
  /\ UNCHANGED <<mark, tab, entries, mode, uprefs, open, value, stack, top, chain, gc>>

\* A store into the field "__mode" of a table that is a metatable.
SetMode(mt, letters) ==
  /\ mt \in LiveSlots(L) /\ letters # mode[mt]
  /\ mode' = [mode EXCEPT ![mt] = letters]
  /\ UNCHANGED <<mark, tab, entries, uprefs, open, value, stack, top, chain, basicmt, gc>>

\* lua_setfenv on a closure or on a thread, which may be asleep.
SetFenv(o, t) ==
  /\ o \in Held /\ t \in LiveSlots(L) /\ t # tab[o]
  /\ BarrierF(o, t)
  /\ tab' = [tab EXCEPT ![o] = t]
  /\ UNCHANGED <<entries, mode, uprefs, open, value, stack, top, chain, basicmt,
                 gcstate, weak, unswept, sleeping, full>>

\* lua_replace(L, LUA_GLOBALSINDEX): no barrier, L is awake and never black.
SetGlobals(t) ==
  /\ t \in LiveSlots(L)
  /\ tab' = [tab EXCEPT ![L] = t]
  /\ UNCHANGED <<mark, entries, mode, uprefs, open, value, stack, top, chain, basicmt, gc>>

\* lua_xmove and lua_xpush of x to a suspended thread: wakes it.
XPush(th, x) ==
  /\ th \in LiveSlots(L) /\ ~Active(th) /\ x \in Operands
  /\ top[th] < StackSize
  /\ Wake(th)
  /\ stack' = [stack EXCEPT ![<<th, top[th] + 1>>] = x]
  /\ top' = [top EXCEPT ![th] = @ + 1]
  /\ UNCHANGED <<tab, entries, mode, uprefs, open, value, chain, basicmt, gcstate,
                 weak, unswept, full>>

\* lua_xmove from a suspended thread to L: the source is not woken.
XPop(th) ==
  /\ th \in LiveSlots(L) /\ ~Active(th)
  /\ top[th] > 0 /\ NotCaptured(th, top[th]) /\ top[L] < StackSize
  /\ stack' = [stack EXCEPT ![<<L, top[L] + 1>>] = stack[<<th, top[th]>>]]
  /\ top' = [top EXCEPT ![th] = @ - 1, ![L] = @ + 1]
  /\ UNCHANGED <<mark, tab, entries, mode, uprefs, open, value, chain, basicmt, gc>>

\* Mutant: the coroutine is resumed in its sleep.
ResumeAsleep(th) ==
  /\ th \in LiveSlots(L) /\ ~Active(th)
  /\ Push(th)
  /\ chain' = Append(chain, th)
  /\ UNCHANGED <<mark, tab, entries, mode, uprefs, open, value, basicmt, gc>>

\* Mutant: the argument is popped before the coroutine runs.
ResumeUnanchored(th) ==
  /\ th \in LiveSlots(L) /\ ~Active(th)
  /\ top' = [top EXCEPT ![L] = @ - 1] /\ NotCaptured(L, top[L])
  /\ Wake(th)
  /\ chain' = Append(chain, th)
  /\ UNCHANGED <<tab, entries, mode, uprefs, open, value, stack, basicmt, gcstate,
                 weak, unswept, full>>

\* coroutine.resume: the coroutine is an argument on L's stack for as long as it
\* runs.
Resume(th) ==
  /\ th \in LiveSlots(L) /\ ~Active(th)
  /\ Push(th) /\ Wake(th)
  /\ chain' = Append(chain, th)
  /\ UNCHANGED <<tab, entries, mode, uprefs, open, value, basicmt, gcstate,
                 weak, unswept, full>>

\* The coroutine yields or ends: the resuming thread runs again.
Yield ==
  LET n == Len(chain)
  IN  /\ n > 1
      /\ chain' = SubSeq(chain, 1, n - 1)
      /\ top' = [top EXCEPT ![chain[n - 1]] = @ - 1]
      /\ UNCHANGED <<mark, tab, entries, mode, uprefs, open, value, stack, basicmt, gc>>

\* Mutant: luaF_close is left out.
ResetThreadOpen(th) ==
  /\ th \in LiveSlots(L) /\ ~Active(th)
  /\ stack' = [c \in Cells |-> IF c[1] = th THEN NoObj ELSE stack[c]]
  /\ top' = [top EXCEPT ![th] = 0]
  /\ UNCHANGED <<mark, tab, entries, mode, uprefs, open, value, chain, basicmt, gc>>

\* coroutine.close: lua_resetthread on a suspended thread.
ResetThread(th) ==
  LET U == Opened(th, 1)
  IN  /\ th \in LiveSlots(L) /\ ~Active(th)
      /\ mark' = CloseMark(U) /\ gray' = CloseGray(U)
      /\ CloseUpvals(U)
      /\ stack' = [c \in Cells |-> IF c[1] = th THEN NoObj ELSE stack[c]]
      /\ top' = [top EXCEPT ![th] = 0]
      /\ UNCHANGED <<tab, entries, mode, uprefs, chain, basicmt, gcstate,
                     grayagain, weak, unswept, sleeping, full>>

Allocation ==
  \/ \E t \in Tables : NewTable(t)
  \/ \E u \in Udatas : NewUserdata(u)
  \/ \E th \in Threads : NewThread(th)
  \/ \E s \in Strings : NewString(s)
  \/ \E c \in Closures, env \in Envs :
        \/ NewClosure(c, env, {})
        \/ \E x \in Operands \cup Captured : NewClosure(c, env, {x})
        \/ \E u \in UpVals, i \in Slots : NewClosureRef(c, env, u, i)

StackUse ==
  \/ \E i \in Slots, x \in Loadable : Load(i, x)
  \/ RaiseTop \/ Pop
  \/ \E i \in Slots : Close(i)

Store ==
  \/ \E u \in Captured, x \in Operands : SetUpval(u, x)
  \/ \E c \in Closures : \E y \in uprefs[c], x \in Operands : SetUpvalue(c, y, x)
  \/ \E c \in Closures, x \in Operands : DupClosure(c, x)
  \/ \E t \in Shelves, k \in Keys, x \in Operands : SetTable(t, k, x)
  \/ \E t \in Shelves, x \in Operands : SetList(t, x)
  \/ \E t \in Shelves : \E e \in entries[t] : ClearEntry(t, e)
  \/ \E o \in Tables \cup Udatas, mt \in Metatables \cup {NoObj} : SetMetatable(o, mt)
  \/ \E X \in SUBSET BasicMetatables : SetBasicMetatable(X)
  \/ \E mt \in Metatables, letters \in Modes : SetMode(mt, letters)
  \/ \E o \in Closures \cup Threads, t \in Environments : SetFenv(o, t)
  \/ \E t \in Environments : SetGlobals(t)

Coroutine ==
  \/ \E th \in Threads : \/ \E x \in Operands : XPush(th, x)
                         \/ XPop(th) \/ Resume(th) \/ ResetThread(th)
  \/ Yield

\* L runs unless the collector is inside an indivisible part.
Mutate == /\ full = "no" /\ gcstate \notin AtomicLoop
          /\ Allocation \/ StackUse \/ Store \/ Coroutine

Next == Collect \/ FullGC \/ Mutate

Spec == Init /\ [][Next]_vars

-----------------------------------------------------------------------------
(* Properties. *)

Allocated(o) == mark[o] # "free"
Live(o)      == mark[o] \in {"white", "gray", "black"}
LiveRef(x)   == x = NoObj \/ Live(x)

\* No use after free (validateobjref, checkliveness in luaC_validate): nothing a
\* live object refers to is freed or about to be freed.  This includes weak
\* entries, which the atomic step clears, and stale slots above the top of a
\* stack, which a new call frame exposes without writing them.
LiveHeads   == \A o \in Obj : Live(o) => LiveRef(tab[o])
LiveEntries == \A t \in Tables : Live(t) =>
                  \A e \in entries[t] : LiveRef(e[1]) /\ LiveRef(e[2])
LiveCaptures == \A c \in Closures : Live(c) => \A x \in uprefs[c] : LiveRef(x)
LiveStacks  == \A c \in Cells : Live(c[1]) => LiveRef(stack[c])
LiveValues  == \A u \in UpVals : Live(u) => LiveRef(UpValue(u))
LiveRoots   == /\ Live(MainThread) /\ Live(Registry)
               /\ \A t \in basicmt : Live(t)
               /\ \A i \in 1 .. Len(chain) : Live(chain[i])
NoDanglingRefs == LiveHeads /\ LiveEntries /\ LiveCaptures /\ LiveStacks
                  /\ LiveValues /\ LiveRoots

\* "basic incremental invariant: black can't point to white" (validateobjref),
\* here also for the stacks of sleeping threads, which validatestack leaves out.
Marking  == KeepInvariant \/ gcstate \in AtomicLoop
NonWhite(x) == x = NoObj \/ ~IsWhite(x)
Black(o) == mark[o] = "black"

BlackNotToWhite ==
  Marking =>
    /\ \A o \in Obj : Black(o) => NonWhite(tab[o])
    /\ \A t \in Tables : Black(t) => \A e \in entries[t] : NonWhite(e[1]) /\ NonWhite(e[2])
    /\ \A c \in Closures : Black(c) => \A x \in uprefs[c] : NonWhite(x)
    /\ \A c \in Cells : Black(c[1]) => NonWhite(stack[c])
    /\ \A u \in UpVals : Black(u) => NonWhite(value[u])

\* validategraylist: the lists hold gray objects only.  An object has a single
\* gclist field, so it is on one list at most; and a gray object that is on no
\* list would never be traversed.
GrayLists ==
  Marking =>
    /\ \A o \in gray \cup grayagain \cup weak : mark[o] = "gray"
    /\ gray \cap grayagain = {} /\ gray \cap weak = {} /\ grayagain \cap weak = {}
    /\ \A o \in Listed : mark[o] = "gray" => o \in gray \cup grayagain \cup weak

\* Only the suspended threads that the first propagation has traversed are
\* black, and exactly these sleep; so no running thread has a black stack, whose
\* stores would need barriers.
SleepingThreads ==
  Marking => /\ \A th \in Threads : Black(th) <=> th \in sleeping
             /\ \A th \in sleeping : ~Active(th)

\* "closed upvalues need barrier", "open upvalues are never black": the open
\* list of a thread has one upvalue per captured slot, below the top, and the
\* thread is still there, as long as the upvalue may be used.
OpenUpvals ==
  \A u \in UpVals :
    /\ IsOpen(u) => /\ Allocated(u) /\ ~Black(u)
                    /\ Allocated(open[u][1]) /\ open[u][2] <= top[open[u][1]]
                    /\ \A v \in UpVals : open[v] = open[u] => v = u
    /\ ~IsOpen(u) => mark[u] # "gray" \/ ~Marking

\* "dead objects can only occur during sweep", and only where the sweep has not
\* come yet; a cycle ends with every object white again.
DeadOnlyUnswept ==
  /\ \A o \in Obj : mark[o] = "dead" => gcstate = "sweep" /\ o \in unswept
  /\ gcstate = "pause" => \A o \in Obj : mark[o] \in {"free", "white"}

\* The resumed threads are anchored on the stack of the thread that resumed
\* them: the last live slot of each is the next, and the results of a yield find
\* it there, so that no stack underflows.
ChainAnchored ==
  /\ \A th \in Threads : top[th] >= 0
  /\ chain[1] = MainThread
  /\ \A i, j \in 1 .. Len(chain) : chain[i] = chain[j] => i = j
  /\ \A i \in 1 .. Len(chain) - 1 :
       /\ top[chain[i]] > 0
       /\ stack[<<chain[i], top[chain[i]]>>] = chain[i + 1]
       /\ NotCaptured(chain[i], top[chain[i]])

\* What a program can still reach, strong and weak references alike: o is
\* unreachable when a set closed under references holds the roots and not o.
Roots == {MainThread, Registry} \cup basicmt \cup {chain[i] : i \in 1 .. Len(chain)}
Unreachable(o) ==
  \E S \in SUBSET (Obj \ {o}) : Roots \subseteq S /\ \A x \in S : Contents(x) \cap Obj \subseteq S

\* The same with weak references left out.
StrongContents(o) == Scanned(o) \cup (IF o \in UpVals THEN {UpValue(o)} ELSE {})
OnlyWeaklyReachable(o) ==
  \E S \in SUBSET (Obj \ {o}) : Roots \subseteq S /\ \A x \in S : StrongContents(x) \cap Obj \subseteq S

\* The collector frees what the program cannot reach any more, nothing else.
FreesOnlyGarbage ==
  [][\A o \in Obj : Allocated(o) /\ ~Allocated(o)' => Unreachable(o)]_vars

\* A weak entry disappears only when its key or its value is held by weak
\* references alone; strings, being values, never make it disappear.
ClearsOnlyWeak ==
  [][gcstate = "remarkagain" /\ gcstate' = "sweep" =>
       \A t \in Tables : \A e \in entries[t] \ entries'[t] :
          \E x \in {e[1], e[2]} \cap (Obj \ Strings) : OnlyWeaklyReachable(x)]_vars

\* The collector works whenever L allocates or calls lua_gc: assumed to happen
\* again and again.
FairSpec == Spec /\ WF_vars(Collect)

\* Every object that becomes unreachable is freed, unless the runtime itself
\* finds it again (interned strings, open upvalues of a reachable stack).
GarbageIsFreed ==
  \A o \in Obj : Allocated(o) /\ Unreachable(o) ~> ~Allocated(o) \/ ~Unreachable(o)

\* A mark phase comes to its end however many barriers run meanwhile.
MarkingEnds == Marking ~> gcstate = "sweep"
=============================================================================
