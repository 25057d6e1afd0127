------------------------ MODULE LuauCoroutineProofs ------------------------
(***************************************************************************)
(* The native stack and its counters: theorems about LuauCoroutine, for    *)
(* any number of threads, any limits and frames of any depth.              *)
(***************************************************************************)
EXTENDS LuauCoroutine, LeastNumber, SequenceTheorems, FiniteSetTheorems

-----------------------------------------------------------------------------
(* The shape of a native stack s. *)

\* How many of its first n records are of these threads and kinds.
Number(s, n, ts, kinds) == Cardinality({i \in 1 .. n : s[i].t \in ts /\ s[i].k \in kinds})
Calls(s, n, t)  == Number(s, n, {t}, {"call"})
Pcalls(s, n, t) == Number(s, n, {t}, {"pcall"})
Depth(s, n)     == Number(s, n, Threads, {"resume", "call"})
NoHandler(s, n) == \A i \in 1 .. n : s[i].k # "errh"

\* The number of frames of its thread that a record stands on.
Pos(r) == IF r.k = "resume" THEN 0 ELSE IF r.k \in {"call", "pcall"} THEN r.at ELSE r.ci

\* Record i is the last of its thread.
IsLast(s, i) == i = Len(s) \/ s[i + 1].k = "resume"

\* Records b to i are those of one lua_resume.
Segment(s, b, i) == /\ b \in 1 .. i /\ s[b].k = "resume"
                    /\ \A j \in b .. i : s[j].t = s[i].t /\ (j # b => s[j].k # "resume")

\* What record i is, given those below it: each resumed thread has one segment,
\* the records of which stand on more and more of its frames; errh follows its
\* pcall, cont its resume; and each pcall has called something.
Good(s, i) ==
  /\ \E b \in 1 .. i : Segment(s, b, i)
  /\ s[i].k = "resume" => /\ \A j \in 1 .. i - 1 : s[j].t # s[i].t
                          /\ s[i].from = IF i = 1 THEN s[i].t ELSE s[i - 1].t
  /\ s[i].k \in {"resume", "pcall"} /\ i > 1 => s[i - 1].k \in {"call", "resume"}
  /\ s[i].k = "errh" => i > 1 /\ s[i - 1].k = "pcall"
  /\ s[i].k = "cont" => i > 1 /\ s[i - 1].k = "resume" /\ 0 < s[i].at /\ s[i].at <= s[i].ci
  /\ s[i].k \in {"pcall", "cont"} => s[i].active
  /\ s[i].k \in {"call", "pcall"} => 0 < s[i].at
  /\ \A j \in 1 .. i - 1 : s[j].t = s[i].t =>
       IF s[i].k \in {"call", "pcall"} THEN Pos(s[j]) < Pos(s[i]) ELSE Pos(s[j]) <= Pos(s[i])
  /\ Pcalls(s, i, s[i].t) <= Calls(s, i, s[i].t) + (IF s[i].k \in {"pcall", "errh"} THEN 1 ELSE 0)

-----------------------------------------------------------------------------
(* The counters and frames of a thread x that has a record i there. *)

\* The frame that a luaD_call waits for is there.
Entries == {"tm", "body", "handler"}
FrameAt(s, x, i) == /\ Pos(s[i]) <= Len(x.ci)
                    /\ s[i].k = "call" => x.ci[s[i].at].f \in Entries

\* The depth of the native stack at record i if base was nCcalls in lua_resume.
Here(s, base, i) == base + Calls(s, i, s[i].t)

\* What the thread's count is or will be set to there: the depth of the native
\* stack, more below a running error handler only.
SavedAt(s, base, i) ==
  /\ Here(s, base, i) >= Depth(s, i) /\ Here(s, base, i) < HardC
  /\ NoHandler(s, i) => Here(s, base, i) = Depth(s, i)
  /\ s[i].k \in {"pcall", "cont"} => /\ s[i].nC >= Here(s, base, i) /\ s[i].nC < HardC
                                     /\ NoHandler(s, i) => s[i].nC = Here(s, base, i)
Counts(s, base, x, i) == x.nC >= Here(s, base, i) + (IF s[i].k = "pcall" THEN 1 ELSE 0)
Exact(s, base, x, i)  == x.nC < HardC /\ (NoHandler(s, i) => x.nC = Here(s, base, i))

-----------------------------------------------------------------------------
(* The invariants, of a native stack s and threads T. *)

OnStack(s, t) == \E i \in 1 .. Len(s) : s[i].t = t

\* What nCcalls was when lua_resume was entered for t, itself counted.
Base0(s, T, t) == T[t].baseC - Pcalls(s, Len(s), t)

\* The active bit is set, and the counters start in bounds, on the stack.
Actives(s, T) == \A t \in Threads :
                   /\ T[t].active <=> OnStack(s, t)
                   /\ OnStack(s, t) => T[t].status = "ok" /\ Base0(s, T, t) >= 1

\* A thread that resumed another has the frame of resume or wrap on top, and its
\* counter as it was.
Waiting(s, T, i) == /\ Pos(s[i]) < Len(T[s[i].t].ci)
                    /\ Counts(s, Base0(s, T, s[i].t), T[s[i].t], i)
                    /\ Exact(s, Base0(s, T, s[i].t), T[s[i].t], i)

Record(s, T, i) == /\ Good(s, i)
                   /\ FrameAt(s, T[s[i].t], i)
                   /\ SavedAt(s, Base0(s, T, s[i].t), i)
                   /\ i < Len(s) /\ IsLast(s, i) => Waiting(s, T, i)

Rest(s, T) == Actives(s, T) /\ \A i \in 1 .. Len(s) : Record(s, T, i)

\* What runs is a function that was called, unless its pcall could not call it.
Now(s, T, sig) ==
  s # <<>> => /\ Top(s).k \in {"call", "resume"} \cup (IF sig = "none" THEN {} ELSE {"pcall"})
              /\ Counts(s, Base0(s, T, Top(s).t), T[Top(s).t], Len(s))
              /\ sig = "none" => Exact(s, Base0(s, T, Top(s).t), T[Top(s).t], Len(s))

StackInv == Rest(native, th) /\ Now(native, th, signal)
CoroutineInv == TypeOK /\ StackInv

-----------------------------------------------------------------------------
(* Counting records. *)

\* The records counted are finitely many.
LEMMA NumberType ==
  ASSUME NEW s, NEW n \in Nat, NEW ts, NEW kinds
  PROVE  Number(s, n, ts, kinds) \in Nat
<1> DEFINE S == {i \in 1 .. n : s[i].t \in ts /\ s[i].k \in kinds}
<1>1. IsFiniteSet(1 .. n)
  BY FS_Interval
<1>2. S \subseteq 1 .. n
  OBVIOUS
<1>3. IsFiniteSet(S)
  BY <1>1, <1>2, FS_Subset, Zenon
<1>4. Cardinality(S) \in Nat
  BY <1>3, FS_CardinalityType, Zenon
<1> QED BY <1>4 DEF Number

\* One more record counts when it is of these threads and kinds.
LEMMA NumberStep ==
  ASSUME NEW s, NEW n \in Nat, NEW ts, NEW kinds
  PROVE  Number(s, n + 1, ts, kinds)
           = Number(s, n, ts, kinds) + (IF s[n + 1].t \in ts /\ s[n + 1].k \in kinds THEN 1 ELSE 0)
<1> DEFINE S == {i \in 1 .. n : s[i].t \in ts /\ s[i].k \in kinds}
           S1 == {i \in 1 .. n + 1 : s[i].t \in ts /\ s[i].k \in kinds}
<1>1. IsFiniteSet(1 .. n)
  BY FS_Interval
<1>2. S \subseteq 1 .. n
  OBVIOUS
<1>3. IsFiniteSet(S)
  BY <1>1, <1>2, FS_Subset, Zenon
<1>4. Cardinality(S) \in Nat
  BY <1>3, FS_CardinalityType, Zenon
<1>5. CASE s[n + 1].t \in ts /\ s[n + 1].k \in kinds
  <2>1. S1 = S \cup {n + 1} /\ n + 1 \notin S
    BY <1>5
  <2>2. Cardinality(S1) = Cardinality(S) + 1
    BY <2>1, <1>3, FS_AddElement, Zenon
  <2>3. Number(s, n + 1, ts, kinds) = Cardinality(S1) /\ Number(s, n, ts, kinds) = Cardinality(S)
    BY DEF Number
  <2> HIDE DEF S, S1
  <2> QED BY <2>2, <2>3, <1>4, <1>5
<1>6. CASE ~(s[n + 1].t \in ts /\ s[n + 1].k \in kinds)
  <2>1. S1 = S
    BY <1>6
  <2>2. Number(s, n + 1, ts, kinds) = Cardinality(S1) /\ Number(s, n, ts, kinds) = Cardinality(S)
    BY DEF Number
  <2> HIDE DEF S, S1
  <2> QED BY <2>1, <2>2, <1>4, <1>6
<1> QED BY <1>5, <1>6

\* s and z agree on their first n records.
Agree(s, z, n) == \A j \in 1 .. n : s[j] = z[j]

\* The count is that of the records.
LEMMA NumberSame ==
  ASSUME NEW s, NEW z, NEW n \in Nat, Agree(s, z, n), NEW ts, NEW kinds
  PROVE  Number(s, n, ts, kinds) = Number(z, n, ts, kinds)
<1>1. {i \in 1 .. n : s[i].t \in ts /\ s[i].k \in kinds}
        = {i \in 1 .. n : z[i].t \in ts /\ z[i].k \in kinds}
  BY DEF Agree
<1> QED BY <1>1 DEF Number

\* Records of other threads or kinds do not count.
LEMMA NumberFlat ==
  ASSUME NEW s, NEW m \in Nat, NEW n \in Nat, m <= n, NEW ts, NEW kinds,
         \A i \in m + 1 .. n : ~(s[i].t \in ts /\ s[i].k \in kinds)
  PROVE  Number(s, n, ts, kinds) = Number(s, m, ts, kinds)
<1>1. {i \in 1 .. n : s[i].t \in ts /\ s[i].k \in kinds}
        = {i \in 1 .. m : s[i].t \in ts /\ s[i].k \in kinds}
  OBVIOUS
<1> QED BY <1>1 DEF Number

\* The deeper part counts at least as many.
LEMMA NumberGrows ==
  ASSUME NEW s, NEW m \in Nat, NEW n \in Nat, m <= n, NEW ts, NEW kinds
  PROVE  Number(s, m, ts, kinds) <= Number(s, n, ts, kinds)
<1> DEFINE S == {i \in 1 .. m : s[i].t \in ts /\ s[i].k \in kinds}
           S1 == {i \in 1 .. n : s[i].t \in ts /\ s[i].k \in kinds}
<1>1. IsFiniteSet(1 .. n)
  BY FS_Interval
<1>2. S1 \subseteq 1 .. n /\ S \subseteq S1
  OBVIOUS
<1>3. IsFiniteSet(S1)
  BY <1>1, <1>2, FS_Subset, Zenon
<1>4. Cardinality(S) <= Cardinality(S1)
  BY <1>2, <1>3, FS_Subset, Zenon
<1> QED BY <1>4 DEF Number

\* What none of them counts is zero.
LEMMA NumberZero ==
  ASSUME NEW s, NEW n \in Nat, NEW ts, NEW kinds,
         \A i \in 1 .. n : ~(s[i].t \in ts /\ s[i].k \in kinds)
  PROVE  Number(s, n, ts, kinds) = 0
<1>1. {i \in 1 .. n : s[i].t \in ts /\ s[i].k \in kinds} = {}
  OBVIOUS
<1> QED BY <1>1, FS_EmptySet DEF Number

-----------------------------------------------------------------------------
(* What is said of record i depends on the records up to i only. *)

\* The counts at a record.
LEMMA LocalCounts ==
  ASSUME NEW s, NEW z, NEW n \in Nat, Agree(s, z, n), NEW t
  PROVE  /\ Calls(s, n, t) = Calls(z, n, t)
         /\ Pcalls(s, n, t) = Pcalls(z, n, t)
         /\ Depth(s, n) = Depth(z, n)
<1>1. \A ts, kinds : Number(s, n, ts, kinds) = Number(z, n, ts, kinds)
  BY NumberSame
<1> QED BY <1>1 DEF Calls, Pcalls, Depth

\* A segment of s is one of z.
LEMMA LocalSegment ==
  ASSUME NEW s, NEW z, NEW i \in Nat, Agree(s, z, i), NEW b, Segment(s, b, i)
  PROVE  Segment(z, b, i)
BY DEF Segment, Agree

\* The shape of a record.
LEMMA LocalGood ==
  ASSUME NEW s, NEW z, NEW i \in Nat, Agree(s, z, i), Good(s, i)
  PROVE  Good(z, i)
<1>1. PICK b \in 1 .. i : Segment(s, b, i)
  BY DEF Good
<1>2. Segment(z, b, i)
  BY <1>1, LocalSegment
<1>3. \E c \in 1 .. i : Segment(z, c, i)
  BY <1>2
<1>4. \A t : Calls(s, i, t) = Calls(z, i, t) /\ Pcalls(s, i, t) = Pcalls(z, i, t)
  BY LocalCounts
<1>5. i \in 1 .. i
  BY <1>1
<1>6. s[i] = z[i] /\ (i > 1 => s[i - 1] = z[i - 1]) /\ \A j \in 1 .. i - 1 : s[j] = z[j]
  BY <1>5 DEF Agree
<1> HIDE DEF Calls, Pcalls
<1> QED BY <1>3, <1>4, <1>6 DEF Good, Pos

\* What the counters of a record say.
LEMMA LocalSaved ==
  ASSUME NEW s, NEW z, NEW i \in Nat \ {0}, Agree(s, z, i), NEW base, NEW x
  PROVE  /\ SavedAt(s, base, i) => SavedAt(z, base, i)
         /\ Counts(s, base, x, i) => Counts(z, base, x, i)
         /\ Exact(s, base, x, i) => Exact(z, base, x, i)
<1>1. \A t : Calls(s, i, t) = Calls(z, i, t)
  BY LocalCounts
<1>2. Depth(s, i) = Depth(z, i)
  BY LocalCounts
<1>3. s[i] = z[i] /\ (NoHandler(s, i) <=> NoHandler(z, i))
  BY DEF Agree, NoHandler
<1>4. Here(s, base, i) = Here(z, base, i)
  BY <1>1, <1>3 DEF Here
<1> QED BY <1>2, <1>3, <1>4 DEF SavedAt, Counts, Exact

-----------------------------------------------------------------------------
(* The parts of the state. *)

\* A thread before its counters are known to be in bounds.
LooseType == [ci : Seq(FrameType), status : {"ok", "yield", "run", "err"},
              nC : Int, baseC : Int, active : BOOLEAN, fresh : BOOLEAN]

\* The fields of a record.
LEMMA RecordFields ==
  ASSUME NEW r \in RecordType
  PROVE  /\ r.t \in Threads /\ r.k \in {"resume", "call", "pcall", "cont", "errh"}
         /\ r.k = "resume" => r.from \in Threads
         /\ r.k = "call" => r.at \in Nat
         /\ r.k \in {"pcall", "cont"} => /\ r.ci \in Nat /\ r.nC \in 0 .. HardC /\ r.at \in Nat
                                         /\ r.active \in BOOLEAN /\ r.errf \in FrameKinds
         /\ r.k = "errh" => r.ci \in Nat
         /\ Pos(r) \in Nat
<1>1. CASE r \in [k : {"resume"}, t : Threads, from : Threads]
  BY <1>1 DEF Pos
<1>2. CASE r \in [k : {"call"}, t : Threads, at : Nat]
  BY <1>2 DEF Pos
<1>3. CASE r \in [k : {"pcall", "cont"}, t : Threads, ci : Nat, nC : 0 .. HardC, at : Nat,
                  active : BOOLEAN, errf : FrameKinds]
  BY <1>3 DEF Pos
<1>4. CASE r \in [k : {"errh"}, t : Threads, ci : Nat]
  BY <1>4 DEF Pos
<1> QED BY <1>1, <1>2, <1>3, <1>4 DEF RecordType

\* The fields of a thread.
LEMMA LooseFields ==
  ASSUME NEW x \in LooseType
  PROVE  /\ x.ci \in Seq(FrameType) /\ Len(x.ci) \in Nat /\ x.nC \in Int /\ x.baseC \in Int
         /\ x.status \in {"ok", "yield", "run", "err"} /\ x.active \in BOOLEAN
         /\ x.fresh \in BOOLEAN
BY DEF LooseType

\* A thread is a loose one.
LEMMA ThreadIsLoose == ThreadType \subseteq LooseType
<1>1. HardC \in Nat
  BY LimitsAssumption
<1> QED BY <1>1 DEF ThreadType, LooseType

-----------------------------------------------------------------------------
(* The segments of a stack. *)

\* The records of the thread that runs are those of the last segment, and none
\* but the top one is the last of that thread.
LEMMA LastSegment ==
  ASSUME NEW s \in Seq(RecordType), \A i \in 1 .. Len(s) : Good(s, i),
         NEW b, Segment(s, b, Len(s))
  PROVE  /\ b \in Nat /\ 1 <= b /\ b <= Len(s) /\ s[b].k = "resume"
         /\ \A i \in 1 .. Len(s) : s[i].t = s[Len(s)].t <=> i >= b
         /\ \A i \in 1 .. Len(s) : i > b => s[i].k # "resume"
         /\ \A i \in 1 .. Len(s) : i < Len(s) /\ IsLast(s, i) => i < b
<1>1. /\ b \in Nat /\ 1 <= b /\ b <= Len(s) /\ s[b].k = "resume"
      /\ \A j \in b .. Len(s) : s[j].t = s[Len(s)].t /\ (j # b => s[j].k # "resume")
  BY DEF Segment
<1>2. \A j \in 1 .. b - 1 : s[j].t # s[b].t
  BY <1>1 DEF Good
<1> QED BY <1>1, <1>2 DEF IsLast

\* A stack that is not empty has a last segment.
LEMMA SomeSegment ==
  ASSUME NEW s \in Seq(RecordType), s # <<>>, \A i \in 1 .. Len(s) : Good(s, i)
  PROVE  \E b \in 1 .. Len(s) : Segment(s, b, Len(s))
<1>1. Len(s) \in 1 .. Len(s)
  OBVIOUS
<1> QED BY <1>1 DEF Good

-----------------------------------------------------------------------------
(* Records are popped and pushed. *)

\* The stack down to a record of the thread that runs, with that thread changed.
Popping(s, T, b, c, y, z, T2) ==
  LET t == s[Len(s)].t
  IN  /\ s \in Seq(RecordType) /\ s # <<>> /\ T \in [Threads -> LooseType] /\ Rest(s, T)
      /\ Segment(s, b, Len(s)) /\ c \in b .. Len(s)
      /\ y \in LooseType /\ y.active /\ y.status = "ok"
      /\ y.baseC = T[t].baseC - Pcalls(s, Len(s), t) + Pcalls(s, c, t)
      /\ \A i \in 1 .. c : s[i].t = t => FrameAt(s, y, i)
      /\ z = SubSeq(s, 1, c) /\ T2 = [T EXCEPT ![t] = y]

\* What is below is as right as before, with the same count where it started.
LEMMA PopRest ==
  ASSUME NEW s, NEW T, NEW b, NEW c, NEW y, NEW z, NEW T2, Popping(s, T, b, c, y, z, T2),
         NEW t, t = s[Len(s)].t
  PROVE  /\ z \in Seq(RecordType) /\ Len(z) = c /\ Agree(s, z, c)
         /\ T2 \in [Threads -> LooseType]
         /\ Rest(z, T2)
         /\ Base0(z, T2, t) = Base0(s, T, t)
<1> USE DEF Popping
<1> DEFINE n == Len(s)
<1>a. \A i \in 1 .. n : Record(s, T, i)
  BY DEF Rest
<1>b. \A i \in 1 .. n : Good(s, i)
  BY <1>a DEF Record
<1>1. /\ b \in Nat /\ 1 <= b /\ b <= n /\ s[b].k = "resume"
      /\ \A i \in 1 .. n : s[i].t = t <=> i >= b
      /\ \A i \in 1 .. n : i > b => s[i].k # "resume"
  BY <1>b, LastSegment, ZenonT(60)
<1>2. n \in Nat /\ c \in Nat /\ 1 <= c /\ c <= n
  BY <1>1
<1>3. z \in Seq(RecordType) /\ Len(z) = c /\ Agree(s, z, c)
  BY <1>2 DEF Agree
<1>4. \A i \in 1 .. c : z[i] = s[i]
  BY <1>3 DEF Agree
<1>5. t \in Threads
  <2>1. s[n] \in RecordType
    BY <1>2
  <2> QED BY <2>1, RecordFields
<1>6. T2 \in [Threads -> LooseType] /\ T2[t] = y /\ \A u \in Threads \ {t} : T2[u] = T[u]
  BY <1>5
<1>7. \A u \in Threads : Base0(z, T2, u) = Base0(s, T, u)
  <2> SUFFICES ASSUME NEW u \in Threads PROVE Base0(z, T2, u) = Base0(s, T, u)
    OBVIOUS
  <2>1. Pcalls(z, c, u) = Pcalls(s, c, u)
    BY <1>2, <1>3, LocalCounts
  <2>2. Pcalls(s, c, u) \in Nat /\ Pcalls(s, n, u) \in Nat
    BY <1>2, NumberType DEF Pcalls
  <2>3. CASE u = t
    <3>1. T[t].baseC \in Int
      BY <1>5, LooseFields
    <3>2. Base0(z, T2, u) = y.baseC - Pcalls(s, c, u)
      BY <2>1, <2>3, <1>3, <1>6 DEF Base0
    <3> QED BY <2>2, <2>3, <3>1, <3>2 DEF Base0
  <2>4. CASE u # t
    <3>1. \A i \in c + 1 .. n : ~(s[i].t \in {u} /\ s[i].k \in {"pcall"})
      BY <1>1, <1>2, <2>4
    <3>2. Pcalls(s, n, u) = Pcalls(s, c, u)
      BY <3>1, <1>2, NumberFlat DEF Pcalls
    <3> QED BY <2>1, <3>2, <2>4, <1>3, <1>6 DEF Base0
  <2> QED BY <2>3, <2>4
<1>8. \A u : OnStack(z, u) <=> OnStack(s, u)
  <2> SUFFICES ASSUME NEW u PROVE OnStack(z, u) <=> OnStack(s, u)
    OBVIOUS
  <2>1. OnStack(z, u) => OnStack(s, u)
    BY <1>2, <1>3, <1>4 DEF OnStack
  <2>2. ASSUME OnStack(s, u) PROVE OnStack(z, u)
    <3>1. PICK i \in 1 .. n : s[i].t = u
      BY <2>2 DEF OnStack
    <3>2. CASE i <= c
      BY <3>1, <3>2, <1>2, <1>3, <1>4 DEF OnStack
    <3>3. CASE i > c
      <4>1. s[c].t = u
        BY <3>1, <3>3, <1>1, <1>2
      <4> QED BY <4>1, <1>2, <1>3, <1>4 DEF OnStack
    <3> QED BY <3>1, <3>2, <3>3, <1>2
  <2> QED BY <2>1, <2>2
<1>9. Actives(z, T2)
  <2> SUFFICES ASSUME NEW u \in Threads
               PROVE  /\ T2[u].active <=> OnStack(z, u)
                      /\ OnStack(z, u) => T2[u].status = "ok" /\ Base0(z, T2, u) >= 1
    BY DEF Actives
  <2>1. /\ T[u].active <=> OnStack(s, u)
        /\ OnStack(s, u) => T[u].status = "ok" /\ Base0(s, T, u) >= 1
    BY DEF Rest, Actives
  <2>2. CASE u = t
    <3>1. OnStack(s, t)
      BY <1>2 DEF OnStack
    <3>2. T2[u].active /\ T2[u].status = "ok"
      BY <2>2, <1>6
    <3> QED BY <2>1, <2>2, <3>1, <3>2, <1>7, <1>8
  <2>3. CASE u # t
    <3>1. T2[u] = T[u]
      BY <1>6, <2>3
    <3> QED BY <2>1, <3>1, <1>7, <1>8
  <2> QED BY <2>2, <2>3
<1>10. ASSUME NEW i \in 1 .. c PROVE Record(z, T2, i)
  <2>1. i \in 1 .. n /\ i \in Nat /\ i \in Nat \ {0}
    BY <1>2
  <2>2. Record(s, T, i)
    BY <2>1, <1>a
  <2>3. Agree(s, z, i)
    BY <1>4, <1>2 DEF Agree
  <2>4. Good(z, i)
    BY <2>1, <2>2, <2>3, LocalGood DEF Record
  <2>5. z[i] = s[i] /\ s[i].t \in Threads
    <3>1. s[i] \in RecordType
      BY <2>1
    <3> QED BY <3>1, <1>4, RecordFields
  <2>6. FrameAt(z, T2[s[i].t], i)
    <3>1. CASE s[i].t = t
      BY <3>1, <2>5, <1>6 DEF FrameAt
    <3>2. CASE s[i].t # t
      <4>1. T2[s[i].t] = T[s[i].t]
        BY <3>2, <2>5, <1>6
      <4> QED BY <4>1, <2>2, <2>5 DEF FrameAt, Record
    <3> QED BY <3>1, <3>2
  <2>7. SavedAt(z, Base0(z, T2, s[i].t), i)
    BY <2>1, <2>2, <2>3, <2>5, <1>7, LocalSaved, ZenonT(60) DEF Record
  <2>8. ASSUME i < Len(z), IsLast(z, i) PROVE Waiting(z, T2, i)
    <3>1. i < c /\ i + 1 \in 1 .. c
      BY <2>8, <1>3, <1>2
    <3>2. s[i + 1].k = "resume"
      BY <2>8, <3>1, <1>3, <1>4 DEF IsLast
    <3>3. i < b
      BY <3>1, <3>2, <1>1, <1>2
    <3>4. IsLast(s, i) /\ i < n
      BY <3>1, <3>2, <1>2 DEF IsLast
    <3>5. Waiting(s, T, i)
      BY <3>4, <2>2 DEF Record
    <3>6. s[i].t # t
      BY <3>3, <2>1, <1>1
    <3>7. T2[s[i].t] = T[s[i].t] /\ Base0(z, T2, s[i].t) = Base0(s, T, s[i].t)
      BY <3>6, <2>5, <1>6, <1>7
    <3>8. /\ Counts(s, Base0(s, T, s[i].t), T[s[i].t], i)
          /\ Exact(s, Base0(s, T, s[i].t), T[s[i].t], i)
      BY <3>5 DEF Waiting
    <3>9. /\ Counts(z, Base0(s, T, s[i].t), T[s[i].t], i)
          /\ Exact(z, Base0(s, T, s[i].t), T[s[i].t], i)
      BY <3>8, <2>1, <2>3, LocalSaved
    <3> QED BY <3>5, <3>7, <3>9, <2>5 DEF Waiting
  <2> QED BY <2>4, <2>5, <2>6, <2>7, <2>8 DEF Record
<1>11. Rest(z, T2)
  BY <1>3, <1>9, <1>10 DEF Rest
<1> QED BY <1>3, <1>5, <1>6, <1>7, <1>11

\* The counts of one more record.
LEMMA StepCounts ==
  ASSUME NEW z, NEW n \in Nat, NEW u
  PROVE  /\ Calls(z, n + 1, u)
              = Calls(z, n, u) + (IF z[n + 1].t = u /\ z[n + 1].k = "call" THEN 1 ELSE 0)
         /\ Pcalls(z, n + 1, u)
              = Pcalls(z, n, u) + (IF z[n + 1].t = u /\ z[n + 1].k = "pcall" THEN 1 ELSE 0)
         /\ Depth(z, n + 1)
              = Depth(z, n) + (IF z[n + 1].t \in Threads /\ z[n + 1].k \in {"resume", "call"}
                               THEN 1 ELSE 0)
<1>1. ASSUME NEW ts, NEW kinds
      PROVE  Number(z, n + 1, ts, kinds)
               = Number(z, n, ts, kinds) + (IF z[n + 1].t \in ts /\ z[n + 1].k \in kinds THEN 1 ELSE 0)
  BY NumberStep
<1> QED BY <1>1 DEF Calls, Pcalls, Depth

\* z is s with r pushed.
Pushed(s, r, z) == z \in Seq(RecordType) /\ Len(z) = Len(s) + 1 /\ z[Len(s) + 1] = r /\ Agree(s, z, Len(s))

\* Append pushes.
LEMMA AppendPushes ==
  ASSUME NEW s \in Seq(RecordType), NEW r \in RecordType
  PROVE  Pushed(s, r, Append(s, r)) /\ Len(s) \in Nat
BY DEF Pushed, Agree

\* A record that is pushed: the records below it stay, and it counts when it is
\* a call or a resume.
LEMMA PushCounts ==
  ASSUME NEW s \in Seq(RecordType), NEW r \in RecordType, NEW z, Pushed(s, r, z),
         NEW n \in Nat, n = Len(s)
  PROVE  /\ \A u : Calls(z, n + 1, u)
                     = Calls(s, n, u) + (IF r.t = u /\ r.k = "call" THEN 1 ELSE 0)
         /\ \A u : Pcalls(z, n + 1, u)
                     = Pcalls(s, n, u) + (IF r.t = u /\ r.k = "pcall" THEN 1 ELSE 0)
         /\ Depth(z, n + 1) = Depth(s, n) + (IF r.k \in {"resume", "call"} THEN 1 ELSE 0)
         /\ NoHandler(z, n + 1) <=> NoHandler(s, n) /\ r.k # "errh"
<1>1. z[n + 1] = r /\ Agree(s, z, n)
  BY DEF Pushed
<1>2. r.t \in Threads
  BY RecordFields
<1>3. ASSUME NEW u
      PROVE  /\ Calls(z, n + 1, u) = Calls(z, n, u) + (IF r.t = u /\ r.k = "call" THEN 1 ELSE 0)
             /\ Pcalls(z, n + 1, u) = Pcalls(z, n, u) + (IF r.t = u /\ r.k = "pcall" THEN 1 ELSE 0)
  BY <1>1, StepCounts, ZenonT(60)
<1>4. Depth(z, n + 1) = Depth(z, n) + (IF r.k \in {"resume", "call"} THEN 1 ELSE 0)
  BY <1>1, <1>2, StepCounts
<1>5. /\ \A u : Calls(z, n, u) = Calls(s, n, u) /\ Pcalls(z, n, u) = Pcalls(s, n, u)
      /\ Depth(z, n) = Depth(s, n)
  BY <1>1, LocalCounts
<1>6. NoHandler(z, n + 1) <=> NoHandler(s, n) /\ r.k # "errh"
  BY <1>1 DEF NoHandler, Agree
<1> QED BY <1>3, <1>4, <1>5, <1>6

\* The top record stands on the most frames of its thread.
LEMMA TopPos ==
  ASSUME NEW s \in Seq(RecordType), s # <<>>, \A i \in 1 .. Len(s) : Good(s, i),
         NEW j \in 1 .. Len(s), s[j].t = s[Len(s)].t
  PROVE  Pos(s[j]) <= Pos(s[Len(s)])
<1>1. Len(s) \in 1 .. Len(s)
  OBVIOUS
<1>2. s[Len(s)] \in RecordType /\ s[j] \in RecordType
  BY <1>1
<1>3. Pos(s[Len(s)]) \in Nat /\ Pos(s[j]) \in Nat
  BY <1>2, RecordFields
<1>4. CASE j = Len(s)
  BY <1>3, <1>4
<1>5. CASE j # Len(s)
  <2>1. j \in 1 .. Len(s) - 1
    BY <1>5
  <2>2. Good(s, Len(s))
    BY <1>1
  <2>3. IF s[Len(s)].k \in {"call", "pcall"}
        THEN Pos(s[j]) < Pos(s[Len(s)]) ELSE Pos(s[j]) <= Pos(s[Len(s)])
    BY <2>1, <2>2 DEF Good
  <2> QED BY <2>3, <1>3
<1> QED BY <1>4, <1>5

\* A call, a pcall, an error function or a continuation that may be pushed.
Pushable(top, r) ==
  /\ r.t = top.t /\ r.k # "resume"
  /\ r.k = "pcall" => top.k \in {"call", "resume"}
  /\ r.k = "errh" => top.k = "pcall"
  /\ r.k = "cont" => top.k = "resume" /\ 0 < r.at /\ r.at <= r.ci
  /\ r.k \in {"pcall", "cont"} => r.active
  /\ Pos(top) <= Pos(r) /\ (r.k \in {"call", "pcall"} => Pos(top) < Pos(r))

\* Pushing it makes a stack of the right shape.
LEMMA PushGood ==
  ASSUME NEW s \in Seq(RecordType), s # <<>>, \A i \in 1 .. Len(s) : Good(s, i),
         NEW r \in RecordType, Pushable(s[Len(s)], r), NEW z, Pushed(s, r, z)
  PROVE  Good(z, Len(s) + 1)
<1> DEFINE n == Len(s)
           t == r.t
<1>1. /\ z \in Seq(RecordType) /\ Len(z) = n + 1 /\ n \in Nat /\ n >= 1 /\ z[n + 1] = r
      /\ \A i \in 1 .. n : z[i] = s[i]
  BY DEF Pushed, Agree
<1>2. /\ Calls(z, n + 1, t) = Calls(s, n, t) + (IF r.k = "call" THEN 1 ELSE 0)
      /\ Pcalls(z, n + 1, t) = Pcalls(s, n, t) + (IF r.k = "pcall" THEN 1 ELSE 0)
  BY <1>1, PushCounts
<1>3. n \in 1 .. n /\ s[n] \in RecordType
  BY <1>1
<1>4. Good(s, n) /\ s[n].t = t
  BY <1>3 DEF Pushable
<1>5. PICK b \in 1 .. n : Segment(s, b, n)
  BY <1>3, SomeSegment
<1>6. Segment(z, b, n + 1)
  BY <1>1, <1>4, <1>5 DEF Segment, Pushable
<1>7. \A j \in 1 .. n : s[j].t = t => Pos(s[j]) <= Pos(s[n])
  BY <1>4, TopPos
<1>8. Pos(r) \in Nat /\ \A j \in 1 .. n : Pos(s[j]) \in Nat
  BY RecordFields
<1>9. \A j \in 1 .. n : z[j].t = t => /\ Pos(z[j]) <= Pos(r)
                                      /\ r.k \in {"call", "pcall"} => Pos(z[j]) < Pos(r)
  BY <1>1, <1>3, <1>7, <1>8 DEF Pushable
<1>10. r.k \in {"call", "pcall"} => 0 < r.at
  BY <1>3, <1>8 DEF Pushable, Pos
<1>11. Calls(s, n, t) \in Nat /\ Pcalls(s, n, t) \in Nat
  BY <1>1, NumberType DEF Calls, Pcalls
<1>12. Pcalls(z, n + 1, t) <= Calls(z, n + 1, t) + (IF r.k \in {"pcall", "errh"} THEN 1 ELSE 0)
  <2>1. Pcalls(s, n, t) <= Calls(s, n, t) + (IF s[n].k \in {"pcall", "errh"} THEN 1 ELSE 0)
    BY <1>4 DEF Good
  <2>2. r.k \in {"call", "pcall", "cont", "errh"}
    BY RecordFields DEF Pushable
  <2>3. CASE r.k = "call"
    BY <2>1, <2>3, <1>2, <1>11
  <2>4. CASE r.k \in {"pcall", "cont"}
    BY <2>1, <2>4, <1>2, <1>11 DEF Pushable
  <2>5. CASE r.k = "errh"
    BY <2>1, <2>5, <1>2, <1>11 DEF Pushable
  <2> QED BY <2>2, <2>3, <2>4, <2>5
<1>13. /\ n + 1 > 1 /\ z[(n + 1) - 1] = s[n] /\ b \in 1 .. n + 1 /\ z[n + 1].t = t
       /\ (n + 1) - 1 = n
  BY <1>1, <1>5
<1>14. /\ \E c \in 1 .. n + 1 : Segment(z, c, n + 1)
       /\ r.k # "resume"
       /\ r.k = "pcall" => s[n].k \in {"call", "resume"}
       /\ r.k = "errh" => s[n].k = "pcall"
       /\ r.k = "cont" => s[n].k = "resume" /\ 0 < r.at /\ r.at <= r.ci
       /\ r.k \in {"pcall", "cont"} => r.active
  BY <1>6, <1>13 DEF Pushable
<1> HIDE DEF n, t
<1>15. Good(z, n + 1)
  BY <1>1, <1>9, <1>10, <1>12, <1>13, <1>14 DEF Good
<1> QED BY <1>15 DEF n

\* The stack with one more record of the thread that runs, and that thread
\* changed.
Pushing(s, T, r, y, z, T2) ==
  LET t == s[Len(s)].t
  IN  /\ s \in Seq(RecordType) /\ s # <<>> /\ T \in [Threads -> LooseType] /\ Rest(s, T)
      /\ r \in RecordType /\ Pushable(s[Len(s)], r)
      /\ y \in LooseType /\ y.active /\ y.status = "ok"
      /\ y.baseC = T[t].baseC + (IF r.k = "pcall" THEN 1 ELSE 0)
      /\ \A i \in 1 .. Len(s) : s[i].t = t => FrameAt(s, y, i)
      /\ Pushed(s, r, z) /\ T2 = [T EXCEPT ![t] = y]
      /\ FrameAt(z, y, Len(s) + 1) /\ SavedAt(z, Base0(s, T, t), Len(s) + 1)

\* Such a push keeps the invariant of the records, the new one included.
LEMMA PushRest ==
  ASSUME NEW s, NEW T, NEW r, NEW y, NEW z, NEW T2, Pushing(s, T, r, y, z, T2),
         NEW t, t = s[Len(s)].t
  PROVE  /\ z \in Seq(RecordType) /\ Len(z) = Len(s) + 1
         /\ T2 \in [Threads -> LooseType]
         /\ Rest(z, T2)
         /\ Base0(z, T2, t) = Base0(s, T, t)
<1> USE DEF Pushing
<1> DEFINE n == Len(s)
<1>a. \A i \in 1 .. n : Record(s, T, i)
  BY DEF Rest
<1>b. \A i \in 1 .. n : Good(s, i)
  BY <1>a DEF Record
<1>1. /\ z \in Seq(RecordType) /\ Len(z) = n + 1 /\ n \in Nat /\ n >= 1 /\ z[n + 1] = r
      /\ \A i \in 1 .. n : z[i] = s[i]
  BY DEF Pushed, Agree
<1>2. /\ \A u : Pcalls(z, n + 1, u)
                  = Pcalls(s, n, u) + (IF r.t = u /\ r.k = "pcall" THEN 1 ELSE 0)
      /\ Agree(s, z, n)
  BY <1>1, PushCounts DEF Pushed
<1>3. r.t = t /\ r.k # "resume" /\ t \in Threads
  BY RecordFields DEF Pushable
<1>4. T2 \in [Threads -> LooseType] /\ T2[t] = y /\ \A u \in Threads \ {t} : T2[u] = T[u]
  BY <1>3
<1>5. \A u \in Threads : Base0(z, T2, u) = Base0(s, T, u)
  <2> SUFFICES ASSUME NEW u \in Threads PROVE Base0(z, T2, u) = Base0(s, T, u)
    OBVIOUS
  <2>1. Pcalls(s, n, u) \in Nat /\ Base0(z, T2, u) = T2[u].baseC - Pcalls(z, n + 1, u)
    BY <1>1, NumberType DEF Pcalls, Base0
  <2>2. CASE u = t
    <3>1. T[t].baseC \in Int
      BY <1>3, LooseFields
    <3> QED BY <2>1, <2>2, <3>1, <1>2, <1>3, <1>4 DEF Base0
  <2>3. CASE u # t
    <3>1. T2[u] = T[u] /\ T[u].baseC \in Int
      BY <2>3, <1>4, LooseFields
    <3> QED BY <2>1, <2>3, <3>1, <1>2, <1>3 DEF Base0
  <2> QED BY <2>2, <2>3
<1>6. \A u : OnStack(z, u) <=> OnStack(s, u)
  <2>1. s[n].t = t /\ n \in 1 .. n
    BY <1>1
  <2> QED BY <2>1, <1>1, <1>3 DEF OnStack
<1>7. Actives(z, T2)
  <2> SUFFICES ASSUME NEW u \in Threads
               PROVE  /\ T2[u].active <=> OnStack(z, u)
                      /\ OnStack(z, u) => T2[u].status = "ok" /\ Base0(z, T2, u) >= 1
    BY DEF Actives
  <2>1. /\ T[u].active <=> OnStack(s, u)
        /\ OnStack(s, u) => T[u].status = "ok" /\ Base0(s, T, u) >= 1
    BY DEF Rest, Actives
  <2>2. CASE u = t
    <3>1. OnStack(s, t)
      BY <1>1 DEF OnStack
    <3>2. T2[u].active /\ T2[u].status = "ok"
      BY <2>2, <1>4
    <3> QED BY <2>1, <2>2, <3>1, <3>2, <1>5, <1>6
  <2>3. CASE u # t
    <3>1. T2[u] = T[u]
      BY <1>4, <2>3
    <3> QED BY <2>1, <3>1, <1>5, <1>6
  <2> QED BY <2>2, <2>3
<1>8. ASSUME NEW i, i = n + 1 PROVE Record(z, T2, i)
  <2>1. Good(z, i)
    BY <1>b, <1>8, PushGood
  <2>2. z[i].t = t /\ ~(i < Len(z))
    BY <1>1, <1>3, <1>8
  <2>3. T2[z[i].t] = y /\ Base0(z, T2, z[i].t) = Base0(s, T, t)
    BY <2>2, <1>3, <1>4, <1>5
  <2>4. FrameAt(z, T2[z[i].t], i) /\ SavedAt(z, Base0(z, T2, z[i].t), i)
    BY <2>3, <1>8
  <2> QED BY <2>1, <2>2, <2>4 DEF Record
<1>9. ASSUME NEW i \in 1 .. n PROVE Record(z, T2, i)
  <2>1. i \in Nat /\ i \in Nat \ {0}
    OBVIOUS
  <2>2. Record(s, T, i)
    BY <1>a
  <2>3. Agree(s, z, i)
    BY <1>1 DEF Agree
  <2>4. Good(z, i)
    BY <2>1, <2>2, <2>3, LocalGood DEF Record
  <2>5. z[i] = s[i] /\ s[i].t \in Threads
    <3>1. s[i] \in RecordType
      OBVIOUS
    <3> QED BY <3>1, <1>1, RecordFields
  <2>6. FrameAt(z, T2[s[i].t], i)
    <3>1. CASE s[i].t = t
      BY <3>1, <2>5, <1>4 DEF FrameAt
    <3>2. CASE s[i].t # t
      <4>1. T2[s[i].t] = T[s[i].t]
        BY <3>2, <2>5, <1>4
      <4> QED BY <4>1, <2>2, <2>5 DEF FrameAt, Record
    <3> QED BY <3>1, <3>2
  <2>7. SavedAt(z, Base0(z, T2, s[i].t), i)
    BY <2>1, <2>2, <2>3, <2>5, <1>5, LocalSaved DEF Record
  <2>8. ASSUME i < Len(z), IsLast(z, i) PROVE Waiting(z, T2, i)
    <3>1. z[i + 1].k = "resume" /\ i + 1 \in 1 .. n + 1
      BY <2>8, <1>1 DEF IsLast
    <3>2. i # n
      BY <3>1, <1>1, <1>3
    <3>3. IsLast(s, i) /\ i < n
      BY <3>1, <3>2, <1>1 DEF IsLast
    <3>4. PICK b \in 1 .. n : Segment(s, b, n)
      BY <1>1, <1>b, SomeSegment
    <3>5. s[i].t # t
      BY <3>3, <3>4, <1>b, LastSegment
    <3>6. Waiting(s, T, i)
      BY <3>3, <2>2 DEF Record
    <3>7. T2[s[i].t] = T[s[i].t] /\ Base0(z, T2, s[i].t) = Base0(s, T, s[i].t)
      BY <3>5, <2>5, <1>4, <1>5
    <3>8. /\ Counts(s, Base0(s, T, s[i].t), T[s[i].t], i)
          /\ Exact(s, Base0(s, T, s[i].t), T[s[i].t], i)
      BY <3>6 DEF Waiting
    <3>9. /\ Counts(z, Base0(s, T, s[i].t), T[s[i].t], i)
          /\ Exact(z, Base0(s, T, s[i].t), T[s[i].t], i)
      BY <3>8, <2>1, <2>3, LocalSaved
    <3> QED BY <3>6, <3>7, <3>9, <2>5 DEF Waiting
  <2> QED BY <2>4, <2>5, <2>6, <2>7, <2>8 DEF Record
<1>10. ASSUME NEW i \in 1 .. Len(z) PROVE Record(z, T2, i)
  <2>1. i = n + 1 \/ i \in 1 .. n
    BY <1>1
  <2> QED BY <2>1, <1>8, <1>9
<1> QED BY <1>1, <1>3, <1>4, <1>5, <1>7, <1>10 DEF Rest

-----------------------------------------------------------------------------
(* Threads are resumed, and hand control back. *)

\* x and y differ in their frames only.
Alike(x, y) == /\ y.active = x.active /\ y.status = x.status
               /\ y.nC = x.nC /\ y.baseC = x.baseC

\* A record stays right while its thread only changes frames above it.
LEMMA RecordKept ==
  ASSUME NEW s, NEW z, NEW T, NEW T2, NEW i \in Nat \ {0}, Agree(s, z, i), Record(s, T, i),
         FrameAt(s, T2[s[i].t], i), Base0(z, T2, s[i].t) = Base0(s, T, s[i].t),
         i < Len(z) /\ IsLast(z, i) => Waiting(z, T2, i)
  PROVE  Record(z, T2, i)
<1>1. Good(z, i)
  BY LocalGood DEF Record
<1>2. z[i] = s[i]
  BY DEF Agree
<1>3. FrameAt(z, T2[z[i].t], i)
  BY <1>2 DEF FrameAt
<1>4. SavedAt(s, Base0(s, T, s[i].t), i)
  BY DEF Record
<1>5. SavedAt(z, Base0(z, T2, z[i].t), i)
  BY <1>2, <1>4, LocalSaved
<1> QED BY <1>1, <1>3, <1>5 DEF Record

\* Likewise for the record of a thread that waits.
LEMMA WaitingKept ==
  ASSUME NEW s, NEW z, NEW T, NEW T2, NEW i \in Nat \ {0}, Agree(s, z, i),
         Counts(s, Base0(s, T, s[i].t), T[s[i].t], i), Exact(s, Base0(s, T, s[i].t), T[s[i].t], i),
         T2[s[i].t].nC = T[s[i].t].nC, Base0(z, T2, s[i].t) = Base0(s, T, s[i].t),
         Pos(s[i]) < Len(T2[s[i].t].ci)
  PROVE  Waiting(z, T2, i)
<1>1. z[i] = s[i]
  BY DEF Agree
<1>2. /\ Counts(s, Base0(s, T, s[i].t), T2[s[i].t], i)
      /\ Exact(s, Base0(s, T, s[i].t), T2[s[i].t], i)
  BY DEF Counts, Exact
<1>3. /\ Counts(z, Base0(s, T, s[i].t), T2[s[i].t], i)
      /\ Exact(z, Base0(s, T, s[i].t), T2[s[i].t], i)
  BY <1>2, LocalSaved
<1> QED BY <1>1, <1>3 DEF Waiting

\* No record above the last one of a thread is the thread's.
LEMMA LastOfThread ==
  ASSUME NEW s \in Seq(RecordType), \A i \in 1 .. Len(s) : Good(s, i),
         NEW i \in 1 .. Len(s), NEW j \in 1 .. Len(s), i < j, IsLast(s, i)
  PROVE  s[i].t # s[j].t
<1>1. PICK b \in 1 .. j : Segment(s, b, j)
  BY DEF Good
<1>2. s[i + 1].k = "resume"
  BY DEF IsLast
<1>3. i < b
  BY <1>1, <1>2 DEF Segment
<1>4. s[b].k = "resume" /\ s[b].t = s[j].t /\ b \in 1 .. Len(s) /\ i \in 1 .. b - 1
  BY <1>1, <1>3 DEF Segment
<1>5. s[i].t # s[b].t
  BY <1>4 DEF Good
<1> QED BY <1>4, <1>5

\* A thread on the stack has a last record.
LEMMA LastExists ==
  ASSUME NEW s \in Seq(RecordType), \A i \in 1 .. Len(s) : Good(s, i),
         NEW t, OnStack(s, t)
  PROVE  \E i \in 1 .. Len(s) : /\ s[i].t = t /\ IsLast(s, i)
                                /\ \A j \in 1 .. Len(s) : s[j].t = t => j <= i
<1> DEFINE n == Len(s)
           Gap == {n - i : i \in {j \in 1 .. n : s[j].t = t}}
<1>1. n \in Nat
  OBVIOUS
<1>2. Gap # {} /\ Gap \subseteq Nat
  BY <1>1 DEF OnStack
<1>3. PICK g \in Gap : \A h \in Gap : g <= h
  BY <1>2, Least
<1>4. PICK i \in 1 .. n : s[i].t = t /\ g = n - i
  BY <1>3
<1>5. \A j \in 1 .. n : s[j].t = t => j <= i
  <2>1. \A j \in 1 .. n : s[j].t = t => n - j \in Gap
    OBVIOUS
  <2>2. \A j \in 1 .. n : s[j].t = t => n - i <= n - j
    BY <2>1, <1>3, <1>4
  <2> QED BY <2>2, <1>1
<1>6. IsLast(s, i)
  <2>1. CASE i = n
    BY <2>1 DEF IsLast
  <2>2. CASE i # n
    <3>1. i + 1 \in 1 .. n /\ s[i + 1].t # t
      BY <2>2, <1>1, <1>4, <1>5
    <3>2. PICK b \in 1 .. i + 1 : Segment(s, b, i + 1)
      BY <3>1 DEF Good
    <3>3. b = i + 1
      BY <3>1, <3>2, <1>4 DEF Segment
    <3>4. s[i + 1].k = "resume"
      BY <3>2, <3>3 DEF Segment
    <3> QED BY <3>4 DEF IsLast
  <2> QED BY <2>1, <2>2
<1> QED BY <1>4, <1>5, <1>6

\* The counters of every thread at its last record.
LEMMA LastCounts ==
  ASSUME NEW s \in Seq(RecordType), NEW T, Rest(s, T), Now(s, T, "none"),
         NEW i \in 1 .. Len(s), IsLast(s, i)
  PROVE  /\ Counts(s, Base0(s, T, s[i].t), T[s[i].t], i)
         /\ Exact(s, Base0(s, T, s[i].t), T[s[i].t], i)
<1>1. Record(s, T, i)
  BY DEF Rest
<1>2. CASE i < Len(s)
  BY <1>1, <1>2 DEF Record, Waiting
<1>3. CASE i = Len(s)
  BY <1>3 DEF Now, Top
<1> QED BY <1>2, <1>3

\* Threads change frames above their records, and others change off the stack.
LEMMA FramesChange ==
  ASSUME NEW s \in Seq(RecordType), NEW T \in [Threads -> LooseType], Rest(s, T),
         NEW sig, Now(s, T, sig), NEW T2 \in [Threads -> LooseType],
         \A u \in Threads : IF OnStack(s, u) THEN Alike(T[u], T2[u]) ELSE ~T2[u].active,
         \A i \in 1 .. Len(s) : FrameAt(s, T2[s[i].t], i),
         \A i \in 1 .. Len(s) : i < Len(s) /\ IsLast(s, i) => Pos(s[i]) < Len(T2[s[i].t].ci)
  PROVE  Rest(s, T2) /\ Now(s, T2, sig)
<1>1. ASSUME NEW i \in 1 .. Len(s)
      PROVE  s[i].t \in Threads /\ OnStack(s, s[i].t) /\ Alike(T[s[i].t], T2[s[i].t])
  <2>1. s[i] \in RecordType
    OBVIOUS
  <2>2. OnStack(s, s[i].t)
    BY DEF OnStack
  <2> QED BY <2>1, <2>2, RecordFields
<1>2. \A u \in Threads : OnStack(s, u) => Base0(s, T2, u) = Base0(s, T, u)
  BY DEF Base0, Alike
<1>3. Actives(s, T2)
  BY <1>2 DEF Rest, Actives, Alike
<1>4. ASSUME NEW i \in 1 .. Len(s) PROVE Record(s, T2, i)
  <2>1. Record(s, T, i) /\ i \in Nat \ {0} /\ Agree(s, s, i)
    BY DEF Rest, Agree
  <2>2. Base0(s, T2, s[i].t) = Base0(s, T, s[i].t) /\ T2[s[i].t].nC = T[s[i].t].nC
    BY <1>1, <1>2 DEF Alike
  <2>3. ASSUME i < Len(s), IsLast(s, i) PROVE Waiting(s, T2, i)
    <3>1. Waiting(s, T, i)
      BY <2>1, <2>3 DEF Record
    <3> QED BY <2>1, <2>2, <2>3, <3>1, WaitingKept DEF Waiting
  <2> QED BY <2>1, <2>2, <2>3, RecordKept
<1>5. Now(s, T2, sig)
  <2> SUFFICES ASSUME s # <<>> PROVE Now(s, T2, sig)
    BY DEF Now
  <2>1. Len(s) \in 1 .. Len(s)
    OBVIOUS
  <2>2. Base0(s, T2, Top(s).t) = Base0(s, T, Top(s).t) /\ T2[Top(s).t].nC = T[Top(s).t].nC
    BY <2>1, <1>1, <1>2 DEF Alike, Top
  <2> QED BY <2>2 DEF Now, Counts, Exact
<1> QED BY <1>3, <1>4, <1>5 DEF Rest

\* A thread is resumed: it starts with the count of who resumed it, or alone.
LEMMA ResumeRest ==
  ASSUME NEW s \in Seq(RecordType), NEW T \in [Threads -> LooseType], Rest(s, T), Now(s, T, "none"),
         NEW co \in Threads, ~OnStack(s, co), NEW from \in Threads,
         from = IF s = <<>> THEN co ELSE s[Len(s)].t,
         NEW z, Pushed(s, ResumeRec(co, from), z), NEW T2 \in [Threads -> LooseType],
         T2[co].active, T2[co].status = "ok", T2[co].nC = T2[co].baseC,
         T2[co].baseC = (IF s = <<>> THEN 0 ELSE T[from].nC) + 1, T2[co].baseC < HardC,
         \A u \in Threads \ {co} : Alike(T[u], T2[u]),
         \A i \in 1 .. Len(s) : FrameAt(s, T2[s[i].t], i),
         \A i \in 1 .. Len(s) : IsLast(s, i) => Pos(s[i]) < Len(T2[s[i].t].ci)
  PROVE  Rest(z, T2) /\ Now(z, T2, "none")
<1> DEFINE n == Len(s)
           r == ResumeRec(co, from)
<1>1. r \in RecordType /\ r.k = "resume" /\ r.t = co /\ r.from = from
  BY DEF ResumeRec, RecordType
<1>2. n \in Nat
  OBVIOUS
<1>3. /\ z \in Seq(RecordType) /\ Len(z) = n + 1 /\ z[n + 1] = r /\ Agree(s, z, n)
      /\ \A i \in 1 .. n : z[i] = s[i]
  BY DEF Pushed, Agree
<1>4. \A i \in 1 .. n : /\ s[i] \in RecordType /\ s[i].t \in Threads /\ s[i].t # co
                        /\ Record(s, T, i) /\ Good(s, i)
  BY RecordFields DEF Rest, Record, OnStack
<1> HIDE DEF r
<1>5. /\ \A u : Calls(z, n + 1, u) = Calls(s, n, u) /\ Pcalls(z, n + 1, u) = Pcalls(s, n, u)
      /\ Depth(z, n + 1) = Depth(s, n) + 1
      /\ NoHandler(z, n + 1) <=> NoHandler(s, n)
  <2>1. Pushed(s, r, z)
    BY DEF r
  <2>2. \A u : Calls(s, n, u) \in Nat /\ Pcalls(s, n, u) \in Nat
    BY <1>2, NumberType DEF Calls, Pcalls
  <2> HIDE DEF n
  <2> QED BY <2>1, <2>2, <1>1, <1>2, PushCounts DEF n
<1>6. Calls(s, n, co) = 0 /\ Pcalls(s, n, co) = 0
  BY <1>2, <1>4, NumberZero DEF Calls, Pcalls
<1>7. \A u \in Threads \ {co} : Base0(z, T2, u) = Base0(s, T, u) /\ T2[u].nC = T[u].nC
  BY <1>3, <1>5 DEF Base0, Alike
<1>8. T2[co].baseC \in Int /\ Base0(z, T2, co) = T2[co].baseC
  <2>1. T2[co].baseC \in Int
    BY LooseFields
  <2> QED BY <2>1, <1>3, <1>5, <1>6 DEF Base0
<1>9. \A u : OnStack(z, u) <=> OnStack(s, u) \/ u = co
  BY <1>1, <1>2, <1>3, SMTT(30) DEF OnStack
<1>10. s # <<>> => /\ n \in 1 .. n /\ s[n].t = from /\ s[n].k \in {"call", "resume"}
                   /\ T[from].nC >= Here(s, Base0(s, T, from), n)
                   /\ NoHandler(s, n) => T[from].nC = Here(s, Base0(s, T, from), n)
                   /\ Here(s, Base0(s, T, from), n) >= Depth(s, n)
                   /\ NoHandler(s, n) => Here(s, Base0(s, T, from), n) = Depth(s, n)
  <2> SUFFICES ASSUME s # <<>>
               PROVE  /\ n \in 1 .. n /\ s[n].t = from /\ s[n].k \in {"call", "resume"}
                      /\ T[from].nC >= Here(s, Base0(s, T, from), n)
                      /\ NoHandler(s, n) => T[from].nC = Here(s, Base0(s, T, from), n)
                      /\ Here(s, Base0(s, T, from), n) >= Depth(s, n)
                      /\ NoHandler(s, n) => Here(s, Base0(s, T, from), n) = Depth(s, n)
    OBVIOUS
  <2>1. n \in 1 .. n /\ s[n].t = from
    OBVIOUS
  <2>2. /\ s[n].k \in {"call", "resume"}
        /\ Counts(s, Base0(s, T, from), T[from], n) /\ Exact(s, Base0(s, T, from), T[from], n)
    BY <2>1 DEF Now, Top
  <2>3. SavedAt(s, Base0(s, T, from), n)
    BY <2>1, <1>4 DEF Record
  <2> HIDE DEF n
  <2>a. Here(s, Base0(s, T, from), n) \in Int
    <3>1. T[from].baseC \in Int
      BY LooseFields
    <3>2. Pcalls(s, n, from) \in Nat /\ \A u : Calls(s, n, u) \in Nat
      BY <1>2, NumberType DEF Calls, Pcalls
    <3> QED BY <3>1, <3>2 DEF Base0, Here, n
  <2>4. /\ T[from].nC >= Here(s, Base0(s, T, from), n)
        /\ NoHandler(s, n) => T[from].nC = Here(s, Base0(s, T, from), n)
    BY <2>2, <2>a DEF Counts, Exact
  <2>5. /\ Here(s, Base0(s, T, from), n) >= Depth(s, n)
        /\ NoHandler(s, n) => Here(s, Base0(s, T, from), n) = Depth(s, n)
    BY <2>3 DEF SavedAt
  <2> QED BY <2>1, <2>2, <2>4, <2>5
<1>11. T2[co].baseC >= Depth(s, n) + 1 /\ (NoHandler(s, n) => T2[co].baseC = Depth(s, n) + 1)
  <2>1. Depth(s, n) \in Nat
    BY <1>2, NumberType DEF Depth
  <2>2. CASE s = <<>>
    <3>1. n = 0
      BY <2>2
    <3>2. Depth(s, n) = 0
      BY <3>1, NumberZero DEF Depth
    <3> QED BY <2>2, <3>2
  <2>3. CASE s # <<>>
    <3>1. T[from].nC \in Int /\ Base0(s, T, from) \in Int /\ Here(s, Base0(s, T, from), n) \in Int
      <4>1. T[from].nC \in Int /\ T[from].baseC \in Int
        BY LooseFields
      <4>2. Pcalls(s, n, from) \in Nat /\ \A u : Calls(s, n, u) \in Nat
        BY <1>2, NumberType DEF Calls, Pcalls
      <4> QED BY <4>1, <4>2 DEF Base0, Here
    <3> HIDE DEF n
    <3> QED BY <2>1, <2>3, <3>1, <1>10
  <2> QED BY <2>2, <2>3
<1>12. Actives(z, T2)
  <2> SUFFICES ASSUME NEW u \in Threads
               PROVE  /\ T2[u].active <=> OnStack(z, u)
                      /\ OnStack(z, u) => T2[u].status = "ok" /\ Base0(z, T2, u) >= 1
    BY DEF Actives
  <2>1. CASE u = co
    <3>1. Base0(z, T2, co) >= 1
      <4>1. Depth(s, n) \in Nat
        BY <1>2, NumberType DEF Depth
      <4> QED BY <4>1, <1>8, <1>11
    <3> QED BY <2>1, <3>1, <1>9
  <2>2. CASE u # co
    BY <2>2, <1>7, <1>9 DEF Rest, Actives, Alike
  <2> QED BY <2>1, <2>2
<1>13. ASSUME NEW i \in 1 .. n PROVE Record(z, T2, i)
  <2>1. i \in Nat \ {0} /\ Agree(s, z, i) /\ Record(s, T, i)
    BY <1>3, <1>4 DEF Agree
  <2>2. Base0(z, T2, s[i].t) = Base0(s, T, s[i].t) /\ T2[s[i].t].nC = T[s[i].t].nC
    BY <1>4, <1>7
  <2>3. ASSUME i < Len(z), IsLast(z, i) PROVE Waiting(z, T2, i)
    <3>1. IsLast(s, i)
      BY <2>3, <1>3 DEF IsLast
    <3> QED BY <2>1, <2>2, <3>1, LastCounts, WaitingKept
  <2> QED BY <2>1, <2>2, <2>3, RecordKept
<1>14. ASSUME NEW i, i = n + 1 PROVE Record(z, T2, i) /\ Counts(z, Base0(z, T2, co), T2[co], i)
                                     /\ Exact(z, Base0(z, T2, co), T2[co], i)
  <2>1. /\ i \in Nat /\ i >= 1 /\ z[i] = r /\ i = Len(z) /\ i - 1 = n
        /\ \A j \in 1 .. n : z[j] = s[j]
    BY <1>2, <1>3, <1>14
  <2>2. Segment(z, i, i)
    BY <2>1, <1>1 DEF Segment
  <2>3. i > 1 => s # <<>>
    BY <1>14
  <2>4. r.from = IF i = 1 THEN r.t ELSE z[i - 1].t
    <3>1. CASE i = 1
      <4>1. s = <<>>
        BY <3>1, <1>2, <1>14
      <4> QED BY <4>1, <3>1, <1>1
    <3>2. CASE i # 1
      <4>1. i > 1 /\ n \in 1 .. n
        BY <3>2, <2>1, <1>2
      <4>2. z[i - 1].t = from
        BY <4>1, <2>1, <2>3, <1>10
      <4> QED BY <4>2, <3>2, <1>1
    <3> QED BY <3>1, <3>2
  <2>5. \A j \in 1 .. i - 1 : z[j].t # r.t
    BY <2>1, <1>1, <1>4, SMTT(30)
  <2>6. i > 1 => z[i - 1].k \in {"call", "resume"}
    BY <2>1, <2>3, <1>10
  <2>7. Pcalls(z, i, co) = 0 /\ Calls(z, i, co) = 0
    BY <1>5, <1>6, <1>14
  <2>8. Good(z, i)
    <3>1. \E b \in 1 .. i : Segment(z, b, i)
      BY <2>1, <2>2
    <3> HIDE DEF n
    <3> QED BY <3>1, <2>1, <2>4, <2>5, <2>6, <2>7, <1>1 DEF Good
  <2>9. FrameAt(z, T2[co], i)
    BY <2>1, <1>1, LooseFields DEF FrameAt, Pos
  <2>10. Here(z, Base0(z, T2, co), i) = T2[co].baseC
    BY <2>1, <2>7, <1>1, <1>8 DEF Here
  <2>11. Depth(z, i) = Depth(s, n) + 1 /\ (NoHandler(z, i) <=> NoHandler(s, n))
    BY <1>5, <1>14
  <2>12. SavedAt(z, Base0(z, T2, co), i)
    BY <2>1, <2>10, <2>11, <1>1, <1>11 DEF SavedAt
  <2>13. Counts(z, Base0(z, T2, co), T2[co], i) /\ Exact(z, Base0(z, T2, co), T2[co], i)
    BY <2>1, <2>10, <1>1, <1>8 DEF Counts, Exact
  <2>14. Record(z, T2, i)
    BY <2>1, <2>8, <2>9, <2>12, <1>1 DEF Record
  <2> QED BY <2>13, <2>14
<1>15. Now(z, T2, "none")
  <2>1. Top(z) = r /\ Len(z) = n + 1
    BY <1>3 DEF Top
  <2> QED BY <2>1, <1>1, <1>14 DEF Now
<1>16. ASSUME NEW i \in 1 .. Len(z) PROVE Record(z, T2, i)
  <2>1. i = n + 1 \/ i \in 1 .. n
    BY <1>2, <1>3
  <2> QED BY <2>1, <1>13, <1>14
<1> QED BY <1>12, <1>15, <1>16 DEF Rest

\* Control goes back: the thread that ran leaves the stack with all its records.
LEMMA HandBackRest ==
  ASSUME NEW s \in Seq(RecordType), s # <<>>, NEW T \in [Threads -> LooseType], Rest(s, T),
         NEW b, Segment(s, b, Len(s)), NEW z, z = SubSeq(s, 1, b - 1),
         NEW t, t = s[Len(s)].t, NEW T2 \in [Threads -> LooseType], ~T2[t].active,
         \A u \in Threads \ {t} : Alike(T[u], T2[u]),
         \A i \in 1 .. b - 1 : FrameAt(s, T2[s[i].t], i),
         \A i \in 1 .. b - 1 : i < b - 1 /\ IsLast(s, i) => Pos(s[i]) < Len(T2[s[i].t].ci)
  PROVE  z \in Seq(RecordType) /\ Rest(z, T2) /\ Now(z, T2, "none")
<1> DEFINE n == Len(s)
           m == b - 1
<1>1. \A i \in 1 .. n : Record(s, T, i) /\ Good(s, i)
  BY DEF Rest, Record
<1>2. /\ b \in Nat /\ 1 <= b /\ b <= n /\ s[b].k = "resume" /\ n \in Nat
      /\ \A i \in 1 .. n : s[i].t = t <=> i >= b
  BY <1>1, LastSegment
<1>3. m \in Nat /\ m < n /\ m + 1 = b
  BY <1>2
<1>4. /\ z \in Seq(RecordType) /\ Len(z) = m /\ Agree(s, z, m)
      /\ \A i \in 1 .. m : z[i] = s[i]
  BY <1>3 DEF Agree
<1>5. \A i \in 1 .. m : /\ i \in 1 .. n /\ s[i] \in RecordType /\ s[i].t \in Threads
                        /\ s[i].t # t /\ Record(s, T, i)
  BY <1>1, <1>2, <1>3, RecordFields
<1> HIDE DEF m
<1>6. \A u \in Threads \ {t} : Base0(z, T2, u) = Base0(s, T, u) /\ T2[u].nC = T[u].nC
  <2> SUFFICES ASSUME NEW u \in Threads, u # t
               PROVE  Base0(z, T2, u) = Base0(s, T, u) /\ T2[u].nC = T[u].nC
    OBVIOUS
  <2>1. Pcalls(z, m, u) = Pcalls(s, m, u)
    BY <1>3, <1>4, LocalCounts
  <2>2. \A i \in m + 1 .. n : ~(s[i].t \in {u} /\ s[i].k \in {"pcall"})
    BY <1>2, <1>3
  <2>3. Pcalls(s, n, u) = Pcalls(s, m, u)
    BY <2>2, <1>2, <1>3, NumberFlat DEF Pcalls
  <2> QED BY <2>1, <2>3, <1>4 DEF Base0, Alike
<1>7. ASSUME NEW u PROVE OnStack(z, u) <=> OnStack(s, u) /\ u # t
  <2>1. OnStack(z, u) => OnStack(s, u) /\ u # t
    BY <1>4, <1>5 DEF OnStack
  <2>2. ASSUME NEW i \in 1 .. n, s[i].t = u, u # t PROVE i \in 1 .. m
    BY <2>2, <1>2, <1>3
  <2> QED BY <2>1, <2>2, <1>4 DEF OnStack
<1>8. Actives(z, T2)
  <2> SUFFICES ASSUME NEW u \in Threads
               PROVE  /\ T2[u].active <=> OnStack(z, u)
                      /\ OnStack(z, u) => T2[u].status = "ok" /\ Base0(z, T2, u) >= 1
    BY DEF Actives
  <2>1. CASE u = t
    BY <2>1, <1>7
  <2>2. CASE u # t
    BY <2>2, <1>6, <1>7 DEF Rest, Actives, Alike
  <2> QED BY <2>1, <2>2
<1>9. ASSUME NEW i \in 1 .. m
      PROVE  /\ i \in Nat \ {0} /\ Agree(s, z, i) /\ Record(s, T, i)
             /\ Base0(z, T2, s[i].t) = Base0(s, T, s[i].t) /\ T2[s[i].t].nC = T[s[i].t].nC
  BY <1>4, <1>5, <1>6 DEF Agree
<1>10. ASSUME NEW i \in 1 .. m, IsLast(s, i)
       PROVE  Waiting(s, T, i) /\ Counts(s, Base0(s, T, s[i].t), T[s[i].t], i)
              /\ Exact(s, Base0(s, T, s[i].t), T[s[i].t], i)
  <2>1. i < n
    BY <1>3
  <2> QED BY <2>1, <1>9, <1>10 DEF Record, Waiting
<1>11. ASSUME NEW i \in 1 .. m PROVE Record(z, T2, i)
  <2>1. ASSUME i < Len(z), IsLast(z, i) PROVE Waiting(z, T2, i)
    <3>1. i < m /\ IsLast(s, i)
      BY <2>1, <1>3, <1>4 DEF IsLast
    <3>2. Pos(s[i]) < Len(T2[s[i].t].ci)
      BY <3>1, <1>3 DEF m
    <3> QED BY <3>1, <3>2, <1>9, <1>10, WaitingKept
  <2>2. FrameAt(s, T2[s[i].t], i)
    BY DEF m
  <2> QED BY <2>1, <2>2, <1>9, RecordKept
<1>12. Now(z, T2, "none")
  <2> SUFFICES ASSUME z # <<>> PROVE Now(z, T2, "none")
    BY DEF Now
  <2>1. m \in 1 .. m
    BY <1>3, <1>4
  <2>2. Top(z) = s[m]
    BY <2>1, <1>4 DEF Top
  <2>3. s[m].k \in {"call", "resume"}
    <3>1. Good(s, b) /\ b > 1 /\ b - 1 = m
      BY <2>1, <1>1, <1>2, <1>3
    <3> QED BY <3>1, <1>2 DEF Good
  <2>4. IsLast(s, m)
    BY <1>2, <1>3 DEF IsLast
  <2>5. /\ Counts(s, Base0(z, T2, s[m].t), T2[s[m].t], m)
        /\ Exact(s, Base0(z, T2, s[m].t), T2[s[m].t], m)
    BY <2>1, <2>4, <1>9, <1>10 DEF Counts, Exact
  <2>6. /\ Counts(z, Base0(z, T2, s[m].t), T2[s[m].t], m)
        /\ Exact(z, Base0(z, T2, s[m].t), T2[s[m].t], m)
    BY <2>1, <2>5, <1>9, LocalSaved
  <2> QED BY <2>2, <2>3, <2>6, <1>4 DEF Now
<1>13. \A i \in 1 .. Len(z) : Record(z, T2, i)
  BY <1>4, <1>11
<1> QED BY <1>4, <1>8, <1>12, <1>13 DEF Rest

-----------------------------------------------------------------------------
(* The operators of the model. *)

\* What a call that is not refused may count.
LEMMA LimitNone ==
  ASSUME NEW x, x.nC \in Int
  PROVE  /\ LimitError(x) \in {"none", "run", "err"}
         /\ LimitError(x) = "none" => x.nC < HardC
BY LimitsAssumption DEF LimitError

\* The last frame that no pcall has is a frame.
LEMMA ContinuedFits ==
  ASSUME NEW x \in LooseType
  PROVE  /\ Continued(x) \in LooseType /\ Alike(x, Continued(x))
         /\ Continued(x).fresh = x.fresh
<1> DEFINE n == Len(x.ci)
           I == {i \in 1 .. n : x.ci[i].f \notin {"pcall", "xpcall"}}
           m == SelectLastInSeq(x.ci, LAMBDA fr : fr.f \notin {"pcall", "xpcall"})
<1>1. x.ci \in Seq(FrameType) /\ n \in Nat
  BY LooseFields
<1>2. m = IF I # {} THEN Max(I) ELSE 0
  BY DEF SelectLastInSeq
<1>3. I # {} => Max(I) \in I
  <2> SUFFICES ASSUME I # {} PROVE Max(I) \in I
    OBVIOUS
  <2> DEFINE Gap == {n - i : i \in I}
  <2>1. Gap # {} /\ Gap \subseteq Nat
    <3>1. I \subseteq 1 .. n
      OBVIOUS
    <3> HIDE DEF I
    <3>2. PICK i \in I : TRUE
      OBVIOUS
    <3>3. n - i \in Gap
      BY <3>2
    <3>4. \A j \in I : n - j \in Nat
      <4> HIDE DEF n
      <4> QED BY <3>1, <1>1
    <3>5. Gap \subseteq Nat
      BY <3>4
    <3> QED BY <3>3, <3>5
  <2>2. PICK g \in Gap : \A h \in Gap : g <= h
    BY <2>1, Least
  <2>3. PICK i \in I : g = n - i
    BY <2>2
  <2>4. \A j \in I : n - i <= n - j
    BY <2>2, <2>3
  <2>5. \A j \in I : i >= j
    BY <2>4, <1>1
  <2> HIDE DEF I
  <2> QED BY <2>3, <2>5 DEF Max
<1>4. m \in 0 .. n
  BY <1>1, <1>2, <1>3
<1> HIDE DEF m
<1>5. SubSeq(x.ci, 1, m) \in Seq(FrameType)
  BY <1>1, <1>4
<1>6. Continued(x) = [x EXCEPT !.ci = SubSeq(x.ci, 1, m)]
  BY DEF Continued, m
<1> QED BY <1>5, <1>6 DEF LooseType, Alike

\* Base is where the last segment starts.
LEMMA BaseSegment ==
  ASSUME native \in Seq(RecordType), native # <<>>, \A i \in 1 .. Len(native) : Good(native, i)
  PROVE  Base \in 1 .. Len(native) /\ Segment(native, Base, Len(native))
<1>1. PICK b \in 1 .. Len(native) : Segment(native, b, Len(native))
  BY SomeSegment
<1>2. /\ b \in DOMAIN native /\ native[b].k = "resume"
      /\ \A j \in DOMAIN native : native[j].k = "resume" => j <= b
  BY <1>1, LastSegment
<1>3. /\ Base \in DOMAIN native /\ native[Base].k = "resume"
      /\ \A j \in DOMAIN native : native[j].k = "resume" => j <= Base
  BY <1>2 DEF Base
<1>4. Base = b
  BY <1>2, <1>3
<1> QED BY <1>1, <1>4

\* An error is caught in the last segment, and there are but calls above.
LEMMA CatcherSegment ==
  ASSUME native \in Seq(RecordType), native # <<>>, \A i \in 1 .. Len(native) : Good(native, i),
         NEW b, Segment(native, b, Len(native))
  PROVE  /\ Catcher \in b .. Len(native) /\ native[Catcher].k # "call"
         /\ \A j \in Catcher + 1 .. Len(native) : native[j].k = "call"
<1> DEFINE n == Len(native)
           Gap == {n - i : i \in {j \in 1 .. n : native[j].k # "call"}}
<1>1. b \in 1 .. n /\ native[b].k = "resume" /\ n \in Nat
  BY LastSegment
<1>2. n - b \in Gap /\ Gap \subseteq Nat
  BY <1>1
<1>3. PICK g \in Gap : \A h \in Gap : g <= h
  BY <1>2, Least
<1>4. PICK i \in 1 .. n : native[i].k # "call" /\ g = n - i
  BY <1>3
<1>5. \A j \in 1 .. n : native[j].k # "call" => n - i <= n - j
  BY <1>3, <1>4
<1>6. /\ i \in DOMAIN native /\ native[i].k # "call"
      /\ \A j \in DOMAIN native : native[j].k # "call" => j <= i
  BY <1>1, <1>4, <1>5
<1>7. /\ Catcher \in DOMAIN native /\ native[Catcher].k # "call"
      /\ \A j \in DOMAIN native : native[j].k # "call" => j <= Catcher
  BY <1>6 DEF Catcher
<1>8. b <= Catcher
  BY <1>1, <1>7
<1> QED BY <1>1, <1>7, <1>8

-----------------------------------------------------------------------------
(* Frames below a record. *)

\* Pushing frames keeps those there are.
LEMMA FrameGrow ==
  ASSUME NEW s, NEW i, s[i] \in RecordType, s[i].k = "call" => 0 < s[i].at,
         NEW x \in LooseType, FrameAt(s, x, i),
         NEW w \in Seq(FrameType), NEW y, y.ci = x.ci \o w
  PROVE  FrameAt(s, y, i)
<1>1. x.ci \in Seq(FrameType) /\ Pos(s[i]) \in Nat
  BY LooseFields, RecordFields
<1>2. Len(x.ci) \in Nat /\ Len(w) \in Nat /\ Len(y.ci) = Len(x.ci) + Len(w)
  BY <1>1
<1>3. Pos(s[i]) <= Len(x.ci) /\ Pos(s[i]) <= Len(y.ci)
  BY <1>1, <1>2 DEF FrameAt
<1>4. ASSUME s[i].k = "call" PROVE y.ci[s[i].at].f \in Entries
  <2>1. s[i].at \in 1 .. Len(x.ci)
    BY <1>1, <1>2, <1>3, <1>4 DEF Pos
  <2>2. x.ci[s[i].at].f \in Entries
    BY <1>4 DEF FrameAt
  <2>3. y.ci[s[i].at] = x.ci[s[i].at]
    BY <2>1, <1>1
  <2> QED BY <2>2, <2>3
<1> QED BY <1>3, <1>4 DEF FrameAt

\* Popping frames keeps those below.
LEMMA FrameCut ==
  ASSUME NEW s, NEW i, s[i] \in RecordType, s[i].k = "call" => 0 < s[i].at,
         NEW x \in LooseType, FrameAt(s, x, i),
         NEW m \in Nat, m <= Len(x.ci), Pos(s[i]) <= m, NEW y, y.ci = SubSeq(x.ci, 1, m)
  PROVE  FrameAt(s, y, i)
<1>1. x.ci \in Seq(FrameType) /\ Pos(s[i]) \in Nat /\ Len(x.ci) \in Nat
  BY LooseFields, RecordFields
<1>2. Len(y.ci) = m
  BY <1>1
<1>3. ASSUME s[i].k = "call" PROVE y.ci[s[i].at].f \in Entries
  <2>1. s[i].at \in 1 .. m
    BY <1>1, <1>3 DEF Pos
  <2>2. x.ci[s[i].at].f \in Entries
    BY <1>3 DEF FrameAt
  <2>3. y.ci[s[i].at] = x.ci[s[i].at]
    BY <2>1, <1>1
  <2> QED BY <2>2, <2>3
<1> QED BY <1>2, <1>3 DEF FrameAt

\* lua_resume stands on no frame.
LEMMA FrameBottom ==
  ASSUME NEW s, NEW i, s[i].k = "resume", NEW y \in LooseType
  PROVE  FrameAt(s, y, i)
BY LooseFields DEF FrameAt, Pos

-----------------------------------------------------------------------------
(* The counters where records are pushed and popped. *)

\* Base0 and Here are numbers.
LEMMA HereType ==
  ASSUME NEW s, Len(s) \in Nat, NEW T \in [Threads -> LooseType], NEW u \in Threads,
         NEW i \in Nat
  PROVE  Base0(s, T, u) \in Int /\ Here(s, Base0(s, T, u), i) \in Int
         /\ Depth(s, i) \in Nat /\ Pcalls(s, i, u) \in Nat
<1>1. T[u].baseC \in Int
  BY LooseFields
<1>2. \A v : Pcalls(s, Len(s), v) \in Nat /\ Calls(s, i, v) \in Nat /\ Pcalls(s, i, v) \in Nat
  BY NumberType DEF Pcalls, Calls
<1>3. Depth(s, i) \in Nat
  BY NumberType DEF Depth
<1> QED BY <1>1, <1>2, <1>3, SMTT(30) DEF Base0, Here

\* What is saved in a record that is pushed.
Saving(s, n, base, r, z) ==
  /\ s \in Seq(RecordType) /\ n \in Nat \ {0} /\ n = Len(s) /\ base \in Int /\ SavedAt(s, base, n)
  /\ r \in RecordType /\ r.t = s[n].t /\ r.k # "resume" /\ Pushed(s, r, z)
  /\ r.k = "call" => Here(s, base, n) + 1 < HardC
  /\ r.k \in {"pcall", "cont"} => /\ r.nC >= Here(s, base, n) /\ r.nC < HardC
                                  /\ NoHandler(s, n) => r.nC = Here(s, base, n)

\* What the pushed record says of the counters is right.
LEMMA PushSaved ==
  ASSUME NEW s, NEW n, NEW base, NEW r, NEW z, Saving(s, n, base, r, z)
  PROVE  /\ SavedAt(z, base, n + 1)
         /\ Here(z, base, n + 1) = Here(s, base, n) + (IF r.k = "call" THEN 1 ELSE 0)
         /\ Here(s, base, n) \in Int
<1> USE DEF Saving
<1>1. z[n + 1] = r
  BY DEF Pushed
<1>2. /\ Calls(z, n + 1, r.t) = Calls(s, n, r.t) + (IF r.k = "call" THEN 1 ELSE 0)
      /\ Depth(z, n + 1) = Depth(s, n) + (IF r.k = "call" THEN 1 ELSE 0)
      /\ NoHandler(z, n + 1) => NoHandler(s, n)
  BY PushCounts
<1>3. Calls(s, n, r.t) \in Nat /\ Depth(s, n) \in Nat
  BY NumberType DEF Calls, Depth
<1>4. /\ Here(z, base, n + 1) = Here(s, base, n) + (IF r.k = "call" THEN 1 ELSE 0)
      /\ Here(s, base, n) \in Int
  BY <1>1, <1>2, <1>3 DEF Here
<1>5. /\ Here(z, base, n + 1) >= Depth(z, n + 1) /\ Here(z, base, n + 1) < HardC
      /\ NoHandler(z, n + 1) => Here(z, base, n + 1) = Depth(z, n + 1)
  BY <1>2, <1>3, <1>4 DEF SavedAt
<1>6. r.k \in {"pcall", "cont"} => /\ r.nC >= Here(z, base, n + 1) /\ r.nC < HardC
                                   /\ NoHandler(z, n + 1) => r.nC = Here(z, base, n + 1)
  BY <1>2, <1>4
<1> QED BY <1>1, <1>4, <1>5, <1>6 DEF SavedAt

-----------------------------------------------------------------------------
(* The state where a thread runs. *)

\* What the invariant says of the thread that runs.
LEMMA RunningFacts ==
  ASSUME CoroutineInv, native # <<>>, NEW n, n = Len(native)
  PROVE  /\ n \in Nat \ {0} /\ n \in 1 .. n
         /\ native \in Seq(RecordType) /\ Rest(native, th) /\ Now(native, th, signal)
         /\ \A i \in 1 .. n : native[i] \in RecordType /\ Record(native, th, i) /\ Good(native, i)
         /\ Running = native[n].t /\ Running \in Threads
         /\ th \in [Threads -> ThreadType] /\ th \in [Threads -> LooseType]
         /\ Self = th[Running] /\ Self \in LooseType /\ Self.nC \in 0 .. HardC
         /\ Self.active /\ Self.status = "ok" /\ Self.active = TRUE
         /\ Base \in 1 .. n /\ Segment(native, Base, n)
         /\ \A i \in 1 .. n : native[i].t = Running => FrameAt(native, Self, i)
<1>1. native \in Seq(RecordType) /\ Rest(native, th) /\ Now(native, th, signal)
      /\ th \in [Threads -> ThreadType]
  BY DEF CoroutineInv, StackInv, TypeOK
<1>2. n \in Nat \ {0} /\ n \in 1 .. n
  BY <1>1
<1>3. \A i \in 1 .. n : native[i] \in RecordType /\ Record(native, th, i) /\ Good(native, i)
  BY <1>1 DEF Rest, Record
<1>4. Running = native[n].t /\ Running \in Threads
  BY <1>2, <1>3, RecordFields DEF Running, Top
<1>5. th \in [Threads -> LooseType]
  BY <1>1, ThreadIsLoose
<1>6. Self = th[Running] /\ Self \in ThreadType /\ Self \in LooseType
  BY <1>1, <1>4, <1>5 DEF Self
<1>7. Self.nC \in 0 .. HardC /\ Self.active \in BOOLEAN
  BY <1>6 DEF ThreadType
<1>8. Self.active /\ Self.status = "ok"
  <2>1. OnStack(native, Running)
    BY <1>2, <1>4 DEF OnStack
  <2> QED BY <2>1, <1>1, <1>4, <1>6 DEF Rest, Actives
<1>9. Base \in 1 .. n /\ Segment(native, Base, n)
  BY <1>1, <1>3, BaseSegment
<1>10. \A i \in 1 .. n : native[i].t = Running => FrameAt(native, Self, i)
  BY <1>3, <1>6 DEF Record
<1>11. Self.active = TRUE
  BY <1>7, <1>8
<1> QED BY <1>1, <1>2, <1>3, <1>4, <1>5, <1>6, <1>7, <1>8, <1>9, <1>10, <1>11

\* The counters of the thread that runs.
LEMMA RunningCounts ==
  ASSUME CoroutineInv, native # <<>>, NEW n, n = Len(native),
         NEW base, base = Base0(native, th, Running)
  PROVE  /\ base \in Int /\ \A i \in Nat : Here(native, base, i) \in Int
         /\ native[n].k \in {"call", "resume"} \cup (IF signal = "none" THEN {} ELSE {"pcall"})
         /\ Self.nC >= Here(native, base, n) + (IF native[n].k = "pcall" THEN 1 ELSE 0)
         /\ Self.nC >= Here(native, base, n)
         /\ signal = "none" => /\ Self.nC < HardC
                               /\ NoHandler(native, n) => Self.nC = Here(native, base, n)
         /\ \A i \in 1 .. n : native[i].t = Running => SavedAt(native, base, i)
         /\ Self.baseC = base + Pcalls(native, n, Running)
         /\ Pcalls(native, n, Running) \in Nat
<1>1. /\ n \in Nat \ {0} /\ Rest(native, th) /\ Now(native, th, signal)
      /\ Running = native[n].t /\ Running \in Threads /\ th \in [Threads -> LooseType]
      /\ Self = th[Running] /\ Self \in LooseType
      /\ \A i \in 1 .. n : Record(native, th, i)
  BY RunningFacts
<1>2. base \in Int /\ (\A i \in Nat : Here(native, base, i) \in Int)
      /\ Pcalls(native, n, Running) \in Nat
  BY <1>1, HereType
<1>3. /\ native[n].k \in {"call", "resume"} \cup (IF signal = "none" THEN {} ELSE {"pcall"})
      /\ Counts(native, base, Self, n) /\ (signal = "none" => Exact(native, base, Self, n))
  BY <1>1 DEF Now, Top
<1>4. /\ Self.nC >= Here(native, base, n) + (IF native[n].k = "pcall" THEN 1 ELSE 0)
      /\ signal = "none" => /\ Self.nC < HardC
                            /\ NoHandler(native, n) => Self.nC = Here(native, base, n)
  BY <1>3 DEF Counts, Exact
<1>5. \A i \in 1 .. n : native[i].t = Running => SavedAt(native, base, i)
  BY <1>1 DEF Record
<1>6. Self.baseC = base + Pcalls(native, n, Running)
  BY <1>1, <1>2, LooseFields DEF Base0
<1>7. Self.nC >= Here(native, base, n)
  BY <1>1, <1>2, <1>4, LooseFields
<1> QED BY <1>2, <1>3, <1>4, <1>5, <1>6, <1>7

\* A step of the thread that then runs keeps the types: the counters are in
\* bounds because those of the stack are.
LEMMA Settled ==
  ASSUME CoroutineInv, NEW t \in Threads, NEW y \in LooseType, y.nC <= HardC,
         th' = [th EXCEPT ![t] = y], native' \in Seq(RecordType), native' # <<>>,
         Top(native').t = t, signal' \in {"none", "run", "err"},
         Rest(native', th'), Now(native', th', signal')
  PROVE  CoroutineInv'
<1> DEFINE s == native'
           T == th'
           n == Len(s)
<1>1. th \in [Threads -> ThreadType]
  BY DEF CoroutineInv, TypeOK
<1>2. T[t] = y /\ \A u \in Threads \ {t} : T[u] = th[u]
  BY <1>1
<1>3. n \in Nat \ {0} /\ n \in 1 .. n /\ s[n].t = t
  BY DEF Top
<1>4. T \in [Threads -> LooseType]
  BY <1>1, ThreadIsLoose
<1>5. /\ Base0(s, T, t) \in Int /\ Here(s, Base0(s, T, t), n) \in Int
      /\ Depth(s, n) \in Nat /\ Pcalls(s, n, t) \in Nat
  BY <1>3, <1>4, HereType
<1>6. SavedAt(s, Base0(s, T, t), n) /\ Good(s, n)
  BY <1>3 DEF Rest, Record
<1>7. Here(s, Base0(s, T, t), n) >= Depth(s, n) /\ Here(s, Base0(s, T, t), n) < HardC
  BY <1>6 DEF SavedAt
<1>8. y.nC \in Int /\ y.baseC \in Int
  BY LooseFields
<1>9. y.nC >= Here(s, Base0(s, T, t), n)
  <2>1. Counts(s, Base0(s, T, t), y, n)
    BY <1>2, <1>3 DEF Now, Top
  <2> HIDE DEF s, T, n
  <2> QED BY <2>1, <1>5, <1>8 DEF Counts
<1>10. Base0(s, T, t) >= 1
  <2>1. OnStack(s, t)
    BY <1>3 DEF OnStack
  <2> QED BY <2>1 DEF Rest, Actives
<1>11. y.baseC = Base0(s, T, t) + Pcalls(s, n, t)
  BY <1>2, <1>5, <1>8 DEF Base0
<1>12. Pcalls(s, n, t) <= Calls(s, n, t) + 1
  <2>1. Calls(s, n, t) \in Nat
    BY <1>3, NumberType DEF Calls
  <2>2. Pcalls(s, n, t) <= Calls(s, n, t) + (IF s[n].k \in {"pcall", "errh"} THEN 1 ELSE 0)
    BY <1>3, <1>6 DEF Good
  <2> HIDE DEF s, n
  <2> QED BY <2>1, <2>2, <1>5
<1>13. Here(s, Base0(s, T, t), n) = Base0(s, T, t) + Calls(s, n, t) /\ Calls(s, n, t) \in Nat
  <2>1. Calls(s, n, t) \in Nat
    BY <1>3, NumberType DEF Calls
  <2> QED BY <2>1, <1>3 DEF Here
<1>14. y.nC \in 0 .. HardC /\ y.baseC \in 0 .. HardC
  <2> HIDE DEF s, T, n
  <2>1. HardC \in Nat
    BY LimitsAssumption
  <2>2. y.nC \in 0 .. HardC
    BY <2>1, <1>5, <1>7, <1>8, <1>9
  <2>3. y.baseC \in 0 .. HardC
    BY <2>1, <1>5, <1>7, <1>10, <1>11, <1>12, <1>13
  <2> QED BY <2>2, <2>3
<1>15. y \in ThreadType
  BY <1>14 DEF LooseType, ThreadType
<1>16. T \in [Threads -> ThreadType]
  BY <1>1, <1>15
<1> QED BY <1>16 DEF CoroutineInv, StackInv, TypeOK

-----------------------------------------------------------------------------
(* The two ways in which a step moves the top of the stack. *)

\* Records are popped and what is below goes on.
LEMMA PopStep ==
  ASSUME CoroutineInv, native # <<>>, NEW n, n = Len(native),
         NEW b, Segment(native, b, n), NEW c \in b .. n,
         native[c].k \in {"call", "resume"} \cup (IF signal' = "none" THEN {} ELSE {"pcall"}),
         NEW base, base = Base0(native, th, Running),
         NEW y \in LooseType, y.active, y.status = "ok",
         y.baseC = Self.baseC - Pcalls(native, n, Running) + Pcalls(native, c, Running),
         \A i \in 1 .. c : native[i].t = Running => FrameAt(native, y, i),
         y.nC >= Here(native, base, c) + (IF native[c].k = "pcall" THEN 1 ELSE 0), y.nC <= HardC,
         signal' = "none" => y.nC < HardC /\ (NoHandler(native, c) => y.nC = Here(native, base, c)),
         native' = SubSeq(native, 1, c), th' = [th EXCEPT ![Running] = y],
         signal' \in {"none", "run", "err"}
  PROVE  CoroutineInv'
<1>1. /\ n \in Nat \ {0} /\ native \in Seq(RecordType) /\ Rest(native, th)
      /\ \A i \in 1 .. n : Good(native, i)
      /\ Running = native[n].t /\ Running \in Threads /\ th \in [Threads -> LooseType]
      /\ Self = th[Running]
  BY RunningFacts
<1>2. /\ native' \in Seq(RecordType) /\ Len(native') = c /\ Agree(native, native', c)
      /\ th' \in [Threads -> LooseType] /\ Rest(native', th')
      /\ Base0(native', th', Running) = base
  <2>1. Popping(native, th, b, c, y, native', th')
    BY <1>1 DEF Popping
  <2> QED BY <2>1, <1>1, PopRest
<1>3. b \in Nat /\ 1 <= b /\ b <= n /\ \A i \in 1 .. n : native[i].t = Running <=> i >= b
  BY <1>1, LastSegment, ZenonT(60)
<1>4. c \in Nat \ {0} /\ c \in 1 .. n /\ native[c].t = Running
  BY <1>1, <1>3
<1>5. Top(native') = native[c] /\ native' # <<>>
  BY <1>2, <1>4 DEF Top, Agree
<1>6. th'[Running] = y
  BY <1>1
<1>7. Counts(native, base, y, c) /\ (signal' = "none" => Exact(native, base, y, c))
  BY DEF Counts, Exact
<1>8. Counts(native', base, y, c) /\ (signal' = "none" => Exact(native', base, y, c))
  BY <1>2, <1>4, <1>7, LocalSaved
<1>9. Now(native', th', signal')
  BY <1>2, <1>4, <1>5, <1>6, <1>8 DEF Now
<1> QED BY <1>1, <1>2, <1>4, <1>5, <1>9, Settled

\* A function is called by the thread that runs, with s and T what is left below.
Calling(s, T, y, z, T2) ==
  LET n == Len(s)
      t == s[n].t
      here == Here(s, Base0(s, T, t), n)
  IN  /\ s \in Seq(RecordType) /\ s # <<>> /\ T \in [Threads -> LooseType] /\ Rest(s, T)
      /\ y \in LooseType /\ y.active /\ y.status = "ok" /\ y.baseC = T[t].baseC
      /\ \A i \in 1 .. n : s[i].t = t => FrameAt(s, y, i)
      /\ Pos(s[n]) < Len(y.ci) /\ Top(y.ci).f \in Entries
      /\ y.nC < HardC /\ y.nC >= here + 1 /\ (NoHandler(s, n) => y.nC = here + 1)
      /\ Pushed(s, CallRec(t, y), z) /\ T2 = [T EXCEPT ![t] = y]

\* The call that is pushed is right, and the function it runs has the exact count.
LEMMA CallRest ==
  ASSUME NEW s, NEW T, NEW y, NEW z, NEW T2, Calling(s, T, y, z, T2)
  PROVE  /\ z \in Seq(RecordType) /\ z # <<>> /\ Top(z).t = s[Len(s)].t
         /\ Rest(z, T2) /\ Now(z, T2, "none") /\ T2[s[Len(s)].t] = y
<1> DEFINE n == Len(s)
           t == s[n].t
           base == Base0(s, T, t)
           r == CallRec(t, y)
<1> USE DEF Calling
<1>1. n \in Nat \ {0} /\ n \in 1 .. n /\ s[n] \in RecordType /\ t \in Threads
      /\ Pos(s[n]) \in Nat /\ Len(y.ci) \in Nat
  <2>1. n \in Nat \ {0} /\ n \in 1 .. n /\ s[n] \in RecordType
    OBVIOUS
  <2> QED BY <2>1, RecordFields, LooseFields
<1>2. r.k = "call" /\ r.t = t /\ r.at = Len(y.ci) /\ r \in RecordType /\ Pos(r) = Len(y.ci)
  BY <1>1 DEF CallRec, RecordType, Pos
<1>3. Pushed(s, r, z)
  OBVIOUS
<1> HIDE DEF r
<1>4. Pushable(s[Len(s)], r)
  BY <1>1, <1>2 DEF Pushable
<1>5. z[n + 1] = r /\ Len(z) = n + 1
  BY <1>3 DEF Pushed
<1>6. FrameAt(z, y, n + 1)
  BY <1>1, <1>2, <1>5 DEF FrameAt, Top
<1>7. base \in Int /\ Here(s, base, n) \in Int /\ y.nC \in Int
  BY <1>1, HereType, LooseFields
<1>8. SavedAt(s, base, n)
  BY <1>1 DEF Rest, Record
<1>9. /\ SavedAt(z, base, n + 1)
      /\ Here(z, base, n + 1) = Here(s, base, n) + 1
  <2>1. Here(s, base, n) + 1 < HardC
    BY <1>7, LimitsAssumption
  <2>2. Saving(s, n, base, r, z)
    BY <2>1, <1>1, <1>2, <1>3, <1>7, <1>8 DEF Saving
  <2> QED BY <2>2, <1>2, PushSaved
<1>10. Pushing(s, T, r, y, z, T2)
  <2>1. y.baseC = T[t].baseC + (IF r.k = "pcall" THEN 1 ELSE 0)
    BY <1>1, <1>2, LooseFields
  <2> QED BY <2>1, <1>2, <1>3, <1>4, <1>6, <1>9 DEF Pushing
<1>11. /\ z \in Seq(RecordType) /\ T2 \in [Threads -> LooseType] /\ Rest(z, T2)
       /\ Base0(z, T2, t) = base
  <2> HIDE DEF Calling, n, t, base
  <2>1. t = s[Len(s)].t
    BY DEF t, n
  <2> QED BY <2>1, <1>10, PushRest DEF base
<1>12. NoHandler(z, n + 1) => NoHandler(s, n)
  BY <1>1, <1>2, <1>3, PushCounts
<1>13. Counts(z, base, y, n + 1) /\ Exact(z, base, y, n + 1)
  BY <1>2, <1>5, <1>7, <1>9, <1>12 DEF Counts, Exact
<1>14. Top(z) = r /\ z # <<>>
  BY <1>5, <1>11 DEF Top
<1>15. T2[t] = y
  BY <1>1
<1>16. Now(z, T2, "none")
  BY <1>2, <1>5, <1>11, <1>13, <1>14, <1>15 DEF Now
<1> QED BY <1>2, <1>11, <1>14, <1>15, <1>16

\* Two records are pushed one after the other.
LEMMA TwoPushed ==
  ASSUME NEW s \in Seq(RecordType), NEW r \in RecordType, NEW q \in RecordType
  PROVE  s \o <<r, q>> = Append(Append(s, r), q)
BY SMT

\* A field of a thread is assigned.
LEMMA BaseAssigned ==
  ASSUME NEW x \in LooseType, NEW v \in Int
  PROVE  LET y == [x EXCEPT !.baseC = v]
         IN  /\ y \in LooseType /\ y.ci = x.ci /\ y.active = x.active /\ y.status = x.status
             /\ y.nC = x.nC /\ y.fresh = x.fresh /\ y.baseC = v
BY DEF LooseType

\* The stack is cut at a record of the thread that runs, and a pcall, an error
\* function or a continuation is pushed that calls a function.
Handing(b, c, r, y) ==
  LET here == Here(native, Base0(native, th, Running), c)
  IN  /\ Segment(native, b, Len(native)) /\ c \in b .. Len(native)
      /\ y \in LooseType /\ y.active /\ y.status = "ok"
      /\ y.baseC = Self.baseC - Pcalls(native, Len(native), Running) + Pcalls(native, c, Running)
                   + (IF r.k = "pcall" THEN 1 ELSE 0)
      /\ \A i \in 1 .. c : native[i].t = Running => FrameAt(native, y, i)
      /\ r \in RecordType /\ Pushable(native[c], r) /\ r.k # "call"
      /\ Pos(r) < Len(y.ci) /\ Top(y.ci).f \in Entries
      /\ r.k \in {"pcall", "cont"} => /\ r.nC >= here /\ r.nC < HardC
                                      /\ NoHandler(native, c) => r.nC = here
      /\ y.nC < HardC /\ y.nC >= here + 1
      /\ NoHandler(native, c) /\ r.k # "errh" => y.nC = here + 1

\* Such a step keeps the invariant: the handler and its call are two pushes.
LEMMA HandingStep ==
  ASSUME CoroutineInv, native # <<>>, NEW b, NEW c, NEW r, NEW y, Handing(b, c, r, y),
         native' = SubSeq(native, 1, c) \o <<r, CallRec(Running, y)>>,
         th' = [th EXCEPT ![Running] = y], signal' = "none"
  PROVE  CoroutineInv'
<1> DEFINE n == Len(native)
           t == Running
           base == Base0(native, th, t)
           s1 == SubSeq(native, 1, c)
           y1 == [y EXCEPT !.baseC = Self.baseC - Pcalls(native, n, t) + Pcalls(native, c, t)]
           T1 == [th EXCEPT ![t] = y1]
           s2 == Append(s1, r)
           T2 == [T1 EXCEPT ![t] = y]
           s3 == Append(s2, CallRec(t, y))
<1>1. /\ n \in Nat \ {0} /\ native \in Seq(RecordType) /\ Rest(native, th)
      /\ \A i \in 1 .. n : Good(native, i) /\ native[i] \in RecordType
      /\ t = native[n].t /\ t \in Threads /\ th \in [Threads -> LooseType]
      /\ Self = th[t] /\ Self \in LooseType
  BY RunningFacts
<1>2. Segment(native, b, n) /\ c \in b .. n
  BY DEF Handing
<1>3. b \in Nat /\ 1 <= b /\ b <= n /\ \A i \in 1 .. n : native[i].t = t <=> i >= b
  BY <1>1, <1>2, LastSegment
<1>4. c \in Nat \ {0} /\ c \in 1 .. n /\ native[c].t = t
  BY <1>1, <1>2, <1>3
<1>5. /\ base \in Int /\ Here(native, base, c) \in Int
      /\ Pcalls(native, n, t) \in Nat /\ Pcalls(native, c, t) \in Nat
      /\ Self.baseC \in Int
  BY <1>1, <1>4, HereType, LooseFields
<1>6. y1 \in LooseType /\ y1.ci = y.ci /\ y1.active /\ y1.status = "ok"
      /\ y1.baseC = Self.baseC - Pcalls(native, n, t) + Pcalls(native, c, t)
  <2>1. y \in LooseType /\ y.active /\ y.status = "ok"
    BY DEF Handing
  <2>2. Self.baseC - Pcalls(native, n, t) + Pcalls(native, c, t) \in Int
    BY <1>5
  <2> QED BY <2>1, <2>2, BaseAssigned
<1>7. Popping(native, th, b, c, y1, s1, T1)
  <2>1. \A i \in 1 .. c : native[i].t = t => FrameAt(native, y1, i)
    BY <1>6 DEF Handing, FrameAt
  <2> HIDE DEF y1
  <2> QED BY <2>1, <1>1, <1>2, <1>6 DEF Popping
<1>8. /\ s1 \in Seq(RecordType) /\ Len(s1) = c /\ Agree(native, s1, c)
      /\ T1 \in [Threads -> LooseType] /\ Rest(s1, T1) /\ Base0(s1, T1, t) = base
  <2> HIDE DEF s1, T1, y1, base
  <2> QED BY <1>1, <1>7, PopRest DEF base
<1> HIDE DEF s1
<1>9. s1 # <<>> /\ s1[c] = native[c] /\ c \in 1 .. c /\ \A i \in 1 .. c : s1[i] = native[i]
  BY <1>4, <1>8 DEF Agree
<1>10. SavedAt(s1, base, c)
  BY <1>4, <1>8, <1>9 DEF Rest, Record
<1>11. /\ Here(s1, base, c) = Here(native, base, c) /\ (NoHandler(s1, c) <=> NoHandler(native, c))
  <2>1. Calls(s1, c, t) = Calls(native, c, t)
    BY <1>4, <1>8, LocalCounts
  <2>2. NoHandler(s1, c) <=> NoHandler(native, c)
    BY <1>9 DEF NoHandler
  <2> QED BY <2>1, <2>2, <1>4, <1>9 DEF Here
<1>12. r \in RecordType /\ r.k # "call" /\ r.k # "resume" /\ r.t = t /\ Pushable(s1[c], r)
       /\ Pos(r) < Len(y.ci) /\ Pos(r) \in Nat
  <2>1. r \in RecordType /\ Pushable(native[c], r) /\ r.k # "call" /\ Pos(r) < Len(y.ci)
    BY DEF Handing
  <2> QED BY <2>1, <1>4, <1>9, RecordFields DEF Pushable
<1>13. Pushed(s1, r, s2)
  BY <1>8, <1>12, AppendPushes
<1> HIDE DEF s2
<1>14. s2[c + 1] = r /\ Len(s2) = c + 1 /\ Agree(s1, s2, c)
  BY <1>8, <1>13 DEF Pushed
<1>15. /\ SavedAt(s2, base, c + 1) /\ Here(s2, base, c + 1) = Here(s1, base, c)
  <2>1. r.k \in {"pcall", "cont"} => /\ r.nC >= Here(s1, base, c) /\ r.nC < HardC
                                     /\ NoHandler(s1, c) => r.nC = Here(s1, base, c)
    BY <1>11 DEF Handing
  <2> HIDE DEF base
  <2>2. Saving(s1, c, base, r, s2)
    BY <2>1, <1>4, <1>5, <1>8, <1>9, <1>10, <1>12, <1>13 DEF Saving
  <2>3. /\ SavedAt(s2, base, c + 1) /\ Here(s1, base, c) \in Int
        /\ Here(s2, base, c + 1) = Here(s1, base, c) + (IF r.k = "call" THEN 1 ELSE 0)
    BY <2>2, PushSaved
  <2> QED BY <2>3, <1>12
<1>16. y \in LooseType /\ y.active /\ y.status = "ok" /\ Len(y.ci) \in Nat
       /\ \A i \in 1 .. c : s1[i].t = t => FrameAt(s1, y, i)
  <2>1. \A i \in 1 .. c : native[i].t = t => FrameAt(native, y, i)
    BY DEF Handing
  <2>2. y \in LooseType /\ y.active /\ y.status = "ok"
    BY DEF Handing
  <2> QED BY <2>1, <2>2, <1>9, LooseFields DEF FrameAt
<1>17. FrameAt(s2, y, c + 1)
  BY <1>12, <1>14, <1>16 DEF FrameAt
<1>18. T1[t] = y1 /\ y.baseC = T1[t].baseC + (IF r.k = "pcall" THEN 1 ELSE 0)
  <2>1. T1[t] = y1
    BY <1>1
  <2> HIDE DEF y1, T1
  <2> QED BY <2>1, <1>6 DEF Handing
<1>19. s1[c].t = t
  BY <1>4, <1>9
<1> HIDE DEF T1
<1>20. Pushing(s1, T1, r, y, s2, T2)
  <2> HIDE DEF base, t
  <2>1. SavedAt(s2, Base0(s1, T1, t), c + 1) /\ T2 = [T1 EXCEPT ![t] = y]
    BY <1>8, <1>15
  <2> QED BY <2>1, <1>8, <1>9, <1>12, <1>13, <1>16, <1>17, <1>18, <1>19 DEF Pushing
<1> HIDE DEF T2
<1>21. /\ s2 \in Seq(RecordType) /\ T2 \in [Threads -> LooseType] /\ Rest(s2, T2)
       /\ Base0(s2, T2, t) = base
  <2> HIDE DEF t, base
  <2>1. t = s1[Len(s1)].t
    BY <1>8, <1>19
  <2>2. Base0(s1, T1, t) = base
    BY <1>8
  <2> QED BY <2>1, <2>2, <1>20, PushRest
<1>22. T2[t] = y /\ T2 = [th EXCEPT ![t] = y]
  BY <1>1, <1>8 DEF T1, T2
<1>23. /\ NoHandler(s2, c + 1) => NoHandler(s1, c) /\ r.k # "errh"
  BY <1>4, <1>8, <1>12, <1>13, PushCounts
<1>24. /\ y.nC < HardC /\ y.nC >= Here(s2, base, c + 1) + 1
       /\ NoHandler(s2, c + 1) => y.nC = Here(s2, base, c + 1) + 1
  BY <1>11, <1>15, <1>23 DEF Handing
<1>25. \A i \in 1 .. c + 1 : s2[i].t = t => FrameAt(s2, y, i)
  <2> SUFFICES ASSUME NEW i \in 1 .. c + 1, s2[i].t = t PROVE FrameAt(s2, y, i)
    OBVIOUS
  <2>1. CASE i = c + 1
    BY <2>1, <1>17
  <2>2. CASE i # c + 1
    <3>1. i \in 1 .. c /\ s2[i] = s1[i]
      BY <2>2, <1>4, <1>14 DEF Agree
    <3> QED BY <3>1, <1>16 DEF FrameAt
  <2> QED BY <2>1, <2>2
<1>26. /\ CallRec(t, y) \in RecordType /\ s2 # <<>> /\ Top(y.ci).f \in Entries /\ s2[c + 1].t = t
  <2>1. CallRec(t, y) \in RecordType
    BY <1>1, <1>16 DEF CallRec, RecordType
  <2>2. Top(y.ci).f \in Entries
    BY DEF Handing
  <2>3. s2 # <<>>
    BY <1>4, <1>14
  <2> QED BY <2>1, <2>2, <2>3, <1>12, <1>14
<1>27. Pushed(s2, CallRec(t, y), s3)
  BY <1>21, <1>26, AppendPushes
<1>28. native' = s3
  BY <1>8, <1>12, <1>26, TwoPushed DEF s1, s2
<1> HIDE DEF s3
<1>29. Calling(s2, T2, y, s3, T2)
  <2> HIDE DEF t, base
  <2>1. T2 = [T2 EXCEPT ![t] = y] /\ y.baseC = T2[t].baseC
    BY <1>21, <1>22
  <2>2. Pos(s2[c + 1]) < Len(y.ci)
    BY <1>12, <1>14
  <2> QED BY <2>1, <2>2, <1>14, <1>16, <1>21, <1>24, <1>25, <1>26, <1>27 DEF Calling
<1>30. /\ s3 \in Seq(RecordType) /\ s3 # <<>> /\ Top(s3).t = t
       /\ Rest(s3, T2) /\ Now(s3, T2, "none")
  <2> HIDE DEF t
  <2>1. s2[Len(s2)].t = t
    BY <1>14, <1>26
  <2> QED BY <2>1, <1>29, CallRest
<1>31. y.nC <= HardC
  <2>1. y.nC \in Int /\ y.nC < HardC
    BY <1>16, <1>24, LooseFields
  <2> QED BY <2>1, LimitsAssumption
<1>32. th' = T2
  BY <1>22
<1> HIDE DEF t
<1> QED BY <1>1, <1>16, <1>28, <1>30, <1>31, <1>32, Settled DEF t

-----------------------------------------------------------------------------
(* The actions of a thread that runs: calls. *)

\* Frames of these kinds.
LEMMA FrameFits ==
  ASSUME NEW f \in FrameKinds
  PROVE  /\ Frame(f) \in FrameType /\ Frame(f).f = f
         /\ Flagged(f) \in FrameType /\ Flagged(f).f = f
BY DEF Frame, Flagged, FrameType

\* A frame is pushed.
LEMMA PushFits ==
  ASSUME NEW x \in LooseType, NEW fr \in FrameType
  PROVE  LET y == Push(x, <<fr>>)
         IN  /\ y \in LooseType /\ y.ci = x.ci \o <<fr>> /\ Len(y.ci) = Len(x.ci) + 1
             /\ Top(y.ci) = fr /\ Len(x.ci) \in Nat /\ <<fr>> \in Seq(FrameType)
             /\ y.active = x.active /\ y.status = x.status /\ y.nC = x.nC /\ y.baseC = x.baseC
             /\ y.fresh = x.fresh
<1> DEFINE w == x.ci \o <<fr>>
           y == [x EXCEPT !.ci = w]
<1>1. x.ci \in Seq(FrameType) /\ Len(x.ci) \in Nat /\ <<fr>> \in Seq(FrameType)
  BY LooseFields
<1>2. w \in Seq(FrameType) /\ Len(w) = Len(x.ci) + 1 /\ w[Len(x.ci) + 1] = fr
  BY <1>1
<1> HIDE DEF w
<1>3. /\ y \in LooseType /\ y.ci = w /\ y.active = x.active /\ y.status = x.status
      /\ y.nC = x.nC /\ y.baseC = x.baseC /\ y.fresh = x.fresh
  BY <1>2 DEF LooseType
<1>4. Push(x, <<fr>>) = y
  BY DEF Push, w
<1> HIDE DEF y
<1>5. Top(y.ci) = fr
  BY <1>1, <1>2, <1>3 DEF Top
<1>6. y.ci = x.ci \o <<fr>>
  BY <1>3 DEF w
<1> QED BY <1>1, <1>2, <1>3, <1>4, <1>5, <1>6

\* luaD_call counts.
LEMMA CountedFits ==
  ASSUME NEW x \in LooseType
  PROVE  LET y == Counted(x)
         IN  /\ y \in LooseType /\ y.ci = x.ci /\ y.nC = x.nC + 1
             /\ y.active = x.active /\ y.status = x.status /\ y.baseC = x.baseC
             /\ y.fresh = x.fresh
BY DEF LooseType, Counted

\* The frames of the thread that runs, when more are pushed.
LEMMA GrowAll ==
  ASSUME CoroutineInv, native # <<>>, NEW w \in Seq(FrameType), NEW y, y.ci = Self.ci \o w
  PROVE  \A i \in 1 .. Len(native) : native[i].t = Running => FrameAt(native, y, i)
<1> SUFFICES ASSUME NEW i \in 1 .. Len(native), native[i].t = Running
             PROVE  FrameAt(native, y, i)
  OBVIOUS
<1>1. native[i] \in RecordType /\ Good(native, i) /\ FrameAt(native, Self, i) /\ Self \in LooseType
  BY RunningFacts
<1>2. native[i].k = "call" => 0 < native[i].at
  BY <1>1 DEF Good
<1> QED BY <1>1, <1>2, FrameGrow

\* And when some are popped.
LEMMA CutAll ==
  ASSUME CoroutineInv, native # <<>>, NEW c \in 1 .. Len(native),
         NEW m \in Nat, m <= Len(Self.ci), NEW y, y.ci = SubSeq(Self.ci, 1, m),
         \A i \in 1 .. c : native[i].t = Running => Pos(native[i]) <= m
  PROVE  \A i \in 1 .. c : native[i].t = Running => FrameAt(native, y, i)
<1> SUFFICES ASSUME NEW i \in 1 .. c, native[i].t = Running
             PROVE  FrameAt(native, y, i)
  OBVIOUS
<1>1. i \in 1 .. Len(native)
  BY RunningFacts
<1>2. native[i] \in RecordType /\ Good(native, i) /\ FrameAt(native, Self, i) /\ Self \in LooseType
  BY <1>1, RunningFacts
<1>3. native[i].k = "call" => 0 < native[i].at
  BY <1>2 DEF Good
<1> QED BY <1>2, <1>3, FrameCut

\* Where the records of the thread that runs stand.
LEMMA RunningPos ==
  ASSUME CoroutineInv, native # <<>>
  PROVE  /\ Len(Self.ci) \in Nat /\ Pos(native[Len(native)]) \in Nat
         /\ Pos(native[Len(native)]) <= Len(Self.ci)
         /\ \A i \in 1 .. Len(native) : native[i].t = Running =>
              Pos(native[i]) <= Pos(native[Len(native)]) /\ Pos(native[i]) \in Nat
<1> DEFINE n == Len(native)
<1>1. /\ n \in 1 .. n /\ native \in Seq(RecordType) /\ Self \in LooseType
      /\ \A i \in 1 .. n : native[i] \in RecordType /\ Good(native, i)
      /\ Running = native[n].t /\ FrameAt(native, Self, n)
  BY RunningFacts
<1>2. Len(Self.ci) \in Nat /\ \A i \in 1 .. n : Pos(native[i]) \in Nat
  BY <1>1, LooseFields, RecordFields
<1>3. Pos(native[n]) <= Len(Self.ci)
  BY <1>1 DEF FrameAt
<1>4. \A i \in 1 .. n : native[i].t = Running => Pos(native[i]) <= Pos(native[n])
  BY <1>1, TopPos
<1> QED BY <1>1, <1>2, <1>3, <1>4

\* The state changes as Calling says.
LEMMA CallingStep ==
  ASSUME CoroutineInv, native # <<>>, NEW y, Calling(native, th, y, native', th'), signal' = "none"
  PROVE  CoroutineInv'
<1>1. Running = native[Len(native)].t /\ Running \in Threads
  BY RunningFacts
<1>2. /\ native' \in Seq(RecordType) /\ native' # <<>> /\ Top(native').t = Running
      /\ Rest(native', th') /\ Now(native', th', "none")
  BY <1>1, CallRest
<1>3. y \in LooseType /\ y.nC < HardC /\ th' = [th EXCEPT ![Running] = y]
  BY <1>1 DEF Calling
<1>4. y.nC <= HardC
  BY <1>3, LimitsAssumption, LooseFields
<1> QED BY <1>1, <1>2, <1>3, <1>4, Settled

\* A step that changes the thread that runs and leaves the stack.
LEMMA StayStep ==
  ASSUME CoroutineInv, native # <<>>, NEW y \in LooseType, y.active, y.status = "ok",
         y.baseC = Self.baseC, y.nC \in Self.nC .. HardC,
         \A i \in 1 .. Len(native) : native[i].t = Running => FrameAt(native, y, i),
         UNCHANGED native, th' = [th EXCEPT ![Running] = y], signal' \in {"none", "run", "err"},
         signal' = "none" => signal = "none" /\ y.nC = Self.nC
  PROVE  CoroutineInv'
<1> DEFINE n == Len(native)
           base == Base0(native, th, Running)
<1>1. /\ n \in Nat \ {0} /\ native \in Seq(RecordType) /\ Self \in LooseType
      /\ Base \in 1 .. n /\ Segment(native, Base, n) /\ Self.nC \in 0 .. HardC
  BY RunningFacts
<1>2. /\ native[n].k \in {"call", "resume"} \cup (IF signal = "none" THEN {} ELSE {"pcall"})
      /\ Self.nC >= Here(native, base, n) + (IF native[n].k = "pcall" THEN 1 ELSE 0)
      /\ signal = "none" => Self.nC < HardC
                            /\ (NoHandler(native, n) => Self.nC = Here(native, base, n))
      /\ Pcalls(native, n, Running) \in Nat /\ Here(native, base, n) \in Int
  BY <1>1, RunningCounts
<1>3. n \in Base .. n /\ native' = SubSeq(native, 1, n)
  BY <1>1
<1>4. y.baseC = Self.baseC - Pcalls(native, n, Running) + Pcalls(native, n, Running)
      /\ y.nC \in Int /\ y.nC <= HardC /\ Self.nC \in Int /\ y.nC >= Self.nC
  BY <1>1, <1>2, LooseFields, LimitsAssumption
<1> HIDE DEF base, n
<1>5. /\ y.nC >= Here(native, base, n) + (IF native[n].k = "pcall" THEN 1 ELSE 0)
      /\ native[n].k \in {"call", "resume"} \cup (IF signal' = "none" THEN {} ELSE {"pcall"})
      /\ signal' = "none" => y.nC < HardC
                             /\ (NoHandler(native, n) => y.nC = Here(native, base, n))
  BY <1>2, <1>4
<1> QED BY <1>1, <1>3, <1>4, <1>5, PopStep DEF base, n

\* A Lua function is called in the same luau_execute.
LEMMA CallLuaKeeps ==
  ASSUME CoroutineInv, CallLua PROVE CoroutineInv'
<1> DEFINE y == Push(Self, <<Frame("lua")>>)
<1>1. native # <<>> /\ signal = "none" /\ th' = [th EXCEPT ![Running] = y]
      /\ UNCHANGED <<native, signal>>
  BY DEF CallLua, Calm, Set
<1>2. Self \in LooseType /\ Self.active = TRUE /\ Self.status = "ok" /\ Self.nC \in 0 .. HardC
  BY <1>1, RunningFacts
<1>3. Frame("lua") \in FrameType
  BY FrameFits DEF FrameKinds
<1>4. /\ y \in LooseType /\ y.ci = Self.ci \o <<Frame("lua")>> /\ y.active = TRUE
      /\ y.status = "ok" /\ y.nC = Self.nC /\ y.baseC = Self.baseC
      /\ <<Frame("lua")>> \in Seq(FrameType)
  BY <1>2, <1>3, PushFits
<1> HIDE DEF y
<1>5. \A i \in 1 .. Len(native) : native[i].t = Running => FrameAt(native, y, i)
  BY <1>1, <1>4, GrowAll
<1>6. y.nC \in Self.nC .. HardC
  BY <1>2, <1>4, LimitsAssumption
<1> QED BY <1>1, <1>4, <1>5, <1>6, StayStep

\* A metamethod is called, or is refused at the limit.
LEMMA CallMetaKeeps ==
  ASSUME CoroutineInv, CallMeta PROVE CoroutineInv'
<1> DEFINE x == Counted(Self)
           y == Push(x, <<Frame("tm")>>)
           n == Len(native)
<1>1. native # <<>> /\ signal = "none" /\ signal' = LimitError(x)
      /\ IF signal' = "none"
         THEN th' = [th EXCEPT ![Running] = y] /\ native' = Append(native, CallRec(Running, y))
         ELSE th' = [th EXCEPT ![Running] = x] /\ UNCHANGED native
  BY DEF CallMeta, Calm, Set
<1>2. /\ Self \in LooseType /\ Self.active = TRUE /\ Self.status = "ok" /\ Self.nC \in 0 .. HardC
      /\ native \in Seq(RecordType) /\ n \in Nat \ {0}
      /\ Running = native[n].t /\ Running \in Threads
      /\ th \in [Threads -> LooseType] /\ Rest(native, th) /\ Self = th[Running]
  BY <1>1, RunningFacts
<1>3. /\ x \in LooseType /\ x.ci = Self.ci /\ x.nC = Self.nC + 1 /\ x.active = TRUE
      /\ x.status = "ok" /\ x.baseC = Self.baseC
  BY <1>2, CountedFits
<1>4. /\ Self.nC >= Here(native, Base0(native, th, Running), n) /\ Self.nC < HardC
      /\ Here(native, Base0(native, th, Running), n) \in Int
      /\ NoHandler(native, n) => Self.nC = Here(native, Base0(native, th, Running), n)
  BY <1>1, <1>2, RunningCounts
<1>5. signal' \in {"none", "run", "err"} /\ (signal' = "none" => x.nC < HardC)
  <2>1. x.nC \in Int
    BY <1>3, LooseFields
  <2> QED BY <2>1, <1>1, LimitNone
<1> HIDE DEF x
<1>6. CASE signal' = "none"
  <2>1. Frame("tm") \in FrameType /\ Frame("tm").f = "tm"
    BY FrameFits DEF FrameKinds
  <2>2. /\ y \in LooseType /\ y.ci = Self.ci \o <<Frame("tm")>> /\ y.active = TRUE
        /\ y.status = "ok" /\ y.nC = x.nC /\ y.baseC = Self.baseC /\ Top(y.ci).f = "tm"
        /\ <<Frame("tm")>> \in Seq(FrameType) /\ Len(y.ci) = Len(Self.ci) + 1
    BY <2>1, <1>3, PushFits, ZenonT(60)
  <2> HIDE DEF y
  <2>3. \A i \in 1 .. n : native[i].t = Running => FrameAt(native, y, i)
    BY <1>1, <2>2, GrowAll
  <2>4. Pos(native[n]) < Len(y.ci)
    <3>1. Pos(native[n]) <= Len(Self.ci) /\ Len(Self.ci) \in Nat /\ Pos(native[n]) \in Nat
      BY <1>1, RunningPos
    <3> QED BY <3>1, <2>2
  <2>5. CallRec(Running, y) \in RecordType
    <3>1. Len(y.ci) \in Nat
      BY <2>2, LooseFields
    <3> QED BY <3>1, <1>2 DEF CallRec, RecordType
  <2>6. Pushed(native, CallRec(Running, y), native')
    BY <2>5, <1>1, <1>2, <1>6, AppendPushes
  <2>7. /\ y.nC < HardC /\ y.nC >= Here(native, Base0(native, th, Running), n) + 1
        /\ NoHandler(native, n) => y.nC = Here(native, Base0(native, th, Running), n) + 1
    BY <2>2, <1>2, <1>3, <1>4, <1>5, <1>6
  <2>8. "tm" \in Entries
    BY SMTT(30) DEF Entries
  <2>9. Calling(native, th, y, native', th')
    <3>1. th' = [th EXCEPT ![Running] = y]
      BY <1>1, <1>6
    <3> QED BY <3>1, <2>2, <2>3, <2>4, <2>6, <2>7, <2>8, <1>1, <1>2 DEF Calling
  <2> QED BY <2>9, <1>1, <1>6, CallingStep
<1>7. CASE signal' # "none"
  <2>1. \A i \in 1 .. n : native[i].t = Running => FrameAt(native, x, i)
    <3>1. \A i \in 1 .. n : native[i].t = Running => FrameAt(native, Self, i)
      BY <1>1, RunningFacts
    <3> QED BY <3>1, <1>3 DEF FrameAt
  <2>2. x.nC \in Self.nC .. HardC
    BY <1>2, <1>3, <1>4, LimitsAssumption
  <2> QED BY <2>1, <2>2, <1>1, <1>3, <1>5, <1>7, StayStep
<1> QED BY <1>5, <1>6, <1>7

\* Two frames are pushed one after the other.
LEMMA TwoFrames ==
  ASSUME NEW s \in Seq(FrameType), NEW a \in FrameType, NEW d \in FrameType
  PROVE  (s \o <<a>>) \o <<d>> = s \o <<a, d>> /\ <<a, d>> \in Seq(FrameType)
<1>1. <<a, d>> \in Seq(FrameType) /\ <<a>> \in Seq(FrameType) /\ <<d>> \in Seq(FrameType)
  OBVIOUS
<1>2. (s \o <<a>>) \o <<d>> = s \o (<<a>> \o <<d>>)
  BY <1>1
<1>3. <<a>> \o <<d>> = <<a, d>>
  <2> DEFINE L == <<a>> \o <<d>>
  <2>1. L \in Seq(FrameType) /\ Len(L) = 2 /\ L[1] = a /\ L[2] = d
    BY <1>1
  <2> HIDE DEF L
  <2>2. L = <<a, d>>
    BY <2>1
  <2> QED BY <2>2 DEF L
<1> QED BY <1>1, <1>2, <1>3, Zenon

\* pcall or xpcall calls its function, or is refused at the limit.
LEMMA PcallKeeps ==
  ASSUME CoroutineInv, NEW f \in {"pcall", "xpcall"}, Pcall(f) PROVE CoroutineInv'
<1> DEFINE q == Push(Self, <<Flagged(f)>>)
           x == Entered(Self, f)
           y == Counted(x)
           z == Push(y, <<Frame("body")>>)
           r == PcallRec(Running, x)
           n == Len(native)
           here == Here(native, Base0(native, th, Running), n)
<1>1. native # <<>> /\ signal = "none"
      /\ IF LimitError(y) = "none"
         THEN /\ th' = [th EXCEPT ![Running] = z] /\ UNCHANGED signal
              /\ native' = native \o <<r, CallRec(Running, z)>>
         ELSE /\ th' = [th EXCEPT ![Running] = y] /\ signal' = LimitError(y)
              /\ native' = Append(native, r)
  BY DEF Pcall, Calm, Set
<1>2. /\ Self \in LooseType /\ Self.active = TRUE /\ Self.status = "ok" /\ Self.nC \in 0 .. HardC
      /\ native \in Seq(RecordType) /\ n \in Nat \ {0} /\ n \in 1 .. n /\ native[n] \in RecordType
      /\ Running = native[n].t /\ Running \in Threads
      /\ th \in [Threads -> LooseType] /\ Rest(native, th) /\ Self = th[Running]
      /\ Base \in 1 .. n /\ Segment(native, Base, n)
  BY <1>1, RunningFacts
<1>3. /\ Self.nC >= here /\ Self.nC < HardC /\ here \in Int
      /\ (NoHandler(native, n) => Self.nC = here)
      /\ native[n].k \in {"call", "resume"} /\ Pcalls(native, n, Running) \in Nat
      /\ SavedAt(native, Base0(native, th, Running), n)
      /\ Base0(native, th, Running) \in Int
  BY <1>1, <1>2, RunningCounts
<1>4. Flagged(f) \in FrameType /\ Flagged(f).f = f /\ Frame("body") \in FrameType
      /\ Frame("body").f = "body" /\ f \in FrameKinds
  BY FrameFits DEF FrameKinds
<1>5. /\ q \in LooseType /\ q.ci = Self.ci \o <<Flagged(f)>> /\ Len(q.ci) = Len(Self.ci) + 1
      /\ Top(q.ci) = Flagged(f) /\ q.active = TRUE /\ q.status = "ok" /\ q.nC = Self.nC
      /\ q.baseC = Self.baseC /\ Len(Self.ci) \in Nat /\ <<Flagged(f)>> \in Seq(FrameType)
  BY <1>2, <1>4, PushFits, ZenonT(60)
<1> HIDE DEF q
<1>6. /\ x \in LooseType /\ x.ci = q.ci /\ x.active = TRUE /\ x.status = "ok" /\ x.nC = Self.nC
      /\ x.baseC = Self.baseC + 1 /\ Self.baseC \in Int
  <2>1. Self.baseC \in Int /\ q.baseC + 1 \in Int
    BY <1>2, <1>5, LooseFields
  <2>2. x = [q EXCEPT !.baseC = q.baseC + 1]
    BY DEF Entered, q
  <2> HIDE DEF x
  <2> QED BY <2>1, <2>2, <1>5, BaseAssigned, SMTT(30)
<1> HIDE DEF x
<1>7. /\ y \in LooseType /\ y.ci = q.ci /\ y.active = TRUE /\ y.status = "ok"
      /\ y.nC = Self.nC + 1 /\ y.baseC = Self.baseC + 1
  BY <1>6, CountedFits
<1> HIDE DEF y
<1>8. /\ r.k = "pcall" /\ r.t = Running /\ r.ci = Len(Self.ci) + 1 /\ r.at = Len(Self.ci) + 1
      /\ r.nC = Self.nC /\ r.active = TRUE /\ r \in RecordType /\ Pos(r) = Len(Self.ci) + 1
  <2>1. Len(x.ci) \in Nat /\ Len(x.ci) = Len(Self.ci) + 1 /\ Top(x.ci).f = f
    BY <1>4, <1>5, <1>6
  <2> QED BY <2>1, <1>2, <1>4, <1>6 DEF PcallRec, RecordType, Pos
<1> HIDE DEF r
<1>9. Pushable(native[n], r)
  <2>1. Pos(native[n]) <= Len(Self.ci) /\ Pos(native[n]) \in Nat
    BY <1>1, RunningPos
  <2> QED BY <2>1, <1>2, <1>3, <1>5, <1>8 DEF Pushable
<1>10. LimitError(y) \in {"none", "run", "err"} /\ (LimitError(y) = "none" => y.nC < HardC)
  <2>1. y.nC \in Int
    BY <1>7, LooseFields
  <2> QED BY <2>1, LimitNone
<1>11. CASE LimitError(y) = "none"
  <2>1. /\ z \in LooseType /\ z.ci = y.ci \o <<Frame("body")>> /\ Len(z.ci) = Len(y.ci) + 1
        /\ Top(z.ci).f = "body" /\ z.active = TRUE /\ z.status = "ok" /\ z.nC = Self.nC + 1
        /\ z.baseC = Self.baseC + 1
    BY <1>4, <1>7, PushFits
  <2> HIDE DEF z
  <2>2. z.ci = Self.ci \o <<Flagged(f), Frame("body")>>
        /\ <<Flagged(f), Frame("body")>> \in Seq(FrameType)
    <3>1. z.ci = (Self.ci \o <<Flagged(f)>>) \o <<Frame("body")>> /\ Self.ci \in Seq(FrameType)
      BY <2>1, <1>2, <1>5, <1>7, LooseFields, ZenonT(60)
    <3> QED BY <3>1, <1>4, TwoFrames
  <2>3. \A i \in 1 .. n : native[i].t = Running => FrameAt(native, z, i)
    BY <2>2, <1>1, GrowAll
  <2>4. /\ z.nC < HardC /\ z.nC >= here + 1 /\ (NoHandler(native, n) => z.nC = here + 1)
    BY <2>1, <1>2, <1>3, <1>7, <1>10, <1>11
  <2>5. z.baseC = Self.baseC - Pcalls(native, n, Running) + Pcalls(native, n, Running) + 1
    BY <2>1, <1>3, <1>6
  <2>6. Pos(r) < Len(z.ci) /\ Top(z.ci).f \in Entries
    BY <2>1, <1>5, <1>7, <1>8 DEF Entries
  <2>7. n \in Base .. n
    BY <1>2
  <2>8. Handing(Base, n, r, z)
    <3> HIDE DEF n
    <3> QED BY <2>1, <2>3, <2>4, <2>5, <2>6, <2>7, <1>2, <1>3, <1>8, <1>9 DEF Handing, n
  <2>9. native' = SubSeq(native, 1, n) \o <<r, CallRec(Running, z)>>
    BY <1>1, <1>2, <1>11
  <2> QED BY <2>8, <2>9, <1>1, <1>11, HandingStep
<1>12. CASE LimitError(y) # "none"
  <2>1. \A i \in 1 .. n : native[i].t = Running => FrameAt(native, y, i)
    BY <1>1, <1>5, <1>7, GrowAll
  <2>2. Pushed(native, r, native')
    BY <1>1, <1>2, <1>8, <1>12, AppendPushes
  <2>3. /\ SavedAt(native', Base0(native, th, Running), n + 1)
        /\ Here(native', Base0(native, th, Running), n + 1) = here
    <3>1. Saving(native, n, Base0(native, th, Running), r, native')
      BY <2>2, <1>2, <1>3, <1>8 DEF Saving
    <3> HIDE DEF n
    <3> QED BY <3>1, <1>3, <1>8, PushSaved
  <2>4. native'[n + 1] = r /\ Len(native') = n + 1
    BY <2>2 DEF Pushed
  <2>5. FrameAt(native', y, n + 1)
    BY <2>4, <1>5, <1>7, <1>8 DEF FrameAt
  <2>6. th' = [th EXCEPT ![Running] = y]
    BY <1>1, <1>12, SMTT(30)
  <2>7. Pushing(native, th, r, y, native', th')
    BY <2>1, <2>2, <2>3, <2>5, <2>6, <1>1, <1>2, <1>6, <1>7, <1>8, <1>9 DEF Pushing
  <2>8. /\ native' \in Seq(RecordType) /\ Rest(native', th')
        /\ Base0(native', th', Running) = Base0(native, th, Running)
    BY <2>7, <1>2, PushRest
  <2>9. Top(native') = r /\ native' # <<>>
    BY <2>4, <2>8, <1>2 DEF Top
  <2>10. th'[Running] = y
    BY <2>6, <1>2
  <2>11. Counts(native', Base0(native, th, Running), y, n + 1)
    <3>1. y.nC >= here + 1
      BY <1>2, <1>3, <1>7
    <3> HIDE DEF n
    <3> QED BY <3>1, <2>3, <2>4, <1>8 DEF Counts
  <2>12. Now(native', th', signal')
    BY <2>4, <2>8, <2>9, <2>10, <2>11, <1>1, <1>8, <1>12 DEF Now
  <2>13. y.nC <= HardC /\ signal' \in {"none", "run", "err"}
    BY <1>1, <1>2, <1>3, <1>7, <1>10, <1>12, LimitsAssumption
  <2> QED BY <2>6, <2>8, <2>9, <2>12, <2>13, <1>2, <1>7, <1>8, Settled
<1> QED BY <1>11, <1>12

\* error() starts to unwind.
LEMMA ErrorKeeps ==
  ASSUME CoroutineInv, Error PROVE CoroutineInv'
<1>1. Now(native', th', signal')
  BY DEF CoroutineInv, StackInv, Error, Calm, Now
<1>2. Rest(native', th')
  BY DEF CoroutineInv, StackInv, Error
<1>3. TypeOK'
  BY DEF CoroutineInv, TypeOK, Error
<1> QED BY <1>1, <1>2, <1>3 DEF CoroutineInv, StackInv

-----------------------------------------------------------------------------
(* The actions that leave a coroutine. *)

\* Where no error is being handled, more is known.
LEMMA NowWeaker ==
  ASSUME NEW s, NEW T, Now(s, T, "none"), NEW sig
  PROVE  Now(s, T, sig)
BY DEF Now

\* Without the top frame.
LEMMA FrontFits ==
  ASSUME NEW x \in LooseType, NEW m, m = IF Len(x.ci) = 0 THEN 0 ELSE Len(x.ci) - 1
  PROVE  /\ m \in Nat /\ m <= Len(x.ci) /\ Front(x.ci) = SubSeq(x.ci, 1, m)
         /\ Front(x.ci) \in Seq(FrameType) /\ Len(Front(x.ci)) = m
<1>1. x.ci \in Seq(FrameType) /\ Len(x.ci) \in Nat
  BY LooseFields
<1>2. CASE Len(x.ci) = 0
  <2>1. x.ci = <<>>
    BY <1>1, <1>2
  <2>2. Front(x.ci) = <<>> /\ SubSeq(x.ci, 1, 0) = <<>>
    BY <2>1 DEF Front
  <2> QED BY <2>2, <1>1, <1>2
<1>3. CASE Len(x.ci) # 0
  BY <1>1, <1>3 DEF Front
<1> QED BY <1>2, <1>3

\* lua_resume returns: the thread that ran leaves the stack.
LEMMA HandBackKeeps ==
  ASSUME CoroutineInv, native # <<>>, NEW d, Segment(native, d, Len(native)),
         NEW x \in LooseType, x.baseC \in 1 .. HardC, NEW status \in {"none", "run", "err"},
         HandBack(d, x, status)
  PROVE  CoroutineInv'
<1> DEFINE n == Len(native)
           t == Running
           from == native[d].from
           again == status # "none" /\ from # native[d].t /\ Top(th[from].ci).f = "wrap"
           done == Finished(x, status)
<1>1. /\ n \in Nat \ {0} /\ native \in Seq(RecordType) /\ Rest(native, th)
      /\ \A i \in 1 .. n : native[i] \in RecordType /\ Record(native, th, i) /\ Good(native, i)
      /\ t = native[n].t /\ t \in Threads
      /\ th \in [Threads -> ThreadType] /\ th \in [Threads -> LooseType]
  BY RunningFacts
<1>2. /\ d \in Nat /\ 1 <= d /\ d <= n /\ native[d].k = "resume" /\ native[d].t = t
      /\ \A i \in 1 .. n : native[i].t = t <=> i >= d
  BY <1>1, LastSegment
<1>3. /\ native' = SubSeq(native, 1, d - 1)
      /\ signal' = IF again THEN "run" ELSE "none"
      /\ th' = [u \in Threads |-> IF u = native[d].t THEN done
                                  ELSE IF u = from /\ ~again
                                  THEN [th[u] EXCEPT !.ci = Front(@)] ELSE th[u]]
  BY DEF HandBack
<1>4. done \in ThreadType /\ ~done.active
  <2>1. x.baseC - 1 \in 0 .. HardC
    BY LimitsAssumption
  <2>2. /\ x.ci \in Seq(FrameType) /\ x.fresh \in BOOLEAN
        /\ x.status \in {"ok", "yield", "run", "err"} /\ x.baseC \in 0 .. HardC
    BY LooseFields
  <2> QED BY <2>1, <2>2 DEF Finished, ThreadType, LooseType
<1>5. ASSUME NEW u \in Threads, u # t
      PROVE  /\ th'[u] = th[u] \/ (u = from /\ th'[u] = [th[u] EXCEPT !.ci = Front(@)])
             /\ th'[u] \in ThreadType /\ Alike(th[u], th'[u])
  <2>1. th'[u] = th[u] \/ (u = from /\ th'[u] = [th[u] EXCEPT !.ci = Front(@)])
    BY <1>2, <1>3, <1>5
  <2>2. th[u] \in ThreadType /\ Front(th[u].ci) \in Seq(FrameType)
    BY <1>1, FrontFits
  <2>3. [th[u] EXCEPT !.ci = Front(@)] \in ThreadType
        /\ Alike(th[u], [th[u] EXCEPT !.ci = Front(@)])
    BY <2>2 DEF ThreadType, Alike
  <2>4. Alike(th[u], th[u])
    BY DEF Alike
  <2> QED BY <2>1, <2>2, <2>3, <2>4
<1>6. th'[t] = done
  BY <1>1, <1>2, <1>3
<1>7. th' \in [Threads -> ThreadType]
  <2>1. \A u \in Threads : th'[u] \in ThreadType
    BY <1>4, <1>5, <1>6
  <2>2. th' = [u \in Threads |-> th'[u]]
    BY <1>3
  <2> QED BY <2>1, <2>2
<1>8. th' \in [Threads -> LooseType]
  BY <1>7, ThreadIsLoose
<1>9. ASSUME NEW i \in 1 .. d - 1
      PROVE  /\ FrameAt(native, th'[native[i].t], i)
             /\ i < d - 1 /\ IsLast(native, i) => Pos(native[i]) < Len(th'[native[i].t].ci)
  <2> DEFINE u == native[i].t
             e == d - 1
  <2>1. /\ i \in 1 .. n /\ i < d /\ native[i] \in RecordType /\ u \in Threads /\ u # t
        /\ Record(native, th, i) /\ Good(native, i) /\ th[u] \in LooseType
        /\ e \in 1 .. n /\ e < d /\ native[e] \in RecordType /\ Record(native, th, e) /\ Good(native, e)
    BY <1>1, <1>2, RecordFields
  <2>2. native[e].t = from
    BY <2>1, <1>1, <1>2 DEF Good
  <2>3. IsLast(native, e) /\ e < Len(native)
    BY <2>1, <1>2 DEF IsLast
  <2>4. Waiting(native, th, e)
    BY <2>1, <2>3 DEF Record
  <2>5. Pos(native[e]) < Len(th[from].ci) /\ Pos(native[e]) \in Nat /\ Pos(native[i]) \in Nat
    BY <2>1, <2>2, <2>4, RecordFields DEF Waiting
  <2>6. FrameAt(native, th[u], i)
    BY <2>1 DEF Record
  <2>7. CASE th'[u] = th[u]
    <3>1. ASSUME i < e, IsLast(native, i) PROVE Pos(native[i]) < Len(th[u].ci)
      <4>1. i < Len(native)
        BY <2>1, <1>2
      <4>2. Waiting(native, th, i)
        BY <3>1, <4>1, <2>1 DEF Record
      <4> QED BY <4>2 DEF Waiting
    <3> QED BY <3>1, <2>6, <2>7
  <2>8. CASE u = from /\ th'[u] = [th[u] EXCEPT !.ci = Front(@)]
    <3> DEFINE m == Len(th[u].ci) - 1
    <3>1. Len(th[u].ci) \in Nat /\ Len(th[u].ci) # 0
      BY <2>1, <2>5, <2>8, LooseFields
    <3>2. m \in Nat /\ m <= Len(th[u].ci) /\ Front(th[u].ci) = SubSeq(th[u].ci, 1, m)
      BY <2>1, <3>1, FrontFits
    <3>3. th'[u].ci = Front(th[u].ci)
      BY <2>1, <2>8 DEF LooseType
    <3>4. Pos(native[i]) <= Pos(native[e])
      <4>1. CASE i = e
        BY <4>1, <2>5
      <4>2. CASE i # e
        <5>1. i \in 1 .. e - 1 /\ native[i].t = native[e].t
          BY <4>2, <2>1, <2>2, <2>8
        <5>2. IF native[e].k \in {"call", "pcall"}
              THEN Pos(native[i]) < Pos(native[e]) ELSE Pos(native[i]) <= Pos(native[e])
          BY <5>1, <2>1 DEF Good
        <5> QED BY <5>2, <2>5
      <4> QED BY <4>1, <4>2
    <3>5. Pos(native[i]) <= m
      BY <3>1, <3>4, <2>5, <2>8, SMTT(30)
    <3>6. native[i].k = "call" => 0 < native[i].at
      BY <2>1 DEF Good
    <3> HIDE DEF m
    <3>7. FrameAt(native, th'[u], i)
      BY <3>2, <3>3, <3>5, <3>6, <2>1, <2>6, FrameCut
    <3>8. ~(i < e /\ IsLast(native, i))
      BY <2>1, <2>2, <2>8, <1>1, LastOfThread
    <3> QED BY <3>7, <3>8
  <2> QED BY <2>1, <2>7, <2>8, <1>5
<1> HIDE DEF done, again
<1>10. /\ native' \in Seq(RecordType) /\ Rest(native', th') /\ Now(native', th', "none")
  <2>1. ~th'[t].active /\ \A u \in Threads \ {t} : Alike(th[u], th'[u])
    BY <1>4, <1>5, <1>6
  <2> HIDE DEF t
  <2> QED BY <2>1, <1>1, <1>3, <1>8, <1>9, HandBackRest
<1>11. Now(native', th', signal') /\ signal' \in {"none", "run", "err"}
  BY <1>3, <1>10, NowWeaker
<1> QED BY <1>7, <1>10, <1>11 DEF CoroutineInv, StackInv, TypeOK

-----------------------------------------------------------------------------
(* Return. *)

\* What the top record adds to the counts.
LEMMA TopCounts ==
  ASSUME NEW s, NEW n \in Nat \ {0}, NEW u
  PROVE  /\ Calls(s, n, u) = Calls(s, n - 1, u) + (IF s[n].t = u /\ s[n].k = "call" THEN 1 ELSE 0)
         /\ Pcalls(s, n, u) = Pcalls(s, n - 1, u) + (IF s[n].t = u /\ s[n].k = "pcall" THEN 1 ELSE 0)
         /\ NoHandler(s, n) <=> NoHandler(s, n - 1) /\ s[n].k # "errh"
         /\ Calls(s, n - 1, u) \in Nat /\ Pcalls(s, n - 1, u) \in Nat
<1>1. n - 1 \in Nat /\ (n - 1) + 1 = n
  OBVIOUS
<1>2. /\ Calls(s, (n - 1) + 1, u)
           = Calls(s, n - 1, u) + (IF s[(n - 1) + 1].t = u /\ s[(n - 1) + 1].k = "call" THEN 1 ELSE 0)
      /\ Pcalls(s, (n - 1) + 1, u)
           = Pcalls(s, n - 1, u) + (IF s[(n - 1) + 1].t = u /\ s[(n - 1) + 1].k = "pcall" THEN 1 ELSE 0)
  BY <1>1, StepCounts, Zenon
<1>3. NoHandler(s, n) <=> NoHandler(s, n - 1) /\ s[n].k # "errh"
  BY DEF NoHandler
<1>4. Calls(s, n - 1, u) \in Nat /\ Pcalls(s, n - 1, u) \in Nat
  BY <1>1, NumberType DEF Calls, Pcalls
<1> QED BY <1>1, <1>2, <1>3, <1>4

\* The thread that runs returns to the record below its call.
LEMMA ReturnFacts ==
  ASSUME CoroutineInv, native # <<>>, signal = "none", NEW n, n = Len(native),
         native[n].k = "call", NEW m, m = Len(Self.ci) - 1,
         NEW base, base = Base0(native, th, Running)
  PROVE  /\ n - 1 \in Nat \ {0} /\ Base \in 1 .. n - 1
         /\ m \in Nat /\ Pos(native[n]) <= m + 1
         /\ Front(Self.ci) = SubSeq(Self.ci, 1, m) /\ Front(Self.ci) \in Seq(FrameType)
         /\ \A i \in 1 .. n - 1 : native[i].t = Running =>
              Pos(native[i]) \in Nat /\ Pos(native[i]) <= m
         /\ \A i \in 1 .. n : native[i].t = Running <=> i >= Base
         /\ native[Base].k = "resume" /\ \A i \in 1 .. n : i > Base => native[i].k # "resume"
         /\ Self.nC - 1 >= Here(native, base, n - 1) /\ Self.nC - 1 < HardC
         /\ NoHandler(native, n - 1) => Self.nC - 1 = Here(native, base, n - 1)
         /\ Pcalls(native, n, Running) = Pcalls(native, n - 1, Running)
<1>1. /\ n \in Nat \ {0} /\ n \in 1 .. n /\ native \in Seq(RecordType) /\ Self \in LooseType
      /\ \A i \in 1 .. n : native[i] \in RecordType /\ Good(native, i)
      /\ Running = native[n].t /\ Running \in Threads /\ Self.nC \in 0 .. HardC
      /\ Base \in 1 .. n /\ Segment(native, Base, n)
  BY RunningFacts
<1>2. /\ base \in Int /\ (\A i \in Nat : Here(native, base, i) \in Int)
      /\ Self.nC >= Here(native, base, n) /\ Self.nC < HardC
      /\ NoHandler(native, n) => Self.nC = Here(native, base, n)
  BY RunningCounts
<1>3. /\ native[Base].k = "resume" /\ \A i \in 1 .. n : native[i].t = Running <=> i >= Base
      /\ \A i \in 1 .. n : i > Base => native[i].k # "resume"
  BY <1>1, LastSegment
<1>4. n - 1 \in Nat \ {0} /\ Base \in 1 .. n - 1 /\ native[n - 1].t = Running
  BY <1>1, <1>3
<1>5. /\ Len(Self.ci) \in Nat /\ Pos(native[n]) \in Nat /\ Pos(native[n]) <= Len(Self.ci)
      /\ \A i \in 1 .. n : native[i].t = Running => Pos(native[i]) \in Nat
  BY RunningPos
<1>6. /\ 0 < native[n].at /\ Pos(native[n]) = native[n].at
      /\ \A i \in 1 .. n - 1 : native[i].t = Running => Pos(native[i]) < Pos(native[n])
  BY <1>1 DEF Good, Pos
<1>7. Len(Self.ci) # 0
  BY <1>5, <1>6
<1>8. /\ m \in Nat /\ Pos(native[n]) <= m + 1
      /\ \A i \in 1 .. n - 1 : native[i].t = Running =>
              Pos(native[i]) \in Nat /\ Pos(native[i]) <= m
  BY <1>1, <1>5, <1>6, <1>7
<1>9. Front(Self.ci) = SubSeq(Self.ci, 1, m) /\ Front(Self.ci) \in Seq(FrameType)
  BY <1>1, <1>5, <1>7, FrontFits
<1>10. /\ Calls(native, n, Running) = Calls(native, n - 1, Running) + 1
       /\ Pcalls(native, n, Running) = Pcalls(native, n - 1, Running)
       /\ NoHandler(native, n - 1) => NoHandler(native, n)
  <2>1. /\ Calls(native, n, Running) = Calls(native, n - 1, Running)
              + (IF native[n].t = Running /\ native[n].k = "call" THEN 1 ELSE 0)
        /\ Pcalls(native, n, Running) = Pcalls(native, n - 1, Running)
              + (IF native[n].t = Running /\ native[n].k = "pcall" THEN 1 ELSE 0)
        /\ NoHandler(native, n) <=> NoHandler(native, n - 1) /\ native[n].k # "errh"
        /\ Calls(native, n - 1, Running) \in Nat /\ Pcalls(native, n - 1, Running) \in Nat
    BY <1>1, TopCounts
  <2> HIDE DEF Calls, Pcalls, NoHandler
  <2>2. native[n].t = Running /\ native[n].k = "call"
    BY <1>1
  <2> QED BY <2>1, <2>2
<1>11. Here(native, base, n) = Here(native, base, n - 1) + 1
  <2>1. Calls(native, n - 1, Running) \in Nat
    BY <1>1, TopCounts
  <2> QED BY <2>1, <1>1, <1>2, <1>4, <1>10 DEF Here
<1>12. /\ Self.nC - 1 >= Here(native, base, n - 1) /\ Self.nC - 1 < HardC
       /\ NoHandler(native, n - 1) => Self.nC - 1 = Here(native, base, n - 1)
  <2>1. /\ Here(native, base, n - 1) \in Int /\ Here(native, base, n) \in Int
        /\ Self.nC \in Int /\ HardC \in Int
    BY <1>1, <1>2, <1>4, LimitsAssumption, SMTT(30)
  <2>2. Self.nC - 1 < HardC
    BY <2>1, <1>2
  <2>3. Self.nC - 1 >= Here(native, base, n - 1)
    BY <2>1, <1>2, <1>11
  <2>4. NoHandler(native, n - 1) => Self.nC = Here(native, base, n)
    BY <1>2, <1>10
  <2> QED BY <2>1, <2>2, <2>3, <2>4, <1>11, SMTT(30)
<1> QED BY <1>1, <1>3, <1>4, <1>8, <1>9, <1>10, <1>12

\* The frames of a thread are assigned.
LEMMA FramesAssigned ==
  ASSUME NEW x \in LooseType, NEW w \in Seq(FrameType)
  PROVE  LET y == [x EXCEPT !.ci = w]
         IN  /\ y \in LooseType /\ y.ci = w /\ y.active = x.active /\ y.status = x.status
             /\ y.nC = x.nC /\ y.fresh = x.fresh /\ y.baseC = x.baseC
BY DEF LooseType

\* Its nCcalls is assigned.
LEMMA CountAssigned ==
  ASSUME NEW x \in LooseType, NEW v \in Int
  PROVE  LET y == [x EXCEPT !.nC = v]
         IN  /\ y \in LooseType /\ y.ci = x.ci /\ y.active = x.active /\ y.status = x.status
             /\ y.nC = v /\ y.fresh = x.fresh /\ y.baseC = x.baseC
BY DEF LooseType

\* A frame that was called from a Lua frame is left.
LEMMA ReturnLua ==
  ASSUME CoroutineInv, native # <<>>, signal = "none", Top(Self.ci).f = "lua",
         th' = [th EXCEPT ![Running] = [Self EXCEPT !.ci = Front(@)]], UNCHANGED <<native, signal>>
  PROVE  CoroutineInv'
<1> DEFINE n == Len(native)
           m == IF Len(Self.ci) = 0 THEN 0 ELSE Len(Self.ci) - 1
           y == [Self EXCEPT !.ci = Front(@)]
<1>1. /\ n \in Nat \ {0} /\ n \in 1 .. n /\ Self \in LooseType /\ native[n] \in RecordType
      /\ Good(native, n) /\ FrameAt(native, Self, n) /\ Running = native[n].t
      /\ Self.active = TRUE /\ Self.status = "ok" /\ Self.nC \in 0 .. HardC
  BY RunningFacts
<1>2. /\ m \in Nat /\ m <= Len(Self.ci) /\ Front(Self.ci) = SubSeq(Self.ci, 1, m)
      /\ Front(Self.ci) \in Seq(FrameType)
  BY <1>1, FrontFits
<1>3. /\ y \in LooseType /\ y.ci = SubSeq(Self.ci, 1, m) /\ y.active = TRUE /\ y.status = "ok"
      /\ y.nC = Self.nC /\ y.baseC = Self.baseC
  BY <1>1, <1>2 DEF LooseType
<1>4. /\ Len(Self.ci) \in Nat /\ Pos(native[n]) \in Nat /\ Pos(native[n]) <= Len(Self.ci)
      /\ \A i \in 1 .. n : native[i].t = Running =>
           Pos(native[i]) \in Nat /\ Pos(native[i]) <= Pos(native[n])
  BY RunningPos
<1>5. Pos(native[n]) <= m
  <2>1. native[n].k \in {"call", "resume"}
    BY RunningCounts
  <2>2. CASE native[n].k = "resume"
    BY <2>2, <1>2 DEF Pos
  <2>3. CASE native[n].k = "call"
    <3>1. Pos(native[n]) = native[n].at /\ 0 < native[n].at
          /\ Self.ci[native[n].at].f \in Entries
      BY <2>3, <1>1 DEF Good, Pos, FrameAt
    <3>2. native[n].at # Len(Self.ci)
      BY <3>1 DEF Top, Entries
    <3> QED BY <3>1, <3>2, <1>4
  <2> QED BY <2>1, <2>2, <2>3
<1> HIDE DEF m, y
<1>6. \A i \in 1 .. n : native[i].t = Running => Pos(native[i]) <= m
  BY <1>2, <1>4, <1>5
<1>7. \A i \in 1 .. n : native[i].t = Running => FrameAt(native, y, i)
  BY <1>1, <1>2, <1>3, <1>6, CutAll
<1>8. y.nC \in Self.nC .. HardC
  BY <1>1, <1>3, LimitsAssumption
<1> QED BY <1>3, <1>7, <1>8, StayStep DEF y

\* luau_execute returns to a C++ function of the same coroutine.
LEMMA ReturnCall ==
  ASSUME CoroutineInv, native # <<>>, signal = "none", NEW n, n = Len(native),
         native[n].k = "call", native[n - 1].k \in {"call", "resume"},
         th' = [th EXCEPT ![Running] = [[Self EXCEPT !.ci = Front(@)] EXCEPT !.nC = @ - 1]],
         native' = Front(native), UNCHANGED signal
  PROVE  CoroutineInv'
<1> DEFINE m == Len(Self.ci) - 1
           y == [[Self EXCEPT !.ci = Front(@)] EXCEPT !.nC = @ - 1]
           base == Base0(native, th, Running)
<1>1. /\ n \in Nat \ {0} /\ native \in Seq(RecordType) /\ Self \in LooseType
      /\ Self.active = TRUE /\ Self.status = "ok" /\ Self.nC \in 0 .. HardC
      /\ Segment(native, Base, n)
  BY RunningFacts
<1>2. /\ n - 1 \in Nat \ {0} /\ Base \in 1 .. n - 1
      /\ m \in Nat /\ Front(Self.ci) = SubSeq(Self.ci, 1, m) /\ Front(Self.ci) \in Seq(FrameType)
      /\ \A i \in 1 .. n - 1 : native[i].t = Running =>
              Pos(native[i]) \in Nat /\ Pos(native[i]) <= m
      /\ Self.nC - 1 >= Here(native, base, n - 1) /\ Self.nC - 1 < HardC
      /\ NoHandler(native, n - 1) => Self.nC - 1 = Here(native, base, n - 1)
      /\ Pcalls(native, n, Running) = Pcalls(native, n - 1, Running)
  BY ReturnFacts
<1>3. /\ y \in LooseType /\ y.ci = SubSeq(Self.ci, 1, m) /\ y.active = TRUE /\ y.status = "ok"
      /\ y.nC = Self.nC - 1 /\ y.baseC = Self.baseC
  <2> DEFINE q == [Self EXCEPT !.ci = Front(@)]
  <2>1. /\ q \in LooseType /\ q.ci = SubSeq(Self.ci, 1, m) /\ q.active = TRUE /\ q.status = "ok"
        /\ q.nC = Self.nC /\ q.baseC = Self.baseC
    BY <1>1, <1>2, FramesAssigned, ZenonT(60)
  <2>2. y = [q EXCEPT !.nC = q.nC - 1]
    OBVIOUS
  <2> HIDE DEF q, y, m
  <2>3. q.nC - 1 \in Int
    BY <2>1, <1>1
  <2>4. /\ y \in LooseType /\ y.ci = q.ci /\ y.active = q.active /\ y.status = q.status
        /\ y.nC = q.nC - 1 /\ y.baseC = q.baseC
    BY <2>1, <2>2, <2>3, CountAssigned
  <2> QED BY <2>1, <2>4
<1>4. Len(Self.ci) \in Nat /\ m <= Len(Self.ci)
  BY <1>1, LooseFields
<1> HIDE DEF m, y
<1>5. \A i \in 1 .. n - 1 : native[i].t = Running => FrameAt(native, y, i)
  <2>1. n - 1 \in 1 .. Len(native)
    BY <1>1, <1>2
  <2> QED BY <2>1, <1>2, <1>3, <1>4, CutAll
<1>6. native' = SubSeq(native, 1, n - 1) /\ n - 1 \in Base .. n
  BY <1>1, <1>2 DEF Front
<1>7. y.baseC = Self.baseC - Pcalls(native, n, Running) + Pcalls(native, n - 1, Running)
  <2>1. Pcalls(native, n, Running) \in Nat /\ y.baseC \in Int
    BY <1>1, <1>3, NumberType, LooseFields DEF Pcalls
  <2> QED BY <2>1, <1>2, <1>3
<1>8. /\ y.nC >= Here(native, base, n - 1) + (IF native[n - 1].k = "pcall" THEN 1 ELSE 0)
      /\ y.nC <= HardC /\ y.nC < HardC
      /\ NoHandler(native, n - 1) => y.nC = Here(native, base, n - 1)
  <2>1. Here(native, base, n - 1) \in Int
    BY <1>2, RunningCounts
  <2> HIDE DEF base
  <2> QED BY <2>1, <1>1, <1>2, <1>3, LimitsAssumption, SMTT(30)
<1> HIDE DEF base
<1> QED BY <1>1, <1>3, <1>5, <1>6, <1>7, <1>8, PopStep DEF base, y

\* What the record below the top adds where a call is above a pcall.
LEMMA PcallFacts ==
  ASSUME CoroutineInv, native # <<>>, NEW n \in Nat, n \in 1 .. Len(native),
         native[n].k = "pcall", native[n].t = Running,
         NEW base, base = Base0(native, th, Running)
  PROVE  /\ n - 1 \in Nat \ {0} /\ Base \in 1 .. n - 1
         /\ native[n - 1].k \in {"call", "resume"} /\ native[n - 1].t = Running
         /\ native[n].at = Pos(native[n]) /\ 0 < native[n].at
         /\ \A i \in 1 .. n - 1 : native[i].t = Running =>
              Pos(native[i]) \in Nat /\ Pos(native[i]) <= native[n].at - 1
         /\ Here(native, base, n) = Here(native, base, n - 1)
         /\ NoHandler(native, n) <=> NoHandler(native, n - 1)
         /\ Pcalls(native, n, Running) = Pcalls(native, n - 1, Running) + 1
         /\ Pcalls(native, n - 1, Running) \in Nat
<1>1. /\ native \in Seq(RecordType) /\ Self \in LooseType /\ Running \in Threads
      /\ \A i \in 1 .. Len(native) : native[i] \in RecordType /\ Good(native, i)
      /\ Base \in 1 .. Len(native) /\ Segment(native, Base, Len(native))
  BY RunningFacts
<1>2. /\ native[Base].k = "resume" /\ \A i \in 1 .. Len(native) : native[i].t = Running <=> i >= Base
  BY <1>1, LastSegment DEF Running, Top
<1>3. n - 1 \in Nat \ {0} /\ Base \in 1 .. n - 1 /\ native[n - 1].t = Running /\ n \in Nat \ {0}
  BY <1>1, <1>2
<1>4. Good(native, n) /\ native[n] \in RecordType
  BY <1>1
<1>5. native[n - 1].k \in {"call", "resume"} /\ 0 < native[n].at /\ native[n].at = Pos(native[n])
  BY <1>3, <1>4 DEF Good, Pos
<1>6. native[n].at \in Nat
  BY <1>4, RecordFields
<1>7. ASSUME NEW i \in 1 .. n - 1, native[i].t = Running
      PROVE  Pos(native[i]) \in Nat /\ Pos(native[i]) <= native[n].at - 1
  <2>1. Pos(native[i]) \in Nat
    BY <1>1, <1>7, <1>3, RunningPos
  <2>2. Pos(native[i]) < Pos(native[n])
    BY <1>4, <1>7 DEF Good
  <2> QED BY <2>1, <2>2, <1>5, <1>6
<1>8. /\ Calls(native, n, Running) = Calls(native, n - 1, Running)
            + (IF native[n].t = Running /\ native[n].k = "call" THEN 1 ELSE 0)
      /\ Pcalls(native, n, Running) = Pcalls(native, n - 1, Running)
            + (IF native[n].t = Running /\ native[n].k = "pcall" THEN 1 ELSE 0)
      /\ NoHandler(native, n) <=> NoHandler(native, n - 1) /\ native[n].k # "errh"
      /\ Calls(native, n - 1, Running) \in Nat /\ Pcalls(native, n - 1, Running) \in Nat
  BY <1>3, TopCounts
<1>9. /\ Calls(native, n, Running) = Calls(native, n - 1, Running)
      /\ Pcalls(native, n, Running) = Pcalls(native, n - 1, Running) + 1
      /\ NoHandler(native, n) <=> NoHandler(native, n - 1)
  <2> HIDE DEF Calls, Pcalls, NoHandler
  <2> QED BY <1>8
<1>10. Here(native, base, n) = Here(native, base, n - 1)
  BY <1>3, <1>9 DEF Here
<1> QED BY <1>3, <1>5, <1>7, <1>8, <1>9, <1>10

\* The frame of pcall is left too.
LEMMA ReturnPcall ==
  ASSUME CoroutineInv, native # <<>>, signal = "none", NEW n, n = Len(native),
         native[n].k = "call", native[n - 1].k = "pcall",
         NEW y, y = [[[Self EXCEPT !.ci = Front(@)] EXCEPT !.nC = @ - 1]
                       EXCEPT !.ci = Front(@), !.baseC = @ - 1],
         th' = [th EXCEPT ![Running] = y], native' = SubSeq(native, 1, n - 2), UNCHANGED signal
  PROVE  CoroutineInv'
<1> DEFINE m == Len(Self.ci) - 1
           base == Base0(native, th, Running)
           w == SubSeq(Self.ci, 1, m - 1)
<1>1. /\ n \in Nat \ {0} /\ native \in Seq(RecordType) /\ Self \in LooseType
      /\ Self.active = TRUE /\ Self.status = "ok" /\ Self.nC \in 0 .. HardC
      /\ Segment(native, Base, n)
  BY RunningFacts
<1>2. /\ n - 1 \in Nat \ {0} /\ Base \in 1 .. n - 1
      /\ m \in Nat /\ Front(Self.ci) = SubSeq(Self.ci, 1, m) /\ Front(Self.ci) \in Seq(FrameType)
      /\ \A i \in 1 .. n - 1 : native[i].t = Running =>
              Pos(native[i]) \in Nat /\ Pos(native[i]) <= m
      /\ \A i \in 1 .. n : native[i].t = Running <=> i >= Base
      /\ Self.nC - 1 >= Here(native, base, n - 1) /\ Self.nC - 1 < HardC
      /\ NoHandler(native, n - 1) => Self.nC - 1 = Here(native, base, n - 1)
      /\ Pcalls(native, n, Running) = Pcalls(native, n - 1, Running)
  BY ReturnFacts, SMTT(30)
<1>3. native[n - 1].t = Running /\ n - 1 \in 1 .. Len(native) /\ n - 1 \in Nat
  BY <1>1, <1>2, SMTT(30)
<1>4. /\ (n - 1) - 1 \in Nat \ {0} /\ Base \in 1 .. (n - 1) - 1
      /\ native[(n - 1) - 1].k \in {"call", "resume"}
      /\ native[n - 1].at = Pos(native[n - 1]) /\ 0 < native[n - 1].at
      /\ \A i \in 1 .. (n - 1) - 1 : native[i].t = Running =>
              Pos(native[i]) \in Nat /\ Pos(native[i]) <= native[n - 1].at - 1
      /\ Here(native, base, n - 1) = Here(native, base, (n - 1) - 1)
      /\ NoHandler(native, n - 1) <=> NoHandler(native, (n - 1) - 1)
      /\ Pcalls(native, n - 1, Running) = Pcalls(native, (n - 1) - 1, Running) + 1
      /\ Pcalls(native, (n - 1) - 1, Running) \in Nat
  BY <1>3, PcallFacts
<1>5. (n - 1) - 1 = n - 2
  BY <1>1
<1>6. /\ n - 2 \in Nat \ {0} /\ Base \in 1 .. n - 2 /\ n - 2 \in Base .. n /\ n - 2 \in 1 .. Len(native)
  BY <1>1, <1>4, <1>5
<1>7. native[n - 1].at \in Nat /\ native[n - 1].at <= m
  <2>1. n - 1 \in 1 .. n - 1
    BY <1>2
  <2>2. Pos(native[n - 1]) \in Nat /\ Pos(native[n - 1]) <= m
    BY <2>1, <1>2, <1>3
  <2> QED BY <2>2, <1>4
<1>8. Len(Self.ci) \in Nat /\ Self.ci \in Seq(FrameType) /\ Self.baseC \in Int /\ Self.nC \in Int
  BY <1>1, LooseFields
<1>9. m - 1 \in Nat /\ m - 1 <= Len(Self.ci) /\ w \in Seq(FrameType)
  <2>1. 0 < native[n - 1].at
    BY <1>4
  <2>2. m - 1 \in Nat /\ m - 1 <= Len(Self.ci)
    BY <2>1, <1>2, <1>7, <1>8, SMTT(30)
  <2> QED BY <2>2, <1>8
<1>10. Front(SubSeq(Self.ci, 1, m)) = w
  BY <1>2, <1>8, <1>9 DEF Front
<1>11. /\ y \in LooseType /\ y.ci = w /\ y.active = TRUE /\ y.status = "ok"
       /\ y.nC = Self.nC - 1 /\ y.baseC = Self.baseC - 1
  <2> DEFINE q == [Self EXCEPT !.ci = w]
             p == [q EXCEPT !.nC = Self.nC - 1]
  <2>1. y = [p EXCEPT !.baseC = Self.baseC - 1]
    <3> HIDE DEF m, w
    <3> QED BY <1>1, <1>2, <1>10 DEF LooseType
  <2> HIDE DEF m, w
  <2>2. /\ q \in LooseType /\ q.ci = w /\ q.active = TRUE /\ q.status = "ok"
        /\ q.nC = Self.nC /\ q.baseC = Self.baseC
    BY <1>1, <1>9, FramesAssigned
  <2> HIDE DEF q
  <2>a. Self.nC - 1 \in Int /\ Self.baseC - 1 \in Int
    BY <1>8
  <2>3. /\ p \in LooseType /\ p.ci = w /\ p.active = TRUE /\ p.status = "ok"
        /\ p.nC = Self.nC - 1 /\ p.baseC = Self.baseC
    BY <2>a, <2>2, CountAssigned
  <2> HIDE DEF p
  <2> DEFINE v == [p EXCEPT !.baseC = Self.baseC - 1]
  <2>4. /\ v \in LooseType /\ v.ci = p.ci /\ v.active = p.active /\ v.status = p.status
        /\ v.nC = p.nC /\ v.baseC = Self.baseC - 1
    BY <2>a, <2>3, BaseAssigned
  <2>5. y = v
    BY <2>1
  <2> HIDE DEF v
  <2> QED BY <2>3, <2>4, <2>5
<1> HIDE DEF m, w
<1>12. \A i \in 1 .. n - 2 : native[i].t = Running => FrameAt(native, y, i)
  <2>1. \A i \in 1 .. n - 2 : native[i].t = Running => Pos(native[i]) <= m - 1
    <3>1. m \in Nat
      BY <1>2
    <3>2. \A i \in 1 .. n - 2 : native[i].t = Running =>
              Pos(native[i]) \in Nat /\ Pos(native[i]) <= native[n - 1].at - 1
      BY <1>4, <1>5
    <3> QED BY <3>1, <3>2, <1>7
  <2>2. y.ci = SubSeq(Self.ci, 1, m - 1)
    BY <1>11 DEF w
  <2> QED BY <2>1, <2>2, <1>6, <1>9, CutAll
<1>13. y.baseC = Self.baseC - Pcalls(native, n, Running) + Pcalls(native, n - 2, Running)
  <2>1. Pcalls(native, n, Running) = Pcalls(native, n - 2, Running) + 1
        /\ Pcalls(native, n - 2, Running) \in Nat
    BY <1>2, <1>4, <1>5
  <2> HIDE DEF Pcalls
  <2> QED BY <2>1, <1>8, <1>11
<1>14. /\ y.nC >= Here(native, base, n - 2) + (IF native[n - 2].k = "pcall" THEN 1 ELSE 0)
       /\ y.nC <= HardC /\ y.nC < HardC
       /\ NoHandler(native, n - 2) => y.nC = Here(native, base, n - 2)
  <2>1. Here(native, base, n - 2) \in Int /\ HardC \in Int
    <3>1. n - 2 \in Nat
      BY <1>6
    <3> QED BY <3>1, RunningCounts, LimitsAssumption, SMTT(30)
  <2>2. y.nC = Self.nC - 1 /\ native[n - 2].k # "pcall"
    BY <1>4, <1>5, <1>11
  <2>3. /\ Self.nC - 1 >= Here(native, base, n - 2) /\ Self.nC - 1 < HardC
        /\ NoHandler(native, n - 2) => Self.nC - 1 = Here(native, base, n - 2)
    BY <1>2, <1>4, <1>5
  <2> HIDE DEF base
  <2> QED BY <2>1, <2>2, <2>3, <1>8
<1>15. native[n - 2].k \in {"call", "resume"}
  BY <1>4, <1>5
<1> HIDE DEF base
<1> QED BY <1>1, <1>6, <1>11, <1>12, <1>13, <1>14, <1>15, PopStep, ZenonT(60) DEF base

-----------------------------------------------------------------------------
(* A protected call fails. *)

\* The thread as luaD_pcall leaves it.
LEMMA PcallFailedFits ==
  ASSUME NEW x \in LooseType, NEW p \in RecordType, p.k = "pcall", p.active, 0 < p.at,
         p.at <= Len(x.ci)
  PROVE  LET y == PcallFailed(x, p)
         IN  /\ y \in LooseType /\ y.ci = SubSeq(x.ci, 1, p.at - 1) /\ y.active = TRUE
             /\ y.status = x.status /\ y.nC = p.nC /\ y.baseC = x.baseC - 1
<1> DEFINE w == SubSeq(x.ci, 1, p.at - 1)
<1>1. p.at \in Nat /\ p.nC \in 0 .. HardC /\ p.active \in BOOLEAN /\ HardC \in Nat
  BY RecordFields, LimitsAssumption
<1>2. w \in Seq(FrameType)
  <2>2. x.ci \in Seq(FrameType) /\ Len(x.ci) \in Nat
    BY LooseFields
  <2> QED BY <2>2, <1>1
<1>3. p.nC \in Int /\ x.baseC - 1 \in Int /\ p.active = TRUE
  BY <1>1, LooseFields
<1>4. PcallFailed(x, p) = [x EXCEPT !.nC = p.nC, !.ci = w, !.baseC = x.baseC - 1, !.active = TRUE]
  BY <1>3 DEF PcallFailed, LooseType
<1> HIDE DEF w
<1> QED BY <1>2, <1>3, <1>4 DEF LooseType, w

\* The thread that runs goes on after its pcall c, with no record of it left.
Failing(c, y) ==
  /\ c \in 1 .. Len(native) /\ native[c].k = "pcall" /\ native[c].t = Running
  /\ \A i \in c + 1 .. Len(native) : native[i].k # "pcall"
  /\ y \in LooseType /\ y.active = TRUE /\ y.status = "ok"
  /\ y.ci = SubSeq(Self.ci, 1, native[c].at - 1) /\ y.nC = native[c].nC
  /\ y.baseC = Self.baseC - 1
  /\ native' = SubSeq(native, 1, c - 1) /\ th' = [th EXCEPT ![Running] = y] /\ signal' = "none"

\* Such a step keeps the invariant: the count that pcall saved is that of its caller.
LEMMA PcallFails ==
  ASSUME CoroutineInv, native # <<>>, NEW c, NEW y, Failing(c, y)
  PROVE  CoroutineInv'
<1> USE DEF Failing
<1> DEFINE n == Len(native)
<1> DEFINE base == Base0(native, th, Running)
           m == native[c].at - 1
<1>1. /\ n \in Nat /\ c \in Nat /\ native \in Seq(RecordType) /\ Self \in LooseType
      /\ Self.active = TRUE /\ Self.status = "ok" /\ native[c] \in RecordType
      /\ Segment(native, Base, n) /\ FrameAt(native, Self, c)
  <2>1. /\ n \in Nat \ {0} /\ native \in Seq(RecordType) /\ Self \in LooseType
        /\ Self.active = TRUE /\ Self.status = "ok"
        /\ \A i \in 1 .. n : native[i] \in RecordType
        /\ Segment(native, Base, n)
        /\ \A i \in 1 .. n : native[i].t = Running => FrameAt(native, Self, i)
    BY RunningFacts
  <2> QED BY <2>1
<1>2. /\ c - 1 \in Nat \ {0} /\ Base \in 1 .. c - 1 /\ native[c - 1].k \in {"call", "resume"}
      /\ native[c].at = Pos(native[c]) /\ 0 < native[c].at
      /\ \A i \in 1 .. c - 1 : native[i].t = Running =>
              Pos(native[i]) \in Nat /\ Pos(native[i]) <= native[c].at - 1
      /\ Here(native, base, c) = Here(native, base, c - 1)
      /\ NoHandler(native, c) <=> NoHandler(native, c - 1)
      /\ Pcalls(native, c, Running) = Pcalls(native, c - 1, Running) + 1
      /\ Pcalls(native, c - 1, Running) \in Nat
  BY <1>1, PcallFacts, ZenonT(60)
<1>3. native[c].at \in Nat /\ native[c].nC \in Int /\ Self.baseC \in Int /\ Len(Self.ci) \in Nat
  BY <1>1, RecordFields, LooseFields
<1>4. m \in Nat /\ m <= Len(Self.ci)
  BY <1>1, <1>2, <1>3, SMTT(30) DEF FrameAt
<1>5. c - 1 \in 1 .. Len(native) /\ c - 1 \in Base .. n
  BY <1>1, <1>2, SMTT(30)
<1>6. \A i \in 1 .. c - 1 : native[i].t = Running => FrameAt(native, y, i)
  <2>1. \A i \in 1 .. c - 1 : native[i].t = Running => Pos(native[i]) <= m
    BY <1>2
  <2>2. y.ci = SubSeq(Self.ci, 1, m)
    OBVIOUS
  <2> HIDE DEF m
  <2> QED BY <2>1, <2>2, <1>4, <1>5, CutAll
<1>7. Pcalls(native, n, Running) = Pcalls(native, c, Running)
  <2>1. \A i \in c + 1 .. n : ~(native[i].t \in {Running} /\ native[i].k \in {"pcall"})
    OBVIOUS
  <2> QED BY <1>1, <2>1, NumberFlat DEF Pcalls
<1>8. y.baseC = Self.baseC - Pcalls(native, n, Running) + Pcalls(native, c - 1, Running)
  <2> HIDE DEF Pcalls
  <2> QED BY <1>2, <1>3, <1>7
<1>9. /\ y.nC >= Here(native, base, c - 1) /\ y.nC < HardC
      /\ NoHandler(native, c - 1) => y.nC = Here(native, base, c - 1)
  <2>1. SavedAt(native, base, c)
    BY <1>1, RunningCounts
  <2> HIDE DEF base
  <2> QED BY <2>1, <1>2 DEF SavedAt
<1>10. y.nC <= HardC
  BY <1>3, <1>9, LimitsAssumption
<1>11. y.nC >= Here(native, base, c - 1) + (IF native[c - 1].k = "pcall" THEN 1 ELSE 0)
  <2>1. Here(native, base, c - 1) \in Int
    BY <1>2, RunningCounts
  <2> HIDE DEF base
  <2> QED BY <2>1, <1>2, <1>9
<1> HIDE DEF base, m
<1> QED BY <1>1, <1>2, <1>5, <1>6, <1>8, <1>9, <1>10, <1>11, PopStep DEF base

\* The frames that are left do not depend on what was above them.
LEMMA CutTwice ==
  ASSUME NEW s \in Seq(FrameType), NEW m \in Nat, m <= Len(s), NEW k \in Nat, k <= m
  PROVE  SubSeq(SubSeq(s, 1, m), 1, k) = SubSeq(s, 1, k)
OBVIOUS

\* The error function of xpcall returns, and with it xpcall.
LEMMA ErrhReturns ==
  ASSUME CoroutineInv, native # <<>>, signal = "none", NEW n, n = Len(native),
         native[n].k = "call", native[n - 1].k = "errh",
         th' = [th EXCEPT ![Running] = PcallFailed([Self EXCEPT !.ci = Front(@)], native[n - 2])],
         native' = SubSeq(native, 1, n - 3), UNCHANGED signal
  PROVE  Failing(n - 2, PcallFailed([Self EXCEPT !.ci = Front(@)], native[n - 2]))
<1> DEFINE m == Len(Self.ci) - 1
           x == [Self EXCEPT !.ci = Front(@)]
           p == native[n - 2]
           y == PcallFailed(x, p)
<1>1. /\ n \in Nat \ {0} /\ native \in Seq(RecordType) /\ Self \in LooseType
      /\ Self.active = TRUE /\ Self.status = "ok"
      /\ \A i \in 1 .. n : native[i] \in RecordType /\ Good(native, i)
  BY RunningFacts
<1>2. /\ n - 1 \in Nat \ {0} /\ Base \in 1 .. n - 1
      /\ m \in Nat /\ Front(Self.ci) = SubSeq(Self.ci, 1, m) /\ Front(Self.ci) \in Seq(FrameType)
      /\ \A i \in 1 .. n - 1 : native[i].t = Running =>
              Pos(native[i]) \in Nat /\ Pos(native[i]) <= m
      /\ \A i \in 1 .. n : native[i].t = Running <=> i >= Base
      /\ native[Base].k = "resume"
  BY ReturnFacts
<1>3. Base # n - 1
  BY <1>2
<1>4. n - 2 \in 1 .. n /\ n - 2 \in 1 .. n - 1 /\ p.t = Running /\ n - 2 \in Nat
  <2>1. Base \in Nat /\ 1 <= Base /\ Base <= n - 2
    BY <1>1, <1>2, <1>3, SMTT(30)
  <2>2. n - 2 \in 1 .. n /\ n - 2 \in 1 .. n - 1 /\ n - 2 \in Nat /\ n - 2 >= Base
    BY <1>1, <2>1
  <2> QED BY <1>2, <2>2
<1>5. p.k = "pcall"
  <2>1. Good(native, n - 1)
    BY <1>1, <1>2
  <2>2. (n - 1) - 1 = n - 2
    BY <1>1
  <2> QED BY <2>1, <2>2 DEF Good
<1>6. p \in RecordType /\ Good(native, n - 2)
  BY <1>1, <1>4
<1>7. p.active /\ 0 < p.at /\ Pos(p) = p.at
  BY <1>5, <1>6 DEF Good, Pos
<1>8. p.at \in Nat /\ p.at <= m
  BY <1>2, <1>4, <1>7
<1>9. Len(Self.ci) \in Nat /\ m <= Len(Self.ci) /\ Self.ci \in Seq(FrameType)
  BY <1>1, LooseFields
<1> HIDE DEF m, p
<1>10. /\ x \in LooseType /\ x.ci = SubSeq(Self.ci, 1, m) /\ x.active = TRUE /\ x.status = "ok"
       /\ x.nC = Self.nC /\ x.baseC = Self.baseC
  BY <1>1, <1>2, FramesAssigned, ZenonT(60)
<1> HIDE DEF x
<1>11. Len(x.ci) = m
  BY <1>2, <1>9, <1>10
<1>12. /\ y \in LooseType /\ y.ci = SubSeq(x.ci, 1, p.at - 1) /\ y.active = TRUE
       /\ y.status = "ok" /\ y.nC = p.nC /\ y.baseC = Self.baseC - 1
  BY <1>5, <1>6, <1>7, <1>8, <1>10, <1>11, PcallFailedFits, ZenonT(60)
<1>13. y.ci = SubSeq(Self.ci, 1, p.at - 1)
  <2>1. p.at - 1 \in Nat /\ p.at - 1 <= m
    BY <1>2, <1>7, <1>8, SMTT(30)
  <2> QED BY <2>1, <1>2, <1>9, <1>10, <1>12, CutTwice, SMTT(30)
<1>14. \A i \in (n - 2) + 1 .. n : native[i].k # "pcall"
  BY <1>1
<1>15. native' = SubSeq(native, 1, (n - 2) - 1) /\ th' = [th EXCEPT ![Running] = y]
  <2>1. (n - 2) - 1 = n - 3
    BY <1>1
  <2> QED BY <2>1 DEF x, p
<1>16. native[n - 2] = p
  BY DEF p
<1> HIDE DEF y
<1> DEFINE c == n - 2
<1>17. c \in 1 .. n /\ native[c].k = "pcall" /\ native[c].t = Running
  BY <1>4, <1>5, <1>16
<1>18. /\ \A i \in c + 1 .. n : native[i].k # "pcall"
       /\ native' = SubSeq(native, 1, c - 1) /\ y.nC = native[c].nC
       /\ y.ci = SubSeq(Self.ci, 1, native[c].at - 1)
  BY <1>12, <1>13, <1>14, <1>15, <1>16
<1>19. signal' = "none" /\ y.active = TRUE /\ y.status = "ok" /\ y.baseC = Self.baseC - 1
  BY <1>12
<1> HIDE DEF c
<1>20. Failing(c, y)
  BY <1>12, <1>15, <1>17, <1>18, <1>19 DEF Failing
<1> QED BY <1>20 DEF c, y, x, p

\* Such a step keeps the invariant.
LEMMA ReturnErrh ==
  ASSUME CoroutineInv, native # <<>>, signal = "none", NEW n, n = Len(native),
         native[n].k = "call", native[n - 1].k = "errh",
         th' = [th EXCEPT ![Running] = PcallFailed([Self EXCEPT !.ci = Front(@)], native[n - 2])],
         native' = SubSeq(native, 1, n - 3), UNCHANGED signal
  PROVE  CoroutineInv'
BY ErrhReturns, PcallFails

-----------------------------------------------------------------------------
(* Return, into a continuation or out of lua_resume. *)

\* The error function of a pcall that was yielded across returns, and the
\* continuation of pcall runs on.
LEMMA ReturnCont ==
  ASSUME CoroutineInv, native # <<>>, signal = "none", NEW n, n = Len(native),
         native[n].k = "call", native[n - 1].k = "cont",
         th' = [th EXCEPT ![Running] =
                  Continued([[[Self EXCEPT !.ci = Front(@)] EXCEPT !.nC = @ - 1]
                               EXCEPT !.ci = SubSeq(@, 1, native[n - 1].at - 1)])],
         native' = SubSeq(native, 1, n - 2), UNCHANGED signal
  PROVE  CoroutineInv'
<1> DEFINE m == Len(Self.ci) - 1
           base == Base0(native, th, Running)
           p == native[n - 1]
           w == SubSeq(Front(Self.ci), 1, p.at - 1)
           x == [[[Self EXCEPT !.ci = Front(@)] EXCEPT !.nC = @ - 1]
                   EXCEPT !.ci = SubSeq(@, 1, p.at - 1)]
           y == Continued(x)
<1>1. /\ n \in Nat \ {0} /\ native \in Seq(RecordType) /\ Self \in LooseType
      /\ Self.active = TRUE /\ Self.status = "ok" /\ Self.nC \in 0 .. HardC
      /\ Segment(native, Base, n) /\ Running \in Threads
      /\ \A i \in 1 .. n : native[i] \in RecordType /\ Good(native, i)
  BY RunningFacts
<1>2. /\ n - 1 \in Nat \ {0} /\ Base \in 1 .. n - 1
      /\ m \in Nat /\ Front(Self.ci) \in Seq(FrameType) /\ Front(Self.ci) = SubSeq(Self.ci, 1, m)
      /\ \A i \in 1 .. n - 1 : native[i].t = Running =>
              Pos(native[i]) \in Nat /\ Pos(native[i]) <= m
      /\ \A i \in 1 .. n : native[i].t = Running <=> i >= Base
      /\ native[Base].k = "resume" /\ \A i \in 1 .. n : i > Base => native[i].k # "resume"
      /\ Self.nC - 1 >= Here(native, base, n - 1) /\ Self.nC - 1 < HardC
      /\ NoHandler(native, n - 1) => Self.nC - 1 = Here(native, base, n - 1)
      /\ Pcalls(native, n, Running) = Pcalls(native, n - 1, Running)
  BY ReturnFacts, ZenonT(60)
<1>3. Base # n - 1
  BY <1>2
<1>4. /\ n - 1 \in 1 .. n /\ p \in RecordType /\ Good(native, n - 1)
      /\ native[n - 2].k = "resume" /\ 0 < p.at /\ p.at <= p.ci /\ Pos(p) = p.ci
  <2>1. n - 1 \in 1 .. n /\ (n - 1) - 1 = n - 2
    BY <1>1, <1>2
  <2>2. Good(native, n - 1) /\ p \in RecordType
    BY <1>1, <2>1
  <2> QED BY <2>1, <2>2 DEF Good, Pos
<1>5. Base = n - 2 /\ n - 2 \in Nat \ {0}
  <2>1. Base \in Nat /\ 1 <= Base /\ Base <= n - 2
    BY <1>1, <1>2, <1>3, SMTT(30)
  <2>2. ~(n - 2 > Base)
    BY <1>1, <1>2, <1>4, <2>1, SMTT(30)
  <2> QED BY <1>1, <2>1, <2>2
<1>6. p.at \in Nat /\ p.ci \in Nat /\ p.at - 1 \in Nat /\ p.at - 1 <= m
  <2>1. p.at \in Nat /\ p.ci \in Nat
    BY <1>4, RecordFields
  <2>2. Pos(p) <= m
    <3>1. native[n - 1].t = Running /\ n - 1 \in 1 .. n - 1
      BY <1>1, <1>2, <1>5, SMTT(30)
    <3> QED BY <3>1, <1>2
  <2> QED BY <2>1, <2>2, <1>2, <1>4, SMTT(30)
<1>7. Self.ci \in Seq(FrameType) /\ Len(Self.ci) \in Nat /\ Self.nC \in Int /\ Self.nC - 1 \in Int
      /\ Self.baseC \in Int
  BY <1>1, LooseFields
<1>8. Len(Front(Self.ci)) = m /\ w \in Seq(FrameType)
  <2>1. Len(SubSeq(Self.ci, 1, m)) = m
    BY <1>2, <1>7
  <2> HIDE DEF m, p
  <2> QED BY <2>1, <1>2, <1>6
<1>9. /\ x \in LooseType /\ x.active = TRUE /\ x.status = "ok" /\ x.nC = Self.nC - 1
      /\ x.baseC = Self.baseC
  <2> DEFINE q == [Self EXCEPT !.ci = w]
             v == [q EXCEPT !.nC = Self.nC - 1]
  <2>1. x = v
    <3> HIDE DEF p
    <3> QED BY <1>1 DEF LooseType
  <2> HIDE DEF w, x
  <2>2. /\ q \in LooseType /\ q.active = TRUE /\ q.status = "ok"
        /\ q.nC = Self.nC /\ q.baseC = Self.baseC
    BY <1>1, <1>8, FramesAssigned
  <2> HIDE DEF q
  <2>3. /\ v \in LooseType /\ v.active = q.active /\ v.status = q.status
        /\ v.nC = Self.nC - 1 /\ v.baseC = q.baseC
    BY <1>7, <2>2, CountAssigned
  <2> HIDE DEF v
  <2> QED BY <2>1, <2>2, <2>3
<1> HIDE DEF x
<1>10. /\ y \in LooseType /\ y.active = TRUE /\ y.status = "ok" /\ y.nC = Self.nC - 1
       /\ y.baseC = Self.baseC
  BY <1>9, ContinuedFits DEF Alike
<1>11. th' = [th EXCEPT ![Running] = y]
  BY DEF x
<1> HIDE DEF y, p, w, m
<1>12. \A i \in 1 .. n - 2 : native[i].t = Running => FrameAt(native, y, i)
  <2> SUFFICES ASSUME NEW i \in 1 .. n - 2, native[i].t = Running PROVE FrameAt(native, y, i)
    OBVIOUS
  <2>1. i \in 1 .. n /\ i \in Nat /\ i <= n - 2
    BY <1>1, <1>5
  <2>2. i >= n - 2
    BY <1>2, <1>5, <2>1
  <2>3. i = n - 2
    BY <2>1, <2>2, <1>1
  <2>4. native[i].k = "resume"
    BY <2>3, <1>4
  <2> QED BY <2>4, <1>10, FrameBottom
<1>13. /\ Pcalls(native, n - 1, Running) = Pcalls(native, n - 2, Running)
       /\ Calls(native, n - 1, Running) = Calls(native, n - 2, Running)
       /\ NoHandler(native, n - 1) <=> NoHandler(native, n - 2)
       /\ Pcalls(native, n - 2, Running) \in Nat
  <2>0. (n - 1) - 1 = n - 2 /\ native[n - 1].k = "cont"
    BY <1>1
  <2>1. /\ Calls(native, n - 1, Running) = Calls(native, (n - 1) - 1, Running)
              + (IF native[n - 1].t = Running /\ native[n - 1].k = "call" THEN 1 ELSE 0)
        /\ Pcalls(native, n - 1, Running) = Pcalls(native, (n - 1) - 1, Running)
              + (IF native[n - 1].t = Running /\ native[n - 1].k = "pcall" THEN 1 ELSE 0)
        /\ NoHandler(native, n - 1) <=> NoHandler(native, (n - 1) - 1) /\ native[n - 1].k # "errh"
        /\ Calls(native, (n - 1) - 1, Running) \in Nat /\ Pcalls(native, (n - 1) - 1, Running) \in Nat
    BY <1>2, TopCounts
  <2> HIDE DEF Calls, Pcalls, NoHandler
  <2> QED BY <2>0, <2>1
<1>14. Here(native, base, n - 1) = Here(native, base, n - 2)
  <2>1. native[n - 1].t = Running /\ native[n - 2].t = Running
    <3>1. n - 1 \in 1 .. n /\ n - 2 \in 1 .. n /\ n - 1 >= n - 2 /\ n - 2 >= n - 2
      BY <1>1, <1>5
    <3> QED BY <3>1, <1>2, <1>5
  <2> QED BY <2>1, <1>13 DEF Here
<1>15. y.baseC = Self.baseC - Pcalls(native, n, Running) + Pcalls(native, n - 2, Running)
  <2> HIDE DEF Pcalls
  <2> QED BY <1>2, <1>7, <1>10, <1>13
<1>16. n - 2 \in Base .. n
  BY <1>1, <1>5
<1>17. HardC \in Int
  BY LimitsAssumption
<1> HIDE DEF base
<1>18. /\ y.nC >= Here(native, base, n - 2) + (IF native[n - 2].k = "pcall" THEN 1 ELSE 0)
       /\ y.nC <= HardC /\ y.nC < HardC
       /\ NoHandler(native, n - 2) => y.nC = Here(native, base, n - 2)
  <2>1. Here(native, base, n - 2) \in Int
    BY <1>5, RunningCounts DEF base
  <2>2. /\ Self.nC - 1 >= Here(native, base, n - 2) /\ Self.nC - 1 < HardC
        /\ NoHandler(native, n - 2) => Self.nC - 1 = Here(native, base, n - 2)
    BY <1>2, <1>13, <1>14 DEF base
  <2>3. y.nC = Self.nC - 1 /\ native[n - 2].k # "pcall"
    BY <1>4, <1>10
  <2> QED BY <2>1, <2>2, <2>3, <1>7, <1>17
<1>19. /\ Segment(native, Base, n) /\ native[n - 2].k \in {"call", "resume"}
       /\ y.active /\ native' = SubSeq(native, 1, n - 2) /\ signal' = "none"
  BY <1>1, <1>4, <1>10
<1> QED BY <1>10, <1>11, <1>12, <1>15, <1>16, <1>18, <1>19, PopStep, ZenonT(60) DEF base

\* The counter of yieldability started in bounds.
LEMMA BaseBounds ==
  ASSUME CoroutineInv, native # <<>>, NEW base, base = Base0(native, th, Running)
  PROVE  base \in 1 .. HardC /\ Self.baseC \in 1 .. HardC
<1>1. /\ Len(native) \in 1 .. Len(native) /\ Running = native[Len(native)].t /\ Running \in Threads
      /\ Self = th[Running] /\ th \in [Threads -> ThreadType] /\ Rest(native, th)
  BY RunningFacts
<1>2. Self.baseC = base + Pcalls(native, Len(native), Running) /\ base \in Int
      /\ Pcalls(native, Len(native), Running) \in Nat
  BY RunningCounts
<1>3. OnStack(native, Running)
  BY <1>1 DEF OnStack
<1>4. base >= 1
  BY <1>1, <1>3 DEF Rest, Actives
<1>5. Self.baseC \in 0 .. HardC /\ HardC \in Nat
  BY <1>1, LimitsAssumption DEF ThreadType
<1> HIDE DEF Pcalls
<1> QED BY <1>2, <1>4, <1>5

\* The last frame of a coroutine's entry returns to resume_continue.
LEMMA ReturnResume ==
  ASSUME CoroutineInv, native # <<>>, signal = "none", NEW n, n = Len(native),
         native[n].k = "resume",
         NEW y, y = Continued([Self EXCEPT !.ci = Front(@)]),
         IF y.ci = <<>> THEN HandBack(n, y, "none")
         ELSE th' = [th EXCEPT ![Running] = y] /\ UNCHANGED <<native, signal>>
  PROVE  CoroutineInv'
<1> DEFINE x == [Self EXCEPT !.ci = Front(@)]
<1>1. /\ n \in Nat \ {0} /\ Self \in LooseType /\ Segment(native, Base, n)
      /\ Self.active = TRUE /\ Self.status = "ok" /\ Self.nC \in 0 .. HardC
      /\ \A i \in 1 .. n : native[i] \in RecordType /\ Good(native, i)
      /\ native \in Seq(RecordType) /\ Running = native[n].t
  BY RunningFacts
<1>2. Front(Self.ci) \in Seq(FrameType)
  BY <1>1, FrontFits
<1>3. /\ x \in LooseType /\ x.active = TRUE /\ x.status = "ok" /\ x.nC = Self.nC
      /\ x.baseC = Self.baseC
  BY <1>1, <1>2, FramesAssigned
<1>4. y = Continued(x)
  OBVIOUS
<1> HIDE DEF x
<1>5. Continued(x) \in LooseType /\ Alike(x, Continued(x))
  BY <1>3, ContinuedFits
<1>6. /\ y \in LooseType /\ y.active = TRUE /\ y.status = "ok" /\ y.nC = Self.nC
      /\ y.baseC = Self.baseC
  BY <1>3, <1>4, <1>5 DEF Alike
<1>7. /\ \A i \in 1 .. n : native[i].t = native[n].t <=> i >= Base
      /\ \A i \in 1 .. n : i > Base => native[i].k # "resume"
      /\ Base \in Nat /\ Base <= n
  BY <1>1, LastSegment
<1>8. Base = n
  BY <1>1, <1>7
<1>9. CASE y.ci = <<>>
  <2>1. HandBack(n, y, "none") /\ Segment(native, n, Len(native))
    BY <1>1, <1>8, <1>9
  <2>2. y.baseC \in 1 .. HardC
    BY <1>6, BaseBounds
  <2> QED BY <1>6, <2>1, <2>2, HandBackKeeps
<1>10. CASE y.ci # <<>>
  <2>1. \A i \in 1 .. n : native[i].t = Running => FrameAt(native, y, i)
    BY <1>1, <1>6, <1>7, <1>8, FrameBottom
  <2>2. y.nC \in Self.nC .. HardC
    BY <1>1, <1>6, LimitsAssumption
  <2>3. th' = [th EXCEPT ![Running] = y] /\ UNCHANGED native /\ signal' = "none"
    BY <1>10
  <2> QED BY <1>6, <2>1, <2>2, <2>3, StayStep
<1> QED BY <1>9, <1>10

\* A function returns.
LEMMA ReturnKeeps ==
  ASSUME CoroutineInv, Return PROVE CoroutineInv'
<1> DEFINE n == Len(native)
           x == [Self EXCEPT !.ci = Front(@)]
           one == [x EXCEPT !.nC = @ - 1]
<1>1. native # <<>> /\ signal = "none"
  BY DEF Return, Calm
<1>2. n \in Nat /\ n - 0 = n
  BY <1>1, RunningFacts
<1>3. CASE /\ Top(Self.ci).f = "lua"
           /\ Set(Running, x) /\ UNCHANGED <<native, signal>>
  BY <1>1, <1>3, ReturnLua DEF Set
<1>4. CASE /\ native[n].k = "call" /\ native[n - 1].k \in {"call", "resume"}
           /\ Set(Running, one) /\ native' = Front(native) /\ UNCHANGED signal
  BY <1>1, <1>4, ReturnCall DEF Set
<1>5. CASE /\ native[n].k = "call" /\ native[n - 1].k = "pcall"
           /\ Set(Running, [one EXCEPT !.ci = Front(@), !.baseC = @ - 1])
           /\ native' = SubSeq(native, 1, n - 2) /\ UNCHANGED signal
  BY <1>1, <1>5, ReturnPcall DEF Set
<1>6. CASE /\ native[n].k = "call" /\ native[n - 1].k = "errh"
           /\ Set(Running, PcallFailed(x, native[n - 2]))
           /\ native' = SubSeq(native, 1, n - 3) /\ UNCHANGED signal
  BY <1>1, <1>6, ReturnErrh DEF Set
<1>7. CASE /\ native[n].k = "call" /\ native[n - 1].k = "cont"
           /\ Set(Running, Continued([one EXCEPT !.ci =
                                     SubSeq(@, 1, native[n - 1].at - 1)]))
           /\ native' = SubSeq(native, 1, n - 2) /\ UNCHANGED signal
  BY <1>1, <1>7, ReturnCont DEF Set
<1>8. CASE /\ native[n].k = "resume"
           /\ IF Continued(x).ci = <<>> THEN HandBack(n, Continued(x), "none")
              ELSE Set(Running, Continued(x)) /\ UNCHANGED <<native, signal>>
  BY <1>1, <1>8, ReturnResume DEF Set
<1> QED BY <1>2, <1>3, <1>4, <1>5, <1>6, <1>7, <1>8 DEF Return

-----------------------------------------------------------------------------
(* Yield. *)

\* The frames of yield are pushed.
LEMMA PushSeqFits ==
  ASSUME NEW x \in LooseType, NEW w \in Seq(FrameType)
  PROVE  LET y == Push(x, w)
         IN  /\ y \in LooseType /\ y.ci = x.ci \o w /\ y.active = x.active /\ y.status = x.status
             /\ y.nC = x.nC /\ y.baseC = x.baseC /\ y.fresh = x.fresh
<1>1. x.ci \o w \in Seq(FrameType)
  BY LooseFields
<1> QED BY <1>1, FramesAssigned DEF Push

\* lua_yield where it is allowed: every native call of the coroutine returns.
LEMMA YieldAllowed ==
  ASSUME CoroutineInv, native # <<>>, NEW x \in LooseType, x.baseC = Self.baseC,
         HandBack(Base, Suspended(x), "none")
  PROVE  CoroutineInv'
<1> DEFINE n == Len(native)
           base == Base0(native, th, Running)
           y == Suspended(x)
<1>1. /\ n \in Nat \ {0} /\ native \in Seq(RecordType) /\ Segment(native, Base, n)
      /\ \A i \in 1 .. n : Good(native, i) /\ Running = native[n].t /\ Base \in 1 .. n
  BY RunningFacts
<1>2. \A i \in 1 .. n : native[i].t = Running <=> i >= Base
  BY <1>1, LastSegment
<1>3. native[Base].k = "resume"
  BY <1>1 DEF Segment
<1>4. OpenPcalls = Pcalls(native, n, Running)
  <2>1. DOMAIN native = 1 .. n
    BY <1>1
  <2>2. ASSUME NEW i \in 1 .. n
        PROVE  i > Base /\ native[i].k = "pcall" <=> native[i].t \in {Running} /\ native[i].k \in {"pcall"}
    BY <2>2, <1>1, <1>2, <1>3
  <2>3. {i \in DOMAIN native : i > Base /\ native[i].k = "pcall"}
          = {i \in 1 .. n : native[i].t \in {Running} /\ native[i].k \in {"pcall"}}
    BY <2>1, <2>2
  <2> QED BY <2>3 DEF OpenPcalls, Pcalls, Number
<1>5. base \in 1 .. HardC /\ base \in Int
  BY BaseBounds, LimitsAssumption
<1>6. x.baseC - OpenPcalls = base
  <2>1. Self.baseC = base + Pcalls(native, n, Running) /\ Pcalls(native, n, Running) \in Nat
    BY RunningCounts
  <2> HIDE DEF base, Pcalls
  <2> QED BY <2>1, <1>4, <1>5
<1>7. y \in LooseType /\ y.baseC = base
  <2> HIDE DEF base
  <2>1. y = [x EXCEPT !.status = "yield", !.baseC = base]
    BY <1>6 DEF Suspended, LooseType
  <2> HIDE DEF y
  <2> QED BY <2>1, <1>5 DEF LooseType
<1> HIDE DEF base
<1>8. HandBack(Base, y, "none")
  OBVIOUS
<1> HIDE DEF y
<1>9. y.baseC \in 1 .. HardC
  BY <1>5, <1>7
<1> QED BY <1>1, <1>7, <1>8, <1>9, HandBackKeeps

\* A coroutine yields, or may not.
LEMMA YieldKeeps ==
  ASSUME CoroutineInv, Yield PROVE CoroutineInv'
<1>1. native # <<>> /\ signal = "none"
  BY DEF Yield, Calm
<1>2. PICK kind \in {<<>>, <<Flagged("pcall")>>} :
        LET x == Push(Self, kind \o <<Frame("yield")>>)
        IN  IF Yieldable(Self) THEN HandBack(Base, Suspended(x), "none")
            ELSE Set(Running, x) /\ signal' = "run" /\ UNCHANGED native
  BY DEF Yield
<1> DEFINE w == kind \o <<Frame("yield")>>
           x == Push(Self, w)
<1>3. /\ Len(native) \in Nat /\ Self \in LooseType /\ Running \in Threads
      /\ Self.active = TRUE /\ Self.status = "ok" /\ Self.nC \in 0 .. HardC
  BY <1>1, RunningFacts
<1>4. w \in Seq(FrameType)
  <2>1. Frame("yield") \in FrameType /\ Flagged("pcall") \in FrameType
    BY FrameFits DEF FrameKinds
  <2>2. <<Frame("yield")>> \in Seq(FrameType) /\ <<Flagged("pcall")>> \in Seq(FrameType)
    BY <2>1
  <2>3. kind \in Seq(FrameType)
    <3>1. CASE kind = <<>>
      BY <3>1
    <3>2. CASE kind = <<Flagged("pcall")>>
      BY <3>2, <2>2, Zenon
    <3> QED BY <3>1, <3>2
  <2> QED BY <2>2, <2>3
<1>5. /\ x \in LooseType /\ x.ci = Self.ci \o w /\ x.active = TRUE /\ x.status = "ok"
      /\ x.nC = Self.nC /\ x.baseC = Self.baseC
  <2> HIDE DEF w
  <2> QED BY <1>3, <1>4, PushSeqFits
<1>6. CASE Yieldable(Self)
  <2>1. HandBack(Base, Suspended(x), "none")
    BY <1>2, <1>6
  <2> HIDE DEF x
  <2> QED BY <1>1, <1>5, <2>1, YieldAllowed
<1>7. CASE ~Yieldable(Self)
  <2>1. th' = [th EXCEPT ![Running] = x] /\ signal' = "run" /\ UNCHANGED native
    BY <1>2, <1>7 DEF Set
  <2> HIDE DEF w, x
  <2>2. \A i \in 1 .. Len(native) : native[i].t = Running => FrameAt(native, x, i)
    BY <1>1, <1>4, <1>5, GrowAll
  <2>3. x.nC \in Self.nC .. HardC
    BY <1>3, <1>5, LimitsAssumption
  <2> QED BY <1>1, <1>5, <2>1, <2>2, <2>3, StayStep
<1> QED BY <1>6, <1>7

-----------------------------------------------------------------------------
(* Errors. *)

\* Where an error is caught.
LEMMA CatcherFacts ==
  ASSUME CoroutineInv, native # <<>>, NEW n, n = Len(native), NEW c, c = Catcher,
         NEW base, base = Base0(native, th, Running)
  PROVE  /\ n \in Nat \ {0} /\ c \in Base .. n /\ c \in 1 .. n /\ c \in Nat /\ Segment(native, Base, n)
         /\ native[c].k # "call" /\ native[c].t = Running /\ native[c] \in RecordType
         /\ native[c].k = "resume" <=> c = Base
         /\ \A i \in 1 .. n : native[i].t = Running <=> i >= Base
         /\ \A j \in c + 1 .. n : native[j].k = "call"
         /\ Good(native, c) /\ FrameAt(native, Self, c) /\ SavedAt(native, base, c)
         /\ base \in Int /\ Here(native, base, c) \in Int /\ Self.nC >= Here(native, base, c)
         /\ Pcalls(native, n, Running) = Pcalls(native, c, Running)
         /\ Pcalls(native, c, Running) \in Nat
<1>1. /\ n \in Nat \ {0} /\ native \in Seq(RecordType) /\ Segment(native, Base, n)
      /\ Base \in 1 .. n /\ Self.nC \in 0 .. HardC /\ Running = native[n].t
      /\ \A i \in 1 .. n : native[i] \in RecordType /\ Good(native, i)
      /\ \A i \in 1 .. n : native[i].t = Running => FrameAt(native, Self, i)
  BY RunningFacts
<1>2. /\ c \in Base .. n /\ native[c].k # "call" /\ \A j \in c + 1 .. n : native[j].k = "call"
  BY <1>1, CatcherSegment
<1>3. /\ c \in 1 .. n /\ c \in Nat /\ c <= n
  BY <1>1, <1>2
<1>4. /\ \A i \in 1 .. n : native[i].t = Running <=> i >= Base
      /\ \A i \in 1 .. n : i > Base => native[i].k # "resume"
      /\ native[Base].k = "resume"
  BY <1>1, LastSegment
<1>5. native[c].t = Running /\ (native[c].k = "resume" <=> c = Base)
  BY <1>1, <1>2, <1>3, <1>4
<1>6. /\ base \in Int /\ (\A i \in Nat : Here(native, base, i) \in Int)
      /\ Self.nC >= Here(native, base, n)
      /\ \A i \in 1 .. n : native[i].t = Running => SavedAt(native, base, i)
  BY RunningCounts
<1>7. Pcalls(native, n, Running) = Pcalls(native, c, Running)
  <2>1. \A i \in c + 1 .. n : ~(native[i].t \in {Running} /\ native[i].k \in {"pcall"})
    BY <1>2
  <2> QED BY <1>1, <1>3, <2>1, NumberFlat DEF Pcalls
<1>8. Self.nC >= Here(native, base, c)
  <2>1. Calls(native, c, Running) <= Calls(native, n, Running)
    BY <1>1, <1>3, NumberGrows DEF Calls
  <2>2. Calls(native, c, Running) \in Nat /\ Calls(native, n, Running) \in Nat
    BY <1>1, <1>3, NumberType DEF Calls
  <2>3. Here(native, base, c) = base + Calls(native, c, Running)
        /\ Here(native, base, n) = base + Calls(native, n, Running)
    BY <1>1, <1>5 DEF Here
  <2> HIDE DEF Calls, Here
  <2>4. Here(native, base, n) \in Int /\ Here(native, base, c) \in Int /\ Self.nC \in Int
    BY <1>1, <1>3, <1>6, LimitsAssumption
  <2> QED BY <2>1, <2>2, <2>3, <2>4, <1>6, SMTT(30)
<1>9. Pcalls(native, c, Running) \in Nat
  BY <1>3, NumberType DEF Pcalls
<1> HIDE DEF Pcalls
<1> QED BY <1>1, <1>2, <1>3, <1>4, <1>5, <1>6, <1>7, <1>8, <1>9

\* A handler runs on the frames that the error left.
LEMMA HandlerFits ==
  ASSUME NEW x \in LooseType
  PROVE  LET z == Push(Counted(x), <<Frame("handler")>>)
         IN  /\ z \in LooseType /\ z.ci = x.ci \o <<Frame("handler")>>
             /\ <<Frame("handler")>> \in Seq(FrameType)
             /\ Len(z.ci) = Len(x.ci) + 1 /\ Len(x.ci) \in Nat /\ Top(z.ci).f \in Entries
             /\ z.active = x.active /\ z.status = x.status /\ z.nC = x.nC + 1
             /\ z.baseC = x.baseC
<1> DEFINE y == Counted(x)
           z == Push(y, <<Frame("handler")>>)
<1>1. Frame("handler") \in FrameType /\ Frame("handler").f = "handler"
  BY FrameFits DEF FrameKinds
<1>2. /\ y \in LooseType /\ y.ci = x.ci /\ y.nC = x.nC + 1
      /\ y.active = x.active /\ y.status = x.status /\ y.baseC = x.baseC
  BY CountedFits
<1> HIDE DEF y
<1>3. /\ z \in LooseType /\ z.ci = y.ci \o <<Frame("handler")>> /\ Len(z.ci) = Len(y.ci) + 1
      /\ Top(z.ci) = Frame("handler") /\ Len(y.ci) \in Nat /\ <<Frame("handler")>> \in Seq(FrameType)
      /\ z.active = y.active /\ z.status = y.status /\ z.nC = y.nC /\ z.baseC = y.baseC
  BY <1>1, <1>2, PushFits
<1> HIDE DEF z
<1>4. Top(z.ci).f \in Entries
  BY <1>1, <1>3 DEF Entries
<1>5. /\ z \in LooseType /\ z.ci = x.ci \o <<Frame("handler")>>
      /\ <<Frame("handler")>> \in Seq(FrameType)
      /\ Len(z.ci) = Len(x.ci) + 1 /\ Len(x.ci) \in Nat
      /\ z.active = x.active /\ z.status = x.status /\ z.nC = x.nC + 1
      /\ z.baseC = x.baseC
  BY <1>2, <1>3
<1> QED BY <1>4, <1>5 DEF y, z

\* luaD_pcall catches and has no error function to call.
LEMMA InPcallFails ==
  ASSUME CoroutineInv, native # <<>>, native[Catcher].k = "pcall", InPcall(Catcher),
         ~(native[Catcher].errf = "xpcall" /\ LimitError(Counted(Self)) = "none")
  PROVE  Failing(Catcher, PcallFailed(Self, native[Catcher]))
<1> DEFINE n == Len(native)
           c == Catcher
           p == native[c]
           x == PcallFailed(Self, p)
<1>1. /\ n \in Nat \ {0} /\ c \in 1 .. n /\ c \in Nat
      /\ p.t = Running /\ p \in RecordType
      /\ \A j \in c + 1 .. n : native[j].k = "call"
      /\ Good(native, c) /\ FrameAt(native, Self, c)
  BY CatcherFacts
<1>2. /\ Self \in LooseType /\ Self.active = TRUE /\ Self.status = "ok" /\ Len(Self.ci) \in Nat
  BY RunningFacts, LooseFields
<1>3. p.active /\ 0 < p.at /\ Pos(p) = p.at /\ p.at \in Nat /\ p.at <= Len(Self.ci)
  BY <1>1, RecordFields DEF Good, Pos, FrameAt
<1>4. signal' = "none" /\ th' = [th EXCEPT ![Running] = x] /\ native' = SubSeq(native, 1, c - 1)
  BY DEF InPcall, Set
<1>5. /\ x \in LooseType /\ x.ci = SubSeq(Self.ci, 1, p.at - 1) /\ x.active = TRUE
      /\ x.status = "ok" /\ x.nC = p.nC /\ x.baseC = Self.baseC - 1
  BY <1>1, <1>2, <1>3, PcallFailedFits
<1> HIDE DEF x, c
<1>6. Failing(c, x)
  BY <1>1, <1>4, <1>5 DEF Failing, c
<1> QED BY <1>6 DEF x, c

\* luaD_pcall catches: its error function is called, or it fails.
LEMMA InPcallKeeps ==
  ASSUME CoroutineInv, native # <<>>, native[Catcher].k = "pcall", InPcall(Catcher)
  PROVE  CoroutineInv'
<1> DEFINE n == Len(native)
           c == Catcher
           base == Base0(native, th, Running)
           p == native[c]
           y == Counted(Self)
           z == Push(y, <<Frame("handler")>>)
           r == ErrhRec(Running, Self)
<1>1. /\ n \in Nat \ {0} /\ c \in Base .. n /\ c \in 1 .. n /\ c \in Nat /\ Segment(native, Base, n)
      /\ p.t = Running /\ p \in RecordType
      /\ \A j \in c + 1 .. n : native[j].k = "call"
      /\ Good(native, c) /\ FrameAt(native, Self, c)
      /\ Here(native, base, c) \in Int /\ Self.nC >= Here(native, base, c)
      /\ Pcalls(native, n, Running) = Pcalls(native, c, Running)
      /\ Pcalls(native, c, Running) \in Nat
  BY CatcherFacts
<1>2. /\ Self \in LooseType /\ Self.active = TRUE /\ Self.status = "ok" /\ Running \in Threads
      /\ Len(Self.ci) \in Nat /\ Self.nC \in Int /\ Self.baseC \in Int
  BY RunningFacts, LooseFields
<1>3. p.active /\ 0 < p.at /\ Pos(p) = p.at /\ p.at \in Nat /\ p.at <= Len(Self.ci)
  BY <1>1, RecordFields DEF Good, Pos, FrameAt
<1>4. signal' = "none"
  BY DEF InPcall
<1>5. CASE p.errf = "xpcall" /\ LimitError(y) = "none"
  <2>1. /\ th' = [th EXCEPT ![Running] = z]
        /\ native' = SubSeq(native, 1, c) \o <<r, CallRec(Running, z)>>
    BY <1>5 DEF InPcall, Set
  <2>2. /\ z \in LooseType /\ z.ci = Self.ci \o <<Frame("handler")>>
        /\ <<Frame("handler")>> \in Seq(FrameType)
        /\ Len(z.ci) = Len(Self.ci) + 1 /\ Top(z.ci).f \in Entries
        /\ z.active = TRUE /\ z.status = "ok" /\ z.nC = Self.nC + 1 /\ z.baseC = Self.baseC
    BY <1>2, HandlerFits
  <2>3. z.nC < HardC
    <3>1. y.nC = Self.nC + 1 /\ y.nC \in Int
      BY <1>2, CountedFits, LooseFields
    <3> HIDE DEF y, z
    <3> QED BY <3>1, <2>2, <1>5, LimitNone
  <2>4. r \in RecordType /\ r.k = "errh" /\ r.t = Running /\ Pos(r) = Len(Self.ci)
    BY <1>2 DEF RecordType, ErrhRec, Pos
  <2> HIDE DEF r, z, y
  <2>5. Pushable(native[c], r)
    BY <1>1, <1>3, <2>4 DEF Pushable
  <2>6. \A i \in 1 .. c : native[i].t = Running => FrameAt(native, z, i)
    <3>1. \A i \in 1 .. Len(native) : native[i].t = Running => FrameAt(native, z, i)
      BY <2>2, GrowAll
    <3> QED BY <3>1, <1>1
  <2>7. z.baseC = Self.baseC - Pcalls(native, n, Running) + Pcalls(native, c, Running)
                  + (IF r.k = "pcall" THEN 1 ELSE 0)
    <3> HIDE DEF Pcalls
    <3> QED BY <1>1, <1>2, <2>2, <2>4
  <2>8. z.nC >= Here(native, base, c) + 1 /\ Pos(r) < Len(z.ci)
    <3> HIDE DEF Here
    <3> QED BY <1>1, <1>2, <2>2, <2>4
  <2>9. Handing(Base, c, r, z)
    BY <1>1, <2>2, <2>3, <2>4, <2>5, <2>6, <2>7, <2>8 DEF Handing
  <2> HIDE DEF c
  <2> QED BY <2>1, <2>9, <1>4, HandingStep
<1>6. CASE ~(p.errf = "xpcall" /\ LimitError(y) = "none")
  BY <1>6, InPcallFails, PcallFails
<1> QED BY <1>5, <1>6

\* The error function of a pcall fails, and with it the pcall.
LEMMA InErrhFails ==
  ASSUME CoroutineInv, native # <<>>, native[Catcher].k = "errh", InErrh(Catcher)
  PROVE  Failing(Catcher - 1, PcallFailed(Self, native[Catcher - 1]))
<1> DEFINE n == Len(native)
           c == Catcher
           p == native[c - 1]
           x == PcallFailed(Self, p)
<1>1. /\ n \in Nat \ {0} /\ c \in Base .. n /\ c \in 1 .. n /\ c \in Nat
      /\ (native[c].k = "resume" <=> c = Base)
      /\ \A i \in 1 .. n : native[i].t = Running <=> i >= Base
      /\ \A j \in c + 1 .. n : native[j].k = "call"
      /\ Good(native, c)
  BY CatcherFacts
<1>2. /\ Self \in LooseType /\ Self.active = TRUE /\ Self.status = "ok" /\ Running \in Threads
      /\ Len(Self.ci) \in Nat /\ Base \in 1 .. n
      /\ \A i \in 1 .. n : native[i] \in RecordType /\ Good(native, i)
      /\ \A i \in 1 .. n : native[i].t = Running => FrameAt(native, Self, i)
  BY RunningFacts, LooseFields
<1>3. c - 1 \in 1 .. n /\ p.t = Running
  <2>1. c - 1 \in 1 .. n /\ c - 1 >= Base
    BY <1>1, <1>2
  <2> QED BY <2>1, <1>1
<1>4. p.k = "pcall"
  BY <1>1 DEF Good
<1>5. p \in RecordType /\ Good(native, c - 1) /\ FrameAt(native, Self, c - 1)
  BY <1>2, <1>3
<1>6. p.active /\ 0 < p.at /\ Pos(p) = p.at /\ p.at <= Len(Self.ci)
  BY <1>4, <1>5 DEF Good, Pos, FrameAt
<1>7. /\ th' = [th EXCEPT ![Running] = x] /\ native' = SubSeq(native, 1, (c - 1) - 1)
      /\ signal' = "none"
  <2>1. (c - 1) - 1 = c - 2
    BY <1>1
  <2> QED BY <2>1 DEF InErrh, Set
<1> HIDE DEF p
<1>8. /\ x \in LooseType /\ x.ci = SubSeq(Self.ci, 1, p.at - 1) /\ x.active = TRUE
      /\ x.status = "ok" /\ x.nC = p.nC /\ x.baseC = Self.baseC - 1
  BY <1>2, <1>4, <1>5, <1>6, PcallFailedFits DEF p
<1>9. \A i \in (c - 1) + 1 .. n : native[i].k # "pcall"
  BY <1>1
<1> HIDE DEF x, c
<1>10. Failing(c - 1, x)
  BY <1>3, <1>4, <1>7, <1>8, <1>9 DEF Failing, p
<1> QED BY <1>10 DEF x, c, p

\* Such a step keeps the invariant.
LEMMA InErrhKeeps ==
  ASSUME CoroutineInv, native # <<>>, native[Catcher].k = "errh", InErrh(Catcher)
  PROVE  CoroutineInv'
BY InErrhFails, PcallFails

\* luaB_xpcallcont's error function fails, and xpcall has failed.
LEMMA InContKeeps ==
  ASSUME CoroutineInv, native # <<>>, native[Catcher].k = "cont", InCont(Catcher)
  PROVE  CoroutineInv'
<1> DEFINE n == Len(native)
           c == Catcher
           base == Base0(native, th, Running)
           p == native[c]
           w == SubSeq(Self.ci, 1, p.at - 1)
           x == ContFailed(Self, p)
           y == Continued(x)
<1>1. /\ n \in Nat \ {0} /\ c \in Base .. n /\ c \in 1 .. n /\ c \in Nat /\ Segment(native, Base, n)
      /\ p.t = Running /\ p \in RecordType
      /\ (p.k = "resume" <=> c = Base)
      /\ \A i \in 1 .. n : native[i].t = Running <=> i >= Base
      /\ Good(native, c) /\ FrameAt(native, Self, c) /\ SavedAt(native, base, c)
      /\ base \in Int /\ Here(native, base, c) \in Int
      /\ Pcalls(native, n, Running) = Pcalls(native, c, Running)
  BY CatcherFacts
<1>2. /\ Self \in LooseType /\ Self.active = TRUE /\ Self.status = "ok" /\ Running \in Threads
      /\ Len(Self.ci) \in Nat /\ Self.ci \in Seq(FrameType) /\ Self.baseC \in Int /\ Base \in 1 .. n
      /\ native \in Seq(RecordType) /\ \A i \in 1 .. n : Good(native, i)
  BY RunningFacts, LooseFields
<1>3. /\ p.active /\ 0 < p.at /\ p.at <= p.ci /\ Pos(p) = p.ci /\ p.ci <= Len(Self.ci)
      /\ native[c - 1].k = "resume" /\ c - 1 \in 1 .. n
  BY <1>1 DEF Good, Pos, FrameAt
<1>4. p.at \in Nat /\ p.ci \in Nat /\ p.nC \in Int /\ p.active = TRUE
  BY <1>1, <1>3, RecordFields
<1>5. w \in Seq(FrameType)
  BY <1>2, <1>3, <1>4, SMTT(30)
<1>6. Base = c - 1
  <2>1. \A i \in 1 .. n : i > Base => native[i].k # "resume"
    BY <1>1, <1>2, LastSegment
  <2>2. Base \in Nat /\ Base <= c - 1
    BY <1>1, <1>2
  <2> QED BY <2>1, <2>2, <1>1, <1>3
<1>7. x = [Self EXCEPT !.nC = p.nC, !.ci = w, !.active = TRUE]
  BY <1>4 DEF ContFailed
<1>8. th' = [th EXCEPT ![Running] = y] /\ native' = SubSeq(native, 1, c - 1) /\ signal' = "none"
  BY DEF InCont, Set
<1> HIDE DEF x, w, p
<1>9. /\ x \in LooseType /\ x.active = TRUE /\ x.status = "ok" /\ x.nC = p.nC
      /\ x.baseC = Self.baseC
  BY <1>2, <1>4, <1>5, <1>7 DEF LooseType
<1>10. /\ y \in LooseType /\ y.active = TRUE /\ y.status = "ok" /\ y.nC = p.nC
       /\ y.baseC = Self.baseC
  BY <1>9, ContinuedFits DEF Alike
<1> HIDE DEF y
<1>11. \A i \in 1 .. c - 1 : native[i].t = Running => FrameAt(native, y, i)
  <2> SUFFICES ASSUME NEW i \in 1 .. c - 1, native[i].t = Running PROVE FrameAt(native, y, i)
    OBVIOUS
  <2>1. i \in 1 .. n /\ i \in Nat /\ i <= c - 1
    BY <1>1
  <2>2. i >= c - 1
    BY <1>1, <1>6, <2>1
  <2>3. i = c - 1
    BY <2>1, <2>2, <1>1
  <2> QED BY <2>3, <1>3, <1>10, FrameBottom
<1>12. /\ Pcalls(native, c, Running) = Pcalls(native, c - 1, Running)
       /\ Calls(native, c, Running) = Calls(native, c - 1, Running)
       /\ NoHandler(native, c) <=> NoHandler(native, c - 1)
       /\ Pcalls(native, c - 1, Running) \in Nat
  <2>0. c \in Nat \ {0}
    BY <1>1
  <2>1. /\ Calls(native, c, Running) = Calls(native, c - 1, Running)
              + (IF native[c].t = Running /\ native[c].k = "call" THEN 1 ELSE 0)
        /\ Pcalls(native, c, Running) = Pcalls(native, c - 1, Running)
              + (IF native[c].t = Running /\ native[c].k = "pcall" THEN 1 ELSE 0)
        /\ NoHandler(native, c) <=> NoHandler(native, c - 1) /\ native[c].k # "errh"
        /\ Calls(native, c - 1, Running) \in Nat /\ Pcalls(native, c - 1, Running) \in Nat
    BY <2>0, TopCounts
  <2> HIDE DEF Calls, Pcalls, NoHandler, c
  <2>2. native[c].k = "cont"
    BY DEF c
  <2> QED BY <2>1, <2>2
<1>13. Here(native, base, c) = Here(native, base, c - 1)
  <2>1. native[c - 1].t = Running /\ native[c].t = Running
    BY <1>1, <1>3, <1>6 DEF p
  <2> QED BY <2>1, <1>12 DEF Here
<1>14. y.baseC = Self.baseC - Pcalls(native, n, Running) + Pcalls(native, c - 1, Running)
  <2> HIDE DEF Pcalls
  <2> QED BY <1>1, <1>2, <1>10, <1>12
<1>15. c - 1 \in Base .. n
  BY <1>1, <1>6
<1> HIDE DEF base
<1>16. /\ y.nC >= Here(native, base, c - 1) /\ y.nC < HardC
       /\ NoHandler(native, c - 1) => y.nC = Here(native, base, c - 1)
  BY <1>1, <1>10, <1>12, <1>13 DEF SavedAt, p
<1>17. /\ y.nC >= Here(native, base, c - 1) + (IF native[c - 1].k = "pcall" THEN 1 ELSE 0)
       /\ y.nC <= HardC
  BY <1>1, <1>3, <1>4, <1>10, <1>13, <1>16, LimitsAssumption, SMTT(30)
<1> HIDE DEF c
<1>18. native[c - 1].k \in {"call", "resume"} /\ y.active
  BY <1>3, <1>10
<1> QED BY <1>1, <1>8, <1>10, <1>11, <1>14, <1>15, <1>16, <1>17, <1>18, PopStep DEF base

\* The flagged frame on top is found.
LEMMA HandlerExists ==
  ASSUME NEW x \in LooseType, Handlers(x) # {},
         NEW i, i = CHOOSE k \in Handlers(x) : \A j \in Handlers(x) : j <= k
  PROVE  i \in 1 .. Len(x.ci) /\ i \in Handlers(x) /\ \A k \in Handlers(x) : k <= i
<1> DEFINE n == Len(x.ci)
           Gap == {n - k : k \in Handlers(x)}
<1>1. n \in Nat /\ DOMAIN x.ci = 1 .. n
  BY LooseFields
<1>2. Handlers(x) \subseteq 1 .. n
  BY <1>1 DEF Handlers
<1>3. Gap # {} /\ Gap \subseteq Nat
  BY <1>1, <1>2
<1>4. PICK g \in Gap : \A h \in Gap : g <= h
  BY <1>3, Least
<1>5. PICK k \in Handlers(x) : g = n - k
  BY <1>4
<1>6. \A j \in Handlers(x) : j <= k
  <2>1. \A j \in Handlers(x) : n - k <= n - j
    BY <1>4, <1>5
  <2> QED BY <2>1, <1>1, <1>2
<1> HIDE DEF Gap
<1>7. i \in Handlers(x) /\ \A j \in Handlers(x) : j <= i
  BY <1>6
<1> QED BY <1>2, <1>7

\* The thread as resume_handle takes it over.
LEMMA HandlingFits ==
  ASSUME NEW x \in LooseType, NEW i \in 1 .. Len(x.ci)
  PROVE  LET y == Handling(x, i)
         IN  /\ y \in LooseType /\ Len(y.ci) = Len(x.ci) /\ y.active = x.active /\ y.status = "ok"
             /\ y.nC = x.baseC /\ y.baseC = x.baseC
<1> DEFINE w == [x.ci EXCEPT ![i] = [x.ci[i] EXCEPT !.handle = FALSE]]
<1>1. x.ci \in Seq(FrameType) /\ Len(x.ci) \in Nat /\ x.baseC \in Int
  BY LooseFields
<1>2. [x.ci[i] EXCEPT !.handle = FALSE] \in FrameType
  <2>1. x.ci[i] \in FrameType
    BY <1>1
  <2> QED BY <2>1 DEF FrameType
<1>3. w \in Seq(FrameType) /\ Len(w) = Len(x.ci)
  <2> DEFINE fr == [x.ci[i] EXCEPT !.handle = FALSE]
  <2>1. w = [x.ci EXCEPT ![i] = fr] /\ fr \in FrameType
    BY <1>2
  <2> HIDE DEF fr, w
  <2> QED BY <1>1, <2>1
<1>4. Handling(x, i) = [x EXCEPT !.nC = x.baseC, !.status = "ok", !.ci = w]
  BY DEF Handling, LooseType
<1> HIDE DEF w
<1> QED BY <1>1, <1>3, <1>4 DEF LooseType

\* Where lua_resume started, nothing is counted but the resume itself.
LEMMA ResumeCounts ==
  ASSUME CoroutineInv, native # <<>>, NEW c, c = Catcher, native[c].k = "resume",
         NEW base, base = Base0(native, th, Running)
  PROVE  /\ Here(native, base, c) = base /\ Self.baseC = base
         /\ Pcalls(native, Len(native), Running) = 0 /\ Pcalls(native, c, Running) = 0
         /\ base \in 1 .. HardC - 1
         /\ c = Base
<1> DEFINE n == Len(native)
<1>1. /\ c \in 1 .. n /\ c \in Nat /\ c = Base /\ native[c].t = Running
      /\ \A i \in 1 .. n : native[i].t = Running <=> i >= Base
      /\ SavedAt(native, base, c) /\ n \in Nat
      /\ Pcalls(native, n, Running) = Pcalls(native, c, Running)
  BY CatcherFacts
<1>2. \A i \in 1 .. c : i < c => native[i].t # Running
  BY <1>1
<1>3. Calls(native, c, Running) = 0 /\ Pcalls(native, c, Running) = 0
  <2>1. \A i \in 1 .. c : ~(native[i].t \in {Running} /\ native[i].k \in {"call"})
    BY <1>1, <1>2
  <2>2. \A i \in 1 .. c : ~(native[i].t \in {Running} /\ native[i].k \in {"pcall"})
    BY <1>1, <1>2
  <2> QED BY <1>1, <2>1, <2>2, NumberZero DEF Calls, Pcalls
<1>4. base \in 1 .. HardC /\ base \in Int /\ HardC \in Int
  BY BaseBounds, LimitsAssumption
<1>5. Self.baseC = base + Pcalls(native, n, Running)
  BY RunningCounts
<1>6. Here(native, base, c) = base
  BY <1>1, <1>3, <1>4 DEF Here
<1>7. Here(native, base, c) < HardC
  BY <1>1 DEF SavedAt
<1> HIDE DEF Pcalls
<1> QED BY <1>1, <1>3, <1>4, <1>5, <1>6, <1>7

\* lua_resume catches: the frame that resume_findhandler finds goes on, or the
\* coroutine dies.
LEMMA InResumeKeeps ==
  ASSUME CoroutineInv, native # <<>>, native[Catcher].k = "resume", InResume(Catcher)
  PROVE  CoroutineInv'
<1> DEFINE n == Len(native)
           c == Catcher
           base == Base0(native, th, Running)
           i == CHOOSE k \in Handlers(Self) : \A j \in Handlers(Self) : j <= k
           x == Handling(Self, i)
           y == Counted(x)
           z == Push(y, <<Frame("handler")>>)
           r == ContRec(Running, x, i)
<1>1. /\ n \in Nat \ {0} /\ c \in Base .. n /\ c \in 1 .. n /\ c \in Nat /\ Segment(native, Base, n)
      /\ native[c].t = Running /\ SavedAt(native, base, c)
      /\ \A j \in 1 .. n : native[j].t = Running <=> j >= Base
  BY CatcherFacts
<1>2. /\ Self \in LooseType /\ Self.active = TRUE /\ Self.status = "ok" /\ Running \in Threads
      /\ Len(Self.ci) \in Nat /\ Self.ci \in Seq(FrameType) /\ Self.baseC \in Int
      /\ signal \in {"none", "run", "err"}
  BY RunningFacts, LooseFields DEF CoroutineInv, TypeOK
<1>3. /\ Here(native, base, c) = base /\ Self.baseC = base
      /\ Pcalls(native, n, Running) = 0 /\ Pcalls(native, c, Running) = 0
      /\ base \in 1 .. HardC - 1 /\ c = Base
  BY ResumeCounts
<1>4. HardC \in Nat /\ base \in Int /\ base < HardC /\ base \in 0 .. HardC /\ base \in 1 .. HardC
  BY <1>3, LimitsAssumption
<1>5. CASE Handlers(Self) = {}
  <2>1. HandBack(c, Self, signal)
    BY <1>5 DEF InResume
  <2>2. Segment(native, c, Len(native)) /\ Self.baseC \in 1 .. HardC
    BY <1>1, <1>3, <1>4
  <2> HIDE DEF c
  <2> QED BY <1>2, <2>1, <2>2, HandBackKeeps
<1>6. CASE Handlers(Self) # {}
  <2>1. i \in 1 .. Len(Self.ci)
    BY <1>2, <1>6, HandlerExists
  <2>2. /\ signal' = "none"
        /\ IF x.ci[i].f = "xpcall" /\ LimitError(y) = "none"
           THEN /\ th' = [th EXCEPT ![Running] = z]
                /\ native' = SubSeq(native, 1, c) \o <<r, CallRec(Running, z)>>
           ELSE /\ th' = [th EXCEPT ![Running] = Continued([x EXCEPT !.ci = SubSeq(@, 1, i - 1)])]
                /\ native' = SubSeq(native, 1, c)
    BY <1>6 DEF InResume, Set
  <2> HIDE DEF i
  <2>3. /\ x \in LooseType /\ Len(x.ci) = Len(Self.ci) /\ x.active = TRUE /\ x.status = "ok"
        /\ x.nC = base /\ x.baseC = base
    BY <1>2, <1>3, <2>1, HandlingFits
  <2>4. x.ci \in Seq(FrameType) /\ Len(x.ci) \in Nat /\ i \in 1 .. Len(x.ci) /\ i \in Nat
    BY <2>1, <2>3, LooseFields
  <2> HIDE DEF x
  <2>5. \A j \in 1 .. c : native[j].t = Running => native[j].k = "resume"
    <3> SUFFICES ASSUME NEW j \in 1 .. c, native[j].t = Running PROVE native[j].k = "resume"
      OBVIOUS
    <3>1. j \in 1 .. n /\ j \in Nat /\ j <= c
      BY <1>1
    <3>2. j >= c
      BY <1>1, <1>3, <3>1
    <3>3. j = c
      BY <1>1, <3>1, <3>2
    <3> QED BY <3>3
  <2>6. CASE x.ci[i].f = "xpcall" /\ LimitError(y) = "none"
    <3>1. /\ th' = [th EXCEPT ![Running] = z]
          /\ native' = SubSeq(native, 1, c) \o <<r, CallRec(Running, z)>>
      BY <2>2, <2>6
    <3>2. /\ z \in LooseType /\ Len(z.ci) = Len(x.ci) + 1 /\ Top(z.ci).f \in Entries
          /\ z.active = TRUE /\ z.status = "ok" /\ z.nC = base + 1 /\ z.baseC = base
      BY <2>3, HandlerFits
    <3>3. z.nC < HardC
      <4>1. y.nC = base + 1 /\ y.nC \in Int
        BY <2>3, CountedFits, LooseFields
      <4> HIDE DEF y, z
      <4> QED BY <4>1, <3>2, <2>6, LimitNone
    <3>4. /\ r \in RecordType /\ r.k = "cont" /\ r.t = Running /\ Pos(r) = Len(x.ci)
          /\ r.at = i /\ r.ci = Len(x.ci) /\ r.active = TRUE /\ r.nC = base
      <4>1. Top(x.ci).f \in FrameKinds
        <5>1. Len(x.ci) \in 1 .. Len(x.ci)
          BY <2>4
        <5>2. Top(x.ci) \in FrameType
          BY <5>1, <2>4 DEF Top
        <5> QED BY <5>2 DEF FrameType
      <4> QED BY <4>1, <1>2, <1>4, <2>3, <2>4 DEF RecordType, ContRec, PcallRec, Pos
    <3> HIDE DEF r, z, y
    <3>5. Pushable(native[c], r)
      <4>1. Pos(native[c]) = 0
        BY DEF Pos
      <4> HIDE DEF c
      <4>2. native[c].k = "resume" /\ native[c].t = Running
        BY <1>1 DEF c
      <4> QED BY <4>1, <4>2, <2>4, <3>4 DEF Pushable
    <3>6. \A j \in 1 .. c : native[j].t = Running => FrameAt(native, z, j)
      BY <2>5, <3>2, FrameBottom
    <3>7. z.baseC = Self.baseC - Pcalls(native, n, Running) + Pcalls(native, c, Running)
                    + (IF r.k = "pcall" THEN 1 ELSE 0)
      <4> HIDE DEF Pcalls, base
      <4> QED BY <1>3, <1>4, <3>2, <3>4
    <3>8. /\ z.nC >= Here(native, base, c) + 1 /\ z.nC = Here(native, base, c) + 1
          /\ Pos(r) < Len(z.ci) /\ r.nC >= Here(native, base, c) /\ r.nC = Here(native, base, c)
          /\ r.nC < HardC
      <4> HIDE DEF Here, base
      <4> QED BY <1>3, <1>4, <2>4, <3>2, <3>4
    <3>9. Handing(Base, c, r, z)
      <4> HIDE DEF c
      <4> QED BY <1>1, <3>2, <3>3, <3>4, <3>5, <3>6, <3>7, <3>8 DEF Handing
    <3>10. signal' = "none"
      BY <2>2
    <3> HIDE DEF c
    <3> QED BY <3>1, <3>9, <3>10, HandingStep
  <2>7. CASE ~(x.ci[i].f = "xpcall" /\ LimitError(y) = "none")
    <3> DEFINE w == SubSeq(x.ci, 1, i - 1)
               q == [x EXCEPT !.ci = w]
               v == Continued(q)
    <3>1. th' = [th EXCEPT ![Running] = v] /\ native' = SubSeq(native, 1, c) /\ signal' = "none"
      BY <2>2, <2>7
    <3>2. w \in Seq(FrameType)
      BY <2>4
    <3> HIDE DEF w
    <3>3. /\ q \in LooseType /\ q.active = TRUE /\ q.status = "ok" /\ q.nC = base /\ q.baseC = base
      BY <2>3, <3>2, FramesAssigned
    <3> HIDE DEF q
    <3>4. /\ v \in LooseType /\ v.active = TRUE /\ v.status = "ok" /\ v.nC = base /\ v.baseC = base
      BY <3>3, ContinuedFits DEF Alike
    <3> HIDE DEF v
    <3>5. \A j \in 1 .. c : native[j].t = Running => FrameAt(native, v, j)
      BY <2>5, <3>4, FrameBottom
    <3>6. v.baseC = Self.baseC - Pcalls(native, n, Running) + Pcalls(native, c, Running)
      <4> HIDE DEF Pcalls, base
      <4> QED BY <1>3, <1>4, <3>4
    <3>7. /\ v.nC >= Here(native, base, c) + (IF native[c].k = "pcall" THEN 1 ELSE 0)
          /\ v.nC <= HardC /\ v.nC < HardC /\ v.nC = Here(native, base, c)
      <4> HIDE DEF Here, base
      <4> QED BY <1>3, <1>4, <3>4
    <3>8. native[c].k \in {"call", "resume"} /\ v.active
      BY <3>4
    <3> HIDE DEF c, base
    <3> QED BY <1>1, <3>1, <3>4, <3>5, <3>6, <3>7, <3>8, PopStep DEF base
  <2> QED BY <2>6, <2>7
<1> QED BY <1>5, <1>6

\* An error is caught.
LEMMA UnwindKeeps ==
  ASSUME CoroutineInv, Unwind PROVE CoroutineInv'
<1>1. native # <<>>
  BY DEF Unwind
<1>2. native[Catcher].k # "call" /\ native[Catcher] \in RecordType
  BY <1>1, CatcherFacts
<1>3. native[Catcher].k \in {"resume", "call", "pcall", "cont", "errh"}
  BY <1>2, RecordFields
<1>4. CASE native[Catcher].k = "pcall"
  BY <1>1, <1>4, InPcallKeeps DEF Unwind
<1>5. CASE native[Catcher].k = "errh"
  BY <1>1, <1>5, InErrhKeeps DEF Unwind
<1>6. CASE native[Catcher].k = "cont"
  BY <1>1, <1>6, InContKeeps DEF Unwind
<1>7. CASE native[Catcher].k = "resume"
  BY <1>1, <1>7, InResumeKeeps DEF Unwind
<1> QED BY <1>2, <1>3, <1>4, <1>5, <1>6, <1>7

-----------------------------------------------------------------------------
(* Threads are made, resumed and closed. *)

\* A loose thread with its counters in bounds is a thread.
LEMMA LooseIsThread ==
  ASSUME NEW x \in LooseType, x.nC \in 0 .. HardC, x.baseC \in 0 .. HardC
  PROVE  x \in ThreadType
BY DEF LooseType, ThreadType

\* lua_resume sets the counters, the status and the frames.
LEMMA StartedFits ==
  ASSUME NEW x \in LooseType, NEW count \in Int
  PROVE  LET y == Started(x, count)
         IN  /\ y \in LooseType /\ y.active = TRUE /\ y.status = "ok"
             /\ y.nC = count /\ y.baseC = count
<1> DEFINE q == [x EXCEPT !.nC = count, !.baseC = count, !.active = TRUE,
                          !.status = "ok", !.fresh = FALSE]
           v == [q EXCEPT !.ci = Front(@)]
<1>1. /\ q \in LooseType /\ q.active = TRUE /\ q.status = "ok" /\ q.nC = count /\ q.baseC = count
  BY DEF LooseType
<1>2. Started(x, count) = IF x.status = "ok" THEN Push(q, <<Frame("body")>>) ELSE Continued(v)
  BY DEF Started
<1> HIDE DEF q
<1>3. CASE x.status = "ok"
  <2>1. Frame("body") \in FrameType
    BY FrameFits DEF FrameKinds
  <2>2. <<Frame("body")>> \in Seq(FrameType)
    BY <2>1
  <2> DEFINE y == Push(q, <<Frame("body")>>)
  <2>3. /\ y \in LooseType /\ y.active = TRUE /\ y.status = "ok" /\ y.nC = count /\ y.baseC = count
    BY <1>1, <2>2, PushSeqFits
  <2> HIDE DEF y
  <2>4. Started(x, count) = y
    BY <1>2, <1>3 DEF y
  <2> QED BY <2>3, <2>4
<1>4. CASE x.status # "ok"
  <2>1. Front(q.ci) \in Seq(FrameType)
    BY <1>1, FrontFits
  <2>2. /\ v \in LooseType /\ v.active = TRUE /\ v.status = "ok" /\ v.nC = count /\ v.baseC = count
    BY <1>1, <2>1, FramesAssigned
  <2> HIDE DEF v
  <2>3. Continued(v) \in LooseType /\ Alike(v, Continued(v))
    BY <2>2, ContinuedFits
  <2>4. Started(x, count) = Continued(v)
    BY <1>2, <1>4
  <2> QED BY <2>2, <2>3, <2>4 DEF Alike
<1> QED BY <1>3, <1>4

\* Threads change their frames above their records, others change off the stack.
Changing(T2) ==
  /\ T2 \in [Threads -> ThreadType]
  /\ \A u \in Threads : IF OnStack(native, u) THEN Alike(th[u], T2[u]) ELSE ~T2[u].active
  /\ \A i \in 1 .. Len(native) : FrameAt(native, T2[native[i].t], i)
  /\ \A i \in 1 .. Len(native) :
       i < Len(native) /\ IsLast(native, i) => Pos(native[i]) < Len(T2[native[i].t].ci)

\* Such a step keeps the invariant.
LEMMA ThreadsStep ==
  ASSUME CoroutineInv, Changing(th'), UNCHANGED native, signal' \in {"none", "run", "err"},
         signal' = signal \/ signal = "none"
  PROVE  CoroutineInv'
<1>1. /\ th \in [Threads -> LooseType] /\ th' \in [Threads -> LooseType]
      /\ native \in Seq(RecordType) /\ Rest(native, th) /\ Now(native, th, signal)
      /\ th' \in [Threads -> ThreadType]
  BY ThreadIsLoose DEF CoroutineInv, StackInv, TypeOK, Changing
<1>2. Rest(native, th') /\ Now(native, th', signal)
  BY <1>1, FramesChange DEF Changing
<1>3. Now(native, th', signal')
  BY <1>2, NowWeaker
<1> QED BY <1>1, <1>2, <1>3 DEF CoroutineInv, StackInv, TypeOK

\* What the invariant says of every thread.
LEMMA ThreadFacts ==
  ASSUME CoroutineInv, NEW u \in Threads
  PROVE  /\ th[u] \in LooseType /\ th[u] \in ThreadType
         /\ th[u].active <=> OnStack(native, u)
         /\ th[u].nC \in 0 .. HardC /\ th[u].baseC \in 0 .. HardC
<1>1. th[u] \in ThreadType
  BY DEF CoroutineInv, TypeOK
<1>2. th[u] \in LooseType
  BY <1>1, ThreadIsLoose
<1>3. th[u].active <=> OnStack(native, u)
  BY DEF CoroutineInv, StackInv, Rest, Actives
<1> QED BY <1>1, <1>2, <1>3 DEF ThreadType

\* A thread that is suspended or dead has no native call.
LEMMA AwayFromStack ==
  ASSUME CoroutineInv, native # <<>>, NEW co \in Threads, CoStatus(co) \in {"suspended", "dead"}
  PROVE  co # Running /\ ~OnStack(native, co) /\ th[co].active = FALSE
<1>1. /\ native \in Seq(RecordType) /\ Len(native) \in Nat \ {0} /\ Running = native[Len(native)].t
      /\ \A i \in 1 .. Len(native) : Record(native, th, i) /\ Good(native, i)
      /\ \A i \in 1 .. Len(native) : native[i] \in RecordType
      /\ Rest(native, th)
  BY RunningFacts
<1>2. co # Running
  BY DEF CoStatus
<1>3. ASSUME OnStack(native, co) PROVE FALSE
  <2>1. PICK i \in 1 .. Len(native) : native[i].t = co /\ IsLast(native, i)
    BY <1>1, <1>3, LastExists
  <2>2. i < Len(native)
    BY <1>1, <1>2, <2>1
  <2>3. Waiting(native, th, i)
    BY <1>1, <2>1, <2>2 DEF Record
  <2>4. Pos(native[i]) \in Nat /\ Len(th[co].ci) \in Nat
    BY <1>1, ThreadFacts, RecordFields, LooseFields
  <2>5. Pos(native[i]) < Len(th[co].ci)
    BY <2>1, <2>3 DEF Waiting
  <2>6. th[co].ci # <<>>
    BY <2>4, <2>5
  <2>7. th[co].status = "ok"
    BY <1>1, <1>3 DEF Rest, Actives
  <2> QED BY <1>2, <2>6, <2>7 DEF CoStatus
<1>4. th[co].active \in BOOLEAN /\ (th[co].active <=> OnStack(native, co))
  BY ThreadFacts, LooseFields
<1> QED BY <1>2, <1>3, <1>4

\* The records stay right when the threads on the stack do not change.
LEMMA SameFrames ==
  ASSUME CoroutineInv, NEW co \in Threads, ~OnStack(native, co),
         NEW y \in ThreadType, ~y.active
  PROVE  Changing([th EXCEPT ![co] = y])
<1> DEFINE T2 == [th EXCEPT ![co] = y]
<1>1. /\ th \in [Threads -> ThreadType] /\ native \in Seq(RecordType)
      /\ \A i \in 1 .. Len(native) : Record(native, th, i)
  BY DEF CoroutineInv, TypeOK, StackInv, Rest
<1>2. T2 \in [Threads -> ThreadType] /\ T2[co] = y /\ \A u \in Threads \ {co} : T2[u] = th[u]
  BY <1>1
<1>3. ASSUME NEW i \in 1 .. Len(native) PROVE T2[native[i].t] = th[native[i].t]
  <2>1. native[i] \in RecordType
    BY <1>1
  <2>2. native[i].t \in Threads /\ native[i].t # co
    BY <2>1, RecordFields DEF OnStack
  <2> QED BY <1>2, <2>2
<1>4. \A u \in Threads : th[u].active <=> OnStack(native, u)
  BY ThreadFacts
<1> HIDE DEF T2
<1>5. ASSUME NEW u \in Threads
      PROVE  IF OnStack(native, u) THEN Alike(th[u], T2[u]) ELSE ~T2[u].active
  <2>1. CASE u = co
    BY <2>1, <1>2
  <2>2. CASE u # co
    BY <2>2, <1>2, <1>4 DEF Alike
  <2> QED BY <2>1, <2>2
<1>6. ASSUME NEW i \in 1 .. Len(native)
      PROVE  /\ FrameAt(native, T2[native[i].t], i)
             /\ i < Len(native) /\ IsLast(native, i) => Pos(native[i]) < Len(T2[native[i].t].ci)
  BY <1>1, <1>3 DEF Record, Waiting
<1> QED BY <1>2, <1>5, <1>6 DEF Changing, T2

\* A new thread.
LEMMA NewThread == NoThread \in ThreadType /\ ~NoThread.active
                   /\ [NoThread EXCEPT !.fresh = TRUE] \in ThreadType
                   /\ ~[NoThread EXCEPT !.fresh = TRUE].active
<1>1. HardC \in Nat
  BY LimitsAssumption
<1>2. <<>> \in Seq(FrameType)
  OBVIOUS
<1>3. 0 \in 0 .. HardC
  BY <1>1
<1>4. NoThread \in ThreadType
  BY <1>2, <1>3 DEF NoThread, ThreadType
<1>5. NoThread.active = FALSE
  BY DEF NoThread
<1>6. /\ [NoThread EXCEPT !.fresh = TRUE] \in ThreadType
      /\ [NoThread EXCEPT !.fresh = TRUE].active = NoThread.active
  BY <1>4 DEF ThreadType
<1>7. ~NoThread.active /\ ~[NoThread EXCEPT !.fresh = TRUE].active
  BY <1>5, <1>6
<1> QED BY <1>4, <1>6, <1>7

\* coroutine.create makes a thread.
LEMMA CreateKeeps ==
  ASSUME CoroutineInv, NEW co \in Threads, Create(co) PROVE CoroutineInv'
<1>1. /\ native # <<>> /\ CoStatus(co) \in {"suspended", "dead"} /\ signal = "none"
      /\ th' = [th EXCEPT ![co] = [NoThread EXCEPT !.fresh = TRUE]]
      /\ UNCHANGED <<native, signal>>
  BY DEF Create, Calm, Set
<1>2. ~OnStack(native, co)
  BY <1>1, AwayFromStack
<1>3. Changing(th')
  BY <1>1, <1>2, NewThread, SameFrames
<1> QED BY <1>1, <1>3, ThreadsStep

\* coroutine.close takes a thread's frames away, or refuses.
LEMMA CloseKeeps ==
  ASSUME CoroutineInv, NEW co \in Threads, Close(co) PROVE CoroutineInv'
<1>1. native # <<>> /\ signal = "none" /\ UNCHANGED native
  BY DEF Close, Calm
<1>2. CASE CoStatus(co) \in {"dead", "suspended"}
  <2>1. th' = [th EXCEPT ![co] = NoThread] /\ UNCHANGED signal
    BY <1>2 DEF Close, Set
  <2>2. ~OnStack(native, co)
    BY <1>1, <1>2, AwayFromStack
  <2>3. Changing(th')
    BY <2>1, <2>2, NewThread, SameFrames
  <2> QED BY <1>1, <2>1, <2>3, ThreadsStep
<1>3. CASE CoStatus(co) \notin {"dead", "suspended"}
  <2>1. UNCHANGED <<th, native>> /\ signal' = "run"
    BY <1>1, <1>3 DEF Close
  <2>2. Error
    BY <1>1, <2>1 DEF Error, Calm
  <2> QED BY <2>2, ErrorKeeps
<1> QED BY <1>2, <1>3

\* A script is loaded into a new thread.
LEMMA LoadKeeps ==
  ASSUME CoroutineInv, Load PROVE CoroutineInv'
<1>1. PICK t \in Threads : th' = [th EXCEPT ![t] = [NoThread EXCEPT !.fresh = TRUE]]
  BY DEF Load, Set
<1>2. native = <<>> /\ UNCHANGED <<native, signal>>
  BY DEF Load
<1>3. ~OnStack(native, t)
  BY <1>2 DEF OnStack
<1>4. Changing(th')
  BY <1>1, <1>3, NewThread, SameFrames
<1>5. signal' \in {"none", "run", "err"}
  BY <1>2 DEF CoroutineInv, TypeOK
<1> QED BY <1>2, <1>4, <1>5, ThreadsStep

\* A thread is put on the stack by another, or by the program itself.
Resuming(co, from) ==
  /\ co \in Threads /\ ~OnStack(native, co) /\ from \in Threads
  /\ from = IF native = <<>> THEN co ELSE native[Len(native)].t
  /\ Pushed(native, ResumeRec(co, from), native') /\ th' \in [Threads -> LooseType]
  /\ th'[co].active /\ th'[co].status = "ok" /\ th'[co].nC = th'[co].baseC
  /\ th'[co].baseC = (IF native = <<>> THEN 0 ELSE th[from].nC) + 1 /\ th'[co].baseC < HardC
  /\ \A u \in Threads \ {co} : Alike(th[u], th'[u])
  /\ \A i \in 1 .. Len(native) : FrameAt(native, th'[native[i].t], i)
  /\ \A i \in 1 .. Len(native) : IsLast(native, i) => Pos(native[i]) < Len(th'[native[i].t].ci)

\* Such a step keeps the invariant: the new segment starts with the count of the old.
LEMMA ResumeStep ==
  ASSUME CoroutineInv, Calm \/ native = <<>>, NEW co, NEW from, Resuming(co, from),
         UNCHANGED signal
  PROVE  CoroutineInv'
<1>1. /\ th \in [Threads -> LooseType] /\ native \in Seq(RecordType)
      /\ Rest(native, th) /\ th' \in [Threads -> LooseType] /\ signal \in {"none", "run", "err"}
  BY ThreadIsLoose DEF CoroutineInv, StackInv, TypeOK, Resuming
<1>a. Now(native, th, "none")
  <2>1. CASE native = <<>>
    BY <2>1 DEF Now
  <2>2. CASE signal = "none"
    BY <2>2 DEF CoroutineInv, StackInv
  <2> QED BY <2>1, <2>2 DEF Calm
<1>2. Rest(native', th') /\ Now(native', th', "none")
  BY <1>1, <1>a, ResumeRest DEF Resuming
<1>3. native' \in Seq(RecordType)
  BY DEF Resuming, Pushed
<1>4. ASSUME NEW u \in Threads PROVE th'[u] \in ThreadType
  <2>1. th'[u] \in LooseType
    BY <1>1
  <2>2. CASE u = co
    <3>1. th[from].nC \in 0 .. HardC /\ HardC \in Nat
      BY ThreadFacts, LimitsAssumption DEF Resuming
    <3>2. th'[u].baseC \in 0 .. HardC /\ th'[u].nC \in 0 .. HardC
      BY <2>2, <3>1 DEF Resuming
    <3> QED BY <2>1, <3>2, LooseIsThread
  <2>3. CASE u # co
    <3>1. Alike(th[u], th'[u])
      BY <2>3 DEF Resuming
    <3>2. th'[u].baseC \in 0 .. HardC /\ th'[u].nC \in 0 .. HardC
      BY <3>1, ThreadFacts DEF Alike
    <3> QED BY <2>1, <3>2, LooseIsThread
  <2> QED BY <2>2, <2>3
<1>5. th' \in [Threads -> ThreadType]
  BY <1>1, <1>4
<1>6. Now(native', th', signal')
  BY <1>2, NowWeaker
<1> QED BY <1>1, <1>2, <1>3, <1>5, <1>6 DEF CoroutineInv, StackInv, TypeOK

\* The program resumes a thread.
LEMMA HostResumeKeeps ==
  ASSUME CoroutineInv, HostResume PROVE CoroutineInv'
<1>1. PICK co \in Threads : /\ th' = [th EXCEPT ![co] = Started(th[co], 1)]
                            /\ native' = <<ResumeRec(co, co)>>
  BY DEF HostResume, Set
<1>2. native = <<>> /\ UNCHANGED signal
  BY DEF HostResume
<1>3. native \in Seq(RecordType) /\ th \in [Threads -> LooseType]
      /\ signal \in {"none", "run", "err"}
  BY ThreadIsLoose DEF CoroutineInv, TypeOK
<1> DEFINE y == Started(th[co], 1)
<1>4. y \in LooseType /\ y.active = TRUE /\ y.status = "ok" /\ y.nC = 1 /\ y.baseC = 1
  <2>1. th[co] \in LooseType /\ 1 \in Int
    BY <1>3
  <2> QED BY <2>1, StartedFits
<1>5. th' = [th EXCEPT ![co] = y]
  BY <1>1
<1> HIDE DEF y
<1>6. th' \in [Threads -> LooseType] /\ th'[co] = y /\ \A u \in Threads \ {co} : th'[u] = th[u]
  BY <1>3, <1>4, <1>5
<1>7. Pushed(native, ResumeRec(co, co), native')
  <2>1. ResumeRec(co, co) \in RecordType
    BY DEF ResumeRec, RecordType
  <2> QED BY <1>1, <1>2, <2>1 DEF Pushed, Agree
<1>8. th'[co].baseC = 0 + 1 /\ th'[co].baseC < HardC
  BY <1>4, <1>6, LimitsAssumption
<1>9. Resuming(co, co)
  BY <1>2, <1>4, <1>6, <1>7, <1>8 DEF Resuming, OnStack, Alike
<1> QED BY <1>2, <1>9, ResumeStep

\* A thread off the stack is set, and the one that runs gets frames.
Setting(co, y, v, w, T2) ==
  /\ co \in Threads /\ co # Running /\ ~OnStack(native, co) /\ y \in LooseType
  /\ v \in Seq(FrameType) /\ w \in LooseType /\ Alike(Self, w) /\ w.ci = Self.ci \o v
  /\ T2 = [[th EXCEPT ![co] = y] EXCEPT ![Running] = w]

\* The threads it leaves are right where they stand on the stack.
LEMMA SetFits ==
  ASSUME CoroutineInv, native # <<>>, NEW co, NEW y, NEW v, NEW w, NEW T2,
         Setting(co, y, v, w, T2)
  PROVE  /\ T2 \in [Threads -> LooseType] /\ T2[co] = y
         /\ \A u \in Threads \ {co} : Alike(th[u], T2[u])
         /\ \A i \in 1 .. Len(native) : FrameAt(native, T2[native[i].t], i)
         /\ \A i \in 1 .. Len(native) :
              (i < Len(native) \/ Len(v) > 0) /\ IsLast(native, i)
                => Pos(native[i]) < Len(T2[native[i].t].ci)
<1> USE DEF Setting
<1> DEFINE n == Len(native)
<1>1. /\ n \in Nat \ {0} /\ native \in Seq(RecordType) /\ Running = native[n].t
      /\ \A i \in 1 .. n : native[i] \in RecordType /\ Record(native, th, i) /\ Good(native, i)
      /\ th \in [Threads -> LooseType] /\ Running \in Threads /\ Self = th[Running]
  BY RunningFacts
<1>2. /\ T2 \in [Threads -> LooseType] /\ T2[co] = y /\ T2[Running] = w
      /\ \A u \in Threads : u # co /\ u # Running => T2[u] = th[u]
  BY <1>1, SMTT(30)
<1>3. ASSUME NEW u \in Threads \ {co} PROVE Alike(th[u], T2[u])
  <2>1. CASE u = Running
    BY <2>1, <1>1, <1>2
  <2>2. CASE u # Running
    BY <2>2, <1>2 DEF Alike
  <2> QED BY <2>1, <2>2
<1>4. \A i \in 1 .. n : native[i].t = Running => FrameAt(native, w, i)
  BY GrowAll, SMTT(30)
<1>5. ASSUME NEW i \in 1 .. n
      PROVE  native[i].t \in Threads /\ native[i].t # co
  BY <1>1, RecordFields DEF OnStack
<1>6. ASSUME NEW i \in 1 .. n PROVE FrameAt(native, T2[native[i].t], i)
  <2>1. CASE native[i].t = Running
    BY <2>1, <1>2, <1>4, SMTT(30)
  <2>2. CASE native[i].t # Running
    <3>1. T2[native[i].t] = th[native[i].t]
      BY <2>2, <1>2, <1>5, SMTT(30)
    <3> QED BY <3>1, <1>1 DEF Record
  <2> QED BY <2>1, <2>2
<1>7. ASSUME NEW i \in 1 .. n, i < n \/ Len(v) > 0, IsLast(native, i)
      PROVE  Pos(native[i]) < Len(T2[native[i].t].ci)
  <2>1. CASE i < n
    <3>1. native[i].t # Running
      <4>1. n \in 1 .. Len(native) /\ i \in 1 .. Len(native) /\ i < n
        BY <2>1, <1>1
      <4>2. native[i].t # native[n].t
        BY <4>1, <1>1, <1>7, LastOfThread
      <4> QED BY <4>2, <1>1
    <3>2. T2[native[i].t] = th[native[i].t]
      BY <3>1, <1>2, <1>5
    <3>3. Waiting(native, th, i)
      BY <2>1, <1>1, <1>7 DEF Record
    <3> QED BY <3>2, <3>3, SMTT(30) DEF Waiting
  <2>2. CASE i = n
    <3>1. Len(v) > 0 /\ native[i].t = Running /\ T2[native[i].t] = w
      BY <2>2, <1>1, <1>2, <1>7
    <3>2. Pos(native[n]) <= Len(Self.ci) /\ Pos(native[n]) \in Nat /\ Len(Self.ci) \in Nat
      BY RunningPos
    <3>3. Self.ci \in Seq(FrameType)
      BY <1>1, LooseFields
    <3>4. Len(w.ci) = Len(Self.ci) + Len(v) /\ Len(v) \in Nat
      BY <3>3
    <3> QED BY <2>2, <3>1, <3>2, <3>4, SMTT(30)
  <2> QED BY <2>1, <2>2, <1>1
<1> QED BY <1>2, <1>3, <1>6, <1>7

\* resume and wrap push their frame.
LEMMA HowFits ==
  ASSUME NEW how \in {"resume", "wrap"}, NEW x \in LooseType
  PROVE  LET w == Push(x, <<Frame(how)>>)
         IN  /\ w \in LooseType /\ w.ci = x.ci \o <<Frame(how)>> /\ Alike(x, w)
             /\ <<Frame(how)>> \in Seq(FrameType) /\ Len(<<Frame(how)>>) = 1
<1>1. Frame(how) \in FrameType
  BY FrameFits DEF FrameKinds
<1>2. <<Frame(how)>> \in Seq(FrameType) /\ Len(<<Frame(how)>>) = 1
  BY <1>1
<1> QED BY <1>2, PushSeqFits DEF Alike

\* resume is refused: it returns false, or the function of wrap raises an error.
LEMMA RefusedKeeps ==
  ASSUME CoroutineInv, native # <<>>, signal = "none",
         NEW co \in Threads, NEW how \in {"resume", "wrap"}, NEW y \in ThreadType,
         \/ y = th[co]
         \/ co # Running /\ ~OnStack(native, co) /\ ~y.active,
         Refused(co, how, y)
  PROVE  CoroutineInv'
<1> DEFINE T1 == [th EXCEPT ![co] = y]
           w == IF how = "wrap" THEN Push(Self, <<Frame(how)>>) ELSE Self
           v == IF how = "wrap" THEN <<Frame(how)>> ELSE <<>>
<1>1. /\ Len(native) \in Nat \ {0} /\ Running \in Threads /\ Self = th[Running]
      /\ th \in [Threads -> LooseType] /\ th \in [Threads -> ThreadType]
      /\ Self \in LooseType /\ Self.active = TRUE /\ Self.status = "ok"
      /\ Self.nC \in 0 .. HardC
  BY RunningFacts
<1>2. /\ UNCHANGED native /\ signal' \in {"none", "run", "err"}
  BY DEF Refused
<1>3. T1[Running] = Self
  <2>1. y = th[co] \/ co # Running
    OBVIOUS
  <2> QED BY <2>1, <1>1
<1>4. th' = [T1 EXCEPT ![Running] = w]
  <2>1. th' = [T1 EXCEPT ![Running] = IF how = "wrap" THEN Push(T1[Running], <<Frame(how)>>)
                                      ELSE T1[Running]]
    BY DEF Refused
  <2> HIDE DEF T1
  <2> QED BY <2>1, <1>3
<1>5. w \in LooseType /\ w.ci = Self.ci \o v /\ Alike(Self, w) /\ v \in Seq(FrameType)
  <2>1. CASE how = "wrap"
    BY <2>1, <1>1, HowFits
  <2>2. CASE how # "wrap"
    <3>1. Self.ci \in Seq(FrameType)
      BY <1>1, LooseFields
    <3>2. Self.ci = Self.ci \o <<>> /\ <<>> \in Seq(FrameType)
      BY <3>1
    <3>3. w = Self /\ v = <<>>
      BY <2>2
    <3> HIDE DEF w, v
    <3> QED BY <3>2, <3>3, <1>1 DEF Alike
  <2> QED BY <2>1, <2>2
<1> HIDE DEF w, v
<1>6. CASE y = th[co]
  <2>1. T1 = th
    BY <1>6, <1>1
  <2>2. th' = [th EXCEPT ![Running] = w]
    BY <1>4, <2>1
  <2>3. \A i \in 1 .. Len(native) : native[i].t = Running => FrameAt(native, w, i)
    BY <1>5, GrowAll
  <2>4. w.nC \in Self.nC .. HardC /\ w.nC = Self.nC
    BY <1>1, <1>5, LimitsAssumption DEF Alike
  <2>5. w.active = TRUE /\ w.status = "ok" /\ w.baseC = Self.baseC
    BY <1>1, <1>5 DEF Alike
  <2> QED BY <1>2, <1>5, <2>2, <2>3, <2>4, <2>5, StayStep
<1>7. CASE co # Running /\ ~OnStack(native, co) /\ ~y.active
  <2>1. y \in LooseType
    BY ThreadIsLoose
  <2>2. Setting(co, y, v, w, th')
    BY <1>4, <1>5, <1>7, <2>1 DEF Setting
  <2>3. /\ th' \in [Threads -> LooseType] /\ th'[co] = y
        /\ \A u \in Threads \ {co} : Alike(th[u], th'[u])
        /\ \A i \in 1 .. Len(native) : FrameAt(native, th'[native[i].t], i)
        /\ \A i \in 1 .. Len(native) :
              i < Len(native) /\ IsLast(native, i) => Pos(native[i]) < Len(th'[native[i].t].ci)
    BY <2>2, SetFits
  <2>4. ASSUME NEW u \in Threads PROVE th'[u] \in ThreadType
    <3>1. CASE u = co
      BY <3>1, <2>3
    <3>2. CASE u # co
      <4>1. Alike(th[u], th'[u]) /\ th'[u] \in LooseType
        BY <3>2, <2>3
      <4>2. th'[u].baseC \in 0 .. HardC /\ th'[u].nC \in 0 .. HardC
        BY <4>1, ThreadFacts DEF Alike
      <4> QED BY <4>1, <4>2, LooseIsThread
    <3> QED BY <3>1, <3>2
  <2>5. ASSUME NEW u \in Threads
        PROVE  IF OnStack(native, u) THEN Alike(th[u], th'[u]) ELSE ~th'[u].active
    <3>1. CASE u = co
      BY <3>1, <2>3, <1>7
    <3>2. CASE u # co
      <4>1. Alike(th[u], th'[u])
        BY <3>2, <2>3
      <4>2. th[u].active <=> OnStack(native, u)
        BY ThreadFacts
      <4> QED BY <4>1, <4>2 DEF Alike
    <3> QED BY <3>1, <3>2
  <2>6. Changing(th')
    BY <2>3, <2>4, <2>5 DEF Changing
  <2> QED BY <1>2, <2>6, ThreadsStep
<1> QED BY <1>6, <1>7

\* coroutine.resume, or a function made by coroutine.wrap.
LEMMA ResumeKeeps ==
  ASSUME CoroutineInv, NEW co \in Threads, NEW how \in {"resume", "wrap"}, Resume(co, how)
  PROVE  CoroutineInv'
<1> DEFINE x == th[co]
<1>1. native # <<>> /\ signal = "none" /\ Calm
  BY DEF Resume, Calm
<1>2. /\ x \in LooseType /\ x \in ThreadType /\ Self \in LooseType /\ Self.nC \in 0 .. HardC
      /\ Self.nC \in Int /\ Running \in Threads /\ HardC \in Nat
      /\ Running = native[Len(native)].t /\ Self = th[Running]
  BY <1>1, ThreadFacts, RunningFacts, LooseFields, LimitsAssumption
<1>3. CASE CoStatus(co) # "suspended"
  <2>1. Refused(co, how, x)
    BY <1>3 DEF Resume
  <2> QED BY <1>1, <1>2, <2>1, RefusedKeeps
<1>4. ASSUME CoStatus(co) = "suspended"
      PROVE  co # Running /\ ~OnStack(native, co) /\ x.active = FALSE
  BY <1>1, <1>4, AwayFromStack
<1>5. CASE CoStatus(co) = "suspended" /\ Self.nC >= MaxC
  <2> DEFINE y == [x EXCEPT !.nC = Self.nC, !.fresh = FALSE]
  <2>1. Refused(co, how, y)
    BY <1>5 DEF Resume
  <2>2. y \in ThreadType /\ y.active = x.active
    BY <1>2 DEF ThreadType
  <2> HIDE DEF y
  <2> QED BY <1>1, <1>4, <1>5, <2>1, <2>2, RefusedKeeps
<1>6. CASE CoStatus(co) = "suspended" /\ ~(Self.nC >= MaxC)
  <2>0. /\ th' = [th EXCEPT ![co] = Started(x, Self.nC + 1),
                             ![Running] = Push(@, <<Frame(how)>>)]
        /\ native' = Append(native, ResumeRec(co, Running)) /\ UNCHANGED signal
    BY <1>6 DEF Resume
  <2> DEFINE y == Started(x, Self.nC + 1)
             w == Push(Self, <<Frame(how)>>)
             T1 == [th EXCEPT ![co] = y]
             v == <<Frame(how)>>
  <2>1. /\ th' = [T1 EXCEPT ![Running] = Push(th[Running], <<Frame(how)>>)]
        /\ native' = Append(native, ResumeRec(co, Running)) /\ UNCHANGED signal
    BY <2>0
  <2>2. /\ y \in LooseType /\ y.active = TRUE /\ y.status = "ok"
        /\ y.nC = Self.nC + 1 /\ y.baseC = Self.nC + 1
    <3>1. Self.nC + 1 \in Int
      BY <1>2
    <3> QED BY <3>1, <1>2, StartedFits
  <2>3. /\ w \in LooseType /\ w.ci = Self.ci \o v /\ Alike(Self, w)
        /\ v \in Seq(FrameType) /\ Len(v) = 1
    BY <1>2, HowFits
  <2> HIDE DEF y
  <2>5. th' = [T1 EXCEPT ![Running] = w]
    <3> HIDE DEF T1
    <3> QED BY <2>1, <1>2
  <2> HIDE DEF w, v
  <2>6. Setting(co, y, v, w, th')
    BY <1>4, <1>6, <2>2, <2>3, <2>5 DEF Setting
  <2>7. /\ th' \in [Threads -> LooseType] /\ th'[co] = y
        /\ \A u \in Threads \ {co} : Alike(th[u], th'[u])
        /\ \A i \in 1 .. Len(native) : FrameAt(native, th'[native[i].t], i)
        /\ \A i \in 1 .. Len(native) :
              (i < Len(native) \/ Len(v) > 0) /\ IsLast(native, i)
                => Pos(native[i]) < Len(th'[native[i].t].ci)
    BY <1>1, <2>6, SetFits
  <2>8. \A i \in 1 .. Len(native) : IsLast(native, i) => Pos(native[i]) < Len(th'[native[i].t].ci)
    BY <2>3, <2>7
  <2>9. Pushed(native, ResumeRec(co, Running), native')
    <3>1. native \in Seq(RecordType) /\ ResumeRec(co, Running) \in RecordType
      BY <1>1, <1>2, RunningFacts DEF ResumeRec, RecordType
    <3> QED BY <2>1, <3>1, AppendPushes
  <2>10. y.baseC < HardC
    BY <1>2, <1>6, <2>2, LimitsAssumption
  <2>11. Resuming(co, Running)
    BY <1>1, <1>2, <1>4, <1>6, <2>2, <2>7, <2>8, <2>9, <2>10 DEF Resuming
  <2> QED BY <1>1, <2>1, <2>11, ResumeStep
<1> QED BY <1>3, <1>5, <1>6

-----------------------------------------------------------------------------
(* The invariant and what it gives. *)

\* It holds at the start.
LEMMA CoroutineInit ==
  ASSUME Init PROVE CoroutineInv
<1>1. th = [t \in Threads |-> NoThread] /\ native = <<>> /\ signal = "none"
  BY DEF Init
<1>2. TypeOK
  BY <1>1, NewThread DEF TypeOK
<1>3. Actives(native, th)
  BY <1>1 DEF Actives, OnStack, NoThread
<1>4. Rest(native, th) /\ Now(native, th, signal)
  BY <1>1, <1>3 DEF Rest, Now
<1> QED BY <1>2, <1>4 DEF CoroutineInv, StackInv

\* Every step keeps it.
LEMMA CoroutineNext ==
  ASSUME CoroutineInv, [Next]_vars PROVE CoroutineInv'
<1>1. CASE Load
  BY <1>1, LoadKeeps
<1>2. CASE HostResume
  BY <1>2, HostResumeKeeps
<1>3. CASE CallLua
  BY <1>3, CallLuaKeeps
<1>4. CASE CallMeta
  BY <1>4, CallMetaKeeps
<1>5. CASE Pcall("pcall") \/ Pcall("xpcall")
  BY <1>5, PcallKeeps
<1>6. CASE Yield
  BY <1>6, YieldKeeps
<1>7. CASE Return
  BY <1>7, ReturnKeeps
<1>8. CASE Error
  BY <1>8, ErrorKeeps
<1>9. CASE Unwind
  BY <1>9, UnwindKeeps
<1>10. ASSUME NEW co \in Threads, Resume(co, "resume") \/ Resume(co, "wrap")
       PROVE  CoroutineInv'
  BY <1>10, ResumeKeeps
<1>11. ASSUME NEW co \in Threads, Create(co) PROVE CoroutineInv'
  BY <1>11, CreateKeeps
<1>12. ASSUME NEW co \in Threads, Close(co) PROVE CoroutineInv'
  BY <1>12, CloseKeeps
<1>13. CASE UNCHANGED vars
  <2>1. native' = native /\ th' = th /\ signal' = signal
    BY <1>13 DEF vars
  <2>2. TypeOK'
    BY <2>1 DEF CoroutineInv, TypeOK
  <2>3. Rest(native', th') /\ Now(native', th', signal')
    BY <2>1 DEF CoroutineInv, StackInv
  <2> QED BY <2>2, <2>3 DEF CoroutineInv, StackInv
<1> QED BY <1>1, <1>2, <1>3, <1>4, <1>5, <1>6, <1>7, <1>8, <1>9, <1>10, <1>11, <1>12, <1>13
        DEF Next

\* What every reachable native stack and its threads are: the segments of the
\* resumed threads, the frames that their records stand on, the counters that
\* ldo.cpp keeps and restores, and the count that each saved.
THEOREM CoroutineInvariant == Spec => []CoroutineInv
<1>1. Init => CoroutineInv
  BY CoroutineInit
<1>2. CoroutineInv /\ [Next]_vars => CoroutineInv'
  BY CoroutineNext
<1> QED BY <1>1, <1>2, PTL DEF Spec

\* The parts of the state have their types; what is not obvious is that nCcalls
\* and baseCcalls, which calls, yields and errors raise, lower and restore on
\* different paths, stay between 0 and the hard limit.
THEOREM CountersInBounds == Spec => []TypeOK
<1>1. CoroutineInv => TypeOK
  BY DEF CoroutineInv
<1> QED BY <1>1, CoroutineInvariant, PTL

\* The model's count of records is the one that the proofs use.
LEMMA CountIsNumber ==
  ASSUME CoroutineInv, NEW n \in 0 .. Len(native), NEW kinds
  PROVE  Count(n, kinds) = Number(native, n, Threads, kinds)
<1>1. native \in Seq(RecordType)
  BY DEF CoroutineInv, TypeOK
<1>2. \A i \in 1 .. n : native[i].t \in Threads
  <2> SUFFICES ASSUME NEW i \in 1 .. n PROVE native[i].t \in Threads
    OBVIOUS
  <2>1. native[i] \in RecordType
    BY <1>1
  <2> QED BY <2>1, RecordFields
<1>3. {i \in 1 .. n : native[i].k \in kinds}
        = {i \in 1 .. n : native[i].t \in Threads /\ native[i].k \in kinds}
  BY <1>2
<1> QED BY <1>3 DEF Count, Number

\* The C++ stack never gets as deep as the hard limit, whatever the threads
\* that are on it do: luaD_call and lua_resume check a counter that is never
\* lower than its depth.
THEOREM NativeStackIsBounded == Spec => []NativeStackBounded
<1>1. ASSUME CoroutineInv PROVE NativeStackBounded
  <2> DEFINE n == Len(native)
  <2>1. native \in Seq(RecordType) /\ n \in Nat /\ n \in 0 .. Len(native)
    BY <1>1 DEF CoroutineInv, TypeOK
  <2>2. Count(n, {"resume", "call"}) = Depth(native, n)
    BY <1>1, <2>1, CountIsNumber DEF Depth
  <2>3. CASE native = <<>>
    <3>1. Depth(native, n) = 0
      BY <2>3, <2>1, NumberZero DEF Depth
    <3> QED BY <2>2, <3>1, LimitsAssumption DEF NativeStackBounded
  <2>4. CASE native # <<>>
    <3> DEFINE base == Base0(native, th, Running)
    <3>1. n \in 1 .. n /\ native[n].t = Running
      BY <1>1, <2>4, RunningFacts
    <3>2. SavedAt(native, base, n) /\ Here(native, base, n) \in Int
      BY <1>1, <2>1, <2>4, <3>1, RunningCounts
    <3>3. Depth(native, n) \in Nat
      BY <2>1, NumberType DEF Depth
    <3>4. Here(native, base, n) >= Depth(native, n) /\ Here(native, base, n) < HardC
      BY <3>2 DEF SavedAt
    <3> HIDE DEF base
    <3>5. Depth(native, n) < HardC
      BY <3>2, <3>3, <3>4, LimitsAssumption
    <3> QED BY <2>2, <3>5 DEF NativeStackBounded
  <2> QED BY <2>3, <2>4
<1> QED BY <1>1, CoroutineInvariant, PTL

\* A thread is active, for the collector's barriers, just while it has a native
\* call: resume, yield, death, close and the failure of a pcall in any order
\* never leave a bit behind or clear one too early.
THEOREM ActiveThreadsAreOnStack == Spec => []ActiveIffOnStack
<1>1. ASSUME CoroutineInv PROVE ActiveIffOnStack
  <2>1. native \in Seq(RecordType)
    BY <1>1 DEF CoroutineInv, TypeOK
  <2>2. ASSUME NEW t \in Threads PROVE OnStack(native, t) <=> Native(t) # {}
    BY <2>1 DEF OnStack, Native
  <2>3. \A t \in Threads : th[t].active <=> OnStack(native, t)
    BY <1>1 DEF CoroutineInv, StackInv, Rest, Actives
  <2> QED BY <2>2, <2>3 DEF ActiveIffOnStack
<1> QED BY <1>1, CoroutineInvariant, PTL

\* nCcalls of every thread with a native call is the depth of the native stack
\* at its last one, and while an error is handled at least that: no error, limit
\* error, yield or death leaves a call counted that is gone, or one uncounted.
THEOREM CallsAreCounted == Spec => []CountsNativeCalls
<1>1. ASSUME CoroutineInv PROVE CountsNativeCalls
  <2> SUFFICES ASSUME NEW t \in Threads, Native(t) # {}
               PROVE  /\ th[t].nC >= Count(LastOf(t), {"resume", "call"})
                      /\ signal = "none" /\ Count(LastOf(t), {"errh"}) = 0 =>
                           th[t].nC = Count(LastOf(t), {"resume", "call"})
    BY DEF CountsNativeCalls
  <2> DEFINE base == Base0(native, th, t)
  <2>1. /\ native \in Seq(RecordType) /\ DOMAIN native = 1 .. Len(native) /\ Len(native) \in Nat
        /\ \A i \in 1 .. Len(native) : Record(native, th, i) /\ Good(native, i)
        /\ Now(native, th, signal)
    BY <1>1 DEF CoroutineInv, TypeOK, StackInv, Rest, Record
  <2>2. OnStack(native, t)
    BY <2>1 DEF OnStack, Native
  <2>3. PICK i \in 1 .. Len(native) : /\ native[i].t = t /\ IsLast(native, i)
                                      /\ \A j \in 1 .. Len(native) : native[j].t = t => j <= i
    BY <2>1, <2>2, LastExists
  <2>4. LastOf(t) = i
    <3>1. i \in Native(t) /\ \A j \in Native(t) : j <= i
      BY <2>1, <2>3 DEF Native
    <3>2. LastOf(t) \in Native(t) /\ \A j \in Native(t) : j <= LastOf(t)
      BY <3>1 DEF LastOf
    <3>3. LastOf(t) \in Nat /\ i \in Nat
      BY <3>2, <2>1 DEF Native
    <3> QED BY <3>1, <3>2, <3>3
  <2>5. i \in Nat /\ i \in 0 .. Len(native)
    BY <2>1
  <2>6. Count(i, {"resume", "call"}) = Depth(native, i) /\ Depth(native, i) \in Nat
    BY <1>1, <2>5, CountIsNumber, NumberType DEF Depth
  <2>7. Count(i, {"errh"}) = 0 => NoHandler(native, i)
    <3> DEFINE S == {j \in 1 .. i : native[j].k \in {"errh"}}
    <3>1. S \subseteq 1 .. i
      OBVIOUS
    <3>0. IsFiniteSet(1 .. i)
      BY <2>5, FS_Interval
    <3>2. IsFiniteSet(S)
      BY <3>0, <3>1, FS_Subset, Zenon
    <3>3. Cardinality(S) = 0 => S = {}
      BY <3>2, FS_EmptySet
    <3> QED BY <3>3 DEF Count, NoHandler
  <2>8. SavedAt(native, base, i)
    BY <2>1, <2>3 DEF Record
  <2>9. /\ Here(native, base, i) \in Int /\ th[t].nC \in Int
    <3>1. th \in [Threads -> LooseType]
      BY <1>1, ThreadIsLoose DEF CoroutineInv, TypeOK
    <3> QED BY <2>1, <2>5, <3>1, HereType, LooseFields
  <2>10. /\ Counts(native, base, th[t], i)
         /\ signal = "none" => Exact(native, base, th[t], i)
    <3>1. CASE i < Len(native)
      BY <2>1, <2>3, <3>1 DEF Record, Waiting
    <3>2. CASE i = Len(native)
      <4>1. native # <<>> /\ Top(native).t = t
        BY <2>1, <2>3, <3>2 DEF Top
      <4> QED BY <2>1, <3>2, <4>1 DEF Now
    <3>3. i < Len(native) \/ i = Len(native)
      <4>1. Len(native) \in Nat
        BY <2>1
      <4> HIDE DEF base
      <4> QED BY <4>1
    <3> HIDE DEF base
    <3> QED BY <3>1, <3>2, <3>3
  <2> HIDE DEF base
  <2>11. th[t].nC >= Here(native, base, i)
    BY <2>9, <2>10 DEF Counts
  <2>12. Here(native, base, i) >= Depth(native, i)
    BY <2>8 DEF SavedAt
  <2>13. signal = "none" /\ NoHandler(native, i) => th[t].nC = Depth(native, i)
    BY <2>8, <2>10 DEF SavedAt, Exact
  <2> QED BY <2>4, <2>6, <2>7, <2>9, <2>11, <2>12, <2>13
<1> QED BY <1>1, CoroutineInvariant, PTL
=============================================================================
