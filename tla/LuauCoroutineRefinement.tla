---------------------- MODULE LuauCoroutineRefinement ----------------------
(***************************************************************************)
(* LuauCoroutine implements Coroutines: after the steps that call and      *)
(* return (LuauCoroutineLinks), those that catch an error, yield, resume and *)
(* hand back. What the C++ calls, flags, continuations and counters do is  *)
(* what the abstract module promises.                                      *)
(***************************************************************************)
EXTENDS LuauCoroutineLinks

-----------------------------------------------------------------------------
(* Who catches an error. *)

\* Record c has a protected call, and up to frame m no handler runs above it.
Catching(s, b, n, x, c, m) ==
  /\ Standing(s, b, n, x) /\ Woven(s, b, n, x) /\ c \in b .. n /\ s[c].k \in {"pcall", "cont"}
  /\ m \in Nat /\ m <= Len(x.ci)
  /\ \A j \in c + 1 .. n : /\ s[j].k \in {"call", "errh"}
                           /\ s[j].k = "call" /\ s[j - 1].k \in {"errh", "cont"} => m < s[j].at

\* It is the innermost one up to that frame.
LEMMA CatchingFrames ==
  ASSUME NEW s, NEW b, NEW n, NEW x, NEW c, NEW m, Catching(s, b, n, x, c, m)
  PROVE  /\ s[c].at \in 1 .. Len(x.ci) /\ x.ci[s[c].at].f \in Guards
         /\ \A k \in s[c].at + 1 .. m : x.ci[k].f \notin Guards \cup {"handler"}
<1>1. /\ b \in Nat /\ 1 <= b /\ n \in Nat /\ b <= n /\ Len(x.ci) \in Nat
      /\ c \in b .. n /\ s[c].k \in {"pcall", "cont"} /\ m \in Nat /\ m <= Len(x.ci)
      /\ \A j \in c + 1 .. n : /\ s[j].k \in {"call", "errh"}
                               /\ s[j].k = "call" /\ s[j - 1].k \in {"errh", "cont"} => m < s[j].at
  BY StandingFacts DEF Catching
<1>2. \A j \in b .. n :
              /\ Pos(s[j]) \in Nat /\ Pos(s[j]) <= Len(x.ci) /\ (s[j].k = "resume" <=> j = b)
              /\ s[j].k \in {"call", "pcall"} =>
                   /\ s[j].at = Pos(s[j]) /\ s[j].at \in Nat /\ 0 < s[j].at
                   /\ \A i \in b .. j - 1 : Pos(s[i]) < s[j].at
              /\ s[j].k = "cont" => /\ j = b + 1 /\ s[j].at \in Nat /\ 0 < s[j].at
                                    /\ s[j].ci = Pos(s[j]) /\ s[j].at <= s[j].ci
  BY StandingFacts DEF Catching
<1>3. s[c].at \in Nat /\ 0 < s[c].at /\ s[c].at <= Len(x.ci)
  BY <1>1, <1>2
<1>4. x.ci[s[c].at].f \in Guards
  <2>1. Owner(s, x, c)
    BY <1>1 DEF Catching, Woven
  <2> QED BY <2>1, <1>1 DEF Owner, Guards
<1>5. ASSUME NEW j \in b .. n, s[j].k \in {"call", "pcall", "cont"}, j < c
      PROVE  s[j].at < s[c].at
  <2>1. s[c].k = "pcall"
    BY <1>1, <1>2, <1>5
  <2>2. Pos(s[j]) < s[c].at
    BY <2>1, <1>1, <1>2, <1>5
  <2>3. s[j].at <= Pos(s[j]) /\ s[j].at \in Nat /\ Pos(s[j]) \in Nat
    BY <1>2, <1>5
  <2> QED BY <2>2, <2>3, <1>3
<1>6. ASSUME NEW k \in s[c].at + 1 .. m, x.ci[k].f \in Guards PROVE FALSE
  <2>1. k \in 1 .. Len(x.ci) /\ s[c].at < k /\ k \in Nat
    BY <1>1, <1>3
  <2>2. Placed(s, b, n, x, k)
    BY <2>1 DEF Catching, Woven
  <2>3. ~(\A j \in b .. n : s[j].k \in {"call", "pcall", "cont"} => k < s[j].at)
    BY <2>1, <1>1, <1>3
  <2>4. PICK j \in b .. n : s[j].k \in {"pcall", "cont"} /\ s[j].at = k
    BY <2>2, <2>3, <1>6 DEF Placed
  <2>5. ~(j \in c + 1 .. n)
    BY <2>4, <1>1
  <2>6. j < c \/ j = c
    BY <2>5, <1>1
  <2>7. j # c
    BY <2>1, <2>4, <1>3
  <2> QED BY <2>1, <2>4, <2>6, <2>7, <1>3, <1>5
<1>7. ASSUME NEW k \in s[c].at + 1 .. m, x.ci[k].f = "handler" PROVE FALSE
  <2>1. k \in 1 .. Len(x.ci) /\ s[c].at < k /\ k \in Nat /\ k <= m
    BY <1>1, <1>3
  <2>2. Placed(s, b, n, x, k)
    BY <2>1 DEF Catching, Woven
  <2>3. PICK j \in b + 1 .. n : s[j].k = "call" /\ s[j].at = k /\ s[j - 1].k \in {"errh", "cont"}
    BY <2>2, <1>7 DEF Placed
  <2>4. j \in b .. n
    BY <1>1
  <2>5. ~(j \in c + 1 .. n)
    BY <2>1, <2>3, <1>1
  <2>6. j < c \/ j = c
    BY <2>4, <2>5, <1>1
  <2>7. j # c
    BY <2>3, <1>1
  <2> QED BY <2>1, <2>3, <2>4, <2>6, <2>7, <1>3, <1>5
<1> QED BY <1>3, <1>4, <1>6, <1>7

\* Record d has a handler that runs, and what it called.
Helped(s, b, n, x, d) ==
  /\ Standing(s, b, n, x) /\ Woven(s, b, n, x) /\ d \in b + 1 .. n
  /\ s[d].k = "call" /\ s[d - 1].k \in {"errh", "cont"}
  /\ \A j \in d + 1 .. n : s[j].k = "call"

\* That handler is the innermost of all.
LEMMA HelpedFrames ==
  ASSUME NEW s, NEW b, NEW n, NEW x, NEW d, Helped(s, b, n, x, d)
  PROVE  /\ s[d].at \in 1 .. Len(x.ci) /\ x.ci[s[d].at].f = "handler"
         /\ \A k \in s[d].at + 1 .. Len(x.ci) : x.ci[k].f \notin Guards \cup {"handler"}
<1>1. /\ b \in Nat /\ 1 <= b /\ n \in Nat /\ b <= n /\ Len(x.ci) \in Nat
      /\ d \in b .. n /\ d # b /\ s[d].k = "call" /\ s[d - 1].k \in {"errh", "cont"}
      /\ \A j \in d + 1 .. n : s[j].k = "call"
  BY StandingFacts DEF Helped
<1>2. \A j \in b .. n :
              /\ Pos(s[j]) \in Nat /\ Pos(s[j]) <= Len(x.ci) /\ (s[j].k = "resume" <=> j = b)
              /\ s[j].k \in {"call", "pcall"} =>
                   /\ s[j].at = Pos(s[j]) /\ s[j].at \in Nat /\ 0 < s[j].at
                   /\ \A i \in b .. j - 1 : Pos(s[i]) < s[j].at
              /\ s[j].k = "cont" => /\ j = b + 1 /\ s[j].at \in Nat /\ 0 < s[j].at
                                    /\ s[j].ci = Pos(s[j]) /\ s[j].at <= s[j].ci
  BY StandingFacts DEF Helped
<1>3. s[d].at \in Nat /\ 0 < s[d].at /\ s[d].at <= Len(x.ci)
  BY <1>1, <1>2
<1>4. x.ci[s[d].at].f = "handler"
  <2>1. Owner(s, x, d)
    BY <1>1 DEF Helped, Woven
  <2> QED BY <2>1, <1>1 DEF Owner
<1>5. ASSUME NEW j \in b .. n, s[j].k \in {"call", "pcall", "cont"}, j < d
      PROVE  s[j].at < s[d].at
  <2>1. Pos(s[j]) < s[d].at
    BY <1>1, <1>2, <1>5
  <2>2. s[j].at <= Pos(s[j]) /\ s[j].at \in Nat /\ Pos(s[j]) \in Nat
    BY <1>2, <1>5
  <2> QED BY <2>1, <2>2, <1>3
<1>6. ASSUME NEW k \in s[d].at + 1 .. Len(x.ci), x.ci[k].f \in Guards PROVE FALSE
  <2>1. k \in 1 .. Len(x.ci) /\ s[d].at < k /\ k \in Nat
    BY <1>1, <1>3
  <2>2. Placed(s, b, n, x, k)
    BY <2>1 DEF Helped, Woven
  <2>3. ~(\A j \in b .. n : s[j].k \in {"call", "pcall", "cont"} => k < s[j].at)
    BY <2>1, <1>1, <1>3
  <2>4. PICK j \in b .. n : s[j].k \in {"pcall", "cont"} /\ s[j].at = k
    BY <2>2, <2>3, <1>6 DEF Placed
  <2>5. ~(j \in d + 1 .. n) /\ j # d
    BY <2>4, <1>1
  <2>6. j < d
    BY <2>5, <1>1
  <2> QED BY <2>1, <2>4, <2>6, <1>3, <1>5
<1>7. ASSUME NEW k \in s[d].at + 1 .. Len(x.ci), x.ci[k].f = "handler" PROVE FALSE
  <2>1. k \in 1 .. Len(x.ci) /\ s[d].at < k /\ k \in Nat
    BY <1>1, <1>3
  <2>2. Placed(s, b, n, x, k)
    BY <2>1 DEF Helped, Woven
  <2>3. PICK j \in b + 1 .. n : s[j].k = "call" /\ s[j].at = k /\ s[j - 1].k \in {"errh", "cont"}
    BY <2>2, <1>7 DEF Placed
  <2>4. j \in b .. n /\ j # d
    BY <1>1, <2>1, <2>3
  <2>5. ~(j \in d + 1 .. n)
    <3> SUFFICES ASSUME j \in d + 1 .. n PROVE FALSE
      OBVIOUS
    <3>1. j - 1 = d \/ j - 1 \in d + 1 .. n
      BY <1>1
    <3> QED BY <3>1, <2>3, <1>1
  <2>6. j < d
    BY <2>4, <2>5, <1>1
  <2> QED BY <2>1, <2>3, <2>4, <2>6, <1>3, <1>5
<1> QED BY <1>3, <1>4, <1>6, <1>7

\* The innermost protected call of the first m frames, and what is left of them.
LEMMA EndsThere ==
  ASSUME NEW t \in Threads, NEW K \in Seq(FrameKinds), NEW m \in Nat, m <= Len(K), NEW i \in 1 .. m,
         K[i] \in Guards \cup {"handler"}, \A k \in i + 1 .. m : K[k] \notin Guards \cup {"handler"},
         StackOf(th)' = [StackOf(th) EXCEPT ![t] = SubSeq(K, 1, i - 1)]
  PROVE  /\ Abstract!End(t, SubSeq(K, 1, m)) /\ Abstract!Innermost(SubSeq(K, 1, m), i)
         /\ Abstract!Below(SubSeq(K, 1, m), i) = SubSeq(K, 1, i - 1)
<1> DEFINE s == SubSeq(K, 1, m)
           l == i - 1
<1>1. s \in Seq(FrameKinds) /\ Len(s) = m /\ DOMAIN s = 1 .. m /\ \A k \in 1 .. m : s[k] = K[k]
  BY CutKinds
<1>2. SubSeq(s, 1, l) = SubSeq(K, 1, l)
  <2>1. l \in Nat /\ l <= m
    OBVIOUS
  <2> HIDE DEF l
  <2> QED BY <2>1, CutKinds
<1> HIDE DEF s
<1>3. Abstract!Innermost(s, i)
  <2>1. i \in Abstract!Catchers(s)
    BY <1>1 DEF Abstract!Catchers, Guards
  <2>2. ASSUME NEW j \in Abstract!Catchers(s) PROVE j <= i
    <3>1. j \in 1 .. m /\ K[j] \in Guards \cup {"handler"}
      BY <1>1 DEF Abstract!Catchers, Guards
    <3>2. ~(j \in i + 1 .. m)
      BY <3>1
    <3> QED BY <3>1, <3>2
  <2> QED BY <2>1, <2>2 DEF Abstract!Innermost
<1>4. Abstract!Below(s, i) = SubSeq(K, 1, i - 1)
  BY <1>2 DEF Abstract!Below
<1>5. Abstract!Put(t, Abstract!Below(s, i))
  BY <1>4 DEF Abstract!Put
<1>6. Abstract!End(t, s)
  BY <1>1, <1>3, <1>5 DEF Abstract!End
<1> QED BY <1>3, <1>4, <1>6 DEF s

-----------------------------------------------------------------------------
(* Protected calls that fail. *)

\* The frames that a failed pcall leaves are linked to the records it leaves.
LEMMA FailedCut ==
  ASSUME CoroutineInv, LinkInv, native # <<>>, NEW c, NEW y, Failing(c, y), ~y.fresh,
         NEW m, m = native[c].at - 1
  PROVE  /\ LinkInv' /\ Mapped(Running, y) /\ KindsOf(y) = SubSeq(KindsOf(Self), 1, m)
         /\ m \in Nat /\ m < Len(Self.ci) /\ m + 1 = native[c].at
<1> DEFINE n == Len(native)
           d == c - 1
           base == Started0(native, Base, n, Self)
<1>1. /\ n \in Nat /\ Base \in 1 .. n /\ native \in Seq(RecordType)
      /\ Standing(native, Base, n, Self) /\ Linked(native, Base, n, Self) /\ Shaped(Self)
      /\ Self \in LooseType /\ n \in Base .. n /\ Running = native[n].t
      /\ native[Base].t = Running
  <2>1. /\ n \in Nat /\ Base \in 1 .. n /\ native \in Seq(RecordType)
        /\ Standing(native, Base, n, Self) /\ Linked(native, Base, n, Self)
        /\ Self \in LooseType /\ Running = native[n].t
    BY RunningLinked DEF Stacked
  <2>2. n \in Base .. n /\ Base \in Base .. n
    BY <2>1
  <2> QED BY <2>1, <2>2, StandingFacts DEF Linked
<1>2. /\ c \in 1 .. n /\ native[c].k = "pcall" /\ native[c].t = Running
      /\ \A i \in c + 1 .. n : native[i].k # "pcall"
      /\ y \in LooseType /\ y.status = "ok" /\ y.ci = SubSeq(Self.ci, 1, m)
      /\ y.nC = native[c].nC /\ y.baseC = Self.baseC - 1
      /\ native' = SubSeq(native, 1, d) /\ th' = [th EXCEPT ![Running] = y] /\ signal' = "none"
  BY DEF Failing
<1>3. /\ d \in Nat \ {0} /\ Base \in 1 .. d /\ native[d].k \in {"call", "resume"}
      /\ native[c].at = Pos(native[c]) /\ 0 < native[c].at
      /\ c \in Nat /\ c = d + 1 /\ c - 1 = d
  BY <1>1, <1>2, PcallFacts
<1>4. c \in Base .. n /\ d \in Base .. n /\ d # n /\ d \in Base .. c - 1 /\ Base \in Nat
  BY <1>1, <1>2, <1>3
<1>5. /\ native[c].at \in Nat /\ native[c].at <= Len(Self.ci) /\ Len(Self.ci) \in Nat
      /\ Pos(native[d]) \in Nat /\ Pos(native[d]) < native[c].at
  BY <1>1, <1>2, <1>4, StandingFacts, SMTT(30)
<1> HIDE DEF d
<1>6. m \in Nat /\ m + 1 = native[c].at /\ m < Len(Self.ci) /\ m <= Len(Self.ci) /\ Pos(native[d]) <= m
      /\ native[c].at \in 1 .. Len(Self.ci)
  BY <1>3, <1>5
<1>7. m # 0 /\ Self.ci[m].f \in Functions
  <2>1. Owner(native, Self, c)
    BY <1>1, <1>4 DEF Linked, Woven
  <2>2. Self.ci[native[c].at].f \in Guards
    BY <2>1, <1>2 DEF Owner
  <2>3. native[c].at - 1 # 0 /\ Self.ci[native[c].at - 1].f \in Functions
    BY <2>2, <1>1, <1>6, GuardsStandOn
  <2> QED BY <2>3
<1>8. Cutting(native, Base, n, Self, d, y, m)
  <2>1. m <= Upto(native, n, Self, d)
    <3>1. Upto(native, n, Self, d) = native[c].at - 1
      BY <1>3, <1>4 DEF Upto
    <3> QED BY <3>1, <1>6
  <2>2. CutTo(Self, y, m)
    BY <1>1, <1>2, <1>6, FirstFrames
  <2> QED BY <2>1, <2>2, <1>1, <1>3, <1>4, <1>6 DEF Cutting
<1>9. Recounted(native, Base, n, Self, d, y)
  <2>1. /\ base \in Int /\ native[c].nC >= Here(native, base, c) + Over(native, Base, c)
        /\ Here(native, base, c) \in Int /\ Over(native, Base, c) \in {0, 1} /\ Self.baseC \in Int
    BY <1>1, <1>2, <1>4, LinkedCounts
  <2>2. native[c].nC \in Int
    BY <1>2, LooseFields
  <2> HIDE DEF base
  <2>3. /\ Here(native, base, c) = Here(native, base, d)
        /\ Pcalls(native, c, Running) = Pcalls(native, d, Running) + 1
        /\ Pcalls(native, d, Running) \in Nat
        /\ Over(native, Base, c) >= Over(native, Base, d)
        /\ Here(native, base, d) \in Int /\ Over(native, Base, d) \in {0, 1}
    <3>1. Stepping(native, Base, n, Self, d, c, base)
      BY <1>1, <1>3, <1>4, <2>1 DEF Stepping
    <3> QED BY <3>1, <1>1, <1>2, StepDown
  <2>4. y.nC >= Here(native, base, d) + Over(native, Base, d)
    BY <2>1, <2>2, <2>3, <1>2
  <2>5. Started0(native, Base, d, y) = base
    <3>1. Pcalls(native, n, Running) = Pcalls(native, c, Running)
      <4>1. \A i \in c + 1 .. n : ~(native[i].t \in {Running} /\ native[i].k \in {"pcall"})
        BY <1>2
      <4>2. c <= n
        BY <1>1, <1>4
      <4>3. n \in Nat /\ c \in Nat
        BY <1>1, <1>3
      <4> HIDE DEF n
      <4>4. Number(native, n, {Running}, {"pcall"}) = Number(native, c, {Running}, {"pcall"})
        BY <4>1, <4>2, <4>3, NumberFlat
      <4> QED BY <4>4 DEF Pcalls
    <3>2. y.baseC - Pcalls(native, d, Running) = Self.baseC - Pcalls(native, n, Running)
      <4>1. Pcalls(native, n, Running) = Pcalls(native, d, Running) + 1 /\ Pcalls(native, d, Running) \in Int
        BY <2>3, <3>1
      <4>2. \A i, j \in Int : (i - 1) - j = i - (j + 1)
        OBVIOUS
      <4> QED BY <4>1, <4>2, <2>1, <1>2, Zenon
    <3> QED BY <3>2, <1>1 DEF Started0, base
  <2> QED BY <2>4, <2>5 DEF Recounted, base
<1>10. CutDown(d, m, y)
  BY <1>2, <1>7, <1>8, <1>9 DEF CutDown
<1>11. CoroutineInv'
  BY PcallFails
<1>12. LinkInv' /\ Mapped(Running, y) /\ KindsOf(y) = SubSeq(KindsOf(Self), 1, m)
  BY <1>10, <1>11, CutDownLinks
<1> QED BY <1>6, <1>12

\* It does not make the thread new.
LEMMA PcallFailedFresh ==
  ASSUME NEW x \in LooseType, NEW p
  PROVE  PcallFailed(x, p).fresh = x.fresh
BY DEF PcallFailed, LooseType

\* All the frames of the thread that runs.
LEMMA WholeKinds ==
  ASSUME CoroutineInv, LinkInv, native # <<>>
  PROVE  SubSeq(KindsOf(Self), 1, Len(Self.ci)) = KindsOf(Self)
<1> DEFINE K == KindsOf(Self)
<1>1. K \in Seq(FrameKinds) /\ Len(K) = Len(Self.ci)
  BY RunningMapped
<1> HIDE DEF K
<1>2. SubSeq(K, 1, Len(K)) = K
  BY <1>1
<1> QED BY <1>1, <1>2 DEF K

\* The protected call of record c is over, and was the innermost one of the
\* first m frames.
LEMMA CaughtEnds ==
  ASSUME CoroutineInv, LinkInv, native # <<>>, NEW c, NEW m,
         Catching(native, Base, Len(native), Self, c, m), native[c].at <= m,
         NEW y, Mapped(Running, y), KindsOf(y) = SubSeq(KindsOf(Self), 1, native[c].at - 1)
  PROVE  /\ Abstract!End(Running, SubSeq(KindsOf(Self), 1, m))
         /\ Abstract!Innermost(SubSeq(KindsOf(Self), 1, m), native[c].at)
         /\ Abstract!Below(SubSeq(KindsOf(Self), 1, m), native[c].at) = KindsOf(y)
         /\ native[c].at \in 1 .. Len(Self.ci) /\ KindsOf(Self)[native[c].at] \in Guards
<1> DEFINE K == KindsOf(Self)
           i == native[c].at
<1>1. /\ Running \in Threads /\ K \in Seq(FrameKinds) /\ Len(K) = Len(Self.ci)
      /\ \A k \in 1 .. Len(Self.ci) : K[k] = Self.ci[k].f
      /\ Len(Self.ci) \in Nat
  BY RunningMapped
<1>2. /\ i \in 1 .. Len(Self.ci) /\ Self.ci[i].f \in Guards
      /\ \A k \in i + 1 .. m : Self.ci[k].f \notin Guards \cup {"handler"}
  BY CatchingFrames
<1>3. m \in Nat /\ m <= Len(Self.ci)
  BY DEF Catching
<1>4. StackOf(th)' = [StackOf(th) EXCEPT ![Running] = SubSeq(K, 1, i - 1)]
  BY DEF Mapped
<1>5. i <= m /\ KindsOf(y) = SubSeq(K, 1, i - 1)
  OBVIOUS
<1> HIDE DEF K, i
<1>6. i \in 1 .. m /\ m <= Len(K)
  BY <1>1, <1>2, <1>3, <1>5
<1>7. K[i] \in Guards \cup {"handler"} /\ K[i] \in Guards
  BY <1>1, <1>2
<1>8. \A k \in i + 1 .. m : K[k] \notin Guards \cup {"handler"}
  <2>1. \A k \in i + 1 .. m : k \in 1 .. Len(Self.ci)
    BY <1>1, <1>2, <1>3
  <2> QED BY <2>1, <1>1, <1>2
<1>9. /\ Abstract!End(Running, SubSeq(K, 1, m)) /\ Abstract!Innermost(SubSeq(K, 1, m), i)
      /\ Abstract!Below(SubSeq(K, 1, m), i) = SubSeq(K, 1, i - 1)
  BY <1>1, <1>3, <1>4, <1>6, <1>7, <1>8, EndsThere, ZenonT(60)
<1> QED BY <1>2, <1>5, <1>7, <1>9 DEF K, i

\* What the abstract module says of an error that is caught.
LEMMA CatchMaps ==
  ASSUME CoroutineInv, LinkInv, native # <<>>, signal # "none", signal' = "none",
         NEW y, Mapped(Running, y), NEW i \in 1 .. Len(Self.ci),
         Abstract!Innermost(KindsOf(Self), i),
         \/ KindsOf(Self)[i] # "handler" /\ KindsOf(y) = Abstract!Below(KindsOf(Self), i)
         \/ KindsOf(Self)[i] = "handler" /\ Abstract!End(Running, Abstract!Below(KindsOf(Self), i))
         \/ KindsOf(Self)[i] = "xpcall" /\ KindsOf(y) = Append(KindsOf(Self), "handler")
  PROVE  Abstract!Next
<1> DEFINE K == KindsOf(Self)
<1>1. /\ StackOf(th)[Running] = K /\ LifeOf(native, th)[Running] = "running"
      /\ Running \in Threads /\ DOMAIN K = 1 .. Len(Self.ci)
  BY RunningMapped
<1> HIDE DEF K
<1>2. \/ K[i] # "handler" /\ Abstract!Put(Running, Abstract!Below(K, i))
      \/ K[i] = "handler" /\ Abstract!End(Running, Abstract!Below(K, i))
      \/ K[i] = "xpcall" /\ Abstract!Put(Running, Append(K, "handler"))
  BY DEF Mapped, Abstract!Put, K
<1>3. i \in DOMAIN K /\ Abstract!Innermost(K, i)
  BY <1>1 DEF K
<1>4. Abstract!Catch(Running)
  BY <1>1, <1>2, <1>3 DEF Abstract!Catch, Mapped
<1> QED BY <1>1, <1>4 DEF Abstract!Next

\* What it says of a handler that returns.
LEMMA ReturnEndMaps ==
  ASSUME CoroutineInv, LinkInv, native # <<>>, signal = "none", signal' = "none",
         NEW y, Mapped(Running, y), Self.ci # <<>>, Self.ci[Len(Self.ci)].f = "handler",
         NEW m, m = Len(Self.ci) - 1, Abstract!End(Running, SubSeq(KindsOf(Self), 1, m))
  PROVE  Abstract!Next
<1> DEFINE K == KindsOf(Self)
<1>1. /\ StackOf(th)[Running] = K /\ LifeOf(native, th)[Running] = "running"
      /\ Running \in Threads /\ Len(K) = Len(Self.ci)
      /\ \A k \in 1 .. Len(Self.ci) : K[k] = Self.ci[k].f
      /\ Self.ci \in Seq(FrameType) /\ Len(Self.ci) \in Nat
  BY RunningMapped
<1>2. K[Len(K)] = "handler"
  <2>1. Len(Self.ci) \in 1 .. Len(Self.ci)
    BY <1>1
  <2> QED BY <2>1, <1>1
<1> HIDE DEF K
<1>3. Abstract!Top(K) = "handler" /\ Abstract!End(Running, Abstract!Front(K))
  BY <1>1, <1>2 DEF Abstract!Top, Abstract!Front, K
<1>4. Abstract!Return(Running)
  BY <1>1, <1>3 DEF Abstract!Return, Abstract!Calm, Mapped
<1> QED BY <1>1, <1>4 DEF Abstract!Next

\* The thread that a luaD_pcall fails in.
LEMMA FailedPcall ==
  ASSUME CoroutineInv, LinkInv, native # <<>>, NEW c, NEW y, Failing(c, y), ~y.fresh,
         NEW m, Catching(native, Base, Len(native), Self, c, m), native[c].at <= m
  PROVE  /\ LinkInv' /\ Mapped(Running, y)
         /\ Abstract!End(Running, SubSeq(KindsOf(Self), 1, m))
         /\ Abstract!Innermost(SubSeq(KindsOf(Self), 1, m), native[c].at)
         /\ Abstract!Below(SubSeq(KindsOf(Self), 1, m), native[c].at) = KindsOf(y)
         /\ native[c].at \in 1 .. Len(Self.ci) /\ KindsOf(Self)[native[c].at] \in Guards
<1>1. LinkInv' /\ Mapped(Running, y) /\ KindsOf(y) = SubSeq(KindsOf(Self), 1, native[c].at - 1)
  BY FailedCut
<1> QED BY <1>1, CaughtEnds

\* luaD_pcall catches an error and has no error function to call.
LEMMA InPcallFailedMaps ==
  ASSUME CoroutineInv, LinkInv, native # <<>>, signal # "none",
         native[Catcher].k = "pcall", InPcall(Catcher),
         ~(native[Catcher].errf = "xpcall" /\ LimitError(Counted(Self)) = "none")
  PROVE  LinkInv' /\ Abstract!Next
<1> DEFINE c == Catcher
           y == PcallFailed(Self, native[c])
           m == Len(Self.ci)
           n == Len(native)
<1>1. Failing(c, y)
  BY InPcallFails
<1>2. /\ Standing(native, Base, n, Self) /\ Woven(native, Base, n, Self)
      /\ Self \in LooseType /\ ~Self.fresh /\ m \in Nat
  BY RunningLinked, LooseFields DEF Linked
<1>3. ~y.fresh
  BY <1>2, PcallFailedFresh
<1>4. c \in Base .. n /\ c \in Nat /\ native[c].k = "pcall" /\ \A j \in c + 1 .. n : native[j].k = "call"
  BY CatcherFacts
<1>5. Catching(native, Base, n, Self, c, m)
  <2>1. ASSUME NEW j \in c + 1 .. n PROVE native[j - 1].k \notin {"errh", "cont"}
    <3>1. j - 1 = c \/ j - 1 \in c + 1 .. n
      BY <1>4
    <3> QED BY <3>1, <1>4
  <2> HIDE DEF c
  <2> QED BY <2>1, <1>2, <1>4 DEF Catching
<1>6. native[c].at <= m
  <2>1. native[c].at \in 1 .. m
    BY <1>5, CatchingFrames
  <2> QED BY <2>1, <1>2
<1> HIDE DEF c, y
<1>7. /\ LinkInv' /\ Mapped(Running, y)
      /\ Abstract!Innermost(SubSeq(KindsOf(Self), 1, m), native[c].at)
      /\ Abstract!Below(SubSeq(KindsOf(Self), 1, m), native[c].at) = KindsOf(y)
      /\ native[c].at \in 1 .. Len(Self.ci) /\ KindsOf(Self)[native[c].at] \in Guards
  BY <1>1, <1>3, <1>5, <1>6, FailedPcall
<1>8. SubSeq(KindsOf(Self), 1, m) = KindsOf(Self)
  BY WholeKinds
<1>9. signal' = "none" /\ KindsOf(Self)[native[c].at] # "handler"
  BY <1>1, <1>7 DEF Failing, Guards
<1> QED BY <1>7, <1>8, <1>9, CatchMaps

\* A handler that runs, where an error reaches its record.
LEMMA HandlerHit ==
  ASSUME CoroutineInv, LinkInv, native # <<>>, NEW n, n = Len(native), NEW e \in Base .. n,
         native[e].k \in {"errh", "cont"}, \A j \in e + 1 .. n : native[j].k = "call",
         NEW h, h = native[e + 1].at
  PROVE  /\ h \in 1 .. Len(Self.ci) /\ h - 1 \in Nat /\ h - 1 <= Len(Self.ci)
         /\ Abstract!Innermost(KindsOf(Self), h) /\ KindsOf(Self)[h] = "handler"
         /\ Abstract!Below(KindsOf(Self), h) = SubSeq(KindsOf(Self), 1, h - 1)
         /\ \A j \in e + 1 .. n : native[j].at \in Nat /\ h - 1 < native[j].at
         /\ Pos(native[e]) < h /\ e + 1 \in Base + 1 .. n /\ e \in Nat
<1> DEFINE d == e + 1
           K == KindsOf(Self)
<1>1. /\ Standing(native, Base, n, Self) /\ Woven(native, Base, n, Self)
      /\ Len(Self.ci) \in Nat /\ n \in Nat /\ Base \in Nat
  BY RunningLinked, LooseFields DEF Linked
<1>2. d \in Base + 1 .. n /\ d \in Base .. n /\ native[d].k = "call" /\ d - 1 = e /\ d \in e + 1 .. n
      /\ e \in Nat /\ e \in Base .. d - 1
  <2>1. Ran(native, n, Self, e)
    BY <1>1 DEF Woven
  <2>2. e < n
    BY <2>1 DEF Ran
  <2> QED BY <2>2, <1>1
<1>a. h = native[d].at
  OBVIOUS
<1> HIDE DEF d, K
<1>3. Helped(native, Base, n, Self, d)
  <2>1. \A j \in d + 1 .. n : j \in e + 1 .. n
    BY <1>2
  <2> QED BY <2>1, <1>1, <1>2 DEF Helped
<1>4. /\ h \in 1 .. Len(Self.ci) /\ Self.ci[h].f = "handler"
      /\ \A k \in h + 1 .. Len(Self.ci) : Self.ci[k].f \notin Guards \cup {"handler"}
  BY <1>3, <1>a, HelpedFrames
<1>5. h \in Nat /\ h - 1 \in Nat /\ h - 1 < h /\ h - 1 <= Len(Self.ci)
  BY <1>1, <1>4, SMTT(30)
<1>6. ASSUME NEW j \in e + 1 .. n PROVE native[j].at \in Nat /\ h - 1 < native[j].at
  <2>1. j \in Base .. n /\ (j = d \/ d \in Base .. j - 1)
    BY <1>1, <1>2
  <2>2. /\ native[j].at \in Nat /\ \A i \in Base .. j - 1 : Pos(native[i]) < native[j].at
        /\ Pos(native[d]) = h
    BY <2>1, <1>1, <1>2, <1>a, StandingFacts, ZenonT(60)
  <2>3. j = d \/ h < native[j].at
    BY <2>1, <2>2
  <2> QED BY <2>2, <2>3, <1>5, <1>a
<1>7. Pos(native[e]) < h
  <2>1. \A i \in Base .. d - 1 : Pos(native[i]) < native[d].at
    BY <1>1, <1>2, StandingFacts
  <2>2. Pos(native[e]) < native[d].at
    BY <2>1, <1>2, Zenon
  <2> QED BY <2>2, <1>a
<1>8. /\ Abstract!Innermost(K, h) /\ Abstract!Below(K, h) = SubSeq(K, 1, h - 1) /\ K[h] = "handler"
  <2>1. /\ K \in Seq(FrameKinds) /\ DOMAIN K = 1 .. Len(Self.ci)
        /\ \A k \in 1 .. Len(Self.ci) : K[k] = Self.ci[k].f
    BY RunningMapped DEF K
  <2>2. K[h] = "handler"
    BY <2>1, <1>4
  <2>3. \A k \in Abstract!Catchers(K) : k <= h
    <3> SUFFICES ASSUME NEW k \in Abstract!Catchers(K) PROVE k <= h
      OBVIOUS
    <3>1. k \in 1 .. Len(Self.ci) /\ Self.ci[k].f \in Guards \cup {"handler"}
      BY <2>1 DEF Abstract!Catchers, Guards
    <3>2. ~(k \in h + 1 .. Len(Self.ci))
      BY <3>1, <1>4
    <3> QED BY <3>1, <3>2, <1>5
  <2>4. h \in Abstract!Catchers(K)
    BY <2>1, <2>2, <1>4 DEF Abstract!Catchers
  <2> QED BY <2>2, <2>3, <2>4 DEF Abstract!Innermost, Abstract!Below
<1> QED BY <1>2, <1>4, <1>5, <1>6, <1>7, <1>8 DEF d, K

\* The error function of a luaD_pcall fails.
LEMMA InErrhMaps ==
  ASSUME CoroutineInv, LinkInv, native # <<>>, signal # "none",
         native[Catcher].k = "errh", InErrh(Catcher)
  PROVE  LinkInv' /\ Abstract!Next
<1> DEFINE e == Catcher
           c == e - 1
           y == PcallFailed(Self, native[c])
           n == Len(native)
           K == KindsOf(Self)
           h == native[e + 1].at
           m == h - 1
<1>1. Failing(c, y)
  BY InErrhFails
<1>2. /\ Standing(native, Base, n, Self) /\ Woven(native, Base, n, Self)
      /\ Self \in LooseType /\ ~Self.fresh /\ Len(Self.ci) \in Nat /\ n \in Nat /\ Base \in Nat
  BY RunningLinked, LooseFields DEF Linked
<1>3. ~y.fresh
  BY <1>2, PcallFailedFresh
<1>4. e \in Base .. n /\ e \in Nat /\ native[e].k = "errh" /\ \A j \in e + 1 .. n : native[j].k = "call"
  BY CatcherFacts
<1> HIDE DEF e
<1>5. native[c].k = "pcall" /\ Base < c /\ c \in Base .. n /\ c + 1 = e /\ c \in Base .. e
  <2>1. native[c].k = "pcall" /\ Base < c
    BY <1>2, <1>4, StandingFacts
  <2> QED BY <2>1, <1>2, <1>4
<1> HIDE DEF c, K
<1>6. /\ h \in 1 .. Len(Self.ci) /\ m \in Nat /\ m <= Len(Self.ci)
      /\ Abstract!Innermost(K, h) /\ K[h] = "handler" /\ Abstract!Below(K, h) = SubSeq(K, 1, m)
      /\ \A j \in e + 1 .. n : native[j].at \in Nat /\ m < native[j].at
      /\ Pos(native[e]) < h
  BY <1>4, HandlerHit DEF K
<1> HIDE DEF h
<1>7. native[c].at <= m
  <2>1. Pos(native[c]) <= Pos(native[e]) /\ native[c].at = Pos(native[c]) /\ native[c].at \in Nat
        /\ Pos(native[e]) \in Nat
    BY <1>2, <1>4, <1>5, StandingFacts, SMTT(30)
  <2> QED BY <2>1, <1>2, <1>6
<1> HIDE DEF m
<1>8. Catching(native, Base, n, Self, c, m)
  <2>1. \A j \in c + 1 .. n : j = e \/ j \in e + 1 .. n
    BY <1>4, <1>5
  <2>2. \A j \in c + 1 .. n : native[j].k \in {"call", "errh"} /\ (native[j].k = "call" => m < native[j].at)
    BY <2>1, <1>4, <1>6
  <2> QED BY <2>2, <1>2, <1>5, <1>6 DEF Catching
<1> HIDE DEF y
<1>9. /\ LinkInv' /\ Mapped(Running, y) /\ Abstract!End(Running, SubSeq(K, 1, m))
  BY <1>1, <1>3, <1>7, <1>8, FailedPcall DEF K
<1>10. signal' = "none"
  BY <1>1 DEF Failing
<1> QED BY <1>6, <1>9, <1>10, CatchMaps DEF K

\* The error function of a luaD_pcall returns, and the pcall is over.
LEMMA ReturnErrhMaps ==
  ASSUME CoroutineInv, LinkInv, native # <<>>, signal = "none", NEW n, n = Len(native),
         Top(Self.ci).f # "lua", native[n].k = "call", native[n - 1].k = "errh",
         th' = [th EXCEPT ![Running] = PcallFailed([Self EXCEPT !.ci = Front(@)], native[n - 2])],
         native' = SubSeq(native, 1, n - 3), UNCHANGED signal
  PROVE  LinkInv' /\ Abstract!Next
<1> DEFINE m == Len(Self.ci) - 1
           e == n - 1
           c == n - 2
           q == [Self EXCEPT !.ci = Front(@)]
           y == PcallFailed(q, native[c])
<1>1. /\ n \in Nat /\ Base \in 1 .. n
      /\ Standing(native, Base, n, Self) /\ Linked(native, Base, n, Self)
      /\ Self \in LooseType /\ ~Self.fresh /\ Self.ci # <<>>
      /\ Len(Self.ci) \in Nat \ {0}
      /\ Top(Self.ci) = Self.ci[Len(Self.ci)] /\ Top(Self.ci).f \in Functions \ {"lua"}
      /\ Front(Self.ci) \in Seq(FrameType)
  BY ReturningFacts
<1>2. Failing(c, y)
  BY ErrhReturns
<1>3. native[n].at = Len(Self.ci) /\ Owner(native, Self, n) /\ e \in Base .. n /\ Base \in Nat
  BY <1>1, CalledOnTop, SMTT(30)
<1>4. Self.ci[Len(Self.ci)].f = "handler" /\ native[e].k = "errh"
  BY <1>3 DEF Owner
<1>5. ~y.fresh
  <2>1. q \in LooseType /\ q.fresh = Self.fresh
    BY <1>1, FramesAssigned
  <2> HIDE DEF q
  <2> QED BY <2>1, <1>1, PcallFailedFresh
<1>a. n = e + 1 /\ e = c + 1 /\ e - 1 = c /\ c \in Int
  BY <1>1
<1> HIDE DEF c, e
<1>6. native[c].k = "pcall" /\ Base < c /\ c \in Base .. n /\ c \in Base .. n - 1
  <2>1. native[e - 1].k = "pcall" /\ Base < e - 1
    BY <1>1, <1>3, <1>4, StandingFacts
  <2> QED BY <2>1, <1>1, <1>3, <1>a, SMTT(30)
<1>7. /\ native[c].at \in Nat /\ native[c].at < native[n].at
  <2>1. n \in Base .. n
    BY <1>1, <1>3
  <2>2. Pos(native[c]) < native[n].at
    BY <2>1, <1>1, <1>6, StandingFacts
  <2>3. native[c].at = Pos(native[c]) /\ native[c].at \in Nat
    BY <1>1, <1>6, StandingFacts
  <2> QED BY <2>2, <2>3
<1>8. m \in Nat /\ m < native[n].at /\ native[c].at <= m /\ m <= Len(Self.ci)
  <2> DEFINE a == native[c].at
             L == Len(Self.ci)
  <2>1. L \in Nat \ {0} /\ a \in Nat /\ a < L /\ native[n].at = L
    BY <1>1, <1>3, <1>7
  <2> HIDE DEF a, L
  <2>2. L - 1 \in Nat /\ L - 1 < L /\ a <= L - 1 /\ L - 1 <= L
    BY <2>1
  <2> QED BY <2>1, <2>2 DEF a, L
<1> HIDE DEF m
<1>9. Catching(native, Base, n, Self, c, m)
  <2>1. \A j \in c + 1 .. n : j = e \/ j = n
    BY <1>a
  <2>2. \A j \in c + 1 .. n : native[j].k \in {"call", "errh"} /\ (native[j].k = "call" => m < native[j].at)
    BY <2>1, <1>4, <1>8
  <2>3. Woven(native, Base, n, Self)
    BY <1>1 DEF Linked
  <2> QED BY <2>2, <2>3, <1>1, <1>6, <1>8 DEF Catching
<1> HIDE DEF y
<1>10. LinkInv' /\ Mapped(Running, y) /\ Abstract!End(Running, SubSeq(KindsOf(Self), 1, m))
  BY <1>2, <1>5, <1>8, <1>9, FailedPcall
<1> QED BY <1>1, <1>4, <1>10, ReturnEndMaps DEF m

\* Only the lua_resume of the thread that runs is left of its records.
Rewound(m, y) ==
  /\ y \in LooseType /\ y.ci = SubSeq(Self.ci, 1, m) /\ m \in Nat \ {0} /\ m <= Len(Self.ci)
  /\ m <= Upto(native, Len(native), Self, Base) /\ Self.ci[m].f \in Functions
  /\ y.status = "ok" /\ ~y.fresh /\ y.baseC = Self.baseC
  /\ \A i \in Base + 1 .. Len(native) : native[i].k # "pcall"
  /\ y.nC >= Here(native, Started0(native, Base, Len(native), Self), Base)
  /\ native' = SubSeq(native, 1, Base) /\ th' = [th EXCEPT ![Running] = y]

\* The frames that are left are linked.
LEMMA BaseCut ==
  ASSUME CoroutineInv, CoroutineInv', LinkInv, native # <<>>, NEW m, NEW y, Rewound(m, y)
  PROVE  /\ LinkInv' /\ Mapped(Running, y) /\ KindsOf(y) = SubSeq(KindsOf(Self), 1, m)
<1> DEFINE n == Len(native)
           b == Base
<1>1. /\ n \in Nat /\ b \in 1 .. n /\ b \in Nat
      /\ Standing(native, b, n, Self) /\ Linked(native, b, n, Self)
      /\ Self \in LooseType /\ Running = native[n].t
  BY RunningLinked
<1>2. native[b].k = "resume" /\ native[b].t = Running /\ b \in b .. n
  <2>1. b \in b .. n
    BY <1>1
  <2> QED BY <2>1, <1>1, StandingFacts
<1>3. /\ y \in LooseType /\ y.ci = SubSeq(Self.ci, 1, m) /\ m \in Nat \ {0} /\ m <= Len(Self.ci)
      /\ m <= Upto(native, n, Self, b) /\ Self.ci[m].f \in Functions
      /\ y.status = "ok" /\ ~y.fresh /\ y.baseC = Self.baseC
      /\ \A i \in b + 1 .. n : native[i].k # "pcall"
      /\ y.nC >= Here(native, Started0(native, b, n, Self), b)
      /\ native' = SubSeq(native, 1, b) /\ th' = [th EXCEPT ![Running] = y]
  BY DEF Rewound
<1> HIDE DEF b, n
<1>4. Cutting(native, b, n, Self, b, y, m)
  <2>1. Pos(native[b]) <= m
    BY <1>2, <1>3 DEF Pos
  <2>2. CutTo(Self, y, m)
    BY <1>1, <1>3, FirstFrames
  <2> QED BY <2>1, <2>2, <1>1, <1>2, <1>3 DEF Cutting
<1>5. Recounted(native, b, n, Self, b, y)
  <2>1. Over(native, b, b) = 0
    <3>1. \A j \in b .. b : j = b
      BY <1>1
    <3> QED BY <3>1, <1>2 DEF Over
  <2>2. Number(native, n, {native[b].t}, {"pcall"}) = Number(native, b, {native[b].t}, {"pcall"})
    <3>1. \A i \in b + 1 .. n : ~(native[i].t \in {native[b].t} /\ native[i].k \in {"pcall"})
      BY <1>3
    <3>2. b <= n
      BY <1>1
    <3> QED BY <1>1, <3>1, <3>2, NumberFlat
  <2>3. Started0(native, b, b, y) = Started0(native, b, n, Self)
    BY <2>2, <1>3 DEF Started0, Pcalls
  <2>4. Here(native, Started0(native, b, n, Self), b) \in Int
    BY <1>1, <1>2, LinkedCounts
  <2>5. y.nC \in Int
    BY <1>3, LooseFields
  <2> QED BY <2>1, <2>3, <2>4, <2>5, <1>3 DEF Recounted
<1>6. CutDown(b, m, y)
  BY <1>3, <1>4, <1>5 DEF CutDown, b, n
<1> QED BY <1>6, CutDownLinks

\* resume_continue has nothing to do.
LEMMA ContinuedSame ==
  ASSUME NEW x \in LooseType, NEW w \in Seq(FrameType), NEW m \in Nat \ {0}, m <= Len(w),
         x.ci = SubSeq(w, 1, m), w[m].f \notin Guards
  PROVE  /\ Continued(x) \in LooseType /\ Continued(x).ci = SubSeq(w, 1, m)
         /\ Continued(x).status = x.status /\ Continued(x).fresh = x.fresh
         /\ Continued(x).nC = x.nC /\ Continued(x).baseC = x.baseC
<1> DEFINE v == SubSeq(w, 1, m)
<1>1. v \in Seq(FrameType) /\ Len(v) = m /\ v[m] = w[m]
  OBVIOUS
<1>2. x.ci = v
  OBVIOUS
<1> HIDE DEF v
<1>3. SubSeq(v, 1, m) = v
  BY <1>1
<1>4. m \in 0 .. Len(x.ci) /\ \A k \in m + 1 .. Len(x.ci) : x.ci[k].f \in Guards
  BY <1>1, <1>2
<1>5. x.ci[m].f \notin Guards
  BY <1>1, <1>2
<1>6. /\ Continued(x).ci = SubSeq(x.ci, 1, m) /\ CutTo(x, Continued(x), m)
      /\ Continued(x).status = x.status /\ Continued(x).fresh = x.fresh
      /\ Continued(x).nC = x.nC /\ Continued(x).baseC = x.baseC
  BY <1>4, <1>5, ContinuedCut
<1> QED BY <1>2, <1>3, <1>6 DEF CutTo, v

\* The record of a continuation stands on its lua_resume and an xpcall.
LEMMA ContinuingFacts ==
  ASSUME CoroutineInv, LinkInv, native # <<>>, NEW c \in Base .. Len(native), native[c].k = "cont"
  PROVE  /\ c = Base + 1 /\ Base \in Nat /\ Base + 1 \in Base .. Len(native) /\ Len(native) \in Nat
         /\ native[c].at \in 1 .. Len(Self.ci) /\ native[c].at - 1 \in Nat \ {0}
         /\ native[c].at - 1 <= Len(Self.ci)
         /\ native[c].at - 1 <= Upto(native, Len(native), Self, Base)
         /\ Self.ci[native[c].at - 1].f \in Functions /\ Self.ci[native[c].at].f = "xpcall"
         /\ Here(native, Started0(native, Base, Len(native), Self), c)
              = Here(native, Started0(native, Base, Len(native), Self), Base)
         /\ Here(native, Started0(native, Base, Len(native), Self), Base) \in Int
<1> DEFINE n == Len(native)
           b == Base
           base == Started0(native, b, n, Self)
<1>1. /\ n \in Nat /\ b \in 1 .. n /\ b \in Nat
      /\ Standing(native, b, n, Self) /\ Linked(native, b, n, Self)
      /\ Self \in LooseType /\ Shaped(Self) /\ Woven(native, b, n, Self)
  BY RunningLinked DEF Linked
<1>2. c \in b .. n /\ native[c].k = "cont"
  OBVIOUS
<1> HIDE DEF b, n
<1>3. /\ c = b + 1 /\ native[c].at \in Nat /\ 0 < native[c].at /\ native[c].at <= native[c].ci
      /\ native[c].ci = Pos(native[c]) /\ Pos(native[c]) <= Len(Self.ci) /\ Len(Self.ci) \in Nat
      /\ Pos(native[c]) \in Nat
  BY <1>1, <1>2, StandingFacts
<1>4. native[c].at \in 1 .. Len(Self.ci)
  <2> DEFINE a == native[c].at
             p == Pos(native[c])
  <2>1. a \in Nat /\ 0 < a /\ a <= p /\ p \in Nat /\ p <= Len(Self.ci) /\ Len(Self.ci) \in Nat
    BY <1>3
  <2> HIDE DEF a, p
  <2>2. a \in 1 .. Len(Self.ci)
    BY <2>1
  <2> QED BY <2>2 DEF a
<1>5. Self.ci[native[c].at].f = "xpcall"
  <2>1. Owner(native, Self, c)
    BY <1>1, <1>2 DEF Woven
  <2> QED BY <2>1, <1>2 DEF Owner
<1>6. native[c].at - 1 # 0 /\ Self.ci[native[c].at - 1].f \in Functions
  BY <1>1, <1>4, <1>5, GuardsStandOn DEF Guards
<1>7. native[c].at - 1 \in Nat \ {0} /\ native[c].at - 1 <= Len(Self.ci)
  BY <1>4, <1>6, <1>3
<1>8. native[c].at - 1 <= Upto(native, n, Self, b)
  <2>1. b # n
    BY <1>1, <1>2, <1>3
  <2>2. Upto(native, n, Self, b) = native[c].at - 1
    BY <2>1, <1>3 DEF Upto
  <2> QED BY <2>2, <1>7
<1>9. Here(native, base, c) = Here(native, base, b) /\ Here(native, base, b) \in Int
  <2>1. base \in Int
    BY <1>1, LinkedCounts
  <2> HIDE DEF base
  <2>2. b \in b .. n
    BY <1>1
  <2>3. Stepping(native, b, n, Self, b, c, base)
    BY <2>1, <2>2, <1>1, <1>2, <1>3 DEF Stepping
  <2>4. Here(native, base, c) = Here(native, base, b) + (IF native[c].k = "call" THEN 1 ELSE 0)
        /\ Here(native, base, b) \in Int
    BY <2>3, StepDown
  <2> QED BY <2>4, <1>2
<1>10. b + 1 \in b .. n /\ b \in Nat /\ n \in Nat
  BY <1>1, <1>2, <1>3
<1> QED BY <1>3, <1>4, <1>5, <1>6, <1>7, <1>8, <1>9, <1>10 DEF b, n, base

\* What luaB_xpcallcont and resume_continue leave of the thread.
PoppedCont(x, at) == Continued([[[x EXCEPT !.ci = Front(@)] EXCEPT !.nC = @ - 1]
                                  EXCEPT !.ci = SubSeq(@, 1, at - 1)])

\* Its frames and counters.
LEMMA PoppedContFits ==
  ASSUME NEW x \in LooseType, NEW at \in Nat, at - 1 \in Nat \ {0}, at - 1 < Len(x.ci),
         x.ci[at - 1].f \notin Guards, Front(x.ci) = SubSeq(x.ci, 1, Len(x.ci) - 1)
  PROVE  /\ PoppedCont(x, at) \in LooseType /\ PoppedCont(x, at).ci = SubSeq(x.ci, 1, at - 1)
         /\ PoppedCont(x, at).status = x.status /\ PoppedCont(x, at).fresh = x.fresh
         /\ PoppedCont(x, at).nC = x.nC - 1 /\ PoppedCont(x, at).baseC = x.baseC
<1> DEFINE l == Len(x.ci) - 1
           m == at - 1
           q == [x EXCEPT !.ci = Front(@)]
           p == [q EXCEPT !.nC = @ - 1]
           r == [p EXCEPT !.ci = SubSeq(@, 1, m)]
<1>1. x.ci \in Seq(FrameType) /\ Len(x.ci) \in Nat /\ x.nC \in Int
  BY LooseFields
<1>2. l \in Nat /\ m \in Nat \ {0} /\ m <= l /\ l <= Len(x.ci) /\ m <= Len(x.ci)
  BY <1>1
<1>a. x.ci[m].f \notin Guards
  OBVIOUS
<1>b. q = [x EXCEPT !.ci = SubSeq(x.ci, 1, l)]
  OBVIOUS
<1> HIDE DEF l, m
<1>3. SubSeq(x.ci, 1, l) \in Seq(FrameType) /\ SubSeq(SubSeq(x.ci, 1, l), 1, m) = SubSeq(x.ci, 1, m)
      /\ SubSeq(x.ci, 1, m) \in Seq(FrameType)
  <2>1. SubSeq(SubSeq(x.ci, 1, l), 1, m) = SubSeq(x.ci, 1, m)
    BY <1>1, <1>2, CutTwice
  <2>2. SubSeq(x.ci, 1, l) \in Seq(FrameType) /\ SubSeq(x.ci, 1, m) \in Seq(FrameType)
    BY <1>1, <1>2
  <2> QED BY <2>1, <2>2
<1>4. /\ q \in LooseType /\ q.ci = SubSeq(x.ci, 1, l) /\ q.status = x.status
      /\ q.nC = x.nC /\ q.baseC = x.baseC /\ q.fresh = x.fresh
  <2> DEFINE w == SubSeq(x.ci, 1, l)
  <2>1. w \in Seq(FrameType) /\ q = [x EXCEPT !.ci = w]
    BY <1>b, <1>3
  <2> HIDE DEF w, q
  <2>2. /\ q \in LooseType /\ q.ci = w /\ q.status = x.status
        /\ q.nC = x.nC /\ q.baseC = x.baseC /\ q.fresh = x.fresh
    BY <2>1, FramesAssigned
  <2> QED BY <2>2 DEF w
<1> HIDE DEF q
<1>5. /\ p \in LooseType /\ p.ci = q.ci /\ p.status = q.status
      /\ p.nC = x.nC - 1 /\ p.baseC = q.baseC /\ p.fresh = q.fresh
  <2>1. p = [q EXCEPT !.nC = q.nC - 1] /\ q.nC - 1 \in Int /\ q.nC - 1 = x.nC - 1
    BY <1>1, <1>4
  <2> DEFINE v == q.nC - 1
  <2> HIDE DEF v, p
  <2>2. p = [q EXCEPT !.nC = v] /\ v \in Int /\ v = x.nC - 1
    BY <2>1 DEF v
  <2> QED BY <2>2, <1>4, CountAssigned
<1> HIDE DEF p
<1>6. /\ r \in LooseType /\ r.ci = SubSeq(x.ci, 1, m) /\ r.status = p.status
      /\ r.nC = p.nC /\ r.baseC = p.baseC /\ r.fresh = p.fresh
  <2> DEFINE w == SubSeq(x.ci, 1, m)
  <2>1. w \in Seq(FrameType) /\ r = [p EXCEPT !.ci = w]
    BY <1>3, <1>4, <1>5
  <2> HIDE DEF w, r
  <2>2. /\ r \in LooseType /\ r.ci = w /\ r.status = p.status
        /\ r.nC = p.nC /\ r.baseC = p.baseC /\ r.fresh = p.fresh
    BY <2>1, <1>5, FramesAssigned
  <2> QED BY <2>2 DEF w
<1> HIDE DEF r
<1>7. /\ Continued(r) \in LooseType /\ Continued(r).ci = SubSeq(x.ci, 1, m)
      /\ Continued(r).status = r.status /\ Continued(r).fresh = r.fresh
      /\ Continued(r).nC = r.nC /\ Continued(r).baseC = r.baseC
  BY <1>1, <1>2, <1>a, <1>6, ContinuedSame
<1>8. PoppedCont(x, at) = Continued(r)
  BY DEF PoppedCont, r, p, q, m
<1> QED BY <1>4, <1>5, <1>6, <1>7, <1>8 DEF m

\* The error function of a continuation returns, and the xpcall is over.
LEMMA ReturnContMaps ==
  ASSUME CoroutineInv, LinkInv, native # <<>>, signal = "none", NEW n, n = Len(native),
         Top(Self.ci).f # "lua", native[n].k = "call", native[n - 1].k = "cont",
         th' = [th EXCEPT ![Running] = PoppedCont(Self, native[n - 1].at)],
         native' = SubSeq(native, 1, n - 2), UNCHANGED signal
  PROVE  LinkInv' /\ Abstract!Next
<1> DEFINE l == Len(Self.ci) - 1
           e == n - 1
           at == native[e].at
           m == at - 1
           y == PoppedCont(Self, at)
           base == Started0(native, Base, n, Self)
<1>1. /\ n \in Nat /\ Base \in 1 .. n
      /\ Standing(native, Base, n, Self) /\ Linked(native, Base, n, Self)
      /\ Self \in LooseType /\ ~Self.fresh /\ Self.ci # <<>> /\ Self.status = "ok"
      /\ Len(Self.ci) \in Nat \ {0}
      /\ Top(Self.ci) = Self.ci[Len(Self.ci)] /\ Top(Self.ci).f \in Functions \ {"lua"}
      /\ Front(Self.ci) = SubSeq(Self.ci, 1, Len(Self.ci) - 1)
  BY ReturningFacts
<1>2. native[n].at = Len(Self.ci) /\ Owner(native, Self, n) /\ e \in Base .. n /\ Base \in Nat
  BY <1>1, CalledOnTop
<1>3. Self.ci[Len(Self.ci)].f = "handler" /\ native[e].k = "cont" /\ n = e + 1 /\ e # n
  BY <1>1, <1>2 DEF Owner
<1> HIDE DEF e
<1>4. /\ e = Base + 1 /\ at \in 1 .. Len(Self.ci) /\ m \in Nat \ {0} /\ m <= Len(Self.ci)
      /\ m <= Upto(native, n, Self, Base) /\ Self.ci[m].f \in Functions
      /\ Here(native, base, e) = Here(native, base, Base) /\ Here(native, base, Base) \in Int
  BY <1>1, <1>2, <1>3, ContinuingFacts
<1>5. at \in Nat /\ at < native[n].at
  <2>1. e \in Base .. n - 1 /\ n \in Base .. n
    BY <1>1, <1>2, <1>3
  <2>2. Pos(native[e]) < native[n].at /\ Pos(native[e]) \in Nat
    BY <2>1, <1>1, <1>2, StandingFacts
  <2>3. at \in Nat /\ at <= native[e].ci /\ native[e].ci = Pos(native[e])
    BY <1>1, <1>2, <1>3, StandingFacts
  <2> QED BY <2>2, <2>3, <1>1, <1>2
<1> HIDE DEF at
<1>6. m < Len(Self.ci) /\ l \in Nat /\ l < native[n].at /\ at <= l /\ l <= Len(Self.ci)
  <2> DEFINE L == Len(Self.ci)
  <2>1. L \in Nat \ {0} /\ at < L /\ native[n].at = L
    BY <1>1, <1>2, <1>5
  <2> HIDE DEF L
  <2>2. at - 1 < L /\ L - 1 \in Nat /\ L - 1 < L /\ at <= L - 1 /\ L - 1 <= L
    BY <2>1, <1>5
  <2> QED BY <2>1, <2>2 DEF L
<1>7. /\ y \in LooseType /\ y.ci = SubSeq(Self.ci, 1, m) /\ y.status = Self.status /\ y.fresh = Self.fresh
      /\ y.nC = Self.nC - 1 /\ y.baseC = Self.baseC
  <2>1. Self.ci[at - 1].f \notin Guards
    BY <1>4 DEF Functions, Guards
  <2> HIDE DEF y
  <2> QED BY <2>1, <1>1, <1>4, <1>5, <1>6, PoppedContFits DEF y
<1>8. th' = [th EXCEPT ![Running] = y]
  BY DEF at, e
<1> HIDE DEF y, m, l
<1>9. y.nC >= Here(native, base, Base)
  <2>1. /\ base \in Int
        /\ Self.nC >= Here(native, base, n) + Over(native, Base, n) + (IF native[n].k = "pcall" THEN 1 ELSE 0)
        /\ Over(native, Base, n) \in {0, 1} /\ Self.nC \in Int
    <3>1. n \in Base .. n
      BY <1>1, <1>2
    <3> QED BY <3>1, <1>1, LinkedCounts
  <2> HIDE DEF base
  <2>2. Here(native, base, n) = Here(native, base, e) + 1
    <3>1. Stepping(native, Base, n, Self, e, n, base)
      BY <2>1, <1>1, <1>2, <1>3 DEF Stepping
    <3> QED BY <3>1, StepDown
  <2> QED BY <2>1, <2>2, <1>4, <1>7, SMTT(30)
<1>10. Rewound(m, y)
  <2>1. \A i \in Base + 1 .. Len(native) : native[i].k # "pcall"
    <3>1. \A i \in Base + 1 .. n : i = e \/ i = n
      BY <1>1, <1>2, <1>3, <1>4, SMTT(30)
    <3> QED BY <3>1, <1>3
  <2>2. native' = SubSeq(native, 1, Base)
    <3>1. n - 2 = Base
      BY <1>1, <1>2, <1>3, <1>4
    <3> QED BY <3>1
  <2> QED BY <2>1, <2>2, <1>1, <1>4, <1>7, <1>8, <1>9 DEF Rewound
<1>11. CoroutineInv'
  BY ReturnCont DEF PoppedCont
<1>12. LinkInv' /\ Mapped(Running, y) /\ KindsOf(y) = SubSeq(KindsOf(Self), 1, m)
  BY <1>10, <1>11, BaseCut
<1>13. Catching(native, Base, n, Self, e, l)
  <2>1. \A j \in e + 1 .. n : j = n
    BY <1>1, <1>3
  <2>2. Woven(native, Base, n, Self)
    BY <1>1 DEF Linked
  <2> QED BY <2>1, <2>2, <1>1, <1>2, <1>3, <1>6 DEF Catching
<1>14. Abstract!End(Running, SubSeq(KindsOf(Self), 1, l))
  BY <1>6, <1>12, <1>13, CaughtEnds DEF m, at
<1> QED BY <1>1, <1>3, <1>12, <1>14, ReturnEndMaps DEF l

\* The thread as luaB_xpcallcont leaves it.
LEMMA ContFailedFits ==
  ASSUME NEW x \in LooseType, NEW p \in RecordType, p.k = "cont", p.at - 1 \in Nat \ {0},
         p.at - 1 <= Len(x.ci), x.ci[p.at - 1].f \notin Guards
  PROVE  LET y == Continued(ContFailed(x, p))
         IN  /\ y \in LooseType /\ y.ci = SubSeq(x.ci, 1, p.at - 1) /\ y.status = x.status
             /\ y.fresh = x.fresh /\ y.nC = p.nC /\ y.baseC = x.baseC
<1> DEFINE w == SubSeq(x.ci, 1, p.at - 1)
           v == ContFailed(x, p)
<1>1. x.ci \in Seq(FrameType) /\ Len(x.ci) \in Nat
  BY LooseFields
<1>2. p.nC \in Int /\ p.active \in BOOLEAN /\ w \in Seq(FrameType)
  BY <1>1, RecordFields
<1>3. v = [x EXCEPT !.nC = p.nC, !.ci = w, !.active = p.active]
  BY DEF ContFailed
<1> HIDE DEF w, v
<1>4. /\ v \in LooseType /\ v.ci = w /\ v.status = x.status /\ v.fresh = x.fresh
      /\ v.nC = p.nC /\ v.baseC = x.baseC
  BY <1>2, <1>3 DEF LooseType
<1>5. /\ Continued(v) \in LooseType /\ Continued(v).ci = SubSeq(x.ci, 1, p.at - 1)
      /\ Continued(v).status = v.status /\ Continued(v).fresh = v.fresh
      /\ Continued(v).nC = v.nC /\ Continued(v).baseC = v.baseC
  BY <1>1, <1>4, ContinuedSame DEF w
<1> QED BY <1>4, <1>5 DEF v

\* The error function of a continuation fails.
LEMMA InContMaps ==
  ASSUME CoroutineInv, LinkInv, native # <<>>, signal # "none",
         native[Catcher].k = "cont", InCont(Catcher)
  PROVE  LinkInv' /\ Abstract!Next
<1> DEFINE c == Catcher
           n == Len(native)
           at == native[c].at
           m == at - 1
           y == Continued(ContFailed(Self, native[c]))
           base == Started0(native, Base, n, Self)
           K == KindsOf(Self)
           h == native[c + 1].at
           l == h - 1
<1>1. CoroutineInv' /\ signal' = "none" /\ th' = [th EXCEPT ![Running] = y]
      /\ native' = SubSeq(native, 1, c - 1)
  BY InContKeeps DEF InCont, Set
<1>2. /\ Standing(native, Base, n, Self) /\ Woven(native, Base, n, Self)
      /\ Linked(native, Base, n, Self)
      /\ Self \in LooseType /\ ~Self.fresh /\ Self.status = "ok"
      /\ Len(Self.ci) \in Nat /\ n \in Nat /\ Base \in Nat
  BY RunningLinked, LooseFields DEF Linked
<1>3. /\ c \in Base .. n /\ c \in Nat /\ native[c].k = "cont" /\ native[c] \in RecordType
      /\ \A j \in c + 1 .. n : native[j].k = "call"
  BY CatcherFacts
<1> HIDE DEF c, base
<1>4. /\ c = Base + 1 /\ at \in 1 .. Len(Self.ci) /\ m \in Nat \ {0} /\ m <= Len(Self.ci)
      /\ m <= Upto(native, n, Self, Base) /\ Self.ci[m].f \in Functions
      /\ Here(native, base, c) = Here(native, base, Base) /\ Here(native, base, Base) \in Int
  BY <1>3, ContinuingFacts DEF base
<1>5. /\ y \in LooseType /\ y.ci = SubSeq(Self.ci, 1, m) /\ y.status = Self.status
      /\ y.fresh = Self.fresh /\ y.nC = native[c].nC /\ y.baseC = Self.baseC
  <2>1. Self.ci[native[c].at - 1].f \notin Guards
    BY <1>4 DEF Functions, Guards
  <2> HIDE DEF y
  <2> QED BY <2>1, <1>2, <1>3, <1>4, ContFailedFits DEF y
<1> HIDE DEF y
<1>6. y.nC >= Here(native, base, Base)
  <2>1. /\ native[c].nC >= Here(native, base, c) + Over(native, Base, c)
        /\ Over(native, Base, c) \in {0, 1}
    BY <1>2, <1>3, LinkedCounts DEF base
  <2>2. native[c].nC \in Int
    BY <1>3, RecordFields
  <2> QED BY <2>1, <2>2, <1>4, <1>5
<1>7. Rewound(m, y)
  <2>1. \A i \in Base + 1 .. Len(native) : native[i].k # "pcall"
    <3>1. \A i \in Base + 1 .. n : i = c \/ i \in c + 1 .. n
      BY <1>2, <1>4
    <3> QED BY <3>1, <1>3
  <2>2. native' = SubSeq(native, 1, Base)
    <3>1. c - 1 = Base
      BY <1>2, <1>4
    <3> QED BY <3>1, <1>1
  <2> QED BY <2>1, <2>2, <1>1, <1>2, <1>4, <1>5, <1>6 DEF Rewound, base
<1>8. LinkInv' /\ Mapped(Running, y) /\ KindsOf(y) = SubSeq(K, 1, m)
  BY <1>1, <1>7, BaseCut
<1> HIDE DEF K
<1>9. /\ h \in 1 .. Len(Self.ci) /\ l \in Nat /\ l <= Len(Self.ci)
      /\ Abstract!Innermost(K, h) /\ K[h] = "handler" /\ Abstract!Below(K, h) = SubSeq(K, 1, l)
      /\ \A j \in c + 1 .. n : native[j].at \in Nat /\ l < native[j].at
      /\ Pos(native[c]) < h
  BY <1>3, HandlerHit DEF K
<1> HIDE DEF h
<1>10. at <= l
  <2>1. at \in Nat /\ at <= native[c].ci /\ native[c].ci = Pos(native[c]) /\ Pos(native[c]) \in Nat
    BY <1>2, <1>3, StandingFacts
  <2> HIDE DEF at
  <2> QED BY <2>1, <1>9
<1> HIDE DEF l
<1>11. Catching(native, Base, n, Self, c, l)
  BY <1>2, <1>3, <1>9 DEF Catching
<1>12. Abstract!End(Running, SubSeq(K, 1, l))
  BY <1>8, <1>10, <1>11, CaughtEnds DEF K
<1> QED BY <1>1, <1>8, <1>9, <1>12, CatchMaps DEF K

-----------------------------------------------------------------------------
(* Errors that reach lua_resume. *)

\* A thread with no record but calls, and its last frame that is flagged.
Found(i) ==
  /\ native # <<>> /\ native[Catcher].k = "resume" /\ i \in Handlers(Self)
  /\ \A k \in Handlers(Self) : k <= i

\* That frame is the innermost protected call.
LEMMA FoundFacts ==
  ASSUME CoroutineInv, LinkInv, NEW i, Found(i), NEW n, n = Len(native)
  PROVE  /\ Catcher = Base /\ Base \in 1 .. n /\ Base \in Nat /\ n \in Nat /\ Len(Self.ci) \in Nat
         /\ Standing(native, Base, n, Self) /\ Linked(native, Base, n, Self)
         /\ Self \in LooseType /\ ~Self.fresh /\ Self.status = "ok" /\ Self.ci \in Seq(FrameType)
         /\ \A j \in Base + 1 .. n : native[j].k = "call"
         /\ i \in 1 .. Len(Self.ci) /\ Self.ci[i].f \in Guards /\ Self.ci[i].handle
         /\ \A k \in 1 .. Len(Self.ci) : Self.ci[k].handle => k <= i
         /\ i - 1 \in Nat \ {0} /\ i - 1 <= Len(Self.ci) /\ Self.ci[i - 1].f \in Functions
         /\ i - 1 <= Upto(native, n, Self, Base)
         /\ Abstract!Innermost(KindsOf(Self), i) /\ KindsOf(Self)[i] = Self.ci[i].f
         /\ Abstract!Below(KindsOf(Self), i) = SubSeq(KindsOf(Self), 1, i - 1)
         /\ Here(native, Started0(native, Base, n, Self), Base) = Self.baseC /\ Self.baseC \in Int
         /\ native[Base].t = Running /\ native # <<>>
<1> DEFINE K == KindsOf(Self)
           m == i - 1
<1>1. /\ Standing(native, Base, n, Self) /\ Linked(native, Base, n, Self)
      /\ Woven(native, Base, n, Self) /\ Shaped(Self)
      /\ Self \in LooseType /\ ~Self.fresh /\ Self.status = "ok"
      /\ Self.ci \in Seq(FrameType) /\ Len(Self.ci) \in Nat
      /\ n \in Nat /\ Base \in Nat /\ Base \in 1 .. n
  <2>1. native # <<>>
    BY DEF Found
  <2> QED BY <2>1, RunningLinked, LooseFields DEF Linked
<1>2. Catcher = Base /\ \A j \in Base + 1 .. n : native[j].k = "call"
  <2>1. Catcher = Base
    BY ResumeCounts DEF Found
  <2>2. \A j \in Catcher + 1 .. n : native[j].k = "call"
    BY CatcherFacts DEF Found
  <2> QED BY <2>1, <2>2
<1>3. /\ i \in 1 .. Len(Self.ci) /\ Self.ci[i].handle
      /\ \A k \in 1 .. Len(Self.ci) : Self.ci[k].handle => k <= i
  <2>1. DOMAIN Self.ci = 1 .. Len(Self.ci)
    BY <1>1
  <2> QED BY <2>1 DEF Found, Handlers
<1>4. native[Base].k = "resume"
  BY <1>1, StandingFacts
<1>a. \A j \in Base .. n : j = Base \/ j \in Base + 1 .. n
  BY <1>1
<1>b. \A j \in Base + 1 .. n : j - 1 = Base \/ j - 1 \in Base + 1 .. n
  BY <1>1
<1>c. \A j \in Base .. n : native[j].k \notin {"pcall", "cont", "errh"}
  BY <1>a, <1>2, <1>4
<1>d. \A j \in Base + 1 .. n : native[j - 1].k \notin {"pcall", "cont", "errh"}
  BY <1>b, <1>2, <1>4
<1>5. \A k \in 1 .. Len(Self.ci) : Self.ci[k].handle <=> Self.ci[k].f \in Guards
  BY <1>1, <1>c DEF Woven, Placed
<1>6. \A k \in 1 .. Len(Self.ci) : Self.ci[k].f # "handler"
  BY <1>1, <1>d, SMTT(30) DEF Woven, Placed
<1>7. m \in Nat \ {0} /\ m <= Len(Self.ci) /\ Self.ci[m].f \in Functions
  <2>1. m # 0 /\ Self.ci[m].f \in Functions
    BY <1>1, <1>3, <1>5, GuardsStandOn
  <2> QED BY <2>1, <1>1, <1>3
<1>8. m <= Upto(native, n, Self, Base)
  <2>1. CASE Base = n
    BY <2>1, <1>7 DEF Upto
  <2>2. CASE Base # n
    <3>1. Base + 1 \in Base .. n /\ Base + 1 \in Base + 1 .. n
      BY <2>2, <1>1
    <3>2. Placed(native, Base, n, Self, i) /\ Self.ci[i].f \in Guards
      BY <1>1, <1>3, <1>5 DEF Woven
    <3>3. i < native[Base + 1].at
      BY <3>1, <3>2, <1>2, <1>c DEF Placed
    <3>4. native[Base + 1].at \in Nat
      BY <3>1, <1>1, <1>2, StandingFacts
    <3>5. Upto(native, n, Self, Base) = native[Base + 1].at - 1
      BY <2>2 DEF Upto
    <3> DEFINE a == native[Base + 1].at
    <3>6. i - 1 <= a - 1
      <4>1. i < a /\ a \in Nat /\ i \in Nat
        BY <3>3, <3>4, <1>3
      <4> HIDE DEF a
      <4> QED BY <4>1
    <3> QED BY <3>5, <3>6
  <2> QED BY <2>1, <2>2
<1>9. Abstract!Innermost(K, i) /\ K[i] = Self.ci[i].f /\ Abstract!Below(K, i) = SubSeq(K, 1, m)
  <2>1. /\ DOMAIN K = 1 .. Len(Self.ci)
        /\ \A k \in 1 .. Len(Self.ci) : K[k] = Self.ci[k].f
    BY RunningMapped DEF K, Found
  <2> HIDE DEF K
  <2>2. \A k \in Abstract!Catchers(K) : k <= i
    <3> SUFFICES ASSUME NEW k \in Abstract!Catchers(K) PROVE k <= i
      OBVIOUS
    <3>1. k \in 1 .. Len(Self.ci) /\ Self.ci[k].f \in Guards \cup {"handler"}
      BY <2>1 DEF Abstract!Catchers, Guards
    <3> QED BY <3>1, <1>3, <1>5, <1>6
  <2>3. i \in Abstract!Catchers(K)
    BY <2>1, <1>3, <1>5 DEF Abstract!Catchers, Guards
  <2> QED BY <2>1, <2>2, <2>3, <1>3 DEF Abstract!Innermost, Abstract!Below
<1>10. native[Base].t = Running /\ native # <<>>
  <2>1. native # <<>> /\ native[Base].t = native[n].t
    BY <1>1, StandingFacts DEF Found
  <2> QED BY <2>1 DEF Running, Top
<1>11. Here(native, Started0(native, Base, n, Self), Base) = Self.baseC /\ Self.baseC \in Int
  <2> DEFINE base == Base0(native, th, Running)
  <2>1. /\ Here(native, base, Catcher) = base /\ Self.baseC = base /\ base \in 1 .. HardC - 1
    BY <1>10, ResumeCounts DEF Found
  <2>2. Started0(native, Base, n, Self) = base
    BY <1>10 DEF Started0, Base0, Self
  <2> HIDE DEF base
  <2>3. base \in Int
    BY <2>1
  <2> QED BY <2>1, <2>2, <2>3, <1>2
<1> QED BY <1>1, <1>2, <1>3, <1>5, <1>7, <1>8, <1>9, <1>10, <1>11

\* resume_handle takes the counters of lua_resume.
LEMMA HandledFrames ==
  ASSUME NEW x \in LooseType, NEW i \in 1 .. Len(x.ci)
  PROVE  LET y == Handling(x, i)
         IN  /\ y \in LooseType /\ Len(y.ci) = Len(x.ci) /\ y.status = "ok" /\ y.fresh = x.fresh
             /\ y.nC = x.baseC /\ y.baseC = x.baseC
             /\ y.ci[i] = Frame(x.ci[i].f)
             /\ \A k \in 1 .. Len(x.ci) : k # i => y.ci[k] = x.ci[k]
<1> DEFINE fr == [x.ci[i] EXCEPT !.handle = FALSE]
           w == [x.ci EXCEPT ![i] = fr]
<1>1. x.ci \in Seq(FrameType) /\ Len(x.ci) \in Nat /\ x.baseC \in Int
  BY LooseFields
<1>2. fr \in FrameType /\ fr = Frame(x.ci[i].f)
  <2> DEFINE g == x.ci[i]
  <2>1. g \in FrameType
    BY <1>1
  <2>a. fr = [g EXCEPT !.handle = FALSE]
    OBVIOUS
  <2> HIDE DEF g, fr
  <2>2. g.f \in FrameKinds /\ fr = [f |-> g.f, handle |-> FALSE]
    BY <2>1, <2>a DEF FrameType
  <2> QED BY <2>2 DEF FrameType, Frame, g
<1> HIDE DEF fr
<1>3. w \in Seq(FrameType) /\ Len(w) = Len(x.ci) /\ w[i] = fr
      /\ \A k \in 1 .. Len(x.ci) : k # i => w[k] = x.ci[k]
  BY <1>1, <1>2
<1>4. Handling(x, i) = [x EXCEPT !.nC = x.baseC, !.status = "ok", !.ci = w]
  BY DEF Handling, LooseType, fr
<1> HIDE DEF w
<1>5. /\ Handling(x, i) \in LooseType /\ Handling(x, i).ci = w /\ Handling(x, i).status = "ok"
      /\ Handling(x, i).fresh = x.fresh
      /\ Handling(x, i).nC = x.baseC /\ Handling(x, i).baseC = x.baseC
  BY <1>1, <1>3, <1>4 DEF LooseType
<1> QED BY <1>2, <1>3, <1>5

\* The pcall or xpcall of a flagged frame fails, without its error function.
LEMMA FoundMaps ==
  ASSUME CoroutineInv, CoroutineInv', LinkInv, signal # "none", signal' = "none", NEW i, Found(i),
         NEW y, y = Continued([Handling(Self, i) EXCEPT !.ci = SubSeq(@, 1, i - 1)]),
         th' = [th EXCEPT ![Running] = y], native' = SubSeq(native, 1, Catcher)
  PROVE  LinkInv' /\ Abstract!Next
<1> DEFINE n == Len(native)
           m == i - 1
           K == KindsOf(Self)
           x == Handling(Self, i)
           w == SubSeq(Self.ci, 1, m)
           q == [x EXCEPT !.ci = w]
<1>1. /\ Catcher = Base /\ Base \in 1 .. n /\ native # <<>>
      /\ Self \in LooseType /\ ~Self.fresh /\ Self.ci \in Seq(FrameType) /\ Len(Self.ci) \in Nat
      /\ \A j \in Base + 1 .. n : native[j].k = "call"
      /\ i \in 1 .. Len(Self.ci) /\ Self.ci[i].f \in Guards
      /\ m \in Nat \ {0} /\ m <= Len(Self.ci) /\ Self.ci[m].f \in Functions
      /\ m <= Upto(native, n, Self, Base)
      /\ Abstract!Innermost(K, i) /\ K[i] = Self.ci[i].f
      /\ Abstract!Below(K, i) = SubSeq(K, 1, m)
      /\ Here(native, Started0(native, Base, n, Self), Base) = Self.baseC /\ Self.baseC \in Int
  BY FoundFacts
<1>2. /\ x \in LooseType /\ Len(x.ci) = Len(Self.ci) /\ x.status = "ok" /\ x.fresh = Self.fresh
      /\ x.nC = Self.baseC /\ x.baseC = Self.baseC
      /\ \A k \in 1 .. Len(Self.ci) : k # i => x.ci[k] = Self.ci[k]
  BY <1>1, HandledFrames
<1>a. y = Continued([x EXCEPT !.ci = SubSeq(x.ci, 1, m)])
  OBVIOUS
<1>b. th' = [th EXCEPT ![Running] = y] /\ native' = SubSeq(native, 1, Catcher)
  OBVIOUS
<1>3. SubSeq(x.ci, 1, m) = w
  <2>1. x.ci \in Seq(FrameType) /\ m \in Nat /\ m < i /\ m <= Len(x.ci)
    BY <1>1, <1>2, LooseFields
  <2>2. \A k \in 1 .. m : k \in 1 .. Len(Self.ci) /\ k # i
    BY <1>1
  <2> HIDE DEF x
  <2> DEFINE v == x.ci
             u == SubSeq(v, 1, m)
  <2>3. \A k \in 1 .. m : v[k] = Self.ci[k]
    BY <2>2, <1>2
  <2>4. v \in Seq(FrameType) /\ m \in Nat /\ m <= Len(v)
    BY <2>1
  <2> HIDE DEF v, m
  <2>5. u \in Seq(FrameType) /\ Len(u) = m /\ \A k \in 1 .. m : u[k] = v[k]
    BY <2>4
  <2>6. w \in Seq(FrameType) /\ Len(w) = m /\ \A k \in 1 .. m : w[k] = Self.ci[k]
    BY <1>1, SMTT(30)
  <2>7. \A k \in 1 .. m : u[k] = w[k]
    BY <2>3, <2>5, <2>6
  <2> HIDE DEF u, w
  <2>8. u = w
    BY <2>4, <2>5, <2>6, <2>7, SeqEqual
  <2> QED BY <2>8 DEF u, v
<1> HIDE DEF x, m
<1>4. w \in Seq(FrameType) /\ m \in Nat
  BY <1>1
<1>5. /\ q \in LooseType /\ q.ci = w /\ q.status = "ok" /\ q.fresh = Self.fresh
      /\ q.nC = Self.baseC /\ q.baseC = Self.baseC
  <2> HIDE DEF w, q
  <2>1. q = [x EXCEPT !.ci = w]
    BY DEF q
  <2> QED BY <2>1, <1>2, <1>4, FramesAssigned
<1>6. y = Continued(q)
  BY <1>a, <1>3
<1> HIDE DEF q
<1>7. /\ Continued(q) \in LooseType /\ Continued(q).ci = SubSeq(Self.ci, 1, m)
      /\ Continued(q).status = q.status /\ Continued(q).fresh = q.fresh
      /\ Continued(q).nC = q.nC /\ Continued(q).baseC = q.baseC
  <2>1. Self.ci[m].f \notin Guards
    BY <1>1 DEF Functions, Guards
  <2> QED BY <2>1, <1>1, <1>5, ContinuedSame
<1>8. Rewound(m, y)
  <2>1. y.nC >= Here(native, Started0(native, Base, n, Self), Base)
    BY <1>1, <1>5, <1>6, <1>7
  <2>2. /\ y \in LooseType /\ y.ci = SubSeq(Self.ci, 1, m) /\ y.status = "ok" /\ ~y.fresh
        /\ y.baseC = Self.baseC
    BY <1>1, <1>5, <1>6, <1>7
  <2>3. \A j \in Base + 1 .. Len(native) : native[j].k # "pcall"
    BY <1>1
  <2> QED BY <2>1, <2>2, <2>3, <1>1, <1>b DEF Rewound
<1>9. LinkInv' /\ Mapped(Running, y) /\ KindsOf(y) = SubSeq(K, 1, m)
  BY <1>1, <1>8, BaseCut
<1>10. K[i] # "handler" /\ KindsOf(y) = Abstract!Below(K, i)
  BY <1>1, <1>9 DEF Guards
<1> QED BY <1>1, <1>9, <1>10, CatchMaps

\* The kinds of the frames are those of another thread.
LEMMA KindsSame ==
  ASSUME NEW x \in LooseType, NEW y \in LooseType, x.status \in {"ok", "yield"},
         y.status \in {"ok", "yield"}, Len(y.ci) = Len(x.ci),
         \A k \in 1 .. Len(x.ci) : y.ci[k].f = x.ci[k].f
  PROVE  KindsOf(y) = KindsOf(x)
<1> DEFINE K == KindsOf(x)
           L == KindsOf(y)
<1>1. /\ K \in Seq(FrameKinds) /\ Len(K) = Len(x.ci) /\ Len(x.ci) \in Nat
      /\ \A k \in 1 .. Len(x.ci) : K[k] = x.ci[k].f
  BY KindsFacts
<1>2. /\ L \in Seq(FrameKinds) /\ Len(L) = Len(y.ci)
      /\ \A k \in 1 .. Len(y.ci) : L[k] = y.ci[k].f
  BY KindsFacts
<1> HIDE DEF K, L
<1>3. \A k \in 1 .. Len(x.ci) : L[k] = K[k]
  BY <1>1, <1>2
<1>4. L = K
  BY <1>1, <1>2, <1>3, SeqEqual
<1> QED BY <1>4 DEF K, L

\* luaB_xpcallcont calls the error function of a flagged frame.
Handled(i) == Handling(Self, i)
Helper(i) == Push(Counted(Handled(i)), <<Frame("handler")>>)

\* That handler runs in the abstract module too, on top of what the error left.
LEMMA HelperMaps ==
  ASSUME CoroutineInv, CoroutineInv', LinkInv, signal # "none", signal' = "none", NEW i, Found(i),
         Handled(i).ci[i].f = "xpcall", th' = [th EXCEPT ![Running] = Helper(i)],
         native' = SubSeq(native, 1, Catcher)
                     \o <<ContRec(Running, Handled(i), i), CallRec(Running, Helper(i))>>
  PROVE  LinkInv' /\ Abstract!Next
<1> DEFINE n == Len(native)
           K == KindsOf(Self)
           L == Len(Self.ci)
           x == Handled(i)
           z == Helper(i)
           r == ContRec(Running, x, i)
           s == CallRec(Running, z)
           b == Base
<1>1. /\ Catcher = b /\ b \in 1 .. n /\ b \in Nat /\ n \in Nat /\ native # <<>> /\ L \in Nat
      /\ Standing(native, b, n, Self) /\ Linked(native, b, n, Self)
      /\ Self \in LooseType /\ ~Self.fresh /\ Self.status = "ok" /\ Self.ci \in Seq(FrameType)
      /\ \A j \in b + 1 .. n : native[j].k = "call"
      /\ i \in 1 .. L /\ Self.ci[i].f \in Guards /\ Self.ci[i].handle
      /\ \A k \in 1 .. L : Self.ci[k].handle => k <= i
      /\ Abstract!Innermost(K, i) /\ K[i] = Self.ci[i].f
      /\ native[b].t = Running /\ Self.baseC \in Int
  BY FoundFacts
<1>2. /\ x \in LooseType /\ Len(x.ci) = L /\ x.status = "ok" /\ x.fresh = Self.fresh
      /\ x.nC = Self.baseC /\ x.baseC = Self.baseC /\ x.ci[i] = Frame(Self.ci[i].f)
      /\ \A k \in 1 .. L : k # i => x.ci[k] = Self.ci[k]
  BY <1>1, HandledFrames DEF Handled
<1>3. Self.ci[i].f = "xpcall" /\ x.ci[i] = Frame("xpcall")
  <2>1. x.ci[i].f = Self.ci[i].f
    BY <1>2 DEF Frame
  <2> QED BY <2>1, <1>2
<1>a. x.ci \in Seq(FrameType)
  BY <1>2, LooseFields
<1> HIDE DEF x
<1>4. /\ z \in LooseType /\ z.ci = x.ci \o <<Frame("handler")>> /\ Len(z.ci) = L + 1
      /\ z.status = "ok" /\ z.nC = Self.baseC + 1 /\ z.baseC = Self.baseC
  <2>1. /\ z \in LooseType /\ z.ci = x.ci \o <<Frame("handler")>> /\ Len(z.ci) = Len(x.ci) + 1
        /\ z.status = x.status /\ z.nC = x.nC + 1 /\ z.baseC = x.baseC
    BY <1>2, HandlerFits DEF Helper, x
  <2> HIDE DEF z
  <2> QED BY <2>1, <1>2
<1>5. ~z.fresh
  <2>1. z.fresh = Counted(x).fresh
    BY <1>2, CountedFits DEF Helper, Push, LooseType, x
  <2>2. Counted(x).fresh = x.fresh
    BY <1>2, CountedFits
  <2> QED BY <2>1, <2>2, <1>1, <1>2
<1>6. /\ z.ci[L + 1] = Frame("handler") /\ \A k \in 1 .. L : z.ci[k] = x.ci[k]
  <2>1. Frame("handler") \in FrameType
    BY FrameFits DEF FrameKinds
  <2>2. Above(x, z, Frame("handler"))
    BY <2>1, <1>2, <1>4, OneAbove
  <2> QED BY <2>2, <1>2 DEF Above
<1>7. /\ r.k = "cont" /\ r.t = Running /\ r.at = i /\ r.ci = L /\ r.nC = Self.baseC
  BY <1>2 DEF ContRec, PcallRec
<1>8. s.k = "call" /\ s.t = Running /\ s.at = L + 1
  BY <1>4 DEF CallRec
<1>b. th' = [th EXCEPT ![Running] = z] /\ native' = SubSeq(native, 1, b) \o <<r, s>>
  BY <1>1 DEF x
<1>c. native \in Seq(RecordType) /\ native' \in Seq(RecordType)
  BY <1>1 DEF Standing, CoroutineInv, TypeOK
<1> HIDE DEF z, r, s, L, K, b, n
<1>9. /\ Len(native') = b + 2 /\ native' # <<>> /\ native'[b + 1] = r /\ native'[b + 2] = s
      /\ \A j \in 1 .. b : native'[j] = native[j]
  <2> DEFINE w == SubSeq(native, 1, b)
  <2>1. w \in Seq(RecordType) /\ Len(w) = b /\ \A j \in 1 .. b : w[j] = native[j]
    BY <1>1, <1>c DEF n
  <2>2. native' = w \o <<r, s>>
    BY <1>b
  <2> HIDE DEF w
  <2> QED BY <2>1, <2>2, <1>1
<1>10. Agree(native, native', b)
  BY <1>9 DEF Agree
<1>d. /\ native'[b + 1].k = "cont" /\ native'[b + 1].t = Running /\ native'[b + 1].at = i
      /\ native'[b + 1].ci = L /\ native'[b + 1].nC = Self.baseC
      /\ native'[b + 2].k = "call" /\ native'[b + 2].t = Running /\ native'[b + 2].at = L + 1
  BY <1>7, <1>8, <1>9
<1>11. Going(native, b, n, Self, i, native', z)
  <2>1. /\ z.ci[i] = Frame("xpcall") /\ z.ci[L + 1] = Frame("handler")
        /\ \A k \in 1 .. L : k # i => z.ci[k] = Self.ci[k]
    BY <1>1, <1>2, <1>3, <1>6, ZenonT(60)
  <2>2. z \in LooseType /\ Len(z.ci) = L + 1 /\ Self.ci[i].f = "xpcall" /\ Self.ci[i].handle
        /\ i \in 1 .. L /\ \A k \in 1 .. L : Self.ci[k].handle => k <= i
    BY <1>1, <1>3, <1>4
  <2> HIDE DEF Self
  <2> QED BY <2>1, <2>2, <1>1, <1>10, <1>d DEF Going, L
<1>12. Linked(native', b, b + 2, z)
  <2>1. /\ native'[b + 1].t = native[b].t /\ native'[b + 2].t = native[b].t
        /\ native'[b + 1].nC = Self.baseC /\ z.baseC = Self.baseC
    BY <1>1, <1>4, <1>d
  <2>2. z.nC >= Self.baseC + 1
    BY <1>1, <1>4
  <2>3. Linked(native, b, n, Self) /\ ~z.fresh
    BY <1>1, <1>5
  <2> DEFINE s2 == native'
             x2 == Self
  <2>4. /\ Going(native, b, n, x2, i, s2, z) /\ Linked(native, b, n, x2) /\ ~z.fresh
        /\ s2[b + 1].t = native[b].t /\ s2[b + 2].t = native[b].t
        /\ s2[b + 1].nC = x2.baseC /\ z.baseC = x2.baseC /\ z.nC >= x2.baseC + 1
    BY <2>1, <2>2, <2>3, <1>11
  <2> HIDE DEF s2, x2
  <2>5. Linked(s2, b, b + 2, z)
    BY <2>4, LinkedCont
  <2> QED BY <2>5 DEF s2
<1>13. Segment(native', b, Len(native'))
  <2>1. \A j \in b .. b + 2 : j = b \/ j = b + 1 \/ j = b + 2
    BY <1>1, SMTT(30)
  <2>2. b \in 1 .. b + 2 /\ b \in 1 .. b
    BY <1>1
  <2>3. native'[b].k = "resume" /\ native'[b].t = Running
    <3>1. native[b].k = "resume"
      BY <1>1, StandingFacts
    <3>2. native'[b] = native[b]
      BY <2>2, <1>9
    <3> QED BY <3>1, <3>2, <1>1
  <2>4. b + 1 # b /\ b + 2 # b
    BY <1>1
  <2>5. \A j \in b .. b + 2 : native'[j].t = Running /\ (j # b => native'[j].k # "resume")
    BY <2>1, <2>3, <2>4, <1>d
  <2> QED BY <2>2, <2>3, <2>5, <1>d, <1>9 DEF Segment
<1>14. z.ci # <<>> /\ Top(z.ci).f \in Functions
  <2>1. z.ci # <<>> /\ Top(z.ci) = Frame("handler")
    BY <1>1, <1>4, <1>6 DEF Top
  <2> QED BY <2>1 DEF Frame, Functions
<1>15. LinkInv' /\ Mapped(Running, z)
  <2>1. Linked(native', b, Len(native'), z)
    BY <1>9, <1>12
  <2> QED BY <2>1, <1>1, <1>9, <1>10, <1>13, <1>14, <1>b, InnerStep DEF b
<1>16. KindsOf(x) = K
  <2>1. \A k \in 1 .. L : x.ci[k].f = Self.ci[k].f
    BY <1>2, <1>3, SMTT(30) DEF Frame
  <2> QED BY <2>1, <1>1, <1>2, KindsSame DEF L, K
<1>17. KindsOf(z) = Append(K, "handler")
  <2>1. Above(x, z, Frame("handler"))
    BY <1>2, <1>4, <1>6 DEF Above
  <2>2. KindsOf(z) = Append(KindsOf(x), Frame("handler").f)
    BY <2>1, <1>2, <1>4, KindsAbove
  <2> QED BY <2>2, <1>16 DEF Frame
<1> QED BY <1>1, <1>3, <1>15, <1>17, CatchMaps DEF K, L

\* luaD_pcall calls the error function of xpcall.
Assisted == Push(Counted(Self), <<Frame("handler")>>)

\* The abstract module runs it on top of the frames that the error left.
LEMMA AssistedMaps ==
  ASSUME CoroutineInv, CoroutineInv', LinkInv, native # <<>>, signal # "none", signal' = "none",
         NEW c, c = Catcher, native[c].k = "pcall", native[c].errf = "xpcall",
         th' = [th EXCEPT ![Running] = Assisted],
         native' = SubSeq(native, 1, c) \o <<ErrhRec(Running, Self), CallRec(Running, Assisted)>>
  PROVE  LinkInv' /\ Abstract!Next
<1> DEFINE n == Len(native)
           K == KindsOf(Self)
           L == Len(Self.ci)
           z == Assisted
           r == ErrhRec(Running, Self)
           s == CallRec(Running, z)
           b == Base
           i == native[c].at
<1>1. /\ Standing(native, b, n, Self) /\ Linked(native, b, n, Self) /\ Woven(native, b, n, Self)
      /\ Self \in LooseType /\ ~Self.fresh /\ Self.status = "ok" /\ Self.nC \in Int
      /\ L \in Nat /\ n \in Nat /\ b \in Nat /\ b \in 1 .. n /\ native \in Seq(RecordType)
      /\ native[n].t = Running
  BY RunningLinked, LooseFields DEF Linked, Stacked
<1>2. c \in b .. n /\ c \in Nat /\ c \in 1 .. n /\ \A j \in c + 1 .. n : native[j].k = "call"
  BY CatcherFacts
<1>3. native[b].t = Running /\ native[b].k = "resume" /\ \A j \in b .. n : native[j].t = Running
  BY <1>1, StandingFacts, SMTT(30)
<1>4. Catching(native, b, n, Self, c, L)
  <2>1. ASSUME NEW j \in c + 1 .. n PROVE native[j - 1].k \notin {"errh", "cont"}
    <3>1. j - 1 = c \/ j - 1 \in c + 1 .. n
      BY <1>1, <1>2
    <3> QED BY <3>1, <1>2
  <2>2. L <= L
    BY <1>1
  <2> HIDE DEF L
  <2> QED BY <2>1, <2>2, <1>1, <1>2 DEF Catching, L
<1>5. /\ i \in 1 .. L /\ Self.ci[i].f \in Guards
      /\ \A k \in i + 1 .. L : Self.ci[k].f \notin Guards \cup {"handler"}
  BY <1>4, CatchingFrames
<1>6. Self.ci[i].f = "xpcall"
  <2>1. Owner(native, Self, c)
    BY <1>1, <1>2 DEF Woven
  <2> QED BY <2>1 DEF Owner
<1>7. Abstract!Innermost(K, i) /\ K[i] = "xpcall" /\ i \in 1 .. Len(Self.ci)
  <2>1. DOMAIN K = 1 .. L /\ \A k \in 1 .. L : K[k] = Self.ci[k].f
    BY RunningMapped
  <2> HIDE DEF K, i
  <2>2. \A k \in Abstract!Catchers(K) : k <= i
    <3> SUFFICES ASSUME NEW k \in Abstract!Catchers(K) PROVE k <= i
      OBVIOUS
    <3>1. k \in 1 .. L /\ Self.ci[k].f \in Guards \cup {"handler"}
      BY <2>1 DEF Abstract!Catchers, Guards
    <3>2. ~(k \in i + 1 .. L)
      BY <3>1, <1>5
    <3> QED BY <3>1, <3>2, <1>1, <1>5
  <2>3. i \in Abstract!Catchers(K) /\ K[i] = "xpcall"
    BY <2>1, <1>5, <1>6 DEF Abstract!Catchers
  <2> QED BY <2>2, <2>3, <1>5 DEF Abstract!Innermost
<1>8. /\ z \in LooseType /\ z.ci = Self.ci \o <<Frame("handler")>> /\ Len(z.ci) = L + 1
      /\ z.status = "ok" /\ z.nC = Self.nC + 1 /\ z.baseC = Self.baseC
  <2>1. /\ z \in LooseType /\ z.ci = Self.ci \o <<Frame("handler")>> /\ Len(z.ci) = Len(Self.ci) + 1
        /\ z.status = Self.status /\ z.nC = Self.nC + 1 /\ z.baseC = Self.baseC
    BY <1>1, HandlerFits DEF Assisted
  <2> HIDE DEF z
  <2> QED BY <2>1, <1>1
<1>9. ~z.fresh
  <2>1. z.fresh = Counted(Self).fresh
    BY <1>1, CountedFits DEF Assisted, Push, LooseType
  <2>2. Counted(Self).fresh = Self.fresh
    BY <1>1, CountedFits
  <2> QED BY <2>1, <2>2, <1>1
<1>10. Above(Self, z, Frame("handler")) /\ z.ci # <<>> /\ Top(z.ci) = Frame("handler")
  <2>1. Frame("handler") \in FrameType
    BY FrameFits DEF FrameKinds
  <2>2. Above(Self, z, Frame("handler"))
    BY <2>1, <1>1, <1>8, OneAbove
  <2>3. Len(z.ci) = L + 1 /\ z.ci[L + 1] = Frame("handler")
    BY <2>2 DEF Above
  <2> QED BY <2>2, <2>3, <1>1 DEF Top
<1>11. r.k = "errh" /\ r.t = Running /\ r.ci = L
  BY DEF ErrhRec
<1>12. s.k = "call" /\ s.t = Running /\ s.at = L + 1
  BY <1>8 DEF CallRec
<1>a. th' = [th EXCEPT ![Running] = z] /\ native' = SubSeq(native, 1, c) \o <<r, s>>
  OBVIOUS
<1>b. Self.ci # <<>>
  BY <1>1, <1>5
<1> HIDE DEF z, r, s, L, K, b, n
<1>13. /\ Len(native') = c + 2 /\ native' # <<>> /\ native'[c + 1] = r /\ native'[c + 2] = s
       /\ \A j \in 1 .. c : native'[j] = native[j]
  <2> DEFINE w == SubSeq(native, 1, c)
  <2>1. w \in Seq(RecordType) /\ Len(w) = c /\ \A j \in 1 .. c : w[j] = native[j]
    BY <1>1, <1>2 DEF n
  <2>2. native' = w \o <<r, s>>
    BY <1>a
  <2> HIDE DEF w
  <2> QED BY <2>1, <2>2, <1>2
<1>14. Agree(native, native', c) /\ Agree(native, native', b)
  <2>1. \A j \in 1 .. b : j \in 1 .. c
    BY <1>1, <1>2
  <2> QED BY <2>1, <1>13 DEF Agree
<1>15. /\ native'[c + 1].k = "errh" /\ native'[c + 1].t = Running /\ native'[c + 1].ci = L
       /\ native'[c + 2].k = "call" /\ native'[c + 2].t = Running /\ native'[c + 2].at = L + 1
  BY <1>11, <1>12, <1>13
<1>16. Helping(native, b, n, Self, c, native', z)
  BY <1>1, <1>2, <1>10, <1>14, <1>15 DEF Helping, L
<1>17. Linked(native', b, c + 2, z)
  <2> DEFINE s2 == native'
             x2 == Self
  <2>1. z.nC >= Self.nC + 1
    BY <1>1, <1>8
  <2>2. /\ Helping(native, b, n, x2, c, s2, z) /\ Linked(native, b, n, x2) /\ ~z.fresh
        /\ s2[c + 1].t = native[b].t /\ s2[c + 2].t = native[b].t /\ x2.ci # <<>>
        /\ z.baseC = x2.baseC /\ z.nC >= x2.nC + 1
    BY <2>1, <1>1, <1>3, <1>8, <1>9, <1>15, <1>16, <1>b
  <2> HIDE DEF s2, x2
  <2>3. Linked(s2, b, c + 2, z)
    BY <2>2, LinkedErrh
  <2> QED BY <2>3 DEF s2
<1>18. Segment(native', b, Len(native'))
  <2>1. \A j \in b .. c + 2 : j \in b .. c \/ j = c + 1 \/ j = c + 2
    BY <1>1, <1>2
  <2>2. b \in 1 .. c + 2 /\ b # c + 1 /\ b # c + 2 /\ b \in b .. c /\ b \in 1 .. c
    BY <1>1, <1>2
  <2>3. ASSUME NEW j \in b .. c PROVE native'[j].t = Running /\ (j # b => native'[j].k # "resume")
    <3>1. j \in 1 .. c /\ j \in b .. n
      BY <1>1, <1>2
    <3>2. native[j].t = Running /\ (j # b => native[j].k # "resume")
      BY <3>1, <1>1, <1>3, StandingFacts, SMTT(30)
    <3> QED BY <3>1, <3>2, <1>13
  <2>4. native'[b].k = "resume"
    BY <2>2, <1>3, <1>13
  <2>5. \A j \in b .. c + 2 : native'[j].t = Running /\ (j # b => native'[j].k # "resume")
    BY <2>1, <2>3, <1>15
  <2> DEFINE s2 == native'
             e == c + 2
  <2>6. Len(s2) = e /\ s2[e].t = Running /\ s2[b].k = "resume" /\ b \in 1 .. e
    BY <2>2, <2>4, <1>13, <1>15
  <2>7. \A j \in b .. e : s2[j].t = Running /\ (j # b => s2[j].k # "resume")
    BY <2>5
  <2> HIDE DEF s2, e
  <2>8. Segment(s2, b, e)
    BY <2>6, <2>7 DEF Segment
  <2>9. Segment(s2, b, Len(s2))
    BY <2>6, <2>8
  <2> QED BY <2>9 DEF s2
<1>19. Top(z.ci).f \in Functions
  BY <1>10 DEF Frame, Functions
<1>20. LinkInv' /\ Mapped(Running, z)
  <2>1. Linked(native', b, Len(native'), z)
    BY <1>13, <1>17
  <2> QED BY <2>1, <1>10, <1>13, <1>14, <1>18, <1>19, <1>a, InnerStep DEF b
<1>21. KindsOf(z) = Append(K, "handler")
  <2>1. KindsOf(z) = Append(KindsOf(Self), Frame("handler").f)
    BY <1>1, <1>8, <1>10, KindsAbove
  <2> QED BY <2>1 DEF Frame, K
<1> QED BY <1>7, <1>20, <1>21, CatchMaps DEF K

\* An error that luaD_pcall catches.
LEMMA InPcallMaps ==
  ASSUME CoroutineInv, LinkInv, native # <<>>, signal # "none",
         native[Catcher].k = "pcall", InPcall(Catcher)
  PROVE  LinkInv' /\ Abstract!Next
<1>1. CASE native[Catcher].errf = "xpcall" /\ LimitError(Counted(Self)) = "none"
  <2> DEFINE c == Catcher
  <2>1. CoroutineInv'
    BY InPcallKeeps
  <2>2. /\ signal' = "none" /\ th' = [th EXCEPT ![Running] = Assisted]
        /\ native' = SubSeq(native, 1, c) \o <<ErrhRec(Running, Self), CallRec(Running, Assisted)>>
    BY <1>1 DEF InPcall, Set, Assisted
  <2>3. native[c].k = "pcall" /\ native[c].errf = "xpcall" /\ c = Catcher
    BY <1>1
  <2> HIDE DEF c
  <2> QED BY <2>1, <2>2, <2>3, AssistedMaps
<1>2. CASE ~(native[Catcher].errf = "xpcall" /\ LimitError(Counted(Self)) = "none")
  BY <1>2, InPcallFailedMaps
<1> QED BY <1>1, <1>2

-----------------------------------------------------------------------------
(* Control goes back to who resumed. *)

\* Thread u, whose last record is e, waits for the one that it resumed.
Waits(u, e) ==
  /\ e \in Nat /\ e + 1 = Base /\ e \in 1 .. Len(native) /\ e < Len(native)
  /\ native[e].t = u /\ u \in Threads /\ u # Running
  /\ native[e].k \in {"call", "resume"} /\ IsLast(native, e)
  /\ th[u] \in LooseType /\ th[u].status = "ok" /\ ~th[u].fresh
  /\ Len(th[u].ci) \in Nat \ {0} /\ Top(th[u].ci) = th[u].ci[Len(th[u].ci)]
  /\ Top(th[u].ci).f \in {"resume", "wrap"}
  /\ \E d \in 1 .. e : Segment(native, d, e)
  /\ \A d \in 1 .. e : Segment(native, d, e) =>
       Linked(native, d, e, th[u]) /\ Standing(native, d, e, th[u])

\* The resumer of the thread that runs.
LEMMA ResumerFacts ==
  ASSUME CoroutineInv, LinkInv, native # <<>>, NEW from, from = native[Base].from
  PROVE  /\ native[Base].t = Running /\ native[Base].k = "resume"
         /\ ResumerOf(native)[Running] = from
         /\ Base = 1 => from = Running
         /\ Base # 1 => Waits(from, Base - 1)
<1> DEFINE n == Len(native)
           e == Base - 1
<1>1. /\ n \in Nat \ {0} /\ native \in Seq(RecordType) /\ Rest(native, th)
      /\ \A i \in 1 .. n : native[i] \in RecordType /\ Record(native, th, i) /\ Good(native, i)
      /\ Running = native[n].t /\ Running \in Threads /\ Base \in 1 .. n /\ Base \in Nat
  <2>1. /\ n \in Nat \ {0} /\ native \in Seq(RecordType) /\ Rest(native, th)
        /\ \A i \in 1 .. n : native[i] \in RecordType /\ Record(native, th, i) /\ Good(native, i)
        /\ Running = native[n].t /\ Running \in Threads /\ Base \in 1 .. n
    BY RunningFacts
  <2>2. \A j \in 1 .. n : j \in Nat
    OBVIOUS
  <2> HIDE DEF n
  <2>3. Base \in Nat
    BY <2>1, <2>2, Zenon
  <2> QED BY <2>1, <2>3
<1>2. /\ Stacked(native, th) /\ Links(native, th) /\ Standing(native, Base, n, Self)
  BY RunningLinked
<1>3. native[Base].t = Running /\ native[Base].k = "resume"
  <2>1. Base \in Base .. n
    BY <1>1
  <2> QED BY <2>1, <1>1, <1>2, StandingFacts
<1>4. ResumerOf(native)[Running] = from
  <2>1. Resumer(native, native[Base].t) = native[Base].from
    BY <1>1, <1>3, ResumerIs
  <2> QED BY <2>1, <1>1, <1>3 DEF ResumerOf
<1>5. /\ \A j \in 1 .. Base - 1 : native[j].t # Running
      /\ from = IF Base = 1 THEN Running ELSE native[Base - 1].t
      /\ Base > 1 => native[Base - 1].k \in {"call", "resume"}
  BY <1>1, <1>3 DEF Good
<1>6. ASSUME Base # 1 PROVE Waits(from, e)
  <2>1. e \in Nat /\ e + 1 = Base /\ e \in 1 .. n /\ e < n /\ e \in 1 .. Base - 1
    BY <1>1, <1>6
  <2>2. native[e].t = from /\ from # Running /\ native[e].k \in {"call", "resume"}
    <3>1. Base > 1
      BY <1>1, <1>6
    <3> QED BY <3>1, <2>1, <1>5, <1>6
  <2>3. from \in Threads
    BY <2>1, <2>2, <1>1, RecordFields
  <2> HIDE DEF e, n
  <2>4. IsLast(native, e)
    BY <2>1, <1>3 DEF IsLast
  <2>5. th[from] \in LooseType /\ th[from].status = "ok"
    <3>1. OnStack(native, from)
      BY <2>1, <2>2 DEF OnStack, n
    <3>2. th[from].status = "ok"
      BY <3>1, <2>3, <1>1 DEF Rest, Actives
    <3> QED BY <3>2, <2>3, ThreadFacts
  <2>6. PICK d \in 1 .. e : Segment(native, d, e)
    <3>1. Good(native, e)
      BY <2>1, <1>1
    <3> QED BY <3>1 DEF Good
  <2>7. ASSUME NEW b \in 1 .. e, Segment(native, b, e)
        PROVE  /\ Linked(native, b, e, th[from]) /\ Standing(native, b, e, th[from])
               /\ Top(th[from].ci).f \in {"resume", "wrap"}
    <3>1. Ending(native, b, e) /\ e \in 1 .. Len(native) /\ e < Len(native)
      BY <2>1, <2>4, <2>7 DEF Ending, n
    <3>2. Linked(native, b, e, th[native[e].t]) /\ Top(th[native[e].t].ci).f \in {"resume", "wrap"}
      BY <3>1, <1>2 DEF Links
    <3>3. Standing(native, b, e, th[native[e].t])
      BY <3>1, <2>7, <1>2, SegmentStands
    <3> QED BY <3>2, <3>3, <2>2
  <2>8. Len(th[from].ci) \in Nat \ {0}
    <3>1. Waiting(native, th, e)
      BY <2>1, <2>4, <1>1 DEF Record, n
    <3>2. Pos(native[e]) < Len(th[from].ci) /\ Pos(native[e]) \in Nat
      BY <3>1, <2>1, <2>2, <1>1, RecordFields DEF Waiting
    <3>3. Len(th[from].ci) \in Nat
      BY <2>5, LooseFields
    <3> QED BY <3>2, <3>3
  <2>9. ~th[from].fresh /\ Top(th[from].ci).f \in {"resume", "wrap"}
    BY <2>6, <2>7 DEF Linked
  <2> QED BY <2>1, <2>2, <2>3, <2>4, <2>5, <2>6, <2>7, <2>8, <2>9 DEF Waits, Top, n
<1> QED BY <1>3, <1>4, <1>5, <1>6

\* Its call of resume or wrap is over.
LEMMA ResumerLinked ==
  ASSUME CoroutineInv, LinkInv, native # <<>>, NEW u, NEW e, Waits(u, e), NEW m, m = Len(th[u].ci) - 1,
         NEW y, y = [th[u] EXCEPT !.ci = Front(@)]
  PROVE  /\ y \in LooseType /\ y.status = "ok" /\ KindsOf(y) = SubSeq(KindsOf(th[u]), 1, m)
         /\ y.ci # <<>> /\ Top(y.ci).f \in Functions
         /\ \A d \in 1 .. e : Segment(native, d, e) =>
              Linked(native, d, e, y) /\ Standing(native, d, e, y)
<1> DEFINE x == th[u]
           L == Len(x.ci)
<1>1. /\ x \in LooseType /\ x.status = "ok" /\ ~x.fresh /\ L \in Nat \ {0}
      /\ x.ci[L].f \in {"resume", "wrap"} /\ native[e].k \in {"call", "resume"} /\ e \in Nat
      /\ x.ci \in Seq(FrameType)
  BY LooseFields DEF Waits
<1>2. PICK d \in 1 .. e : Segment(native, d, e)
  BY DEF Waits
<1>3. Shaped(x)
  BY <1>2 DEF Waits, Linked
<1>a. m = L - 1
  OBVIOUS
<1>4. /\ y \in LooseType /\ y.ci = SubSeq(x.ci, 1, L - 1) /\ y.status = "ok"
      /\ y.nC = x.nC /\ y.baseC = x.baseC /\ y.fresh = x.fresh
  <2> DEFINE w == SubSeq(x.ci, 1, L - 1)
  <2>1. w \in Seq(FrameType) /\ y = [x EXCEPT !.ci = w]
    <3>1. Front(x.ci) = w
      BY <1>1, FrontFits
    <3>2. w \in Seq(FrameType)
      BY <1>1
    <3> QED BY <3>1, <3>2
  <2> HIDE DEF w, x
  <2> DEFINE v == [x EXCEPT !.ci = w]
  <2>2. /\ v \in LooseType /\ v.ci = w /\ v.status = x.status
        /\ v.nC = x.nC /\ v.baseC = x.baseC /\ v.fresh = x.fresh
    BY <2>1, <1>1, FramesAssigned
  <2>3. y = v
    BY <2>1
  <2> HIDE DEF v
  <2> QED BY <2>2, <2>3, <1>1 DEF w
<1> HIDE DEF x, L
<1>5. m \in Nat \ {0} /\ m <= L /\ m < L /\ x.ci[m].f \in Functions
  <2>1. L \in 1 .. L /\ x.ci[L].f \notin {"body", "yield", "handler"}
    BY <1>1
  <2>2. L # 1
    <3>1. L = 1 => x.ci[L].f = "body"
      BY <2>1, <1>1, <1>3, StoodOn DEF L
    <3> QED BY <3>1, <2>1
  <2>3. Follows(x.ci[L].f, x.ci[L - 1].f)
    BY <2>1, <2>2, <1>1, <1>3, StoodOn DEF L
  <2>4. L - 1 \in Nat \ {0} /\ L - 1 <= L /\ L - 1 < L
    BY <2>2, <1>1
  <2>5. x.ci[L - 1].f \in Functions
    BY <2>1, <2>3, <1>1 DEF Follows
  <2> QED BY <2>4, <2>5, <1>a
<1>b. m \in 1 .. m
  <2>1. \A j \in Nat \ {0} : j \in 1 .. j
    OBVIOUS
  <2> QED BY <2>1, <1>5, Zenon
<1>6. CutTo(x, y, m)
  <2>1. y.ci = SubSeq(x.ci, 1, m)
    BY <1>4, <1>a
  <2> QED BY <2>1, <1>1, <1>4, <1>5, FirstFrames DEF L
<1>7. KindsOf(y) = SubSeq(KindsOf(x), 1, m)
  BY <1>1, <1>4, <1>6, KindsCut, ZenonT(60)
<1>8. y.ci # <<>> /\ Top(y.ci).f \in Functions
  <2>1. Len(y.ci) = m /\ \A k \in 1 .. m : y.ci[k] = x.ci[k]
    BY <1>6 DEF CutTo
  <2>2. y.ci # <<>> /\ y.ci[m] = x.ci[m]
    BY <2>1, <1>b, <1>5
  <2> QED BY <2>1, <2>2, <1>5 DEF Top
<1>9. ASSUME NEW b \in 1 .. e, Segment(native, b, e)
      PROVE  Linked(native, b, e, y) /\ Standing(native, b, e, y)
  <2>1. Linked(native, b, e, x) /\ Standing(native, b, e, x)
    BY <1>9 DEF Waits, x
  <2>2. e \in b .. e /\ b \in Nat /\ b <= e
    BY <1>1
  <2>3. Pos(native[e]) <= m
    <3>1. Pos(native[e]) \in Nat /\ Pos(native[e]) <= L
          /\ (native[e].k = "call" => native[e].at = Pos(native[e]))
      BY <2>1, <2>2, StandingFacts DEF L
    <3>2. CASE native[e].k = "resume"
      <4>1. Pos(native[e]) = 0
        BY <3>2 DEF Pos
      <4> QED BY <4>1, <1>5
    <3>3. CASE native[e].k = "call"
      <4>1. Owner(native, x, e)
        BY <2>1, <2>2 DEF Linked, Woven
      <4>2. x.ci[native[e].at].f \in {"body", "handler", "tm"}
        BY <4>1, <3>3 DEF Owner
      <4>3. native[e].at # L
        BY <4>2, <1>1
      <4> QED BY <4>3, <3>1, <3>3, <1>a, <1>1
    <3> QED BY <3>2, <3>3, <1>1
  <2>4. Cutting(native, b, e, x, e, y, m)
    <3>1. Upto(native, e, x, e) = L
      BY DEF Upto, L
    <3> QED BY <3>1, <2>1, <2>2, <2>3, <1>1, <1>5, <1>6 DEF Cutting
  <2>5. Recounted(native, b, e, x, e, y)
    <3>1. Started0(native, b, e, y) = Started0(native, b, e, x)
      BY <1>4 DEF Started0
    <3>2. x.nC >= Here(native, Started0(native, b, e, x), e) + Over(native, b, e)
                    + (IF native[e].k = "pcall" THEN 1 ELSE 0)
          /\ Here(native, Started0(native, b, e, x), e) \in Int /\ Over(native, b, e) \in {0, 1}
      BY <2>1, <2>2, LinkedCounts
    <3>3. x.nC >= Here(native, Started0(native, b, e, x), e) + Over(native, b, e)
      BY <3>2, <1>1
    <3> QED BY <3>1, <3>3, <1>1, <1>4 DEF Recounted
  <2> QED BY <2>1, <2>4, <2>5, LinkedCut
<1> QED BY <1>4, <1>7, <1>8, <1>9 DEF x

\* The thread that ran becomes y, and its records are gone.
Left(x, status, y) ==
  /\ x \in LooseType /\ status \in {"none", "run", "err"} /\ HandBack(Base, x, status)
  /\ y = Finished(x, status) /\ Resting(y) /\ ~y.fresh

\* What a resumer was told is gone.
LEMMA ResumersLeft ==
  ASSUME NEW s \in Seq(RecordType), \A i \in 1 .. Len(s) : Good(s, i),
         NEW b, Segment(s, b, Len(s)), NEW t, t = s[Len(s)].t, s # <<>>
  PROVE  ResumerOf(SubSeq(s, 1, b - 1)) = [ResumerOf(s) EXCEPT ![t] = t]
<1> DEFINE z == SubSeq(s, 1, b - 1)
           e == b - 1
<1>1. /\ b \in Nat /\ 1 <= b /\ b <= Len(s) /\ s[b].k = "resume" /\ Len(s) \in Nat
      /\ \A i \in 1 .. Len(s) : s[i].t = t <=> i >= b
      /\ \A i \in 1 .. Len(s) : i > b => s[i].k # "resume"
  BY LastSegment
<1>2. e \in Nat /\ e + 1 = b /\ Len(z) = e /\ \A i \in 1 .. e : z[i] = s[i] /\ i \in 1 .. Len(s) /\ s[i].t # t
  BY <1>1
<1> HIDE DEF z, e
<1>3. ASSUME NEW u \in Threads PROVE Resumer(z, u) = IF u = t THEN t ELSE Resumer(s, u)
  <2> DEFINE A == {i \in 1 .. Len(s) : s[i].k = "resume" /\ s[i].t = u}
             B == {i \in 1 .. Len(z) : z[i].k = "resume" /\ z[i].t = u}
  <2>1. B \subseteq 1 .. e /\ \A i \in B : z[i] = s[i]
    BY <1>2
  <2>2. u = t => B = {}
    BY <1>2
  <2>3. u # t => A = B
    <3> SUFFICES ASSUME u # t PROVE A = B
      OBVIOUS
    <3>1. \A i \in A : i \in 1 .. e /\ z[i] = s[i]
      <4>1. \A i \in A : i < b /\ i \in 1 .. Len(s)
        BY <1>1
      <4> QED BY <4>1, <1>1, <1>2
    <3>2. A \subseteq B
      BY <3>1, <1>2
    <3>3. B \subseteq A
      BY <1>2
    <3> QED BY <3>2, <3>3
  <2>4. Resumer(s, u) = IF A = {} THEN u ELSE s[CHOOSE i \in A : TRUE].from
    BY DEF Resumer
  <2>5. Resumer(z, u) = IF B = {} THEN u ELSE z[CHOOSE i \in B : TRUE].from
    BY DEF Resumer
  <2> HIDE DEF A, B
  <2>6. B # {} => (CHOOSE i \in B : TRUE) \in B
    OBVIOUS
  <2>7. B # {} => z[CHOOSE i \in B : TRUE] = s[CHOOSE i \in B : TRUE]
    BY <2>1, <2>6
  <2> QED BY <2>2, <2>3, <2>4, <2>5, <2>7
<1>4. ResumerOf(z) = [ResumerOf(s) EXCEPT ![t] = t]
  BY <1>3 DEF ResumerOf
<1> QED BY <1>4 DEF z

\* The threads, one by one, when control goes back.
LEMMA HandBackThreads ==
  ASSUME CoroutineInv, LinkInv, native # <<>>, NEW x, NEW status, NEW y, Left(x, status, y),
         NEW from, from = native[Base].from, NEW again,
         again = (status # "none" /\ from # Running /\ Top(th[from].ci).f = "wrap")
  PROVE  /\ native' = SubSeq(native, 1, Base - 1)
         /\ signal' = IF again THEN "run" ELSE "none"
         /\ th'[Running] = y /\ DOMAIN th' = Threads
         /\ \A u \in Threads \ {Running} :
              th'[u] = IF u = from /\ ~again THEN [th[u] EXCEPT !.ci = Front(@)] ELSE th[u]
<1>1. native[Base].t = Running /\ Running \in Threads
  BY ResumerFacts, RunningFacts
<1>2. /\ native' = SubSeq(native, 1, Base - 1)
      /\ signal' = IF again THEN "run" ELSE "none"
      /\ th' = [u \in Threads |-> IF u = Running THEN Finished(x, status)
                                  ELSE IF u = from /\ ~again
                                  THEN [th[u] EXCEPT !.ci = Front(@)] ELSE th[u]]
  BY <1>1 DEF Left, HandBack
<1> QED BY <1>1, <1>2 DEF Left

\* The links stay.
LEMMA HandBackLinks ==
  ASSUME CoroutineInv, CoroutineInv', LinkInv, native # <<>>, NEW x, NEW status, NEW y,
         Left(x, status, y)
  PROVE  LinkInv'
<1> DEFINE from == native[Base].from
           again == status # "none" /\ from # Running /\ Top(th[from].ci).f = "wrap"
           e == Base - 1
           n == Len(native)
<1>b. from = native[Base].from
      /\ again = (status # "none" /\ from # Running /\ Top(th[from].ci).f = "wrap")
  OBVIOUS
<1>a. ~again \/ again
  OBVIOUS
<1> HIDE DEF again, from
<1>1. /\ native' = SubSeq(native, 1, Base - 1)
      /\ signal' = IF again THEN "run" ELSE "none"
      /\ th'[Running] = y /\ DOMAIN th' = Threads
      /\ \A u \in Threads \ {Running} :
           th'[u] = IF u = from /\ ~again THEN [th[u] EXCEPT !.ci = Front(@)] ELSE th[u]
  BY <1>b, HandBackThreads
<1>2. /\ Base = 1 => from = Running
      /\ Base # 1 => Waits(from, Base - 1)
  BY <1>b, ResumerFacts
<1>3. /\ Stacked(native, th) /\ Links(native, th) /\ Base \in 1 .. n /\ Base \in Nat /\ n \in Nat
      /\ Segment(native, Base, n) /\ Running = native[n].t
  <2>1. /\ Stacked(native, th) /\ Links(native, th) /\ Base \in 1 .. n /\ n \in Nat
        /\ Segment(native, Base, n) /\ Running = native[n].t
    BY RunningLinked
  <2>2. Base \in Nat
    BY <2>1
  <2> QED BY <2>1, <2>2
<1>4. ASSUME Base # 1
      PROVE  /\ native[e].t = from /\ from \in Threads /\ from # Running
             /\ \A d \in 1 .. e : Segment(native, d, e) =>
                  Linked(native, d, e, th'[from]) /\ Standing(native, d, e, th'[from])
             /\ ~again => th'[from].ci # <<>> /\ Top(th'[from].ci).f \in Functions
  <2>1. Waits(from, e)
    BY <1>2, <1>4
  <2>2. native[e].t = from /\ from \in Threads /\ from # Running
    BY <2>1 DEF Waits
  <2>3. CASE again
    <3>1. th'[from] = th[from]
      BY <2>2, <2>3, <1>1
    <3>2. \A d \in 1 .. e : Segment(native, d, e) =>
                  Linked(native, d, e, th[from]) /\ Standing(native, d, e, th[from])
      BY <2>1 DEF Waits
    <3> QED BY <2>2, <2>3, <3>1, <3>2
  <2>4. CASE ~again
    <3>1. th'[from] = [th[from] EXCEPT !.ci = Front(@)]
      BY <2>2, <2>4, <1>1
    <3> DEFINE v == [th[from] EXCEPT !.ci = Front(@)]
    <3>2. /\ v.ci # <<>> /\ Top(v.ci).f \in Functions
          /\ \A d \in 1 .. e : Segment(native, d, e) =>
               Linked(native, d, e, v) /\ Standing(native, d, e, v)
      BY <2>1, ResumerLinked
    <3> HIDE DEF v
    <3>3. th'[from] = v
      BY <3>1 DEF v
    <3> QED BY <2>2, <3>2, <3>3
  <2> QED BY <2>3, <2>4
<1>5. \A u \in Threads \ {Running} : (Base # 1 /\ u = from) \/ th'[u] = th[u]
  BY <1>1, <1>2
<1>6. Leaving(native, th, Base, native', th')
  <2>1. Resting(th'[native[n].t])
    BY <1>1, <1>3 DEF Left
  <2>2. Base > 1 => Base # 1
    BY <1>3
  <2>3. Base > 1 => \A d \in 1 .. Base - 1 : Segment(native, d, Base - 1) =>
          Linked(native, d, Base - 1, th'[native[Base - 1].t])
          /\ Standing(native, d, Base - 1, th'[native[Base - 1].t])
    BY <2>2, <1>4
  <2>4. \A u \in Threads \ {native[n].t} : (Base > 1 /\ u = native[Base - 1].t) \/ th'[u] = th[u]
    <3>1. Base # 1 => Base > 1
      BY <1>3
    <3> QED BY <3>1, <1>3, <1>4, <1>5
  <2> QED BY <2>1, <2>3, <2>4, <1>1, <1>3 DEF Leaving
<1>7. Links(native', th')
  BY <1>6, LeavingLinks
<1>8. Busy(native', th', signal')
  <2> SUFFICES ASSUME native' # <<>>, signal' = "none"
               PROVE  /\ th'[Top(native').t].ci # <<>>
                      /\ Top(th'[Top(native').t].ci).f \in Functions
    BY DEF Busy
  <2>1. ~again
    BY <1>1
  <2>2. e \in Nat /\ e <= n
    BY <1>3
  <2>3. native' = SubSeq(native, 1, e) /\ native \in Seq(RecordType)
    BY <1>1, <1>3 DEF Stacked
  <2> HIDE DEF e
  <2>4. e # 0 /\ Len(native') = e /\ Top(native') = native[e]
    BY <2>2, <2>3 DEF Top
  <2>5. Base # 1
    BY <2>4, <1>3 DEF e
  <2> QED BY <2>1, <2>4, <2>5, <1>4 DEF e
<1> QED BY <1>7, <1>8 DEF LinkInv

\* What a script sees of a frame list is what the thread has.
LEMMA WaitsKinds ==
  ASSUME CoroutineInv, LinkInv, native # <<>>, NEW u, NEW e, Waits(u, e)
  PROVE  /\ StackOf(th)[u] = KindsOf(th[u]) /\ Abstract!Top(KindsOf(th[u])) = Top(th[u].ci).f
         /\ Abstract!Front(KindsOf(th[u])) = KindsOf([th[u] EXCEPT !.ci = Front(@)])
<1> DEFINE x == th[u]
           K == KindsOf(x)
           L == Len(x.ci)
<1>1. /\ x \in LooseType /\ x.status = "ok" /\ L \in Nat \ {0} /\ Top(x.ci) = x.ci[L] /\ u \in Threads
  BY DEF Waits
<1>2. Len(K) = L /\ \A k \in 1 .. L : K[k] = x.ci[k].f
  BY <1>1, KindsFacts
<1>3. KindsOf([th[u] EXCEPT !.ci = Front(@)]) = SubSeq(K, 1, L - 1)
  BY ResumerLinked
<1>4. L \in 1 .. L
  BY <1>1
<1>5. K[L] = Top(x.ci).f
  BY <1>1, <1>2, <1>4
<1>6. StackOf(th)[u] = K
  BY <1>1 DEF StackOf
<1> HIDE DEF K, L
<1> QED BY <1>2, <1>3, <1>5, <1>6 DEF Abstract!Top, Abstract!Front, K

\* Control goes back as the abstract module says.
LEMMA HandBackMaps ==
  ASSUME CoroutineInv, CoroutineInv', LinkInv, native # <<>>, NEW x, NEW status, NEW y,
         Left(x, status, y), NEW K, KindsOf(y) = K, NEW fate,
         fate = IF y.status = "yield" THEN "suspended" ELSE "dead",
         NEW failed \in BOOLEAN, failed <=> status # "none"
  PROVE  Abstract!HandBack(Running, K, fate, failed)
<1> DEFINE from == native[Base].from
           again == status # "none" /\ from # Running /\ Top(th[from].ci).f = "wrap"
           e == Base - 1
           n == Len(native)
           S == StackOf(th)
<1>b. from = native[Base].from
      /\ again = (status # "none" /\ from # Running /\ Top(th[from].ci).f = "wrap")
  OBVIOUS
<1> HIDE DEF again, from
<1>1. /\ native' = SubSeq(native, 1, Base - 1)
      /\ signal' = IF again THEN "run" ELSE "none"
      /\ th'[Running] = y /\ DOMAIN th' = Threads
      /\ \A u \in Threads \ {Running} :
           th'[u] = IF u = from /\ ~again THEN [th[u] EXCEPT !.ci = Front(@)] ELSE th[u]
  BY <1>b, HandBackThreads, SMTT(30)
<1>2. /\ Base = 1 => from = Running
      /\ Base # 1 => Waits(from, Base - 1)
      /\ ResumerOf(native)[Running] = from
  BY <1>b, ResumerFacts
<1>3. /\ Stacked(native, th) /\ Base \in 1 .. n /\ Base \in Nat /\ n \in Nat \ {0}
      /\ Segment(native, Base, n) /\ Running = native[n].t /\ Running \in Threads
      /\ native \in Seq(RecordType) /\ \A i \in 1 .. n : Good(native, i)
  <2>1. /\ Stacked(native, th) /\ Base \in 1 .. n /\ n \in Nat \ {0}
        /\ Segment(native, Base, n) /\ Running = native[n].t /\ Running \in Threads
    BY RunningLinked
  <2>2. Base \in Nat
    BY <2>1
  <2>3. native \in Seq(RecordType) /\ \A i \in 1 .. n : Good(native, i)
    BY RunningFacts
  <2> QED BY <2>1, <2>2, <2>3
<1>4. ResumerOf(native') = [ResumerOf(native) EXCEPT ![Running] = Running]
  BY <1>1, <1>3, ResumersLeft
<1>5. S[Running] = KindsOf(th[Running]) /\ \A u \in Threads : S[u] = KindsOf(th[u])
  BY <1>3 DEF StackOf
<1>6. from # Running => /\ Base # 1 /\ Waits(from, e) /\ from \in Threads
                        /\ S[from] = KindsOf(th[from]) /\ Abstract!Top(S[from]) = Top(th[from].ci).f
                        /\ Abstract!Front(S[from]) = KindsOf([th[from] EXCEPT !.ci = Front(@)])
  BY <1>2, WaitsKinds DEF Waits
<1>7. StackOf(th') = [t \in Threads |-> IF t = Running THEN K
                                        ELSE IF t = from /\ ~again THEN Abstract!Front(S[t])
                                        ELSE S[t]]
  <2>1. ASSUME NEW t \in Threads
        PROVE  KindsOf(th'[t]) = IF t = Running THEN K
                                 ELSE IF t = from /\ ~again THEN Abstract!Front(S[t])
                                 ELSE S[t]
    <3>1. CASE t = Running
      BY <3>1, <1>1
    <3>2. CASE t # Running /\ t = from /\ ~again
      BY <3>2, <1>1, <1>6
    <3>3. CASE t # Running /\ ~(t = from /\ ~again)
      BY <3>3, <1>1, <1>5
    <3> QED BY <3>1, <3>2, <3>3
  <2> HIDE DEF S
  <2> QED BY <2>1 DEF StackOf
<1>8. again <=> failed /\ from # Running /\ Abstract!Top(S[from]) = "wrap"
  BY <1>6, <1>b
<1>9. (signal' # "none") <=> again
  BY <1>1
<1>10. LifeOf(native', th') = [t \in Threads |-> IF t = Running THEN fate
                                                 ELSE IF t = from THEN "running"
                                                 ELSE LifeOf(native, th)[t]]
  <2>1. e \in Nat /\ e <= n /\ (e = 0 <=> Base = 1) /\ (e # 0 => e \in 1 .. n)
    BY <1>3
  <2>2. native' = SubSeq(native, 1, e)
    BY <1>1
  <2> HIDE DEF e
  <2>3. (e = 0 <=> native' = <<>>) /\ (e # 0 => Top(native') = native[e])
    BY <2>1, <2>2, <1>3 DEF Top
  <2>4. native' # <<>> => from # Running /\ Top(native').t = from
    <3> SUFFICES ASSUME native' # <<>> PROVE from # Running /\ Top(native').t = from
      OBVIOUS
    <3>1. e # 0 /\ Base # 1
      BY <2>1, <2>3
    <3>2. Waits(from, e)
      BY <3>1, <1>2 DEF e
    <3> QED BY <3>1, <3>2, <2>3 DEF Waits
  <2>5. native' = <<>> => from = Running
    BY <2>1, <2>3, <1>2
  <2>6. Life(native', y, Running) = fate
    <3>1. y.status = "ok" => y.ci = <<>>
      BY DEF Left, Resting
    <3>2. ~(native' # <<>> /\ Running = Top(native').t) /\ ~y.fresh
      BY <2>4 DEF Left
    <3> QED BY <3>1, <3>2 DEF Life
  <2>7. ASSUME NEW t \in Threads, t # Running
        PROVE  Life(native', th'[t], t) = IF t = from THEN "running" ELSE Life(native, th[t], t)
    <3>1. CASE t = from
      <4>1. native' # <<>> /\ Top(native').t = t
        BY <3>1, <2>4, <2>5, <2>7
      <4> QED BY <3>1, <4>1 DEF Life
    <3>2. CASE t # from
      <4>1. th'[t] = th[t]
        BY <3>2, <2>7, <1>1
      <4>2. ~(native' # <<>> /\ t = Top(native').t)
        BY <3>2, <2>4
      <4>3. ~(native # <<>> /\ t = Top(native).t)
        BY <2>7, <1>3 DEF Top
      <4> QED BY <3>2, <4>1, <4>2, <4>3 DEF Life
    <3> QED BY <3>1, <3>2
  <2>8. \A t \in Threads : Life(native', th'[t], t) = IF t = Running THEN fate
                                                      ELSE IF t = from THEN "running"
                                                      ELSE LifeOf(native, th)[t]
    BY <2>6, <2>7, <1>1 DEF LifeOf
  <2> QED BY <2>8 DEF LifeOf
<1> HIDE DEF S
<1>11. /\ ResumerOf(native)' = [ResumerOf(native) EXCEPT ![Running] = Running]
       /\ LifeOf(native, th)' = [t \in Threads |-> IF t = Running THEN fate
                                                   ELSE IF t = ResumerOf(native)[Running] THEN "running"
                                                   ELSE LifeOf(native, th)[t]]
       /\ (signal # "none")' = again
       /\ StackOf(th)' = [t \in Threads |-> IF t = Running THEN K
                                            ELSE IF t = ResumerOf(native)[Running] /\ ~again
                                            THEN Abstract!Front(StackOf(th)[t]) ELSE StackOf(th)[t]]
       /\ again = (failed /\ ResumerOf(native)[Running] # Running
                          /\ Abstract!Top(StackOf(th)[ResumerOf(native)[Running]]) = "wrap")
  <2>1. from = ResumerOf(native)[Running]
    BY <1>2
  <2>2. ResumerOf(native)' = [ResumerOf(native) EXCEPT ![Running] = Running]
    BY <1>4
  <2>3. LifeOf(native, th)' = [t \in Threads |-> IF t = Running THEN fate
                                                 ELSE IF t = from THEN "running"
                                                 ELSE LifeOf(native, th)[t]]
    BY <1>10
  <2>4. again \in BOOLEAN
    BY <1>b
  <2>5. (signal # "none")' = again
    BY <2>4, <1>9
  <2>6. StackOf(th)' = [t \in Threads |-> IF t = Running THEN K
                                          ELSE IF t = from /\ ~again
                                          THEN Abstract!Front(StackOf(th)[t]) ELSE StackOf(th)[t]]
    BY <1>7 DEF S
  <2>7. again = (failed /\ from # Running /\ Abstract!Top(StackOf(th)[from]) = "wrap")
    BY <2>4, <1>8 DEF S
  <2> QED BY <2>1, <2>2, <2>3, <2>5, <2>6, <2>7
<1> HIDE DEF n, e
<1> QED BY <1>11 DEF Abstract!HandBack

\* An error that nobody in the coroutine catches.
LEMMA DeathMaps ==
  ASSUME CoroutineInv, CoroutineInv', LinkInv, native # <<>>, signal # "none",
         native[Catcher].k = "resume", Handlers(Self) = {}, HandBack(Base, Self, signal)
  PROVE  LinkInv' /\ Abstract!Next
<1> DEFINE n == Len(native)
           K == KindsOf(Self)
           y == Finished(Self, signal)
<1>1. /\ Standing(native, Base, n, Self) /\ Woven(native, Base, n, Self)
      /\ Self \in LooseType /\ ~Self.fresh /\ Running \in Threads /\ Base \in Nat /\ n \in Nat
      /\ Base \in 1 .. n
  <2>1. /\ Standing(native, Base, n, Self) /\ Linked(native, Base, n, Self)
        /\ Self \in LooseType /\ ~Self.fresh /\ Running \in Threads /\ Base \in 1 .. n
    BY RunningLinked
  <2> QED BY <2>1, StandingFacts DEF Linked
<1>2. Catcher = Base /\ \A j \in Base + 1 .. n : native[j].k = "call"
  <2>1. Catcher = Base
    BY ResumeCounts
  <2>2. \A j \in Catcher + 1 .. n : native[j].k = "call"
    BY CatcherFacts
  <2> QED BY <2>1, <2>2
<1>3. signal \in {"run", "err"}
  BY DEF CoroutineInv, TypeOK
<1>4. y.status = signal /\ y.fresh = Self.fresh
  BY <1>1, <1>3 DEF Finished, LooseType
<1>5. Left(Self, signal, y)
  <2>1. Resting(y)
    BY <1>3, <1>4 DEF Resting
  <2>2. y = Finished(Self, signal)
    OBVIOUS
  <2> HIDE DEF y
  <2> QED BY <2>1, <2>2, <1>1, <1>3, <1>4 DEF Left
<1>6. KindsOf(y) = <<>>
  BY <1>3, <1>4 DEF KindsOf
<1> HIDE DEF y
<1>7. LinkInv' /\ Abstract!HandBack(Running, <<>>, "dead", TRUE)
  <2>1. y.status # "yield"
    BY <1>3, <1>4
  <2>2. LinkInv'
    BY <1>5, HandBackLinks
  <2>3. Abstract!HandBack(Running, <<>>, "dead", TRUE)
    BY <1>5, <1>6, <2>1, HandBackMaps, ZenonT(60)
  <2> QED BY <2>2, <2>3
<1>a. \A j \in Base .. n : j = Base \/ j \in Base + 1 .. n
  BY <1>1
<1>b. \A j \in Base + 1 .. n : j - 1 = Base \/ j - 1 \in Base + 1 .. n
  BY <1>1
<1>c. \A j \in Base .. n : native[j].k \notin {"pcall", "cont", "errh"}
  BY <1>a, <1>2
<1>d. \A j \in Base + 1 .. n : native[j - 1].k \notin {"pcall", "cont", "errh"}
  BY <1>b, <1>2
<1>8. /\ StackOf(th)[Running] = K /\ LifeOf(native, th)[Running] = "running"
      /\ DOMAIN K = 1 .. Len(Self.ci)
      /\ \A k \in 1 .. Len(Self.ci) : K[k] = Self.ci[k].f
  BY RunningMapped
<1>9. \A k \in 1 .. Len(Self.ci) : Self.ci[k].f \notin Guards \cup {"handler"}
  <2> SUFFICES ASSUME NEW k \in 1 .. Len(Self.ci) PROVE Self.ci[k].f \notin Guards \cup {"handler"}
    OBVIOUS
  <2>1. Placed(native, Base, n, Self, k)
    BY <1>1 DEF Woven
  <2>2. DOMAIN Self.ci = 1 .. Len(Self.ci)
    BY <1>1, LooseFields
  <2>3. ~Self.ci[k].handle
    BY <2>2 DEF Handlers
  <2>4. \A j \in Base .. n : native[j].k = "cont" => native[j].at # k
    BY <1>c
  <2>5. Self.ci[k].f \notin Guards
    BY <2>1, <2>3, <2>4 DEF Placed
  <2>6. Self.ci[k].f # "handler"
    BY <2>1, <1>d DEF Placed
  <2> QED BY <2>5, <2>6
<1> HIDE DEF K
<1>10. Abstract!Catchers(K) = {}
  BY <1>8, <1>9 DEF Abstract!Catchers, Guards
<1>11. Abstract!Catch(Running)
  BY <1>7, <1>8, <1>10 DEF Abstract!Catch
<1> QED BY <1>1, <1>7, <1>11 DEF Abstract!Next

\* An error that reaches lua_resume.
LEMMA InResumeMaps ==
  ASSUME CoroutineInv, LinkInv, native # <<>>, signal # "none",
         native[Catcher].k = "resume", InResume(Catcher)
  PROVE  LinkInv' /\ Abstract!Next
<1>1. CoroutineInv'
  BY InResumeKeeps
<1>2. CASE Handlers(Self) = {}
  <2>1. HandBack(Catcher, Self, signal) /\ Catcher = Base
    BY <1>2, ResumeCounts DEF InResume
  <2> QED BY <2>1, <1>1, <1>2, DeathMaps
<1>3. CASE Handlers(Self) # {}
  <2> DEFINE i == CHOOSE k \in Handlers(Self) : \A j \in Handlers(Self) : j <= k
             x == Handling(Self, i)
  <2>1. Self \in LooseType
    BY RunningFacts
  <2>2. Found(i)
    BY <2>1, <1>3, HandlerExists DEF Found
  <2>3. /\ signal' = "none"
        /\ IF Handled(i).ci[i].f = "xpcall" /\ LimitError(Counted(Handled(i))) = "none"
           THEN /\ th' = [th EXCEPT ![Running] = Helper(i)]
                /\ native' = SubSeq(native, 1, Catcher)
                               \o <<ContRec(Running, Handled(i), i), CallRec(Running, Helper(i))>>
           ELSE /\ th' = [th EXCEPT ![Running] = Continued([x EXCEPT !.ci = SubSeq(@, 1, i - 1)])]
                /\ native' = SubSeq(native, 1, Catcher)
    BY <1>3 DEF InResume, Set, Handled, Helper
  <2> HIDE DEF i
  <2>4. CASE Handled(i).ci[i].f = "xpcall" /\ LimitError(Counted(Handled(i))) = "none"
    BY <2>2, <2>3, <2>4, <1>1, HelperMaps
  <2>5. CASE ~(Handled(i).ci[i].f = "xpcall" /\ LimitError(Counted(Handled(i))) = "none")
    <3> DEFINE y == Continued([x EXCEPT !.ci = SubSeq(@, 1, i - 1)])
    <3>1. /\ y = Continued([Handling(Self, i) EXCEPT !.ci = SubSeq(@, 1, i - 1)])
          /\ th' = [th EXCEPT ![Running] = y] /\ native' = SubSeq(native, 1, Catcher) /\ signal' = "none"
      BY <2>3, <2>5
    <3> HIDE DEF y
    <3> QED BY <3>1, <2>2, <1>1, FoundMaps
  <2> QED BY <2>4, <2>5
<1> QED BY <1>2, <1>3

\* An error is caught.
LEMMA UnwindMaps ==
  ASSUME CoroutineInv, LinkInv, Unwind PROVE LinkInv' /\ Abstract!Next
<1>1. native # <<>> /\ signal # "none"
  BY DEF Unwind
<1>2. native[Catcher].k # "call" /\ native[Catcher] \in RecordType
  BY <1>1, CatcherFacts
<1>3. native[Catcher].k \in {"resume", "call", "pcall", "cont", "errh"}
  BY <1>2, RecordFields
<1>4. CASE native[Catcher].k = "pcall"
  BY <1>1, <1>4, InPcallMaps DEF Unwind
<1>5. CASE native[Catcher].k = "errh"
  BY <1>1, <1>5, InErrhMaps DEF Unwind
<1>6. CASE native[Catcher].k = "cont"
  BY <1>1, <1>6, InContMaps DEF Unwind
<1>7. CASE native[Catcher].k = "resume"
  BY <1>1, <1>7, InResumeMaps DEF Unwind
<1> QED BY <1>2, <1>3, <1>4, <1>5, <1>6, <1>7

\* The thread after resume_continue.
Rest1(x) == Continued([x EXCEPT !.ci = Front(@)])

\* The body, the last frame or one that a pcall called, is over.
LEMMA BodyOver ==
  ASSUME NEW x \in LooseType, Shaped(x), NEW L, L = Len(x.ci), x.ci # <<>>, x.ci[L].f = "body"
  PROVE  /\ Rest1(x) \in LooseType /\ Rest1(x).status = x.status /\ Rest1(x).fresh = x.fresh
         /\ Rest1(x).nC = x.nC /\ Rest1(x).baseC = x.baseC
         /\ L = 1 => Rest1(x).ci = <<>>
         /\ L # 1 => /\ L - 2 \in Nat \ {0} /\ CutTo(x, Rest1(x), L - 2)
                     /\ x.ci[L - 2].f \in Functions /\ Rest1(x).ci # <<>>
<1> DEFINE l == L - 1
           v == SubSeq(x.ci, 1, l)
           q == [x EXCEPT !.ci = Front(@)]
           m == IF L = 1 THEN 0 ELSE L - 2
<1>1. L \in Nat \ {0} /\ L \in 1 .. L /\ x.ci \in Seq(FrameType) /\ l \in Nat
  BY LooseFields
<1>2. /\ q \in LooseType /\ q.ci = v /\ q.status = x.status
      /\ q.nC = x.nC /\ q.baseC = x.baseC /\ q.fresh = x.fresh
      /\ Len(v) = l /\ \A k \in 1 .. l : v[k] = x.ci[k]
  <2>1. v \in Seq(FrameType) /\ q = [x EXCEPT !.ci = v]
        /\ Len(v) = l /\ \A k \in 1 .. l : v[k] = x.ci[k]
    <3>1. Front(x.ci) = v
      BY <1>1, FrontFits
    <3>2. v \in Seq(FrameType) /\ Len(v) = l /\ \A k \in 1 .. l : v[k] = x.ci[k]
      BY <1>1
    <3> QED BY <3>1, <3>2
  <2> HIDE DEF v, q
  <2> QED BY <2>1, FramesAssigned
<1>a. Rest1(x) = Continued(q)
  BY DEF Rest1
<1> HIDE DEF v, q
<1>3. L # 1 => /\ l \in 1 .. L /\ x.ci[l].f \in Guards /\ L - 2 \in Nat \ {0} /\ L - 2 \in 1 .. l
               /\ x.ci[L - 2].f \in Functions
  <2> SUFFICES ASSUME L # 1
               PROVE  /\ l \in 1 .. L /\ x.ci[l].f \in Guards /\ L - 2 \in Nat \ {0} /\ L - 2 \in 1 .. l
                      /\ x.ci[L - 2].f \in Functions
    OBVIOUS
  <2>1. l \in 1 .. L /\ Follows(x.ci[L].f, x.ci[l].f)
    BY <1>1, StoodOn
  <2>2. x.ci[l].f \in Guards
    BY <2>1 DEF Follows
  <2>3. l - 1 \in 1 .. L /\ x.ci[l - 1].f \in Functions
    BY <2>1, <2>2, GuardsStandOn
  <2>4. l - 1 = L - 2
    BY <1>1
  <2> QED BY <2>1, <2>2, <2>3, <2>4, <1>1
<1>4. /\ m \in 0 .. Len(q.ci) /\ \A k \in m + 1 .. Len(q.ci) : q.ci[k].f \in Guards
      /\ m # 0 => q.ci[m].f \notin Guards
  <2>1. CASE L = 1
    BY <2>1, <1>1, <1>2
  <2>2. CASE L # 1
    <3>1. \A k \in m + 1 .. l : k = l
      BY <2>2, <1>1
    <3>2. m \in 1 .. l /\ m # 0 /\ x.ci[m].f \in Functions
      BY <2>2, <1>3
    <3>3. l \in 1 .. l
      <4>1. l \in Nat /\ l # 0
        BY <2>2, <1>1
      <4>2. \A j \in Nat : j # 0 => j \in 1 .. j
        OBVIOUS
      <4> QED BY <4>1, <4>2, Zenon
    <3> HIDE DEF m
    <3> QED BY <3>1, <3>2, <3>3, <2>2, <1>2, <1>3, SMTT(30) DEF Functions, Guards
  <2> QED BY <2>1, <2>2
<1>5. /\ Continued(q).ci = SubSeq(q.ci, 1, m) /\ CutTo(q, Continued(q), m)
      /\ Continued(q).status = q.status /\ Continued(q).fresh = q.fresh
      /\ Continued(q).nC = q.nC /\ Continued(q).baseC = q.baseC
  BY <1>2, <1>4, ContinuedCut
<1>6. Continued(q) \in LooseType /\ Len(Continued(q).ci) = m /\ \A k \in 1 .. m : Continued(q).ci[k] = q.ci[k]
  BY <1>5 DEF CutTo
<1>7. L = 1 => Continued(q).ci = <<>>
  <2>1. Continued(q).ci \in Seq(FrameType)
    BY <1>6, LooseFields
  <2> QED BY <2>1, <1>6
<1>8. L # 1 => CutTo(x, Continued(q), L - 2) /\ Continued(q).ci # <<>>
  <2> SUFFICES ASSUME L # 1 PROVE CutTo(x, Continued(q), L - 2) /\ Continued(q).ci # <<>>
    OBVIOUS
  <2>1. m = L - 2 /\ m \in Nat \ {0} /\ m <= L /\ m <= l
    BY <1>1, <1>3
  <2> HIDE DEF m
  <2>2. \A k \in 1 .. m : Continued(q).ci[k] = x.ci[k]
    BY <2>1, <1>2, <1>6
  <2>3. CutTo(x, Continued(q), m)
    BY <2>1, <2>2, <1>6 DEF CutTo
  <2>4. Continued(q).ci # <<>>
    BY <2>1, <1>6
  <2> QED BY <2>1, <2>3, <2>4
<1> QED BY <1>2, <1>3, <1>5, <1>6, <1>7, <1>8, <1>a

\* The body of a coroutine returns, or that of a pcall it was yielded across.
LEMMA ReturnResumeMaps ==
  ASSUME CoroutineInv, LinkInv, native # <<>>, signal = "none", NEW n, n = Len(native),
         Top(Self.ci).f # "lua", native[n].k = "resume",
         IF Rest1(Self).ci = <<>> THEN HandBack(n, Rest1(Self), "none")
         ELSE th' = [th EXCEPT ![Running] = Rest1(Self)] /\ UNCHANGED <<native, signal>>
  PROVE  LinkInv' /\ Abstract!Next
<1> DEFINE L == Len(Self.ci)
           y == Rest1(Self)
           m == L - 2
           K == KindsOf(Self)
<1>1. /\ n \in Nat /\ Base \in 1 .. n /\ native \in Seq(RecordType)
      /\ Standing(native, Base, n, Self) /\ Linked(native, Base, n, Self) /\ Shaped(Self)
      /\ Self \in LooseType /\ Self.status = "ok" /\ ~Self.fresh /\ Self.ci # <<>>
      /\ L \in Nat \ {0} /\ L \in 1 .. L
      /\ Top(Self.ci) = Self.ci[L] /\ Top(Self.ci).f \in Functions \ {"lua"}
  BY ReturningFacts
<1>2. Base = n /\ Self.ci[L].f = "body"
  BY <1>1, CalledOnTop
<1>3. /\ y \in LooseType /\ y.status = "ok" /\ ~y.fresh /\ y.nC = Self.nC /\ y.baseC = Self.baseC
      /\ L = 1 => y.ci = <<>>
      /\ L # 1 => /\ m \in Nat \ {0} /\ CutTo(Self, y, m) /\ Self.ci[m].f \in Functions /\ y.ci # <<>>
  BY <1>1, <1>2, BodyOver
<1>4. CoroutineInv'
  BY ReturnResume DEF Rest1
<1>a. IF y.ci = <<>> THEN HandBack(n, y, "none")
      ELSE th' = [th EXCEPT ![Running] = y] /\ UNCHANGED <<native, signal>>
  OBVIOUS
<1>b. /\ StackOf(th)[Running] = K /\ LifeOf(native, th)[Running] = "running"
      /\ Running \in Threads /\ K \in Seq(FrameKinds) /\ Len(K) = L
      /\ \A k \in 1 .. L : K[k] = Self.ci[k].f
  BY RunningMapped
<1> HIDE DEF y, L, K
<1>5. CASE L = 1
  <2> DEFINE z == Finished(y, "none")
  <2>1. HandBack(Base, y, "none") /\ y.ci = <<>>
    BY <1>2, <1>3, <1>5, <1>a
  <2>2. z.status = "ok" /\ z.ci = <<>> /\ ~z.fresh
    BY <1>3, <2>1 DEF Finished, LooseType
  <2>3. Left(y, "none", z)
    <3>1. Resting(z)
      BY <2>2 DEF Resting
    <3>2. z = Finished(y, "none")
      OBVIOUS
    <3> HIDE DEF z
    <3> QED BY <3>1, <3>2, <2>1, <2>2, <1>3 DEF Left
  <2>4. KindsOf(z) = <<>>
    <3>1. z.status \notin {"run", "err"} /\ Len(z.ci) = 0
      BY <2>2
    <3>2. KindsOf(z) = [k \in 1 .. 0 |-> z.ci[k].f]
      BY <3>1 DEF KindsOf
    <3> HIDE DEF z
    <3> QED BY <3>2
  <2> HIDE DEF z
  <2>5. LinkInv' /\ Abstract!HandBack(Running, <<>>, "dead", FALSE)
    <3>1. z.status # "yield"
      BY <2>2
    <3>2. LinkInv'
      BY <2>3, <1>4, HandBackLinks
    <3>3. Abstract!HandBack(Running, <<>>, "dead", FALSE)
      BY <2>3, <2>4, <3>1, <1>4, HandBackMaps
    <3> QED BY <3>2, <3>3
  <2>6. K = <<"body">>
    <3>1. Len(K) = 1 /\ K[1] = "body"
      BY <1>2, <1>5, <1>b
    <3> QED BY <3>1, <1>b
  <2>7. Abstract!Return(Running)
    BY <2>5, <2>6, <1>b DEF Abstract!Return, Abstract!Calm
  <2> QED BY <2>5, <2>7, <1>b DEF Abstract!Next
<1>6. CASE L # 1
  <2>1. /\ m \in Nat \ {0} /\ CutTo(Self, y, m) /\ Self.ci[m].f \in Functions /\ y.ci # <<>>
        /\ th' = [th EXCEPT ![Running] = y] /\ UNCHANGED <<native, signal>>
    BY <1>3, <1>6, <1>a
  <2>2. Cutting(native, Base, n, Self, n, y, m)
    <3>1. Pos(native[n]) = 0 /\ n \in Base .. n
      BY <1>1 DEF Pos
    <3>2. m <= Upto(native, n, Self, n)
      BY <1>1 DEF Upto, L
    <3> HIDE DEF m
    <3> QED BY <3>1, <3>2, <2>1, <1>1 DEF Cutting
  <2>3. Recounted(native, Base, n, Self, n, y)
    <3>1. Started0(native, Base, n, y) = Started0(native, Base, n, Self)
      BY <1>3 DEF Started0
    <3>2. n \in Base .. n
      BY <1>1
    <3>3. Self.nC >= Here(native, Started0(native, Base, n, Self), n) + Over(native, Base, n)
                       + (IF native[n].k = "pcall" THEN 1 ELSE 0)
          /\ Here(native, Started0(native, Base, n, Self), n) \in Int /\ Over(native, Base, n) \in {0, 1}
      BY <3>2, <1>1, LinkedCounts
    <3>4. Self.nC >= Here(native, Started0(native, Base, n, Self), n) + Over(native, Base, n)
      BY <3>3
    <3> QED BY <3>1, <3>4, <1>3 DEF Recounted
  <2>4. native' = SubSeq(native, 1, n)
    BY <2>1, <1>1
  <2>5. Mapped(Running, y) /\ KindsOf(y) = SubSeq(KindsOf(Self), 1, m) /\ LinkInv'
    <3>1. m # 0 /\ y.status = "ok"
      BY <2>1, <1>3
    <3> HIDE DEF m
    <3> QED BY <3>1, <2>1, <2>2, <2>3, <2>4, <1>4, CutStep, ZenonT(60)
  <2>6. Returned(y, m)
    <3>1. m >= 0
      BY <2>1
    <3> QED BY <3>1, <2>5, <1>2 DEF Returned, L
  <2> HIDE DEF m
  <2>7. signal' = "none"
    BY <2>1
  <2> QED BY <2>5, <2>6, <2>7, <1>1, ReturnMaps
<1> QED BY <1>5, <1>6

\* A function returns.
LEMMA ReturnStepMaps ==
  ASSUME CoroutineInv, LinkInv, Return PROVE LinkInv' /\ Abstract!Next
<1> DEFINE n == Len(native)
           x == [Self EXCEPT !.ci = Front(@)]
           one == [x EXCEPT !.nC = @ - 1]
<1>1. native # <<>> /\ signal = "none"
  BY DEF Return, Calm
<1>2. n \in Nat /\ n - 0 = n
  BY <1>1, RunningFacts
<1>3. CASE /\ Top(Self.ci).f = "lua"
           /\ Set(Running, x) /\ UNCHANGED <<native, signal>>
  BY <1>1, <1>3, ReturnLuaMaps DEF Set
<1>4. CASE /\ Top(Self.ci).f # "lua" /\ native[n].k = "call" /\ native[n - 1].k \in {"call", "resume"}
           /\ Set(Running, one) /\ native' = Front(native) /\ UNCHANGED signal
  BY <1>1, <1>4, ReturnCallMaps DEF Set, PoppedCall
<1>5. CASE /\ Top(Self.ci).f # "lua" /\ native[n].k = "call" /\ native[n - 1].k = "pcall"
           /\ Set(Running, [one EXCEPT !.ci = Front(@), !.baseC = @ - 1])
           /\ native' = SubSeq(native, 1, n - 2) /\ UNCHANGED signal
  BY <1>1, <1>5, ReturnPcallMaps DEF Set, PoppedCall, PoppedPcall
<1>6. CASE /\ Top(Self.ci).f # "lua" /\ native[n].k = "call" /\ native[n - 1].k = "errh"
           /\ Set(Running, PcallFailed(x, native[n - 2]))
           /\ native' = SubSeq(native, 1, n - 3) /\ UNCHANGED signal
  BY <1>1, <1>6, ReturnErrhMaps DEF Set
<1>7. CASE /\ Top(Self.ci).f # "lua" /\ native[n].k = "call" /\ native[n - 1].k = "cont"
           /\ Set(Running, Continued([one EXCEPT !.ci =
                                     SubSeq(@, 1, native[n - 1].at - 1)]))
           /\ native' = SubSeq(native, 1, n - 2) /\ UNCHANGED signal
  BY <1>1, <1>7, ReturnContMaps DEF Set, PoppedCont
<1>8. CASE /\ Top(Self.ci).f # "lua" /\ native[n].k = "resume"
           /\ IF Continued(x).ci = <<>> THEN HandBack(n, Continued(x), "none")
              ELSE Set(Running, Continued(x)) /\ UNCHANGED <<native, signal>>
  BY <1>1, <1>8, ReturnResumeMaps DEF Set, Rest1
<1> QED BY <1>2, <1>3, <1>4, <1>5, <1>6, <1>7, <1>8 DEF Return

-----------------------------------------------------------------------------
(* Yield. *)

\* No metamethod, handler or library function is called in x.
Quiet(x) == /\ Shaped(x)
            /\ \A k \in 1 .. Len(x.ci) : /\ x.ci[k].f \notin {"tm", "handler"} \cup Ends
                                         /\ x.ci[k].handle <=> x.ci[k].f \in Guards

\* The records of a coroutine that may yield are those of its pcalls and of the
\* functions that they called.
LEMMA YieldableRecords ==
  ASSUME CoroutineInv, LinkInv, native # <<>>, signal = "none", Yieldable(Self),
         NEW n, n = Len(native)
  PROVE  /\ \A j \in Base .. n : native[j].k \notin {"errh", "cont"}
         /\ \A j \in Base + 1 .. n : ~(native[j].k = "call" /\ native[j - 1].k \in {"call", "resume", "cont"})
<1> DEFINE base == Started0(native, Base, n, Self)
           t == native[Base].t
           p == Pcalls(native, n, t)
           c == Calls(native, n, t)
           o == Over(native, Base, n)
<1>1. /\ Standing(native, Base, n, Self) /\ Linked(native, Base, n, Self)
      /\ native[n].k \in {"call", "resume"} /\ n \in Nat /\ Base \in 1 .. n
  BY RunningLinked
<1>2. /\ base \in Int /\ native[n].t = t /\ p <= c
  BY <1>1, StandingCounts
<1>3. Self.nC >= Here(native, base, n) + o + (IF native[n].k = "pcall" THEN 1 ELSE 0) /\ o \in {0, 1}
      /\ Self.nC \in Int /\ Self.baseC \in Int /\ Here(native, base, n) \in Int
  <2>1. n \in Base .. n
    BY <1>1
  <2> QED BY <2>1, <1>1, LinkedCounts
<1>4. p \in Nat /\ c \in Nat
  BY <1>1, NumberType DEF Pcalls, Calls
<1>5. Here(native, base, n) = base + c /\ Self.baseC = base + p
  <2>1. base = Self.baseC - p
    BY DEF Started0
  <2>2. Here(native, base, n) = base + c
    BY <1>2 DEF Here
  <2> HIDE DEF base, p, c
  <2> QED BY <2>1, <2>2, <1>3, <1>4
<1>6. Self.nC <= Self.baseC
  BY DEF Yieldable
<1>7. Saves(native, Base, n, base)
  BY <1>1 DEF Linked, Stretched, Started0
<1>8. Strange(native, Base, n) => p < c + 0
  <2>1. n \in Base .. n /\ native[n].k \notin {"pcall", "errh"}
    BY <1>1
  <2> QED BY <2>1, <1>7 DEF Saves
<1>9. native[n].k # "pcall"
  BY <1>1
<1>10. o = 0 /\ c = p
  <2>1. Self.nC >= base + c + o
    BY <1>3, <1>5, <1>9
  <2> HIDE DEF base, p, c, o
  <2> QED BY <2>1, <1>2, <1>3, <1>4, <1>5, <1>6
<1>11. ~Strange(native, Base, n)
  <2> HIDE DEF p, c
  <2> QED BY <1>8, <1>10, <1>4
<1>12. \A j \in Base .. n : native[j].k # "errh"
  BY <1>10 DEF Over
<1>13. ASSUME NEW j \in Base .. n PROVE native[j].k # "cont"
  <2> SUFFICES ASSUME native[j].k = "cont" PROVE FALSE
    OBVIOUS
  <2>1. j < n /\ native[j + 1].k = "call"
    BY <1>1, <1>13 DEF Linked, Woven, Ran
  <2> DEFINE i == j + 1
  <2>2. i \in Base + 1 .. n /\ i - 1 = j
    BY <2>1, <1>1, <1>13
  <2>3. native[i].k = "call"
    BY <2>1
  <2> HIDE DEF i
  <2> QED BY <2>2, <2>3, <1>11 DEF Strange
<1> QED BY <1>11, <1>12, <1>13 DEF Strange

\* Neither a metamethod nor a handler is among its frames.
LEMMA YieldableQuiet ==
  ASSUME CoroutineInv, LinkInv, native # <<>>, signal = "none", Yieldable(Self)
  PROVE  Quiet(Self)
<1> DEFINE n == Len(native)
<1>1. /\ \A j \in Base .. n : native[j].k \notin {"errh", "cont"}
      /\ \A j \in Base + 1 .. n : ~(native[j].k = "call" /\ native[j - 1].k \in {"call", "resume", "cont"})
  BY YieldableRecords
<1>2. /\ Woven(native, Base, n, Self) /\ Shaped(Self) /\ Self \in LooseType
      /\ Self.ci # <<>> /\ Top(Self.ci).f \in Functions /\ n \in Nat /\ Base \in 1 .. n
  BY RunningLinked DEF Linked
<1>3. Len(Self.ci) \in Nat \ {0}
  BY <1>2, LooseFields
<1>a. \A j \in Base + 1 .. n : j - 1 \in Base .. n
  BY <1>2
<1> HIDE DEF n
<1>4. ASSUME NEW k \in 1 .. Len(Self.ci)
      PROVE  Self.ci[k].f \notin {"tm", "handler"} /\ (Self.ci[k].handle <=> Self.ci[k].f \in Guards)
  <2>1. Placed(native, Base, n, Self, k)
    BY <1>2, <1>4 DEF Woven
  <2>2. Self.ci[k].f # "handler"
    BY <2>1, <1>1, <1>a DEF Placed
  <2>3. \A j \in Base .. n : ~Buried(native, j, k)
    BY <1>1 DEF Buried
  <2>4. Self.ci[k].f # "tm"
    BY <2>1, <2>3, <1>1 DEF Placed
  <2>5. Self.ci[k].handle <=> Self.ci[k].f \in Guards
    BY <2>1, <1>1 DEF Placed
  <2> QED BY <2>2, <2>4, <2>5
<1>5. ASSUME NEW k \in 1 .. Len(Self.ci) PROVE Self.ci[k].f \notin Ends
  <2>1. CASE k = Len(Self.ci)
    BY <2>1, <1>2 DEF Top, Functions, Ends
  <2>2. CASE k # Len(Self.ci)
    <3> DEFINE l == k + 1
    <3>1. l \in 1 .. Len(Self.ci) /\ l # 1 /\ l - 1 = k
      BY <2>2, <1>5, <1>3
    <3> HIDE DEF l
    <3>2. Follows(Self.ci[l].f, Self.ci[k].f) /\ Self.ci[l].f # "handler"
      BY <3>1, <1>2, <1>4 DEF Shaped
    <3> QED BY <3>2 DEF Follows, Functions, Guards, Ends
  <2> QED BY <2>1, <2>2
<1> QED BY <1>2, <1>4, <1>5 DEF Quiet

\* What is left on top of a thread that yields.
Parked(y) == /\ y.ci # <<>> /\ Top(y.ci).f = "yield" /\ Shaped(y)
             /\ \A k \in 1 .. Len(y.ci) : /\ y.ci[k].f \notin {"tm", "handler"}
                                          /\ y.ci[k].f \in Ends => k = Len(y.ci)
                                          /\ y.ci[k].handle <=> y.ci[k].f \in Guards

\* pcall and yield, pushed.
LEMMA QuietPush ==
  ASSUME NEW x \in LooseType, Quiet(x), x.ci # <<>>, NEW y, NEW fr, Above(x, y, fr),
         Follows(fr.f, Top(x.ci).f)
  PROVE  /\ y.ci # <<>> /\ Top(y.ci) = fr
         /\ fr = Flagged("pcall") => Quiet(y)
         /\ fr = Frame("yield") => Parked(y)
<1> DEFINE h == Len(x.ci)
<1>1. /\ h \in Nat /\ Len(y.ci) = h + 1 /\ y.ci[h + 1] = fr /\ y \in LooseType
      /\ \A k \in 1 .. h : y.ci[k] = x.ci[k]
  BY LooseFields DEF Above
<1>2. y.ci # <<>> /\ Top(y.ci) = fr
  BY <1>1 DEF Top
<1>3. Shaped(y)
  BY ShapedPush DEF Quiet
<1>4. \A k \in 1 .. Len(y.ci) : k = h + 1 \/ k \in 1 .. h
  BY <1>1
<1>5. \A k \in 1 .. h : /\ x.ci[k].f \notin {"tm", "handler"} \cup Ends
                        /\ x.ci[k].handle <=> x.ci[k].f \in Guards
  BY DEF Quiet
<1>6. fr = Flagged("pcall") => fr.f \notin {"tm", "handler"} \cup Ends /\ (fr.handle <=> fr.f \in Guards)
  BY DEF Flagged, Ends, Guards
<1>7. fr = Frame("yield") => fr.f \notin {"tm", "handler"} /\ (fr.handle <=> fr.f \in Guards)
                             /\ fr.f = "yield"
  BY DEF Frame, Ends, Guards
<1> HIDE DEF h
<1>8. fr = Flagged("pcall") => Quiet(y)
  BY <1>1, <1>3, <1>4, <1>5, <1>6 DEF Quiet
<1>9. fr = Frame("yield") => Parked(y)
  BY <1>1, <1>2, <1>3, <1>4, <1>5, <1>7 DEF Parked
<1> QED BY <1>2, <1>8, <1>9

\* The frames of yield, or of pcall and yield.
Yielding(kind, K, x) ==
  /\ x = Push(Self, kind \o <<Frame("yield")>>)
  /\ \/ kind = <<>> /\ K = <<"yield">>
     \/ kind = <<Flagged("pcall")>> /\ K = <<"pcall", "yield">>

\* They are what the abstract module pushes.
LEMMA YieldingFrames ==
  ASSUME CoroutineInv, LinkInv, native # <<>>, signal = "none", Yieldable(Self),
         NEW kind, NEW K, NEW x, Yielding(kind, K, x)
  PROVE  /\ x \in LooseType /\ x.status = "ok" /\ ~x.fresh /\ x.baseC = Self.baseC
         /\ Parked(x) /\ KindsOf(x) = KindsOf(Self) \o K
         /\ Len(K) = Len(kind) + 1
<1>1. /\ Self \in LooseType /\ Self.status = "ok" /\ ~Self.fresh /\ Self.ci # <<>>
      /\ Top(Self.ci).f \in Functions
  BY RunningLinked
<1>2. Quiet(Self)
  BY YieldableQuiet
<1>3. /\ Frame("yield") \in FrameType /\ Frame("yield").f = "yield"
      /\ Flagged("pcall") \in FrameType /\ Flagged("pcall").f = "pcall"
  BY FrameFits DEF FrameKinds
<1>4. Follows("yield", Top(Self.ci).f) /\ Follows("pcall", Top(Self.ci).f)
      /\ Follows("yield", "pcall")
  BY <1>1 DEF Follows
<1>5. CASE kind = <<>> /\ K = <<"yield">>
  <2>1. kind \o <<Frame("yield")>> = <<Frame("yield")>>
    <3>1. <<Frame("yield")>> \in Seq(FrameType)
      BY <1>3
    <3> DEFINE v == <<Frame("yield")>>
    <3>2. v \in Seq(FrameType)
      BY <3>1
    <3> HIDE DEF v
    <3>3. <<>> \o v = v
      BY <3>2
    <3> QED BY <3>3, <1>5 DEF v
  <2>2. x = Push(Self, <<Frame("yield")>>)
    BY <2>1 DEF Yielding
  <2>3. /\ x \in LooseType /\ x.ci = Self.ci \o <<Frame("yield")>> /\ x.status = "ok"
        /\ ~x.fresh /\ x.baseC = Self.baseC
    BY <2>2, <1>1, <1>3, PushFits
  <2>4. Above(Self, x, Frame("yield"))
    BY <2>3, <1>1, <1>3, OneAbove
  <2>5. Parked(x)
    BY <2>4, <1>1, <1>2, <1>3, <1>4, QuietPush
  <2>6. KindsOf(x) = KindsOf(Self) \o <<"yield">>
    BY <2>3, <2>4, <1>1, <1>3, KindsAbove
  <2>7. Len(K) = 1 /\ Len(kind) = 0
    BY <1>5
  <2> QED BY <2>3, <2>5, <2>6, <2>7, <1>5
<1>6. CASE kind = <<Flagged("pcall")>> /\ K = <<"pcall", "yield">>
  <2> DEFINE q == Push(Self, <<Flagged("pcall")>>)
  <2>1. /\ q \in LooseType /\ q.ci = Self.ci \o <<Flagged("pcall")>> /\ q.status = "ok"
        /\ ~q.fresh /\ q.baseC = Self.baseC
    BY <1>1, <1>3, PushFits
  <2> HIDE DEF q
  <2>2. Above(Self, q, Flagged("pcall"))
    BY <2>1, <1>1, <1>3, OneAbove
  <2>3. Quiet(q) /\ q.ci # <<>> /\ Top(q.ci) = Flagged("pcall")
    BY <2>2, <1>1, <1>2, <1>3, <1>4, QuietPush
  <2>4. kind \o <<Frame("yield")>> = <<Flagged("pcall"), Frame("yield")>>
    <3>1. ASSUME NEW a \in FrameType, NEW d \in FrameType PROVE <<a>> \o <<d>> = <<a, d>>
      <4>1. \A v \in Seq(FrameType) : <<>> \o v = v
        OBVIOUS
      <4>2. <<>> \in Seq(FrameType) /\ <<a>> \in Seq(FrameType)
        BY <3>1
      <4>3. (<<>> \o <<a>>) \o <<d>> = <<>> \o <<a, d>> /\ <<a, d>> \in Seq(FrameType)
        BY <3>1, <4>2, TwoFrames
      <4>4. <<>> \o <<a>> = <<a>> /\ <<>> \o <<a, d>> = <<a, d>>
        BY <4>1, <4>2, <4>3, Zenon
      <4> QED BY <4>3, <4>4
    <3>2. <<Flagged("pcall")>> \o <<Frame("yield")>> = <<Flagged("pcall"), Frame("yield")>>
      BY <3>1, <1>3, Zenon
    <3> QED BY <3>2, <1>6, Zenon
  <2>5. /\ Self.ci \in Seq(FrameType)
        /\ (Self.ci \o <<Flagged("pcall")>>) \o <<Frame("yield")>> = Self.ci \o <<Flagged("pcall"), Frame("yield")>>
        /\ <<Flagged("pcall"), Frame("yield")>> \in Seq(FrameType)
    BY <1>1, <1>3, LooseFields, TwoFrames
  <2> DEFINE w == <<Flagged("pcall"), Frame("yield")>>
  <2>a. w \in Seq(FrameType) /\ x = Push(Self, w)
    BY <2>4, <2>5 DEF Yielding
  <2>b. (Self.ci \o <<Flagged("pcall")>>) \o <<Frame("yield")>> = Self.ci \o w
    BY <2>5
  <2> HIDE DEF w
  <2>6. /\ x \in LooseType /\ x.ci = Self.ci \o w /\ x.status = "ok"
        /\ ~x.fresh /\ x.baseC = Self.baseC
    BY <2>a, <1>1, PushSeqFits
  <2>7. x.ci = q.ci \o <<Frame("yield")>>
    BY <2>1, <2>b, <2>6
  <2>8. Above(q, x, Frame("yield"))
    BY <2>1, <2>6, <2>7, <1>3, OneAbove
  <2>9. Parked(x)
    BY <2>3, <2>1, <2>8, <1>3, <1>4, QuietPush
  <2>10. KindsOf(q) = KindsOf(Self) \o <<"pcall">>
    BY <2>1, <2>2, <1>1, <1>3, KindsAbove
  <2>11. KindsOf(x) = KindsOf(q) \o <<"yield">>
    BY <2>1, <2>6, <2>8, <1>3, KindsAbove
  <2>12. KindsOf(Self) \in Seq(FrameKinds)
    BY <1>1, KindsFacts
  <2>13. (KindsOf(Self) \o <<"pcall">>) \o <<"yield">> = KindsOf(Self) \o <<"pcall", "yield">>
    <3>1. "pcall" \in FrameKinds /\ "yield" \in FrameKinds
      BY DEF FrameKinds
    <3> QED BY <3>1, <2>12, TwoKinds
  <2>14. Len(K) = 2 /\ Len(kind) = 1
    BY <1>6
  <2> QED BY <2>6, <2>9, <2>10, <2>11, <2>13, <2>14, <1>6
<1> QED BY <1>5, <1>6 DEF Yielding

\* The thread as lua_yield and resume_finish leave it.
LEMMA SuspendedFits ==
  ASSUME CoroutineInv, native # <<>>, NEW x \in LooseType, x.status = "ok", ~x.fresh, Parked(x),
         NEW y, y = Finished(Suspended(x), "none")
  PROVE  /\ Suspended(x) \in LooseType /\ y.status = "yield" /\ ~y.fresh /\ Resting(y)
         /\ KindsOf(y) = KindsOf(x)
<1>1. OpenPcalls \in Int
  <2> DEFINE n == Len(native)
  <2>1. /\ n \in Nat \ {0} /\ native \in Seq(RecordType)
    BY RunningFacts
  <2>2. {i \in DOMAIN native : i > Base /\ native[i].k = "pcall"} \subseteq 1 .. n
    BY <2>1
  <2>3. IsFiniteSet(1 .. n)
    BY <2>1, FS_Interval
  <2>4. IsFiniteSet({i \in DOMAIN native : i > Base /\ native[i].k = "pcall"})
    BY <2>2, <2>3, FS_Subset
  <2> QED BY <2>4, FS_CardinalityType DEF OpenPcalls
<1> DEFINE q == Suspended(x)
<1>2. q \in LooseType /\ q.ci = x.ci /\ q.status = "yield" /\ q.fresh = x.fresh
  <2> DEFINE v == x.baseC - OpenPcalls
  <2>1. v \in Int
    <3>1. x.baseC \in Int
      BY LooseFields
    <3> QED BY <3>1, <1>1
  <2>2. q = [x EXCEPT !.status = "yield", !.baseC = v]
    BY DEF Suspended, LooseType
  <2> HIDE DEF v, q
  <2> QED BY <2>1, <2>2 DEF LooseType
<1> HIDE DEF q
<1>3. y = Finished(q, "none")
  BY DEF q
<1>4. y.ci = x.ci /\ y.status = "yield" /\ y.fresh = x.fresh
  BY <1>2, <1>3 DEF Finished, LooseType
<1>5. Resting(y)
  BY <1>4 DEF Resting, Parked, Shaped
<1>6. KindsOf(y) = KindsOf(x)
  BY <1>4 DEF KindsOf
<1> QED BY <1>2, <1>4, <1>5, <1>6 DEF q

\* A coroutine yields from any depth that holds no metamethod and no handler.
LEMMA YieldAllowedMaps ==
  ASSUME CoroutineInv, CoroutineInv', LinkInv, native # <<>>, signal = "none", Yieldable(Self),
         NEW kind, NEW K, NEW x, Yielding(kind, K, x), Room(Self, Len(kind) + 1),
         HandBack(Base, Suspended(x), "none")
  PROVE  LinkInv' /\ Abstract!Next
<1> DEFINE y == Finished(Suspended(x), "none")
           L == KindsOf(Self) \o K
<1>1. /\ x \in LooseType /\ x.status = "ok" /\ ~x.fresh /\ Parked(x) /\ KindsOf(x) = L
      /\ Len(K) = Len(kind) + 1
  BY YieldingFrames
<1>2. /\ Suspended(x) \in LooseType /\ y.status = "yield" /\ ~y.fresh /\ Resting(y) /\ KindsOf(y) = KindsOf(x)
  BY <1>1, SuspendedFits
<1>3. Left(Suspended(x), "none", y)
  <2>1. y = Finished(Suspended(x), "none")
    OBVIOUS
  <2> HIDE DEF y
  <2> QED BY <2>1, <1>2 DEF Left
<1> HIDE DEF y
<1>4. LinkInv' /\ Abstract!HandBack(Running, L, "suspended", FALSE)
  <2>1. KindsOf(y) = L
    BY <1>1, <1>2
  <2> HIDE DEF L
  <2>2. LinkInv'
    BY <1>3, HandBackLinks
  <2>3. Abstract!HandBack(Running, L, "suspended", FALSE)
    BY <1>2, <1>3, <2>1, HandBackMaps
  <2> QED BY <2>2, <2>3
<1>5. /\ StackOf(th)[Running] = KindsOf(Self) /\ LifeOf(native, th)[Running] = "running"
      /\ Running \in Threads /\ Len(KindsOf(Self)) = Len(Self.ci) /\ Len(Self.ci) \in Nat
      /\ DOMAIN KindsOf(Self) = 1 .. Len(Self.ci)
      /\ \A k \in 1 .. Len(Self.ci) : KindsOf(Self)[k] = Self.ci[k].f
  BY RunningMapped
<1>6. Quiet(Self)
  BY YieldableQuiet
<1>7. ~Abstract!Mid(KindsOf(Self))
  BY <1>5, <1>6 DEF Abstract!Mid, Quiet
<1>8. Len(Self.ci) + Len(K) <= MaxFrames
  BY <1>1 DEF Room
<1>9. K \in {<<"yield">>, <<"pcall", "yield">>}
  BY DEF Yielding
<1>10. Abstract!Calm(Running)
  BY <1>5 DEF Abstract!Calm
<1>11. Abstract!Yield(Running)
  <2>1. Len(StackOf(th)[Running]) + Len(K) <= MaxFrames
    BY <1>5, <1>8
  <2>2. Abstract!HandBack(Running, StackOf(th)[Running] \o K, "suspended", FALSE)
    BY <1>4, <1>5
  <2>3. ~Abstract!Mid(StackOf(th)[Running])
    BY <1>5, <1>7
  <2> QED BY <2>1, <2>2, <2>3, <1>9, <1>10 DEF Abstract!Yield
<1> QED BY <1>4, <1>5, <1>11 DEF Abstract!Next

\* A coroutine yields, or may not.
LEMMA YieldMaps ==
  ASSUME CoroutineInv, LinkInv, Yield PROVE LinkInv' /\ Abstract!Next
<1>1. native # <<>> /\ signal = "none"
  BY DEF Yield, Calm
<1>2. CoroutineInv'
  BY YieldKeeps
<1>3. PICK kind \in {<<>>, <<Flagged("pcall")>>} :
        LET x == Push(Self, kind \o <<Frame("yield")>>)
        IN  /\ Room(Self, Len(kind) + 1)
            /\ kind # <<>> => Yieldable(Self)
            /\ IF Yieldable(Self) THEN HandBack(Base, Suspended(x), "none")
               ELSE Set(Running, x) /\ signal' = "run" /\ UNCHANGED native
  BY DEF Yield
<1>4. CASE Yieldable(Self)
  <2> DEFINE x == Push(Self, kind \o <<Frame("yield")>>)
             K == IF kind = <<>> THEN <<"yield">> ELSE <<"pcall", "yield">>
  <2>1. Yielding(kind, K, x)
    BY <1>3 DEF Yielding
  <2>2. HandBack(Base, Suspended(x), "none") /\ Room(Self, Len(kind) + 1)
    BY <1>3, <1>4
  <2> HIDE DEF x, K
  <2> QED BY <2>1, <2>2, <1>1, <1>2, <1>4, YieldAllowedMaps
<1>5. CASE ~Yieldable(Self)
  <2> DEFINE x == Push(Self, <<Frame("yield")>>)
  <2>1. /\ Self \in LooseType /\ Self.status = "ok" /\ ~Self.fresh
        /\ Frame("yield") \in FrameType
    <3>1. Self \in LooseType /\ Self.status = "ok" /\ ~Self.fresh
      BY <1>1, RunningLinked
    <3> QED BY <3>1, FrameFits DEF FrameKinds
  <2>2. <<>> \o <<Frame("yield")>> = <<Frame("yield")>>
    <3> DEFINE v == <<Frame("yield")>>
    <3>1. v \in Seq(FrameType)
      BY <2>1
    <3> HIDE DEF v
    <3>2. <<>> \o v = v
      BY <3>1
    <3> QED BY <3>2 DEF v
  <2>3. th' = [th EXCEPT ![Running] = x] /\ signal' = "run" /\ UNCHANGED native
    BY <1>3, <1>5, <2>2 DEF Set
  <2>4. /\ x \in LooseType /\ x.ci = Self.ci \o <<Frame("yield")>> /\ x.status = "ok"
        /\ ~x.fresh /\ x.baseC = Self.baseC /\ x.nC = Self.nC
    BY <2>1, PushFits
  <2> HIDE DEF x
  <2>5. LinkInv' /\ Mapped(Running, x) /\ KindsOf(x) = Append(KindsOf(Self), "yield")
    <3>1. "yield" \in Ends \cup {"lua"} /\ signal' # "none"
      BY <2>3 DEF Ends
    <3> QED BY <3>1, <2>3, <2>4, <1>1, <1>2, GrowStep
  <2> QED BY <2>3, <2>5, <1>1, FailedAbove
<1> QED BY <1>4, <1>5

-----------------------------------------------------------------------------
(* Threads off the native stack. *)

\* auxstatus is what the abstract module calls a coroutine's life.
LEMMA LifeStatus ==
  ASSUME CoroutineInv, native # <<>>, NEW co \in Threads
  PROVE  /\ CoStatus(co) = "dead" <=> LifeOf(native, th)[co] = "dead"
         /\ CoStatus(co) = "suspended" <=> LifeOf(native, th)[co] \in {"fresh", "suspended"}
         /\ LifeOf(native, th)[co] = Life(native, th[co], co)
BY DEF CoStatus, LifeOf, Life, Running

\* A thread off the stack is set.
Touching(co, y) ==
  /\ co \in Threads /\ ~OnStack(native, co) /\ Resting(y)
  /\ th' = [th EXCEPT ![co] = y] /\ UNCHANGED <<native, signal>>

\* No other thread changes, for scripts neither.
LEMMA TouchStep ==
  ASSUME CoroutineInv, LinkInv, NEW co, NEW y, Touching(co, y)
  PROVE  /\ LinkInv'
         /\ StackOf(th)' = [StackOf(th) EXCEPT ![co] = KindsOf(y)]
         /\ LifeOf(native, th)' = [LifeOf(native, th) EXCEPT ![co] = Life(native, y, co)]
         /\ ResumerOf(native)' = ResumerOf(native)
         /\ (signal # "none")' = (signal # "none")
<1>1. /\ native' = native /\ signal' = signal /\ co \in Threads /\ ~OnStack(native, co) /\ Resting(y)
      /\ th' = [th EXCEPT ![co] = y]
  BY DEF Touching
<1>2. /\ th \in [Threads -> ThreadType] /\ native \in Seq(RecordType)
      /\ Links(native, th) /\ Busy(native, th, signal)
  BY DEF CoroutineInv, TypeOK, LinkInv
<1>3. th'[co] = y /\ \A u \in Threads \ {co} : th'[u] = th[u]
  BY <1>1, <1>2
<1>4. ASSUME NEW n \in 1 .. Len(native)
      PROVE  native[n].t \in Threads \ {co} /\ th'[native[n].t] = th[native[n].t]
  <2>1. native[n] \in RecordType
    BY <1>2
  <2>2. native[n].t \in Threads /\ native[n].t # co
    BY <2>1, <1>1, RecordFields DEF OnStack
  <2> QED BY <2>2, <1>3
<1>5. Links(native, th')
  <2>1. \A t \in Threads : ~OnStack(native, t) => Resting(th'[t])
    BY <1>1, <1>2, <1>3 DEF Links
  <2>2. ASSUME NEW n \in 1 .. Len(native), NEW b \in 1 .. n, Ending(native, b, n)
        PROVE  /\ Linked(native, b, n, th'[native[n].t])
               /\ n < Len(native) => Top(th'[native[n].t].ci).f \in {"resume", "wrap"}
    BY <2>2, <1>2, <1>4 DEF Links
  <2> QED BY <2>1, <2>2 DEF Links
<1>6. native # <<>> => Len(native) \in 1 .. Len(native)
  BY <1>2
<1>7. Busy(native, th', signal)
  BY <1>2, <1>4, <1>6 DEF Busy, Top
<1>8. StackOf(th') = [StackOf(th) EXCEPT ![co] = KindsOf(y)]
  <2>1. \A u \in Threads : KindsOf(th'[u]) = IF u = co THEN KindsOf(y) ELSE KindsOf(th[u])
    BY <1>3
  <2> QED BY <2>1, <1>1 DEF StackOf
<1>9. LifeOf(native, th') = [LifeOf(native, th) EXCEPT ![co] = Life(native, y, co)]
  <2>1. \A u \in Threads : Life(native, th'[u], u)
                             = IF u = co THEN Life(native, y, co) ELSE Life(native, th[u], u)
    BY <1>3
  <2> QED BY <2>1, <1>1 DEF LifeOf
<1> QED BY <1>1, <1>5, <1>7, <1>8, <1>9 DEF LinkInv

\* A new thread, and one without anything, as scripts see them.
LEMMA NewThreadSeen ==
  ASSUME NEW co, ~OnStack(native, co), native \in Seq(RecordType)
  PROVE  /\ LET y == [NoThread EXCEPT !.fresh = TRUE]
            IN  Resting(y) /\ KindsOf(y) = <<>> /\ Life(native, y, co) = "fresh"
         /\ Resting(NoThread) /\ KindsOf(NoThread) = <<>> /\ Life(native, NoThread, co) = "dead"
<1> DEFINE y == [NoThread EXCEPT !.fresh = TRUE]
<1>1. /\ y.ci = <<>> /\ y.status = "ok" /\ y.fresh
      /\ NoThread.ci = <<>> /\ NoThread.status = "ok" /\ ~NoThread.fresh
  BY DEF NoThread
<1> HIDE DEF y
<1>2. ~(native # <<>> /\ co = Top(native).t)
  <2>1. native # <<>> => Len(native) \in 1 .. Len(native)
    OBVIOUS
  <2> QED BY <2>1 DEF OnStack, Top
<1>3. ASSUME NEW x, x.ci = <<>>, x.status = "ok"
      PROVE  Resting(x) /\ KindsOf(x) = <<>>
  <2>1. Len(x.ci) = 0
    BY <1>3
  <2>2. [i \in 1 .. 0 |-> x.ci[i].f] = <<>>
    OBVIOUS
  <2>3. KindsOf(x) = <<>>
    BY <1>3, <2>1, <2>2 DEF KindsOf
  <2> QED BY <2>3, <1>3 DEF Resting
<1>4. Life(native, y, co) = "fresh" /\ Life(native, NoThread, co) = "dead"
  BY <1>1, <1>2 DEF Life
<1>5. Resting(y) /\ KindsOf(y) = <<>> /\ Resting(NoThread) /\ KindsOf(NoThread) = <<>>
  BY <1>1, <1>3
<1> QED BY <1>4, <1>5 DEF y

\* coroutine.create.
LEMMA CreateMaps ==
  ASSUME CoroutineInv, LinkInv, NEW co \in Threads, Create(co) PROVE LinkInv' /\ Abstract!Next
<1> DEFINE y == [NoThread EXCEPT !.fresh = TRUE]
<1>1. /\ native # <<>> /\ signal = "none" /\ CoStatus(co) = "dead"
      /\ th' = [th EXCEPT ![co] = y] /\ UNCHANGED <<native, signal>>
  BY DEF Create, Calm, Set
<1>2. ~OnStack(native, co) /\ native \in Seq(RecordType)
  BY <1>1, AwayFromStack DEF CoroutineInv, TypeOK
<1>3. Resting(y) /\ KindsOf(y) = <<>> /\ Life(native, y, co) = "fresh"
  BY <1>2, NewThreadSeen
<1> HIDE DEF y
<1>4. Touching(co, y)
  BY <1>1, <1>2, <1>3 DEF Touching
<1>5. /\ LinkInv'
      /\ StackOf(th)' = [StackOf(th) EXCEPT ![co] = <<>>]
      /\ LifeOf(native, th)' = [LifeOf(native, th) EXCEPT ![co] = "fresh"]
      /\ ResumerOf(native)' = ResumerOf(native)
      /\ (signal # "none")' = (signal # "none")
  BY <1>3, <1>4, TouchStep
<1>6. LifeOf(native, th)[co] = "dead" /\ LifeOf(native, th)[Running] = "running" /\ Running \in Threads
  BY <1>1, LifeStatus, RunningMapped
<1>7. Abstract!Create(Running, co)
  BY <1>1, <1>5, <1>6 DEF Abstract!Create, Abstract!Calm, Abstract!Put
<1> QED BY <1>5, <1>6, <1>7 DEF Abstract!Next

\* coroutine.close.
LEMMA CloseMaps ==
  ASSUME CoroutineInv, LinkInv, NEW co \in Threads, Close(co) PROVE LinkInv' /\ Abstract!Next
<1>1. native # <<>> /\ signal = "none" /\ UNCHANGED native
  BY DEF Close, Calm
<1>2. CASE CoStatus(co) \in {"dead", "suspended"}
  <2>1. th' = [th EXCEPT ![co] = NoThread] /\ UNCHANGED signal
    BY <1>2 DEF Close, Set
  <2>2. ~OnStack(native, co) /\ native \in Seq(RecordType)
    BY <1>1, <1>2, AwayFromStack DEF CoroutineInv, TypeOK
  <2>3. Resting(NoThread) /\ KindsOf(NoThread) = <<>> /\ Life(native, NoThread, co) = "dead"
    BY <2>2, NewThreadSeen
  <2>4. Touching(co, NoThread)
    BY <1>1, <2>1, <2>2, <2>3 DEF Touching
  <2>5. /\ LinkInv'
        /\ StackOf(th)' = [StackOf(th) EXCEPT ![co] = <<>>]
        /\ LifeOf(native, th)' = [LifeOf(native, th) EXCEPT ![co] = "dead"]
        /\ ResumerOf(native)' = ResumerOf(native)
        /\ (signal # "none")' = (signal # "none")
    BY <2>3, <2>4, TouchStep
  <2>6. LifeOf(native, th)[co] \in {"fresh", "suspended", "dead"}
        /\ LifeOf(native, th)[Running] = "running" /\ Running \in Threads
    BY <1>1, <1>2, LifeStatus, RunningMapped
  <2>7. Abstract!Close(Running, co)
    BY <1>1, <2>5, <2>6 DEF Abstract!Close, Abstract!Calm, Abstract!Put
  <2> QED BY <2>5, <2>6, <2>7 DEF Abstract!Next
<1>3. CASE CoStatus(co) \notin {"dead", "suspended"}
  <2>1. Error
    BY <1>1, <1>3 DEF Close, Error, Calm
  <2> QED BY <2>1, ErrorMaps
<1> QED BY <1>2, <1>3

\* A script is loaded into a new thread.
LEMMA LoadMaps ==
  ASSUME CoroutineInv, LinkInv, Load PROVE LinkInv' /\ Abstract!Next
<1> DEFINE y == [NoThread EXCEPT !.fresh = TRUE]
<1>1. PICK co \in Threads : /\ th' = [th EXCEPT ![co] = y]
                            /\ th[co].status \in {"run", "err"} \/ (th[co].status = "ok" /\ ~th[co].fresh)
  BY DEF Load, Set
<1>2. /\ native = <<>> /\ UNCHANGED <<native, signal>> /\ ~OnStack(native, co)
      /\ native \in Seq(RecordType)
  BY DEF Load, OnStack, CoroutineInv, TypeOK
<1>3. Resting(y) /\ KindsOf(y) = <<>> /\ Life(native, y, co) = "fresh"
  BY <1>2, NewThreadSeen
<1> HIDE DEF y
<1>4. Touching(co, y)
  BY <1>1, <1>2, <1>3 DEF Touching
<1>5. /\ LinkInv'
      /\ StackOf(th)' = [StackOf(th) EXCEPT ![co] = <<>>]
      /\ LifeOf(native, th)' = [LifeOf(native, th) EXCEPT ![co] = "fresh"]
      /\ ResumerOf(native)' = ResumerOf(native)
      /\ (signal # "none")' = (signal # "none")
  BY <1>3, <1>4, TouchStep
<1>6. Resting(th[co])
  BY <1>2 DEF LinkInv, Links
<1>7. LifeOf(native, th)[co] = "dead"
  BY <1>1, <1>2, <1>6 DEF LifeOf, Life, Resting
<1>8. Abstract!Idle
  BY <1>2 DEF Abstract!Idle, LifeOf, Life
<1>9. Abstract!Load
  BY <1>5, <1>7, <1>8 DEF Abstract!Load, Abstract!Put
<1> QED BY <1>5, <1>9 DEF Abstract!Next

\* The thread that runs, with the frame of resume or wrap on top.
LEMMA HowLinked ==
  ASSUME CoroutineInv, LinkInv, native # <<>>, signal = "none", NEW how \in {"resume", "wrap"},
         NEW w, w = Push(Self, <<Frame(how)>>)
  PROVE  /\ w \in LooseType /\ w.status = "ok" /\ ~w.fresh /\ w.nC = Self.nC
         /\ w.ci # <<>> /\ Top(w.ci).f = how
         /\ KindsOf(w) = Append(KindsOf(Self), how)
         /\ Linked(native, Base, Len(native), w) /\ Standing(native, Base, Len(native), w)
         /\ Len(Self.ci) \in Nat /\ Len(w.ci) = Len(Self.ci) + 1
<1>1. /\ Segment(native, Base, Len(native)) /\ Base \in 1 .. Len(native) /\ Len(native) \in Nat
      /\ Standing(native, Base, Len(native), Self) /\ Linked(native, Base, Len(native), Self)
      /\ Self \in LooseType /\ Self.status = "ok" /\ ~Self.fresh
      /\ Self.ci # <<>> /\ Top(Self.ci).f \in Functions
      /\ native[Len(native)].k \in {"call", "resume"}
  BY RunningLinked
<1>2. Frame(how) \in FrameType /\ Frame(how).f = how /\ Frame(how).handle = FALSE
  <2>1. how \in FrameKinds
    BY DEF FrameKinds
  <2> QED BY <2>1, FrameFits DEF Frame
<1>3. /\ w \in LooseType /\ w.ci = Self.ci \o <<Frame(how)>> /\ w.status = "ok" /\ ~w.fresh
      /\ w.nC = Self.nC /\ w.baseC = Self.baseC
  BY <1>1, <1>2, PushFits
<1>4. Above(Self, w, Frame(how))
  BY <1>1, <1>2, <1>3, OneAbove
<1>5. Growing(native, Base, Len(native), Self, w, Frame(how))
  <2>1. NoEnd(Self)
    BY <1>1 DEF NoEnd, Functions, Ends
  <2>2. Frame(how).f \in Ends \cup {"lua"}
    BY <1>2 DEF Ends
  <2> QED BY <2>1, <2>2, <1>1, <1>2, <1>4 DEF Growing
<1>6. Linked(native, Base, Len(native), w)
  <2>1. Follows(Frame(how).f, Top(Self.ci).f)
    BY <1>1, <1>2 DEF Follows
  <2>2. Self.nC \in Int
    BY <1>1, LooseFields
  <2>3. w.nC >= Self.nC
    BY <2>2, <1>3
  <2> QED BY <2>1, <2>3, <1>1, <1>3, <1>5, LinkedGrow
<1>7. Len(w.ci) = Len(Self.ci) + 1 /\ w.ci[Len(w.ci)] = Frame(how) /\ Len(Self.ci) \in Nat
  BY <1>1, <1>4, LooseFields DEF Above
<1>8. w.ci # <<>> /\ Top(w.ci).f = how
  BY <1>7, <1>2 DEF Top
<1>9. Standing(native, Base, Len(native), w)
  <2>1. Pos(native[Len(native)]) <= Len(Self.ci) /\ Pos(native[Len(native)]) \in Nat
    BY RunningPos
  <2>2. Pos(native[Len(native)]) <= Len(w.ci)
    BY <2>1, <1>7
  <2> QED BY <2>2, <1>1, <1>3 DEF Standing
<1>10. KindsOf(w) = Append(KindsOf(Self), how)
  <2> DEFINE fr == Frame(how)
  <2>1. Above(Self, w, fr) /\ fr.f = how
    BY <1>2, <1>4
  <2> HIDE DEF fr
  <2>2. KindsOf(w) = Append(KindsOf(Self), fr.f)
    BY <2>1, <1>1, <1>3, KindsAbove
  <2> QED BY <2>1, <2>2
<1> QED BY <1>3, <1>6, <1>7, <1>8, <1>9, <1>10

\* The coroutine that a refused resume named is as it was, or becomes y.
Refusing(co, how, y) ==
  /\ Refused(co, how, y) /\ co \in Threads /\ how \in {"resume", "wrap"}
  /\ y = th[co] \/ (co # Running /\ ~OnStack(native, co) /\ Resting(y))
  /\ KindsOf(y) = KindsOf(th[co])
  /\ Life(native, y, co) = IF Life(native, th[co], co) = "fresh" THEN "dead"
                           ELSE Life(native, th[co], co)

\* It is refused in the abstract module.
LEMMA RefusedMaps ==
  ASSUME CoroutineInv, CoroutineInv', LinkInv, native # <<>>, signal = "none",
         NEW co, NEW how, NEW y, Refusing(co, how, y)
  PROVE  LinkInv' /\ Abstract!Next
<1> DEFINE w == IF how = "wrap" THEN Push(Self, <<Frame(how)>>) ELSE Self
           T1 == [th EXCEPT ![co] = y]
           K == KindsOf(Self)
<1>1. /\ Stacked(native, th) /\ Links(native, th) /\ Len(native) \in Nat \ {0}
      /\ Segment(native, Base, Len(native)) /\ Base \in 1 .. Len(native)
      /\ Running = native[Len(native)].t /\ Running \in Threads /\ DOMAIN th = Threads
      /\ Linked(native, Base, Len(native), Self) /\ Self = th[Running]
      /\ Self.ci # <<>> /\ Top(Self.ci).f \in Functions
  BY RunningLinked
<1>2. /\ Refused(co, how, y) /\ co \in Threads /\ how \in {"resume", "wrap"}
      /\ y = th[co] \/ (co # Running /\ ~OnStack(native, co) /\ Resting(y))
      /\ KindsOf(y) = KindsOf(th[co])
      /\ Life(native, y, co) = IF Life(native, th[co], co) = "fresh" THEN "dead"
                               ELSE Life(native, th[co], co)
  BY DEF Refusing
<1>3. native' = native /\ signal' = IF how = "wrap" THEN "run" ELSE "none"
  BY <1>2 DEF Refused
<1>4. T1[Running] = Self /\ DOMAIN T1 = Threads
  BY <1>1, <1>2
<1>5. th' = [T1 EXCEPT ![Running] = w]
  <2>1. th' = [T1 EXCEPT ![Running] = IF how = "wrap" THEN Push(T1[Running], <<Frame(how)>>)
                                      ELSE T1[Running]]
    BY <1>2 DEF Refused
  <2> HIDE DEF T1
  <2> QED BY <2>1, <1>4
<1>6. /\ Linked(native, Base, Len(native), w)
      /\ KindsOf(w) = IF how = "wrap" THEN Append(K, how) ELSE K
      /\ how # "wrap" => w = Self
  <2>1. CASE how = "wrap"
    <3> DEFINE v == Push(Self, <<Frame(how)>>)
    <3>1. w = v
      BY <2>1
    <3>2. Linked(native, Base, Len(native), v) /\ KindsOf(v) = Append(KindsOf(Self), how)
      BY <1>2, HowLinked
    <3> HIDE DEF v, w
    <3> QED BY <3>1, <3>2, <2>1
  <2>2. CASE how # "wrap"
    BY <2>2, <1>1
  <2> QED BY <2>1, <2>2
<1> HIDE DEF w
<1>7. \A u \in Threads : th'[u] = IF u = Running THEN w ELSE IF u = co THEN y ELSE th[u]
  BY <1>1, <1>2, <1>5
<1> HIDE DEF T1
<1>8. Moving(native, th, Base, Running, native', th')
  <2>1. native \in Seq(RecordType) /\ Agree(native, native', Base)
    BY <1>1, <1>3 DEF Stacked, Agree
  <2>2. \A u \in Threads : ~OnStack(native, u) => Resting(th[u])
    BY <1>1 DEF Links
  <2>3. \A u \in Threads \ {Running} : IF OnStack(native, u) THEN th'[u] = th[u] ELSE Resting(th'[u])
    BY <2>2, <1>2, <1>7
  <2> QED BY <2>1, <2>3, <1>1, <1>3, <1>6, <1>7 DEF Moving
<1>9. Links(native', th')
  BY <1>8, MovingLinks
<1>10. Busy(native', th', signal')
  BY <1>1, <1>3, <1>6, <1>7 DEF Busy, Top
<1>11. StackOf(th)' = IF how = "wrap" THEN [StackOf(th) EXCEPT ![Running] = Append(StackOf(th)[Running], how)]
                      ELSE StackOf(th)
  <2>1. \A u \in Threads : KindsOf(th'[u]) = IF u = Running THEN KindsOf(w) ELSE KindsOf(th[u])
    BY <1>2, <1>7
  <2>2. StackOf(th') = [StackOf(th) EXCEPT ![Running] = KindsOf(w)]
    BY <2>1, <1>1 DEF StackOf
  <2>3. StackOf(th)[Running] = K
    BY RunningMapped
  <2>4. [StackOf(th) EXCEPT ![Running] = StackOf(th)[Running]] = StackOf(th)
    BY DEF StackOf
  <2> HIDE DEF K
  <2> QED BY <2>2, <2>3, <2>4, <1>6
<1>12. LifeOf(native, th)' = [LifeOf(native, th) EXCEPT ![co] = IF @ = "fresh" THEN "dead" ELSE @]
  <2>1. ASSUME NEW u \in Threads
        PROVE  Life(native, th'[u], u) = IF u = co /\ Life(native, th[u], u) = "fresh" THEN "dead"
                                         ELSE Life(native, th[u], u)
    <3>1. CASE u = Running
      <4>1. Life(native, th'[u], u) = "running" /\ Life(native, th[u], u) = "running"
        BY <3>1, <1>1 DEF Life, Top
      <4> QED BY <4>1
    <3>2. CASE u # Running
      BY <3>2, <1>2, <1>7
    <3> QED BY <3>1, <3>2
  <2> QED BY <2>1, <1>2, <1>3 DEF LifeOf
<1>13. /\ ResumerOf(native)' = ResumerOf(native) /\ (signal # "none")' = (how = "wrap")
  BY <1>2, <1>3
<1>14. LifeOf(native, th)[Running] = "running"
  BY RunningMapped
<1>15. Abstract!Refused(Running, co, how)
  BY <1>11, <1>12, <1>13, <1>14 DEF Abstract!Refused, Abstract!Calm, Abstract!Put
<1>16. LinkInv'
  BY <1>9, <1>10 DEF LinkInv
<1> QED BY <1>1, <1>2, <1>15, <1>16 DEF Abstract!Next

-----------------------------------------------------------------------------
(* lua_resume. *)

\* A thread that may go on, on a segment of its own.
Ready(y) == /\ y \in LooseType /\ Shaped(y) /\ ~y.fresh /\ y.nC = y.baseC
            /\ \A k \in 1 .. Len(y.ci) : /\ y.ci[k].f \notin {"tm", "handler"}
                                         /\ y.ci[k].f \in Ends => k = Len(y.ci)
                                         /\ y.ci[k].handle <=> y.ci[k].f \in Guards
            /\ y.status = "ok" /\ y.ci # <<>> /\ Top(y.ci).f \in Functions

\* The frames below those of yield and of the pcall that called it.
Below(K) == LET s == SubSeq(K, 1, Len(K) - 1)
            IN  IF s[Len(s)] \in Guards THEN SubSeq(s, 1, Len(s) - 1) ELSE s

\* A new thread gets its body.
LEMMA StartedNew ==
  ASSUME NEW x \in LooseType, x.status = "ok", x.ci = <<>>, NEW count \in Int,
         NEW y, y = Started(x, count)
  PROVE  Ready(y) /\ KindsOf(y) = <<"body">>
<1> DEFINE q == [x EXCEPT !.nC = count, !.baseC = count, !.active = TRUE,
                          !.status = "ok", !.fresh = FALSE]
<1>1. /\ q \in LooseType /\ q.status = "ok" /\ q.nC = count /\ q.baseC = count /\ ~q.fresh
      /\ q.ci = <<>>
  BY DEF LooseType
<1>2. y = Push(q, <<Frame("body")>>)
  BY DEF Started
<1> HIDE DEF q
<1>3. Frame("body") \in FrameType /\ Frame("body").f = "body" /\ Frame("body").handle = FALSE
  BY FrameFits DEF FrameKinds, Frame
<1>4. /\ y \in LooseType /\ y.ci = q.ci \o <<Frame("body")>> /\ y.status = "ok" /\ y.nC = y.baseC
      /\ ~y.fresh
  BY <1>1, <1>2, <1>3, PushFits
<1>5. Above(q, y, Frame("body"))
  BY <1>1, <1>3, <1>4, OneAbove
<1>6. Len(y.ci) = 1 /\ y.ci[1] = Frame("body")
  BY <1>1, <1>5 DEF Above
<1>7. y.ci # <<>> /\ Top(y.ci).f = "body"
  BY <1>3, <1>6 DEF Top
<1>8. \A k \in 1 .. Len(y.ci) : k = 1
  BY <1>6
<1>9. \A k \in 1 .. Len(y.ci) : k = 1 /\ y.ci[k].f = "body" /\ ~y.ci[k].handle
  BY <1>3, <1>6, <1>8
<1>10. Shaped(y)
  BY <1>9 DEF Shaped
<1>11. Ready(y)
  BY <1>4, <1>7, <1>9, <1>10 DEF Ready, Ends, Guards, Functions
<1>12. KindsOf(y) = <<"body">>
  <2>1. /\ KindsOf(y) \in Seq(FrameKinds) /\ Len(KindsOf(y)) = 1 /\ KindsOf(y)[1] = "body"
    <3>1. 1 \in 1 .. Len(y.ci)
      BY <1>6
    <3> QED BY <3>1, <1>3, <1>4, <1>6, KindsFacts
  <2> QED BY <2>1
<1> QED BY <1>11, <1>12

\* The frame that a thread with the first l frames goes on in.
Kept(x, l) == IF x.ci[l].f \in Guards THEN l - 1 ELSE l

\* How far up a thread that yielded goes on.
LEMMA ParkedFacts ==
  ASSUME NEW x \in LooseType, Parked(x), NEW l, l = Len(x.ci) - 1,
         NEW m, m = Kept(x, l)
  PROVE  /\ l \in Nat \ {0} /\ l \in 1 .. Len(x.ci) /\ l < Len(x.ci)
         /\ m \in Nat \ {0} /\ m <= l /\ m < Len(x.ci) /\ m \in 1 .. Len(x.ci)
         /\ x.ci[m].f \in Functions
         /\ \A k \in m + 1 .. l : x.ci[k].f \in Guards
<1> DEFINE L == Len(x.ci)
<1>1. /\ L \in Nat \ {0} /\ L \in 1 .. L /\ x.ci[L].f = "yield" /\ Shaped(x) /\ l = L - 1
  <2>1. x.ci \in Seq(FrameType) /\ x.ci # <<>> /\ Top(x.ci).f = "yield" /\ Shaped(x)
    BY LooseFields DEF Parked
  <2> QED BY <2>1 DEF Top
<1>2. L # 1 /\ L - 1 \in 1 .. L /\ Follows("yield", x.ci[L - 1].f)
  BY <1>1, StoodOn
<1>3. l \in 1 .. L /\ l \in Nat \ {0} /\ l < L
  BY <1>1, <1>2
<1>4. x.ci[l].f \in Functions \cup {"pcall"}
  BY <1>1, <1>2 DEF Follows
<1>5. CASE x.ci[l].f \in Guards
  <2>1. m = l - 1
    BY <1>5 DEF Kept
  <2>2. m \in 1 .. L /\ m # 0 /\ x.ci[m].f \in Functions
    BY <2>1, <1>1, <1>3, <1>5, GuardsStandOn
  <2>3. m \in Nat \ {0} /\ m <= l /\ m < L /\ \A k \in m + 1 .. l : k = l
    BY <2>1, <2>2, <1>3
  <2> QED BY <2>2, <2>3, <1>3, <1>5
<1>6. CASE x.ci[l].f \notin Guards
  <2>a. m = l
    BY <1>6 DEF Kept
  <2>1. m = l /\ \A k \in m + 1 .. l : FALSE
    BY <2>a, <1>3
  <2>2. x.ci[l].f \in Functions
    BY <1>4, <1>6 DEF Guards
  <2> QED BY <2>1, <2>2, <1>3, SMTT(30)
<1> QED BY <1>5, <1>6

\* A thread that yielded goes on below.
LEMMA StartedAgain ==
  ASSUME NEW x \in LooseType, x.status = "yield", Parked(x), NEW count \in Int,
         NEW y, y = Started(x, count)
  PROVE  Ready(y) /\ KindsOf(y) = Below(KindsOf(x))
<1> DEFINE q == [x EXCEPT !.nC = count, !.baseC = count, !.active = TRUE,
                          !.status = "ok", !.fresh = FALSE]
           v == [q EXCEPT !.ci = Front(@)]
           l == Len(x.ci) - 1
           m == Kept(x, l)
           K == KindsOf(x)
<1>1. /\ q \in LooseType /\ q.status = "ok" /\ q.nC = count /\ q.baseC = count /\ ~q.fresh
      /\ q.ci = x.ci
  BY DEF LooseType
<1>2. y = Continued(v)
  BY DEF Started
<1>b. l = Len(x.ci) - 1 /\ m = Kept(x, l)
  OBVIOUS
<1>c. v = [q EXCEPT !.ci = Front(@)]
  OBVIOUS
<1> HIDE DEF v, l, m
<1>3. /\ l \in Nat \ {0} /\ l \in 1 .. Len(x.ci) /\ l < Len(x.ci)
      /\ m \in Nat \ {0} /\ m <= l /\ m < Len(x.ci) /\ m \in 1 .. Len(x.ci)
      /\ x.ci[m].f \in Functions
      /\ \A k \in m + 1 .. l : x.ci[k].f \in Guards
  BY <1>b, ParkedFacts, Zenon
<1>a. Len(x.ci) \in Nat /\ x.ci \in Seq(FrameType) /\ Shaped(x)
  BY LooseFields DEF Parked
<1> HIDE DEF q
<1>4. /\ v \in LooseType /\ v.status = "ok" /\ v.nC = count /\ v.baseC = count /\ ~v.fresh
      /\ Len(v.ci) = l /\ \A k \in 1 .. l : v.ci[k] = x.ci[k]
  <2> DEFINE u == SubSeq(x.ci, 1, l)
  <2>1. Front(x.ci) = u
    BY <1>b, <1>3, <1>a, FrontFits
  <2>2. u \in Seq(FrameType) /\ Len(u) = l /\ \A k \in 1 .. l : u[k] = x.ci[k]
    BY <1>3, <1>a
  <2>3. v = [q EXCEPT !.ci = u]
    BY <2>1, <1>1, <1>c
  <2> HIDE DEF u
  <2> QED BY <2>2, <2>3, <1>1, FramesAssigned
<1>5. /\ m \in 0 .. Len(v.ci) /\ \A k \in m + 1 .. Len(v.ci) : v.ci[k].f \in Guards
      /\ m # 0 => v.ci[m].f \notin Guards
  <2>1. \A k \in m + 1 .. l : k \in 1 .. l
    BY <1>3
  <2>2. m \in 1 .. l /\ m \in 0 .. l
    BY <1>3
  <2> QED BY <2>1, <2>2, <1>3, <1>4 DEF Functions, Guards
<1>6. /\ CutTo(v, y, m) /\ y.status = "ok" /\ ~y.fresh /\ y.nC = y.baseC
  BY <1>2, <1>4, <1>5, ContinuedCut
<1>7. CutTo(q, y, m) /\ CutTo(x, y, m)
  <2>1. \A k \in 1 .. m : k \in 1 .. l
    BY <1>3
  <2>2. \A k \in 1 .. m : y.ci[k] = x.ci[k]
    BY <2>1, <1>4, <1>6 DEF CutTo
  <2>3. m <= Len(x.ci)
    BY <1>3
  <2> QED BY <2>2, <2>3, <1>1, <1>6 DEF CutTo
<1>8. Shaped(y)
  BY <1>7, <1>a, ShapedCut
<1>9. y \in LooseType /\ Len(y.ci) = m /\ \A k \in 1 .. m : y.ci[k] = x.ci[k]
  BY <1>7 DEF CutTo
<1>10. y.ci # <<>> /\ Top(y.ci).f \in Functions
  <2>1. m \in 1 .. m /\ m # 0
    BY <1>3
  <2> QED BY <2>1, <1>3, <1>9 DEF Top
<1>11. \A k \in 1 .. Len(y.ci) : /\ y.ci[k].f \notin {"tm", "handler"} \cup Ends
                                 /\ y.ci[k].handle <=> y.ci[k].f \in Guards
  <2> SUFFICES ASSUME NEW k \in 1 .. m
               PROVE  /\ y.ci[k].f \notin {"tm", "handler"} \cup Ends
                      /\ y.ci[k].handle <=> y.ci[k].f \in Guards
    BY <1>9
  <2>1. k \in 1 .. Len(x.ci) /\ k # Len(x.ci)
    BY <1>3, <1>a
  <2>2. y.ci[k] = x.ci[k]
    BY <1>9
  <2> QED BY <2>1, <2>2 DEF Parked
<1>12. Ready(y)
  BY <1>6, <1>8, <1>9, <1>10, <1>11 DEF Ready
<1>13. KindsOf(q) = K
  BY <1>1 DEF KindsOf
<1>14. KindsOf(y) = SubSeq(K, 1, m)
  BY <1>1, <1>6, <1>7, <1>13, KindsCut
<1>15. K \in Seq(FrameKinds) /\ Len(K) = Len(x.ci) /\ \A k \in 1 .. Len(x.ci) : K[k] = x.ci[k].f
  BY KindsFacts
<1> HIDE DEF K
<1>16. Below(K) = SubSeq(K, 1, m)
  <2> DEFINE s == SubSeq(K, 1, l)
  <2>1. Len(K) - 1 = l
    BY <1>b, <1>15
  <2>2. /\ Len(s) = l /\ s[l] = x.ci[l].f
        /\ \A k \in Nat : k <= l => SubSeq(s, 1, k) = SubSeq(K, 1, k)
    <3>1. l \in Nat /\ l <= Len(K) /\ l \in 1 .. l
      BY <1>3, <1>15
    <3>2. /\ Len(s) = l /\ \A k \in 1 .. l : s[k] = K[k]
          /\ \A k \in Nat : k <= l => SubSeq(s, 1, k) = SubSeq(K, 1, k)
      BY <3>1, <1>15, CutKinds
    <3> QED BY <3>1, <3>2, <1>3, <1>15
  <2>3. Below(K) = IF s[l] \in Guards THEN SubSeq(s, 1, l - 1) ELSE s
    <3>1. SubSeq(K, 1, Len(K) - 1) = s
      BY <2>1
    <3> HIDE DEF s
    <3> QED BY <3>1, <2>2 DEF Below
  <2>4. m = IF x.ci[l].f \in Guards THEN l - 1 ELSE l
    BY <1>b DEF Kept
  <2> HIDE DEF s
  <2>5. CASE x.ci[l].f \in Guards
    BY <2>2, <2>3, <2>4, <2>5, <1>3
  <2>6. CASE x.ci[l].f \notin Guards
    BY <2>2, <2>3, <2>4, <2>6 DEF s
  <2> QED BY <2>5, <2>6
<1> QED BY <1>12, <1>14, <1>16 DEF K

\* A thread starts or goes on as the abstract module says.
LEMMA WokenMaps ==
  ASSUME CoroutineInv, LinkInv, NEW co \in Threads, ~OnStack(native, co),
         th[co].status = "yield" \/ (th[co].status = "ok" /\ th[co].fresh),
         NEW count \in Int, NEW y, y = Started(th[co], count)
  PROVE  /\ Ready(y) /\ KindsOf(y) = Abstract!Woken(co)
         /\ LifeOf(native, th)[co] \in {"fresh", "suspended"}
<1> DEFINE x == th[co]
<1>1. x \in LooseType /\ Resting(x)
  BY ThreadFacts DEF LinkInv, Links
<1>2. ~(native # <<>> /\ co = Top(native).t)
  <2>1. native \in Seq(RecordType)
    BY DEF CoroutineInv, TypeOK
  <2>2. native # <<>> => Len(native) \in 1 .. Len(native)
    BY <2>1
  <2> QED BY <2>2 DEF OnStack, Top
<1>3. CASE x.status = "ok"
  <2>1. x.ci = <<>>
    BY <1>1, <1>3 DEF Resting
  <2>2. LifeOf(native, th)[co] = "fresh"
    BY <1>2, <1>3, <2>1 DEF LifeOf, Life
  <2>3. Ready(y) /\ KindsOf(y) = <<"body">>
    BY <1>1, <1>3, <2>1, StartedNew
  <2> QED BY <2>2, <2>3 DEF Abstract!Woken
<1>4. CASE x.status = "yield"
  <2>1. Parked(x)
    BY <1>1, <1>4 DEF Resting, Parked
  <2>2. LifeOf(native, th)[co] = "suspended"
    BY <1>2, <1>4 DEF LifeOf, Life
  <2>3. Ready(y) /\ KindsOf(y) = Below(KindsOf(x))
    BY <1>1, <1>4, <2>1, StartedAgain
  <2>4. StackOf(th)[co] = KindsOf(x)
    BY DEF StackOf
  <2>5. Abstract!Woken(co) = Below(KindsOf(x))
    BY <2>2, <2>4 DEF Abstract!Woken, Abstract!Front, Abstract!Top, Below, Guards
  <2> QED BY <2>2, <2>3, <2>5
<1> QED BY <1>3, <1>4

\* Thread co is put on the stack, and the one that ran, if any, becomes w.
Entry(co, from, y, w) ==
  /\ co \in Threads /\ from \in Threads /\ ~OnStack(native, co) /\ Ready(y)
  /\ native' = Append(native, ResumeRec(co, from)) /\ th'[co] = y
  /\ native # <<>> => /\ co # Running /\ th'[Running] = w
                      /\ Linked(native, Base, Len(native), w) /\ w \in LooseType
                      /\ Top(w.ci).f \in {"resume", "wrap"}
                      /\ Len(Self.ci) \in Nat /\ Len(w.ci) = Len(Self.ci) + 1
  /\ \A u \in Threads \ {co} : (native # <<>> /\ u = Running) \/ th'[u] = th[u]

\* What that makes of the native stack, which has n records.
Entered1(co, from, n) ==
  /\ n \in Nat /\ native \in Seq(RecordType) /\ native' \in Seq(RecordType)
  /\ Len(native') = n + 1 /\ native' # <<>> /\ Agree(native, native', n)
  /\ \A i \in 1 .. n : native'[i] = native[i]
  /\ native'[n + 1] = ResumeRec(co, from) /\ Top(native') = ResumeRec(co, from)
  /\ ResumeRec(co, from).k = "resume" /\ ResumeRec(co, from).t = co
  /\ ResumeRec(co, from).from = from
  /\ \A i \in 1 .. n : native[i].t # co /\ native[i] \in RecordType /\ Good(native, i)
  /\ \A i \in 1 .. n + 1 : Good(native', i)

\* The new record.
LEMMA EntryFacts ==
  ASSUME CoroutineInv, CoroutineInv', NEW co, NEW from, NEW y, NEW w, Entry(co, from, y, w)
  PROVE  Entered1(co, from, Len(native))
<1> DEFINE n == Len(native)
<1>1. native' = Append(native, ResumeRec(co, from)) /\ ~OnStack(native, co)
  BY DEF Entry
<1>2. native \in Seq(RecordType) /\ native' \in Seq(RecordType) /\ n \in Nat
  BY DEF CoroutineInv, TypeOK
<1>3. /\ Len(native') = n + 1 /\ native'[n + 1] = ResumeRec(co, from)
      /\ \A i \in 1 .. n : native'[i] = native[i]
  BY <1>1, <1>2
<1>4. Agree(native, native', n)
  BY <1>3 DEF Agree
<1>5. \A i \in 1 .. n : Good(native, i)
  BY DEF CoroutineInv, StackInv, Rest, Record
<1>6. \A i \in 1 .. n + 1 : Good(native', i)
  BY <1>3 DEF CoroutineInv, StackInv, Rest, Record
<1>7. ResumeRec(co, from).k = "resume" /\ ResumeRec(co, from).t = co /\ ResumeRec(co, from).from = from
  BY DEF ResumeRec
<1>8. native' # <<>> /\ Top(native') = ResumeRec(co, from)
  BY <1>2, <1>3 DEF Top
<1>9. \A i \in 1 .. n : native[i].t # co /\ native[i] \in RecordType
  BY <1>1, <1>2 DEF OnStack
<1> DEFINE s2 == native'
           r == ResumeRec(co, from)
<1>a. s2 = native' /\ r = ResumeRec(co, from)
  OBVIOUS
<1> HIDE DEF s2, r
<1>10. n \in Nat /\ native \in Seq(RecordType) /\ s2 \in Seq(RecordType) /\ Len(s2) = n + 1
  BY <1>a, <1>2, <1>3
<1>11. s2 # <<>> /\ Top(s2) = r /\ Agree(native, s2, n) /\ s2[n + 1] = r
  BY <1>a, <1>3, <1>4, <1>8
<1>12. /\ r.k = "resume" /\ r.t = co /\ r.from = from
       /\ \A i \in 1 .. n : s2[i] = native[i]
  BY <1>a, <1>3, <1>7
<1>13. /\ \A i \in 1 .. n : native[i].t # co /\ native[i] \in RecordType /\ Good(native, i)
       /\ \A i \in 1 .. n + 1 : Good(s2, i)
  BY <1>a, <1>5, <1>6, <1>9
<1>14. /\ n \in Nat /\ native \in Seq(RecordType) /\ s2 \in Seq(RecordType)
       /\ Len(s2) = n + 1 /\ s2 # <<>> /\ Agree(native, s2, n)
       /\ \A i \in 1 .. n : s2[i] = native[i]
       /\ s2[n + 1] = r /\ Top(s2) = r
       /\ r.k = "resume" /\ r.t = co
       /\ r.from = from
       /\ \A i \in 1 .. n : native[i].t # co /\ native[i] \in RecordType /\ Good(native, i)
       /\ \A i \in 1 .. n + 1 : Good(s2, i)
  BY <1>10, <1>11, <1>12, <1>13, Zenon
<1> QED BY <1>14 DEF s2, r, Entered1

\* Everything is linked.
LEMMA EntryLinks ==
  ASSUME CoroutineInv, CoroutineInv', LinkInv,
         NEW co, NEW from, NEW y, NEW w, Entry(co, from, y, w)
  PROVE  LinkInv'
<1> DEFINE n == Len(native)
           c == n + 1
<1>1. /\ n \in Nat /\ native \in Seq(RecordType) /\ native' \in Seq(RecordType)
      /\ Len(native') = n + 1 /\ native' # <<>> /\ Agree(native, native', n)
      /\ \A i \in 1 .. n : native'[i] = native[i]
      /\ native'[n + 1] = ResumeRec(co, from) /\ Top(native') = ResumeRec(co, from)
      /\ ResumeRec(co, from).k = "resume" /\ ResumeRec(co, from).t = co
      /\ \A i \in 1 .. n : native[i].t # co /\ native[i] \in RecordType /\ Good(native, i)
  <2>1. Entered1(co, from, Len(native))
    BY EntryFacts
  <2> QED BY <2>1 DEF Entered1
<1>2. /\ co \in Threads /\ ~OnStack(native, co) /\ Ready(y) /\ th'[co] = y
      /\ native # <<>> => /\ co # Running /\ th'[Running] = w
                          /\ Linked(native, Base, n, w) /\ w \in LooseType
                          /\ Top(w.ci).f \in {"resume", "wrap"}
                          /\ Len(Self.ci) \in Nat /\ Len(w.ci) = Len(Self.ci) + 1
      /\ \A u \in Threads \ {co} : (native # <<>> /\ u = Running) \/ th'[u] = th[u]
  BY DEF Entry
<1>3. /\ th \in [Threads -> LooseType] /\ Rest(native, th) /\ Links(native, th)
      /\ Stacked(native, th)
  <2>1. th \in [Threads -> LooseType] /\ Rest(native, th) /\ Links(native, th)
    BY ThreadIsLoose DEF CoroutineInv, TypeOK, StackInv, LinkInv
  <2> QED BY <2>1, <1>1 DEF Stacked
<1>a. c \in Nat \ {0} /\ c - 1 = n
  BY <1>1
<1>4. Linked(native', c, c, y)
  <2>1. \A j \in 1 .. c - 1 : native'[j].t # native'[c].t
    BY <1>1, <1>a
  <2>2. Starting(native', c, y)
    BY <2>1, <1>1, <1>2, <1>a DEF Starting, Ready
  <2> HIDE DEF c
  <2> QED BY <2>2, LinkedStart
<1>b. n # 0 => native # <<>>
  BY <1>1
<1>c. native # <<>> => n \in 1 .. n
  BY <1>1
<1>d. native # <<>> => Running = native[n].t /\ Segment(native, Base, n) /\ Base \in 1 .. n
  BY RunningLinked
<1>5. ASSUME native # <<>>, NEW b \in 1 .. n, Segment(native, b, n) PROVE b = Base
  <2>1. Segment(native, Base, n) /\ Base \in 1 .. n
    BY <1>5, <1>d
  <2>2. CASE b < Base
    <3>1. Base \in b .. n /\ Base # b
      BY <2>1, <2>2, <1>1, <1>5
    <3>2. native[Base].k = "resume"
      BY <2>1 DEF Segment
    <3> QED BY <3>1, <3>2, <1>5 DEF Segment
  <2>3. CASE Base < b
    <3>1. b \in Base .. n /\ Base # b
      BY <2>1, <2>3, <1>1, <1>5
    <3>2. native[b].k = "resume"
      BY <1>5 DEF Segment
    <3> QED BY <3>1, <3>2, <2>1 DEF Segment
  <2> QED BY <2>1, <2>2, <2>3, <1>1, <1>5
<1>6. ASSUME NEW i \in 1 .. n, NEW b \in 1 .. n, Segment(native, b, i)
      PROVE  Standing(native, b, i, th'[native[i].t])
  <2>1. Standing(native, b, i, th[native[i].t]) /\ native[i].t \in Threads /\ native[i].t # co
    BY <1>1, <1>3, <1>6, SegmentStands
  <2>2. CASE th'[native[i].t] = th[native[i].t]
    BY <2>1, <2>2
  <2>3. CASE th'[native[i].t] # th[native[i].t]
    <3>1. native[i].t = Running /\ native # <<>>
      BY <2>1, <2>3, <1>2
    <3>2. th'[native[i].t] = w /\ th[native[i].t] = Self
      BY <3>1, <1>2 DEF Self
    <3>3. Pos(native[i]) \in Nat /\ Pos(native[i]) <= Len(Self.ci)
      BY <2>1, <3>2, <1>1, RecordFields DEF Standing
    <3>4. Pos(native[i]) <= Len(w.ci)
      BY <3>1, <3>3, <1>2
    <3> QED BY <2>1, <3>1, <3>2, <3>4, <1>2 DEF Standing
  <2> QED BY <2>2, <2>3
<1>7. native # <<>> => /\ Top(th'[native[n].t].ci).f \in {"resume", "wrap"}
                       /\ \A b \in 1 .. n : Segment(native, b, n) => Linked(native, b, n, th'[native[n].t])
  <2> SUFFICES ASSUME native # <<>>
               PROVE  /\ Top(th'[native[n].t].ci).f \in {"resume", "wrap"}
                      /\ \A b \in 1 .. n : Segment(native, b, n) => Linked(native, b, n, th'[native[n].t])
    OBVIOUS
  <2>1. th'[native[n].t] = w
    BY <1>2, <1>d
  <2> QED BY <2>1, <1>2, <1>5
<1>8. \A u \in Threads \ {co} : (native # <<>> /\ u = native[n].t) \/ th'[u] = th[u]
  BY <1>2, <1>d
<1>9. Entering(native, th, co, native', th')
  BY <1>1, <1>2, <1>3, <1>4, <1>7, <1>8 DEF Entering
<1>10. Links(native', th')
  BY <1>6, <1>9, EnteringLinks
<1>11. Busy(native', th', signal')
  BY <1>1, <1>2 DEF Busy, Ready
<1> QED BY <1>10, <1>11 DEF LinkInv

\* Who resumed the coroutine that starts is new, the others keep theirs.
LEMMA ResumersEnter ==
  ASSUME CoroutineInv, CoroutineInv', NEW co, NEW from, NEW y, NEW w, Entry(co, from, y, w)
  PROVE  ResumerOf(native)' = [ResumerOf(native) EXCEPT ![co] = from]
<1> DEFINE s1 == native
           s2 == native'
           n == Len(s1)
           r == ResumeRec(co, from)
<1>1. Entered1(co, from, n)
  BY EntryFacts
<1>2. /\ n \in Nat /\ s2 \in Seq(RecordType) /\ Len(s2) = n + 1 /\ s2[n + 1] = r
      /\ r.k = "resume" /\ r.t = co /\ r.from = from
      /\ \A i \in 1 .. n : s2[i] = s1[i] /\ s1[i].t # co
      /\ \A i \in 1 .. Len(s2) : Good(s2, i)
  BY <1>1 DEF Entered1
<1>3. co \in Threads
  BY DEF Entry
<1>4. ResumerOf(native)' = ResumerOf(s2) /\ ResumerOf(native) = ResumerOf(s1)
  OBVIOUS
<1> HIDE DEF s1, s2, n, r
<1>5. Resumer(s2, co) = from
  <2> DEFINE b == n + 1
  <2>1. b \in 1 .. Len(s2) /\ s2[b].k = "resume" /\ s2[b].t = co /\ s2[b].from = from
    BY <1>2
  <2> HIDE DEF b
  <2>2. Resumer(s2, s2[b].t) = s2[b].from
    BY <2>1, <1>2, ResumerIs
  <2> QED BY <2>1, <2>2
<1>6. ASSUME NEW u \in Threads, u # co PROVE Resumer(s2, u) = Resumer(s1, u)
  <2> DEFINE A == {i \in 1 .. n : s1[i].k = "resume" /\ s1[i].t = u}
             B == {i \in 1 .. Len(s2) : s2[i].k = "resume" /\ s2[i].t = u}
  <2>1. A = B
    <3>1. \A i : i \in 1 .. Len(s2) <=> i \in 1 .. n \/ i = n + 1
      BY <1>2
    <3>2. \A i \in B : i # n + 1
      BY <1>2, <1>6
    <3>3. \A i \in B : i \in 1 .. n
      BY <3>1, <3>2
    <3> QED BY <3>1, <3>3, <1>2
  <2>2. A # {} => s2[CHOOSE i \in A : TRUE] = s1[CHOOSE i \in A : TRUE]
    <3>1. A # {} => (CHOOSE i \in A : TRUE) \in A
      OBVIOUS
    <3> QED BY <3>1, <1>2
  <2>3. Resumer(s1, u) = IF A = {} THEN u ELSE s1[CHOOSE i \in A : TRUE].from
    BY DEF Resumer, n
  <2>4. Resumer(s2, u) = IF B = {} THEN u ELSE s2[CHOOSE i \in B : TRUE].from
    BY DEF Resumer
  <2> HIDE DEF A, B
  <2> QED BY <2>1, <2>2, <2>3, <2>4
<1>7. \A u \in Threads : Resumer(s2, u) = IF u = co THEN from ELSE Resumer(s1, u)
  BY <1>5, <1>6
<1>8. ResumerOf(s2) = [ResumerOf(s1) EXCEPT ![co] = from]
  BY <1>7, <1>3 DEF ResumerOf
<1> QED BY <1>4, <1>8

\* The host resumes a coroutine.
LEMMA HostResumeMaps ==
  ASSUME CoroutineInv, LinkInv, HostResume PROVE LinkInv' /\ Abstract!Next
<1>1. PICK co \in Threads :
        /\ th[co].status = "yield" \/ (th[co].status = "ok" /\ th[co].fresh)
        /\ th' = [th EXCEPT ![co] = Started(th[co], 1)]
        /\ native' = <<ResumeRec(co, co)>>
  BY DEF HostResume, Set
<1> DEFINE y == Started(th[co], 1)
           r == ResumeRec(co, co)
<1>2. /\ native = <<>> /\ signal' = signal /\ CoroutineInv'
  BY HostResumeKeeps DEF HostResume
<1>3. ~OnStack(native, co) /\ native' = Append(native, r)
  BY <1>1, <1>2 DEF OnStack
<1>4. th'[co] = y /\ (\A u \in Threads \ {co} : th'[u] = th[u]) /\ DOMAIN th = Threads
  BY <1>1 DEF CoroutineInv, TypeOK
<1>5. y = Started(th[co], 1)
  OBVIOUS
<1> HIDE DEF y
<1>6. /\ Ready(y) /\ KindsOf(y) = Abstract!Woken(co)
      /\ LifeOf(native, th)[co] \in {"fresh", "suspended"}
  BY <1>1, <1>3, <1>5, WokenMaps
<1>7. Entry(co, co, y, y)
  BY <1>2, <1>3, <1>4, <1>6 DEF Entry
<1>8. LinkInv'
  BY <1>2, <1>7, EntryLinks
<1>9. ResumerOf(native)' = ResumerOf(native)
  <2>1. ResumerOf(native)' = [ResumerOf(native) EXCEPT ![co] = co]
    BY <1>2, <1>7, ResumersEnter
  <2>2. ResumerOf(native)[co] = co
    BY <1>2 DEF ResumerOf, Resumer
  <2>3. [ResumerOf(native) EXCEPT ![co] = ResumerOf(native)[co]] = ResumerOf(native)
    BY DEF ResumerOf
  <2> QED BY <2>1, <2>2, <2>3
<1>10. StackOf(th)' = [StackOf(th) EXCEPT ![co] = Abstract!Woken(co)]
  <2>1. \A u \in Threads : KindsOf(th'[u]) = IF u = co THEN KindsOf(y) ELSE KindsOf(th[u])
    BY <1>4
  <2> QED BY <2>1, <1>6 DEF StackOf
<1>11. LifeOf(native, th)' = [LifeOf(native, th) EXCEPT ![co] = "running"]
  <2>1. native' # <<>> /\ Top(native').t = co
    BY <1>1 DEF Top, ResumeRec
  <2>2. \A u \in Threads : Life(native', th'[u], u) = IF u = co THEN "running" ELSE Life(native, th[u], u)
    BY <2>1, <1>2, <1>4 DEF Life
  <2> QED BY <2>2 DEF LifeOf
<1>12. Abstract!Idle
  BY <1>2 DEF Abstract!Idle, LifeOf, Life
<1>13. (signal # "none")' = (signal # "none")
  BY <1>2
<1>14. Abstract!HostResume
  BY <1>6, <1>9, <1>10, <1>11, <1>12, <1>13 DEF Abstract!HostResume, Abstract!Put
<1> QED BY <1>8, <1>14 DEF Abstract!Next

\* The coroutine that a resume does not refuse.
Resumed(co, how) ==
  /\ Len(Self.ci) + 1 <= MaxFrames
  /\ th' = [th EXCEPT ![co] = Started(th[co], Self.nC + 1),
                     ![Running] = Push(@, <<Frame(how)>>)]
  /\ native' = Append(native, ResumeRec(co, Running))
  /\ UNCHANGED signal

\* A script resumes a coroutine, which runs from now on.
LEMMA ResumedMaps ==
  ASSUME CoroutineInv, CoroutineInv', LinkInv, native # <<>>, signal = "none",
         NEW co \in Threads, NEW how \in {"resume", "wrap"}, CoStatus(co) = "suspended",
         Resumed(co, how)
  PROVE  LinkInv' /\ Abstract!Next
<1> DEFINE y == Started(th[co], Self.nC + 1)
           w == Push(Self, <<Frame(how)>>)
           T1 == [th EXCEPT ![co] = y]
           K == KindsOf(Self)
<1>1. co # Running /\ ~OnStack(native, co)
  BY AwayFromStack
<1>2. /\ DOMAIN th = Threads /\ Running \in Threads /\ Self = th[Running] /\ Self \in LooseType
      /\ Self.nC + 1 \in Int
  BY RunningLinked, LooseFields
<1>3. T1[Running] = Self /\ DOMAIN T1 = Threads /\ T1[co] = y
      /\ \A u \in Threads \ {co} : T1[u] = th[u]
  BY <1>1, <1>2
<1>4. th' = [T1 EXCEPT ![Running] = w]
  <2>1. th' = [T1 EXCEPT ![Running] = Push(th[Running], <<Frame(how)>>)]
    BY DEF Resumed
  <2> HIDE DEF T1
  <2> QED BY <2>1, <1>2
<1>5. w = Push(Self, <<Frame(how)>>) /\ y = Started(th[co], Self.nC + 1)
  OBVIOUS
<1> HIDE DEF T1, w, y
<1>6. \A u \in Threads : th'[u] = IF u = Running THEN w ELSE IF u = co THEN y ELSE th[u]
  BY <1>1, <1>2, <1>3, <1>4
<1>7. /\ w \in LooseType /\ w.status = "ok" /\ ~w.fresh /\ w.ci # <<>> /\ Top(w.ci).f = how
      /\ KindsOf(w) = Append(K, how) /\ Linked(native, Base, Len(native), w)
      /\ Len(Self.ci) \in Nat /\ Len(w.ci) = Len(Self.ci) + 1
  BY <1>5, HowLinked
<1>8. th[co].status = "yield" \/ (th[co].status = "ok" /\ th[co].fresh)
  BY DEF CoStatus
<1>9. /\ Ready(y) /\ KindsOf(y) = Abstract!Woken(co)
      /\ LifeOf(native, th)[co] \in {"fresh", "suspended"}
  BY <1>1, <1>2, <1>5, <1>8, WokenMaps
<1>a. native' = Append(native, ResumeRec(co, Running)) /\ signal' = signal
      /\ Len(Self.ci) + 1 <= MaxFrames
  BY DEF Resumed
<1>10. Entry(co, Running, y, w)
  <2>1. th'[co] = y /\ th'[Running] = w
        /\ \A u \in Threads \ {co} : (native # <<>> /\ u = Running) \/ th'[u] = th[u]
    BY <1>1, <1>2, <1>6
  <2> QED BY <2>1, <1>a, <1>1, <1>2, <1>7, <1>9 DEF Entry
<1>11. LinkInv'
  BY <1>10, EntryLinks
<1>12. ResumerOf(native)' = [ResumerOf(native) EXCEPT ![co] = Running]
  BY <1>10, ResumersEnter
<1>13. StackOf(th)[Running] = K /\ LifeOf(native, th)[Running] = "running" /\ Len(K) = Len(Self.ci)
  BY RunningMapped
<1> HIDE DEF K
<1>14. StackOf(th)' = [StackOf(th) EXCEPT ![co] = Abstract!Woken(co), ![Running] = Append(@, how)]
  <2> DEFINE W == Abstract!Woken(co)
             S1 == [StackOf(th) EXCEPT ![co] = W]
  <2>1. StackOf(th') = [S1 EXCEPT ![Running] = Append(K, how)]
    <3>1. KindsOf(w) = Append(K, how) /\ KindsOf(y) = W
      BY <1>7, <1>9
    <3> HIDE DEF W
    <3>2. ASSUME NEW u \in Threads
          PROVE  KindsOf(th'[u]) = IF u = Running THEN Append(K, how)
                                   ELSE IF u = co THEN W ELSE KindsOf(th[u])
      <4>1. CASE u = Running
        BY <4>1, <3>1, <1>6
      <4>2. CASE u = co /\ u # Running
        BY <4>2, <3>1, <1>6
      <4>3. CASE u # co /\ u # Running
        BY <4>3, <1>6
      <4> QED BY <4>1, <4>2, <4>3
    <3> QED BY <3>2, <1>1, <1>2 DEF StackOf
  <2>2. StackOf(th') = [S1 EXCEPT ![Running] = Append(StackOf(th)[Running], how)]
    BY <2>1, <1>13
  <2> QED BY <2>2
<1>15. LifeOf(native, th)' = [LifeOf(native, th) EXCEPT ![co] = "running", ![Running] = "normal"]
  <2>1. native' # <<>> /\ Top(native').t = co
    <3>1. Entered1(co, Running, Len(native))
      BY <1>10, EntryFacts
    <3> QED BY <3>1 DEF Entered1
  <2>2. ASSUME NEW u \in Threads
        PROVE  Life(native', th'[u], u) = IF u = Running THEN "normal"
                                          ELSE IF u = co THEN "running" ELSE Life(native, th[u], u)
    <3>1. CASE u = co
      BY <2>1, <3>1, <1>1 DEF Life
    <3>2. CASE u = Running
      BY <2>1, <3>2, <1>1, <1>2, <1>6, <1>7 DEF Life
    <3>3. CASE u # co /\ u # Running
      <4>1. th'[u] = th[u]
        BY <3>3, <1>6
      <4>2. ~(native # <<>> /\ u = Top(native).t)
        BY <3>3 DEF Running
      <4> QED BY <2>1, <3>3, <4>1, <4>2 DEF Life
    <3> QED BY <3>1, <3>2, <3>3
  <2> QED BY <2>2, <1>1, <1>2 DEF LifeOf
<1>16. (signal # "none")' = (signal # "none") /\ Len(StackOf(th)[Running]) + 1 <= MaxFrames
  BY <1>a, <1>13
<1>17. Abstract!Resume(Running, co, how)
  BY <1>9, <1>12, <1>13, <1>14, <1>15, <1>16 DEF Abstract!Resume, Abstract!Calm
<1> QED BY <1>2, <1>11, <1>17 DEF Abstract!Next

\* coroutine.resume and a function made by coroutine.wrap.
LEMMA ResumeMaps ==
  ASSUME CoroutineInv, LinkInv, NEW co \in Threads, NEW how \in {"resume", "wrap"}, Resume(co, how)
  PROVE  LinkInv' /\ Abstract!Next
<1> DEFINE x == th[co]
           v == [x EXCEPT !.nC = Self.nC, !.fresh = FALSE]
<1>1. native # <<>> /\ signal = "none" /\ CoroutineInv'
  BY ResumeKeeps DEF Resume, Calm
<1>2. x \in LooseType /\ Self.nC \in Int
  BY <1>1, ThreadFacts, RunningLinked, LooseFields
<1>3. LifeOf(native, th)[co] = Life(native, x, co)
  BY <1>1, LifeStatus
<1>4. CASE CoStatus(co) # "suspended"
  <2>1. Refused(co, how, x)
    BY <1>4 DEF Resume
  <2>2. Life(native, x, co) # "fresh"
    BY <1>1, <1>3, <1>4, LifeStatus
  <2>3. Refusing(co, how, x)
    BY <2>1, <2>2 DEF Refusing
  <2> QED BY <1>1, <2>3, RefusedMaps
<1>5. CASE CoStatus(co) = "suspended" /\ Self.nC >= MaxC
  <2>1. Refused(co, how, v)
    BY <1>5 DEF Resume
  <2>2. co # Running /\ ~OnStack(native, co)
    BY <1>1, <1>5, AwayFromStack
  <2>3. Resting(x)
    BY <2>2 DEF LinkInv, Links
  <2>4. v.ci = x.ci /\ v.status = x.status /\ ~v.fresh
    BY <1>2 DEF LooseType
  <2>5. x.status \in {"yield", "ok"} /\ (x.status = "ok" => x.ci = <<>> /\ x.fresh)
    BY <1>5, <2>2 DEF CoStatus
  <2> HIDE DEF v, x
  <2>6. Resting(v) /\ KindsOf(v) = KindsOf(x)
    BY <2>3, <2>4 DEF Resting, KindsOf, Shaped
  <2>7. Life(native, v, co) = IF Life(native, x, co) = "fresh" THEN "dead" ELSE Life(native, x, co)
    <3>1. ~(native # <<>> /\ co = Top(native).t)
      BY <2>2 DEF Running
    <3> QED BY <3>1, <2>4, <2>5 DEF Life
  <2>8. Refusing(co, how, v)
    BY <2>1, <2>2, <2>6, <2>7 DEF Refusing, x
  <2> QED BY <1>1, <2>8, RefusedMaps
<1>6. CASE CoStatus(co) = "suspended" /\ ~(Self.nC >= MaxC)
  <2>1. Resumed(co, how)
    BY <1>6 DEF Resume, Resumed, Room
  <2> QED BY <1>1, <1>6, <2>1, ResumedMaps
<1> QED BY <1>4, <1>5, <1>6

-----------------------------------------------------------------------------
(* The refinement. *)

\* The first state.
LEMMA LinkInit ==
  ASSUME Init PROVE LinkInv /\ Abstract!Init
<1>1. /\ native = <<>> /\ signal = "none" /\ DOMAIN th = Threads
      /\ \A t \in Threads : th[t] = NoThread
  BY DEF Init
<1>2. native \in Seq(RecordType) /\ \A t \in Threads : ~OnStack(native, t)
  BY <1>1 DEF OnStack
<1>3. \A t \in Threads : Resting(th[t]) /\ KindsOf(th[t]) = <<>> /\ Life(native, th[t], t) = "dead"
  BY <1>1, <1>2, NewThreadSeen
<1>4. LinkInv
  BY <1>1, <1>3 DEF LinkInv, Links, Busy
<1>5. \A t \in Threads : Resumer(native, t) = t
  BY <1>1 DEF Resumer
<1>6. Abstract!Init
  BY <1>1, <1>3, <1>5 DEF Abstract!Init, StackOf, LifeOf, ResumerOf
<1> QED BY <1>4, <1>6

\* Every step keeps the link, and is a step of the abstract module or none.
LEMMA LinkNext ==
  ASSUME CoroutineInv, LinkInv, [Next]_vars
  PROVE  LinkInv' /\ [Abstract!Next]_(Abstract!vars)
<1>1. CASE UNCHANGED vars
  <2>1. th' = th /\ native' = native /\ signal' = signal
    BY <1>1 DEF vars
  <2>2. LinkInv'
    BY <2>1 DEF LinkInv
  <2>3. UNCHANGED Abstract!vars
    BY <2>1 DEF Abstract!vars
  <2> QED BY <2>2, <2>3
<1>2. CASE Load
  BY <1>2, LoadMaps
<1>3. CASE HostResume
  BY <1>3, HostResumeMaps
<1>4. CASE CallLua
  BY <1>4, CallLuaMaps
<1>5. CASE CallMeta
  BY <1>5, CallMetaMaps
<1>6. CASE Pcall("pcall") \/ Pcall("xpcall")
  BY <1>6, PcallMaps
<1>7. CASE Yield
  BY <1>7, YieldMaps
<1>8. CASE Return
  BY <1>8, ReturnStepMaps
<1>9. CASE Error
  BY <1>9, ErrorMaps
<1>10. CASE Unwind
  BY <1>10, UnwindMaps
<1>11. CASE \E co \in Threads : Resume(co, "resume") \/ Resume(co, "wrap")
  BY <1>11, ResumeMaps
<1>12. CASE \E co \in Threads : Create(co)
  BY <1>12, CreateMaps
<1>13. CASE \E co \in Threads : Close(co)
  BY <1>13, CloseMaps
<1> QED BY <1>1, <1>2, <1>3, <1>4, <1>5, <1>6, <1>7, <1>8, <1>9, <1>10, <1>11, <1>12, <1>13 DEF Next

\* Every activation of a coroutine is where the records of the native stack say
\* it is: each pcall, handler and metamethod frame belongs to its own C++ call,
\* or to a continuation once a yield has left that call, the flag of
\* resume_findhandler is set on just the protected calls that may still catch,
\* and a coroutine that waits has the frame of what it waits for on top.
THEOREM FramesMatchRecords == Spec => [](CoroutineInv /\ LinkInv)
<1>1. Init => CoroutineInv /\ LinkInv
  BY CoroutineInit, LinkInit
<1>2. CoroutineInv /\ LinkInv /\ [Next]_vars => (CoroutineInv /\ LinkInv)'
  BY CoroutineNext, LinkNext
<1> QED BY <1>1, <1>2, PTL DEF Spec

\* The implementation gives scripts the coroutines and protected calls of the
\* abstract module: whatever counters, flags, continuations and unwinding do, an
\* error reaches the innermost handler or the resumer, and a yield is stopped by
\* a metamethod or an error handler only.
THEOREM CoroutinesAreImplemented == Spec => ImplementsCoroutines
<1>1. Init => Abstract!Init
  BY LinkInit
<1>2. CoroutineInv /\ LinkInv /\ [Next]_vars => [Abstract!Next]_(Abstract!vars)
  BY LinkNext
<1> QED BY <1>1, <1>2, FramesMatchRecords, PTL DEF Spec, ImplementsCoroutines, Abstract!Spec
=============================================================================
