------------------------ MODULE LuauCoroutineLinks ------------------------
(***************************************************************************)
(* The invariant that ties each frame of a thread of LuauCoroutine to the  *)
(* records of the native stack, what pushing and cutting frames and        *)
(* records does to it, and the proof that the steps that call or return    *)
(* keep it and do what Coroutines promises.                                *)
(***************************************************************************)
EXTENDS LuauCoroutineProofs

-----------------------------------------------------------------------------
(* What an activation may stand on. *)

Functions == {"lua", "tm", "body", "handler"}
Guards == {"pcall", "xpcall"}
Ends == {"yield", "resume", "wrap"}

\* A library function runs on top only, for its caller.
Follows(f, g) == /\ f = "body" => g \in Guards
                 /\ f = "yield" => g \in Functions \cup {"pcall"}
                 /\ f \notin {"body", "yield", "handler"} => g \in Functions
Shaped(x) == \A k \in 1 .. Len(x.ci) :
               IF k = 1 THEN x.ci[k].f = "body" ELSE Follows(x.ci[k].f, x.ci[k - 1].f)

-----------------------------------------------------------------------------
(* The frames of a thread x and its records b to n of the native stack s. *)

\* The frame that record j put there.
Owner(s, x, j) ==
  /\ s[j].k = "call" =>
       /\ x.ci[s[j].at].f = IF s[j - 1].k = "pcall" THEN "body"
                            ELSE IF s[j - 1].k \in {"errh", "cont"} THEN "handler" ELSE "tm"
       /\ s[j - 1].k \in {"pcall", "errh", "cont"} => s[j].at = Pos(s[j - 1]) + 1
  /\ s[j].k = "pcall" => s[j].errf \in Guards /\ x.ci[s[j].at].f = s[j].errf
  /\ s[j].k = "cont" => x.ci[s[j].at].f = "xpcall"
  /\ s[j].k = "errh" => s[j - 1].errf = "xpcall"

\* The frames that record j is the nearest below run in its luau_execute, or
\* will be gone on with by its resume_continue.
Upto(s, n, x, j) == IF j = n THEN Len(x.ci) ELSE s[j + 1].at - 1
Ran(s, n, x, j) ==
  /\ s[j].k \in {"call", "resume"} =>
       \A k \in Pos(s[j]) + 1 .. Upto(s, n, x, j) :
          \/ x.ci[k].f = "lua"
          \/ s[j].k = "resume" /\ x.ci[k].f \in Guards \cup {"body"}
          \/ k = Len(x.ci) /\ x.ci[k].f \in Ends
  /\ s[j].k \in {"errh", "cont"} => j < n /\ s[j + 1].k = "call"

\* An error left frame k below the handler of record j.
Buried(s, j, k) ==
  \/ s[j].k = "errh" /\ s[j - 1].at < k /\ k <= s[j].ci
  \/ s[j].k = "cont" /\ s[j].at < k /\ k <= s[j].ci

\* The records that frame k comes with.
Placed(s, b, n, x, k) ==
  /\ x.ci[k].f \in Guards =>
       \/ \E j \in b .. n : s[j].k \in {"pcall", "cont"} /\ s[j].at = k
       \/ \A j \in b .. n : s[j].k \in {"call", "pcall", "cont"} => k < s[j].at
  /\ x.ci[k].f = "handler" =>
       \E j \in b + 1 .. n : /\ s[j].k = "call" /\ s[j].at = k
                             /\ s[j - 1].k \in {"errh", "cont"}
  /\ x.ci[k].f = "tm" =>
       \/ \E j \in b + 1 .. n : /\ s[j].k = "call" /\ s[j].at = k
                                /\ s[j - 1].k \in {"call", "resume"}
       \/ \E j \in b .. n : Buried(s, j, k)
  /\ x.ci[k].handle <=> /\ x.ci[k].f \in Guards
                        /\ \A j \in b .. n : s[j].k = "cont" => s[j].at # k

Woven(s, b, n, x) == /\ \A j \in b .. n : Owner(s, x, j) /\ Ran(s, n, x, j)
                     /\ \A k \in 1 .. Len(x.ci) : Placed(s, b, n, x, k)

\* A call that baseCcalls does not allow for, and the one that a handler is.
Strange(s, b, i) == \E j \in b + 1 .. i : /\ s[j].k = "call"
                                          /\ s[j - 1].k \in {"call", "resume", "cont"}
Over(s, b, i) == IF \E j \in b .. i : s[j].k = "errh" THEN 1 ELSE 0
\* A segment that started with the count base.
Saves(s, b, n, base) ==
  \A i \in b .. n :
    /\ Strange(s, b, i) => Pcalls(s, i, s[b].t)
                              < Calls(s, i, s[b].t) + (IF s[i].k \in {"pcall", "errh"} THEN 1 ELSE 0)
    /\ s[i].k \in {"pcall", "cont"} => s[i].nC >= Here(s, base, i) + Over(s, b, i)
Tops(s, b, n, base, x) ==
  x.nC >= Here(s, base, n) + Over(s, b, n) + (IF s[n].k = "pcall" THEN 1 ELSE 0)
Stretched(s, b, n, x) ==
  LET base == x.baseC - Pcalls(s, n, s[b].t)
  IN  Saves(s, b, n, base) /\ Tops(s, b, n, base, x)

Linked(s, b, n, x) == Woven(s, b, n, x) /\ Stretched(s, b, n, x) /\ Shaped(x) /\ ~x.fresh

-----------------------------------------------------------------------------
(* All threads. *)

\* A thread that no lua_resume runs.
Resting(x) ==
  /\ x.status = "ok" => x.ci = <<>>
  /\ x.status = "yield" =>
       /\ x.ci # <<>> /\ Top(x.ci).f = "yield" /\ Shaped(x)
       /\ \A k \in 1 .. Len(x.ci) : /\ x.ci[k].f \notin {"tm", "handler"}
                                    /\ x.ci[k].f \in Ends => k = Len(x.ci)
                                    /\ x.ci[k].handle <=> x.ci[k].f \in Guards

Ending(s, b, n) == Segment(s, b, n) /\ IsLast(s, n)
Links(s, T) ==
  /\ \A n \in 1 .. Len(s) : \A b \in 1 .. n : Ending(s, b, n) =>
       /\ Linked(s, b, n, T[s[n].t])
       /\ n < Len(s) => Top(T[s[n].t].ci).f \in {"resume", "wrap"}
  /\ \A t \in Threads : ~OnStack(s, t) => Resting(T[t])
Busy(s, T, sig) == s # <<>> /\ sig = "none" => /\ T[Top(s).t].ci # <<>>
                                               /\ Top(T[Top(s).t].ci).f \in Functions

\* Every frame is where the records of the native stack say: each pcall, handler
\* and metamethod belongs to its own luaD_call or luaD_pcall, or to a continuation
\* once a yield has left that call, LUA_CALLINFO_HANDLE is set on just the frames
\* whose protected call may still catch, and nCcalls is above baseCcalls just
\* where a coroutine cannot yield.
LinkInv == Links(native, th) /\ Busy(native, th, signal)

-----------------------------------------------------------------------------
(* The records of one thread. *)

\* b to n are records of one thread, which stand on frames of x.
Standing(s, b, n, x) ==
  /\ s \in Seq(RecordType) /\ n \in 1 .. Len(s) /\ \A i \in 1 .. n : Good(s, i)
  /\ Segment(s, b, n) /\ x \in LooseType /\ Pos(s[n]) <= Len(x.ci)

\* Where they stand, from the bottom up, and what they stand on.
LEMMA StandingFacts ==
  ASSUME NEW s, NEW b, NEW n, NEW x, Standing(s, b, n, x)
  PROVE  /\ b \in Nat /\ 1 <= b /\ n \in Nat /\ b <= n /\ Len(x.ci) \in Nat /\ s[b].k = "resume"
         /\ \A j \in b .. n :
              /\ s[j] \in RecordType /\ s[j].t = s[n].t /\ Pos(s[j]) \in Nat
              /\ Pos(s[j]) <= Len(x.ci) /\ (s[j].k = "resume" <=> j = b)
              /\ \A i \in b .. j : Pos(s[i]) <= Pos(s[j])
              /\ s[j].k \in {"call", "pcall"} =>
                   /\ s[j].at = Pos(s[j]) /\ s[j].at \in Nat /\ 0 < s[j].at
                   /\ \A i \in b .. j - 1 : Pos(s[i]) < s[j].at
              /\ s[j].k = "cont" => /\ j = b + 1 /\ s[j].at \in Nat /\ 0 < s[j].at
                                    /\ s[j].ci = Pos(s[j]) /\ s[j].at <= s[j].ci
              /\ s[j].k = "errh" => /\ s[j - 1].k = "pcall" /\ b < j - 1 /\ s[j].ci = Pos(s[j])
              /\ s[j].k = "pcall" => s[j - 1].k \in {"call", "resume"}
<1>1. /\ b \in Nat /\ 1 <= b /\ n \in Nat /\ b <= n /\ n <= Len(s) /\ Len(s) \in Nat
      /\ Len(x.ci) \in Nat /\ s[b].k = "resume"
      /\ \A j \in b .. n : s[j].t = s[n].t /\ (j # b => s[j].k # "resume")
  BY LooseFields DEF Standing, Segment
<1>2. ASSUME NEW j \in b .. n
      PROVE  /\ s[j] \in RecordType /\ Good(s, j) /\ Pos(s[j]) \in Nat
             /\ \A i \in b .. j : Pos(s[i]) \in Nat /\ Pos(s[i]) <= Pos(s[j])
                                  /\ (i < j /\ s[j].k \in {"call", "pcall"} => Pos(s[i]) < Pos(s[j]))
  <2>1. \A i \in b .. n : i \in 1 .. Len(s) /\ s[i] \in RecordType /\ Pos(s[i]) \in Nat
    BY <1>1, RecordFields DEF Standing
  <2>2. Good(s, j)
    BY <1>1 DEF Standing
  <2>3. \A i \in b .. j : i = j \/ (i \in 1 .. j - 1 /\ s[i].t = s[j].t)
    BY <1>1
  <2>4. \A i \in 1 .. j - 1 : s[i].t = s[j].t =>
          IF s[j].k \in {"call", "pcall"} THEN Pos(s[i]) < Pos(s[j]) ELSE Pos(s[i]) <= Pos(s[j])
    BY <2>2 DEF Good
  <2>5. \A i \in b .. j : i \in b .. n
    BY <1>1
  <2> QED BY <2>1, <2>2, <2>3, <2>4, <2>5
<1>3. Pos(s[n]) <= Len(x.ci) /\ n \in b .. n
  BY <1>1 DEF Standing
<1>4. ASSUME NEW j \in b .. n
      PROVE  Pos(s[j]) <= Len(x.ci)
  BY <1>1, <1>2, <1>3
<1>5. ASSUME NEW j \in b .. n
      PROVE  /\ s[j].k \in {"call", "pcall"} =>
                   /\ s[j].at = Pos(s[j]) /\ s[j].at \in Nat /\ 0 < s[j].at
                   /\ \A i \in b .. j - 1 : Pos(s[i]) < s[j].at
             /\ s[j].k = "cont" => /\ j = b + 1 /\ s[j].at \in Nat /\ 0 < s[j].at
                                    /\ s[j].ci = Pos(s[j]) /\ s[j].at <= s[j].ci
             /\ s[j].k = "errh" => /\ s[j - 1].k = "pcall" /\ b < j - 1 /\ s[j].ci = Pos(s[j])
             /\ s[j].k = "pcall" => s[j - 1].k \in {"call", "resume"}
  <2>1. /\ s[j].k \in {"call", "pcall"} => s[j].at = Pos(s[j]) /\ 0 < s[j].at
        /\ s[j].k = "cont" => j > 1 /\ s[j - 1].k = "resume" /\ 0 < s[j].at /\ s[j].at <= s[j].ci
                              /\ s[j].ci = Pos(s[j]) /\ s[j].at \in Nat
        /\ s[j].k = "errh" => s[j - 1].k = "pcall" /\ j > 1 /\ s[j].ci = Pos(s[j])
        /\ s[j].k = "pcall" => j = 1 \/ s[j - 1].k \in {"call", "resume"}
    <3>1. Good(s, j) /\ s[j] \in RecordType
      BY <1>2
    <3> QED BY <3>1, RecordFields DEF Good, Pos
  <2>2. j # b => j - 1 \in b .. n
    BY <1>1
  <2>3. s[j].k # "resume" => j # b
    BY <1>1
  <2>4. s[j].k = "cont" => j - 1 = b
    BY <1>1, <2>1, <2>2, <2>3
  <2>5. s[j].k = "errh" => b < j - 1
    BY <1>1, <2>1, <2>2, <2>3
  <2>6. \A i \in b .. j - 1 : i \in b .. j /\ i < j
    BY <1>1
  <2> QED BY <1>1, <1>2, <2>1, <2>2, <2>3, <2>4, <2>5, <2>6
<1> QED BY <1>1, <1>2, <1>4, <1>5

\* What is said of a thread depends on the records up to its last only.
LEMMA LinkedLocal ==
  ASSUME NEW s, NEW z, NEW b, NEW n, NEW x, Standing(s, b, n, x), Agree(s, z, n)
  PROVE  /\ Woven(s, b, n, x) => Woven(z, b, n, x)
         /\ Stretched(s, b, n, x) => Stretched(z, b, n, x)
         /\ Linked(s, b, n, x) => Linked(z, b, n, x)
<1>1. /\ b \in Nat /\ 1 <= b /\ n \in Nat /\ b <= n /\ s[b].k = "resume"
      /\ \A j \in b .. n : s[j].t = s[n].t /\ (s[j].k = "resume" <=> j = b)
  BY StandingFacts
<1>2. /\ \A j \in 1 .. n : s[j] = z[j]
      /\ \A j \in b .. n : s[j] = z[j] /\ (s[j].k # "resume" => s[j - 1] = z[j - 1])
                           /\ (j # n => s[j + 1] = z[j + 1])
      /\ \A j \in b + 1 .. n : s[j] = z[j] /\ s[j - 1] = z[j - 1]
  BY <1>1 DEF Agree
<1>3. ASSUME Woven(s, b, n, x) PROVE Woven(z, b, n, x)
  <2>1. ASSUME NEW j \in b .. n PROVE Owner(z, x, j) /\ Ran(z, n, x, j)
    <3>1. Owner(s, x, j) /\ Ran(s, n, x, j)
      BY <1>3 DEF Woven
    <3>2. Owner(z, x, j)
      BY <1>2, <3>1 DEF Owner
    <3>3. Upto(s, n, x, j) = Upto(z, n, x, j)
      BY <1>2 DEF Upto
    <3> QED BY <1>2, <3>1, <3>2, <3>3 DEF Ran
  <2>2. \A j \in b .. n, k \in 1 .. Len(x.ci) : Buried(s, j, k) => Buried(z, j, k)
    BY <1>2 DEF Buried
  <2>3. ASSUME NEW k \in 1 .. Len(x.ci) PROVE Placed(z, b, n, x, k)
    <3>1. Placed(s, b, n, x, k)
      BY <1>3 DEF Woven
    <3> QED BY <1>2, <2>2, <3>1, SMTT(30) DEF Placed
  <2> QED BY <2>1, <2>3 DEF Woven
<1>4. ASSUME Stretched(s, b, n, x) PROVE Stretched(z, b, n, x)
  <2> DEFINE t == s[b].t
             base == x.baseC - Pcalls(s, n, t)
  <2>1. \A i \in b .. n : \A u : Calls(s, i, u) = Calls(z, i, u) /\ Pcalls(s, i, u) = Pcalls(z, i, u)
    <3> SUFFICES ASSUME NEW i \in b .. n, NEW u
                 PROVE  Calls(s, i, u) = Calls(z, i, u) /\ Pcalls(s, i, u) = Pcalls(z, i, u)
      OBVIOUS
    <3>1. i \in Nat /\ Agree(s, z, i)
      BY <1>1, <1>2 DEF Agree
    <3> QED BY <3>1, LocalCounts
  <2>2. n \in b .. n /\ b \in b .. n /\ z[b].t = t
    BY <1>1, <1>2
  <2>3. \A i \in b .. n : Here(s, base, i) = Here(z, base, i)
    BY <1>2, <2>1 DEF Here
  <2>4. \A i \in b .. n : Strange(z, b, i) => Strange(s, b, i)
    <3> SUFFICES ASSUME NEW i \in b .. n, Strange(z, b, i) PROVE Strange(s, b, i)
      OBVIOUS
    <3>1. PICK j \in b + 1 .. i : z[j].k = "call" /\ z[j - 1].k \in {"call", "resume", "cont"}
      BY DEF Strange
    <3>2. j \in b + 1 .. n
      BY <1>1
    <3>3. s[j].k = "call" /\ s[j - 1].k \in {"call", "resume", "cont"}
      BY <1>2, <3>1, <3>2
    <3> QED BY <3>3 DEF Strange
  <2>5. \A i \in b .. n : Over(s, b, i) = Over(z, b, i)
    <3> SUFFICES ASSUME NEW i \in b .. n PROVE Over(s, b, i) = Over(z, b, i)
      OBVIOUS
    <3>1. \A j \in b .. i : s[j] = z[j]
      BY <1>1, <1>2
    <3> QED BY <3>1 DEF Over
  <2>6. base = x.baseC - Pcalls(z, n, t) /\ s[b].t = t
    BY <2>1, <2>2
  <2> HIDE DEF base, t
  <2>7. Saves(s, b, n, base) /\ Tops(s, b, n, base, x)
    BY <1>4 DEF Stretched, base, t
  <2>8. Saves(z, b, n, base)
    BY <1>2, <2>1, <2>2, <2>3, <2>4, <2>5, <2>6, <2>7 DEF Saves
  <2>9. Tops(z, b, n, base, x)
    BY <1>2, <2>2, <2>3, <2>5, <2>7 DEF Tops
  <2> QED BY <2>2, <2>6, <2>8, <2>9 DEF Stretched
<1> QED BY <1>3, <1>4 DEF Linked

-----------------------------------------------------------------------------
(* Frames and records are cut. *)

\* y has the first m frames of x.
CutTo(x, y, m) == /\ y \in LooseType /\ m \in Nat /\ m <= Len(x.ci) /\ Len(y.ci) = m
                  /\ \A k \in 1 .. m : y.ci[k] = x.ci[k]

\* Down to record c, and to a frame that it ran.
Cutting(s, b, n, x, c, y, m) ==
  /\ Standing(s, b, n, x) /\ CutTo(x, y, m)
  /\ c \in b .. n /\ s[c].k \in {"call", "resume"} /\ Pos(s[c]) <= m /\ m <= Upto(s, n, x, c)

\* The records that go stood above the frames that stay.
LEMMA CutAbove ==
  ASSUME NEW s, NEW b, NEW n, NEW x, NEW c, NEW y, NEW m, Cutting(s, b, n, x, c, y, m)
  PROVE  \A j \in c + 1 .. n : /\ s[j].k \in {"call", "pcall", "cont"} => m < s[j].at
                               /\ s[j].k = "errh" => c < j - 1 /\ m < s[j - 1].at
<1>1. /\ b \in Nat /\ 1 <= b /\ n \in Nat /\ b <= n /\ Len(x.ci) \in Nat
      /\ c \in b .. n /\ s[c].k \in {"call", "resume"} /\ m \in Nat /\ m <= Upto(s, n, x, c)
  BY StandingFacts DEF Cutting, CutTo
<1>2. \A j \in b .. n :
              /\ Pos(s[j]) \in Nat /\ (s[j].k = "resume" <=> j = b)
              /\ s[j] \in RecordType
              /\ \A i \in b .. j : Pos(s[i]) <= Pos(s[j])
              /\ s[j].k \in {"call", "pcall"} => s[j].at = Pos(s[j]) /\ s[j].at \in Nat
              /\ s[j].k = "cont" => /\ j = b + 1 /\ s[j].at \in Nat
                                    /\ s[j].ci = Pos(s[j]) /\ s[j].at <= s[j].ci
              /\ s[j].k = "errh" => s[j - 1].k = "pcall" /\ b < j - 1
  BY StandingFacts DEF Cutting
<1>3. ASSUME c < n
      PROVE  /\ s[c + 1].k \in {"call", "pcall", "cont"} /\ m < s[c + 1].at
             /\ m < Pos(s[c + 1]) /\ c + 1 \in b .. n
  <2>1. c + 1 \in b .. n /\ (c + 1) - 1 = c /\ c # n
    BY <1>1, <1>3
  <2>2. s[c + 1].k # "errh"
    BY <1>1, <1>2, <2>1
  <2>3. s[c + 1].k \in {"call", "pcall", "cont"}
    BY <1>1, <1>2, <2>1, <2>2, RecordFields
  <2>4. m <= s[c + 1].at - 1
    BY <1>1, <2>1 DEF Upto
  <2> QED BY <1>1, <1>2, <2>1, <2>3, <2>4, SMTT(30)
<1> SUFFICES ASSUME NEW j \in c + 1 .. n
             PROVE  /\ s[j].k \in {"call", "pcall", "cont"} => m < s[j].at
                    /\ s[j].k = "errh" => c < j - 1 /\ m < s[j - 1].at
  OBVIOUS
<1>4. j \in b .. n /\ c < n /\ c + 1 \in b .. j
  BY <1>1
<1>5. m < Pos(s[j])
  BY <1>1, <1>2, <1>3, <1>4
<1>6. s[j].k = "cont" => j = c + 1
  BY <1>1, <1>2, <1>4
<1>7. s[j].k \in {"call", "pcall", "cont"} => m < s[j].at
  BY <1>2, <1>3, <1>4, <1>5, <1>6
<1>8. ASSUME s[j].k = "errh" PROVE c < j - 1 /\ m < s[j - 1].at
  <2>1. s[j - 1].k = "pcall" /\ j - 1 # c /\ j - 1 \in b .. n /\ j - 1 >= c
    <3>1. s[j - 1].k = "pcall"
      BY <1>2, <1>4, <1>8
    <3>2. s[c].k # "pcall"
      BY <1>1
    <3>3. j - 1 # c
      BY <3>1, <3>2
    <3>4. b \in Nat /\ n \in Nat /\ c \in b .. n /\ j \in c + 1 .. n
      BY <1>1
    <3>5. j - 1 \in b .. n /\ j - 1 >= c
      BY <3>4
    <3> QED BY <3>1, <3>3, <3>5
  <2>2. c + 1 \in b .. j - 1
    BY <1>1, <2>1
  <2> QED BY <1>1, <1>2, <1>3, <1>4, <2>1, <2>2
<1> QED BY <1>7, <1>8

\* What stays comes with the records that stay.
LEMMA WovenCut ==
  ASSUME NEW s, NEW b, NEW n, NEW x, NEW c, NEW y, NEW m, Cutting(s, b, n, x, c, y, m),
         Woven(s, b, n, x)
  PROVE  Woven(s, b, c, y)
<1>1. /\ b \in Nat /\ 1 <= b /\ n \in Nat /\ b <= n /\ Len(x.ci) \in Nat
      /\ c \in b .. n /\ s[c].k \in {"call", "resume"} /\ Pos(s[c]) <= m /\ m <= Upto(s, n, x, c)
      /\ m \in Nat /\ m <= Len(x.ci) /\ Len(y.ci) = m /\ \A k \in 1 .. m : y.ci[k] = x.ci[k]
  BY StandingFacts DEF Cutting, CutTo
<1>2. \A j \in b .. c :
              /\ j \in b .. n /\ Pos(s[j]) \in Nat /\ Pos(s[j]) <= m
              /\ s[j].k \in {"call", "pcall"} => s[j].at = Pos(s[j]) /\ s[j].at \in Nat /\ 0 < s[j].at
              /\ s[j].k = "cont" => s[j].at \in Nat /\ 0 < s[j].at /\ s[j].at <= m
              /\ s[j].k = "errh" => s[j - 1].k = "pcall" /\ b < j - 1
  <2>1. \A j \in b .. n :
              /\ Pos(s[j]) \in Nat /\ \A i \in b .. j : Pos(s[i]) <= Pos(s[j])
              /\ s[j].k \in {"call", "pcall"} => s[j].at = Pos(s[j]) /\ s[j].at \in Nat /\ 0 < s[j].at
              /\ s[j].k = "cont" => /\ s[j].at \in Nat /\ 0 < s[j].at
                                    /\ s[j].ci = Pos(s[j]) /\ s[j].at <= s[j].ci
              /\ s[j].k = "errh" => s[j - 1].k = "pcall" /\ b < j - 1
    BY StandingFacts DEF Cutting
  <2>2. \A j \in b .. c : j \in b .. n /\ Pos(s[j]) <= Pos(s[c]) /\ Pos(s[j]) \in Nat
    BY <1>1, <2>1
  <2> QED BY <1>1, <2>1, <2>2, SMTT(30)
<1>3. \A j \in c + 1 .. n : /\ s[j].k \in {"call", "pcall", "cont"} => m < s[j].at
                            /\ s[j].k = "errh" => c < j - 1 /\ m < s[j - 1].at
  BY CutAbove
<1>4. ASSUME NEW j \in b .. c PROVE Owner(s, y, j) /\ Ran(s, c, y, j)
  <2>1. Owner(s, x, j) /\ Ran(s, n, x, j)
    BY <1>2, <1>4 DEF Woven
  <2>2. s[j].k \in {"call", "pcall", "cont"} => y.ci[s[j].at] = x.ci[s[j].at]
    BY <1>1, <1>2, <1>4, SMTT(30)
  <2>3. Owner(s, y, j)
    BY <2>1, <2>2 DEF Owner
  <2>4. /\ s[j].k \in {"call", "resume"} => Upto(s, c, y, j) <= Upto(s, n, x, j)
        /\ s[j].k \in {"call", "resume"} => Upto(s, c, y, j) <= m
        /\ s[j].k \in {"call", "resume"} => Upto(s, c, y, j) \in Int /\ Upto(s, n, x, j) \in Int
    <3>1. CASE j = c
      <4>1. Upto(s, c, y, j) = m
        BY <3>1, <1>1 DEF Upto
      <4>2. Upto(s, n, x, j) \in Int
        <5>1. CASE c = n
          BY <5>1, <3>1, <1>1 DEF Upto
        <5>2. CASE c # n
          <6>1. c + 1 \in b .. n /\ (c + 1) - 1 = c
            BY <5>2, <1>1
          <6>2. s[c + 1] \in RecordType /\ s[c + 1].k # "resume" /\ s[c + 1].k # "errh"
            BY <6>1, <1>1, StandingFacts, SMTT(30) DEF Cutting
          <6>3. s[c + 1].at \in Nat
            BY <6>2, RecordFields
          <6> QED BY <5>2, <6>3, <3>1 DEF Upto
        <5> QED BY <5>1, <5>2
      <4> QED BY <3>1, <4>1, <4>2, <1>1
    <3>2. CASE j # c
      <4>1. j + 1 \in b .. c /\ j # n /\ (j + 1) - 1 = j /\ j + 1 # b
        BY <3>2, <1>1
      <4>2. Upto(s, c, y, j) = s[j + 1].at - 1 /\ Upto(s, n, x, j) = s[j + 1].at - 1
        BY <3>2, <4>1 DEF Upto
      <4>3. s[j + 1] \in RecordType /\ s[j + 1].k # "resume"
        BY <4>1, <1>2, StandingFacts DEF Cutting
      <4>4. s[j].k \in {"call", "resume"} => s[j + 1].k \in {"call", "pcall", "cont"}
        BY <4>1, <4>3, <1>2, RecordFields
      <4>5. s[j].k \in {"call", "resume"} => s[j + 1].at \in Nat /\ s[j + 1].at <= m
        BY <4>1, <4>4, <1>2
      <4> QED BY <4>2, <4>5, <1>1
    <3> QED BY <3>1, <3>2
  <2>5. ASSUME s[j].k \in {"call", "resume"}, NEW k \in Pos(s[j]) + 1 .. Upto(s, c, y, j)
        PROVE  \/ y.ci[k].f = "lua"
               \/ s[j].k = "resume" /\ y.ci[k].f \in Guards \cup {"body"}
               \/ k = Len(y.ci) /\ y.ci[k].f \in Ends
    <3>1. k \in Pos(s[j]) + 1 .. Upto(s, n, x, j) /\ k \in 1 .. m
      BY <2>4, <2>5, <1>1, <1>2, <1>4
    <3>2. \/ x.ci[k].f = "lua"
          \/ s[j].k = "resume" /\ x.ci[k].f \in Guards \cup {"body"}
          \/ k = Len(x.ci) /\ x.ci[k].f \in Ends
      BY <2>1, <2>5, <3>1 DEF Ran
    <3>3. k = Len(x.ci) => k = m
      BY <1>1, <3>1
    <3> QED BY <1>1, <3>1, <3>2, <3>3
  <2>6. s[j].k \in {"errh", "cont"} => j < c /\ s[j + 1].k = "call"
    BY <1>1, <1>4, <2>1 DEF Ran
  <2> QED BY <2>3, <2>5, <2>6 DEF Ran
<1>5. ASSUME NEW k \in 1 .. Len(y.ci) PROVE Placed(s, b, c, y, k)
  <2>1. k \in 1 .. Len(x.ci) /\ y.ci[k] = x.ci[k] /\ k <= m /\ k \in Nat
    BY <1>1
  <2>2. Placed(s, b, n, x, k)
    BY <2>1 DEF Woven
  <2>3. \A j \in b .. n : s[j].k \in {"call", "pcall", "cont"} /\ s[j].at = k => j \in b .. c
    <3> SUFFICES ASSUME NEW j \in b .. n, s[j].k \in {"call", "pcall", "cont"}, s[j].at = k, j \notin b .. c
                 PROVE  FALSE
      OBVIOUS
    <3>1. j \in c + 1 .. n
      BY <1>1
    <3> QED BY <3>1, <2>1, <1>1, <1>3
  <2>4. y.ci[k].f \in Guards =>
          \/ \E j \in b .. c : s[j].k \in {"pcall", "cont"} /\ s[j].at = k
          \/ \A j \in b .. c : s[j].k \in {"call", "pcall", "cont"} => k < s[j].at
    BY <1>2, <2>1, <2>2, <2>3 DEF Placed
  <2>5. y.ci[k].f = "handler" =>
           \E j \in b + 1 .. c : /\ s[j].k = "call" /\ s[j].at = k
                                 /\ s[j - 1].k \in {"errh", "cont"}
    <3> SUFFICES ASSUME y.ci[k].f = "handler"
                 PROVE  \E j \in b + 1 .. c : /\ s[j].k = "call" /\ s[j].at = k
                                              /\ s[j - 1].k \in {"errh", "cont"}
      OBVIOUS
    <3>1. PICK j \in b + 1 .. n : s[j].k = "call" /\ s[j].at = k /\ s[j - 1].k \in {"errh", "cont"}
      BY <2>1, <2>2 DEF Placed
    <3>2. j \in b + 1 .. c
      BY <1>1, <2>3, <3>1
    <3> QED BY <3>1, <3>2
  <2>6. y.ci[k].f = "tm" =>
          \/ \E j \in b + 1 .. c : /\ s[j].k = "call" /\ s[j].at = k
                                   /\ s[j - 1].k \in {"call", "resume"}
          \/ \E j \in b .. c : Buried(s, j, k)
    <3> SUFFICES ASSUME y.ci[k].f = "tm"
                 PROVE  \/ \E j \in b + 1 .. c : /\ s[j].k = "call" /\ s[j].at = k
                                                 /\ s[j - 1].k \in {"call", "resume"}
                        \/ \E j \in b .. c : Buried(s, j, k)
      OBVIOUS
    <3>1. CASE \E j \in b + 1 .. n : /\ s[j].k = "call" /\ s[j].at = k
                                     /\ s[j - 1].k \in {"call", "resume"}
      <4>1. PICK j \in b + 1 .. n : s[j].k = "call" /\ s[j].at = k /\ s[j - 1].k \in {"call", "resume"}
        BY <3>1
      <4>2. j \in b + 1 .. c
        BY <1>1, <2>3, <4>1
      <4> QED BY <4>1, <4>2
    <3>2. CASE \E j \in b .. n : Buried(s, j, k)
      <4>1. PICK j \in b .. n : Buried(s, j, k)
        BY <3>2
      <4>2. j \notin c + 1 .. n
        <5> SUFFICES ASSUME j \in c + 1 .. n PROVE FALSE
          OBVIOUS
        <5>1. s[j].k = "errh" => s[j - 1].at \in Nat
          <6> SUFFICES ASSUME s[j].k = "errh" PROVE s[j - 1].at \in Nat
            OBVIOUS
          <6>1. s[j - 1].k = "pcall" /\ j - 1 \in b .. n
            BY <4>1, <1>1, StandingFacts, SMTT(30) DEF Cutting
          <6> QED BY <6>1, StandingFacts DEF Cutting
        <5>2. s[j].k = "cont" => s[j].at \in Nat
          BY StandingFacts DEF Cutting
        <5> QED BY <4>1, <5>1, <5>2, <1>1, <1>3, <2>1 DEF Buried
      <4>3. j \in b .. c
        BY <1>1, <4>2
      <4> QED BY <4>1, <4>3
    <3> QED BY <3>1, <3>2, <2>1, <2>2 DEF Placed
  <2>7. y.ci[k].handle <=> /\ y.ci[k].f \in Guards
                           /\ \A j \in b .. c : s[j].k = "cont" => s[j].at # k
    BY <1>2, <2>1, <2>2, <2>3 DEF Placed
  <2> QED BY <2>4, <2>5, <2>6, <2>7 DEF Placed
<1> QED BY <1>4, <1>5 DEF Woven

-----------------------------------------------------------------------------
(* Frames and records are pushed. *)

\* y has one frame more than x.
Above(x, y, fr) == /\ y \in LooseType /\ Len(y.ci) = Len(x.ci) + 1 /\ y.ci[Len(x.ci) + 1] = fr
                   /\ \A k \in 1 .. Len(x.ci) : y.ci[k] = x.ci[k]
NoEnd(x) == x.ci = <<>> \/ Top(x.ci).f \notin Ends

\* A frame without a record.
Growing(s, b, n, x, y, fr) ==
  /\ Standing(s, b, n, x) /\ Above(x, y, fr) /\ NoEnd(x) /\ s[n].k \in {"call", "resume"}
  /\ fr.f \in Ends \cup {"lua"} /\ fr.handle = FALSE

\* It is one that the top record runs, or a library function.
LEMMA WovenGrow ==
  ASSUME NEW s, NEW b, NEW n, NEW x, NEW y, NEW fr, Growing(s, b, n, x, y, fr),
         Woven(s, b, n, x)
  PROVE  Woven(s, b, n, y)
<1> DEFINE h == Len(x.ci)
<1>1. /\ b \in Nat /\ 1 <= b /\ n \in Nat /\ b <= n /\ h \in Nat /\ n \in b .. n
      /\ s[n].k \in {"call", "resume"} /\ fr.f \in Ends \cup {"lua"} /\ fr.handle = FALSE
      /\ Len(y.ci) = h + 1 /\ y.ci[h + 1] = fr /\ \A k \in 1 .. h : y.ci[k] = x.ci[k]
  BY StandingFacts DEF Growing, Above
<1>2. \A j \in b .. n :
              /\ Pos(s[j]) \in Nat /\ Pos(s[j]) <= h
              /\ s[j].k \in {"call", "pcall", "cont"} => s[j].at \in 1 .. h
  <2>1. \A j \in b .. n :
              /\ Pos(s[j]) \in Nat /\ Pos(s[j]) <= h
              /\ s[j].k \in {"call", "pcall"} => s[j].at = Pos(s[j]) /\ s[j].at \in Nat /\ 0 < s[j].at
              /\ s[j].k = "cont" => /\ s[j].at \in Nat /\ 0 < s[j].at
                                    /\ s[j].ci = Pos(s[j]) /\ s[j].at <= s[j].ci
    BY StandingFacts DEF Growing
  <2> QED BY <2>1
<1>a. /\ b \in Nat /\ n \in Nat /\ b <= n /\ h \in Nat
      /\ Len(y.ci) = h + 1 /\ \A k \in 1 .. h : y.ci[k] = x.ci[k]
  BY <1>1
<1>b. b \in Nat /\ n \in Nat /\ h \in Nat
  BY <1>1
<1>3. h > 0 => x.ci[h].f \notin Ends
  BY <1>1 DEF Growing, NoEnd, Top
<1>4. ASSUME NEW j \in b .. n PROVE Owner(s, y, j) /\ Ran(s, n, y, j)
  <2>1. Owner(s, x, j) /\ Ran(s, n, x, j)
    BY <1>4 DEF Woven
  <2>2. s[j].k \in {"call", "pcall", "cont"} => y.ci[s[j].at] = x.ci[s[j].at]
    BY <1>a, <1>2, <1>4
  <2>3. Owner(s, y, j)
    BY <2>1, <2>2 DEF Owner
  <2>4. ASSUME s[j].k \in {"call", "resume"}, NEW k \in Pos(s[j]) + 1 .. Upto(s, n, y, j)
        PROVE  \/ y.ci[k].f = "lua"
               \/ s[j].k = "resume" /\ y.ci[k].f \in Guards \cup {"body"}
               \/ k = Len(y.ci) /\ y.ci[k].f \in Ends
    <3>1. CASE k = h + 1
      BY <3>1, <1>1
    <3>2. CASE k # h + 1
      <4>1. k \in 1 .. h /\ k \in Pos(s[j]) + 1 .. Upto(s, n, x, j)
        <5>1. CASE j = n
          <6>1. Upto(s, n, x, j) = h /\ Upto(s, n, y, j) = h + 1
            BY <5>1, <1>1 DEF Upto
          <6>2. Pos(s[j]) \in Nat /\ k \in Pos(s[j]) + 1 .. h + 1
            BY <6>1, <2>4, <1>2, <1>4
          <6> QED BY <6>1, <6>2, <3>2, <1>b
        <5>2. CASE j # n
          <6>1. j + 1 \in b .. n /\ (j + 1) - 1 = j /\ j + 1 # b
            BY <5>2, <1>b, <1>4
          <6>2. Upto(s, n, y, j) = s[j + 1].at - 1 /\ Upto(s, n, x, j) = s[j + 1].at - 1
            BY <5>2 DEF Upto
          <6>3. s[j + 1].k \in {"call", "pcall", "cont"}
            <7>1. s[j + 1] \in RecordType /\ s[j + 1].k # "resume"
                  /\ (s[j + 1].k = "errh" => s[(j + 1) - 1].k = "pcall")
              BY <6>1, StandingFacts DEF Growing
            <7> QED BY <7>1, <2>4, <6>1, RecordFields
          <6>4. s[j + 1].at \in Nat /\ s[j + 1].at <= h
            BY <6>1, <6>3, <1>2
          <6> QED BY <6>2, <6>4, <2>4, <1>b, <1>2, <1>4
        <5> QED BY <5>1, <5>2
      <4>2. \/ x.ci[k].f = "lua"
            \/ s[j].k = "resume" /\ x.ci[k].f \in Guards \cup {"body"}
            \/ k = h /\ x.ci[k].f \in Ends
        BY <2>1, <2>4, <4>1 DEF Ran
      <4> QED BY <4>1, <4>2, <1>1, <1>3
    <3> QED BY <3>1, <3>2
  <2>5. s[j].k \in {"errh", "cont"} => j < n /\ s[j + 1].k = "call"
    BY <2>1 DEF Ran
  <2> QED BY <2>3, <2>4, <2>5 DEF Ran
<1>5. ASSUME NEW k \in 1 .. Len(y.ci) PROVE Placed(s, b, n, y, k)
  <2>1. CASE k = h + 1
    <3>1. y.ci[k].f \notin Guards /\ y.ci[k].f # "handler" /\ y.ci[k].f # "tm" /\ y.ci[k].handle = FALSE
      BY <2>1, <1>1 DEF Guards, Ends
    <3> QED BY <3>1 DEF Placed
  <2>2. CASE k # h + 1
    <3>1. k \in 1 .. h /\ y.ci[k] = x.ci[k]
      BY <2>2, <1>1
    <3>2. Placed(s, b, n, x, k)
      BY <3>1 DEF Woven
    <3> QED BY <3>1, <3>2 DEF Placed
  <2> QED BY <2>1, <2>2
<1> QED BY <1>4, <1>5 DEF Woven

\* A frame with its record: a metamethod, a protected call, or its function.
Raising(s, b, n, x, z, y, fr) ==
  /\ Standing(s, b, n, x) /\ Above(x, y, fr) /\ NoEnd(x) /\ Agree(s, z, n)
  /\ z[n + 1].k \in {"call", "pcall"} /\ z[n + 1].at = Len(x.ci) + 1
  /\ \/ /\ z[n + 1].k = "call" /\ fr = Frame("tm") /\ s[n].k \in {"call", "resume"}
     \/ /\ z[n + 1].k = "call" /\ fr = Frame("body") /\ s[n].k = "pcall" /\ s[n].at = Len(x.ci)
     \/ /\ z[n + 1].k = "pcall" /\ fr = Flagged(z[n + 1].errf) /\ z[n + 1].errf \in Guards
        /\ s[n].k \in {"call", "resume"}

\* The frames below are those of the records below.
LEMMA WovenRaise ==
  ASSUME NEW s, NEW b, NEW n, NEW x, NEW z, NEW y, NEW fr, Raising(s, b, n, x, z, y, fr),
         Woven(s, b, n, x)
  PROVE  Woven(z, b, n + 1, y)
<1> DEFINE h == Len(x.ci)
           r == z[n + 1]
<1>1. /\ b \in Nat /\ 1 <= b /\ n \in Nat /\ b <= n /\ h \in Nat /\ n \in b .. n
      /\ Len(y.ci) = h + 1 /\ y.ci[h + 1] = fr /\ \A k \in 1 .. h : y.ci[k] = x.ci[k]
      /\ r.k \in {"call", "pcall"} /\ r.at = h + 1
      /\ \A j \in b .. n : z[j] = s[j]
      /\ \A j \in b + 1 .. n : z[j] = s[j] /\ z[j - 1] = s[j - 1]
  BY StandingFacts DEF Raising, Above, Agree
<1>2. \A j \in b .. n :
              /\ Pos(s[j]) \in Nat /\ Pos(s[j]) <= h /\ (s[j].k # "resume" => j # b)
              /\ s[j].k \in {"call", "pcall", "cont"} => s[j].at \in 1 .. h
  <2>1. \A j \in b .. n :
              /\ Pos(s[j]) \in Nat /\ Pos(s[j]) <= h /\ (s[j].k = "resume" <=> j = b)
              /\ s[j].k \in {"call", "pcall"} => s[j].at = Pos(s[j]) /\ s[j].at \in Nat /\ 0 < s[j].at
              /\ s[j].k = "cont" => /\ s[j].at \in Nat /\ 0 < s[j].at
                                    /\ s[j].ci = Pos(s[j]) /\ s[j].at <= s[j].ci
    BY StandingFacts DEF Raising
  <2> QED BY <2>1
<1>a. b \in Nat /\ n \in Nat /\ b <= n
  BY <1>1
<1>b. h \in Nat /\ Len(y.ci) = h + 1 /\ \A k \in 1 .. h : y.ci[k] = x.ci[k]
  BY <1>1
<1>c. \A j \in b .. n + 1 : j = n + 1 \/ j \in b .. n
  BY <1>a
<1>d. b \in Nat /\ n \in Nat /\ h \in Nat
  BY <1>1
<1>3. h > 0 => x.ci[h].f \notin Ends
  BY <1>1 DEF Raising, NoEnd, Top
<1>4. ASSUME NEW j \in b .. n PROVE Owner(z, y, j) /\ Ran(z, n + 1, y, j)
  <2>1. Owner(s, x, j) /\ Ran(s, n, x, j)
    BY <1>4 DEF Woven
  <2>2. s[j].k \in {"call", "pcall", "cont"} => y.ci[s[j].at] = x.ci[s[j].at]
    BY <1>b, <1>2, <1>4
  <2>a. z[j] = s[j] /\ (s[j].k # "resume" => z[j - 1] = s[j - 1])
    BY <1>1, <1>2, <1>4
  <2>3. Owner(z, y, j)
    BY <2>1, <2>2, <2>a DEF Owner
  <2>4. ASSUME s[j].k \in {"call", "resume"}, NEW k \in Pos(s[j]) + 1 .. Upto(z, n + 1, y, j)
        PROVE  \/ y.ci[k].f = "lua"
               \/ s[j].k = "resume" /\ y.ci[k].f \in Guards \cup {"body"}
               \/ k = Len(y.ci) /\ y.ci[k].f \in Ends
    <3>1. k \in 1 .. h /\ k \in Pos(s[j]) + 1 .. Upto(s, n, x, j)
      <4>1. CASE j = n
        <5>1. Upto(s, n, x, j) = h /\ Upto(z, n + 1, y, j) = h
          BY <4>1, <1>1 DEF Upto
        <5> QED BY <5>1, <2>4, <1>d, <1>2, <1>4
      <4>2. CASE j # n
        <5>1. j + 1 \in b .. n /\ (j + 1) - 1 = j /\ j + 1 # b /\ j # n + 1
          BY <4>2, <1>a, <1>4
        <5>2. Upto(z, n + 1, y, j) = s[j + 1].at - 1 /\ Upto(s, n, x, j) = s[j + 1].at - 1
          BY <4>2, <5>1, <1>1 DEF Upto
        <5>3. s[j + 1].k \in {"call", "pcall", "cont"}
          <6>1. \A i \in b .. n : /\ s[i] \in RecordType /\ (s[i].k = "resume" <=> i = b)
                                  /\ s[i].k = "errh" => s[i - 1].k = "pcall"
            BY StandingFacts DEF Raising
          <6>2. s[j + 1] \in RecordType /\ s[j + 1].k # "resume"
                /\ (s[j + 1].k = "errh" => s[(j + 1) - 1].k = "pcall")
            BY <5>1, <6>1
          <6> QED BY <6>2, <2>4, <5>1, RecordFields
        <5>4. s[j + 1].at \in Nat /\ s[j + 1].at <= h
          BY <5>1, <5>3, <1>2
        <5> QED BY <5>2, <5>4, <2>4, <1>d, <1>2, <1>4, SMTT(30)
      <4> QED BY <4>1, <4>2
    <3>2. \/ x.ci[k].f = "lua"
          \/ s[j].k = "resume" /\ x.ci[k].f \in Guards \cup {"body"}
          \/ k = h /\ x.ci[k].f \in Ends
      BY <2>1, <2>4, <3>1 DEF Ran
    <3> QED BY <3>1, <3>2, <1>1, <1>3, SMTT(30)
  <2>5. s[j].k \in {"errh", "cont"} => j < n + 1 /\ z[j + 1].k = "call"
    <3> SUFFICES ASSUME s[j].k \in {"errh", "cont"} PROVE j < n + 1 /\ z[j + 1].k = "call"
      OBVIOUS
    <3>1. j < n /\ s[j + 1].k = "call"
      BY <2>1 DEF Ran
    <3>2. j + 1 \in b .. n
      BY <3>1, <1>1, <1>4
    <3> QED BY <3>1, <3>2, <1>1
  <2> QED BY <2>3, <2>4, <2>5, <2>a DEF Ran
<1>5. Owner(z, y, n + 1) /\ Ran(z, n + 1, y, n + 1)
  <2>1. z[(n + 1) - 1] = s[n] /\ z[n] = s[n]
    BY <1>1
  <2>2. y.ci[r.at] = fr
    BY <1>1
  <2>3. s[n].k = "pcall" => Pos(s[n]) = s[n].at
    BY DEF Pos
  <2>4. Owner(z, y, n + 1)
    BY <1>1, <2>1, <2>2, <2>3 DEF Raising, Owner, Frame, Flagged
  <2>5. Pos(r) = h + 1 /\ Upto(z, n + 1, y, n + 1) = h + 1
    BY <1>1 DEF Pos, Upto
  <2> QED BY <1>1, <2>4, <2>5 DEF Ran
<1>6. ASSUME NEW k \in 1 .. Len(y.ci) PROVE Placed(z, b, n + 1, y, k)
  <2>1. CASE k = h + 1
    <3>1. n + 1 \in b + 1 .. n + 1 /\ n + 1 \in b .. n + 1 /\ (n + 1) - 1 = n /\ z[n] = s[n]
      BY <1>1
    <3>2. y.ci[k].f \in Guards => \E j \in b .. n + 1 : z[j].k \in {"pcall", "cont"} /\ z[j].at = k
      BY <2>1, <3>1, <1>1 DEF Raising, Guards, Frame
    <3>3. y.ci[k].f = "tm" => \E j \in b + 1 .. n + 1 : /\ z[j].k = "call" /\ z[j].at = k
                                                     /\ z[j - 1].k \in {"call", "resume"}
      BY <2>1, <3>1, <1>1 DEF Raising, Guards, Frame, Flagged
    <3>4. y.ci[k].f # "handler" /\ (y.ci[k].handle <=> y.ci[k].f \in Guards)
      BY <2>1, <1>1 DEF Raising, Guards, Frame, Flagged
    <3>5. \A j \in b .. n + 1 : z[j].k = "cont" => z[j].at # k
      <4>1. \A j \in b .. n : z[j].k = "cont" => z[j].at # k
        <5>1. \A j \in b .. n : z[j] = s[j]
          BY <1>1
        <5> QED BY <5>1, <2>1, <1>2, <1>d, SMTT(30)
      <4> QED BY <4>1, <1>c, <1>1
    <3> QED BY <3>2, <3>3, <3>4, <3>5 DEF Placed
  <2>2. CASE k # h + 1
    <3>1. k \in 1 .. h /\ y.ci[k] = x.ci[k]
      BY <2>2, <1>1
    <3>2. Placed(s, b, n, x, k)
      BY <3>1 DEF Woven
    <3>3. \A j \in b .. n + 1 : j = n + 1 \/ (j \in b .. n /\ z[j] = s[j])
      BY <1>1, <1>c
    <3>4. r.k # "cont" /\ r.at # k /\ k < r.at
      BY <3>1, <1>1
    <3>5. \A j \in b .. n : j \in b .. n + 1
      BY <1>a
    <3>6. \A j \in b + 1 .. n : j \in b + 1 .. n + 1
      BY <1>a
    <3>7. y.ci[k].f \in Guards =>
            \/ \E j \in b .. n + 1 : z[j].k \in {"pcall", "cont"} /\ z[j].at = k
            \/ \A j \in b .. n + 1 : z[j].k \in {"call", "pcall", "cont"} => k < z[j].at
      <4> SUFFICES ASSUME y.ci[k].f \in Guards
                   PROVE  \/ \E j \in b .. n + 1 : z[j].k \in {"pcall", "cont"} /\ z[j].at = k
                          \/ \A j \in b .. n + 1 : z[j].k \in {"call", "pcall", "cont"} => k < z[j].at
        OBVIOUS
      <4>1. CASE \E j \in b .. n : s[j].k \in {"pcall", "cont"} /\ s[j].at = k
        <5>1. PICK j \in b .. n : s[j].k \in {"pcall", "cont"} /\ s[j].at = k
          BY <4>1
        <5>2. j \in b .. n + 1 /\ z[j] = s[j]
          BY <3>5, <1>1
        <5> QED BY <5>1, <5>2
      <4>2. CASE \A j \in b .. n : s[j].k \in {"call", "pcall", "cont"} => k < s[j].at
        BY <4>2, <3>3, <3>4
      <4> QED BY <4>1, <4>2, <3>1, <3>2 DEF Placed
    <3>8. y.ci[k].f = "handler" =>
             \E j \in b + 1 .. n + 1 : /\ z[j].k = "call" /\ z[j].at = k
                                       /\ z[j - 1].k \in {"errh", "cont"}
      BY <1>1, <3>1, <3>2, <3>6, ZenonT(60) DEF Placed
    <3>9. y.ci[k].f = "tm" =>
            \/ \E j \in b + 1 .. n + 1 : /\ z[j].k = "call" /\ z[j].at = k
                                         /\ z[j - 1].k \in {"call", "resume"}
            \/ \E j \in b .. n + 1 : Buried(z, j, k)
      <4>1. \A j \in b .. n : Buried(s, j, k) => Buried(z, j, k)
        <5> SUFFICES ASSUME NEW j \in b .. n, Buried(s, j, k) PROVE Buried(z, j, k)
          OBVIOUS
        <5>1. z[j] = s[j] /\ (s[j].k = "errh" => z[j - 1] = s[j - 1])
          BY <1>1, <1>2
        <5> QED BY <5>1 DEF Buried
      <4> QED BY <1>1, <3>1, <3>2, <3>5, <3>6, <4>1, ZenonT(60) DEF Placed
    <3>10. y.ci[k].handle <=> /\ y.ci[k].f \in Guards
                              /\ \A j \in b .. n + 1 : z[j].k = "cont" => z[j].at # k
      <4>1. (\A j \in b .. n + 1 : z[j].k = "cont" => z[j].at # k)
              <=> (\A j \in b .. n : s[j].k = "cont" => s[j].at # k)
        <5>1. \A j \in b .. n : j \in b .. n + 1 /\ z[j] = s[j]
          BY <1>1, <3>5
        <5>2. ASSUME \A j \in b .. n + 1 : z[j].k = "cont" => z[j].at # k
              PROVE  \A j \in b .. n : s[j].k = "cont" => s[j].at # k
          BY <5>1, <5>2, Zenon
        <5>3. ASSUME \A j \in b .. n : s[j].k = "cont" => s[j].at # k
              PROVE  \A j \in b .. n + 1 : z[j].k = "cont" => z[j].at # k
          BY <5>3, <3>3, <3>4
        <5> QED BY <5>2, <5>3
      <4>2. x.ci[k].handle <=> /\ x.ci[k].f \in Guards
                               /\ \A j \in b .. n : s[j].k = "cont" => s[j].at # k
        BY <3>2 DEF Placed
      <4> QED BY <4>1, <4>2, <3>1
    <3> QED BY <3>7, <3>8, <3>9, <3>10 DEF Placed
  <2> QED BY <2>1, <2>2
<1> QED BY <1>4, <1>5, <1>6, <1>c DEF Woven

\* The error function of xpcall is called where the error left the frames.
Helping(s, b, n, x, c, z, y) ==
  /\ Standing(s, b, n, x) /\ Above(x, y, Frame("handler")) /\ Agree(s, z, c)
  /\ c \in b .. n /\ s[c].k = "pcall" /\ s[c].errf = "xpcall"
  /\ \A j \in c + 1 .. n : s[j].k = "call"
  /\ z[c + 1].k = "errh" /\ z[c + 1].ci = Len(x.ci)
  /\ z[c + 2].k = "call" /\ z[c + 2].at = Len(x.ci) + 1

\* What the error left is buried.
LEMMA WovenErrh ==
  ASSUME NEW s, NEW b, NEW n, NEW x, NEW c, NEW z, NEW y, Helping(s, b, n, x, c, z, y),
         Woven(s, b, n, x)
  PROVE  Woven(z, b, c + 2, y)
<1> DEFINE h == Len(x.ci)
<1>1. /\ b \in Nat /\ 1 <= b /\ n \in Nat /\ b <= n /\ c \in b .. n /\ h \in Nat
      /\ s[c].k = "pcall" /\ s[c].errf = "xpcall" /\ \A j \in c + 1 .. n : s[j].k = "call"
      /\ z[c + 1].k = "errh" /\ z[c + 1].ci = h /\ z[c + 2].k = "call" /\ z[c + 2].at = h + 1
      /\ \A j \in b .. c : z[j] = s[j]
      /\ \A j \in b + 1 .. c : z[j] = s[j] /\ z[j - 1] = s[j - 1]
  BY StandingFacts DEF Helping, Agree
<1>a. b \in Nat /\ c \in Nat /\ n \in Nat /\ b <= c /\ c <= n /\ h \in Nat
  BY <1>1
<1>b. /\ h \in Nat /\ Len(y.ci) = h + 1 /\ \A k \in 1 .. h : y.ci[k] = x.ci[k]
      /\ y.ci[h + 1] = Frame("handler")
  BY <1>1 DEF Helping, Above
<1>2. \A j \in b .. n :
              /\ Pos(s[j]) \in Nat /\ Pos(s[j]) <= h /\ (s[j].k # "resume" => j # b)
              /\ s[j].k \in {"call", "pcall", "cont"} => s[j].at \in 1 .. h
              /\ s[j].k = "errh" => s[j - 1].k = "pcall" /\ b < j - 1
  <2>1. \A j \in b .. n :
              /\ Pos(s[j]) \in Nat /\ Pos(s[j]) <= h /\ (s[j].k = "resume" <=> j = b)
              /\ s[j].k \in {"call", "pcall"} => s[j].at = Pos(s[j]) /\ s[j].at \in Nat /\ 0 < s[j].at
              /\ s[j].k = "cont" => /\ s[j].at \in Nat /\ 0 < s[j].at
                                    /\ s[j].ci = Pos(s[j]) /\ s[j].at <= s[j].ci
              /\ s[j].k = "errh" => s[j - 1].k = "pcall" /\ b < j - 1
    BY StandingFacts, SMTT(30) DEF Helping
  <2> QED BY <2>1
<1>c. \A j \in b .. n : j \in b .. c \/ j \in c + 1 .. n
  BY <1>a
<1>d. \A j \in b .. c + 2 : j \in b .. c \/ j = c + 1 \/ j = c + 2
  BY <1>a
<1>e. \A j \in c + 1 .. n : s[c].at < s[j].at
  <2> SUFFICES ASSUME NEW j \in c + 1 .. n PROVE s[c].at < s[j].at
    OBVIOUS
  <2>1. j \in b .. n /\ c \in b .. j - 1 /\ c \in b .. n
    BY <1>a
  <2>2. s[j].k = "call" /\ s[c].k = "pcall"
    BY <1>1
  <2>3. /\ \A i \in b .. j - 1 : Pos(s[i]) < s[j].at
        /\ s[c].at = Pos(s[c])
    BY <2>1, <2>2, StandingFacts, SMTT(30) DEF Helping
  <2> QED BY <2>1, <2>3
<1>f. c \in b .. c + 2 /\ c + 1 \in b .. c + 2 /\ c + 2 \in b + 1 .. c + 2 /\ c + 2 \in b .. c + 2
      /\ \A j \in b .. c : j \in b .. c + 2 /\ j \in b .. n
  BY <1>a
<1>4. ASSUME NEW j \in b .. c PROVE Owner(z, y, j) /\ Ran(z, c + 2, y, j)
  <2>0. j \in b .. n
    BY <1>a
  <2>1. Owner(s, x, j) /\ Ran(s, n, x, j)
    BY <2>0 DEF Woven
  <2>2. s[j].k \in {"call", "pcall", "cont"} => y.ci[s[j].at] = x.ci[s[j].at]
    BY <2>0, <1>b, <1>2
  <2>a. z[j] = s[j] /\ (s[j].k # "resume" => z[j - 1] = s[j - 1])
    <3>1. z[j] = s[j]
      BY <1>1
    <3>2. ASSUME s[j].k # "resume" PROVE z[j - 1] = s[j - 1]
      <4>1. j \in b + 1 .. c
        BY <3>2, <1>2, <1>a, <2>0
      <4> QED BY <4>1, <1>1
    <3> QED BY <3>1, <3>2
  <2>3. Owner(z, y, j)
    BY <2>1, <2>2, <2>a DEF Owner
  <2>4. ASSUME j # c PROVE j + 1 \in b .. c /\ z[j + 1] = s[j + 1] /\ j # c + 2 /\ j # n
    <3>1. j + 1 \in b .. c /\ j # c + 2 /\ j # n
      BY <1>a, <2>4
    <3> QED BY <3>1, <1>1
  <2>5. ASSUME s[j].k \in {"call", "resume"}, NEW k \in Pos(s[j]) + 1 .. Upto(z, c + 2, y, j)
        PROVE  \/ y.ci[k].f = "lua"
               \/ s[j].k = "resume" /\ y.ci[k].f \in Guards \cup {"body"}
               \/ k = Len(y.ci) /\ y.ci[k].f \in Ends
    <3>1. j # c
      BY <2>5, <1>1
    <3>2. Upto(z, c + 2, y, j) = s[j + 1].at - 1 /\ Upto(s, n, x, j) = s[j + 1].at - 1
      BY <2>4, <3>1 DEF Upto
    <3>3. j + 1 \in b .. n
      BY <2>4, <3>1, <1>a
    <3>4. s[j + 1].k \in {"call", "pcall", "cont"}
      <4>1. \A i \in b .. n : /\ s[i] \in RecordType /\ (s[i].k = "resume" <=> i = b)
                              /\ s[i].k = "errh" => s[i - 1].k = "pcall"
        BY StandingFacts DEF Helping
      <4>2. s[j + 1] \in RecordType /\ s[j + 1].k # "resume"
            /\ (s[j + 1].k = "errh" => s[(j + 1) - 1].k = "pcall")
        BY <4>1, <3>3, <1>a
      <4> QED BY <4>2, <2>5, RecordFields, <1>a
    <3>5. s[j + 1].at \in Nat /\ s[j + 1].at <= h
      BY <3>3, <3>4, <1>2
    <3>6. Pos(s[j]) \in Nat
      BY <2>0, <1>2
    <3>7. k \in 1 .. h /\ k # h /\ k \in Pos(s[j]) + 1 .. Upto(s, n, x, j)
      <4>1. k \in Pos(s[j]) + 1 .. s[j + 1].at - 1
        BY <3>2, <2>5
      <4>2. h \in Nat
        BY <1>a
      <4>3. k \in 1 .. h /\ k # h
        BY <4>1, <4>2, <3>5, <3>6, SMTT(30)
      <4> QED BY <4>1, <4>3, <3>2
    <3>8. \/ x.ci[k].f = "lua"
          \/ s[j].k = "resume" /\ x.ci[k].f \in Guards \cup {"body"}
          \/ k = h /\ x.ci[k].f \in Ends
      BY <2>1, <2>5, <3>7 DEF Ran
    <3> QED BY <3>7, <3>8, <1>b
  <2>6. s[j].k \in {"errh", "cont"} => j < c + 2 /\ z[j + 1].k = "call"
    <3> SUFFICES ASSUME s[j].k \in {"errh", "cont"} PROVE j < c + 2 /\ z[j + 1].k = "call"
      OBVIOUS
    <3>1. j < n /\ s[j + 1].k = "call"
      BY <2>1 DEF Ran
    <3>2. j # c
      BY <1>1
    <3> QED BY <3>1, <3>2, <2>4, <1>a
  <2> QED BY <2>3, <2>5, <2>6, <2>a DEF Ran
<1>5. Owner(z, y, c + 1) /\ Ran(z, c + 2, y, c + 1)
  <2>1. z[(c + 1) - 1] = s[c] /\ (c + 1) + 1 = c + 2 /\ c + 1 < c + 2
    BY <1>1, <1>a
  <2> QED BY <2>1, <1>1 DEF Owner, Ran
<1>6. Owner(z, y, c + 2) /\ Ran(z, c + 2, y, c + 2)
  <2>1. (c + 2) - 1 = c + 1 /\ Pos(z[c + 1]) = h /\ Pos(z[c + 2]) = h + 1
    BY <1>1, <1>a DEF Pos
  <2>2. y.ci[z[c + 2].at].f = "handler"
    BY <1>b, <1>1 DEF Frame
  <2>3. Owner(z, y, c + 2)
    BY <2>1, <2>2, <1>1 DEF Owner
  <2>4. Upto(z, c + 2, y, c + 2) = h + 1
    BY <1>b DEF Upto
  <2> QED BY <2>1, <2>3, <2>4, <1>1, <1>a DEF Ran
<1>7. ASSUME NEW k \in 1 .. Len(y.ci) PROVE Placed(z, b, c + 2, y, k)
  <2>1. CASE k = h + 1
    <3>1. y.ci[k].f = "handler" /\ y.ci[k].handle = FALSE
      BY <2>1, <1>b DEF Frame
    <3>2. \E j \in b + 1 .. c + 2 : /\ z[j].k = "call" /\ z[j].at = k /\ z[j - 1].k \in {"errh", "cont"}
      <4>1. (c + 2) - 1 = c + 1
        BY <1>a
      <4> QED BY <4>1, <2>1, <1>1, <1>f
    <3> QED BY <3>1, <3>2 DEF Placed, Guards
  <2>2. CASE k # h + 1
    <3>1. k \in 1 .. h /\ y.ci[k] = x.ci[k]
      BY <2>2, <1>b
    <3>2. Placed(s, b, n, x, k)
      BY <3>1 DEF Woven
    <3>3. \A j \in b .. c : z[j] = s[j] /\ j \in b .. n /\ j \in b .. c + 2
      BY <1>1, <1>f
    <3>4. y.ci[k].f \in Guards =>
            \/ \E j \in b .. c + 2 : z[j].k \in {"pcall", "cont"} /\ z[j].at = k
            \/ \A j \in b .. c + 2 : z[j].k \in {"call", "pcall", "cont"} => k < z[j].at
      <4> SUFFICES ASSUME x.ci[k].f \in Guards
                   PROVE  \/ \E j \in b .. c + 2 : z[j].k \in {"pcall", "cont"} /\ z[j].at = k
                          \/ \A j \in b .. c + 2 : z[j].k \in {"call", "pcall", "cont"} => k < z[j].at
        BY <3>1
      <4>1. CASE \E j \in b .. n : s[j].k \in {"pcall", "cont"} /\ s[j].at = k
        <5>1. PICK j \in b .. n : s[j].k \in {"pcall", "cont"} /\ s[j].at = k
          BY <4>1
        <5>2. j \in b .. c
          BY <5>1, <1>c, <1>1
        <5> QED BY <5>1, <5>2, <3>3
      <4>2. CASE \A j \in b .. n : s[j].k \in {"call", "pcall", "cont"} => k < s[j].at
        <5>1. k < h + 1
          BY <3>1, <1>a
        <5> QED BY <4>2, <5>1, <3>3, <1>d, <1>1
      <4> QED BY <4>1, <4>2, <3>2 DEF Placed
    <3>5. y.ci[k].f = "handler" =>
             \E j \in b + 1 .. c + 2 : /\ z[j].k = "call" /\ z[j].at = k
                                       /\ z[j - 1].k \in {"errh", "cont"}
      <4> SUFFICES ASSUME x.ci[k].f = "handler"
                   PROVE  \E j \in b + 1 .. c + 2 : /\ z[j].k = "call" /\ z[j].at = k
                                                    /\ z[j - 1].k \in {"errh", "cont"}
        BY <3>1
      <4>1. PICK j \in b + 1 .. n : s[j].k = "call" /\ s[j].at = k /\ s[j - 1].k \in {"errh", "cont"}
        BY <3>2 DEF Placed
      <4>2. j - 1 \in b .. c
        <5>1. j - 1 \in b .. n
          BY <1>a
        <5> QED BY <5>1, <4>1, <1>c, <1>1
      <4>3. j - 1 # c
        BY <4>1, <1>1
      <4>4. j \in b + 1 .. c /\ j \in b + 1 .. c + 2
        BY <4>2, <4>3, <1>a
      <4>5. z[j] = s[j] /\ z[j - 1] = s[j - 1]
        BY <4>4, <1>1
      <4> QED BY <4>1, <4>4, <4>5
    <3>6. y.ci[k].f = "tm" =>
            \/ \E j \in b + 1 .. c + 2 : /\ z[j].k = "call" /\ z[j].at = k
                                         /\ z[j - 1].k \in {"call", "resume"}
            \/ \E j \in b .. c + 2 : Buried(z, j, k)
      <4> SUFFICES ASSUME x.ci[k].f = "tm"
                   PROVE  \/ \E j \in b + 1 .. c + 2 : /\ z[j].k = "call" /\ z[j].at = k
                                                       /\ z[j - 1].k \in {"call", "resume"}
                          \/ \E j \in b .. c + 2 : Buried(z, j, k)
        BY <3>1
      <4>1. CASE \E j \in b + 1 .. n : /\ s[j].k = "call" /\ s[j].at = k
                                       /\ s[j - 1].k \in {"call", "resume"}
        <5>1. PICK j \in b + 1 .. n : s[j].k = "call" /\ s[j].at = k /\ s[j - 1].k \in {"call", "resume"}
          BY <4>1
        <5>2. CASE j <= c
          <6>1. j \in b + 1 .. c /\ j \in b + 1 .. c + 2
            BY <5>2, <1>a
          <6>2. z[j] = s[j] /\ z[j - 1] = s[j - 1]
            BY <6>1, <1>1
          <6> QED BY <5>1, <6>1, <6>2
        <5>3. CASE ~(j <= c)
          <6>1. j \in c + 1 .. n /\ (c + 1) - 1 = c
            BY <5>3, <1>a
          <6>2. s[c].at < k /\ z[c] = s[c]
            BY <6>1, <5>1, <1>e, <1>1, <1>a, SMTT(30)
          <6>3. Buried(z, c + 1, k)
            BY <6>1, <6>2, <3>1, <1>1 DEF Buried
          <6> QED BY <6>3, <1>f
        <5> QED BY <5>2, <5>3
      <4>2. CASE \E j \in b .. n : Buried(s, j, k)
        <5>1. PICK j \in b .. n : Buried(s, j, k)
          BY <4>2
        <5>2. j \in b .. c /\ j # b
          <6>1. s[j].k \in {"errh", "cont"}
            BY <5>1 DEF Buried
          <6> QED BY <6>1, <1>c, <1>1, <1>2
        <5>3. z[j] = s[j] /\ z[j - 1] = s[j - 1]
          BY <5>2, <1>1, <1>a
        <5>4. Buried(z, j, k)
          BY <5>1, <5>3 DEF Buried
        <5> QED BY <5>4, <5>2, <3>3
      <4> QED BY <4>1, <4>2, <3>2 DEF Placed
    <3>7. y.ci[k].handle <=> /\ y.ci[k].f \in Guards
                             /\ \A j \in b .. c + 2 : z[j].k = "cont" => z[j].at # k
      <4>1. x.ci[k].handle <=> /\ x.ci[k].f \in Guards
                               /\ \A j \in b .. n : s[j].k = "cont" => s[j].at # k
        BY <3>2 DEF Placed
      <4>2. ASSUME \A j \in b .. n : s[j].k = "cont" => s[j].at # k
            PROVE  \A j \in b .. c + 2 : z[j].k = "cont" => z[j].at # k
        BY <4>2, <3>3, <1>d, <1>1, ZenonT(60)
      <4>3. ASSUME \A j \in b .. c + 2 : z[j].k = "cont" => z[j].at # k
            PROVE  \A j \in b .. n : s[j].k = "cont" => s[j].at # k
        <5>1. \A j \in b .. n : s[j].k = "cont" => j \in b .. c
          BY <1>c, <1>1
        <5> QED BY <5>1, <4>3, <3>3, Zenon
      <4> QED BY <4>1, <4>2, <4>3, <3>1
    <3> QED BY <3>4, <3>5, <3>6, <3>7 DEF Placed
  <2> QED BY <2>1, <2>2
<1> QED BY <1>4, <1>5, <1>6, <1>7, <1>d DEF Woven

\* resume_handle calls it below the frames that the error left in the coroutine.
Going(s, b, n, x, i, z, y) ==
  /\ Standing(s, b, n, x) /\ Agree(s, z, b)
  /\ y \in LooseType /\ Len(y.ci) = Len(x.ci) + 1 /\ y.ci[Len(x.ci) + 1] = Frame("handler")
  /\ i \in 1 .. Len(x.ci) /\ y.ci[i] = Frame("xpcall") /\ x.ci[i].f = "xpcall"
  /\ \A k \in 1 .. Len(x.ci) : k # i => y.ci[k] = x.ci[k]
  /\ \A k \in 1 .. Len(x.ci) : x.ci[k].handle => k <= i
  /\ x.ci[i].handle
  /\ \A j \in b + 1 .. n : s[j].k = "call"
  /\ z[b + 1].k = "cont" /\ z[b + 1].at = i /\ z[b + 1].ci = Len(x.ci)
  /\ z[b + 2].k = "call" /\ z[b + 2].at = Len(x.ci) + 1

\* What the error left is buried here too.
LEMMA WovenCont ==
  ASSUME NEW s, NEW b, NEW n, NEW x, NEW i, NEW z, NEW y, Going(s, b, n, x, i, z, y),
         Woven(s, b, n, x)
  PROVE  Woven(z, b, b + 2, y)
<1> DEFINE h == Len(x.ci)
<1>1. /\ b \in Nat /\ 1 <= b /\ n \in Nat /\ b <= n /\ h \in Nat
      /\ s[b].k = "resume" /\ z[b] = s[b] /\ \A j \in b + 1 .. n : s[j].k = "call"
      /\ z[b + 1].k = "cont" /\ z[b + 1].at = i /\ z[b + 1].ci = h
      /\ z[b + 2].k = "call" /\ z[b + 2].at = h + 1
  BY StandingFacts, SMTT(30) DEF Going, Agree
<1>a. b \in Nat /\ n \in Nat /\ b <= n /\ h \in Nat
  BY <1>1
<1>b. /\ h \in Nat /\ Len(y.ci) = h + 1 /\ \A k \in 1 .. h : k # i => y.ci[k] = x.ci[k]
      /\ y.ci[h + 1] = Frame("handler") /\ i \in 1 .. h /\ y.ci[i] = Frame("xpcall")
  BY <1>1 DEF Going
<1>c. \A j \in b .. b + 2 : j = b \/ j = b + 1 \/ j = b + 2
  BY <1>a
<1>d. b \in b .. n /\ b \in b .. b + 2 /\ b + 1 \in b .. b + 2 /\ b + 2 \in b + 1 .. b + 2
      /\ (b + 1) - 1 = b /\ (b + 2) - 1 = b + 1 /\ (b + 1) + 1 = b + 2
      /\ b # b + 2 /\ b + 1 # b + 2 /\ b + 1 < b + 2
      /\ \A j \in b .. n : j = b \/ j \in b + 1 .. n
  BY <1>a
<1>2. \A k \in 1 .. h : Placed(s, b, n, x, k)
  BY DEF Woven
<1>e. \A j \in b .. n : s[j].k \notin {"pcall", "cont", "errh"}
  BY <1>d, <1>1
<1>3. \A j \in b + 1 .. n : s[j].at \in Nat /\ i < s[j].at
  <2>1. x.ci[i].f \in Guards /\ i \in 1 .. h
    BY <1>b DEF Going, Guards
  <2>2. \A j \in b .. n : s[j].k \in {"call", "pcall", "cont"} => i < s[j].at
    BY <2>1, <1>2, <1>e DEF Placed
  <2>3. \A j \in b .. n : s[j].k \in {"call", "pcall"} => s[j].at \in Nat
    BY StandingFacts DEF Going
  <2>4. \A j \in b + 1 .. n : j \in b .. n
    BY <1>a
  <2> QED BY <2>2, <2>3, <2>4, <1>1
<1>4. Owner(z, y, b) /\ Ran(z, b + 2, y, b)
  <2>1. Owner(z, y, b)
    BY <1>1 DEF Owner
  <2>2. Upto(z, b + 2, y, b) = i - 1
    BY <1>1, <1>d DEF Upto
  <2>3. Pos(s[b]) = 0
    BY <1>1 DEF Pos
  <2>4. ASSUME NEW k \in Pos(z[b]) + 1 .. Upto(z, b + 2, y, b)
        PROVE  \/ y.ci[k].f = "lua"
               \/ z[b].k = "resume" /\ y.ci[k].f \in Guards \cup {"body"}
               \/ k = Len(y.ci) /\ y.ci[k].f \in Ends
    <3>1. k \in 1 .. i - 1
      BY <2>2, <2>3, <2>4, <1>1
    <3>2. i \in Nat /\ i <= h /\ k \in 1 .. h /\ k # i /\ k # h
      BY <3>1, <1>b
    <3>3. Ran(s, n, x, b)
      BY <1>d DEF Woven
    <3>4. k \in Pos(s[b]) + 1 .. Upto(s, n, x, b)
      <4>1. CASE b = n
        <5>1. Upto(s, n, x, b) = h
          BY <4>1 DEF Upto
        <5> QED BY <5>1, <3>2, <2>3, <1>a
      <4>2. CASE b # n
        <5>1. b + 1 \in b + 1 .. n
          BY <4>2, <1>a
        <5>2. Upto(s, n, x, b) = s[b + 1].at - 1
          BY <4>2 DEF Upto
        <5>3. s[b + 1].at \in Nat /\ i < s[b + 1].at
          BY <5>1, <1>3
        <5> QED BY <5>2, <5>3, <3>1, <3>2, <2>3
      <4> QED BY <4>1, <4>2
    <3>5. x.ci[k].f = "lua" \/ x.ci[k].f \in Guards \cup {"body"}
      BY <3>2, <3>3, <3>4, <1>1 DEF Ran
    <3> QED BY <3>2, <3>5, <1>b, <1>1
  <2> QED BY <2>1, <2>4, <1>1 DEF Ran
<1>5. Owner(z, y, b + 1) /\ Ran(z, b + 2, y, b + 1)
  <2>1. y.ci[z[b + 1].at].f = "xpcall"
    BY <1>1, <1>b DEF Frame
  <2> QED BY <2>1, <1>1, <1>d DEF Owner, Ran
<1>6. Owner(z, y, b + 2) /\ Ran(z, b + 2, y, b + 2)
  <2>1. Pos(z[b + 1]) = h /\ Pos(z[b + 2]) = h + 1
    BY <1>1 DEF Pos
  <2>2. y.ci[z[b + 2].at].f = "handler"
    BY <1>b, <1>1 DEF Frame
  <2>3. Owner(z, y, b + 2)
    BY <2>1, <2>2, <1>1, <1>d DEF Owner
  <2>4. Upto(z, b + 2, y, b + 2) = h + 1
    BY <1>b DEF Upto
  <2> QED BY <2>1, <2>3, <2>4, <1>1, <1>a DEF Ran
<1>7. ASSUME NEW k \in 1 .. Len(y.ci) PROVE Placed(z, b, b + 2, y, k)
  <2>1. CASE k = h + 1
    <3>1. y.ci[k].f = "handler" /\ y.ci[k].handle = FALSE
      BY <2>1, <1>b DEF Frame
    <3>2. \E j \in b + 1 .. b + 2 : /\ z[j].k = "call" /\ z[j].at = k /\ z[j - 1].k \in {"errh", "cont"}
      BY <2>1, <1>1, <1>d
    <3> QED BY <3>1, <3>2 DEF Placed, Guards
  <2>2. CASE k = i
    <3>1. y.ci[k].f = "xpcall" /\ y.ci[k].handle = FALSE
      BY <2>2, <1>b DEF Frame
    <3>2. \E j \in b .. b + 2 : z[j].k \in {"pcall", "cont"} /\ z[j].at = k
      BY <2>2, <1>1, <1>d
    <3>3. ~ \A j \in b .. b + 2 : z[j].k = "cont" => z[j].at # k
      BY <2>2, <1>1, <1>d
    <3> QED BY <3>1, <3>2, <3>3 DEF Placed
  <2>3. CASE k # h + 1 /\ k # i
    <3>1. k \in 1 .. h /\ y.ci[k] = x.ci[k] /\ i \in Nat /\ k \in Nat
      BY <2>3, <1>b
    <3>2. Placed(s, b, n, x, k)
      BY <3>1, <1>2
    <3>3. x.ci[k].handle <=> x.ci[k].f \in Guards
      BY <3>2, <1>e DEF Placed
    <3>4. x.ci[k].handle => k < i
      <4>1. x.ci[k].handle => k <= i
        BY <3>1 DEF Going
      <4> QED BY <4>1, <3>1, <2>3
    <3>5. y.ci[k].f \in Guards => \A j \in b .. b + 2 : z[j].k \in {"call", "pcall", "cont"} => k < z[j].at
      <4>1. k < h + 1
        BY <3>1, <1>a
      <4> QED BY <4>1, <3>1, <3>3, <3>4, <1>1, <1>c
    <3>6. y.ci[k].f # "handler"
      <4>1. \A j \in b + 1 .. n : j - 1 \in b .. n
        BY <1>a
      <4> QED BY <4>1, <3>1, <3>2, <1>e DEF Placed
    <3>7. y.ci[k].f = "tm" => \E j \in b .. b + 2 : Buried(z, j, k)
      <4> SUFFICES ASSUME x.ci[k].f = "tm" PROVE \E j \in b .. b + 2 : Buried(z, j, k)
        BY <3>1
      <4>1. ~ \E j \in b .. n : Buried(s, j, k)
        BY <1>e DEF Buried
      <4>2. PICK j \in b + 1 .. n : s[j].k = "call" /\ s[j].at = k
        BY <4>1, <3>2 DEF Placed
      <4>3. i < k /\ k <= h
        BY <4>2, <3>1, <1>3
      <4>4. Buried(z, b + 1, k)
        BY <4>3, <1>1 DEF Buried
      <4> QED BY <4>4, <1>d
    <3>8. \A j \in b .. b + 2 : z[j].k = "cont" => z[j].at # k
      BY <2>3, <1>1, <1>c
    <3> QED BY <3>1, <3>3, <3>5, <3>6, <3>7, <3>8 DEF Placed
  <2> QED BY <2>1, <2>2, <2>3
<1> QED BY <1>4, <1>5, <1>6, <1>7, <1>c DEF Woven

-----------------------------------------------------------------------------
(* The counters that are saved. *)

\* A record of the same thread on top of the n records of s.
SavingOn(s, b, n, base, z) ==
  /\ n \in Nat /\ b \in 1 .. n /\ Agree(s, z, n) /\ base \in Int
  /\ s[n].t = s[b].t /\ z[n + 1].t = s[b].t /\ Saves(s, b, n, base)
  /\ z[n + 1].k \in {"call", "pcall", "errh", "cont"}
  /\ z[n + 1].k = "call" /\ s[n].k \notin {"pcall", "errh"}
       => Pcalls(s, n, s[b].t) <= Calls(s, n, s[b].t)
  /\ z[n + 1].k = "pcall" => s[n].k \notin {"pcall", "errh"}
  /\ z[n + 1].k = "errh" => s[n].k = "pcall"
  /\ z[n + 1].k = "cont" => ~Strange(s, b, n)
  /\ z[n + 1].k \in {"pcall", "cont"} => /\ z[n + 1].nC \in Int
                                         /\ z[n + 1].nC >= Here(s, base, n) + Over(s, b, n)

\* It saves enough, and allows for one call more.
LEMMA SavesPush ==
  ASSUME NEW s, NEW b, NEW n, NEW base, NEW z, SavingOn(s, b, n, base, z)
  PROVE  /\ Saves(z, b, n + 1, base)
         /\ Here(z, base, n + 1) = Here(s, base, n) + (IF z[n + 1].k = "call" THEN 1 ELSE 0)
         /\ Over(z, b, n + 1) = IF z[n + 1].k = "errh" THEN 1 ELSE Over(s, b, n)
         /\ Pcalls(z, n + 1, s[b].t) = Pcalls(s, n, s[b].t) + (IF z[n + 1].k = "pcall" THEN 1 ELSE 0)
         /\ Pcalls(s, n, s[b].t) \in Nat /\ z[b] = s[b] /\ Here(s, base, n) \in Int /\ Over(s, b, n) \in {0, 1}
<1> DEFINE t == s[b].t
<1>1. /\ n \in Nat /\ b \in 1 .. n /\ Agree(s, z, n) /\ base \in Int /\ z[b].t = t
      /\ s[n].t = t /\ z[n + 1].t = t /\ Saves(s, b, n, base)
      /\ z[n] = s[n] /\ z[n + 1].k \in {"call", "pcall", "errh", "cont"}
      /\ \A j \in b .. n : z[j] = s[j]
      /\ \A j \in b + 1 .. n : z[j - 1] = s[j - 1]
  BY DEF SavingOn, Agree
<1>a. n \in Nat /\ b \in Nat /\ 1 <= b /\ b <= n /\ base \in Int
  BY <1>1
<1>2. /\ Calls(z, n + 1, t) = Calls(s, n, t) + (IF z[n + 1].k = "call" THEN 1 ELSE 0)
      /\ Pcalls(z, n + 1, t) = Pcalls(s, n, t) + (IF z[n + 1].k = "pcall" THEN 1 ELSE 0)
      /\ Calls(s, n, t) \in Nat /\ Pcalls(s, n, t) \in Nat
  <2>1. Calls(z, n, t) = Calls(s, n, t) /\ Pcalls(z, n, t) = Pcalls(s, n, t)
    BY <1>1, LocalCounts
  <2>2. Calls(s, n, t) \in Nat /\ Pcalls(s, n, t) \in Nat
    BY <1>1, NumberType DEF Calls, Pcalls
  <2>3. /\ Calls(z, n + 1, t)
              = Calls(z, n, t) + (IF z[n + 1].t = t /\ z[n + 1].k = "call" THEN 1 ELSE 0)
         /\ Pcalls(z, n + 1, t)
              = Pcalls(z, n, t) + (IF z[n + 1].t = t /\ z[n + 1].k = "pcall" THEN 1 ELSE 0)
    BY <1>a, StepCounts
  <2> QED BY <2>1, <2>2, <2>3, <1>1
<1>3. \A i \in b .. n : \A u : Calls(s, i, u) = Calls(z, i, u) /\ Pcalls(s, i, u) = Pcalls(z, i, u)
  <2> SUFFICES ASSUME NEW i \in b .. n, NEW u
               PROVE  Calls(s, i, u) = Calls(z, i, u) /\ Pcalls(s, i, u) = Pcalls(z, i, u)
    OBVIOUS
  <2>1. i \in Nat /\ Agree(s, z, i)
    BY <1>1 DEF Agree
  <2> QED BY <2>1, LocalCounts
<1>4. \A i \in b .. n : Here(s, base, i) = Here(z, base, i)
  BY <1>1, <1>3 DEF Here
<1>5. \A i \in b .. n : Strange(z, b, i) <=> Strange(s, b, i)
  <2> SUFFICES ASSUME NEW i \in b .. n PROVE Strange(z, b, i) <=> Strange(s, b, i)
    OBVIOUS
  <2>1. \A j \in b + 1 .. i : z[j] = s[j] /\ z[j - 1] = s[j - 1]
    BY <1>1, <1>a
  <2> QED BY <2>1 DEF Strange
<1>6. \A i \in b .. n : Over(s, b, i) = Over(z, b, i)
  <2> SUFFICES ASSUME NEW i \in b .. n PROVE Over(s, b, i) = Over(z, b, i)
    OBVIOUS
  <2>1. \A j \in b .. i : s[j] = z[j]
    BY <1>1, <1>a
  <2> QED BY <2>1 DEF Over
<1>7. Strange(z, b, n + 1) => \/ Strange(s, b, n)
                              \/ z[n + 1].k = "call" /\ s[n].k \in {"call", "resume", "cont"}
  <2> SUFFICES ASSUME Strange(z, b, n + 1)
               PROVE  \/ Strange(s, b, n)
                      \/ z[n + 1].k = "call" /\ s[n].k \in {"call", "resume", "cont"}
    OBVIOUS
  <2>1. PICK j \in b + 1 .. n + 1 : z[j].k = "call" /\ z[j - 1].k \in {"call", "resume", "cont"}
    BY DEF Strange
  <2>2. CASE j = n + 1
    <3>1. j - 1 = n
      BY <2>2, <1>a
    <3> QED BY <2>1, <2>2, <3>1, <1>1
  <2>3. CASE j # n + 1
    <3>1. j \in b + 1 .. n /\ n \in b .. n
      BY <2>3, <1>a
    <3>2. Strange(z, b, n)
      BY <2>1, <3>1 DEF Strange
    <3> QED BY <3>1, <3>2, <1>5
  <2> QED BY <2>2, <2>3
<1>8. Over(z, b, n + 1) = (IF z[n + 1].k = "errh" THEN 1 ELSE Over(s, b, n)) /\ Over(s, b, n) \in {0, 1}
  <2>1. \A j \in b .. n : j \in b .. n + 1 /\ z[j] = s[j]
    BY <1>1, <1>a
  <2>2. \A j \in b .. n + 1 : j = n + 1 \/ j \in b .. n
    BY <1>a
  <2>3. n + 1 \in b .. n + 1
    BY <1>a
  <2>4. (\E j \in b .. n + 1 : z[j].k = "errh") <=> (z[n + 1].k = "errh" \/ \E j \in b .. n : s[j].k = "errh")
    <3>1. ASSUME NEW j \in b .. n + 1, z[j].k = "errh"
          PROVE  z[n + 1].k = "errh" \/ \E i \in b .. n : s[i].k = "errh"
      BY <3>1, <2>1, <2>2
    <3>2. ASSUME NEW j \in b .. n, s[j].k = "errh" PROVE \E i \in b .. n + 1 : z[i].k = "errh"
      BY <3>2, <2>1
    <3> QED BY <3>1, <3>2, <2>3
  <2> QED BY <2>4 DEF Over
<1>9. Here(z, base, n + 1) = Here(s, base, n) + (IF z[n + 1].k = "call" THEN 1 ELSE 0)
      /\ Here(s, base, n) \in Int
  BY <1>1, <1>2 DEF Here
<1>b. n \in b .. n /\ n + 1 \in b .. n + 1 /\ \A i \in b .. n + 1 : i = n + 1 \/ i \in b .. n
  BY <1>a
<1>10. Strange(z, b, n + 1) =>
         Pcalls(z, n + 1, t) < Calls(z, n + 1, t) + (IF z[n + 1].k \in {"pcall", "errh"} THEN 1 ELSE 0)
  <2> SUFFICES ASSUME Strange(z, b, n + 1)
               PROVE  Pcalls(z, n + 1, t) < Calls(z, n + 1, t) + (IF z[n + 1].k \in {"pcall", "errh"} THEN 1 ELSE 0)
    OBVIOUS
  <2>1. CASE Strange(s, b, n)
    <3>1. Pcalls(s, n, t) < Calls(s, n, t) + (IF s[n].k \in {"pcall", "errh"} THEN 1 ELSE 0)
      BY <2>1, <1>1, <1>b DEF Saves
    <3>2. /\ z[n + 1].k = "pcall" => s[n].k \notin {"pcall", "errh"}
          /\ z[n + 1].k # "cont"
          /\ z[n + 1].k = "call" /\ s[n].k \notin {"pcall", "errh"} => Pcalls(s, n, t) <= Calls(s, n, t)
      BY <2>1 DEF SavingOn
    <3> HIDE DEF t
    <3> QED BY <3>1, <3>2, <1>1, <1>2
  <2>2. CASE z[n + 1].k = "call" /\ s[n].k \in {"call", "resume", "cont"}
    <3>1. Pcalls(s, n, t) <= Calls(s, n, t)
      BY <2>2 DEF SavingOn
    <3> HIDE DEF t
    <3> QED BY <3>1, <2>2, <1>2
  <2> QED BY <2>1, <2>2, <1>7
<1>11. z[n + 1].k \in {"pcall", "cont"} => z[n + 1].nC >= Here(z, base, n + 1) + Over(z, b, n + 1)
  <2>1. z[n + 1].k \in {"pcall", "cont"} => /\ z[n + 1].nC \in Int
                                            /\ z[n + 1].nC >= Here(s, base, n) + Over(s, b, n)
    BY DEF SavingOn
  <2> QED BY <2>1, <1>8, <1>9
<1>12. Saves(z, b, n + 1, base)
  <2> SUFFICES ASSUME NEW i \in b .. n + 1
               PROVE  /\ Strange(z, b, i) => Pcalls(z, i, t)
                                  < Calls(z, i, t) + (IF z[i].k \in {"pcall", "errh"} THEN 1 ELSE 0)
                      /\ z[i].k \in {"pcall", "cont"} => z[i].nC >= Here(z, base, i) + Over(z, b, i)
    BY <1>1 DEF Saves
  <2>1. CASE i = n + 1
    BY <2>1, <1>10, <1>11
  <2>2. CASE i \in b .. n
    <3>1. /\ Strange(s, b, i) => Pcalls(s, i, t)
                                  < Calls(s, i, t) + (IF s[i].k \in {"pcall", "errh"} THEN 1 ELSE 0)
          /\ s[i].k \in {"pcall", "cont"} => s[i].nC >= Here(s, base, i) + Over(s, b, i)
      BY <2>2, <1>1 DEF Saves
    <3>2. /\ s[i] = z[i] /\ Here(s, base, i) = Here(z, base, i) /\ Over(s, b, i) = Over(z, b, i)
          /\ Calls(s, i, t) = Calls(z, i, t) /\ Pcalls(s, i, t) = Pcalls(z, i, t)
          /\ Strange(z, b, i) <=> Strange(s, b, i)
      BY <2>2, <1>1, <1>3, <1>4, <1>5, <1>6
    <3> QED BY <3>1, <3>2
  <2> QED BY <2>1, <2>2, <1>b
<1>13. z[b] = s[b]
  BY <1>1, <1>b, <1>a
<1> QED BY <1>2, <1>8, <1>9, <1>12, <1>13

-----------------------------------------------------------------------------
(* What is linked stays linked. *)

\* Frames are added on what they may stand on, and cut anywhere.
LEMMA ShapedCut ==
  ASSUME NEW x, NEW y, NEW m, CutTo(x, y, m), x \in LooseType, Shaped(x)
  PROVE  Shaped(y)
<1>1. /\ m \in Nat /\ m <= Len(x.ci) /\ Len(y.ci) = m /\ Len(x.ci) \in Nat
      /\ \A k \in 1 .. m : y.ci[k] = x.ci[k]
  BY LooseFields DEF CutTo
<1>2. ASSUME NEW k \in 1 .. m PROVE k \in 1 .. Len(x.ci) /\ (k # 1 => k - 1 \in 1 .. m)
  BY <1>1
<1>3. ASSUME NEW k \in 1 .. m
      PROVE  IF k = 1 THEN y.ci[k].f = "body" ELSE Follows(y.ci[k].f, y.ci[k - 1].f)
  <2>1. IF k = 1 THEN x.ci[k].f = "body" ELSE Follows(x.ci[k].f, x.ci[k - 1].f)
    BY <1>2 DEF Shaped
  <2>2. y.ci[k] = x.ci[k] /\ (k # 1 => y.ci[k - 1] = x.ci[k - 1])
    BY <1>1, <1>2
  <2> QED BY <2>1, <2>2
<1> QED BY <1>1, <1>3 DEF Shaped

\* A pushed frame stands on one it may stand on.
LEMMA ShapedPush ==
  ASSUME NEW x, NEW y, NEW fr, Above(x, y, fr), x \in LooseType, Shaped(x), x.ci # <<>>,
         Follows(fr.f, Top(x.ci).f)
  PROVE  Shaped(y)
<1> DEFINE h == Len(x.ci)
<1>1. /\ h \in Nat /\ Len(y.ci) = h + 1 /\ y.ci[h + 1] = fr
      /\ \A k \in 1 .. h : y.ci[k] = x.ci[k]
  BY LooseFields DEF Above
<1>2. h \in 1 .. h
  <2>1. x.ci \in Seq(FrameType)
    BY LooseFields
  <2> QED BY <2>1
<1>3. ASSUME NEW k \in 1 .. h + 1
      PROVE  IF k = 1 THEN y.ci[k].f = "body" ELSE Follows(y.ci[k].f, y.ci[k - 1].f)
  <2>1. CASE k = h + 1
    <3>1. k # 1 /\ k - 1 = h
      BY <2>1, <1>1, <1>2
    <3> QED BY <2>1, <3>1, <1>1, <1>2 DEF Top
  <2>2. CASE k # h + 1
    <3>1. k \in 1 .. h /\ (k # 1 => k - 1 \in 1 .. h)
      BY <2>2, <1>1
    <3>2. IF k = 1 THEN x.ci[k].f = "body" ELSE Follows(x.ci[k].f, x.ci[k - 1].f)
      BY <3>1 DEF Shaped
    <3>3. y.ci[k] = x.ci[k] /\ (k # 1 => y.ci[k - 1] = x.ci[k - 1])
      BY <3>1, <1>1
    <3> QED BY <3>2, <3>3
  <2> QED BY <2>1, <2>2
<1> QED BY <1>1, <1>3 DEF Shaped

\* The count that a segment started with.
Started0(s, b, n, x) == x.baseC - Pcalls(s, n, s[b].t)

\* y has counters that fit record c where x has them at record n.
Recounted(s, b, n, x, c, y) ==
  /\ Started0(s, b, c, y) = Started0(s, b, n, x)
  /\ y.nC >= Here(s, Started0(s, b, n, x), c) + Over(s, b, c)
  /\ ~y.fresh

\* A segment is cut.
LEMMA LinkedCut ==
  ASSUME NEW s, NEW b, NEW n, NEW x, NEW c, NEW y, NEW m, Cutting(s, b, n, x, c, y, m),
         Linked(s, b, n, x), Recounted(s, b, n, x, c, y)
  PROVE  Linked(s, b, c, y) /\ Standing(s, b, c, y)
<1>1. /\ b \in Nat /\ n \in Nat /\ b <= n /\ c \in b .. n /\ s[c].k \in {"call", "resume"}
      /\ CutTo(x, y, m) /\ x \in LooseType
  BY StandingFacts DEF Cutting, Standing
<1>2. Woven(s, b, c, y)
  BY WovenCut DEF Linked
<1>3. Shaped(y)
  BY <1>1, ShapedCut DEF Linked
<1> DEFINE base == Started0(s, b, n, x)
<1>4. Saves(s, b, n, base)
  BY DEF Linked, Stretched, Started0
<1>5. Saves(s, b, c, base)
  <2>1. \A i \in b .. c : i \in b .. n
    BY <1>1
  <2> QED BY <2>1, <1>4 DEF Saves
<1>6. base = Started0(s, b, c, y) /\ y.nC >= Here(s, base, c) + Over(s, b, c) /\ ~y.fresh
  BY DEF Recounted
<1>7. Tops(s, b, c, base, y)
  <2>1. Here(s, base, c) + Over(s, b, c) \in Int
    <3>1. x.baseC \in Int /\ y.baseC \in Int
      BY <1>1, LooseFields DEF CutTo
    <3>2. Calls(s, c, s[c].t) \in Nat /\ Pcalls(s, n, s[b].t) \in Nat
      BY <1>1, NumberType DEF Calls, Pcalls
    <3> QED BY <3>1, <3>2 DEF Here, Over, Started0
  <2> QED BY <2>1, <1>6, <1>1 DEF Tops
<1>8. Stretched(s, b, c, y)
  BY <1>5, <1>6, <1>7 DEF Stretched, Started0
<1>9. Standing(s, b, c, y)
  <2>1. c \in 1 .. Len(s) /\ (\A i \in 1 .. c : Good(s, i)) /\ s \in Seq(RecordType)
    <3>1. n \in 1 .. Len(s) /\ (\A i \in 1 .. n : Good(s, i)) /\ s \in Seq(RecordType) /\ 1 <= b
      BY StandingFacts DEF Cutting, Standing
    <3> QED BY <3>1, <1>1
  <2>2. Segment(s, b, c)
    <3>1. Segment(s, b, n) /\ 1 <= b
      BY StandingFacts DEF Cutting, Standing
    <3>2. \A j \in b .. c : j \in b .. n
      BY <1>1
    <3>3. c \in b .. c /\ b \in 1 .. c
      BY <1>1, <3>1
    <3> QED BY <3>1, <3>2, <3>3 DEF Segment
  <2> QED BY <2>1, <2>2, <1>1 DEF Standing, Cutting, CutTo
<1> QED BY <1>2, <1>3, <1>6, <1>8, <1>9 DEF Linked

\* A frame without a record is added, and a failed call counted.
LEMMA LinkedGrow ==
  ASSUME NEW s, NEW b, NEW n, NEW x, NEW y, NEW fr, Growing(s, b, n, x, y, fr),
         Linked(s, b, n, x), x.ci # <<>>, Follows(fr.f, Top(x.ci).f),
         y.baseC = x.baseC, y.nC >= x.nC, ~y.fresh
  PROVE  Linked(s, b, n, y)
<1>1. Woven(s, b, n, y)
  BY WovenGrow DEF Linked
<1>2. x \in LooseType /\ Above(x, y, fr) /\ y \in LooseType
  BY DEF Growing, Standing, Above
<1>3. Shaped(y)
  BY <1>2, ShapedPush DEF Linked
<1>4. Stretched(s, b, n, y)
  <2>1. Tops(s, b, n, Started0(s, b, n, x), x) /\ Saves(s, b, n, Started0(s, b, n, x))
    BY DEF Linked, Stretched, Started0
  <2>2. Started0(s, b, n, y) = Started0(s, b, n, x)
    BY DEF Started0
  <2>3. Here(s, Started0(s, b, n, x), n) \in Int /\ Over(s, b, n) \in Int /\ x.nC \in Int /\ y.nC \in Int
    <3>1. n \in Nat
      BY StandingFacts DEF Growing
    <3>2. Calls(s, n, s[n].t) \in Nat /\ Pcalls(s, n, s[b].t) \in Nat
      BY <3>1, NumberType DEF Calls, Pcalls
    <3> QED BY <1>2, <3>2, LooseFields DEF Here, Over, Started0
  <2>4. Tops(s, b, n, Started0(s, b, n, x), y)
    BY <2>1, <2>3 DEF Tops
  <2> QED BY <2>1, <2>2, <2>4 DEF Stretched, Started0
<1> QED BY <1>1, <1>3, <1>4 DEF Linked

\* The base is an integer, and the top record is that of a function that runs
\* only if it has called as often as it has protected.
LEMMA StandingCounts ==
  ASSUME NEW s, NEW b, NEW n, NEW x, Standing(s, b, n, x)
  PROVE  /\ Started0(s, b, n, x) \in Int /\ x.nC \in Int /\ x.baseC \in Int
         /\ n \in Nat /\ b \in 1 .. n /\ s[n].t = s[b].t
         /\ s[n].k \notin {"pcall", "errh"} => Pcalls(s, n, s[b].t) <= Calls(s, n, s[b].t)
<1>1. /\ n \in Nat /\ b \in 1 .. n /\ b \in Nat /\ x \in LooseType /\ Good(s, n) /\ n \in 1 .. n
      /\ \A j \in b .. n : s[j].t = s[n].t
  <2>1. /\ b \in Nat /\ 1 <= b /\ n \in Nat /\ b <= n /\ \A j \in b .. n : s[j].t = s[n].t
    BY StandingFacts
  <2>2. n \in 1 .. n
    BY <2>1
  <2>3. Good(s, n) /\ x \in LooseType
    BY <2>2 DEF Standing
  <2> QED BY <2>1, <2>2, <2>3
<1>2. s[n].t = s[b].t
  BY <1>1
<1>3. Pcalls(s, n, s[b].t) \in Nat /\ x.baseC \in Int /\ x.nC \in Int
  BY <1>1, NumberType, LooseFields DEF Pcalls
<1>4. s[n].k \notin {"pcall", "errh"} => Pcalls(s, n, s[n].t) <= Calls(s, n, s[n].t)
  <2>1. Calls(s, n, s[n].t) \in Nat
    BY <1>1, NumberType DEF Calls
  <2>2. Pcalls(s, n, s[n].t) <= Calls(s, n, s[n].t) + (IF s[n].k \in {"pcall", "errh"} THEN 1 ELSE 0)
    BY <1>1 DEF Good
  <2> QED BY <2>1, <2>2
<1> QED BY <1>1, <1>2, <1>3, <1>4 DEF Started0

\* What a pushed record counts.
Recording(s, b, n, x, z, y) ==
  /\ z[n + 1].t = s[b].t /\ ~y.fresh
  /\ y.baseC = x.baseC + (IF z[n + 1].k = "pcall" THEN 1 ELSE 0)
  /\ y.nC >= x.nC + (IF s[n].k = "pcall" THEN 0 ELSE 1)
  /\ z[n + 1].k = "pcall" => z[n + 1].nC = x.nC

\* A frame with its record is added.
LEMMA LinkedRaise ==
  ASSUME NEW s, NEW b, NEW n, NEW x, NEW z, NEW y, NEW fr, Raising(s, b, n, x, z, y, fr),
         Linked(s, b, n, x), x.ci # <<>>, Follows(fr.f, Top(x.ci).f), Recording(s, b, n, x, z, y)
  PROVE  Linked(z, b, n + 1, y)
<1>1. Woven(z, b, n + 1, y)
  BY WovenRaise DEF Linked
<1>2. x \in LooseType /\ Above(x, y, fr) /\ y \in LooseType /\ Standing(s, b, n, x)
  BY DEF Raising, Standing, Above
<1>3. Shaped(y)
  BY <1>2, ShapedPush DEF Linked
<1> DEFINE base == Started0(s, b, n, x)
<1>4. /\ base \in Int /\ x.nC \in Int /\ y.nC \in Int /\ x.baseC \in Int /\ y.baseC \in Int
      /\ n \in Nat /\ b \in 1 .. n /\ s[n].t = s[b].t
      /\ s[n].k \notin {"pcall", "errh"} => Pcalls(s, n, s[b].t) <= Calls(s, n, s[b].t)
  BY <1>2, StandingCounts, LooseFields
<1>5. Saves(s, b, n, base) /\ Tops(s, b, n, base, x)
  BY DEF Linked, Stretched, Started0
<1>6. /\ z[n + 1].k \in {"call", "pcall"} /\ Agree(s, z, n)
      /\ s[n].k \in {"call", "resume"} \/ (s[n].k = "pcall" /\ z[n + 1].k = "call")
  BY DEF Raising
<1>7. Here(s, base, n) \in Int /\ Over(s, b, n) \in Int
  <2>1. Calls(s, n, s[n].t) \in Nat
    BY <1>4, NumberType DEF Calls
  <2> QED BY <2>1, <1>4 DEF Here, Over
<1>8. z[n + 1].k = "pcall" => z[n + 1].nC \in Int /\ z[n + 1].nC >= Here(s, base, n) + Over(s, b, n)
  BY <1>4, <1>5, <1>6, <1>7, SMTT(30) DEF Recording, Tops
<1>9. SavingOn(s, b, n, base, z)
  BY <1>4, <1>5, <1>6, <1>8 DEF SavingOn, Recording
<1> HIDE DEF base
<1>10. /\ Saves(z, b, n + 1, base)
       /\ Here(z, base, n + 1) = Here(s, base, n) + (IF z[n + 1].k = "call" THEN 1 ELSE 0)
       /\ Over(z, b, n + 1) = Over(s, b, n)
       /\ Pcalls(z, n + 1, s[b].t) = Pcalls(s, n, s[b].t) + (IF z[n + 1].k = "pcall" THEN 1 ELSE 0)
       /\ Pcalls(s, n, s[b].t) \in Nat /\ z[b] = s[b]
  BY <1>6, <1>9, SavesPush
<1>11. base = Started0(z, b, n + 1, y)
  <2>1. base = x.baseC - Pcalls(s, n, s[b].t)
    BY DEF base, Started0
  <2>2. y.baseC = x.baseC + (IF z[n + 1].k = "pcall" THEN 1 ELSE 0)
    BY DEF Recording
  <2> QED BY <2>1, <2>2, <1>4, <1>10 DEF Started0
<1>12. Tops(z, b, n + 1, base, y)
  <2>1. y.nC >= x.nC + (IF s[n].k = "pcall" THEN 0 ELSE 1)
    BY DEF Recording
  <2>2. x.nC >= Here(s, base, n) + Over(s, b, n) + (IF s[n].k = "pcall" THEN 1 ELSE 0)
    BY <1>5 DEF Tops
  <2>3. y.nC >= Here(z, base, n + 1) + Over(z, b, n + 1) + (IF z[n + 1].k = "pcall" THEN 1 ELSE 0)
    <3>1. x.nC \in Int /\ y.nC \in Int /\ Here(s, base, n) \in Int /\ Over(s, b, n) \in Int
      BY <1>4, <1>7
    <3>2. CASE z[n + 1].k = "pcall"
      <4>1. s[n].k # "pcall" /\ Here(z, base, n + 1) = Here(s, base, n) /\ Over(z, b, n + 1) = Over(s, b, n)
        BY <3>1, <3>2, <1>6, <1>10
      <4> QED BY <3>1, <3>2, <4>1, <2>1, <2>2
    <3>3. CASE z[n + 1].k = "call"
      <4>1. Here(z, base, n + 1) = Here(s, base, n) + 1 /\ Over(z, b, n + 1) = Over(s, b, n)
        BY <3>3, <1>10
      <4> QED BY <3>1, <3>3, <4>1, <2>1, <2>2
    <3> QED BY <3>2, <3>3, <1>6
  <2> QED BY <2>3 DEF Tops
<1>13. Stretched(z, b, n + 1, y)
  BY <1>10, <1>11, <1>12 DEF Stretched, Started0
<1>14. ~y.fresh
  BY DEF Recording
<1> QED BY <1>1, <1>3, <1>13, <1>14 DEF Linked

\* The error function of xpcall is called on top of what the error left.
LEMMA LinkedErrh ==
  ASSUME NEW s, NEW b, NEW n, NEW x, NEW c, NEW z, NEW y, Helping(s, b, n, x, c, z, y),
         Linked(s, b, n, x), x.ci # <<>>,
         z[c + 1].t = s[b].t, z[c + 2].t = s[b].t, ~y.fresh, y.baseC = x.baseC, y.nC >= x.nC + 1
  PROVE  Linked(z, b, c + 2, y)
<1>1. Woven(z, b, c + 2, y)
  BY WovenErrh DEF Linked
<1>2. x \in LooseType /\ Above(x, y, Frame("handler")) /\ y \in LooseType /\ Standing(s, b, n, x)
  BY DEF Helping, Standing, Above
<1>3. Shaped(y)
  <2>1. Follows(Frame("handler").f, Top(x.ci).f)
    BY DEF Follows, Frame
  <2> QED BY <2>1, <1>2, ShapedPush DEF Linked
<1> DEFINE base == Started0(s, b, n, x)
<1>4. /\ base \in Int /\ x.nC \in Int /\ y.nC \in Int /\ x.baseC \in Int /\ y.baseC \in Int
      /\ n \in Nat /\ b \in 1 .. n /\ s[n].t = s[b].t
  BY <1>2, StandingCounts, LooseFields
<1>5. Saves(s, b, n, base) /\ Tops(s, b, n, base, x)
  BY DEF Linked, Stretched, Started0
<1>6. /\ c \in b .. n /\ s[c].k = "pcall" /\ Agree(s, z, c) /\ z[c + 1].k = "errh" /\ z[c + 2].k = "call"
      /\ \A j \in c + 1 .. n : s[j].k = "call"
  BY DEF Helping
<1>7. c \in Nat /\ b \in 1 .. c /\ s[c].t = s[b].t /\ c <= n /\ c + 1 \in Nat /\ b \in 1 .. c + 1
      /\ (c + 1) + 1 = c + 2 /\ c \in 1 .. c
  <2>1. \A j \in b .. n : s[j].t = s[n].t
    BY <1>2, StandingFacts
  <2>2. b \in b .. n /\ c \in Nat /\ b \in 1 .. c /\ c <= n /\ c + 1 \in Nat /\ b \in 1 .. c + 1
        /\ (c + 1) + 1 = c + 2 /\ c \in 1 .. c
    BY <1>4, <1>6, SMTT(30)
  <2> QED BY <2>1, <2>2, <1>6
<1>8. Saves(s, b, c, base)
  <2>1. \A i \in b .. c : i \in b .. n
    BY <1>4, <1>7
  <2> QED BY <2>1, <1>5 DEF Saves
<1>9. SavingOn(s, b, c, base, z)
  BY <1>4, <1>6, <1>7, <1>8 DEF SavingOn
<1> HIDE DEF base
<1>10. /\ Saves(z, b, c + 1, base)
       /\ Here(z, base, c + 1) = Here(s, base, c)
       /\ Over(z, b, c + 1) = 1
       /\ Pcalls(z, c + 1, s[b].t) = Pcalls(s, c, s[b].t)
       /\ Pcalls(s, c, s[b].t) \in Nat /\ z[b] = s[b] /\ Here(s, base, c) \in Int
  <2>1. /\ Here(z, base, c + 1) = Here(s, base, c) + (IF z[c + 1].k = "call" THEN 1 ELSE 0)
        /\ Over(z, b, c + 1) = IF z[c + 1].k = "errh" THEN 1 ELSE Over(s, b, c)
        /\ Pcalls(z, c + 1, s[b].t) = Pcalls(s, c, s[b].t) + (IF z[c + 1].k = "pcall" THEN 1 ELSE 0)
        /\ Saves(z, b, c + 1, base) /\ Here(s, base, c) \in Int
        /\ Pcalls(s, c, s[b].t) \in Nat /\ z[b] = s[b]
    BY <1>9, SavesPush
  <2> QED BY <2>1, <1>6
<1>11. SavingOn(z, b, c + 1, base, z)
  <2>1. Agree(z, z, c + 1)
    BY DEF Agree
  <2> QED BY <2>1, <1>4, <1>6, <1>7, <1>10 DEF SavingOn
<1>12. /\ Saves(z, b, c + 2, base)
       /\ Here(z, base, c + 2) = Here(s, base, c) + 1
       /\ Over(z, b, c + 2) = 1
       /\ Pcalls(z, c + 2, s[b].t) = Pcalls(s, c, s[b].t)
  <2>1. /\ Here(z, base, (c + 1) + 1) = Here(z, base, c + 1) + (IF z[(c + 1) + 1].k = "call" THEN 1 ELSE 0)
        /\ Over(z, b, (c + 1) + 1) = IF z[(c + 1) + 1].k = "errh" THEN 1 ELSE Over(z, b, c + 1)
        /\ Pcalls(z, (c + 1) + 1, z[b].t) = Pcalls(z, c + 1, z[b].t) + (IF z[(c + 1) + 1].k = "pcall" THEN 1 ELSE 0)
        /\ Saves(z, b, (c + 1) + 1, base)
    BY <1>11, SavesPush
  <2> QED BY <2>1, <1>6, <1>7, <1>10
<1>13. Pcalls(s, n, s[b].t) = Pcalls(s, c, s[b].t)
  <2> SUFFICES ASSUME NEW u PROVE Pcalls(s, n, u) = Pcalls(s, c, u)
    OBVIOUS
  <2>1. \A i \in c + 1 .. n : ~(s[i].t \in {u} /\ s[i].k \in {"pcall"})
    BY <1>6
  <2>2. c \in Nat /\ n \in Nat /\ c <= n
    BY <1>4, <1>7
  <2> QED BY <2>1, <2>2, NumberFlat DEF Pcalls
<1>14. base = Started0(z, b, c + 2, y)
  <2>1. base = x.baseC - Pcalls(s, n, s[b].t)
    BY DEF base, Started0
  <2> QED BY <2>1, <1>10, <1>12, <1>13 DEF Started0
<1>15. x.nC >= Here(s, base, c) + 1
  <2>1. x.nC >= Here(s, base, n) + Over(s, b, n) + (IF s[n].k = "pcall" THEN 1 ELSE 0)
    BY <1>5 DEF Tops
  <2>2. Calls(s, n, s[b].t) \in Nat /\ Calls(s, c, s[b].t) \in Nat
    BY <1>4, <1>7, NumberType DEF Calls
  <2>3. Here(s, base, n) = base + Calls(s, n, s[b].t) /\ Here(s, base, c) = base + Calls(s, c, s[b].t)
    BY <1>4, <1>7 DEF Here
  <2>4. CASE c = n
    BY <2>1, <2>2, <2>3, <2>4, <1>4, <1>6 DEF Over, base
  <2>5. CASE c # n
    <3>1. c + 1 \in c + 1 .. n /\ c + 1 <= n /\ c + 1 \in b .. n
      BY <2>5, <1>4, <1>7, <1>6
    <3>2. s[c + 1].k = "call" /\ s[c + 1].t = s[b].t
      <4>1. \A j \in b .. n : s[j].t = s[n].t
        BY <1>2, StandingFacts
      <4> QED BY <4>1, <3>1, <1>4, <1>6
    <3>3. Calls(s, c + 1, s[b].t) = Calls(s, c, s[b].t) + 1
      BY <3>2, <1>7, StepCounts
    <3>4. Calls(s, c + 1, s[b].t) <= Calls(s, n, s[b].t)
      BY <3>1, <1>4, <1>7, NumberGrows DEF Calls
    <3>5. base \in Int
      BY <1>4 DEF base
    <3>6. Over(s, b, n) >= 0 /\ Over(s, b, n) \in Int
      BY DEF Over
    <3> QED BY <2>1, <2>2, <2>3, <3>3, <3>4, <3>5, <3>6, <1>4, SMTT(30)
  <2> QED BY <2>4, <2>5
<1>16. Tops(z, b, c + 2, base, y)
  <2>1. y.nC >= Here(z, base, c + 2) + Over(z, b, c + 2) + (IF z[c + 2].k = "pcall" THEN 1 ELSE 0)
    BY <1>4, <1>6, <1>10, <1>12, <1>15, SMTT(30)
  <2> QED BY <2>1 DEF Tops
<1>17. Stretched(z, b, c + 2, y)
  BY <1>12, <1>14, <1>16 DEF Stretched, Started0
<1> QED BY <1>1, <1>3, <1>17 DEF Linked

\* resume_handle calls it, with the counters that lua_resume started with.
LEMMA LinkedCont ==
  ASSUME NEW s, NEW b, NEW n, NEW x, NEW i, NEW z, NEW y, Going(s, b, n, x, i, z, y),
         Linked(s, b, n, x), z[b + 1].t = s[b].t, z[b + 2].t = s[b].t, ~y.fresh,
         z[b + 1].nC = x.baseC, y.baseC = x.baseC, y.nC >= x.baseC + 1
  PROVE  Linked(z, b, b + 2, y)
<1>1. Woven(z, b, b + 2, y)
  BY WovenCont DEF Linked
<1>2. /\ x \in LooseType /\ y \in LooseType /\ Standing(s, b, n, x) /\ Agree(s, z, b)
      /\ z[b + 1].k = "cont" /\ z[b + 2].k = "call" /\ \A j \in b + 1 .. n : s[j].k = "call"
  BY DEF Going, Standing
<1>3. Shaped(y)
  <2> DEFINE h == Len(x.ci)
  <2>1. /\ h \in Nat /\ Len(y.ci) = h + 1 /\ y.ci[h + 1].f = "handler" /\ i \in 1 .. h
        /\ y.ci[i].f = x.ci[i].f /\ \A k \in 1 .. h : k # i => y.ci[k] = x.ci[k]
    BY <1>2, LooseFields DEF Going, Frame
  <2>2. \A k \in 1 .. h : y.ci[k].f = x.ci[k].f
    BY <2>1
  <2>3. \A g : Follows("handler", g)
    BY DEF Follows
  <2>4. ASSUME NEW k \in 1 .. h + 1
        PROVE  IF k = 1 THEN y.ci[k].f = "body" ELSE Follows(y.ci[k].f, y.ci[k - 1].f)
    <3>1. CASE k = h + 1
      <4>1. k # 1
        BY <3>1, <2>1
      <4> QED BY <3>1, <4>1, <2>1, <2>3
    <3>2. CASE k # h + 1
      <4>1. k \in 1 .. h /\ (k # 1 => k - 1 \in 1 .. h)
        BY <3>2, <2>1
      <4>2. IF k = 1 THEN x.ci[k].f = "body" ELSE Follows(x.ci[k].f, x.ci[k - 1].f)
        BY <4>1 DEF Linked, Shaped
      <4>3. y.ci[k].f = x.ci[k].f /\ (k # 1 => y.ci[k - 1].f = x.ci[k - 1].f)
        BY <4>1, <2>2
      <4> QED BY <4>2, <4>3
    <3> QED BY <3>1, <3>2
  <2> QED BY <2>1, <2>4 DEF Shaped
<1> DEFINE base == Started0(s, b, n, x)
<1>4. /\ base \in Int /\ x.baseC \in Int /\ y.nC \in Int /\ n \in Nat /\ b \in 1 .. n
      /\ s[b].k = "resume"
  BY <1>2, StandingCounts, StandingFacts, LooseFields
<1>5. Saves(s, b, n, base)
  BY DEF Linked, Stretched, Started0
<1>6. b \in Nat /\ b \in 1 .. b /\ b \in b .. n /\ b + 1 \in Nat /\ b \in 1 .. b + 1 /\ b <= n
      /\ (b + 1) + 1 = b + 2 /\ \A i0 \in b .. b : i0 \in b .. n
  BY <1>4
<1>7. Saves(s, b, b, base)
  BY <1>5, <1>6 DEF Saves
<1>8. Pcalls(s, n, s[b].t) = Pcalls(s, b, s[b].t)
  <2> SUFFICES ASSUME NEW u PROVE Pcalls(s, n, u) = Pcalls(s, b, u)
    OBVIOUS
  <2>1. \A k \in b + 1 .. n : ~(s[k].t \in {u} /\ s[k].k \in {"pcall"})
    BY <1>2
  <2>2. b \in Nat /\ n \in Nat /\ b <= n
    BY <1>4, <1>6
  <2> QED BY <2>1, <2>2, NumberFlat DEF Pcalls
<1>9. /\ Pcalls(s, b, s[b].t) = 0 /\ Calls(s, b, s[b].t) = 0
  <2>1. Good(s, b)
    BY <1>2, <1>4 DEF Standing
  <2>2. \A j \in 1 .. b - 1 : s[j].t # s[b].t
    BY <2>1, <1>4 DEF Good
  <2>3. \A j \in 1 .. b : j = b \/ j \in 1 .. b - 1
    BY <1>6
  <2>4. \A j \in 1 .. b : /\ ~(s[j].t \in {s[b].t} /\ s[j].k \in {"pcall"})
                          /\ ~(s[j].t \in {s[b].t} /\ s[j].k \in {"call"})
    BY <2>2, <2>3, <1>4
  <2> SUFFICES ASSUME NEW u, u = s[b].t PROVE Pcalls(s, b, u) = 0 /\ Calls(s, b, u) = 0
    OBVIOUS
  <2>5. \A j \in 1 .. b : ~(s[j].t \in {u} /\ s[j].k \in {"pcall"})
    BY <2>4
  <2>6. \A j \in 1 .. b : ~(s[j].t \in {u} /\ s[j].k \in {"call"})
    BY <2>4
  <2> QED BY <2>5, <2>6, <1>6, NumberZero DEF Pcalls, Calls
<1>10. base = x.baseC
  BY <1>4, <1>8, <1>9 DEF Started0
<1>11. Here(s, base, b) = base /\ Over(s, b, b) = 0 /\ ~Strange(s, b, b)
  <2>1. \A j \in b .. b : s[j].k # "errh"
    BY <1>4, <1>6
  <2>2. \A j \in b + 1 .. b : FALSE
    BY <1>6
  <2> QED BY <2>1, <2>2, <1>4, <1>9 DEF Here, Over, Strange
<1>12. SavingOn(s, b, b, base, z)
  <2>1. z[b + 1].nC \in Int /\ z[b + 1].nC >= Here(s, base, b) + Over(s, b, b)
    BY <1>4, <1>10, <1>11
  <2> QED BY <2>1, <1>2, <1>4, <1>6, <1>7, <1>11 DEF SavingOn
<1> HIDE DEF base
<1>13. /\ Saves(z, b, b + 1, base)
       /\ Here(z, base, b + 1) = base /\ Over(z, b, b + 1) = 0
       /\ Pcalls(z, b + 1, s[b].t) = 0 /\ z[b] = s[b]
  <2>1. /\ Here(z, base, b + 1) = Here(s, base, b) + (IF z[b + 1].k = "call" THEN 1 ELSE 0)
        /\ Over(z, b, b + 1) = IF z[b + 1].k = "errh" THEN 1 ELSE Over(s, b, b)
        /\ Pcalls(z, b + 1, s[b].t) = Pcalls(s, b, s[b].t) + (IF z[b + 1].k = "pcall" THEN 1 ELSE 0)
        /\ Saves(z, b, b + 1, base) /\ z[b] = s[b]
    BY <1>12, SavesPush
  <2>2. base \in Int /\ z[b + 1].k = "cont"
    BY <1>2, <1>4
  <2> QED BY <2>1, <2>2, <1>9, <1>11
<1>14. SavingOn(z, b, b + 1, base, z)
  <2>1. Agree(z, z, b + 1)
    BY DEF Agree
  <2>2. Pcalls(z, b + 1, z[b].t) <= Calls(z, b + 1, z[b].t)
    <3>1. Calls(z, b + 1, z[b].t) \in Nat
      BY <1>6, NumberType DEF Calls
    <3> QED BY <3>1, <1>13
  <2> QED BY <2>1, <2>2, <1>2, <1>4, <1>6, <1>13 DEF SavingOn
<1>15. /\ Saves(z, b, b + 2, base)
       /\ Here(z, base, b + 2) = base + 1 /\ Over(z, b, b + 2) = 0
       /\ Pcalls(z, b + 2, s[b].t) = 0
  <2>1. /\ Here(z, base, (b + 1) + 1) = Here(z, base, b + 1) + (IF z[(b + 1) + 1].k = "call" THEN 1 ELSE 0)
        /\ Over(z, b, (b + 1) + 1) = IF z[(b + 1) + 1].k = "errh" THEN 1 ELSE Over(z, b, b + 1)
        /\ Pcalls(z, (b + 1) + 1, z[b].t) = Pcalls(z, b + 1, z[b].t) + (IF z[(b + 1) + 1].k = "pcall" THEN 1 ELSE 0)
        /\ Saves(z, b, (b + 1) + 1, base)
    BY <1>14, SavesPush
  <2> QED BY <2>1, <1>2, <1>6, <1>13
<1>16. base = Started0(z, b, b + 2, y)
  BY <1>4, <1>10, <1>13, <1>15 DEF Started0
<1>17. Tops(z, b, b + 2, base, y)
  <2>1. y.nC >= Here(z, base, b + 2) + Over(z, b, b + 2) + (IF z[b + 2].k = "pcall" THEN 1 ELSE 0)
    BY <1>2, <1>4, <1>10, <1>15
  <2> QED BY <2>1 DEF Tops
<1>18. Stretched(z, b, b + 2, y)
  BY <1>15, <1>16, <1>17 DEF Stretched, Started0
<1> QED BY <1>1, <1>3, <1>18 DEF Linked

\* lua_resume starts a segment, with the frames that a coroutine starts or was
\* left with.
Starting(z, b, y) ==
  /\ b \in Nat \ {0} /\ z[b].k = "resume" /\ (\A j \in 1 .. b - 1 : z[j].t # z[b].t)
  /\ y \in LooseType /\ Shaped(y) /\ ~y.fresh /\ y.nC = y.baseC
  /\ \A k \in 1 .. Len(y.ci) : /\ y.ci[k].f \notin {"tm", "handler"}
                               /\ y.ci[k].f \in Ends => k = Len(y.ci)
                               /\ y.ci[k].handle <=> y.ci[k].f \in Guards

\* Its frames need no record.
LEMMA LinkedStart ==
  ASSUME NEW z, NEW b, NEW y, Starting(z, b, y)
  PROVE  Linked(z, b, b, y)
<1>1. /\ b \in Nat /\ 1 <= b /\ z[b].k = "resume" /\ (\A j \in 1 .. b - 1 : z[j].t # z[b].t)
      /\ y \in LooseType /\ Shaped(y) /\ ~y.fresh /\ y.nC = y.baseC
      /\ y.nC \in Int /\ y.ci \in Seq(FrameType) /\ Len(y.ci) \in Nat
  BY LooseFields DEF Starting
<1>2. \A j \in b .. b : j = b
  BY <1>1
<1>3. b \in b .. b /\ \A j \in b + 1 .. b : FALSE
  BY <1>1
<1>4. Owner(z, y, b) /\ Ran(z, b, y, b)
  <2>1. Owner(z, y, b)
    BY <1>1 DEF Owner
  <2>2. Pos(z[b]) = 0 /\ Upto(z, b, y, b) = Len(y.ci)
    BY <1>1 DEF Pos, Upto
  <2>3. ASSUME NEW k \in 1 .. Len(y.ci)
        PROVE  \/ y.ci[k].f = "lua"
               \/ y.ci[k].f \in Guards \cup {"body"}
               \/ k = Len(y.ci) /\ y.ci[k].f \in Ends
    <3>1. y.ci[k] \in FrameType
      BY <1>1
    <3>2. y.ci[k].f \in FrameKinds
      BY <3>1 DEF FrameType
    <3>3. y.ci[k].f \notin {"tm", "handler"} /\ (y.ci[k].f \in Ends => k = Len(y.ci))
      BY DEF Starting
    <3> QED BY <3>2, <3>3 DEF FrameKinds, Guards, Ends
  <2>4. Pos(z[b]) + 1 = 1
    BY <2>2
  <2> QED BY <2>1, <2>2, <2>3, <2>4, <1>1 DEF Ran
<1>5. ASSUME NEW k \in 1 .. Len(y.ci) PROVE Placed(z, b, b, y, k)
  <2>1. /\ y.ci[k].f # "tm" /\ y.ci[k].f # "handler"
        /\ y.ci[k].handle <=> y.ci[k].f \in Guards
    BY DEF Starting
  <2>2. \A j \in b .. b : z[j].k \notin {"call", "pcall", "cont"}
    BY <1>1, <1>2
  <2> QED BY <2>1, <2>2 DEF Placed
<1>6. Woven(z, b, b, y)
  BY <1>2, <1>4, <1>5 DEF Woven
<1>7. \A u : u = z[b].t => Pcalls(z, b, u) = 0 /\ Calls(z, b, u) = 0
  <2> SUFFICES ASSUME NEW u, u = z[b].t PROVE Pcalls(z, b, u) = 0 /\ Calls(z, b, u) = 0
    OBVIOUS
  <2>1. \A j \in 1 .. b : j = b \/ j \in 1 .. b - 1
    BY <1>1
  <2>2. \A j \in 1 .. b : ~(z[j].t \in {u} /\ z[j].k \in {"pcall"})
    BY <2>1, <1>1
  <2>3. \A j \in 1 .. b : ~(z[j].t \in {u} /\ z[j].k \in {"call"})
    BY <2>1, <1>1
  <2> QED BY <2>2, <2>3, <1>1, NumberZero DEF Pcalls, Calls
<1>8. Here(z, y.baseC, b) = y.baseC /\ Over(z, b, b) = 0 /\ ~Strange(z, b, b)
      /\ y.baseC - Pcalls(z, b, z[b].t) = y.baseC
  BY <1>1, <1>2, <1>3, <1>7 DEF Here, Over, Strange
<1>9. Saves(z, b, b, y.baseC) /\ Tops(z, b, b, y.baseC, y)
  BY <1>1, <1>2, <1>8 DEF Saves, Tops
<1>10. Stretched(z, b, b, y)
  BY <1>8, <1>9 DEF Stretched
<1> QED BY <1>1, <1>6, <1>10 DEF Linked

\* The limit is met: only the counter is raised.
LEMMA LinkedCounted ==
  ASSUME NEW s, NEW b, NEW n, NEW x, NEW y, Standing(s, b, n, x), Linked(s, b, n, x),
         y \in LooseType, y.ci = x.ci, y.baseC = x.baseC, y.nC >= x.nC, ~y.fresh
  PROVE  Linked(s, b, n, y)
<1>1. Woven(s, b, n, x) /\ Shaped(x) /\ Stretched(s, b, n, x)
  BY DEF Linked
<1>2. Woven(s, b, n, y)
  <2>1. \A j \in b .. n : Owner(s, x, j) <=> Owner(s, y, j)
    BY DEF Owner
  <2>2. \A j : Upto(s, n, x, j) = Upto(s, n, y, j)
    BY DEF Upto
  <2>3. \A j \in b .. n : Ran(s, n, x, j) <=> Ran(s, n, y, j)
    BY <2>2 DEF Ran
  <2>4. \A k : Placed(s, b, n, x, k) <=> Placed(s, b, n, y, k)
    BY DEF Placed
  <2> QED BY <2>1, <2>3, <2>4, <1>1 DEF Woven
<1>3. Shaped(y)
  BY <1>1 DEF Shaped
<1>4. Stretched(s, b, n, y)
  <2>1. Tops(s, b, n, Started0(s, b, n, x), x) /\ Saves(s, b, n, Started0(s, b, n, x))
    BY <1>1 DEF Stretched, Started0
  <2>2. Started0(s, b, n, y) = Started0(s, b, n, x)
    BY DEF Started0
  <2>3. Here(s, Started0(s, b, n, x), n) \in Int /\ Over(s, b, n) \in Int /\ x.nC \in Int /\ y.nC \in Int
    <3>1. Started0(s, b, n, x) \in Int /\ x.nC \in Int /\ n \in Nat
      BY StandingCounts
    <3>2. Calls(s, n, s[n].t) \in Nat
      BY <3>1, NumberType DEF Calls
    <3> QED BY <3>1, <3>2, LooseFields DEF Here, Over
  <2>4. Tops(s, b, n, Started0(s, b, n, x), y)
    BY <2>1, <2>3 DEF Tops
  <2> QED BY <2>1, <2>2, <2>4 DEF Stretched, Started0
<1> QED BY <1>2, <1>3, <1>4 DEF Linked

-----------------------------------------------------------------------------
(* The other threads. *)

Stacked(s, T) == s \in Seq(RecordType) /\ T \in [Threads -> LooseType] /\ Rest(s, T)

\* A segment stands on the frames of its thread.
LEMMA SegmentStands ==
  ASSUME NEW s, NEW T, Stacked(s, T), NEW n \in 1 .. Len(s), NEW b, Segment(s, b, n)
  PROVE  /\ Standing(s, b, n, T[s[n].t]) /\ s[n].t \in Threads
         /\ \A i \in 1 .. n : Good(s, i)
<1>1. Len(s) \in Nat /\ \A i \in 1 .. n : i \in 1 .. Len(s)
  BY DEF Stacked
<1>2. \A i \in 1 .. n : Record(s, T, i)
  BY <1>1 DEF Stacked, Rest
<1>3. s[n] \in RecordType /\ n \in 1 .. n
  BY DEF Stacked
<1>4. s[n].t \in Threads
  BY <1>3, RecordFields
<1>5. FrameAt(s, T[s[n].t], n) /\ \A i \in 1 .. n : Good(s, i)
  BY <1>2, <1>3 DEF Record
<1> QED BY <1>4, <1>5 DEF Standing, Stacked, FrameAt

\* A lower segment is as it was.
LEMMA LowerLinked ==
  ASSUME NEW s, NEW T, Stacked(s, T), Links(s, T), NEW n \in 1 .. Len(s), NEW b \in 1 .. n,
         Ending(s, b, n), NEW z, Agree(s, z, n)
  PROVE  /\ Linked(z, b, n, T[s[n].t]) /\ Linked(s, b, n, T[s[n].t])
         /\ n < Len(s) => Top(T[s[n].t].ci).f \in {"resume", "wrap"}
<1>1. Linked(s, b, n, T[s[n].t]) /\ (n < Len(s) => Top(T[s[n].t].ci).f \in {"resume", "wrap"})
  BY DEF Links
<1>2. Standing(s, b, n, T[s[n].t])
  BY SegmentStands DEF Ending
<1>3. Linked(z, b, n, T[s[n].t])
  BY <1>1, <1>2, LinkedLocal
<1> QED BY <1>1, <1>3

\* A step of the thread that runs: its last segment becomes one of z.
Moving(s, T, b, t, z, T2) ==
  /\ Stacked(s, T) /\ Links(s, T) /\ s # <<>> /\ Segment(s, b, Len(s)) /\ t = s[Len(s)].t
  /\ z \in Seq(RecordType) /\ z # <<>> /\ Agree(s, z, b) /\ Segment(z, b, Len(z))
  /\ Linked(z, b, Len(z), T2[t])
  /\ \A u \in Threads \ {t} : IF OnStack(s, u) THEN T2[u] = T[u] ELSE Resting(T2[u])

\* All threads stay linked over such a step.
LEMMA MovingLinks ==
  ASSUME NEW s, NEW T, NEW b, NEW t, NEW z, NEW T2, Moving(s, T, b, t, z, T2)
  PROVE  Links(z, T2)
<1>1. /\ Stacked(s, T) /\ Links(s, T) /\ Segment(s, b, Len(s)) /\ t = s[Len(s)].t
      /\ Agree(s, z, b) /\ Segment(z, b, Len(z)) /\ Linked(z, b, Len(z), T2[t])
      /\ Len(s) \in Nat \ {0} /\ Len(z) \in Nat \ {0} /\ Len(s) \in 1 .. Len(s) /\ Len(z) \in 1 .. Len(z)
  <2>1. /\ Stacked(s, T) /\ Links(s, T) /\ Segment(s, b, Len(s)) /\ t = s[Len(s)].t
        /\ Agree(s, z, b) /\ Segment(z, b, Len(z)) /\ Linked(z, b, Len(z), T2[t])
        /\ s \in Seq(RecordType) /\ z \in Seq(RecordType) /\ s # <<>> /\ z # <<>>
    BY DEF Moving, Stacked
  <2>2. Len(s) \in Nat \ {0} /\ Len(z) \in Nat \ {0}
    BY <2>1
  <2>3. Len(s) \in 1 .. Len(s) /\ Len(z) \in 1 .. Len(z)
    BY <2>2
  <2> QED BY <2>1, <2>2, <2>3
<1>2. /\ b \in Nat /\ 1 <= b /\ b <= Len(s) /\ b <= Len(z)
      /\ \A j \in 1 .. b : s[j] = z[j]
      /\ \A j \in b .. Len(s) : s[j].t = t
      /\ z[b].k = "resume" /\ \A j \in b .. Len(z) : z[j].t = z[Len(z)].t /\ (j # b => z[j].k # "resume")
      /\ s[b].k = "resume" /\ \A j \in b .. Len(s) : j # b => s[j].k # "resume"
  BY <1>1 DEF Segment, Agree
<1>3. s[b] = z[b] /\ s[b].t = t /\ z[Len(z)].t = t /\ b \in 1 .. b
  <2>1. b \in 1 .. b /\ b \in b .. Len(s) /\ b \in b .. Len(z)
    BY <1>1, <1>2
  <2>2. s[b] = z[b] /\ s[b].t = t /\ z[b].t = z[Len(z)].t
    BY <2>1, <1>2
  <2> QED BY <2>1, <2>2
<1>4. \A j \in 1 .. b - 1 : s[j].t # t
  <2>1. Good(s, b)
    <3>1. \A i \in 1 .. Len(s) : Good(s, i)
      BY <1>1, SegmentStands
    <3>2. b \in 1 .. Len(s)
      BY <1>1, <1>2
    <3> QED BY <3>1, <3>2
  <2> QED BY <2>1, <1>2, <1>3 DEF Good
<1>5. ASSUME NEW n \in 1 .. Len(z), NEW d \in 1 .. n, Ending(z, d, n)
      PROVE  /\ Linked(z, d, n, T2[z[n].t])
             /\ n < Len(z) => Top(T2[z[n].t].ci).f \in {"resume", "wrap"}
  <2>1. Segment(z, d, n) /\ IsLast(z, n)
    BY <1>5 DEF Ending
  <2>2. z[d].k = "resume" /\ \A j \in d .. n : z[j].t = z[n].t /\ (j # d => z[j].k # "resume")
    BY <2>1 DEF Segment
  <2>3. CASE n = Len(z)
    <3>1. d = b
      <4>1. CASE d < b
        <5>1. b \in d .. n /\ b # d
          BY <4>1, <2>3, <1>2, <1>5
        <5> QED BY <5>1, <2>2, <1>2
      <4>2. CASE d > b
        <5>1. d \in b .. Len(z) /\ d # b
          BY <4>2, <2>3, <1>2, <1>5
        <5> QED BY <5>1, <2>2, <1>2
      <4> QED BY <4>1, <4>2, <1>2, <1>5
    <3> QED BY <2>3, <3>1, <1>1, <1>3
  <2>4. CASE n # Len(z)
    <3>1. n + 1 \in 1 .. Len(z) /\ z[n + 1].k = "resume"
      BY <2>1, <2>4, <1>1, <1>5 DEF IsLast
    <3>2. n + 1 <= b
      <4>1. CASE n + 1 > b
        <5>1. n + 1 \in b .. Len(z) /\ n + 1 # b
          BY <4>1, <3>1, <1>2
        <5> QED BY <5>1, <3>1, <1>2
      <4> QED BY <4>1, <1>2, <1>5
    <3>3. n \in 1 .. b - 1 /\ n \in 1 .. Len(s) /\ n < Len(s) /\ n \in 1 .. b /\ n + 1 \in 1 .. b
          /\ \A j \in 1 .. n : j \in 1 .. b
      BY <3>2, <1>1, <1>2, <1>5
    <3>4. Agree(s, z, n) /\ Agree(z, s, n) /\ s[n + 1] = z[n + 1] /\ s[n] = z[n]
      BY <3>3, <1>2 DEF Agree
    <3>5. Segment(s, d, n)
      <4>1. n \in Nat
        BY <1>5
      <4> QED BY <4>1, <2>1, <3>4, LocalSegment
    <3>6. Ending(s, d, n)
      BY <3>1, <3>4, <3>5 DEF Ending, IsLast
    <3>7. Linked(z, d, n, T[s[n].t]) /\ Top(T[s[n].t].ci).f \in {"resume", "wrap"}
      BY <3>3, <3>4, <3>6, <1>1, LowerLinked
    <3>8. T2[z[n].t] = T[s[n].t]
      <4>1. s[n].t # t /\ OnStack(s, s[n].t) /\ s[n].t \in Threads
        <5>1. s[n].t \in Threads
          BY <3>3, <3>5, <1>1, SegmentStands
        <5> QED BY <5>1, <3>3, <1>4 DEF OnStack
      <4> QED BY <4>1, <3>4 DEF Moving
    <3> QED BY <3>7, <3>8
  <2> QED BY <2>3, <2>4
<1>6. ASSUME NEW u \in Threads, ~OnStack(z, u) PROVE Resting(T2[u])
  <2>1. u # t
    BY <1>1, <1>3, <1>6 DEF OnStack
  <2>2. ~OnStack(s, u)
    <3> SUFFICES ASSUME NEW i \in 1 .. Len(s), s[i].t = u PROVE FALSE
      BY DEF OnStack
    <3>1. i \notin b .. Len(s)
      BY <2>1, <1>2
    <3>2. i \in 1 .. b /\ i \in 1 .. Len(z)
      BY <3>1, <1>1, <1>2
    <3> QED BY <3>2, <1>2, <1>6 DEF OnStack
  <2> QED BY <2>1, <2>2 DEF Moving
<1> QED BY <1>5, <1>6 DEF Links

\* s and z agree on record n and on the one above it.
LEMMA LowerKept ==
  ASSUME NEW s, NEW T, Stacked(s, T), Links(s, T), NEW z, NEW n \in Nat \ {0}, n + 1 <= Len(s),
         Agree(s, z, n + 1), n # Len(z), NEW d \in 1 .. n, Ending(z, d, n),
         NEW T2, T2[s[n].t] = T[s[n].t]
  PROVE  Linked(z, d, n, T2[z[n].t]) /\ Top(T2[z[n].t].ci).f \in {"resume", "wrap"}
<1>1. n \in 1 .. Len(s) /\ n + 1 \in 1 .. n + 1 /\ n \in 1 .. n + 1 /\ n # Len(s) /\ n < Len(s)
      /\ \A j \in 1 .. n : j \in 1 .. n + 1
  BY DEF Stacked
<1>2. Agree(s, z, n) /\ Agree(z, s, n) /\ s[n + 1] = z[n + 1] /\ s[n] = z[n]
  BY <1>1 DEF Agree
<1>3. Segment(s, d, n)
  <2>1. Segment(z, d, n)
    BY DEF Ending
  <2> QED BY <2>1, <1>2, LocalSegment
<1>4. Ending(s, d, n)
  BY <1>1, <1>2, <1>3 DEF Ending, IsLast
<1>5. Linked(z, d, n, T[s[n].t]) /\ Top(T[s[n].t].ci).f \in {"resume", "wrap"}
  BY <1>1, <1>2, <1>4, LowerLinked
<1> QED BY <1>2, <1>5

\* lua_resume of co: the thread that ran waits with the frame of resume on top.
Entering(s, T, co, z, T2) ==
  /\ Stacked(s, T) /\ Links(s, T) /\ z \in Seq(RecordType) /\ Len(z) = Len(s) + 1
  /\ Agree(s, z, Len(s)) /\ z[Len(z)].k = "resume" /\ z[Len(z)].t = co /\ co \in Threads
  /\ ~OnStack(s, co)
  /\ Linked(z, Len(z), Len(z), T2[co])
  /\ s # <<>> => /\ Top(T2[s[Len(s)].t].ci).f \in {"resume", "wrap"}
                 /\ \A b \in 1 .. Len(s) : Segment(s, b, Len(s)) => Linked(s, b, Len(s), T2[s[Len(s)].t])
  /\ \A u \in Threads \ {co} : (s # <<>> /\ u = s[Len(s)].t) \/ T2[u] = T[u]

\* All threads stay linked when one is entered.
LEMMA EnteringLinks ==
  ASSUME NEW s, NEW T, NEW co, NEW z, NEW T2, Entering(s, T, co, z, T2),
         \A n \in 1 .. Len(s), b \in 1 .. Len(s) :
            Segment(s, b, n) => Standing(s, b, n, T2[s[n].t])
  PROVE  Links(z, T2)
<1>1. /\ Stacked(s, T) /\ Links(s, T) /\ Len(z) = Len(s) + 1 /\ Agree(s, z, Len(s))
      /\ z[Len(z)].k = "resume" /\ z[Len(z)].t = co /\ co \in Threads /\ ~OnStack(s, co)
      /\ Linked(z, Len(z), Len(z), T2[co]) /\ Len(s) \in Nat
  <2>1. /\ Stacked(s, T) /\ Links(s, T) /\ Len(z) = Len(s) + 1 /\ Agree(s, z, Len(s))
        /\ z[Len(z)].k = "resume" /\ z[Len(z)].t = co /\ co \in Threads /\ ~OnStack(s, co)
        /\ Linked(z, Len(z), Len(z), T2[co]) /\ s \in Seq(RecordType)
    BY DEF Entering, Stacked
  <2> QED BY <2>1
<1>2. ASSUME NEW n \in 1 .. Len(z), NEW d \in 1 .. n, Ending(z, d, n)
      PROVE  /\ Linked(z, d, n, T2[z[n].t])
             /\ n < Len(z) => Top(T2[z[n].t].ci).f \in {"resume", "wrap"}
  <2>1. Segment(z, d, n) /\ IsLast(z, n)
    BY <1>2 DEF Ending
  <2>2. CASE n = Len(z)
    <3>1. d = n
      <4>1. \A j \in d .. n : j # d => z[j].k # "resume"
        BY <2>1 DEF Segment
      <4>2. n \in d .. n
        BY <1>2
      <4> QED BY <4>1, <4>2, <2>2, <1>1
    <3> QED BY <2>2, <3>1, <1>1
  <2>3. CASE n # Len(z)
    <3>1. n \in 1 .. Len(s) /\ n \in Nat \ {0} /\ n <= Len(s) /\ d \in 1 .. Len(s)
          /\ \A j \in 1 .. n : j \in 1 .. Len(s)
      BY <2>3, <1>1, <1>2
    <3>2. z[n] = s[n] /\ Agree(z, s, n) /\ Agree(s, z, n)
      BY <3>1, <1>1 DEF Agree
    <3>3. Segment(s, d, n)
      BY <3>1, <3>2, <2>1, LocalSegment
    <3>4. s[n].t # co /\ s[n].t \in Threads /\ OnStack(s, s[n].t)
      <4>1. s[n].t \in Threads
        BY <3>1, <3>3, <1>1, SegmentStands
      <4> QED BY <4>1, <3>1, <1>1 DEF OnStack
    <3>5. CASE n = Len(s)
      <4>1. s # <<>>
        BY <3>1
      <4>2. Linked(s, d, n, T2[s[n].t]) /\ Top(T2[s[n].t].ci).f \in {"resume", "wrap"}
        BY <4>1, <3>1, <3>3, <3>5 DEF Entering
      <4>3. Standing(s, d, n, T2[s[n].t])
        BY <3>1, <3>3
      <4>4. Linked(z, d, n, T2[s[n].t])
        BY <4>2, <4>3, <3>2, LinkedLocal
      <4> QED BY <4>2, <4>4, <3>2
    <3>6. CASE n # Len(s)
      <4>1. n + 1 <= Len(s) /\ \A j \in 1 .. n + 1 : j \in 1 .. Len(s)
        BY <3>1, <3>6, <1>1
      <4>2. Agree(s, z, n + 1)
        BY <4>1, <1>1 DEF Agree
      <4>3. z[n + 1].k = "resume" /\ s[n + 1] = z[n + 1]
        <5>1. n + 1 \in 1 .. n + 1
          BY <3>1
        <5> QED BY <5>1, <4>2, <2>1, <2>3 DEF IsLast, Agree
      <4>4. s[n].t # s[Len(s)].t
        <5>1. IsLast(s, n) /\ n < Len(s) /\ Len(s) \in 1 .. Len(s) /\ s \in Seq(RecordType)
          BY <4>1, <4>3, <3>1, <1>1 DEF IsLast, Stacked
        <5>2. \A i \in 1 .. Len(s) : Good(s, i)
          <6>1. \A i \in 1 .. Len(s) : Record(s, T, i)
            BY <1>1 DEF Stacked, Rest
          <6> QED BY <6>1 DEF Record
        <5> QED BY <5>1, <5>2, <3>1, LastOfThread
      <4>5. T2[s[n].t] = T[s[n].t]
        BY <3>4, <4>4 DEF Entering
      <4> QED BY <4>1, <4>2, <4>5, <3>1, <1>1, <1>2, <2>3, LowerKept
    <3> QED BY <3>5, <3>6
  <2> QED BY <2>2, <2>3
<1>3. ASSUME NEW u \in Threads, ~OnStack(z, u) PROVE Resting(T2[u])
  <2>1. u # co
    BY <1>1, <1>3 DEF OnStack
  <2>2. ~OnStack(s, u)
    <3> SUFFICES ASSUME NEW i \in 1 .. Len(s), s[i].t = u PROVE FALSE
      BY DEF OnStack
    <3>1. i \in 1 .. Len(z) /\ z[i] = s[i]
      BY <1>1 DEF Agree
    <3> QED BY <3>1, <1>3 DEF OnStack
  <2>3. ~(s # <<>> /\ u = s[Len(s)].t)
    <3> SUFFICES ASSUME s # <<>> PROVE u # s[Len(s)].t
      OBVIOUS
    <3>1. Len(s) \in 1 .. Len(s)
      BY <1>1 DEF Stacked
    <3> QED BY <3>1, <2>2 DEF OnStack
  <2>4. T2[u] = T[u]
    BY <2>1, <2>3 DEF Entering
  <2> QED BY <2>2, <2>4, <1>1 DEF Links
<1> QED BY <1>2, <1>3 DEF Links

\* lua_resume ends: the last segment goes, and the thread below goes on.
Leaving(s, T, b, z, T2) ==
  /\ Stacked(s, T) /\ Links(s, T) /\ s # <<>> /\ Segment(s, b, Len(s))
  /\ z = SubSeq(s, 1, b - 1) /\ Resting(T2[s[Len(s)].t])
  /\ b > 1 => \A d \in 1 .. b - 1 : Segment(s, d, b - 1) =>
       Linked(s, d, b - 1, T2[s[b - 1].t]) /\ Standing(s, d, b - 1, T2[s[b - 1].t])
  /\ \A u \in Threads \ {s[Len(s)].t} : (b > 1 /\ u = s[b - 1].t) \/ T2[u] = T[u]

\* All threads stay linked when one is left.
LEMMA LeavingLinks ==
  ASSUME NEW s, NEW T, NEW b, NEW z, NEW T2, Leaving(s, T, b, z, T2)
  PROVE  Links(z, T2)
<1>1. /\ Stacked(s, T) /\ Links(s, T) /\ Segment(s, b, Len(s)) /\ Len(s) \in Nat
      /\ b \in Nat /\ 1 <= b /\ b <= Len(s) /\ s[b].k = "resume" /\ s \in Seq(RecordType)
      /\ \A j \in b .. Len(s) : s[j].t = s[Len(s)].t
  BY DEF Leaving, Stacked, Segment
<1>2. Len(z) = b - 1 /\ (\A j \in 1 .. b - 1 : z[j] = s[j]) /\ b - 1 \in Nat
  BY <1>1 DEF Leaving
<1>3. \A i \in 1 .. Len(s) : Good(s, i)
  <2>1. \A i \in 1 .. Len(s) : Record(s, T, i)
    BY <1>1 DEF Stacked, Rest
  <2> QED BY <2>1 DEF Record
<1>4. \A j \in 1 .. b - 1 : s[j].t # s[Len(s)].t
  <2>1. b \in 1 .. Len(s) /\ b \in b .. Len(s)
    BY <1>1
  <2> QED BY <2>1, <1>1, <1>3 DEF Good
<1>5. ASSUME NEW n \in 1 .. Len(z), NEW d \in 1 .. n, Ending(z, d, n)
      PROVE  /\ Linked(z, d, n, T2[z[n].t])
             /\ n < Len(z) => Top(T2[z[n].t].ci).f \in {"resume", "wrap"}
  <2>1. Segment(z, d, n) /\ IsLast(z, n)
    BY <1>5 DEF Ending
  <2>2. n \in Nat \ {0} /\ n <= b - 1 /\ n \in 1 .. Len(s) /\ n \in 1 .. b - 1 /\ d \in 1 .. b - 1 /\ b > 1
        /\ \A j \in 1 .. n : j \in 1 .. b - 1
    BY <1>1, <1>2, <1>5
  <2>3. z[n] = s[n] /\ Agree(z, s, n) /\ Agree(s, z, n)
    BY <2>2, <1>2 DEF Agree
  <2>4. Segment(s, d, n)
    BY <2>1, <2>2, <2>3, LocalSegment
  <2>5. CASE n = b - 1
    <3>1. Linked(s, d, n, T2[s[n].t]) /\ Standing(s, d, n, T2[s[n].t])
      BY <2>2, <2>4, <2>5 DEF Leaving
    <3>2. Linked(z, d, n, T2[s[n].t])
      BY <3>1, <2>3, LinkedLocal
    <3> QED BY <3>2, <2>3, <2>5, <1>2
  <2>6. CASE n # b - 1
    <3>1. n + 1 <= Len(s) /\ (\A j \in 1 .. n + 1 : j \in 1 .. b - 1) /\ n # Len(z) /\ n + 1 \in 1 .. n + 1
          /\ n < b - 1 /\ b - 1 \in 1 .. Len(s)
      BY <2>2, <2>6, <1>1, <1>2
    <3>2. Agree(s, z, n + 1) /\ s[n + 1] = z[n + 1]
      BY <3>1, <1>2 DEF Agree
    <3>3. IsLast(s, n)
      BY <3>1, <3>2, <2>1 DEF IsLast
    <3>4. s[n].t # s[b - 1].t
      BY <3>1, <3>3, <2>2, <1>1, <1>3, LastOfThread
    <3>5. s[n].t \in Threads
      BY <2>2, <2>4, <1>1, SegmentStands
    <3>6. T2[s[n].t] = T[s[n].t]
      BY <3>4, <3>5, <2>2, <1>4 DEF Leaving
    <3> QED BY <3>1, <3>2, <3>6, <2>2, <1>1, <1>5, LowerKept
  <2> QED BY <2>5, <2>6
<1>6. ASSUME NEW u \in Threads, ~OnStack(z, u) PROVE Resting(T2[u])
  <2>1. CASE u = s[Len(s)].t
    BY <2>1 DEF Leaving
  <2>2. CASE u # s[Len(s)].t
    <3>1. ~OnStack(s, u)
      <4> SUFFICES ASSUME NEW i \in 1 .. Len(s), s[i].t = u PROVE FALSE
        BY DEF OnStack
      <4>1. i \notin b .. Len(s)
        BY <2>2, <1>1
      <4>2. i \in 1 .. b - 1
        BY <4>1, <1>1
      <4> QED BY <4>2, <1>2, <1>6 DEF OnStack
    <3>2. b > 1 => u # s[b - 1].t
      <4>1. b > 1 => b - 1 \in 1 .. Len(s)
        BY <1>1
      <4> QED BY <4>1, <3>1 DEF OnStack
    <3>3. T2[u] = T[u]
      BY <2>2, <3>2 DEF Leaving
    <3> QED BY <3>1, <3>3, <1>1 DEF Links
  <2> QED BY <2>1, <2>2
<1> QED BY <1>5, <1>6 DEF Links

-----------------------------------------------------------------------------
(* What scripts see of a thread. *)

\* The kinds of the frames, one by one.
LEMMA KindsFacts ==
  ASSUME NEW x \in LooseType, x.status \in {"ok", "yield"}
  PROVE  /\ KindsOf(x) \in Seq(FrameKinds) /\ Len(KindsOf(x)) = Len(x.ci)
         /\ DOMAIN KindsOf(x) = 1 .. Len(x.ci) /\ Len(x.ci) \in Nat
         /\ \A k \in 1 .. Len(x.ci) : KindsOf(x)[k] = x.ci[k].f
<1>1. x.ci \in Seq(FrameType) /\ Len(x.ci) \in Nat
  BY LooseFields
<1>2. KindsOf(x) = [i \in 1 .. Len(x.ci) |-> x.ci[i].f]
  BY DEF KindsOf
<1>3. \A i \in 1 .. Len(x.ci) : x.ci[i].f \in FrameKinds
  <2>1. \A i \in 1 .. Len(x.ci) : x.ci[i] \in FrameType
    BY <1>1
  <2>2. \A fr \in FrameType : fr.f \in FrameKinds
    BY DEF FrameType
  <2> QED BY <2>1, <2>2
<1> QED BY <1>1, <1>2, <1>3

\* A frame that is pushed, and frames that are cut.
LEMMA KindsAbove ==
  ASSUME NEW x \in LooseType, NEW y, NEW fr, Above(x, y, fr), x.status = "ok", y.status = "ok"
  PROVE  /\ KindsOf(y) = KindsOf(x) \o <<fr.f>>
         /\ KindsOf(y) = Append(KindsOf(x), fr.f) /\ fr.f \in FrameKinds
<1>1. y \in LooseType /\ Len(y.ci) = Len(x.ci) + 1 /\ y.ci[Len(x.ci) + 1] = fr
      /\ \A k \in 1 .. Len(x.ci) : y.ci[k] = x.ci[k]
  BY DEF Above
<1>2. /\ KindsOf(x) \in Seq(FrameKinds) /\ Len(KindsOf(x)) = Len(x.ci) /\ Len(x.ci) \in Nat
      /\ \A k \in 1 .. Len(x.ci) : KindsOf(x)[k] = x.ci[k].f
  BY KindsFacts
<1>3. /\ KindsOf(y) \in Seq(FrameKinds) /\ Len(KindsOf(y)) = Len(x.ci) + 1
      /\ \A k \in 1 .. Len(x.ci) + 1 : KindsOf(y)[k] = y.ci[k].f
  BY <1>1, KindsFacts
<1>4. fr.f \in FrameKinds
  <2>1. Len(x.ci) + 1 \in 1 .. Len(y.ci) /\ y.ci \in Seq(FrameType)
    BY <1>1, <1>2, LooseFields
  <2>2. y.ci[Len(x.ci) + 1] \in FrameType
    BY <2>1
  <2> QED BY <2>2, <1>1 DEF FrameType
<1>5. Append(KindsOf(x), fr.f) = KindsOf(x) \o <<fr.f>>
  BY <1>2, <1>4
<1>6. KindsOf(y) = Append(KindsOf(x), fr.f)
  <2> DEFINE a == Append(KindsOf(x), fr.f)
  <2>1. a \in Seq(FrameKinds) /\ Len(a) = Len(x.ci) + 1 /\ a[Len(x.ci) + 1] = fr.f
        /\ \A k \in 1 .. Len(x.ci) : a[k] = KindsOf(x)[k]
    BY <1>2, <1>4
  <2>2. ASSUME NEW k \in 1 .. Len(x.ci) + 1 PROVE KindsOf(y)[k] = a[k]
    <3>1. CASE k = Len(x.ci) + 1
      BY <3>1, <2>1, <1>1, <1>3
    <3>2. CASE k \in 1 .. Len(x.ci)
      BY <3>2, <2>1, <1>1, <1>2, <1>3
    <3> QED BY <3>1, <3>2, <1>2
  <2> HIDE DEF a
  <2>3. KindsOf(y) = a
    BY <2>1, <2>2, <1>3, SeqEqual
  <2> QED BY <2>3 DEF a
<1> QED BY <1>4, <1>5, <1>6

\* The activations that a script sees of a thread that lost frames.
LEMMA KindsCut ==
  ASSUME NEW x \in LooseType, NEW y, NEW m, CutTo(x, y, m), x.status = "ok",
         y.status \in {"ok", "yield"}
  PROVE  KindsOf(y) = SubSeq(KindsOf(x), 1, m)
<1>1. y \in LooseType /\ m \in Nat /\ m <= Len(x.ci) /\ Len(y.ci) = m
      /\ \A k \in 1 .. m : y.ci[k] = x.ci[k]
  BY DEF CutTo
<1>2. /\ KindsOf(x) \in Seq(FrameKinds) /\ Len(KindsOf(x)) = Len(x.ci) /\ Len(x.ci) \in Nat
      /\ \A k \in 1 .. Len(x.ci) : KindsOf(x)[k] = x.ci[k].f
  BY KindsFacts
<1>3. /\ KindsOf(y) \in Seq(FrameKinds) /\ Len(KindsOf(y)) = m
      /\ \A k \in 1 .. m : KindsOf(y)[k] = y.ci[k].f
  BY <1>1, KindsFacts
<1> DEFINE a == SubSeq(KindsOf(x), 1, m)
<1>4. a \in Seq(FrameKinds) /\ Len(a) = m /\ \A k \in 1 .. m : a[k] = KindsOf(x)[k]
  BY <1>1, <1>2
<1>5. \A k \in 1 .. m : KindsOf(y)[k] = a[k]
  BY <1>1, <1>2, <1>3, <1>4
<1> HIDE DEF a
<1>6. KindsOf(y) = a
  BY <1>1, <1>3, <1>4, <1>5, SeqEqual
<1> QED BY <1>6 DEF a

\* Who resumed whom is read off the records of lua_resume.
LEMMA ResumersKept ==
  ASSUME NEW s \in Seq(RecordType), NEW z \in Seq(RecordType), NEW b \in Nat,
         b <= Len(s), b <= Len(z), Agree(s, z, b),
         \A i \in b + 1 .. Len(s) : s[i].k # "resume",
         \A i \in b + 1 .. Len(z) : z[i].k # "resume"
  PROVE  ResumerOf(z) = ResumerOf(s)
<1>1. Len(s) \in Nat /\ Len(z) \in Nat
  OBVIOUS
<1>2. ASSUME NEW t \in Threads PROVE Resumer(z, t) = Resumer(s, t)
  <2> DEFINE A == {i \in 1 .. Len(s) : s[i].k = "resume" /\ s[i].t = t}
             B == {i \in 1 .. Len(z) : z[i].k = "resume" /\ z[i].t = t}
             C == {i \in 1 .. b : s[i].k = "resume" /\ s[i].t = t}
  <2>1. A = C
    BY <1>1
  <2>2. B = C
    BY <1>1 DEF Agree
  <2>3. C \subseteq 1 .. b
    OBVIOUS
  <2>4. Resumer(s, t) = IF A = {} THEN t ELSE s[CHOOSE i \in A : TRUE].from
    BY DEF Resumer
  <2>5. Resumer(z, t) = IF B = {} THEN t ELSE z[CHOOSE i \in B : TRUE].from
    BY DEF Resumer
  <2> HIDE DEF A, B, C
  <2>6. C # {} => (CHOOSE i \in C : TRUE) \in C
    OBVIOUS
  <2>7. C # {} => s[CHOOSE i \in C : TRUE] = z[CHOOSE i \in C : TRUE]
    BY <2>3, <2>6 DEF Agree
  <2> QED BY <2>1, <2>2, <2>4, <2>5, <2>7
<1> QED BY <1>2 DEF ResumerOf

\* A coroutine's resumer is that of its record.
LEMMA ResumerIs ==
  ASSUME NEW s \in Seq(RecordType), \A i \in 1 .. Len(s) : Good(s, i),
         NEW b \in 1 .. Len(s), s[b].k = "resume"
  PROVE  Resumer(s, s[b].t) = s[b].from
<1>1. \A i \in 1 .. Len(s) : s[i].k = "resume" /\ s[i].t = s[b].t => i = b
  <2> SUFFICES ASSUME NEW i \in 1 .. Len(s), s[i].k = "resume", s[i].t = s[b].t, i # b
               PROVE  FALSE
    OBVIOUS
  <2>1. (\A j \in 1 .. i - 1 : s[j].t # s[i].t) /\ (\A j \in 1 .. b - 1 : s[j].t # s[b].t)
    BY DEF Good
  <2>2. i \in 1 .. b - 1 \/ b \in 1 .. i - 1
    OBVIOUS
  <2> QED BY <2>1, <2>2
<1>2. {i \in 1 .. Len(s) : s[i].k = "resume" /\ s[i].t = s[b].t} = {b}
  BY <1>1
<1>3. (CHOOSE i \in {b} : TRUE) = b
  OBVIOUS
<1> QED BY <1>2, <1>3 DEF Resumer

-----------------------------------------------------------------------------
(* Steps of the thread that runs. *)

\* What the abstract module sees: another stack of one coroutine.
Mapped(t, y) == /\ StackOf(th)' = [StackOf(th) EXCEPT ![t] = KindsOf(y)]
                /\ LifeOf(native, th)' = LifeOf(native, th)
                /\ ResumerOf(native)' = ResumerOf(native)

\* What is known of the thread that runs.
LEMMA RunningLinked ==
  ASSUME CoroutineInv, LinkInv, native # <<>>
  PROVE  /\ Stacked(native, th) /\ Links(native, th) /\ Len(native) \in Nat \ {0}
         /\ Len(native) \in 1 .. Len(native)
         /\ Segment(native, Base, Len(native)) /\ Base \in 1 .. Len(native)
         /\ Standing(native, Base, Len(native), Self) /\ Linked(native, Base, Len(native), Self)
         /\ Self \in LooseType /\ Self.status = "ok" /\ Self.active = TRUE /\ ~Self.fresh
         /\ Running = native[Len(native)].t /\ Running \in Threads /\ Self = th[Running]
         /\ DOMAIN th = Threads
         /\ signal = "none" => /\ Self.ci # <<>> /\ Top(Self.ci).f \in Functions
                               /\ native[Len(native)].k \in {"call", "resume"}
<1>1. /\ Len(native) \in Nat \ {0} /\ Len(native) \in 1 .. Len(native)
      /\ native \in Seq(RecordType) /\ Rest(native, th)
      /\ Running = native[Len(native)].t /\ Running \in Threads
      /\ th \in [Threads -> LooseType]
      /\ Self = th[Running] /\ Self \in LooseType
      /\ Self.active = TRUE /\ Self.status = "ok"
      /\ Base \in 1 .. Len(native) /\ Segment(native, Base, Len(native))
  BY RunningFacts
<1>2. Stacked(native, th)
  BY <1>1 DEF Stacked
<1>3. Standing(native, Base, Len(native), Self)
  BY <1>1, <1>2, SegmentStands
<1>4. Links(native, th) /\ Busy(native, th, signal)
  BY DEF LinkInv
<1>5. Linked(native, Base, Len(native), Self)
  <2>1. Ending(native, Base, Len(native))
    BY <1>1 DEF Ending, IsLast
  <2> QED BY <2>1, <1>1, <1>4 DEF Links
<1>6. signal = "none" => Self.ci # <<>> /\ Top(Self.ci).f \in Functions
  BY <1>4 DEF Busy, Self, Running
<1>7. signal = "none" => native[Len(native)].k \in {"call", "resume"}
  BY RunningCounts
<1> QED BY <1>1, <1>2, <1>3, <1>4, <1>5, <1>6, <1>7 DEF Linked

\* Such a step keeps the links, and no other coroutine changes.
LEMMA InnerStep ==
  ASSUME CoroutineInv, CoroutineInv', LinkInv, native # <<>>, native' # <<>>,
         Agree(native, native', Base), Segment(native', Base, Len(native')),
         NEW y, th' = [th EXCEPT ![Running] = y], Linked(native', Base, Len(native'), y),
         signal' = "none" => y.ci # <<>> /\ Top(y.ci).f \in Functions
  PROVE  LinkInv' /\ Mapped(Running, y)
<1>1. /\ Stacked(native, th) /\ Links(native, th) /\ Len(native) \in Nat \ {0}
      /\ Segment(native, Base, Len(native)) /\ Base \in 1 .. Len(native)
      /\ Running = native[Len(native)].t /\ Running \in Threads
      /\ DOMAIN th = Threads
  BY RunningLinked
<1>2. native' \in Seq(RecordType) /\ th' \in [Threads -> LooseType]
  BY ThreadIsLoose DEF CoroutineInv, TypeOK
<1>3. th'[Running] = y /\ (\A u \in Threads \ {Running} : th'[u] = th[u])
  BY <1>1
<1>4. \A u \in Threads \ {Running} : ~OnStack(native, u) => Resting(th[u])
  BY <1>1 DEF Links
<1>5. Moving(native, th, Base, Running, native', th')
  BY <1>1, <1>2, <1>3, <1>4 DEF Moving
<1>6. Links(native', th')
  BY <1>5, MovingLinks
<1>7. Top(native').t = Running /\ Top(native).t = Running /\ Len(native') \in Nat /\ Base <= Len(native')
      /\ Base \in Nat /\ Base <= Len(native)
  <2>1. Base \in 1 .. Len(native') /\ Base \in Base .. Len(native') /\ Len(native') \in Base .. Len(native')
        /\ Base \in Base .. Len(native) /\ Base \in 1 .. Base
    BY <1>1, <1>2 DEF Segment
  <2>2. native'[Base].t = native'[Len(native')].t /\ native[Base].t = native[Len(native)].t
    BY <2>1, <1>1 DEF Segment
  <2>3. native'[Base] = native[Base]
    BY <2>1 DEF Agree
  <2> QED BY <2>1, <2>2, <2>3, <1>1, <1>2 DEF Top
<1>8. Busy(native', th', signal')
  BY <1>3, <1>7 DEF Busy
<1>9. StackOf(th') = [StackOf(th) EXCEPT ![Running] = KindsOf(y)]
  <2>1. \A u \in Threads : KindsOf(th'[u]) = IF u = Running THEN KindsOf(y) ELSE KindsOf(th[u])
    BY <1>3
  <2> QED BY <2>1, <1>1 DEF StackOf
<1>10. LifeOf(native', th') = LifeOf(native, th)
  <2>1. \A u \in Threads : Life(native', th'[u], u) = Life(native, th[u], u)
    BY <1>3, <1>7 DEF Life
  <2> QED BY <2>1 DEF LifeOf
<1>11. ResumerOf(native') = ResumerOf(native)
  <2>1. \A i \in Base + 1 .. Len(native) : native[i].k # "resume"
    BY <1>1, <1>7 DEF Segment
  <2>2. \A i \in Base + 1 .. Len(native') : native'[i].k # "resume"
    BY <1>1, <1>7 DEF Segment
  <2> QED BY <2>1, <2>2, <1>1, <1>2, <1>7, ResumersKept DEF Stacked
<1> QED BY <1>6, <1>8, <1>9, <1>10, <1>11 DEF LinkInv, Mapped

\* Records and frames are cut down to record c and m frames.
LEMMA CutStep ==
  ASSUME CoroutineInv, CoroutineInv', LinkInv, native # <<>>,
         NEW c, NEW m, NEW y, Cutting(native, Base, Len(native), Self, c, y, m),
         Recounted(native, Base, Len(native), Self, c, y),
         th' = [th EXCEPT ![Running] = y], native' = SubSeq(native, 1, c),
         y.status = "ok", m # 0, Self.ci[m].f \in Functions
  PROVE  /\ LinkInv' /\ Mapped(Running, y) /\ KindsOf(y) = SubSeq(KindsOf(Self), 1, m)
         /\ Life(native, Self, Running) = "running"
<1>1. /\ Len(native) \in Nat \ {0} /\ Segment(native, Base, Len(native)) /\ Base \in 1 .. Len(native)
      /\ Linked(native, Base, Len(native), Self) /\ Self \in LooseType /\ Self.status = "ok"
      /\ Running = native[Len(native)].t /\ Stacked(native, th)
  BY RunningLinked
<1>2. c \in Base .. Len(native) /\ CutTo(Self, y, m)
  BY DEF Cutting
<1>3. Linked(native, Base, c, y) /\ Standing(native, Base, c, y)
  BY <1>1, LinkedCut
<1>4. c \in Nat /\ c <= Len(native) /\ native' # <<>> /\ Len(native') = c /\ Base <= c /\ Base \in Nat
      /\ \A j \in 1 .. c : native'[j] = native[j]
  <2>1. native \in Seq(RecordType) /\ c \in Nat /\ c <= Len(native) /\ 1 <= c
        /\ Base <= c /\ Base \in Nat
    BY <1>1, <1>2 DEF Stacked
  <2> QED BY <2>1
<1>5. Agree(native, native', c) /\ Agree(native, native', Base)
  BY <1>4 DEF Agree
<1>6. Linked(native', Base, c, y)
  BY <1>3, <1>5, LinkedLocal
<1>7. Segment(native', Base, Len(native'))
  <2>1. Segment(native, Base, c)
    BY <1>3 DEF Standing
  <2> QED BY <2>1, <1>4, <1>5, LocalSegment
<1>8. y.ci # <<>> /\ Top(y.ci).f \in Functions
  <2>1. m \in Nat \ {0} /\ Len(y.ci) = m /\ y.ci[m] = Self.ci[m]
    <3>1. m \in Nat \ {0} /\ Len(y.ci) = m /\ \A k \in 1 .. m : y.ci[k] = Self.ci[k]
      BY <1>2 DEF CutTo
    <3> QED BY <3>1
  <2> QED BY <2>1 DEF Top
<1>9. KindsOf(y) = SubSeq(KindsOf(Self), 1, m)
  BY <1>1, <1>2, KindsCut
<1>10. LinkInv' /\ Mapped(Running, y)
  BY <1>4, <1>5, <1>6, <1>7, <1>8, InnerStep
<1>11. Life(native, Self, Running) = "running"
  BY <1>1 DEF Life, Top
<1> QED BY <1>9, <1>10, <1>11

\* The thread that runs is the one that does in the abstract module.
LEMMA RunningMapped ==
  ASSUME CoroutineInv, LinkInv, native # <<>>
  PROVE  /\ StackOf(th)[Running] = KindsOf(Self) /\ LifeOf(native, th)[Running] = "running"
         /\ Running \in Threads /\ Self.ci \in Seq(FrameType)
         /\ KindsOf(Self) \in Seq(FrameKinds) /\ Len(KindsOf(Self)) = Len(Self.ci)
         /\ Len(Self.ci) \in Nat /\ DOMAIN KindsOf(Self) = 1 .. Len(Self.ci)
         /\ \A k \in 1 .. Len(Self.ci) : KindsOf(Self)[k] = Self.ci[k].f
<1>1. /\ Self \in LooseType /\ Self.status = "ok" /\ Running \in Threads /\ Self = th[Running]
      /\ Running = native[Len(native)].t
  BY RunningLinked
<1>2. Life(native, Self, Running) = "running"
  BY <1>1 DEF Life, Top
<1> QED BY <1>1, <1>2, KindsFacts, LooseFields DEF StackOf, LifeOf

\* A frame on top, one by one.
LEMMA OneAbove ==
  ASSUME NEW x \in LooseType, NEW y \in LooseType, NEW fr \in FrameType, y.ci = x.ci \o <<fr>>
  PROVE  Above(x, y, fr)
<1>1. x.ci \in Seq(FrameType) /\ Len(x.ci) \in Nat
  BY LooseFields
<1>2. Len(x.ci \o <<fr>>) = Len(x.ci) + 1 /\ (x.ci \o <<fr>>)[Len(x.ci) + 1] = fr
      /\ \A k \in 1 .. Len(x.ci) : (x.ci \o <<fr>>)[k] = x.ci[k]
  BY <1>1
<1> QED BY <1>2 DEF Above

\* A frame that needs no record is pushed.
LEMMA GrowStep ==
  ASSUME CoroutineInv, CoroutineInv', LinkInv, native # <<>>, signal = "none",
         NEW f \in Ends \cup {"lua"}, NEW y \in LooseType, y.ci = Self.ci \o <<Frame(f)>>,
         y.status = "ok", y.baseC = Self.baseC, y.nC = Self.nC, ~y.fresh,
         th' = [th EXCEPT ![Running] = y], UNCHANGED native, f \in Ends => signal' # "none"
  PROVE  LinkInv' /\ Mapped(Running, y) /\ KindsOf(y) = KindsOf(Self) \o <<f>>
         /\ KindsOf(y) = Append(KindsOf(Self), f)
<1>1. /\ Segment(native, Base, Len(native)) /\ Base \in 1 .. Len(native) /\ Len(native) \in Nat
      /\ Standing(native, Base, Len(native), Self) /\ Linked(native, Base, Len(native), Self)
      /\ Self \in LooseType /\ Self.status = "ok" /\ Self.ci # <<>> /\ Top(Self.ci).f \in Functions
      /\ native[Len(native)].k \in {"call", "resume"}
  BY RunningLinked
<1>2. Frame(f) \in FrameType /\ Frame(f).f = f /\ Frame(f).handle = FALSE
  <2>1. f \in FrameKinds
    BY DEF Ends, FrameKinds
  <2> QED BY <2>1, FrameFits DEF Frame
<1>3. Above(Self, y, Frame(f))
  BY <1>1, <1>2, OneAbove
<1>4. Growing(native, Base, Len(native), Self, y, Frame(f))
  <2>1. NoEnd(Self)
    BY <1>1 DEF NoEnd, Functions, Ends
  <2> QED BY <2>1, <1>1, <1>2, <1>3 DEF Growing
<1>5. Linked(native, Base, Len(native), y)
  <2>1. Follows(Frame(f).f, Top(Self.ci).f)
    BY <1>1, <1>2 DEF Follows, Ends
  <2>2. Self.nC \in Int
    BY <1>1, LooseFields
  <2>3. y.nC >= Self.nC
    BY <2>2
  <2> QED BY <2>1, <2>3, <1>1, <1>4, LinkedGrow
<1>6. Agree(native, native', Base)
  BY DEF Agree
<1>7. signal' = "none" => y.ci # <<>> /\ Top(y.ci).f \in Functions
  <2>1. y.ci[Len(y.ci)] = Frame(f) /\ y.ci # <<>>
    <3>1. Len(y.ci) = Len(Self.ci) + 1 /\ y.ci[Len(Self.ci) + 1] = Frame(f) /\ Len(Self.ci) \in Nat
      BY <1>1, <1>3, LooseFields DEF Above
    <3> QED BY <3>1
  <2> QED BY <2>1, <1>2 DEF Top, Functions, Ends
<1>8. LinkInv' /\ Mapped(Running, y)
  BY <1>1, <1>5, <1>6, <1>7, InnerStep
<1>9. KindsOf(y) = KindsOf(Self) \o <<f>> /\ KindsOf(y) = Append(KindsOf(Self), f)
  BY <1>1, <1>2, <1>3, KindsAbove
<1> QED BY <1>8, <1>9

\* A Lua function is called.
LEMMA CallLuaMaps ==
  ASSUME CoroutineInv, LinkInv, CallLua PROVE LinkInv' /\ Abstract!Next
<1> DEFINE y == Push(Self, <<Frame("lua")>>)
<1>1. native # <<>> /\ signal = "none" /\ th' = [th EXCEPT ![Running] = y]
      /\ UNCHANGED <<native, signal>> /\ Len(Self.ci) + 1 <= MaxFrames
  BY DEF CallLua, Calm, Set, Room
<1>2. Self \in LooseType /\ Self.status = "ok" /\ ~Self.fresh
  BY <1>1, RunningLinked
<1>3. /\ y \in LooseType /\ y.ci = Self.ci \o <<Frame("lua")>> /\ y.status = "ok"
      /\ y.nC = Self.nC /\ y.baseC = Self.baseC /\ ~y.fresh
  <2>1. Frame("lua") \in FrameType
    BY FrameFits DEF FrameKinds
  <2> QED BY <2>1, <1>2, PushFits
<1> HIDE DEF y
<1>4. LinkInv' /\ Mapped(Running, y) /\ KindsOf(y) = KindsOf(Self) \o <<"lua">>
  <2>1. CoroutineInv'
    BY CallLuaKeeps
  <2> QED BY <2>1, <1>1, <1>3, GrowStep DEF Ends
<1>5. Abstract!Place(Running, <<"lua">>)
  BY <1>1, <1>4, RunningMapped DEF Abstract!Place, Abstract!Put, Mapped
<1>6. Abstract!Call(Running)
  BY <1>1, <1>4, <1>5, RunningMapped DEF Abstract!Call, Abstract!Calm, Mapped
<1> QED BY <1>1, <1>4, <1>6, RunningMapped DEF Abstract!Next

\* A segment goes on.
LEMMA SegmentGoesOn ==
  ASSUME NEW s, NEW z, NEW b, NEW n \in Nat, Segment(s, b, n), Agree(s, z, n),
         z[n + 1].t = s[n].t, z[n + 1].k # "resume"
  PROVE  Segment(z, b, n + 1)
<1>1. b \in 1 .. n /\ s[b].k = "resume" /\ \A j \in b .. n : s[j].t = s[n].t /\ (j # b => s[j].k # "resume")
  BY DEF Segment
<1>2. \A j \in 1 .. n : s[j] = z[j]
  BY DEF Agree
<1>3. \A j \in b .. n + 1 : j = n + 1 \/ (j \in b .. n /\ j \in 1 .. n)
  BY <1>1
<1>4. b \in 1 .. n + 1 /\ n + 1 # b
  BY <1>1
<1> QED BY <1>1, <1>2, <1>3, <1>4 DEF Segment

\* A frame is pushed with its record.
LEMMA RaiseStep ==
  ASSUME CoroutineInv, CoroutineInv', LinkInv, native # <<>>, signal = "none",
         NEW r \in RecordType, native' = Append(native, r), NEW y, NEW fr,
         Raising(native, Base, Len(native), Self, native', y, fr),
         Recording(native, Base, Len(native), Self, native', y),
         Follows(fr.f, Top(Self.ci).f), y.status = "ok",
         th' = [th EXCEPT ![Running] = y], signal' = "none" => fr.f \in Functions
  PROVE  LinkInv' /\ Mapped(Running, y) /\ KindsOf(y) = KindsOf(Self) \o <<fr.f>>
         /\ KindsOf(y) = Append(KindsOf(Self), fr.f)
<1> DEFINE n == Len(native)
<1>1. /\ Segment(native, Base, n) /\ Base \in 1 .. n /\ n \in Nat
      /\ Linked(native, Base, n, Self) /\ native \in Seq(RecordType)
      /\ Self \in LooseType /\ Self.status = "ok" /\ Self.ci # <<>>
  BY RunningLinked DEF Stacked
<1>2. Above(Self, y, fr) /\ native'[n + 1].k \in {"call", "pcall"}
  BY DEF Raising
<1>3. Linked(native', Base, n + 1, y)
  BY <1>1, LinkedRaise
<1>4. Len(native') = n + 1 /\ native' # <<>> /\ Agree(native, native', n) /\ Agree(native, native', Base)
  <2>1. Len(native') = n + 1 /\ native' # <<>> /\ \A j \in 1 .. n : native'[j] = native[j]
    BY <1>1
  <2>2. 1 .. Base \subseteq 1 .. n
    BY <1>1
  <2> QED BY <2>1, <2>2 DEF Agree
<1>5. Segment(native', Base, Len(native'))
  <2>1. native'[n + 1].t = native[n].t
    <3>1. native'[n + 1].t = native[Base].t
      BY DEF Recording
    <3>2. Base \in Base .. n
      BY <1>1
    <3> QED BY <1>1, <3>1, <3>2 DEF Segment
  <2> HIDE DEF n
  <2> QED BY <2>1, <1>1, <1>2, <1>4, SegmentGoesOn
<1>6. signal' = "none" => y.ci # <<>> /\ Top(y.ci).f \in Functions
  <2>1. Len(y.ci) = Len(Self.ci) + 1 /\ y.ci[Len(Self.ci) + 1] = fr /\ Len(Self.ci) \in Nat
    BY <1>1, <1>2, LooseFields DEF Above
  <2>2. y.ci # <<>>
    BY <2>1
  <2> QED BY <2>1, <2>2 DEF Top
<1>7. LinkInv' /\ Mapped(Running, y)
  <2> HIDE DEF n
  <2> QED BY <1>3, <1>4, <1>5, <1>6, InnerStep
<1> QED BY <1>1, <1>2, <1>7, KindsAbove

\* An operation fails: the error is all that changes for scripts.
LEMMA FailedStep ==
  ASSUME CoroutineInv, LinkInv, native # <<>>, signal = "none", signal' # "none",
         NEW y, Mapped(Running, y), KindsOf(y) = KindsOf(Self)
  PROVE  Abstract!Next
<1>1. StackOf(th)' = StackOf(th)
  BY RunningMapped DEF Mapped, StackOf
<1>2. Abstract!Raise(Running)
  BY <1>1, RunningMapped DEF Abstract!Raise, Abstract!Calm, Mapped
<1> QED BY <1>2, RunningMapped DEF Abstract!Next

\* A library function fails, with its own frame on top.
LEMMA FailedAbove ==
  ASSUME CoroutineInv, LinkInv, native # <<>>, signal = "none", signal' # "none",
         NEW f \in {"yield", "pcall", "xpcall"},
         NEW y, Mapped(Running, y), KindsOf(y) = Append(KindsOf(Self), f)
  PROVE  Abstract!Next
<1>1. Abstract!Put(Running, Append(StackOf(th)[Running], f))
  BY RunningMapped DEF Mapped, Abstract!Put
<1>2. Abstract!Raise(Running)
  BY <1>1, RunningMapped DEF Abstract!Raise, Abstract!Calm, Mapped
<1> QED BY <1>2, RunningMapped DEF Abstract!Next

\* error(), with no frame of its own.
LEMMA ErrorMaps ==
  ASSUME CoroutineInv, LinkInv, Error PROVE LinkInv' /\ Abstract!Next
<1>1. native # <<>> /\ signal = "none" /\ signal' # "none" /\ UNCHANGED <<th, native>>
  BY DEF Error, Calm
<1>2. LinkInv'
  BY <1>1 DEF LinkInv, Busy
<1>3. Abstract!Raise(Running)
  BY <1>1, RunningMapped DEF Abstract!Raise, Abstract!Calm
<1> QED BY <1>1, <1>2, <1>3, RunningMapped DEF Abstract!Next

\* A counter that is raised for nothing.
LEMMA CountedStep ==
  ASSUME CoroutineInv, CoroutineInv', LinkInv, native # <<>>, signal' # "none",
         NEW y \in LooseType, y.ci = Self.ci, y.status = "ok", y.baseC = Self.baseC,
         y.nC = Self.nC + 1, ~y.fresh, th' = [th EXCEPT ![Running] = y], UNCHANGED native
  PROVE  LinkInv' /\ Mapped(Running, y) /\ KindsOf(y) = KindsOf(Self)
<1>1. /\ Segment(native, Base, Len(native)) /\ Self \in LooseType /\ Self.status = "ok"
      /\ Standing(native, Base, Len(native), Self) /\ Linked(native, Base, Len(native), Self)
  BY RunningLinked
<1>2. y.nC >= Self.nC
  <2>1. Self.nC \in Int
    BY <1>1, LooseFields
  <2> QED BY <2>1
<1>3. Linked(native, Base, Len(native), y)
  BY <1>1, <1>2, LinkedCounted
<1>4. Agree(native, native', Base)
  BY DEF Agree
<1>5. LinkInv' /\ Mapped(Running, y)
  BY <1>1, <1>3, <1>4, InnerStep
<1> QED BY <1>1, <1>5 DEF KindsOf

\* A metamethod is called.
LEMMA CallMetaMaps ==
  ASSUME CoroutineInv, LinkInv, CallMeta PROVE LinkInv' /\ Abstract!Next
<1> DEFINE x == Counted(Self)
           y == Push(x, <<Frame("tm")>>)
           n == Len(native)
           r == CallRec(Running, y)
<1>1. native # <<>> /\ signal = "none" /\ signal' = LimitError(x) /\ Len(Self.ci) + 1 <= MaxFrames
      /\ IF signal' = "none"
         THEN th' = [th EXCEPT ![Running] = y] /\ native' = Append(native, r)
         ELSE th' = [th EXCEPT ![Running] = x] /\ UNCHANGED native
  BY DEF CallMeta, Calm, Set, Room
<1>2. /\ Self \in LooseType /\ Self.status = "ok" /\ ~Self.fresh /\ n \in Nat
      /\ Standing(native, Base, n, Self) /\ Self.ci # <<>> /\ Top(Self.ci).f \in Functions
      /\ native[n].k \in {"call", "resume"} /\ Running = native[n].t /\ Running \in Threads
      /\ native \in Seq(RecordType) /\ Segment(native, Base, n)
  BY <1>1, RunningLinked DEF Stacked
<1>3. /\ x \in LooseType /\ x.ci = Self.ci /\ x.nC = Self.nC + 1 /\ x.status = "ok"
      /\ x.baseC = Self.baseC /\ ~x.fresh
  BY <1>2, CountedFits
<1>4. CoroutineInv'
  BY CallMetaKeeps
<1> HIDE DEF x
<1>5. CASE signal' # "none"
  <2>1. LinkInv' /\ Mapped(Running, x) /\ KindsOf(x) = KindsOf(Self)
    BY <1>1, <1>3, <1>4, <1>5, CountedStep
  <2> QED BY <2>1, <1>1, <1>5, FailedStep
<1>6. CASE signal' = "none"
  <2>1. Frame("tm") \in FrameType /\ Frame("tm").f = "tm"
    BY FrameFits DEF FrameKinds
  <2>2. /\ y \in LooseType /\ y.ci = Self.ci \o <<Frame("tm")>> /\ y.status = "ok"
        /\ y.nC = Self.nC + 1 /\ y.baseC = Self.baseC /\ ~y.fresh /\ Len(y.ci) = Len(Self.ci) + 1
        /\ Len(Self.ci) \in Nat
    <3>1. /\ y \in LooseType /\ y.ci = x.ci \o <<Frame("tm")>> /\ y.status = x.status
          /\ y.nC = x.nC /\ y.baseC = x.baseC /\ y.fresh = x.fresh /\ Len(y.ci) = Len(x.ci) + 1
          /\ Len(x.ci) \in Nat
      BY <2>1, <1>3, PushFits
    <3> HIDE DEF y
    <3> QED BY <3>1, <1>3
  <2> HIDE DEF y
  <2>3. r.k = "call" /\ r.t = Running /\ r.at = Len(Self.ci) + 1 /\ r \in RecordType
    BY <2>2, <1>2 DEF CallRec, RecordType
  <2> HIDE DEF r
  <2>4. native' = Append(native, r) /\ native'[n + 1] = r /\ Agree(native, native', n)
    BY <2>3, <1>1, <1>2, <1>6 DEF Agree
  <2>5. Above(Self, y, Frame("tm")) /\ NoEnd(Self)
    BY <2>1, <2>2, <1>2, OneAbove DEF NoEnd, Functions, Ends
  <2>6. Raising(native, Base, n, Self, native', y, Frame("tm"))
    BY <2>3, <2>4, <2>5, <1>2 DEF Raising
  <2>7. Recording(native, Base, n, Self, native', y)
    <3>1. r.t = native[Base].t
      BY <2>3, <1>2 DEF Segment
    <3>2. Self.nC \in Int /\ Self.baseC \in Int
      BY <1>2, LooseFields
    <3> QED BY <3>1, <3>2, <2>2, <2>3, <2>4, <1>2 DEF Recording
  <2>8. Follows(Frame("tm").f, Top(Self.ci).f) /\ Frame("tm").f \in Functions
    BY <2>1, <1>2 DEF Follows, Functions
  <2>9. LinkInv' /\ Mapped(Running, y) /\ KindsOf(y) = KindsOf(Self) \o <<"tm">>
    <3>1. th' = [th EXCEPT ![Running] = y]
      BY <1>1, <1>6
    <3>2. LinkInv' /\ Mapped(Running, y) /\ KindsOf(y) = KindsOf(Self) \o <<Frame("tm").f>>
      BY <3>1, <2>2, <2>3, <2>4, <2>6, <2>7, <2>8, <1>1, <1>4, RaiseStep
    <3> QED BY <3>2, <2>1
  <2>10. Abstract!Place(Running, <<"tm">>)
    BY <1>1, <2>9, RunningMapped DEF Abstract!Place, Abstract!Put, Mapped
  <2>11. Abstract!Call(Running)
    BY <1>1, <1>6, <2>9, <2>10, RunningMapped DEF Abstract!Call, Abstract!Calm, Mapped
  <2> QED BY <1>1, <2>9, <2>11, RunningMapped DEF Abstract!Next
<1> QED BY <1>5, <1>6

\* A record is pushed on the segment that runs.
LEMMA PushStands ==
  ASSUME NEW s \in Seq(RecordType), s # <<>>, NEW n, n = Len(s),
         \A i \in 1 .. n : Good(s, i), NEW b, Segment(s, b, n),
         NEW r \in RecordType, Pushable(s[n], r), r.t = s[n].t, r.k # "resume",
         NEW y \in LooseType, Pos(r) <= Len(y.ci)
  PROVE  Standing(Append(s, r), b, n + 1, y)
<1> DEFINE z == Append(s, r)
<1>1. n \in Nat /\ Pushed(s, r, z) /\ z \in Seq(RecordType) /\ Len(z) = n + 1 /\ z[n + 1] = r
      /\ \A j \in 1 .. n : s[j] = z[j]
  BY AppendPushes
<1> HIDE DEF z
<1>2. Good(z, n + 1)
  BY <1>1, PushGood
<1>3. ASSUME NEW i \in 1 .. n PROVE Good(z, i)
  <2>1. i \in Nat /\ Agree(s, z, i)
    BY <1>1 DEF Agree
  <2> QED BY <2>1, LocalGood
<1>4. \A i \in 1 .. n + 1 : i = n + 1 \/ i \in 1 .. n
  BY <1>1
<1>5. Segment(z, b, n + 1)
  BY <1>1, SegmentGoesOn DEF Agree
<1>6. n + 1 \in 1 .. Len(z)
  BY <1>1
<1>7. Standing(z, b, n + 1, y)
  BY <1>1, <1>2, <1>3, <1>4, <1>5, <1>6 DEF Standing
<1> QED BY <1>7 DEF z

\* What sequences of frame kinds do.
LEMMA TwoKinds ==
  ASSUME NEW s \in Seq(FrameKinds), NEW a \in FrameKinds, NEW d \in FrameKinds
  PROVE  (s \o <<a>>) \o <<d>> = s \o <<a, d>> /\ <<a, d>> \in Seq(FrameKinds)
<1>1. <<a, d>> \in Seq(FrameKinds) /\ <<a>> \in Seq(FrameKinds) /\ <<d>> \in Seq(FrameKinds)
  OBVIOUS
<1>2. (s \o <<a>>) \o <<d>> = s \o (<<a>> \o <<d>>)
  BY <1>1
<1>3. <<a>> \o <<d>> = <<a, d>>
  <2> DEFINE L == <<a>> \o <<d>>
  <2>1. L \in Seq(FrameKinds) /\ Len(L) = 2 /\ L[1] = a /\ L[2] = d
    BY <1>1
  <2> HIDE DEF L
  <2>2. L = <<a, d>>
    BY <2>1
  <2> QED BY <2>2 DEF L
<1> QED BY <1>1, <1>2, <1>3, Zenon

\* A function is called by pcall or xpcall.
LEMMA PcallMaps ==
  ASSUME CoroutineInv, LinkInv, NEW f \in {"pcall", "xpcall"}, Pcall(f)
  PROVE  LinkInv' /\ Abstract!Next
<1> DEFINE q == Push(Self, <<Flagged(f)>>)
           x == Entered(Self, f)
           y == Counted(x)
           z == Push(y, <<Frame("body")>>)
           r == PcallRec(Running, x)
           c == CallRec(Running, z)
           n == Len(native)
           s == Append(native, r)
<1>1. native # <<>> /\ signal = "none" /\ Len(Self.ci) + 2 <= MaxFrames
      /\ IF LimitError(y) = "none"
         THEN /\ th' = [th EXCEPT ![Running] = z] /\ UNCHANGED signal
              /\ native' = native \o <<r, c>>
         ELSE /\ th' = [th EXCEPT ![Running] = y] /\ signal' = LimitError(y)
              /\ native' = s
  BY DEF Pcall, Calm, Set, Room
<1>2. /\ Self \in LooseType /\ Self.status = "ok" /\ ~Self.fresh /\ n \in Nat
      /\ Self.active = TRUE
      /\ Standing(native, Base, n, Self) /\ Self.ci # <<>> /\ Top(Self.ci).f \in Functions
      /\ native[n].k \in {"call", "resume"} /\ Running = native[n].t /\ Running \in Threads
      /\ native \in Seq(RecordType) /\ Segment(native, Base, n) /\ Base \in 1 .. n
      /\ Linked(native, Base, n, Self) /\ native[Base].t = Running
  <2>1. Base \in Base .. n /\ Segment(native, Base, n) /\ Running = native[n].t
    BY <1>1, RunningLinked
  <2>2. native[Base].t = Running
    BY <2>1 DEF Segment
  <2> QED BY <1>1, <2>2, RunningLinked DEF Stacked
<1>3. Flagged(f) \in FrameType /\ Flagged(f).f = f /\ Frame("body") \in FrameType
      /\ Frame("body").f = "body" /\ f \in FrameKinds /\ "body" \in FrameKinds
  BY FrameFits DEF FrameKinds
<1>4. /\ q \in LooseType /\ q.ci = Self.ci \o <<Flagged(f)>> /\ Len(q.ci) = Len(Self.ci) + 1
      /\ Top(q.ci) = Flagged(f) /\ q.active = TRUE /\ q.status = "ok" /\ q.nC = Self.nC
      /\ q.baseC = Self.baseC /\ Len(Self.ci) \in Nat /\ q.fresh = Self.fresh
  BY <1>2, <1>3, PushFits
<1> HIDE DEF q
<1>5. /\ x \in LooseType /\ x.ci = q.ci /\ x.active = TRUE /\ x.status = "ok" /\ x.nC = Self.nC
      /\ x.baseC = Self.baseC + 1 /\ Self.baseC \in Int /\ x.fresh = Self.fresh /\ Self.nC \in Int
  <2>1. Self.baseC \in Int /\ q.baseC + 1 \in Int /\ Self.nC \in Int
    BY <1>2, <1>4, LooseFields
  <2>2. x = [q EXCEPT !.baseC = q.baseC + 1]
    BY DEF Entered, q
  <2> HIDE DEF x
  <2> QED BY <2>1, <2>2, <1>4, BaseAssigned
<1> HIDE DEF x
<1>6. /\ y \in LooseType /\ y.ci = q.ci /\ y.active = TRUE /\ y.status = "ok"
      /\ y.nC = Self.nC + 1 /\ y.baseC = Self.baseC + 1 /\ ~y.fresh
  BY <1>5, <1>2, CountedFits
<1> HIDE DEF y
<1>7. /\ r.k = "pcall" /\ r.t = Running /\ r.at = Len(Self.ci) + 1 /\ r.errf = f
      /\ r.nC = Self.nC /\ r.active = TRUE /\ r \in RecordType /\ Pos(r) = Len(Self.ci) + 1
  <2>1. Len(x.ci) \in Nat /\ Len(x.ci) = Len(Self.ci) + 1 /\ Top(x.ci).f = f
    BY <1>3, <1>4, <1>5
  <2>2. Self.nC \in 0 .. HardC
    BY <1>1, RunningFacts
  <2> QED BY <2>1, <2>2, <1>2, <1>3, <1>5 DEF PcallRec, RecordType, Pos
<1> HIDE DEF r
<1>8. Above(Self, y, Flagged(f)) /\ NoEnd(Self)
  BY <1>2, <1>3, <1>4, <1>6, OneAbove DEF NoEnd, Functions, Ends
<1>9. s[n + 1] = r /\ Agree(native, s, n) /\ Len(s) = n + 1 /\ s \in Seq(RecordType)
  BY <1>2, <1>7 DEF Agree
<1>10. Raising(native, Base, n, Self, s, y, Flagged(f))
  BY <1>2, <1>7, <1>8, <1>9 DEF Raising, Guards
<1>11. Recording(native, Base, n, Self, s, y)
  BY <1>2, <1>5, <1>6, <1>7, <1>9 DEF Recording
<1>12. Follows(Flagged(f).f, Top(Self.ci).f) /\ KindsOf(y) = Append(KindsOf(Self), f)
       /\ KindsOf(y) = KindsOf(Self) \o <<f>>
  <2>1. KindsOf(y) = Append(KindsOf(Self), Flagged(f).f) /\ KindsOf(y) = KindsOf(Self) \o <<Flagged(f).f>>
    BY <1>2, <1>6, <1>8, KindsAbove
  <2> QED BY <2>1, <1>2, <1>3 DEF Follows
<1>13. CoroutineInv'
  BY PcallKeeps
<1>14. CASE LimitError(y) # "none"
  <2>1. th' = [th EXCEPT ![Running] = y] /\ native' = s /\ signal' # "none"
    BY <1>1, <1>14
  <2>2. LinkInv' /\ Mapped(Running, y)
    BY <2>1, <1>1, <1>6, <1>7, <1>10, <1>11, <1>12, <1>13, RaiseStep
  <2> QED BY <2>1, <2>2, <1>1, <1>12, FailedAbove
<1>15. CASE LimitError(y) = "none"
  <2>1. /\ z \in LooseType /\ z.ci = y.ci \o <<Frame("body")>> /\ Len(z.ci) = Len(y.ci) + 1
        /\ z.status = y.status /\ z.nC = y.nC /\ z.baseC = y.baseC /\ z.fresh = y.fresh
        /\ Len(y.ci) \in Nat
    BY <1>3, <1>6, PushFits
  <2> HIDE DEF z
  <2>2. c.k = "call" /\ c.t = Running /\ c.at = Len(Self.ci) + 2 /\ c \in RecordType
    <3>1. Len(z.ci) = Len(Self.ci) + 2 /\ Len(z.ci) \in Nat
      BY <2>1, <1>4, <1>6
    <3> QED BY <3>1, <1>2 DEF CallRec, RecordType
  <2> HIDE DEF c
  <2>3. native' = Append(s, c) /\ th' = [th EXCEPT ![Running] = z] /\ signal' = "none"
    BY <1>1, <1>2, <1>7, <1>15, <2>2, TwoPushed
  <2>4. Linked(s, Base, n + 1, y)
    BY <1>2, <1>10, <1>11, <1>12, LinkedRaise
  <2>5. Standing(s, Base, n + 1, y)
    <3>1. \A i \in 1 .. n : Good(native, i)
      BY <1>2 DEF Standing
    <3>2. Pushable(native[n], r)
      <4>1. Pos(native[n]) <= Len(Self.ci) /\ Pos(native[n]) \in Nat
        BY <1>1, RunningPos
      <4>2. native[n] \in RecordType
        BY <1>1, RunningFacts
      <4> QED BY <4>1, <4>2, <1>2, <1>4, <1>7 DEF Pushable
    <3>3. Pos(r) <= Len(y.ci)
      BY <1>4, <1>6, <1>7
    <3> HIDE DEF s
    <3>4. s = Append(native, r)
      BY DEF s
    <3> HIDE DEF n
    <3>5. n = Len(native)
      BY DEF n
    <3>6. Standing(Append(native, r), Base, n + 1, y)
      BY <3>1, <3>2, <3>3, <3>5, <1>1, <1>2, <1>6, <1>7, PushStands
    <3> QED BY <3>4, <3>6
  <2> HIDE DEF s
  <2>6. /\ Len(native') = n + 2 /\ native'[n + 2] = c /\ Agree(s, native', n + 1)
        /\ Agree(native, native', Base) /\ native' # <<>>
    <3>1. Len(native') = n + 2 /\ native'[n + 2] = c /\ \A j \in 1 .. n + 1 : native'[j] = s[j]
      BY <1>2, <1>9, <2>2, <2>3
    <3>2. 1 .. Base \subseteq 1 .. n + 1 /\ 1 .. Base \subseteq 1 .. n
      BY <1>2
    <3>3. native' # <<>>
      BY <2>2, <2>3, <1>9
    <3> QED BY <3>1, <3>2, <3>3, <1>9 DEF Agree
  <2>7. Above(y, z, Frame("body")) /\ NoEnd(y) /\ y.ci # <<>> /\ Top(y.ci).f = f
    <3>1. Above(y, z, Frame("body"))
      BY <2>1, <1>3, <1>6, OneAbove
    <3> QED BY <3>1, <1>3, <1>4, <1>6 DEF NoEnd, Ends
  <2>8. Raising(s, Base, n + 1, y, native', z, Frame("body"))
    <3>1. (n + 1) + 1 = n + 2 /\ s[n + 1] = r /\ r.at = Len(y.ci) /\ Len(y.ci) + 1 = Len(Self.ci) + 2
      BY <1>2, <1>4, <1>6, <1>7, <1>9
    <3> QED BY <3>1, <2>2, <2>5, <2>6, <2>7, <1>7 DEF Raising
  <2>9. Recording(s, Base, n + 1, y, native', z)
    <3>1. (n + 1) + 1 = n + 2 /\ s[n + 1] = r /\ y.nC \in Int /\ y.baseC \in Int
      BY <1>2, <1>5, <1>6, <1>9
    <3>2. s[Base].t = Running
      BY <1>2, <1>9 DEF Agree
    <3> QED BY <3>1, <3>2, <2>1, <2>2, <2>6, <1>6, <1>7 DEF Recording
  <2>10. Linked(native', Base, (n + 1) + 1, z)
    <3>1. Follows(Frame("body").f, Top(y.ci).f)
      BY <2>7, <1>3 DEF Follows, Guards
    <3> QED BY <3>1, <2>4, <2>7, <2>8, <2>9, LinkedRaise
  <2>11. Segment(native', Base, Len(native')) /\ (n + 1) + 1 = Len(native')
    <3>1. Segment(s, Base, n + 1) /\ s[n + 1].t = Running /\ n + 1 \in Nat /\ (n + 1) + 1 = n + 2
      BY <2>5, <1>2, <1>7, <1>9 DEF Standing
    <3>2. Segment(native', Base, (n + 1) + 1)
      BY <3>1, <2>2, <2>6, SegmentGoesOn
    <3> QED BY <3>1, <3>2, <2>6
  <2>12. z.ci # <<>> /\ Top(z.ci).f \in Functions
    <3>1. z.ci[Len(z.ci)] = Frame("body") /\ z.ci # <<>>
      BY <2>1, <2>7 DEF Above
    <3> QED BY <3>1, <1>3 DEF Top, Functions
  <2>13. LinkInv' /\ Mapped(Running, z)
    BY <2>3, <2>6, <2>10, <2>11, <2>12, <1>1, <1>13, InnerStep
  <2>14. KindsOf(z) = KindsOf(Self) \o <<f, "body">> /\ Len(<<f, "body">>) = 2
    <3>1. KindsOf(z) = KindsOf(y) \o <<Frame("body").f>>
      BY <2>1, <2>7, <1>6, KindsAbove
    <3>2. KindsOf(Self) \in Seq(FrameKinds)
      BY <1>1, RunningMapped
    <3> QED BY <3>1, <3>2, <1>3, <1>12, TwoKinds, ZenonT(60)
  <2>15. Abstract!Place(Running, <<f, "body">>)
    BY <1>1, <2>13, <2>14, RunningMapped DEF Abstract!Place, Abstract!Put, Mapped
  <2>16. Abstract!Protect(Running)
    BY <1>1, <2>3, <2>13, <2>15, RunningMapped DEF Abstract!Protect, Abstract!Calm, Mapped
  <2> QED BY <1>1, <2>13, <2>16, RunningMapped DEF Abstract!Next
<1> QED BY <1>14, <1>15

-----------------------------------------------------------------------------
(* Functions that return. *)

\* resume_continue finishes the frames of pcall and xpcall on top.
LEMMA ContinuedCut ==
  ASSUME NEW x \in LooseType, NEW m \in 0 .. Len(x.ci),
         \A k \in m + 1 .. Len(x.ci) : x.ci[k].f \in Guards,
         m # 0 => x.ci[m].f \notin Guards
  PROVE  /\ Continued(x).ci = SubSeq(x.ci, 1, m) /\ CutTo(x, Continued(x), m)
         /\ Continued(x).status = x.status /\ Continued(x).fresh = x.fresh
         /\ Continued(x).nC = x.nC /\ Continued(x).baseC = x.baseC
<1> DEFINE n == Len(x.ci)
           I == {i \in 1 .. n : x.ci[i].f \notin {"pcall", "xpcall"}}
           p == SelectLastInSeq(x.ci, LAMBDA fr : fr.f \notin {"pcall", "xpcall"})
<1>1. x.ci \in Seq(FrameType) /\ n \in Nat /\ m \in Nat /\ m <= n
  BY LooseFields
<1>2. p = IF I # {} THEN Max(I) ELSE 0
  BY DEF SelectLastInSeq
<1>3. \A i \in I : i <= m
  <2> SUFFICES ASSUME NEW i \in 1 .. n, x.ci[i].f \notin {"pcall", "xpcall"}, ~(i <= m) PROVE FALSE
    OBVIOUS
  <2>1. i \in m + 1 .. n
    BY <1>1
  <2> QED BY <2>1 DEF Guards
<1>4. m # 0 => m \in I
  BY <1>1 DEF Guards
<1>5. m = 0 => I = {}
  BY <1>1, <1>3
<1>6. I \subseteq Nat
  OBVIOUS
<1> HIDE DEF I
<1>7. m # 0 => Max(I) = m
  <2> SUFFICES ASSUME m # 0 PROVE Max(I) = m
    OBVIOUS
  <2>1. m \in I /\ \A j \in I : m >= j
    BY <1>1, <1>3, <1>4, <1>6
  <2>2. \E i \in I : \A j \in I : i >= j
    BY <2>1
  <2>3. Max(I) \in I /\ \A j \in I : Max(I) >= j
    BY <2>2, Zenon DEF Max
  <2> DEFINE M == Max(I)
  <2>4. M \in I /\ M >= m
    BY <2>1, <2>3
  <2> HIDE DEF M
  <2>5. M \in Nat /\ M <= m
    BY <2>4, <1>3, <1>6
  <2>6. M = m
    BY <2>4, <2>5, <1>1
  <2> QED BY <2>6 DEF M
<1>8. p = m
  BY <1>2, <1>4, <1>5, <1>7
<1> HIDE DEF p
<1>9. Continued(x) = [x EXCEPT !.ci = SubSeq(x.ci, 1, m)]
  BY <1>8 DEF Continued, p
<1>10. SubSeq(x.ci, 1, m) \in Seq(FrameType) /\ Len(SubSeq(x.ci, 1, m)) = m
       /\ \A k \in 1 .. m : SubSeq(x.ci, 1, m)[k] = x.ci[k]
  BY <1>1
<1>11. /\ Continued(x) \in LooseType /\ Continued(x).ci = SubSeq(x.ci, 1, m)
       /\ Continued(x).status = x.status /\ Continued(x).fresh = x.fresh
       /\ Continued(x).nC = x.nC /\ Continued(x).baseC = x.baseC
  <2> DEFINE w == SubSeq(x.ci, 1, m)
  <2>1. w \in Seq(FrameType) /\ Continued(x) = [x EXCEPT !.ci = w]
    BY <1>9, <1>10
  <2> HIDE DEF w
  <2>2. /\ Continued(x) \in LooseType /\ Continued(x).ci = w
        /\ Continued(x).status = x.status /\ Continued(x).fresh = x.fresh
        /\ Continued(x).nC = x.nC /\ Continued(x).baseC = x.baseC
    BY <2>1, FramesAssigned
  <2> QED BY <2>2 DEF w
<1> QED BY <1>1, <1>10, <1>11 DEF CutTo

\* What the frames of the thread that runs stand on.
LEMMA StoodOn ==
  ASSUME NEW x \in LooseType, Shaped(x), NEW k \in 1 .. Len(x.ci)
  PROVE  /\ k \in Nat /\ Len(x.ci) \in Nat
         /\ k = 1 => x.ci[k].f = "body"
         /\ k # 1 => k - 1 \in 1 .. Len(x.ci) /\ Follows(x.ci[k].f, x.ci[k - 1].f)
<1>1. Len(x.ci) \in Nat
  BY LooseFields
<1> QED BY <1>1 DEF Shaped

\* A frame of pcall or xpcall stands on one that runs bytecode.
LEMMA GuardsStandOn ==
  ASSUME NEW x \in LooseType, Shaped(x), NEW k \in 1 .. Len(x.ci), x.ci[k].f \in Guards \cup {"lua", "tm"}
  PROVE  /\ k - 1 \in 1 .. Len(x.ci) /\ k - 1 # 0 /\ x.ci[k - 1].f \in Functions
         /\ x.ci[k - 1].f \notin Guards
<1>1. k # 1
  BY StoodOn DEF Guards
<1> QED BY <1>1, StoodOn DEF Follows, Guards, Functions

\* The frame that the top record called is the one on top.
LEMMA CalledOnTop ==
  ASSUME NEW s, NEW b, NEW n, NEW x, Standing(s, b, n, x), Linked(s, b, n, x),
         s[n].k \in {"call", "resume"}, x.ci # <<>>, Top(x.ci).f \in Functions \ {"lua"}
  PROVE  /\ Len(x.ci) \in Nat \ {0} /\ Top(x.ci) = x.ci[Len(x.ci)]
         /\ s[n].k = "call" => s[n].at = Len(x.ci) /\ Owner(s, x, n) /\ n - 1 \in b .. n /\ n - 1 # n
         /\ s[n].k = "resume" => Top(x.ci).f = "body" /\ b = n
<1>1. /\ b \in Nat /\ 1 <= b /\ n \in Nat /\ b <= n /\ Len(x.ci) \in Nat
      /\ n \in b .. n
      /\ \A j \in b .. n : /\ Pos(s[j]) \in Nat /\ Pos(s[j]) <= Len(x.ci)
                           /\ (s[j].k = "resume" <=> j = b)
                           /\ s[j].k \in {"call", "pcall"} => s[j].at = Pos(s[j])
  BY StandingFacts
<1>2. Owner(s, x, n) /\ Ran(s, n, x, n)
  BY <1>1 DEF Linked, Woven
<1>3. Len(x.ci) \in Nat \ {0} /\ Top(x.ci) = x.ci[Len(x.ci)]
  <2>1. x.ci \in Seq(FrameType)
    BY LooseFields DEF Standing
  <2> QED BY <2>1, <1>1 DEF Top
<1>4. \A k \in Pos(s[n]) + 1 .. Len(x.ci) :
          \/ x.ci[k].f = "lua"
          \/ s[n].k = "resume" /\ x.ci[k].f \in Guards \cup {"body"}
          \/ k = Len(x.ci) /\ x.ci[k].f \in Ends
  BY <1>2 DEF Ran, Upto
<1>5. CASE s[n].k = "call"
  <2>1. s[n].at = Pos(s[n]) /\ Pos(s[n]) \in Nat /\ Pos(s[n]) <= Len(x.ci) /\ n # b
    BY <1>1, <1>5
  <2>2. ~(Pos(s[n]) < Len(x.ci))
    <3> SUFFICES ASSUME Pos(s[n]) < Len(x.ci) PROVE FALSE
      OBVIOUS
    <3>1. Len(x.ci) \in Pos(s[n]) + 1 .. Len(x.ci)
      BY <2>1, <1>3
    <3> QED BY <3>1, <1>3, <1>4, <1>5 DEF Functions, Ends
  <2> QED BY <2>1, <2>2, <1>1, <1>2, <1>3, <1>5
<1>6. CASE s[n].k = "resume"
  <2>1. Pos(s[n]) = 0 /\ n = b
    BY <1>1, <1>6 DEF Pos
  <2>2. Len(x.ci) \in Pos(s[n]) + 1 .. Len(x.ci)
    BY <2>1, <1>3
  <2> QED BY <2>1, <2>2, <1>3, <1>4, <1>6 DEF Functions, Ends, Guards
<1> QED BY <1>5, <1>6

\* Counters of a linked segment, one by one.
LEMMA LinkedCounts ==
  ASSUME NEW s, NEW b, NEW n, NEW x, Standing(s, b, n, x), Linked(s, b, n, x)
  PROVE  /\ Started0(s, b, n, x) \in Int /\ x.nC \in Int /\ x.baseC \in Int
         /\ \A i \in b .. n : Here(s, Started0(s, b, n, x), i) \in Int /\ Over(s, b, i) \in {0, 1}
         /\ x.nC >= Here(s, Started0(s, b, n, x), n) + Over(s, b, n) + (IF s[n].k = "pcall" THEN 1 ELSE 0)
         /\ \A i \in b .. n : s[i].k \in {"pcall", "cont"} =>
              s[i].nC >= Here(s, Started0(s, b, n, x), i) + Over(s, b, i)
<1>1. Started0(s, b, n, x) \in Int /\ x.nC \in Int /\ x.baseC \in Int /\ n \in Nat /\ b \in 1 .. n
  BY StandingCounts
<1>2. ASSUME NEW i \in b .. n PROVE Here(s, Started0(s, b, n, x), i) \in Int /\ Over(s, b, i) \in {0, 1}
  <2>1. Calls(s, i, s[i].t) \in Nat
    BY <1>1, NumberType DEF Calls
  <2> QED BY <2>1, <1>1 DEF Here, Over
<1>3. Saves(s, b, n, Started0(s, b, n, x)) /\ Tops(s, b, n, Started0(s, b, n, x), x)
  BY DEF Linked, Stretched, Started0
<1> QED BY <1>1, <1>2, <1>3 DEF Saves, Tops

\* Neighbouring records.
Stepping(s, b, n, x, c, i, base) ==
  Standing(s, b, n, x) /\ c \in b .. n /\ i \in b .. n /\ i = c + 1 /\ base \in Int

\* How their counters differ.
LEMMA StepDown ==
  ASSUME NEW s, NEW b, NEW n, NEW x, NEW c, NEW i, NEW base, Stepping(s, b, n, x, c, i, base)
  PROVE  /\ s[i].t = s[b].t /\ s[c].t = s[b].t
         /\ Here(s, base, i) = Here(s, base, c) + (IF s[i].k = "call" THEN 1 ELSE 0)
         /\ Pcalls(s, i, s[b].t) = Pcalls(s, c, s[b].t) + (IF s[i].k = "pcall" THEN 1 ELSE 0)
         /\ Over(s, b, i) >= Over(s, b, c)
         /\ Pcalls(s, c, s[b].t) \in Nat /\ Here(s, base, c) \in Int
         /\ Over(s, b, i) \in {0, 1} /\ Over(s, b, c) \in {0, 1}
<1>1. /\ b \in Nat /\ 1 <= b /\ n \in Nat /\ b <= n /\ b \in b .. n
      /\ c \in b .. n /\ i \in b .. n /\ i = c + 1 /\ base \in Int
      /\ \A j \in b .. n : s[j].t = s[n].t
  BY StandingFacts DEF Stepping
<1>2. i \in Nat \ {0} /\ i - 1 = c /\ c <= i
  BY <1>1
<1>3. s[i].t = s[b].t /\ s[c].t = s[b].t
  BY <1>1
<1>4. /\ Calls(s, i, s[b].t) = Calls(s, i - 1, s[b].t) + (IF s[i].t = s[b].t /\ s[i].k = "call" THEN 1 ELSE 0)
      /\ Pcalls(s, i, s[b].t) = Pcalls(s, i - 1, s[b].t) + (IF s[i].t = s[b].t /\ s[i].k = "pcall" THEN 1 ELSE 0)
      /\ Calls(s, i - 1, s[b].t) \in Nat /\ Pcalls(s, i - 1, s[b].t) \in Nat
  BY <1>2, TopCounts
<1>5. Over(s, b, i) >= Over(s, b, c) /\ Over(s, b, i) \in {0, 1} /\ Over(s, b, c) \in {0, 1}
  <2>1. b .. c \subseteq b .. i
    BY <1>1, <1>2
  <2> QED BY <2>1 DEF Over
<1>6. /\ Calls(s, i, s[b].t) = Calls(s, c, s[b].t) + (IF s[i].k = "call" THEN 1 ELSE 0)
      /\ Pcalls(s, i, s[b].t) = Pcalls(s, c, s[b].t) + (IF s[i].k = "pcall" THEN 1 ELSE 0)
      /\ Calls(s, c, s[b].t) \in Nat /\ Pcalls(s, c, s[b].t) \in Nat
  BY <1>2, <1>3, <1>4
<1>7. Here(s, base, i) = base + Calls(s, i, s[b].t) /\ Here(s, base, c) = base + Calls(s, c, s[b].t)
  BY <1>3 DEF Here
<1>8. /\ Here(s, base, i) = Here(s, base, c) + (IF s[i].k = "call" THEN 1 ELSE 0)
      /\ Here(s, base, c) \in Int
  BY <1>1, <1>6, <1>7
<1> QED BY <1>3, <1>5, <1>6, <1>8

\* A cut cut again.
LEMMA CutKinds ==
  ASSUME NEW s \in Seq(FrameKinds), NEW m \in Nat, m <= Len(s)
  PROVE  /\ SubSeq(s, 1, m) \in Seq(FrameKinds) /\ Len(SubSeq(s, 1, m)) = m
         /\ \A k \in 1 .. m : SubSeq(s, 1, m)[k] = s[k]
         /\ \A k \in Nat : k <= m => SubSeq(SubSeq(s, 1, m), 1, k) = SubSeq(s, 1, k)
<1>1. SubSeq(s, 1, m) \in Seq(FrameKinds) /\ Len(SubSeq(s, 1, m)) = m
      /\ \A k \in 1 .. m : SubSeq(s, 1, m)[k] = s[k]
  OBVIOUS
<1> SUFFICES ASSUME NEW k \in Nat, k <= m PROVE SubSeq(SubSeq(s, 1, m), 1, k) = SubSeq(s, 1, k)
  BY <1>1
<1> DEFINE a == SubSeq(s, 1, m)
           d == SubSeq(a, 1, k)
           e == SubSeq(s, 1, k)
<1>2. a \in Seq(FrameKinds) /\ Len(a) = m /\ \A j \in 1 .. m : a[j] = s[j]
  BY <1>1
<1> HIDE DEF a
<1>3. d \in Seq(FrameKinds) /\ Len(d) = k /\ \A j \in 1 .. k : d[j] = a[j]
  BY <1>2
<1>4. e \in Seq(FrameKinds) /\ Len(e) = k /\ \A j \in 1 .. k : e[j] = s[j]
  OBVIOUS
<1>5. \A j \in 1 .. k : d[j] = e[j]
  BY <1>2, <1>3, <1>4
<1> HIDE DEF d, e
<1>6. d = e
  BY <1>3, <1>4, <1>5, SeqEqual
<1> QED BY <1>6 DEF a, d, e

\* What the abstract module says of such a cut.
Returned(y, m) ==
  /\ Mapped(Running, y) /\ KindsOf(y) = SubSeq(KindsOf(Self), 1, m)
  /\ \/ m = Len(Self.ci) - 1 /\ Self.ci[Len(Self.ci)].f \in {"lua", "tm"}
     \/ m = Len(Self.ci) - 2 /\ Self.ci[Len(Self.ci)].f = "body" /\ m >= 0

\* Such a return is one of the abstract module.
LEMMA ReturnMaps ==
  ASSUME CoroutineInv, LinkInv, native # <<>>, Self.ci # <<>>, signal = "none", signal' = "none",
         NEW m, NEW y, Returned(y, m)
  PROVE  Abstract!Next
<1> DEFINE s == KindsOf(Self)
           L == Len(s)
           below == SubSeq(s, 1, L - 1)
<1>1. /\ StackOf(th)[Running] = s /\ LifeOf(native, th)[Running] = "running"
      /\ Running \in Threads /\ s \in Seq(FrameKinds) /\ L = Len(Self.ci) /\ L \in Nat \ {0}
      /\ \A k \in 1 .. L : s[k] = Self.ci[k].f
  <2>1. Len(Self.ci) # 0
    BY RunningMapped
  <2> QED BY <2>1, RunningMapped
<1>2. s[L] = Self.ci[Len(Self.ci)].f
  BY <1>1
<1> HIDE DEF s
<1>3. below \in Seq(FrameKinds) /\ Len(below) = L - 1 /\ L - 1 \in Nat
  BY <1>1, CutKinds
<1>4. L - 2 >= 0 => below # <<>> /\ SubSeq(below, 1, Len(below) - 1) = SubSeq(s, 1, L - 2)
  <2> SUFFICES ASSUME L - 2 >= 0
               PROVE  below # <<>> /\ SubSeq(below, 1, Len(below) - 1) = SubSeq(s, 1, L - 2)
    OBVIOUS
  <2> DEFINE k == L - 2
             j == L - 1
  <2>1. k \in Nat /\ k <= j /\ j \in Nat /\ j <= L /\ Len(below) - 1 = k /\ below = SubSeq(s, 1, j)
    BY <1>1, <1>3
  <2> HIDE DEF k, j, below
  <2>2. SubSeq(below, 1, k) = SubSeq(s, 1, k)
    <3>1. SubSeq(SubSeq(s, 1, j), 1, k) = SubSeq(s, 1, k)
      BY <2>1, <1>1, CutKinds
    <3> QED BY <2>1, <3>1
  <2>3. below # <<>>
    BY <2>1, <1>3
  <2> QED BY <2>1, <2>2, <2>3 DEF k
<1>5. StackOf(th)' = [StackOf(th) EXCEPT ![Running] = SubSeq(s, 1, m)]
  BY DEF Returned, Mapped, s
<1>6. CASE m = L - 1 /\ s[L] \in {"lua", "tm"}
  <2>1. Abstract!Put(Running, below)
    BY <1>5, <1>6 DEF Abstract!Put
  <2> HIDE DEF below
  <2>2. Abstract!Return(Running)
    BY <1>1, <1>6, <2>1 DEF Abstract!Return, Abstract!Top, Abstract!Front, Abstract!Calm, below,
       Returned, Mapped
  <2> QED BY <2>2, <1>1 DEF Abstract!Next
<1>7. CASE m = L - 2 /\ s[L] = "body" /\ m >= 0
  <2>1. Abstract!Put(Running, SubSeq(below, 1, Len(below) - 1)) /\ below # <<>>
    BY <1>4, <1>5, <1>7 DEF Abstract!Put
  <2> HIDE DEF below
  <2>2. Abstract!Return(Running)
    BY <1>1, <1>7, <2>1 DEF Abstract!Return, Abstract!Top, Abstract!Front, Abstract!Calm, below,
       Returned, Mapped
  <2> QED BY <2>2, <1>1 DEF Abstract!Next
<1> QED BY <1>1, <1>2, <1>6, <1>7 DEF Returned

\* The thread that runs, before it returns.
LEMMA ReturningFacts ==
  ASSUME CoroutineInv, LinkInv, native # <<>>, signal = "none", NEW n, n = Len(native)
  PROVE  /\ n \in Nat /\ Base \in 1 .. n /\ native \in Seq(RecordType)
         /\ Standing(native, Base, n, Self) /\ Linked(native, Base, n, Self) /\ Shaped(Self)
         /\ Self \in LooseType /\ Self.status = "ok" /\ ~Self.fresh /\ Self.ci # <<>>
         /\ Len(Self.ci) \in Nat \ {0} /\ Len(Self.ci) \in 1 .. Len(Self.ci)
         /\ Top(Self.ci) = Self.ci[Len(Self.ci)] /\ Top(Self.ci).f \in Functions
         /\ native[n].k \in {"call", "resume"}
         /\ Front(Self.ci) = SubSeq(Self.ci, 1, Len(Self.ci) - 1)
         /\ Front(Self.ci) \in Seq(FrameType)
<1>1. /\ n \in Nat /\ Base \in 1 .. n /\ native \in Seq(RecordType)
      /\ Standing(native, Base, n, Self) /\ Linked(native, Base, n, Self)
      /\ Self \in LooseType /\ Self.status = "ok" /\ ~Self.fresh /\ Self.ci # <<>>
      /\ Top(Self.ci).f \in Functions
      /\ native[n].k \in {"call", "resume"}
  BY RunningLinked DEF Stacked
<1>2. Len(Self.ci) \in Nat \ {0} /\ Self.ci \in Seq(FrameType)
  BY <1>1, LooseFields
<1>3. Top(Self.ci) = Self.ci[Len(Self.ci)]
  BY DEF Top
<1>4. Front(Self.ci) = SubSeq(Self.ci, 1, Len(Self.ci) - 1) /\ Front(Self.ci) \in Seq(FrameType)
  BY <1>1, <1>2, FrontFits
<1>5. Len(Self.ci) \in 1 .. Len(Self.ci)
  BY <1>2
<1> QED BY <1>1, <1>2, <1>3, <1>4, <1>5 DEF Linked

\* The first frames of a thread.
LEMMA FirstFrames ==
  ASSUME NEW x \in LooseType, NEW m \in Nat, m <= Len(x.ci), NEW y \in LooseType,
         y.ci = SubSeq(x.ci, 1, m)
  PROVE  CutTo(x, y, m)
<1>1. x.ci \in Seq(FrameType) /\ Len(x.ci) \in Nat
  BY LooseFields
<1>2. Len(SubSeq(x.ci, 1, m)) = m /\ \A k \in 1 .. m : SubSeq(x.ci, 1, m)[k] = x.ci[k]
  BY <1>1
<1> QED BY <1>2 DEF CutTo

\* A Lua function returns to a Lua function of the same luau_execute.
LEMMA ReturnLuaMaps ==
  ASSUME CoroutineInv, LinkInv, native # <<>>, signal = "none", Top(Self.ci).f = "lua",
         th' = [th EXCEPT ![Running] = [Self EXCEPT !.ci = Front(@)]], UNCHANGED <<native, signal>>
  PROVE  LinkInv' /\ Abstract!Next
<1> DEFINE n == Len(native)
           m == Len(Self.ci) - 1
           y == [Self EXCEPT !.ci = Front(@)]
<1>1. /\ n \in Nat /\ Base \in 1 .. n /\ native \in Seq(RecordType)
      /\ Standing(native, Base, n, Self) /\ Linked(native, Base, n, Self) /\ Shaped(Self)
      /\ Self \in LooseType /\ Self.status = "ok" /\ ~Self.fresh /\ Self.ci # <<>>
      /\ Len(Self.ci) \in Nat \ {0} /\ Len(Self.ci) \in 1 .. Len(Self.ci)
      /\ Top(Self.ci) = Self.ci[Len(Self.ci)]
      /\ native[n].k \in {"call", "resume"}
      /\ Front(Self.ci) = SubSeq(Self.ci, 1, m)
      /\ Front(Self.ci) \in Seq(FrameType)
  BY ReturningFacts
<1>2. /\ y \in LooseType /\ y.ci = SubSeq(Self.ci, 1, m) /\ y.status = Self.status
      /\ y.nC = Self.nC /\ y.baseC = Self.baseC /\ y.fresh = Self.fresh
  BY <1>1, FramesAssigned
<1>3. th' = [th EXCEPT ![Running] = y]
  OBVIOUS
<1> HIDE DEF y
<1>4. m \in Nat /\ m # 0 /\ Self.ci[m].f \in Functions /\ m <= Len(Self.ci)
  <2>1. Self.ci[Len(Self.ci)].f \in Guards \cup {"lua", "tm"}
    BY <1>1
  <2>2. m # 0 /\ Self.ci[m].f \in Functions
    BY <2>1, <1>1, GuardsStandOn
  <2> QED BY <2>2, <1>1
<1>5. CutTo(Self, y, m)
  BY <1>1, <1>2, <1>4, FirstFrames
<1>6. n \in Base .. n /\ Pos(native[n]) <= m
  <2>1. n \in Base .. n
    BY <1>1
  <2>2. /\ Pos(native[n]) \in Nat /\ Pos(native[n]) <= Len(Self.ci)
        /\ native[n].k = "call" => native[n].at = Pos(native[n])
    BY <1>1, <2>1, StandingFacts
  <2>3. Pos(native[n]) # Len(Self.ci)
    <3>1. CASE native[n].k = "resume"
      BY <3>1, <1>1 DEF Pos
    <3>2. CASE native[n].k = "call"
      <4>1. Owner(native, Self, n)
        BY <1>1, <2>1 DEF Linked, Woven
      <4>2. Self.ci[native[n].at].f # "lua"
        BY <3>2, <4>1 DEF Owner
      <4> QED BY <2>2, <3>2, <4>2, <1>1
    <3> QED BY <3>1, <3>2, <1>1
  <2> QED BY <2>1, <2>2, <2>3, <1>1
<1>7. Cutting(native, Base, n, Self, n, y, m)
  <2>1. m <= Upto(native, n, Self, n)
    BY <1>1 DEF Upto
  <2> QED BY <2>1, <1>1, <1>5, <1>6 DEF Cutting
<1>8. Recounted(native, Base, n, Self, n, y)
  <2>1. Started0(native, Base, n, y) = Started0(native, Base, n, Self)
    BY <1>2 DEF Started0
  <2>2. y.nC >= Here(native, Started0(native, Base, n, Self), n) + Over(native, Base, n)
    <3>1. /\ Self.nC >= Here(native, Started0(native, Base, n, Self), n) + Over(native, Base, n)
                        + (IF native[n].k = "pcall" THEN 1 ELSE 0)
          /\ Here(native, Started0(native, Base, n, Self), n) \in Int /\ Over(native, Base, n) \in {0, 1}
      BY <1>1, <1>6, LinkedCounts
    <3> QED BY <3>1, <1>1, <1>2
  <2> QED BY <2>1, <2>2, <1>1, <1>2 DEF Recounted
<1>9. native' = SubSeq(native, 1, n)
  <2>1. SubSeq(native, 1, n) = native
    BY <1>1
  <2> QED BY <2>1
<1>10. CoroutineInv'
  BY ReturnLua
<1>11. LinkInv' /\ Mapped(Running, y) /\ KindsOf(y) = SubSeq(KindsOf(Self), 1, m)
  <2>1. y.status = "ok"
    BY <1>1, <1>2
  <2> HIDE DEF m
  <2> QED BY <2>1, <1>3, <1>4, <1>7, <1>8, <1>9, <1>10, CutStep, ZenonT(60)
<1>12. Returned(y, m)
  BY <1>1, <1>11 DEF Returned
<1> QED BY <1>1, <1>11, <1>12, ReturnMaps

\* The frames and records that a return or an error leaves.
CutDown(c, m, y) == /\ Cutting(native, Base, Len(native), Self, c, y, m)
                    /\ Recounted(native, Base, Len(native), Self, c, y)
                    /\ th' = [th EXCEPT ![Running] = y] /\ native' = SubSeq(native, 1, c)
                    /\ y.status = "ok" /\ m # 0 /\ Self.ci[m].f \in Functions

\* They are linked, and are what scripts see.
LEMMA CutDownLinks ==
  ASSUME CoroutineInv, CoroutineInv', LinkInv, native # <<>>, NEW c, NEW m, NEW y, CutDown(c, m, y)
  PROVE  /\ LinkInv' /\ Mapped(Running, y) /\ KindsOf(y) = SubSeq(KindsOf(Self), 1, m)
         /\ Life(native, Self, Running) = "running"
BY CutStep DEF CutDown

\* What such a return leaves of the thread.
PoppedCall(x) == [[x EXCEPT !.ci = Front(@)] EXCEPT !.nC = @ - 1]
PoppedPcall(x) == [PoppedCall(x) EXCEPT !.ci = Front(@), !.baseC = @ - 1]

\* A metamethod returns to the C++ function that called it.
LEMMA ReturnCallMaps ==
  ASSUME CoroutineInv, LinkInv, native # <<>>, signal = "none", NEW n, n = Len(native),
         Top(Self.ci).f # "lua", native[n].k = "call", native[n - 1].k \in {"call", "resume"},
         th' = [th EXCEPT ![Running] = PoppedCall(Self)],
         native' = Front(native), UNCHANGED signal
  PROVE  LinkInv' /\ Abstract!Next
<1> DEFINE m == Len(Self.ci) - 1
           c == n - 1
           q == [Self EXCEPT !.ci = Front(@)]
           y == PoppedCall(Self)
<1>1. /\ n \in Nat /\ Base \in 1 .. n /\ native \in Seq(RecordType)
      /\ Standing(native, Base, n, Self) /\ Linked(native, Base, n, Self) /\ Shaped(Self)
      /\ Self \in LooseType /\ Self.status = "ok" /\ ~Self.fresh /\ Self.ci # <<>>
      /\ Len(Self.ci) \in Nat \ {0} /\ Len(Self.ci) \in 1 .. Len(Self.ci)
      /\ Top(Self.ci) = Self.ci[Len(Self.ci)] /\ Top(Self.ci).f \in Functions \ {"lua"}
      /\ Front(Self.ci) = SubSeq(Self.ci, 1, m)
      /\ Front(Self.ci) \in Seq(FrameType)
  BY ReturningFacts
<1>2. native[n].at = Len(Self.ci) /\ Owner(native, Self, n) /\ c \in Base .. n /\ c # n /\ Base \in Nat
  BY <1>1, CalledOnTop
<1>3. Self.ci[Len(Self.ci)].f = "tm"
  BY <1>2 DEF Owner
<1>4. m \in Nat /\ m # 0 /\ Self.ci[m].f \in Functions /\ m <= Len(Self.ci)
  <2>1. m # 0 /\ Self.ci[m].f \in Functions
    BY <1>3, <1>1, GuardsStandOn
  <2> QED BY <2>1, <1>1
<1>5. /\ y \in LooseType /\ y.ci = SubSeq(Self.ci, 1, m) /\ y.status = "ok"
      /\ y.nC = Self.nC - 1 /\ y.baseC = Self.baseC /\ y.fresh = Self.fresh /\ Self.nC \in Int
  <2>1. /\ q \in LooseType /\ q.ci = SubSeq(Self.ci, 1, m) /\ q.status = "ok"
        /\ q.nC = Self.nC /\ q.baseC = Self.baseC /\ q.fresh = Self.fresh
    BY <1>1, FramesAssigned, ZenonT(60)
  <2>2. Self.nC \in Int
    BY <1>1, LooseFields
  <2>5. y = [q EXCEPT !.nC = q.nC - 1]
    BY DEF PoppedCall
  <2> HIDE DEF q, y
  <2>3. y = [q EXCEPT !.nC = q.nC - 1] /\ q.nC - 1 \in Int
    BY <2>1, <2>2, <2>5
  <2>4. /\ y \in LooseType /\ y.ci = q.ci /\ y.status = q.status
        /\ y.nC = q.nC - 1 /\ y.baseC = q.baseC /\ y.fresh = q.fresh
    BY <2>1, <2>3, CountAssigned
  <2> QED BY <2>1, <2>2, <2>4
<1>6. th' = [th EXCEPT ![Running] = y]
  OBVIOUS
<1> HIDE DEF y, q
<1>7. CutTo(Self, y, m)
  BY <1>1, <1>4, <1>5, FirstFrames
<1>8. Pos(native[c]) <= m /\ n = c + 1
  <2>1. c \in Base .. n - 1 /\ n \in Base .. n /\ n = c + 1
    BY <1>1, <1>2
  <2>2. Pos(native[c]) < native[n].at /\ Pos(native[c]) \in Nat
    BY <1>1, <1>2, <2>1, StandingFacts
  <2> QED BY <2>1, <2>2, <1>1, <1>2
<1>9. Cutting(native, Base, n, Self, c, y, m)
  <2>1. m <= Upto(native, n, Self, c)
    BY <1>1, <1>2, <1>8 DEF Upto
  <2> QED BY <2>1, <1>1, <1>2, <1>7, <1>8 DEF Cutting
<1>10. Recounted(native, Base, n, Self, c, y)
  <2> DEFINE base == Started0(native, Base, n, Self)
  <2>1. n \in Base .. n /\ n = c + 1
    BY <1>1, <1>2
  <2>2. /\ base \in Int
        /\ Self.nC >= Here(native, base, n) + Over(native, Base, n) + (IF native[n].k = "pcall" THEN 1 ELSE 0)
        /\ Here(native, base, n) \in Int /\ Over(native, Base, n) \in {0, 1}
    BY <1>1, <2>1, LinkedCounts
  <2> HIDE DEF base, c
  <2>3. /\ Here(native, base, n) = Here(native, base, c) + 1
        /\ Pcalls(native, n, native[Base].t) = Pcalls(native, c, native[Base].t)
        /\ Over(native, Base, n) >= Over(native, Base, c)
        /\ Here(native, base, c) \in Int /\ Over(native, Base, c) \in {0, 1}
    <3>1. Stepping(native, Base, n, Self, c, n, base)
      BY <1>1, <1>2, <2>1, <2>2 DEF Stepping
    <3> QED BY <3>1, StepDown
  <2>4. y.nC >= Here(native, base, c) + Over(native, Base, c)
    BY <2>2, <2>3, <1>5
  <2> QED BY <2>3, <2>4, <1>1, <1>5 DEF Recounted, Started0, base
<1>11. native' = SubSeq(native, 1, c) /\ native[c].k \in {"call", "resume"}
  BY <1>1 DEF Front
<1>12. CoroutineInv'
  BY ReturnCall DEF PoppedCall
<1>13. LinkInv' /\ Mapped(Running, y) /\ KindsOf(y) = SubSeq(KindsOf(Self), 1, m)
  <2> HIDE DEF m, c
  <2>1. CutDown(c, m, y)
    BY <1>4, <1>5, <1>6, <1>9, <1>10, <1>11 DEF CutDown
  <2> QED BY <2>1, <1>12, CutDownLinks
<1>14. Returned(y, m)
  BY <1>3, <1>13 DEF Returned
<1> QED BY <1>1, <1>13, <1>14, ReturnMaps

\* The function that pcall called returns, and so does pcall.
LEMMA ReturnPcallMaps ==
  ASSUME CoroutineInv, LinkInv, native # <<>>, signal = "none", NEW n, n = Len(native),
         Top(Self.ci).f # "lua", native[n].k = "call", native[n - 1].k = "pcall",
         th' = [th EXCEPT ![Running] = PoppedPcall(Self)], native' = SubSeq(native, 1, n - 2), UNCHANGED signal
  PROVE  LinkInv' /\ Abstract!Next
<1> DEFINE l == Len(Self.ci) - 1
           m == Len(Self.ci) - 2
           d == n - 1
           c == n - 2
           q == [Self EXCEPT !.ci = Front(@)]
           p == PoppedCall(Self)
           y == PoppedPcall(Self)
<1>1. /\ n \in Nat /\ Base \in 1 .. n /\ native \in Seq(RecordType)
      /\ Standing(native, Base, n, Self) /\ Linked(native, Base, n, Self) /\ Shaped(Self)
      /\ Self \in LooseType /\ Self.status = "ok" /\ ~Self.fresh /\ Self.ci # <<>>
      /\ Len(Self.ci) \in Nat \ {0} /\ Len(Self.ci) \in 1 .. Len(Self.ci)
      /\ Top(Self.ci) = Self.ci[Len(Self.ci)] /\ Top(Self.ci).f \in Functions \ {"lua"}
      /\ Front(Self.ci) = SubSeq(Self.ci, 1, l)
      /\ Front(Self.ci) \in Seq(FrameType) /\ Len(Front(Self.ci)) = l
  <2>1. Len(Front(Self.ci)) = Len(Self.ci) - 1
    <3>1. Front(Self.ci) = SubSeq(Self.ci, 1, l) /\ Self.ci \in Seq(FrameType)
          /\ Len(Self.ci) \in Nat \ {0}
      BY ReturningFacts, LooseFields
    <3> QED BY <3>1
  <2> QED BY <2>1, ReturningFacts
<1>2. native[n].at = Len(Self.ci) /\ Owner(native, Self, n) /\ d \in Base .. n /\ d # n /\ Base \in Nat
  BY <1>1, CalledOnTop, SMTT(30)
<1>a. n = d + 1 /\ d = c + 1 /\ d - 1 = c /\ native[d].k = "pcall" /\ n - 1 = d /\ c \in Int
  BY <1>1
<1>b. l - 1 = m /\ l \in Nat /\ m \in Int /\ (0 < l => l \in 1 .. Len(Self.ci))
  <2>1. Len(Self.ci) \in Nat \ {0}
    BY <1>1
  <2> QED BY <2>1
<1> HIDE DEF c, d
<1>3. /\ native[d].at = l /\ native[d].errf \in Guards /\ Self.ci[l].f = native[d].errf
      /\ native[c].k \in {"call", "resume"} /\ c \in Base .. n /\ c # n /\ Pos(native[c]) <= m
      /\ l \in Nat /\ 0 < l /\ n = d + 1 /\ d = c + 1 /\ Self.ci[Len(Self.ci)].f = "body"
  <2>1. /\ native[d].at = Pos(native[d]) /\ native[d].at \in Nat /\ 0 < native[d].at
        /\ \A i \in Base .. d - 1 : Pos(native[i]) < native[d].at
        /\ native[d - 1].k \in {"call", "resume"}
    <3>1. Standing(native, Base, n, Self) /\ d \in Base .. n /\ native[d].k = "pcall"
      BY <1>1, <1>2, <1>a
    <3> QED BY <3>1, StandingFacts, ZenonT(60)
  <2>2. native[n].at = Pos(native[d]) + 1 /\ Self.ci[native[n].at].f = "body"
    BY <1>2, <1>a DEF Owner
  <2>3. Owner(native, Self, d)
    BY <1>1, <1>2 DEF Linked, Woven
  <2>4. native[d].errf \in Guards /\ Self.ci[native[d].at].f = native[d].errf
    BY <2>3, <1>a DEF Owner
  <2>5. native[d].at = l
    BY <1>1, <1>2, <2>1, <2>2
  <2>6. d # Base
    BY <1>1, <1>2, <1>a, StandingFacts
  <2>7. c \in Base .. d - 1 /\ c \in Base .. n /\ c # n
    BY <1>1, <1>2, <1>a, <2>6
  <2>8. Pos(native[c]) < l /\ Pos(native[c]) \in Nat
    <3>1. Pos(native[c]) \in Nat
      BY <1>1, <2>7, StandingFacts
    <3> QED BY <3>1, <2>1, <2>5, <2>7
  <2>9. Pos(native[c]) <= m
    BY <2>8, <1>1
  <2>10. l \in Nat /\ 0 < l /\ Self.ci[Len(Self.ci)].f = "body"
    BY <2>1, <2>2, <2>5, <1>2
  <2> QED BY <2>1, <2>4, <2>5, <2>7, <2>9, <2>10, <1>a
<1>4. m \in Nat /\ m # 0 /\ Self.ci[m].f \in Functions /\ m <= Len(Self.ci) /\ m <= l /\ l - 1 = m
  <2>1. l \in 1 .. Len(Self.ci) /\ l - 1 = m
    BY <1>3, <1>b
  <2>2. l - 1 # 0 /\ Self.ci[l - 1].f \in Functions
    BY <1>3, <1>1, <2>1, GuardsStandOn
  <2> QED BY <2>1, <2>2, <1>1, <1>3
<1>5. /\ y \in LooseType /\ y.ci = SubSeq(Self.ci, 1, m) /\ y.status = "ok"
      /\ y.nC = Self.nC - 1 /\ y.baseC = Self.baseC - 1 /\ y.fresh = Self.fresh
      /\ Self.nC \in Int /\ Self.baseC \in Int
  <2>1. /\ q \in LooseType /\ q.ci = SubSeq(Self.ci, 1, l) /\ q.status = "ok"
        /\ q.nC = Self.nC /\ q.baseC = Self.baseC /\ q.fresh = Self.fresh
    BY <1>1, FramesAssigned, ZenonT(60)
  <2>2. Self.nC \in Int /\ Self.baseC \in Int /\ Self.ci \in Seq(FrameType)
    BY <1>1, LooseFields
  <2>11. p = [q EXCEPT !.nC = q.nC - 1]
    BY DEF PoppedCall
  <2>4. y = [p EXCEPT !.ci = Front(@), !.baseC = @ - 1]
    BY DEF PoppedPcall
  <2> HIDE DEF p, q, y
  <2>3. p = [q EXCEPT !.nC = q.nC - 1] /\ q.nC - 1 \in Int
    BY <2>1, <2>2, <2>11
  <2>5. /\ p \in LooseType /\ p.ci = q.ci /\ p.status = q.status
        /\ p.nC = q.nC - 1 /\ p.baseC = q.baseC /\ p.fresh = q.fresh
    BY <2>1, <2>3, CountAssigned
  <2>6. Front(p.ci) = SubSeq(Self.ci, 1, m) /\ SubSeq(Self.ci, 1, m) \in Seq(FrameType)
    <3>1. Len(SubSeq(Self.ci, 1, l)) = l /\ SubSeq(SubSeq(Self.ci, 1, l), 1, m) = SubSeq(Self.ci, 1, m)
      <4> HIDE DEF l, m
      <4> QED BY <1>1, <1>3, <1>4, <2>2, CutTwice
    <3>2. l # 0 /\ l - 1 = m
      BY <1>3, <1>4
    <3>3. SubSeq(Self.ci, 1, l) # <<>>
      <4> DEFINE w == SubSeq(Self.ci, 1, l)
      <4>1. Len(w) = l /\ l # 0
        BY <3>1, <3>2
      <4> HIDE DEF w
      <4>2. w # <<>>
        BY <4>1
      <4> QED BY <4>2 DEF w
    <3>4. SubSeq(Self.ci, 1, m) \in Seq(FrameType)
      BY <1>4, <2>2
    <3> QED BY <3>1, <3>2, <3>3, <3>4, <2>1, <2>5 DEF Front
  <2> DEFINE r == [p EXCEPT !.ci = SubSeq(Self.ci, 1, m)]
  <2>7. /\ r \in LooseType /\ r.ci = SubSeq(Self.ci, 1, m) /\ r.status = p.status
        /\ r.nC = p.nC /\ r.baseC = p.baseC /\ r.fresh = p.fresh
    BY <2>5, <2>6, FramesAssigned
  <2> DEFINE v == p.baseC - 1
  <2>8. y = [r EXCEPT !.baseC = v]
    BY <2>4, <2>5, <2>6 DEF LooseType
  <2>9. v \in Int /\ v = Self.baseC - 1
    BY <2>1, <2>2, <2>5
  <2> HIDE DEF r, v
  <2>10. /\ y \in LooseType /\ y.ci = r.ci /\ y.status = r.status
         /\ y.nC = r.nC /\ y.fresh = r.fresh /\ y.baseC = v
    BY <2>7, <2>8, <2>9, BaseAssigned
  <2> QED BY <2>1, <2>2, <2>5, <2>7, <2>9, <2>10
<1> HIDE DEF q, p, y
<1>6. CutTo(Self, y, m)
  BY <1>1, <1>4, <1>5, FirstFrames
<1>7. Cutting(native, Base, n, Self, c, y, m)
  <2>1. m <= Upto(native, n, Self, c)
    <3>1. Upto(native, n, Self, c) = l - 1
      BY <1>3 DEF Upto
    <3> QED BY <3>1, <1>4
  <2> QED BY <2>1, <1>1, <1>3, <1>6 DEF Cutting
<1>8. Recounted(native, Base, n, Self, c, y)
  <2> DEFINE base == Started0(native, Base, n, Self)
  <2>1. n \in Base .. n
    BY <1>1, <1>2, <1>3
  <2>2. /\ base \in Int
        /\ Self.nC >= Here(native, base, n) + Over(native, Base, n) + (IF native[n].k = "pcall" THEN 1 ELSE 0)
        /\ Here(native, base, n) \in Int /\ Over(native, Base, n) \in {0, 1}
    BY <1>1, <2>1, LinkedCounts
  <2> HIDE DEF base
  <2>3. /\ Here(native, base, n) = Here(native, base, d) + 1
        /\ Pcalls(native, n, native[Base].t) = Pcalls(native, d, native[Base].t)
        /\ Over(native, Base, n) >= Over(native, Base, d)
        /\ Here(native, base, d) \in Int /\ Over(native, Base, d) \in {0, 1}
    <3>1. Stepping(native, Base, n, Self, d, n, base)
      BY <1>1, <1>2, <1>3, <1>a, <2>1, <2>2 DEF Stepping
    <3> QED BY <3>1, <1>2, <1>a, StepDown
  <2>4. /\ Here(native, base, d) = Here(native, base, c)
        /\ Pcalls(native, d, native[Base].t) = Pcalls(native, c, native[Base].t) + 1
        /\ Pcalls(native, c, native[Base].t) \in Nat
        /\ Over(native, Base, d) >= Over(native, Base, c)
        /\ Here(native, base, c) \in Int /\ Over(native, Base, c) \in {0, 1}
    <3>1. Stepping(native, Base, n, Self, c, d, base)
      BY <1>1, <1>2, <1>3, <1>a, <2>1, <2>2 DEF Stepping
    <3> QED BY <3>1, <1>2, <1>a, StepDown
  <2>5. y.nC >= Here(native, base, c) + Over(native, Base, c)
    <3> DEFINE h == Here(native, base, n)
               g == Here(native, base, d)
               e == Here(native, base, c)
               o == Over(native, Base, n)
               u == Over(native, Base, d)
               w == Over(native, Base, c)
    <3>1. h = g + 1 /\ g = e /\ e \in Int /\ o >= u /\ u >= w
      BY <2>3, <2>4
    <3>2. o \in Int /\ u \in Int /\ w \in Int
      BY <2>2, <2>3, <2>4, SMTT(30)
    <3>3. Self.nC >= h + o
      <4> DEFINE k == IF native[n].k = "pcall" THEN 1 ELSE 0
      <4>1. Self.nC >= h + o + k
        BY <2>2
      <4>2. k \in {0, 1} /\ h \in Int /\ Self.nC \in Int
        BY <2>2, <1>5
      <4> HIDE DEF h, o, k
      <4> QED BY <4>1, <4>2, <3>2
    <3>4. y.nC = Self.nC - 1 /\ Self.nC \in Int
      BY <1>5
    <3> HIDE DEF h, g, e, o, u, w
    <3>5. y.nC >= e + w
      BY <3>1, <3>2, <3>3, <3>4
    <3> QED BY <3>5 DEF e, w
  <2>6. Started0(native, Base, c, y) = base
    <3>1. y.baseC - Pcalls(native, c, native[Base].t) = Self.baseC - Pcalls(native, n, native[Base].t)
      <4>1. Pcalls(native, n, native[Base].t) = Pcalls(native, c, native[Base].t) + 1
            /\ Pcalls(native, c, native[Base].t) \in Int
        BY <2>3, <2>4
      <4>2. y.baseC = Self.baseC - 1 /\ Self.baseC \in Int
        BY <1>5
      <4>3. \A i, j \in Int : (i - 1) - j = i - (j + 1)
        OBVIOUS
      <4> QED BY <4>1, <4>2, <4>3, Zenon
    <3> QED BY <3>1 DEF Started0, base
  <2> QED BY <2>5, <2>6, <1>1, <1>5 DEF Recounted, base
<1>9. CoroutineInv'
  BY ReturnPcall DEF PoppedPcall, PoppedCall
<1>10. LinkInv' /\ Mapped(Running, y) /\ KindsOf(y) = SubSeq(KindsOf(Self), 1, m)
  <2>1. native' = SubSeq(native, 1, c)
    BY DEF c
  <2> HIDE DEF m
  <2>2. th' = [th EXCEPT ![Running] = y]
    BY DEF y
  <2>3. CutDown(c, m, y)
    BY <2>1, <2>2, <1>4, <1>5, <1>7, <1>8 DEF CutDown
  <2> QED BY <2>3, <1>9, CutDownLinks
<1>11. Returned(y, m)
  BY <1>3, <1>4, <1>10 DEF Returned
<1> QED BY <1>1, <1>10, <1>11, ReturnMaps
=============================================================================
