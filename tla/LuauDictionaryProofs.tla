------------------------ MODULE LuauDictionaryProofs ------------------------
(***************************************************************************)
(* Proof that the table of LuauTable, under the calls of scripts, of the   *)
(* collector and of the table library, implements LuauDictionary: what     *)
(* each function of ltable.cpp does to the entries, where loops over the   *)
(* table are, and the step of the dictionary for each call.                *)
(***************************************************************************)
EXTENDS LuauTableProofs

-----------------------------------------------------------------------------
(* What a table holds. *)

\* The entry of k is v, in either part.
Holds(h, k, v) ==
  \/ InArray(h, k) /\ h.array[k] = v
  \/ \E i \in Slots(SizeNode(h)) : h.node[i].key = k /\ h.node[i].val = v

\* Get answers just that.
LEMMA HoldsIs ==
  ASSUME NEW h, TableOK(h), NEW k \in Keys, NEW v, v # Nil
  PROVE  Get(h, k) = v <=> Holds(h, k, v)
<1>1. ASSUME Get(h, k) = v PROVE Holds(h, k, v)
  <2>1. CASE InArray(h, k)
    BY <1>1, <2>1 DEF Get, Holds
  <2>2. CASE ~InArray(h, k)
    <3>1. \E i \in Slots(SizeNode(h)) : h.node[i].key = k /\ h.node[i].val = Get(h, k)
      BY <1>1, <2>2, GetIs
    <3> QED BY <1>1, <3>1 DEF Holds
  <2> QED BY <2>1, <2>2
<1>2. ASSUME Holds(h, k, v) PROVE Get(h, k) = v
  <2>1. CASE InArray(h, k) /\ h.array[k] = v
    BY <2>1 DEF Get
  <2>2. ASSUME NEW i \in Slots(SizeNode(h)), h.node[i].key = k, h.node[i].val = v
        PROVE  Get(h, k) = v
    BY <2>2, GetFinds
  <2> QED BY <1>2, <2>1, <2>2 DEF Holds
<1> QED BY <1>1, <1>2

\* Two tables that hold the same under a key answer the same.
LEMMA SameGet ==
  ASSUME NEW h, TableOK(h), NEW g, TableOK(g), NEW k \in Keys,
         \A v : v # Nil => (Holds(h, k, v) <=> Holds(g, k, v))
  PROVE  Get(g, k) = Get(h, k)
<1>1. CASE Get(h, k) # Nil
  <2>1. Holds(h, k, Get(h, k))
    BY <1>1, HoldsIs
  <2>2. Holds(g, k, Get(h, k))
    BY <1>1, <2>1
  <2> QED BY <1>1, <2>2, HoldsIs
<1>2. CASE Get(h, k) = Nil /\ Get(g, k) # Nil
  <2>1. Holds(g, k, Get(g, k))
    BY <1>2, HoldsIs
  <2>2. Holds(h, k, Get(g, k))
    BY <1>2, <2>1
  <2> QED BY <1>2, <2>2, HoldsIs
<1> QED BY <1>1, <1>2

\* g holds what h does, but v under k.
Updated(h, g, k, v) ==
  TableOK(g) /\ Get(g, k) = v /\ \A j \in Keys \ {k} : Get(g, j) = Get(h, j)

\* A store into the array part.
LEMMA StoreArrayUpdates ==
  ASSUME NEW h, TableOK(h), NEW k \in IntKeys, InArray(h, k), NEW v \in Values \cup {Nil}
  PROVE  Updated(h, [h EXCEPT !.array[k] = v], k, v)
<1> DEFINE g == [h EXCEPT !.array[k] = v]
<1>1. k \in 1 .. SizeArray(h) /\ h.array \in Seq(Values \cup {Nil})
  BY TableParts DEF TableOK, InArray
<1>2. /\ TableOK(g) /\ SizeArray(g) = SizeArray(h) /\ SizeNode(g) = SizeNode(h)
      /\ g.node = h.node /\ g.array = [h.array EXCEPT ![k] = v]
  BY <1>1, StoreArrayOK
<1> HIDE DEF g
<1>3. \A j : InArray(g, j) <=> InArray(h, j)
  BY <1>2 DEF InArray
<1>4. g.array[k] = v /\ \A j \in 1 .. SizeArray(h) : j # k => g.array[j] = h.array[j]
  BY <1>1, <1>2 DEF SizeArray
<1>5. Get(g, k) = v
  BY <1>3, <1>4 DEF Get
<1>6. \A j \in Keys \ {k} : Get(g, j) = Get(h, j)
  <2> SUFFICES ASSUME NEW j \in Keys \ {k} PROVE Get(g, j) = Get(h, j)
    OBVIOUS
  <2>1. \A x : Holds(h, j, x) <=> Holds(g, j, x)
    BY <1>2, <1>3, <1>4 DEF Holds, InArray
  <2> QED BY <1>2, <2>1, SameGet
<1>7. Updated(h, g, k, v)
  BY <1>2, <1>5, <1>6 DEF Updated
<1> QED BY <1>7 DEF g

\* A store into a living node.
LEMMA StoreNodeUpdates ==
  ASSUME NEW h, TableOK(h), NEW i \in Slots(SizeNode(h)), Taken(h.node, i),
         ~h.node[i].dead, NEW v \in Values \cup {Nil}
  PROVE  Updated(h, [h EXCEPT !.node[i].val = v], h.node[i].key, v)
<1> DEFINE g == [h EXCEPT !.node[i].val = v]
           k == h.node[i].key
           n == SizeNode(h)
<1>1. h.node \in [Slots(n) -> NodeType] /\ NodesOK(n, h.node) /\ n \in Nat
      /\ Apart(h) /\ SizeArray(h) \in Nat
  BY TableParts DEF TableOK
<1>2. /\ TableOK(g) /\ SizeArray(g) = SizeArray(h) /\ SizeNode(g) = n
      /\ g.node = [h.node EXCEPT ![i].val = v] /\ g.array = h.array
  BY StoreNodeOK
<1> HIDE DEF g
<1>3. g.node[i].val = v /\ g.node[i].key = k /\ g.node[i].dead = h.node[i].dead
      /\ \A x \in Slots(n) : x # i => g.node[x] = h.node[x]
  BY <1>1, <1>2 DEF NodeType
<1>4. k \in Keys /\ ~InArray(h, k)
  <2>1. k \notin 1 .. SizeArray(h)
    BY <1>1 DEF Apart
  <2> QED BY <1>1, <2>1, TakenKey DEF NodesOK, InArray
<1>5. \A j : InArray(g, j) <=> InArray(h, j)
  BY <1>2 DEF InArray
<1>6. Get(g, k) = v
  <2>1. NodesOK(n, g.node) /\ Taken(g.node, i) /\ ~g.node[i].dead
    BY <1>2, <1>3 DEF TableOK, Taken
  <2>2. NodeOf(g, k) = i
    <3>1. FirstNode(g, g.node[i].key, FALSE) = i
      BY <1>1, <1>2, <2>1, FirstNodeFinds
    <3>2. g.node[i].key = k
      BY <1>3
    <3> QED BY <3>1, <3>2 DEF NodeOf
  <2>3. i # -1
    BY DEF Slots
  <2> QED BY <1>3, <1>4, <1>5, <2>2, <2>3 DEF Get
<1>7. \A j \in Keys \ {k} : Get(g, j) = Get(h, j)
  <2> SUFFICES ASSUME NEW j \in Keys \ {k} PROVE Get(g, j) = Get(h, j)
    OBVIOUS
  <2>1. \A x : Holds(h, j, x) <=> Holds(g, j, x)
    BY <1>2, <1>3, <1>5 DEF Holds
  <2> QED BY <1>2, <2>1, SameGet
<1>8. Updated(h, g, k, v)
  BY <1>2, <1>6, <1>7 DEF Updated
<1> QED BY <1>8 DEF g

\* newkey with room adds one entry.
LEMMA PlaceKeyUpdates ==
  ASSUME NEW h, TableOK(h), NEW k \in Keys, NEW v \in Values \cup {Nil},
         Absent(h, k), ~InArray(h, k), ~NeedsRehash(h, k)
  PROVE  Updated(h, PlaceKey(h, k, v), k, v)
<1> DEFINE n == SizeNode(h)
           g == PlaceKey(h, k, v)
<1>1. Placed(h, g, k, v) /\ TableOK(g)
  BY PlaceKeyPlaces, PlaceKeyStores DEF Stored
<1> HIDE DEF g
<1>2. g.array = h.array /\ SizeNode(g) = n /\ SizeArray(g) = SizeArray(h)
  BY <1>1 DEF Placed, SizeArray
<1>3. \A j : InArray(g, j) <=> InArray(h, j)
  BY <1>2 DEF InArray
<1>4. ASSUME NEW i \in Slots(n), g.node[i].val # Nil
      PROVE  \/ g.node[i].key = k /\ g.node[i].val = v
             \/ \E j \in Slots(n) : h.node[j].key = g.node[i].key /\ h.node[j].val = g.node[i].val
  <2>1. Taken(g.node, i)
    BY <1>1, <1>2, <1>4, UsedNode
  <2>2. \/ IsEntry(g.node[i], k, v)
        \/ \E j \in Slots(n) : Taken(h.node, j) /\ SameEntry(g.node[i], h.node[j])
    BY <1>1, <2>1, Zenon DEF Placed
  <2> QED BY <2>2 DEF IsEntry, SameEntry
<1>5. ASSUME NEW j \in Slots(n), h.node[j].val # Nil
      PROVE  \E i \in Slots(n) : g.node[i].key = h.node[j].key /\ g.node[i].val = h.node[j].val
  <2>1. \E i \in Slots(n) : SameEntry(g.node[i], h.node[j])
    BY <1>1, <1>5, Zenon DEF Placed
  <2> QED BY <2>1 DEF SameEntry
<1>6. \E i \in Slots(n) : g.node[i].key = k /\ g.node[i].val = v
  <2>1. \E i \in Slots(n) : IsEntry(g.node[i], k, v)
    BY <1>1, Zenon DEF Placed
  <2> QED BY <2>1 DEF IsEntry
<1>7. \A j \in Slots(n) : h.node[j].val # Nil => h.node[j].key # k
  BY UsedNode DEF Absent
<1>8. ASSUME NEW j \in Keys \ {k}, NEW x, x # Nil PROVE Holds(h, j, x) <=> Holds(g, j, x)
  <2>1. ASSUME Holds(h, j, x) PROVE Holds(g, j, x)
    <3>1. CASE InArray(h, j) /\ h.array[j] = x
      BY <1>2, <1>3, <3>1 DEF Holds
    <3>2. CASE \E i \in Slots(n) : h.node[i].key = j /\ h.node[i].val = x
      BY <1>2, <1>5, <1>8, <3>2 DEF Holds
    <3> QED BY <2>1, <3>1, <3>2 DEF Holds
  <2>2. ASSUME Holds(g, j, x) PROVE Holds(h, j, x)
    <3>1. CASE InArray(g, j) /\ g.array[j] = x
      BY <1>2, <1>3, <3>1 DEF Holds
    <3>2. ASSUME NEW i \in Slots(n), g.node[i].key = j, g.node[i].val = x PROVE Holds(h, j, x)
      BY <1>4, <1>8, <3>2 DEF Holds
    <3> QED BY <1>2, <2>2, <3>1, <3>2 DEF Holds
  <2> QED BY <2>1, <2>2
<1>9. \A j \in Keys \ {k} : Get(g, j) = Get(h, j)
  BY <1>1, <1>8, SameGet
<1>10. Get(g, k) = v
  <2>1. CASE v # Nil
    BY <1>1, <1>2, <1>6, <2>1, HoldsIs DEF Holds
  <2>2. CASE v = Nil
    <3> SUFFICES ASSUME Get(g, k) # Nil PROVE FALSE
      BY <2>2
    <3>1. Holds(g, k, Get(g, k))
      BY <1>1, HoldsIs
    <3>2. PICK i \in Slots(n) : g.node[i].key = k /\ g.node[i].val = Get(g, k)
      BY <1>2, <1>3, <3>1 DEF Holds
    <3>3. \E j \in Slots(n) : h.node[j].key = k /\ h.node[j].val # Nil
      BY <1>4, <2>2, <3>2
    <3> QED BY <1>7, <3>3
  <2> QED BY <2>1, <2>2
<1>11. Updated(h, g, k, v)
  BY <1>1, <1>9, <1>10 DEF Updated
<1> QED BY <1>11 DEF g

\* arrayornewkey, when there is room.
LEMMA StoreFreshUpdates ==
  ASSUME NEW h, TableOK(h), NEW k \in Keys, NEW v \in Values \cup {Nil},
         ~InArray(h, k) => Absent(h, k) /\ ~NeedsRehash(h, k)
  PROVE  Updated(h, StoreFresh(h, k, v), k, v)
<1>1. CASE InArray(h, k)
  <2>1. k \in IntKeys
    BY <1>1 DEF InArray
  <2>2. StoreFresh(h, k, v) = [h EXCEPT !.array[k] = v]
    BY <1>1, Zenon DEF StoreFresh
  <2> QED BY <1>1, <2>1, <2>2, StoreArrayUpdates
<1>2. CASE ~InArray(h, k)
  <2>1. StoreFresh(h, k, v) = PlaceKey(h, k, v)
    BY <1>2 DEF StoreFresh
  <2> QED BY <1>2, <2>1, PlaceKeyUpdates
<1> QED BY <1>1, <1>2

-----------------------------------------------------------------------------
(* Resizing keeps what a table holds. *)

\* The key of an entry that resize has put back when it has put back i of them,
\* or that it never had to.
Back(h, na, i, k) ==
  \/ k \in 1 .. na /\ k \in 1 .. SizeArray(h)
  \/ \E e \in 1 .. i : OldEntry(h, na, e)[2] # Nil /\ OldEntry(h, na, e)[1] = k
Regained(h, na, i, g) ==
  \A k \in Keys : Get(g, k) = IF Back(h, na, i, k) THEN Get(h, k) ELSE Nil

\* Before the first one, the array part.
LEMMA RegainedNone ==
  ASSUME NEW h, TableOK(h), NEW na \in Nat, NEW nh \in Nat
  PROVE  Regained(h, na, 0, FreshParts(h, na, nh))
<1> DEFINE g == FreshParts(h, na, nh)
<1>1. /\ TableOK(g) /\ SizeArray(g) = na
      /\ \A i \in Slots(SizeNode(g)) : ~Taken(g.node, i)
  BY FreshPartsIs
<1>2. g.array = [i \in 1 .. na |-> IF i <= SizeArray(h) THEN h.array[i] ELSE Nil]
  BY DEF FreshParts, NewTable
<1> HIDE DEF g
<1>3. SizeArray(h) \in Nat
  BY TableParts DEF TableOK
<1>4. ASSUME NEW k \in Keys PROVE Get(g, k) = IF Back(h, na, 0, k) THEN Get(h, k) ELSE Nil
  <2>1. Back(h, na, 0, k) <=> k \in 1 .. na /\ k \in 1 .. SizeArray(h)
    BY DEF Back
  <2>2. CASE k \in 1 .. na
    <3>1. k \in IntKeys /\ k \in Int
      BY <1>4, <2>2, NumberKeys
    <3>2. Get(g, k) = IF k <= SizeArray(h) THEN h.array[k] ELSE Nil
      BY <1>1, <1>2, <2>2, <3>1 DEF Get, InArray
    <3>3. k \in 1 .. SizeArray(h) <=> k <= SizeArray(h)
      BY <1>3, <2>2
    <3>4. k \in 1 .. SizeArray(h) => Get(h, k) = h.array[k]
      BY <3>1 DEF Get, InArray
    <3> QED BY <2>1, <2>2, <3>2, <3>3, <3>4
  <2>3. CASE k \notin 1 .. na
    <3>1. ~InArray(g, k)
      BY <1>1, <2>3 DEF InArray
    <3>2. \A i \in Slots(SizeNode(g)) : g.node[i].key # k
      <4>1. k # NoKey
        BY TableAssumption
      <4>2. \A i \in Slots(SizeNode(g)) : g.node[i].key = NoKey
        BY <1>1 DEF Taken
      <4> QED BY <4>1, <4>2
    <3>3. Get(g, k) = Nil
      BY <1>1, <3>1, <3>2, GetIs
    <3> QED BY <2>1, <2>3, <3>3
  <2> QED BY <2>2, <2>3
<1> QED BY <1>4 DEF Regained, g

\* One more.
LEMMA RegainedOne ==
  ASSUME NEW h, TableOK(h), NEW na, NEW nh, Fits(h, na, nh),
         NEW i \in 1 .. LostSlice(h, na) + SizeNode(h), NEW g, FilledUpTo(h, na, nh, i - 1, g),
         Regained(h, na, i - 1, g)
  PROVE  Regained(h, na, i, FilledOnce(h, na, g, i))
<1> DEFINE k == OldEntry(h, na, i)[1]
           v == OldEntry(h, na, i)[2]
<1>1. LostSlice(h, na) + SizeNode(h) \in Nat
  BY TableParts DEF TableOK, Fits, LostSlice
<1>2. 1 .. i = (1 .. i - 1) \cup {i}
  BY <1>1
<1>3. \A j : Back(h, na, i, j) <=> Back(h, na, i - 1, j) \/ (v # Nil /\ j = k)
  BY <1>2 DEF Back
<1>4. CASE v = Nil
  BY <1>3, <1>4 DEF FilledOnce, Regained
<1>5. CASE v # Nil
  <2>1. /\ k \in Keys /\ v \in Values /\ Get(h, k) = v /\ Absent(g, k)
        /\ ~InArray(g, k) => ~NeedsRehash(g, k)
    BY <1>5, FillRoom
  <2>2. FilledOnce(h, na, g, i) = StoreFresh(g, k, v)
    BY <1>5 DEF FilledOnce
  <2> HIDE DEF k, v
  <2>3. TableOK(g)
    BY DEF FilledUpTo
  <2>4. Updated(g, StoreFresh(g, k, v), k, v)
    BY <2>1, <2>3, StoreFreshUpdates
  <2> DEFINE g2 == StoreFresh(g, k, v)
  <2> HIDE DEF g2
  <2>5. Get(g2, k) = Get(h, k) /\ \A j \in Keys \ {k} : Get(g2, j) = Get(g, j)
    BY <2>1, <2>4 DEF Updated, g2
  <2>6. Regained(h, na, i, g2)
    BY <1>3, <1>5, <2>1, <2>5 DEF Regained
  <2> QED BY <2>2, <2>6 DEF g2
<1> QED BY <1>4, <1>5

\* At the end, every entry of the table is back.
LEMMA RegainedAll ==
  ASSUME NEW h, TableOK(h), NEW na \in Nat, NEW k \in Keys, Get(h, k) # Nil
  PROVE  Back(h, na, LostSlice(h, na) + SizeNode(h), k)
<1>1. SizeArray(h) \in Nat /\ SizeNode(h) \in Nat
  BY TableParts DEF TableOK
<1>2. CASE InArray(h, k)
  <2>1. k \in 1 .. SizeArray(h) /\ Get(h, k) = h.array[k]
    BY <1>2 DEF InArray, Get
  <2>2. CASE k <= na
    BY <2>1, <2>2 DEF Back
  <2>3. CASE ~(k <= na)
    <3>1. k - na \in 1 .. LostSlice(h, na) + SizeNode(h) /\ k - na <= LostSlice(h, na)
          /\ na + (k - na) = k
      BY <1>1, <2>1, <2>3 DEF LostSlice
    <3>2. OldEntry(h, na, k - na) = <<k, h.array[k]>>
      BY <3>1 DEF OldEntry
    <3> QED BY <2>1, <3>1, <3>2 DEF Back
  <2> QED BY <2>2, <2>3
<1>3. CASE ~InArray(h, k)
  <2>1. PICK i \in Slots(SizeNode(h)) : h.node[i].key = k /\ h.node[i].val = Get(h, k)
    BY <1>3, GetIs
  <2> DEFINE e == SizeNode(h) + LostSlice(h, na) - i
  <2>2. LostSlice(h, na) \in Nat
    BY <1>1 DEF LostSlice
  <2>3. /\ e \in 1 .. LostSlice(h, na) + SizeNode(h) /\ ~(e <= LostSlice(h, na))
        /\ SizeNode(h) + LostSlice(h, na) - e = i
    BY <1>1, <2>2 DEF Slots
  <2> HIDE DEF e
  <2>4. OldEntry(h, na, e) = <<h.node[i].key, h.node[i].val>>
    BY <2>3 DEF OldEntry
  <2> QED BY <2>1, <2>3, <2>4 DEF Back
<1> QED BY <1>2, <1>3

\* g holds what h does.
Alike(h, g) == TableOK(g) /\ \A k \in Keys : Get(g, k) = Get(h, k)

\* Resizing with sizes that fit.
LEMMA ResizeKeeps ==
  ASSUME NEW h, TableOK(h), NEW na, NEW nh, Fits(h, na, nh)
  PROVE  Alike(h, Resize(h, na, nh)) /\ SizeArray(Resize(h, na, nh)) = na
<1> DEFINE last == LostSlice(h, na) + SizeNode(h)
<1>1. na \in Nat /\ nh \in Nat /\ last \in Nat
  BY TableParts DEF TableOK, Fits, LostSlice
<1>2. PICK f : Fills(h, na, nh, f) /\ Resize(h, na, nh) = f[last]
  BY ResizeFills
<1>3. \A i \in 0 .. last : /\ FilledUpTo(h, na, nh, i, f[i])
                           /\ f[i] = IF i = 0 THEN FreshParts(h, na, nh)
                                     ELSE FilledOnce(h, na, f[i - 1], i)
  BY <1>2, Zenon DEF Fills, IsFilling
<1>4. Regained(h, na, 0, f[0])
  <2>1. f[0] = FreshParts(h, na, nh)
    BY <1>1, <1>3
  <2> QED BY <1>1, <2>1, RegainedNone
<1>5. \A i \in 1 .. last : Regained(h, na, i - 1, f[i - 1]) => Regained(h, na, i, f[i])
  <2> SUFFICES ASSUME NEW i \in 1 .. last, Regained(h, na, i - 1, f[i - 1])
               PROVE  Regained(h, na, i, f[i])
    OBVIOUS
  <2>1. i \in 0 .. last /\ i # 0 /\ i - 1 \in 0 .. last
    BY <1>1
  <2>2. f[i] = FilledOnce(h, na, f[i - 1], i) /\ FilledUpTo(h, na, nh, i - 1, f[i - 1])
    BY <1>3, <2>1
  <2> QED BY <2>2, RegainedOne
<1> DEFINE T == {i \in Nat : i <= last /\ ~Regained(h, na, i, f[i])}
<1>6. T = {}
  <2> SUFFICES ASSUME T # {} PROVE FALSE
    OBVIOUS
  <2> HIDE DEF last
  <2>1. PICK i \in T : \A j \in T : i <= j
    BY Least
  <2>2. i # 0
    BY <1>4, <2>1
  <2>3. i - 1 \in Nat /\ i - 1 \notin T /\ i \in 1 .. last /\ i - 1 <= last
    BY <1>1, <2>1, <2>2
  <2>4. Regained(h, na, i - 1, f[i - 1])
    BY <2>3
  <2> QED BY <1>5, <2>1, <2>3, <2>4
<1>7. Regained(h, na, last, f[last]) /\ FilledUpTo(h, na, nh, last, f[last])
  BY <1>1, <1>3, <1>6
<1>8. \A k \in Keys : Get(f[last], k) = Get(h, k)
  BY <1>1, <1>7, RegainedAll DEF Regained
<1> QED BY <1>2, <1>7, <1>8 DEF Alike, FilledUpTo

-----------------------------------------------------------------------------
(* What the functions of ltable.cpp do to the contents. *)

\* Tables of the same entries in the same places.
LEMMA SamePartsAlike ==
  ASSUME NEW h, TableOK(h), NEW g, TableOK(g), g.array = h.array, SizeNode(g) = SizeNode(h),
         \A i \in Slots(SizeNode(h)) : g.node[i].key = h.node[i].key /\ g.node[i].val = h.node[i].val
  PROVE  Alike(h, g)
<1>1. \A k : InArray(g, k) <=> InArray(h, k)
  BY DEF InArray, SizeArray
<1>2. \A k, v : Holds(h, k, v) <=> Holds(g, k, v)
  BY <1>1 DEF Holds
<1>3. \A k \in Keys : Get(g, k) = Get(h, k)
  BY <1>2, SameGet
<1> QED BY <1>3 DEF Alike

\* luaH_clone.
LEMMA ClonedAlike ==
  ASSUME NEW h, TableOK(h)
  PROVE  Alike(h, Cloned(h))
<1>1. TableOK(Cloned(h)) /\ Cloned(h).array = h.array /\ Cloned(h).node = h.node
  BY ClonedOK
<1> QED BY <1>1, SamePartsAlike DEF SizeNode

\* The collector's marks.
LEMMA DeadKeysAlike ==
  ASSUME NEW h, TableOK(h)
  PROVE  Alike(h, DeadKeys(h))
  BY DeadKeysOK, SamePartsAlike

\* luaH_getn.
LEMMA GetNAlike ==
  ASSUME NEW h, TableOK(h)
  PROVE  Alike(h, GetN(h).h)
<1>1. TableOK(GetN(h).h) /\ GetN(h).h.array = h.array /\ GetN(h).h.node = h.node
  BY GetNIs
<1> QED BY <1>1, SamePartsAlike DEF SizeNode

\* luaH_resizearray.
LEMMA ResizeArrayAlike ==
  ASSUME NEW h, TableOK(h), NEW last \in Nat, SizeArray(h) < last
  PROVE  Alike(h, ResizeArray(h, last))
  BY ResizeArrayFits, ResizeKeeps

\* luaH_resizehash, which leaves the array part.
LEMMA ResizeHashAlike ==
  ASSUME NEW h, TableOK(h)
  PROVE  LET g == ResizeHash(h, Cardinality(UsedNodes(h)))
         IN  Alike(h, g) /\ SizeArray(g) = SizeArray(h)
  BY ResizeHashFits, ResizeKeeps DEF ResizeHash

\* A table without entries.
LEMMA NothingHeld ==
  ASSUME NEW h, TableOK(h), \A i \in 1 .. SizeArray(h) : h.array[i] = Nil,
         \A j \in Slots(SizeNode(h)) : h.node[j].val = Nil, NEW k \in Keys
  PROVE  Get(h, k) = Nil
<1> SUFFICES ASSUME Get(h, k) # Nil PROVE FALSE
  OBVIOUS
<1>1. Holds(h, k, Get(h, k))
  BY HoldsIs
<1> QED BY <1>1 DEF Holds, InArray

\* luaH_clear.
LEMMA ClearedEmpty ==
  ASSUME NEW h, TableOK(h), NEW k \in Keys
  PROVE  Get(Cleared(h), k) = Nil
<1> DEFINE g == Cleared(h)
<1>1. /\ TableOK(g) /\ SizeArray(g) = SizeArray(h) /\ SizeNode(g) = SizeNode(h)
      /\ \A i \in 1 .. SizeArray(h) : g.array[i] = Nil
      /\ \A j \in Slots(SizeNode(h)) : g.node[j] = EmptyNode
  BY ClearedOK
<1>2. EmptyNode.val = Nil
  BY DEF EmptyNode
<1> HIDE DEF g
<1>3. Get(g, k) = Nil
  BY <1>1, <1>2, NothingHeld
<1> QED BY <1>3 DEF g

\* luaH_new.
LEMMA NewTableEmpty ==
  ASSUME NEW na \in Nat, NEW nh \in Nat, NEW k \in Keys
  PROVE  Get(NewTable(na, nh), k) = Nil
<1> DEFINE g == NewTable(na, nh)
<1>1. /\ TableOK(g) /\ SizeArray(g) = na
      /\ \A i \in Slots(SizeNode(g)) : ~Taken(g.node, i)
      /\ g.array = [i \in 1 .. na |-> Nil]
  BY NewTableIs
<1> HIDE DEF g
<1>2. \A i \in Slots(SizeNode(g)) : g.node[i].val = Nil
  BY <1>1, UsedNode
<1>3. Get(g, k) = Nil
  BY <1>1, <1>2, NothingHeld
<1> QED BY <1>3 DEF g

\* rehash.
LEMMA RehashAlike ==
  ASSUME NEW h, TableOK(h), NEW k \in Keys, Get(h, k) = Nil, ~InArray(h, k)
  PROVE  /\ Alike(h, Rehash(h, k))
         /\ \A m \in Nat : Lists(h, m) => m <= SizeArray(Rehash(h, k))
<1>1. PICK na, nh : /\ Rehash(h, k) = Resize(h, na, nh) /\ Fits(h, na, nh)
                    /\ \A m \in Nat : Lists(h, m) => m <= na
  BY RehashFits
<1> QED BY <1>1, ResizeKeeps

\* A store changes the entry of its key only, ...
LEMMA SetUpdates ==
  ASSUME NEW h, TableOK(h), NEW k \in Keys, NEW v \in Values \cup {Nil}
  PROVE  Updated(h, Set(h, k, v), k, v)
<1>1. CASE InArray(h, k)
  <2>1. k \in IntKeys
    BY <1>1 DEF InArray
  <2>2. Set(h, k, v) = [h EXCEPT !.array[k] = v]
    BY <1>1, Zenon DEF Set
  <2> QED BY <1>1, <2>1, <2>2, StoreArrayUpdates
<1>2. CASE ~InArray(h, k) /\ NodeOf(h, k) # -1
  <2> DEFINE i == NodeOf(h, k)
  <2>1. SizeNode(h) \in Nat /\ NodesOK(SizeNode(h), h.node)
    BY TableParts DEF TableOK
  <2>2. i \in Slots(SizeNode(h)) /\ Taken(h.node, i) /\ ~h.node[i].dead /\ h.node[i].key = k
    BY <1>2, <2>1, FirstNodeIs DEF NodeOf
  <2>3. Set(h, k, v) = [h EXCEPT !.node[i].val = v]
    BY <1>2, Zenon DEF Set
  <2> HIDE DEF i
  <2> QED BY <2>2, <2>3, StoreNodeUpdates
<1>3. CASE ~InArray(h, k) /\ NodeOf(h, k) = -1
  <2>1. Get(h, k) = Nil
    BY <1>3 DEF Get
  <2>2. CASE NeedsRehash(h, k)
    <3> DEFINE g == Rehash(h, k)
    <3>1. Set(h, k, v) = StoreFresh(g, k, v)
      BY <1>3, <2>2, Zenon DEF Set
    <3>2. Alike(h, g) /\ TableOK(g) /\ Absent(g, k) /\ (~InArray(g, k) => ~NeedsRehash(g, k))
      BY <1>3, <2>1, RehashAlike, RehashRoom
    <3> HIDE DEF g
    <3>3. Updated(g, StoreFresh(g, k, v), k, v)
      BY <3>2, StoreFreshUpdates
    <3> QED BY <3>1, <3>2, <3>3 DEF Updated, Alike
  <2>3. CASE ~NeedsRehash(h, k)
    <3>1. Set(h, k, v) = PlaceKey(h, k, v)
      BY <1>3, <2>3, Zenon DEF Set
    <3>2. SizeNode(h) \in Nat /\ NodesOK(SizeNode(h), h.node)
      BY TableParts DEF TableOK
    <3>3. Absent(h, k)
      BY <1>3, <3>2, NotFound DEF Absent
    <3> QED BY <1>3, <2>3, <3>1, <3>3, PlaceKeyUpdates
  <2> QED BY <2>2, <2>3
<1> QED BY <1>1, <1>2, <1>3

\* ... and leaves a list that was in the array part there.
LEMMA SetCovers ==
  ASSUME NEW h, TableOK(h), NEW k \in Keys, NEW v \in Values \cup {Nil},
         NEW m \in Nat, Lists(h, m), m <= SizeArray(h)
  PROVE  m <= SizeArray(Set(h, k, v))
<1>1. CASE InArray(h, k)
  <2>1. k \in 1 .. SizeArray(h) /\ k \in IntKeys
    BY <1>1 DEF InArray
  <2>2. Set(h, k, v) = [h EXCEPT !.array[k] = v]
    BY <1>1, Zenon DEF Set
  <2>3. SizeArray([h EXCEPT !.array[k] = v]) = SizeArray(h)
    BY <2>1, StoreArrayOK
  <2> QED BY <2>2, <2>3
<1>2. CASE ~InArray(h, k) /\ NodeOf(h, k) # -1
  <2> DEFINE i == NodeOf(h, k)
  <2>1. SizeNode(h) \in Nat /\ NodesOK(SizeNode(h), h.node)
    BY TableParts DEF TableOK
  <2>2. i \in Slots(SizeNode(h)) /\ Taken(h.node, i) /\ ~h.node[i].dead
    BY <1>2, <2>1, FirstNodeIs DEF NodeOf
  <2>3. Set(h, k, v) = [h EXCEPT !.node[i].val = v]
    BY <1>2, Zenon DEF Set
  <2> HIDE DEF i
  <2>4. SizeArray([h EXCEPT !.node[i].val = v]) = SizeArray(h)
    BY <2>2, StoreNodeOK
  <2> QED BY <2>3, <2>4
<1>3. CASE ~InArray(h, k) /\ NodeOf(h, k) = -1
  <2>1. Get(h, k) = Nil
    BY <1>3 DEF Get
  <2>2. CASE NeedsRehash(h, k)
    <3> DEFINE g == Rehash(h, k)
    <3>1. Set(h, k, v) = StoreFresh(g, k, v)
      BY <1>3, <2>2, Zenon DEF Set
    <3>2. /\ m <= SizeArray(g) /\ TableOK(g) /\ Absent(g, k)
          /\ ~InArray(g, k) => ~NeedsRehash(g, k)
      BY <1>3, <2>1, RehashAlike, RehashRoom
    <3> HIDE DEF g
    <3>3. Stored(g, StoreFresh(g, k, v), k, v)
      BY <3>2, StoreFreshOK
    <3> QED BY <3>1, <3>2, <3>3 DEF Stored
  <2>3. CASE ~NeedsRehash(h, k)
    <3>1. Set(h, k, v) = PlaceKey(h, k, v)
      BY <1>3, <2>3, Zenon DEF Set
    <3>2. SizeNode(h) \in Nat /\ NodesOK(SizeNode(h), h.node)
      BY TableParts DEF TableOK
    <3>3. Absent(h, k)
      BY <1>3, <3>2, NotFound DEF Absent
    <3>4. Stored(h, PlaceKey(h, k, v), k, v)
      BY <1>3, <2>3, <3>3, PlaceKeyStores
    <3> QED BY <3>1, <3>4 DEF Stored
  <2> QED BY <2>2, <2>3
<1> QED BY <1>1, <1>2, <1>3

-----------------------------------------------------------------------------
(* moveelements. *)

\* Copying an element, either way, is a store.
LEMMA CopiedUpdates ==
  ASSUME NEW h, TableOK(h), NEW f \in Int, NEW dest \in Int, NEW i \in Int, NEW fast \in BOOLEAN,
         f + i \in IntKeys, dest + i \in IntKeys,
         fast => f + i \in 1 .. SizeArray(h) /\ dest + i \in 1 .. SizeArray(h)
  PROVE  Updated(h, Copied(fast, f, dest, h, i), dest + i, Get(h, f + i))
<1> DEFINE k == dest + i
           v == Get(h, f + i)
<1>1. k \in Keys /\ k \in IntKeys /\ f + i \in Keys
  BY NumberKeys
<1>2. v \in Values \cup {Nil}
  BY <1>1, GetIs
<1>3. CASE fast
  <2>1. InArray(h, f + i) /\ InArray(h, k)
    BY <1>3 DEF InArray
  <2>2. v = h.array[f + i]
    BY <2>1 DEF Get
  <2>3. Copied(fast, f, dest, h, i) = [h EXCEPT !.array[dest + i] = h.array[f + i]]
    BY <1>3, Zenon DEF Copied
  <2>4. Copied(fast, f, dest, h, i) = [h EXCEPT !.array[k] = v]
    BY <2>2, <2>3
  <2> HIDE DEF k, v
  <2>5. Updated(h, [h EXCEPT !.array[k] = v], k, v)
    BY <1>1, <1>2, <2>1, StoreArrayUpdates
  <2> QED BY <2>4, <2>5 DEF k, v
<1>4. CASE ~fast
  <2>1. Copied(fast, f, dest, h, i) = Set(h, k, v)
    BY <1>4, Zenon DEF Copied
  <2> HIDE DEF k, v
  <2>2. Updated(h, Set(h, k, v), k, v)
    BY <1>1, <1>2, SetUpdates
  <2> QED BY <2>1, <2>2 DEF k, v
<1> QED BY <1>3, <1>4

\* The elements of which the offset is in D are at their new places, ...
MovedBy(h, f, dest, D, g) ==
  \A k \in Keys : Get(g, k) = IF k \in IntKeys /\ k - dest \in D
                              THEN Get(h, f + (k - dest)) ELSE Get(h, k)

\* ... which one more step does to one more, in an order in which none is
\* read after it was overwritten.
LEMMA MovedOne ==
  ASSUME NEW h, NEW g, NEW g2, NEW f \in Int, NEW dest \in Int, NEW D, D \subseteq Int,
         MovedBy(h, f, dest, D, g), NEW i \in Int,
         f + i \in IntKeys, dest + i \in IntKeys, (f + i) - dest \notin D,
         Updated(g, g2, dest + i, Get(g, f + i))
  PROVE  MovedBy(h, f, dest, D \cup {i}, g2)
<1> SUFFICES ASSUME NEW k \in Keys
             PROVE  Get(g2, k) = IF k \in IntKeys /\ k - dest \in D \cup {i}
                                 THEN Get(h, f + (k - dest)) ELSE Get(h, k)
  BY DEF MovedBy
<1>1. f + i \in Keys /\ dest + i \in Keys /\ IntKeys \subseteq Int
  BY NumberKeys
<1>2. Get(g, f + i) = Get(h, f + i)
  BY <1>1 DEF MovedBy
<1>3. CASE k = dest + i
  <2>1. k \in IntKeys /\ k - dest = i
    BY <1>3
  <2>2. Get(g2, k) = Get(h, f + i)
    BY <1>2, <1>3 DEF Updated
  <2> QED BY <2>1, <2>2
<1>4. CASE k # dest + i
  <2>1. Get(g2, k) = Get(g, k)
    BY <1>4 DEF Updated
  <2>2. k \in IntKeys => k - dest # i
    BY <1>1, <1>4
  <2> QED BY <2>1, <2>2 DEF MovedBy
<1> QED BY <1>3, <1>4

\* moveelements moves the elements f..e to the places from dest on, and
\* changes nothing else.
LEMMA MoveElementsMoves ==
  ASSUME NEW h, TableOK(h), NEW f \in Int, NEW e \in Int, NEW dest \in Int, f <= e + 1,
         \A i \in 0 .. e - f : f + i \in IntKeys /\ dest + i \in IntKeys
  PROVE  LET g == MoveElements(h, f, e, dest)
         IN  TableOK(g) /\ MovedBy(h, f, dest, 0 .. e - f, g)
<1> DEFINE n == e - f + 1
           up == Upwards(f, e, dest)
           fast == FastMove(h, f, e, dest)
           Done(i) == IF up THEN 0 .. i - 1 ELSE n - i .. n - 1
<1>1. PICK g : Moves(h, f, e, dest, g) /\ MoveElements(h, f, e, dest) = g[n]
  BY MoveElementsSteps, Zenon
<1>2. /\ g[0] = h
      /\ \A i \in 1 .. n : g[i] = Copied(fast, f, dest, g[i - 1], IF up THEN i - 1 ELSE n - i)
      /\ \A i \in 0 .. n : TableOK(g[i]) /\ (fast => SizeArray(g[i]) = SizeArray(h))
  BY <1>1 DEF Moves
<1>3. n \in Nat /\ SizeArray(h) \in Nat
  BY TableParts DEF TableOK
<1> DEFINE G(i) == MovedBy(h, f, dest, Done(i), g[i])
<1>4. G(0)
  <2>1. Done(0) = {}
    BY <1>3
  <2> QED BY <1>2, <2>1 DEF MovedBy
<1>5. ASSUME NEW i \in 1 .. n, G(i - 1) PROVE G(i)
  <2> DEFINE x == IF up THEN i - 1 ELSE n - i
  <2>1. x \in 0 .. e - f /\ x \in Int /\ i - 1 \in 0 .. n
    BY <1>3
  <2>2. f + x \in IntKeys /\ dest + x \in IntKeys
    BY <2>1
  <2>3. fast => f + x \in 1 .. SizeArray(h) /\ dest + x \in 1 .. SizeArray(h)
    BY <1>3, <2>1 DEF FastMove
  <2>4. Done(i) = Done(i - 1) \cup {x} /\ Done(i - 1) \subseteq Int
    BY <1>3
  <2>5. (f + x) - dest \notin Done(i - 1)
    <3>1. CASE up
      BY <1>3, <3>1 DEF Upwards
    <3>2. CASE ~up
      BY <1>3, <3>2 DEF Upwards
    <3> QED BY <3>1, <3>2
  <2>6. g[i] = Copied(fast, f, dest, g[i - 1], x) /\ TableOK(g[i - 1])
        /\ (fast => SizeArray(g[i - 1]) = SizeArray(h))
    BY <1>2, <2>1
  <2>7. fast \in BOOLEAN
    BY DEF FastMove
  <2> HIDE DEF x, fast, Done
  <2>8. Updated(g[i - 1], g[i], dest + x, Get(g[i - 1], f + x))
    BY <2>1, <2>2, <2>3, <2>6, <2>7, CopiedUpdates
  <2>9. MovedBy(h, f, dest, Done(i - 1) \cup {x}, g[i])
    BY <1>5, <2>1, <2>2, <2>4, <2>5, <2>8, MovedOne
  <2> QED BY <2>4, <2>9
<1> DEFINE T == {i \in Nat : i <= n /\ ~G(i)}
<1>6. T = {}
  <2> HIDE DEF n, G
  <2> SUFFICES ASSUME T # {} PROVE FALSE
    OBVIOUS
  <2>1. PICK i \in T : \A j \in T : i <= j
    BY Least
  <2>2. i # 0
    BY <1>4, <2>1
  <2>3. i - 1 \in Nat /\ i - 1 \notin T /\ i \in 1 .. n /\ i - 1 <= n
    BY <1>3, <2>1, <2>2
  <2> QED BY <1>5, <2>1, <2>3
<1>7. G(n)
  <2> HIDE DEF G, n
  <2> QED BY <1>3, <1>6
<1>8. Done(n) = 0 .. e - f
  BY <1>3
<1>9. MovedBy(h, f, dest, 0 .. e - f, g[n])
  BY <1>7, <1>8
<1>10. TableOK(g[n])
  BY <1>2, <1>3
<1> QED BY <1>1, <1>9, <1>10

-----------------------------------------------------------------------------
(* Traversals. *)

\* A position that holds a value holds the entry of its key, ...
LEMMA EntryIs ==
  ASSUME NEW h, TableOK(h), NEW q \in UsedFrom(h, 0)
  PROVE  LET k == EntryAt(h, q)[2]
         IN  /\ q \in Nat /\ k \in Keys /\ Get(h, k) # Nil
             /\ EntryAt(h, q) = <<"entry", k, Get(h, k)>> /\ FindIndex(h, k) = q
<1> DEFINE k == EntryAt(h, q)[2]
<1>1. /\ SizeArray(h) \in Nat /\ SizeNode(h) \in Nat /\ ArrayKeys(h)
      /\ NodesOK(SizeNode(h), h.node)
  BY TableParts DEF TableOK
<1>2. q \in Nat /\ q < SizeArray(h) + SizeNode(h) /\ EntryAt(h, q)[3] # Nil
  BY <1>1 DEF UsedFrom
<1>3. NoKey \notin Keys
  BY TableAssumption
<1>4. CASE q < SizeArray(h)
  <2>1. EntryAt(h, q) = <<"entry", q + 1, h.array[q + 1]>>
    BY <1>4 DEF EntryAt
  <2>2. q + 1 \in 1 .. SizeArray(h) /\ h.array[q + 1] # Nil /\ k = q + 1
    BY <1>1, <1>2, <1>4, <2>1
  <2>3. k \in Keys /\ InArray(h, k)
    BY <1>1, <2>2, NumberKeys DEF ArrayKeys, InArray
  <2>4. Get(h, k) = h.array[k]
    BY <2>3 DEF Get
  <2>5. FindIndex(h, k) = q
    BY <1>2, <1>3, <2>2, <2>3 DEF FindIndex
  <2> QED BY <1>2, <2>1, <2>2, <2>3, <2>4, <2>5
<1>5. CASE ~(q < SizeArray(h))
  <2> DEFINE i == q - SizeArray(h)
  <2>1. EntryAt(h, q) = <<"entry", h.node[i].key, h.node[i].val>>
    BY <1>5 DEF EntryAt
  <2>2. i \in Slots(SizeNode(h)) /\ h.node[i].val # Nil /\ k = h.node[i].key
        /\ SizeArray(h) + i = q /\ i # -1
    BY <1>1, <1>2, <1>5, <2>1 DEF Slots
  <2> HIDE DEF i, k
  <2>3. Taken(h.node, i) /\ ~h.node[i].dead /\ k \in Keys /\ ~InArray(h, k)
    BY <2>2, UsedNode
  <2>4. Get(h, k) = h.node[i].val
    BY <2>2, GetFinds
  <2>5. FirstNode(h, k, TRUE) = i
    BY <1>1, <2>2, <2>3, FirstNodeFinds
  <2>6. FindIndex(h, k) = q
    BY <1>3, <2>2, <2>3, <2>5 DEF FindIndex
  <2> QED BY <1>2, <2>1, <2>2, <2>3, <2>4, <2>6 DEF k
<1> QED BY <1>4, <1>5

\* ... and every entry is at one.
LEMMA EntryOf ==
  ASSUME NEW h, TableOK(h), NEW k \in Keys, Get(h, k) # Nil
  PROVE  \E q \in UsedFrom(h, 0) : EntryAt(h, q)[2] = k
<1>1. SizeArray(h) \in Nat /\ SizeNode(h) \in Nat
  BY TableParts DEF TableOK
<1>2. CASE InArray(h, k)
  <2>1. k \in 1 .. SizeArray(h) /\ h.array[k] # Nil
    BY <1>2 DEF InArray, Get
  <2>2. k - 1 < SizeArray(h) /\ (k - 1) + 1 = k /\ k - 1 \in 0 .. SizeArray(h) + SizeNode(h) - 1
    BY <1>1, <2>1
  <2>3. EntryAt(h, k - 1) = <<"entry", k, h.array[k]>>
    BY <2>2 DEF EntryAt
  <2> QED BY <2>1, <2>2, <2>3 DEF UsedFrom
<1>3. CASE ~InArray(h, k)
  <2>1. PICK i \in Slots(SizeNode(h)) : h.node[i].key = k /\ h.node[i].val # Nil
    BY <1>3, GetIs
  <2> DEFINE q == SizeArray(h) + i
  <2>2. /\ ~(q < SizeArray(h)) /\ q - SizeArray(h) = i
        /\ q \in 0 .. SizeArray(h) + SizeNode(h) - 1
    BY <1>1 DEF Slots
  <2> HIDE DEF q
  <2>3. EntryAt(h, q) = <<"entry", h.node[i].key, h.node[i].val>>
    BY <2>2 DEF EntryAt
  <2> QED BY <2>1, <2>2, <2>3 DEF UsedFrom
<1> QED BY <1>2, <1>3

\* The entries from position p on are those that are still to be answered.
Ahead(h, p, todo) ==
  p \in Nat /\ \A q \in UsedFrom(h, 0) : p <= q <=> EntryAt(h, q)[2] \in todo

\* When there is none, every key still to be answered has lost its value.
LEMMA NoneAhead ==
  ASSUME NEW h, TableOK(h), NEW p, NEW todo, Ahead(h, p, todo), UsedFrom(h, p) = {},
         NEW k \in todo, k \in Keys
  PROVE  Get(h, k) = Nil
<1> SUFFICES ASSUME Get(h, k) # Nil PROVE FALSE
  OBVIOUS
<1>1. PICK q \in UsedFrom(h, 0) : EntryAt(h, q)[2] = k
  BY EntryOf
<1>2. p <= q /\ p \in Nat
  BY <1>1 DEF Ahead
<1>3. SizeArray(h) \in Nat /\ SizeNode(h) \in Nat
  BY TableParts DEF TableOK
<1>4. q \in UsedFrom(h, p)
  BY <1>2, <1>3 DEF UsedFrom
<1> QED BY <1>4

\* Else the first one is answered, and the others are those behind it.
LEMMA FirstAhead ==
  ASSUME NEW h, TableOK(h), NEW p, NEW todo, Ahead(h, p, todo), UsedFrom(h, p) # {}
  PROVE  LET q == Smallest(UsedFrom(h, p))
             k == EntryAt(h, q)[2]
         IN  /\ q \in UsedFrom(h, 0) /\ k \in todo /\ Ahead(h, q + 1, todo \ {k})
<1> DEFINE S == UsedFrom(h, p)
           U == UsedFrom(h, 0)
           q == Smallest(S)
           k == EntryAt(h, q)[2]
<1>1. SizeArray(h) \in Nat /\ SizeNode(h) \in Nat /\ p \in Nat
  BY TableParts DEF TableOK, Ahead
<1>2. \A x \in S : x \in Int /\ p <= x /\ x \in U
  BY <1>1 DEF UsedFrom
<1>3. \A x \in U : x \in Nat /\ (p <= x => x \in S)
  BY <1>1 DEF UsedFrom
<1> HIDE DEF S
<1>4. q \in S /\ \A x \in S : q <= x
  <2>1. S # {} /\ p \in Int
    BY <1>1 DEF S
  <2> QED BY <1>2, <2>1, SmallestOf
<1>5. q \in U /\ q \in Nat /\ p <= q
  BY <1>2, <1>3, <1>4
<1>6. \A x \in U : p <= x <=> EntryAt(h, x)[2] \in todo
  BY DEF Ahead
<1>7. k \in todo
  BY <1>5, <1>6
<1>8. \A x \in U : EntryAt(h, x)[2] = k => x = q
  <2> SUFFICES ASSUME NEW x \in U, EntryAt(h, x)[2] = k PROVE x = q
    OBVIOUS
  <2>1. FindIndex(h, EntryAt(h, x)[2]) = x
    BY EntryIs
  <2>2. FindIndex(h, EntryAt(h, q)[2]) = q
    BY <1>5, EntryIs
  <2> QED BY <2>1, <2>2
<1> HIDE DEF U, q
<1>9. \A x \in U : q + 1 <= x <=> p <= x /\ x # q
  BY <1>1, <1>3, <1>4, <1>5
<1> HIDE DEF k
<1>10. \A x \in U : q + 1 <= x <=> EntryAt(h, x)[2] \in todo \ {k}
  <2>1. EntryAt(h, q)[2] = k
    BY DEF k
  <2> QED BY <1>6, <1>8, <1>9, <2>1
<1>11. Ahead(h, q + 1, todo \ {k})
  BY <1>5, <1>10 DEF Ahead, U
<1> QED BY <1>5, <1>7, <1>11 DEF q, k, S, U

\* g has the keys of h at the same places, and values where h has, at most.
Fewer(h, g) ==
  /\ TableOK(h) /\ TableOK(g) /\ SizeArray(g) = SizeArray(h) /\ SizeNode(g) = SizeNode(h)
  /\ \A i \in 1 .. SizeArray(h) : g.array[i] # Nil => h.array[i] # Nil
  /\ \A j \in Slots(SizeNode(h)) :
       /\ g.node[j].key = h.node[j].key /\ g.node[j].next = h.node[j].next
       /\ g.node[j].val # Nil => h.node[j].val # Nil

\* Then keys are found at the same places, ...
LEMMA SamePlaces ==
  ASSUME NEW h, NEW g, Fewer(h, g), NEW k \in Keys \cup {NoKey}
  PROVE  FindIndex(g, k) = FindIndex(h, k)
<1> DEFINE n == SizeNode(h)
<1>1. /\ n \in Nat /\ NodesOK(n, h.node) /\ NodesOK(n, g.node) /\ SizeNode(g) = n
      /\ SizeArray(g) = SizeArray(h)
  BY TableParts DEF Fewer, TableOK
<1>2. InArray(g, k) <=> InArray(h, k)
  BY <1>1 DEF InArray
<1>3. CASE k # NoKey /\ n # 0
  <2> DEFINE p == HomeOf(n, k)
             c == ChainFrom(h, p)
             d == ChainFrom(g, p)
             T == {i \in Nat : i < n /\ d[i] # c[i]}
  <2>1. p \in Slots(n) /\ MainPosition(h, k) = p /\ MainPosition(g, k) = p
    BY <1>1, <1>3, HomeType DEF MainPosition, HomeOf
  <2> HIDE DEF p
  <2>2. /\ DOMAIN c = Slots(n) /\ c[0] = p
        /\ \A j \in Slots(n) : j # 0 => c[j] = After(h.node, c[j - 1])
    BY <1>1, <1>3, ChainStep
  <2>3. /\ DOMAIN d = Slots(n) /\ d[0] = p
        /\ \A j \in Slots(n) : j # 0 => d[j] = After(g.node, d[j - 1])
    BY <1>1, <1>3, ChainStep
  <2>4. \A j \in Slots(n) : c[j] \in Slots(n)
    BY <1>1, <2>1, ChainType DEF NodesOK
  <2> HIDE DEF c, d, n
  <2>5. T = {}
    <3> SUFFICES ASSUME T # {} PROVE FALSE
      OBVIOUS
    <3>1. PICK i \in T : \A j \in T : i <= j
      BY Least
    <3>2. i # 0
      BY <2>2, <2>3, <3>1
    <3>3. i - 1 \in Nat /\ i - 1 \notin T /\ i \in Slots(n) /\ i - 1 \in Slots(n)
      BY <1>1, <3>1, <3>2 DEF Slots
    <3>4. d[i - 1] = c[i - 1]
      BY <1>1, <3>1, <3>3 DEF Slots
    <3>5. c[i] = After(h.node, c[i - 1]) /\ d[i] = After(g.node, c[i - 1])
      BY <2>2, <2>3, <3>2, <3>3, <3>4
    <3>6. g.node[c[i - 1]].next = h.node[c[i - 1]].next
      BY <2>4, <3>3 DEF Fewer, n
    <3> QED BY <3>1, <3>5, <3>6 DEF After
  <2>6. \A j \in Slots(n) : d[j] = c[j] /\ g.node[c[j]].key = h.node[c[j]].key
    <3> SUFFICES ASSUME NEW j \in Slots(n) PROVE d[j] = c[j] /\ g.node[c[j]].key = h.node[c[j]].key
      OBVIOUS
    <3>1. j \in Nat /\ j < n
      BY <1>1 DEF Slots
    <3>2. d[j] = c[j]
      BY <2>5, <3>1
    <3>3. c[j] \in Slots(SizeNode(h))
      BY <2>4 DEF n
    <3> QED BY <3>2, <3>3 DEF Fewer
  <2> DEFINE hits == {j \in Slots(n) : h.node[c[j]].key = k}
             hitsG == {j \in Slots(n) : g.node[d[j]].key = k}
  <2>7. FirstNode(h, k, TRUE) = IF hits = {} THEN -1 ELSE c[Smallest(hits)]
    <3>1. ~IsDummy(h)
      BY <1>3 DEF IsDummy, n
    <3>2. c = ChainFrom(h, MainPosition(h, k))
      BY <2>1 DEF c
    <3>3. hits = {j \in DOMAIN c : h.node[c[j]].key = k /\ (TRUE \/ ~h.node[c[j]].dead)}
      BY <2>2
    <3> QED BY <3>1, <3>2, <3>3 DEF FirstNode
  <2>8. FirstNode(g, k, TRUE) = IF hitsG = {} THEN -1 ELSE d[Smallest(hitsG)]
    <3>1. ~IsDummy(g)
      BY <1>1, <1>3 DEF IsDummy, n
    <3>2. d = ChainFrom(g, MainPosition(g, k))
      BY <2>1 DEF d
    <3>3. hitsG = {j \in DOMAIN d : g.node[d[j]].key = k /\ (TRUE \/ ~g.node[d[j]].dead)}
      BY <2>3
    <3> QED BY <3>1, <3>2, <3>3 DEF FirstNode
  <2>9. hitsG = hits
    BY <2>6
  <2>10. hits # {} => Smallest(hits) \in Slots(n)
    <3>1. \A j \in hits : j \in Int /\ 0 <= j /\ j \in Slots(n)
      BY DEF Slots
    <3> HIDE DEF hits
    <3>2. hits # {} => Smallest(hits) \in hits
      BY <3>1, SmallestOf
    <3> QED BY <3>1, <3>2
  <2>11. FirstNode(g, k, TRUE) = FirstNode(h, k, TRUE)
    <3> HIDE DEF hits, hitsG
    <3>1. CASE hits = {}
      BY <2>7, <2>8, <2>9, <3>1
    <3>2. CASE hits # {}
      <4>1. FirstNode(h, k, TRUE) = c[Smallest(hits)] /\ FirstNode(g, k, TRUE) = d[Smallest(hits)]
        BY <2>7, <2>8, <2>9, <3>2
      <4>2. d[Smallest(hits)] = c[Smallest(hits)]
        BY <2>6, <2>10, <3>2
      <4> QED BY <4>1, <4>2
    <3> QED BY <3>1, <3>2
  <2> QED BY <1>1, <1>2, <2>11 DEF FindIndex
<1>4. CASE k # NoKey /\ n = 0
  <2>1. FirstNode(h, k, TRUE) = -1 /\ FirstNode(g, k, TRUE) = -1
    BY <1>1, <1>4 DEF FirstNode, IsDummy
  <2> QED BY <1>1, <1>2, <2>1 DEF FindIndex
<1>5. CASE k = NoKey
  BY <1>5 DEF FindIndex
<1> QED BY <1>3, <1>4, <1>5

\* ... and what was ahead of a traversal still is.
LEMMA StillAhead ==
  ASSUME NEW h, NEW g, Fewer(h, g), NEW p, NEW todo, Ahead(h, p, todo)
  PROVE  Ahead(g, p, todo)
<1>1. SizeArray(g) = SizeArray(h) /\ SizeNode(g) = SizeNode(h)
      /\ SizeArray(h) \in Nat /\ SizeNode(h) \in Nat
  BY TableParts DEF Fewer, TableOK
<1>2. ASSUME NEW q \in UsedFrom(g, 0)
      PROVE  q \in UsedFrom(h, 0) /\ EntryAt(h, q)[2] = EntryAt(g, q)[2]
  <2>1. q \in 0 .. SizeArray(h) + SizeNode(h) - 1 /\ EntryAt(g, q)[3] # Nil
    BY <1>1 DEF UsedFrom
  <2>2. CASE q < SizeArray(h)
    <3>1. EntryAt(g, q) = <<"entry", q + 1, g.array[q + 1]>>
          /\ EntryAt(h, q) = <<"entry", q + 1, h.array[q + 1]>>
      BY <1>1, <2>2 DEF EntryAt
    <3>2. q + 1 \in 1 .. SizeArray(h)
      BY <1>1, <2>1, <2>2
    <3>3. h.array[q + 1] # Nil
      BY <2>1, <3>1, <3>2 DEF Fewer
    <3> QED BY <2>1, <3>1, <3>3 DEF UsedFrom
  <2>3. CASE ~(q < SizeArray(h))
    <3> DEFINE i == q - SizeArray(h)
    <3>1. EntryAt(g, q) = <<"entry", g.node[i].key, g.node[i].val>>
          /\ EntryAt(h, q) = <<"entry", h.node[i].key, h.node[i].val>>
      BY <1>1, <2>3 DEF EntryAt
    <3>2. i \in Slots(SizeNode(h))
      BY <1>1, <2>1, <2>3 DEF Slots
    <3>3. h.node[i].val # Nil /\ h.node[i].key = g.node[i].key
      BY <2>1, <3>1, <3>2 DEF Fewer
    <3> QED BY <2>1, <3>1, <3>3 DEF UsedFrom
  <2> QED BY <2>2, <2>3
<1> QED BY <1>2 DEF Ahead

-----------------------------------------------------------------------------
(* Loops. *)

\* A loop by key knows where it is; a loop by key or by position has still to
\* answer just what is ahead of it; a loop over the list is in the array part.
LoopOK ==
  /\ cursor.by = "key" =>
       /\ FindIndex(t, cursor.at) # -2
       /\ Ahead(t, FindIndex(t, cursor.at) + 1, cursor.todo)
  /\ cursor.by = "position" => Ahead(t, cursor.at, cursor.todo)
  /\ cursor.by = "number" =>
       /\ cursor.at \in Nat /\ cursor.at <= SizeArray(t)
       /\ cursor.at \in IntKeys \cup {0} /\ cursor.todo = {}
DictInv == TableInv /\ LoopOK /\ dict = Contents(t)

\* The mapping that dict is.
LEMMA DictIs ==
  ASSUME DictInv
  PROVE  /\ TableOK(t) /\ readonly \in BOOLEAN /\ CursorOK /\ LoopOK
         /\ \A k \in Keys : dict[k] = Get(t, k)
         /\ \A i \in Int : Dictionary!At(dict, i) = IF i \in IntKeys THEN Get(t, i) ELSE Nil
<1>1. \A k \in Keys : dict[k] = Get(t, k)
  BY DEF DictInv, Contents
<1>2. IntKeys \subseteq Keys
  BY NumberKeys
<1> QED BY <1>1, <1>2 DEF DictInv, TableInv, Dictionary!At

\* Its keys are those of the table.
LEMMA SameKeys == Dictionary!Keys = Keys /\ Dictionary!Quiet = Quiet
  BY DEF Dictionary!Keys, Keys, Dictionary!Quiet, Quiet

\* A loop that is over.
LEMMA IdleLoop ==
  ASSUME cursor' = Idle
  PROVE  LoopOK' /\ LoopOf(cursor') = Dictionary!NoLoop
  BY DEF LoopOK, Idle, LoopOf, Dictionary!NoLoop

\* A loop whose table keeps its keys where they are.
LEMMA LoopStays ==
  ASSUME CursorOK, LoopOK, Fewer(t, t'), cursor' = cursor
  PROVE  LoopOK'
<1>1. ASSUME cursor.by = "key"
      PROVE  /\ FindIndex(t', cursor.at) # -2
             /\ Ahead(t', FindIndex(t', cursor.at) + 1, cursor.todo)
  <2>1. cursor.at \in Keys \cup {NoKey}
    BY <1>1 DEF CursorOK
  <2>2. FindIndex(t', cursor.at) = FindIndex(t, cursor.at)
    BY <2>1, SamePlaces
  <2> QED BY <1>1, <2>2, StillAhead DEF LoopOK
<1>2. ASSUME cursor.by = "position" PROVE Ahead(t', cursor.at, cursor.todo)
  BY <1>2, StillAhead DEF LoopOK
<1>3. SizeArray(t') = SizeArray(t)
  BY DEF Fewer
<1> QED BY <1>1, <1>2, <1>3 DEF LoopOK

\* Of course it is if the table is as it was.
LEMMA SameFewer ==
  ASSUME NEW h, TableOK(h)
  PROVE  Fewer(h, h)
  BY DEF Fewer

\* A new key: the loop over a list that is still there goes on, any other is
\* given up.
LEMMA DisturbStep ==
  ASSUME DictInv, Disturb, ~Stubborn,
         cursor.by = "number" /\ Lists(t, cursor.at) => cursor.at <= SizeArray(t')
  PROVE  LoopOK' /\ Dictionary!Disturb
<1>1. LoopOK /\ \A i \in Int : Dictionary!At(dict, i) = IF i \in IntKeys THEN Get(t, i) ELSE Nil
  BY DictIs
<1> DEFINE c == cursor.by = "number" /\ \A i \in 1 .. cursor.at : Get(t, i) # Nil
<1>2. cursor' = IF c THEN cursor ELSE Idle
  BY DEF Disturb
<1>3. ASSUME cursor.by = "number"
      PROVE  \A i \in 1 .. cursor.at : i \in IntKeys
  <2>1. cursor.at \in Nat /\ cursor.at \in IntKeys \cup {0} /\ 1 \in IntKeys
    BY <1>1, <1>3, TableAssumption DEF LoopOK
  <2>2. CASE cursor.at = 0
    BY <2>2
  <2>3. CASE cursor.at \in IntKeys
    BY <2>1, <2>3, TableAssumption
  <2> QED BY <2>1, <2>2, <2>3
<1>4. c <=> /\ LoopOf(cursor).over = "list"
            /\ \A i \in 1 .. LoopOf(cursor).at : Dictionary!At(dict, i) # Nil
  <2>1. LoopOf(cursor).over = "list" <=> cursor.by = "number"
    BY DEF LoopOf
  <2>2. cursor.by = "number" => LoopOf(cursor).at = cursor.at
    BY DEF LoopOf
  <2>3. ASSUME cursor.by = "number"
        PROVE  \A i \in 1 .. cursor.at : Dictionary!At(dict, i) = Get(t, i)
    BY <1>1, <1>3, <2>3
  <2> QED BY <2>1, <2>2, <2>3
<1>5. CASE c
  <2>1. Lists(t, cursor.at)
    BY <1>3, <1>5, NumberKeys DEF Lists
  <2>2. LoopOK'
    BY <1>1, <1>2, <1>5, <2>1 DEF LoopOK
  <2> QED BY <1>2, <1>4, <1>5, <2>2 DEF Dictionary!Disturb
<1>6. CASE ~c
  <2>1. LoopOK' /\ LoopOf(cursor') = Dictionary!NoLoop
    BY <1>2, <1>6, IdleLoop
  <2> QED BY <1>2, <1>4, <1>6, <2>1 DEF Dictionary!Disturb
<1> QED BY <1>5, <1>6

-----------------------------------------------------------------------------
(* Each call is one of the dictionary. *)

\* A store into an entry with a value leaves every key in its place.
LEMMA SetFewer ==
  ASSUME NEW h, TableOK(h), NEW k \in Keys, NEW v \in Values \cup {Nil}, Get(h, k) # Nil
  PROVE  Fewer(h, Set(h, k, v))
<1>1. h.node \in [Slots(SizeNode(h)) -> NodeType] /\ h.array \in Seq(Values \cup {Nil})
  BY TableParts DEF TableOK
<1>2. CASE InArray(h, k)
  <2> DEFINE g == [h EXCEPT !.array[k] = v]
  <2>1. k \in 1 .. SizeArray(h) /\ k \in IntKeys /\ h.array[k] # Nil
    BY <1>2 DEF InArray, Get
  <2>2. Set(h, k, v) = g
    BY <1>2, Zenon DEF Set
  <2>3. /\ TableOK(g) /\ SizeArray(g) = SizeArray(h) /\ SizeNode(g) = SizeNode(h)
        /\ g.node = h.node /\ g.array = [h.array EXCEPT ![k] = v]
    BY <2>1, StoreArrayOK
  <2> HIDE DEF g
  <2>4. \A i \in 1 .. SizeArray(h) : g.array[i] # Nil => h.array[i] # Nil
    BY <1>1, <2>1, <2>3 DEF SizeArray
  <2> QED BY <2>2, <2>3, <2>4 DEF Fewer
<1>3. CASE ~InArray(h, k)
  <2> DEFINE i == NodeOf(h, k)
             g == [h EXCEPT !.node[i].val = v]
  <2>1. i # -1 /\ Get(h, k) = h.node[i].val
    BY <1>3 DEF Get
  <2>2. SizeNode(h) \in Nat /\ NodesOK(SizeNode(h), h.node)
    BY TableParts DEF TableOK
  <2>3. i \in Slots(SizeNode(h)) /\ Taken(h.node, i) /\ ~h.node[i].dead
    BY <2>1, <2>2, FirstNodeIs DEF NodeOf
  <2>4. Set(h, k, v) = g
    BY <1>3, <2>1, Zenon DEF Set
  <2>5. /\ TableOK(g) /\ SizeArray(g) = SizeArray(h) /\ SizeNode(g) = SizeNode(h)
        /\ g.node = [h.node EXCEPT ![i].val = v] /\ g.array = h.array
    BY <2>3, StoreNodeOK
  <2> HIDE DEF g, i
  <2>6. \A j \in Slots(SizeNode(h)) :
          /\ g.node[j].key = h.node[j].key /\ g.node[j].next = h.node[j].next
          /\ g.node[j].val # Nil => h.node[j].val # Nil
    BY <1>1, <2>1, <2>3, <2>5 DEF NodeType
  <2> QED BY <2>4, <2>5, <2>6 DEF Fewer
<1> QED BY <1>2, <1>3

\* A call that leaves the table alone.
LEMMA SameTable ==
  ASSUME DictInv, t' = t, dict' = Contents(t')
  PROVE  dict' = dict /\ (cursor' = cursor => LoopOK')
<1>1. dict' = dict
  BY DEF DictInv
<1>2. Fewer(t, t')
  BY SameFewer DEF DictInv, TableInv
<1> QED BY <1>1, <1>2, LoopStays DEF DictInv, TableInv

\* A table that holds the same.
LEMMA SameDict ==
  ASSUME DictInv, dict' = Contents(t'), Alike(t, t')
  PROVE  dict' = dict
  BY DEF DictInv, Contents, Alike

\* Stores.
LEMMA StoreStep ==
  ASSUME DictInv, NEW k \in Keys, NEW v \in Values \cup {Nil}, Store(k, v),
         dict' = Contents(t'), ~Stubborn
  PROVE  LoopOK' /\ (Dictionary!Refuse \/ Dictionary!Store)
<1>1. TableOK(t) /\ CursorOK /\ LoopOK /\ \A j \in Keys : dict[j] = Get(t, j)
  BY DictIs
<1>2. CASE Refuse
  <2>1. dict' = dict /\ LoopOK' /\ cursor' = cursor /\ readonly' = readonly
    BY <1>2, SameTable DEF Refuse, Store
  <2> QED BY <1>2, <2>1 DEF Refuse, Dictionary!Refuse
<1>3. CASE ~Refuse
  <2>1. /\ ~readonly /\ t' = Set(t, k, v) /\ reply' = Quiet /\ readonly' = readonly
        /\ IF Get(t, k) = Nil THEN Disturb ELSE cursor' = cursor
    BY <1>3 DEF Store
  <2>2. Updated(t, t', k, v)
    BY <1>1, <2>1, SetUpdates
  <2>3. /\ dict'[k] \in Values \cup {Nil}
        /\ \A j \in Keys \ {k} : dict'[j] = dict[j]
    <3>1. \A j \in Keys : dict'[j] = Get(t', j)
      BY DEF Contents
    <3> QED BY <1>1, <2>2, <3>1 DEF Updated
  <2>4. LoopOK' /\ IF dict[k] = Nil THEN Dictionary!Disturb ELSE LoopOf(cursor') = LoopOf(cursor)
    <3>1. CASE Get(t, k) = Nil
      <4>1. cursor.by = "number" /\ Lists(t, cursor.at) => cursor.at <= SizeArray(t')
        BY <1>1, <2>1, SetCovers DEF LoopOK
      <4> QED BY <1>1, <2>1, <3>1, <4>1, DisturbStep
    <3>2. CASE Get(t, k) # Nil
      <4>1. Fewer(t, t')
        BY <1>1, <2>1, <3>2, SetFewer
      <4> QED BY <1>1, <2>1, <3>2, <4>1, LoopStays
    <3> QED BY <3>1, <3>2
  <2> QED BY <2>1, <2>3, <2>4, SameKeys DEF Dictionary!Store
<1> QED BY <1>2, <1>3

\* Reads.
LEMMA LoadStep ==
  ASSUME DictInv, NEW k \in Keys, Load(k), dict' = Contents(t')
  PROVE  LoopOK' /\ Dictionary!Load
<1>1. dict[k] = Get(t, k)
  BY DictIs
<1>2. dict' = dict /\ LoopOK' /\ cursor' = cursor
  BY SameTable DEF Load
<1> QED BY <1>1, <1>2, SameKeys DEF Load, Dictionary!Load

\* The last element of a list is a border.
LEMMA EndsIsBorder ==
  ASSUME DictInv, NEW n, Ends(t.array, n)
  PROVE  n \in Nat /\ n \in IntKeys \cup {0} /\ Dictionary!Border(dict, n)
<1>1. TableOK(t) /\ \A i \in Int : Dictionary!At(dict, i) = IF i \in IntKeys THEN Get(t, i) ELSE Nil
  BY DictIs
<1>2. SizeArray(t) \in Nat /\ ArrayKeys(t) /\ SizeArray(t) = Len(t.array) /\ IntKeys \subseteq Keys
  BY <1>1, TableParts, NumberKeys DEF TableOK, SizeArray
<1>3. /\ n \in Nat /\ n <= SizeArray(t) /\ (n # 0 => t.array[n] # Nil)
      /\ n < SizeArray(t) => t.array[n + 1] = Nil
  BY <1>2 DEF Ends
<1>4. n # 0 => n \in IntKeys /\ Get(t, n) # Nil
  BY <1>2, <1>3 DEF ArrayKeys, Get, InArray
<1>5. n + 1 \in IntKeys => Get(t, n + 1) = Nil
  <2>1. CASE n < SizeArray(t)
    BY <1>2, <1>3, <2>1 DEF Get, InArray
  <2>2. CASE n = SizeArray(t)
    BY <1>1, <1>2, <2>2, BorderIsFree
  <2> QED BY <1>2, <1>3, <2>1, <2>2
<1>6. Dictionary!Border(dict, n)
  BY <1>1, <1>3, <1>4, <1>5 DEF Dictionary!Border
<1> QED BY <1>3, <1>4, <1>6

\* The length.
LEMMA LengthStep ==
  ASSUME DictInv, Length, dict' = Contents(t')
  PROVE  LoopOK' /\ Dictionary!Length
<1>1. TableOK(t) /\ CursorOK /\ LoopOK
  BY DictIs
<1>2. /\ t' = GetN(t).h /\ reply' = <<"length", GetN(t).n>>
      /\ readonly' = readonly /\ cursor' = cursor
  BY DEF Length
<1>3. TableOK(t') /\ t'.node = t.node /\ t'.array = t.array /\ Ends(t.array, GetN(t).n)
  BY <1>1, <1>2, GetNIs
<1>4. Fewer(t, t')
  BY <1>1, <1>3 DEF Fewer, SizeArray, SizeNode
<1>5. LoopOK' /\ dict' = dict
  BY <1>1, <1>2, <1>4, LoopStays, SameDict, GetNAlike
<1>6. GetN(t).n \in IntKeys \cup {0} /\ Dictionary!Border(dict, GetN(t).n)
  BY <1>3, EndsIsBorder
<1> QED BY <1>2, <1>5, <1>6 DEF Dictionary!Length

\* The start of a loop: everything is ahead.
LEMMA TraverseStep ==
  ASSUME DictInv, Traverse, dict' = Contents(t')
  PROVE  LoopOK' /\ Dictionary!LoopOver
<1>1. TableOK(t) /\ \A k \in Keys : dict[k] = Get(t, k)
  BY DictIs
<1>2. t' = t /\ readonly' = readonly /\ reply' = Quiet /\ dict' = dict
  BY SameTable DEF Traverse
<1>3. Present(t) = {k \in Keys : dict[k] # Nil}
  BY <1>1 DEF Present
<1>4. Ahead(t, 0, Present(t))
  <2> SUFFICES ASSUME NEW q \in UsedFrom(t, 0)
               PROVE  0 <= q /\ EntryAt(t, q)[2] \in Present(t)
    BY DEF Ahead
  <2> QED BY <1>1, EntryIs DEF Present
<1>5. CASE cursor' = By("key", NoKey, Present(t))
  <2>1. FindIndex(t, NoKey) = -1 /\ -1 + 1 = 0
    BY DEF FindIndex
  <2>2. LoopOK'
    BY <1>2, <1>4, <1>5, <2>1 DEF LoopOK, By
  <2>3. LoopOf(cursor') = [over |-> "entries", at |-> 0, todo |-> {k \in Keys : dict[k] # Nil}]
    BY <1>3, <1>5 DEF LoopOf, By
  <2> QED BY <1>2, <2>2, <2>3, SameKeys DEF Dictionary!LoopOver
<1>6. CASE cursor' = By("position", 0, Present(t))
  <2>1. LoopOK'
    BY <1>2, <1>4, <1>6 DEF LoopOK, By
  <2>2. LoopOf(cursor') = [over |-> "entries", at |-> 0, todo |-> {k \in Keys : dict[k] # Nil}]
    BY <1>3, <1>6 DEF LoopOf, By
  <2> QED BY <1>2, <2>1, <2>2, SameKeys DEF Dictionary!LoopOver
<1>7. CASE cursor' = By("number", 0, {})
  <2>1. SizeArray(t) \in Nat
    BY <1>1, TableParts DEF TableOK
  <2>2. LoopOK'
    BY <1>2, <1>7, <2>1 DEF LoopOK, By
  <2>3. LoopOf(cursor') = [over |-> "list", at |-> 0, todo |-> {}]
    BY <1>7 DEF LoopOf, By
  <2> QED BY <1>2, <2>2, <2>3, SameKeys DEF Dictionary!LoopOver
<1> QED BY <1>5, <1>6, <1>7 DEF Traverse

\* The end of a loop over the entries.
LEMMA EndStep ==
  ASSUME DictInv, NEW p, Ahead(t, p, cursor.todo), UsedFrom(t, p) = {},
         cursor.by \in {"key", "position"}, reply' = <<"end">>, cursor' = Idle,
         UNCHANGED <<t, readonly>>, dict' = Contents(t')
  PROVE  LoopOK' /\ Dictionary!Finish
<1>1. TableOK(t) /\ CursorOK /\ \A k \in Keys : dict[k] = Get(t, k)
  BY DictIs
<1>2. dict' = dict /\ LoopOK' /\ LoopOf(cursor') = Dictionary!NoLoop
  BY SameTable, IdleLoop
<1>3. LoopOf(cursor).over = "entries" /\ LoopOf(cursor).todo = cursor.todo
  BY DEF LoopOf
<1>4. \A k \in cursor.todo : dict[k] = Nil
  BY <1>1, NoneAhead DEF CursorOK
<1> QED BY <1>2, <1>3, <1>4 DEF Dictionary!Finish

\* And its steps.
LEMMA VisitStep ==
  ASSUME DictInv, NEW p, Ahead(t, p, cursor.todo), UsedFrom(t, p) # {},
         cursor.by \in {"key", "position"}, NEW q, q = Smallest(UsedFrom(t, p)),
         reply' = EntryAt(t, q), UNCHANGED <<t, readonly>>, dict' = Contents(t'),
         LET k == EntryAt(t, q)[2]
         IN  \/ cursor' = By("key", k, cursor.todo \ {k})
             \/ cursor' = By("position", q + 1, cursor.todo \ {k})
  PROVE  LoopOK' /\ Dictionary!Visit
<1> DEFINE k == EntryAt(t, q)[2]
<1>1. TableOK(t) /\ \A j \in Keys : dict[j] = Get(t, j)
  BY DictIs
<1>2. dict' = dict /\ t' = t /\ readonly' = readonly
  BY SameTable
<1>3. q \in UsedFrom(t, 0) /\ k \in cursor.todo /\ Ahead(t, q + 1, cursor.todo \ {k})
  BY <1>1, FirstAhead
<1>4. /\ q \in Nat /\ k \in Keys /\ Get(t, k) # Nil
      /\ EntryAt(t, q) = <<"entry", k, Get(t, k)>> /\ FindIndex(t, k) = q
  BY <1>1, <1>3, EntryIs
<1>5. cursor' = By("key", k, cursor.todo \ {k}) \/ cursor' = By("position", q + 1, cursor.todo \ {k})
  OBVIOUS
<1> HIDE DEF k
<1>6. LoopOK'
  <2>1. q # -2
    BY <1>4
  <2>2. CASE cursor' = By("key", k, cursor.todo \ {k})
    <3>1. /\ cursor'.by = "key" /\ cursor'.at = k /\ cursor'.todo = cursor.todo \ {k}
      BY <2>2 DEF By
    <3>2. FindIndex(t', cursor'.at) = q
      BY <1>2, <1>4, <3>1
    <3>3. Ahead(t', FindIndex(t', cursor'.at) + 1, cursor'.todo)
      BY <1>2, <1>3, <3>1, <3>2
    <3> QED BY <2>1, <3>1, <3>2, <3>3 DEF LoopOK
  <2>3. CASE cursor' = By("position", q + 1, cursor.todo \ {k})
    <3>1. /\ cursor'.by = "position" /\ cursor'.at = q + 1 /\ cursor'.todo = cursor.todo \ {k}
      BY <2>3 DEF By
    <3>2. Ahead(t', cursor'.at, cursor'.todo)
      BY <1>2, <1>3, <3>1
    <3> QED BY <3>1, <3>2 DEF LoopOK
  <2> QED BY <1>5, <2>2, <2>3
<1>7. /\ LoopOf(cursor) = [over |-> "entries", at |-> 0, todo |-> cursor.todo]
      /\ LoopOf(cursor') = [over |-> "entries", at |-> 0, todo |-> cursor.todo \ {k}]
  BY <1>5 DEF LoopOf, By
<1>8. Dictionary!Visit
  <2>1. LoopOf(cursor)' = LoopOf(cursor')
    BY DEF LoopOf
  <2>2. k \in LoopOf(cursor).todo /\ dict[k] # Nil /\ reply' = <<"entry", k, dict[k]>>
    BY <1>1, <1>3, <1>4, <1>7
  <2>3. LoopOf(cursor') = [LoopOf(cursor) EXCEPT !.todo = LoopOf(cursor).todo \ {k}]
    BY <1>7
  <2>4. LoopOf(cursor).over = "entries" /\ LoopOf(cursor').over = "entries"
    BY <1>7
  <2>5. \E j \in LoopOf(cursor).todo :
          /\ dict[j] # Nil /\ reply' = <<"entry", j, dict[j]>>
          /\ LoopOf(cursor') = [LoopOf(cursor) EXCEPT !.todo = LoopOf(cursor).todo \ {j}]
    BY <2>2, <2>3
  <2> QED BY <1>2, <2>1, <2>4, <2>5 DEF Dictionary!Visit
<1> QED BY <1>6, <1>8

\* A step of a loop over the list, and its end.
LEMMA NumberStep ==
  ASSUME DictInv, cursor.by = "number", NextByNumber, UNCHANGED <<t, readonly>>,
         dict' = Contents(t')
  PROVE  LoopOK' /\ (Dictionary!VisitList \/ Dictionary!Finish)
<1>1. /\ TableOK(t) /\ LoopOK
      /\ \A i \in Int : Dictionary!At(dict, i) = IF i \in IntKeys THEN Get(t, i) ELSE Nil
  BY DictIs
<1>2. dict' = dict /\ t' = t /\ readonly' = readonly
  BY SameTable
<1>3. cursor.at \in Nat /\ cursor.at <= SizeArray(t) /\ cursor.todo = {}
  BY <1>1 DEF LoopOK
<1>4. SizeArray(t) \in Nat /\ ArrayKeys(t) /\ IntKeys \subseteq Keys
  BY <1>1, TableParts, NumberKeys DEF TableOK
<1>5. LoopOf(cursor) = [over |-> "list", at |-> cursor.at, todo |-> {}]
  BY <1>3 DEF LoopOf
<1> DEFINE m == cursor.at + 1
<1>6. CASE cursor.at < SizeArray(t) /\ t.array[m] # Nil
  <2>1. m \in 1 .. SizeArray(t) /\ m \in Nat
    BY <1>3, <1>4, <1>6
  <2>2. m \in IntKeys /\ Get(t, m) = t.array[m]
    BY <1>4, <1>6, <2>1 DEF ArrayKeys, Get, InArray
  <2>3. Dictionary!At(dict, m) = t.array[m]
    BY <1>1, <2>1, <2>2
  <2>4. reply' = EntryAt(t, cursor.at) /\ cursor' = By("number", m, {})
    <3>1. ~(cursor.at >= SizeArray(t) \/ t.array[cursor.at + 1] = Nil)
      BY <1>3, <1>4, <1>6
    <3> QED BY <3>1 DEF NextByNumber
  <2>5. EntryAt(t, cursor.at) = <<"entry", m, t.array[m]>>
    BY <1>6 DEF EntryAt
  <2> HIDE DEF m
  <2>6. LoopOf(cursor') = [over |-> "list", at |-> m, todo |-> {}]
    BY <2>4 DEF LoopOf, By
  <2>7. LoopOf(cursor') = [LoopOf(cursor) EXCEPT !.at = LoopOf(cursor).at + 1]
    BY <1>5, <2>6 DEF m
  <2>8. LoopOK'
    BY <1>2, <2>1, <2>2, <2>4 DEF LoopOK, By
  <2>9. LoopOf(cursor).over = "list" /\ LoopOf(cursor).at + 1 = m
    BY <1>5 DEF m
  <2>10. reply' = <<"entry", m, Dictionary!At(dict, m)>> /\ Dictionary!At(dict, m) # Nil
    BY <1>6, <2>3, <2>4, <2>5 DEF m
  <2> QED BY <1>2, <2>7, <2>8, <2>9, <2>10 DEF Dictionary!VisitList
<1>7. CASE ~(cursor.at < SizeArray(t) /\ t.array[m] # Nil)
  <2>1. reply' = <<"end">> /\ cursor' = Idle
    <3>1. cursor.at >= SizeArray(t) \/ t.array[cursor.at + 1] = Nil
      BY <1>3, <1>4, <1>7
    <3> QED BY <3>1 DEF NextByNumber
  <2>2. m \in Nat /\ (m \in IntKeys => Get(t, m) = Nil)
    <3>1. CASE cursor.at < SizeArray(t)
      <4>1. m \in 1 .. SizeArray(t) /\ t.array[m] = Nil
        BY <1>3, <1>4, <1>7, <3>1
      <4> QED BY <4>1 DEF Get, InArray
    <3>2. CASE cursor.at = SizeArray(t)
      BY <1>1, <1>4, <3>2, BorderIsFree
    <3> QED BY <1>3, <1>4, <3>1, <3>2
  <2>3. Dictionary!At(dict, m) = Nil
    BY <1>1, <2>2
  <2>4. LoopOK' /\ LoopOf(cursor') = Dictionary!NoLoop
    BY <2>1, IdleLoop
  <2>5. LoopOf(cursor).over = "list" /\ LoopOf(cursor).at + 1 = m
    BY <1>5
  <2> QED BY <1>2, <2>1, <2>3, <2>4, <2>5 DEF Dictionary!Finish
<1> QED BY <1>6, <1>7

\* Any step of a loop.
LEMMA AdvanceStep ==
  ASSUME DictInv, Advance, dict' = Contents(t')
  PROVE  LoopOK' /\ (Dictionary!Visit \/ Dictionary!VisitList \/ Dictionary!Finish)
<1>1. LoopOK /\ UNCHANGED <<t, readonly>>
  BY DictIs DEF Advance
<1>2. CASE cursor.by = "key" /\ NextByKey
  <2> DEFINE p == FindIndex(t, cursor.at) + 1
             rest == UsedFrom(t, p)
             q == Smallest(rest)
  <2>1. FindIndex(t, cursor.at) # -2 /\ Ahead(t, p, cursor.todo)
    BY <1>1, <1>2 DEF LoopOK
  <2>2. IF rest = {} THEN reply' = <<"end">> /\ cursor' = Idle
        ELSE /\ reply' = EntryAt(t, q)
             /\ cursor' = By("key", EntryAt(t, q)[2], cursor.todo \ {EntryAt(t, q)[2]})
    BY <1>2, <2>1 DEF NextByKey
  <2> HIDE DEF p
  <2>3. CASE rest = {}
    BY <1>1, <1>2, <2>1, <2>2, <2>3, EndStep
  <2>4. CASE rest # {}
    BY <1>1, <1>2, <2>1, <2>2, <2>4, VisitStep
  <2> QED BY <2>3, <2>4
<1>3. CASE cursor.by = "position" /\ NextByPosition
  <2> DEFINE p == cursor.at
             rest == UsedFrom(t, p)
             q == Smallest(rest)
  <2>1. Ahead(t, p, cursor.todo)
    BY <1>1, <1>3 DEF LoopOK
  <2>2. IF rest = {} THEN reply' = <<"end">> /\ cursor' = Idle
        ELSE /\ reply' = EntryAt(t, q)
             /\ cursor' = By("position", q + 1, cursor.todo \ {EntryAt(t, q)[2]})
    BY <1>3 DEF NextByPosition
  <2> HIDE DEF p
  <2>3. CASE rest = {}
    BY <1>1, <1>3, <2>1, <2>2, <2>3, EndStep
  <2>4. CASE rest # {}
    BY <1>1, <1>3, <2>1, <2>2, <2>4, VisitStep
  <2> QED BY <2>3, <2>4
<1>4. CASE cursor.by = "number" /\ NextByNumber
  BY <1>1, <1>4, NumberStep
<1> QED BY <1>2, <1>3, <1>4 DEF Advance

\* table.freeze
LEMMA FreezeStep ==
  ASSUME DictInv, Freeze, dict' = Contents(t')
  PROVE  LoopOK' /\ Dictionary!Freeze
<1>1. dict' = dict /\ LoopOK' /\ cursor' = cursor
  BY SameTable DEF Freeze
<1> QED BY <1>1, SameKeys DEF Freeze, Dictionary!Freeze

\* table.clear
LEMMA ClearStep ==
  ASSUME DictInv, Clear, dict' = Contents(t')
  PROVE  LoopOK' /\ (Dictionary!Refuse \/ Dictionary!Clear)
<1>1. CASE Refuse
  <2>1. dict' = dict /\ LoopOK' /\ cursor' = cursor /\ readonly' = readonly
    BY <1>1, SameTable DEF Refuse, Clear
  <2> QED BY <1>1, <2>1 DEF Refuse, Dictionary!Refuse
<1>2. CASE ~Refuse
  <2>1. /\ ~readonly /\ t' = Cleared(t) /\ reply' = Quiet /\ readonly' = readonly
        /\ cursor' = IF cursor.by = "number" THEN cursor ELSE Idle
    BY <1>2 DEF Clear
  <2>2. TableOK(t) /\ LoopOK /\ SizeArray(t') = SizeArray(t)
    BY <2>1, DictIs, ClearedOK
  <2>3. dict' = [k \in Keys |-> Nil]
    BY <2>1, <2>2, ClearedEmpty DEF Contents
  <2>4. LoopOK' /\ LoopOf(cursor') = IF LoopOf(cursor).over = "list" THEN LoopOf(cursor)
                                     ELSE Dictionary!NoLoop
    <3>1. LoopOf(cursor).over = "list" <=> cursor.by = "number"
      BY DEF LoopOf
    <3>2. CASE cursor.by = "number"
      BY <2>1, <2>2, <3>1, <3>2 DEF LoopOK
    <3>3. CASE cursor.by # "number"
      BY <2>1, <3>1, <3>3, IdleLoop
    <3> QED BY <3>2, <3>3
  <2> QED BY <2>1, <2>3, <2>4, SameKeys DEF Dictionary!Clear
<1> QED BY <1>1, <1>2

\* table.clone
LEMMA CloneStep ==
  ASSUME DictInv, Clone, dict' = Contents(t')
  PROVE  LoopOK' /\ Dictionary!Clone
<1>1. dict' = dict /\ LoopOK' /\ LoopOf(cursor') = Dictionary!NoLoop
  BY DictIs, IdleLoop, SameDict, ClonedAlike DEF Clone
<1> QED BY <1>1, SameKeys DEF Clone, Dictionary!Clone

\* The collector: nothing that a script could see.
LEMMA CollectStep ==
  ASSUME DictInv, Collect, dict' = Contents(t')
  PROVE  LoopOK' /\ UNCHANGED <<dict, readonly, cursor, reply>>
<1>1. TableOK(t) /\ CursorOK /\ LoopOK
  BY DictIs
<1>2. t' = DeadKeys(t) /\ UNCHANGED <<readonly, cursor, reply>>
  BY DEF Collect
<1>3. Fewer(t, t') /\ Alike(t, t')
  BY <1>1, <1>2, DeadKeysOK, DeadKeysAlike DEF Fewer
<1> QED BY <1>1, <1>2, <1>3, LoopStays, SameDict

\* A weak table gets smaller.
LEMMA ShrinkStep ==
  ASSUME DictInv, Shrink, dict' = Contents(t'), ~Stubborn
  PROVE  LoopOK' /\ Dictionary!Shrink
<1>1. TableOK(t) /\ LoopOK
  BY DictIs
<1>2. t' = ResizeHash(t, Cardinality(UsedNodes(t))) /\ Disturb /\ UNCHANGED <<readonly, reply>>
  BY DEF Shrink
<1>3. Alike(t, t') /\ SizeArray(t') = SizeArray(t)
  BY <1>1, <1>2, ResizeHashAlike
<1>4. dict' = dict
  BY <1>3, SameDict
<1>5. LoopOK' /\ Dictionary!Disturb
  BY <1>1, <1>2, <1>3, DisturbStep DEF LoopOK
<1> QED BY <1>2, <1>4, <1>5 DEF Dictionary!Shrink

\* Elements stored from a key on.
LEMMA StoredStep ==
  ASSUME ~readonly, readonly' = readonly, cursor' = Idle, dict' = Contents(t'),
         NEW list \in BoundedSeq(Values \cup {Nil}, MaxArray), list # <<>>,
         NEW first \in IntKeys, first + Len(list) - 1 \in IntKeys,
         reply' = <<"stored", first, list>>,
         \A k \in Keys : dict'[k] = IF k \in first .. first + Len(list) - 1
                                   THEN list[k - first + 1] ELSE dict[k]
  PROVE  LoopOK' /\ Dictionary!StoreList
<1> DEFINE last == first + Len(list) - 1
           n == Len(list)
           seen == [i \in 1 .. last - first + 1 |-> Dictionary!At(dict', first + i - 1)]
<1>1. first \in Int /\ last \in IntKeys /\ first .. last \subseteq IntKeys
  BY NumberKeys, TableAssumption
<1>2. n \in Nat /\ n # 0 /\ list = [i \in 1 .. n |-> list[i]]
  BY ListIs
<1>3. first <= last /\ last - first + 1 = n
  BY <1>1, <1>2
<1>4. ASSUME NEW i \in 1 .. n PROVE Dictionary!At(dict', first + i - 1) = list[i]
  <2> DEFINE k == first + i - 1
  <2>1. k \in first .. last /\ k - first + 1 = i
    BY <1>1, <1>2
  <2>2. k \in IntKeys /\ k \in Keys
    BY <1>1, <2>1, NumberKeys
  <2> HIDE DEF k
  <2>3. dict'[k] = list[i]
    BY <2>1, <2>2
  <2> QED BY <2>2, <2>3 DEF Dictionary!At, k
<1> HIDE DEF last, n
<1>5. seen = list
  <2>1. seen = [i \in 1 .. n |-> Dictionary!At(dict', first + i - 1)]
    BY <1>3
  <2>2. [i \in 1 .. n |-> Dictionary!At(dict', first + i - 1)] = [i \in 1 .. n |-> list[i]]
    BY <1>4
  <2> QED BY <1>2, <2>1, <2>2
<1>6. \A k \in Keys : k \in first .. last \/ dict'[k] = dict[k]
  BY DEF last
<1>7. LoopOK' /\ LoopOf(cursor') = Dictionary!NoLoop
  BY IdleLoop
<1> QED BY <1>1, <1>3, <1>5, <1>6, <1>7, SameKeys DEF Dictionary!StoreList

\* LOP_SETLIST
LEMMA SetListStep ==
  ASSUME DictInv, NEW first \in 1 .. MaxArray,
         NEW list \in BoundedSeq(Values \cup {Nil}, MaxArray),
         list # <<>>, first + Len(list) - 1 <= MaxArray, SetList(first, list),
         dict' = Contents(t')
  PROVE  LoopOK' /\ Dictionary!StoreList
<1> DEFINE last == first + Len(list) - 1
           h == IF last > SizeArray(t) THEN ResizeArray(t, last) ELSE t
           a == [i \in DOMAIN h.array |->
                   IF i \in first .. last THEN list[i - first + 1] ELSE h.array[i]]
<1>1. TableInv /\ TableOK(t) /\ SizeArray(t) \in Nat /\ \A k \in Keys : dict[k] = Get(t, k)
  BY DictIs, TableParts DEF DictInv, TableOK
<1>2. MaxArray \in Nat /\ 1 .. MaxArray \subseteq IntKeys
  BY TableAssumption
<1>3. Len(list) \in Nat /\ Len(list) # 0 /\ \A i \in 1 .. Len(list) : list[i] \in Values \cup {Nil}
  BY ListIs
<1>4. last \in Int /\ first \in Nat /\ 1 <= first /\ last <= MaxArray /\ first <= last
  BY <1>2, <1>3
<1>5. last > SizeArray(t) => last \in Nat /\ SizeArray(t) < last
  BY <1>1, <1>4
<1>6. /\ t' = [h EXCEPT !.array = a] /\ ~readonly /\ cursor' = Idle
      /\ readonly' = readonly /\ reply' = <<"stored", first, list>>
  BY Zenon DEF SetList
<1>7. \A i \in first .. last : i - first + 1 \in 1 .. Len(list)
  BY <1>3, <1>4
<1> HIDE DEF last
<1>8. Alike(t, h) /\ TableOK(h) /\ last <= SizeArray(h)
  <2>1. CASE last > SizeArray(t)
    BY <1>1, <1>5, <2>1, ResizeArrayAlike, ResizeArrayOK
  <2>2. CASE ~(last > SizeArray(t))
    BY <1>1, <1>4, <2>2 DEF Alike
  <2> QED BY <2>1, <2>2
<1> HIDE DEF h
<1>9. h \in TableType /\ h.array \in Seq(Values \cup {Nil}) /\ SizeArray(h) \in Nat
      /\ DOMAIN h.array = 1 .. SizeArray(h)
  BY <1>8, TableParts DEF TableOK, SizeArray
<1>10. TableOK(t')
  BY <1>1, SetListOK DEF TableInv
<1>11. /\ \A i \in 1 .. SizeArray(h) :
            a[i] = IF i \in first .. last THEN list[i - first + 1] ELSE h.array[i]
       /\ a \in Seq(Values \cup {Nil}) /\ Len(a) = SizeArray(h)
  <2>1. \A i \in DOMAIN h.array : a[i] \in Values \cup {Nil}
    BY <1>3, <1>7, <1>9
  <2> QED BY <1>9, <2>1
<1> HIDE DEF a
<1>12. t'.node = h.node /\ t'.array = a /\ SizeArray(t') = SizeArray(h)
  BY <1>6, <1>9, <1>11 DEF TableType, SizeArray
<1>13. \A k : InArray(t', k) <=> InArray(h, k)
  BY <1>12 DEF InArray
<1>14. ASSUME NEW k \in Keys
       PROVE  dict'[k] = IF k \in first .. last THEN list[k - first + 1] ELSE dict[k]
  <2>1. dict'[k] = Get(t', k) /\ dict[k] = Get(h, k)
    BY <1>1, <1>8 DEF Contents, Alike
  <2>2. CASE k \in first .. last
    <3>1. k \in 1 .. SizeArray(h) /\ k \in IntKeys
      BY <1>2, <1>4, <1>8, <1>9, <2>2
    <3>2. Get(t', k) = list[k - first + 1]
      BY <1>11, <1>12, <2>2, <3>1 DEF Get, InArray
    <3> QED BY <2>1, <2>2, <3>2
  <2>3. CASE k \notin first .. last
    <3>1. \A v : Holds(h, k, v) <=> Holds(t', k, v)
      BY <1>11, <1>12, <1>13, <2>3 DEF Holds, InArray, SizeNode
    <3>2. Get(t', k) = Get(h, k)
      BY <1>8, <1>10, <3>1, SameGet
    <3> QED BY <2>1, <2>3, <3>2
  <2> QED BY <2>2, <2>3
<1>15. first \in IntKeys /\ last \in IntKeys
  BY <1>2, <1>4
<1> QED BY <1>6, <1>14, <1>15, StoredStep DEF last

-----------------------------------------------------------------------------
(* The functions of the table library. *)

\* A store, in terms of the mapping.
LEMMA ContentsSet ==
  ASSUME NEW h, TableOK(h), NEW k \in Keys, NEW v \in Values \cup {Nil}
  PROVE  Contents(Set(h, k, v)) = [Contents(h) EXCEPT ![k] = v]
<1> DEFINE g == Set(h, k, v)
<1>1. Get(g, k) = v /\ \A j \in Keys \ {k} : Get(g, j) = Get(h, j)
  BY SetUpdates DEF Updated
<1> HIDE DEF g
<1>2. Contents(g) = [Contents(h) EXCEPT ![k] = v]
  BY <1>1 DEF Contents
<1> QED BY <1>2 DEF g

\* moveelements, in terms of the mapping.
LEMMA ContentsMoved ==
  ASSUME DictInv, NEW h, Alike(t, h), NEW f \in Int, NEW e \in Int, NEW dest \in Int, f <= e + 1,
         \A i \in 0 .. e - f : f + i \in IntKeys /\ dest + i \in IntKeys
  PROVE  LET g == MoveElements(h, f, e, dest)
         IN  TableOK(g) /\ Contents(g) = Dictionary!Moved(dict, f, e, dest)
<1> DEFINE g == MoveElements(h, f, e, dest)
<1>1. TableOK(g) /\ MovedBy(h, f, dest, 0 .. e - f, g)
  BY MoveElementsMoves DEF Alike
<1> HIDE DEF g
<1>2. /\ \A k \in Keys : dict[k] = Get(t, k)
      /\ \A i \in Int : Dictionary!At(dict, i) = IF i \in IntKeys THEN Get(t, i) ELSE Nil
  BY DictIs
<1>3. IntKeys \subseteq Keys /\ IntKeys \subseteq Int
  BY NumberKeys
<1>4. ASSUME NEW k \in Keys
      PROVE  Get(g, k) = IF k \in IntKeys /\ k - dest \in 0 .. e - f
                         THEN Dictionary!At(dict, f + (k - dest)) ELSE dict[k]
  <2>1. CASE k \in IntKeys /\ k - dest \in 0 .. e - f
    <3>1. f + (k - dest) \in IntKeys /\ f + (k - dest) \in Int
      BY <1>3, <2>1
    <3>2. Get(g, k) = Get(h, f + (k - dest))
      BY <1>1, <2>1 DEF MovedBy
    <3>3. Get(h, f + (k - dest)) = Get(t, f + (k - dest))
      BY <1>3, <3>1 DEF Alike
    <3> QED BY <1>2, <2>1, <3>1, <3>2, <3>3
  <2>2. CASE ~(k \in IntKeys /\ k - dest \in 0 .. e - f)
    BY <1>1, <1>2, <2>2 DEF MovedBy, Alike
  <2> QED BY <2>1, <2>2
<1>5. Contents(g) = Dictionary!Moved(dict, f, e, dest)
  BY <1>4, SameKeys DEF Contents, Dictionary!Moved
<1> QED BY <1>1, <1>5 DEF g

\* table.insert
LEMMA TInsertStep ==
  ASSUME DictInv, NEW v \in Values, NEW pos \in IntKeys, TInsert(pos, v), dict' = Contents(t')
  PROVE  LoopOK' /\ (Dictionary!Insert \/ Dictionary!Nothing)
<1> DEFINE n == GetN(t).n
           h == GetN(t).h
           shifted == IF pos \in 1 .. n THEN MoveElements(h, pos, n, pos + 1) ELSE h
           d == IF pos \in 1 .. n THEN Dictionary!Moved(dict, pos, n, pos + 1) ELSE dict
<1>1. TableOK(t)
  BY DictIs
<1>2. Ends(t.array, n) /\ Alike(t, h) /\ TableOK(h)
  BY <1>1, GetNIs, GetNAlike
<1>3. n \in Nat /\ n \in IntKeys \cup {0} /\ Dictionary!Border(dict, n)
  BY <1>2, EndsIsBorder
<1>4. n + 1 \in IntKeys /\ pos \in Int /\ pos \in Keys
  BY NumberKeys DEF TInsert
<1>5. /\ IF readonly THEN t' = h /\ reply' = <<"readonly">>
         ELSE t' = Set(shifted, pos, v) /\ reply' = Quiet
      /\ cursor' = Idle /\ readonly' = readonly
  BY Zenon DEF TInsert
<1> HIDE DEF n, h
<1>6. TableOK(shifted) /\ Contents(shifted) = d
  <2>1. CASE pos \in 1 .. n
    <3>1. pos + 1 \in Int /\ n \in Int /\ pos <= n + 1
      BY <1>3, <1>4, <2>1
    <3>2. pos .. n + 1 \subseteq IntKeys
      BY <1>4, TableAssumption
    <3>3. \A i \in 0 .. n - pos : pos + i \in IntKeys /\ (pos + 1) + i \in IntKeys
      BY <1>3, <1>4, <3>2
    <3>4. LET g == MoveElements(h, pos, n, pos + 1)
          IN  TableOK(g) /\ Contents(g) = Dictionary!Moved(dict, pos, n, pos + 1)
      BY <1>2, <1>4, <3>1, <3>3, ContentsMoved
    <3> QED BY <2>1, <3>4
  <2>2. CASE pos \notin 1 .. n
    BY <1>2, <2>2 DEF DictInv, Contents, Alike
  <2> QED BY <2>1, <2>2
<1> HIDE DEF shifted
<1>7. LoopOK' /\ LoopOf(cursor') = Dictionary!NoLoop
  BY <1>5, IdleLoop
<1>8. CASE readonly
  <2>1. dict' = dict
    BY <1>2, <1>5, <1>8, SameDict
  <2> QED BY <1>5, <1>7, <1>8, <2>1 DEF Dictionary!Nothing
<1>9. CASE ~readonly
  <2>1. dict' = [d EXCEPT ![pos] = v]
    BY <1>4, <1>5, <1>6, <1>9, ContentsSet
  <2>2. dict'[pos] = v
    BY <1>4, <1>5, <1>6, <1>9, SetUpdates DEF Updated, Contents
  <2> QED BY <1>3, <1>5, <1>7, <1>9, <2>1, <2>2, SameKeys DEF Dictionary!Insert
<1> QED BY <1>8, <1>9

\* table.remove
LEMMA TRemoveStep ==
  ASSUME DictInv, NEW pos \in IntKeys, TRemove(pos), dict' = Contents(t')
  PROVE  LoopOK' /\ (Dictionary!Remove \/ Dictionary!Nothing)
<1> DEFINE n == GetN(t).n
           h == GetN(t).h
           moved == MoveElements(h, pos + 1, n, pos)
<1>1. TableOK(t) /\ \A i \in Int : Dictionary!At(dict, i) = IF i \in IntKeys THEN Get(t, i) ELSE Nil
  BY DictIs
<1>2. Ends(t.array, n) /\ Alike(t, h) /\ TableOK(h)
  BY <1>1, GetNIs, GetNAlike
<1>3. n \in Nat /\ n \in IntKeys \cup {0} /\ Dictionary!Border(dict, n)
  BY <1>2, EndsIsBorder
<1>4. pos \in Int /\ pos \in Keys
  BY NumberKeys
<1>5. /\ IF pos \notin 1 .. n THEN t' = h /\ reply' = Quiet
         ELSE IF readonly THEN t' = h /\ reply' = <<"readonly">>
         ELSE t' = Set(moved, n, Nil) /\ reply' = <<"value", Get(h, pos)>>
      /\ cursor' = Idle /\ readonly' = readonly
  BY Zenon DEF TRemove
<1> HIDE DEF n, h
<1>6. LoopOK' /\ LoopOf(cursor') = Dictionary!NoLoop
  BY <1>5, IdleLoop
<1>7. CASE pos \notin 1 .. n \/ readonly
  <2>1. t' = h /\ reply' \in {Quiet, <<"readonly">>}
    BY <1>5, <1>7
  <2>2. dict' = dict
    BY <1>2, <2>1, SameDict
  <2> QED BY <1>5, <1>6, <2>1, <2>2, SameKeys DEF Dictionary!Nothing
<1>8. CASE pos \in 1 .. n /\ ~readonly
  <2>1. n \in IntKeys /\ n \in Keys
    BY <1>3, <1>8, NumberKeys
  <2>2. pos .. n \subseteq IntKeys
    BY <2>1, TableAssumption
  <2>3. pos + 1 \in Int /\ n \in Int /\ pos + 1 <= n + 1
    BY <1>3, <1>4, <1>8
  <2>4. \A i \in 0 .. n - (pos + 1) : (pos + 1) + i \in IntKeys /\ pos + i \in IntKeys
    BY <1>3, <1>4, <2>2
  <2>5. TableOK(moved) /\ Contents(moved) = Dictionary!Moved(dict, pos + 1, n, pos)
    BY <1>2, <1>4, <2>3, <2>4, ContentsMoved
  <2> HIDE DEF moved
  <2>6. dict' = [Dictionary!Moved(dict, pos + 1, n, pos) EXCEPT ![n] = Nil]
    BY <1>5, <1>8, <2>1, <2>5, ContentsSet
  <2>7. reply' = <<"value", Dictionary!At(dict, pos)>>
    BY <1>1, <1>2, <1>4, <1>5, <1>8 DEF Alike
  <2> QED BY <1>3, <1>5, <1>6, <1>8, <2>1, <2>6, <2>7 DEF Dictionary!Remove
<1> QED BY <1>7, <1>8

\* The room that table.move makes.
LEMMA RoomForAlike ==
  ASSUME TableOK(t), NEW dest \in Int, NEW last \in Int
  PROVE  Alike(t, RoomFor(dest, last))
<1>1. SizeArray(t) \in Nat
  BY TableParts DEF TableOK
<1>2. last > SizeArray(t) => last \in Nat /\ SizeArray(t) < last
  BY <1>1
<1> QED BY <1>2, ResizeArrayAlike DEF Alike, RoomFor

\* table.move
LEMMA TMoveStep ==
  ASSUME DictInv, NEW f \in IntKeys, NEW e \in IntKeys, NEW dest \in IntKeys,
         dest + e - f \in IntKeys, TMove(f, e, dest), dict' = Contents(t')
  PROVE  LoopOK' /\ (Dictionary!Move \/ Dictionary!Nothing)
<1> DEFINE last == dest + e - f
           room == RoomFor(dest, last)
<1>1. TableOK(t)
  BY DictIs
<1>2. f \in Int /\ e \in Int /\ dest \in Int /\ last \in IntKeys /\ last \in Int
  BY NumberKeys
<1>3. /\ IF e < f THEN t' = t /\ reply' = Quiet
         ELSE IF readonly THEN t' = t /\ reply' = <<"readonly">>
         ELSE t' = MoveElements(room, f, e, dest) /\ reply' = Quiet
      /\ cursor' = Idle /\ readonly' = readonly
  BY Zenon DEF TMove
<1>4. f .. e \subseteq IntKeys /\ dest .. last \subseteq IntKeys
  BY <1>2, TableAssumption
<1>5. \A i \in 0 .. e - f : f + i \in f .. e /\ dest + i \in dest .. last
  BY <1>2
<1> HIDE DEF last
<1>6. Alike(t, room)
  BY <1>1, <1>2, RoomForAlike
<1> HIDE DEF room
<1>7. LoopOK' /\ LoopOf(cursor') = Dictionary!NoLoop
  BY <1>3, IdleLoop
<1>8. CASE e < f \/ readonly
  <2>1. t' = t /\ reply' \in {Quiet, <<"readonly">>}
    BY <1>3, <1>8
  <2>2. dict' = dict
    BY <2>1, SameTable
  <2> QED BY <1>3, <1>7, <2>1, <2>2, SameKeys DEF Dictionary!Nothing
<1>9. CASE ~(e < f) /\ ~readonly
  <2>1. f <= e /\ f <= e + 1
    BY <1>2, <1>9
  <2>2. \A i \in 0 .. e - f : f + i \in IntKeys /\ dest + i \in IntKeys
    BY <1>4, <1>5
  <2>3. dict' = Dictionary!Moved(dict, f, e, dest)
    <3>1. Contents(MoveElements(room, f, e, dest)) = Dictionary!Moved(dict, f, e, dest)
      BY <1>2, <1>6, <2>1, <2>2, ContentsMoved
    <3>2. t' = MoveElements(room, f, e, dest)
      BY <1>3, <1>9
    <3> QED BY <3>1, <3>2
  <2> QED BY <1>3, <1>7, <1>9, <2>1, <2>3, SameKeys DEF Dictionary!Move
<1> QED BY <1>8, <1>9

\* The elements up to the i-th are stored, ...
Holding(h, list, dest, i, g) ==
  \A k \in Keys : Get(g, k) = IF k \in dest .. dest + i - 1
                              THEN list[k - dest + 1] ELSE Get(h, k)

\* ... and one more.
LEMMA HoldingOne ==
  ASSUME NEW h, NEW g, NEW g2, NEW list, NEW dest \in IntKeys, NEW i \in Nat, i # 0,
         dest + i - 1 \in IntKeys, Holding(h, list, dest, i - 1, g),
         Updated(g, g2, dest + i - 1, list[i])
  PROVE  Holding(h, list, dest, i, g2)
<1> SUFFICES ASSUME NEW k \in Keys
             PROVE  Get(g2, k) = IF k \in dest .. dest + i - 1
                                 THEN list[k - dest + 1] ELSE Get(h, k)
  BY DEF Holding
<1> DEFINE last == dest + i - 1
<1>1. dest \in Int /\ last \in Int /\ last = dest + (i - 1)
  BY NumberKeys
<1>2. CASE k = last
  <2>1. k \in dest .. last /\ k - dest + 1 = i
    BY <1>1, <1>2
  <2>2. Get(g2, k) = list[i]
    BY <1>2 DEF Updated
  <2> QED BY <2>1, <2>2
<1>3. CASE k # last
  <2>1. Get(g2, k) = Get(g, k)
    BY <1>3 DEF Updated
  <2>2. k \in dest .. last <=> k \in dest .. dest + (i - 1) - 1
    BY <1>1, <1>3
  <2> QED BY <2>1, <2>2 DEF Holding
<1> QED BY <1>2, <1>3

\* table.move from another table
LEMMA TMoveFromStep ==
  ASSUME DictInv, NEW list \in BoundedSeq(Values \cup {Nil}, MaxArray), list # <<>>,
         NEW dest \in IntKeys, dest + Len(list) - 1 \in IntKeys, TMoveFrom(list, dest),
         dict' = Contents(t')
  PROVE  LoopOK' /\ (Dictionary!StoreList \/ Dictionary!Nothing)
<1> DEFINE n == Len(list)
           last == dest + n - 1
           room == RoomFor(dest, last)
<1>1. TableOK(t) /\ \A k \in Keys : dict[k] = Get(t, k)
  BY DictIs
<1>2. cursor' = Idle /\ readonly' = readonly
  BY Zenon DEF TMoveFrom
<1>3. CASE readonly
  <2>1. t' = t /\ reply' = <<"readonly">>
    BY <1>3, Zenon DEF TMoveFrom
  <2>2. dict' = dict
    BY <2>1, SameTable
  <2>3. LoopOK' /\ LoopOf(cursor') = Dictionary!NoLoop
    BY <1>2, IdleLoop
  <2> QED BY <1>2, <2>1, <2>2, <2>3, SameKeys DEF Dictionary!Nothing
<1>4. CASE ~readonly
  <2>1. PICK g : Stores(room, list, dest, n, g) /\ t' = g[n]
    BY <1>1, <1>4, TMoveFromSteps
  <2>2. reply' = <<"stored", dest, list>>
    BY <1>4, Zenon DEF TMoveFrom
  <2>3. n \in Nat /\ \A i \in 1 .. n : list[i] \in Values \cup {Nil}
    BY ListIs
  <2>4. dest \in Int /\ last \in Int /\ dest .. last \subseteq IntKeys
    BY NumberKeys, TableAssumption
  <2>5. \A i \in 1 .. n : dest + i - 1 \in dest .. last
    BY <2>3, <2>4
  <2>6. Alike(t, room)
    BY <1>1, <2>4, RoomForAlike
  <2> HIDE DEF n, last, room
  <2> DEFINE T == {i \in Nat : i <= n /\ ~Holding(t, list, dest, i, g[i])}
  <2>7. Holding(t, list, dest, 0, g[0])
    <3>1. g[0] = room
      BY <2>1 DEF Stores
    <3>2. dest .. dest + 0 - 1 = {}
      BY <2>4
    <3> QED BY <2>6, <3>1, <3>2 DEF Holding, Alike
  <2>8. ASSUME NEW i \in 1 .. n, Holding(t, list, dest, i - 1, g[i - 1])
        PROVE  Holding(t, list, dest, i, g[i])
    <3>1. i \in Nat /\ i # 0 /\ i - 1 \in 0 .. n
      BY <2>3
    <3>2. g[i] = Set(g[i - 1], dest + i - 1, list[i]) /\ TableOK(g[i - 1])
      BY <2>1, <3>1 DEF Stores
    <3>3. dest + i - 1 \in IntKeys /\ dest + i - 1 \in Keys
      BY <2>4, <2>5, NumberKeys
    <3>4. Updated(g[i - 1], g[i], dest + i - 1, list[i])
      BY <2>3, <3>2, <3>3, SetUpdates
    <3> QED BY <2>8, <3>1, <3>3, <3>4, HoldingOne
  <2>9. T = {}
    <3> SUFFICES ASSUME T # {} PROVE FALSE
      OBVIOUS
    <3>1. PICK i \in T : \A j \in T : i <= j
      BY Least
    <3>2. i # 0
      BY <2>7, <3>1
    <3>3. i - 1 \in Nat /\ i - 1 \notin T /\ i \in 1 .. n /\ i - 1 <= n
      BY <2>3, <3>1, <3>2
    <3>4. Holding(t, list, dest, i, g[i])
      BY <2>8, <3>3
    <3> QED BY <3>1, <3>4
  <2>10. Holding(t, list, dest, n, t')
    BY <2>1, <2>3, <2>9
  <2>11. \A k \in Keys : dict'[k] = IF k \in dest .. dest + Len(list) - 1
                                   THEN list[k - dest + 1] ELSE dict[k]
    BY <1>1, <2>10 DEF Holding, Contents, n
  <2> QED BY <1>2, <1>4, <2>2, <2>11, StoredStep
<1> QED BY <1>3, <1>4

\* unpack
LEMMA TUnpackStep ==
  ASSUME DictInv, NEW e \in 1 .. MaxArray, TUnpack(e), dict' = Contents(t')
  PROVE  LoopOK' /\ Dictionary!Unpack
<1>1. /\ TableOK(t) /\ SizeArray(t) \in Nat
      /\ \A i \in Int : Dictionary!At(dict, i) = IF i \in IntKeys THEN Get(t, i) ELSE Nil
  BY DictIs, TableParts DEF TableOK
<1>2. MaxArray \in Nat /\ 1 .. MaxArray \subseteq IntKeys
  BY TableAssumption
<1>3. dict' = dict /\ LoopOK' /\ cursor' = cursor
  BY SameTable DEF TUnpack
<1>4. ASSUME NEW i \in 1 .. e
      PROVE  (IF e <= SizeArray(t) THEN t.array[i] ELSE Get(t, i)) = Dictionary!At(dict, i)
  <2>1. i \in IntKeys /\ i \in Int
    BY <1>2
  <2>2. e <= SizeArray(t) => Get(t, i) = t.array[i]
    BY <1>1, <1>2, <2>1 DEF Get, InArray
  <2> QED BY <1>1, <2>1, <2>2
<1>5. [i \in 1 .. e |-> IF e <= SizeArray(t) THEN t.array[i] ELSE Get(t, i)]
        = [i \in 1 .. e |-> Dictionary!At(dict, i)]
  BY <1>4
<1>6. reply' = <<"list", [i \in 1 .. e |-> Dictionary!At(dict, i)]>> /\ readonly' = readonly
  BY <1>5 DEF TUnpack
<1> QED BY <1>3, <1>6 DEF Dictionary!Unpack

\* table.find
LEMMA TFindStep ==
  ASSUME DictInv, NEW v \in Values, TFind(v), dict' = Contents(t')
  PROVE  LoopOK' /\ Dictionary!Find
<1> DEFINE stops == {i \in IntKeys : i >= 1 /\ Get(t, i) \in {v, Nil}}
           i == Smallest(stops)
<1>1. TableOK(t) /\ \A j \in Int : Dictionary!At(dict, j) = IF j \in IntKeys THEN Get(t, j) ELSE Nil
  BY DictIs
<1>2. dict' = dict /\ LoopOK' /\ cursor' = cursor /\ readonly' = readonly
  BY SameTable DEF TFind
<1>3. reply' = IF stops = {} \/ Get(t, i) = Nil THEN <<"value", Nil>> ELSE <<"index", i>>
  BY Zenon DEF TFind
<1>4. \A j \in stops : j \in Int /\ 1 <= j /\ j \in IntKeys /\ Get(t, j) \in {v, Nil}
  BY NumberKeys
<1>5. \A j \in IntKeys : j \in Int /\ (j >= 1 /\ j \notin stops => Get(t, j) \notin {v, Nil})
  BY NumberKeys
<1> HIDE DEF stops
<1>6. CASE stops = {} \/ Get(t, i) = Nil
  <2>1. reply' = <<"value", Nil>>
    BY <1>3, <1>6
  <2> QED BY <1>2, <2>1 DEF Dictionary!Find
<1>7. CASE ~(stops = {} \/ Get(t, i) = Nil)
  <2>1. i \in stops /\ \A j \in stops : i <= j
    <3>1. stops # {}
      BY <1>7
    <3> QED BY <1>4, <3>1, SmallestOf
  <2>2. i \in IntKeys /\ i \in Int /\ i >= 1 /\ Get(t, i) = v
    BY <1>4, <1>7, <2>1
  <2> HIDE DEF i
  <2>3. ASSUME NEW j \in 1 .. i - 1 PROVE Dictionary!At(dict, j) \in Values \ {v}
    <3>1. 1 .. i \subseteq IntKeys
      BY <2>2, TableAssumption
    <3>2. j \in IntKeys /\ j \in Keys /\ j \in Int /\ j >= 1 /\ ~(i <= j)
      BY <2>2, <3>1, NumberKeys
    <3>3. j \notin stops
      BY <2>1, <3>2
    <3>4. Get(t, j) \in Values \cup {Nil}
      BY <1>1, <3>2, GetIs
    <3> QED BY <1>1, <1>5, <3>2, <3>3, <3>4
  <2>4. Dictionary!At(dict, i) = v /\ reply' = <<"index", i>>
    BY <1>1, <1>3, <1>7, <2>2 DEF i
  <2> QED BY <1>2, <2>2, <2>3, <2>4 DEF Dictionary!Find
<1> QED BY <1>6, <1>7

\* table.create
LEMMA TCreateStep ==
  ASSUME DictInv, NEW n \in 1 .. MaxArray, NEW v \in Values, TCreate(n, v), dict' = Contents(t')
  PROVE  LoopOK' /\ Dictionary!Create
<1> DEFINE g == NewTable(n, 0)
           a == [i \in 1 .. n |-> v]
<1>1. MaxArray \in Nat /\ 1 .. MaxArray \subseteq IntKeys
  BY TableAssumption
<1>2. n \in Nat /\ \A i \in 1 .. n : i \in IntKeys
  BY <1>1
<1>3. /\ TableOK(g) /\ SizeArray(g) = n
      /\ \A i \in Slots(SizeNode(g)) : ~Taken(g.node, i)
  BY <1>2, NewTableIs
<1>4. t' = [g EXCEPT !.array = a] /\ readonly' = FALSE /\ cursor' = Idle /\ reply' = Quiet
  BY Zenon DEF TCreate
<1>5. a \in Seq(Values \cup {Nil}) /\ Len(a) = n /\ \A i \in 1 .. n : a[i] = v
  BY <1>2
<1> HIDE DEF g, a
<1>6. /\ TableOK(t') /\ SizeArray(t') = n /\ SizeNode(t') = SizeNode(g) /\ t'.node = g.node
      /\ t'.array = a
  BY <1>2, <1>3, <1>4, <1>5, ArrayOK
<1>7. ASSUME NEW k \in Keys PROVE Get(t', k) = IF k \in 1 .. n THEN v ELSE Nil
  <2>1. CASE k \in 1 .. n
    <3>1. InArray(t', k)
      BY <1>2, <1>6, <2>1 DEF InArray
    <3> QED BY <1>5, <1>6, <2>1, <3>1 DEF Get
  <2>2. CASE k \notin 1 .. n
    <3>1. ~InArray(t', k)
      BY <1>6, <2>2 DEF InArray
    <3>2. k # NoKey
      BY TableAssumption
    <3>3. \A i \in Slots(SizeNode(t')) : t'.node[i].key # k
      BY <1>3, <1>6, <3>2 DEF Taken
    <3>4. Get(t', k) = Nil
      BY <1>6, <3>1, <3>3, GetIs
    <3> QED BY <2>2, <3>4
  <2> QED BY <2>1, <2>2
<1>8. dict' = [k \in Keys |-> IF k \in 1 .. n THEN v ELSE Nil]
  BY <1>7 DEF Contents
<1>9. LoopOK' /\ LoopOf(cursor') = Dictionary!NoLoop
  BY <1>4, IdleLoop
<1> QED BY <1>4, <1>8, <1>9, SameKeys DEF Dictionary!Create

-----------------------------------------------------------------------------
(* The refinement. *)

\* A new table is an empty dictionary.
LEMMA DictInit ==
  ASSUME Init
  PROVE  DictInv /\ Dictionary!Init
<1>1. PICK narray \in 0 .. MaxArray, nhash \in 0 .. MaxHash : t = NewTable(narray, nhash)
  BY Zenon DEF Init
<1>2. narray \in Nat /\ nhash \in Nat
  BY TableAssumption
<1>3. readonly = FALSE /\ cursor = Idle /\ reply = Quiet /\ dict = Contents(t)
  BY Zenon DEF Init
<1>4. dict = [k \in Keys |-> Nil]
  BY <1>1, <1>2, <1>3, NewTableEmpty DEF Contents
<1>5. DictInv
  BY <1>3, InitOK DEF DictInv, LoopOK, Idle
<1>6. LoopOf(cursor) = Dictionary!NoLoop
  BY <1>3 DEF LoopOf, Idle, Dictionary!NoLoop
<1> QED BY <1>3, <1>4, <1>5, <1>6, SameKeys DEF Dictionary!Init

\* Every call is one of the dictionary, or nothing to it.
LEMMA CallStep ==
  ASSUME DictInv, Call, dict' = Contents(t'), ~Stubborn
  PROVE  LoopOK' /\ (Dictionary!Next \/ UNCHANGED <<dict, readonly, cursor, reply>>)
<1>1. CASE \E k \in Keys, v \in Values \cup {Nil} : Store(k, v)
  BY <1>1, StoreStep DEF Dictionary!Next
<1>2. CASE \E k \in Keys : Load(k)
  BY <1>2, LoadStep DEF Dictionary!Next
<1>3. CASE Length
  BY <1>3, LengthStep DEF Dictionary!Next
<1>4. CASE Traverse
  BY <1>4, TraverseStep DEF Dictionary!Next
<1>5. CASE Advance
  BY <1>5, AdvanceStep DEF Dictionary!Next
<1>6. CASE Freeze
  BY <1>6, FreezeStep DEF Dictionary!Next
<1>7. CASE Clear
  BY <1>7, ClearStep DEF Dictionary!Next
<1>8. CASE Clone
  BY <1>8, CloneStep DEF Dictionary!Next
<1>9. CASE \E first \in 1 .. MaxArray : \E list \in BoundedSeq(Values \cup {Nil}, MaxArray) :
             list # <<>> /\ first + Len(list) - 1 <= MaxArray /\ SetList(first, list)
  BY <1>9, SetListStep DEF Dictionary!Next
<1>10. CASE Collect
  BY <1>10, CollectStep
<1>11. CASE Shrink
  BY <1>11, ShrinkStep DEF Dictionary!Next
<1> QED
  BY <1>1, <1>2, <1>3, <1>4, <1>5, <1>6, <1>7, <1>8, <1>9, <1>10, <1>11, Zenon DEF Call

\* So is every call of the table library.
LEMMA LibCallStep ==
  ASSUME DictInv, LibCall, dict' = Contents(t')
  PROVE  LoopOK' /\ Dictionary!LibNext
<1>1. ASSUME NEW list \in BoundedSeq(Values \cup {Nil}, MaxArray), NEW dest \in IntKeys,
             list # <<>>, dest + Len(list) - 1 \in IntKeys, TMoveFrom(list, dest)
      PROVE  LoopOK' /\ Dictionary!LibNext
  BY <1>1, TMoveFromStep DEF Dictionary!LibNext, Dictionary!Next
<1>2. CASE \/ \E v \in Values, pos \in IntKeys : TInsert(pos, v)
           \/ \E pos \in IntKeys : TRemove(pos)
  BY <1>2, TInsertStep, TRemoveStep, Zenon DEF Dictionary!LibNext
<1>3. ASSUME NEW f \in IntKeys, NEW e \in IntKeys, NEW dest \in IntKeys,
             dest + e - f \in IntKeys, TMove(f, e, dest)
      PROVE  LoopOK' /\ Dictionary!LibNext
  BY <1>3, TMoveStep, Zenon DEF Dictionary!LibNext
<1>4. CASE \/ \E e \in 1 .. MaxArray : TUnpack(e)
           \/ \E v \in Values : TFind(v)
           \/ \E n \in 1 .. MaxArray, v \in Values : TCreate(n, v)
  BY <1>4, TUnpackStep, TFindStep, TCreateStep, Zenon DEF Dictionary!LibNext
<1> QED BY <1>1, <1>2, <1>3, <1>4, Zenon DEF LibCall

\* Any step.
LEMMA DictStep ==
  ASSUME DictInv, [LibNext]_vars, ~Stubborn
  PROVE  DictInv' /\ [Dictionary!LibNext]_(Dictionary!vars)
<1>1. TableInv'
  BY StepOK DEF DictInv
<1>2. CASE LibNext
  <2>1. dict' = Contents(t') /\ (Call \/ LibCall)
    BY <1>2 DEF LibNext
  <2>2. LoopOK' /\ (Dictionary!LibNext \/ UNCHANGED <<dict, readonly, cursor, reply>>)
    BY <2>1, CallStep, LibCallStep DEF Dictionary!LibNext
  <2>3. UNCHANGED cursor => LoopOf(cursor)' = LoopOf(cursor)
    BY DEF LoopOf
  <2> QED BY <1>1, <2>1, <2>2, <2>3 DEF DictInv, Dictionary!vars
<1>3. CASE UNCHANGED vars
  <2>1. t' = t /\ readonly' = readonly /\ cursor' = cursor /\ reply' = reply /\ dict' = dict
    BY <1>3 DEF vars
  <2>2. LoopOK' /\ LoopOf(cursor)' = LoopOf(cursor)
    BY <2>1 DEF DictInv, LoopOK, LoopOf
  <2> QED BY <1>1, <2>1, <2>2 DEF DictInv, Dictionary!vars, Contents
<1> QED BY <1>2, <1>3

\* The table with its two parts, its hint and its three kinds of loops is a
\* dictionary: whatever scripts call on it, they see the steps of one.
THEOREM ListsAreImplemented ==
  ASSUME ~Stubborn
  PROVE  LibSpec => ImplementsLists
<1>1. Init => DictInv /\ Dictionary!Init
  BY DictInit
<1>2. DictInv /\ [LibNext]_vars => DictInv' /\ [Dictionary!LibNext]_(Dictionary!vars)
  BY DictStep
<1> QED BY <1>1, <1>2, PTL DEF LibSpec, ImplementsLists, Dictionary!LibSpec
=============================================================================
