-------------------------- MODULE LuauTableProofs --------------------------
(***************************************************************************)
(* Proofs about one table of LuauTable under all calls, those of           *)
(* LuauTableLib included.  The chains of the hash part are described by    *)
(* paths; newkey is shown to keep the chains in order in each of its three *)
(* cases, resize to have room for every entry it puts back, rehash to      *)
(* choose sizes for which that is so, and the calls to be made of these.   *)
(***************************************************************************)
EXTENDS LuauTableLib, LeastNumber, FiniteSetTheorems, TLAPS

-----------------------------------------------------------------------------
(* The invariant: one table, whatever calls were made on it. *)

\* Nodes, their number being n, as functions of their position.
Slots(n)        == 0 .. n - 1
HomeOf(n, k)    == Hash[k] % n
After(nd, i)    == i + nd[i].next
Taken(nd, i)    == nd[i].key # NoKey

NodesType(n, nd) == n \in Nat /\ nd \in [Slots(n) -> NodeType]

\* A node that was never used is as it was made; only used nodes are dead or
\* hold a value, and no chain leads to one that was never used.
Untouched(n, nd) == \A i \in Slots(n) :
  /\ ~Taken(nd, i) => nd[i].val = Nil /\ nd[i].next = 0
  /\ nd[i].val # Nil => ~nd[i].dead
  /\ After(nd, i) \in Slots(n)
  /\ nd[i].next # 0 => Taken(nd, After(nd, i))

\* Two chains do not join.
Unjoined(n, nd) == \A i, j \in Slots(n) :
  nd[i].next # 0 /\ nd[j].next # 0 /\ After(nd, i) = After(nd, j) => i = j

\* A node at the main position of some key that is in the table is at home.
AtHome(n, nd) == \A i \in Slots(n) :
  Taken(nd, i) =>
    /\ Taken(nd, HomeOf(n, nd[i].key))
    /\ HomeOf(n, nd[HomeOf(n, nd[i].key)].key) = HomeOf(n, nd[i].key)

\* Following a chain, something gets smaller.
Falls(n, nd, rank) == \A i \in Slots(n) :
  nd[i].next # 0 => rank[After(nd, i)] < rank[i]
Ending(n, nd) == \E rank \in [Slots(n) -> Nat] : Falls(n, nd, rank)

\* m steps along a chain through the nodes c.
Path(n, nd, c, m) ==
  /\ c \in [0 .. m -> Slots(n)]
  /\ \A j \in 0 .. m - 1 : nd[c[j]].next # 0 /\ c[j + 1] = After(nd, c[j])

\* The chain of the key of node i leads to i, and no node before it has that
\* key.
Leads(n, nd, i, c, m) ==
  /\ Path(n, nd, c, m)
  /\ c[0] = HomeOf(n, nd[i].key) /\ c[m] = i
  /\ \A j \in 0 .. m - 1 : nd[c[j]].key # nd[i].key
Reached(n, nd, i) ==
  \E m \in Nat : \E c \in [0 .. m -> Slots(n)] : Leads(n, nd, i, c, m)
Found(n, nd) == \A i \in Slots(n) :
  Taken(nd, i) /\ ~nd[i].dead => Reached(n, nd, i)

NodesOK(n, nd) ==
  /\ NodesType(n, nd) /\ Untouched(n, nd) /\ Unjoined(n, nd)
  /\ AtHome(n, nd) /\ Ending(n, nd) /\ Found(n, nd)

\* The parts of a table; "last" is a hint or a position that all nodes from
\* there on are taken.
TableType ==
  [array : Seq(Values \cup {Nil}), last : Int, nested : BOOLEAN,
   node : UNION {[Slots(n) -> NodeType] : n \in Nat}]
LastOK(h) ==
  /\ h.last \in -SizeArray(h) .. SizeNode(h)
  /\ \A i \in Slots(SizeNode(h)) : i >= h.last => Taken(h.node, i)

\* No node has a key of the array part or the one after it.
Apart(h) == \A i \in Slots(SizeNode(h)) :
  Taken(h.node, i) => h.node[i].key \notin 1 .. SizeArray(h) + 1
ArrayKeys(h) == \A i \in 1 .. SizeArray(h) : h.array[i] # Nil => i \in IntKeys

TableOK(h) ==
  /\ h \in TableType /\ ~h.nested
  /\ NodesOK(SizeNode(h), h.node)
  /\ LastOK(h) /\ Apart(h) /\ ArrayKeys(h)

\* A loop is at a key, or at a position or number.
CursorOK ==
  /\ cursor.todo \subseteq Keys
  /\ \/ cursor.by = "key" /\ cursor.at \in Keys \cup {NoKey}
     \/ cursor.by \in {"none", "position", "number"} /\ cursor.at \in Nat
TableInv == TableOK(t) /\ readonly \in BOOLEAN /\ CursorOK

-----------------------------------------------------------------------------
(* Numbers and finite sets. *)

\* A non-empty set of numbers that has a lower bound has a smallest one.
LEMMA SmallestOf ==
  ASSUME NEW S, NEW b \in Int, \A x \in S : x \in Int /\ b <= x, S # {}
  PROVE  Smallest(S) \in S /\ \A x \in S : Smallest(S) <= x
<1> DEFINE T == {y \in Nat : b + y \in S}
<1>1. PICK s \in S : TRUE
  OBVIOUS
<1>2. s - b \in T
  BY <1>1
<1>3. PICK y \in T : \A z \in T : y <= z
  BY <1>2, Least
<1>4. \A x \in S : b + y <= x
  <2> SUFFICES ASSUME NEW x \in S PROVE b + y <= x
    OBVIOUS
  <2>1. x - b \in T
    OBVIOUS
  <2> QED BY <1>3, <2>1
<1>5. \E x \in S : \A z \in S : x <= z
  BY <1>3, <1>4
<1> QED BY <1>5 DEF Smallest

\* The same for an upper bound and the biggest one.
LEMMA BiggestOf ==
  ASSUME NEW S, NEW b \in Int, \A x \in S : x \in Int /\ x <= b, S # {}
  PROVE  Biggest(S) \in S /\ \A x \in S : x <= Biggest(S)
<1> DEFINE T == {y \in Nat : b - y \in S}
<1>1. PICK s \in S : TRUE
  OBVIOUS
<1>2. b - s \in T
  BY <1>1
<1>3. PICK y \in T : \A z \in T : y <= z
  BY <1>2, Least
<1>4. \A x \in S : x <= b - y
  <2> SUFFICES ASSUME NEW x \in S PROVE x <= b - y
    OBVIOUS
  <2>1. b - x \in T
    OBVIOUS
  <2> QED BY <1>3, <2>1
<1>5. \E x \in S : \A z \in S : z <= x
  BY <1>3, <1>4
<1> QED BY <1>5 DEF Biggest

\* The recursion of TwoTo defines a function.
LEMMA PowerExists ==
  ASSUME NEW n \in Nat
  PROVE  \E f : f = [i \in 0 .. n |-> IF i = 0 THEN 1 ELSE 2 * f[i - 1]]
<1> DEFINE R(m, f) == f = [i \in 0 .. m |-> IF i = 0 THEN 1 ELSE 2 * f[i - 1]]
           T == {m \in Nat : ~ \E f : R(m, f)}
<1> HIDE DEF R
<1>1. SUFFICES ASSUME T # {} PROVE FALSE
  BY DEF R
<1>2. PICK m \in T : \A k \in T : m <= k
  BY <1>1, Least
<1>3. CASE m = 0
  <2>1. R(0, [i \in 0 .. 0 |-> 1])
    BY DEF R
  <2> QED BY <1>2, <1>3, <2>1
<1>4. CASE m # 0
  <2>1. m - 1 \in Nat /\ m - 1 \notin T
    BY <1>2, <1>4
  <2>2. PICK f : R(m - 1, f)
    BY <2>1
  <2> DEFINE g == [i \in 0 .. m |-> IF i < m THEN f[i] ELSE 2 * f[m - 1]]
  <2>3. \A i \in 0 .. m : g[i] = IF i = 0 THEN 1 ELSE 2 * g[i - 1]
    BY <1>4, <2>2 DEF R
  <2>4. R(m, g)
    BY <2>3 DEF R
  <2> QED BY <1>2, <2>4
<1> QED BY <1>3, <1>4

\* Powers of two are greater than their exponents.
LEMMA TwoToGrows ==
  ASSUME NEW n \in Nat
  PROVE  TwoTo(n) \in Nat /\ TwoTo(n) > n
<1> DEFINE R(f) == f = [i \in 0 .. n |-> IF i = 0 THEN 1 ELSE 2 * f[i - 1]]
           p == CHOOSE f : R(f)
<1>1. R(p)
  BY PowerExists
<1>2. TwoTo(n) = p[n]
  BY DEF TwoTo
<1> HIDE DEF p
<1> DEFINE T == {i \in Nat : i <= n /\ ~(p[i] \in Nat /\ p[i] > i)}
<1>3. SUFFICES ASSUME T # {} PROVE FALSE
  BY <1>2
<1>4. PICK i \in T : \A j \in T : i <= j
  BY <1>3, Least
<1>5. i # 0
  BY <1>1, <1>4
<1>6. i - 1 \in Nat /\ i - 1 \notin T
  BY <1>4, <1>5
<1>7. p[i] = 2 * p[i - 1]
  BY <1>1, <1>4, <1>5
<1> QED BY <1>4, <1>5, <1>6, <1>7

\* A hash part for n entries has at least n nodes.
LEMMA PowerAtLeastIs ==
  ASSUME NEW n \in Nat
  PROVE  PowerAtLeast(n) \in Nat /\ PowerAtLeast(n) >= n
<1>1. CASE n = 0
  BY <1>1 DEF PowerAtLeast
<1>2. CASE n # 0
  <2> DEFINE S == {p \in {TwoTo(i) : i \in 0 .. n} : p >= n}
  <2>1. \A p \in S : p \in Int /\ 0 <= p
    BY TwoToGrows
  <2>2. TwoTo(n) \in S
    BY TwoToGrows
  <2>3. PowerAtLeast(n) = Smallest(S) /\ \A p \in S : p >= n
    BY <1>2 DEF PowerAtLeast
  <2> HIDE DEF S
  <2>4. Smallest(S) \in S
    BY <2>1, <2>2, SmallestOf
  <2> QED BY <2>1, <2>3, <2>4
<1> QED BY <1>1, <1>2

-----------------------------------------------------------------------------
(* Paths. *)

\* Along a path the rank falls.
LEMMA PathFalls ==
  ASSUME NEW n \in Nat, NEW nd, NEW rank \in [Slots(n) -> Nat], Falls(n, nd, rank),
         NEW m \in Nat, NEW c, Path(n, nd, c, m),
         NEW a \in 0 .. m, NEW b \in 0 .. m, a < b
  PROVE  rank[c[b]] < rank[c[a]]
<1> DEFINE T == {j \in Nat : a < j /\ j <= m /\ ~(rank[c[j]] < rank[c[a]])}
<1>1. SUFFICES ASSUME T # {} PROVE FALSE
  OBVIOUS
<1>2. PICK j \in T : \A k \in T : j <= k
  BY <1>1, Least
<1>3. j - 1 \in 0 .. m - 1 /\ j - 1 \in Nat /\ j - 1 \notin T
  BY <1>2
<1>4. c \in [0 .. m -> Slots(n)]
  BY DEF Path
<1>5. c[j - 1] \in Slots(n) /\ c[j] \in Slots(n) /\ c[a] \in Slots(n)
  BY <1>2, <1>3, <1>4
<1>6. nd[c[j - 1]].next # 0 /\ c[(j - 1) + 1] = After(nd, c[j - 1])
  BY <1>3 DEF Path
<1>7. (j - 1) + 1 = j
  BY <1>3
<1>8. rank[c[j]] < rank[c[j - 1]]
  BY <1>5, <1>6, <1>7 DEF Falls
<1>9. rank[c[j]] \in Nat /\ rank[c[j - 1]] \in Nat /\ rank[c[a]] \in Nat
  BY <1>5
<1>10. CASE a = j - 1
  BY <1>2, <1>8, <1>10
<1>11. CASE a # j - 1
  <2>1. rank[c[j - 1]] < rank[c[a]]
    BY <1>2, <1>3, <1>11
  <2> QED BY <1>2, <1>8, <1>9, <2>1
<1> QED BY <1>10, <1>11

\* So a path never meets a node twice.
LEMMA PathDistinct ==
  ASSUME NEW n \in Nat, NEW nd, Ending(n, nd),
         NEW m \in Nat, NEW c, Path(n, nd, c, m),
         NEW a \in 0 .. m, NEW b \in 0 .. m, c[a] = c[b]
  PROVE  a = b
<1>1. PICK rank \in [Slots(n) -> Nat] : Falls(n, nd, rank)
  BY DEF Ending
<1>2. rank[c[a]] \in Nat
  BY <1>1 DEF Path
<1>3. ~(a < b)
  BY <1>1, <1>2, PathFalls
<1>4. ~(b < a)
  BY <1>1, <1>2, PathFalls
<1> QED BY <1>3, <1>4

\* And it has fewer steps than there are nodes.
LEMMA PathShort ==
  ASSUME NEW n \in Nat, NEW nd, Ending(n, nd),
         NEW m \in Nat, NEW c, Path(n, nd, c, m)
  PROVE  m < n
<1> SUFFICES ASSUME ~(m < n) PROVE FALSE
  OBVIOUS
<1>1. IsFiniteSet(0 .. m) /\ Cardinality(0 .. m) = m + 1
  BY FS_Interval
<1>2. IsFiniteSet(Slots(n)) /\ Cardinality(Slots(n)) = n
  BY FS_Interval DEF Slots
<1>3. c \in [0 .. m -> Slots(n)]
  BY DEF Path
<1>4. Cardinality(Slots(n)) < Cardinality(0 .. m)
  BY <1>1, <1>2
<1>5. PICK a, b \in 0 .. m : a # b /\ c[a] = c[b]
  BY <1>1, <1>2, <1>3, <1>4, FS_PigeonHole
<1> QED BY <1>5, PathDistinct

\* Two paths from one node agree.
LEMMA PathsAgree ==
  ASSUME NEW n \in Nat, NEW nd, NEW m \in Nat, NEW c, Path(n, nd, c, m),
         NEW k \in Nat, NEW d, Path(n, nd, d, k), c[0] = d[0],
         NEW a \in Nat, a <= m, a <= k
  PROVE  c[a] = d[a]
<1> DEFINE T == {j \in Nat : j <= m /\ j <= k /\ c[j] # d[j]}
<1>1. SUFFICES ASSUME T # {} PROVE FALSE
  OBVIOUS
<1>2. PICK j \in T : \A l \in T : j <= l
  BY <1>1, Least
<1>3. j # 0
  BY <1>2
<1>4. j - 1 \in 0 .. m - 1 /\ j - 1 \in 0 .. k - 1 /\ j - 1 \in Nat /\ j - 1 \notin T
  BY <1>2, <1>3
<1>5. c[j - 1] = d[j - 1]
  BY <1>4
<1>6. c[(j - 1) + 1] = After(nd, c[j - 1]) /\ d[(j - 1) + 1] = After(nd, d[j - 1])
  BY <1>4 DEF Path
<1>7. (j - 1) + 1 = j
  BY <1>4
<1> QED BY <1>2, <1>5, <1>6, <1>7

\* The recursion of ChainFrom, and that it defines a function.
IsChain(n, nd, p, f) ==
  f = [j \in 0 .. n - 1 |-> IF j = 0 THEN p ELSE f[j - 1] + nd[f[j - 1]].next]

\* There is such a function.
LEMMA ChainExists ==
  ASSUME NEW n \in Nat, NEW nd, NEW p
  PROVE  \E f : IsChain(n, nd, p, f)
<1> DEFINE R(m, f) == IsChain(m, nd, p, f)
           T == {m \in Nat : ~ \E f : R(m, f)}
<1> HIDE DEF R, IsChain
<1>1. SUFFICES ASSUME T # {} PROVE FALSE
  BY DEF R
<1>2. PICK m \in T : \A k \in T : m <= k
  BY <1>1, Least
<1>3. CASE m = 0
  <2>1. R(0, [j \in 0 .. 0 - 1 |-> p])
    BY DEF R, IsChain
  <2> QED BY <1>2, <1>3, <2>1
<1>4. CASE m # 0
  <2>1. m - 1 \in Nat /\ m - 1 \notin T
    BY <1>2, <1>4
  <2>2. PICK f : R(m - 1, f)
    BY <2>1
  <2> DEFINE g == [j \in 0 .. m - 1 |-> IF j < m - 1 THEN f[j] ELSE
                     IF j = 0 THEN p ELSE f[j - 1] + nd[f[j - 1]].next]
  <2>3. \A j \in 0 .. m - 1 : j # 0 => j - 1 \in 0 .. m - 1 /\ j - 1 < m - 1
    BY <1>2
  <2>4. \A j \in 0 .. m - 1 : j # 0 => g[j - 1] = f[j - 1]
    BY <2>3
  <2>5. \A j \in 0 .. m - 1 : j < m - 1 =>
          f[j] = IF j = 0 THEN p ELSE f[j - 1] + nd[f[j - 1]].next
    <3>1. \A j \in 0 .. (m - 1) - 1 :
            f[j] = IF j = 0 THEN p ELSE f[j - 1] + nd[f[j - 1]].next
      BY <2>2, Zenon DEF R, IsChain
    <3>2. \A j \in 0 .. m - 1 : j < m - 1 => j \in 0 .. (m - 1) - 1
      BY <1>2
    <3> QED BY <3>1, <3>2
  <2>6. \A j \in 0 .. m - 1 :
          g[j] = IF j = 0 THEN p ELSE g[j - 1] + nd[g[j - 1]].next
    BY <2>4, <2>5
  <2>7. R(m, g)
    BY <2>6 DEF R, IsChain
  <2> QED BY <1>2, <2>7
<1> QED BY <1>3, <1>4

\* What ChainFrom is: a first node, and from each node the one after it.
LEMMA ChainStep ==
  ASSUME NEW h, NEW n \in Nat, n = SizeNode(h), NEW p
  PROVE  /\ DOMAIN ChainFrom(h, p) = Slots(n)
         /\ 0 < n => ChainFrom(h, p)[0] = p
         /\ \A j \in Slots(n) : j # 0 =>
              ChainFrom(h, p)[j] = After(h.node, ChainFrom(h, p)[j - 1])
<1> DEFINE z == SizeNode(h)
           R(f) == IsChain(z, h.node, p, f)
           f == CHOOSE g : R(g)
<1>1. \E g : R(g)
  <2>1. SizeNode(h) \in Nat
    OBVIOUS
  <2> QED BY <2>1, ChainExists, Zenon
<1>2. R(f)
  BY <1>1, Zenon
<1>3. ChainFrom(h, p) = [j \in 0 .. z - 1 |-> f[j]]
  BY Zenon DEF ChainFrom, IsChain
<1> HIDE DEF f
<1>4. \A j \in 0 .. z - 1 :
        f[j] = IF j = 0 THEN p ELSE f[j - 1] + h.node[f[j - 1]].next
  BY <1>2, Zenon DEF IsChain
<1> HIDE DEF z
<1>5. DOMAIN ChainFrom(h, p) = 0 .. z - 1 /\ \A j \in 0 .. z - 1 : ChainFrom(h, p)[j] = f[j]
  BY <1>3, Zenon
<1>6. z = n
  BY DEF z
<1>7. 0 < n => ChainFrom(h, p)[0] = p
  BY <1>4, <1>5, <1>6
<1>8. \A j \in Slots(n) : j # 0 => j - 1 \in Slots(n)
  BY DEF Slots
<1>9. \A j \in Slots(n) : j # 0 => f[j] = f[j - 1] + h.node[f[j - 1]].next
  BY <1>4, <1>6, Zenon DEF Slots
<1> QED BY <1>5, <1>6, <1>7, <1>8, <1>9 DEF After, Slots

\* It stays in the table.
LEMMA ChainType ==
  ASSUME NEW h, NEW n \in Nat, n = SizeNode(h), Untouched(n, h.node),
         NEW p \in Slots(n), NEW j \in Slots(n)
  PROVE  ChainFrom(h, p)[j] \in Slots(n)
<1> DEFINE c == ChainFrom(h, p)
<1>1. 0 < n
  BY DEF Slots
<1>2. c[0] = p /\ \A i \in Slots(n) : i # 0 => c[i] = After(h.node, c[i - 1])
  BY <1>1, ChainStep
<1> HIDE DEF c
<1> DEFINE T == {i \in Nat : i < n /\ c[i] \notin Slots(n)}
<1>3. SUFFICES ASSUME T # {} PROVE FALSE
  BY DEF Slots, c
<1>4. PICK i \in T : \A k \in T : i <= k
  BY <1>3, Least
<1>5. i # 0
  BY <1>2, <1>4
<1>6. i - 1 \in Nat /\ i - 1 \notin T /\ i \in Slots(n)
  BY <1>4, <1>5 DEF Slots
<1>7. c[i - 1] \in Slots(n)
  BY <1>4, <1>6
<1>8. c[i] = After(h.node, c[i - 1])
  BY <1>2, <1>5, <1>6
<1> QED BY <1>4, <1>7, <1>8 DEF Untouched

\* A path is the beginning of the chain.
LEMMA ChainFollows ==
  ASSUME NEW h, NEW n \in Nat, n = SizeNode(h), Ending(n, h.node),
         NEW m \in Nat, NEW c, Path(n, h.node, c, m), NEW j \in 0 .. m
  PROVE  j \in Slots(n) /\ ChainFrom(h, c[0])[j] = c[j]
<1> DEFINE d == ChainFrom(h, c[0])
<1>1. m < n
  BY PathShort
<1>2. d[0] = c[0] /\ \A i \in Slots(n) : i # 0 => d[i] = After(h.node, d[i - 1])
  BY <1>1, ChainStep
<1> HIDE DEF d
<1> DEFINE T == {i \in Nat : i <= m /\ d[i] # c[i]}
<1>3. SUFFICES ASSUME T # {} PROVE FALSE
  BY <1>1 DEF Slots, d
<1>4. PICK i \in T : \A k \in T : i <= k
  BY <1>3, Least
<1>5. i # 0
  BY <1>2, <1>4
<1>6. i - 1 \in Nat /\ i - 1 \notin T /\ i \in Slots(n) /\ i - 1 \in 0 .. m - 1
  BY <1>1, <1>4, <1>5 DEF Slots
<1>7. c[(i - 1) + 1] = After(h.node, c[i - 1]) /\ (i - 1) + 1 = i
  BY <1>6 DEF Path
<1>8. d[i] = After(h.node, d[i - 1]) /\ d[i - 1] = c[i - 1]
  BY <1>2, <1>4, <1>5, <1>6
<1> QED BY <1>4, <1>7, <1>8

\* Every chain ends: its last node in ChainFrom has no next one.
LEMMA ChainEnds ==
  ASSUME NEW h, NEW n \in Nat, n = SizeNode(h), NodesOK(n, h.node),
         NEW p \in Slots(n)
  PROVE  h.node[ChainFrom(h, p)[n - 1]].next = 0
<1> DEFINE nd == h.node
           c == ChainFrom(h, p)
<1> SUFFICES ASSUME nd[c[n - 1]].next # 0 PROVE FALSE
  OBVIOUS
<1>1. Untouched(n, nd) /\ Ending(n, nd) /\ n - 1 \in Slots(n) /\ n - 1 \in Nat
  BY DEF NodesOK, Slots
<1>2. c[0] = p /\ \A i \in Slots(n) : i # 0 => c[i] = After(nd, c[i - 1])
  BY <1>1, ChainStep
<1>3. \A j \in Slots(n) : c[j] \in Slots(n)
  BY <1>1, ChainType
<1> HIDE DEF c
<1>4. \A j \in Slots(n) : nd[c[j]] \in NodeType
  BY <1>3 DEF NodesOK, NodesType
<1>5. \A j \in Slots(n) : nd[c[j]].next # 0
  <2> SUFFICES ASSUME NEW j \in Slots(n), nd[c[j]].next = 0 PROVE FALSE
    OBVIOUS
  <2> DEFINE T == {i \in Nat : j <= i /\ i < n /\ c[i] # c[j]}
  <2>1. j <= n - 1 /\ j \in Nat
    BY DEF Slots
  <2>2. n - 1 \in T
    BY <1>1, <2>1
  <2>3. PICK i \in T : \A k \in T : i <= k
    BY <2>2, Least
  <2>4. i # 0 /\ i # j
    BY <2>1, <2>3
  <2>5. i - 1 \in Nat /\ i - 1 \notin T /\ i \in Slots(n) /\ j <= i - 1 /\ i - 1 < n
    BY <2>1, <2>3, <2>4 DEF Slots
  <2>6. c[i - 1] = c[j]
    BY <2>3, <2>5
  <2>7. c[i] = After(nd, c[j])
    BY <1>2, <2>4, <2>5, <2>6
  <2>8. c[i] = c[j]
    BY <1>3, <2>7 DEF After, Slots
  <2> QED BY <2>3, <2>8
<1> DEFINE d == [j \in 0 .. n |-> IF j < n THEN c[j] ELSE After(nd, c[n - 1])]
<1>6. d \in [0 .. n -> Slots(n)]
  <2>1. \A j \in 0 .. n : j < n => c[j] \in Slots(n)
    BY <1>3 DEF Slots
  <2>2. After(nd, c[n - 1]) \in Slots(n)
    BY <1>1, <1>3 DEF Untouched
  <2> QED BY <2>1, <2>2
<1>7. \A j \in 0 .. n - 1 : nd[d[j]].next # 0 /\ d[j + 1] = After(nd, d[j])
  <2> TAKE j \in 0 .. n - 1
  <2>1. j \in Slots(n) /\ d[j] = c[j]
    BY DEF Slots
  <2>2. CASE j = n - 1
    BY <1>5, <2>1, <2>2
  <2>3. CASE j # n - 1
    <3>1. j + 1 \in Slots(n) /\ j + 1 # 0 /\ (j + 1) - 1 = j
      BY <2>3 DEF Slots
    <3>2. c[j + 1] = After(nd, c[j]) /\ d[j + 1] = c[j + 1]
      BY <1>2, <3>1 DEF Slots
    <3> QED BY <1>5, <2>1, <3>2
  <2> QED BY <2>2, <2>3
<1>8. Path(n, nd, d, n)
  BY <1>6, <1>7 DEF Path
<1> QED BY <1>1, <1>8, PathShort

-----------------------------------------------------------------------------
(* Lookups. *)

\* The main position of a key is one of the nodes.
LEMMA HomeType ==
  ASSUME NEW n \in Nat, n # 0, NEW k \in Keys
  PROVE  HomeOf(n, k) \in Slots(n)
<1>1. Hash[k] \in Nat
  BY TableAssumption
<1> QED BY <1>1 DEF HomeOf, Slots

\* A taken node has a key.
LEMMA TakenKey ==
  ASSUME NEW n, NEW nd, NodesType(n, nd), NEW i \in Slots(n), Taken(nd, i)
  PROVE  nd[i].key \in Keys
<1>1. nd[i] \in NodeType
  BY DEF NodesType
<1> QED BY <1>1 DEF NodeType, Taken

\* A key is looked up along the chain from its main position.
LEMMA FirstNodeIs ==
  ASSUME NEW h, NEW n \in Nat, n = SizeNode(h), NodesOK(n, h.node),
         NEW k \in Keys, NEW alsoDead \in BOOLEAN,
         FirstNode(h, k, alsoDead) # -1
  PROVE  LET i == FirstNode(h, k, alsoDead)
         IN  /\ i \in Slots(n) /\ h.node[i].key = k /\ Taken(h.node, i)
             /\ alsoDead \/ ~h.node[i].dead
<1> DEFINE c == ChainFrom(h, HomeOf(n, k))
           hit(j) == h.node[c[j]].key = k /\ (alsoDead \/ ~h.node[c[j]].dead)
           hits == {j \in DOMAIN c : hit(j)}
<1>1. MainPosition(h, k) = HomeOf(n, k)
  BY SMTT(30) DEF MainPosition, HomeOf
<1>2. /\ ~IsDummy(h) /\ hits # {}
      /\ FirstNode(h, k, alsoDead) = c[Smallest(hits)]
  BY <1>1 DEF FirstNode
<1>3. n # 0
  BY <1>2 DEF IsDummy
<1>4. DOMAIN c = Slots(n) /\ \A j \in Slots(n) : c[j] \in Slots(n)
  BY <1>3, ChainStep, ChainType, HomeType DEF NodesOK
<1>5. \A j \in hits : j \in Int /\ 0 <= j /\ j \in Slots(n) /\ hit(j)
  BY <1>4 DEF Slots
<1> HIDE DEF hits, c
<1>6. Smallest(hits) \in hits
  BY <1>2, <1>5, SmallestOf
<1>7. hit(Smallest(hits)) /\ Smallest(hits) \in Slots(n)
  BY <1>5, <1>6
<1>8. k # NoKey
  BY TableAssumption
<1> QED BY <1>2, <1>4, <1>7, <1>8 DEF Taken

\* The lookup of a key in a living node answers that node, also when dead
\* keys are taken into account.
LEMMA FirstNodeFinds ==
  ASSUME NEW h, NEW n \in Nat, n = SizeNode(h), NodesOK(n, h.node),
         NEW i \in Slots(n), Taken(h.node, i), ~h.node[i].dead,
         NEW alsoDead \in BOOLEAN
  PROVE  FirstNode(h, h.node[i].key, alsoDead) = i
<1> DEFINE nd == h.node
           k == nd[i].key
           d == ChainFrom(h, HomeOf(n, k))
           hit(j) == h.node[d[j]].key = k /\ (alsoDead \/ ~h.node[d[j]].dead)
           hits == {j \in DOMAIN d : hit(j)}
<1>1. PICK m \in Nat : \E c \in [0 .. m -> Slots(n)] : Leads(n, nd, i, c, m)
  BY DEF NodesOK, Found, Reached
<1>2. PICK c \in [0 .. m -> Slots(n)] : Leads(n, nd, i, c, m)
  BY <1>1
<1>3. Path(n, nd, c, m) /\ c[0] = HomeOf(n, k) /\ c[m] = i
      /\ \A j \in 0 .. m - 1 : nd[c[j]].key # k
  BY <1>2 DEF Leads
<1>4. k \in Keys /\ n # 0 /\ Ending(n, nd)
  BY TakenKey DEF NodesOK, Slots
<1>5. MainPosition(h, k) = HomeOf(n, k) /\ ~IsDummy(h)
  BY <1>4 DEF MainPosition, HomeOf, IsDummy
<1>6. \A j \in 0 .. m : j \in Slots(n) /\ d[j] = c[j]
  BY <1>3, <1>4, ChainFollows
<1>7. DOMAIN d = Slots(n)
  BY ChainStep
<1>8. FirstNode(h, k, alsoDead) = IF IsDummy(h) \/ hits = {} THEN -1 ELSE d[Smallest(hits)]
  BY <1>5 DEF FirstNode
<1> HIDE DEF d
<1>9. m \in hits
  BY <1>3, <1>6, <1>7
<1>10. \A j \in hits : j \in Int /\ 0 <= j
  BY <1>7 DEF Slots
<1>11. \A j \in hits : m <= j
  BY <1>3, <1>6, <1>7 DEF Slots
<1> HIDE DEF hits
<1> HIDE DEF hit, k, nd
<1>12. hits # {}
  BY <1>9
<1>13. Smallest(hits) \in hits /\ \A j \in hits : Smallest(hits) <= j
  BY <1>10, <1>12, SmallestOf
<1>14. Smallest(hits) = m
  <2>1. Smallest(hits) <= m /\ m <= Smallest(hits)
    BY <1>9, <1>11, <1>13, Zenon
  <2>2. Smallest(hits) \in Int
    BY <1>10, <1>13, Zenon
  <2> QED BY <2>1, <2>2
<1> QED BY <1>3, <1>5, <1>6, <1>8, <1>12, <1>14 DEF k, nd

\* Two living nodes have different keys.
LEMMA KeysDiffer ==
  ASSUME NEW h, NEW n \in Nat, n = SizeNode(h), NodesOK(n, h.node),
         NEW i \in Slots(n), Taken(h.node, i), ~h.node[i].dead,
         NEW j \in Slots(n), Taken(h.node, j), ~h.node[j].dead,
         h.node[i].key = h.node[j].key
  PROVE  i = j
<1>1. FirstNode(h, h.node[i].key, TRUE) = i
  BY FirstNodeFinds
<1>2. FirstNode(h, h.node[j].key, TRUE) = j
  BY FirstNodeFinds
<1> QED BY <1>1, <1>2

\* A key whose lookup fails is in no living node.
LEMMA NotFound ==
  ASSUME NEW h, NEW n \in Nat, n = SizeNode(h), NodesOK(n, h.node),
         NEW k, NodeOf(h, k) = -1,
         NEW i \in Slots(n), Taken(h.node, i), ~h.node[i].dead
  PROVE  h.node[i].key # k
<1>1. FirstNode(h, h.node[i].key, FALSE) = i
  BY FirstNodeFinds
<1>2. i # -1
  BY DEF Slots
<1>3. NodeOf(h, h.node[i].key) # NodeOf(h, k)
  BY <1>1, <1>2 DEF NodeOf
<1> QED BY <1>3

-----------------------------------------------------------------------------
(* A new key: the three cases of PlaceKey. *)

\* k is in no living node, and mp is its main position.
NewKey(n, nd, k, mp) ==
  /\ NodesOK(n, nd) /\ n # 0
  /\ k \in Keys /\ k # NoKey /\ mp = HomeOf(n, k) /\ mp \in Slots(n)
  /\ \A i \in Slots(n) : Taken(nd, i) /\ ~nd[i].dead => nd[i].key # k

\* Its main position holds no value: it goes there.
FillsHome(n, nd, new, k, mp) ==
  /\ new \in [Slots(n) -> NodeType]
  /\ new[mp].key = k /\ ~new[mp].dead /\ new[mp].next = nd[mp].next
  /\ \A i \in Slots(n) : i # mp => new[i] = nd[i]

\* That keeps the nodes in order.
LEMMA FillsHomeOK ==
  ASSUME NEW n, NEW nd, NEW new, NEW k, NEW mp,
         NewKey(n, nd, k, mp), FillsHome(n, nd, new, k, mp)
  PROVE  NodesOK(n, new)
<1> USE DEF NewKey, FillsHome, NodesOK
<1>1. \A i \in Slots(n) : new[i].next = nd[i].next /\ After(new, i) = After(nd, i)
  BY DEF After
<1>2. \A i \in Slots(n) : Taken(nd, i) => Taken(new, i)
  BY DEF Taken
<1>3. Taken(new, mp)
  BY DEF Taken
<1>4. NodesType(n, new)
  BY DEF NodesType
<1>5. Untouched(n, new)
  BY <1>1, <1>2, <1>3 DEF Untouched, Taken
<1>6. Unjoined(n, new)
  BY <1>1 DEF Unjoined
<1>7. AtHome(n, new)
  <2> SUFFICES ASSUME NEW i \in Slots(n), Taken(new, i)
               PROVE  LET p == HomeOf(n, new[i].key)
                      IN  Taken(new, p) /\ HomeOf(n, new[p].key) = p
    BY DEF AtHome
  <2>1. CASE i = mp
    BY <1>3, <2>1
  <2>2. CASE i # mp
    <3> DEFINE p == HomeOf(n, nd[i].key)
    <3>1. Taken(nd, i) /\ new[i].key = nd[i].key
      BY <2>2 DEF Taken
    <3>2. Taken(nd, p) /\ HomeOf(n, nd[p].key) = p
      BY <3>1 DEF AtHome
    <3>3. p \in Slots(n)
      BY <3>1, TakenKey, HomeType DEF NodesType
    <3> QED BY <1>2, <1>3, <3>1, <3>2, <3>3
  <2> QED BY <2>1, <2>2
<1>8. Ending(n, new)
  BY <1>1 DEF Ending, Falls
<1>9. Found(n, new)
  <2> SUFFICES ASSUME NEW i \in Slots(n), Taken(new, i), ~new[i].dead
               PROVE  Reached(n, new, i)
    BY DEF Found
  <2>1. CASE i = mp
    <3> DEFINE c == [j \in 0 .. 0 |-> mp]
    <3>1. Leads(n, new, i, c, 0)
      BY <2>1 DEF Leads, Path
    <3>2. c \in [0 .. 0 -> Slots(n)] /\ 0 \in Nat
      OBVIOUS
    <3> QED BY <3>1, <3>2 DEF Reached
  <2>2. CASE i # mp
    <3>1. Taken(nd, i) /\ ~nd[i].dead /\ new[i].key = nd[i].key
      BY <2>2 DEF Taken
    <3>2. PICK m \in Nat : \E c \in [0 .. m -> Slots(n)] : Leads(n, nd, i, c, m)
      BY <3>1 DEF Found, Reached
    <3>3. PICK c \in [0 .. m -> Slots(n)] : Leads(n, nd, i, c, m)
      BY <3>2
    <3>4. \A j \in 0 .. m - 1 : c[j] \in Slots(n) /\ new[c[j]].key # nd[i].key
      BY <3>1, <3>3 DEF Leads
    <3>5. Leads(n, new, i, c, m)
      BY <1>1, <3>1, <3>3, <3>4 DEF Leads, Path
    <3> QED BY <3>5 DEF Reached
  <2> QED BY <2>1, <2>2
<1> QED BY <1>4, <1>5, <1>6, <1>7, <1>8, <1>9

\* A key is at home at its main position: the new one goes to the free node
\* f, which is put into the chain behind it.
FollowsHome(n, nd, new, k, mp, f) ==
  /\ new \in [Slots(n) -> NodeType]
  /\ f \in Slots(n) /\ ~Taken(nd, f)
  /\ Taken(nd, mp) /\ ~nd[mp].dead /\ HomeOf(n, nd[mp].key) = mp
  /\ new[f].key = k /\ ~new[f].dead
  /\ new[f].next = IF nd[mp].next = 0 THEN 0 ELSE After(nd, mp) - f
  /\ new[mp].key = nd[mp].key /\ new[mp].dead = nd[mp].dead
  /\ new[mp].val = nd[mp].val /\ new[mp].next = f - mp
  /\ \A i \in Slots(n) : i # mp /\ i # f => new[i] = nd[i]

\* What changes in the chains.
LEMMA FollowsHomeSteps ==
  ASSUME NEW n, NEW nd, NEW new, NEW k, NEW mp, NEW f,
         NewKey(n, nd, k, mp), FollowsHome(n, nd, new, k, mp, f)
  PROVE  /\ f # mp /\ f \in Int /\ mp \in Int
         /\ \A i \in Slots(n) : Taken(nd, i) => Taken(new, i) /\ new[i].key = nd[i].key
         /\ Taken(new, f) /\ Taken(new, mp) /\ nd[f].next = 0
         /\ new[mp].next # 0 /\ After(new, mp) = f
         /\ nd[mp].next = 0 => new[f].next = 0 /\ After(new, f) = f
         /\ nd[mp].next # 0 => /\ new[f].next # 0 /\ After(new, f) = After(nd, mp)
                               /\ After(nd, mp) # f /\ After(nd, mp) # mp
         /\ \A i \in Slots(n) : i # mp /\ i # f =>
              /\ new[i].next = nd[i].next /\ After(new, i) = After(nd, i)
              /\ nd[i].next # 0 => After(nd, i) # f
<1> USE DEF NewKey, FollowsHome, NodesOK
<1>1. f # mp /\ f \in Int /\ mp \in Int /\ f \in Slots(n)
  BY DEF Slots
<1>2. nd[f].next = 0
  BY DEF Untouched
<1>3. \A i \in Slots(n) : nd[i].next \in Int /\ i \in Int
  BY DEF NodesType, NodeType, Slots
<1>4. \A i \in Slots(n) : nd[i].next # 0 => After(nd, i) # f /\ After(nd, i) # i
  BY <1>3 DEF Untouched, After
<1>5. new[mp].next # 0 /\ After(new, mp) = f
  BY <1>1 DEF After
<1>6. nd[mp].next = 0 => new[f].next = 0 /\ After(new, f) = f
  BY <1>1 DEF After
<1>7. After(nd, mp) \in Int
  BY <1>3 DEF After
<1>8. nd[mp].next # 0 => new[f].next # 0 /\ After(new, f) = After(nd, mp)
                         /\ After(nd, mp) # f /\ After(nd, mp) # mp
  <2> SUFFICES ASSUME nd[mp].next # 0
               PROVE  /\ new[f].next # 0 /\ After(new, f) = After(nd, mp)
                      /\ After(nd, mp) # f /\ After(nd, mp) # mp
    OBVIOUS
  <2>1. After(nd, mp) # f /\ After(nd, mp) # mp
    BY <1>4
  <2>2. new[f].next = After(nd, mp) - f
    OBVIOUS
  <2>3. After(new, f) = f + new[f].next
    BY DEF After
  <2> QED BY <1>1, <1>7, <2>1, <2>2, <2>3
<1>9. \A i \in Slots(n) : Taken(nd, i) => Taken(new, i) /\ new[i].key = nd[i].key
  BY DEF Taken
<1>10. Taken(new, f) /\ Taken(new, mp)
  BY <1>9 DEF Taken
<1>11. \A i \in Slots(n) : i # mp /\ i # f =>
              /\ new[i].next = nd[i].next /\ After(new, i) = After(nd, i)
              /\ nd[i].next # 0 => After(nd, i) # f
  BY <1>4 DEF After
<1> QED BY <1>1, <1>2, <1>5, <1>6, <1>8, <1>9, <1>10, <1>11

\* The path of an old node: unchanged, or longer by one where it passes mp.
LEMMA FollowsHomeReached ==
  ASSUME NEW n, NEW nd, NEW new, NEW k, NEW mp, NEW f,
         NewKey(n, nd, k, mp), FollowsHome(n, nd, new, k, mp, f),
         NEW i \in Slots(n), i # f, Taken(nd, i), ~nd[i].dead
  PROVE  Reached(n, new, i)
<1>1. n \in Nat /\ Ending(n, nd) /\ nd[i].key # k /\ new[i].key = nd[i].key
  BY FollowsHomeSteps DEF NewKey, NodesOK, NodesType
<1>2. PICK m \in Nat : \E c \in [0 .. m -> Slots(n)] : Leads(n, nd, i, c, m)
  BY DEF NewKey, NodesOK, Found, Reached
<1>3. PICK c \in [0 .. m -> Slots(n)] : Leads(n, nd, i, c, m)
  BY <1>2
<1>4. Path(n, nd, c, m) /\ c[0] = HomeOf(n, nd[i].key) /\ c[m] = i
  BY <1>3 DEF Leads
<1>5. \A j \in 0 .. m - 1 : /\ c[j] \in Slots(n) /\ c[j + 1] \in Slots(n)
                            /\ nd[c[j]].next # 0 /\ c[j + 1] = After(nd, c[j])
                            /\ nd[c[j]].key # nd[i].key /\ c[j] # f
  BY <1>3, FollowsHomeSteps DEF Leads, Path
<1>6. \A j \in 0 .. m - 1 : new[c[j]].key # nd[i].key
  BY <1>1, <1>5 DEF FollowsHome
<1>7. CASE \A j \in 0 .. m - 1 : c[j] # mp
  <2>1. \A j \in 0 .. m - 1 : new[c[j]].next # 0 /\ c[j + 1] = After(new, c[j])
    BY <1>5, <1>7, FollowsHomeSteps
  <2>2. Leads(n, new, i, c, m)
    BY <1>1, <1>4, <1>6, <2>1 DEF Leads, Path
  <2> QED BY <2>2 DEF Reached
<1>8. ASSUME NEW a \in 0 .. m - 1, c[a] = mp PROVE Reached(n, new, i)
  <2> DEFINE d == [j \in 0 .. m + 1 |-> IF j <= a THEN c[j]
                                        ELSE IF j = a + 1 THEN f ELSE c[j - 1]]
  <2>1. \A j \in 0 .. m : j # a => c[j] # mp
    BY <1>1, <1>4, <1>8, PathDistinct
  <2>2. f \in Slots(n) /\ new[f].key = k
    BY DEF FollowsHome
  <2>3. d \in [0 .. m + 1 -> Slots(n)]
    BY <2>2
  <2>4. d[0] = c[0] /\ d[m + 1] = i
    BY <1>4
  <2>5. \A j \in 0 .. (m + 1) - 1 :
          /\ new[d[j]].next # 0 /\ d[j + 1] = After(new, d[j])
          /\ new[d[j]].key # nd[i].key
    <3> TAKE j \in 0 .. (m + 1) - 1
    <3>1. CASE j < a
      <4>1. j \in 0 .. m - 1 /\ j \in 0 .. m /\ j # a /\ j + 1 <= a
        BY <3>1
      <4>2. d[j] = c[j] /\ d[j + 1] = c[j + 1]
        BY <4>1
      <4> QED BY <1>5, <1>6, <2>1, <4>1, <4>2, FollowsHomeSteps, SMTT(30)
    <3>2. CASE j = a
      <4>1. d[j] = mp /\ d[j + 1] = f
        BY <1>8, <3>2
      <4> QED BY <1>6, <1>8, <4>1, FollowsHomeSteps, SMTT(30)
    <3>3. CASE j = a + 1
      <4>1. d[j] = f /\ d[j + 1] = c[a + 1]
        BY <3>3
      <4>2. nd[mp].next # 0 /\ c[a + 1] = After(nd, mp)
        BY <1>5, <1>8
      <4> QED BY <1>1, <2>2, <4>1, <4>2, FollowsHomeSteps
    <3>4. CASE j > a + 1
      <4>1. j - 1 \in 0 .. m - 1 /\ j - 1 \in 0 .. m /\ j - 1 # a /\ (j - 1) + 1 = j
        BY <3>4
      <4>2. d[j] = c[j - 1] /\ d[j + 1] = c[j]
        BY <3>4
      <4>3. nd[c[j - 1]].next # 0 /\ c[j] = After(nd, c[j - 1]) /\ c[j - 1] # f
            /\ c[j - 1] # mp /\ c[j - 1] \in Slots(n) /\ new[c[j - 1]].key # nd[i].key
        BY <1>5, <1>6, <2>1, <4>1
      <4> QED BY <4>2, <4>3, FollowsHomeSteps
    <3> QED BY <3>1, <3>2, <3>3, <3>4
  <2> HIDE DEF d
  <2>6. Leads(n, new, i, d, m + 1)
    BY <1>1, <1>4, <2>3, <2>4, <2>5 DEF Leads, Path
  <2>7. m + 1 \in Nat
    OBVIOUS
  <2> QED BY <2>3, <2>6, <2>7 DEF Reached
<1> QED BY <1>7, <1>8

\* That keeps the nodes in order, too.
LEMMA FollowsHomeOK ==
  ASSUME NEW n, NEW nd, NEW new, NEW k, NEW mp, NEW f,
         NewKey(n, nd, k, mp), FollowsHome(n, nd, new, k, mp, f)
  PROVE  NodesOK(n, new)
<1>1. /\ n \in Nat /\ NodesType(n, nd) /\ Untouched(n, nd) /\ Unjoined(n, nd)
      /\ AtHome(n, nd) /\ Ending(n, nd) /\ Found(n, nd) /\ mp \in Slots(n)
      /\ f \in Slots(n) /\ ~Taken(nd, f) /\ Taken(nd, mp)
  BY DEF NewKey, FollowsHome, NodesOK, NodesType
<1>2. NodesType(n, new)
  BY <1>1 DEF FollowsHome, NodesType
<1>3. Untouched(n, new)
  <2> SUFFICES ASSUME NEW i \in Slots(n)
               PROVE  /\ ~Taken(new, i) => new[i].val = Nil /\ new[i].next = 0
                      /\ new[i].val # Nil => ~new[i].dead
                      /\ After(new, i) \in Slots(n)
                      /\ new[i].next # 0 => Taken(new, After(new, i))
    BY DEF Untouched
  <2>1. CASE i = f
    <3>1. Taken(new, f) /\ ~new[f].dead
      BY FollowsHomeSteps DEF FollowsHome
    <3>2. CASE nd[mp].next = 0
      BY <1>1, <2>1, <3>1, <3>2, FollowsHomeSteps
    <3>3. CASE nd[mp].next # 0
      <4>1. After(nd, mp) \in Slots(n) /\ Taken(nd, After(nd, mp))
        BY <1>1, <3>3 DEF Untouched
      <4>2. After(new, f) = After(nd, mp) /\ Taken(new, After(nd, mp))
        BY <3>3, <4>1, FollowsHomeSteps
      <4> QED BY <2>1, <3>1, <4>1, <4>2
    <3> QED BY <3>2, <3>3
  <2>2. CASE i = mp
    <3>1. Taken(new, mp) /\ Taken(new, f) /\ After(new, mp) = f
      BY FollowsHomeSteps
    <3>2. ~new[mp].dead
      BY DEF FollowsHome
    <3> QED BY <1>1, <2>2, <3>1, <3>2
  <2>3. CASE i # f /\ i # mp
    <3>1. new[i] = nd[i] /\ (~Taken(new, i) => ~Taken(nd, i))
      BY <2>3, FollowsHomeSteps DEF FollowsHome
    <3> QED BY <1>1, <2>3, <3>1, FollowsHomeSteps DEF Untouched
  <2> QED BY <2>1, <2>2, <2>3
<1>4. Unjoined(n, new)
  <2> SUFFICES ASSUME NEW i \in Slots(n), NEW j \in Slots(n),
                      new[i].next # 0, new[j].next # 0, After(new, i) = After(new, j)
               PROVE  i = j
    BY DEF Unjoined
  <2>1. CASE i = mp \/ j = mp
    BY <1>1, <2>1, FollowsHomeSteps
  <2>2. CASE i # mp /\ j # mp /\ (i = f \/ j = f)
    BY <1>1, <2>2, FollowsHomeSteps DEF Unjoined
  <2>3. CASE i # mp /\ j # mp /\ i # f /\ j # f
    BY <1>1, <2>3, FollowsHomeSteps DEF Unjoined
  <2> QED BY <2>1, <2>2, <2>3
<1>5. AtHome(n, new)
  <2> SUFFICES ASSUME NEW i \in Slots(n), Taken(new, i)
               PROVE  LET p == HomeOf(n, new[i].key)
                      IN  Taken(new, p) /\ HomeOf(n, new[p].key) = p
    BY DEF AtHome
  <2>1. CASE i = f
    <3>1. new[i].key = k /\ HomeOf(n, k) = mp /\ new[mp].key = nd[mp].key
      BY <2>1 DEF FollowsHome, NewKey
    <3> QED BY <3>1, FollowsHomeSteps DEF FollowsHome
  <2>2. CASE i # f
    <3>1. new[i].key = nd[i].key /\ Taken(nd, i)
      BY <2>2 DEF FollowsHome, Taken
    <3> DEFINE p == HomeOf(n, nd[i].key)
    <3>2. Taken(nd, p) /\ HomeOf(n, nd[p].key) = p
      BY <1>1, <3>1 DEF AtHome
    <3>3. p \in Slots(n)
      BY <1>1, <3>1, TakenKey, HomeType DEF NewKey
    <3> QED BY <3>1, <3>2, <3>3, FollowsHomeSteps
  <2> QED BY <2>1, <2>2
<1>6. Ending(n, new)
  <2>1. PICK rank \in [Slots(n) -> Nat] : Falls(n, nd, rank)
    BY <1>1 DEF Ending
  <2> DEFINE r == [i \in Slots(n) |-> IF i = f THEN 2 * rank[mp] ELSE 2 * rank[i] + 1]
  <2>2. r \in [Slots(n) -> Nat]
    <3>1. \A i \in Slots(n) : rank[i] \in Nat
      BY <2>1
    <3> QED BY <1>1, <3>1
  <2>3. ASSUME NEW i \in Slots(n), new[i].next # 0
        PROVE  r[After(new, i)] < r[i]
    <3>1. \A j \in Slots(n) : rank[j] \in Nat
      BY <2>1
    <3>2. CASE i = mp
      BY <1>1, <3>1, <3>2, FollowsHomeSteps
    <3>3. CASE i = f
      <4> DEFINE s == After(nd, mp)
      <4>1. nd[mp].next # 0 /\ After(new, f) = s /\ s # f /\ s \in Slots(n)
        BY <1>1, <2>3, <3>3, FollowsHomeSteps DEF Untouched
      <4>2. rank[s] < rank[mp]
        BY <1>1, <2>1, <4>1 DEF Falls
      <4>3. r[s] = 2 * rank[s] + 1 /\ r[f] = 2 * rank[mp]
        BY <1>1, <4>1
      <4> HIDE DEF s, r
      <4>4. rank[s] \in Nat /\ rank[mp] \in Nat
        BY <1>1, <3>1, <4>1
      <4> QED BY <3>3, <4>1, <4>2, <4>3, <4>4
    <3>4. CASE i # mp /\ i # f
      <4> DEFINE s == After(nd, i)
      <4>1. nd[i].next # 0 /\ After(new, i) = s /\ s # f /\ s \in Slots(n)
        BY <1>1, <2>3, <3>4, FollowsHomeSteps DEF Untouched
      <4>2. rank[s] < rank[i]
        BY <2>1, <4>1 DEF Falls
      <4>3. r[s] = 2 * rank[s] + 1 /\ r[i] = 2 * rank[i] + 1
        BY <3>4, <4>1
      <4> HIDE DEF s, r
      <4>4. rank[s] \in Nat /\ rank[i] \in Nat
        BY <3>1, <4>1
      <4> QED BY <4>1, <4>2, <4>3, <4>4
    <3> QED BY <3>2, <3>3, <3>4
  <2> HIDE DEF r
  <2>4. Falls(n, new, r)
    BY <2>3 DEF Falls
  <2> QED BY <2>2, <2>4 DEF Ending
<1>7. Found(n, new)
  <2> SUFFICES ASSUME NEW i \in Slots(n), Taken(new, i), ~new[i].dead
               PROVE  Reached(n, new, i)
    BY DEF Found
  <2>1. CASE i = f
    <3> DEFINE c == [j \in 0 .. 1 |-> IF j = 0 THEN mp ELSE f]
    <3>1. c \in [0 .. 1 -> Slots(n)] /\ c[0] = mp /\ c[1] = f
      BY <1>1
    <3> HIDE DEF c
    <3>2. \A j \in 0 .. 1 - 1 : j = 0 /\ j + 1 = 1
      OBVIOUS
    <3>3. new[mp].next # 0 /\ After(new, mp) = f
      BY FollowsHomeSteps
    <3>4. new[mp].key # k /\ new[f].key = k /\ HomeOf(n, k) = mp
      BY <1>1 DEF FollowsHome, NewKey
    <3>5. Path(n, new, c, 1)
      BY <3>1, <3>2, <3>3 DEF Path
    <3>6. Leads(n, new, i, c, 1)
      BY <2>1, <3>1, <3>2, <3>4, <3>5 DEF Leads
    <3> QED BY <3>1, <3>6 DEF Reached
  <2>2. CASE i # f
    <3>1. Taken(nd, i) /\ ~nd[i].dead
      BY <2>2 DEF FollowsHome, Taken
    <3> QED BY <2>2, <3>1, FollowsHomeReached
  <2> QED BY <2>1, <2>2
<1> QED BY <1>2, <1>3, <1>4, <1>5, <1>6, <1>7 DEF NodesOK

\* A guest is at its main position: it moves to the free node f, and the node
\* before it in its chain, prev, is told so.
TakesHome(n, nd, new, k, mp, prev, f) ==
  /\ new \in [Slots(n) -> NodeType]
  /\ f \in Slots(n) /\ ~Taken(nd, f)
  /\ Taken(nd, mp) /\ ~nd[mp].dead /\ HomeOf(n, nd[mp].key) # mp
  /\ prev \in Slots(n) /\ nd[prev].next # 0 /\ After(nd, prev) = mp
  /\ new[mp].key = k /\ ~new[mp].dead /\ new[mp].next = 0
  /\ new[f].key = nd[mp].key /\ ~new[f].dead
  /\ new[f].next = IF nd[mp].next = 0 THEN 0 ELSE After(nd, mp) - f
  /\ new[prev].key = nd[prev].key /\ new[prev].dead = nd[prev].dead
  /\ new[prev].val = nd[prev].val /\ new[prev].next = f - prev
  /\ \A i \in Slots(n) : i \notin {mp, prev, f} => new[i] = nd[i]

\* What changes in the chains.
LEMMA TakesHomeSteps ==
  ASSUME NEW n, NEW nd, NEW new, NEW k, NEW mp, NEW prev, NEW f,
         NewKey(n, nd, k, mp), TakesHome(n, nd, new, k, mp, prev, f)
  PROVE  /\ f # mp /\ prev # f /\ prev # mp /\ nd[f].next = 0
         /\ \A i \in Slots(n) : Taken(nd, i) => Taken(new, i)
         /\ \A i \in Slots(n) : Taken(nd, i) /\ i # mp => new[i].key = nd[i].key
         /\ Taken(new, f) /\ Taken(new, mp) /\ Taken(new, prev)
         /\ new[mp].next = 0 /\ After(new, mp) = mp
         /\ new[prev].next # 0 /\ After(new, prev) = f
         /\ nd[mp].next = 0 => new[f].next = 0 /\ After(new, f) = f
         /\ nd[mp].next # 0 => /\ new[f].next # 0 /\ After(new, f) = After(nd, mp)
                               /\ After(nd, mp) # f /\ After(nd, mp) # mp
         /\ \A i \in Slots(n) : i \notin {mp, prev, f} =>
              /\ new[i].next = nd[i].next /\ After(new, i) = After(nd, i)
              /\ nd[i].next # 0 => After(nd, i) # f /\ After(nd, i) # mp
<1> USE DEF NewKey, TakesHome, NodesOK
<1>1. \A i \in Slots(n) : nd[i].next \in Int /\ i \in Int
  BY DEF NodesType, NodeType, Slots
<1>2. nd[f].next = 0 /\ f # mp /\ prev # f
  BY DEF Untouched
<1>3. f \in Int /\ mp \in Int /\ prev \in Int
  BY DEF Slots
<1>4. prev # mp
  BY <1>1, <1>3 DEF After
<1>5. \A i \in Slots(n) : nd[i].next # 0 => After(nd, i) # f /\ After(nd, i) # i
  BY <1>1 DEF Untouched, After
<1>6. \A i \in Slots(n) : Taken(nd, i) /\ i # mp => new[i].key = nd[i].key
  BY <1>2
<1>7. \A i \in Slots(n) : Taken(nd, i) => Taken(new, i)
  BY <1>6 DEF Taken
<1>8. Taken(new, f) /\ Taken(new, mp) /\ Taken(new, prev)
  <2>1. Taken(nd, prev)
    BY DEF Untouched
  <2> QED BY <1>7, <2>1 DEF Taken
<1>9. new[mp].next = 0 /\ After(new, mp) = mp
  BY <1>3 DEF After
<1>10. new[prev].next # 0 /\ After(new, prev) = f
  BY <1>2, <1>3 DEF After
<1>11. nd[mp].next = 0 => new[f].next = 0 /\ After(new, f) = f
  BY <1>3 DEF After
<1>12. nd[mp].next # 0 => /\ new[f].next # 0 /\ After(new, f) = After(nd, mp)
                          /\ After(nd, mp) # f /\ After(nd, mp) # mp
  <2> SUFFICES ASSUME nd[mp].next # 0
               PROVE  /\ new[f].next # 0 /\ After(new, f) = After(nd, mp)
                      /\ After(nd, mp) # f /\ After(nd, mp) # mp
    OBVIOUS
  <2>1. After(nd, mp) # f /\ After(nd, mp) # mp
    BY <1>5
  <2>2. new[f].next = After(nd, mp) - f /\ After(new, f) = f + new[f].next
    BY DEF After
  <2>3. After(nd, mp) \in Int
    BY <1>1, <1>3 DEF After
  <2> QED BY <1>3, <2>1, <2>2, <2>3
<1>13. \A i \in Slots(n) : i \notin {mp, prev, f} =>
              /\ new[i].next = nd[i].next /\ After(new, i) = After(nd, i)
              /\ nd[i].next # 0 => After(nd, i) # f /\ After(nd, i) # mp
  <2> TAKE i \in Slots(n)
  <2> HAVE i \notin {mp, prev, f}
  <2>1. new[i] = nd[i]
    OBVIOUS
  <2>2. nd[i].next # 0 => After(nd, i) # mp
    BY DEF Unjoined
  <2> QED BY <1>5, <2>1, <2>2 DEF After
<1> QED BY <1>2, <1>4, <1>6, <1>7, <1>8, <1>9, <1>10, <1>11, <1>12, <1>13

\* The path of an old node: f takes the place of mp in it.
LEMMA TakesHomeReached ==
  ASSUME NEW n, NEW nd, NEW new, NEW k, NEW mp, NEW prev, NEW f,
         NewKey(n, nd, k, mp), TakesHome(n, nd, new, k, mp, prev, f),
         NEW i \in Slots(n), Taken(nd, i), ~nd[i].dead
  PROVE  Reached(n, new, IF i = mp THEN f ELSE i)
<1> DEFINE x == IF i = mp THEN f ELSE i
<1>1. new[x].key = nd[i].key
  BY TakesHomeSteps DEF TakesHome
<1>2. PICK m \in Nat : \E c \in [0 .. m -> Slots(n)] : Leads(n, nd, i, c, m)
  BY DEF NewKey, NodesOK, Found, Reached
<1>3. PICK c \in [0 .. m -> Slots(n)] : Leads(n, nd, i, c, m)
  BY <1>2
<1>4. Path(n, nd, c, m) /\ c[0] = HomeOf(n, nd[i].key) /\ c[m] = i
  BY <1>3 DEF Leads
<1>5. c[0] # mp
  <2>1. HomeOf(n, nd[HomeOf(n, nd[i].key)].key) = HomeOf(n, nd[i].key)
    BY DEF NewKey, NodesOK, AtHome
  <2> QED BY <1>4, <2>1 DEF TakesHome
<1>6. \A j \in 0 .. m - 1 : /\ c[j] \in Slots(n) /\ c[j + 1] \in Slots(n)
                            /\ nd[c[j]].next # 0 /\ c[j + 1] = After(nd, c[j])
                            /\ nd[c[j]].key # nd[i].key /\ c[j] # f
                            /\ Taken(nd, c[j])
  <2>1. \A s \in Slots(n) : nd[s].next # 0 => s # f /\ Taken(nd, s)
    BY TakesHomeSteps DEF NewKey, NodesOK, Untouched
  <2>2. \A j \in 0 .. m - 1 : /\ c[j] \in Slots(n) /\ c[j + 1] \in Slots(n)
                            /\ nd[c[j]].next # 0 /\ c[j + 1] = After(nd, c[j])
                            /\ nd[c[j]].key # nd[i].key
    BY <1>3 DEF Leads, Path
  <2> QED BY <2>1, <2>2
<1> DEFINE d == [j \in 0 .. m |-> IF c[j] = mp THEN f ELSE c[j]]
<1>7. d \in [0 .. m -> Slots(n)]
  <2>1. f \in Slots(n)
    BY DEF TakesHome
  <2> QED BY <2>1
<1>8. d[0] = c[0] /\ d[m] = x
  BY <1>4, <1>5
<1>9. \A j \in 0 .. m - 1 :
        /\ new[d[j]].next # 0 /\ d[j + 1] = After(new, d[j])
        /\ new[d[j]].key # nd[i].key
  <2> TAKE j \in 0 .. m - 1
  <2>1. j \in 0 .. m /\ j + 1 \in 0 .. m
    OBVIOUS
  <2>2. CASE c[j] = mp
    <3>1. nd[mp].next # 0 /\ c[j + 1] = After(nd, mp) /\ d[j] = f
      BY <1>6, <2>1, <2>2
    <3>2. d[j + 1] = c[j + 1]
      BY <2>1, <3>1, TakesHomeSteps
    <3>3. new[f].key = nd[mp].key
      BY DEF TakesHome
    <3> QED BY <1>6, <2>2, <3>1, <3>2, <3>3, TakesHomeSteps
  <2>3. CASE c[j] # mp
    <3>1. d[j] = c[j] /\ new[c[j]].key = nd[c[j]].key
      BY <1>6, <2>1, <2>3, TakesHomeSteps
    <3>2. CASE c[j] = prev
      <4>1. c[j + 1] = mp
        BY <1>6, <3>2 DEF TakesHome
      <4>2. d[j + 1] = f
        BY <2>1, <4>1
      <4> QED BY <1>6, <3>1, <3>2, <4>2, TakesHomeSteps
    <3>3. CASE c[j] # prev
      <4>1. c[j + 1] # mp /\ c[j + 1] = After(nd, c[j]) /\ nd[c[j]].next # 0
        BY <1>6, <2>3, <3>3, TakesHomeSteps
      <4>2. d[j + 1] = c[j + 1]
        BY <2>1, <4>1
      <4> QED BY <1>6, <2>3, <3>1, <3>3, <4>1, <4>2, TakesHomeSteps
    <3> QED BY <3>2, <3>3
  <2> QED BY <2>2, <2>3
<1> HIDE DEF d, x
<1>10. Leads(n, new, x, d, m)
  BY <1>1, <1>4, <1>7, <1>8, <1>9 DEF Leads, Path
<1>11. Reached(n, new, x)
  BY <1>7, <1>10 DEF Reached
<1> QED BY <1>11 DEF x

\* And so does this.
LEMMA TakesHomeOK ==
  ASSUME NEW n, NEW nd, NEW new, NEW k, NEW mp, NEW prev, NEW f,
         NewKey(n, nd, k, mp), TakesHome(n, nd, new, k, mp, prev, f)
  PROVE  NodesOK(n, new)
<1>1. /\ n \in Nat /\ NodesType(n, nd) /\ Untouched(n, nd) /\ Unjoined(n, nd)
      /\ AtHome(n, nd) /\ Ending(n, nd) /\ Found(n, nd) /\ mp \in Slots(n)
      /\ f \in Slots(n) /\ ~Taken(nd, f) /\ Taken(nd, mp) /\ prev \in Slots(n)
      /\ nd[prev].next # 0 /\ After(nd, prev) = mp
  BY DEF NewKey, TakesHome, NodesOK, NodesType
<1>2. NodesType(n, new)
  BY <1>1 DEF TakesHome, NodesType
<1>3. Untouched(n, new)
  <2> SUFFICES ASSUME NEW i \in Slots(n)
               PROVE  /\ ~Taken(new, i) => new[i].val = Nil /\ new[i].next = 0
                      /\ new[i].val # Nil => ~new[i].dead
                      /\ After(new, i) \in Slots(n)
                      /\ new[i].next # 0 => Taken(new, After(new, i))
    BY DEF Untouched
  <2>1. CASE i = f
    <3>1. Taken(new, f) /\ ~new[f].dead
      <4>1. Taken(new, f)
        BY TakesHomeSteps
      <4> QED BY <4>1 DEF TakesHome
    <3>2. CASE nd[mp].next = 0
      BY <1>1, <2>1, <3>1, <3>2, TakesHomeSteps
    <3>3. CASE nd[mp].next # 0
      <4>1. After(nd, mp) \in Slots(n) /\ Taken(nd, After(nd, mp))
        BY <1>1, <3>3 DEF Untouched
      <4>2. After(new, f) = After(nd, mp) /\ Taken(new, After(nd, mp))
        BY <3>3, <4>1, TakesHomeSteps
      <4> QED BY <2>1, <3>1, <4>1, <4>2
    <3> QED BY <3>2, <3>3
  <2>2. CASE i = mp
    <3>1. Taken(new, mp) /\ After(new, mp) = mp /\ new[mp].next = 0
      BY TakesHomeSteps
    <3>2. ~new[mp].dead
      BY DEF TakesHome
    <3> QED BY <1>1, <2>2, <3>1, <3>2
  <2>3. CASE i = prev
    <3>1. Taken(new, prev) /\ Taken(new, f) /\ After(new, prev) = f
      BY TakesHomeSteps
    <3>2. new[prev].val # Nil => ~new[prev].dead
      BY <1>1 DEF TakesHome, Untouched
    <3> QED BY <1>1, <2>3, <3>1, <3>2
  <2>4. CASE i \notin {mp, prev, f}
    <3>1. new[i] = nd[i] /\ (~Taken(new, i) => ~Taken(nd, i))
      BY <2>4, TakesHomeSteps DEF TakesHome
    <3> QED BY <1>1, <2>4, <3>1, TakesHomeSteps DEF Untouched
  <2> QED BY <2>1, <2>2, <2>3, <2>4
<1>4. Unjoined(n, new)
  <2>1. ASSUME NEW i \in Slots(n), NEW j \in Slots(n),
               new[i].next # 0, new[j].next # 0, After(new, i) = After(new, j),
               i = prev
        PROVE  i = j
    BY <1>1, <2>1, TakesHomeSteps
  <2>2. ASSUME NEW i \in Slots(n), NEW j \in Slots(n),
               new[i].next # 0, new[j].next # 0, After(new, i) = After(new, j),
               i = f
        PROVE  i = j
    BY <1>1, <2>2, TakesHomeSteps DEF Unjoined
  <2>3. ASSUME NEW i \in Slots(n), NEW j \in Slots(n),
               new[i].next # 0, new[j].next # 0, After(new, i) = After(new, j),
               i \notin {prev, f}, j \notin {prev, f}
        PROVE  i = j
    BY <1>1, <2>3, TakesHomeSteps DEF Unjoined
  <2> QED BY <2>1, <2>2, <2>3 DEF Unjoined
<1>5. AtHome(n, new)
  <2> SUFFICES ASSUME NEW i \in Slots(n), Taken(new, i)
               PROVE  LET p == HomeOf(n, new[i].key)
                      IN  Taken(new, p) /\ HomeOf(n, new[p].key) = p
    BY DEF AtHome
  <2>1. CASE i = mp
    <3>1. new[mp].key = k /\ HomeOf(n, k) = mp
      BY DEF TakesHome, NewKey
    <3> QED BY <2>1, <3>1, TakesHomeSteps
  <2>2. CASE i # mp
    <3>1. PICK o \in Slots(n) : Taken(nd, o) /\ new[i].key = nd[o].key
      <4>1. CASE i = f
        BY <1>1, <4>1 DEF TakesHome
      <4>2. CASE i # f
        BY <2>2, <4>2 DEF TakesHome, Taken
      <4> QED BY <4>1, <4>2
    <3> DEFINE p == HomeOf(n, nd[o].key)
    <3>2. Taken(nd, p) /\ HomeOf(n, nd[p].key) = p
      BY <1>1, <3>1 DEF AtHome
    <3>3. p \in Slots(n)
      BY <1>1, <3>1, TakenKey, HomeType DEF NewKey
    <3>4. p # mp
      BY <3>2 DEF TakesHome
    <3>5. Taken(new, p) /\ new[p].key = nd[p].key
      BY <3>2, <3>3, <3>4, TakesHomeSteps
    <3> QED BY <3>1, <3>2, <3>5
  <2> QED BY <2>1, <2>2
<1>6. Ending(n, new)
  <2>1. PICK rank \in [Slots(n) -> Nat] : Falls(n, nd, rank)
    BY <1>1 DEF Ending
  <2> DEFINE r == [i \in Slots(n) |-> IF i = f THEN rank[mp] ELSE rank[i]]
  <2>2. r \in [Slots(n) -> Nat]
    BY <1>1, <2>1
  <2>3. ASSUME NEW i \in Slots(n), new[i].next # 0
        PROVE  r[After(new, i)] < r[i]
    <3>1. CASE i = mp
      BY <2>3, <3>1, TakesHomeSteps
    <3>2. CASE i = f
      <4> DEFINE s == After(nd, mp)
      <4>1. nd[mp].next # 0 /\ After(new, f) = s /\ s # f /\ s \in Slots(n)
        BY <1>1, <2>3, <3>2, TakesHomeSteps DEF Untouched
      <4>2. rank[s] < rank[mp]
        BY <1>1, <2>1, <4>1 DEF Falls
      <4> QED BY <1>1, <3>2, <4>1, <4>2
    <3>3. CASE i = prev
      <4>1. rank[mp] < rank[prev]
        BY <1>1, <2>1 DEF Falls
      <4> QED BY <1>1, <3>3, <4>1, TakesHomeSteps
    <3>4. CASE i \notin {mp, prev, f}
      <4> DEFINE s == After(nd, i)
      <4>1. nd[i].next # 0 /\ After(new, i) = s /\ s # f /\ s \in Slots(n)
        BY <1>1, <2>3, <3>4, TakesHomeSteps DEF Untouched
      <4>2. rank[s] < rank[i]
        BY <2>1, <4>1 DEF Falls
      <4> QED BY <3>4, <4>1, <4>2
    <3> QED BY <3>1, <3>2, <3>3, <3>4
  <2> HIDE DEF r
  <2>4. Falls(n, new, r)
    BY <2>3 DEF Falls
  <2> QED BY <2>2, <2>4 DEF Ending
<1>7. Found(n, new)
  <2> SUFFICES ASSUME NEW i \in Slots(n), Taken(new, i), ~new[i].dead
               PROVE  Reached(n, new, i)
    BY DEF Found
  <2>1. CASE i = mp
    <3> DEFINE c == [j \in 0 .. 0 |-> mp]
    <3>1. c \in [0 .. 0 -> Slots(n)] /\ c[0] = mp
      BY <1>1
    <3> HIDE DEF c
    <3>2. new[mp].key = k /\ HomeOf(n, k) = mp
      BY DEF TakesHome, NewKey
    <3>3. Leads(n, new, i, c, 0)
      BY <2>1, <3>1, <3>2 DEF Leads, Path
    <3> QED BY <3>1, <3>3 DEF Reached
  <2>2. CASE i = f
    <3>1. ~nd[mp].dead
      BY DEF TakesHome
    <3> QED BY <1>1, <2>2, <3>1, TakesHomeReached
  <2>3. CASE i # mp /\ i # f
    <3>1. Taken(nd, i) /\ ~nd[i].dead
      BY <2>3 DEF TakesHome, Taken
    <3> QED BY <2>3, <3>1, TakesHomeReached
  <2> QED BY <2>1, <2>2, <2>3
<1> QED BY <1>2, <1>3, <1>4, <1>5, <1>6, <1>7 DEF NodesOK

\* What getfreepos answers: a node that was never used, the ones from there
\* on being taken; or that all are taken.
LEMMA FreePosIs ==
  ASSUME NEW h, NEW n \in Nat, n = SizeNode(h), LastOK(h), SizeArray(h) \in Nat
  PROVE  \/ /\ FreePos(h) = -1
            /\ \A i \in Slots(n) : Taken(h.node, i)
         \/ /\ FreePos(h) \in Slots(n) /\ ~Taken(h.node, FreePos(h))
            /\ \A i \in Slots(n) : i > FreePos(h) => Taken(h.node, i)
<1> DEFINE free == {i \in 0 .. h.last - 1 : h.node[i].key = NoKey}
<1>1. /\ h.last \in Int /\ h.last <= n
      /\ \A i \in Slots(n) : i >= h.last => Taken(h.node, i)
  BY DEF LastOK
<1>2. FreePos(h) = IF free = {} THEN -1 ELSE Biggest(free)
  BY DEF FreePos
<1>3. \A i \in free : i \in Int /\ i <= n
  BY <1>1
<1>4. \A i \in free : i \in Slots(n) /\ ~Taken(h.node, i)
  BY <1>1 DEF Slots, Taken
<1>5. \A i \in Slots(n) : ~Taken(h.node, i) => i \in free
  BY <1>1 DEF Slots, Taken
<1> HIDE DEF free
<1>6. CASE free = {}
  BY <1>2, <1>5, <1>6
<1>7. CASE free # {}
  <2>1. Biggest(free) \in free /\ \A i \in free : i <= Biggest(free)
    BY <1>3, <1>7, BiggestOf
  <2>2. FreePos(h) \in free /\ \A i \in free : i <= FreePos(h)
    BY <1>2, <1>7, <2>1
  <2>3. FreePos(h) \in Slots(n) /\ ~Taken(h.node, FreePos(h)) /\ FreePos(h) \in Int
    BY <1>3, <1>4, <2>2
  <2>4. \A i \in Slots(n) : i > FreePos(h) => Taken(h.node, i)
    <3> SUFFICES ASSUME NEW i \in Slots(n), i > FreePos(h), ~Taken(h.node, i)
                 PROVE  FALSE
      OBVIOUS
    <3>1. i \in free
      BY <1>5
    <3>2. i <= FreePos(h) /\ i \in Int
      BY <1>3, <2>2, <3>1
    <3> QED BY <2>3, <3>2
  <2> QED BY <2>3, <2>4
<1> QED BY <1>6, <1>7

\* PlaceKey finds the node before a guest.
LEMMA BeforeIs ==
  ASSUME NEW h, NEW n \in Nat, n = SizeNode(h), NodesOK(n, h.node),
         NEW mp \in Slots(n), Taken(h.node, mp), ~h.node[mp].dead,
         HomeOf(n, h.node[mp].key) # mp
  PROVE  /\ Before(h, mp) \in Slots(n) /\ h.node[Before(h, mp)].next # 0
         /\ After(h.node, Before(h, mp)) = mp
<1> DEFINE nd == h.node
           home == HomeOf(n, nd[mp].key)
           d == ChainFrom(h, home)
           S == {j \in DOMAIN d : d[j] + nd[d[j]].next = mp}
<1>1. Ending(n, nd) /\ Reached(n, nd, mp)
  BY DEF NodesOK, Found
<1>2. PICK m \in Nat : \E c \in [0 .. m -> Slots(n)] : Leads(n, nd, mp, c, m)
  BY <1>1 DEF Reached
<1>3. PICK c \in [0 .. m -> Slots(n)] : Leads(n, nd, mp, c, m)
  BY <1>2
<1>4. Path(n, nd, c, m) /\ c[0] = home /\ c[m] = mp
  BY <1>3 DEF Leads
<1>5. m # 0
  BY <1>4
<1>6. \A j \in 0 .. m : j \in Slots(n) /\ d[j] = c[j]
  BY <1>1, <1>4, ChainFollows
<1>7. DOMAIN d = Slots(n)
  BY ChainStep
<1>8. Before(h, mp) = d[Smallest(S)]
  BY DEF Before, MainPosition, HomeOf
<1>9. \A j \in 0 .. m - 1 : /\ nd[c[j]].next # 0 /\ c[j + 1] = After(nd, c[j])
                            /\ c[j] \in Slots(n)
  BY <1>3, <1>4 DEF Path
<1>10. \A j \in S : j \in Int /\ 0 <= j /\ After(nd, d[j]) = mp
  BY <1>7 DEF Slots, After
<1>11. m - 1 \in S
  <2>1. m - 1 \in 0 .. m - 1 /\ m - 1 \in 0 .. m /\ (m - 1) + 1 = m
    BY <1>5
  <2>2. After(nd, c[m - 1]) = mp
    BY <1>4, <1>9, <2>1
  <2> QED BY <1>6, <1>7, <2>1, <2>2 DEF After
<1> HIDE DEF S, d
<1>12. S # {} /\ \A j \in S : j \in Int /\ 0 <= j
  BY <1>10, <1>11
<1>13. Smallest(S) \in S /\ \A j \in S : Smallest(S) <= j
  BY <1>12, SmallestOf
<1>14. Smallest(S) \in Int /\ 0 <= Smallest(S) /\ Smallest(S) <= m - 1
  BY <1>10, <1>11, <1>13, Zenon
<1>15. Smallest(S) \in 0 .. m - 1 /\ Smallest(S) \in 0 .. m
  BY <1>14
<1>16. d[Smallest(S)] = c[Smallest(S)]
  BY <1>6, <1>15
<1>17. After(nd, d[Smallest(S)]) = mp
  BY <1>10, <1>13, Zenon
<1> QED BY <1>8, <1>9, <1>15, <1>16, <1>17

-----------------------------------------------------------------------------
(* PlaceKey as a whole. *)

\* The parts of a table.
LEMMA TableParts ==
  ASSUME NEW h \in TableType
  PROVE  /\ SizeNode(h) \in Nat /\ h.node \in [Slots(SizeNode(h)) -> NodeType]
         /\ DOMAIN h.node = Slots(SizeNode(h))
         /\ h.array \in Seq(Values \cup {Nil}) /\ SizeArray(h) \in Nat
         /\ h.last \in Int /\ h.nested \in BOOLEAN
<1>1. PICK n \in Nat : h.node \in [Slots(n) -> NodeType]
  BY DEF TableType
<1>2. DOMAIN h.node = Slots(n)
  BY <1>1
<1>3. Cardinality(Slots(n)) = n
  BY FS_Interval DEF Slots
<1>4. SizeNode(h) = n
  BY <1>2, <1>3 DEF SizeNode
<1> QED BY <1>1, <1>2, <1>4 DEF TableType, SizeArray

\* A table with other nodes, as many as before.
NewNodes(h, g, nd, l) == g = [h EXCEPT !.last = l, !.node = nd]

\* What such a table keeps.
LEMMA WithNodes ==
  ASSUME NEW h \in TableType, NEW nd \in [Slots(SizeNode(h)) -> NodeType],
         NEW l \in Int, NEW g, NewNodes(h, g, nd, l)
  PROVE  /\ g \in TableType /\ g.array = h.array /\ g.nested = h.nested
         /\ g.last = l /\ g.node = nd /\ SizeNode(g) = SizeNode(h)
         /\ SizeArray(g) = SizeArray(h)
<1>1. SizeNode(h) \in Nat
  BY TableParts
<1>2. g \in TableType /\ g.array = h.array /\ g.nested = h.nested /\ g.last = l
      /\ g.node = nd
  BY <1>1 DEF TableType, NewNodes
<1>3. DOMAIN g.node = DOMAIN h.node
  BY <1>2, TableParts
<1> QED BY <1>2, <1>3 DEF SizeNode, SizeArray

\* What PlaceKey does: one entry more, the old ones as they were.
SameEntry(a, b) == a.key = b.key /\ a.dead = b.dead /\ a.val = b.val
IsEntry(a, k, v) == a.key = k /\ ~a.dead /\ a.val = v
Placed(h, g, k, v) ==
  /\ g \in TableType /\ g.array = h.array /\ g.nested = h.nested
  /\ SizeNode(g) = SizeNode(h) /\ NodesOK(SizeNode(g), g.node) /\ LastOK(g)
  /\ \A i \in Slots(SizeNode(h)) : Taken(g.node, i) =>
       \/ IsEntry(g.node[i], k, v)
       \/ \E j \in Slots(SizeNode(h)) :
            Taken(h.node, j) /\ SameEntry(g.node[i], h.node[j])
  /\ \A j \in Slots(SizeNode(h)) : h.node[j].val # Nil =>
       \E i \in Slots(SizeNode(h)) : SameEntry(g.node[i], h.node[j])
  /\ \E i \in Slots(SizeNode(h)) : IsEntry(g.node[i], k, v)

\* There is room for k, which is not there yet.
Roomy(h, k) ==
  /\ h \in TableType /\ LastOK(h) /\ NewKey(SizeNode(h), h.node, k, MainPosition(h, k))
  /\ h.node[MainPosition(h, k)].val = Nil \/ FreePos(h) # -1

\* The main position holds no value.
LEMMA PlaceKeyFills ==
  ASSUME NEW h, NEW k, NEW v \in Values \cup {Nil}, Roomy(h, k),
         h.node[MainPosition(h, k)].val = Nil
  PROVE  Placed(h, PlaceKey(h, k, v), k, v)
<1> DEFINE n == SizeNode(h)
           mp == MainPosition(h, k)
           e == [key |-> k, dead |-> FALSE, val |-> v, next |-> h.node[mp].next]
           nd == [h.node EXCEPT ![mp] = e]
           g == PlaceKey(h, k, v)
<1>1. h \in TableType /\ LastOK(h) /\ NewKey(n, h.node, k, mp)
  BY DEF Roomy
<1>2. g = [h EXCEPT !.node[mp] = e]
  BY Zenon DEF PlaceKey, Roomy
<1> HIDE DEF e
<1>4. NewNodes(h, g, nd, h.last)
  <2>1. g = [h EXCEPT !.node = nd]
    BY <1>2, Zenon
  <2> QED BY <1>1, <2>1 DEF TableType, NewNodes
<1>5. n \in Nat /\ h.node \in [Slots(n) -> NodeType] /\ h.last \in Int
      /\ k \in Keys /\ mp \in Slots(n)
  BY <1>1, TableParts DEF NewKey
<1>6. h.node[mp] \in NodeType
  BY <1>5
<1>7. e \in NodeType
  BY <1>5, <1>6 DEF NodeType, e
<1> HIDE DEF g
<1>8. nd \in [Slots(n) -> NodeType] /\ nd[mp] = e
      /\ \A i \in Slots(n) : i # mp => nd[i] = h.node[i]
  BY <1>5, <1>7
<1> HIDE DEF nd
<1>9. e.key = k /\ ~e.dead /\ e.val = v /\ e.next = h.node[mp].next
  BY DEF e
<1>10. FillsHome(n, h.node, nd, k, mp)
  BY <1>8, <1>9 DEF FillsHome
<1>11. NodesOK(n, nd)
  BY <1>1, <1>10, FillsHomeOK
<1>12. /\ g \in TableType /\ g.array = h.array /\ g.nested = h.nested
       /\ g.last = h.last /\ g.node = nd /\ SizeNode(g) = n
       /\ SizeArray(g) = SizeArray(h)
  BY <1>1, <1>4, <1>5, <1>8, WithNodes
<1>13. LastOK(g)
  <2>1. Taken(nd, mp)
    BY <1>1, <1>8, <1>9 DEF Taken, NewKey
  <2> QED BY <1>1, <1>8, <1>12, <2>1 DEF LastOK, Taken
<1>14. \A i \in Slots(n) : Taken(nd, i) =>
         \/ IsEntry(nd[i], k, v)
         \/ \E j \in Slots(n) : Taken(h.node, j) /\ SameEntry(nd[i], h.node[j])
  BY <1>8, <1>9 DEF IsEntry, SameEntry, Taken
<1>15. \A j \in Slots(n) : h.node[j].val # Nil =>
         \E i \in Slots(n) : SameEntry(nd[i], h.node[j])
  BY <1>8 DEF SameEntry, Roomy
<1>16. \E i \in Slots(n) : IsEntry(nd[i], k, v)
  BY <1>5, <1>8, <1>9 DEF IsEntry
<1> HIDE DEF mp
<1> QED BY <1>5, <1>11, <1>12, <1>13, <1>14, <1>15, <1>16 DEF Placed, n, g

\* The offset that newkey computes for the node at the free position.
LEMMA BehindIs ==
  ASSUME NEW h, NEW mp, NEW f
  PROVE  Behind(h, mp, f, 0) = IF h.node[mp].next = 0 THEN 0 ELSE After(h.node, mp) - f
BY DEF Behind, After

\* The lemmas about the other two cases share what follows.
LEMMA PlaceKeyStart ==
  ASSUME NEW h, NEW k, NEW v \in Values \cup {Nil}, Roomy(h, k),
         h.node[MainPosition(h, k)].val # Nil
  PROVE  LET n == SizeNode(h)
             mp == MainPosition(h, k)
             f == FreePos(h)
         IN  /\ h \in TableType /\ LastOK(h) /\ NewKey(n, h.node, k, mp)
             /\ n \in Nat /\ h.node \in [Slots(n) -> NodeType]
             /\ k \in Keys /\ mp \in Slots(n) /\ f \in Slots(n) /\ ~Taken(h.node, f)
             /\ Taken(h.node, mp) /\ ~h.node[mp].dead
             /\ \A i \in Slots(n) : i > f => Taken(h.node, i)
             /\ f # mp /\ Behind(h, mp, f, 0) \in Int /\ mp \in Int /\ f \in Int
             /\ h.node[mp].key \in Keys /\ h.node[mp].val \in Values \cup {Nil}
             /\ MainPosition(h, h.node[mp].key) = HomeOf(n, h.node[mp].key)
<1> DEFINE n == SizeNode(h)
           mp == MainPosition(h, k)
           f == FreePos(h)
<1>1. h \in TableType /\ LastOK(h) /\ NewKey(n, h.node, k, mp) /\ f # -1
  BY DEF Roomy
<1>2. n \in Nat /\ h.node \in [Slots(n) -> NodeType] /\ SizeArray(h) \in Nat
  BY <1>1, TableParts
<1>3. k \in Keys /\ mp \in Slots(n) /\ NodesOK(n, h.node)
  BY <1>1 DEF NewKey
<1>4. f \in Slots(n) /\ ~Taken(h.node, f) /\ \A i \in Slots(n) : i > f => Taken(h.node, i)
  BY <1>1, <1>2, FreePosIs
<1>5. Taken(h.node, mp) /\ ~h.node[mp].dead
  BY <1>3 DEF NodesOK, Untouched
<1>6. h.node[mp] \in NodeType /\ mp \in Int /\ f \in Int
  BY <1>2, <1>3, <1>4 DEF Slots
<1>7. Behind(h, mp, f, 0) \in Int
  BY <1>6 DEF Behind, NodeType
<1>8. h.node[mp].key \in Keys /\ h.node[mp].val \in Values \cup {Nil}
  BY <1>5, <1>6 DEF Taken, NodeType
<1> QED BY <1>1, <1>2, <1>3, <1>4, <1>5, <1>6, <1>7, <1>8 DEF MainPosition, HomeOf

\* A guest moves out.
LEMMA PlaceKeyTakes ==
  ASSUME NEW h, NEW k, NEW v \in Values \cup {Nil}, Roomy(h, k),
         h.node[MainPosition(h, k)].val # Nil,
         MainPosition(h, h.node[MainPosition(h, k)].key) # MainPosition(h, k)
  PROVE  Placed(h, PlaceKey(h, k, v), k, v)
<1> DEFINE n == SizeNode(h)
           mp == MainPosition(h, k)
           f == FreePos(h)
           prev == Before(h, mp)
           e == [key |-> k, dead |-> FALSE, val |-> v, next |-> 0]
           moved == [h.node[mp] EXCEPT !.next = Behind(h, mp, f, 0)]
           nd == [h.node EXCEPT ![prev].next = f - prev, ![f] = moved, ![mp] = e]
           g == PlaceKey(h, k, v)
<1>1. /\ h \in TableType /\ LastOK(h) /\ NewKey(n, h.node, k, mp)
      /\ n \in Nat /\ h.node \in [Slots(n) -> NodeType]
      /\ k \in Keys /\ mp \in Slots(n) /\ f \in Slots(n) /\ ~Taken(h.node, f)
      /\ Taken(h.node, mp) /\ ~h.node[mp].dead
      /\ \A i \in Slots(n) : i > f => Taken(h.node, i)
      /\ f # mp /\ Behind(h, mp, f, 0) \in Int /\ mp \in Int /\ f \in Int
      /\ h.node[mp].key \in Keys /\ h.node[mp].val \in Values \cup {Nil}
      /\ MainPosition(h, h.node[mp].key) = HomeOf(n, h.node[mp].key)
  BY PlaceKeyStart
<1>2. g = [h EXCEPT !.last = f, !.node = nd]
  BY Zenon DEF PlaceKey
<1>3. NewNodes(h, g, nd, f)
  BY <1>2, Zenon DEF NewNodes
<1>4. NodesOK(n, h.node) /\ HomeOf(n, h.node[mp].key) # mp
  BY <1>1 DEF NewKey
<1>5. prev \in Slots(n) /\ h.node[prev].next # 0 /\ After(h.node, prev) = mp
  BY <1>1, <1>4, BeforeIs
<1>6. prev # f /\ prev # mp /\ prev \in Int
  <2>1. h.node[f].next = 0
    BY <1>1, <1>4 DEF NodesOK, Untouched
  <2>2. h.node[prev].next \in Int /\ prev \in Int
    BY <1>1, <1>5 DEF NodeType, Slots
  <2> HIDE DEF prev
  <2> QED BY <1>1, <1>5, <2>1, <2>2 DEF After
<1>7. e \in NodeType /\ moved \in NodeType
  BY <1>1 DEF NodeType
<1>8. [h.node[prev] EXCEPT !.next = f - prev] \in NodeType
  BY <1>1, <1>5, <1>6 DEF NodeType
<1>9. e.key = k /\ ~e.dead /\ e.val = v /\ e.next = 0
  OBVIOUS
<1>10. /\ moved.key = h.node[mp].key /\ moved.dead = h.node[mp].dead
       /\ moved.val = h.node[mp].val /\ moved.next = Behind(h, mp, f, 0)
  BY <1>1 DEF NodeType
<1> HIDE DEF e, moved, prev, g
<1>11. /\ nd \in [Slots(n) -> NodeType] /\ nd[mp] = e /\ nd[f] = moved
       /\ nd[prev] = [h.node[prev] EXCEPT !.next = f - prev]
       /\ \A i \in Slots(n) : i \notin {mp, prev, f} => nd[i] = h.node[i]
  BY <1>1, <1>5, <1>6, <1>7, <1>8
<1> HIDE DEF nd
<1>12. /\ nd[prev].key = h.node[prev].key /\ nd[prev].dead = h.node[prev].dead
       /\ nd[prev].val = h.node[prev].val /\ nd[prev].next = f - prev
  BY <1>1, <1>5, <1>11 DEF NodeType
<1>13. TakesHome(n, h.node, nd, k, mp, prev, f)
  <2>1. nd[f].next = IF h.node[mp].next = 0 THEN 0 ELSE After(h.node, mp) - f
    BY <1>10, <1>11, BehindIs
  <2>2. nd[f].key = h.node[mp].key /\ ~nd[f].dead
    BY <1>1, <1>10, <1>11
  <2>3. nd[mp].key = k /\ ~nd[mp].dead /\ nd[mp].next = 0
    BY <1>9, <1>11
  <2> QED BY <1>1, <1>4, <1>5, <1>11, <1>12, <2>1, <2>2, <2>3 DEF TakesHome
<1>14. NodesOK(n, nd)
  BY <1>1, <1>13, TakesHomeOK
<1>15. /\ g \in TableType /\ g.array = h.array /\ g.nested = h.nested
       /\ g.last = f /\ g.node = nd /\ SizeNode(g) = n
       /\ SizeArray(g) = SizeArray(h)
  BY <1>1, <1>3, <1>11, WithNodes
<1>16. LastOK(g)
  <2>1. \A i \in Slots(n) : i >= f => Taken(nd, i)
    <3>1. Taken(nd, f) /\ \A i \in Slots(n) : Taken(h.node, i) => Taken(nd, i)
      BY <1>1, <1>13, TakesHomeSteps
    <3> QED BY <1>1, <3>1 DEF Slots
  <2>2. f <= n /\ 0 <= f /\ SizeArray(h) \in Nat
    BY <1>1, TableParts DEF Slots
  <2> QED BY <1>1, <1>15, <2>1, <2>2 DEF LastOK
<1>17. \A i \in Slots(n) : Taken(nd, i) =>
         \/ IsEntry(nd[i], k, v)
         \/ \E j \in Slots(n) : Taken(h.node, j) /\ SameEntry(nd[i], h.node[j])
  <2> TAKE i \in Slots(n)
  <2> HAVE Taken(nd, i)
  <2>1. CASE i = mp
    BY <1>9, <1>11, <2>1 DEF IsEntry
  <2>2. CASE i = f
    BY <1>1, <1>10, <1>11, <2>2 DEF SameEntry
  <2>3. CASE i # mp /\ i # f
    <3>1. SameEntry(nd[i], h.node[i])
      BY <1>11, <1>12, <2>3 DEF SameEntry
    <3> QED BY <3>1 DEF SameEntry, Taken
  <2> QED BY <2>1, <2>2, <2>3
<1>18. \A j \in Slots(n) : h.node[j].val # Nil =>
         \E i \in Slots(n) : SameEntry(nd[i], h.node[j])
  <2> TAKE j \in Slots(n)
  <2> HAVE h.node[j].val # Nil
  <2>1. CASE j = mp
    BY <1>1, <1>10, <1>11, <2>1 DEF SameEntry
  <2>2. CASE j # mp
    <3>1. j # f
      BY <1>1, <1>4 DEF NodesOK, Untouched
    <3>2. SameEntry(nd[j], h.node[j])
      BY <1>11, <1>12, <2>2, <3>1 DEF SameEntry
    <3> QED BY <3>2
  <2> QED BY <2>1, <2>2
<1>19. \E i \in Slots(n) : IsEntry(nd[i], k, v)
  BY <1>1, <1>9, <1>11 DEF IsEntry
<1> HIDE DEF mp
<1> QED BY <1>14, <1>15, <1>16, <1>17, <1>18, <1>19 DEF Placed, n, g

\* The node at the main position is at home.
LEMMA PlaceKeyFollows ==
  ASSUME NEW h, NEW k, NEW v \in Values \cup {Nil}, Roomy(h, k),
         h.node[MainPosition(h, k)].val # Nil,
         MainPosition(h, h.node[MainPosition(h, k)].key) = MainPosition(h, k)
  PROVE  Placed(h, PlaceKey(h, k, v), k, v)
<1> DEFINE n == SizeNode(h)
           mp == MainPosition(h, k)
           f == FreePos(h)
           e == [key |-> k, dead |-> FALSE, val |-> v,
                 next |-> Behind(h, mp, f, h.node[f].next)]
           nd == [h.node EXCEPT ![f] = e, ![mp].next = f - mp]
           g == PlaceKey(h, k, v)
<1>1. /\ h \in TableType /\ LastOK(h) /\ NewKey(n, h.node, k, mp)
      /\ n \in Nat /\ h.node \in [Slots(n) -> NodeType]
      /\ k \in Keys /\ mp \in Slots(n) /\ f \in Slots(n) /\ ~Taken(h.node, f)
      /\ Taken(h.node, mp) /\ ~h.node[mp].dead
      /\ \A i \in Slots(n) : i > f => Taken(h.node, i)
      /\ f # mp /\ Behind(h, mp, f, 0) \in Int /\ mp \in Int /\ f \in Int
      /\ h.node[mp].key \in Keys /\ h.node[mp].val \in Values \cup {Nil}
      /\ MainPosition(h, h.node[mp].key) = HomeOf(n, h.node[mp].key)
  BY PlaceKeyStart
<1>2. g = [h EXCEPT !.last = f, !.node = nd]
  BY Zenon DEF PlaceKey
<1>3. NewNodes(h, g, nd, f)
  BY <1>2, Zenon DEF NewNodes
<1>4. NodesOK(n, h.node) /\ HomeOf(n, h.node[mp].key) = mp
  BY <1>1 DEF NewKey
<1>5. h.node[f].next = 0
  BY <1>1, <1>4 DEF NodesOK, Untouched
<1>6. e.key = k /\ ~e.dead /\ e.val = v /\ e.next = Behind(h, mp, f, 0)
  BY <1>5
<1>7. e \in NodeType
  BY <1>1, <1>5, SMTT(30) DEF NodeType
<1>8. [h.node[mp] EXCEPT !.next = f - mp] \in NodeType
  BY <1>1, SMTT(30) DEF NodeType
<1> HIDE DEF e, g
<1>9. /\ nd \in [Slots(n) -> NodeType] /\ nd[f] = e
      /\ nd[mp] = [h.node[mp] EXCEPT !.next = f - mp]
      /\ \A i \in Slots(n) : i # mp /\ i # f => nd[i] = h.node[i]
  BY <1>1, <1>7, <1>8, SMTT(30)
<1> HIDE DEF nd
<1>10. /\ nd[mp].key = h.node[mp].key /\ nd[mp].dead = h.node[mp].dead
       /\ nd[mp].val = h.node[mp].val /\ nd[mp].next = f - mp
  BY <1>1, <1>9 DEF NodeType
<1>11. FollowsHome(n, h.node, nd, k, mp, f)
  <2>1. nd[f].next = IF h.node[mp].next = 0 THEN 0 ELSE After(h.node, mp) - f
    BY <1>6, <1>9, BehindIs
  <2>2. nd[f].key = k /\ ~nd[f].dead
    BY <1>6, <1>9
  <2> QED BY <1>1, <1>4, <1>9, <1>10, <2>1, <2>2 DEF FollowsHome
<1>12. NodesOK(n, nd)
  BY <1>1, <1>11, FollowsHomeOK, SMTT(30)
<1>13. /\ g \in TableType /\ g.array = h.array /\ g.nested = h.nested
       /\ g.last = f /\ g.node = nd /\ SizeNode(g) = n
       /\ SizeArray(g) = SizeArray(h)
  BY <1>1, <1>3, <1>9, WithNodes
<1>14. LastOK(g)
  <2>1. \A i \in Slots(n) : i >= f => Taken(nd, i)
    <3>1. Taken(nd, f) /\ \A i \in Slots(n) : Taken(h.node, i) => Taken(nd, i)
      BY <1>1, <1>11, FollowsHomeSteps
    <3> QED BY <1>1, <3>1, SMTT(30) DEF Slots
  <2>2. f <= n /\ 0 <= f /\ SizeArray(h) \in Nat
    BY <1>1, TableParts DEF Slots
  <2> QED BY <1>1, <1>13, <2>1, <2>2 DEF LastOK
<1>15. \A i \in Slots(n) : Taken(nd, i) =>
         \/ IsEntry(nd[i], k, v)
         \/ \E j \in Slots(n) : Taken(h.node, j) /\ SameEntry(nd[i], h.node[j])
  <2> TAKE i \in Slots(n)
  <2> HAVE Taken(nd, i)
  <2>1. CASE i = f
    BY <1>6, <1>9, <2>1 DEF IsEntry
  <2>2. CASE i # f
    <3>1. SameEntry(nd[i], h.node[i])
      BY <1>9, <1>10, <2>2 DEF SameEntry
    <3> QED BY <3>1 DEF SameEntry, Taken
  <2> QED BY <2>1, <2>2
<1>16. \A j \in Slots(n) : h.node[j].val # Nil =>
         \E i \in Slots(n) : SameEntry(nd[i], h.node[j])
  <2> TAKE j \in Slots(n)
  <2> HAVE h.node[j].val # Nil
  <2>1. j # f
    BY <1>1, <1>4 DEF NodesOK, Untouched
  <2>2. SameEntry(nd[j], h.node[j])
    BY <1>9, <1>10, <2>1 DEF SameEntry
  <2> QED BY <2>2
<1>17. \E i \in Slots(n) : IsEntry(nd[i], k, v)
  BY <1>1, <1>6, <1>9 DEF IsEntry
<1> HIDE DEF mp
<1> QED BY <1>12, <1>13, <1>14, <1>15, <1>16, <1>17 DEF Placed, n, g

\* The three cases together.
LEMMA PlaceKeyOK ==
  ASSUME NEW h, NEW k, NEW v \in Values \cup {Nil}, Roomy(h, k)
  PROVE  Placed(h, PlaceKey(h, k, v), k, v)
BY PlaceKeyFills, PlaceKeyTakes, PlaceKeyFollows

-----------------------------------------------------------------------------
(* Steps that leave the chains alone. *)

\* Values and dead marks may change.
LEMMA RelabelOK ==
  ASSUME NEW n, NEW nd, NEW new, NodesOK(n, nd), NodesType(n, new),
         \A i \in Slots(n) : /\ new[i].key = nd[i].key /\ new[i].next = nd[i].next
                             /\ ~new[i].dead => ~nd[i].dead
                             /\ new[i].val # Nil => ~new[i].dead /\ Taken(nd, i)
  PROVE  NodesOK(n, new)
<1> USE DEF NodesOK
<1>1. \A i \in Slots(n) : /\ After(new, i) = After(nd, i)
                          /\ Taken(new, i) <=> Taken(nd, i)
  BY DEF After, Taken
<1>2. Untouched(n, new)
  BY <1>1 DEF Untouched
<1>3. Unjoined(n, new)
  BY <1>1 DEF Unjoined
<1>4. AtHome(n, new)
  <2> SUFFICES ASSUME NEW i \in Slots(n), Taken(new, i)
               PROVE  LET p == HomeOf(n, new[i].key)
                      IN  Taken(new, p) /\ HomeOf(n, new[p].key) = p
    BY DEF AtHome
  <2> DEFINE p == HomeOf(n, nd[i].key)
  <2>1. Taken(nd, p) /\ HomeOf(n, nd[p].key) = p
    BY <1>1 DEF AtHome
  <2>2. p \in Slots(n)
    BY <1>1, TakenKey, HomeType, SMTT(30) DEF NodesType, Slots
  <2> QED BY <1>1, <2>1, <2>2
<1>5. Ending(n, new)
  BY <1>1 DEF Ending, Falls
<1>6. Found(n, new)
  <2> SUFFICES ASSUME NEW i \in Slots(n), Taken(new, i), ~new[i].dead
               PROVE  Reached(n, new, i)
    BY DEF Found
  <2>1. PICK m \in Nat : \E c \in [0 .. m -> Slots(n)] : Leads(n, nd, i, c, m)
    BY <1>1 DEF Found, Reached
  <2>2. PICK c \in [0 .. m -> Slots(n)] : Leads(n, nd, i, c, m)
    BY <2>1
  <2>3. Leads(n, new, i, c, m)
    BY <1>1, <2>2 DEF Leads, Path
  <2> QED BY <2>3 DEF Reached
<1> QED BY <1>2, <1>3, <1>4, <1>5, <1>6

\* Nodes that were never used.
LEMMA EmptyNodesOK ==
  ASSUME NEW n \in Nat
  PROVE  NodesOK(n, [i \in Slots(n) |-> EmptyNode])
<1> DEFINE nd == [i \in Slots(n) |-> EmptyNode]
<1>1. /\ EmptyNode \in NodeType /\ EmptyNode.key = NoKey /\ EmptyNode.val = Nil
      /\ EmptyNode.next = 0
  BY DEF EmptyNode, NodeType
<1>2. NodesType(n, nd)
  BY <1>1 DEF NodesType
<1>3. \A i \in Slots(n) : nd[i] = EmptyNode /\ i \in Int
  BY DEF Slots
<1> HIDE DEF nd
<1>4. \A i \in Slots(n) : ~Taken(nd, i) /\ nd[i].next = 0 /\ After(nd, i) = i
  BY <1>1, <1>3 DEF Taken, After
<1>5. Untouched(n, nd) /\ Unjoined(n, nd) /\ AtHome(n, nd) /\ Found(n, nd)
  BY <1>1, <1>3, <1>4 DEF Untouched, Unjoined, AtHome, Found
<1>6. Ending(n, nd)
  <2>1. [i \in Slots(n) |-> 0] \in [Slots(n) -> Nat]
    OBVIOUS
  <2>2. Falls(n, nd, [i \in Slots(n) |-> 0])
    BY <1>4 DEF Falls
  <2> QED BY <2>1, <2>2 DEF Ending
<1> QED BY <1>2, <1>5, <1>6 DEF NodesOK, nd

\* A new table.
LEMMA NewTableIs ==
  ASSUME NEW na \in Nat, NEW nh \in Nat
  PROVE  LET g == NewTable(na, nh)
         IN  /\ TableOK(g) /\ SizeArray(g) = na /\ SizeNode(g) = PowerAtLeast(nh)
             /\ \A i \in Slots(SizeNode(g)) : ~Taken(g.node, i)
             /\ g.array = [i \in 1 .. na |-> Nil] /\ ~g.nested
             /\ g.last = SizeNode(g)
<1> DEFINE g == NewTable(na, nh)
           n == PowerAtLeast(nh)
<1>1. n \in Nat
  BY PowerAtLeastIs
<1>2. /\ g.array = [i \in 1 .. na |-> Nil] /\ g.last = n /\ g.nested = FALSE
      /\ g.node = [i \in Slots(n) |-> EmptyNode]
  BY DEF NewTable, NodeVector, Slots
<1>3. EmptyNode \in NodeType /\ EmptyNode.key = NoKey
  BY DEF EmptyNode, NodeType
<1>4. g.array \in Seq(Values \cup {Nil}) /\ Len(g.array) = na
  BY <1>2
<1>5. g.node \in [Slots(n) -> NodeType]
  BY <1>2, <1>3
<1>6. g \in TableType
  <2>1. g = [array |-> g.array, node |-> g.node, last |-> n, nested |-> FALSE]
    BY <1>2 DEF NewTable
  <2> HIDE DEF g, n
  <2>2. g.node \in UNION {[Slots(m) -> NodeType] : m \in Nat}
    BY <1>1, <1>5
  <2>3. n \in Int
    BY <1>1
  <2>4. [array |-> g.array, node |-> g.node, last |-> n, nested |-> FALSE] \in TableType
    BY <1>4, <2>2, <2>3 DEF TableType
  <2> QED BY <2>1, <2>4, Zenon
<1>7. SizeArray(g) = na /\ SizeNode(g) = n
  <2>1. DOMAIN g.node = Slots(n)
    BY <1>5
  <2>2. Cardinality(Slots(n)) = n
    BY <1>1, FS_Interval DEF Slots
  <2> QED BY <1>4, <2>1, <2>2 DEF SizeArray, SizeNode
<1>8. NodesOK(n, g.node)
  BY <1>1, <1>2, EmptyNodesOK
<1>9. \A i \in Slots(n) : ~Taken(g.node, i)
  BY <1>2, <1>3 DEF Taken
<1> HIDE DEF g, n
<1>10. LastOK(g) /\ Apart(g)
  <2>1. n \in -na .. n /\ \A i \in Slots(n) : ~(i >= n)
    BY <1>1 DEF Slots
  <2> QED BY <1>2, <1>7, <1>9, <2>1 DEF LastOK, Apart
<1>11. ArrayKeys(g)
  BY <1>2, <1>7 DEF ArrayKeys
<1> QED BY <1>2, <1>6, <1>7, <1>8, <1>9, <1>10, <1>11 DEF TableOK, g, n

\* A table whose array part or nodes are replaced, one by one.
LEMMA ArrayOK ==
  ASSUME NEW h, TableOK(h), NEW a \in Seq(Values \cup {Nil}), Len(a) = SizeArray(h),
         \A i \in 1 .. Len(a) : a[i] # Nil => i \in IntKeys
  PROVE  /\ TableOK([h EXCEPT !.array = a])
         /\ SizeArray([h EXCEPT !.array = a]) = SizeArray(h)
         /\ SizeNode([h EXCEPT !.array = a]) = SizeNode(h)
         /\ [h EXCEPT !.array = a].node = h.node
         /\ [h EXCEPT !.array = a].array = a
<1> DEFINE g == [h EXCEPT !.array = a]
<1>1. h \in TableType
  BY DEF TableOK
<1>2. /\ g \in TableType /\ g.array = a /\ g.node = h.node /\ g.last = h.last
      /\ g.nested = h.nested
  BY <1>1 DEF TableType
<1> HIDE DEF g
<1>3. SizeArray(g) = SizeArray(h) /\ SizeNode(g) = SizeNode(h)
  BY <1>2 DEF SizeArray, SizeNode
<1>4. LastOK(g) /\ Apart(g) /\ ArrayKeys(g)
  BY <1>2, <1>3 DEF TableOK, LastOK, Apart, ArrayKeys, SizeArray
<1>5. TableOK(g)
  BY <1>2, <1>3, <1>4 DEF TableOK
<1> QED BY <1>2, <1>3, <1>5 DEF g

\* The same for the union word, when no node is free.
LEMMA WordOK ==
  ASSUME NEW h, TableOK(h), NEW l \in -SizeArray(h) .. SizeNode(h),
         \A i \in Slots(SizeNode(h)) : i >= l => Taken(h.node, i)
  PROVE  /\ TableOK([h EXCEPT !.last = l])
         /\ SizeArray([h EXCEPT !.last = l]) = SizeArray(h)
         /\ SizeNode([h EXCEPT !.last = l]) = SizeNode(h)
         /\ [h EXCEPT !.last = l].node = h.node
         /\ [h EXCEPT !.last = l].array = h.array
<1> DEFINE g == [h EXCEPT !.last = l]
<1>1. h \in TableType /\ l \in Int
  BY TableParts DEF TableOK
<1>2. /\ g \in TableType /\ g.array = h.array /\ g.node = h.node /\ g.last = l
      /\ g.nested = h.nested
  BY <1>1 DEF TableType
<1> HIDE DEF g
<1>3. SizeArray(g) = SizeArray(h) /\ SizeNode(g) = SizeNode(h)
  BY <1>2 DEF SizeArray, SizeNode
<1>4. LastOK(g) /\ Apart(g) /\ ArrayKeys(g)
  BY <1>2, <1>3 DEF TableOK, LastOK, Apart, ArrayKeys, SizeArray
<1>5. TableOK(g)
  BY <1>2, <1>3, <1>4 DEF TableOK
<1> QED BY <1>2, <1>3, <1>5 DEF g

\* The same for values and dead marks of nodes.
LEMMA LabelsOK ==
  ASSUME NEW h, TableOK(h), NEW nd \in [Slots(SizeNode(h)) -> NodeType],
         \A i \in Slots(SizeNode(h)) :
           /\ nd[i].key = h.node[i].key /\ nd[i].next = h.node[i].next
           /\ ~nd[i].dead => ~h.node[i].dead
           /\ nd[i].val # Nil => ~nd[i].dead /\ Taken(h.node, i)
  PROVE  LET g == [h EXCEPT !.node = nd]
         IN  /\ TableOK(g) /\ SizeArray(g) = SizeArray(h) /\ SizeNode(g) = SizeNode(h)
             /\ g.node = nd /\ g.array = h.array
<1> DEFINE g == [h EXCEPT !.node = nd]
<1>1. h \in TableType /\ SizeNode(h) \in Nat /\ h.last \in Int
  BY TableParts DEF TableOK
<1>2. NewNodes(h, g, nd, h.last)
  BY <1>1 DEF NewNodes, TableType
<1> HIDE DEF g
<1>3. /\ g \in TableType /\ g.array = h.array /\ g.nested = h.nested
      /\ g.last = h.last /\ g.node = nd /\ SizeNode(g) = SizeNode(h)
      /\ SizeArray(g) = SizeArray(h)
  BY <1>1, <1>2, WithNodes
<1>4. NodesOK(SizeNode(h), nd)
  <2>1. NodesType(SizeNode(h), nd) /\ NodesOK(SizeNode(h), h.node)
    BY <1>1 DEF NodesType, TableOK
  <2> QED BY <2>1, RelabelOK
<1>5. LastOK(g) /\ Apart(g) /\ ArrayKeys(g)
  BY <1>3 DEF TableOK, LastOK, Apart, ArrayKeys, SizeArray, Taken
<1>6. TableOK(g)
  BY <1>3, <1>4, <1>5 DEF TableOK
<1> QED BY <1>3, <1>6 DEF g

\* A store into the array part.
LEMMA StoreArrayOK ==
  ASSUME NEW h, TableOK(h), NEW i \in 1 .. SizeArray(h), i \in IntKeys,
         NEW v \in Values \cup {Nil}
  PROVE  LET g == [h EXCEPT !.array[i] = v]
         IN  /\ TableOK(g) /\ SizeArray(g) = SizeArray(h) /\ SizeNode(g) = SizeNode(h)
             /\ g.node = h.node /\ g.array = [h.array EXCEPT ![i] = v]
<1> DEFINE a == [h.array EXCEPT ![i] = v]
           g == [h EXCEPT !.array[i] = v]
<1>1. h \in TableType /\ ArrayKeys(h) /\ h.array \in Seq(Values \cup {Nil})
  BY TableParts DEF TableOK
<1>2. g = [h EXCEPT !.array = a]
  BY Zenon
<1>3. a \in Seq(Values \cup {Nil}) /\ Len(a) = SizeArray(h)
  BY <1>1 DEF SizeArray
<1>4. \A j \in 1 .. Len(a) : a[j] # Nil => j \in IntKeys
  BY <1>1, <1>3 DEF ArrayKeys, SizeArray
<1> HIDE DEF a, g
<1>5. TableOK(g) /\ SizeArray(g) = SizeArray(h) /\ SizeNode(g) = SizeNode(h)
      /\ g.node = h.node /\ g.array = a
  BY <1>2, <1>3, <1>4, ArrayOK
<1> QED BY <1>5 DEF a, g

\* A store into a living node.
LEMMA StoreNodeOK ==
  ASSUME NEW h, TableOK(h), NEW i \in Slots(SizeNode(h)),
         Taken(h.node, i), ~h.node[i].dead, NEW v \in Values \cup {Nil}
  PROVE  LET g == [h EXCEPT !.node[i].val = v]
         IN  /\ TableOK(g) /\ SizeArray(g) = SizeArray(h) /\ SizeNode(g) = SizeNode(h)
             /\ g.node = [h.node EXCEPT ![i].val = v] /\ g.array = h.array
<1> DEFINE nd == [h.node EXCEPT ![i].val = v]
           g == [h EXCEPT !.node[i].val = v]
<1>1. h \in TableType /\ h.node \in [Slots(SizeNode(h)) -> NodeType]
      /\ NodesOK(SizeNode(h), h.node)
  BY TableParts DEF TableOK
<1>2. g = [h EXCEPT !.node = nd]
  BY Zenon
<1>3. h.node[i] \in NodeType
  BY <1>1
<1>4. [h.node[i] EXCEPT !.val = v] \in NodeType
  BY <1>3 DEF NodeType
<1>5. nd \in [Slots(SizeNode(h)) -> NodeType]
  BY <1>1, <1>4
<1>6. \A j \in Slots(SizeNode(h)) :
        /\ nd[j].key = h.node[j].key /\ nd[j].next = h.node[j].next
        /\ ~nd[j].dead => ~h.node[j].dead
        /\ nd[j].val # Nil => ~nd[j].dead /\ Taken(h.node, j)
  <2> TAKE j \in Slots(SizeNode(h))
  <2>1. CASE j = i
    BY <1>1, <1>3, <2>1 DEF NodeType
  <2>2. CASE j # i
    BY <1>1, <2>2 DEF NodesOK, Untouched
  <2> QED BY <2>1, <2>2
<1> HIDE DEF nd, g
<1>7. TableOK(g) /\ SizeArray(g) = SizeArray(h) /\ SizeNode(g) = SizeNode(h)
      /\ g.node = nd /\ g.array = h.array
  BY <1>2, <1>5, <1>6, LabelsOK
<1> QED BY <1>7 DEF nd, g

-----------------------------------------------------------------------------
(* Calls that leave every entry in its place. *)

\* The collector's marks.
LEMMA DeadKeysOK ==
  ASSUME NEW h, TableOK(h)
  PROVE  /\ TableOK(DeadKeys(h)) /\ SizeArray(DeadKeys(h)) = SizeArray(h)
         /\ SizeNode(DeadKeys(h)) = SizeNode(h) /\ DeadKeys(h).array = h.array
         /\ \A j \in Slots(SizeNode(h)) :
              /\ DeadKeys(h).node[j].key = h.node[j].key
              /\ DeadKeys(h).node[j].val = h.node[j].val
              /\ DeadKeys(h).node[j].next = h.node[j].next
<1> DEFINE swept(n) == IF n.val = Nil /\ n.key \in ObjKeys
                         THEN [n EXCEPT !.dead = TRUE] ELSE n
           nd == [i \in DOMAIN h.node |-> swept(h.node[i])]
<1>1. h \in TableType /\ h.node \in [Slots(SizeNode(h)) -> NodeType]
      /\ DOMAIN h.node = Slots(SizeNode(h)) /\ NodesOK(SizeNode(h), h.node)
  BY TableParts DEF TableOK
<1>2. DeadKeys(h) = [h EXCEPT !.node = nd]
  BY Zenon DEF DeadKeys
<1>3. \A n \in NodeType :
        /\ swept(n) \in NodeType /\ swept(n).key = n.key /\ swept(n).next = n.next
        /\ swept(n).val = n.val
        /\ n.dead => swept(n).dead
        /\ n.val # Nil => swept(n) = n
  BY DEF NodeType
<1> HIDE DEF swept
<1>4. nd \in [Slots(SizeNode(h)) -> NodeType]
  BY <1>1, <1>3
<1>5. \A j \in Slots(SizeNode(h)) : nd[j] = swept(h.node[j]) /\ h.node[j] \in NodeType
  BY <1>1
<1> HIDE DEF nd
<1>6. \A j \in Slots(SizeNode(h)) :
        /\ nd[j].key = h.node[j].key /\ nd[j].next = h.node[j].next
        /\ nd[j].val = h.node[j].val
        /\ ~nd[j].dead => ~h.node[j].dead
        /\ nd[j].val # Nil => ~nd[j].dead /\ Taken(h.node, j)
  BY <1>1, <1>3, <1>5 DEF NodesOK, Untouched
<1> QED BY <1>2, <1>4, <1>6, LabelsOK

\* The union word of a table without nodes is a hint.
LEMMA NoNodes ==
  ASSUME NEW h, TableOK(h), IsDummy(h)
  PROVE  Slots(SizeNode(h)) = {} /\ h.last \in -SizeArray(h) .. 0
  BY DEF IsDummy, TableOK, LastOK, Slots

\* The boundary is in the array part.
LEMMA BoundaryIs ==
  ASSUME NEW h, TableOK(h)
  PROVE  Boundary(h) \in 0 .. SizeArray(h)
<1>1. SizeArray(h) \in Nat /\ h.last \in -SizeArray(h) .. SizeNode(h)
  BY TableParts DEF TableOK, LastOK
<1> QED BY <1>1 DEF Boundary

\* The word that luaH_clone computes is valid in the copy.
LEMMA ClonedOK ==
  ASSUME NEW h, TableOK(h)
  PROVE  LET g == Cloned(h)
         IN  TableOK(g) /\ g.array = h.array /\ g.node = h.node
<1>1. CASE ~IsDummy(h)
  BY <1>1 DEF Cloned
<1>2. CASE IsDummy(h)
  <2> DEFINE l == IF SizeArray(h) = 0 THEN 0 ELSE -Boundary(h)
  <2>1. SizeArray(h) \in Nat /\ SizeNode(h) = 0 /\ Boundary(h) \in 0 .. SizeArray(h)
    BY <1>2, TableParts, BoundaryIs DEF TableOK, IsDummy
  <2>2. l \in -SizeArray(h) .. SizeNode(h)
    BY <2>1
  <2>3. Slots(SizeNode(h)) = {}
    BY <1>2, NoNodes
  <2>4. Cloned(h) = [h EXCEPT !.last = l]
    BY <1>2, Zenon DEF Cloned
  <2> HIDE DEF l
  <2> QED BY <2>2, <2>3, <2>4, WordOK
<1> QED BY <1>1, <1>2

\* What is left after luaH_clear.
LEMMA ClearedOK ==
  ASSUME NEW h, TableOK(h)
  PROVE  LET g == Cleared(h)
         IN  /\ TableOK(g) /\ SizeArray(g) = SizeArray(h) /\ SizeNode(g) = SizeNode(h)
             /\ \A i \in 1 .. SizeArray(h) : g.array[i] = Nil
             /\ \A j \in Slots(SizeNode(h)) : g.node[j] = EmptyNode
<1> DEFINE n == SizeNode(h)
           a == [i \in DOMAIN h.array |-> Nil]
           nd == [i \in DOMAIN h.node |-> EmptyNode]
           l == IF IsDummy(h) THEN IF h.last <= 0 THEN 0 ELSE h.last ELSE n
           g == Cleared(h)
<1>1. h \in TableType /\ n \in Nat /\ SizeArray(h) \in Nat /\ h.last \in Int
      /\ h.array \in Seq(Values \cup {Nil}) /\ DOMAIN h.node = Slots(n) /\ ~h.nested
  BY TableParts DEF TableOK
<1>2. a \in Seq(Values \cup {Nil}) /\ Len(a) = SizeArray(h) /\ \A i \in 1 .. Len(a) : a[i] = Nil
  BY <1>1 DEF SizeArray
<1>3. nd = [i \in Slots(n) |-> EmptyNode]
  BY <1>1
<1>4. NodesOK(n, nd)
  BY <1>1, <1>3, EmptyNodesOK
<1>5. nd \in [Slots(n) -> NodeType]
  BY <1>4 DEF NodesOK, NodesType
<1>6. l = n
  BY <1>1, NoNodes DEF IsDummy
<1>7. g = [[h EXCEPT !.array = a, !.node = nd] EXCEPT !.last = l]
  <2>1. l = IF IsDummy(h) THEN IF h.last <= 0 THEN 0 ELSE h.last ELSE n
    OBVIOUS
  <2> HIDE DEF l
  <2> QED BY <1>1, <2>1 DEF Cleared, TableType
<1> HIDE DEF a, nd, l
<1>8. /\ g \in TableType /\ g.array = a /\ g.node = nd /\ g.last = n /\ ~g.nested
  <2>1. nd \in UNION {[Slots(m) -> NodeType] : m \in Nat}
    BY <1>1, <1>5
  <2> DEFINE g0 == [h EXCEPT !.array = a, !.node = nd]
  <2>2. g0 \in TableType /\ g0.array = a /\ g0.node = nd /\ g0.nested = h.nested
    BY <1>1, <1>2, <2>1 DEF TableType
  <2>3. g = [g0 EXCEPT !.last = l]
    BY <1>7
  <2> HIDE DEF g0
  <2> QED BY <1>1, <1>6, <2>2, <2>3, SMTT(30) DEF TableType
<1> HIDE DEF g
<1>9. SizeNode(g) = n /\ SizeArray(g) = SizeArray(h)
  BY <1>1, <1>2, <1>3, <1>8 DEF SizeNode, SizeArray
<1>10. \A i \in Slots(n) : nd[i] = EmptyNode
  BY <1>3
<1>11. LastOK(g)
  BY <1>1, <1>8, <1>9 DEF LastOK, Slots
<1>12. Apart(g) /\ ArrayKeys(g)
  BY <1>2, <1>8, <1>9, <1>10 DEF Apart, ArrayKeys, Taken, EmptyNode
<1>13. TableOK(g)
  BY <1>4, <1>8, <1>9, <1>11, <1>12 DEF TableOK
<1> QED BY <1>2, <1>8, <1>9, <1>10, <1>13 DEF g

-----------------------------------------------------------------------------
(* The length. *)

\* The recursion of BinarySearch, and that it defines a function.
IsSearch(a, m, f) ==
  f = [i \in 0 .. m |-> IF i = 0 THEN <<0, Len(a)>>
                        ELSE Halved(a, f[i - 1][1], f[i - 1][2])]

\* There is such a function.
LEMMA SearchExists ==
  ASSUME NEW a, NEW n \in Nat
  PROVE  \E f : IsSearch(a, n, f)
<1> DEFINE T == {m \in Nat : ~ \E f : IsSearch(a, m, f)}
<1> HIDE DEF IsSearch
<1>1. SUFFICES ASSUME T # {} PROVE FALSE
  OBVIOUS
<1>2. PICK m \in T : \A k \in T : m <= k
  BY <1>1, Least
<1>3. CASE m = 0
  <2>1. IsSearch(a, 0, [i \in 0 .. 0 |-> <<0, Len(a)>>])
    BY DEF IsSearch
  <2> QED BY <1>2, <1>3, <2>1
<1>4. CASE m # 0
  <2>1. m - 1 \in Nat /\ m - 1 \notin T
    BY <1>2, <1>4
  <2>2. PICK f : IsSearch(a, m - 1, f)
    BY <2>1
  <2> DEFINE s(p) == Halved(a, p[1], p[2])
             g == [i \in 0 .. m |-> IF i < m THEN f[i] ELSE s(f[m - 1])]
  <2>3. f = [i \in 0 .. m - 1 |-> IF i = 0 THEN <<0, Len(a)>> ELSE s(f[i - 1])]
    BY <2>2, Zenon DEF IsSearch
  <2> HIDE DEF s
  <2> DEFINE z == <<0, Len(a)>>
  <2>7. \A i \in 0 .. m - 1 : f[i] = IF i = 0 THEN z ELSE s(f[i - 1])
    BY <2>3, Zenon
  <2> HIDE DEF z
  <2>8. \A i \in 0 .. m : i # 0 => i - 1 \in 0 .. m /\ i - 1 < m /\ i - 1 \in 0 .. m - 1
    BY <1>4
  <2>9. \A i \in 0 .. m : i # 0 => g[i - 1] = f[i - 1]
    BY <2>8
  <2>10. \A i \in 0 .. m : i < m => g[i] = f[i] /\ i \in 0 .. m - 1
    BY <1>4
  <2>11. 0 \in 0 .. m /\ m \in 0 .. m /\ g[m] = s(f[m - 1]) /\ \A i \in 0 .. m : ~(i < m) => i = m
    BY <1>4
  <2> HIDE DEF g
  <2>12. \A i \in 0 .. m : g[i] = IF i = 0 THEN z ELSE s(g[i - 1])
    BY <1>4, <2>7, <2>9, <2>10, <2>11
  <2>4. \A i \in 0 .. m : g[i] = IF i = 0 THEN <<0, Len(a)>> ELSE s(g[i - 1])
    BY <2>12 DEF z
  <2>5. g = [i \in 0 .. m |-> IF i = 0 THEN <<0, Len(a)>> ELSE s(g[i - 1])]
    BY <2>4 DEF g
  <2>6. IsSearch(a, m, g)
    BY <2>5, Zenon DEF IsSearch, s
  <2> QED BY <1>2, <2>6
<1> QED BY <1>3, <1>4

\* The place of an element that no element follows, or 0 if none is first.
Ends(a, n) == n \in 0 .. Len(a) /\ (n # 0 => a[n] # Nil) /\ (n < Len(a) => a[n + 1] = Nil)

\* The search of luaH_getn ends at one.  What is left of the array is followed
\* by a nil, or ends with it, and gets shorter.
LEMMA BinarySearchIs ==
  ASSUME NEW a \in Seq(Values \cup {Nil}), Len(a) # 0, a[Len(a)] = Nil
  PROVE  Ends(a, BinarySearch(a))
<1> DEFINE R(f) == IsSearch(a, Len(a), f)
           left == CHOOSE f : R(f)
           end == left[Len(a)][1]
<1>1. Len(a) \in Nat
  OBVIOUS
<1>2. R(left)
  BY <1>1, SearchExists, Zenon
<1>3. BinarySearch(a) = IF a[end + 1] = Nil THEN end ELSE end + 1
  BY Zenon DEF BinarySearch, IsSearch
<1> HIDE DEF left
<1>4. left = [i \in 0 .. Len(a) |-> IF i = 0 THEN <<0, Len(a)>>
                ELSE Halved(a, left[i - 1][1], left[i - 1][2])]
  BY <1>2, Zenon DEF IsSearch
<1> DEFINE G(i, p) == /\ p[1] \in Nat /\ p[2] \in Nat /\ p[2] # 0
                      /\ p[1] + p[2] <= Len(a)
                      /\ p[1] # 0 => a[p[1] + 1] # Nil
                      /\ \/ a[p[1] + p[2]] = Nil
                         \/ p[1] + p[2] + 1 <= Len(a) /\ a[p[1] + p[2] + 1] = Nil
                      /\ p[2] = 1 \/ p[2] <= Len(a) - i
           T == {i \in Nat : i <= Len(a) /\ ~G(i, left[i])}
<1>5. ASSUME NEW i \in 1 .. Len(a), NEW p, G(i - 1, p)
      PROVE  G(i, Halved(a, p[1], p[2]))
  <2> DEFINE b == p[1]
             rest == p[2]
             half == rest \div 2
             q == Halved(a, b, rest)
  <2>1. /\ b \in Nat /\ rest \in Nat /\ rest # 0 /\ b + rest <= Len(a)
        /\ b # 0 => a[b + 1] # Nil
        /\ a[b + rest] = Nil \/ (b + rest + 1 <= Len(a) /\ a[b + rest + 1] = Nil)
        /\ rest = 1 \/ rest <= Len(a) - (i - 1)
    BY <1>5
  <2> HIDE DEF b, rest
  <2>2. half \in Nat /\ half < rest /\ (rest # 1 => half # 0)
        /\ (rest - half = half \/ rest - half = half + 1)
    BY <2>1
  <2>3. q = <<IF a[b + half + 1] = Nil THEN b ELSE b + half, rest - half>>
    BY DEF Halved
  <2> HIDE DEF half, q
  <2>4. ASSUME a[b + half + 1] = Nil PROVE G(i, q)
    <3>1. q[1] = b /\ q[2] = rest - half
      BY <2>3, <2>4
    <3>2. a[b + (rest - half)] = Nil \/ a[b + (rest - half) + 1] = Nil
      <4>1. CASE rest - half = half
        BY <2>4, <4>1
      <4>2. CASE rest - half = half + 1
        <5>1. b + (rest - half) = b + half + 1
          BY <2>1, <2>2, <4>2
        <5> QED BY <2>4, <5>1
      <4> QED BY <2>2, <4>1, <4>2
    <3>3. a[b + (rest - half)] = Nil \/ b + (rest - half) + 1 <= Len(a)
      <4>1. CASE half # 0
        BY <1>1, <2>1, <2>2, <4>1
      <4>2. CASE half = 0
        <5>1. rest = 1 /\ b + (rest - half) = b + half + 1
          BY <2>1, <2>2, <4>2
        <5> QED BY <2>4, <5>1
      <4> QED BY <4>1, <4>2
    <3>4. rest - half \in Nat /\ rest - half # 0 /\ b + (rest - half) <= Len(a)
          /\ (rest - half = 1 \/ rest - half <= Len(a) - i)
      BY <1>1, <2>1, <2>2
    <3> QED BY <2>1, <3>1, <3>2, <3>3, <3>4
  <2>5. ASSUME a[b + half + 1] # Nil PROVE G(i, q)
    <3>1. q[1] = b + half /\ q[2] = rest - half
      BY <2>3, <2>5
    <3>2. (b + half) + (rest - half) = b + rest
      BY <2>1, <2>2
    <3>3. b + half \in Nat /\ rest - half \in Nat /\ rest - half # 0
          /\ (rest - half = 1 \/ rest - half <= Len(a) - i)
      BY <1>1, <2>1, <2>2
    <3> QED BY <2>1, <2>5, <3>1, <3>2, <3>3
  <2>6. G(i, q)
    <3> HIDE DEF G
    <3> QED BY <2>4, <2>5
  <2> QED BY <2>6 DEF q, b, rest
<1>6. G(0, left[0])
  BY <1>1, <1>4
<1>7. T = {}
  <2> SUFFICES ASSUME T # {} PROVE FALSE
    OBVIOUS
  <2>1. PICK i \in T : \A k \in T : i <= k
    BY Least
  <2>2. i # 0
    BY <1>6, <2>1
  <2>3. i - 1 \in Nat /\ i - 1 \notin T /\ i \in 1 .. Len(a)
    BY <2>1, <2>2
  <2>4. G(i - 1, left[i - 1])
    BY <2>1, <2>3
  <2>5. left[i] = Halved(a, left[i - 1][1], left[i - 1][2])
    <3>1. \A k \in 0 .. Len(a) : k # 0 => left[k] = Halved(a, left[k - 1][1], left[k - 1][2])
      BY <1>4, Zenon
    <3> QED BY <1>1, <2>1, <2>2, <3>1
  <2> HIDE DEF G
  <2>6. G(i, left[i])
    BY <1>5, <2>3, <2>4, <2>5
  <2> QED BY <2>1, <2>6
<1>8. G(Len(a), left[Len(a)])
  BY <1>1, <1>7, SMTT(30)
<1>9. /\ end \in Nat /\ end + 1 <= Len(a) /\ (end # 0 => a[end + 1] # Nil)
      /\ a[end + 1] = Nil \/ (end + 2 <= Len(a) /\ a[end + 2] = Nil)
  <2>1. left[Len(a)][2] = 1
    BY <1>1, <1>8
  <2>2. end \in Nat => end + 1 + 1 = end + 2
    OBVIOUS
  <2> QED BY <1>8, <2>1, <2>2
<1> HIDE DEF end
<1> QED BY <1>1, <1>3, <1>9 DEF Ends

\* So does the look next to the hint.
LEMMA NextBoundaryIs ==
  ASSUME NEW a \in Seq(Values \cup {Nil}), NEW b \in Nat
  PROVE  /\ NextBoundary(a, b) \in Nat
         /\ NextBoundary(a, b) # 0 => Ends(a, NextBoundary(a, b))
  BY DEF NextBoundary, Ends

\* A new hint.
LEMMA WithHintOK ==
  ASSUME NEW h, TableOK(h), NEW b \in 0 .. SizeArray(h)
  PROVE  LET g == WithHint(h, b)
         IN  TableOK(g) /\ g.node = h.node /\ g.array = h.array
<1>1. CASE h.last <= 0
  <2>1. SizeArray(h) \in Nat /\ SizeNode(h) \in Nat /\ h.last \in Int /\ LastOK(h)
    BY TableParts DEF TableOK
  <2>2. -b \in -SizeArray(h) .. SizeNode(h)
    BY <2>1
  <2>3. \A i \in Slots(SizeNode(h)) : i >= -b => Taken(h.node, i)
    BY <1>1, <2>1 DEF LastOK, Slots
  <2>4. WithHint(h, b) = [h EXCEPT !.last = -b]
    BY <1>1 DEF WithHint
  <2> QED BY <2>2, <2>3, <2>4, WordOK
<1>2. CASE ~(h.last <= 0)
  BY <1>2 DEF WithHint
<1> QED BY <1>1, <1>2

\* The answer of luaH_getn.
LEMMA GetNIs ==
  ASSUME NEW h, TableOK(h)
  PROVE  LET g == GetN(h).h
             n == GetN(h).n
         IN  /\ TableOK(g) /\ g.node = h.node /\ g.array = h.array
             /\ Ends(h.array, n)
<1> DEFINE size == SizeArray(h)
           b == Boundary(h)
           full == size > 0 /\ h.array[size] # Nil
           near == NextBoundary(h.array, b)
           found == BinarySearch(h.array)
           Good(r) == /\ TableOK(r.h) /\ r.h.node = h.node /\ r.h.array = h.array
                      /\ Ends(h.array, r.n)
<1>1. h.array \in Seq(Values \cup {Nil}) /\ size \in Nat /\ size = Len(h.array)
  BY TableParts DEF TableOK, SizeArray
<1>2. b \in Nat
  BY BoundaryIs, <1>1
<1>3. near \in Nat /\ (near # 0 => Ends(h.array, near))
  BY <1>1, <1>2, NextBoundaryIs
<1>4. ~full /\ size # 0 => Ends(h.array, found)
  BY <1>1, BinarySearchIs
<1>5. \A m : Ends(h.array, m) =>
        Good([n |-> m, h |-> h]) /\ Good([n |-> m, h |-> WithHint(h, m)])
  <2>1. \A m : Ends(h.array, m) => m \in 0 .. size
    BY <1>1 DEF Ends
  <2> QED BY <2>1, WithHintOK
<1>6. GetN(h) =
        IF b > 0 /\ full /\ IsDummy(h) THEN [n |-> size, h |-> h]
        ELSE IF b > 0 /\ b < size /\ h.array[b] # Nil /\ h.array[b + 1] = Nil
          THEN [n |-> b, h |-> h]
        ELSE IF b > 0 /\ near > 0 THEN [n |-> near, h |-> WithHint(h, near)]
        ELSE IF size = 0 \/ full THEN [n |-> size, h |-> h]
        ELSE [n |-> found, h |-> WithHint(h, found)]
  BY Zenon DEF GetN
<1> HIDE DEF Good, found, near, b, size
<1>14. \A m : m > 0 => m # 0
  OBVIOUS
<1>8. full => Good([n |-> size, h |-> h])
  <2>1. full => Ends(h.array, size)
    BY <1>1 DEF Ends
  <2> QED BY <1>5, <2>1, Zenon
<1>9. size = 0 => Good([n |-> size, h |-> h])
  <2>1. size = 0 => Ends(h.array, size)
    BY <1>1 DEF Ends
  <2> QED BY <1>5, <2>1, Zenon
<1>10. b > 0 /\ b < size /\ h.array[b] # Nil /\ h.array[b + 1] = Nil => Good([n |-> b, h |-> h])
  <2>1. b > 0 /\ b < size /\ h.array[b] # Nil /\ h.array[b + 1] = Nil => Ends(h.array, b)
    BY <1>1, <1>2 DEF Ends
  <2> QED BY <1>5, <2>1, Zenon
<1>11. near > 0 => Good([n |-> near, h |-> WithHint(h, near)])
  BY <1>3, <1>5, <1>14, Zenon
<1>12. ~full /\ size # 0 => Good([n |-> found, h |-> WithHint(h, found)])
  BY <1>4, <1>5, Zenon
<1> HIDE DEF full
<1>7. Good(GetN(h))
  BY <1>6, <1>8, <1>9, <1>10, <1>11, <1>12
<1> QED BY <1>7 DEF Good, size

-----------------------------------------------------------------------------
(* Reading a table, and the properties of one table. *)

\* A node with a value is in use and alive, and its key is not one of the
\* array part.
LEMMA UsedNode ==
  ASSUME NEW h, TableOK(h), NEW i \in Slots(SizeNode(h)), h.node[i].val # Nil
  PROVE  /\ Taken(h.node, i) /\ ~h.node[i].dead /\ h.node[i].key \in Keys
         /\ h.node[i].key \notin 1 .. SizeArray(h) + 1 /\ ~InArray(h, h.node[i].key)
         /\ h.node[i].val \in Values
<1>1. h \in TableType /\ NodesOK(SizeNode(h), h.node) /\ Apart(h)
      /\ h.node \in [Slots(SizeNode(h)) -> NodeType] /\ SizeArray(h) \in Nat
  BY TableParts DEF TableOK
<1>2. Taken(h.node, i) /\ ~h.node[i].dead
  BY <1>1 DEF NodesOK, Untouched
<1>3. h.node[i].key \in Keys
  BY <1>1, <1>2, TakenKey DEF NodesOK
<1>4. h.node[i].key \notin 1 .. SizeArray(h) + 1
  BY <1>1, <1>2 DEF Apart
<1>5. h.node[i].key \notin 1 .. SizeArray(h)
  BY <1>1, <1>4
<1>6. h.node[i] \in NodeType
  BY <1>1
<1> QED BY <1>2, <1>3, <1>4, <1>5, <1>6 DEF InArray, NodeType

\* Get answers the value of the node that has the key.
LEMMA GetFinds ==
  ASSUME NEW h, TableOK(h), NEW i \in Slots(SizeNode(h)), h.node[i].val # Nil
  PROVE  Get(h, h.node[i].key) = h.node[i].val
<1>1. SizeNode(h) \in Nat /\ NodesOK(SizeNode(h), h.node)
  BY TableParts DEF TableOK
<1>2. Taken(h.node, i) /\ ~h.node[i].dead /\ ~InArray(h, h.node[i].key)
  BY UsedNode
<1>3. NodeOf(h, h.node[i].key) = i
  BY <1>1, <1>2, FirstNodeFinds DEF NodeOf
<1>4. i # -1
  BY DEF Slots
<1> QED BY <1>2, <1>3, <1>4 DEF Get

\* And what it answers is in the table.
LEMMA GetIs ==
  ASSUME NEW h, TableOK(h), NEW k \in Keys
  PROVE  /\ Get(h, k) \in Values \cup {Nil}
         /\ Get(h, k) # Nil => InArray(h, k) \/ \E i \in Slots(SizeNode(h)) :
              h.node[i].key = k /\ h.node[i].val = Get(h, k)
<1>1. h \in TableType /\ SizeNode(h) \in Nat /\ NodesOK(SizeNode(h), h.node)
      /\ h.array \in Seq(Values \cup {Nil})
      /\ h.node \in [Slots(SizeNode(h)) -> NodeType] /\ SizeArray(h) \in Nat
  BY TableParts DEF TableOK
<1>2. CASE InArray(h, k)
  <2>1. h.array[k] \in Values \cup {Nil}
    BY <1>1, <1>2 DEF InArray, SizeArray
  <2> QED BY <1>2, <2>1 DEF Get
<1>3. CASE ~InArray(h, k) /\ NodeOf(h, k) = -1
  BY <1>3 DEF Get
<1>4. CASE ~InArray(h, k) /\ NodeOf(h, k) # -1
  <2> DEFINE i == NodeOf(h, k)
  <2>1. i \in Slots(SizeNode(h)) /\ h.node[i].key = k
    BY <1>1, <1>4, FirstNodeIs DEF NodeOf
  <2>2. Get(h, k) = h.node[i].val
    BY <1>4 DEF Get
  <2> HIDE DEF i
  <2>3. h.node[i].val \in Values \cup {Nil}
    BY <1>1, <2>1 DEF NodeType
  <2> QED BY <2>1, <2>2, <2>3
<1> QED BY <1>2, <1>3, <1>4

\* Key sizearray + 1 is not in a table.
LEMMA BorderIsFree ==
  ASSUME NEW h, TableOK(h), SizeArray(h) + 1 \in Keys
  PROVE  Get(h, SizeArray(h) + 1) = Nil
<1>1. SizeArray(h) \in Nat
  BY TableParts DEF TableOK
<1> SUFFICES ASSUME Get(h, SizeArray(h) + 1) # Nil PROVE FALSE
  OBVIOUS
<1>2. ~InArray(h, SizeArray(h) + 1)
  BY <1>1 DEF InArray
<1>3. PICK i \in Slots(SizeNode(h)) :
        h.node[i].key = SizeArray(h) + 1 /\ h.node[i].val # Nil
  BY <1>2, GetIs
<1> QED BY <1>1, <1>3, UsedNode

\* The properties of a table, from the invariant.
LEMMA InvImplies ==
  ASSUME TableInv
  PROVE  TypeOK /\ NoNestedRehash /\ BoundaryInvariant /\ EveryEntryIsFound
<1> DEFINE n == SizeNode(t)
<1>1. TableOK(t) /\ t \in TableType /\ n \in Nat /\ NodesOK(n, t.node)
      /\ t.node \in [Slots(n) -> NodeType] /\ DOMAIN t.node = Slots(n)
      /\ t.array \in Seq(Values \cup {Nil}) /\ LastOK(t)
  BY TableParts DEF TableInv, TableOK
<1>2. TypeOK
  BY <1>1 DEF TableInv, CursorOK, TypeOK, LastOK, Slots
<1>3. NoNestedRehash
  BY <1>1 DEF TableOK, NoNestedRehash
<1>4. BoundaryInvariant
  BY <1>1, BorderIsFree DEF BoundaryInvariant, Keys
<1>5. \A i \in DOMAIN t.node :
        LET c == ChainFrom(t, i) IN t.node[c[SizeNode(t) - 1]].next = 0
  BY <1>1, ChainEnds
<1>6. \A i \in UsedNodes(t) :
        LET k == t.node[i].key
        IN  ~t.node[i].dead /\ ~InArray(t, k) /\ FirstNode(t, k, TRUE) = i
  <2> SUFFICES ASSUME NEW i \in UsedNodes(t)
               PROVE  /\ ~t.node[i].dead /\ ~InArray(t, t.node[i].key)
                      /\ FirstNode(t, t.node[i].key, TRUE) = i
    OBVIOUS
  <2>1. i \in Slots(n) /\ t.node[i].val # Nil
    BY <1>1 DEF UsedNodes
  <2>2. Taken(t.node, i) /\ ~t.node[i].dead /\ ~InArray(t, t.node[i].key)
    BY <1>1, <2>1, UsedNode
  <2>3. FirstNode(t, t.node[i].key, TRUE) = i
    BY <1>1, <2>1, <2>2, FirstNodeFinds
  <2> QED BY <2>2, <2>3
<1>7. EveryEntryIsFound
  BY <1>5, <1>6, Zenon DEF EveryEntryIsFound
<1> QED BY <1>2, <1>3, <1>4, <1>7

-----------------------------------------------------------------------------
(* Putting an entry where there is room for it. *)

\* A number that may be a key is an integer key.
LEMMA NumberKeys ==
  /\ \A k \in Keys : k \in Int => k \in IntKeys
  /\ IntKeys \subseteq Int /\ IntKeys \subseteq Keys /\ Keys \subseteq IntKeys \cup ObjKeys
  BY TableAssumption DEF Keys

\* The table has one more entry; the others are still there.
Stored(h, g, k, v) ==
  /\ TableOK(g) /\ SizeArray(g) = SizeArray(h) /\ SizeNode(g) = SizeNode(h)
  /\ \A i \in Slots(SizeNode(h)) : Taken(g.node, i) =>
       \/ IsEntry(g.node[i], k, v)
       \/ \E j \in Slots(SizeNode(h)) :
            Taken(h.node, j) /\ SameEntry(g.node[i], h.node[j])

\* k is in no living node.
Absent(h, k) == \A i \in Slots(SizeNode(h)) :
  Taken(h.node, i) /\ ~h.node[i].dead => h.node[i].key # k

\* newkey with room places the key.
LEMMA PlaceKeyPlaces ==
  ASSUME NEW h, TableOK(h), NEW k \in Keys, NEW v \in Values \cup {Nil},
         Absent(h, k), ~InArray(h, k), ~NeedsRehash(h, k)
  PROVE  Placed(h, PlaceKey(h, k, v), k, v)
<1> DEFINE n == SizeNode(h)
           mp == MainPosition(h, k)
<1>1. h \in TableType /\ NodesOK(n, h.node) /\ LastOK(h) /\ n \in Nat
  BY TableParts DEF TableOK
<1>2. n # 0 /\ (h.node[mp].val = Nil \/ FreePos(h) # -1)
  BY Zenon DEF NeedsRehash, IsDummy
<1>3. mp = HomeOf(n, k) /\ mp \in Slots(n)
  BY <1>1, <1>2, HomeType DEF MainPosition, HomeOf
<1>4. k # NoKey
  BY TableAssumption
<1>5. Roomy(h, k)
  BY <1>1, <1>2, <1>3, <1>4 DEF Roomy, NewKey, Absent
<1> QED BY <1>5, PlaceKeyOK

\* newkey with room keeps the invariant.
LEMMA PlaceKeyStores ==
  ASSUME NEW h, TableOK(h), NEW k \in Keys, NEW v \in Values \cup {Nil},
         Absent(h, k), ~InArray(h, k), ~NeedsRehash(h, k)
  PROVE  Stored(h, PlaceKey(h, k, v), k, v)
<1> DEFINE n == SizeNode(h)
           g == PlaceKey(h, k, v)
<1>1. h \in TableType /\ NodesOK(n, h.node) /\ LastOK(h) /\ n \in Nat
      /\ SizeArray(h) \in Nat /\ Apart(h) /\ ArrayKeys(h) /\ ~h.nested
  BY TableParts DEF TableOK
<1>2. k \in IntKeys => k # SizeArray(h) + 1
  BY Zenon DEF NeedsRehash
<1>6. Placed(h, g, k, v)
  BY PlaceKeyPlaces
<1>7. k \notin 1 .. SizeArray(h) + 1
  <2> SUFFICES ASSUME k \in 1 .. SizeArray(h) + 1 PROVE FALSE
    OBVIOUS
  <2>1. k \in Int
    BY <1>1
  <2>2. k \in IntKeys
    BY <2>1, NumberKeys
  <2> QED BY <1>1, <1>2, <2>1, <2>2 DEF InArray
<1> HIDE DEF g
<1>8. SizeArray(g) = SizeArray(h)
  BY <1>6 DEF Placed, SizeArray
<1>9. \A i \in Slots(n) : Taken(g.node, i) =>
        \/ IsEntry(g.node[i], k, v)
        \/ \E j \in Slots(n) : Taken(h.node, j) /\ SameEntry(g.node[i], h.node[j])
  BY <1>6, Zenon DEF Placed
<1>10. Apart(g)
  <2> SUFFICES ASSUME NEW i \in Slots(n), Taken(g.node, i)
               PROVE  g.node[i].key \notin 1 .. SizeArray(h) + 1
    BY <1>6, <1>8 DEF Apart, Placed
  <2>1. CASE IsEntry(g.node[i], k, v)
    BY <1>7, <2>1 DEF IsEntry
  <2>2. CASE ~IsEntry(g.node[i], k, v)
    <3>1. PICK j \in Slots(n) : Taken(h.node, j) /\ SameEntry(g.node[i], h.node[j])
      BY <1>9, <2>2
    <3> QED BY <1>1, <3>1 DEF Apart, SameEntry
  <2> QED BY <2>1, <2>2
<1>11. ArrayKeys(g)
  BY <1>1, <1>6, <1>8 DEF ArrayKeys, Placed
<1>12. TableOK(g)
  BY <1>1, <1>6, <1>10, <1>11 DEF TableOK, Placed
<1>13. SizeNode(g) = n
  BY <1>6 DEF Placed
<1>14. Stored(h, g, k, v)
  BY <1>8, <1>9, <1>12, <1>13 DEF Stored
<1> QED BY <1>14 DEF g

\* Entries that are in place are stored.
LEMMA SameNodesStored ==
  ASSUME NEW h, NEW g, TableOK(g), SizeArray(g) = SizeArray(h),
         SizeNode(g) = SizeNode(h), g.node = h.node, NEW k, NEW v
  PROVE  Stored(h, g, k, v)
  BY DEF Stored, SameEntry

\* arrayornewkey, when there is room.
LEMMA StoreFreshOK ==
  ASSUME NEW h, TableOK(h), NEW k \in Keys, NEW v \in Values \cup {Nil},
         ~InArray(h, k) => Absent(h, k) /\ ~NeedsRehash(h, k)
  PROVE  Stored(h, StoreFresh(h, k, v), k, v)
<1>1. CASE InArray(h, k)
  <2>1. k \in 1 .. SizeArray(h) /\ k \in IntKeys
    BY <1>1 DEF InArray
  <2>2. StoreFresh(h, k, v) = [h EXCEPT !.array[k] = v]
    BY <1>1, Zenon DEF StoreFresh
  <2> DEFINE g == [h EXCEPT !.array[k] = v]
  <2>3. TableOK(g) /\ SizeArray(g) = SizeArray(h) /\ SizeNode(g) = SizeNode(h)
        /\ g.node = h.node
    BY <2>1, StoreArrayOK
  <2> HIDE DEF g
  <2>4. Stored(h, g, k, v)
    BY <2>3, SameNodesStored
  <2> QED BY <2>2, <2>4 DEF g
<1>2. CASE ~InArray(h, k)
  <2>1. StoreFresh(h, k, v) = PlaceKey(h, k, v)
    BY <1>2 DEF StoreFresh
  <2> QED BY <1>2, <2>1, PlaceKeyStores
<1> QED BY <1>1, <1>2

\* There are n positions.
LEMMA SlotsFinite ==
  ASSUME NEW n \in Nat
  PROVE  IsFiniteSet(Slots(n)) /\ Cardinality(Slots(n)) = n
  BY FS_Interval DEF Slots

\* A table whose nodes are all alive and have keys from a smaller set has a
\* free node.
LEMMA RoomIsLeft ==
  ASSUME NEW h, TableOK(h), NEW K, IsFiniteSet(K), Cardinality(K) < SizeNode(h),
         \A i \in Slots(SizeNode(h)) :
           Taken(h.node, i) => ~h.node[i].dead /\ h.node[i].key \in K
  PROVE  FreePos(h) # -1
<1> DEFINE n == SizeNode(h)
           f == [i \in Slots(n) |-> h.node[i].key]
<1>1. n \in Nat /\ NodesOK(n, h.node) /\ LastOK(h) /\ SizeArray(h) \in Nat
  BY TableParts DEF TableOK
<1> SUFFICES ASSUME FreePos(h) = -1 PROVE FALSE
  OBVIOUS
<1>2. -1 \notin Slots(n)
  BY DEF Slots
<1>3. \A i \in Slots(n) : Taken(h.node, i)
  BY <1>1, <1>2, FreePosIs
<1>4. f \in [Slots(n) -> K]
  BY <1>3
<1>7. \A i \in Slots(n) : f[i] = h.node[i].key /\ ~h.node[i].dead
  BY <1>3
<1>8. n = SizeNode(h)
  OBVIOUS
<1> HIDE DEF n, f
<1>5. IsFiniteSet(Slots(n)) /\ Cardinality(Slots(n)) = n
  BY <1>1, SlotsFinite
<1>9. Cardinality(K) < Cardinality(Slots(n))
  BY <1>5, <1>8
<1>6. PICK a, b \in Slots(n) : a # b /\ f[a] = f[b]
  BY <1>4, <1>5, <1>9, FS_PigeonHole
<1> QED BY <1>1, <1>3, <1>6, <1>7, <1>8, KeysDiffer

-----------------------------------------------------------------------------
(* Resizing. *)

\* The new parts, before the entries are put back.
LEMMA FreshPartsIs ==
  ASSUME NEW h, TableOK(h), NEW na \in Nat, NEW nh \in Nat
  PROVE  LET g == FreshParts(h, na, nh)
         IN  /\ TableOK(g) /\ SizeArray(g) = na /\ SizeNode(g) = PowerAtLeast(nh)
             /\ \A i \in Slots(SizeNode(g)) : ~Taken(g.node, i)
<1> DEFINE g0 == NewTable(na, nh)
           a == [i \in 1 .. na |-> IF i <= SizeArray(h) THEN h.array[i] ELSE Nil]
<1>1. /\ TableOK(g0) /\ SizeArray(g0) = na /\ SizeNode(g0) = PowerAtLeast(nh)
      /\ \A i \in Slots(SizeNode(g0)) : ~Taken(g0.node, i)
      /\ ~g0.nested
  BY NewTableIs
<1>2. FreshParts(h, na, nh) = [g0 EXCEPT !.array = a, !.nested = h.nested]
  BY Zenon DEF FreshParts
<1> HIDE DEF g0
<1>3. g0 \in TableType /\ h \in TableType /\ ~h.nested /\ ArrayKeys(h)
      /\ h.array \in Seq(Values \cup {Nil}) /\ SizeArray(h) \in Nat
  BY <1>1, TableParts DEF TableOK
<1>4. a \in Seq(Values \cup {Nil}) /\ Len(a) = na
  BY <1>3 DEF SizeArray
<1>5. \A i \in 1 .. Len(a) : a[i] # Nil => i \in IntKeys
  BY <1>3, <1>4 DEF ArrayKeys
<1> HIDE DEF a
<1>6. h.nested = FALSE /\ g0.nested = FALSE
  <2>1. h.nested \in BOOLEAN /\ g0.nested \in BOOLEAN
    BY <1>3, TableParts
  <2>2. ~h.nested /\ ~g0.nested
    BY <1>1, <1>3
  <2> QED BY <2>1, <2>2
<1>7. [g0 EXCEPT !.array = a, !.nested = h.nested] = [g0 EXCEPT !.array = a]
  BY <1>3, <1>6 DEF TableType
<1> QED BY <1>1, <1>2, <1>4, <1>5, <1>7, ArrayOK

\* The keys that do not fit into an array part of that size.
HashKeys(h, na) == {k \in Keys : Get(h, k) # Nil /\ k \notin 1 .. na}

\* What resize puts back is in the table, ...
LEMMA OldEntryIs ==
  ASSUME NEW h, TableOK(h), NEW na \in Nat,
         NEW i \in 1 .. LostSlice(h, na) + SizeNode(h), OldEntry(h, na, i)[2] # Nil
  PROVE  LET e == OldEntry(h, na, i)
         IN  /\ e[1] \in Keys /\ e[2] \in Values /\ Get(h, e[1]) = e[2]
             /\ i <= LostSlice(h, na) => e[1] = na + i /\ e[1] \in 1 .. SizeArray(h)
             /\ ~(i <= LostSlice(h, na)) =>
                  LET j == SizeNode(h) + LostSlice(h, na) - i
                  IN  /\ j \in Slots(SizeNode(h)) /\ h.node[j].val # Nil
                      /\ e[1] = h.node[j].key /\ e[1] \notin 1 .. SizeArray(h)
<1> DEFINE l == LostSlice(h, na)
           n == SizeNode(h)
           j == n + l - i
           e == OldEntry(h, na, i)
<1>1. SizeArray(h) \in Nat /\ n \in Nat /\ ArrayKeys(h) /\ h.array \in Seq(Values \cup {Nil})
  BY TableParts DEF TableOK
<1>2. l \in Nat /\ (l # 0 => na + l = SizeArray(h))
  BY <1>1 DEF LostSlice
<1>3. e = IF i <= l THEN <<na + i, h.array[na + i]>> ELSE <<h.node[j].key, h.node[j].val>>
  BY Zenon DEF OldEntry
<1> HIDE DEF e, l
<1>4. CASE i <= l
  <2>1. na + i \in 1 .. SizeArray(h) /\ e[1] = na + i /\ e[2] = h.array[na + i]
    BY <1>1, <1>2, <1>3, <1>4
  <2>2. e[2] # Nil
    BY DEF e
  <2>3. na + i \in IntKeys
    BY <1>1, <2>1, <2>2 DEF ArrayKeys
  <2>4. InArray(h, na + i)
    BY <2>1, <2>3 DEF InArray
  <2>5. Get(h, na + i) = h.array[na + i] /\ na + i \in Keys
    BY <2>3, <2>4 DEF Get, Keys
  <2>6. h.array[na + i] \in Values
    BY <1>1, <2>1, <2>2 DEF SizeArray
  <2> QED BY <1>4, <2>1, <2>5, <2>6 DEF e, l
<1>5. CASE ~(i <= l)
  <2>1. e[1] = h.node[j].key /\ e[2] = h.node[j].val
    BY <1>3, <1>5
  <2>2. e[2] # Nil
    BY DEF e
  <2>3. i \in Int /\ i <= l + n
    BY <1>1, <1>2 DEF l
  <2>4. j \in Slots(n)
    BY <1>1, <1>2, <1>5, <2>3 DEF Slots
  <2>5. h.node[j].key \in Keys /\ h.node[j].val \in Values
        /\ h.node[j].key \notin 1 .. SizeArray(h) + 1
    BY <2>1, <2>2, <2>4, UsedNode
  <2>6. Get(h, h.node[j].key) = h.node[j].val
    BY <2>1, <2>2, <2>4, GetFinds
  <2>7. h.node[j].key \notin 1 .. SizeArray(h)
    BY <1>1, <2>5
  <2> QED BY <1>5, <2>1, <2>2, <2>4, <2>5, <2>6, <2>7 DEF e, l
<1> QED BY <1>4, <1>5

\* ... and no key twice.
LEMMA OldEntriesDiffer ==
  ASSUME NEW h, TableOK(h), NEW na \in Nat,
         NEW i \in 1 .. LostSlice(h, na) + SizeNode(h), OldEntry(h, na, i)[2] # Nil,
         NEW j \in 1 .. LostSlice(h, na) + SizeNode(h), OldEntry(h, na, j)[2] # Nil,
         OldEntry(h, na, i)[1] = OldEntry(h, na, j)[1]
  PROVE  i = j
<1> DEFINE l == LostSlice(h, na)
           n == SizeNode(h)
           e(x) == OldEntry(h, na, x)
<1>1. SizeArray(h) \in Nat /\ n \in Nat /\ NodesOK(n, h.node) /\ l \in Nat
  BY TableParts DEF TableOK, LostSlice
<1>2. i \in Int /\ j \in Int
  BY <1>1
<1>3. \A x \in {i, j} :
        /\ x <= l => e(x)[1] = na + x /\ e(x)[1] \in 1 .. SizeArray(h)
        /\ ~(x <= l) => /\ n + l - x \in Slots(n) /\ h.node[n + l - x].val # Nil
                        /\ e(x)[1] = h.node[n + l - x].key
                        /\ e(x)[1] \notin 1 .. SizeArray(h)
  BY OldEntryIs
<1>4. e(i)[1] = e(j)[1]
  OBVIOUS
<1> HIDE DEF e, l, n
<1>5. CASE i <= l
  <2>1. j <= l
    BY <1>3, <1>4, <1>5
  <2> QED BY <1>2, <1>3, <1>4, <1>5, <2>1
<1>6. CASE ~(i <= l)
  <2>1. ~(j <= l)
    BY <1>3, <1>4, <1>6
  <2> DEFINE x == n + l - i
             y == n + l - j
  <2>2. /\ x \in Slots(n) /\ h.node[x].val # Nil
        /\ y \in Slots(n) /\ h.node[y].val # Nil /\ h.node[x].key = h.node[y].key
    BY <1>3, <1>4, <1>6, <2>1
  <2> HIDE DEF x, y
  <2>3. /\ Taken(h.node, x) /\ ~h.node[x].dead /\ Taken(h.node, y) /\ ~h.node[y].dead
    BY <2>2, UsedNode DEF n
  <2>4. x = y
    BY <1>1, <2>2, <2>3, KeysDiffer DEF n
  <2> QED BY <1>1, <1>2, <2>4 DEF x, y
<1> QED BY <1>5, <1>6

\* The recursion of resize, and that it defines a function.
FilledOnce(h, na, acc, i) ==
  IF OldEntry(h, na, i)[2] = Nil THEN acc
  ELSE StoreFresh(acc, OldEntry(h, na, i)[1], OldEntry(h, na, i)[2])
IsFilling(h, na, nh, m, f) ==
  f = [i \in 0 .. m |-> IF i = 0 THEN FreshParts(h, na, nh)
                        ELSE FilledOnce(h, na, f[i - 1], i)]

\* There is such a function.
LEMMA FillingExists ==
  ASSUME NEW h, NEW na, NEW nh, NEW n \in Nat
  PROVE  \E f : IsFilling(h, na, nh, n, f)
<1> DEFINE R(m, f) == IsFilling(h, na, nh, m, f)
           T == {m \in Nat : ~ \E f : R(m, f)}
           z == FreshParts(h, na, nh)
           s(p, i) == FilledOnce(h, na, p, i)
<1> HIDE DEF R, z, s
<1>1. SUFFICES ASSUME T # {} PROVE FALSE
  BY DEF R
<1>2. PICK m \in T : \A k \in T : m <= k
  BY <1>1, Least
<1>3. CASE m = 0
  <2> DEFINE g == [i \in 0 .. 0 |-> z]
  <2>1. g = [i \in 0 .. 0 |-> IF i = 0 THEN z ELSE s(g[i - 1], i)]
    OBVIOUS
  <2>2. R(0, g)
    BY <2>1, Zenon DEF R, IsFilling, z, s
  <2> QED BY <1>2, <1>3, <2>2
<1>4. CASE m # 0
  <2>1. m - 1 \in Nat /\ m - 1 \notin T
    BY <1>2, <1>4
  <2>2. PICK f : R(m - 1, f)
    BY <2>1
  <2> DEFINE g == [i \in 0 .. m |-> IF i < m THEN f[i] ELSE s(f[m - 1], m)]
  <2>3. \A i \in 0 .. m - 1 : f[i] = IF i = 0 THEN z ELSE s(f[i - 1], i)
    BY <2>2, Zenon DEF R, IsFilling, z, s
  <2>4. \A i \in 0 .. m : i # 0 => i - 1 \in 0 .. m /\ i - 1 < m /\ i - 1 \in 0 .. m - 1
    BY <1>4
  <2>5. \A i \in 0 .. m : i # 0 => g[i - 1] = f[i - 1]
    BY <2>4
  <2>6. \A i \in 0 .. m : i < m => g[i] = f[i] /\ i \in 0 .. m - 1
    BY <1>4
  <2>7. m \in 0 .. m /\ g[m] = s(f[m - 1], m) /\ \A i \in 0 .. m : ~(i < m) => i = m
    BY <1>4
  <2> HIDE DEF g
  <2>8. \A i \in 0 .. m : g[i] = IF i = 0 THEN z ELSE s(g[i - 1], i)
    BY <1>4, <2>3, <2>5, <2>6, <2>7
  <2>9. g = [i \in 0 .. m |-> IF i = 0 THEN z ELSE s(g[i - 1], i)]
    BY <2>8 DEF g
  <2>10. R(m, g)
    BY <2>9, Zenon DEF R, IsFilling, z, s
  <2> QED BY <1>2, <2>10
<1> QED BY <1>3, <1>4

\* What resize has done when it has put back i entries.
FilledUpTo(h, na, nh, i, g) ==
  /\ TableOK(g) /\ SizeArray(g) = na /\ SizeNode(g) = PowerAtLeast(nh)
  /\ \A j \in Slots(SizeNode(g)) : Taken(g.node, j) =>
       /\ ~g.node[j].dead /\ g.node[j].key \in HashKeys(h, na)
       /\ \E e \in 1 .. i : /\ OldEntry(h, na, e)[2] # Nil
                            /\ OldEntry(h, na, e)[1] = g.node[j].key

\* The sizes that resize is called with: the hash part holds what the array
\* part does not, and the array part took the key after it.
Fits(h, na, nh) ==
  /\ na \in Nat /\ nh \in Nat /\ Cardinality(HashKeys(h, na)) <= nh
  /\ na + 1 \notin HashKeys(h, na)

\* There are finitely many keys.
LEMMA KeysFinite ==
  ASSUME NEW S, S \subseteq Keys
  PROVE  IsFiniteSet(S) /\ Cardinality(S) \in Nat
<1>1. IsFiniteSet(Keys)
  BY TableAssumption
<1>2. IsFiniteSet(S)
  BY <1>1, FS_Subset, Zenon
<1> QED BY <1>2, FS_CardinalityType

\* There is room for one more entry, since each node that is taken holds the
\* key of another entry and no node holds a dead key.
LEMMA FillRoom ==
  ASSUME NEW h, TableOK(h), NEW na, NEW nh, Fits(h, na, nh),
         NEW i \in 1 .. LostSlice(h, na) + SizeNode(h), NEW g, FilledUpTo(h, na, nh, i - 1, g),
         OldEntry(h, na, i)[2] # Nil
  PROVE  LET k == OldEntry(h, na, i)[1]
             v == OldEntry(h, na, i)[2]
         IN  /\ k \in Keys /\ v \in Values /\ Get(h, k) = v /\ Absent(g, k)
             /\ ~InArray(g, k) => k \in HashKeys(h, na) /\ ~NeedsRehash(g, k)
<1> DEFINE k == OldEntry(h, na, i)[1]
           v == OldEntry(h, na, i)[2]
           n == SizeNode(g)
           H == HashKeys(h, na)
           Old(e, x) == /\ OldEntry(h, na, e)[2] # Nil
                        /\ OldEntry(h, na, e)[1] = x
           last == LostSlice(h, na) + SizeNode(h)
<1>1. na \in Nat /\ nh \in Nat /\ SizeArray(h) \in Nat /\ last \in Nat
  BY TableParts DEF TableOK, Fits, LostSlice
<1>2. TableOK(g) /\ SizeArray(g) = na /\ n = PowerAtLeast(nh) /\ nh <= n /\ n \in Nat
  BY <1>1, PowerAtLeastIs DEF FilledUpTo
<1>3. \A j \in Slots(n) : Taken(g.node, j) =>
        ~g.node[j].dead /\ g.node[j].key \in H /\ \E e \in 1 .. i - 1 : Old(e, g.node[j].key)
  BY DEF FilledUpTo
<1>4. \A e \in 1 .. i - 1 : e \in 1 .. i /\ e \in 1 .. last /\ e # i
  BY <1>1
<1>5. i \in 1 .. i /\ i \in 1 .. last
  BY <1>1
<1>6. v # Nil
  OBVIOUS
<1>7. k \in Keys /\ v \in Values /\ Get(h, k) = v
  BY <1>1, <1>6, OldEntryIs
<1>8. \A j \in Slots(n) : Taken(g.node, j) => g.node[j].key # k
  <2> SUFFICES ASSUME NEW j \in Slots(n), Taken(g.node, j), g.node[j].key = k
               PROVE  FALSE
    OBVIOUS
  <2>1. PICK e \in 1 .. i - 1 : Old(e, k)
    BY <1>3
  <2>2. e = i
    BY <1>1, <1>4, <1>5, <1>6, <2>1, OldEntriesDiffer
  <2> QED BY <1>4, <2>2
<1>9. Absent(g, k)
  BY <1>8 DEF Absent
<1>10. ASSUME ~InArray(g, k)
      PROVE  k \in H /\ ~NeedsRehash(g, k)
  <2>1. k \notin 1 .. na
    <3> SUFFICES ASSUME k \in 1 .. na PROVE FALSE
      OBVIOUS
    <3>1. k \in Int
      BY <1>1
    <3> QED BY <1>2, <1>7, <1>10, <3>1, NumberKeys DEF InArray
  <2>2. k \in H
    BY <1>6, <1>7, <2>1 DEF HashKeys
  <2>3. k # na + 1
    BY <2>2 DEF Fits
  <2>4. H \subseteq Keys
    BY DEF HashKeys
  <2> HIDE DEF H
  <2>5. IsFiniteSet(H) /\ Cardinality(H) \in Nat
    BY <2>4, KeysFinite
  <2>6. IsFiniteSet(H \ {k}) /\ Cardinality(H \ {k}) = Cardinality(H) - 1
    BY <2>2, <2>5, FS_RemoveElement
  <2>7. Cardinality(H) <= nh
    BY DEF Fits, H
  <2>8. Cardinality(H \ {k}) < n
    BY <1>1, <1>2, <2>5, <2>6, <2>7
  <2>9. \A j \in Slots(n) : Taken(g.node, j) => ~g.node[j].dead /\ g.node[j].key \in H \ {k}
    BY <1>3, <1>8
  <2>10. FreePos(g) # -1
    BY <1>2, <2>6, <2>8, <2>9, RoomIsLeft
  <2>11. Cardinality(H \ {k}) \in Nat
    BY <2>6, FS_CardinalityType
  <2>12. ~IsDummy(g)
    BY <1>2, <2>8, <2>11 DEF IsDummy
  <2> QED BY <1>2, <2>2, <2>3, <2>10, <2>12 DEF NeedsRehash
<1> QED BY <1>7, <1>9, <1>10

\* One more entry.
LEMMA FillOne ==
  ASSUME NEW h, TableOK(h), NEW na, NEW nh, Fits(h, na, nh),
         NEW i \in 1 .. LostSlice(h, na) + SizeNode(h), NEW g, FilledUpTo(h, na, nh, i - 1, g)
  PROVE  FilledUpTo(h, na, nh, i, FilledOnce(h, na, g, i))
<1> DEFINE k == OldEntry(h, na, i)[1]
           v == OldEntry(h, na, i)[2]
           n == SizeNode(g)
           H == HashKeys(h, na)
           Old(e, x) == /\ OldEntry(h, na, e)[2] # Nil
                        /\ OldEntry(h, na, e)[1] = x
           last == LostSlice(h, na) + SizeNode(h)
<1>1. na \in Nat /\ nh \in Nat /\ SizeArray(h) \in Nat /\ last \in Nat
  BY TableParts DEF TableOK, Fits, LostSlice
<1>2. TableOK(g) /\ SizeArray(g) = na /\ n = PowerAtLeast(nh) /\ nh <= n /\ n \in Nat
  BY <1>1, PowerAtLeastIs DEF FilledUpTo
<1>3. \A j \in Slots(n) : Taken(g.node, j) =>
        ~g.node[j].dead /\ g.node[j].key \in H /\ \E e \in 1 .. i - 1 : Old(e, g.node[j].key)
  BY DEF FilledUpTo
<1>4. \A e \in 1 .. i - 1 : e \in 1 .. i /\ e \in 1 .. last /\ e # i
  BY <1>1
<1>5. i \in 1 .. i /\ i \in 1 .. last
  BY <1>1
<1>6. CASE v = Nil
  <2>1. FilledOnce(h, na, g, i) = g
    BY <1>6 DEF FilledOnce
  <2>2. FilledUpTo(h, na, nh, i, g)
    BY <1>2, <1>3, <1>4 DEF FilledUpTo
  <2> QED BY <2>1, <2>2
<1>7. CASE v # Nil
  <2>1. /\ k \in Keys /\ v \in Values /\ Absent(g, k)
        /\ ~InArray(g, k) => k \in H /\ ~NeedsRehash(g, k)
    BY <1>1, <1>7, FillRoom
  <2> DEFINE g2 == StoreFresh(g, k, v)
  <2>5. Stored(g, g2, k, v)
    BY <1>2, <2>1, StoreFreshOK
  <2>6. FilledOnce(h, na, g, i) = g2
    BY <1>7 DEF FilledOnce
  <2> HIDE DEF k, v
  <2>7. ASSUME NEW j \in Slots(n), Taken(g2.node, j)
        PROVE  /\ ~g2.node[j].dead /\ g2.node[j].key \in H
               /\ \E e \in 1 .. i : Old(e, g2.node[j].key)
    <3>1. CASE InArray(g, k)
      <4>1. g2 = [g EXCEPT !.array[k] = v]
        BY <3>1 DEF StoreFresh
      <4>2. k \in 1 .. SizeArray(g) /\ k \in IntKeys
        BY <3>1 DEF InArray
      <4>3. g2.node = g.node
        BY <1>2, <2>1, <4>1, <4>2, StoreArrayOK
      <4> QED BY <1>3, <1>4, <2>7, <4>3
    <3>2. CASE ~InArray(g, k) /\ IsEntry(g2.node[j], k, v)
      <4>1. Old(i, k)
        BY <1>7 DEF k, v
      <4>2. k \in H
        BY <2>1, <3>2
      <4> QED BY <1>5, <3>2, <4>1, <4>2 DEF IsEntry
    <3>3. CASE ~IsEntry(g2.node[j], k, v)
      <4>1. PICK x \in Slots(n) : Taken(g.node, x) /\ SameEntry(g2.node[j], g.node[x])
        BY <2>5, <2>7, <3>3 DEF Stored
      <4>2. g2.node[j].key = g.node[x].key /\ g2.node[j].dead = g.node[x].dead
        BY <4>1 DEF SameEntry
      <4> QED BY <1>3, <1>4, <4>1, <4>2
    <3> QED BY <3>1, <3>2, <3>3
  <2> HIDE DEF g2
  <2>8. TableOK(g2) /\ SizeArray(g2) = na /\ SizeNode(g2) = n
    BY <1>2, <2>5 DEF Stored
  <2>9. FilledUpTo(h, na, nh, i, g2)
    BY <1>2, <2>7, <2>8 DEF FilledUpTo
  <2> QED BY <2>6, <2>9
<1> QED BY <1>6, <1>7

\* A resize that is called with sizes that fit keeps the invariant, and its
\* nodes hold keys of entries only.
Resized(h, na, nh, g) ==
  /\ TableOK(g) /\ SizeArray(g) = na /\ SizeNode(g) = PowerAtLeast(nh)
  /\ \A j \in Slots(SizeNode(g)) : Taken(g.node, j) =>
       ~g.node[j].dead /\ g.node[j].key \in HashKeys(h, na)

\* All entries, by induction on their number.
Fills(h, na, nh, f) ==
  LET last == LostSlice(h, na) + SizeNode(h)
  IN  /\ IsFilling(h, na, nh, last, f)
      /\ \A i \in 0 .. last : FilledUpTo(h, na, nh, i, f[i])
LEMMA ResizeFills ==
  ASSUME NEW h, TableOK(h), NEW na, NEW nh, Fits(h, na, nh)
  PROVE  \E f : /\ Fills(h, na, nh, f)
                /\ Resize(h, na, nh) = f[LostSlice(h, na) + SizeNode(h)]
<1> DEFINE last == LostSlice(h, na) + SizeNode(h)
           R(f) == IsFilling(h, na, nh, last, f)
           f == CHOOSE x : R(x)
           G(i, g) == FilledUpTo(h, na, nh, i, g)
<1>1. na \in Nat /\ nh \in Nat /\ last \in Nat
  BY TableParts DEF TableOK, Fits, LostSlice
<1>2. Resize(h, na, nh) = f[last]
  BY Zenon DEF Resize, IsFilling, FilledOnce
<1>3. R(f)
  <2>1. \E x : R(x)
    BY <1>1, FillingExists, Zenon
  <2> QED BY <2>1, Zenon
<1> HIDE DEF f, G
<1>4. \A i \in 0 .. last : f[i] = IF i = 0 THEN FreshParts(h, na, nh)
                                  ELSE FilledOnce(h, na, f[i - 1], i)
  BY <1>3, Zenon DEF IsFilling
<1>5. G(0, f[0])
  <2>1. f[0] = FreshParts(h, na, nh)
    BY <1>1, <1>4
  <2> QED BY <1>1, <2>1, FreshPartsIs DEF FilledUpTo, G
<1>6. \A i \in 1 .. last : G(i - 1, f[i - 1]) => G(i, f[i])
  <2> SUFFICES ASSUME NEW i \in 1 .. last, G(i - 1, f[i - 1]) PROVE G(i, f[i])
    OBVIOUS
  <2>1. f[i] = FilledOnce(h, na, f[i - 1], i)
    BY <1>1, <1>4
  <2> QED BY <2>1, FillOne DEF G
<1> DEFINE T == {i \in Nat : i <= last /\ ~G(i, f[i])}
<1> HIDE DEF last
<1>7. SUFFICES ASSUME T # {} PROVE FALSE
  <2>1. \A i \in 0 .. last : G(i, f[i])
    BY <1>1, <1>7
  <2>2. Fills(h, na, nh, f)
    BY <1>3, <2>1, Zenon DEF G, Fills, last
  <2> QED BY <1>2, <2>2 DEF last
<1>8. PICK i \in T : \A j \in T : i <= j
  BY <1>7, Least
<1>9. i # 0
  BY <1>5, <1>8
<1>10. i - 1 \in Nat /\ i - 1 \notin T /\ i \in 1 .. last
  BY <1>1, <1>8, <1>9
<1>11. i - 1 <= last
  BY <1>1, <1>8
<1>12. G(i - 1, f[i - 1])
  BY <1>10, <1>11
<1>13. G(i, f[i])
  BY <1>6, <1>10, <1>12
<1> QED BY <1>8, <1>13

LEMMA ResizeOK ==
  ASSUME NEW h, TableOK(h), NEW na, NEW nh, Fits(h, na, nh)
  PROVE  Resized(h, na, nh, Resize(h, na, nh))
<1> DEFINE last == LostSlice(h, na) + SizeNode(h)
<1>1. last \in 0 .. last
  BY TableParts DEF TableOK, Fits, LostSlice
<1>2. PICK f : Fills(h, na, nh, f) /\ Resize(h, na, nh) = f[last]
  BY ResizeFills
<1>3. FilledUpTo(h, na, nh, last, f[last])
  BY <1>1, <1>2 DEF Fills
<1> QED BY <1>2, <1>3 DEF FilledUpTo, Resized

-----------------------------------------------------------------------------
(* The sizes that rehash chooses. *)

\* Beyond the array part of a table without nodes there is nothing.
LEMMA NothingBeyond ==
  ASSUME NEW h, TableOK(h), IsDummy(h), NEW k \in Keys, ~InArray(h, k)
  PROVE  Get(h, k) = Nil
  BY DEF Get, NodeOf, FirstNode

\* The array part that adjustasize settles on is not smaller, and the key
\* after it is neither in the table nor the one to be added.
LEMMA AdjustASizeIs ==
  ASSUME NEW h, TableOK(h), NEW size \in Nat, NEW extra \in Keys \cup {NoKey}
  PROVE  LET na == AdjustASize(h, size, extra)
         IN  na \in Nat /\ size <= na /\ na + 1 # extra /\ na + 1 \notin HashKeys(h, na)
<1> DEFINE tbound == ~IsDummy(h) \/ size < SizeArray(h)
           inside(s) == s + 1 = extra
                        \/ (tbound /\ s + 1 \in IntKeys /\ Get(h, s + 1) # Nil)
           C == Cardinality(IntKeys)
           S == {s \in size .. size + C : ~inside(s) /\ \A r \in size .. s - 1 : inside(r)}
           na == AdjustASize(h, size, extra)
<1>1. na = Smallest(S)
  BY Zenon DEF AdjustASize
<1>2. IntKeys \subseteq Keys /\ IsFiniteSet(IntKeys) /\ C \in Nat
  BY KeysFinite, NumberKeys
<1>3. \A s \in Int : inside(s) => s + 1 \in IntKeys
  <2>1. \A s \in Int : s + 1 = extra => s + 1 \in IntKeys
    BY TableAssumption DEF Keys
  <2> QED BY <2>1
<1> HIDE DEF inside, na, C
<1>4. \E s \in size .. size + C : ~inside(s)
  <2> SUFFICES ASSUME \A s \in size .. size + C : inside(s) PROVE FALSE
    OBVIOUS
  <2> DEFINE J == size + 1 .. size + C + 1
  <2>1. J \subseteq IntKeys
    <3> SUFFICES ASSUME NEW j \in J PROVE j \in IntKeys
      OBVIOUS
    <3>1. j - 1 \in size .. size + C /\ j - 1 \in Int /\ (j - 1) + 1 = j
      BY <1>2
    <3>2. inside(j - 1)
      BY <3>1
    <3> QED BY <1>3, <3>1, <3>2
  <2>2. Cardinality(J) = C + 1
    <3>1. size + 1 \in Int /\ size + C + 1 \in Int /\ ~(size + 1 > size + C + 1)
      BY <1>2
    <3>2. Cardinality(J) = (size + C + 1) - (size + 1) + 1
      BY <3>1, FS_Interval
    <3> QED BY <1>2, <3>2
  <2>3. Cardinality(J) <= Cardinality(IntKeys)
    BY <1>2, <2>1, FS_Subset, Zenon
  <2> QED BY <1>2, <2>2, <2>3 DEF C
<1>5. S # {}
  <2> DEFINE T == {s \in Nat : size <= s /\ s <= size + C /\ ~inside(s)}
  <2>1. T # {}
    BY <1>2, <1>4
  <2>2. PICK s \in T : \A r \in T : s <= r
    BY <2>1, Least
  <2>3. s \in size .. size + C /\ ~inside(s)
    BY <1>2, <2>2
  <2>4. \A r \in size .. s - 1 : inside(r)
    <3> SUFFICES ASSUME NEW r \in size .. s - 1, ~inside(r) PROVE FALSE
      OBVIOUS
    <3>1. r \in T
      BY <1>2, <2>3
    <3> QED BY <2>2, <3>1
  <2> QED BY <2>3, <2>4
<1>6. \A s \in S : s \in Int /\ size <= s
  BY <1>2
<1>7. na \in S
  <2> HIDE DEF S
  <2> QED BY <1>1, <1>5, <1>6, SmallestOf
<1>8. na \in Nat /\ size <= na /\ ~inside(na)
  BY <1>2, <1>7
<1>9. na + 1 # extra
  BY <1>8 DEF inside
<1>10. na + 1 \notin HashKeys(h, na)
  <2> SUFFICES ASSUME na + 1 \in Keys, Get(h, na + 1) # Nil PROVE FALSE
    BY DEF HashKeys
  <2>1. na + 1 \in IntKeys
    BY <1>8, NumberKeys
  <2>2. ~tbound
    BY <1>8, <2>1 DEF inside
  <2>3. SizeArray(h) \in Nat
    BY TableParts DEF TableOK
  <2>4. ~InArray(h, na + 1)
    BY <1>8, <2>2, <2>3 DEF InArray
  <2> QED BY <2>2, <2>4, NothingBeyond
<1> QED BY <1>8, <1>9, <1>10 DEF na

\* computesizes answers a size.
LEMMA ArraySizeForIs ==
  ASSUME NEW ints, ints \subseteq Keys
  PROVE  ArraySizeFor(ints) \in Nat
<1> DEFINE upTo(i) == Cardinality({c \in ints : c <= TwoTo(i)})
           good == {i \in 0 .. Cardinality(ints) :
                      /\ TwoTo(i) \div 2 < Cardinality(ints)
                      /\ upTo(i) > IF i = 0 THEN 0 ELSE upTo(i - 1)
                      /\ upTo(i) > TwoTo(i) \div 2}
<1>1. Cardinality(ints) \in Nat
  BY KeysFinite
<1>2. ArraySizeFor(ints) = IF good = {} THEN 0 ELSE TwoTo(Biggest(good))
  BY Zenon DEF ArraySizeFor
<1>3. \A i \in good : i \in Nat /\ i \in Int /\ i <= Cardinality(ints)
  BY <1>1
<1> HIDE DEF good
<1>4. CASE good # {}
  <2>1. Biggest(good) \in good
    BY <1>1, <1>3, <1>4, BiggestOf
  <2> QED BY <1>2, <1>3, <1>4, <2>1, TwoToGrows
<1>5. CASE good = {}
  BY <1>2, <1>5
<1> QED BY <1>4, <1>5

\* The next power of two.
LEMMA TwoToStep ==
  ASSUME NEW n \in Nat
  PROVE  TwoTo(0) = 1 /\ TwoTo(n + 1) = 2 * TwoTo(n)
<1> DEFINE R(m, f) == f = [i \in 0 .. m |-> IF i = 0 THEN 1 ELSE 2 * f[i - 1]]
           p(m) == CHOOSE f : R(m, f)
<1>1. \A m \in Nat : R(m, p(m)) /\ TwoTo(m) = p(m)[m]
  BY PowerExists DEF TwoTo
<1> HIDE DEF p
<1>2. TwoTo(0) = 1
  BY <1>1
<1> DEFINE q == p(n)
           r == p(n + 1)
<1>3. /\ \A i \in 0 .. n : q[i] = IF i = 0 THEN 1 ELSE 2 * q[i - 1]
      /\ \A i \in 0 .. n + 1 : r[i] = IF i = 0 THEN 1 ELSE 2 * r[i - 1]
      /\ TwoTo(n) = q[n] /\ TwoTo(n + 1) = r[n + 1]
  <2>1. R(n, q) /\ R(n + 1, r) /\ TwoTo(n) = q[n] /\ TwoTo(n + 1) = r[n + 1]
    BY <1>1
  <2> HIDE DEF q, r
  <2> QED BY <2>1
<1> HIDE DEF q, r
<1> DEFINE T == {i \in Nat : i <= n /\ q[i] # r[i]}
<1>4. T = {}
  <2> SUFFICES ASSUME T # {} PROVE FALSE
    OBVIOUS
  <2>1. PICK i \in T : \A j \in T : i <= j
    BY Least
  <2>2. i # 0
    BY <1>3, <2>1
  <2>3. i - 1 \in Nat /\ i - 1 \notin T
    BY <2>1, <2>2
  <2>4. q[i] = 2 * q[i - 1] /\ r[i] = 2 * r[i - 1]
    BY <1>3, <2>1, <2>2
  <2> QED BY <2>1, <2>3, <2>4
<1>5. q[n] = r[n]
  BY <1>4
<1>6. r[n + 1] = 2 * r[n]
  BY <1>3
<1> QED BY <1>2, <1>3, <1>5, <1>6

\* Bigger exponents, bigger powers.
LEMMA TwoToMonotonic ==
  ASSUME NEW i \in Nat, NEW k \in Nat, i <= k
  PROVE  TwoTo(i) <= TwoTo(k)
<1> DEFINE T == {j \in Nat : i <= j /\ ~(TwoTo(i) <= TwoTo(j))}
<1> SUFFICES ASSUME T # {} PROVE FALSE
  OBVIOUS
<1>1. PICK j \in T : \A l \in T : j <= l
  BY Least
<1>2. TwoTo(i) \in Nat
  BY TwoToGrows
<1>3. j # i
  BY <1>1, <1>2
<1>4. j - 1 \in Nat /\ j - 1 \notin T /\ i <= j - 1 /\ (j - 1) + 1 = j
  BY <1>1, <1>3
<1>5. TwoTo(j) = 2 * TwoTo(j - 1) /\ TwoTo(j - 1) \in Nat
  BY <1>4, TwoToStep, TwoToGrows
<1>6. TwoTo(i) <= TwoTo(j - 1)
  BY <1>4
<1> QED BY <1>1, <1>2, <1>5, <1>6

\* A list that is in the table fits into the array part that computesizes
\* chooses.
LEMMA ArraySizeCovers ==
  ASSUME NEW ints, ints \subseteq Keys, ints \subseteq Int, NEW m \in Nat, 1 .. m \subseteq ints
  PROVE  m <= ArraySizeFor(ints)
<1> DEFINE C(i) == {c \in ints : c <= TwoTo(i)}
           upTo(i) == Cardinality(C(i))
           good == {i \in 0 .. Cardinality(ints) :
                      /\ TwoTo(i) \div 2 < Cardinality(ints)
                      /\ upTo(i) > IF i = 0 THEN 0 ELSE upTo(i - 1)
                      /\ upTo(i) > TwoTo(i) \div 2}
<1>1. IsFiniteSet(ints) /\ Cardinality(ints) \in Nat
  BY KeysFinite
<1>2. ArraySizeFor(ints) = IF good = {} THEN 0 ELSE TwoTo(Biggest(good))
  BY Zenon DEF ArraySizeFor
<1>3. \A i : IsFiniteSet(C(i)) /\ upTo(i) \in Nat
  <2> SUFFICES ASSUME NEW i PROVE IsFiniteSet(C(i)) /\ upTo(i) \in Nat
    OBVIOUS
  <2>1. C(i) \subseteq Keys
    OBVIOUS
  <2> QED BY <2>1, KeysFinite
<1>4. ArraySizeFor(ints) \in Nat
  BY ArraySizeForIs
<1>5. CASE m = 0
  BY <1>4, <1>5
<1>6. CASE m # 0
  <2> DEFINE P == {i \in Nat : m <= TwoTo(i)}
  <2>1. m \in P
    BY TwoToGrows
  <2>2. PICK i \in P : \A j \in P : i <= j
    BY <2>1, Least
  <2>3. TwoTo(i) \in Nat /\ m <= TwoTo(i)
    BY <2>2, TwoToGrows
  <2>4. IsFiniteSet(1 .. m) /\ Cardinality(1 .. m) = m
    BY FS_Interval
  <2>5. m <= Cardinality(ints)
    <3>1. Cardinality(1 .. m) <= Cardinality(ints)
      BY <1>1, FS_Subset, Zenon
    <3> QED BY <2>4, <3>1
  <2>6. 1 .. m \subseteq C(i)
    BY <2>3
  <2>7. m <= upTo(i)
    <3>1. Cardinality(1 .. m) <= upTo(i)
      BY <1>3, <2>6, FS_Subset, Zenon
    <3> QED BY <2>4, <3>1
  <2>8. i \in good
    <3>1. CASE i = 0
      <4>1. TwoTo(i) = 1
        BY <3>1, TwoToStep
      <4> HIDE DEF upTo, C
      <4> QED BY <1>1, <1>3, <1>6, <2>5, <2>7, <3>1, <4>1
    <3>2. CASE i # 0
      <4> DEFINE b == TwoTo(i - 1)
      <4>1. i - 1 \in Nat /\ i - 1 \notin P /\ (i - 1) + 1 = i
        BY <2>2, <3>2
      <4>2. b \in Nat /\ b < m /\ b > i - 1
        BY <4>1, TwoToGrows
      <4>3. TwoTo(i) = 2 * b
        BY <4>1, TwoToStep
      <4>4. TwoTo(i) \div 2 = b
        BY <4>2, <4>3
      <4>5. C(i - 1) \cup {m} \subseteq C(i) /\ m \notin C(i - 1)
        <5>1. m \in C(i)
          BY <1>6, <2>6
        <5>2. \A c \in C(i - 1) : c \in C(i)
          BY <4>2, <4>3
        <5>3. m \notin C(i - 1)
          BY <4>2
        <5> HIDE DEF C
        <5> QED BY <5>1, <5>2, <5>3
      <4> HIDE DEF C
      <4>6. Cardinality(C(i - 1) \cup {m}) = Cardinality(C(i - 1)) + 1
        BY <1>3, <4>5, FS_AddElement
      <4>7. Cardinality(C(i - 1) \cup {m}) <= Cardinality(C(i))
        BY <1>3, <4>5, FS_Subset, Zenon
      <4>8. upTo(i) > upTo(i - 1)
        BY <1>3, <4>6, <4>7
      <4> HIDE DEF upTo, b
      <4>9. i \in 0 .. Cardinality(ints) /\ b < Cardinality(ints) /\ upTo(i) > b
        BY <1>1, <1>3, <2>2, <2>5, <2>7, <4>2
      <4> QED BY <3>2, <4>4, <4>8, <4>9
    <3> QED BY <3>1, <3>2
  <2>9. \A j \in good : j \in Nat /\ j \in Int /\ j <= Cardinality(ints)
    BY <1>1
  <2> HIDE DEF good
  <2>10. good # {}
    BY <2>8
  <2>11. Biggest(good) \in good /\ i <= Biggest(good)
    <3>1. Biggest(good) \in good /\ \A j \in good : j <= Biggest(good)
      BY <1>1, <2>9, <2>10, BiggestOf
    <3> QED BY <2>8, <3>1
  <2>12. TwoTo(i) <= TwoTo(Biggest(good)) /\ TwoTo(Biggest(good)) \in Nat
    BY <2>2, <2>9, <2>11, TwoToMonotonic, TwoToGrows
  <2> QED BY <1>2, <2>3, <2>10, <2>12
<1> QED BY <1>5, <1>6

\* The keys of the nodes in use are no more than those nodes.
LEMMA NodeKeysFew ==
  ASSUME NEW h, TableOK(h)
  PROVE  LET K == {h.node[i].key : i \in UsedNodes(h)}
         IN  K \subseteq Keys /\ Cardinality(K) <= Cardinality(UsedNodes(h))
             /\ Cardinality(UsedNodes(h)) \in Nat
<1> DEFINE U == UsedNodes(h)
           K == {h.node[i].key : i \in U}
           f == [k \in K |-> CHOOSE i \in U : h.node[i].key = k]
           n == SizeNode(h)
<1>1. n \in Nat /\ DOMAIN h.node = Slots(n)
  BY TableParts DEF TableOK
<1>2. U \subseteq Slots(n) /\ \A i \in U : h.node[i].key \in Keys
  BY <1>1, UsedNode DEF UsedNodes
<1>3. IsFiniteSet(U)
  BY <1>1, <1>2, SlotsFinite, FS_Subset, Zenon
<1>4. K \subseteq Keys
  BY <1>2
<1>5. f \in [K -> U] /\ \A k \in K : h.node[f[k]].key = k
  OBVIOUS
<1>6. IsFiniteSet(K) /\ Cardinality(K) \in Nat
  BY <1>4, KeysFinite
<1>7. Cardinality(U) \in Nat
  BY <1>3, FS_CardinalityType
<1> HIDE DEF U, K, f
<1>8. ASSUME Cardinality(U) < Cardinality(K) PROVE FALSE
  <2>1. PICK a, b \in K : a # b /\ f[a] = f[b]
    BY <1>3, <1>5, <1>6, <1>8, FS_PigeonHole
  <2> QED BY <1>5, <2>1
<1>9. Cardinality(K) <= Cardinality(U)
  BY <1>6, <1>7, <1>8
<1> QED BY <1>4, <1>7, <1>9 DEF K, U

\* Keys 1 to m are in the table.
Lists(h, m) == \A c \in 1 .. m : c \in Keys /\ Get(h, c) # Nil

\* What rehash counts is enough for every key that stays in the hash part,
\* the new one included; and a list goes to the array part.
LEMMA RehashFits ==
  ASSUME NEW h, TableOK(h), NEW k \in Keys, Get(h, k) = Nil, ~InArray(h, k)
  PROVE  \E na, nh :
           /\ Rehash(h, k) = Resize(h, na, nh) /\ Fits(h, na, nh) /\ na + 1 # k
           /\ k \notin 1 .. na => Cardinality(HashKeys(h, na) \cup {k}) <= nh
           /\ \A m \in Nat : Lists(h, m) => m <= na
<1> DEFINE UA == UsedArray(h)
           UN == UsedNodes(h)
           K == {h.node[i].key : i \in UN}
           A == UA \cup K \cup {k}
           ints == {c \in IntKeys : c > 0 /\
                     (c = k \/ c \in UA \/ \E i \in UN : h.node[i].key = c)}
           total == Cardinality(UA) + Cardinality(UN) + 1
           na0 == ArraySizeFor(ints)
           na == AdjustASize(h, na0, k)
           I == {c \in ints : c <= na0}
           nh == total - Cardinality(I)
           H == HashKeys(h, na)
<1>1. Rehash(h, k) = Resize(h, na, nh)
  BY Zenon DEF Rehash
<1>2. SizeArray(h) \in Nat /\ ArrayKeys(h) /\ DOMAIN h.node = Slots(SizeNode(h))
  BY TableParts DEF TableOK
<1>3. UA \subseteq Keys /\ UA \subseteq 1 .. SizeArray(h) /\ UA \subseteq IntKeys
  BY <1>2, NumberKeys DEF UsedArray, ArrayKeys
<1>4. K \subseteq Keys /\ Cardinality(K) <= Cardinality(UN) /\ Cardinality(UN) \in Nat
  BY NodeKeysFew
<1>5. ints \subseteq Keys /\ ints \subseteq A /\ \A c \in ints : c \in Int /\ c > 0
  BY <1>3, <1>4, NumberKeys
<1>6. na0 \in Nat
  BY <1>5, ArraySizeForIs
<1>7. na \in Nat /\ na0 <= na /\ na + 1 # k /\ na + 1 \notin H
  BY <1>6, AdjustASizeIs
<1>8. \A c \in Keys : Get(h, c) # Nil => c \in UA \cup K
  <2> SUFFICES ASSUME NEW c \in Keys, Get(h, c) # Nil PROVE c \in UA \cup K
    OBVIOUS
  <2>1. CASE InArray(h, c)
    BY <1>2, <2>1 DEF Get, InArray, UsedArray
  <2>2. CASE ~InArray(h, c)
    <3>1. PICK i \in Slots(SizeNode(h)) : h.node[i].key = c /\ h.node[i].val # Nil
      BY <2>2, GetIs
    <3> QED BY <1>2, <3>1 DEF UsedNodes
  <2> QED BY <2>1, <2>2
<1>9. A \subseteq Keys /\ I \subseteq A
  BY <1>3, <1>4, <1>5
<1>23. \A c \in I : c \in 1 .. na
  <2> SUFFICES ASSUME NEW c \in ints, c <= na0 PROVE c \in 1 .. na
    OBVIOUS
  <2>1. c \in Int /\ c > 0
    BY <1>5
  <2> HIDE DEF ints, na0, na
  <2> QED BY <1>6, <1>7, <2>1
<1>24. \A c \in H : c \in A /\ c \notin 1 .. na
  BY <1>8 DEF HashKeys
<1>26. ASSUME NEW m \in Nat, Lists(h, m) PROVE m <= na
  <2>1. 1 .. m \subseteq ints
    <3> SUFFICES ASSUME NEW c \in 1 .. m PROVE c \in ints
      OBVIOUS
    <3>1. c \in Keys /\ Get(h, c) # Nil /\ c \in Int /\ c > 0
      BY <1>26 DEF Lists
    <3>2. c \in IntKeys /\ (c \in UA \/ c \in K)
      BY <1>8, <3>1, NumberKeys
    <3> QED BY <3>1, <3>2
  <2>2. ints \subseteq Int
    BY <1>5
  <2> HIDE DEF ints, na0, na
  <2>3. m <= ArraySizeFor(ints)
    BY <1>5, <2>1, <2>2, ArraySizeCovers
  <2> QED BY <1>6, <1>7, <2>3 DEF na0
<1>25. k \in A
  OBVIOUS
<1> HIDE DEF A, I, H, na
<1>10. H \subseteq A \ I
  BY <1>23, <1>24
<1>11. k \notin 1 .. na => H \cup {k} \subseteq A \ I
  BY <1>10, <1>23, <1>25
<1>12. UA \cup K \subseteq Keys /\ I \subseteq Keys /\ UA \cap K \subseteq Keys
  BY <1>3, <1>4, <1>9
<1> HIDE DEF A, I, H, na, na0, ints, K, UA, UN
<1>13. /\ IsFiniteSet(UA) /\ IsFiniteSet(K) /\ IsFiniteSet(A) /\ IsFiniteSet(A \ I)
       /\ IsFiniteSet(UA \cup K) /\ Cardinality(UA) \in Nat /\ Cardinality(K) \in Nat
       /\ Cardinality(UA \cup K) \in Nat /\ Cardinality(UA \cap K) \in Nat
       /\ Cardinality(A) \in Nat /\ Cardinality(I) \in Nat /\ Cardinality(A \ I) \in Nat
  <2>1. A \ I \subseteq Keys
    BY <1>9
  <2> QED BY <1>3, <1>4, <1>9, <1>12, <2>1, KeysFinite
<1>14. Cardinality(UA \cup K) <= Cardinality(UA) + Cardinality(K)
  <2>1. Cardinality(UA \cup K) = Cardinality(UA) + Cardinality(K) - Cardinality(UA \cap K)
    BY <1>13, FS_Union
  <2> QED BY <1>13, <2>1
<1>15. Cardinality(A) <= total
  <2>1. Cardinality((UA \cup K) \cup {k}) =
          IF k \in UA \cup K THEN Cardinality(UA \cup K) ELSE Cardinality(UA \cup K) + 1
    BY <1>13, FS_AddElement
  <2>2. A = (UA \cup K) \cup {k}
    BY DEF A
  <2> QED BY <1>4, <1>13, <1>14, <2>1, <2>2
<1>16. Cardinality(A \ I) = Cardinality(A) - Cardinality(I)
  <2>1. A \cap I = I
    BY <1>9
  <2>2. Cardinality(A \ I) = Cardinality(A) - Cardinality(A \cap I)
    BY <1>13, FS_Difference
  <2> QED BY <2>1, <2>2
<1>17. total \in Nat
  BY <1>4, <1>13
<1> HIDE DEF total
<1>18. Cardinality(A \ I) <= nh /\ nh \in Nat
  BY <1>13, <1>15, <1>16, <1>17
<1> HIDE DEF nh
<1>19. \A S : S \subseteq A \ I => Cardinality(S) <= nh
  <2> SUFFICES ASSUME NEW S, S \subseteq A \ I PROVE Cardinality(S) <= nh
    OBVIOUS
  <2>1. IsFiniteSet(S) /\ Cardinality(S) <= Cardinality(A \ I)
    BY <1>13, FS_Subset, Zenon
  <2>2. Cardinality(S) \in Nat
    BY <2>1, FS_CardinalityType
  <2> QED BY <1>13, <1>18, <2>1, <2>2
<1>20. Cardinality(H) <= nh
  BY <1>10, <1>19
<1>21. k \notin 1 .. na => Cardinality(H \cup {k}) <= nh
  BY <1>11, <1>19
<1>22. Fits(h, na, nh)
  BY <1>7, <1>18, <1>20 DEF Fits, H
<1> QED BY <1>1, <1>7, <1>21, <1>22, <1>26 DEF H

\* So there is room for the new key afterwards.
LEMMA RehashRoom ==
  ASSUME NEW h, TableOK(h), NEW k \in Keys, Get(h, k) = Nil, ~InArray(h, k)
  PROVE  LET g == Rehash(h, k)
         IN  /\ TableOK(g) /\ Absent(g, k)
             /\ ~InArray(g, k) => ~NeedsRehash(g, k)
<1>1. PICK na, nh :
        /\ Rehash(h, k) = Resize(h, na, nh) /\ Fits(h, na, nh) /\ na + 1 # k
        /\ k \notin 1 .. na => Cardinality(HashKeys(h, na) \cup {k}) <= nh
  BY RehashFits
<1> DEFINE g == Rehash(h, k)
           H == HashKeys(h, na)
<1>2. Resized(h, na, nh, g)
  BY <1>1, ResizeOK
<1> HIDE DEF g
<1>3. na \in Nat /\ nh \in Nat
  BY <1>1 DEF Fits
<1>4. TableOK(g) /\ SizeArray(g) = na /\ nh <= SizeNode(g) /\ SizeNode(g) \in Nat
  BY <1>2, <1>3, PowerAtLeastIs DEF Resized
<1>5. \A j \in Slots(SizeNode(g)) : Taken(g.node, j) => ~g.node[j].dead /\ g.node[j].key \in H
  BY <1>2 DEF Resized
<1>6. H \subseteq Keys /\ k \notin H
  BY DEF HashKeys
<1>7. Absent(g, k)
  BY <1>5, <1>6 DEF Absent
<1>8. ASSUME ~InArray(g, k) PROVE ~NeedsRehash(g, k)
  <2>1. k \notin 1 .. na
    <3> SUFFICES ASSUME k \in 1 .. na PROVE FALSE
      OBVIOUS
    <3>1. k \in Int
      BY <1>3
    <3> QED BY <1>4, <1>8, <3>1, NumberKeys DEF InArray
  <2> HIDE DEF H
  <2>2. IsFiniteSet(H) /\ Cardinality(H) \in Nat
    BY <1>6, KeysFinite
  <2>3. Cardinality(H \cup {k}) = Cardinality(H) + 1
    BY <1>6, <2>2, FS_AddElement
  <2>4. Cardinality(H \cup {k}) <= nh
    BY <1>1, <2>1 DEF H
  <2>5. Cardinality(H) < SizeNode(g)
    BY <1>3, <1>4, <2>2, <2>3, <2>4
  <2>6. FreePos(g) # -1
    BY <1>4, <1>5, <2>2, <2>5, RoomIsLeft
  <2>7. ~IsDummy(g)
    BY <2>2, <2>5 DEF IsDummy
  <2>8. k # na + 1
    BY <1>1
  <2> QED BY <1>4, <2>6, <2>7, <2>8 DEF NeedsRehash
<1> QED BY <1>4, <1>7, <1>8 DEF g

\* And it is stored.
LEMMA RehashOK ==
  ASSUME NEW h, TableOK(h), NEW k \in Keys, NEW v \in Values \cup {Nil},
         Get(h, k) = Nil, ~InArray(h, k)
  PROVE  TableOK(StoreFresh(Rehash(h, k), k, v))
<1> DEFINE g == Rehash(h, k)
<1>1. TableOK(g) /\ Absent(g, k) /\ (~InArray(g, k) => ~NeedsRehash(g, k))
  BY RehashRoom
<1> HIDE DEF g
<1>2. Stored(g, StoreFresh(g, k, v), k, v)
  BY <1>1, StoreFreshOK
<1> QED BY <1>2 DEF Stored, g

\* Any store.
LEMMA SetOK ==
  ASSUME NEW h, TableOK(h), NEW k \in Keys, NEW v \in Values \cup {Nil}
  PROVE  TableOK(Set(h, k, v))
<1>1. CASE InArray(h, k)
  <2>1. k \in 1 .. SizeArray(h) /\ k \in IntKeys
    BY <1>1 DEF InArray
  <2>2. Set(h, k, v) = [h EXCEPT !.array[k] = v]
    BY <1>1, Zenon DEF Set
  <2> QED BY <2>1, <2>2, StoreArrayOK
<1>2. CASE ~InArray(h, k) /\ NodeOf(h, k) # -1
  <2> DEFINE i == NodeOf(h, k)
  <2>1. SizeNode(h) \in Nat /\ NodesOK(SizeNode(h), h.node)
    BY TableParts DEF TableOK
  <2>2. i \in Slots(SizeNode(h)) /\ Taken(h.node, i) /\ ~h.node[i].dead
    BY <1>2, <2>1, FirstNodeIs DEF NodeOf
  <2>3. Set(h, k, v) = [h EXCEPT !.node[i].val = v]
    BY <1>2, Zenon DEF Set
  <2> HIDE DEF i
  <2> QED BY <2>2, <2>3, StoreNodeOK
<1>3. CASE ~InArray(h, k) /\ NodeOf(h, k) = -1
  <2>1. Get(h, k) = Nil
    BY <1>3 DEF Get
  <2>2. CASE NeedsRehash(h, k)
    <3>1. Set(h, k, v) = StoreFresh(Rehash(h, k), k, v)
      BY <1>3, <2>2, Zenon DEF Set
    <3> QED BY <1>3, <2>1, <3>1, RehashOK
  <2>3. CASE ~NeedsRehash(h, k)
    <3>1. Set(h, k, v) = PlaceKey(h, k, v)
      BY <1>3, <2>3, Zenon DEF Set
    <3>2. SizeNode(h) \in Nat /\ NodesOK(SizeNode(h), h.node)
      BY TableParts DEF TableOK
    <3>3. Absent(h, k)
      BY <1>3, <3>2, NotFound DEF Absent
    <3>4. Stored(h, PlaceKey(h, k, v), k, v)
      BY <1>3, <2>3, <3>3, PlaceKeyStores
    <3> QED BY <3>1, <3>4 DEF Stored
  <2> QED BY <2>2, <2>3
<1> QED BY <1>1, <1>2, <1>3

-----------------------------------------------------------------------------
(* The other callers of resize. *)

\* The entries outside an array part that is not cut are in nodes.
LEMMA HashKeysFew ==
  ASSUME NEW h, TableOK(h), NEW na \in Nat, SizeArray(h) <= na
  PROVE  /\ Cardinality(HashKeys(h, na)) <= Cardinality(UsedNodes(h))
         /\ Cardinality(UsedNodes(h)) <= SizeNode(h)
         /\ Cardinality(UsedNodes(h)) \in Nat
<1> DEFINE U == UsedNodes(h)
           K == {h.node[i].key : i \in U}
           H == HashKeys(h, na)
           n == SizeNode(h)
<1>1. n \in Nat /\ DOMAIN h.node = Slots(n) /\ SizeArray(h) \in Nat
  BY TableParts DEF TableOK
<1>2. K \subseteq Keys /\ Cardinality(K) <= Cardinality(U) /\ Cardinality(U) \in Nat
  BY NodeKeysFew
<1>3. H \subseteq K
  <2> SUFFICES ASSUME NEW c \in H PROVE c \in K
    OBVIOUS
  <2>1. c \in Keys /\ Get(h, c) # Nil /\ c \notin 1 .. na
    BY DEF HashKeys
  <2>2. ~InArray(h, c)
    BY <1>1, <2>1 DEF InArray
  <2>3. PICK i \in Slots(n) : h.node[i].key = c /\ h.node[i].val # Nil
    BY <2>1, <2>2, GetIs
  <2> QED BY <1>1, <2>3 DEF UsedNodes
<1>4. H \subseteq Keys /\ U \subseteq Slots(n)
  BY <1>1 DEF HashKeys, UsedNodes
<1> HIDE DEF H, K, U, n
<1>5. IsFiniteSet(K) /\ Cardinality(K) \in Nat /\ Cardinality(H) \in Nat
  BY <1>2, <1>4, KeysFinite
<1>6. Cardinality(H) <= Cardinality(K)
  BY <1>3, <1>5, FS_Subset, Zenon
<1>7. IsFiniteSet(Slots(n)) /\ Cardinality(Slots(n)) = n
  BY <1>1, SlotsFinite
<1>8. Cardinality(U) <= Cardinality(Slots(n))
  BY <1>4, <1>7, FS_Subset, Zenon
<1>9. Cardinality(H) <= Cardinality(U) /\ Cardinality(U) <= n
  BY <1>2, <1>5, <1>6, <1>7, <1>8
<1> QED BY <1>2, <1>9 DEF H, U, n

\* luaH_resizearray, which is only called to make the array part bigger.
LEMMA ResizeArrayFits ==
  ASSUME NEW h, TableOK(h), NEW last \in Nat, SizeArray(h) < last
  PROVE  \E na \in Nat : /\ ResizeArray(h, last) = Resize(h, na, SizeNode(h))
                         /\ Fits(h, na, SizeNode(h)) /\ last <= na
<1> DEFINE na == AdjustASize(h, last, NoKey)
<1>1. na \in Nat /\ last <= na /\ na + 1 \notin HashKeys(h, na)
  BY AdjustASizeIs
<1>2. ResizeArray(h, last) = Resize(h, na, SizeNode(h))
  BY DEF ResizeArray
<1> HIDE DEF na
<1>3. SizeNode(h) \in Nat /\ SizeArray(h) \in Nat
  BY TableParts DEF TableOK
<1>4. SizeArray(h) <= na
  BY <1>1, <1>3
<1>5. /\ Cardinality(HashKeys(h, na)) <= Cardinality(UsedNodes(h))
      /\ Cardinality(UsedNodes(h)) <= SizeNode(h)
      /\ Cardinality(UsedNodes(h)) \in Nat
  BY <1>1, <1>4, HashKeysFew
<1>6. HashKeys(h, na) \subseteq Keys
  BY DEF HashKeys
<1>7. Cardinality(HashKeys(h, na)) \in Nat
  BY <1>6, KeysFinite
<1>8. Fits(h, na, SizeNode(h))
  BY <1>1, <1>3, <1>5, <1>7 DEF Fits
<1> QED BY <1>1, <1>2, <1>8

\* So it keeps the invariant.
LEMMA ResizeArrayOK ==
  ASSUME NEW h, TableOK(h), NEW last \in Nat, SizeArray(h) < last
  PROVE  LET g == ResizeArray(h, last)
         IN  TableOK(g) /\ SizeArray(g) \in Nat /\ last <= SizeArray(g)
  BY ResizeArrayFits, ResizeOK DEF Resized

\* luaH_resizehash to the number of nodes in use.
LEMMA ResizeHashFits ==
  ASSUME NEW h, TableOK(h)
  PROVE  Fits(h, SizeArray(h), Cardinality(UsedNodes(h)))
<1> DEFINE na == SizeArray(h)
<1>1. na \in Nat
  BY TableParts DEF TableOK
<1>2. /\ Cardinality(HashKeys(h, na)) <= Cardinality(UsedNodes(h))
      /\ Cardinality(UsedNodes(h)) \in Nat
  BY <1>1, HashKeysFew
<1>3. na + 1 \notin HashKeys(h, na)
  BY BorderIsFree DEF HashKeys
<1> QED BY <1>1, <1>2, <1>3 DEF Fits

\* So it keeps the invariant.
LEMMA ResizeHashOK ==
  ASSUME NEW h, TableOK(h)
  PROVE  TableOK(ResizeHash(h, Cardinality(UsedNodes(h))))
  BY ResizeHashFits, ResizeOK DEF ResizeHash, Resized

-----------------------------------------------------------------------------
(* moveelements. *)

\* Its recursion, and that it defines a function.
Copied(fast, f, dest, acc, i) ==
  IF fast THEN [acc EXCEPT !.array[dest + i] = acc.array[f + i]]
  ELSE Set(acc, dest + i, Get(acc, f + i))
IsMoving(h, fast, up, f, dest, n, m, g) ==
  g = [i \in 0 .. m |-> IF i = 0 THEN h
         ELSE Copied(fast, f, dest, g[i - 1], IF up THEN i - 1 ELSE n - i)]

\* There is such a function.
LEMMA MovingExists ==
  ASSUME NEW h, NEW fast, NEW up, NEW f, NEW dest, NEW n, NEW l \in Nat
  PROVE  \E g : IsMoving(h, fast, up, f, dest, n, l, g)
<1> DEFINE R(m, g) == IsMoving(h, fast, up, f, dest, n, m, g)
           T == {m \in Nat : ~ \E g : R(m, g)}
           s(p, i) == Copied(fast, f, dest, p, IF up THEN i - 1 ELSE n - i)
<1> HIDE DEF R, s
<1>1. SUFFICES ASSUME T # {} PROVE FALSE
  BY DEF R
<1>2. PICK m \in T : \A k \in T : m <= k
  BY <1>1, Least
<1>3. CASE m = 0
  <2> DEFINE g == [i \in 0 .. 0 |-> h]
  <2>1. g = [i \in 0 .. 0 |-> IF i = 0 THEN h ELSE s(g[i - 1], i)]
    OBVIOUS
  <2>2. R(0, g)
    BY <2>1, Zenon DEF R, IsMoving, s
  <2> QED BY <1>2, <1>3, <2>2
<1>4. CASE m # 0
  <2>1. m - 1 \in Nat /\ m - 1 \notin T
    BY <1>2, <1>4
  <2>2. PICK p : R(m - 1, p)
    BY <2>1
  <2> DEFINE g == [i \in 0 .. m |-> IF i < m THEN p[i] ELSE s(p[m - 1], m)]
  <2>3. \A i \in 0 .. m - 1 : p[i] = IF i = 0 THEN h ELSE s(p[i - 1], i)
    BY <2>2, Zenon DEF R, IsMoving, s
  <2>4. \A i \in 0 .. m : i # 0 => i - 1 \in 0 .. m /\ i - 1 < m /\ i - 1 \in 0 .. m - 1
    BY <1>4
  <2>5. \A i \in 0 .. m : i # 0 => g[i - 1] = p[i - 1]
    BY <2>4
  <2>6. \A i \in 0 .. m : i < m => g[i] = p[i] /\ i \in 0 .. m - 1
    BY <1>4
  <2>7. m \in 0 .. m /\ g[m] = s(p[m - 1], m) /\ \A i \in 0 .. m : ~(i < m) => i = m
    BY <1>4
  <2> HIDE DEF g
  <2>8. \A i \in 0 .. m : g[i] = IF i = 0 THEN h ELSE s(g[i - 1], i)
    BY <1>4, <2>3, <2>5, <2>6, <2>7
  <2>9. g = [i \in 0 .. m |-> IF i = 0 THEN h ELSE s(g[i - 1], i)]
    BY <2>8 DEF g
  <2>10. R(m, g)
    BY <2>9, Zenon DEF R, IsMoving, s
  <2> QED BY <1>2, <2>10
<1> QED BY <1>3, <1>4

\* When it copies array slots, and in which order.
FastMove(h, f, e, dest) ==
  /\ f - 1 \in 0 .. SizeArray(h) - 1 /\ f - 1 + (e - f + 1) <= SizeArray(h)
  /\ dest - 1 \in 0 .. SizeArray(h) - 1
  /\ dest - 1 + (e - f + 1) <= SizeArray(h)
Upwards(f, e, dest) == dest > e \/ dest <= f

\* The tables on the way.
Moves(h, f, e, dest, g) ==
  /\ g[0] = h
  /\ \A i \in 1 .. e - f + 1 :
       g[i] = Copied(FastMove(h, f, e, dest), f, dest, g[i - 1],
                     IF Upwards(f, e, dest) THEN i - 1 ELSE e - f + 1 - i)
  /\ \A i \in 0 .. e - f + 1 :
       TableOK(g[i]) /\ (FastMove(h, f, e, dest) => SizeArray(g[i]) = SizeArray(h))

\* Elements are moved between keys that the table may have.
LEMMA MoveElementsSteps ==
  ASSUME NEW h, TableOK(h), NEW f \in Int, NEW e \in Int, NEW dest \in Int, f <= e + 1,
         \A i \in 0 .. e - f : f + i \in IntKeys /\ dest + i \in IntKeys
  PROVE  \E g : Moves(h, f, e, dest, g) /\ MoveElements(h, f, e, dest) = g[e - f + 1]
<1> DEFINE n == e - f + 1
           fast == FastMove(h, f, e, dest)
           up == Upwards(f, e, dest)
           R(g) == IsMoving(h, fast, up, f, dest, n, n, g)
           moved == CHOOSE g : R(g)
           G(g) == TableOK(g) /\ (fast => SizeArray(g) = SizeArray(h))
<1>1. n \in Nat /\ SizeArray(h) \in Nat
  BY TableParts DEF TableOK
<1>2. MoveElements(h, f, e, dest) = moved[n]
  BY Zenon DEF MoveElements, IsMoving, Copied, FastMove, Upwards
<1>3. R(moved)
  <2>1. \E g : R(g)
    BY <1>1, MovingExists, Zenon
  <2> QED BY <2>1, Zenon
<1>4. \A i \in 0 .. n : moved[i] = IF i = 0 THEN h
        ELSE Copied(fast, f, dest, moved[i - 1], IF up THEN i - 1 ELSE n - i)
  BY <1>3, Zenon DEF IsMoving
<1> HIDE DEF moved, up
<1>5. G(moved[0])
  <2> HIDE DEF n, fast
  <2>1. moved[0] = h
    BY <1>1, <1>4
  <2> QED BY <2>1
<1>6. ASSUME NEW g, G(g), NEW i \in 0 .. n - 1 PROVE G(Copied(fast, f, dest, g, i))
  <2>1. i \in 0 .. e - f /\ i \in Nat
    BY <1>1
  <2>2. f + i \in IntKeys /\ dest + i \in IntKeys /\ IntKeys \subseteq Keys
    BY <2>1, NumberKeys
  <2>3. CASE fast
    <3>1. f + i \in 1 .. SizeArray(h) /\ dest + i \in 1 .. SizeArray(h)
      BY <1>1, <2>1, <2>3 DEF FastMove
    <3>2. TableOK(g) /\ SizeArray(g) = SizeArray(h) /\ g.array \in Seq(Values \cup {Nil})
      BY <1>6, <2>3, TableParts DEF TableOK
    <3> DEFINE v == g.array[f + i]
               k == dest + i
               g2 == [g EXCEPT !.array[k] = v]
    <3>3. v \in Values \cup {Nil}
      BY <3>1, <3>2 DEF SizeArray
    <3>4. Copied(fast, f, dest, g, i) = g2
      BY <2>3, Zenon DEF Copied
    <3>5. k \in 1 .. SizeArray(g) /\ k \in IntKeys
      BY <2>2, <3>1, <3>2
    <3> HIDE DEF v, k, fast
    <3>6. TableOK(g2) /\ SizeArray(g2) = SizeArray(g)
      BY <3>2, <3>3, <3>5, StoreArrayOK, ZenonT(60)
    <3> HIDE DEF g2
    <3> QED BY <3>2, <3>4, <3>6
  <2>4. CASE ~fast
    <3>1. Copied(fast, f, dest, g, i) = Set(g, dest + i, Get(g, f + i))
      BY <2>4, Zenon DEF Copied
    <3>2. Get(g, f + i) \in Values \cup {Nil}
      BY <1>6, <2>2, GetIs
    <3>3. TableOK(Set(g, dest + i, Get(g, f + i)))
      BY <1>6, <2>2, <3>2, SetOK
    <3> QED BY <2>4, <3>1, <3>3
  <2> QED BY <2>3, <2>4
<1> HIDE DEF G, n, fast
<1>7. ASSUME NEW i \in 1 .. n, G(moved[i - 1]) PROVE G(moved[i])
  <2> DEFINE x == IF up THEN i - 1 ELSE n - i
  <2>1. x \in 0 .. n - 1
    BY <1>1
  <2>2. moved[i] = Copied(fast, f, dest, moved[i - 1], x)
    BY <1>1, <1>4
  <2> HIDE DEF x
  <2> QED BY <1>6, <1>7, <2>1, <2>2
<1> DEFINE T == {i \in Nat : i <= n /\ ~G(moved[i])}
<1>8. T = {}
  <2> SUFFICES ASSUME T # {} PROVE FALSE
    OBVIOUS
  <2>1. PICK i \in T : \A j \in T : i <= j
    BY Least
  <2>2. i # 0
    BY <1>5, <2>1
  <2>3. i - 1 \in Nat /\ i - 1 \notin T /\ i \in 1 .. n /\ i - 1 <= n
    BY <1>1, <2>1, <2>2
  <2>4. G(moved[i])
    BY <1>7, <2>3
  <2> QED BY <2>1, <2>4
<1>9. \A i \in 0 .. n : G(moved[i])
  BY <1>1, <1>8
<1>10. moved[0] = h
  BY <1>1, <1>4
<1>11. \A i \in 1 .. n :
         moved[i] = Copied(fast, f, dest, moved[i - 1], IF up THEN i - 1 ELSE n - i)
  BY <1>1, <1>4
<1>12. Moves(h, f, e, dest, moved)
  BY <1>9, <1>10, <1>11 DEF Moves, G, fast, up, n
<1> QED BY <1>2, <1>12 DEF n

\* So the invariant is kept.
LEMMA MoveElementsOK ==
  ASSUME NEW h, TableOK(h), NEW f \in Int, NEW e \in Int, NEW dest \in Int, f <= e + 1,
         \A i \in 0 .. e - f : f + i \in IntKeys /\ dest + i \in IntKeys
  PROVE  TableOK(MoveElements(h, f, e, dest))
<1>1. PICK g : Moves(h, f, e, dest, g) /\ MoveElements(h, f, e, dest) = g[e - f + 1]
  BY MoveElementsSteps
<1>2. e - f + 1 \in 0 .. e - f + 1
  OBVIOUS
<1> QED BY <1>1, <1>2 DEF Moves

-----------------------------------------------------------------------------
(* The calls. *)

\* Elements that a constructor or another table provides.
LEMMA ListIs ==
  ASSUME NEW list \in BoundedSeq(Values \cup {Nil}, MaxArray)
  PROVE  /\ Len(list) \in Nat /\ list = [i \in 1 .. Len(list) |-> list[i]]
         /\ \A i \in 1 .. Len(list) : list[i] \in Values \cup {Nil}
         /\ list # <<>> => Len(list) # 0
<1> DEFINE S == Values \cup {Nil}
<1> HIDE DEF S
<1>1. PICK m \in 0 .. MaxArray : list \in [1 .. m -> S]
  BY DEF BoundedSeq, SeqOf, S
<1>2. m \in Nat
  BY TableAssumption
<1>3. list \in Seq(S) /\ Len(list) = m
  BY <1>1, <1>2
<1>4. list = [i \in 1 .. m |-> list[i]] /\ \A i \in 1 .. m : list[i] \in S
  BY <1>1
<1>5. m = 0 => list = <<>>
  BY <1>3
<1> QED BY <1>2, <1>3, <1>4, <1>5 DEF S

\* LOP_SETLIST, which stores into the array part it has made room in.
LEMMA SetListOK ==
  ASSUME TableInv, NEW first \in 1 .. MaxArray,
         NEW list \in BoundedSeq(Values \cup {Nil}, MaxArray), list # <<>>,
         first + Len(list) - 1 <= MaxArray, SetList(first, list)
  PROVE  TableInv'
<1> DEFINE last == first + Len(list) - 1
           h == IF last > SizeArray(t) THEN ResizeArray(t, last) ELSE t
           a == [i \in DOMAIN h.array |->
                   IF i \in first .. last THEN list[i - first + 1] ELSE h.array[i]]
<1>1. TableOK(t) /\ SizeArray(t) \in Nat
  BY TableParts DEF TableInv, TableOK
<1>2. MaxArray \in Nat /\ 1 .. MaxArray \subseteq IntKeys
  BY TableAssumption
<1>3. Len(list) \in Nat /\ \A i \in 1 .. Len(list) : list[i] \in Values \cup {Nil}
  BY ListIs
<1>4. last \in Int /\ first \in Nat /\ 1 <= first /\ last <= MaxArray
  BY <1>2, <1>3
<1>5. last > SizeArray(t) => last \in Nat /\ SizeArray(t) < last
  BY <1>1, <1>4
<1>6. t' = [h EXCEPT !.array = a]
  BY Zenon DEF SetList
<1> HIDE DEF last
<1>7. TableOK(h)
  BY <1>1, <1>5, ResizeArrayOK
<1> HIDE DEF h
<1>8. h.array \in Seq(Values \cup {Nil}) /\ SizeArray(h) \in Nat /\ ArrayKeys(h)
  BY <1>7, TableParts DEF TableOK
<1>9. \A i \in first .. last : i - first + 1 \in 1 .. Len(list)
  BY <1>3, <1>4 DEF last
<1>10. \A i \in DOMAIN h.array : a[i] \in Values \cup {Nil}
  BY <1>3, <1>8, <1>9, SMTT(30)
<1>11. DOMAIN h.array = 1 .. SizeArray(h)
  BY <1>8 DEF SizeArray
<1>12. a \in Seq(Values \cup {Nil}) /\ Len(a) = SizeArray(h)
  BY <1>8, <1>10, <1>11
<1>13. \A i \in 1 .. Len(a) : a[i] # Nil => i \in IntKeys
  <2> SUFFICES ASSUME NEW i \in 1 .. Len(a), a[i] # Nil PROVE i \in IntKeys
    OBVIOUS
  <2>1. CASE i \in first .. last
    BY <1>2, <1>4, <2>1
  <2>2. CASE i \notin first .. last
    BY <1>8, <1>11, <1>12, <2>2 DEF ArrayKeys
  <2> QED BY <2>1, <2>2
<1> HIDE DEF a
<1>14. TableOK(t')
  BY <1>6, <1>7, <1>12, <1>13, ArrayOK
<1>15. CursorOK' /\ (readonly \in BOOLEAN)'
  BY DEF SetList, TableInv, CursorOK, Idle
<1> QED BY <1>14, <1>15 DEF TableInv

\* A loop stays where it is or is given up.
LEMMA LoopKept ==
  ASSUME CursorOK, UNCHANGED cursor \/ cursor' = Idle
  PROVE  CursorOK'
  BY DEF CursorOK, Idle

\* The positions of a traversal.
LEMMA UsedFromIs ==
  ASSUME TableOK(t), NEW p \in Nat, UsedFrom(t, p) # {}
  PROVE  LET q == Smallest(UsedFrom(t, p))
         IN  q \in Nat /\ EntryAt(t, q)[2] \in Keys
<1> DEFINE S == UsedFrom(t, p)
           q == Smallest(S)
<1>1. SizeArray(t) \in Nat /\ SizeNode(t) \in Nat /\ ArrayKeys(t)
  BY TableParts DEF TableOK
<1>2. \A x \in S : x \in Int /\ p <= x
  BY <1>1 DEF UsedFrom
<1>7. S # {} /\ p \in Int
  OBVIOUS
<1>3. q \in S
  <2> HIDE DEF S
  <2> QED BY <1>2, <1>7, SmallestOf
<1>4. q \in Nat /\ q < SizeArray(t) + SizeNode(t) /\ EntryAt(t, q)[3] # Nil
  BY <1>1, <1>3 DEF UsedFrom
<1> HIDE DEF q, S
<1>5. CASE q < SizeArray(t)
  <2>1. EntryAt(t, q) = <<"entry", q + 1, t.array[q + 1]>>
    BY <1>5 DEF EntryAt
  <2>2. q + 1 \in 1 .. SizeArray(t) /\ t.array[q + 1] # Nil
    BY <1>1, <1>4, <1>5, <2>1
  <2>3. q + 1 \in Keys
    BY <1>1, <2>2, NumberKeys DEF ArrayKeys
  <2> QED BY <1>4, <2>1, <2>3 DEF q, S
<1>6. CASE ~(q < SizeArray(t))
  <2> DEFINE i == q - SizeArray(t)
  <2>1. EntryAt(t, q) = <<"entry", t.node[i].key, t.node[i].val>>
    BY <1>6 DEF EntryAt
  <2>2. i \in Slots(SizeNode(t)) /\ t.node[i].val # Nil
    BY <1>1, <1>4, <1>6, <2>1 DEF Slots
  <2>3. t.node[i].key \in Keys
    BY <2>2, UsedNode
  <2> QED BY <1>4, <2>1, <2>3 DEF q, S
<1> QED BY <1>5, <1>6

\* luaH_next is never lost: findindex knows the key, or says so.
LEMMA FindIndexIs ==
  ASSUME TableOK(t), NEW k \in Keys \cup {NoKey}, FindIndex(t, k) # -2
  PROVE  FindIndex(t, k) + 1 \in Nat
<1>1. SizeNode(t) \in Nat /\ NodesOK(SizeNode(t), t.node) /\ SizeArray(t) \in Nat
  BY TableParts DEF TableOK
<1>2. CASE k = NoKey
  BY <1>2 DEF FindIndex
<1>3. CASE k # NoKey /\ InArray(t, k)
  BY <1>1, <1>3 DEF FindIndex, InArray
<1>4. CASE k # NoKey /\ ~InArray(t, k)
  <2> DEFINE i == FirstNode(t, k, TRUE)
  <2>1. FindIndex(t, k) = IF i = -1 THEN -2 ELSE SizeArray(t) + i
    BY <1>4 DEF FindIndex
  <2>2. i # -1
    BY <2>1
  <2>3. k \in Keys
    BY <1>4
  <2>4. i \in Slots(SizeNode(t))
    BY <1>1, <2>2, <2>3, FirstNodeIs
  <2> HIDE DEF i
  <2> QED BY <1>1, <2>1, <2>2, <2>4 DEF Slots
<1> QED BY <1>2, <1>3, <1>4

\* A step of a loop leads to a key or a position again.
LEMMA AdvanceOK ==
  ASSUME TableInv, Advance
  PROVE  CursorOK'
<1>1. TableOK(t) /\ CursorOK
  BY DEF TableInv
<1>2. CASE cursor.by = "key" /\ NextByKey
  <2> DEFINE i == FindIndex(t, cursor.at)
             rest == UsedFrom(t, i + 1)
             e == EntryAt(t, Smallest(rest))
  <2>1. CASE i = -2 \/ rest = {}
    BY <1>1, <1>2, <2>1, LoopKept DEF NextByKey
  <2>2. CASE i # -2 /\ rest # {}
    <3>1. cursor' = By("key", e[2], cursor.todo \ {e[2]})
      BY <1>2, <2>2 DEF NextByKey
    <3>2. cursor.at \in Keys \cup {NoKey}
      BY <1>1, <1>2 DEF CursorOK
    <3>3. i + 1 \in Nat
      BY <1>1, <2>2, <3>2, FindIndexIs
    <3>4. e[2] \in Keys
      BY <1>1, <2>2, <3>3, UsedFromIs
    <3> HIDE DEF e
    <3> QED BY <1>1, <3>1, <3>4 DEF CursorOK, By
  <2> QED BY <2>1, <2>2
<1>3. CASE cursor.by = "position" /\ NextByPosition
  <2> DEFINE rest == UsedFrom(t, cursor.at)
             e == EntryAt(t, Smallest(rest))
  <2>1. CASE rest = {}
    BY <1>1, <1>3, <2>1, LoopKept DEF NextByPosition
  <2>2. CASE rest # {}
    <3>1. cursor' = By("position", Smallest(rest) + 1, cursor.todo \ {e[2]})
      BY <1>3, <2>2 DEF NextByPosition
    <3>2. cursor.at \in Nat
      BY <1>1, <1>3 DEF CursorOK
    <3>3. Smallest(rest) \in Nat
      BY <1>1, <2>2, <3>2, UsedFromIs
    <3> HIDE DEF e, rest
    <3> QED BY <1>1, <3>1, <3>3 DEF CursorOK, By
  <2> QED BY <2>1, <2>2
<1>4. CASE cursor.by = "number" /\ NextByNumber
  <2>1. cursor' = Idle \/ cursor' = By("number", cursor.at + 1, {})
    BY <1>4 DEF NextByNumber
  <2>2. cursor.at \in Nat
    BY <1>1, <1>4 DEF CursorOK
  <2> QED BY <2>1, <2>2 DEF CursorOK, By, Idle
<1> QED BY <1>2, <1>3, <1>4 DEF Advance

\* The calls on one table.
LEMMA CallOK ==
  ASSUME TableInv, Call
  PROVE  TableInv'
<1>1. TableOK(t) /\ readonly \in BOOLEAN /\ CursorOK
  BY DEF TableInv
<1>2. ASSUME NEW k \in Keys, NEW v \in Values \cup {Nil}, Store(k, v) PROVE TableInv'
  <2>1. t' = t \/ t' = Set(t, k, v)
    BY <1>2 DEF Store, Refuse
  <2>2. CursorOK'
    BY <1>1, <1>2, LoopKept DEF Store, Refuse, Disturb
  <2>3. (readonly \in BOOLEAN)'
    BY <1>1, <1>2 DEF Store
  <2> QED BY <1>1, <2>1, <2>2, <2>3, SetOK DEF TableInv
<1>3. ASSUME NEW k \in Keys, Load(k) PROVE TableInv'
  BY <1>1, <1>3, LoopKept DEF Load, TableInv
<1>4. CASE Length
  BY <1>1, <1>4, LoopKept, GetNIs DEF Length, TableInv
<1>5. CASE Traverse
  <2>1. CursorOK'
    BY <1>5 DEF Traverse, CursorOK, By, Present
  <2> QED BY <1>1, <1>5, <2>1 DEF Traverse, TableInv
<1>6. CASE Advance
  BY <1>1, <1>6, AdvanceOK DEF Advance, TableInv
<1>7. CASE Freeze
  BY <1>1, <1>7, LoopKept DEF Freeze, TableInv
<1>8. CASE Clear
  <2>1. t' = t \/ t' = Cleared(t)
    BY <1>8 DEF Clear, Refuse
  <2>2. CursorOK'
    BY <1>1, <1>8, LoopKept DEF Clear, Refuse
  <2>3. (readonly \in BOOLEAN)'
    BY <1>1, <1>8 DEF Clear
  <2> QED BY <1>1, <2>1, <2>2, <2>3, ClearedOK DEF TableInv
<1>9. CASE Clone
  BY <1>1, <1>9, LoopKept, ClonedOK DEF Clone, TableInv
<1>10. ASSUME NEW first \in 1 .. MaxArray,
              NEW list \in BoundedSeq(Values \cup {Nil}, MaxArray),
              list # <<>>, first + Len(list) - 1 <= MaxArray, SetList(first, list)
       PROVE  TableInv'
  BY <1>10, SetListOK
<1>11. CASE Collect
  BY <1>1, <1>11, LoopKept, DeadKeysOK DEF Collect, TableInv
<1>12. CASE Shrink
  <2>1. t' = ResizeHash(t, Cardinality(UsedNodes(t)))
    BY <1>12 DEF Shrink
  <2>2. CursorOK'
    BY <1>1, <1>12, LoopKept DEF Shrink, Disturb
  <2> QED BY <1>1, <1>12, <2>1, <2>2, ResizeHashOK DEF Shrink, TableInv
<1> QED
  BY <1>2, <1>3, <1>4, <1>5, <1>6, <1>7, <1>8, <1>9, <1>10, <1>11, <1>12, Zenon DEF Call

\* An element of a list is at a key.
LEMMA ElementKey ==
  ASSUME NEW h, TableOK(h)
  PROVE  LET n == GetN(h).n
         IN  n \in Nat /\ (n # 0 => n \in IntKeys)
<1>1. SizeArray(h) \in Nat /\ ArrayKeys(h)
  BY TableParts DEF TableOK
<1> QED BY <1>1, GetNIs DEF ArrayKeys, Ends, SizeArray

\* table.insert
LEMMA TInsertOK ==
  ASSUME TableInv, NEW v \in Values, NEW pos \in IntKeys, TInsert(pos, v)
  PROVE  TableInv'
<1> DEFINE n == GetN(t).n
           h == GetN(t).h
           shifted == IF pos \in 1 .. n THEN MoveElements(h, pos, n, pos + 1) ELSE h
<1>1. TableOK(h) /\ n \in Nat
  BY GetNIs, ElementKey DEF TableInv
<1>2. n + 1 \in IntKeys /\ pos \in Int /\ pos \in Keys
  BY NumberKeys DEF TInsert
<1>3. t' = h \/ t' = Set(shifted, pos, v)
  BY Zenon DEF TInsert
<1> HIDE DEF n, h
<1>4. pos .. n + 1 \subseteq IntKeys
  BY <1>2, TableAssumption
<1>5. TableOK(shifted)
  <2>1. CASE pos \in 1 .. n
    <3>1. pos + 1 \in Int /\ n \in Int /\ pos <= n + 1
      BY <1>1, <1>2, <2>1
    <3>2. \A i \in 0 .. n - pos : pos + i \in IntKeys /\ (pos + 1) + i \in IntKeys
      BY <1>1, <1>2, <1>4
    <3>3. TableOK(MoveElements(h, pos, n, pos + 1))
      BY <1>1, <1>2, <3>1, <3>2, MoveElementsOK
    <3> QED BY <2>1, <3>3
  <2>2. CASE pos \notin 1 .. n
    BY <1>1, <2>2
  <2> QED BY <2>1, <2>2
<1> HIDE DEF shifted
<1>6. TableOK(t')
  BY <1>1, <1>2, <1>3, <1>5, SetOK
<1>7. CursorOK' /\ (readonly \in BOOLEAN)'
  BY LoopKept DEF TInsert, TableInv
<1> QED BY <1>6, <1>7 DEF TableInv

\* table.remove
LEMMA TRemoveOK ==
  ASSUME TableInv, NEW pos \in IntKeys, TRemove(pos)
  PROVE  TableInv'
<1> DEFINE n == GetN(t).n
           h == GetN(t).h
           moved == MoveElements(h, pos + 1, n, pos)
<1>1. TableOK(h) /\ n \in Nat /\ (n # 0 => n \in IntKeys)
  BY GetNIs, ElementKey DEF TableInv
<1>2. pos \in Int
  BY NumberKeys
<1>3. t' = h \/ (pos \in 1 .. n /\ t' = Set(moved, n, Nil))
  BY Zenon DEF TRemove
<1> HIDE DEF n, h
<1>4. ASSUME pos \in 1 .. n PROVE TableOK(Set(moved, n, Nil))
  <2>1. n \in IntKeys /\ n \in Keys
    BY <1>1, <1>4, NumberKeys
  <2>2. pos .. n \subseteq IntKeys
    BY <2>1, TableAssumption
  <2>3. pos + 1 \in Int /\ n \in Int /\ pos + 1 <= n + 1
    BY <1>1, <1>2, <1>4
  <2>4. \A i \in 0 .. n - (pos + 1) : (pos + 1) + i \in IntKeys /\ pos + i \in IntKeys
    BY <1>1, <1>2, <2>2
  <2>5. TableOK(moved)
    BY <1>1, <1>2, <2>3, <2>4, MoveElementsOK
  <2> QED BY <2>1, <2>5, SetOK
<1>5. TableOK(t')
  BY <1>1, <1>3, <1>4
<1>6. CursorOK' /\ (readonly \in BOOLEAN)'
  BY LoopKept DEF TRemove, TableInv
<1> QED BY <1>5, <1>6 DEF TableInv

\* The room that table.move makes.
LEMMA RoomForOK ==
  ASSUME TableOK(t), NEW dest \in Int, NEW last \in Int
  PROVE  TableOK(RoomFor(dest, last))
<1>1. SizeArray(t) \in Nat
  BY TableParts DEF TableOK
<1>2. last > SizeArray(t) => last \in Nat /\ SizeArray(t) < last
  BY <1>1
<1> QED BY <1>2, ResizeArrayOK DEF RoomFor

\* table.move
LEMMA TMoveOK ==
  ASSUME TableInv, NEW f \in IntKeys, NEW e \in IntKeys, NEW dest \in IntKeys,
         dest + e - f \in IntKeys, TMove(f, e, dest)
  PROVE  TableInv'
<1> DEFINE last == dest + e - f
           room == RoomFor(dest, last)
<1>1. TableOK(t)
  BY DEF TableInv
<1>2. f \in Int /\ e \in Int /\ dest \in Int /\ last \in IntKeys /\ last \in Int
  BY NumberKeys
<1>3. t' = t \/ (~(e < f) /\ t' = MoveElements(room, f, e, dest))
  BY Zenon DEF TMove
<1>4. f .. e \subseteq IntKeys /\ dest .. last \subseteq IntKeys
  BY <1>2, TableAssumption
<1>5. \A i \in 0 .. e - f : f + i \in f .. e /\ dest + i \in dest .. last
  BY <1>2
<1> HIDE DEF last
<1>6. TableOK(room)
  BY <1>1, <1>2, RoomForOK
<1> HIDE DEF room
<1>7. ~(e < f) => TableOK(MoveElements(room, f, e, dest))
  <2> SUFFICES ASSUME ~(e < f) PROVE TableOK(MoveElements(room, f, e, dest))
    OBVIOUS
  <2>1. f <= e + 1
    BY <1>2
  <2>2. \A i \in 0 .. e - f : f + i \in IntKeys /\ dest + i \in IntKeys
    BY <1>4, <1>5
  <2> QED BY <1>2, <1>6, <2>1, <2>2, MoveElementsOK
<1>8. TableOK(t')
  BY <1>1, <1>3, <1>7
<1>9. CursorOK' /\ (readonly \in BOOLEAN)'
  BY LoopKept DEF TMove, TableInv
<1> QED BY <1>8, <1>9 DEF TableInv

\* What table.move makes of its destination, element by element.
IsStoring(room, list, dest, m, g) ==
  g = [i \in 0 .. m |-> IF i = 0 THEN room ELSE Set(g[i - 1], dest + i - 1, list[i])]

\* There is such a function.
LEMMA StoringExists ==
  ASSUME NEW room, NEW list, NEW dest, NEW l \in Nat
  PROVE  \E g : IsStoring(room, list, dest, l, g)
<1> DEFINE R(m, g) == IsStoring(room, list, dest, m, g)
           T == {m \in Nat : ~ \E g : R(m, g)}
           s(p, i) == Set(p, dest + i - 1, list[i])
<1> HIDE DEF R, s
<1>1. SUFFICES ASSUME T # {} PROVE FALSE
  BY DEF R
<1>2. PICK m \in T : \A k \in T : m <= k
  BY <1>1, Least
<1>3. CASE m = 0
  <2> DEFINE g == [i \in 0 .. 0 |-> room]
  <2>1. g = [i \in 0 .. 0 |-> IF i = 0 THEN room ELSE s(g[i - 1], i)]
    OBVIOUS
  <2>2. R(0, g)
    BY <2>1, Zenon DEF R, IsStoring, s
  <2> QED BY <1>2, <1>3, <2>2
<1>4. CASE m # 0
  <2>1. m - 1 \in Nat /\ m - 1 \notin T
    BY <1>2, <1>4
  <2>2. PICK p : R(m - 1, p)
    BY <2>1
  <2> DEFINE g == [i \in 0 .. m |-> IF i < m THEN p[i] ELSE s(p[m - 1], m)]
  <2>3. \A i \in 0 .. m - 1 : p[i] = IF i = 0 THEN room ELSE s(p[i - 1], i)
    BY <2>2, Zenon DEF R, IsStoring, s
  <2>4. \A i \in 0 .. m : i # 0 => i - 1 \in 0 .. m /\ i - 1 < m /\ i - 1 \in 0 .. m - 1
    BY <1>4
  <2>5. \A i \in 0 .. m : i # 0 => g[i - 1] = p[i - 1]
    BY <2>4
  <2>6. \A i \in 0 .. m : i < m => g[i] = p[i] /\ i \in 0 .. m - 1
    BY <1>4
  <2>7. m \in 0 .. m /\ g[m] = s(p[m - 1], m) /\ \A i \in 0 .. m : ~(i < m) => i = m
    BY <1>4
  <2> HIDE DEF g
  <2>8. \A i \in 0 .. m : g[i] = IF i = 0 THEN room ELSE s(g[i - 1], i)
    BY <1>4, <2>3, <2>5, <2>6, <2>7
  <2>9. g = [i \in 0 .. m |-> IF i = 0 THEN room ELSE s(g[i - 1], i)]
    BY <2>8 DEF g
  <2>10. R(m, g)
    BY <2>9, Zenon DEF R, IsStoring, s
  <2> QED BY <1>2, <2>10
<1> QED BY <1>3, <1>4

\* The tables on the way.
Stores(room, list, dest, n, g) ==
  /\ g[0] = room
  /\ \A i \in 1 .. n : g[i] = Set(g[i - 1], dest + i - 1, list[i])
  /\ \A i \in 0 .. n : TableOK(g[i])

\* Each of them is a table.
LEMMA TMoveFromSteps ==
  ASSUME TableOK(t), NEW list \in BoundedSeq(Values \cup {Nil}, MaxArray), NEW dest \in IntKeys,
         dest + Len(list) - 1 \in IntKeys, TMoveFrom(list, dest), ~readonly
  PROVE  \E g : /\ Stores(RoomFor(dest, dest + Len(list) - 1), list, dest, Len(list), g)
                /\ t' = g[Len(list)]
<1> DEFINE n == Len(list)
           last == dest + n - 1
           room == RoomFor(dest, last)
           R(g) == IsStoring(room, list, dest, n, g)
           moved == CHOOSE g : R(g)
<1>1. n \in Nat /\ \A i \in 1 .. n : list[i] \in Values \cup {Nil}
  BY ListIs
<1>2. dest \in Int /\ last \in Int /\ dest .. last \subseteq IntKeys
  BY NumberKeys, TableAssumption
<1>3. t' = moved[n]
  BY Zenon DEF TMoveFrom, IsStoring
<1>4. R(moved)
  <2>1. \E g : R(g)
    BY <1>1, StoringExists, Zenon
  <2> QED BY <2>1, Zenon
<1>5. \A i \in 0 .. n : moved[i] = IF i = 0 THEN room ELSE Set(moved[i - 1], dest + i - 1, list[i])
  BY <1>4, Zenon DEF IsStoring
<1>6. \A i \in 1 .. n : dest + i - 1 \in dest .. last
  BY <1>1, <1>2
<1>7. TableOK(room)
  BY <1>2, RoomForOK
<1> HIDE DEF moved, room, last, n
<1>8. moved[0] = room
  BY <1>1, <1>5
<1>9. \A i \in 1 .. n : moved[i] = Set(moved[i - 1], dest + i - 1, list[i])
  BY <1>1, <1>5
<1>10. ASSUME NEW i \in 1 .. n, TableOK(moved[i - 1]) PROVE TableOK(moved[i])
  <2>1. dest + i - 1 \in Keys
    BY <1>2, <1>6, NumberKeys
  <2> QED BY <1>1, <1>9, <1>10, <2>1, SetOK
<1> DEFINE T == {i \in Nat : i <= n /\ ~TableOK(moved[i])}
<1>11. T = {}
  <2> SUFFICES ASSUME T # {} PROVE FALSE
    OBVIOUS
  <2>1. PICK i \in T : \A j \in T : i <= j
    BY Least
  <2>2. i # 0
    BY <1>7, <1>8, <2>1
  <2>3. i - 1 \in Nat /\ i - 1 \notin T /\ i \in 1 .. n /\ i - 1 <= n
    BY <1>1, <2>1, <2>2
  <2>4. TableOK(moved[i])
    BY <1>10, <2>3
  <2> QED BY <2>1, <2>4
<1>12. \A i \in 0 .. n : TableOK(moved[i])
  BY <1>1, <1>11
<1>13. Stores(room, list, dest, n, moved)
  BY <1>8, <1>9, <1>12 DEF Stores
<1> QED BY <1>3, <1>13 DEF n, last, room

\* table.move from another table.
LEMMA TMoveFromOK ==
  ASSUME TableInv, NEW list \in BoundedSeq(Values \cup {Nil}, MaxArray), NEW dest \in IntKeys,
         dest + Len(list) - 1 \in IntKeys, TMoveFrom(list, dest)
  PROVE  TableInv'
<1>1. TableOK(t)
  BY DEF TableInv
<1>2. TableOK(t')
  <2>1. CASE readonly
    BY <1>1, <2>1, Zenon DEF TMoveFrom
  <2>2. CASE ~readonly
    <3>1. PICK g : /\ Stores(RoomFor(dest, dest + Len(list) - 1), list, dest, Len(list), g)
                   /\ t' = g[Len(list)]
      BY <1>1, <2>2, TMoveFromSteps
    <3>2. Len(list) \in 0 .. Len(list)
      BY ListIs
    <3> QED BY <3>1, <3>2 DEF Stores
  <2> QED BY <2>1, <2>2
<1>3. CursorOK' /\ (readonly \in BOOLEAN)'
  <2>1. cursor' = Idle /\ readonly' = readonly
    BY Zenon DEF TMoveFrom
  <2> QED BY <2>1, LoopKept DEF TableInv
<1> QED BY <1>2, <1>3 DEF TableInv

\* table.create makes a table of its own.
LEMMA TCreateOK ==
  ASSUME TableInv, NEW n \in 1 .. MaxArray, NEW v \in Values, TCreate(n, v)
  PROVE  TableInv'
<1> DEFINE g == NewTable(n, 0)
           a == [i \in 1 .. n |-> v]
<1>1. MaxArray \in Nat /\ 1 .. MaxArray \subseteq IntKeys
  BY TableAssumption
<1>2. n \in Nat /\ \A i \in 1 .. n : i \in IntKeys
  BY <1>1
<1>3. TableOK(g) /\ SizeArray(g) = n
  BY <1>2, NewTableIs
<1>4. t' = [g EXCEPT !.array = a]
  BY Zenon DEF TCreate
<1>5. a \in Seq(Values \cup {Nil}) /\ Len(a) = n
  BY <1>2
<1> HIDE DEF g, a
<1>6. TableOK(t')
  BY <1>2, <1>3, <1>4, <1>5, ArrayOK
<1>7. CursorOK' /\ (readonly \in BOOLEAN)'
  BY LoopKept DEF TCreate, TableInv
<1> QED BY <1>6, <1>7 DEF TableInv

\* The calls of the table library.
LEMMA LibCallOK ==
  ASSUME TableInv, LibCall
  PROVE  TableInv'
<1>1. TableOK(t) /\ readonly \in BOOLEAN /\ CursorOK
  BY DEF TableInv
<1>2. ASSUME NEW e, TUnpack(e) PROVE TableInv'
  BY <1>1, <1>2, LoopKept DEF TUnpack, TableInv
<1>3. ASSUME NEW v, TFind(v) PROVE TableInv'
  BY <1>1, <1>3, LoopKept DEF TFind, TableInv
<1> QED
  BY <1>2, <1>3, TInsertOK, TRemoveOK, TMoveOK, TMoveFromOK, TCreateOK, Zenon DEF LibCall

-----------------------------------------------------------------------------
(* The theorems. *)

\* A new table.
LEMMA InitOK ==
  ASSUME Init
  PROVE  TableInv
<1>1. PICK narray \in 0 .. MaxArray, nhash \in 0 .. MaxHash : t = NewTable(narray, nhash)
  BY Zenon DEF Init
<1>2. narray \in Nat /\ nhash \in Nat
  BY TableAssumption
<1>3. TableOK(t)
  BY <1>1, <1>2, NewTableIs
<1>4. CursorOK /\ readonly \in BOOLEAN
  BY DEF Init, CursorOK, Idle
<1> QED BY <1>3, <1>4 DEF TableInv

\* Every step keeps the invariant.
LEMMA StepOK ==
  ASSUME TableInv, [LibNext]_vars
  PROVE  TableInv'
<1>1. CASE LibNext
  BY <1>1, CallOK, LibCallOK, Zenon DEF LibNext
<1>2. CASE UNCHANGED vars
  BY <1>2 DEF vars, TableInv, CursorOK
<1> QED BY <1>1, <1>2

\* The inductive invariant holds after any series of calls on the table, those
\* of the table library included.
THEOREM TableInvariant == LibSpec => []TableInv
<1>1. Init => TableInv
  BY InitOK
<1>2. TableInv /\ [LibNext]_vars => TableInv'
  BY StepOK
<1> QED BY <1>1, <1>2, PTL DEF LibSpec

\* The parts keep their types: in particular the union word is always a
\* position of the free-node search or a hint inside the array part.
THEOREM TableKeepsTypes == LibSpec => []TypeOK
<1>1. TableInv => TypeOK
  BY InvImplies
<1> QED BY <1>1, TableInvariant, PTL

\* A rehash never starts another one while it moves the entries.
THEOREM RehashIsFlat == LibSpec => []NoNestedRehash
<1>1. TableInv => NoNestedRehash
  BY InvImplies
<1> QED BY <1>1, TableInvariant, PTL

\* The nodes never hold the key after the array part.
THEOREM BorderIsOutside == LibSpec => []BoundaryInvariant
<1>1. TableInv => BoundaryInvariant
  BY InvImplies
<1> QED BY <1>1, TableInvariant, PTL

\* Every chain ends and every entry is found by its key.
THEOREM EntriesAreFound == LibSpec => []EveryEntryIsFound
<1>1. TableInv => EveryEntryIsFound
  BY InvImplies
<1> QED BY <1>1, TableInvariant, PTL
=============================================================================
