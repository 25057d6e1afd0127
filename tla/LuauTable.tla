----------------------------- MODULE LuauTable -----------------------------
(***************************************************************************)
(* The Lua table of ltable.cpp: an array part for keys 1..sizearray and a  *)
(* hash part of 2^lsizenode nodes, chained through relative offsets        *)
(* ("coalesced chaining": every chain of a key starts at its main          *)
(* position, and a node taken from the free end may belong to any chain).  *)
(*                                                                         *)
(* One word of the table, "last" here, is a union in the code (lobject.h): *)
(* when positive it is lastfree, the free-node search position; when       *)
(* negative it is -aboundary, a hint for the length operator.              *)
(*                                                                         *)
(* A table is a value, and every function of the code that changes one is  *)
(* an operator from tables to tables; the actions below are the calls that *)
(* scripts and the collector make on one table.  A loop keeps a        *)
(* key, a position or a number; its "todo", the keys it has still to       *)
(* answer, is history that no step reads.                                  *)
(***************************************************************************)
EXTENDS Integers, Sequences, FiniteSets, SequencesExt

CONSTANTS
  IntKeys,      \* numeric keys that are integers
  ObjKeys,      \* collectable keys (strings, tables, ...)
  Values,       \* values other than nil
  Hash,         \* Hash[k]: the hash of a key, reduced by each table's size
  Nil,          \* nil as a value
  NoKey,        \* nil as a key: a node never used, the start of a traversal
  MaxArray,     \* bound: array sizes that scripts ask for
  MaxHash,      \* bound: hash sizes that scripts ask for
  Stubborn,     \* bound: whether loops over ipairs(t) go on after any store
  FrozenNodes   \* bound: the most nodes of a table that scripts freeze

Keys == IntKeys \cup ObjKeys

ASSUME TableAssumption ==
  /\ IntKeys \subseteq Int /\ IsFiniteSet(Keys) /\ IntKeys \cap ObjKeys = {}
  /\ \A a, b \in IntKeys : a .. b \subseteq IntKeys
  /\ 1 \in IntKeys /\ 1 .. MaxArray \subseteq IntKeys
  /\ (ObjKeys \cup {NoKey}) \cap Int = {}
  /\ NoKey \notin Keys /\ Nil \notin Values
  /\ Hash \in [Keys -> Nat]
  /\ MaxArray \in Nat /\ MaxHash \in Nat /\ Stubborn \in BOOLEAN
  /\ FrozenNodes \in Nat

VARIABLES
  t,         \* the table: array, node, last; "nested" records a rehash that
             \* started while another one was moving nodes
  readonly,  \* Table.readonly
  cursor,    \* where a running loop over the table is
  reply,     \* the answer of the last call
  dict       \* the mapping that t holds, evaluated once in every state

vars == <<t, readonly, cursor, reply, dict>>

Biggest(S)  == CHOOSE x \in S : \A y \in S : y <= x
Smallest(S) == CHOOSE x \in S : \A y \in S : x <= y
Quiet == <<>>           \* reply of a call that answers nothing

-----------------------------------------------------------------------------
(* Nodes, main positions and chains. *)

EmptyNode == [key |-> NoKey, dead |-> FALSE, val |-> Nil, next |-> 0]

TwoTo(n) ==
  LET power[i \in 0 .. n] == IF i = 0 THEN 1 ELSE 2 * power[i - 1] IN power[n]

\* setnodevector: a hash part for n entries has the next power of two of
\* nodes; none at all stands for the shared dummynode.
PowerAtLeast(n) ==
  IF n = 0 THEN 0 ELSE Smallest({p \in {TwoTo(i) : i \in 0 .. n} : p >= n})
NodeVector(n) == [i \in 0 .. PowerAtLeast(n) - 1 |-> EmptyNode]

\* Mutant: lastfree starts at the array's size.
NewTableWrongFree(narray, nhash) ==
  [array |-> [i \in 1 .. narray |-> Nil], node |-> NodeVector(nhash),
   last |-> narray, nested |-> FALSE]

NewTable(narray, nhash) ==
  [array |-> [i \in 1 .. narray |-> Nil], node |-> NodeVector(nhash),
   last |-> PowerAtLeast(nhash), nested |-> FALSE]

SizeArray(h) == Len(h.array)
SizeNode(h)  == Cardinality(DOMAIN h.node)
IsDummy(h)   == SizeNode(h) = 0
MainPosition(h, k) == Hash[k] % SizeNode(h)
InArray(h, k) == k \in IntKeys /\ k \in 1 .. SizeArray(h)

\* The nodes visited from position i on, following next until it is 0.
ChainFrom(h, i) ==
  LET pos[j \in 0 .. SizeNode(h) - 1] ==
        IF j = 0 THEN i ELSE LET p == pos[j - 1] IN p + h.node[p].next
  IN  [j \in 0 .. SizeNode(h) - 1 |-> pos[j]]

\* The first node of k's chain whose key is k; -1 when there is none.  Only
\* findindex accepts a dead key (whose object the pointer still identifies).
FirstNode(h, k, alsoDead) ==
  LET c    == ChainFrom(h, MainPosition(h, k))
      hits == {j \in DOMAIN c : /\ h.node[c[j]].key = k
                                /\ alsoDead \/ ~h.node[c[j]].dead}
  IN  IF IsDummy(h) \/ hits = {} THEN -1 ELSE c[Smallest(hits)]
NodeOf(h, k) == FirstNode(h, k, FALSE)

\* luaH_get, luaH_getnum, luaH_getstr
Get(h, k) ==
  IF InArray(h, k) THEN h.array[k]
  ELSE IF NodeOf(h, k) = -1 THEN Nil ELSE h.node[NodeOf(h, k)].val

-----------------------------------------------------------------------------
(* Insertion. *)

\* getfreepos: downwards from lastfree; a node once used is never free again.
FreePos(h) ==
  LET free == {i \in 0 .. h.last - 1 : h.node[i].key = NoKey}
  IN  IF free = {} THEN -1 ELSE Biggest(free)

\* Mutant: the key after the array part may go to the hash part.
NeedsRehashOnlyWhenFull(h, k) ==
  IsDummy(h) \/ (h.node[MainPosition(h, k)].val # Nil /\ FreePos(h) = -1)

NeedsRehash(h, k) ==
  \/ k \in IntKeys /\ k = SizeArray(h) + 1
  \/ IsDummy(h)
  \/ h.node[MainPosition(h, k)].val # Nil /\ FreePos(h) = -1

\* Mutant: a node whose entry was removed is reused as the end of its chain.
PlaceKeyCutsChain(h, k, v) ==
  LET mp   == MainPosition(h, k)
      m    == h.node[mp]
      free == FreePos(h)
      home == MainPosition(h, m.key)
      c    == ChainFrom(h, home)
      prev == c[Smallest({j \in DOMAIN c : c[j] + h.node[c[j]].next = mp})]
      new  == [key |-> k, dead |-> FALSE, val |-> v, next |-> 0]
      after(i, n) == IF m.next = 0 THEN n ELSE mp + m.next - i
  IN  IF m.val = Nil THEN [h EXCEPT !.node[mp] = new]
      ELSE IF home # mp
        THEN [h EXCEPT !.last = free,
               !.node = [@ EXCEPT ![prev].next = free - prev,
                                  ![free] = [m EXCEPT !.next = after(free, 0)],
                                  ![mp] = new]]
      ELSE [h EXCEPT !.last = free,
             !.node = [@ EXCEPT
               ![free] = [new EXCEPT !.next = after(free, h.node[free].next)],
               ![mp].next = free - mp]]

\* The node before the guest at mp, in the chain of the guest's key.
Before(h, mp) ==
  LET c == ChainFrom(h, MainPosition(h, h.node[mp].key))
  IN  c[Smallest({j \in DOMAIN c : c[j] + h.node[c[j]].next = mp})]

\* The next offset of the node at i when it continues the chain of mp.
Behind(h, mp, i, end) ==
  IF h.node[mp].next = 0 THEN end ELSE (mp + h.node[mp].next) - i

\* newkey once there is room: k takes its main position when that holds no
\* value; else the node there moves to a free position if it is a guest, and
\* k goes to the free position if it is at home.
PlaceKey(h, k, v) ==
  LET mp   == MainPosition(h, k)
      free == FreePos(h)
      prev == Before(h, mp)
      new(next) == [key |-> k, dead |-> FALSE, val |-> v, next |-> next]
  IN  IF h.node[mp].val = Nil
        THEN [h EXCEPT !.node[mp] = new(h.node[mp].next)]
      ELSE IF MainPosition(h, h.node[mp].key) # mp
        THEN [h EXCEPT !.last = free,
               !.node = [h.node EXCEPT
                 ![prev].next = free - prev,
                 ![free] = [h.node[mp] EXCEPT !.next = Behind(h, mp, free, 0)],
                 ![mp] = new(0)]]
      ELSE [h EXCEPT !.last = free,
             !.node = [h.node EXCEPT
               ![free] = new(Behind(h, mp, free, h.node[free].next)),
               ![mp].next = free - mp]]

\* arrayornewkey as resize and rehash call it: there must be room by now.
StoreFresh(h, k, v) ==
  IF InArray(h, k) THEN [h EXCEPT !.array[k] = v]
  ELSE IF NeedsRehash(h, k) THEN [h EXCEPT !.nested = TRUE]
  ELSE PlaceKey(h, k, v)

-----------------------------------------------------------------------------
(* Resizing. *)

\* resize: the array part is cut or grown and the hash part is made anew.
FreshParts(h, nasize, nhsize) ==
  [NewTable(nasize, nhsize) EXCEPT
     !.array = [i \in 1 .. nasize |->
                  IF i <= SizeArray(h) THEN h.array[i] ELSE Nil],
     !.nested = h.nested]

\* The entries it puts back, in its order: those of the slice that the array
\* part has lost, then those of the old nodes, last one first.
LostSlice(h, nasize) ==
  IF nasize < SizeArray(h) THEN SizeArray(h) - nasize ELSE 0
OldEntry(h, nasize, i) ==
  IF i <= LostSlice(h, nasize) THEN <<nasize + i, h.array[nasize + i]>>
  ELSE LET n == h.node[SizeNode(h) + LostSlice(h, nasize) - i]
       IN  <<n.key, n.val>>

Resize(h, nasize, nhsize) ==
  LET last == LostSlice(h, nasize) + SizeNode(h)
      filled[i \in 0 .. last] ==
        IF i = 0 THEN FreshParts(h, nasize, nhsize)
        ELSE LET e == OldEntry(h, nasize, i)
             IN  IF e[2] = Nil THEN filled[i - 1]
                 ELSE StoreFresh(filled[i - 1], e[1], e[2])
  IN  filled[last]

\* Mutant: the array part gets the computed size whatever follows it.
AdjustASizeNot(h, size, extra) == size

\* adjustasize: the array grows until t[size + 1] is neither the key being
\* added nor present.
AdjustASize(h, size, extra) ==
  LET tbound == ~IsDummy(h) \/ size < SizeArray(h)
      inside(s) == s + 1 = extra
                   \/ (tbound /\ s + 1 \in IntKeys /\ Get(h, s + 1) # Nil)
  IN  Smallest({s \in size .. size + Cardinality(IntKeys) :
                  ~inside(s) /\ \A r \in size .. s - 1 : inside(r)})

ResizeArray(h, nasize) == Resize(h, AdjustASize(h, nasize, NoKey), SizeNode(h))
ResizeHash(h, nhsize)  == Resize(h, SizeArray(h), nhsize)

\* computesizes: the largest power of two of which more than half would be in
\* use, given the integer keys that are present.
ArraySizeFor(ints) ==
  LET upTo(i) == Cardinality({c \in ints : c <= TwoTo(i)})
      good == {i \in 0 .. Cardinality(ints) :
                 /\ TwoTo(i) \div 2 < Cardinality(ints)
                 /\ upTo(i) > IF i = 0 THEN 0 ELSE upTo(i - 1)
                 /\ upTo(i) > TwoTo(i) \div 2}
  IN  IF good = {} THEN 0 ELSE TwoTo(Biggest(good))

UsedNodes(h) == {i \in DOMAIN h.node : h.node[i].val # Nil}
UsedArray(h) == {i \in 1 .. SizeArray(h) : h.array[i] # Nil}

\* rehash: count every key in use and the extra one, choose both sizes.
Rehash(h, extra) ==
  LET ints  == {k \in IntKeys : k > 0 /\
                  (k = extra \/ k \in UsedArray(h)
                     \/ \E i \in UsedNodes(h) : h.node[i].key = k)}
      total == Cardinality(UsedArray(h)) + Cardinality(UsedNodes(h)) + 1
      na    == ArraySizeFor(ints)
  IN  Resize(h, AdjustASize(h, na, extra),
             total - Cardinality({k \in ints : k <= na}))

\* luaH_set, luaH_setnum, luaH_setstr and the store through their answer; a
\* missing key gets a node even when the value stored is nil.
Set(h, k, v) ==
  IF InArray(h, k) THEN [h EXCEPT !.array[k] = v]
  ELSE IF NodeOf(h, k) # -1 THEN [h EXCEPT !.node[NodeOf(h, k)].val = v]
  ELSE IF NeedsRehash(h, k) THEN StoreFresh(Rehash(h, k), k, v)
  ELSE PlaceKey(h, k, v)

\* luaH_clear: the sizes stay, every slot is emptied.
Cleared(h) ==
  LET clean == [h EXCEPT !.array = [i \in DOMAIN @ |-> Nil],
                         !.node = [i \in DOMAIN @ |-> EmptyNode]]
  IN  IF IsDummy(h) THEN [clean EXCEPT !.last = IF @ <= 0 THEN 0 ELSE @]
      ELSE [clean EXCEPT !.last = SizeNode(h)]

\* luaH_clone: both parts as they are; the union word is lastfree when there
\* are nodes and else the boundary.
Boundary(h) == IF h.last < 0 THEN -h.last ELSE SizeArray(h)
Cloned(h) ==
  IF IsDummy(h)
    THEN [h EXCEPT !.last = IF SizeArray(h) = 0 THEN 0 ELSE -Boundary(h)]
    ELSE h
-----------------------------------------------------------------------------
(* The length operator. *)

\* maybesetaboundary: a positive word is lastfree and stays.
WithHint(h, b) == IF h.last <= 0 THEN [h EXCEPT !.last = -b] ELSE h

\* luaH_getn's search in an array whose last element is nil: halve what is
\* left, stepping over the half whose first element is present.
Halved(a, b, rest) ==
  LET half == rest \div 2
  IN  <<IF a[b + half + 1] = Nil THEN b ELSE b + half, rest - half>>
BinarySearch(a) ==
  LET left[i \in 0 .. Len(a)] ==  \* after i rounds
        IF i = 0 THEN <<0, Len(a)>> ELSE Halved(a, left[i - 1][1], left[i - 1][2])
      end == left[Len(a)][1]
  IN  IF a[end + 1] = Nil THEN end ELSE end + 1

\* updateaboundary: the hint is off by one; 0 when it is not.
NextBoundary(a, b) ==
  LET has(i) == a[i] # Nil
  IN  IF b < Len(a) /\ ~has(b) THEN IF b >= 2 /\ has(b - 1) THEN b - 1 ELSE 0
      ELSE IF b + 1 < Len(a) /\ has(b + 1) /\ ~has(b + 2) THEN b + 1 ELSE 0

\* luaH_getn: the length, and the table with the hint it leaves.
GetN(h) ==
  LET size == SizeArray(h)
      b    == Boundary(h)
      full == size > 0 /\ h.array[size] # Nil
      near == NextBoundary(h.array, b)
  IN  IF b > 0 /\ full /\ IsDummy(h) THEN [n |-> size, h |-> h]
      ELSE IF b > 0 /\ b < size /\ h.array[b] # Nil /\ h.array[b + 1] = Nil
        THEN [n |-> b, h |-> h]
      ELSE IF b > 0 /\ near > 0 THEN [n |-> near, h |-> WithHint(h, near)]
      ELSE IF size = 0 \/ full THEN [n |-> size, h |-> h]
      ELSE LET found == BinarySearch(h.array)
           IN  [n |-> found, h |-> WithHint(h, found)]

-----------------------------------------------------------------------------
(* Traversal. *)

\* findindex: the position of a key, counting the array part first and then
\* the nodes; -1 for NoKey, -2 for "invalid key to 'next'".
FindIndex(h, k) ==
  IF k = NoKey THEN -1
  ELSE IF InArray(h, k) THEN k - 1
  ELSE LET i == FirstNode(h, k, TRUE)
       IN  IF i = -1 THEN -2 ELSE SizeArray(h) + i

EntryAt(h, p) ==
  IF p < SizeArray(h) THEN <<"entry", p + 1, h.array[p + 1]>>
  ELSE LET n == h.node[p - SizeArray(h)] IN <<"entry", n.key, n.val>>

\* The positions from p on that hold a value.
UsedFrom(h, p) ==
  {q \in p .. SizeArray(h) + SizeNode(h) - 1 : EntryAt(h, q)[3] # Nil}

Idle        == [by |-> "none", at |-> 0, todo |-> {}]
By(how, at, keys) == [by |-> how, at |-> at, todo |-> keys]

\* luaH_next: the first entry after that of the key given.
NextByKey ==
  LET i    == FindIndex(t, cursor.at)
      rest == UsedFrom(t, i + 1)
      e    == EntryAt(t, Smallest(rest))
  IN  IF i = -2 THEN reply' = <<"invalid key">> /\ cursor' = Idle
      ELSE IF rest = {} THEN reply' = <<"end">> /\ cursor' = Idle
      ELSE reply' = e /\ cursor' = By("key", e[2], cursor.todo \ {e[2]})

\* LOP_FORGLOOP over pairs(t) or t itself keeps a position and not a key.
NextByPosition ==
  LET rest == UsedFrom(t, cursor.at)
      e    == EntryAt(t, Smallest(rest))
  IN  IF rest = {} THEN reply' = <<"end">> /\ cursor' = Idle
      ELSE /\ reply' = e
           /\ cursor' = By("position", Smallest(rest) + 1, cursor.todo \ {e[2]})

\* LOP_FORGLOOP_INEXT, the loop over ipairs(t), never looks at the hash part.
NextByNumber ==
  IF cursor.at >= SizeArray(t) \/ t.array[cursor.at + 1] = Nil
    THEN reply' = <<"end">> /\ cursor' = Idle
    ELSE reply' = EntryAt(t, cursor.at)
         /\ cursor' = By("number", cursor.at + 1, {})

-----------------------------------------------------------------------------
(* The calls on one table. *)

Contents(h) == [k \in Keys |-> Get(h, k)]
Present(h)  == {k \in Keys : Get(h, k) # Nil}

Init ==
  /\ \E narray \in 0 .. MaxArray, nhash \in 0 .. MaxHash :
       t = NewTable(narray, nhash)
  /\ readonly = FALSE
  /\ cursor = Idle /\ reply = Quiet
  /\ dict = Contents(t)

\* Adding a key may move every entry.  Nothing is promised then to a loop
\* over the entries, and the client of this model gives up; a loop over the
\* list goes on as long as the list it has walked is still there, or, when
\* Stubborn, in any case.
Disturb ==
  cursor' = IF /\ cursor.by = "number"
               /\ Stubborn \/ \A i \in 1 .. cursor.at : Get(t, i) # Nil
              THEN cursor ELSE Idle

Refuse == readonly /\ reply' = <<"readonly">> /\ UNCHANGED <<t, cursor>>

\* A store: lua_rawset, lua_rawseti, lua_rawsetfield, luaV_settable.  The
\* callers refuse a read-only table first.
Store(k, v) ==
  /\ \/ Refuse
     \/ /\ ~readonly
        /\ t' = Set(t, k, v)
        /\ IF Get(t, k) = Nil THEN Disturb ELSE UNCHANGED cursor
        /\ reply' = Quiet
  /\ UNCHANGED readonly

\* lua_rawget and the like
Load(k) == reply' = <<"value", Get(t, k)>> /\ UNCHANGED <<t, readonly, cursor>>

\* #t, lua_objlen
Length ==
  /\ t' = GetN(t).h
  /\ reply' = <<"length", GetN(t).n>>
  /\ UNCHANGED <<readonly, cursor>>

\* The start of a loop: of next(t), of pairs(t), of ipairs(t).
Traverse ==
  /\ cursor' \in {By("key", NoKey, Present(t)), By("position", 0, Present(t)),
                  By("number", 0, {})}
  /\ reply' = Quiet
  /\ UNCHANGED <<t, readonly>>

Advance ==
  /\ \/ cursor.by = "key" /\ NextByKey
     \/ cursor.by = "position" /\ NextByPosition
     \/ cursor.by = "number" /\ NextByNumber
  /\ UNCHANGED <<t, readonly>>

\* table.freeze, lua_setreadonly
Freeze ==
  /\ SizeNode(t) <= FrozenNodes /\ ~readonly
  /\ readonly' = TRUE /\ reply' = Quiet
  /\ UNCHANGED <<t, cursor>>

\* table.clear empties the nodes, so that next no longer knows its key.
Clear ==
  /\ Refuse \/ (~readonly /\ t' = Cleared(t) /\ reply' = Quiet
               /\ cursor' = IF cursor.by = "number" THEN cursor ELSE Idle)
  /\ UNCHANGED readonly

\* table.clone and LOP_DUPTABLE: the script goes on with the copy, which is
\* writable.
Clone ==
  /\ t' = Cloned(t) /\ readonly' = FALSE
  /\ cursor' = Idle /\ reply' = Quiet

\* LOP_SETLIST on a table constructor: the array is grown to hold the last
\* element, and the elements are stored without looking.  Any of them may be
\* nil.  The reply says what was stored, for the dictionary to compare.
SetList(first, list) ==
  LET last == first + Len(list) - 1
      h    == IF last > SizeArray(t) THEN ResizeArray(t, last) ELSE t
  IN  /\ ~readonly
      /\ t' = [h EXCEPT !.array = [i \in DOMAIN @ |->
                 IF i \in first .. last THEN list[i - first + 1] ELSE @[i]]]
      /\ cursor' = Idle /\ reply' = <<"stored", first, list>>
      /\ UNCHANGED readonly

\* The collector traverses the table (traversetable, cleartable): the keys
\* of empty entries are not kept alive.
DeadKeys(h) ==
  LET swept(n) == IF n.val = Nil /\ n.key \in ObjKeys
                    THEN [n EXCEPT !.dead = TRUE] ELSE n
  IN  [h EXCEPT !.node = [i \in DOMAIN h.node |-> swept(h.node[i])]]
Collect == t' = DeadKeys(t) /\ UNCHANGED <<readonly, cursor, reply>>

\* cleartable of a shrinkable weak table (mode "s"): the hash part is made
\* smaller, which no traversal survives.
Shrink ==
  LET active == Cardinality(UsedNodes(t))
  IN  /\ ~IsDummy(t) /\ active < (SizeNode(t) * 3) \div 8
      /\ t' = ResizeHash(t, active)
      /\ Disturb
      /\ UNCHANGED <<readonly, reply>>

Call ==
  \/ \E k \in Keys, v \in Values \cup {Nil} : Store(k, v)
  \/ \E k \in Keys : Load(k)
  \/ Length
  \/ Traverse
  \/ Advance
  \/ Freeze
  \/ Clear
  \/ Clone
  \/ \E first \in 1 .. MaxArray : \E list \in BoundedSeq(Values \cup {Nil}, MaxArray) :
       list # <<>> /\ first + Len(list) - 1 <= MaxArray /\ SetList(first, list)
  \/ Collect
  \/ Shrink

Next == Call /\ dict' = Contents(t')

Spec == Init /\ [][Next]_vars

-----------------------------------------------------------------------------
(* Properties. *)

NodeType == [key : Keys \cup {NoKey}, dead : BOOLEAN, val : Values \cup {Nil},
             next : Int]

\* The parts have their types, and the union word is a valid lastfree or a
\* valid boundary hint.
TypeOK ==
  /\ t.array \in Seq(Values \cup {Nil})
  /\ t.node \in [0 .. SizeNode(t) - 1 -> NodeType]
  /\ t.last \in -SizeArray(t) .. SizeNode(t)
  /\ readonly \in BOOLEAN
  /\ cursor.at \in Keys \cup {NoKey} \cup Nat /\ cursor.todo \subseteq Keys

\* resize asserts that moving the entries never rehashes again: the sizes
\* that rehash chose were large enough, and the array part took the border.
NoNestedRehash == ~t.nested

\* The boundary invariant that luaH_getn relies on and asserts: a table with
\* nodes does not hold key sizearray + 1 in them.
BoundaryInvariant ==
  SizeArray(t) + 1 \in IntKeys /\ ~IsDummy(t) => Get(t, SizeArray(t) + 1) = Nil

\* However often nodes are reused, moved and chained anew, every chain ends,
\* and each entry is the first node of its own chain with that key, dead keys
\* included: a lookup finds it, and next resumes after it and not after a
\* dead namesake.
EveryEntryIsFound ==
  /\ \A i \in DOMAIN t.node :
       LET c == ChainFrom(t, i) IN t.node[c[SizeNode(t) - 1]].next = 0
  /\ \A i \in UsedNodes(t) :
       LET k == t.node[i].key
       IN  ~t.node[i].dead /\ ~InArray(t, k) /\ FirstNode(t, k, TRUE) = i

\* What Bytecode.h:292 says of FORGLOOP_INEXT: it is FORGLOOP with the
\* generator luaB_inext, which ends a loop only where the next element is nil.
IpairsIsGenerator ==
  [][(cursor.by = "number" /\ reply' = <<"end">> /\ cursor' = Idle)
       => (cursor.at + 1 \in IntKeys => Get(t, cursor.at + 1) = Nil)]_vars

\* The table as a dictionary: the two parts hold one mapping, the hint and the
\* search give a border, a traversal that changes and removes entries while the
\* collector kills keys answers each entry once (ImplementsLists, LuauTableLib).
LoopOf(c) ==
  [over |-> IF c.by \in {"key", "position"} THEN "entries"
            ELSE IF c.by = "number" THEN "list" ELSE "none",
   at   |-> IF c.by = "number" THEN c.at ELSE 0,
   todo |-> c.todo]
Dictionary == INSTANCE LuauDictionary WITH loop <- LoopOf(cursor)
=============================================================================
