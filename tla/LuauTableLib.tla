---------------------------- MODULE LuauTableLib ----------------------------
(***************************************************************************)
(* The functions of the table library (ltablib.cpp) that treat a table as  *)
(* a list.  Each one is a series of raw reads and writes of the table, and *)
(* some have a fast path that works on the array part directly.            *)
(***************************************************************************)
EXTENDS LuauTable

\* Mutant: always upwards.
MoveElementsUp(h, f, e, dest) ==
  FoldLeft(LAMBDA acc, i : Set(acc, dest + i, Get(acc, f + i)), h,
           [i \in 1 .. e - f + 1 |-> i - 1])

\* moveelements within one table: the elements f..e go to dest.., upwards or
\* downwards so that none is overwritten before it is read.  When both ranges
\* are inside the array part, its slots are copied without lookups.
MoveElements(h, f, e, dest) ==
  LET n    == e - f + 1
      fast == /\ f - 1 \in 0 .. SizeArray(h) - 1 /\ f - 1 + n <= SizeArray(h)
              /\ dest - 1 \in 0 .. SizeArray(h) - 1
              /\ dest - 1 + n <= SizeArray(h)
      up   == dest > e \/ dest <= f
      copy(acc, i) ==
        IF fast THEN [acc EXCEPT !.array[dest + i] = acc.array[f + i]]
        ELSE Set(acc, dest + i, Get(acc, f + i))
      moved[i \in 0 .. n] ==
        IF i = 0 THEN h ELSE copy(moved[i - 1], IF up THEN i - 1 ELSE n - i)
  IN  moved[n]

\* table.insert(t, pos, v); table.insert(t, v) is the case pos = #t + 1.
TInsert(pos, v) ==
  LET n == GetN(t).n
      h == GetN(t).h
      shifted == IF pos \in 1 .. n THEN MoveElements(h, pos, n, pos + 1) ELSE h
  IN  /\ n + 1 \in IntKeys
      /\ IF readonly THEN t' = h /\ reply' = <<"readonly">>
         ELSE t' = Set(shifted, pos, v) /\ reply' = Quiet
      /\ cursor' = Idle /\ UNCHANGED readonly

\* table.remove(t, pos)
TRemove(pos) ==
  LET n == GetN(t).n
      h == GetN(t).h
  IN  /\ IF pos \notin 1 .. n THEN t' = h /\ reply' = Quiet
         ELSE IF readonly THEN t' = h /\ reply' = <<"readonly">>
         ELSE /\ t' = Set(MoveElements(h, pos + 1, n, pos), n, Nil)
              /\ reply' = <<"value", Get(h, pos)>>
      /\ cursor' = Idle /\ UNCHANGED readonly

\* table.move grows the array part of its destination first when the range
\* dest..last starts in it or right after it and ends behind it.
RoomFor(dest, last) ==
  IF dest > 0 /\ dest - 1 <= SizeArray(t) /\ last > SizeArray(t)
    THEN ResizeArray(t, last) ELSE t

\* table.move(t, f, e, dest)
TMove(f, e, dest) ==
  /\ IF e < f THEN t' = t /\ reply' = Quiet
     ELSE IF readonly THEN t' = t /\ reply' = <<"readonly">>
     ELSE t' = MoveElements(RoomFor(dest, dest + e - f), f, e, dest) /\ reply' = Quiet
  /\ cursor' = Idle /\ UNCHANGED readonly

\* table.move(src, f, e, dest, t): list is what src holds at f..e.  Elements
\* always go upwards; the slots of the array part that the fast path fills are
\* those that Set finds.
TMoveFrom(list, dest) ==
  LET moved[i \in 0 .. Len(list)] ==
        IF i = 0 THEN RoomFor(dest, dest + Len(list) - 1)
        ELSE Set(moved[i - 1], dest + i - 1, list[i])
  IN  /\ IF readonly THEN t' = t /\ reply' = <<"readonly">>
         ELSE t' = moved[Len(list)] /\ reply' = <<"stored", dest, list>>
      /\ cursor' = Idle /\ UNCHANGED readonly

\* unpack(t, 1, e): from the array part when it is long enough.
TUnpack(e) ==
  /\ reply' = <<"list", [i \in 1 .. e |->
                  IF e <= SizeArray(t) THEN t.array[i] ELSE Get(t, i)]>>
  /\ UNCHANGED <<t, readonly, cursor>>

\* table.find(t, v): the search ends at the first nil.
TFind(v) ==
  LET stops == {i \in IntKeys : i >= 1 /\ Get(t, i) \in {v, Nil}}
      i     == Smallest(stops)
  IN  /\ reply' = IF stops = {} \/ Get(t, i) = Nil THEN <<"value", Nil>>
                  ELSE <<"index", i>>
      /\ UNCHANGED <<t, readonly, cursor>>

\* table.create(n, v), which the script uses instead of t from now on.
TCreate(n, v) ==
  /\ t' = [NewTable(n, 0) EXCEPT !.array = [i \in 1 .. n |-> v]]
  /\ readonly' = FALSE /\ cursor' = Idle /\ reply' = Quiet

LibCall ==
  \/ \E v \in Values, pos \in IntKeys : TInsert(pos, v)
  \/ \E pos \in IntKeys : TRemove(pos)
  \/ \E f, e, dest \in IntKeys : dest + e - f \in IntKeys /\ TMove(f, e, dest)
  \/ \E list \in BoundedSeq(Values \cup {Nil}, MaxArray), dest \in IntKeys :
       list # <<>> /\ dest + Len(list) - 1 \in IntKeys /\ TMoveFrom(list, dest)
  \/ \E e \in 1 .. MaxArray : TUnpack(e)
  \/ \E v \in Values : TFind(v)
  \/ \E n \in 1 .. MaxArray, v \in Values : TCreate(n, v)

LibNext == (Call \/ LibCall) /\ dict' = Contents(t')

LibSpec == Init /\ [][LibNext]_vars

-----------------------------------------------------------------------------
\* The list functions are those of the dictionary, over some border of the
\* list, whichever part of the table its elements are in.
ImplementsLists == Dictionary!LibSpec
=============================================================================
