--------------------------- MODULE LuauDictionary ---------------------------
(***************************************************************************)
(* What a Lua table promises to those who cannot see its two parts: a      *)
(* mapping from keys to values, a length that is some border of the list   *)
(* it holds, a loop over its entries that answers each one once, whichever *)
(* entries are changed or removed meanwhile, and a loop over the list.     *)
(***************************************************************************)
EXTENDS Integers

CONSTANTS IntKeys, ObjKeys, Values, Nil, MaxArray

Keys == IntKeys \cup ObjKeys

VARIABLES dict, readonly, loop, reply

vars == <<dict, readonly, loop, reply>>

Quiet == <<>>
NoLoop == [over |-> "none", at |-> 0, todo |-> {}]

At(d, i) == IF i \in IntKeys THEN d[i] ELSE Nil
Border(d, n) == n >= 0 /\ (n = 0 \/ At(d, n) # Nil) /\ At(d, n + 1) = Nil

Init ==
  /\ dict = [k \in Keys |-> Nil] /\ readonly = FALSE
  /\ loop = NoLoop /\ reply = Quiet

\* A new key ends a loop over the entries, and a loop over the list unless
\* what it has answered is still there.
Disturb == loop' = IF /\ loop.over = "list"
                      /\ \A i \in 1 .. loop.at : At(dict, i) # Nil
                     THEN loop ELSE NoLoop
Refuse == /\ readonly /\ reply' = <<"readonly">>
          /\ UNCHANGED <<readonly, loop, dict>>

\* Storing into an existing entry leaves a loop alone.
Store ==
  /\ ~readonly /\ reply' = Quiet /\ UNCHANGED readonly
  /\ \E k \in Keys :
       /\ dict'[k] \in Values \cup {Nil}
       /\ \A j \in Keys \ {k} : dict'[j] = dict[j]
       /\ IF dict[k] = Nil THEN Disturb ELSE UNCHANGED loop

Load ==
  /\ \E k \in Keys : reply' = <<"value", dict[k]>>
  /\ UNCHANGED <<readonly, loop, dict>>

Length ==
  /\ \E n \in IntKeys \cup {0} : reply' = <<"length", n>> /\ Border(dict, n)
  /\ UNCHANGED <<readonly, loop, dict>>

LoopOver ==
  /\ \/ loop' = [over |-> "list", at |-> 0, todo |-> {}]
     \/ loop' = [over |-> "entries", at |-> 0,
                 todo |-> {k \in Keys : dict[k] # Nil}]
  /\ reply' = Quiet /\ UNCHANGED <<readonly, dict>>

Visit ==
  /\ loop.over = "entries" /\ loop'.over = "entries"
  /\ \E k \in loop.todo :
       /\ dict[k] # Nil
       /\ reply' = <<"entry", k, dict[k]>>
       /\ loop' = [loop EXCEPT !.todo = @ \ {k}]
  /\ UNCHANGED <<readonly, dict>>

VisitList ==
  /\ loop.over = "list" /\ At(dict, loop.at + 1) # Nil
  /\ reply' = <<"entry", loop.at + 1, At(dict, loop.at + 1)>>
  /\ loop' = [loop EXCEPT !.at = @ + 1]
  /\ UNCHANGED <<readonly, dict>>

Finish ==
  /\ loop.over = "entries" => \A k \in loop.todo : dict[k] = Nil
  /\ loop.over = "list" => At(dict, loop.at + 1) = Nil
  /\ reply' = <<"end">> /\ loop' = NoLoop
  /\ UNCHANGED <<readonly, dict>>

Freeze == ~readonly /\ readonly' = TRUE /\ reply' = Quiet
          /\ UNCHANGED <<loop, dict>>

Clear ==
  /\ ~readonly /\ reply' = Quiet /\ UNCHANGED readonly
  /\ loop' = IF loop.over = "list" THEN loop ELSE NoLoop
  /\ dict' = [k \in Keys |-> Nil]

Clone ==
  /\ readonly' = FALSE /\ loop' = NoLoop /\ reply' = Quiet
  /\ UNCHANGED dict

\* The elements from first to last are stored, whatever was there.
StoreList ==
  /\ ~readonly /\ loop' = NoLoop /\ UNCHANGED readonly
  /\ \E first, last \in IntKeys :
       /\ reply' = <<"stored", first, [i \in 1 .. last - first + 1 |-> At(dict', first + i - 1)]>>
       /\ first <= last
       /\ \A k \in Keys : k \in first .. last \/ dict'[k] = dict[k]

\* The collector may end a loop over a table it is allowed to shrink.
Shrink == Disturb /\ UNCHANGED <<readonly, reply, dict>>

Next ==
  \/ Refuse \/ Store \/ Load \/ Length \/ LoopOver \/ Visit \/ VisitList
  \/ Finish \/ Freeze \/ Clear \/ Clone \/ StoreList \/ Shrink

-----------------------------------------------------------------------------
(* The functions of the table library that take the table for a list. *)

\* The elements f..e replaced the ones from dest on.
Moved(d, f, e, dest) ==
  [k \in Keys |-> IF k \in IntKeys /\ k - dest \in 0 .. e - f
                    THEN At(d, f + (k - dest)) ELSE d[k]]

Insert ==
  /\ ~readonly /\ reply' = Quiet /\ loop' = NoLoop /\ UNCHANGED readonly
  /\ \E n \in IntKeys \cup {0}, pos \in IntKeys, v \in Values :
       /\ Border(dict, n) /\ dict'[pos] = v
       /\ dict' = [(IF pos \in 1 .. n THEN Moved(dict, pos, n, pos + 1) ELSE dict)
                     EXCEPT ![pos] = v]

Remove ==
  /\ ~readonly /\ loop' = NoLoop /\ UNCHANGED readonly
  /\ \E n, pos \in IntKeys :
       /\ Border(dict, n) /\ pos \in 1 .. n
       /\ reply' = <<"value", At(dict, pos)>>
       /\ dict' = [Moved(dict, pos + 1, n, pos) EXCEPT ![n] = Nil]

Move ==
  /\ ~readonly /\ reply' = Quiet /\ loop' = NoLoop /\ UNCHANGED readonly
  /\ \E f, e, dest \in IntKeys : f <= e /\ dict' = Moved(dict, f, e, dest)

Nothing ==
  reply' \in {Quiet, <<"readonly">>} /\ loop' = NoLoop /\ UNCHANGED <<readonly, dict>>

Unpack ==
  /\ \E e \in 1 .. MaxArray : reply' = <<"list", [i \in 1 .. e |-> At(dict, i)]>>
  /\ UNCHANGED <<readonly, loop, dict>>

Find ==
  /\ \/ /\ \E i \in IntKeys, v \in Values :
             /\ i >= 1 /\ reply' = <<"index", i>> /\ At(dict, i) = v
             /\ \A j \in 1 .. i - 1 : At(dict, j) \in Values \ {v}
     \/ reply' = <<"value", Nil>>
  /\ UNCHANGED <<readonly, loop, dict>>

Create ==
  /\ readonly' = FALSE /\ reply' = Quiet /\ loop' = NoLoop
  /\ \E n \in 1 .. MaxArray, v \in Values :
       dict' = [k \in Keys |-> IF k \in 1 .. n THEN v ELSE Nil]

LibNext ==
  Next \/ Insert \/ Remove \/ Move \/ Nothing \/ Unpack \/ Find \/ Create

LibSpec == Init /\ [][LibNext]_vars
=============================================================================
