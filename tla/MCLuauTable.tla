---------------------------- MODULE MCLuauTable ----------------------------
(***************************************************************************)
(* Small instances of LuauTableLib: a few integer and object keys, with a  *)
(* hash that makes them collide in every table of at most four nodes.      *)
(***************************************************************************)
EXTENDS LuauTableLib

CONSTANTS key1, key2, key3, v, w

Colliding == key1 :> 0 @@ key2 :> 2 @@ key3 :> 0 @@ 1 :> 1 @@ 2 :> 0 @@ 3 :> 2 @@ 4 :> 3
\* No action reads the last reply, and the properties only read the next one.
WithoutReply == <<t, readonly, cursor>>

\* Values are only stored, and compared with each other.
SameValues == Permutations(Values)

SmallHash == [k \in Keys |-> Colliding[k]]
=============================================================================
