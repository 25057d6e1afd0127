--------------------------- MODULE MCLuauCoroutine ---------------------------
(* Small instances of LuauCoroutine. *)
EXTENDS LuauCoroutineRefinement

CONSTANTS co1, co2
Pair == {co1, co2}
=============================================================================
