------------------------- MODULE MCScriptPipeline -------------------------
(***************************************************************************)
(* Small instances of ScriptPipeline: three clicks, scripts of at most    *)
(* three symbols, one of them with a '\0' inside.                          *)
(***************************************************************************)
EXTENDS ScriptPipeline, TLC

CONSTANTS c1, c2, c3

Letters      == {"a", "b", "c", "d", "e", NUL}
MixedScripts == c1 :> <<"a", "b">> @@ c2 :> <<"c", NUL, "d">> @@ c3 :> <<"e">>
OneScript    == c3 :> <<"e">>
=============================================================================
