------------------------------ MODULE MCLuauGC ------------------------------
(***************************************************************************)
(* Small instances of LuauGC.  Every object is a model value; the .cfg     *)
(* files choose which kinds exist, so that each run looks at one part of   *)
(* the heap closely.                                                       *)
(***************************************************************************)
EXTENDS LuauGC, TLC

CONSTANTS main, co, co2, reg, glob, t1, t2, f1, f2, u1, u2, s1, d1

NoModes   == {}
WeakModes == {{}, {"k"}, {"v"}, {"k", "v"}}
=============================================================================
