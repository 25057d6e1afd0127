----------------------------- MODULE LuauBytecode -----------------------------
(***************************************************************************)
(* The bytecode of a function while it is built (BytecodeBuilder.cpp): the *)
(* distances of jumps, chains of jumps followed to their end, and jumps    *)
(* too long for their 16 bits sent through a JUMPX of 24.                  *)
(*                                                                         *)
(* An instruction is <<op, A, D or B, ...>>, with its auxiliary word: code *)
(* is counted in instructions and, where a width matters, in words.  A     *)
(* jump that waits for its target has a label in D; Patch gives it its     *)
(* distance.  Line information and the limit of JUMPX are left out.        *)
(***************************************************************************)
EXTENDS Integers, FiniteSets, SequencesExt

CONSTANT MaxJump      \* the largest int16_t; kMaxJumpDistanceConservative * 3
ASSUME MaxJumpAssumption == MaxJump \in Nat

\* Code after code; the concatenation makes a sequence of the values first.
InSequence(codes) == FlattenSeq(<<>> \o codes)

Jumps == {"JUMP", "JUMPBACK", "JUMPIF", "JUMPIFNOT", "JUMPCMP", "JUMPCMPK",
          "FORNPREP", "FORNLOOP", "FORGPREP", "FORGLOOP"}
OpLength(ins) ==
  IF ins[1] \in {"GETGLOBAL", "SETGLOBAL", "GETIMPORT", "GETTABLEKS", "SETTABLEKS",
                 "NAMECALL", "JUMPCMP", "JUMPCMPK", "NEWTABLE", "SETLIST", "FORGLOOP"}
  THEN 2 ELSE 1
\* A jump whose distance does not fit: the builder's assertion fails.
Misfit == <<"MISFIT">>

Pending(label) == <<label>>
Distance(d) == <<"d", d>>
\* Jumps of the piece that wait for the label go to its position `target`.
Patch(code, label, target) ==
  [i \in DOMAIN code |->
     IF code[i][1] \in Jumps /\ code[i][3] = Pending(label)
     THEN [code[i] EXCEPT ![3] = Distance(target - i)] ELSE code[i]]
PatchEnd(code, label) == Patch(code, label, Len(code) + 1)
Relabel(code, from, to) ==
  [i \in DOMAIN code |->
     IF code[i][1] \in Jumps /\ code[i][3] = Pending(from)
     THEN [code[i] EXCEPT ![3] = Pending(to)] ELSE code[i]]
Waits(code, label) ==
  \E i \in DOMAIN code : code[i][1] \in Jumps /\ code[i][3] = Pending(label)

-----------------------------------------------------------------------------
(* Finished code *)

IsJump(code, i) == code[i][1] \in Jumps
TargetOf(code, i) == i + code[i][3][2]
\* The word at which an instruction begins.
WordOf(code) ==
  LET at[i \in Nat] == IF i <= 1 THEN 0
                       ELSE at[i - 1] + (IF i - 1 \in DOMAIN code
                                         THEN OpLength(code[i - 1]) ELSE 1)
  IN [i \in 1 .. Len(code) + 2 |-> at[i]]
\* D of the instructions: relative to the word after the jump's first one.
Offsets(code) ==
  LET at == <<>> \o WordOf(code)
  IN [i \in {i \in DOMAIN code : IsJump(code, i)} |->
        at[TargetOf(code, i)] - at[i] - 1]
Fits(offset) == offset \in -MaxJump - 1 .. MaxJump
Conservative == MaxJump \div 3
Magnitude(offset) == IF offset < 0 THEN -offset ELSE offset
HasLongJumps(code) ==
  LET offsets == Offsets(code) IN \E i \in DOMAIN offsets : ~Fits(offsets[i])

\* Jumps go to the end of a chain of forward JUMPs, in whatever order they were
\* patched, when it is not too far for D; a JUMP to a RETURN becomes one.
FoldJumps(code) ==
  LET end[t \in Nat] ==
        IF t \in DOMAIN code /\ code[t][1] = "JUMP" /\ TargetOf(code, t) > t
        THEN end[TargetOf(code, t)] ELSE t
      at == <<>> \o WordOf(code)
      folded(i) ==
        LET t == end[TargetOf(code, i)]
        IN IF code[i][1] = "JUMP" /\ t \in DOMAIN code /\ code[t][1] = "RETURN"
           THEN code[t]
           ELSE IF Fits(at[t] - at[i] - 1)
                THEN [code[i] EXCEPT ![3] = Distance(t - i)] ELSE code[i]
  IN <<>> \o [i \in DOMAIN code |-> IF IsJump(code, i) THEN folded(i) ELSE code[i]]

\* A jump that is long by the conservative measure becomes
\*   JUMP +1; JUMPX to its target; the jump, to the JUMPX before it.
ExpandJumps(code) ==
  LET offsets == Offsets(code)
      long == {i \in DOMAIN offsets : Magnitude(offsets[i]) > Conservative}
      remap == [i \in 1 .. Len(code) + 2 |->
                  i + 2 * Cardinality({j \in long : j <= i})]
      moved(i) == [code[i] EXCEPT
                     ![3] = Distance(remap[TargetOf(code, i)] - remap[i])]
      pieces == [i \in DOMAIN code |->
                   IF i \in long
                   THEN <<<<"JUMP", 0, Distance(2)>>,
                          <<"JUMPX", 0, Distance(remap[TargetOf(code, i)]
                                                 - (remap[i] - 1))>>,
                          [code[i] EXCEPT ![3] = Distance(-1)]>>
                   ELSE <<IF IsJump(code, i) THEN moved(i) ELSE code[i]>>]
      expanded == InSequence(pieces)
      after == Offsets(expanded)
  IN <<>> \o [i \in DOMAIN expanded |->
        IF i \in DOMAIN after /\ ~Fits(after[i]) THEN Misfit ELSE expanded[i]]

\* The end of compileFunction.
FinishJumps(code) ==
  IF HasLongJumps(code) THEN ExpandJumps(code) ELSE FoldJumps(code)
=============================================================================
