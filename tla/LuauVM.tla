------------------------------- MODULE LuauVM -------------------------------
(***************************************************************************)
(* The interpreter (luau_execute in lvmexecute.cpp) running a chunk that   *)
(* LuauCompiler compiled and luau_load loaded, one instruction a step, on  *)
(* the stack of one thread.  A closure's upvalues are values, or cells     *)
(* that are open while they point into the stack (lfunc.cpp).  The chunk's *)
(* meaning is computed once from its tree and kept beside the machine.     *)
(*                                                                         *)
(* The host gives the chunk two globals: emit, a native function that      *)
(* records its arguments and returns them, and lib, a table with a field.  *)
(* Metatables, the fast paths of table access (LuauDictionary), garbage    *)
(* collection (LuauGC), protected calls and coroutines (LuauCoroutine) and *)
(* the growth of the stack are not part of this module.                    *)
(***************************************************************************)
EXTENDS LuauCompiler, LuauMeaning

CONSTANTS Chunks,     \* the set of Compiled(p) for chunks p
          StackSize   \* stack slots, more than a chunk needs

VARIABLES program, meaning,
          fn,        \* Proto by function
          stack, top,   \* L->top, NoTop while nothing reads it
          frames,    \* CallInfo: the last is L->ci
          cells, closures, tables, globals,
          constant,  \* closures in the constant table of a function
          log, outcome
heap == <<cells, closures, tables, globals, constant>>
vars == <<program, meaning, fn, stack, top, frames, heap, log, outcome>>

NoTop == -1
Slots == 0 .. StackSize - 1
Proto(cl) == fn[closures[cl].id]
Frame(cl, base, func, nresults) ==
  [cl |-> cl, pc |-> 1, base |-> base, func |-> func, nresults |-> nresults,
   iterating |-> FALSE]

ci == Last(frames)
Ins == Proto(ci.cl).code[ci.pc]
Op == Ins[1]
Reg(r) == stack[ci.base + r]
ra == Reg(Ins[2])

Go(d) == frames' = [frames EXCEPT ![Len(frames)].pc = @ + d]
\* Values written to the slots from `at` on.
Write(st, at, vs) ==
  [i \in Slots |-> IF i \in at .. at + Len(vs) - 1 THEN vs[i - at + 1] ELSE st[i]]
SetReg(r, v) == stack' = [stack EXCEPT ![ci.base + r] = v]
SetA(v) == SetReg(Ins[2], v)
Values(st, from, to) == [i \in 1 .. to - from + 1 |-> st[from + i - 1]]
Fixed(vs, n) == [i \in 1 .. n |-> IF i <= Len(vs) THEN vs[i] ELSE Nil]
Fail == /\ outcome' = "error"
        /\ UNCHANGED <<program, meaning, fn, stack, top, frames, heap, log>>

-----------------------------------------------------------------------------
(* Loading *)

\* luau_load resolves an import with the globals of the time; a nil on the
\* way makes it nil.  GETIMPORT looks a nil import up again.
LoadedImport(path) ==
  LET g == HostGlobal(path[1])
  IN IF Len(path) = 1 \/ g[1] # "table" THEN (IF Len(path) = 1 THEN g ELSE Nil)
     ELSE Field(HostTables[g[2]], path[2])

Compiled(p) == [program |-> p, fn |-> Compile(p), meaning |-> Meaning(p)]
Init ==
  \E chunk \in Chunks :
       /\ program = chunk.program
       /\ meaning = chunk.meaning
       /\ fn = chunk.fn
       /\ stack = [j \in Slots |-> IF j = 0 THEN <<"fn", 1>> ELSE Nil]
       /\ top = 1
       /\ closures = <<[id |-> "main", ups |-> [x \in {} |-> Nil]]>>
       /\ frames = <<Frame(1, 1, 0, 0)>>
       /\ cells = <<>>
       /\ tables = HostTables
       /\ globals = HostGlobals
       /\ constant = [k \in {} |-> 0]
       /\ log = <<>>
       /\ outcome = IF HasCompileError(fn) THEN "compile error" ELSE "running"

-----------------------------------------------------------------------------
(* Registers, constants and globals *)

\* The next instruction of a chunk that runs is an op.
At(op) == outcome = "running" /\ Op = op
AtOneOf(ops) == outcome = "running" /\ Op \in ops
Quiet == UNCHANGED <<program, meaning, fn, outcome>>
Only(v) == SetA(v) /\ Go(1) /\ UNCHANGED <<top, heap, log>> /\ Quiet

LoadNil == At("LOADNIL") /\ Only(Nil)
LoadK == At("LOADK") /\ Only(Ins[3])
Move == At("MOVE") /\ Only(Reg(Ins[3]))
\* LOADB skips C instructions.
LoadB ==
  /\ At("LOADB")
  /\ SetA(Ins[3]) /\ Go(1 + Ins[4])
  /\ UNCHANGED <<top, heap, log>> /\ Quiet

GlobalValue(n) == IF n \in DOMAIN globals THEN globals[n] ELSE Nil
GetGlobal == At("GETGLOBAL") /\ Only(GlobalValue(Ins[3]))
SetGlobal ==
  /\ At("SETGLOBAL")
  /\ globals' = (Ins[3] :> ra) @@ globals
  /\ Go(1) /\ UNCHANGED <<stack, top, cells, closures, tables, constant, log>>
  /\ Quiet
GetImport ==
  /\ At("GETIMPORT")
  /\ LET path == Ins[3]
         loaded == LoadedImport(path)
         g == GlobalValue(path[1])
     IN IF loaded # Nil THEN Only(loaded)
        ELSE IF Len(path) = 1 THEN Only(g)
        ELSE IF g[1] = "table" THEN Only(Field(tables[g[2]], path[2]))
        ELSE Fail

-----------------------------------------------------------------------------
(* Upvalues and closures *)

CellValue(k) == IF cells[k].at >= 0 THEN stack[cells[k].at] ELSE cells[k].v
UpvalueOf(x) == closures[ci.cl].ups[x]
UpvalueValue(x) == IF UpvalueOf(x)[1] = "cell" THEN CellValue(UpvalueOf(x)[2])
                   ELSE UpvalueOf(x)
GetUpval == At("GETUPVAL") /\ Only(UpvalueValue(Ins[3]))
SetUpval ==
  /\ At("SETUPVAL")
  /\ LET k == UpvalueOf(Ins[3])[2]
     IN IF cells[k].at >= 0
        THEN stack' = [stack EXCEPT ![cells[k].at] = ra] /\ UNCHANGED cells
        ELSE cells' = [cells EXCEPT ![k].v = ra] /\ UNCHANGED stack
  /\ Go(1) /\ UNCHANGED <<top, closures, tables, globals, constant, log>>
  /\ Quiet

\* Mutant: the cell in the slot itself stays open.
ClosedAbove(level) ==
  [k \in DOMAIN cells |->
     IF cells[k].at > level THEN [at |-> -1, v |-> stack[cells[k].at]]
     ELSE cells[k]]
\* luaF_close
Closed(level) ==
  [k \in DOMAIN cells |->
     IF cells[k].at >= level THEN [at |-> -1, v |-> stack[cells[k].at]]
     ELSE cells[k]]
CloseUpvals ==
  /\ At("CLOSEUPVALS")
  /\ cells' = Closed(ci.base + Ins[2])
  /\ Go(1) /\ UNCHANGED <<stack, top, closures, tables, globals, constant, log>>
  /\ Quiet

\* luaF_findupval: one open cell for a slot.
OpenAt(cs, at) == {k \in DOMAIN cs : cs[k].at = at}
FindUpval(cs, at) ==
  IF OpenAt(cs, at) # {} THEN cs ELSE Append(cs, [at |-> at, v |-> Nil])
\* The slots a closure being made captures by reference.
RefSlots == {ci.base + Ins[4][x][2] : x \in {x \in DOMAIN Ins[4] :
                                               Ins[4][x][1] = "REF"}}
CaptureValue(cs, st, capture) ==
  CASE capture[1] = "VAL" -> st[ci.base + capture[2]]
    [] capture[1] = "REF" ->
         <<"cell", CHOOSE k \in OpenAt(cs, ci.base + capture[2]) : TRUE>>
    [] capture[1] = "UPVAL" -> UpvalueOf(capture[2])
\* The closure is in its register before the captures are read.
Captures(cs, self) ==
  LET st == [stack EXCEPT ![ci.base + Ins[2]] = <<"fn", self>>]
  IN [x \in DOMAIN Ins[4] |-> CaptureValue(cs, st, Ins[4][x])]

NewClosure ==
  /\ At("NEWCLOSURE")
  /\ LET cs == FoldLeft(FindUpval, cells, SetToSeq(RefSlots))
         k == Len(closures) + 1
     IN /\ cells' = cs
        /\ closures' = Append(closures, [id |-> Ins[3], ups |-> Captures(cs, k)])
        /\ SetA(<<"fn", k>>)
  /\ Go(1) /\ UNCHANGED <<top, tables, globals, constant, log>> /\ Quiet

\* The constant closure is made the first time; later it is shared if the
\* upvalues are the same, and a new closure is made if they are not.
SameUpvalues(k) == closures[k].ups = Captures(cells, k)
DupClosure ==
  /\ At("DUPCLOSURE")
  /\ LET key == <<closures[ci.cl].id, Ins[3]>>
         first == key \notin DOMAIN constant
         fresh == Len(closures) + 1
         k == IF ~first /\ SameUpvalues(constant[key]) THEN constant[key] ELSE fresh
     IN /\ SetA(<<"fn", k>>)
        /\ constant' = IF first THEN (key :> k) @@ constant ELSE constant
        /\ closures' = IF k # fresh THEN closures
                       ELSE Append(closures, [id |-> Ins[3],
                                              ups |-> Captures(cells, k)])
  /\ Go(1) /\ UNCHANGED <<top, cells, tables, globals, log>> /\ Quiet

-----------------------------------------------------------------------------
(* Tables *)

NewTable ==
  /\ At("NEWTABLE")
  /\ tables' = Append(tables, EmptyTable)
  /\ SetA(<<"table", Len(tables) + 1>>)
  /\ Go(1) /\ UNCHANGED <<top, cells, closures, globals, constant, log>>
  /\ Quiet

Read(k) ==
  LET t == Reg(Ins[3])
  IN IF t[1] = "table" THEN Only(Field(tables[t[2]], k)) ELSE Fail
GetTableKS == At("GETTABLEKS") /\ Read(Ins[4])
GetTable == At("GETTABLE") /\ Read(Reg(Ins[4]))
GetTableN == At("GETTABLEN") /\ Read(Ins[4])
\* The object is copied before its register may take the method.
NameCall ==
  /\ At("NAMECALL")
  /\ LET t == Reg(Ins[3])
         at == ci.base + Ins[2]
     IN IF t[1] = "table"
        THEN /\ stack' = Write(stack, at, <<Field(tables[t[2]], Ins[4]), t>>)
             /\ Go(1) /\ UNCHANGED <<top, heap, log>> /\ Quiet
        ELSE Fail
Store(k) ==
  LET t == Reg(Ins[3])
  IN IF t[1] = "table" /\ k # Nil
     THEN /\ tables' = [tables EXCEPT ![t[2]] = WithField(@, k, ra)]
          /\ Go(1)
          /\ UNCHANGED <<stack, top, cells, closures, globals, constant, log>>
          /\ Quiet
     ELSE Fail
SetTableKS == At("SETTABLEKS") /\ Store(Ins[4])
SetTable == At("SETTABLE") /\ Store(Reg(Ins[4]))
SetTableN == At("SETTABLEN") /\ Store(Ins[4])
SetList ==
  /\ At("SETLIST")
  /\ LET from == ci.base + Ins[3]
         many == Ins[4] = -1
         vs == Values(stack, from, IF many THEN top - 1 ELSE from + Ins[4] - 1)
     IN /\ tables' = [tables EXCEPT ![ra[2]] =
                        FoldLeft(LAMBDA t, i : WithField(t, Num(Ins[5] + i - 1), vs[i]),
                                 @, [i \in DOMAIN vs |-> i])]
        /\ top' = IF many THEN NoTop ELSE top
  /\ Go(1) /\ UNCHANGED <<stack, cells, closures, globals, constant, log>>
  /\ Quiet

-----------------------------------------------------------------------------
(* Operators and jumps *)

Result(v) == IF v = Failed THEN Fail ELSE Only(v)
Arithmetic == At("ARITH") /\ Result(BinaryValue(Ins[5], Reg(Ins[3]), Reg(Ins[4])))
ArithmeticK == At("ARITHK") /\ Result(BinaryValue(Ins[5], Reg(Ins[3]), Ins[4]))
Not == At("UNARY") /\ Ins[4] = "not" /\ Only(Bool(~Truthy(Reg(Ins[3]))))
Minus == At("UNARY") /\ Ins[4] = "-" /\ Result(UnaryValue("-", Reg(Ins[3])))
\* The operands are joined from the right.
Joined(vs) ==
  FoldRight(LAMBDA v, acc : IF acc = Failed THEN Failed
                            ELSE BinaryValue("..", v, acc),
            Front(vs), Last(vs))
Concat ==
  /\ At("CONCAT")
  /\ Result(Joined(Values(stack, ci.base + Ins[3], ci.base + Ins[4])))
Chosen(isAnd, l, r) == IF Truthy(l) = isAnd THEN r ELSE l
And == At("AND") /\ Only(Chosen(TRUE, Reg(Ins[3]), Reg(Ins[4])))
Or == At("OR") /\ Only(Chosen(FALSE, Reg(Ins[3]), Reg(Ins[4])))
AndK == At("ANDK") /\ Only(Chosen(TRUE, Reg(Ins[3]), Ins[4]))
OrK == At("ORK") /\ Only(Chosen(FALSE, Reg(Ins[3]), Ins[4]))

Target == Ins[3][2]
JumpWhen(taken) ==
  /\ Go(IF taken THEN Target ELSE 1)
  /\ UNCHANGED <<stack, top, heap, log>> /\ Quiet
JumpAlways == AtOneOf({"JUMP", "JUMPBACK", "JUMPX"}) /\ JumpWhen(TRUE)
JumpIf == At("JUMPIF") /\ JumpWhen(Truthy(ra))
JumpIfNot == At("JUMPIFNOT") /\ JumpWhen(~Truthy(ra))
JumpIfEq == At("JUMPCMP") /\ Ins[4] = "==" /\ JumpWhen(ra = Reg(Ins[5]))
JumpIfNotEq == At("JUMPCMP") /\ Ins[4] = "~=" /\ JumpWhen(ra # Reg(Ins[5]))
JumpIfEqK == At("JUMPCMPK") /\ Ins[4] = "==" /\ JumpWhen(ra = Ins[5])
JumpIfNotEqK == At("JUMPCMPK") /\ Ins[4] = "~=" /\ JumpWhen(ra # Ins[5])
\* The "not" forms jump where the comparison is false; none swaps its operands.
JumpOrdered(op, test) ==
  LET v == BinaryValue(op, ra, Reg(Ins[5]))
  IN IF v = Failed THEN Fail ELSE JumpWhen((v = Bool(TRUE)) = (test = op))
JumpIfLe == At("JUMPCMP") /\ Ins[4] \in {"<=", "not<="} /\ JumpOrdered("<=", Ins[4])
JumpIfLt == At("JUMPCMP") /\ Ins[4] \in {"<", "not<"} /\ JumpOrdered("<", Ins[4])

\* A: limit, step, index.
Within(limit, step, i) == IF step > 0 THEN i <= limit ELSE limit <= i
ForNPrep ==
  /\ At("FORNPREP")
  /\ LET limit == ra  step == Reg(Ins[2] + 1)  i == Reg(Ins[2] + 2)
     IN IF ~(IsNum(limit) /\ IsNum(step) /\ IsNum(i)) THEN Fail
        ELSE /\ Go(IF Within(limit[2], step[2], i[2]) THEN 1 ELSE Target)
             /\ UNCHANGED <<stack, top, heap, log>> /\ Quiet
ForNLoop ==
  /\ At("FORNLOOP")
  /\ LET step == Reg(Ins[2] + 1)[2]
         i == Reg(Ins[2] + 2)[2] + step
     IN /\ SetReg(Ins[2] + 2, Num(i))
        /\ Go(IF Within(ra[2], step, i) THEN Target ELSE 1)
  /\ UNCHANGED <<top, heap, log>> /\ Quiet

-----------------------------------------------------------------------------
(* Calls *)

\* Results for a caller that wants n of them, from slot `func` on.
Return1(st, func, vs, n) ==
  /\ stack' = Write(st, func, IF n = -1 THEN vs ELSE Fixed(vs, n))
  /\ top' = IF n = -1 THEN func + Len(vs) ELSE NoTop

\* A call of the function at slot func with the arguments up to argtop; `here`
\* is the calling frame as the call leaves it.
Invoke(st, func, argtop, n, here) ==
  LET v == st[func]
      args == Values(st, func + 1, argtop - 1)
      p == Proto(v[2])
      given == IF Len(args) < p.params THEN Fixed(args, p.params) ELSE args
  IN CASE v[1] = "native" ->
            /\ log' = Append(log, [i \in DOMAIN args |-> Shown(args[i])])
            /\ Return1(st, func, args, n)
            /\ frames' = Append(Front(frames), here)
            /\ UNCHANGED heap /\ Quiet
       [] v[1] = "fn" ->
            /\ stack' = Write(st, func + 1, given)
            /\ top' = IF p.vararg THEN func + 1 + Len(given) ELSE NoTop
            /\ frames' = Append(Append(Front(frames), here),
                                Frame(v[2], func + 1, func, n))
            /\ UNCHANGED <<heap, log>> /\ Quiet
       [] OTHER -> Fail
CallOp ==
  /\ At("CALL")
  /\ LET func == ci.base + Ins[2]
     IN Invoke(stack, func, IF Ins[3] = -1 THEN top ELSE func + 1 + Ins[3],
               Ins[4], [ci EXCEPT !.pc = @ + 1])

ReturnOp ==
  /\ At("RETURN")
  /\ LET from == ci.base + Ins[2]
         vs == Values(stack, from, IF Ins[3] = -1 THEN top - 1
                                   ELSE from + Ins[3] - 1)
     IN /\ frames' = Front(frames)
        /\ Return1(stack, ci.func, vs, ci.nresults)
        /\ outcome' = IF Len(frames) = 1 THEN "returned" ELSE outcome
  /\ UNCHANGED <<program, meaning, fn, heap, log>>

\* The variable arguments stay below the frame's new base.
PrepVarargs ==
  /\ At("PREPVARARGS")
  /\ LET n == Ins[2]
         fixed == Values(stack, ci.base, ci.base + n - 1)
     IN /\ stack' = Write(Write(stack, top, fixed), ci.base, Fixed(<<>>, n))
        /\ frames' = [frames EXCEPT ![Len(frames)].base = top,
                                    ![Len(frames)].pc = @ + 1]
        /\ top' = NoTop
  /\ UNCHANGED <<heap, log>> /\ Quiet
GetVarargs ==
  /\ At("GETVARARGS")
  /\ LET n == ci.base - ci.func - Proto(ci.cl).params - 1
         vs == Values(stack, ci.base - n, ci.base - 1)
         at == ci.base + Ins[2]
     IN IF Ins[3] = -1
        THEN stack' = Write(stack, at, vs) /\ top' = at + n
        ELSE stack' = Write(stack, at, Fixed(vs, Ins[3])) /\ UNCHANGED top
  /\ Go(1) /\ UNCHANGED <<heap, log>> /\ Quiet

\* A generic for calls a function for the next values; tables are walked over
\* keys 1, 2, ... of their array.
ForGPrep ==
  /\ At("FORGPREP")
  /\ IF ra[1] \in {"fn", "native"}
     THEN Go(Target) /\ UNCHANGED <<stack, top, heap, log>> /\ Quiet
     ELSE IF ra[1] = "table"
     THEN /\ stack' = Write(stack, ci.base + Ins[2], <<Nil, ra, <<"index", 0>>>>)
          /\ Go(Target) /\ UNCHANGED <<top, heap, log>> /\ Quiet
     ELSE Fail
ForGCall ==
  /\ At("FORGLOOP") /\ ~ci.iterating /\ ra # Nil
  /\ LET at == ci.base + Ins[2]
     IN Invoke(Write(stack, at + 3, Values(stack, at, at + 2)), at + 3, at + 6,
               Ins[4], [ci EXCEPT !.iterating = TRUE])
ForGLoop ==
  /\ At("FORGLOOP") /\ ci.iterating
  /\ LET first == Reg(Ins[2] + 3)
     IN /\ SetReg(Ins[2] + 2, first)
        /\ frames' = [frames EXCEPT
                        ![Len(frames)] = [@ EXCEPT !.iterating = FALSE,
                                          !.pc = @ + IF first = Nil THEN 1
                                                     ELSE Target]]
  /\ UNCHANGED <<top, heap, log>> /\ Quiet
ForGTable ==
  /\ At("FORGLOOP") /\ ~ci.iterating /\ ra = Nil
  /\ LET at == ci.base + Ins[2]
         t == tables[stack[at + 1][2]]
         later == {i \in 1 .. MaxArray : i > stack[at + 2][2] /\ Num(i) \in DOMAIN t}
         i == Least(later)
     IN IF later = {} THEN UNCHANGED stack /\ Go(1)
        ELSE /\ stack' = Write(stack, at + 2,
                               <<<<"index", i>>>>
                               \o Fixed(<<Num(i), t[Num(i)]>>, Max({Ins[4], 2})))
             /\ Go(Target)
  /\ UNCHANGED <<top, heap, log>> /\ Quiet

Next ==
  \/ LoadNil \/ LoadB \/ LoadK \/ Move
  \/ GetGlobal \/ SetGlobal \/ GetImport
  \/ GetUpval \/ SetUpval \/ CloseUpvals \/ NewClosure \/ DupClosure
  \/ NewTable \/ NameCall \/ GetTableKS \/ GetTable \/ GetTableN
  \/ SetTableKS \/ SetTable \/ SetTableN \/ SetList
  \/ Arithmetic \/ ArithmeticK \/ Not \/ Minus \/ Concat
  \/ And \/ Or \/ AndK \/ OrK
  \/ JumpAlways \/ JumpIf \/ JumpIfNot \/ JumpIfEq \/ JumpIfNotEq
  \/ JumpIfEqK \/ JumpIfNotEqK \/ JumpIfLe \/ JumpIfLt
  \/ ForNPrep \/ ForNLoop
  \/ CallOp \/ ReturnOp \/ PrepVarargs \/ GetVarargs
  \/ ForGPrep \/ ForGCall \/ ForGLoop \/ ForGTable
Spec == Init /\ [][Next]_vars /\ WF_vars(Next)
-----------------------------------------------------------------------------
(* Properties *)

\* Values are of their kinds; every frame is at an instruction of its function
\* with its registers on the stack, above those of its caller's call.
TypeOK ==
  /\ outcome \in {"running", "returned", "error", "compile error"}
  /\ top = NoTop \/ top \in 0 .. StackSize
  /\ \A i \in DOMAIN frames :
       /\ frames[i].cl \in DOMAIN closures
       /\ frames[i].pc \in DOMAIN Proto(frames[i].cl).code
       /\ frames[i].func < frames[i].base /\ frames[i].base \in Slots
       /\ i > 1 => frames[i - 1].base < frames[i].func
  /\ \A k \in DOMAIN cells : cells[k].at \in Slots \cup {-1}
  /\ \A key \in DOMAIN constant : constant[key] \in DOMAIN closures

\* Compiled code does what the program says: what it gives to emit, in order,
\* and whether it ends with an error.  Every chunk here compiles.
RunsAsMeant ==
  /\ outcome # "compile error"
  /\ outcome \in {"returned", "error"} =>
       log = meaning.log /\ outcome = meaning.outcome

\* An instruction that takes as many values as there are finds L->top set by
\* the instruction that left them there.
TopIsSetWhenRead ==
  outcome = "running" /\
    (\/ Op \in {"CALL", "RETURN"} /\ Ins[3] = -1
     \/ Op = "SETLIST" /\ Ins[4] = -1)
  => top # NoTop

\* RETURN closes no upvalue: the compiled code has closed those of the frame's
\* registers before, on every path and out of every inlined body.
ClosedBeforeReturn ==
  At("RETURN") => \A k \in DOMAIN cells : cells[k].at < ci.base

\* Every chunk comes to its end.
Halts == <>(outcome # "running")

\* Every jump of finished code has a distance that its 16 bits hold, as the
\* builder's assertion expects (BytecodeBuilder.cpp:1056).
JumpsFit == \A id \in DOMAIN fn : ~Contains(fn[id].code, Misfit)
=============================================================================
