---------------------------- MODULE LuauCompiler ----------------------------
(***************************************************************************)
(* Code generation (Compiler.cpp) at the levels the executor asks for,     *)
(* optimizationLevel 2 and debugLevel 1 (executor_module.cpp:52), with the *)
(* flags that are off by default: registers, constant folding, inlining,   *)
(* loop unrolling, conditions compiled to jumps, closing of upvalues.      *)
(*                                                                         *)
(* An operator returns the instructions it emits.  A context c holds what  *)
(* the Compiler object holds while it emits them:                          *)
(*   top     regTop                     reg   the register of a local or -1 *)
(*   stk     localStack                 ce    locstants                    *)
(*   off     localOffset of the loop    until its until condition          *)
(*   inl     inlineFrames                                                  *)
(*   p       what is known of the program: written, init, top, fn, ...     *)
(* so leaving a RegScope or a block is going back to the context before.   *)
(*                                                                         *)
(* Upvalues are named by their local.  Line numbers, size hints, the       *)
(* choice between encodings of a constant and the limits on registers and  *)
(* constants are left out; builtin calls are compiled as calls.            *)
(***************************************************************************)
EXTENDS LuauAst, LuauBytecode

InlineThreshold == 25
InlineMaxBoost == 300
InlineDepth == 5
UnrollThreshold == 25
UnrollMaxBoost == 300
ListChunk == 16

CompileError == <<"ERROR">>

Jump(label) == <<"JUMP", 0, Pending(label)>>

AllocReg(c, n) == [c EXCEPT !.top = @ + n]
AtTop(c, top) == [c EXCEPT !.top = top]
PushLocal(c, x, r) == [c EXCEPT !.reg[x] = r, !.stk = Append(@, x)]
PushLocals(c, xs, r) ==
  FoldLeft(LAMBDA d, i : PushLocal(d, xs[i], r + i - 1), c,
           [i \in 1 .. Len(xs) |-> i])

\* The locals pushed since the stack had `start` of them that a closure may
\* hold by reference.
CapturedSince(c, start) ==
  {c.stk[i] : i \in start + 1 .. Len(c.stk)} \cap c.p.captured
CloseLocals(c, start) ==
  LET xs == CapturedSince(c, start)
  IN IF xs = {} THEN <<>>
     ELSE <<<<"CLOSEUPVALS", Least({c.reg[x] : x \in xs})>>>>

RECURSIVE LocalOf(_)
LocalOf(n) == IF n.e \in {"paren", "cast"} THEN LocalOf(n.a) ELSE n
ExprReg(n, c) ==
  LET l == LocalOf(n) IN IF l.e = "local" THEN c.reg[l.x] ELSE -1

\* getFunctionExpr
RECURSIVE FunctionExpr(_, _)
FunctionExpr(n, c) ==
  CASE n.e = "local" -> IF n.x \in c.p.written THEN NoKey
                        ELSE FunctionExpr(c.p.init[n.x], c)
    [] n.e \in {"paren", "cast"} -> FunctionExpr(n.a, c)
    [] n.e = "function" -> n
    [] OTHER -> NoKey
IsCompiled(f, c) == f # NoKey /\ f.id \in DOMAIN c.p.fn

IsExprMultRet(n, c) ==
  \/ n.e = "dots"
  \/ n.e = "call" /\ LET f == FunctionExpr(n.f, c)
                     IN ~(IsCompiled(f, c) /\ c.p.fn[f.id].returnsOne)

IsConstant(n, c) == ConstantOf(n, c.ce) # Unknown
IsConstantTrue(n, c) == IsConstant(n, c) /\ Truthy(ConstantOf(n, c.ce))
IsConstantFalse(n, c) == IsConstant(n, c) /\ ~Truthy(ConstantOf(n, c.ce))

LoadConstant(r, v) ==
  <<IF v = Nil THEN <<"LOADNIL", r>> ELSE <<"LOADK", r, v>>>>
LoadNils(from, to) == [i \in 1 .. to - from + 1 |-> <<"LOADNIL", from + i - 1>>]
Moves(to, from, n) == [i \in 1 .. n |-> <<"MOVE", to + i - 1, from + i - 1>>]

\* A global, or a field of one, that the script does not assign is an import:
\* it is looked up when the chunk is loaded.  _G is Mutable.
CanImport(name, c) == name \notin c.p.globals
CanImportChain(name, c) == CanImport(name, c) /\ name # "_G"
ImportPath(n, c) ==
  CASE n.e = "global" -> IF CanImport(n.n, c) THEN <<n.n>> ELSE <<>>
    [] n.e = "index" /\ n.t.e = "global" /\ n.dot ->
         IF CanImportChain(n.t.n, c) THEN <<n.t.n, n.i.v>> ELSE <<>>
    [] OTHER -> <<>>

\* A table is indexed by a constant (GETTABLEKS, GETTABLEN) or a register.
IsConstantKey(n, c) ==
  IsConstant(n, c) /\ LET v == ConstantOf(n, c.ce)
                      IN v[1] = "str" \/ (IsNum(v) /\ v[2] \in 1 .. 256)

Negated(op) == CASE op = "==" -> "~=" [] op = "~=" -> "=="
                 [] op = "<" -> "not<" [] op = "<=" -> "not<="

\* shouldShareClosure, for a function with these upvalues.
RECURSIVE ShouldShareClosure(_, _, _)
ShouldShareClosure(id, ups, p) ==
  \A i \in DOMAIN ups :
    LET x == ups[i]  init == p.init[x]
    IN /\ x \notin p.written
       /\ \/ x \in p.top
          \/ /\ init.e = "function"
             /\ init.id = id
                \/ (init.id \in DOMAIN p.fn
                    /\ ShouldShareClosure(init.id, p.fn[init.id].ups, p))

\* The captures of a closure, one for each upvalue of the function: a local
\* of this function by value or, if it is written, by reference; a constant
\* an inlined call gave to it; an upvalue of this function.
CaptureOf(x, i, c) ==
  IF c.reg[x] >= 0
  THEN <<IF x \in c.p.written THEN "REF" ELSE "VAL", c.reg[x]>>
  ELSE IF c.ce[x] # Unknown THEN <<"VAL", c.top + i - 1>>
  ELSE <<"UPVAL", x>>
IsConstantUpvalue(x, c) == c.reg[x] < 0 /\ c.ce[x] # Unknown
CompileFunctionExpr(f, t, c) ==
  LET ups == c.p.fn[f.id].ups
      consts == SelectSeq(ups, LAMBDA x : IsConstantUpvalue(x, c))
      capture == [x \in ToSet(ups) |->
                    CaptureOf(x, IF IsConstantUpvalue(x, c)
                                 THEN CHOOSE i \in DOMAIN consts : consts[i] = x
                                 ELSE 0, c)]
  IN InSequence([i \in DOMAIN consts |->
                   LoadConstant(c.top + i - 1, c.ce[consts[i]])])
     \o <<<<IF ShouldShareClosure(f.id, ups, c.p) THEN "DUPCLOSURE"
            ELSE "NEWCLOSURE", t, f.id, capture>>>>

RECURSIVE Expr(_, _, _, _), Condition(_, _, _, _), ConditionFast(_, _),
          CallTo(_, _, _, _, _, _), InlineArgs(_, _, _, _), Body(_, _)
Temp(n, t, c) == Expr(n, t, TRUE, c)
TempTop(n, t, c) == Temp(n, t, AtTop(c, t + 1))

\* compileExprAuto: the register of a local, or a new one with the value.
Auto(n, c) ==
  LET r == ExprReg(n, c)
      d == AllocReg(c, 1)
  IN IF r >= 0 THEN [r |-> r, code |-> <<>>, c |-> c]
     ELSE [r |-> c.top, code |-> Temp(n, c.top, d), c |-> d]

Varargs(t, count) == <<<<"GETVARARGS", t, count>>>>

\* compileExprTempMultRet; Multi is its result.
Multi(n, c) == n.e \in {"call", "dots"} /\ IsExprMultRet(n, c)
TempMultRet(n, t, c) ==
  IF ~Multi(n, c) THEN Temp(n, t, c)
  ELSE IF n.e = "dots" THEN Varargs(t, -1)
  ELSE CallTo(n, t, 0, TRUE, TRUE, AtTop(c, t))

TempN(n, t, count, targetTop, c) ==
  CASE n.e = "call" -> CallTo(n, t, count, targetTop, FALSE, c)
    [] n.e = "dots" -> Varargs(t, count)
    [] OTHER -> Temp(n, t, c) \o LoadNils(t + 1, t + count - 1)

Temps(list, t, c) ==
  InSequence([i \in DOMAIN list |-> Temp(list[i], t + i - 1, c)])

\* compileExprListTemp: `count` registers from a list of expressions.
ListTemp(list, t, count, targetTop, c) ==
  LET k == Len(list)
  IN IF k = 0 THEN LoadNils(t, t + count - 1)
     ELSE IF k < count
     THEN Temps(Front(list), t, c)
          \o TempN(Last(list), t + k - 1, count - (k - 1), targetTop, c)
     ELSE Temps(SubSeq(list, 1, count), t, c)
          \o InSequence([i \in 1 .. k - count |-> Auto(list[count + i], c).code])

-----------------------------------------------------------------------------
(* Conditions *)

\* compileCompareJump: the last instruction is the jump, waiting for "skip".
CompareJump(n, negate, c) ==
  LET isEq == n.op \in {"==", "~="}
      swap == isEq /\ ~IsConstant(n.r, c) /\ IsConstant(n.l, c)
      left == IF swap THEN n.r ELSE n.l
      right == IF swap THEN n.l ELSE n.r
      op == CASE n.op = ">" -> "<" [] n.op = ">=" -> "<=" [] OTHER -> n.op
      test == IF negate THEN Negated(op) ELSE op
      rl == Auto(left, c)
      rr == Auto(right, rl.c)
  IN IF isEq /\ IsConstant(right, c)
     THEN Append(rl.code, <<"JUMPCMPK", rl.r, Pending("skip"), test,
                            ConstantOf(right, c.ce)>>)
     ELSE rl.code \o rr.code
          \o <<IF n.op \in {">", ">="}
               THEN <<"JUMPCMP", rr.r, Pending("skip"), test, rl.r>>
               ELSE <<"JUMPCMP", rl.r, Pending("skip"), test, rr.r>>>>

\* compileConditionValue: jumps to "skip" if n is truthy (falsy without
\* onlyTruth), with the value in t unless t is -1.
Condition(n, t, onlyTruth, c) ==
  LET k == ConstantOf(n, c.ce)
      plain == IF t >= 0 THEN [r |-> t, code |-> Temp(n, t, c)]
               ELSE Auto(n, c)
  IN CASE k # Unknown ->
            IF Truthy(k) = onlyTruth
            THEN (IF t >= 0 THEN Temp(n, t, c) ELSE <<>>) \o <<Jump("skip")>>
            ELSE <<>>
       [] k = Unknown /\ n.e = "binary" /\ n.op \in {"and", "or"} ->
            IF onlyTruth = (n.op = "and")
            THEN PatchEnd(Relabel(Condition(n.l, -1, ~onlyTruth, c),
                                  "skip", "else")
                          \o Condition(n.r, t, onlyTruth, c), "else")
            ELSE Condition(n.l, t, onlyTruth, c)
                 \o Condition(n.r, t, onlyTruth, c)
       [] k = Unknown /\ n.e = "binary" /\ n.op \in Compare ->
            (IF t >= 0 THEN <<<<"LOADK", t, Bool(onlyTruth)>>>> ELSE <<>>)
            \o CompareJump(n, ~onlyTruth, c)
       [] k = Unknown /\ n.e = "unary" /\ n.op = "not" /\ t < 0 ->
            Condition(n.a, t, ~onlyTruth, c)
       [] k = Unknown /\ n.e = "paren" -> Condition(n.a, t, onlyTruth, c)
       [] OTHER ->
            Append(plain.code, <<IF onlyTruth THEN "JUMPIF" ELSE "JUMPIFNOT",
                                 plain.r, Pending("skip")>>)

ConditionFast(n, c) ==
  \/ IsConstant(n, c)
  \/ n.e = "binary" /\ n.op \in {"and", "or"} \cup Compare
  \/ n.e = "paren" /\ ConditionFast(n.a, c)

AndOr(n, t, temp, c) ==
  LET isAnd == n.op = "and"
      kl == ConstantOf(n.l, c.ce)
      right == ExprReg(n.r, c)
      l == Auto(n.l, c)
      reg == IF temp THEN t ELSE c.top
      d == IF temp THEN c ELSE AllocReg(c, 1)
  IN IF kl # Unknown
     THEN Expr(IF Truthy(kl) = isAnd THEN n.r ELSE n.l, t, temp, c)
     ELSE IF ~ConditionFast(n.l, c) /\ right >= 0
     THEN Append(l.code, <<IF isAnd THEN "AND" ELSE "OR", t, l.r, right>>)
     ELSE IF ~ConditionFast(n.l, c) /\ IsConstant(n.r, c)
     THEN Append(l.code, <<IF isAnd THEN "ANDK" ELSE "ORK", t, l.r,
                           ConstantOf(n.r, c.ce)>>)
     ELSE PatchEnd(Condition(n.l, reg, ~isAnd, d) \o Temp(n.r, reg, d), "skip")
          \o (IF reg = t THEN <<>> ELSE <<<<"MOVE", t, reg>>>>)

-----------------------------------------------------------------------------
(* Operators and tables *)

RECURSIVE UnrollConcats(_)
UnrollConcats(args) ==
  LET n == Last(args)
  IN IF n.e = "binary" /\ n.op = ".."
     THEN UnrollConcats(Front(args) \o <<n.l, n.r>>) ELSE args

BinaryExpr(n, t, temp, c) ==
  LET l == Auto(n.l, c)
      r == Auto(n.r, l.c)
      k == ConstantOf(n.r, c.ce)
      args == UnrollConcats(<<n.l, n.r>>)
  IN CASE n.op \in Arith /\ IsNum(k) ->
            Append(l.code, <<"ARITHK", t, l.r, k, n.op>>)
       [] n.op \in Arith /\ ~IsNum(k) ->
            l.code \o r.code \o <<<<"ARITH", t, l.r, r.r, n.op>>>>
       [] n.op = ".." ->
            Temps(args, c.top, AllocReg(c, Len(args)))
            \o <<<<"CONCAT", t, c.top, c.top + Len(args) - 1>>>>
       [] n.op \in Compare ->
            Patch(CompareJump(n, FALSE, c) \o
                    <<<<"LOADB", t, Bool(FALSE), 1>>, <<"LOADB", t, Bool(TRUE), 0>>>>,
                  "skip", Len(CompareJump(n, FALSE, c)) + 2)
       [] n.op \in {"and", "or"} -> AndOr(n, t, temp, c)

\* The registers of both branches are the target's.
IfElseExpr(n, t, temp, c) ==
  LET k == ConstantOf(n.c, c.ce)
      then == Condition(n.c, -1, FALSE, c) \o Expr(n.a, t, temp, c)
              \o <<Jump("end")>>
  IN IF k # Unknown THEN Expr(IF Truthy(k) THEN n.a ELSE n.b, t, temp, c)
     ELSE PatchEnd(PatchEnd(then, "skip") \o Expr(n.b, t, temp, c), "end")

\* compileLValueIndex
KeyOf(n, r, c) ==
  IF IsConstantKey(n, c)
  THEN [lv |-> <<"indexk", r, ConstantOf(n, c.ce)>>, code |-> <<>>, c |-> c]
  ELSE LET i == Auto(n, c)
       IN [lv |-> <<"index", r, i.r>>, code |-> i.code, c |-> i.c]

Assign1(lv, r) ==
  CASE lv[1] = "local" -> <<"MOVE", lv[2], r>>
    [] lv[1] = "upval" -> <<"SETUPVAL", r, lv[2]>>
    [] lv[1] = "global" -> <<"SETGLOBAL", r, lv[2]>>
    [] lv[1] = "indexk" -> <<IF IsNum(lv[3]) THEN "SETTABLEN" ELSE "SETTABLEKS",
                             r, lv[2], lv[3]>>
    [] lv[1] = "index" -> <<"SETTABLE", r, lv[2], lv[3]>>
Use(lv, r) ==
  CASE lv[1] = "local" -> <<"MOVE", r, lv[2]>>
    [] lv[1] = "upval" -> <<"GETUPVAL", r, lv[2]>>
    [] lv[1] = "global" -> <<"GETGLOBAL", r, lv[2]>>
    [] lv[1] = "indexk" -> <<IF IsNum(lv[3]) THEN "GETTABLEN" ELSE "GETTABLEKS",
                             r, lv[2], lv[3]>>
    [] lv[1] = "index" -> <<"GETTABLE", r, lv[2], lv[3]>>

\* The items from i on; `held` list items wait in the chunk's registers, the
\* next of them gets the key `index`.
RECURSIVE Items(_, _, _, _, _, _, _)
Items(items, i, reg, chunk, held, index, c) ==
  LET listed == Cardinality({j \in DOMAIN items : items[j].k = NoKey})
      room == IF listed > ListChunk THEN ListChunk ELSE listed
      flush == IF held = 0 THEN <<>>
               ELSE <<<<"SETLIST", reg, chunk, held, index>>>>
      n == items[i]
      key == KeyOf(n.k, reg, c)
      value == Auto(n.v, key.c)
      now == IF n.k # NoKey \/ held = room THEN 0 ELSE held
      lastOne == i = Len(items)
  IN IF i > Len(items) THEN flush
     ELSE IF n.k # NoKey
     THEN flush \o key.code \o value.code \o <<Assign1(key.lv, value.r)>>
          \o Items(items, i + 1, reg, chunk, 0, index + held, c)
     ELSE (IF now = held THEN <<>> ELSE flush)
          \o (IF lastOne THEN TempMultRet(n.v, chunk + now, c)
              ELSE TempTop(n.v, chunk + now, c))
          \o IF lastOne /\ Multi(n.v, c)
             THEN <<<<"SETLIST", reg, chunk, -1, index + (held - now)>>>>
             ELSE Items(items, i + 1, reg, chunk, now + 1,
                        index + (held - now), c)
TableExpr(n, t, temp, c) ==
  IF n.items = <<>> THEN <<<<"NEWTABLE", t>>>>
  ELSE LET reg == IF temp THEN t ELSE c.top
           d == IF temp THEN c ELSE AllocReg(c, 1)
           listed == Cardinality({j \in DOMAIN n.items : n.items[j].k = NoKey})
           e == AllocReg(d, IF listed > ListChunk THEN ListChunk ELSE listed)
       IN <<<<"NEWTABLE", reg>>>> \o Items(n.items, 1, reg, d.top, 0, 1, e)
          \o (IF reg = t THEN <<>> ELSE <<<<"MOVE", t, reg>>>>)

IndexExpr(n, t, c) ==
  LET table == Auto(n.t, c)
      key == KeyOf(n.i, table.r, table.c)
  IN table.code \o key.code \o <<Use(key.lv, t)>>

-----------------------------------------------------------------------------
(* Calls *)

\* Mutant: a call whose results are counted at run time is inlined too.
CanInlineAnywhere(n, f, multRet, c) ==
  /\ ~f.vararg
  /\ Len(c.inl) < InlineDepth
  /\ \A i \in DOMAIN c.inl : c.inl[i].id # f.id
\* tryCompileInlinedCall: what makes inlining possible and worth its code.
CanInline(n, f, multRet, c) ==
  LET fi == c.p.fn[f.id]
      k == Len(n.args)
      constant == [i \in 1 .. Len(f.params) |->
                     IF i <= k THEN IsConstant(n.args[i], c)
                     ELSE k > 0 /\ ~IsExprMultRet(n.args[k], c)]
      cost == ComputeCost(fi.cost, constant)
      baseline == ComputeCost(fi.cost, <<>>) + 3
      profit == IF cost = 0 THEN InlineMaxBoost
                ELSE Least({InlineMaxBoost, (100 * baseline) \div cost})
  IN /\ ~f.vararg
     /\ Len(c.inl) < InlineDepth
     /\ \A i \in DOMAIN c.inl : c.inl[i].id # f.id
     /\ ~multRet
     /\ cost <= (InlineThreshold * profit) \div 100

\* The parameters of an inlined call from the i-th on: a parameter that is
\* not written stands for the constant or the local it is given.
InlineArgs(n, f, i, c) ==
  LET k == Len(n.args)
      x == f.params[i]
      arg == IF i <= k THEN n.args[i] ELSE Const(Nil)
      value == ConstantOf(arg, c.ce)
      reuse == arg.e = "local" /\ c.reg[arg.x] >= 0 /\ arg.x \notin c.p.written
      next(code, d) == LET rest == InlineArgs(n, f, i + 1, d)
                       IN [code |-> code \o rest.code, c |-> rest.c]
      tail == Len(f.params) - k + 1
      many == AllocReg(c, tail)
      one == AllocReg(c, 1)
  IN IF i > Len(f.params) THEN [code |-> <<>>, c |-> c]
     ELSE IF i = k /\ tail > 1 /\ IsExprMultRet(arg, c)
     THEN [code |-> TempN(arg, c.top, tail, TRUE, many),
           c |-> PushLocals(many, SubSeq(f.params, i, Len(f.params)), c.top)]
     ELSE IF x \in c.p.written
     THEN next(Temp(arg, c.top, one), PushLocal(one, x, c.top))
     ELSE IF value # Unknown THEN next(<<>>, [c EXCEPT !.ce[x] = value])
     ELSE IF reuse THEN next(<<>>, PushLocal(c, x, c.reg[arg.x]))
     ELSE next(Temp(arg, c.top, one), PushLocal(one, x, c.top))

\* compileInlineReturn
InlineReturn(list, c) ==
  LET fr == Last(c.inl)
  IN ListTemp(list, fr.target, fr.count, FALSE, c) \o CloseLocals(c, fr.off)

InlinedCall(n, f, t, count, c) ==
  LET off == Len(c.stk)
      given == InlineArgs(n, f, 1, [c EXCEPT !.inl = Append(@,
                 [id |-> f.id, off |-> off, target |-> t, count |-> count])])
      extra == InSequence([i \in 1 .. Len(n.args) - Len(f.params) |->
                             Auto(n.args[Len(f.params) + i], given.c).code])
      d == [given.c EXCEPT !.ce = Fold(f.body, @, c.p.written)]
      returns == {i \in DOMAIN f.body : f.body[i].s = "return"}
      first == IF returns = {} THEN 0 ELSE Least(returns)
      body == Body(IF first > 0 THEN SubSeq(f.body, 1, first - 1) ELSE f.body, d)
      exit == IF first > 0 THEN InlineReturn(f.body[first].list, body.c)
              ELSE IF AllPathsReturn(f.body) THEN <<>>
              ELSE LoadNils(t, t + count - 1) \o CloseLocals(body.c, off)
  IN PatchEnd(given.code \o extra \o body.code \o exit, "return")

\* The object of a method call stays in the register of a local.
CallTo(n, t, count, targetTop, multRet, c) ==
  LET f == FunctionExpr(n.f, c)
      self == IF n.self THEN 1 ELSE 0
      k == Len(n.args)
      regs == IF targetTop THEN c.top - count ELSE c.top
      d == AtTop(c, regs + Greatest({1 + self + k, count}))
      object == IF n.self THEN ExprReg(n.f.t, d) ELSE -1
      multCall == k > 0 /\ Multi(n.args[k], d)
      args == [i \in 1 .. k |->
                 IF i = k THEN TempMultRet(n.args[i], regs + self + i, d)
                 ELSE TempTop(n.args[i], regs + self + i, d)]
      called == IF ~n.self THEN TempTop(n.f, regs, d)
                ELSE IF object >= 0 THEN <<>> ELSE TempTop(n.f.t, regs, d)
      named == IF ~n.self THEN <<>>
               ELSE <<<<"NAMECALL", regs, IF object >= 0 THEN object ELSE regs,
                        n.f.i.v>>>>
  IN IF ~n.self /\ IsCompiled(f, c) /\ CanInline(n, f, multRet, c)
     THEN InlinedCall(n, f, t, count, c)
     ELSE called \o InSequence(args) \o named
          \o <<<<"CALL", regs, IF multCall THEN -1 ELSE self + k,
                 IF multRet THEN -1 ELSE count>>>>
          \o (IF targetTop THEN <<>> ELSE Moves(t, regs, count))

\* compileExpr
Expr(n, t, temp, c) ==
  LET k == ConstantOf(n, c.ce)
      r == ExprReg(n, c)
      path == ImportPath(n, c)
      a == Auto(n.a, c)
  IN IF k # Unknown THEN LoadConstant(t, k)
     ELSE IF path # <<>> THEN <<<<"GETIMPORT", t, path>>>>
     ELSE CASE n.e \in {"paren", "cast"} -> Expr(n.a, t, temp, c)
            [] n.e = "local" -> IF r >= 0 THEN <<<<"MOVE", t, r>>>>
                                ELSE <<<<"GETUPVAL", t, n.x>>>>
            [] n.e = "global" -> <<<<"GETGLOBAL", t, n.n>>>>
            [] n.e = "dots" -> Varargs(t, 1)
            [] n.e = "call" -> CallTo(n, t, 1, temp /\ t = c.top - 1, FALSE, c)
            [] n.e = "index" -> IndexExpr(n, t, c)
            [] n.e = "function" -> CompileFunctionExpr(n, t, c)
            [] n.e = "table" -> TableExpr(n, t, temp, c)
            [] n.e = "unary" -> Append(a.code, <<"UNARY", t, a.r, n.op>>)
            [] n.e = "binary" -> BinaryExpr(n, t, temp, c)
            [] n.e = "ifelse" -> IfElseExpr(n, t, temp, c)

-----------------------------------------------------------------------------
(* Statements: [code, c], as a declaration changes the context. *)

RECURSIVE Stat(_, _)
Body(ns, c) ==
  IF ns = <<>> THEN [code |-> <<>>, c |-> c]
  ELSE LET one == Stat(Head(ns), c)
           rest == Body(Tail(ns), one.c)
       IN [code |-> one.code \o rest.code, c |-> rest.c]
\* A block closes and forgets its locals.
BlockStat(ns, c) ==
  LET b == Body(ns, c) IN b.code \o CloseLocals(b.c, Len(c.stk))

IsStatBreak(body) == Len(body) = 1 /\ body[1].s = "break"
IsStatContinue(body) == Len(body) = 1 /\ body[1].s = "continue"

\* validateContinueUntil: the until condition may not use a local, here or in
\* a closure, that the continue jumps over.
UndefinedInUntil(c) ==
  LET here == IF c.inl = <<>> THEN c.p.id ELSE Last(c.inl).id
      undefined(x) == c.p.owner[x] = here /\ c.reg[x] < 0
  IN /\ c.until # NoKey
     /\ \E n \in OwnNodes(<<c.until>>) :
          \/ n.e = "local" /\ undefined(n.x)
          \/ /\ n.e = "function"
             /\ \E x \in ToSet(c.p.fn[n.id].ups) : undefined(x)
CheckContinue(code, c) ==
  IF UndefinedInUntil(c) THEN <<CompileError>> ELSE code

IfStat(n, c) ==
  LET direct == n.s = "if" /\ CapturedSince(c, c.off) = {}
      onTrue(label) == Relabel(Condition(n.c, -1, TRUE, c), "skip", label)
      cond == Condition(n.c, -1, FALSE, c)
      then == BlockStat(n.then, c)
      else == BlockStat(n.else, c)
      jumps == Waits(cond, "skip")
  IN CASE IsConstantFalse(n.c, c) -> IF n.s = "ifelse" THEN else ELSE <<>>
       [] ~IsConstantFalse(n.c, c) /\ direct /\ IsStatBreak(n.then) ->
            onTrue("break")
       [] ~IsConstantFalse(n.c, c) /\ direct /\ IsStatContinue(n.then) ->
            CheckContinue(onTrue("continue"), c)
       [] OTHER ->
            IF n.s = "if" \/ ~jumps THEN PatchEnd(cond \o then, "skip")
            ELSE IF AllPathsReturn(n.then)
            THEN PatchEnd(cond \o then, "skip") \o else
            ELSE PatchEnd(PatchEnd(cond \o then \o <<Jump("endif")>>, "skip")
                          \o else, "endif")

\* The context of a loop's body, and its jumps out of it.
InLoop(c, until) == [c EXCEPT !.off = Len(c.stk), !.until = until]
\* Mutant: continue goes to the loop's first instruction.
PatchLoopToStart(code, continueAt) ==
  PatchEnd(Patch(code, "continue", 1), "break")
\* Mutant: break goes one instruction too far.
PatchLoopPast(code, continueAt) ==
  Patch(Patch(code, "continue", continueAt), "break", Len(code) + 2)
PatchLoop(code, continueAt) ==
  PatchEnd(Patch(code, "continue", continueAt), "break")

WhileStat(n, c) ==
  LET d == InLoop(c, NoKey)
      head == Condition(n.c, -1, FALSE, d) \o BlockStat(n.body, d)
  IN IF IsConstantFalse(n.c, c) THEN <<>>
     ELSE PatchLoop(PatchEnd(head \o <<<<"JUMPBACK", 0,
                                         Distance(-Len(head))>>>>, "skip"),
                    Len(head) + 1)

\* The locals of the body live until the condition is computed; they are
\* closed on the way back and on the way out.
RepeatStat(n, c) ==
  LET b == Body(n.body, InLoop(c, n.c))
      close == CloseLocals(b.c, Len(c.stk))
      back == b.code \o Condition(n.c, -1, TRUE, b.c) \o close
  IN IF IsConstantTrue(n.c, b.c)
     THEN PatchLoop(b.code \o close, Len(b.code) + 1)
     ELSE PatchLoop(PatchEnd(back \o <<<<"JUMPBACK", 0,
                                         Distance(-Len(back))>>>>, "skip")
                    \o close, Len(b.code) + 1)

ReturnStat(n, c) ==
  LET k == Len(n.list)
      first == IF k > 0 THEN ExprReg(n.list[1], c) ELSE -1
      consecutive == first >= 0 /\ \A i \in 1 .. k :
                                     ExprReg(n.list[i], c) = first + i - 1
      d == AllocReg(c, k)
      values == [i \in 1 .. k |->
                   IF i = k THEN TempMultRet(n.list[i], c.top + i - 1, d)
                   ELSE TempTop(n.list[i], c.top + i - 1, d)]
  IN IF consecutive \/ k = 0
     THEN CloseLocals(c, 0) \o <<<<"RETURN", IF k = 0 THEN 0 ELSE first, k>>>>
     ELSE InSequence(values) \o CloseLocals(c, 0)
          \o <<<<"RETURN", c.top, IF Multi(n.list[k], d) THEN -1 ELSE k>>>>

\* areLocalsRedundant: every variable is a constant (v->constant).
LocalStat(n, c) ==
  LET k == Len(n.vars)
      redundant == /\ Len(n.values) <= k
                   /\ \A i \in 1 .. k : c.ce[n.vars[i]] # Unknown
      d == AllocReg(c, k)
  IN IF redundant THEN [code |-> <<>>, c |-> c]
     ELSE [code |-> ListTemp(n.values, c.top, k, TRUE, d),
           c |-> PushLocals(d, n.vars, c.top)]

LocalFunctionStat(n, c) ==
  LET d == PushLocal(AllocReg(c, 1), n.x, c.top)
  IN [code |-> CompileFunctionExpr(n.f, c.top, d), c |-> d]

\* tryCompileUnrolledFor
Trips(n, c) ==
  LET f == ConstantOf(n.from, c.ce)
      t == ConstantOf(n.to, c.ce)
      s == ConstantOf(n.step, c.ce)
  IN IF IsNum(f) /\ IsNum(t) /\ IsNum(s) THEN TripCount(f[2], t[2], s[2]) ELSE -1
CanUnroll(n, c) ==
  LET trips == Trips(n, c)
      model == ModelCost(n.body, <<n.x>>)
      cost == ComputeCost(model, <<TRUE>>) * trips
      baseline == (ComputeCost(model, <<>>) + 1) * trips
      profit == IF cost = 0 THEN UnrollMaxBoost
                ELSE Least({UnrollMaxBoost, (100 * baseline) \div cost})
  IN /\ \A b \in {n.from, n.to, n.step} : IsConstant(b, c)
     /\ trips \in 0 .. UnrollThreshold
     /\ n.x \notin c.p.written
     /\ cost <= (UnrollThreshold * profit) \div 100

UnrolledFor(n, c) ==
  LET from == ConstantOf(n.from, c.ce)[2]
      step == ConstantOf(n.step, c.ce)[2]
      iteration(i) ==
        LET d == [InLoop(c, NoKey) EXCEPT
                    !.ce = Fold(n.body, [@ EXCEPT ![n.x] = Num(from + i * step)],
                                c.p.written)]
        IN PatchEnd(BlockStat(n.body, d), "continue")
  IN PatchEnd(InSequence([i \in 1 .. Trips(n, c) |-> iteration(i - 1)]), "break")

\* Registers: limit, step, index, and a copy of the index if it is written.
ForStat(n, c) ==
  LET regs == c.top
      own == n.x \in c.p.written
      var == IF own THEN regs + 3 ELSE regs + 2
      d == InLoop(AllocReg(c, IF own THEN 4 ELSE 3), NoKey)
      prep == Temp(n.from, regs + 2, d) \o Temp(n.to, regs, d)
              \o Temp(n.step, regs + 1, d)
      e == PushLocal(d, n.x, var)
      body == (IF own THEN <<<<"MOVE", var, regs + 2>>>> ELSE <<>>)
              \o BlockStat(n.body, e) \o CloseLocals(e, Len(c.stk))
      m == Len(body)
  IN IF CanUnroll(n, c) THEN UnrolledFor(n, c)
     ELSE prep \o PatchLoop(<<<<"FORNPREP", regs, Distance(m + 2)>>>> \o body
                            \o <<<<"FORNLOOP", regs, Distance(-m)>>>>, m + 2)

\* Registers: generator, state, index, and at least two variables.
ForInStat(n, c) ==
  LET regs == c.top
      k == Len(n.vars)
      d == InLoop(AllocReg(c, 3), NoKey)
      e == PushLocals(AllocReg(d, Greatest({k, 2})), n.vars, regs + 3)
      body == BlockStat(n.body, e) \o CloseLocals(e, Len(c.stk))
      m == Len(body)
  IN ListTemp(n.values, regs, 3, TRUE, d)
     \o PatchLoop(<<<<"FORGPREP", regs, Distance(m + 1)>>>> \o body
                  \o <<<<"FORGLOOP", regs, Distance(-m), k>>>>, m + 2)

\* compileLValue
LValueOf(n, c) ==
  CASE n.e = "local" ->
         [lv |-> IF ExprReg(n, c) >= 0 THEN <<"local", ExprReg(n, c)>>
                 ELSE <<"upval", n.x>>, code |-> <<>>, c |-> c]
    [] n.e = "global" -> [lv |-> <<"global", n.n>>, code |-> <<>>, c |-> c]
    [] n.e = "index" ->
         LET t == Auto(n.t, c)
             k == KeyOf(n.i, t.r, t.c)
         IN [lv |-> k.lv, code |-> t.code \o k.code, c |-> k.c]
RECURSIVE LValues(_, _)
LValues(ns, c) ==
  IF ns = <<>> THEN [lvs |-> <<>>, code |-> <<>>, c |-> c]
  ELSE LET one == LValueOf(Head(ns), c)
           rest == LValues(Tail(ns), one.c)
       IN [lvs |-> <<one.lv>> \o rest.lvs, code |-> one.code \o rest.code,
           c |-> rest.c]

\* resolveAssignConflicts: a table or key register that an assignment further
\* left writes is copied to a new register first.  Mutant: it is not.
Unresolved(lvs, c) == [lvs |-> lvs, code |-> <<>>, c |-> c]
ResolveAssignConflicts(lvs, c) ==
  LET used(i) == {lvs[j][2] : j \in {j \in 1 .. i - 1 : lvs[j][1] = "local"}}
      regs(i) == CASE lvs[i][1] = "index" -> <<lvs[i][2], lvs[i][3]>>
                   [] lvs[i][1] = "indexk" -> <<lvs[i][2]>>
                   [] OTHER -> <<>>
      \* registers to copy, in the order they are met
      saved == FoldLeft(LAMBDA s, r : IF Contains(s, r) THEN s ELSE Append(s, r),
                        <<>>, InSequence([i \in DOMAIN lvs |->
                          SelectSeq(regs(i), LAMBDA r : r \in used(i))]))
      remap(r, i) == IF r \in used(i)
                     THEN c.top + (CHOOSE k \in DOMAIN saved : saved[k] = r) - 1
                     ELSE r
  IN [lvs |-> [i \in DOMAIN lvs |->
                 CASE lvs[i][1] = "index" ->
                        <<"index", remap(lvs[i][2], i), remap(lvs[i][3], i)>>
                   [] lvs[i][1] = "indexk" ->
                        <<"indexk", remap(lvs[i][2], i), lvs[i][3]>>
                   [] OTHER -> lvs[i]],
      code |-> [k \in DOMAIN saved |-> <<"MOVE", c.top + k - 1, saved[k]>>],
      c |-> AllocReg(c, Len(saved))]

AssignStat(n, c) ==
  LET one == LValueOf(n.vars[1], c)
      value == Auto(n.values[1], one.c)
      all == LValues(n.vars, c)
      safe == ResolveAssignConflicts(all.lvs, all.c)
      k == Len(n.vars)
      d == AllocReg(safe.c, k)
  IN IF k = 1 /\ Len(n.values) = 1
     THEN IF one.lv[1] = "local" THEN Expr(n.values[1], one.lv[2], FALSE, c)
          ELSE one.code \o value.code \o <<Assign1(one.lv, value.r)>>
     ELSE all.code \o safe.code \o ListTemp(n.values, safe.c.top, k, TRUE, d)
          \o [i \in 1 .. k |-> Assign1(safe.lvs[i], safe.c.top + i - 1)]

FunctionStatCode(n, c) ==
  LET d == AllocReg(c, 1)
      var == LValueOf(n.name, d)
  IN IF ExprReg(n.name, c) >= 0 THEN Expr(n.f, ExprReg(n.name, c), FALSE, c)
     ELSE Temp(n.f, c.top, d) \o var.code \o <<Assign1(var.lv, c.top)>>

CompoundStat(n, c) ==
  LET var == LValueOf(n.var, c)
      local == var.lv[1] = "local"
      t == IF local THEN var.lv[2] ELSE var.c.top
      d == IF local THEN var.c ELSE AllocReg(var.c, 1)
      k == ConstantOf(n.value, c.ce)
      value == Auto(n.value, d)
      args == UnrollConcats(<<n.value>>)
      e == AllocReg(d, 1 + Len(args))
      store == IF local THEN <<>> ELSE <<Assign1(var.lv, t)>>
      load == IF local THEN <<>> ELSE <<Use(var.lv, t)>>
  IN var.code \o
     (IF n.op = ".."
      THEN <<Use(var.lv, d.top)>> \o Temps(args, d.top + 1, e)
           \o <<<<"CONCAT", t, d.top, d.top + Len(args)>>>>
      ELSE IF IsNum(k) THEN load \o <<<<"ARITHK", t, t, k, n.op>>>>
      ELSE load \o value.code \o <<<<"ARITH", t, t, value.r, n.op>>>>)
     \o store

\* compileStat
Stat(n, c) ==
  LET same(code) == [code |-> code, c |-> c]
      leave(label) == CloseLocals(c, c.off) \o <<Jump(label)>>
  IN CASE n.s = "block" -> same(BlockStat(n.body, c))
       [] n.s \in {"if", "ifelse"} -> same(IfStat(n, c))
       [] n.s = "while" -> same(WhileStat(n, c))
       [] n.s = "repeat" -> same(RepeatStat(n, c))
       [] n.s = "typealias" -> same(<<>>)
       [] n.s = "break" -> same(leave("break"))
       [] n.s = "continue" -> same(CheckContinue(leave("continue"), c))
       [] n.s = "return" ->
            same(IF c.inl # <<>> THEN Append(InlineReturn(n.list, c), Jump("return"))
                 ELSE ReturnStat(n, c))
       [] n.s = "expr" ->
            same(IF n.a.e = "call" THEN CallTo(n.a, c.top, 0, FALSE, FALSE, c)
                 ELSE Auto(n.a, c).code)
       [] n.s = "local" -> LocalStat(n, c)
       [] n.s = "function" -> same(FunctionStatCode(n, c))
       [] n.s = "localfunction" -> LocalFunctionStat(n, c)
       [] n.s = "for" -> same(ForStat(n, c))
       [] n.s = "forin" -> same(ForInStat(n, c))
       [] n.s = "assign" -> same(AssignStat(n, c))
       [] n.s = "compound" -> same(CompoundStat(n, c))

-----------------------------------------------------------------------------
(* Functions and chunks *)

\* The upvalues of a function, in the order its code first names them.
UpvaluesOf(code) ==
  LET named(i) ==
        CASE code[i][1] = "GETUPVAL" \/ code[i][1] = "SETUPVAL" -> {code[i][3]}
          [] code[i][1] \in {"NEWCLOSURE", "DUPCLOSURE"} ->
               {x \in DOMAIN code[i][4] : code[i][4][x][1] = "UPVAL"}
          [] OTHER -> {}
  IN FoldLeft(LAMBDA s, i : s \o SetToSeq(named(i) \ ToSet(s)), <<>>,
              [i \in DOMAIN code |-> i])

\* ReturnVisitor: every return of the body gives one value.
ReturnsOne(body, c) ==
  /\ AllPathsReturn(body)
  /\ \A n \in Stats(OwnNodes(body), "return") :
       Len(n.list) = 1 /\ ~IsExprMultRet(n.list[1], c)

Context(p) ==
  [top |-> 0, stk |-> <<>>, reg |-> [x \in p.locals |-> -1], ce |-> p.ce,
   off |-> 0, until |-> NoKey, inl |-> <<>>, p |-> p]

\* Code after an error is not finished.
Finished(code) ==
  IF Contains(code, CompileError) THEN code ELSE <<>> \o FinishJumps(<<>> \o code)

\* compileFunction; f.body of the chunk itself is the root block.
CompileFunction(f, p) ==
  LET c == Context([p EXCEPT !.id = f.id])
      d == PushLocals(AllocReg(c, Len(f.params)), f.params, 0)
      body == Body(f.body, d)
      code == (IF f.vararg THEN <<<<"PREPVARARGS", Len(f.params)>>>> ELSE <<>>)
              \o body.code
              \o IF AllPathsReturn(f.body) THEN <<>>
                 ELSE CloseLocals(body.c, 0) \o <<<<"RETURN", 0, 0>>>>
  IN [code |-> Finished(code), ups |-> UpvaluesOf(code), params |-> Len(f.params),
      vararg |-> f.vararg, cost |-> ModelCost(f.body, f.params),
      returnsOne |-> ~f.vararg /\ ReturnsOne(f.body, c)]

\* Functions are compiled inner ones first; the locals a compiled function
\* captures are captured from then on if they are written.
RECURSIVE CompileFunctions(_, _)
CompileFunctions(fs, p) ==
  IF fs = <<>> THEN p
  ELSE LET f == Head(fs)
           done == CompileFunction(f, p)
       IN CompileFunctions(Tail(fs),
            [p EXCEPT !.fn = (f.id :> done) @@ @,
                      !.captured = @ \cup (ToSet(done.ups) \cap p.written)])

\* The function that declares each local.
OwnerOf(fs, x) ==
  (CHOOSE f \in ToSet(fs) :
     x \in ToSet(f.params) \cup LocalsOf(OwnNodes(f.body)
                                       \ {n \in OwnNodes(f.body) :
                                            ~IsStat(n) /\ n.e = "function"})).id

\* compileOrThrow: the compiled functions, the chunk's under "main".
Compile(root) ==
  LET nodes == NodesIn(root)
      locals == LocalsOf(nodes)
      written == WrittenLocals(nodes)
      fs == Append(FunctionsIn(root), Function("main", <<>>, TRUE, root))
      p == [locals |-> locals, written |-> written, id |-> "main",
            owner |-> [x \in locals |-> OwnerOf(fs, x)],
            globals |-> WrittenGlobals(nodes), top |-> TopLevelLocals(root),
            init |-> [x \in locals |-> InitOf(nodes, x)],
            ce |-> Fold(root, [x \in locals |-> Unknown], written),
            captured |-> {}, fn |-> [id \in {} |-> {}]]
  IN CompileFunctions(fs, p).fn
HasCompileError(fn) ==
  \E id \in DOMAIN fn : Contains(fn[id].code, CompileError)
=============================================================================
