------------------------------- MODULE LuauAst -------------------------------
(***************************************************************************)
(* Luau programs as trees (Ast.h), and the passes over them that come      *)
(* before code generation: which variables are written (ValueTracking),    *)
(* which expressions are constants (ConstantFolding), what a function body *)
(* or a loop costs when a variable is constant (CostModel).  A local is    *)
(* named once in a program, as an AstLocal is an object of its own.        *)
(***************************************************************************)
EXTENDS Integers, Sequences, FiniteSets, TLC

Nil == <<"nil">>
Num(n) == <<"num", n>>
Bool(b) == <<"bool", b>>
Str(s) == <<"str", s>>          \* s: the sequence of the pieces joined
Truthy(v) == v # Nil /\ v # Bool(FALSE)
IsNum(v) == v[1] = "num"
Least(S) == CHOOSE x \in S : \A y \in S : x <= y
Greatest(S) == CHOOSE x \in S : \A y \in S : y <= x
LOCAL Min2(x, y) == IF x < y THEN x ELSE y

(* Expressions. *)
Const(v) == [e |-> "const", v |-> v]
Local(x) == [e |-> "local", x |-> x]
Global(n) == [e |-> "global", n |-> n]
Dots == [e |-> "dots"]
Paren(a) == [e |-> "paren", a |-> a]
\* a :: type
Cast(a) == [e |-> "cast", a |-> a]
Call(f, args) == [e |-> "call", f |-> f, args |-> args, self |-> FALSE]
\* t.name where i is a constant string; t[i] if not, or by IndexByExpr.
Index(t, i) ==
  [e |-> "index", t |-> t, i |-> i,
   dot |-> i.e = "const" /\ i.v[1] = "str"]
IndexByExpr(t, i) == [Index(t, i) EXCEPT !.dot = FALSE]
\* object:name(...); a function declared so has self for its first parameter.
MethodCall(object, name, args) ==
  [Call(Index(object, name), args) EXCEPT !.self = TRUE]
\* id names the AstExprFunction object.
Function(id, params, vararg, body) ==
  [e |-> "function", id |-> id, params |-> params, vararg |-> vararg,
   body |-> body]
\* Items are [k, v]; the key NoKey makes it a list item.
NoKey == [e |-> "nokey"]
Table(items) == [e |-> "table", items |-> items]
Unary(op, a) == [e |-> "unary", op |-> op, a |-> a]
Binary(op, l, r) == [e |-> "binary", op |-> op, l |-> l, r |-> r]
IfElse(c, a, b) == [e |-> "ifelse", c |-> c, a |-> a, b |-> b]

(* Statements; a body is a sequence of statements. *)
Block(body) == [s |-> "block", body |-> body]
If(c, then) == [s |-> "if", c |-> c, then |-> then]
IfThenElse(c, then, else) ==
  [s |-> "ifelse", c |-> c, then |-> then, else |-> else]
While(c, body) == [s |-> "while", c |-> c, body |-> body]
Repeat(body, c) == [s |-> "repeat", c |-> c, body |-> body]
Break == [s |-> "break"]
Continue == [s |-> "continue"]
Return(list) == [s |-> "return", list |-> list]
Do(call) == [s |-> "expr", a |-> call]
LocalVar(vars, values) == [s |-> "local", vars |-> vars, values |-> values]
Assign(vars, values) == [s |-> "assign", vars |-> vars, values |-> values]
Compound(op, var, value) ==
  [s |-> "compound", op |-> op, var |-> var, value |-> value]
FunctionStat(name, f) == [s |-> "function", name |-> name, f |-> f]
LocalFunction(x, f) == [s |-> "localfunction", x |-> x, f |-> f]
For(x, from, to, step, body) ==
  [s |-> "for", x |-> x, from |-> from, to |-> to, step |-> step,
   body |-> body]
ForIn(vars, values, body) ==
  [s |-> "forin", vars |-> vars, values |-> values, body |-> body]

\* Types are not part of a tree.
TypeAlias == [s |-> "typealias"]

IsStat(n) == "s" \in DOMAIN n

\* The nodes below a node, in the order a visitor meets them.
StatChildren(n) ==
  CASE n.s = "block" -> n.body
    [] n.s = "if" -> <<n.c>> \o n.then
    [] n.s = "ifelse" -> <<n.c>> \o n.then \o n.else
    [] n.s = "while" -> <<n.c>> \o n.body
    [] n.s = "repeat" -> Append(n.body, n.c)
    [] n.s \in {"break", "continue", "typealias"} -> <<>>
    [] n.s = "return" -> n.list
    [] n.s = "expr" -> <<n.a>>
    [] n.s = "local" -> n.values
    [] n.s = "assign" -> n.vars \o n.values
    [] n.s = "compound" -> <<n.var, n.value>>
    [] n.s = "function" -> <<n.name, n.f>>
    [] n.s = "localfunction" -> <<n.f>>
    [] n.s = "for" -> <<n.from, n.to, n.step>> \o n.body
    [] n.s = "forin" -> n.values \o n.body
ExprChildren(n) ==
  CASE n.e \in {"const", "local", "global", "dots", "nokey"} -> <<>>
    [] n.e \in {"paren", "cast", "unary"} -> <<n.a>>
    [] n.e = "call" -> <<n.f>> \o n.args
    [] n.e = "index" -> <<n.t, n.i>>
    [] n.e = "function" -> n.body
    [] n.e = "table" ->
              [j \in 1 .. 2 * Len(n.items) |->
                 IF j % 2 = 1 THEN n.items[(j + 1) \div 2].k
                 ELSE n.items[j \div 2].v]
    [] n.e = "binary" -> <<n.l, n.r>>
    [] n.e = "ifelse" -> <<n.c, n.a, n.b>>
Children(n) == IF IsStat(n) THEN StatChildren(n) ELSE ExprChildren(n)

RECURSIVE NodesOf(_), NodesIn(_)
NodesIn(ns) == UNION {NodesOf(ns[i]) : i \in DOMAIN ns}
NodesOf(n) == {n} \cup NodesIn(Children(n))

\* The nodes of a body outside the functions in it, those functions included.
RECURSIVE OwnNodes(_)
OwnNodes(ns) ==
  UNION {{ns[i]} \cup IF ~IsStat(ns[i]) /\ ns[i].e = "function" THEN {}
                       ELSE OwnNodes(Children(ns[i])) : i \in DOMAIN ns}

\* The functions of a body, inner ones first.
RECURSIVE FunctionsIn(_)
FunctionsIn(ns) ==
  IF ns = <<>> THEN <<>>
  ELSE LET n == Head(ns)
           own == FunctionsIn(Children(n))
       IN (IF ~IsStat(n) /\ n.e = "function" THEN Append(own, n) ELSE own)
          \o FunctionsIn(Tail(ns))

\* allPathsEndWithReturn
RECURSIVE AllPathsReturn(_)
AllPathsReturn(body) ==
  /\ body # <<>>
  /\ LET n == body[Len(body)]
     IN \/ n.s = "return"
        \/ n.s = "block" /\ AllPathsReturn(n.body)
        \/ n.s = "ifelse" /\ AllPathsReturn(n.then) /\ AllPathsReturn(n.else)

-----------------------------------------------------------------------------
(* ValueTracking *)

Stats(nodes, kind) == {n \in nodes : IsStat(n) /\ n.s = kind}
WrittenLocals(nodes) ==
  UNION {{n.vars[i].x : i \in {i \in DOMAIN n.vars : n.vars[i].e = "local"}}
           : n \in Stats(nodes, "assign")}
  \cup {n.var.x : n \in {n \in Stats(nodes, "compound") : n.var.e = "local"}}
  \cup {n.name.x : n \in {n \in Stats(nodes, "function") : n.name.e = "local"}}
WrittenGlobals(nodes) ==
  UNION {{n.vars[i].n : i \in {i \in DOMAIN n.vars : n.vars[i].e = "global"}}
           : n \in Stats(nodes, "assign")}
  \cup {n.var.n : n \in {n \in Stats(nodes, "compound") : n.var.e = "global"}}
  \cup {n.name.n : n \in {n \in Stats(nodes, "function") : n.name.e = "global"}}

\* The function a local holds from its declaration on, or NoKey.
InitOf(nodes, x) ==
  LET fs == {n \in Stats(nodes, "localfunction") : n.x = x}
      ls == {n \in Stats(nodes, "local") :
               \E i \in DOMAIN n.values \cap DOMAIN n.vars : n.vars[i] = x}
  IN IF fs # {} THEN (CHOOSE n \in fs : TRUE).f
     ELSE IF ls # {} THEN LET n == CHOOSE n \in ls : TRUE
                          IN n.values[CHOOSE i \in DOMAIN n.vars : n.vars[i] = x]
     ELSE NoKey

LocalsOf(nodes) ==
  UNION {{n.vars[i] : i \in DOMAIN n.vars} :
           n \in Stats(nodes, "local") \cup Stats(nodes, "forin")}
  \cup {n.x : n \in Stats(nodes, "for") \cup Stats(nodes, "localfunction")}
  \cup UNION {{n.params[i] : i \in DOMAIN n.params} :
                n \in {n \in nodes : ~IsStat(n) /\ n.e = "function"}}

\* Locals of the main function outside loops: functionDepth = loopDepth = 0.
RECURSIVE TopLevelLocals(_)
TopLevelLocals(body) ==
  UNION {LET n == body[i]
         IN CASE n.s = "local" -> {n.vars[j] : j \in DOMAIN n.vars}
              [] n.s = "localfunction" -> {n.x}
              [] n.s = "block" -> TopLevelLocals(n.body)
              [] n.s = "if" -> TopLevelLocals(n.then)
              [] n.s = "ifelse" -> TopLevelLocals(n.then)
                                     \cup TopLevelLocals(n.else)
              [] OTHER -> {} : i \in DOMAIN body}

-----------------------------------------------------------------------------
(* What an operator computes; Failed where it raises an error. *)

Failed == <<"failed">>
Arith == {"+", "-", "*"}
Compare == {"==", "~=", "<", "<=", ">", ">="}
Text(v) == IF IsNum(v) THEN <<ToString(v[2])>> ELSE v[2]
UnaryValue(op, v) ==
  CASE op = "not" -> Bool(~Truthy(v))
    [] op = "-" -> IF IsNum(v) THEN Num(-v[2]) ELSE Failed
BinaryValue(op, l, r) ==
  CASE op = "==" -> Bool(l = r)
    [] op = "~=" -> Bool(l # r)
    [] op = ".." -> IF {l[1], r[1]} \subseteq {"num", "str"}
                    THEN Str(Text(l) \o Text(r)) ELSE Failed
    [] OTHER ->
       IF ~(IsNum(l) /\ IsNum(r)) THEN Failed
       ELSE CASE op = "+" -> Num(l[2] + r[2])
              [] op = "-" -> Num(l[2] - r[2])
              [] op = "*" -> Num(l[2] * r[2])
              [] op = "<" -> Bool(l[2] < r[2])
              [] op = "<=" -> Bool(l[2] <= r[2])
              [] op = ">" -> Bool(l[2] > r[2])
              [] op = ">=" -> Bool(l[2] >= r[2])

-----------------------------------------------------------------------------
(* ConstantFolding.  A map from locals to constants stands for locstants;  *)
(* the constant of an expression is computed from it where it is asked.    *)

Unknown == <<"unknown">>

FoldUnary(op, v) == IF v = Unknown THEN Unknown
                    ELSE LET r == UnaryValue(op, v)
                         IN IF r = Failed THEN Unknown ELSE r
FoldBinary(op, l, r) ==
  IF l = Unknown \/ op = ".." THEN Unknown
  ELSE IF op \in {"and", "or"}
  THEN IF Truthy(l) = (op = "and") THEN r ELSE l
  ELSE IF r = Unknown THEN Unknown
  ELSE LET v == BinaryValue(op, l, r) IN IF v = Failed THEN Unknown ELSE v

RECURSIVE ConstantOf(_, _)
ConstantOf(n, known) ==
  CASE n.e = "const" -> n.v
    [] n.e \in {"paren", "cast"} -> ConstantOf(n.a, known)
    [] n.e = "local" -> known[n.x]
    [] n.e = "unary" -> FoldUnary(n.op, ConstantOf(n.a, known))
    [] n.e = "binary" -> FoldBinary(n.op, ConstantOf(n.l, known),
                                    ConstantOf(n.r, known))
    [] n.e = "ifelse" ->
         LET c == ConstantOf(n.c, known)
         IN IF c = Unknown THEN Unknown
            ELSE ConstantOf(IF Truthy(c) THEN n.a ELSE n.b, known)
    [] OTHER -> Unknown

\* foldConstants: a local that is never written and starts as a constant is
\* one; its declaration is met before its uses, in nested functions too.
DeclaredConstant(n, j, known) ==
  LET k == Len(n.values)
  IN IF j <= k THEN ConstantOf(n.values[j], known)
     ELSE IF k > 0 /\ n.values[k].e \in {"call", "dots"} THEN Unknown
     ELSE Nil
RECURSIVE Fold(_, _, _)
Fold(ns, known, written) ==
  IF ns = <<>> THEN known
  ELSE LET n == Head(ns)
           inner == Fold(Children(n), known, written)
           named == {j \in DOMAIN n.vars : n.vars[j] \notin written}
           after == IF IsStat(n) /\ n.s = "local"
                    THEN [x \in DOMAIN known |->
                            IF \E j \in named : n.vars[j] = x
                            THEN DeclaredConstant(n, CHOOSE j \in named :
                                                     n.vars[j] = x, inner)
                            ELSE inner[x]]
                    ELSE inner
       IN Fold(Tail(ns), after, written)

-----------------------------------------------------------------------------
(* CostModel.  A cost is the baseline and a discount for each of the       *)
(* variables that may be constant, each saturating at 127; mask is the set *)
(* of variables whose constancy would make the expression constant, with   *)
(* 0 in it for a literal, which all variables make constant.               *)

Saturate(n) == Min2(n, 127)
Variables == 1 .. 7
Literal == {0} \cup Variables
Cost(n, mask) == [model |-> [i \in {0} \cup Variables |->
                               IF i = 0 THEN Saturate(n) ELSE 0],
                  mask |-> mask]
AddModel(a, b) == [i \in DOMAIN a |-> Saturate(a[i] + b[i])]
Plus(a, b) == [model |-> AddModel(a.model, b.model), mask |-> {}]
Times(a, k) == [model |-> [i \in DOMAIN a.model |->
                             Saturate(a.model[i] * Saturate(k))],
                mask |-> {}]
FoldCost(a, b) ==
  LET mask == a.mask \cap b.mask
      extra == [i \in {0} \cup Variables |->
                  IF mask = Literal THEN 0
                  ELSE IF i = 0 \/ i \in mask THEN 1 ELSE 0]
  IN [model |-> AddModel(AddModel(a.model, b.model), extra), mask |-> mask]

RECURSIVE ExprCost(_, _), ListCost(_, _, _)
\* A call pays for the copy of an argument that costs nothing.
ListCost(ns, vars, least) ==
  IF ns = <<>> THEN Cost(0, {})
  ELSE LET c == ExprCost(Head(ns), vars)
           free == \A i \in DOMAIN c.model : c.model[i] = 0
       IN Plus(IF free THEN Cost(least, {}) ELSE c,
               ListCost(Tail(ns), vars, least))
ExprCost(n, vars) ==
  CASE n.e \in {"paren", "cast"} -> ExprCost(n.a, vars)
    [] n.e \in {"const", "nokey"} -> Cost(0, Literal)
    [] n.e = "local" -> Cost(0, IF n.x \in DOMAIN vars THEN vars[n.x] ELSE {})
    [] n.e = "global" -> Cost(1, {})
    [] n.e = "dots" -> Cost(3, {})
    [] n.e = "call" -> Plus(Cost(3, {}), Plus(ExprCost(n.f, vars),
                                              ListCost(n.args, vars, 1)))
    [] n.e = "index" -> Plus(Cost(1, {}), Plus(ExprCost(n.t, vars),
                                               ExprCost(n.i, vars)))
    [] n.e = "function" -> Cost(10, {})
    [] n.e = "table" -> Plus(Cost(10 + Len(n.items), {}),
                             ListCost(Children(n), vars, 0))
    [] n.e = "unary" -> FoldCost(ExprCost(n.a, vars), Cost(0, Literal))
    [] n.e = "binary" -> FoldCost(ExprCost(n.l, vars), ExprCost(n.r, vars))
    [] n.e = "ifelse" -> Plus(Cost(2, {}), ListCost(Children(n), vars, 0))

\* getTripCount: whole numbers of 16 bits count exactly.
TripCount(from, to, step) ==
  IF step = 0 THEN -1
  ELSE IF (step < 0 /\ to > from) \/ (step > 0 /\ to < from) THEN 0
  ELSE IF step > 0 THEN (to - from) \div step + 1
  ELSE (from - to) \div (-step) + 1

\* getNumber: a literal, or a negated one.
Literally(n) == IF n.e = "unary" /\ n.op = "-" THEN ConstantOf(n, <<>>)
                ELSE IF n.e = "const" THEN n.v ELSE Unknown
LiteralTrips(n) ==
  LET f == Literally(n.from)  t == Literally(n.to)  s == Literally(n.step)
  IN IF IsNum(f) /\ IsNum(t) /\ IsNum(s) THEN TripCount(f[2], t[2], s[2])
     ELSE -1

\* Visiting statements; a written variable is no longer discounted, a local
\* inherits the mask of its value.  The result is [cost, vars].
RECURSIVE BodyCost(_, _), StatCost(_, _)
BodyCost(body, vars) ==
  IF body = <<>> THEN [cost |-> Cost(0, {}), vars |-> vars]
  ELSE LET one == StatCost(Head(body), vars)
           rest == BodyCost(Tail(body), one.vars)
       IN [cost |-> Plus(one.cost, rest.cost), vars |-> rest.vars]
StatCost(n, vars) ==
  LET flat(k) == [cost |-> Cost(k, {}), vars |-> vars]
      then(k, bodies) ==
        LET b == BodyCost(bodies, vars)
        IN [cost |-> Plus(k, b.cost), vars |-> b.vars]
      loop(body, before, iter, factor) ==
        LET b == BodyCost(body, vars)
        IN [cost |-> Plus(before, Times(Plus(b.cost, iter), factor)),
            vars |-> b.vars]
      without(xs) == [x \in DOMAIN vars |-> IF x \in xs THEN {} ELSE vars[x]]
      names(es) == {es[i].x : i \in {i \in DOMAIN es : es[i].e = "local"}}
  IN CASE n.s = "block" -> then(Cost(0, {}), n.body)
       [] n.s = "if" -> then(Plus(Cost(2, {}), ExprCost(n.c, vars)), n.then)
       [] n.s = "ifelse" -> then(Plus(Cost(2, {}), ExprCost(n.c, vars)),
                                 n.then \o n.else)
       [] n.s \in {"while", "repeat"} ->
            loop(n.body, Cost(0, {}), ExprCost(n.c, vars), 3)
       [] n.s \in {"break", "continue"} -> flat(1)
       [] n.s = "typealias" -> flat(0)
       [] n.s = "return" -> [cost |-> ListCost(n.list, vars, 0), vars |-> vars]
       [] n.s = "expr" -> [cost |-> ExprCost(n.a, vars), vars |-> vars]
       [] n.s = "local" ->
            [cost |-> ListCost(n.values, vars, 0),
             vars |->
               LET new == {j \in DOMAIN n.vars \cap DOMAIN n.values :
                             ExprCost(n.values[j], vars).mask # {}}
               IN [x \in DOMAIN vars \cup {n.vars[j] : j \in new} |->
                     IF \E j \in new : n.vars[j] = x
                     THEN ExprCost(n.values[CHOOSE j \in new :
                                              n.vars[j] = x], vars).mask
                     ELSE vars[x]]]
       [] n.s = "assign" ->
            LET w == without(names(n.vars))
            IN [cost |-> Plus(ListCost(n.vars, w, 0), ListCost(n.values, w, 0)),
                vars |-> w]
       [] n.s = "compound" ->
            LET w == without(names(<<n.var>>))
            IN [cost |-> Plus(Cost(IF n.var.e = "local" THEN 1 ELSE 2, {}),
                              ListCost(<<n.var, n.value>>, w, 0)), vars |-> w]
       [] n.s = "function" -> [cost |-> ListCost(<<n.name, n.f>>, vars, 0),
                               vars |-> vars]
       [] n.s = "localfunction" -> [cost |-> ExprCost(n.f, vars), vars |-> vars]
       [] n.s = "for" ->
            loop(n.body, ListCost(<<n.from, n.to, n.step>>, vars, 0),
                 Cost(1, {}),
                 LET k == LiteralTrips(n) IN IF k < 0 THEN 3 ELSE k)
       [] n.s = "forin" -> loop(n.body, ListCost(n.values, vars, 0),
                                Cost(1, {}), 3)

ModelCost(body, vars) ==
  BodyCost(body, [x \in {vars[i] : i \in DOMAIN vars} |->
                    {i \in Variables : i <= Len(vars) /\ vars[i] = x}]).cost.model
RECURSIVE Discounts(_, _, _)
Discounts(model, constant, i) ==
  IF i = 0 THEN 0 ELSE (IF constant[i] THEN model[i] ELSE 0)
                         + Discounts(model, constant, i - 1)
ComputeCost(model, constant) ==
  IF model[0] = 127 THEN 127
  ELSE model[0] - Discounts(model, constant, Min2(Len(constant), 7))
=============================================================================
