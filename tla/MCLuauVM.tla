------------------------------ MODULE MCLuauVM ------------------------------
(***************************************************************************)
(* Chunks for TLC, by what in the compiler they are for.                   *)
(***************************************************************************)
EXTENDS LuauVM

N(n) == Const(Num(n))
K(s) == Const(Str(<<s>>))
L(x) == Local(x)
False == Const(Bool(FALSE))
Emit(args) == Call(Global("emit"), args)
DoEmit(args) == Do(Emit(args))
Item(v) == [k |-> NoKey, v |-> v]
Let(x, v) == LocalVar(<<x>>, <<v>>)
Set(x, v) == Assign(<<L(x)>>, <<v>>)
F(id, params, body) == Function(id, params, FALSE, body)
\* Values that the compiler cannot know.
Given(xs, vs) == LocalVar(xs, <<Emit(vs)>>)

(* Every expression of two operators, in every place that compiles one its *)
(* own way: a new register, a local it reads, a condition, an inlined body.*)
Simple == {Unary("not", L("a")), Unary("-", L("b")), Binary("and", L("a"), L("b")),
           Binary("or", L("b"), L("a")), Binary("==", L("a"), N(1)),
           Binary("~=", L("b"), L("a")), Binary("<", L("b"), L("a")),
           Binary(">=", L("a"), L("b")), Binary("+", L("a"), N(1)),
           IfElse(L("a"), L("b"), N(2)), Binary("or", False, L("a")),
           Binary("and", L("b"), False), Binary("..", L("a"), L("b"))}
Exprs == Simple
         \cup {Unary("not", e) : e \in Simple}
         \cup {Binary(op, e, a) : op \in {"and", "or", "=="}, e \in Simple,
                                  a \in {L("a"), L("b"), N(1)}}
         \cup {Binary(op, a, e) : op \in {"and", "or", "=="}, e \in Simple,
                                  a \in {L("a"), False}}
         \cup {IfElse(e, L("b"), L("a")) : e \in Simple}
Places(e, v, w) ==
  <<Given(<<"a", "b">>, <<v, w>>),
    DoEmit(<<e>>),
    Let("x", e),
    IfThenElse(e, <<DoEmit(<<L("x")>>)>>, <<DoEmit(<<N(0), L("x")>>)>>),
    While(e, <<DoEmit(<<N(5)>>), Break>>),
    Repeat(<<Let("n", Unary("not", L("a")))>>, Binary("or", e, N(1))),
    Set("b", e),
    DoEmit(<<L("b")>>)>>
Expressions == {Places(e, vw[1], vw[2]) :
                  e \in Exprs, vw \in {<<N(1), N(2)>>, <<N(2), False>>}}

(* Assignments of two variables, of which one may index the other, here and *)
(* in a closure that has them as upvalues.                                  *)
Targets == {L("a"), L("b"), Index(L("t"), L("a")), Index(L("t"), L("b")),
            Index(L("t"), N(1)), L("t"), Global("g")}
Sources == {<<L("b"), L("a")>>, <<Binary("+", L("a"), N(1)), N(9)>>,
            <<Emit(<<L("b"), L("a")>>)>>, <<L("a"), N(2), Emit(<<N(3)>>)>>,
            <<Table(<<>>), L("b")>>}
Assignment(names, vals) ==
  <<Given(<<"a", "b">>, <<N(1), N(2)>>), Given(<<"t", "u">>, <<Table(<<>>)>>),
    Set("u", L("t"))>>
  \o <<Assign(names, vals),
       DoEmit(<<L("a"), L("b"), L("t"), Global("g"),
                Index(L("u"), N(1)), Index(L("u"), N(2))>>)>>
Assigned == {Assignment(<<x, y>>, v) : x \in Targets, y \in Targets, v \in Sources}
AssignedInside ==
  {<<Given(<<"a", "b">>, <<N(1), N(2)>>), Let("t", Table(<<>>)),
     LocalFunction("f", F("f", <<>>, <<Assign(<<x, y>>, v)>>)),
     Let("u", L("t")), Do(Call(L("f"), <<>>)), Compound("+", L("b"), L("b")),
     DoEmit(<<L("a"), L("b"), Index(L("u"), N(1)), Index(L("u"), N(2))>>)>> :
   x \in Targets \ {Global("g")}, y \in Targets \ {L("a")},
   v \in {<<L("b"), L("a")>>, <<Emit(<<L("b"), L("a")>>)>>}}

(* Loops: what they run over, how a round is left, what a closure holds.    *)
Leave(x) ==
  <<<<>>, <<If(Binary("==", L(x), N(2)), <<Break>>)>>,
   <<If(Binary("==", L(x), N(2)), <<Continue>>)>>,
   <<IfThenElse(Binary("<", L(x), N(2)), <<DoEmit(<<N(7)>>)>>, <<Break>>)>>,
   <<If(Binary("or", Binary("==", L(x), N(3)), L("b")),
        <<DoEmit(<<N(8)>>), Continue>>)>>>>
Hold == {<<Set("f", F("f", <<>>, <<Return(<<L("z")>>)>>))>>,
         <<If(Unary("not", L("f")),
              <<Set("f", F("f", <<>>, <<Compound("+", L("z"), N(10)),
                                        Return(<<L("z")>>)>>))>>)>>}
Round(x, hold, leave) ==
  <<Let("z", L(x))>> \o hold \o leave \o <<DoEmit(<<L("z")>>)>>
Step(x) == Compound("+", L(x), N(1))
LoopsWith(hold, leave(_)) ==
  {<<For("i", N(1), N(3), N(1), Round("i", hold, leave("i")))>>,
   <<For("i", L("a"), N(3), N(1), Round("i", hold, leave("i")))>>,
   <<For("i", N(3), L("a"), Unary("-", N(1)), <<Step("i")>> \o Round("i", hold, leave("i")))>>,
   <<While(Binary("<", L("a"), N(4)), <<Step("a")>> \o Round("a", hold, leave("a")))>>,
   <<Repeat(<<Step("a")>> \o Round("a", hold, leave("a")),
            Binary(">", L("a"), N(3)))>>,
   <<ForIn(<<"k", "i">>, <<Table(<<Item(N(1)), Item(N(2)), Item(N(3))>>)>>,
           Round("i", hold, leave("i")))>>,
   <<LocalFunction("next", F("next", <<"s", "c">>,
       <<If(Binary("<", L("c"), N(3)), <<Return(<<Binary("+", L("c"), N(1))>>)>>)>>)),
     ForIn(<<"i">>, <<L("next"), N(0), N(0)>>, Round("i", hold, leave("i")))>>}
Native(hold) == <<ForIn(<<"s", "i">>, <<Global("emit"), N(2), L("a")>>,
                        Append(Round("i", hold, <<>>), Break))>>
\* A closure of a repeat loop's body used by its condition; a nested loop.
Others ==
  {<<Repeat(<<Let("z", L("a")), Step("a"), If(L("b"), <<Continue>>),
              DoEmit(<<L("z")>>)>>, Binary(">", L("a"), N(3)))>>,
   <<Repeat(<<Let("z", L("a")), Set("f", F("f", <<>>, <<Step("z"), Return(<<L("z")>>)>>)),
              Step("a")>>, Binary(">", Call(L("f"), <<>>), N(3)))>>,
   <<Repeat(<<If(L("b"), <<Continue>>), DoEmit(<<N(1)>>)>>, L("a")),
     Set("f", Global("emit"))>>,
   <<For("i", N(1), N(2), N(1),
       <<For("j", L("i"), N(2), N(1),
          <<Set("f", F("f", <<>>, <<Return(<<L("i"), L("j")>>)>>)),
            If(Binary("==", L("i"), L("j")), <<Continue>>),
            DoEmit(<<Call(L("f"), <<>>)>>)>>)>>)>>,
   <<For("i", N(5), N(1), N(1), <<DoEmit(<<N(1)>>)>>), For("j", N(1), L("b"), N(1), <<>>)>>}
Looped ==
  {<<Given(<<"a", "b", "f">>, <<N(1), v>>)>> \o loop
   \o <<DoEmit(<<Call(L("f"), <<>>), Call(L("f"), <<>>), L("a")>>)>> :
     v \in {N(0), False},
     loop \in Others \cup {Native(h) : h \in Hold}
              \cup UNION {LoopsWith(h, LAMBDA x : Leave(x)[k]) :
                            h \in Hold, k \in 1 .. 5}}

(* A local function, as it may be inlined, and the places of a call of it.  *)
Bodies ==
  {<<Return(<<L("p")>>)>>, <<Return(<<L("p"), L("q")>>)>>, <<>>,
   <<If(L("p"), <<Return(<<L("q")>>)>>), Return(<<L("p"), L("a")>>)>>,
   <<IfThenElse(L("q"), <<Return(<<L("q")>>)>>, <<Return(<<L("p")>>)>>)>>,
   <<Set("p", Binary("or", L("q"), L("a"))), Return(<<L("p")>>)>>,
   <<Let("r", L("p")), Set("r", L("q")),
     Return(<<F("g", <<>>, <<Return(<<L("p"), L("r")>>)>>)>>)>>,
   <<Return(<<Emit(<<L("p"), L("q")>>)>>)>>,
   <<For("i", L("a"), N(2), N(1), <<Return(<<L("i"), L("p")>>)>>)>>,
   <<Set("a", L("p")), DoEmit(<<L("a")>>)>>,
   <<LocalFunction("h", F("h", <<"r">>, <<Return(<<L("r"), L("q")>>)>>)),
     Return(<<Call(L("h"), <<L("p")>>)>>)>>,
   <<Let("r", L("p")), Return(<<F("g", <<>>, <<Step("r"), Return(<<L("r"), L("q")>>)>>)>>)>>}
Actuals == {<<>>, <<L("b")>>, <<L("b"), N(4)>>, <<N(3), Emit(<<L("a")>>), L("b")>>,
            <<Emit(<<L("a"), L("b")>>)>>, <<Binary("+", L("a"), N(1)), False>>}
Uses(call) ==
  {<<Do(call), Let("x", N(0))>>,
   <<LocalVar(<<"x", "y">>, <<call>>), DoEmit(<<L("y")>>)>>,
   <<Let("x", Table(<<Item(L("b")), Item(call)>>)),
     DoEmit(<<Index(L("x"), N(1)), Index(L("x"), N(2)), Index(L("x"), N(3))>>)>>,
   <<Let("x", IfElse(L("b"), call, N(1)))>>,
   <<While(L("b"), <<Let("x", Paren(call)), DoEmit(<<L("x")>>), Set("b", False)>>),
     Return(<<call>>)>>}
Calls ==
  {<<Given(<<"a", "b">>, <<N(1), N(2)>>),
     LocalFunction("f", F("f", <<"p", "q">>, body))>>
   \o use \o <<DoEmit(<<Call(L("f"), <<N(5)>>), L("a"), L("b")>>)>> :
     use \in UNION {Uses(Call(L("f"), args)) : args \in Actuals}, body \in Bodies}
\* A closure that the inlined call returned is called.
Called ==
  {<<Given(<<"a", "b">>, <<N(1), N(2)>>),
     LocalFunction("f", F("f", <<"p", "q">>, body)),
     LocalVar(<<"x", "y">>, <<Call(L("f"), args), Call(L("f"), <<N(6), N(7)>>)>>),
     DoEmit(<<Call(L("x"), <<>>)>>),
     DoEmit(<<Call(L("x"), <<>>), Call(L("y"), <<>>)>>)>> :
     body \in Bodies, args \in Actuals}

(* Variable arguments, constructors, fields, imports, shared closures.      *)
VarArg(id, params, body) == Function(id, params, TRUE, body)
Lists == {<<Dots>>, <<L("p"), Dots>>, <<Dots, L("p")>>, <<Paren(Dots)>>,
          <<Emit(<<Dots>>), Emit(<<L("p"), Dots>>)>>}
VarArgs ==
  {<<LocalFunction("f", VarArg("f", <<"p">>, body)),
     DoEmit(<<Call(L("f"), args)>>), LocalVar(<<"x", "y">>, <<Call(L("f"), args)>>),
     DoEmit(<<L("x"), L("y")>>)>> :
   args \in {<<>>, <<N(1)>>, <<N(1), N(2), N(3)>>, <<Emit(<<N(1), N(2)>>)>>},
   body \in {<<Return(list)>> : list \in Lists}
     \cup {<<LocalVar(<<"v", "w">>, list), Return(<<L("w"), L("v")>>)>> : list \in Lists}
     \cup {<<Let("t", Table([i \in DOMAIN list |-> Item(list[i])])),
             Return(<<Index(L("t"), N(1)), Index(L("t"), N(2)),
                      Index(L("t"), N(3))>>)>> : list \in Lists}}
Big == Table([i \in 1 .. 18 |-> Item(IF i = 3 THEN Binary("+", L("a"), N(1)) ELSE N(i))]
             \o <<[k |-> K("k"), v |-> L("a")], [k |-> L("b"), v |-> N(0)],
                  Item(Emit(<<L("a"), L("b")>>))>>)
Mixed ==
  {<<Given(<<"a", "b">>, <<N(1), N(2)>>), Let("t", Big),
     DoEmit(<<Index(L("t"), N(i)), Index(L("t"), K("k")), Index(L("t"), L("b"))>>)>> :
     i \in {1, 3, 16, 17, 18, 19, 20, 21}}
  \cup {<<Assign(<<Global("g")>>, <<v>>), Compound(op, Global("g"), N(1)),
          DoEmit(<<Global("g"), Index(Global("lib"), K("n")), Global("h")>>),
          Do(Call(Index(Global(lib), K("m")), <<>>)), DoEmit(<<N(3)>>)>> :
          v \in {N(1), False, K("s")}, op \in {"+", ".."}, lib \in {"lib", "none"}}
  \cup {<<Let("n", v),
          LocalFunction("get", F("get", <<>>, <<Return(<<L("n")>>)>>)),
          LocalFunction("make", F("make", <<"p">>,
            <<LocalFunction("inner", F("inner", <<>>,
                <<Return(<<L("p"), Call(L("get"), <<>>)>>)>>)),
              LocalFunction("same", F("same", <<>>,
                <<DoEmit(<<Call(L("get"), <<>>)>>), Return(<<L("n")>>)>>)),
              Return(<<L("inner"), L("same")>>)>>)),
          LocalVar(<<"x", "y">>, <<Call(L("make"), <<N(1)>>)>>),
          LocalVar(<<"z", "w">>, <<Call(L("make"), <<N(2)>>)>>),
          DoEmit(<<Call(L("x"), <<>>)>>), DoEmit(<<Call(L("z"), <<>>)>>),
          DoEmit(<<Call(L("y"), <<>>), Call(L("w"), <<>>)>>)>> :
          v \in {Emit(<<N(8)>>), N(8), Table(<<>>)}}
  \cup {<<Given(<<"a", "b">>, <<N(1), N(2)>>),
          LocalFunction("f", VarArg("f", <<>>, <<loop>>)),
          DoEmit(<<Call(L("f"), <<>>), L("a"), L("b")>>)>> :
          loop \in {While(L("b"), <<Step("a"), If(L("a"), <<Break>>)>>),
                    For("i", L("a"), L("b"), N(1), <<Step("a"), Break>>),
                    ForIn(<<"k">>, <<Table(<<Item(L("a"))>>)>>, <<Break>>)}}
  \cup {<<Repeat(<<Continue>>, N(1)), DoEmit(<<N(1)>>)>>}

(* Methods, of objects in registers and elsewhere; functions declared by name.   *)
M(object, args) == MethodCall(object, K("m"), args)
Objects == {L("t"), L("u"), Paren(L("t")), Index(L("u"), K("t")), Call(L("f"), <<>>),
            L("a"), M(L("t"), <<L("b")>>)}
Method(body, object, use) ==
  <<Given(<<"a", "b">>, <<N(1), N(2)>>), LocalVar(<<"t", "u">>, <<>>),
    Set("t", Table(<<[k |-> K("n"), v |-> N(8)]>>)),
    Set("u", Table(<<[k |-> K("t"), v |-> L("t")]>>)),
    LocalFunction("f", F("f", <<>>, <<Return(<<L("t")>>)>>)),
    FunctionStat(Index(L("t"), K("m")), VarArg("m", <<"self", "p">>, body)),
    FunctionStat(Global("g"), F("g", <<"o">>, <<Return(<<M(object, <<L("o")>>)>>)>>))>>
  \o use \o <<DoEmit(<<Call(Global("g"), <<L("b")>>), L("t")>>)>>
Methods ==
  {Method(<<Return(<<L("self"), L("p"), Dots>>)>>, object, <<DoEmit(<<M(object, args)>>)>>) :
     object \in Objects,
     args \in {<<>>, <<L("a"), Emit(<<L("a"), L("b")>>)>>, <<M(L("t"), <<L("a")>>), L("b")>>}}
  \cup {Method(<<Set("t", L("p")), DoEmit(<<Index(L("self"), K("n")), Dots>>),
                 Return(<<L("self")>>)>>, object, use) :
          object \in Objects,
          use \in {<<LocalVar(<<"x", "y">>, <<M(L("t"), <<L("b"), L("t")>>)>>), DoEmit(<<L("x")>>)>>,
                  <<LocalFunction("h", F("h", <<"v", "w">>, <<Return(<<M(L("v"), <<L("w")>>)>>)>>)),
                    DoEmit(<<Call(L("h"), <<L("t"), L("a")>>)>>)>>}}
\* A branch that ends where the function returns its parameter.
Branched ==
  {<<LocalFunction("f", F("f", <<"p">>,
       <<IfThenElse(L("p"), then, <<DoEmit(<<N(0), L("p")>>)>>), Return(<<L("p")>>)>>)),
     Set("f", L("f")),
     DoEmit(<<Call(L("f"), <<v>>), Call(L("f"), <<w>>)>>)>> :
     then \in {<<Set("p", N(3))>>, <<DoEmit(<<N(1)>>)>>,
               <<While(L("p"), <<Set("p", False)>>)>>},
     v \in {N(1), False}, w \in {N(2), False}}
\* Casts, which leave one value; of functions, of what a cast is assigned to.
Casts ==
  {<<Given(<<"a", "b">>, <<N(1), N(2)>>), TypeAlias,
     Let("f", Cast(VarArg("f", <<"p">>, <<Return(<<L("p"), Dots>>)>>))),
     Let("g", Cast(F("g", <<"p">>, <<TypeAlias, Return(<<Cast(L("p")), L("a")>>)>>))),
     LocalVar(<<"x", "y">>, <<Cast(v)>>),
     IfThenElse(Cast(v), <<DoEmit(<<Cast(v)>>)>>, <<DoEmit(<<L("y")>>)>>),
     Let("t", Table(<<Item(Cast(v))>>)), Set("b", Cast(v)),
     DoEmit(<<L("b"), L("x"), L("y"), Index(L("t"), N(1)), Index(L("t"), N(2))>>),
     Return(<<Cast(v)>>)>> :
   v \in {Call(L("f"), <<N(5), N(6)>>), Call(Paren(Cast(L("g"))), <<L("b")>>),
          Emit(<<L("a"), L("b")>>), L("a"), N(3), False, Dots, Cast(Unary("not", L("a"))),
          Binary("and", L("a"), Cast(L("b"))), IfElse(Cast(L("a")), Cast(N(4)), L("b"))}}
Language == Expressions \cup Assigned \cup AssignedInside \cup Looped
            \cup Calls \cup Called \cup VarArgs \cup Mixed \cup Methods
            \cup Branched \cup Casts
LanguageChunks == LET chunks == Language IN {Compiled(p) : p \in chunks}

\* A local, or another one, is assigned an inlined call whose returned
\* expression reads it.
ReadsBack ==
  {Binary("or", Binary("==", L("a"), N(2)), L("a")), Binary("+", L("a"), N(1)),
   Binary("and", Binary("<", N(0), L("a")), L("a"))}
InlinedInto(e, x) ==
  <<Given(<<"a", "b">>, <<N(1), N(2)>>),
    LocalFunction("f", F("f", <<>>, <<Return(<<e>>)>>)),
    Set(x, Call(L("f"), <<>>)), DoEmit(<<L("a"), L("b")>>)>>
InlineChunks ==
  LET chunks == {InlinedInto(e, x) : e \in ReadsBack, x \in {"a", "b"}}
  IN {Compiled(p) : p \in chunks}

\* A branch of k breaks that are long jumps, and a long jump after it.
Breaks(k) ==
  <<Given(<<"a", "b">>, <<False, N(1)>>),
    While(L("b"),
          <<If(L("b"), [i \in 1 .. k |-> If(L("a"), <<Break>>)]),
            If(L("a"), <<Break>>)>>
          \o [i \in 1 .. 8 |-> DoEmit(<<N(i), L("a")>>)] \o <<Set("b", False)>>)>>
JumpChunks == LET chunks == {Breaks(k) : k \in 1 .. 12} IN {Compiled(p) : p \in chunks}
=============================================================================
