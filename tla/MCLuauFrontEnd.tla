--------------------------- MODULE MCLuauFrontEnd ---------------------------
(***************************************************************************)
(* Texts for TLC: trees that have every statement and expression in them,  *)
(* written in both styles, a type of every kind in every place where types *)
(* are read, and every text that is one token away from a shorter one.     *)
(***************************************************************************)
EXTENDS LuauFrontEnd

N(n) == Const(Num(n))
K(w) == Const(Str(<<w>>))
L(x) == Local(x)
G(n) == Global(n)
F(id, params, body) == Function(id, params, FALSE, body)
V(id, params, body) == Function(id, params, TRUE, body)
Let(x, v) == LocalVar(<<x>>, <<v>>)
Run(f) == Do(Call(f, <<>>))
\* Locals of one name are told apart by primes.
Primes == [z \in {"self'"} |-> "self"] @@ [x \in {"x'", "x''", "x'''"} |-> "x"] @@ [y \in {"y'", "y''"} |-> "y"]

\* A statement of every kind, with the scopes they open.
Statements ==
  {<<LocalVar(<<"x", "y">>, <<N(1)>>), Block(<<Let("x'", L("x")), Assign(<<L("x'")>>, <<L("y")>>)>>), Run(L("x"))>>,
   <<Let("x", G("x")), Let("x'", L("x")), Run(L("x'"))>>,
   <<LocalVar(<<"x", "y">>, <<>>), Assign(<<L("y"), Index(L("x"), L("y"))>>, <<L("x"), Dots>>)>>,
   <<Repeat(<<Let("x", N(1)), If(L("x"), <<Break>>), Run(L("x"))>>, L("x")), Run(G("x"))>>,
   <<While(G("a"), <<If(G("b"), <<Continue>>), Let("x", G("b"))>>), Return(<<G("x")>>)>>,
   <<For("x", G("x"), N(3), N(1), <<Run(L("x"))>>), For("y", N(1), N(2), G("x"), <<>>)>>,
   <<ForIn(<<"x", "y">>, <<G("x"), G("y")>>, <<IfThenElse(L("x"), <<Break>>, <<Run(L("y"))>>)>>)>>,
   <<FunctionStat(Index(Index(G("x"), K("b")), K("c")), V("f", <<"x">>, <<Return(<<L("x"), Dots>>)>>))>>,
   <<FunctionStat(Index(G("x"), K("m")), F("f", <<"self", "x">>,
       <<Return(<<MethodCall(L("self"), K("n"), <<L("x")>>)>>)>>)), Run(G("self"))>>,
   <<Do(MethodCall(G("x"), K("m"), <<K("s")>>)), Let("x", MethodCall(Call(G("y"), <<>>), K("m"), <<Table(<<>>)>>))>>,
   <<LocalFunction("x", F("f", <<"y">>, <<Return(<<Call(L("x"), <<L("y")>>)>>)>>)), Run(L("x"))>>,
   <<Let("x'", F("f", <<"x">>, <<Run(L("x"))>>)), Run(L("x'"))>>,
   <<IfThenElse(G("a"), <<Return(<<>>)>>, <<IfThenElse(G("b"), <<Run(G("c"))>>, <<Run(G("d"))>>)>>)>>,
   <<IfThenElse(G("a"), <<>>, <<If(G("b"), <<Return(<<N(1), N(2)>>)>>)>>)>>,
   <<Compound("..", G("x"), K("s")), Compound("+", Index(G("x"), N(1)), N(2))>>,
   <<Let("x'", F("f", <<>>, <<Return(<<F("g", <<"x">>, <<Compound("-", L("x"), N(1))>>)>>)>>))>>}
\* An expression of every kind.
Expressions ==
  {Binary("+", N(1), Binary("*", N(2), Binary("^", N(3), Binary("^", N(4), N(5))))),
   Binary("-", Binary("-", N(1), N(2)), Binary("-", N(3), N(4))),
   Binary("and", Binary("or", G("a"), G("b")), Binary("==", G("c"), Binary("<", G("d"), N(1)))),
   Binary("or", Binary("and", G("a"), G("b")), Unary("not", Binary("==", G("c"), N(1)))),
   Binary("..", K("a"), Binary("..", K("b"), Binary("..", K("c"), N(1)))),
   Binary("..", Binary("..", K("a"), K("b")), Unary("#", K("c"))),
   Unary("-", Binary("^", G("a"), Unary("-", N(2)))),
   Binary("^", Unary("-", G("a")), N(2)),
   Binary("%", Unary("not", Unary("-", N(1))), Binary("+", N(1), N(2))),
   Binary("^", Binary("^", N(1), N(2)), Binary("/", N(1), N(2))),
   Table(<<[k |-> NoKey, v |-> N(1)], [k |-> K("k"), v |-> N(2)], [k |-> G("a"), v |-> Table(<<>>)]>>),
   Call(Index(Call(G("f"), <<K("s")>>), K("n")), <<Table(<<[k |-> NoKey, v |-> Dots]>>)>>),
   Call(Index(G("t"), Index(G("a"), N(1))), <<N(1), Const(Nil)>>),
   IndexByExpr(G("t"), K("k")),
   Index(K("s"), K("len")),
   Paren(Dots), Paren(Call(G("f"), <<Call(G("g"), <<>>)>>)),
   IfElse(G("a"), Const(Bool(TRUE)), IfElse(G("b"), N(1), Binary("+", N(2), N(3)))),
   Binary("+", IfElse(G("a"), N(1), N(2)), N(3)),
   Binary("*", Paren(Binary("+", N(1), G("a"))), IfElse(Const(Bool(FALSE)), N(1), N(2))),
   Call(V("f", <<>>, <<Return(<<Dots>>)>>), <<N(1)>>)}
\* Deeper and deeper, up to the limit on recursion and over it.
RECURSIVE Nested(_)
Nested(n) == IF n = 0 THEN G("a")
             ELSE IF n % 2 = 0 THEN Paren(Nested(n - 1))
             ELSE Binary("..", G("b"), Nested(n - 1))
RECURSIVE Chain(_)
Chain(n) == IF n = 0 THEN G("a") ELSE Binary("+", Index(Chain(n - 1), K("k")), G("b"))
RECURSIVE Blocks(_)
Blocks(n) == IF n = 0 THEN <<>> ELSE <<Block(Blocks(n - 1))>>
Deep == {<<Return(<<Nested(n)>>)>> : n \in 1 .. 16} \cup {<<Return(<<Chain(n)>>)>> : n \in 1 .. 16}
        \cup {Blocks(n) : n \in 1 .. 16}
Trees == Statements \cup Deep \cup {<<Return(<<e>>)>> : e \in Expressions}
         \cup {<<Let("x", e), Run(L("x"))>> : e \in Expressions}


-----------------------------------------------------------------------------
(* Types: where each may stand there is a list of its words.               *)

Untyped == [x \in {} |-> <<>>]
Marks == {"nil", "true", ".", ",", ":", ";", "=", "(", ")", "<", ">", "{", "}", "[", "]",
          "->", "...", "?", "|", "&"}
Spelled(ws) == [i \in DOMAIN ws |-> CASE ws[i] \in Marks -> <<ws[i], Nil>>
                                      [] ws[i] = "'k'" -> <<"String", Str(<<"k">>)>>
                                      [] OTHER -> <<"Name", <<"name", ws[i]>>>>]
\* A type of every kind, then lists and packs that only a function returns.
Types ==
  {<<"T">>, <<"nil">>, <<"true">>, <<"'k'">>, <<"m", ".", "T">>, <<"A", "<", ">">>,
   <<"A", "<", "T", ",", "...", "U", ">">>, <<"A", "<", "(", "T", ",", "U", ")", ",", "P", "...", ">">>,
   <<"A", "<", "(", "T", ")", "->", "U", "?", ">">>, <<"{", "T", "}">>, <<"{", "}">>,
   <<"{", "x", ":", "T", ",", "[", "K", "]", ":", "T", ";", "[", "'k'", "]", ":", "U", "}">>,
   <<"(", "T", ")">>, <<"(", "T", ")", "?">>, <<"T", "|", "U", "?", "|", "nil">>, <<"T", "&", "{", "}">>,
   <<"(", ")", "->", "(", ")">>, <<"(", "x", ":", "T", ",", "U", ",", "...", "T", ")", "->", "(", "T", ",", "U", ")">>,
   <<"<", "T", ",", "P", "...", ">", "(", "P", "...", ")", "->", "P", "...">>,
   <<"typeof", "(", "x", ")">>, <<"(", "T", ")", "->", "(", "U", ")", "|", "T">>,
   <<"(", "(", "T", ")", "->", "U", ")", "?">>}
Lists == {<<"(", ")">>, <<"(", "T", ",", "U", ")">>, <<"(", "T", ",", "...", "U", ")">>,
          <<"...", "T">>, <<"P", "...">>, <<"(", "...", "T", "|", "U", ")">>}
Annotated ==
  {<<Let("x", G("x")), "x", <<":">> \o type>> : type \in Types}
  \cup {<<Return(<<Cast(G("a"))>>), "::", type>> : type \in Types}
  \cup {<<TypeAlias, "type", <<"=">> \o type>> : type \in Types}
  \cup {<<Let("x", F("f", <<>>, <<>>)), "returns", <<":">> \o list>> : list \in Types \cup Lists}
  \cup {<<For("x", N(1), N(2), N(1), <<Run(L("x"))>>), "x", <<":", "T">>>>,
         <<ForIn(<<"x", "y">>, <<G("x")>>, <<Run(L("x"))>>), "x", <<":", "{", "y", ":", "T", "}">>>>,
         <<ForIn(<<"x", "y">>, <<G("x")>>, <<Run(L("y"))>>), "y", <<":", "T", "?">>>>,
         <<Let("x", V("f", <<"y">>, <<Return(<<Dots, L("y")>>)>>)), "...", <<":", "T">>>>,
         <<Let("x", V("f", <<>>, <<>>)), "...", <<":", "P", "...">>>>,
         <<Let("x", F("f", <<"y">>, <<Return(<<L("y")>>)>>)), "generics", <<"<", "T", ",", "P", "...", ">">>>>,
         <<Return(<<Binary("^", Cast(G("a")), Unary("-", Cast(Cast(G("b")))))>>), "::", <<"T">>>>,
         <<Let("x", Cast(Paren(Cast(Binary("+", G("a"), Cast(N(1))))))), "::", <<"T", "?">>>>,
         <<TypeAlias, "type", <<"<", "T", ",", "U", "=", "T", ",", "P", "...", "=", "(", "T", ",", "U", ")", ",",
                                "Q", "...", "=", "P", "...", ">", "=", "A", "<", "T", ",", "P", "...", ">">>>>}
TypedTrees == {<<<<a[1]>> \o (IF a[1].s = "return" THEN <<>> ELSE <<Run(G("z"))>>), a[2] :> Spelled(a[3])>> :
                 a \in Annotated}
              \cup {<<<<TypeAlias>>, ("export" :> NameToken("export")) @@ ("type" :> Spelled(<<"=", "T">>))>>}
\* Statements with the types that are damaged.
Torn ==
  {<<<<LocalVar(<<"x", "y">>, <<Cast(G("a"))>>)>>,
     [z \in {"x"} |-> Spelled(<<":", "T", "<", "U", ",", "(", "V", ",", "W", ")", ">">>)]
     @@ ("y" :> Spelled(<<":", "{", "T", "}", "?">>)) @@ ("::" :> Spelled(<<"m", ".", "T", "|", "U">>))>>,
   <<<<Let("x'", V("f", <<"x">>, <<>>))>>,
     ("generics" :> Spelled(<<"<", "T", ",", "P", "...", ">">>))
     @@ ("x" :> Spelled(<<":", "(", "y", ":", "T", ",", "...", "U", ")", "->", "(", "T", ",", "U", ")">>))
     @@ ("..." :> Spelled(<<":", "P", "...">>)) @@ ("returns" :> Spelled(<<":", "(", "T", ")", "|", "U">>))>>,
   <<<<TypeAlias>>,
     "type" :> Spelled(<<"<", "T", "=", "U", ",", "P", "...", "=", "(", "T", ",", "U", ")", ">", "=",
                         "{", "x", ":", "A", "<", "T", ",", "P", "...", ">", "}">>)>>,
   <<<<TypeAlias>>,
     "type" :> Spelled(<<"=", "{", "x", ":", "T", ",", "[", "K", "]", ":", "U", "&", "T", ";",
                         "[", "'k'", "]", ":", "nil", "}">>)>>,
   <<<<TypeAlias>>,
     ("export" :> NameToken("export"))
     @@ ("type" :> Spelled(<<"=", "<", "T", ">", "(", "T", ",", "U", ")", "->", "...", "T">>))>>,
   <<<<ForIn(<<"x">>, <<G("x")>>, <<>>)>>, "x" :> Spelled(<<":", "typeof", "(", "y", ".", "z", ")">>)>>}

TheWritten == {Written(SourceOf(p, short, Primes, Untyped), p) : p \in Trees, short \in BOOLEAN}
TheTyped == {Written(SourceOf(p[1], short, Primes, p[2]), p[1]) : p \in TypedTrees \cup Torn, short \in BOOLEAN}

\* One token lost, the rest lost, one too many, one for another.
Extra == {Word(w) : w \in {"end", "(", ")", "=", ",", "local", "until", "..", "-", "else",
                           "do", "]", "{", "...", "break", ".", ":"}}
         \cup {NameToken("x"), <<<<"function", <<"id", "z">>>>>>}
Between == {Word(w) : w \in {"->", ",", "(", "..."}} \cup {NameToken("x")}
InTypes == {Word(w) : w \in {"->", "?", "|", "&", "<", ">", "::", "...", ":", ",", "(", ")", "{", "}",
                              "[", "]", "=", "nil"}}
           \cup {NameToken("x"), Spelled(<<"'k'">>)}
Tokens(w, line) == [i \in DOMAIN w |-> [t |-> w[i][1], v |-> w[i][2], line |-> line]]
DamagedTexts(text, style, words) ==
  LET before(i) == SubSeq(text, 1, i - 1)
      from(i) == SubSeq(text, i, Len(text))
      positions == 1 .. Len(text)
  IN {<<before(i) \o from(i + 1), i>> : i \in positions}
     \cup {<<before(i), i>> : i \in positions}
     \cup {<<before(i) \o Tokens(w, text[i].line) \o from(IF style THEN i ELSE i + 1), i>> :
             i \in positions, w \in words}
TheDamaged(text, style, words) ==
  {Damaged(d[1], d[2]) : d \in DamagedTexts(text, style, words)}
SyntaxSources ==
  LET texts(short) == {SourceOf(p, short, Primes, Untyped) : p \in Statements}
      typed(short) == {SourceOf(p[1], short, Primes, p[2]) : p \in Torn}
      damaged == {TheDamaged(t, FALSE, Extra) : t \in texts(FALSE)}
                 \cup {TheDamaged(t, TRUE, Extra) : t \in texts(TRUE)}
                 \cup {TheDamaged(t, FALSE, InTypes) : t \in typed(FALSE)}
                 \cup {TheDamaged(t, TRUE, Between) : t \in typed(TRUE)}
  IN damaged \cup {TheWritten, TheTyped}
=============================================================================
