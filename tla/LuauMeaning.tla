----------------------------- MODULE LuauMeaning -----------------------------
(***************************************************************************)
(* What a Luau chunk means: an evaluator of its tree over a store of       *)
(* variables, tables and functions, with no registers, no constants and no *)
(* inlining.  Every declaration makes a new variable; an expression is     *)
(* evaluated from left to right.  The store s is                           *)
(*   cells  the variables' values        fns    the functions made         *)
(*   tables, globals                     log    what emit was given        *)
(*   err    an error was raised: nothing is recorded from then on          *)
(***************************************************************************)
EXTENDS LuauAst, SequencesExt

MaxArray == 8
EmptyTable == [k \in {} |-> Nil]
Field(t, k) == IF k \in DOMAIN t THEN t[k] ELSE Nil
WithField(t, k, v) ==
  IF v = Nil THEN [j \in DOMAIN t \ {k} |-> t[j]] ELSE (k :> v) @@ t

\* What the host gives a chunk.
HostTables == <<(Str(<<"n">>) :> Num(7))>>
HostGlobals == [emit |-> <<"native">>, lib |-> <<"table", 1>>]
HostGlobal(n) == IF n \in DOMAIN HostGlobals THEN HostGlobals[n] ELSE Nil
\* Functions and tables are recorded as such.
Shown(v) == IF v[1] \in {"fn", "native", "table"} THEN <<v[1]>> ELSE v

First(vs) == IF vs = <<>> THEN Nil ELSE vs[1]
Adjusted(vs, n) == [i \in 1 .. n |-> IF i <= Len(vs) THEN vs[i] ELSE Nil]
Raise(s) == [s EXCEPT !.err = TRUE]
\* Scope: the cell of each local, and the variable arguments.
Declare(env, s, xs, vs) ==
  LET n == Len(s.cells)
  IN [env |-> [env EXCEPT !.at = [x \in ToSet(xs) |-> n + (CHOOSE i \in DOMAIN xs :
                                                            xs[i] = x)] @@ @],
      s |-> [s EXCEPT !.cells = @ \o Adjusted(vs, Len(xs))]]

RECURSIVE Ev(_, _, _), EvList(_, _, _), Apply(_, _, _), Exec(_, _, _)
Ev1(n, env, s) == LET r == Ev(n, env, s) IN [v |-> First(r.vs), s |-> r.s]
Value(v, s) == [vs |-> <<v>>, s |-> s]

\* The last expression of a list gives all its values.
EvList(ns, env, s) ==
  IF ns = <<>> THEN [vs |-> <<>>, s |-> s]
  ELSE LET one == Ev(Head(ns), env, s)
           rest == EvList(Tail(ns), env, one.s)
       IN IF Len(ns) = 1 THEN one
          ELSE [vs |-> <<First(one.vs)>> \o rest.vs, s |-> rest.s]

Get(t, k, s) == IF t[1] = "table" THEN Value(Field(s.tables[t[2]], k), s)
                ELSE Value(Nil, Raise(s))
Put(t, k, v, s) ==
  IF t[1] = "table" /\ k # Nil
  THEN [s EXCEPT !.tables[t[2]] = WithField(@, k, v)] ELSE Raise(s)

RECURSIVE EvItems(_, _, _, _, _, _)
\* The next list item gets the key j.
EvItems(items, i, j, t, env, s) ==
  IF i > Len(items) THEN s
  ELSE LET n == items[i]
           k == Ev1(n.k, env, s)
           v == Ev1(n.v, env, k.s)
           vs == Ev(n.v, env, s)
           listed == IF i = Len(items) THEN vs.vs ELSE <<First(vs.vs)>>
       IN IF n.k # NoKey
          THEN EvItems(items, i + 1, j, t, env, Put(t, k.v, v.v, v.s))
          ELSE EvItems(items, i + 1, j + Len(listed), t, env,
                 [vs.s EXCEPT !.tables[t[2]] =
                    FoldLeft(LAMBDA u, m : WithField(u, Num(j + m - 1), listed[m]),
                             @, [m \in DOMAIN listed |-> m])])

Ev(n, env, s) ==
  CASE n.e = "const" -> Value(n.v, s)
    [] n.e = "local" -> Value(s.cells[env.at[n.x]], s)
    [] n.e = "global" -> Value(IF n.n \in DOMAIN s.globals THEN s.globals[n.n]
                               ELSE Nil, s)
    [] n.e = "dots" -> [vs |-> env.dots, s |-> s]
    [] n.e \in {"paren", "cast"} -> LET r == Ev1(n.a, env, s) IN Value(r.v, r.s)
    [] n.e = "index" ->
         LET t == Ev1(n.t, env, s)  k == Ev1(n.i, env, t.s) IN Get(t.v, k.v, k.s)
    [] n.e = "call" /\ n.self ->
         LET t == Ev1(n.f.t, env, s)  args == EvList(n.args, env, t.s)
             f == Get(t.v, n.f.i.v, args.s)
         IN Apply(First(f.vs), <<t.v>> \o args.vs, f.s)
    [] n.e = "call" /\ ~n.self ->
         LET f == Ev1(n.f, env, s)  args == EvList(n.args, env, f.s)
         IN Apply(f.v, args.vs, args.s)
    [] n.e = "function" ->
         Value(<<"fn", Len(s.fns) + 1>>,
               [s EXCEPT !.fns = Append(@, [f |-> n, env |-> env])])
    [] n.e = "table" ->
         LET t == <<"table", Len(s.tables) + 1>>
         IN Value(t, EvItems(n.items, 1, 1, t, env,
                             [s EXCEPT !.tables = Append(@, EmptyTable)]))
    [] n.e = "unary" ->
         LET a == Ev1(n.a, env, s)
             v == UnaryValue(n.op, a.v)
         IN IF v = Failed THEN Value(Nil, Raise(a.s)) ELSE Value(v, a.s)
    [] n.e = "binary" /\ n.op \in {"and", "or"} ->
         LET l == Ev1(n.l, env, s)
             r == Ev1(n.r, env, l.s)
         IN IF Truthy(l.v) = (n.op = "and") THEN Value(r.v, r.s) ELSE Value(l.v, l.s)
    [] n.e = "binary" /\ n.op \notin {"and", "or"} ->
         LET l == Ev1(n.l, env, s)
             r == Ev1(n.r, env, l.s)
             v == BinaryValue(n.op, l.v, r.v)
         IN IF v = Failed THEN Value(Nil, Raise(r.s)) ELSE Value(v, r.s)
    [] n.e = "ifelse" ->
         LET c == Ev1(n.c, env, s)
             r == Ev1(IF Truthy(c.v) THEN n.a ELSE n.b, env, c.s)
         IN Value(r.v, r.s)

Apply(f, args, s) ==
  CASE s.err -> [vs |-> <<>>, s |-> s]
    [] ~s.err /\ f[1] = "native" ->
         [vs |-> args,
          s |-> [s EXCEPT !.log = Append(@, [i \in DOMAIN args |-> Shown(args[i])])]]
    [] ~s.err /\ f[1] = "fn" ->
         LET c == s.fns[f[2]]
             k == Len(c.f.params)
             d == Declare([c.env EXCEPT !.dots = SubSeq(args, k + 1, Len(args))],
                          s, c.f.params, args)
             r == Exec(c.f.body, d.env, d.s)
         IN [vs |-> IF r.go = "return" THEN r.vs ELSE <<>>, s |-> r.s]
    [] OTHER -> [vs |-> <<>>, s |-> Raise(s)]

\* Statements end with go: "next", "break", "continue" or "return".
Done(go, vs, env, s) == [go |-> go, vs |-> vs, env |-> env, s |-> s]

RECURSIVE Loop(_, _, _), CountedLoop(_, _, _, _, _, _), IteratorLoop(_, _, _, _, _),
          EvTargets(_, _, _), PutAll(_, _, _, _)
\* while, and repeat after its first round.
Loop(n, env, s) ==
  LET c == Ev1(n.c, env, s)
      b == Exec(n.body, env, IF n.s = "while" THEN c.s ELSE s)
      u == Ev1(n.c, b.env, b.s)
      leaves == b.go \in {"break", "return"}
      after == IF b.go = "return" THEN Done("return", b.vs, env, b.s)
               ELSE Done("next", <<>>, env, b.s)
  IN IF n.s = "while"
     THEN IF ~Truthy(c.v) \/ c.s.err THEN Done("next", <<>>, env, c.s)
          ELSE IF leaves THEN after ELSE Loop(n, env, b.s)
     ELSE IF leaves THEN after
          ELSE IF Truthy(u.v) \/ u.s.err THEN Done("next", <<>>, env, u.s)
          ELSE Loop(n, env, u.s)
CountedLoop(n, i, limit, step, env, s) ==
  LET d == Declare(env, s, <<n.x>>, <<Num(i)>>)
      b == Exec(n.body, d.env, d.s)
  IN IF s.err \/ ~(IF step > 0 THEN i <= limit ELSE limit <= i)
     THEN Done("next", <<>>, env, s)
     ELSE CASE b.go = "return" -> Done("return", b.vs, env, b.s)
            [] b.go = "break" -> Done("next", <<>>, env, b.s)
            [] OTHER -> CountedLoop(n, i + step, limit, step, env, b.s)
IteratorLoop(n, f, control, env, s) ==
  LET i == Least({i \in 1 .. MaxArray + 1 :
                    i = MaxArray + 1 \/ (i > control
                                         /\ Num(i) \in DOMAIN s.tables[f[1][2]])})
      walk == f[1][1] = "table"
      r == IF ~walk THEN Apply(f[1], <<f[2], control>>, s)
           ELSE IF i > MaxArray THEN [vs |-> <<>>, s |-> s]
           ELSE [vs |-> <<Num(i), s.tables[f[1][2]][Num(i)]>>, s |-> s]
      d == Declare(env, r.s, n.vars, r.vs)
      b == Exec(n.body, d.env, d.s)
  IN IF s.err \/ First(r.vs) = Nil THEN Done("next", <<>>, env, r.s)
     ELSE CASE b.go = "return" -> Done("return", b.vs, env, b.s)
            [] b.go = "break" -> Done("next", <<>>, env, b.s)
            [] OTHER -> IteratorLoop(n, f, IF walk THEN i ELSE First(r.vs), env, b.s)

\* The variables of an assignment, their tables and keys evaluated.
EvTargets(ns, env, s) ==
  IF ns = <<>> THEN [ts |-> <<>>, s |-> s]
  ELSE LET n == Head(ns)
           t == Ev1(n.t, env, s)
           k == Ev1(n.i, env, t.s)
           own == IF n.e = "index" THEN [t |-> <<"field", t.v, k.v>>, s |-> k.s]
                  ELSE [t |-> <<n.e, IF n.e = "local" THEN env.at[n.x] ELSE n.n>>,
                        s |-> s]
           rest == EvTargets(Tail(ns), env, own.s)
       IN [ts |-> <<own.t>> \o rest.ts, s |-> rest.s]
PutAll(ts, vs, i, s) ==
  IF i > Len(ts) THEN s
  ELSE LET t == ts[i]
           v == IF i <= Len(vs) THEN vs[i] ELSE Nil
       IN PutAll(ts, vs, i + 1,
            CASE t[1] = "field" -> Put(t[2], t[3], v, s)
              [] t[1] = "local" -> [s EXCEPT !.cells[t[2]] = v]
              [] t[1] = "global" -> [s EXCEPT !.globals = (t[2] :> v) @@ @])

ExecOne(n, env, s) ==
  LET next(r) == Done("next", <<>>, env, r)
      inner(b) == [Exec(b, env, s) EXCEPT !.env = env]
  IN CASE n.s = "block" -> inner(n.body)
       [] n.s \in {"if", "ifelse"} ->
            LET c == Ev1(n.c, env, s)
                body == IF Truthy(c.v) THEN n.then
                        ELSE IF n.s = "ifelse" THEN n.else ELSE <<>>
            IN [Exec(body, env, c.s) EXCEPT !.env = env]
       [] n.s \in {"while", "repeat"} -> Loop(n, env, s)
       [] n.s \in {"break", "continue"} -> Done(n.s, <<>>, env, s)
       [] n.s = "typealias" -> next(s)
       [] n.s = "return" -> LET r == EvList(n.list, env, s)
                            IN Done("return", r.vs, env, r.s)
       [] n.s = "expr" -> next(Ev(n.a, env, s).s)
       [] n.s = "local" ->
            LET r == EvList(n.values, env, s)
                d == Declare(env, r.s, n.vars, r.vs)
            IN Done("next", <<>>, d.env, d.s)
       [] n.s = "function" ->
            LET f == Ev1(n.f, env, s)
                t == EvTargets(<<n.name>>, env, f.s)
            IN next(IF t.s.err THEN t.s ELSE PutAll(t.ts, <<f.v>>, 1, t.s))
       [] n.s = "localfunction" ->
            LET d == Declare(env, s, <<n.x>>, <<Nil>>)
                f == Ev1(n.f, d.env, d.s)
            IN Done("next", <<>>, d.env,
                    [f.s EXCEPT !.cells[d.env.at[n.x]] = f.v])
       [] n.s = "for" ->
            LET a == Ev1(n.from, env, s)
                b == Ev1(n.to, env, a.s)
                c == Ev1(n.step, env, b.s)
            IN IF IsNum(a.v) /\ IsNum(b.v) /\ IsNum(c.v)
               THEN CountedLoop(n, a.v[2], b.v[2], c.v[2], env, c.s)
               ELSE next(Raise(c.s))
       [] n.s = "forin" ->
            LET r == EvList(n.values, env, s)
                f == Adjusted(r.vs, 3)
            IN IF f[1][1] \in {"fn", "native", "table"}
               THEN IteratorLoop(n, f, IF f[1][1] = "table" THEN 0 ELSE f[3],
                                 env, r.s)
               ELSE next(Raise(r.s))
       [] n.s = "assign" ->
            LET ts == EvTargets(n.vars, env, s)
                vs == EvList(n.values, env, ts.s)
            IN next(IF vs.s.err THEN vs.s ELSE PutAll(ts.ts, vs.vs, 1, vs.s))
       [] n.s = "compound" ->
            LET t == EvTargets(<<n.var>>, env, s)
                old == Ev1(n.var, env, s)
                v == Ev1(n.value, env, old.s)
                r == BinaryValue(n.op, old.v, v.v)
            IN next(IF r = Failed THEN Raise(v.s) ELSE PutAll(t.ts, <<r>>, 1, v.s))
Exec(ns, env, s) ==
  IF ns = <<>> \/ s.err THEN Done("next", <<>>, env, s)
  ELSE LET r == ExecOne(Head(ns), env, s)
       IN IF r.go = "next" THEN Exec(Tail(ns), r.env, r.s) ELSE r

Meaning(root) ==
  LET r == Exec(root, [at |-> [x \in {} |-> 0], dots |-> <<>>],
                [cells |-> <<>>, fns |-> <<>>, tables |-> HostTables,
                 globals |-> HostGlobals, log |-> <<>>, err |-> FALSE])
  IN [log |-> r.s.log, outcome |-> IF r.s.err THEN "error" ELSE "returned"]
=============================================================================
