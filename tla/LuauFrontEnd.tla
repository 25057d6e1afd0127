---------------------------- MODULE LuauFrontEnd ----------------------------
(***************************************************************************)
(* From a chunk's text to a tree that is compiled or to the one error that *)
(* is reported for it (Luau::compile in Compiler.cpp).  What is parsed is  *)
(* a tree in one of its written forms, or such a text with one token lost, *)
(* one too many or one for another.                                        *)
(***************************************************************************)
EXTENDS LuauParser, LuauSource

CONSTANTS Sources     \* sets of Written(...) and Damaged(...) texts

\* Trees that differ in parentheses around one value mean the same; around a
\* call or `...` parentheses drop all values but one.
RECURSIVE Bare(_)
BareAll(ns) == [i \in DOMAIN ns |-> Bare(ns[i])]
Bare(n) ==
  IF "s" \in DOMAIN n
  THEN CASE n.s = "block" -> Block(BareAll(n.body))
         [] n.s = "if" -> If(Bare(n.c), BareAll(n.then))
         [] n.s = "ifelse" -> IfThenElse(Bare(n.c), BareAll(n.then), BareAll(n.else))
         [] n.s = "while" -> While(Bare(n.c), BareAll(n.body))
         [] n.s = "repeat" -> Repeat(BareAll(n.body), Bare(n.c))
         [] n.s \in {"break", "continue", "typealias"} -> n
         [] n.s = "return" -> Return(BareAll(n.list))
         [] n.s = "expr" -> Do(Bare(n.a))
         [] n.s = "local" -> LocalVar(n.vars, BareAll(n.values))
         [] n.s = "assign" -> Assign(BareAll(n.vars), BareAll(n.values))
         [] n.s = "compound" -> Compound(n.op, Bare(n.var), Bare(n.value))
         [] n.s = "function" -> FunctionStat(Bare(n.name), Bare(n.f))
         [] n.s = "localfunction" -> LocalFunction(n.x, Bare(n.f))
         [] n.s = "for" -> For(n.x, Bare(n.from), Bare(n.to), Bare(n.step),
                               BareAll(n.body))
         [] n.s = "forin" -> ForIn(n.vars, BareAll(n.values), BareAll(n.body))
  ELSE CASE n.e = "paren" -> LET a == Bare(n.a)
                             IN IF a.e \in {"call", "dots"} THEN Paren(a) ELSE a
         [] n.e = "cast" -> Cast(Bare(n.a))
         [] n.e = "call" -> [n EXCEPT !.f = Bare(@), !.args = BareAll(@)]
         [] n.e = "index" -> [n EXCEPT !.t = Bare(@), !.i = Bare(@)]
         [] n.e = "function" -> [n EXCEPT !.body = BareAll(@)]
         [] n.e = "table" -> Table([i \in DOMAIN n.items |->
                                      [k |-> Bare(n.items[i].k),
                                       v |-> Bare(n.items[i].v)]])
         [] n.e = "unary" -> Unary(n.op, Bare(n.a))
         [] n.e = "binary" -> Binary(n.op, Bare(n.l), Bare(n.r))
         [] n.e = "ifelse" -> IfElse(Bare(n.c), Bare(n.a), Bare(n.b))
         [] OTHER -> n

ParseResult(text, tree, at) ==
  LET r == Parse(text)
  IN [text |-> text, at |-> at, meant |-> BareAll(tree),
      root |-> IF r.s.errors = <<>> THEN BareAll(r.n) ELSE <<>>,
      errors |-> r.s.errors, state |-> [r.s EXCEPT !.text = <<>>],
      grammatical |-> Grammatical(text)]
\* at: the place of the damage, 0 where there is none.
Written(text, tree) == ParseResult(text, tree, 0)
Damaged(text, at) == ParseResult(text, <<>>, at)

-----------------------------------------------------------------------------
VARIABLES
  source,      \* one of them: a text and what the parser makes of it
  outcome      \* "parsed", then <<"tree", root>> or <<"error", location>>
vars == <<source, outcome>>

Init == (\E texts \in Sources : source \in texts) /\ outcome = <<"parsed">>
CompileTree ==
  /\ outcome = <<"parsed">> /\ source.errors = <<>>
  /\ outcome' = <<"tree", source.root>> /\ UNCHANGED source
\* Users of compile expect one error: it is the first.
ReportFirstError ==
  /\ outcome = <<"parsed">> /\ source.errors # <<>>
  /\ outcome' = <<"error", Head(source.errors)>> /\ UNCHANGED source
Next == CompileTree \/ ReportFirstError
Spec == Init /\ [][Next]_vars

-----------------------------------------------------------------------------
(* Properties *)

\* A parser ends at the end of its text or where it gave up, with no
\* more errors than the limit, and one more for giving up.
TypeOK ==
  /\ outcome[1] \in {"parsed", "tree", "error"}
  /\ Len(source.errors) <= ErrorLimit + 1
  /\ source.state.i \in 1 .. Len(source.text) + 1
  /\ source.state.thrown => source.errors # <<>>

\* What is written is what is compiled: operators bind as strongly as the
\* manual says, every name is the local that is in scope where it stands.
ParsesBack ==
  source.at = 0 /\ outcome[1] = "tree" => outcome[2] = source.meant

\* A chunk is compiled exactly if the grammar derives it, but for one that is
\* nested too deep; recovery from an error never turns into acceptance.
CompilesExactlyTheGrammar ==
  outcome[1] = "tree" <=> outcome[1] # "parsed" /\ source.grammatical
                          /\ ~source.state.thrown

\* Whatever it met, a parser that did not give up has left every scope,
\* function and loop it entered, and undone what it expects after an error.
ScopesAreLeft ==
  LET s == source.state
  IN ~s.thrown =>
       /\ s.stack = <<>> /\ \A x \in DOMAIN s.map : s.map[x] = NoLocal
       /\ s.fns = <<[vararg |-> TRUE, loop |-> 0]>> /\ s.rec = 0
       /\ \A t \in DOMAIN s.stop : s.stop[t] = 0

\* The error that is reported ends no earlier than the token before the damage.
ReportsTheDamage ==
  outcome[1] = "error" /\ source.at > 0 => outcome[2][2] >= 2 * (source.at - 1)
=============================================================================
