----------------------------- MODULE LuauParser -----------------------------
(***************************************************************************)
(* The recursive descent parser (Parser.cpp) over the tokens of a chunk:   *)
(* operator precedence, the scopes that names are resolved in, error       *)
(* recovery, the limits on recursion and on errors, types.  A token is     *)
(* [t |-> type, v |-> value, line |-> line]; the value of `function` is an *)
(* id for the AstExprFunction made there.  Types are read and dropped, as  *)
(* the compiler does.  Comments, declarations (allowDeclarationSyntax is   *)
(* off) and the tokens that are mistaken for operators (&&, ||, !) are not *)
(* part of this module.                                                    *)
(*                                                                         *)
(* A parser state is passed along and returned with the node: [s, n, loc]. *)
(* After a thrown error it is at the end of the text, where every loop     *)
(* ends; what it has built by then is dropped.                             *)
(***************************************************************************)
EXTENDS LuauAst, SequencesExt

CONSTANTS RecursionLimit, ErrorLimit

Eof == "eof"
Reserved == {"and", "break", "do", "else", "elseif", "end", "false", "for",
             "function", "if", "in", "local", "nil", "not", "or", "repeat",
             "return", "then", "true", "until", "while"}
ErrorName == "%error-id%"
ErrorExpr == [e |-> "error"]
ErrorStat == [s |-> "error"]

-----------------------------------------------------------------------------
(* Tokens, locations and errors *)

At(s) == IF s.i > Len(s.text) THEN Eof ELSE s.text[s.i].t
Ahead(s) == IF s.i >= Len(s.text) THEN Eof ELSE s.text[s.i + 1].t
Advance(s) == IF s.i > Len(s.text) THEN s ELSE [s EXCEPT !.i = @ + 1]
Value(s) == s.text[s.i].v[2]

\* Locations are [begin, end]; token i is from 2 * i to 2 * i + 1.
Begin(s) == 2 * s.i
End(s) == 2 * s.i + 1
Here(s) == <<Begin(s), End(s)>>
LineAt(s, edge) ==
  LET i == edge \div 2
  IN IF i = 0 \/ s.text = <<>> THEN 0
     ELSE IF i > Len(s.text) THEN Last(s.text).line ELSE s.text[i].line
Line(s) == LineAt(s, Begin(s))
PreviousEnd(s) == 2 * (s.i - 1) + 1

\* ParseError::raise; Parser::parse adds the error to those found before.
Throw(s, loc) ==
  IF s.thrown THEN s
  ELSE [s EXCEPT !.thrown = TRUE, !.errors = Append(@, loc),
                 !.i = Len(s.text) + 1]
\* Mutant: errors are not counted.
ReportUncounted(s, loc) ==
  IF s.thrown \/ (s.errors # <<>> /\ Last(s.errors) = loc) THEN s
  ELSE [s EXCEPT !.errors = Append(@, loc)]
Report(s, loc) ==
  IF s.thrown \/ (s.errors # <<>> /\ Last(s.errors) = loc) THEN s
  ELSE IF ErrorLimit = 1 THEN Throw(s, loc)
  ELSE LET t == [s EXCEPT !.errors = Append(@, loc)]
       IN IF Len(t.errors) >= ErrorLimit THEN Throw(t, loc) ELSE t
\* incrementRecursionCounter
Deeper(s) ==
  LET t == [s EXCEPT !.rec = @ + 1]
  IN IF t.rec > RecursionLimit THEN Throw(t, Here(s)) ELSE t

R(s, n, loc) == [s |-> s, n |-> n, loc |-> loc]
Restored(r, rec) == [r EXCEPT !.s.rec = rec]

\* expectAndConsume: an extra token before the expected one is skipped.
\* Mutant: silently.
ExpectSilently(s, type) ==
  IF At(s) = type THEN Advance(s)
  ELSE IF Ahead(s) = type THEN Advance(Advance(s)) ELSE Report(s, Here(s))
Expect(s, type) ==
  LET t == Report(s, Here(s))
  IN IF At(s) = type THEN Advance(s)
     ELSE IF Ahead(t) = type THEN Advance(Advance(t)) ELSE t

\* expectMatchAndConsume, which may look for the token up to the line's end.
StopsRecovery(s, type) == type = Eof \/ (type \in DOMAIN s.stop /\ s.stop[type] > 0)
RECURSIVE SearchFor(_, _, _)
SearchFor(s, type, line) ==
  IF Line(s) = line /\ At(s) # type /\ ~StopsRecovery(s, At(s))
  THEN SearchFor(Advance(s), type, line) ELSE s
ExpectMatch(s, type) == Expect(s, type)
ExpectMatchOnLine(s, type) ==
  LET t == SearchFor(Report(s, Here(s)), type, LineAt(s, PreviousEnd(s)))
  IN IF At(s) = type THEN Advance(s)
     ELSE IF At(t) = type THEN Advance(t) ELSE t
StopOn(s, type, d) == [s EXCEPT !.stop[type] = @ + d]

-----------------------------------------------------------------------------
(* Names and scopes: localMap has the innermost local of a name, the stack *)
(* the locals in scope with the local each one shadows.                    *)

NoLocal == ""
Named(s, name) == IF name \in DOMAIN s.map THEN s.map[name] ELSE NoLocal
PushLocal(s, name) ==
  LET x == IF name \in DOMAIN s.made THEN s.made[name] \o "'" ELSE name
  IN [s EXCEPT !.map = (name :> x) @@ @, !.made = (name :> x) @@ @,
               !.stack = Append(@, [name |-> name, x |-> x,
                                    shadow |-> Named(s, name)])]
PushAll(s, names) == FoldLeft(PushLocal, s, names)
\* The locals just pushed, by the names they got.
Pushed(s, k) == [i \in 1 .. k |-> s.stack[Len(s.stack) - k + i].x]
\* Mutant: what a local shadows is forgotten.
RestoreLocalsForgets(s, offset) ==
  [s EXCEPT !.stack = SubSeq(@, 1, offset),
            !.map = [name \in DOMAIN @ |->
                       IF \E i \in offset + 1 .. Len(s.stack) :
                            s.stack[i].name = name
                       THEN NoLocal ELSE @[name]]]
\* Mutant: the oldest of the locals first.
RestoreLocalsInOrder(s, offset) ==
  [s EXCEPT !.stack = SubSeq(@, 1, offset),
            !.map = FoldLeft(LAMBDA map, l : (l.name :> l.shadow) @@ map, @,
                             SubSeq(s.stack, offset + 1, Len(s.stack)))]
RestoreLocals(s, offset) ==
  [s EXCEPT !.stack = SubSeq(@, 1, offset),
            !.map = FoldRight(LAMBDA l, map : (l.name :> l.shadow) @@ map,
                              SubSeq(s.stack, offset + 1, Len(s.stack)), @)]
LocalsBegin(s) == Len(s.stack)

\* parseNameOpt and parseName; parseIndexName takes a keyword on the same line
\* for a name that is not finished.
ParseName(s) ==
  IF At(s) = "Name" THEN R(Advance(s), Value(s), Here(s))
  ELSE R(Report(s, Here(s)), ErrorName, <<Begin(s), Begin(s)>>)
ParseIndexName(s, line) ==
  LET r == ParseName(s)
  IN IF At(s) # "Name" /\ At(r.s) \in Reserved /\ Line(r.s) = line
     THEN R(Advance(r.s), At(r.s), Here(s)) ELSE r
ParseNameExpr(s) ==
  IF At(s) # "Name" THEN R(Report(s, Here(s)), ErrorExpr, Here(s))
  ELSE R(Advance(s), IF Named(s, Value(s)) = NoLocal THEN Global(Value(s))
                     ELSE Local(Named(s, Value(s))), Here(s))

-----------------------------------------------------------------------------
(* Types.  What is left of one is where it is, and in r.n whether it was a *)
(* pack.  The recursion counter is not always put back: a row of types     *)
(* counts until the end of the expression or statement it is in.           *)

IsPack(s) == At(s) = "..." \/ (At(s) = "Name" /\ Ahead(s) = "...")
Type(s, loc) == R(s, "type", loc)
Pack(s, loc) == R(s, "pack", loc)
\* From s to the `}` that belongs at t, or to the token before what is there.
Braced(s, t, n) ==
  LET close == ExpectMatch(t, "}")
      matched == At(t) = "}" \/ close.i = t.i + 2
  IN R(close, n, <<Begin(s), IF matched THEN End(t) ELSE PreviousEnd(close)>>)

RECURSIVE ParseExpr(_, _), ParseSimpleType(_, _), TypeParts(_), ParseTypeList(_),
          ParseReturnType(_), TypeFields(_, _, _), TypeParams(_, _),
          GenericTypes(_, _, _, _)

\* parseTypeAnnotation(parts, begin): the operators after a type, those met.
TypeParts(r) ==
  LET op == At(r.s)
      next == ParseSimpleType(Advance(r.s), FALSE)
  IN CASE op \in {"|", "&"} -> TypeParts(R(next.s, r.n \cup {op}, next.loc))
       [] op = "?" -> TypeParts(R(Advance(r.s), r.n \cup {"|"}, Here(r.s)))
       [] op = "..." -> TypeParts([r EXCEPT !.s = Advance(Report(@, Here(@)))])
       [] OTHER -> r
AfterType(r, begin) ==
  LET parts == TypeParts(R(Deeper(r.s), {}, r.loc))
      all == <<begin, parts.loc[2]>>
  IN CASE parts.n = {} -> Type(parts.s, parts.loc)
       [] Cardinality(parts.n) = 1 -> Type(parts.s, all)
       [] OTHER -> Type(Report(parts.s, all), all)
ParseType(s) ==
  LET first == ParseSimpleType(Deeper(s), FALSE)
  IN AfterType(Restored(first, s.rec), Begin(s))
ParseTypeOrPack(s) ==
  LET first == ParseSimpleType(Deeper(s), TRUE)
  IN IF first.n = "pack" THEN first
     ELSE AfterType(Restored(first, s.rec), Begin(s))
\* `...T` or `a...`; of an argument's `...`, `T` or `a...`.
GenericPack(s) == Pack(Advance(Advance(s)), <<Begin(s), End(Advance(s))>>)
ParseTypePack(s) ==
  LET r == ParseType(Advance(s))
  IN IF At(s) = "..." THEN Pack(r.s, <<Begin(s), r.loc[2]>>) ELSE GenericPack(s)
ParseVariadic(s) ==
  IF At(s) = "Name" /\ Ahead(s) = "..." THEN GenericPack(s).s ELSE ParseType(s).s

\* The types of a list l, whether some are named, whether a pack ends it.
ParseTypeList(l) ==
  LET s == l.s
      named == At(s) = "Name" /\ Ahead(s) = ":"
      type == ParseType(IF named THEN Advance(Advance(s)) ELSE s)
      all == [l EXCEPT !.s = type.s, !.types = Append(@, type), !.named = @ \/ named]
  IN IF IsPack(s) THEN [l EXCEPT !.s = ParseTypePack(s).s, !.tail = TRUE]
     ELSE IF At(type.s) = "," THEN ParseTypeList([all EXCEPT !.s = Advance(@)])
     ELSE all
\* Between parentheses; `->` is a token to stop at for a recovery here.
ParenTypes(s) ==
  LET none == [s |-> StopOn(s, "->", 1), types |-> <<>>, named |-> FALSE, tail |-> FALSE]
      list == IF At(s) = ")" THEN none ELSE ParseTypeList(none)
      close == ExpectMatchOnLine(list.s, ")")
  IN [list EXCEPT !.s = StopOn(close, "->", -1)] @@ [end |-> End(list.s)]

\* After the parameters of a function type, which began at begin; without
\* any, () might have been meant for nil.
FunctionTypeTail(outer, begin, unit) ==
  LET s == Deeper(outer)
      result == ParseReturnType(IF At(s) = ":" THEN Advance(Report(s, Here(s)))
                                ELSE Expect(s, "->"))
  IN IF unit /\ At(s) \notin {":", "->"}
     THEN Type(Report(s, <<begin[1], PreviousEnd(s)>>), begin)
     ELSE Type(result.s, <<begin[1], result.loc[2]>>)
\* A list of one type may be the start of a longer type.
ParseReturnType(outer) ==
  LET s == Deeper(outer)
      list == ParenTypes(Advance(s))
      function == FunctionTypeTail(list.s, Here(s), list.types = <<>>)
      one == AfterType([Head(list.types) EXCEPT !.s = list.s], Begin(Advance(s)))
  IN IF At(s) # "(" THEN IF IsPack(s) THEN ParseTypePack(s) ELSE ParseType(s)
     ELSE IF At(list.s) = "->" \/ list.named THEN function
     ELSE IF Len(list.types) = 1 THEN Type(one.s, <<Begin(s), one.loc[2]>>)
     ELSE Type(list.s, <<Begin(s), list.end>>)
OptionalReturnType(s) ==
  LET t == Advance(IF At(s) = "->" THEN Report(s, Here(s)) ELSE s)
      r == ParseReturnType(t).s
      u == IF At(r) = "," THEN Advance(Report(r, Here(r))) ELSE r
  IN IF At(s) \in {":", "->"} THEN [u EXCEPT !.rec = t.rec] ELSE s
OptionalType(s) == IF At(s) = ":" THEN ParseType(Advance(s)).s ELSE s

\* parseGenericTypeList: names before packs, defaults once there is one.
DefaultPack(s) ==
  LET r == ParseTypeOrPack(s)
  IN CASE IsPack(s) -> ParseTypePack(s).s
       [] At(s) = "(" -> IF r.n = "pack" THEN r.s
                         ELSE Report(r.s, <<Begin(s), PreviousEnd(r.s)>>)
       [] OTHER -> s
GenericTypes(s, defaults, packs, defaulted) ==
  LET name == ParseName(s).s
      pack == packs \/ At(name) = "..."
      t == CASE At(name) = "..." -> Advance(name)
             [] At(name) # "..." /\ pack -> Report(name, Here(name))
             [] OTHER -> name
      default == defaults /\ At(t) = "="
      u == IF default
           THEN IF pack THEN DefaultPack(Advance(t)) ELSE ParseType(Advance(t)).s
           ELSE IF defaulted THEN Report(t, Here(t)) ELSE t
  IN IF At(u) = "," THEN GenericTypes(Advance(u), defaults, pack, defaulted \/ default)
     ELSE u
ParseGenerics(s, defaults) ==
  IF At(s) = "<" THEN ExpectMatch(GenericTypes(Advance(s), defaults, FALSE, FALSE), ">")
  ELSE s
\* parseTypeParams; only the first may be missing.
TypeParams(s, first) ==
  LET t == IF IsPack(s) THEN ParseTypePack(s).s
           ELSE IF At(s) = "(" THEN ParseTypeOrPack(s).s ELSE ParseType(s).s
  IN IF first /\ At(s) = ">" THEN s
     ELSE IF At(t) = "," THEN TypeParams(Advance(t), FALSE) ELSE t

\* One pair of parentheses, or a function type; a list where a pack may be.
ParseFunctionType(outer, allowPack) ==
  LET s == Deeper(outer)
      list == ParenTypes(Expect(ParseGenerics(s, FALSE), "("))
      generic == At(s) = "<"
      grouped == ~generic /\ At(list.s) \notin {"->", ":"}
  IN IF grouped /\ allowPack THEN Pack(list.s, Here(s))
     ELSE IF grouped /\ Len(list.types) = 1 /\ ~list.tail
     THEN Type(list.s, Head(list.types).loc)
     ELSE FunctionTypeTail(list.s, Here(s), ~generic /\ list.types = <<>>)

ParseTableIndexer(s) ==
  LET key == ParseType(Advance(s))
      value == ParseType(Expect(ExpectMatch(key.s, "]"), ":"))
  IN Type(value.s, <<Begin(s), value.loc[2]>>)
\* The fields of a table type: `["name"]: T`, one `[K]: T`, `name: T`; or
\* just T, for an array.
TypeFields(s, first, indexed) ==
  LET text == At(s) = "[" /\ Ahead(s) = "String"
      array == first /\ At(s) # "[" /\ ~(At(s) = "Name" /\ Ahead(s) = ":")
      indexer == ParseTableIndexer(s)
      key == IF text THEN ExpectMatch(Advance(Advance(s)), "]") ELSE ParseName(s).s
      nameless == ~array /\ At(s) \notin {"[", "Name"}
      t == CASE array -> ParseType(s).s
             [] nameless -> key
             [] At(s) = "[" /\ ~text ->
                  IF indexed THEN Report(indexer.s, indexer.loc) ELSE indexer.s
             [] OTHER -> ParseType(Expect(key, ":")).s
  IN IF At(s) = "}" THEN s
     ELSE IF ~array /\ ~nameless /\ At(t) \in {",", ";"}
     THEN TypeFields(Advance(t), FALSE, indexed \/ (At(s) = "[" /\ ~text))
     ELSE t
ParseTableType(outer) ==
  LET s == Deeper(outer)
  IN Braced(s, TypeFields(Expect(s, "{"), TRUE, FALSE), "type")

\* Name, prefix.Name, either with parameters, or typeof(exp).
ParseTypeName(s) ==
  LET t == Advance(s)
      name == CASE At(t) = "." -> ParseIndexName(Advance(t), Line(t)).s
                [] At(t) = "..." -> Advance(Report(t, Here(t)))
                [] OTHER -> t
      end == IF At(name) = "<"
             THEN ExpectMatch(TypeParams(Advance(name), TRUE), ">") ELSE name
      e == ParseExpr(Expect(t, "("), 0)
  IN IF Value(s) = "typeof" /\ At(t) \notin {".", "..."}
     THEN Type(ExpectMatch(e.s, ")"), <<Begin(s), End(e.s)>>)
     ELSE Type(end, <<Begin(s), PreviousEnd(end)>>)
ParseSimpleType(outer, allowPack) ==
  LET s == Deeper(outer)
      gap == <<PreviousEnd(s), Begin(s)>>
  IN CASE At(s) \in {"nil", "true", "false", "String"} -> Type(Advance(s), Here(s))
       [] At(s) = "BrokenString" -> Type(Report(Advance(s), Here(s)), Here(s))
       [] At(s) = "Name" -> ParseTypeName(s)
       [] At(s) = "{" -> ParseTableType(s)
       [] At(s) \in {"(", "<"} -> ParseFunctionType(s, allowPack)
       [] OTHER -> Type(Report(s, gap), gap)

\* parseBinding, and parseBindingList: the names, and whether `...` ends them.
ParseBinding(s) == LET r == ParseName(s) IN [r EXCEPT !.s = OptionalType(@)]
RECURSIVE ParseBindings(_, _, _)
ParseBindings(s, names, allowDot3) ==
  LET r == ParseBinding(s)
      dots == Advance(s)
      all == Append(names, r.n)
  IN IF At(s) = "..." /\ allowDot3
     THEN [s |-> IF At(dots) = ":" THEN ParseVariadic(Advance(dots)) ELSE dots,
           n |-> names, dots |-> TRUE]
     ELSE IF At(r.s) = "," THEN ParseBindings(Advance(r.s), all, allowDot3)
     ELSE [s |-> r.s, n |-> all, dots |-> FALSE]

-----------------------------------------------------------------------------
(* Expressions *)

UnaryOps == {"not", "-", "#"}
\* binaryPriority: [left, right]
Priority ==
  [op \in {"+", "-"} |-> <<6, 6>>] @@ [op \in {"*", "/", "%"} |-> <<7, 7>>]
  @@ ("^" :> <<10, 9>>) @@ (".." :> <<5, 4>>)
  @@ [op \in {"==", "~=", "<", "<=", ">", ">="} |-> <<3, 3>>]
  @@ ("and" :> <<2, 2>>) @@ ("or" :> <<1, 1>>)
UnaryPriority == 8
CompoundOp == [op \in {"+=", "-=", "*=", "/=", "%=", "^="} |->
                 CASE op = "+=" -> "+" [] op = "-=" -> "-" [] op = "*=" -> "*"
                   [] op = "/=" -> "/" [] op = "%=" -> "%" [] op = "^=" -> "^"]
              @@ ("..=" :> "..")

RECURSIVE ParseOperators(_, _, _), ParseExprList(_, _),
          ParseSuffixes(_, _, _), ParseItems(_, _), ParseIfElseExpr(_),
          ParseBlock(_), ParseStats(_, _), ParseIf(_), ParseStat(_)

\* The condition under which an operator goes on with the operand before it.
Binds(op, limit) == op \in DOMAIN Priority /\ Priority[op][1] > limit
ParseOperators(r, start, limit) ==
  LET op == At(r.s)
      next == ParseExpr(Advance(r.s), Priority[op][2])
  IN IF ~Binds(op, limit) THEN r
     ELSE ParseOperators(R(Deeper(next.s), Binary(op, r.n, next.n),
                           <<start, next.loc[2]>>), start, limit)

\* parseFunctionBody: the function, and the local it is declared as; self is
\* <<"self">> in a method.
ParseFunctionBody(s, id, localName, self) ==
  LET open == Expect(ParseGenerics(s, FALSE), "(")
      args == IF At(open) = ")" THEN [s |-> open, n |-> <<>>, dots |-> FALSE]
              ELSE ParseBindings(open, <<>>, TRUE)
      close == OptionalReturnType(ExpectMatchOnLine(args.s, ")"))
      outer == IF localName = NoLocal THEN close ELSE PushLocal(close, localName)
      inner == PushAll([outer EXCEPT !.fns = Append(@, [vararg |-> args.dots,
                                                         loop |-> 0])], self \o args.n)
      body == ParseBlock(inner)
      after == RestoreLocals([body.s EXCEPT !.fns = Front(@)], LocalsBegin(outer))
  IN [s |-> ExpectMatch(after, "end"),
      n |-> Function(id, Pushed(inner, Len(self \o args.n)), args.dots, body.n),
      x |-> IF localName = NoLocal THEN NoLocal ELSE Last(outer.stack).x,
      end |-> End(after)]

\* parseTableConstructor
ParseItem(s) ==
  CASE At(s) = "[" ->
         LET key == ParseExpr(Advance(s), 0)
             value == ParseExpr(Expect(ExpectMatch(key.s, "]"), "="), 0)
         IN [s |-> value.s, n |-> [k |-> key.n, v |-> value.n]]
    [] At(s) = "Name" /\ Ahead(s) = "=" ->
         LET value == ParseExpr(Advance(Advance(s)), 0)
         IN [s |-> value.s, n |-> [k |-> Const(Str(<<Value(s)>>)), v |-> value.n]]
    [] OTHER -> LET value == ParseExpr(s, 0)
                IN [s |-> value.s, n |-> [k |-> NoKey, v |-> value.n]]
ParseItems(s, items) ==
  LET item == ParseItem(s)
      all == Append(items, item.n)
  IN IF At(s) = "}" THEN [s |-> s, n |-> items]
     ELSE IF At(item.s) \in {",", ";"} THEN ParseItems(Advance(item.s), all)
     ELSE [s |-> item.s, n |-> all]
ParseTableConstructor(s) ==
  LET items == ParseItems(Expect(s, "{"), <<>>)
  IN Braced(s, items.s, Table(items.n))

ParseExprList(s, list) ==
  LET r == ParseExpr(s, 0)
  IN IF At(r.s) = "," THEN ParseExprList(Advance(r.s), Append(list, r.n))
     ELSE R(r.s, Append(list, r.n), r.loc)

ParseString(s) == R(Advance(s), Const(Str(Value(s))), Here(s))
ParseFunctionArgs(r, self) ==
  LET s == r.s
      call(q, args, edge) == R(q.s, [Call(r.n, args) EXCEPT !.self = self],
                               <<r.loc[1], edge>>)
      onLine == LineAt(s, r.loc[2]) = Line(s)
  IN CASE At(s) = "(" ->
            LET open == Advance(IF onLine THEN s ELSE Report(s, Here(s)))
                args == IF At(open) = ")" THEN R(open, <<>>, <<0, 0>>)
                        ELSE ParseExprList(open, <<>>)
                close == [args EXCEPT !.s = ExpectMatch(@, ")")]
            IN call(close, args.n, End(args.s))
       [] At(s) = "{" -> LET t == ParseTableConstructor(s)
                         IN call(t, <<t.n>>, t.loc[2])
       [] At(s) = "String" -> LET t == ParseString(s)
                              IN call(t, <<t.n>>, t.loc[2])
       [] OTHER -> LET loc == IF self /\ ~onLine THEN r.loc
                              ELSE <<r.loc[1], Begin(s)>>
                   IN R(Report(s, loc), ErrorExpr, loc)

ParsePrefixExpr(s) ==
  IF At(s) # "(" THEN ParseNameExpr(s)
  ELSE LET r == ParseExpr(Advance(s), 0)
       IN IF At(r.s) = ")" THEN R(Advance(r.s), Paren(r.n), <<Begin(s), End(r.s)>>)
          ELSE R(Report(r.s, Here(r.s)), Paren(r.n), <<Begin(s), PreviousEnd(r.s)>>)

\* A call's parenthesis is on the line its function ends on.
ParseSuffixes(r, asStatement, start) ==
  LET s == r.s
      more(q) == ParseSuffixes([q EXCEPT !.s = Deeper(q.s)], asStatement, start)
  IN CASE At(s) = "." ->
            LET name == ParseIndexName(Advance(s), Line(s))
            IN more(R(name.s, Index(r.n, Const(Str(<<name.n>>))),
                      <<start, name.loc[2]>>))
       [] At(s) = ":" ->
            LET name == ParseIndexName(Advance(s), Line(s))
            IN more(ParseFunctionArgs(R(name.s, Index(r.n, Const(Str(<<name.n>>))),
                                        <<start, name.loc[2]>>), TRUE))
       [] At(s) = "[" ->
            LET i == ParseExpr(Advance(s), 0)
            IN more(R(ExpectMatch(i.s, "]"), IndexByExpr(r.n, i.n),
                      <<start, End(i.s)>>))
       [] At(s) = "(" /\ ~asStatement /\ LineAt(s, r.loc[2]) # Line(s) ->
            R(Report(s, Here(s)), r.n, r.loc)
       [] At(s) \in {"{", "String"}
            \/ (At(s) = "(" /\ (asStatement \/ LineAt(s, r.loc[2]) = Line(s))) ->
            more(ParseFunctionArgs(r, FALSE))
       [] OTHER -> r
ParsePrimaryExpr(s, asStatement) ==
  LET r == ParsePrefixExpr(s)
  IN Restored(ParseSuffixes(r, asStatement, Begin(s)), r.s.rec)

ParseIfElseExpr(s) ==
  LET c == ParseExpr(Advance(s), 0)
      a == ParseExpr(Expect(c.s, "then"), 0)
      b == IF At(a.s) = "elseif"
           THEN Restored(ParseIfElseExpr(Deeper(a.s)), a.s.rec)
           ELSE ParseExpr(Expect(a.s, "else"), 0)
  IN R(b.s, IfElse(c.n, a.n, b.n), <<Begin(s), b.loc[2]>>)

ParseSimpleExpr(s) ==
  LET constant(v) == R(Advance(s), Const(v), Here(s))
      error == R(Report(Advance(s), Here(s)), ErrorExpr, Here(s))
  IN CASE At(s) = "nil" -> constant(Nil)
       [] At(s) = "true" -> constant(Bool(TRUE))
       [] At(s) = "false" -> constant(Bool(FALSE))
       [] At(s) = "function" ->
            LET f == ParseFunctionBody(Advance(s), Value(s), NoLocal, <<>>)
            IN R(f.s, f.n, <<Begin(s), f.end>>)
       [] At(s) = "Number" -> constant(Num(Value(s)))
       [] At(s) = "BrokenString" -> error
       [] At(s) = "String" -> ParseString(s)
       [] At(s) = "..." -> IF Last(s.fns).vararg THEN R(Advance(s), Dots, Here(s))
                           ELSE error
       [] At(s) = "{" -> ParseTableConstructor(s)
       [] At(s) = "if" -> ParseIfElseExpr(s)
       [] OTHER -> ParsePrimaryExpr(s, FALSE)

\* asexp -> simpleexp [`::' type]
ParseAssertionExpr(s) ==
  LET r == ParseSimpleExpr(s)
      type == ParseType(Advance(r.s))
  IN IF At(r.s) = "::" THEN R(type.s, Cast(r.n), <<Begin(s), type.loc[2]>>) ELSE r

ParseExpr(s, limit) ==
  LET t == Deeper(s)
      operand == ParseExpr(Advance(t), UnaryPriority)
      first == IF At(t) \in UnaryOps
               THEN R(operand.s, Unary(At(t), operand.n),
                      <<Begin(s), operand.loc[2]>>)
               ELSE ParseAssertionExpr(t)
  IN Restored(ParseOperators(first, Begin(s), limit), s.rec)

-----------------------------------------------------------------------------
(* Statements *)

BlockFollow(s) == At(s) \in {Eof, "else", "elseif", "end", "until"}
IsStatLast(n) == n.s \in {"break", "continue", "return"}
IsExprLValue(n) == n.e \in {"local", "global", "index"}

\* The body of a loop, between the change of loopDepth and its undoing.
InLoops(s, d) ==
  [s EXCEPT !.fns = Append(Front(@), [Last(@) EXCEPT !.loop = @ + d])]
LoopBody(s) == LET r == ParseBlock(InLoops(s, 1))
               IN [r EXCEPT !.s = InLoops(r.s, -1)]

ParseStats(s, list) ==
  LET r == ParseStat(Deeper(s))
      t == [r.s EXCEPT !.rec = s.rec]
      u == IF At(t) = ";" THEN Advance(t) ELSE t
      all == Append(list, r.n)
  IN IF BlockFollow(s) THEN [s |-> s, n |-> list]
     ELSE IF IsStatLast(r.n) THEN [s |-> u, n |-> all]
     ELSE ParseStats(u, all)
ParseBlock(s) == LET r == ParseStats(s, <<>>)
                 IN [r EXCEPT !.s = RestoreLocals(r.s, LocalsBegin(s))]

ParseIf(s) ==
  LET c == ParseExpr(Advance(s), 0)
      then == ParseBlock(Expect(c.s, "then"))
      elseif == ParseIf(Deeper(then.s))
      else == ParseBlock(Advance(then.s))
  IN CASE At(then.s) = "elseif" ->
            [s |-> [elseif.s EXCEPT !.rec = then.s.rec],
             n |-> IfThenElse(c.n, then.n, <<elseif.n>>)]
       [] At(then.s) = "else" ->
            [s |-> ExpectMatch(else.s, "end"),
             n |-> IfThenElse(c.n, then.n, else.n)]
       [] OTHER -> [s |-> ExpectMatch(then.s, "end"), n |-> If(c.n, then.n)]

ParseWhile(s) ==
  LET c == ParseExpr(Advance(s), 0)
      body == LoopBody(Expect(c.s, "do"))
  IN [s |-> ExpectMatch(body.s, "end"), n |-> While(c.n, body.n)]
\* The condition sees the locals of the body.
ParseRepeat(s) ==
  LET body == ParseStats(InLoops(Advance(s), 1), <<>>)
      c == ParseExpr(ExpectMatch(InLoops(body.s, -1), "until"), 0)
  IN [s |-> RestoreLocals(c.s, LocalsBegin(s)), n |-> Repeat(body.n, c.n)]
ParseDo(s) ==
  LET body == ParseBlock(Advance(s))
  IN [s |-> ExpectMatch(body.s, "end"), n |-> Block(body.n)]
\* break, and continue, whose token is behind already; loc is the keyword's.
ParseLeave(s, loc, n) ==
  IF Last(s.fns).loop = 0 THEN [s |-> Report(s, loc), n |-> ErrorStat]
  ELSE [s |-> s, n |-> n]

ForBody(s, names) ==
  LET outer == Expect(s, "do")
      inner == PushAll(InLoops(outer, 1), names)
      body == ParseBlock(inner)
      after == RestoreLocals(InLoops(body.s, -1), LocalsBegin(outer))
  IN [s |-> ExpectMatch(after, "end"), n |-> body.n,
      vars |-> Pushed(inner, Len(names))]
ParseFor(s) ==
  LET first == ParseBinding(Advance(s))
      from == ParseExpr(Advance(first.s), 0)
      to == ParseExpr(Expect(from.s, ","), 0)
      step == IF At(to.s) = "," THEN ParseExpr(Advance(to.s), 0)
              ELSE R(to.s, Const(Num(1)), to.loc)
      loop == ForBody(step.s, <<first.n>>)
      names == IF At(first.s) = ","
               THEN ParseBindings(Advance(first.s), <<first.n>>, FALSE)
               ELSE [s |-> first.s, n |-> <<first.n>>]
      values == ParseExprList(Expect(names.s, "in"), <<>>)
      each == ForBody(values.s, names.n)
  IN IF At(first.s) = "="
     THEN [s |-> loop.s, n |-> For(loop.vars[1], from.n, to.n, step.n, loop.n)]
     ELSE [s |-> each.s, n |-> ForIn(each.vars, values.n, each.n)]

\* parseFunctionStat: `function a.b:c(...)`.
NextName(r) == LET name == ParseName(Advance(r.s))
               IN R(name.s, Index(r.n, Const(Str(<<name.n>>))), r.loc)
RECURSIVE ParseFunctionName(_)
ParseFunctionName(r) ==
  LET next == NextName(r)
  IN IF At(r.s) # "." THEN r
     ELSE ParseFunctionName([next EXCEPT !.s = Deeper(@)])
ParseFunctionStat(s) ==
  LET first == ParseNameExpr(Advance(s))
      chain == Restored(ParseFunctionName(first), first.s.rec)
      method == At(chain.s) = ":"
      name == IF method THEN NextName(chain) ELSE chain
      f == ParseFunctionBody(StopOn(name.s, "end", 1), Value(s), NoLocal,
                             IF method THEN <<"self">> ELSE <<>>)
  IN [s |-> StopOn(f.s, "end", -1), n |-> FunctionStat(name.n, f.n)]

ParseLocal(s) ==
  LET t == Advance(s)
      name == ParseName(Advance(t))
      f == ParseFunctionBody(StopOn(name.s, "end", 1), Value(t), name.n, <<>>)
      names == ParseBindings(StopOn(t, "=", 1), <<>>, FALSE)
      bound == StopOn(names.s, "=", -1)
      values == IF At(bound) = "=" THEN ParseExprList(Advance(bound), <<>>)
                ELSE R(bound, <<>>, <<0, 0>>)
      done == PushAll(values.s, names.n)
  IN IF At(t) = "function"
     THEN [s |-> StopOn(f.s, "end", -1), n |-> LocalFunction(f.x, f.n)]
     ELSE [s |-> done, n |-> LocalVar(Pushed(done, Len(names.n)), values.n)]

ParseReturn(s) ==
  LET t == Advance(s)
      list == IF BlockFollow(t) \/ At(t) = ";" THEN R(t, <<>>, <<0, 0>>)
              ELSE ParseExprList(t, <<>>)
  IN [s |-> list.s, n |-> Return(list.n)]

\* What is assigned to is a variable or a field.
LValue(r) == IF IsExprLValue(r.n) THEN r
             ELSE R(Report(r.s, r.loc), ErrorExpr, r.loc)
RECURSIVE ParseTargets(_, _)
ParseTargets(r, list) ==
  LET one == LValue(r)
      all == Append(list, one.n)
  IN IF At(one.s) = "," THEN ParseTargets(ParsePrimaryExpr(Advance(one.s), TRUE), all)
     ELSE [s |-> one.s, n |-> all]
ParseAssignment(r) ==
  LET vars == ParseTargets(r, <<>>)
      values == ParseExprList(Expect(vars.s, "="), <<>>)
  IN [s |-> values.s, n |-> Assign(vars.n, values.n)]
ParseCompound(r) ==
  LET var == LValue(r)
      value == ParseExpr(Advance(var.s), 0)
  IN [s |-> value.s, n |-> Compound(CompoundOp[At(r.s)], var.n, value.n)]

\* `type` is behind already.
ParseTypeAlias(s) ==
  LET generics == ParseGenerics(ParseName(s).s, TRUE)
  IN [s |-> ParseType(Expect(generics, "=")).s, n |-> TypeAlias]

\* getIdentifier
Identifier(r) == IF r.n.e \in {"local", "global"}
                 THEN r.s.text[r.loc[1] \div 2].v[2] ELSE ErrorName
\* An incomplete statement is reported where it is.  Mutant: at its start.
IncompleteStart(r) == <<r.loc[1], r.loc[1] + 1>>
Incomplete(r) == r.loc
\* A statement that starts with an expression; one that could not take the
\* token it is at skips it.
ParseExprStat(s) ==
  LET r == ParsePrimaryExpr(s, TRUE)
      skipped == IF r.s.i = s.i THEN Advance(r.s) ELSE r.s
  IN CASE r.n.e = "call" -> [s |-> r.s, n |-> Do(r.n)]
       [] At(r.s) \in {",", "="} /\ r.n.e # "call" -> ParseAssignment(r)
       [] At(r.s) \in DOMAIN CompoundOp /\ r.n.e # "call" -> ParseCompound(r)
       [] OTHER ->
            CASE Identifier(r) = "type" -> ParseTypeAlias(r.s)
              [] /\ Identifier(r) = "export"
                 /\ At(r.s) = "Name" /\ Value(r.s) = "type" ->
                   ParseTypeAlias(Advance(r.s))
              [] Identifier(r) = "continue" -> ParseLeave(r.s, r.loc, Continue)
              [] OTHER -> [s |-> Report(skipped, Incomplete(r)), n |-> ErrorStat]

ParseStat(s) ==
  CASE At(s) = "if" -> ParseIf(s)
    [] At(s) = "while" -> ParseWhile(s)
    [] At(s) = "do" -> ParseDo(s)
    [] At(s) = "for" -> ParseFor(s)
    [] At(s) = "repeat" -> ParseRepeat(s)
    [] At(s) = "function" -> ParseFunctionStat(s)
    [] At(s) = "local" -> ParseLocal(s)
    [] At(s) = "return" -> ParseReturn(s)
    [] At(s) = "break" -> ParseLeave(Advance(s), Here(s), Break)
    [] OTHER -> ParseExprStat(s)

\* Parser::Parser and Parser::parse: the chunk is a vararg function.
Start(text) ==
  [text |-> text, i |-> 1, rec |-> 0, errors |-> <<>>, thrown |-> FALSE,
   map |-> [x \in {} |-> NoLocal], made |-> [x \in {} |-> NoLocal],
   stack |-> <<>>, fns |-> <<[vararg |-> TRUE, loop |-> 0]>>,
   stop |-> [type \in {"end", "=", "->"} |-> 0]]
Parse(text) ==
  LET r == ParseBlock(Start(text))
  IN [s |-> IF At(r.s) = Eof THEN r.s ELSE Report(r.s, Here(r.s)), n |-> r.n]
=============================================================================
