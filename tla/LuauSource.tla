----------------------------- MODULE LuauSource -----------------------------
(***************************************************************************)
(* Chunks as tokens: how a tree is written, in a plain style or with the   *)
(* shorter forms of the language, and which sequences of tokens the        *)
(* grammar in the comments of Parser.cpp derives.  Neither knows how the   *)
(* parser works: they are what LuauParser is held against.                 *)
(***************************************************************************)
EXTENDS LuauAst, SequencesExt

Word(t) == <<<<t, Nil>>>>
NameToken(n) == <<<<"Name", <<"name", n>>>>>>
NewLine == Word("newline")

\* Tokens with the lines they are on.
Lined(tokens) ==
  LET lines == FoldLeft(LAMBDA acc, k :
                 IF k[1] = "newline" THEN [acc EXCEPT !.line = @ + 1]
                 ELSE [acc EXCEPT !.text = Append(@, [t |-> k[1], v |-> k[2],
                                                      line |-> acc.line])],
                 [line |-> 1, text |-> <<>>], tokens)
  IN lines.text

-----------------------------------------------------------------------------
(* Writing *)

\* How strongly operators bind, and which associate to the right, as the
\* language's manual has it.
Strength(op) ==
  CASE op = "or" -> 1 [] op = "and" -> 2
    [] op \in {"<", ">", "<=", ">=", "~=", "=="} -> 3
    [] op = ".." -> 4 [] op \in {"+", "-"} -> 5 [] op \in {"*", "/", "%"} -> 6
    [] op = "^" -> 8
UnaryStrength == 7
CastStrength == 9
ToTheRight == {"..", "^"}
\* Where an operand is, it is parenthesised unless it binds as strongly.
NeedsParens(n, least) ==
  CASE n.e = "binary" -> Strength(n.op) < least
    [] n.e = "unary" -> UnaryStrength < least
    [] n.e = "ifelse" -> least > 0
    [] n.e = "cast" -> least > CastStrength
    [] OTHER -> FALSE
IsPrefixExp(n) == n.e \in {"local", "global", "index", "call", "paren"}

\* The name a local was declared by, from the name of the AstLocal; what is
\* written of types after the name, the parameters or the `::` it is for.
BareName(x, names) == IF x \in DOMAIN names THEN names[x] ELSE x
Typed(key, y) == IF key \in DOMAIN y.types THEN y.types[key] ELSE <<>>

RECURSIVE Write(_, _), WriteList(_, _), WriteStat(_, _), WriteBody(_, _),
          WriteItems(_, _)
Operand(n, least, y) ==
  IF NeedsParens(n, least) THEN Word("(") \o Write(n, y) \o Word(")")
  ELSE Write(n, y)
Prefix(n, y) == IF IsPrefixExp(n) THEN Write(n, y)
                ELSE Word("(") \o Write(n, y) \o Word(")")
WriteList(ns, y) ==
  IF ns = <<>> THEN <<>>
  ELSE Write(Head(ns), y)
       \o IF Len(ns) = 1 THEN <<>> ELSE Word(",") \o WriteList(Tail(ns), y)
Names(xs, y) ==
  FlattenSeq([i \in DOMAIN xs |-> (IF i = 1 THEN <<>> ELSE Word(","))
                                  \o NameToken(BareName(xs[i], y.names))
                                  \o Typed(xs[i], y)])
IsText(n) == n.e = "const" /\ n.v[1] = "str"
WriteItem(item, y) ==
  (IF item.k = NoKey THEN <<>>
   ELSE IF y.short /\ IsText(item.k)
   THEN NameToken(item.k.v[2][1]) \o Word("=")
   ELSE Word("[") \o Write(item.k, y) \o Word("]") \o Word("="))
  \o Write(item.v, y)
WriteItems(items, y) ==
  IF items = <<>> THEN <<>>
  ELSE WriteItem(Head(items), y)
       \o (IF Len(items) > 1 THEN Word(",") ELSE IF y.short THEN Word(";") ELSE <<>>)
       \o WriteItems(Tail(items), y)
Parameters(f, y) ==
  Word("(") \o Names(f.params, y)
  \o (IF f.vararg THEN (IF f.params = <<>> THEN <<>> ELSE Word(","))
                       \o Word("...") \o Typed("...", y) ELSE <<>>)
  \o Word(")") \o Typed("returns", y)
WriteBody(body, y) ==
  IF body = <<>> THEN <<>>
  ELSE WriteStat(Head(body), y) \o (IF y.short THEN Word(";") ELSE NewLine)
       \o WriteBody(Tail(body), y)
FunctionWord(f) == <<<<"function", <<"id", f.id>>>>>>
FunctionTail(f, y) ==
  Typed("generics", y) \o Parameters(f, y) \o WriteBody(f.body, y) \o Word("end")
WriteValue(v) ==
  CASE v = Nil -> Word("nil")
    [] v[1] = "bool" -> Word(IF v[2] THEN "true" ELSE "false")
    [] v[1] = "num" -> <<<<"Number", v>>>>
    [] v[1] = "str" -> <<<<"String", v>>>>
Write(n, y) ==
  CASE n.e = "const" -> WriteValue(n.v)
    [] n.e = "local" -> NameToken(BareName(n.x, y.names))
    [] n.e = "global" -> NameToken(n.n)
    [] n.e = "dots" -> Word("...")
    [] n.e = "paren" -> Word("(") \o Write(n.a, y) \o Word(")")
    [] n.e = "cast" -> Operand(n.a, CastStrength + 1, y) \o Word("::") \o Typed("::", y)
    [] n.e = "call" ->
         (IF n.self THEN Prefix(n.f.t, y) \o Word(":") \o NameToken(n.f.i.v[2][1])
          ELSE Prefix(n.f, y))
         \o IF y.short /\ Len(n.args) = 1
               /\ (n.args[1].e = "table" \/ IsText(n.args[1]))
            THEN Write(n.args[1], y)
            ELSE Word("(") \o WriteList(n.args, y) \o Word(")")
    [] n.e = "index" ->
         Prefix(n.t, y)
         \o IF n.dot THEN Word(".") \o NameToken(n.i.v[2][1])
            ELSE Word("[") \o Write(n.i, y) \o Word("]")
    [] n.e = "function" -> FunctionWord(n) \o FunctionTail(n, y)
    [] n.e = "table" ->
         Word("{") \o WriteItems(n.items, y) \o Word("}")
    [] n.e = "unary" -> Word(n.op) \o Operand(n.a, UnaryStrength, y)
    [] n.e = "binary" ->
         LET k == Strength(n.op)
         IN Operand(n.l, IF n.op \in ToTheRight THEN k + 1 ELSE k, y) \o Word(n.op)
            \o IF n.r.e = "unary" THEN Write(n.r, y)
               ELSE Operand(n.r, IF n.op \in ToTheRight THEN k ELSE k + 1, y)
    [] n.e = "ifelse" ->
         Word("if") \o Write(n.c, y) \o Word("then") \o Write(n.a, y)
         \o IF y.short /\ n.b.e = "ifelse"
            THEN Word("elseif") \o Tail(Write(n.b, y))
            ELSE Word("else") \o Write(n.b, y)
WriteStat(n, y) ==
  CASE n.s = "block" -> Word("do") \o WriteBody(n.body, y) \o Word("end")
    [] n.s = "if" -> Word("if") \o Write(n.c, y) \o Word("then")
                     \o WriteBody(n.then, y) \o Word("end")
    [] n.s = "ifelse" ->
         Word("if") \o Write(n.c, y) \o Word("then") \o WriteBody(n.then, y)
         \o IF y.short /\ Len(n.else) = 1 /\ n.else[1].s \in {"if", "ifelse"}
            THEN Word("elseif") \o Tail(WriteStat(n.else[1], y))
            ELSE Word("else") \o WriteBody(n.else, y) \o Word("end")
    [] n.s = "while" -> Word("while") \o Write(n.c, y) \o Word("do")
                        \o WriteBody(n.body, y) \o Word("end")
    [] n.s = "repeat" -> Word("repeat") \o WriteBody(n.body, y)
                         \o Word("until") \o Write(n.c, y)
    [] n.s = "break" -> Word("break")
    [] n.s = "continue" -> NameToken("continue")
    [] n.s = "return" -> Word("return") \o WriteList(n.list, y)
    [] n.s = "expr" -> Write(n.a, y)
    [] n.s = "local" ->
         Word("local") \o Names(n.vars, y)
         \o IF n.values = <<>> THEN <<>> ELSE Word("=") \o WriteList(n.values, y)
    [] n.s = "assign" -> WriteList(n.vars, y) \o Word("=") \o WriteList(n.values, y)
    [] n.s = "compound" -> Write(n.var, y) \o Word(n.op \o "=") \o Write(n.value, y)
    [] n.s = "function" ->
         FunctionWord(n.f)
         \o IF y.short /\ n.name.e = "index" /\ n.f.params # <<>>
               /\ BareName(n.f.params[1], y.names) = "self"
            THEN Write(n.name.t, y) \o Word(":") \o NameToken(n.name.i.v[2][1])
                 \o FunctionTail([n.f EXCEPT !.params = Tail(@)], y)
            ELSE Write(n.name, y) \o FunctionTail(n.f, y)
    [] n.s = "localfunction" ->
         Word("local") \o FunctionWord(n.f) \o NameToken(BareName(n.x, y.names))
         \o FunctionTail(n.f, y)
    [] n.s = "typealias" ->
         Typed("export", y) \o NameToken("type") \o NameToken("A") \o Typed("type", y)
    [] n.s = "for" ->
         Word("for") \o Names(<<n.x>>, y) \o Word("=") \o Write(n.from, y)
         \o Word(",") \o Write(n.to, y)
         \o (IF y.short /\ n.step = Const(Num(1)) THEN <<>>
             ELSE Word(",") \o Write(n.step, y))
         \o Word("do") \o WriteBody(n.body, y) \o Word("end")
    [] n.s = "forin" ->
         Word("for") \o Names(n.vars, y) \o Word("in") \o WriteList(n.values, y)
         \o Word("do") \o WriteBody(n.body, y) \o Word("end")

\* names: the name a local is declared by, where it is not the local's own.
SourceOf(program, short, names, types) ==
  Lined(WriteBody(program, [short |-> short, names |-> names, types |-> types]))

-----------------------------------------------------------------------------
(* The grammar.  A symbol derives the tokens from i up to the positions it  *)
(* is given back with.  An end is <<j, open>>: open where a `(` at j would  *)
(* go on with the expression, as a call, or be an error on a new line.      *)

Token(t, i) == IF i > Len(t) THEN "eof" ELSE t[i].t
BinOps == {"or", "and", "<", ">", "<=", ">=", "~=", "==", "..", "+", "-", "*",
           "/", "%", "^"}
IsOpenCall(t, e) == e[2] /\ Token(t, e[1]) = "("
Within(t, ends, word) == {e[1] + 1 : e \in {e \in ends : Token(t, e[1]) = word}}

Plain(js) == {<<j, FALSE>> : j \in js}
RECURSIVE Exp(_, _, _), ExpList(_, _, _), Primary(_, _, _, _), Fields(_, _, _),
          Deriving(_, _, _), Parlist(_, _, _), TypeEnds(_, _, _),
          SimpleTypes(_, _, _), TypeOps(_, _, _, _), TypeList(_, _, _),
          ReturnTypes(_, _, _), Params(_, _, _), Props(_, _, _, _),
          Generics(_, _, _, _)

\* A type goes on as far as it can: no end of one is before an operator of types.
TypeFrom(t, simple, k) ==
  {j \in UNION {TypeOps(t, i, ops, k) : i \in simple, ops \in {{"|", "?"}, {"&"}}} :
     Token(t, j) \notin {"|", "?", "&", "..."}}
TypeOps(t, j, ops, k) ==
  {j} \cup IF Token(t, j) \notin ops THEN {}
           ELSE UNION {TypeOps(t, i, ops, k) :
                         i \in IF Token(t, j) = "?" THEN {j + 1} ELSE SimpleTypes(t, j + 1, k)}
\* typeannotation ::= simple {`|' simple | `?'} | simple {`&' simple}
TypeEnds(t, i, k) == TypeFrom(t, SimpleTypes(t, i, k), k)
PackAt(t, i) == Token(t, i) = "..." \/ (Token(t, i) = "Name" /\ Token(t, i + 1) = "...")
PackEnds(t, i, k) == IF Token(t, i) = "..." THEN TypeEnds(t, i + 1, k) ELSE {i + 2}
\* TypeList ::= [Name `:'] TypeAnnotation [`,' TypeList] | pack
TypeList(t, i, k) ==
  LET named == Token(t, i) = "Name" /\ Token(t, i + 1) = ":"
      ends == TypeEnds(t, IF named THEN i + 2 ELSE i, k)
  IN IF PackAt(t, i)
     THEN {[at |-> j, types |-> 0, named |-> FALSE, pack |-> TRUE] : j \in PackEnds(t, i, k)}
     ELSE {[at |-> j, types |-> 1, named |-> named, pack |-> FALSE] : j \in ends}
          \cup UNION {{[l EXCEPT !.types = @ + 1, !.named = @ \/ named] :
                         l \in TypeList(t, j + 1, k)} :
                       j \in {j \in ends : Token(t, j) = ","}}
InParens(t, i, k) ==
  LET none == [at |-> i + 1, types |-> 0, named |-> FALSE, pack |-> FALSE]
  IN IF Token(t, i) # "(" THEN {}
     ELSE {[l EXCEPT !.at = @ + 1] :
             l \in {l \in {none} \cup TypeList(t, i + 1, k) : Token(t, l.at) = ")"}}
\* ReturnType ::= TypeAnnotation | `(' TypeList `)'; operators go on with a
\* list of one type, even if a pack follows it there.
ReturnTypes(t, i, k) ==
  IF Token(t, i) # "("
  THEN IF PackAt(t, i) THEN PackEnds(t, i, k) ELSE TypeEnds(t, i, k)
  ELSE UNION {IF Token(t, l.at) = "->" THEN ReturnTypes(t, l.at + 1, k)
              ELSE IF l.named THEN {}
              ELSE IF l.types = 1 THEN TypeFrom(t, {l.at}, k) ELSE {l.at} :
                l \in InParens(t, i, k)}
\* [`<' varlist `>'] `(' [TypeList] `)' `->' ReturnType
GenericEnds(t, i, defaults, k) ==
  IF Token(t, i) # "<" THEN {i}
  ELSE Within(t, Plain(Generics(t, i + 1, [packs |-> FALSE, given |-> FALSE,
                                           defaults |-> defaults], k)), ">")
FunctionTypes(t, i, k) ==
  UNION {UNION {ReturnTypes(t, l.at + 1, k) :
                  l \in {l \in InParens(t, j, k) : Token(t, l.at) = "->"}} :
           j \in GenericEnds(t, i, FALSE, k)}
\* A list in parentheses where a pack may be.
PackLists(t, i, k) ==
  {l.at : l \in {l \in InParens(t, i, k) : Token(t, l.at) # "->"}}
\* varlist: names, then packs, with defaults from one on; the default of a
\* pack may be missing after the `='.
Generics(t, i, g, k) ==
  LET pack == Token(t, i + 1) = "..."
      j == IF pack THEN i + 2 ELSE i + 1
      given == g.defaults /\ Token(t, j) = "="
      ends == IF given
              THEN IF ~pack THEN TypeEnds(t, j + 1, k)
                   ELSE IF PackAt(t, j + 1) THEN PackEnds(t, j + 1, k)
                   ELSE IF Token(t, j + 1) = "(" THEN PackLists(t, j + 1, k) ELSE {j + 1}
              ELSE IF g.given THEN {} ELSE {j}
  IN IF Token(t, i) # "Name" \/ (g.packs /\ ~pack) THEN {}
     ELSE ends \cup UNION {Generics(t, e + 1, [g EXCEPT !.packs = pack, !.given = @ \/ given], k) :
                           e \in {e \in ends : Token(t, e) = ","}}
\* The parameters of a type: types, packs or lists.
Params(t, i, k) ==
  LET ends == IF PackAt(t, i) THEN PackEnds(t, i, k)
              ELSE IF Token(t, i) = "("
              THEN PackLists(t, i, k) \cup TypeFrom(t, FunctionTypes(t, i, k), k)
              ELSE TypeEnds(t, i, k)
  IN ends \cup UNION {Params(t, j + 1, k) : j \in {j \in ends : Token(t, j) = ","}}
\* TableProp ::= Name `:' TypeAnnotation, TableIndexer ::= `[' TypeAnnotation
\* `]' `:' TypeAnnotation, of which there is one; a key that starts with a
\* string is that string.
Props(t, i, indexed, k) ==
  LET text == Token(t, i) = "[" /\ Token(t, i + 1) = "String"
      index == Token(t, i) = "[" /\ ~text
      keys == CASE text -> IF Token(t, i + 2) = "]" THEN {i + 3} ELSE {}
                [] index -> IF indexed THEN {}
                            ELSE Within(t, Plain(TypeEnds(t, i + 1, k)), "]")
                [] OTHER -> IF Token(t, i) = "Name" THEN {i + 1} ELSE {}
      ends == UNION {TypeEnds(t, j, k) : j \in Within(t, Plain(keys), ":")}
  IN {i} \cup ends \cup UNION {Props(t, j + 1, indexed \/ index, k) :
                               j \in {j \in ends : Token(t, j) \in {",", ";"}}}
\* `{' [PropList] `}' | `{' TypeAnnotation `}'
TableTypes(t, i, k) ==
  LET array == Token(t, i + 1) # "[" /\ ~(Token(t, i + 1) = "Name" /\ Token(t, i + 2) = ":")
  IN Within(t, Plain(Props(t, i + 1, FALSE, k)
                     \cup IF array THEN TypeEnds(t, i + 1, k) ELSE {}), "}")
\* Name[`.' Name] [`<' typeannotation [`,' ...] `>'] | `typeof' `(' exp `)'
NamedTypes(t, i, k) ==
  LET names == IF Token(t, i + 1) # "." THEN {i + 1}
               ELSE IF Token(t, i + 2) = "Name" THEN {i + 3} ELSE {}
  IN IF t[i].v[2] = "typeof" /\ Token(t, i + 1) # "."
     THEN IF Token(t, i + 1) = "(" THEN Within(t, Exp(t, i + 2, k), ")") ELSE {}
     ELSE UNION {IF Token(t, j) # "<" THEN {j}
                 ELSE Within(t, Plain({j + 1} \cup Params(t, j + 1, k)), ">") : j \in names}
\* A type in parentheses may be given a name that means nothing.
SimpleTypes(t, i, k) ==
  CASE Token(t, i) \in {"nil", "true", "false", "String"} -> {i + 1}
    [] Token(t, i) = "Name" -> NamedTypes(t, i, k)
    [] Token(t, i) = "{" -> TableTypes(t, i, k)
    [] Token(t, i) \in {"(", "<"} ->
         FunctionTypes(t, i, k)
         \cup {l.at : l \in {l \in InParens(t, i, k) :
                               l.types = 1 /\ ~l.pack /\ Token(t, l.at) # "->"}}
    [] OTHER -> {}

\* binding ::= Name [`:' TypeAnnotation]
Binding(t, i, k) ==
  IF Token(t, i) # "Name" THEN {}
  ELSE IF Token(t, i + 1) = ":" THEN TypeEnds(t, i + 2, k) ELSE {i + 1}
\* parlist ::= bindinglist [`,' `...'] | `...', which may be annotated too
Parlist(t, i, k) ==
  IF Token(t, i) = "..."
  THEN {<<j, TRUE>> : j \in IF Token(t, i + 1) # ":" THEN {i + 1}
                           ELSE IF Token(t, i + 2) = "Name" /\ Token(t, i + 3) = "..."
                           THEN {i + 4} ELSE TypeEnds(t, i + 2, k)}
  ELSE Plain(Binding(t, i, k))
       \cup UNION {Parlist(t, j + 1, k) : j \in {j \in Binding(t, i, k) : Token(t, j) = ","}}
\* funcbody ::= [`<' varlist `>'] `(' [parlist] `)' [`:' ReturnType] block end
FuncBody(t, i, k) ==
  LET opened == {j \in GenericEnds(t, i, FALSE, k) : Token(t, j) = "("}
      lists == UNION {Plain({j + 1}) \cup Parlist(t, j + 1, k) : j \in opened}
      bodies(p) == IF Token(t, p[1] + 1) = ":" THEN ReturnTypes(t, p[1] + 2, k) ELSE {p[1] + 1}
  IN UNION {UNION {Within(t, Plain(Deriving(t, j, [v |-> p[2], loop |-> FALSE])), "end") :
                     j \in bodies(p)} :
            p \in {p \in lists : Token(t, p[1]) = ")"}}
\* field ::= `[' exp `]' `=' exp | Name `=' exp | exp
Fields(t, i, k) ==
  LET keyed == IF Token(t, i) = "["
               THEN {j + 1 : j \in {j \in Within(t, Exp(t, i + 1, k), "]") :
                                      Token(t, j) = "="}}
               ELSE IF Token(t, i) = "Name" /\ Token(t, i + 1) = "=" THEN {i + 2}
               ELSE {}
      ends == {e[1] : e \in UNION {Exp(t, j, k) : j \in keyed \cup {i}}}
  IN {i} \cup ends \cup UNION {Fields(t, j + 1, k) :
                               j \in {j \in ends : Token(t, j) \in {",", ";"}}}
TableEnds(t, i, k) ==
  {j + 1 : j \in {j \in Fields(t, i + 1, k) : Token(t, j) = "}"}}

\* funcargs ::= `(' [explist] `)' | tableconstructor | String
FuncArgs(t, j, k) ==
  CASE Token(t, j) = "(" ->
         IF t[j].line # t[j - 1].line THEN {}
         ELSE Within(t, {<<j + 1, FALSE>>} \cup ExpList(t, j + 1, k), ")")
    [] Token(t, j) = "{" -> TableEnds(t, j, k)
    [] Token(t, j) = "String" -> {j + 1}
    [] OTHER -> {}
\* primaryexp -> prefixexp {`.' NAME | `[' exp `]' | `:' NAME funcargs | funcargs},
\* from a part of it that ends before j and is of some kind.
Primary(t, j, kind, k) ==
  LET calls == IF Token(t, j) # ":" THEN FuncArgs(t, j, k)
               ELSE IF Token(t, j + 1) = "Name" THEN FuncArgs(t, j + 2, k) ELSE {}
      fields ==
        CASE Token(t, j) = "." -> IF Token(t, j + 1) = "Name" THEN {j + 2} ELSE {}
          [] Token(t, j) = "[" -> Within(t, Exp(t, j + 1, k), "]")
          [] OTHER -> {}
  IN {<<j, kind>>} \cup UNION {Primary(t, i, "call", k) : i \in calls}
     \cup UNION {Primary(t, i, "variable", k) : i \in fields}
PrimaryExps(t, i, k) ==
  {p \in (CASE Token(t, i) = "Name" -> Primary(t, i + 1, "variable", k)
            [] Token(t, i) = "(" ->
                 UNION {Primary(t, j, "group", k) :
                          j \in Within(t, Exp(t, i + 1, k), ")")}
            [] OTHER -> {}) : Token(t, p[1]) # "("}

IfElseEnds(t, i, k) ==
  UNION {UNION {Exp(t, j, k) : j \in Within(t, Exp(t, l, k), "else")} :
           l \in Within(t, Exp(t, i + 1, k), "then")}
RECURSIVE ElseIfEnds(_, _, _)
ElseIfEnds(t, i, k) ==
  LET thens == Within(t, Exp(t, i + 1, k), "then")
      values == UNION {Exp(t, l, k) : l \in thens}
  IN IfElseEnds(t, i, k)
     \cup UNION {ElseIfEnds(t, e[1], k) :
                   e \in {e \in values : Token(t, e[1]) = "elseif"}}
SimpleEnds(t, i, k) ==
  CASE Token(t, i) \in {"nil", "true", "false", "Number", "String"} ->
         {<<i + 1, FALSE>>}
    [] Token(t, i) = "..." -> IF k.v THEN {<<i + 1, FALSE>>} ELSE {}
    [] Token(t, i) = "function" -> Plain(FuncBody(t, i + 1, k))
    [] Token(t, i) = "{" -> {<<j, FALSE>> : j \in TableEnds(t, i, k)}
    [] Token(t, i) = "if" -> ElseIfEnds(t, i, k)
    [] OTHER -> {<<p[1], TRUE>> : p \in PrimaryExps(t, i, k)}
\* exp -> {unop} asexp {binop exp}, asexp -> simpleexp [`::' typeannotation]
Exp(t, i, k) ==
  IF Token(t, i) \in {"not", "-", "#"} THEN Exp(t, i + 1, k)
  ELSE LET simple == SimpleEnds(t, i, k)
           ends == simple \cup UNION {Plain(TypeEnds(t, j, k)) : j \in Within(t, simple, "::")}
       IN ends \cup UNION {Exp(t, e[1] + 1, k) :
                             e \in {e \in ends : Token(t, e[1]) \in BinOps}}
ExpList(t, i, k) ==
  LET ends == Exp(t, i, k)
  IN ends \cup UNION {ExpList(t, e[1] + 1, k) :
                        e \in {e \in ends : Token(t, e[1]) = ","}}

BlockThen(t, i, k, word) == Within(t, Plain(Deriving(t, i, k)), word)
Looping(k) == [k EXCEPT !.loop = TRUE]
RECURSIVE NameList(_, _, _), NameDots(_, _), VarList(_, _, _), IfEnds(_, _, _)
NameList(t, i, k) ==
  LET ends == Binding(t, i, k)
  IN ends \cup UNION {NameList(t, j + 1, k) : j \in {j \in ends : Token(t, j) = ","}}
NameDots(t, i) ==
  IF Token(t, i) # "Name" THEN {}
  ELSE {i + 1} \cup IF Token(t, i + 1) = "." THEN NameDots(t, i + 2) ELSE {}
VarList(t, i, k) ==
  LET ends == {p[1] : p \in {p \in PrimaryExps(t, i, k) : p[2] = "variable"}}
  IN ends \cup UNION {VarList(t, j + 1, k) : j \in {j \in ends : Token(t, j) = ","}}
IfEnds(t, i, k) ==
  LET thens == Within(t, Exp(t, i + 1, k), "then")
      bodies == UNION {Deriving(t, j, k) : j \in thens}
  IN UNION {CASE Token(t, j) = "end" -> {j + 1}
              [] Token(t, j) = "else" -> BlockThen(t, j + 1, k, "end")
              [] Token(t, j) = "elseif" -> IfEnds(t, j, k)
              [] OTHER -> {} : j \in bodies}

\* The ends of the statements that start at i: <<j, open, last>>.
StatEnds(t, i, k) ==
  LET closed(js) == {<<j, FALSE, FALSE>> : j \in js}
      exps(es) == {<<e[1], e[2], FALSE>> : e \in es}
      counted == UNION {Exp(t, j, k) : j \in Within(t, Plain(Binding(t, i + 1, k)), "=")}
      steps == UNION {Exp(t, j, k) : j \in Within(t, counted, ",")}
      heads == steps \cup UNION {Exp(t, j, k) : j \in Within(t, steps, ",")}
               \cup UNION {ExpList(t, j, k) :
                             j \in Within(t, Plain(NameList(t, i + 1, k)), "in")}
  IN CASE Token(t, i) = "if" -> closed(IfEnds(t, i, k))
       [] Token(t, i) = "while" ->
            closed(UNION {BlockThen(t, j, Looping(k), "end") :
                            j \in Within(t, Exp(t, i + 1, k), "do")})
       [] Token(t, i) = "do" -> closed(BlockThen(t, i + 1, k, "end"))
       [] Token(t, i) = "for" ->
            closed(UNION {BlockThen(t, j, Looping(k), "end") :
                            j \in Within(t, heads, "do")})
       [] Token(t, i) = "repeat" ->
            exps(UNION {Exp(t, j, k) :
                          j \in BlockThen(t, i + 1, Looping(k), "until")})
       [] Token(t, i) = "function" ->
            LET names == NameDots(t, i + 1)
                methods == {j + 2 : j \in {j \in names : Token(t, j) = ":"
                                                        /\ Token(t, j + 1) = "Name"}}
            IN closed(UNION {FuncBody(t, j, k) : j \in names \cup methods})
       [] Token(t, i) = "local" ->
            IF Token(t, i + 1) = "function"
            THEN closed(IF Token(t, i + 2) = "Name" THEN FuncBody(t, i + 3, k) ELSE {})
            ELSE LET names == NameList(t, i + 1, k)
                 IN closed(names)
                    \cup exps(UNION {ExpList(t, j, k) :
                                       j \in Within(t, Plain(names), "=")})
       [] Token(t, i) = "return" ->
            {<<i + 1, FALSE, TRUE>>}
            \cup {<<e[1], e[2], TRUE>> : e \in ExpList(t, i + 1, k)}
       [] Token(t, i) = "break" -> IF k.loop THEN {<<i + 1, FALSE, TRUE>>} ELSE {}
       [] OTHER ->
            LET vars == VarList(t, i, k)
                word(j, w) == Token(t, j) = "Name" /\ t[j].v[2] = w
                alias == CASE word(i, "type") -> i + 1
                           [] word(i, "export") /\ word(i + 1, "type") -> i + 2
                           [] OTHER -> Len(t) + 1
                generics == IF Token(t, alias) # "Name" THEN {}
                            ELSE GenericEnds(t, alias + 1, TRUE, k)
                one == {p \in PrimaryExps(t, i, k) : p[2] = "variable"}
            IN {<<p[1], TRUE, FALSE>> :
                  p \in {p \in PrimaryExps(t, i, k) : p[2] = "call"}}
               \cup exps(UNION {ExpList(t, j, k) :
                                  j \in Within(t, Plain(vars), "=")})
               \cup exps(UNION {UNION {Exp(t, j, k) : j \in Within(t, one, op)} :
                                  op \in {"+=", "-=", "*=", "/=", "%=", "^=", "..="}})
               \cup closed(UNION {TypeEnds(t, j, k) :
                                    j \in Within(t, Plain(generics), "=")})
               \cup IF k.loop /\ word(i, "continue") /\ Token(t, i + 1) # "("
                    THEN {<<i + 1, TRUE, TRUE>>} ELSE {}

\* block ::= {stat [`;']} [laststat [`;']]
Deriving(t, i, k) ==
  {i} \cup
  UNION {LET after == {e[1]} \cup IF Token(t, e[1]) = ";" THEN {e[1] + 1} ELSE {}
         IN IF e[3] THEN after ELSE UNION {Deriving(t, j, k) : j \in after} :
         e \in {e \in StatEnds(t, i, k) : ~IsOpenCall(t, e)}}
Grammatical(t) ==
  Len(t) + 1 \in Deriving(t, 1, [v |-> TRUE, loop |-> FALSE])
=============================================================================
