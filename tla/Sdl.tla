---------------------------------- MODULE Sdl ----------------------------------
(* The semantic layer of an ISO 8583 spec: the `when` expressions, parsed and  *)
(* answered against a message, the rules a validator applies, and the checks   *)
(* of a spec's references when it is loaded.                                   *)
EXTENDS Integers, Sequences, SequencesExt, FiniteSets

CONSTANTS MaxWhenDepth,   \* maxWhenDepth
          Paths,          \* texts that address a declared element, or a part of one
          NumberOf        \* [texts -> number], the texts that read as a number

Ops == {"==", "!=", "<", "<=", ">", ">="}
--------------------------------------------------------------------------------
(* Values: a string, a boolean, or nothing.                                    *)
strValue(s) == [absent |-> FALSE, isBool |-> FALSE, b |-> FALSE, s |-> s, numeric |-> FALSE]
boolValue(b) == [absent |-> FALSE, isBool |-> TRUE, b |-> b, s |-> "", numeric |-> FALSE]
absentValue == [absent |-> TRUE, isBool |-> FALSE, b |-> FALSE, s |-> "", numeric |-> FALSE]

(* Nodes of the parsed tree, all of one shape.                                 *)
Node(k, of) == [k |-> k, of |-> of, path |-> "", op |-> "", v |-> absentValue]
litNode(v) == [Node("lit", <<>>) EXCEPT !.v = v]
mtiNode == Node("mti", <<>>)
callNode(k, path) == [Node(k, <<>>) EXCEPT !.path = path]
cmpNode(l, op, r) == [Node("cmp", <<l, r>>) EXCEPT !.op = op]
notNode(n) == Node("not", <<n>>)
--------------------------------------------------------------------------------
(* The recursive descent.  A token is [q, t]: its text, and whether it is      *)
(* quoted.  A step is the node it built and the token it stands at.            *)
Fail == [ok |-> FALSE, n |-> mtiNode, at |-> 0]
Step(n, at) == [ok |-> TRUE, n |-> n, at |-> at]
Tok(ts, i) == IF i \in DOMAIN ts THEN ts[i] ELSE [q |-> FALSE, t |-> ""]
Is(ts, i, t) == Tok(ts, i) = [q |-> FALSE, t |-> t]
IsOp(ts, i) == ~Tok(ts, i).q /\ Tok(ts, i).t \in Ops

parseCall(ts, i) ==
  LET name == Tok(ts, i).t
      path == Tok(ts, i + 2)
  IN IF Is(ts, i + 1, "(") /\ ~path.q /\ path.t \in Paths /\ Is(ts, i + 3, ")")
     THEN Step(callNode(name, path.t), i + 4) ELSE Fail

parseOperand(ts, i) ==
  LET tok == Tok(ts, i)
  IN IF tok.q THEN Step(litNode(strValue(tok.t)), i + 1)
     ELSE CASE tok.t \in {"field", "present"} -> parseCall(ts, i)
            [] tok.t = "mti" -> Step(mtiNode, i + 1)
            [] tok.t \in {"true", "false"} -> Step(litNode(boolValue(tok.t = "true")), i + 1)
            [] tok.t \in DOMAIN NumberOf -> Step(litNode(strValue(tok.t)), i + 1)
            [] OTHER -> Fail

(* What may stand alone: a presence and a boolean, and nothing else.           *)
Condition(n) == n.k = "present" \/ (n.k = "lit" /\ n.v.isBool)
parseComparison(ts, i) ==
  LET l == parseOperand(ts, i)
      r == parseOperand(ts, l.at + 1)
  IN IF ~l.ok THEN Fail
     ELSE IF IsOp(ts, l.at)
     THEN IF r.ok THEN Step(cmpNode(l.n, Tok(ts, l.at).t, r.n), r.at) ELSE Fail
     ELSE IF Condition(l.n) THEN l ELSE Fail

One(k, ns) == IF Len(ns) = 1 THEN ns[1] ELSE Node(k, ns)
Deeper(d, step) == IF d > MaxWhenDepth THEN Fail ELSE step

RECURSIVE parseExpr(_, _, _)
RECURSIVE parseNot(_, _, _)
parsePrimary(ts, i, d) ==
  Deeper(d, LET inner == parseExpr(ts, i + 1, d + 1)
            IN IF ~Is(ts, i, "(") THEN parseComparison(ts, i)
               ELSE IF inner.ok /\ Is(ts, inner.at, ")") THEN Step(inner.n, inner.at + 1) ELSE Fail)
parseNot(ts, i, d) ==
  Deeper(d, LET inner == parseNot(ts, i + 1, d + 1)
            IN IF ~Is(ts, i, "!") THEN parsePrimary(ts, i, d + 1)
               ELSE IF inner.ok THEN Step(notNode(inner.n), inner.at) ELSE Fail)
\* Variant of parseAnd: the right side of && takes in the || that follows it.
parseAndGreedy(ts, i, d) ==
  Deeper(d, LET first == parseNot(ts, i, d + 1)
                rest == parseExpr(ts, first.at + 1, d + 1)
            IN IF ~first.ok \/ ~Is(ts, first.at, "&&") THEN first
               ELSE IF rest.ok THEN Step(Node("and", <<first.n, rest.n>>), rest.at) ELSE Fail)
RECURSIVE AndMore(_, _, _, _)
AndMore(ts, ns, at, d) ==
  LET next == parseNot(ts, at + 1, d + 1)
  IN IF ~Is(ts, at, "&&") THEN Step(One("and", ns), at)
     ELSE IF next.ok THEN AndMore(ts, Append(ns, next.n), next.at, d) ELSE Fail
parseAnd(ts, i, d) ==
  Deeper(d, LET first == parseNot(ts, i, d + 1)
            IN IF first.ok THEN AndMore(ts, <<first.n>>, first.at, d) ELSE Fail)
RECURSIVE OrMore(_, _, _, _)
OrMore(ts, ns, at, d) ==
  LET next == parseAnd(ts, at + 1, d + 1)
  IN IF ~Is(ts, at, "||") THEN Step(One("or", ns), at)
     ELSE IF next.ok THEN OrMore(ts, Append(ns, next.n), next.at, d) ELSE Fail
parseExpr(ts, i, d) ==
  Deeper(d, LET first == parseAnd(ts, i, d + 1)
            IN IF first.ok THEN OrMore(ts, <<first.n>>, first.at, d) ELSE Fail)
ParseWhen(ts) == LET r == parseExpr(ts, 1, 0) IN IF r.ok /\ r.at = Len(ts) + 1 THEN r ELSE Fail

RECURSIVE Refs(_)
Refs(n) == IF n.k \in {"field", "present"} THEN {n.path} ELSE UNION {Refs(c) : c \in ToSet(n.of)}
--------------------------------------------------------------------------------
(* Evaluation.  A message is [mti, fields], the fields by path.                *)
truth(v) == v.isBool /\ v.b
IsNumber(v) == ~v.isBool /\ ~v.absent /\ v.s \in DOMAIN NumberOf

\* Variant of Same: an element of a numeric kind compares by its characters too.
SameText(l, r) == IF l.isBool \/ r.isBool THEN l.isBool /\ r.isBool /\ l.b = r.b ELSE l.s = r.s
Same(l, r) ==
  CASE l.isBool \/ r.isBool -> l.isBool /\ r.isBool /\ l.b = r.b
    [] ~(l.isBool \/ r.isBool) /\ (l.numeric \/ r.numeric) ->
         IsNumber(l) /\ IsNumber(r) /\ NumberOf[l.s] = NumberOf[r.s]
    [] OTHER -> l.s = r.s

Ordered2(op, a, b) == CASE op = "<" -> a < b [] op = "<=" -> a <= b [] op = ">" -> a > b [] op = ">=" -> a >= b
Compare(op, l, r) ==
  CASE l.absent \/ r.absent -> FALSE
    [] ~(l.absent \/ r.absent) /\ op = "==" -> Same(l, r)
    [] ~(l.absent \/ r.absent) /\ op = "!=" -> ~Same(l, r)
    [] OTHER -> IsNumber(l) /\ IsNumber(r) /\ Ordered2(op, NumberOf[l.s], NumberOf[r.s])

comparesNumerically(kind) == kind \in {"amount", "date", "time", "datetime", "numeric"}

(* kindOf is what BindKinds tells a field node.                                *)
RECURSIVE eval(_, _, _)
eval(n, m, kindOf) ==
  CASE n.k = "or" -> boolValue(\E c \in ToSet(n.of) : truth(eval(c, m, kindOf)))
    [] n.k = "and" -> boolValue(\A c \in ToSet(n.of) : truth(eval(c, m, kindOf)))
    [] n.k = "not" -> boolValue(~truth(eval(n.of[1], m, kindOf)))
    [] n.k = "cmp" -> boolValue(Compare(n.op, eval(n.of[1], m, kindOf), eval(n.of[2], m, kindOf)))
    [] n.k = "present" -> boolValue(n.path \in DOMAIN m.fields)
    [] n.k = "field" -> IF n.path \in DOMAIN m.fields
                        THEN [strValue(m.fields[n.path]) EXCEPT !.numeric = comparesNumerically(kindOf[n.path])]
                        ELSE absentValue
    [] n.k = "mti" -> strValue(m.mti)
    [] n.k = "lit" -> n.v
Eval(n, m, kindOf) == truth(eval(n, m, kindOf))
--------------------------------------------------------------------------------
(* The validator.  A spec s has fields, [path -> [kind, set, rules]], the      *)
(* names of its messages, value sets [closed, values], and checks.  A rule is  *)
(* [mtis, usage, when, set]; Always is the condition of one that has none, and *)
(* "" the value set.                                                           *)
Always == litNode(boolValue(TRUE))
KindOf(s) == [p \in Paths |-> IF p \in DOMAIN s.fields THEN s.fields[p].kind ELSE ""]
valueSetFor(s, name) == IF name \in DOMAIN s.enums THEN s.enums[name] ELSE [closed |-> FALSE, values |-> {}]
Holds(s, r, m) == m.mti \in r.mtis /\ Eval(r.when, m, KindOf(s))
\* Variant of Applied: the first rule that holds decides, and no other.
AppliedFirst(s, p, m) ==
  LET held == SelectSeq(s.fields[p].rules, LAMBDA r : Holds(s, r, m))
  IN IF held = <<>> THEN {} ELSE {Head(held)}
Applied(s, p, m) == {r \in ToSet(s.fields[p].rules) : Holds(s, r, m)}
RuleSet(s, p, r) == valueSetFor(s, IF r.set # "" THEN r.set ELSE s.fields[p].set)
Broken(s, p, r, m) ==
  LET present == p \in DOMAIN m.fields
  IN CASE r.usage = "mandatory" /\ ~present -> TRUE
       [] r.usage = "forbidden" -> present
       [] OTHER -> present /\ RuleSet(s, p, r).closed /\ m.fields[p] \notin RuleSet(s, p, r).values
Level(c) == IF c.severity = "warn" THEN "warn" ELSE "reject"
ValidateMsg(s, m) ==
  {[at |-> p, severity |-> "reject"] : p \in {p \in DOMAIN s.fields : \E r \in Applied(s, p, m) : Broken(s, p, r, m)}}
  \cup {[at |-> "check", severity |-> Level(c)] :
          c \in {c \in s.checks : m.mti \in c.mtis /\ ~Eval(c.assert, m, KindOf(s))}}
Rejects(s, m) == \E v \in ValidateMsg(s, m) : v.severity = "reject"
--------------------------------------------------------------------------------
(* checkWhenCycles: a depth-first walk over the elements that conditions read, *)
(* deps being [elements -> elements] and 0, 1, 2 unvisited, on the path, done. *)
Reads(s, p) == IF p \in DOMAIN s.fields THEN UNION {Refs(r.when) : r \in ToSet(s.fields[p].rules)} ELSE {}
Deps(s) == [p \in Paths |-> Reads(s, p) \ {p}]
\* Variant of Closes: an element that was left before is taken for one on the path.
ClosesDone(state, next) == state[next] # 0
Closes(state, next) == state[next] = 1
RECURSIVE walk(_, _, _)
RECURSIVE WalkEach(_, _, _)
WalkEach(deps, todo, w) ==
  IF w.found \/ todo = <<>> THEN w
  ELSE LET next == Head(todo)
       IN CASE Closes(w.state, next) -> [w EXCEPT !.found = TRUE]
            [] ~Closes(w.state, next) /\ w.state[next] = 0 -> WalkEach(deps, Tail(todo), walk(deps, next, w))
            [] OTHER -> WalkEach(deps, Tail(todo), w)
walk(deps, de, w) ==
  LET r == WalkEach(deps, SetToSeq(deps[de]), [w EXCEPT !.state[de] = 1])
  IN IF r.found THEN r ELSE [r EXCEPT !.state[de] = 2]
RECURSIVE WalkFrom(_, _, _)
WalkFrom(deps, todo, w) ==
  IF w.found \/ todo = <<>> THEN w
  ELSE WalkFrom(deps, Tail(todo), IF w.state[Head(todo)] # 0 THEN w ELSE walk(deps, Head(todo), w))
checkWhenCycles(deps) ==
  WalkFrom(deps, SetToSeq(DOMAIN deps), [found |-> FALSE, state |-> [d \in DOMAIN deps |-> 0]]).found

(* resolveReferences, of what a validator reads.                               *)
checkValuesRef(s, name) == name = "" \/ name \in DOMAIN s.enums
checkWhen(s, n) == Refs(n) \subseteq DOMAIN s.fields
RuleResolves(s, r) == checkValuesRef(s, r.set) /\ r.mtis \subseteq s.catalog /\ checkWhen(s, r.when)
CheckResolves(s, c) == c.mtis \subseteq s.catalog /\ c.severity \in {"", "reject", "warn"} /\ checkWhen(s, c.assert)
resolveReferences(s) ==
  /\ \A p \in DOMAIN s.fields : /\ checkValuesRef(s, s.fields[p].set)
                              /\ \A r \in ToSet(s.fields[p].rules) : RuleResolves(s, r)
  /\ \A c \in s.checks : CheckResolves(s, c)
  /\ ~checkWhenCycles(Deps(s))
--------------------------------------------------------------------------------
(* An expression as a reader of the grammar writes it: && binds tighter than   *)
(* ||, and ! than both.                                                        *)
Word(t) == [q |-> FALSE, t |-> t]
Between(words, t) == IF words = <<>> THEN <<>> ELSE FoldLeft(LAMBDA acc, w : acc \o <<Word(t)>> \o w, Head(words), Tail(words))
Loose(n, k) == CASE k = "or" -> n.k = "or" [] k \in {"and", "not"} -> n.k \in {"or", "and"} [] OTHER -> FALSE
RECURSIVE Written(_)
Within(n, k) == IF Loose(n, k) THEN <<Word("(")>> \o Written(n) \o <<Word(")")>> ELSE Written(n)
Written(n) ==
  CASE n.k = "or" -> Between([i \in DOMAIN n.of |-> Within(n.of[i], "or")], "||")
    [] n.k = "and" -> Between([i \in DOMAIN n.of |-> Within(n.of[i], "and")], "&&")
    [] n.k = "not" -> <<Word("!")>> \o Within(n.of[1], "not")
    [] n.k = "cmp" -> Written(n.of[1]) \o <<Word(n.op)>> \o Written(n.of[2])
    [] n.k \in {"field", "present"} -> <<Word(n.k), Word("("), Word(n.path), Word(")")>>
    [] n.k = "mti" -> <<Word("mti")>>
    [] n.k = "lit" -> <<IF n.v.isBool THEN Word(IF n.v.b THEN "true" ELSE "false") ELSE [q |-> TRUE, t |-> n.v.s]>>
(* Levels of the grammar an expression goes down: one for a !, four for a      *)
(* parenthesis.                                                                *)
RECURSIVE Levels(_)
Levels(n) ==
  IF n.k \in {"or", "and", "not"}
  THEN LET down == {Levels(c) + (IF Loose(c, n.k) THEN 4 ELSE 0) : c \in ToSet(n.of)}
       IN (IF n.k = "not" THEN 1 ELSE 0) + (CHOOSE x \in down : \A y \in down : y <= x)
  ELSE 3

(* What is written is read back as it was meant, and refused only when it is   *)
(* nested too deep.                                                            *)
WhenReadBack(n) == ParseWhen(Written(n)) = IF Levels(n) <= MaxWhenDepth THEN Step(n, Len(Written(n)) + 1) ELSE Fail

(* An element the spec calls a number is at most a value when it is less or    *)
(* equal, however it is padded; and no comparison holds of what is not there.  *)
OrderAgrees(p, x, m, kindOf) ==
  LET Is2(op) == Eval(cmpNode(callNode("field", p), op, litNode(strValue(x))), m, kindOf)
  IN /\ comparesNumerically(kindOf[p]) => (Is2("<=") <=> Is2("<") \/ Is2("=="))
     /\ p \notin DOMAIN m.fields => \A op \in Ops : ~Is2(op)

(* The walk reports a cycle exactly when the conditions have one.              *)
CyclesFound(deps) ==
  LET Reach[n \in 0..Cardinality(DOMAIN deps)] ==
        IF n = 0 THEN deps ELSE [d \in DOMAIN deps |-> Reach[n - 1][d] \cup UNION {Reach[n - 1][e] : e \in Reach[n - 1][d]}]
  IN checkWhenCycles(deps) <=> \E d \in DOMAIN deps : d \in Reach[Cardinality(DOMAIN deps)][d]

(* Rules only restrict: a message that a spec accepts is accepted with any of  *)
(* its rules taken out, so that a rule can be added to a live fleet as a       *)
(* warning first.                                                              *)
RulesOnlyRestrict(s, m) ==
  \A p \in DOMAIN s.fields : \A i \in DOMAIN s.fields[p].rules :
    ~Rejects(s, m) => ~Rejects([s EXCEPT !.fields[p].rules = RemoveAt(@, i)], m)

(* Refuted.  "The first entry whose condition holds decides the field's        *)
(* usage": a later one does not add a violation of it.                         *)
FirstRuleDecides(s, m) ==
  \A p \in DOMAIN s.fields :
    p \in DOMAIN m.fields => ((\E r \in Applied(s, p, m) : r.usage = "forbidden") <=> (\E r \in AppliedFirst(s, p, m) : r.usage = "forbidden"))

(* Refuted.  "a field conditioned on itself is caught below": a spec with such *)
(* a field does not load.                                                      *)
SelfCaught(s) == resolveReferences(s) => \A p \in DOMAIN s.fields : p \notin Reads(s, p)

(* Refuted.  "closed holds the value sets a field's value must belong to": a   *)
(* message of the catalog with another value is rejected.                      *)
ClosedMeansClosed(s, m) ==
  resolveReferences(s) /\ m.mti \in s.catalog =>
    \A p \in DOMAIN s.fields \cap DOMAIN m.fields :
      LET set == valueSetFor(s, s.fields[p].set)
      IN set.closed /\ m.fields[p] \notin set.values => Rejects(s, m)
================================================================================
