------------------------------ MODULE Translation ------------------------------
(* Translation specs and the translate gear: what Load accepts, how Apply      *)
(* moves values from the aliases of one protocol to those of another, how an   *)
(* amount changes form, and what Process does with the result.  A value is a   *)
(* sequence of characters, <<>> none; an alias is the parts between its dots.  *)
EXTENDS Codec, FiniteSetsExt

CONSTANTS Currencies,    \* currencies: a set of [alpha, numeric, exponent]
          AmountDigits   \* iso8583AmountDigits
--------------------------------------------------------------------------------
(* Amounts.                                                                    *)
Digits == {"0", "1", "2", "3", "4", "5", "6", "7", "8", "9"}
digitsOnly(s) == s # <<>> /\ ToSet(s) \subseteq Digits
TrimLeft(s) ==
  LET kept == {i \in DOMAIN s : s[i] # "0"} IN IF kept = {} THEN <<>> ELSE SubSeq(s, Min(kept), Len(s))
TrimRight(s) == Reverse(TrimLeft(Reverse(s)))

(* strings.Cut at the first point.                                             *)
Point(s) == IF "." \in ToSet(s) THEN Min({i \in DOMAIN s : s[i] = "."}) ELSE Len(s) + 1
Whole(s) == LET w == SubSeq(s, 1, Point(s) - 1) IN IF w = <<>> THEN <<"0">> ELSE w
Fraction(s) == SubSeq(s, Point(s) + 1, Len(s))

minorToDecimal(minor, exp) ==
  LET t == TrimLeft(minor)
      p == IF Len(t) <= exp THEN Zeros(exp - Len(t) + 1) \o t ELSE t
  IN IF exp = 0 THEN p ELSE SubSeq(p, 1, Len(p) - exp) \o <<".">> \o SubSeq(p, Len(p) - exp + 1, Len(p))

\* Variant of decimalToMinor: decimals the currency does not have are cut off.
decimalToMinorCut(dec, exp) ==
  LET minor == TrimLeft(Whole(dec) \o SubSeq(Fraction(dec) \o Zeros(exp), 1, exp))
  IN [ok |-> digitsOnly(Whole(dec)), v |-> IF minor = <<>> THEN <<"0">> ELSE minor]
decimalToMinor(dec, exp) ==
  LET frac == Fraction(dec)
      minor == TrimLeft(Whole(dec) \o SubSeq(frac \o Zeros(exp), 1, exp))
  IN [ok |-> /\ digitsOnly(Whole(dec)) /\ (frac = <<>> \/ digitsOnly(frac))
             /\ Len(TrimRight(frac)) <= exp,
      v |-> IF minor = <<>> THEN <<"0">> ELSE minor]

NotConverted == [ok |-> FALSE, v |-> <<>>, cur |-> <<>>]
findCurrency(code) == {c \in Currencies : c.alpha = code \/ c.numeric = code}
convertAmount(amount, cur, kind) ==
  IF findCurrency(cur) = {} THEN NotConverted
  ELSE LET c == CHOOSE c \in findCurrency(cur) : TRUE
           m == decimalToMinor(amount, c.exponent)
       IN IF kind = "iso20022"
          THEN [ok |-> digitsOnly(amount), cur |-> c.alpha,
                v |-> IF digitsOnly(amount) THEN minorToDecimal(amount, c.exponent) ELSE <<>>]
          ELSE IF ~m.ok \/ Len(m.v) > AmountDigits THEN NotConverted
          ELSE [ok |-> TRUE, cur |-> c.numeric, v |-> Zeros(AmountDigits - Len(m.v)) \o m.v]
--------------------------------------------------------------------------------
(* A protocol is [id, kind, pairs : [messages -> the message that answers it,  *)
(* or ""], aliases : [messages -> aliases], currency : [amount aliases ->      *)
(* aliases], required : [messages -> aliases], mti : the alias of element 0].  *)
(* A spec is [protocols, tables, lookups, translations], each by its name.     *)
HasMessage(p, m) == m \in DOMAIN p.pairs
HasAlias(p, m, a) == a \in p.aliases[m]
CurrencyAlias(p, a) == IF a \in DOMAIN p.currency THEN {p.currency[a]} ELSE {}

FromProto(s, t) == s.protocols[t.fromSpec]
ToProto(s, t) == s.protocols[t.toSpec]

(* One binding: exactly one source, known names, an amount with its currency.  *)
Kinds(b) == Cardinality({k \in {"from", "value", "lookup", "generate"} : b[k] # <<>>})
LookupOK(s, t, b) ==
  b.lookup # <<>> =>
    /\ b.lookup[1] \in DOMAIN s.lookups
    /\ LET l == s.lookups[b.lookup[1]]
       IN b.lookup[2] \in l.fields /\ l.spec = t.fromSpec /\ HasAlias(FromProto(s, t), t.from, l.alias)
AmountOK(s, t, b) ==
  b.currency # <<>> => /\ Len(b.from) = 1 /\ HasAlias(FromProto(s, t), t.from, b.currency)
                       /\ CurrencyAlias(ToProto(s, t), b.to) # {}
BindingOK(s, t, b) ==
  /\ HasAlias(ToProto(s, t), t.to, b.to) /\ Kinds(b) = 1
  /\ \A a \in ToSet(b.from) : HasAlias(FromProto(s, t), t.from, a)
  /\ b.table # "" => b.table \in DOMAIN s.tables
  /\ LookupOK(s, t, b) /\ AmountOK(s, t, b)
checkTranslation(s, t) ==
  /\ {t.fromSpec, t.toSpec} \subseteq DOMAIN s.protocols
  /\ HasMessage(FromProto(s, t), t.from) /\ HasMessage(ToProto(s, t), t.to)
  /\ \A i \in DOMAIN t.bindings : BindingOK(s, t, t.bindings[i])
  /\ \A i, j \in DOMAIN t.bindings : t.bindings[i].to = t.bindings[j].to => i = j

Pair(p, m) == p.pairs[m]
checkPairing(s) ==
  \A n, o \in DOMAIN s.translations :
    LET a == s.translations[n]
        b == s.translations[o]
        back == Pair(FromProto(s, a), a.from)
    IN ~ (/\ back # "" /\ Pair(ToProto(s, a), a.to) # "" /\ b.fromSpec = a.toSpec /\ b.toSpec = a.fromSpec
          /\ b.from = Pair(ToProto(s, a), a.to) /\ b.to # back)
LoadTranslation(s) ==
  /\ DOMAIN s.protocols # {} /\ \A n \in DOMAIN s.translations : checkTranslation(s, s.translations[n])
  /\ checkPairing(s)
--------------------------------------------------------------------------------
(* A message is [data, id : [kinds -> the message it is, or ""], decoded : the *)
(* spec that decoded it, or ""].                                               *)
readString(d, k) == IF k \in DOMAIN d THEN d[k] ELSE <<>>
SourceMessage(p, msg) == msg.id[p.kind]
SetMessage(p, msg, m) ==
  [msg EXCEPT !.id[p.kind] = m, !.data = IF p.kind = "iso8583" /\ p.mti # <<>> THEN Set(@, p.mti, <<m>>) ELSE @]

SelectTranslation(s, name, msg) ==
  LET match == {n \in DOMAIN s.translations :
                  SourceMessage(FromProto(s, s.translations[n]), msg) = s.translations[n].from}
  IN IF name # "auto" THEN {name} \cap DOMAIN s.translations
     ELSE IF Cardinality(match) = 1 THEN match ELSE {}

(* "ok", "none" (nothing to write) or "err", and the value.                    *)
JoinNonEmpty(parts) == FoldLeft(LAMBDA a, p : IF p = <<>> THEN a ELSE IF a = <<>> THEN p ELSE a \o <<"/">> \o p, <<>>, parts)
Source(s, b, d) ==
  IF b.lookup = <<>> THEN JoinNonEmpty([i \in DOMAIN b.from |-> readString(d, b.from[i])]) \o b.value \o b.generate
  ELSE LET l == s.lookups[b.lookup[1]]
           k == readString(d, l.alias)
       IN IF k \in DOMAIN l.records THEN l.records[k] ELSE <<>>
value(s, b, d) ==
  LET v == Source(s, b, d)
      tb == s.tables[b.table]
  IN IF v = <<>> THEN [is |-> "none", v |-> v]
     ELSE IF b.table = "" THEN [is |-> "ok", v |-> v]
     ELSE IF v \in DOMAIN tb.values THEN [is |-> "ok", v |-> tb.values[v]]
     ELSE [is |-> IF tb.def = <<>> THEN "err" ELSE "ok", v |-> tb.def]
(* What one binding writes: an amount writes its currency too.                 *)
AmountWrites(p, b, c) == [ok |-> c.ok, w |-> b.to :> c.v @@ [a \in CurrencyAlias(p, b.to) |-> c.cur]]
ValueWrites(p, b, r, cur) ==
  CASE r.is = "none" -> [ok |-> TRUE, w |-> <<>>]
    [] r.is = "err" -> [ok |-> FALSE, w |-> <<>>]
    [] r.is = "ok" /\ b.currency = <<>> -> [ok |-> TRUE, w |-> b.to :> r.v]
    [] OTHER -> AmountWrites(p, b, convertAmount(r.v, cur, p.kind))
WritesOf(s, t, b, d) == ValueWrites(ToProto(s, t), b, value(s, b, d), readString(d, b.currency))

\* Variant of WritesAll: a binding sees what those before it wrote.
WritesAllInPlace(s, t, d) ==
  FoldLeft(LAMBDA acc, b : LET r == WritesOf(s, t, b, acc.w @@ d)
                           IN [ok |-> acc.ok /\ r.ok, w |-> IF acc.ok THEN r.w @@ acc.w ELSE acc.w],
           [ok |-> TRUE, w |-> <<>>], t.bindings)
(* Every binding reads the message as it arrived; the last write of an alias   *)
(* stands.                                                                     *)
WritesAll(s, t, d) ==
  FoldLeft(LAMBDA acc, b : LET r == WritesOf(s, t, b, d)
                           IN [ok |-> acc.ok /\ r.ok, w |-> IF acc.ok THEN r.w @@ acc.w ELSE acc.w],
           [ok |-> TRUE, w |-> <<>>], t.bindings)

(* The writes, in the order of their names, up to one under another value.     *)
Conflicts(d, k) == \E q \in DOMAIN d : IsStrictPrefix(q, k)
SetAll(d, w) ==
  FoldLeft(LAMBDA acc, k : IF acc.ok /\ ~Conflicts(acc.d, k) THEN [ok |-> TRUE, d |-> Set(acc.d, k, w[k])]
                           ELSE [acc EXCEPT !.ok = FALSE],
           [ok |-> TRUE, d |-> d], SetToSortSeq(DOMAIN w, LAMBDA a, b : Len(a) < Len(b)))

\* Variant of Missing: only what the message arrived without counts.
MissingSource(s, t, msg) == {a \in ToProto(s, t).required[t.to] : readString(msg.data, a) = <<>> /\ a \in FromProto(s, t).aliases[t.from]}
Missing(s, t, msg) == {a \in ToProto(s, t).required[t.to] : readString(msg.data, a) = <<>>}
OtherSpec(s, t, msg) == msg.decoded \notin {"", FromProto(s, t).id}
Finish(s, t, out) ==
  [ok |-> TRUE, msg |-> out, findings |-> Missing(s, t, out) \cup IF OtherSpec(s, t, out) THEN {<<"spec">>} ELSE {}]
Write(s, t, msg, set) ==
  IF set.ok THEN Finish(s, t, SetMessage(ToProto(s, t), [msg EXCEPT !.data = set.d], t.to))
  ELSE [ok |-> FALSE, msg |-> [msg EXCEPT !.data = set.d], findings |-> {}]
ApplyWrites(s, t, msg, all) ==
  IF all.ok THEN Write(s, t, msg, SetAll(msg.data, all.w)) ELSE [ok |-> FALSE, msg |-> msg, findings |-> {}]
Apply(s, t, msg) == ApplyWrites(s, t, msg, WritesAll(s, t, msg.data))

(* Gear.Init and Gear.Process of the translate gear.                           *)
InitTranslate(s, g) ==
  /\ LoadTranslation(s) /\ g.translation \in {"auto"} \cup DOMAIN s.translations
  /\ g.validation \in {"off", "warn", "enforce"} /\ g.onError \in {"drop", "reject", "kill"}
SelectAndApply(s, g, msg) ==
  LET ts == SelectTranslation(s, g.translation, msg)
  IN IF ts = {} THEN [ok |-> FALSE, msg |-> msg, findings |-> {}]
     ELSE Apply(s, s.translations[CHOOSE n \in ts : TRUE], msg)
Violates(g, r) == r.ok /\ g.validation = "enforce" /\ r.findings # {}
Leaves(g, r) ==
  IF r.ok /\ ~Violates(g, r) THEN [port |-> "out", reason |-> "", msg |-> r.msg]
  ELSE [port |-> IF g.onError = "reject" THEN "error" ELSE IF g.onError = "kill" THEN "kill" ELSE "",
        reason |-> IF Violates(g, r) THEN "violation" ELSE "translation_failed", msg |-> r.msg]
ProcessTranslate(s, g, msg) == Leaves(g, SelectAndApply(s, g, msg))
--------------------------------------------------------------------------------
(* Under enforce, a message that leaves a translate gear is the target message *)
(* with every field that message requires, decoded by the spec the translation *)
(* is for; with on_error reject the others all leave on the error port.        *)
EnforcedIsComplete(s, g, msg) ==
  \A r \in {ProcessTranslate(s, g, msg)} :
    LET t == s.translations[CHOOSE n \in SelectTranslation(s, g.translation, msg) : TRUE]
    IN InitTranslate(s, g) /\ g.validation = "enforce" =>
       /\ r.port = "out" => \A a \in ToProto(s, t).required[t.to] : readString(r.msg.data, a) # <<>>
       /\ r.port = "out" => SourceMessage(ToProto(s, t), r.msg) = t.to /\ ~OtherSpec(s, t, msg)
       /\ g.onError = "reject" => r.port \in {"out", "error"}

(* The order of bindings in a spec does not matter, though an alias one reads  *)
(* may be one that another writes, as long as each alias has one writer.       *)
Writers(s, t) == [i \in DOMAIN t.bindings |->
  {t.bindings[i].to} \cup IF t.bindings[i].currency = <<>> THEN {} ELSE CurrencyAlias(ToProto(s, t), t.bindings[i].to)]
OneWriter(s, t) == \A i, j \in DOMAIN t.bindings : i # j => Writers(s, t)[i] \cap Writers(s, t)[j] = {}
Turned(t) == [t EXCEPT !.bindings = Reverse(@)]
OrderFree(s, msg) ==
  \A n \in DOMAIN s.translations :
    LET t == s.translations[n]
    IN LoadTranslation(s) /\ OneWriter(s, t) =>
         \A a \in {Apply(s, t, msg)}, b \in {Apply(s, Turned(t), msg)} : a.ok = b.ok /\ (a.ok => a.msg = b.msg)

(* An amount of ISO 8583 comes back from ISO 20022 digit for digit, in either  *)
(* form of the currency, with a digit before the point; and a decimal amount   *)
(* that is converted at all loses nothing.                                     *)
AmountRoundTrip(minor, dec) ==
  \A c \in Currencies : \A code \in {c.alpha, c.numeric} :
    \A there \in {convertAmount(minor, code, "iso20022")}, minors \in {convertAmount(dec, code, "iso8583")} :
    LET back == convertAmount(there.v, there.cur, "iso8583")
        again == convertAmount(minors.v, minors.cur, "iso20022").v
    IN /\ Len(minor) = AmountDigits => there.v[1] # "." /\ back = [ok |-> TRUE, v |-> minor, cur |-> c.numeric]
       /\ minors.ok => /\ TrimLeft(Whole(again)) = TrimLeft(Whole(dec))
                       /\ TrimRight(Fraction(again)) = TrimRight(Fraction(dec))

(* Refuted.  "is written twice": no alias of an accepted spec has two writers. *)
WrittenOnce(s) == \A n \in DOMAIN s.translations : LoadTranslation(s) => OneWriter(s, s.translations[n])

(* Refuted.  "auto to choose the translation whose from message is the message *)
(* that arrives": a message that a translate gear just made is found by the    *)
(* next one.                                                                   *)
AutoFindsArrived(s, msg) ==
  \A n, o \in DOMAIN s.translations :
    LET t == s.translations[n]
        u == s.translations[o]
    IN LoadTranslation(s) /\ SelectTranslation(s, "auto", msg) = {n} /\ Apply(s, t, msg).ok
         /\ u.fromSpec = t.toSpec /\ u.from = t.to /\ \A x \in DOMAIN s.translations \ {o} : s.translations[x].from # t.to
       => SelectTranslation(s, "auto", Apply(s, t, msg).msg) = {o}
================================================================================
