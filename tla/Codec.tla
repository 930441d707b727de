--------------------------------- MODULE Codec ---------------------------------
(* The ISO 8583 codec gear: dotted keys of a message's Data, decode from the   *)
(* wire into them, encode back out of them, and what Process does with the     *)
(* result.  A value is a sequence of characters, "x" being one that is not     *)
(* valid UTF-8.                                                                *)
EXTENDS Integers, Sequences, SequencesExt

CONSTANTS Width   \* length of a fixed-width element
--------------------------------------------------------------------------------
(* FluxMsg.Set and Get.  Data is its leaves, [keys -> values], a key being the *)
(* parts between its dots; a map is a strict prefix of a key.                  *)
MapValue == [bytes |-> FALSE, v |-> <<"m", "a", "p">>]
Set(d, k, v) ==
  IF \E q \in DOMAIN d : IsStrictPrefix(q, k) THEN d
  ELSE [q \in {k} \cup {q \in DOMAIN d : ~IsStrictPrefix(k, q)} |-> IF q = k THEN v ELSE d[q]]
Get(d, k) ==
  IF k \in DOMAIN d THEN [ok |-> TRUE, v |-> d[k]]
  ELSE [ok |-> \E q \in DOMAIN d : IsStrictPrefix(k, q), v |-> MapValue]
--------------------------------------------------------------------------------
(* The spec compiles to [element -> [fixed, alias, parts]], parts being the    *)
(* aliases of the element's subfields; <<>> is no alias.                       *)
FieldKey(de) == <<"iso8583", "field", de>>
IsText(v) == "x" \notin ToSet(v)
Zeros(n) == [i \in 1..n |-> "0"]
Padded(v) == Zeros(Width - Len(v)) \o v

\* Variant of FixedWidth: the value as the library unpacks it.
FixedWidthNot(el, v) == v
FixedWidth(el, v) == IF el.fixed /\ IsText(v) /\ Len(v) < Width THEN Padded(v) ELSE v
\* Variant of storable: every value is text.
storableText(v) == [bytes |-> FALSE, v |-> v]
storable(v) == [bytes |-> ~IsText(v), v |-> v]

(* The library: unpacking strips the padding of a fixed-width element down to  *)
(* one character, packing puts it back.                                        *)
Trimmed(v) ==
  LET kept == {i \in DOMAIN v : v[i] # "0"} \cup {Len(v)}
  IN SubSeq(v, CHOOSE i \in kept : \A j \in kept : i <= j, Len(v))
Unpacked(el, v) == IF el.fixed /\ IsText(v) THEN Trimmed(v) ELSE v
Packed(el, v) == IF el.fixed /\ IsText(v) /\ Len(v) < Width THEN Padded(v) ELSE v

(* One present element: its alias, its own key, then its parts.                *)
DecodePart(el, de, v, d, i) ==
  LET raw == Set(d, FieldKey(de) \o <<ToString(i)>>, storable(<<v[i]>>))
  IN IF el.parts[i] = <<>> THEN raw ELSE Set(raw, el.parts[i], storable(<<v[i]>>))
DecodeField(sp, w, d, de) ==
  LET el == sp[de]
      v == FixedWidth(el, Unpacked(el, w.els[de]))
      aliased == IF el.alias = <<>> THEN d ELSE Set(d, el.alias, storable(v))
  IN FoldLeft(LAMBDA acc, i : DecodePart(el, de, v, acc, i), Set(aliased, FieldKey(de), storable(v)),
              [i \in 1..(IF Len(v) < Len(el.parts) THEN Len(v) ELSE Len(el.parts)) |-> i])
(* raw is "bad", or what the bytes say: [mti, els].                            *)
decode(sp, order, msg) ==
  IF msg.raw.bad THEN [err |-> TRUE, mti |-> "", msg |-> msg]
  ELSE [err |-> FALSE, mti |-> msg.raw.mti,
        msg |-> [msg EXCEPT !.data = FoldLeft(LAMBDA d, de : DecodeField(sp, msg.raw, d, de), @,
                                              SelectSeq(order, LAMBDA de : de \in DOMAIN msg.raw.els))]]

(* The alias of an element first, then its own key.                            *)
EncodedFrom(sp, d, de) ==
  IF sp[de].alias # <<>> /\ Get(d, sp[de].alias).ok THEN Get(d, sp[de].alias) ELSE Get(d, FieldKey(de))
(* A key of an element the spec does not have cannot be set.                   *)
Unknown(sp, d) == \E k \in DOMAIN d : Len(k) = 3 /\ k = FieldKey(k[3]) /\ k[3] \notin DOMAIN sp
encode(sp, msg) ==
  IF Unknown(sp, msg.data) THEN [err |-> TRUE, mti |-> msg.mti, msg |-> msg]
  ELSE [err |-> FALSE, mti |-> msg.mti,
        msg |-> [msg EXCEPT !.raw =
          [bad |-> FALSE, mti |-> msg.mti,
           els |-> [de \in {de \in DOMAIN sp : EncodedFrom(sp, msg.data, de).ok} |->
                      Packed(sp[de], EncodedFrom(sp, msg.data, de).v.v)]]]]
--------------------------------------------------------------------------------
(* Gear.Process.  g is [direction, onError, validation]; broken is what the    *)
(* spec's rules find: "none", "warn" or "reject".  No message has raw NoBytes. *)
NoBytes == [bad |-> TRUE, mti |-> "", els |-> <<>>]
Direction(g, msg) ==
  IF g.direction # "auto" THEN g.direction ELSE IF msg.hasRaw THEN "decode" ELSE "encode"
applyRules(g, broken) == g.validation = "enforce" /\ broken = "reject"
Process(sp, order, g, msg, broken) ==
  LET r == IF Direction(g, msg) = "decode" THEN decode(sp, order, msg) ELSE encode(sp, msg)
      rejected == ~r.err /\ g.validation # "off" /\ applyRules(g, broken)
      nothing == [port |-> "", reason |-> "", msg |-> r.msg]
  IN IF ~r.err /\ ~rejected
     THEN [nothing EXCEPT !.port = "out", !.msg = [r.msg EXCEPT !.mti = IF r.mti # "" THEN r.mti ELSE @]]
     ELSE IF g.onError = "reject"
     THEN [nothing EXCEPT !.port = "error", !.reason = IF rejected THEN "violation" ELSE "codec_failed"]
     ELSE nothing

(* subject.Field: what a rule reads of a decoded message.                      *)
SubjectField(d, de, subs) == Get(d, FieldKey(de) \o subs)
--------------------------------------------------------------------------------
(* What a decoded message carries survives the bus, which takes text only as   *)
(* valid UTF-8, and encodes to the bytes it came from.                         *)
Fresh(w) == [data |-> <<>>, raw |-> [bad |-> FALSE, mti |-> w.mti, els |-> w.els], mti |-> "", hasRaw |-> TRUE]
Same2(w, r) == r.mti = w.mti /\ r.els = w.els
CodecRoundTrip(sp, order, w) ==
  LET out == Process(sp, order, [direction |-> "decode", onError |-> "drop", validation |-> "off"], Fresh(w), "none").msg
  IN /\ \A k \in DOMAIN out.data : IsText(out.data[k].v) \/ out.data[k].bytes
     /\ Same2(w, Process(sp, order, [direction |-> "encode", onError |-> "drop", validation |-> "off"], out, "none").msg.raw)

(* A rule that compares a fixed-width element sees the width of the wire.      *)
WidthKept(sp, order, w) ==
  \A de \in DOMAIN w.els : SubjectField(decode(sp, order, Fresh(w)).msg.data, de, <<>>).v.v = w.els[de]

(* Refuted.  "every subfield under iso8583.field.<n>.<tag>": a rule can read   *)
(* the parts of an element that has them.                                      *)
SubfieldsStored(sp, order, w) ==
  \A de \in DOMAIN w.els : \A i \in DOMAIN sp[de].parts :
    i <= Len(w.els[de]) => SubjectField(decode(sp, order, Fresh(w)).msg.data, de, <<ToString(i)>>).ok
================================================================================
