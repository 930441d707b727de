-------------------------------- MODULE MCPure --------------------------------
EXTENDS Routes, Frames, Bridge, Sdl, Codec, Wasm, Translation

VARIABLE input

Ref(rack, gear, port) == [rack |-> rack, gear |-> gear, port |-> port]
OneRack(n) == [name |-> n, group |-> "", labels |-> FALSE, defaults |-> FALSE]
AGear(n, t, d) == [name |-> n, type |-> t, deploy |-> d, inputs |-> {}, outputs |-> {}, events |-> {}]
Racks == {"r1", "r2"}
AnyRack == Racks \cup {""}

(* One wire between two gears, every way of pinning and of addressing.        *)
OneWire ==
  {[version |-> "1", racks |-> rs,
    gears |-> <<AGear("a", "io", da), AGear("b", "io", db)>>,
    wires |-> <<[from |-> Ref(ra, "a", "out"), to |-> Ref(rb, "b", "in"), lane |-> l]>>] :
     rs \in {<<>>, <<OneRack("r1"), OneRack("r2")>>},
     da \in AnyRack, db \in AnyRack, ra \in AnyRack, rb \in AnyRack,
     l \in {"", "hot", "guaranteed", "other"}}

(* Two wires between three gears of any kind.                                 *)
TwoWires ==
  {[version |-> "1", racks |-> <<OneRack("r1"), OneRack("r2")>>,
    gears |-> <<AGear("a", "codec", ""), AGear("b", tb, db), AGear("c", tc, dc)>>,
    wires |-> <<[from |-> Ref("", f1, "out"), to |-> Ref("", t1, "in"), lane |-> ""],
                [from |-> Ref("", f2, "out"), to |-> Ref("", t2, "in"), lane |-> ""]>>] :
     tb \in {"codec", "io", "opaque"}, tc \in {"codec", "io"}, db \in AnyRack, dc \in AnyRack,
     f1 \in {"a", "b"}, t1 \in {"b", "c"}, f2 \in {"a", "b", "c"}, t2 \in {"a", "b", "c"}}

(* Frame lengths at and around what two digits hold, both orders.              *)
FrameCfgs == [size : {2, 4}, little : BOOLEAN, includes : BOOLEAN]
Payload(n) == [i \in 1..n |-> i % B]
Framed == [kind : {"frame"}, c : FrameCfgs, p : {Payload(n) : n \in 0..MaxUint16 + 1}]

(* Byte streams for every splitter, cut anywhere.                              *)
SplitCfgs ==
  {[framing |-> "length", size |-> 2, delim |-> <<>>, include |-> FALSE]} \cup
  [framing : {"prefix", "suffix"}, size : {0}, delim : {<<1>>, <<1, 1>>, <<1, 0>>}, include : BOOLEAN]
Split == UNION {[kind : {"split"}, c : SplitCfgs, data : [1..n -> 0..(B - 1)], k : 0..n] : n \in 0..5}

(* Frames with up to three bitmaps.                                            *)
Inspected ==
  [kind : {"inspect"},
   f : [len : 4..14, header : {0, 1, 2}, mti : {2}, unit : {1, 2},
        bits : [1..3 -> {b \in SUBSET (1..Bits) : Cardinality(b) <= 2}]]]

(* What a bento gear is configured with, and the messages it takes.            *)
Wired == [kind : {"wiring"}, c : [inputs : 0..1, outputs : 0..2, events : 0..2,
                                  input : {"", "own"}, output : {"", "own"}, buffer : {"", "own"}]]
Metas == {<<>>} \cup [{"peer.ip"} -> {"v"}]
Crossing == [kind : {"cross"}, m : [data : {"", "fields"}, raw : {"", "json", "bytes"}, id : {"i"},
                                    trace : {"", "t"}, ref : {"", "r"}, path : {"", "p"}, meta : Metas]]
Names == {<<"a">>, <<"b">>, <<"a", "b">>}
NamePairs == [kind : {"names"}, a : Names \X Names \X Names, b : Names \X Names \X Names]

(* Expressions of up to two operators, negated or not, and a few deeper ones.  *)
Texts == [t \in {"00", "0", "9"} |-> IF t = "9" THEN 9 ELSE 0]
SomePaths == {"4", "39"}
Leaf == {callNode("present", "4"), litNode(boolValue(FALSE)), cmpNode(callNode("field", "39"), "!=", litNode(strValue("00"))),
         cmpNode(callNode("present", "39"), "==", litNode(boolValue(FALSE)))}
Once == Leaf \cup {notNode(n) : n \in Leaf} \cup UNION {{Node(k, ns) : ns \in Leaf \X Leaf} : k \in {"and", "or"}}
Twice == Once \cup {notNode(n) : n \in Once} \cup UNION {{Node(k, ns) : ns \in Once \X Once} : k \in {"and", "or"}}
Deep == {notNode(Node("or", <<a, notNode(Node("and", <<b, n>>))>>)) : a \in Leaf, b \in Leaf, n \in Once}
Whens == [kind : {"when"}, n : Twice \cup Deep]
Compared == [kind : {"compare"}, x : {"00", "0", "9", "x"}, as : {"amount", "code"},
             m : {[mti |-> "0100", fields |-> f] : f \in {<<>>} \cup [{"4"} -> {"00", "0", "9", "x"}]}]
Cyclic == [kind : {"deps"}, deps : [1..3 -> SUBSET (1..3)] \cup [1..4 -> {{}, {1}, {2}, {3, 4}, {1, 4}}]]

(* Specs of one ruled element that may read itself or another one.             *)
Conditions == {Always, callNode("present", "4"), cmpNode(callNode("field", "39"), "==", litNode(strValue("00")))}
ARule == [mtis : {{"0100"}}, usage : {"mandatory", "optional", "forbidden"}, when : Conditions, set : {"", "open"}]
Elements(rs) == [p \in SomePaths |-> IF p = "4" THEN [kind |-> "amount", set |-> "codes", rules |-> rs]
                                               ELSE [kind |-> "code", set |-> "", rules |-> <<>>]]
SomeEnums == [e \in {"codes", "open"} |-> [closed |-> e = "codes", values |-> {"00"}]]
Checks == {{}} \cup {{[mtis |-> {"0100"}, severity |-> s, assert |-> callNode("present", "39")]} : s \in {"", "warn"}}
Ruled == [kind : {"rules"}, 
          s : {[fields |-> Elements(rs), catalog |-> {"0100", "0110"}, enums |-> SomeEnums, checks |-> c] :
                 rs \in {<<>>} \cup {<<r>> : r \in ARule} \cup ARule \X ARule, c \in Checks},
          m : {[mti |-> t, fields |-> f] : t \in {"0100", "0110"},
                 f \in {<<>>} \cup UNION {[d -> {"00", "9"}] : d \in {{"4"}, {"39"}, SomePaths}}}]

(* Three elements, one of them binary or composite, with and without aliases.  *)
Order == <<"2", "3", "52">>
Element(fixed, alias, parts) == [fixed |-> fixed, alias |-> alias, parts |-> parts]
Compiled ==
  {[de \in {"2", "3", "52"} |->
      CASE de = "2" -> Element(FALSE, a2, <<>>) [] de = "3" -> Element(p3 = <<>>, a3, p3) [] de = "52" -> Element(FALSE, a52, <<>>)] :
     a2 \in {<<>>, <<"pan">>, <<"card", "pan">>}, a3 \in {<<>>, <<"proc">>, <<"card", "type">>},
     a52 \in {<<>>, <<"pin">>}, p3 \in {<<>>, <<<<>>, <<>>>>, <<<<"kind">>, <<"proc", "from">>>>}}
Elements2 == UNION {[d -> {<<"0", "0">>, <<"0", "7">>, <<"7", "7">>}] : d \in SUBSET {"2", "3"}}
OnWire == {[mti |-> "0100", els |-> e] : e \in Elements2} \cup
          {[mti |-> "0100", els |-> [de \in DOMAIN e \cup {"52"} |-> IF de = "52" THEN <<"x", "7">> ELSE e[de]]] : e \in Elements2}
Coded == [kind : {"codec"}, sp : Compiled, w : OnWire]

(* Modules with and without signatures, and what a guest may do.               *)
Bodies == [imports : SUBSET {"env.log", "fs.open"},
           exports : {{"process", "alloc", "free"}, {"process", "malloc", "free"}, {"process", "free"}, {"alloc", "free"}}]
Bare == {[body |-> b, sections |-> s] : b \in Bodies, s \in {<<>>, <<[name |-> "name", data |-> "n"]>>}}
Signed == Bare \cup {AppendCustomSection(m, Vendor, Sign(v, m)) : m \in Bare, v \in {"acme", "other"}}
Uploads == Signed \cup {AppendCustomSection(m, Cluster, Sign(k, m)) : m \in Signed, k \in {"key", "old key"}}
Imported == [kind : {"import"}, m : Uploads, allow : BOOLEAN, key : {"", "key"}]
Guests == [kind : {"guest"}, g : [block : 0..1, runs : BOOLEAN, ret : 1..2, len : 0..1, readable : BOOLEAN, decodes : BOOLEAN]]

(* Two protocols that share aliases, up to two bindings and a way back.        *)
Money == {[alpha |-> <<"U">>, numeric |-> <<"8">>, exponent |-> 2], [alpha |-> <<"J">>, numeric |-> <<"3">>, exponent |-> 0],
          [alpha |-> <<"K">>, numeric |-> <<"4">>, exponent |-> 3]}
AProto(id, kind, pairs, aliases, currency, required, mti) ==
  [id |-> id, kind |-> kind, pairs |-> pairs, aliases |-> [m \in DOMAIN pairs |-> aliases], currency |-> currency,
   required |-> [m \in DOMAIN pairs |-> required], mti |-> mti]
Card == AProto("card", "iso8583", "0200" :> "0210" @@ "0210" :> "", {<<"amt">>, <<"cur">>, <<"ref">>}, <<"amt">> :> <<"cur">>, {<<"ref">>}, <<"mti">>)
Pay == AProto("pay", "iso20022", "pacs.008" :> "pacs.002" @@ "pacs.002" :> "",
              {<<"amt">>, <<"sum">>, <<"ccy">>, <<"ref">>, <<"ref", "id">>}, <<"sum">> :> <<"ccy">>, {<<"sum">>, <<"ref">>}, <<>>)
Bind(to) == [to |-> to, from |-> <<>>, value |-> <<>>, lookup |-> <<>>, generate |-> <<>>, table |-> "", currency |-> <<>>]
Bindings == {[Bind(<<"sum">>) EXCEPT !.from = <<<<"amt">>>>, !.currency = <<"cur">>], [Bind(<<"ref">>) EXCEPT !.from = <<<<"ref">>, <<"cur">>>>],
             [Bind(<<"amt">>) EXCEPT !.from = <<<<"ref">>>>], [Bind(<<"ccy">>) EXCEPT !.value = <<"J">>],
             [Bind(<<"ref">>) EXCEPT !.lookup = <<"banks", "name">>], [Bind(<<"ref", "id">>) EXCEPT !.generate = <<"7">>],
             [Bind(<<"ref">>) EXCEPT !.from = <<<<"ref">>>>, !.table = "codes"], [Bind(<<"amt">>) EXCEPT !.from = <<<<"ref">>>>, !.value = <<"J">>]}
ATranslation(fs, f, ts, t, bs) == [fromSpec |-> fs, from |-> f, toSpec |-> ts, to |-> t, bindings |-> bs]
Backs == {ATranslation("pay", f, "card", t, <<[Bind(<<"amt">>) EXCEPT !.from = <<<<"sum">>>>, !.currency = <<"ccy">>]>>) :
            f \in {"pacs.008", "pacs.002"}, t \in {"0200", "0210"}}
TSpecs == {[protocols |-> "card" :> Card @@ "pay" :> Pay, tables |-> "codes" :> [values |-> <<"5">> :> <<"9">>, def |-> def],
            lookups |-> "banks" :> [spec |-> "card", alias |-> <<"ref">>, fields |-> {"name"}, records |-> <<"5">> :> <<"B">>],
            translations |-> "there" :> ATranslation("card", "0200", "pay", "pacs.008", bs) @@ "back" :> b] :
             def \in {<<>>, <<"0">>}, bs \in {<<b>> : b \in Bindings} \cup Bindings \X Bindings, b \in Backs}
TData == {amt @@ cur @@ ref : amt \in {<<>>, <<"amt">> :> <<"0", "5", "0">>}, cur \in {<<>>, <<"cur">> :> <<"8">>, <<"cur">> :> <<"Q">>},
            ref \in {<<>>, <<"ref">> :> <<"5">>, <<"ref">> :> <<"6">>}}
TMsgs == {[data |-> d, id |-> "iso8583" :> "0200" @@ "iso20022" :> "", decoded |-> x] : d \in TData, x \in {"card"}} \cup
         {[data |-> <<"sum">> :> <<"5", ".", "5">> @@ <<"ccy">> :> <<"U">>, id |-> "iso8583" :> i @@ "iso20022" :> "pacs.002", decoded |-> x] :
            i \in {"", "0200"}, x \in {"", "old"}}
Translated == [kind : {"translate"}, s : TSpecs, m : TMsgs,
               g : {[translation |-> t, validation |-> "enforce", onError |-> e] : t \in {"auto"}, e \in {"drop", "reject"}}]
Amounts == [kind : {"amount"}, minor : [1..3 -> {"0", "5"}], dec : UNION {[1..n -> {"0", "5", "."}] : n \in 0..5}]

PureInit == input \in Framed \cup Split \cup Inspected \cup Wired \cup Crossing \cup NamePairs
                      \cup Whens \cup Compared \cup Cyclic \cup Ruled \cup Coded \cup Imported \cup Guests \cup Translated \cup Amounts
                      \cup [kind : {"scenario"}, sc : OneWire \cup TwoWires]
PureNext == UNCHANGED input
PureSpec == PureInit /\ [][PureNext]_input

Of(k) == input.kind = k

(* Every emission of a wire is where its consumer listens, for every scenario  *)
(* that passes Validate.                                                       *)
RoutesOK == Of("scenario") => RoutesMeet(input.sc, Racks)

(* The ports a gear may use and sense are those its wires bind.                *)
BindingsOK == Of("scenario") => BindingsExact(input.sc, Racks)

(* What one end of a socket frames the other end reads back.                   *)
FramesOK == Of("frame") => \A rest \in {<<>>, <<1, 1>>} : FrameReadBack(input.c, input.p, rest)

(* The messages of a socket do not depend on how its bytes arrive.             *)
SplitOK == Of("split") => ChunksDoNotMatter(input.c, input.data, input.k)

(* The heuristic check lets well-formed messages through.                      *)
InspectOK == Of("inspect") => WellFormedPasses(input.f)

(* No buffer acknowledges an event, and a message with fields crosses a bento  *)
(* stream whole.                                                               *)
BridgeOK == /\ Of("wiring") => EventsUnbuffered(input.c)
            /\ Of("cross") => FieldsCross(input.m)

(* A condition means what the grammar says, numbers compare as numbers, and a  *)
(* comparison never holds of an element that is not there.                     *)
WhenOK == /\ Of("when") => WhenReadBack(input.n)
          /\ Of("compare") => OrderAgrees("4", input.x, input.m, [p \in SomePaths |-> input.as])

(* A spec is refused for a cycle of conditions exactly when it has one.        *)
CyclesOK == Of("deps") => CyclesFound([d \in DOMAIN input.deps |-> (input.deps[d] \cap DOMAIN input.deps) \ {d}])

(* Rules only restrict.                                                        *)
RulesOK == Of("rules") => RulesOnlyRestrict(input.s, input.m)

(* A message decoded and encoded again is the one that came, and what rules    *)
(* compare has the width of the wire.                                          *)
CodecOK == Of("codec") => CodecRoundTrip(input.sp, Order, input.w) /\ WidthKept(input.sp, Order, input.w)

(* A module that is imported loads on the Racks, and guest memory is freed     *)
(* once.                                                                       *)
WasmOK == /\ Of("import") => ImportedLoads(input.m, input.allow, input.key)
          /\ Of("guest") => BlocksFreedOnce(input.g)

(* A translated message is complete, whatever the order of its bindings, and   *)
(* an amount keeps its value.                                                  *)
TranslationOK == /\ Of("translate") => EnforcedIsComplete(input.s, input.g, input.m) /\ OrderFree(input.s, input.m)
                 /\ Of("amount") => AmountRoundTrip(input.minor, input.dec)

(* Refuted: each states a promise that some input breaks.                      *)
SensingOK == Of("scenario") => SensingMatchesWiring(input.sc, Racks)
StallOK == Of("scenario") => NoSilentStall(input.sc, Racks)
ReadableOK == Of("frame") => WrittenIsReadable(input.c, input.p)
InspectAllOK == Of("inspect") => AnyWellFormedPasses(input.f)
BufferOK == Of("wiring") => BufferInjected(input.c)
BytesOK == Of("cross") => BytesCross(input.m)
ConsumerOK == Of("names") => OwnConsumer(input.a, input.b)
FirstRuleOK == Of("rules") => FirstRuleDecides(input.s, input.m)
SelfOK == Of("rules") => SelfCaught(input.s)
ClosedOK == Of("rules") => ClosedMeansClosed(input.s, input.m)
(* Refuted.  "The codec already writes every element under                     *)
(* `iso8583.field.<n>` and every subfield under `iso8583.field.<n>.<tag>`".    *)
SubfieldsOK == Of("codec") => SubfieldsStored(input.sp, Order, input.w)
ImportOK == Of("import") => AnyImportLoads(input.m, input.allow, input.key)
WrittenOnceOK == Of("translate") => WrittenOnce(input.s)
AutoOK == Of("translate") => AutoFindsArrived(input.s, input.m)
================================================================================
