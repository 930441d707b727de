-------------------------------- MODULE Routes --------------------------------
(* Where the messages of a scenario go: the checks of Scenario.Validate      *)
(* (pkg/registry/scenario.go), the routes every Rack derives for itself from  *)
(* the same wires (pkg/runtime/routes.go, ApplyScenario) and the terminus of  *)
(* each output port (pkg/runtime/bindings.go).                                *)
(*                                                                            *)
(* A scenario is [version, racks, gears, wires]: racks and wires sequences,   *)
(* gears a sequence of [name, type, deploy, inputs, outputs, events].  "" is  *)
(* the empty string of the code; a wire endpoint is [rack, gear, port], the   *)
(* result of parsePortRef, its rack "" in the two-segment form.               *)
EXTENDS Integers, Sequences, FiniteSets, Relation, SequencesExt

ValidNames == {"r1", "r2", "a", "b", "c", "out", "in"}

firstNonEmpty(x, y, z) == IF x # "" THEN x ELSE IF y # "" THEN y ELSE z

GearNames(sc) == {g.name : g \in ToSet(sc.gears)}
GearSpec(sc, n) == CHOOSE g \in ToSet(sc.gears) : g.name = n

(* gearDeploy[n], "" for a gear that is not in the map.                       *)
deployMap(sc, n) == IF n \in GearNames(sc) THEN GearSpec(sc, n).deploy ELSE ""

--------------------------------------------------------------------------------
(* Scenario.Validate                                                          *)
NoDuplicates(seq) == Cardinality(ToSet(seq)) = Len(seq)

Named(racks, key) == SelectSeq([i \in DOMAIN racks |-> racks[i][key]], LAMBDA n : n # "")

RacksValid(racks) ==
  /\ \A key \in {"name", "group"} :
       NoDuplicates(Named(racks, key)) /\ ToSet(Named(racks, key)) \subseteq ValidNames
  /\ \A r \in ToSet(racks) : r.name # "" \/ IF r.group # "" THEN r.labels ELSE r.defaults

Targets(sc) == ToSet(Named(sc.racks, "name")) \cup ToSet(Named(sc.racks, "group"))

GearsValid(sc) ==
  /\ NoDuplicates([i \in DOMAIN sc.gears |-> sc.gears[i].name])
  /\ \A g \in ToSet(sc.gears) :
       /\ g.name \in ValidNames /\ g.type # ""
       /\ g.deploy # "" /\ sc.racks # <<>> => g.deploy \in Targets(sc)
       /\ g.events \subseteq GearNames(sc)

WireValid(sc, w) ==
  /\ {w.from.gear, w.from.port, w.to.gear, w.to.port} \subseteq ValidNames
  /\ w.lane \in {"", "hot", "guaranteed"}
  /\ LET src == firstNonEmpty(w.from.rack, deployMap(sc, w.from.gear), "")
         dst == firstNonEmpty(w.to.rack, deployMap(sc, w.to.gear), "")
     IN w.lane = "hot" => src = "" \/ dst = "" \/ src = dst
  /\ {w.from.rack, w.to.rack} \ {""} \subseteq Targets(sc)
  /\ {w.from.gear, w.to.gear} \subseteq GearNames(sc)
  /\ LET outs == GearSpec(sc, w.from.gear).outputs
         ins == GearSpec(sc, w.to.gear).inputs
     IN (outs # {} => w.from.port \in outs) /\ (ins # {} => w.to.port \in ins)

\* Variant of Validate: the lane of a wire is not compared with its Racks.
ValidateAnyLane(sc) ==
  /\ sc.version # "" /\ RacksValid(sc.racks) /\ GearsValid(sc)
  /\ \A w \in ToSet(sc.wires) : WireValid(sc, [w EXCEPT !.lane = ""])

Validate(sc) ==
  /\ sc.version # "" /\ RacksValid(sc.racks) /\ GearsValid(sc)
  /\ \A w \in ToSet(sc.wires) : WireValid(sc, w)

--------------------------------------------------------------------------------
(* What a Rack derives from the wires                                         *)
wireOnLane(w, sourceRack, rack) == sourceRack = rack /\ w.lane # "guaranteed"

RunsOn(sc, gear, rack) == gear \in GearNames(sc) /\ deployMap(sc, gear) \in {"", rack}

Subject(rack, ref) == <<rack, ref.gear, ref.port>>

EmitsHere(sc, w, rack) ==
  \/ w.from.rack = rack
  \/ w.from.rack = "" /\ deployMap(sc, w.from.gear) \in {rack, ""}

\* Variant of ConsumerElsewhere: a consumer that runs on every Rack is local.
ConsumerPinnedElsewhere(sc, w, rack) ==
  \/ w.to.rack \notin {"", rack}
  \/ w.to.rack = "" /\ deployMap(sc, w.to.gear) \notin {"", rack}

ConsumerElsewhere(sc, w, rack) ==
  \/ w.to.rack \notin {"", rack}
  \/ w.to.rack = "" /\ deployMap(sc, w.to.gear) # rack

busEmitSubjects(sc, rack) ==
  {Subject(rack, w.from) : w \in {x \in ToSet(sc.wires) :
     /\ EmitsHere(sc, x, rack)
     /\ \/ x.lane = "guaranteed"
        \/ /\ x.from.rack # "" \/ deployMap(sc, x.from.gear) # ""
           /\ ConsumerElsewhere(sc, x, rack)}}

ConsumedHere(sc, w, rack) == w.to.rack \in {"", rack} /\ RunsOn(sc, w.to.gear, rack)

SourceRack(sc, w, rack) == firstNonEmpty(w.from.rack, deployMap(sc, w.from.gear), rack)

scenarioNeedsBus(sc, rack) ==
  \/ busEmitSubjects(sc, rack) # {}
  \/ \E w \in ToSet(sc.wires) :
       ConsumedHere(sc, w, rack) /\ ~wireOnLane(w, SourceRack(sc, w, rack), rack)

(* The wire loop of ApplyScenario on a Rack: the subjects its gears read.     *)
Subscriptions(sc, rack) ==
  {[subject |-> Subject(SourceRack(sc, w, rack), w.from), gear |-> w.to.gear,
    bus |-> ~wireOnLane(w, SourceRack(sc, w, rack), rack)] :
     w \in {x \in ToSet(sc.wires) : ConsumedHere(sc, x, rack)}}

--------------------------------------------------------------------------------
(* computeBindings                                                            *)
maxWalkDepth == 32
Unbound == [kind |-> "unbound", gear |-> ""]

RackOf(sc, gear, rack) == firstNonEmpty(deployMap(sc, gear), rack, rack)

(* What leaves the reference "gear.port", as it is written in the wires.      *)
WiresFrom(sc, gear, port) ==
  SelectSeq(sc.wires, LAMBDA w : w.from = [rack |-> "", gear |-> gear, port |-> port])

(* walk(toRef, depth), with n the steps it has left.                          *)
Walk(sc, rack, toGear) ==
  LET walk[x \in (GearNames(sc) \cup {toGear}) \X (0..maxWalkDepth + 1)] ==
        LET gear == x[1]
            outs == WiresFrom(sc, gear, "out")
        IN IF x[2] = 0 \/ gear \notin GearNames(sc) THEN Unbound
           ELSE IF RackOf(sc, gear, rack) # rack THEN [kind |-> "remote", gear |-> gear]
           ELSE CASE GearSpec(sc, gear).type = "io" -> [kind |-> "io", gear |-> gear]
                  [] GearSpec(sc, gear).type = "opaque" -> Unbound
                  [] OTHER -> IF Len(outs) # 1 THEN Unbound ELSE walk[<<outs[1].to.gear, x[2] - 1>>]
  IN walk[<<toGear, maxWalkDepth + 1>>]

PortWires(sc, gear, port) ==
  SelectSeq(sc.wires, LAMBDA w : w.from.gear = gear /\ w.from.port = port)

\* Variant of computeBindings: the last wire of a port decides.
computeBindingsLast(sc, rack, gear, port) ==
  LET ws == PortWires(sc, gear, port)
  IN IF ws = <<>> \/ RackOf(sc, gear, rack) # rack THEN Unbound
     ELSE Walk(sc, rack, ws[Len(ws)].to.gear)

(* The binding of a named output port of a gear; Unbound also when none.      *)
computeBindings(sc, rack, gear, port) ==
  LET ws == PortWires(sc, gear, port)
  IN IF Len(ws) # 1 \/ RackOf(sc, gear, rack) # rack THEN Unbound
     ELSE Walk(sc, rack, ws[1].to.gear)

--------------------------------------------------------------------------------
(* Every Rack derives its own routes; they agree.  In a valid scenario, what  *)
(* a gear reads from the bus is published there by the Rack its source runs   *)
(* on, a wire read in memory has its source on the same Rack, a hot wire with *)
(* both ends pinned is never read from the bus, and a Rack whose scenario     *)
(* "needs no bus" neither reads from it nor publishes to it.                  *)
RoutesMeet(sc, racks) ==
  Validate(sc) => \A r \in racks :
    /\ \A s \in Subscriptions(sc, r) :
         RunsOn(sc, s.subject[2], s.subject[1]) =>
           IF s.bus THEN s.subject \in busEmitSubjects(sc, s.subject[1]) ELSE s.subject[1] = r
    /\ \A w \in ToSet(sc.wires) :
         w.lane = "hot" /\ "" \notin {SourceRack(sc, w, ""), RackOf(sc, w.to.gear, "")}
           /\ ConsumedHere(sc, w, r) => wireOnLane(w, SourceRack(sc, w, r), r)
    /\ scenarioNeedsBus(sc, r) <=>
         busEmitSubjects(sc, r) # {} \/ \E s \in Subscriptions(sc, r) : s.bus

(* The reference of the walk: a port bound to an I/O gear reaches it over     *)
(* ports with one wire each, through pass-through gears of this Rack only.    *)
Reaches(sc, rack) ==
  ReflexiveTransitiveClosure(
    [p \in GearNames(sc) \X GearNames(sc) |->
       /\ GearSpec(sc, p[1]).type = "codec" /\ RunsOn(sc, p[1], rack)
       /\ Len(PortWires(sc, p[1], "out")) = 1
       /\ PortWires(sc, p[1], "out")[1].to.gear = p[2]], GearNames(sc))

(* Sensing finds the I/O gear a port leads to, and no other, when the wires   *)
(* are written in the two-segment form; a port that broadcasts has none.      *)
BindingsExact(sc, racks) ==
  (Validate(sc) /\ \A w \in ToSet(sc.wires) : w.from.rack = "" /\ w.to.rack = "") =>
  \A r \in racks, g \in GearNames(sc), t \in GearNames(sc) :
    (computeBindings(sc, r, g, "out") = [kind |-> "io", gear |-> t]) <=>
      /\ RackOf(sc, g, r) = r /\ Len(PortWires(sc, g, "out")) = 1
      /\ Reaches(sc, r)[PortWires(sc, g, "out")[1].to.gear, t]
      /\ GearSpec(sc, t).type = "io" /\ RunsOn(sc, t, r)

(* Refuted.  "sensing always matches the live wiring": a port bound to an I/O *)
(* gear of this Rack has a wire this Rack subscribes for it.                  *)
SensingMatchesWiring(sc, racks) ==
  Validate(sc) => \A r \in racks, g \in GearNames(sc) :
    computeBindings(sc, r, g, "out").kind = "io" =>
      \E s \in Subscriptions(sc, r) : s.subject[2] = g

(* Refuted.  A valid scenario has no wire whose consumer waits on "a subject  *)
(* nobody publishes to".                                                      *)
NoSilentStall(sc, racks) ==
  Validate(sc) => \A r \in racks : \A s \in Subscriptions(sc, r) :
    s.bus => /\ RunsOn(sc, s.subject[2], s.subject[1])
             /\ s.subject \in busEmitSubjects(sc, s.subject[1])
================================================================================
