--------------------------- MODULE ScenarioControl ---------------------------
(***************************************************************************)
(* The Mixer's control of the active scenario: Import, Activate, LoadActive *)
(* and PushActiveToRackSince of pkg/controller/scenario.go, the pushes that *)
(* an enrolled (pkg/controller/enrollment.go) or approved                  *)
(* (pkg/mixer/api/server.go) Rack starts, and the Mixer's crash and start. *)
(* A registered scenario is a record of its name and the number of its     *)
(* registration: each registration assigns new entity IDs, so two of them  *)
(* never have the same bytes.  Activate holds c.mu from its first step to  *)
(* its last; a section under deliveryMu is a single step.  Of delivery.at  *)
(* and the time since of a push only the order matters: recorded says      *)
(* whether a delivery to the Rack was recorded after since.  A Rack that   *)
(* does not listen when a scenario is published does not receive it: its   *)
(* consumer delivers new messages only (pkg/bus/nats.go:359).              *)
(***************************************************************************)
EXTENDS Naturals, FiniteSets

CONSTANTS
  Racks,
  Names,        \* scenario names
  Pins,         \* name -> Racks that a gear of the scenario deploys to
  Listed,       \* name -> Racks in the scenario's racks: list
  GlobalGear,   \* names of the scenarios with a global gear
  Pushers,      \* bound: pushes to enrolled or approved Racks at a time
  MaxRegs,      \* bound: registrations of a scenario
  MaxCrashes,   \* bound: crashes of the Mixer
  MaxSessions,  \* bound: starts of a Rack
  Partial,      \* topology rows of no scenario
  None

ASSUME ScenarioControlAssumption ==
  /\ Pins \in [Names -> SUBSET Racks] /\ Listed \in [Names -> SUBSET Racks]
  /\ GlobalGear \subseteq Names
  /\ MaxRegs \in Nat /\ MaxCrashes \in Nat /\ MaxSessions \in Nat

VARIABLES
  files,        \* names of the scenarios stored by Import (registry)
  pointer,      \* the active-scenario pointer (registry)
  topo,         \* scenario the topology rows describe, None or Partial
  status,       \* Rack -> its status in the registry
  registered,   \* number of registrations so far
  crashes,      \* number of crashes so far
  loaded,       \* LoadActive has run since the start
  active,       \* c.active and c.activeYAML
  activation,   \* c.activation
  delivered,    \* c.delivered: Rack -> activation, or None
  act,          \* the running Activate
  push,         \* pusher -> its running PushActiveToRackSince
  session,      \* Rack -> where its session stands
  sessions,     \* Rack -> sessions it has started
  got           \* Rack -> last scenario it received in this session

registryVars == <<files, pointer, topo, status, registered>>
memoryVars == <<loaded, active, activation>>
rackVars == <<session, sessions, got>>
vars == <<registryVars, crashes, memoryVars, delivered, act, push, rackVars>>

Scenarios == [name : Names, reg : 1..MaxRegs]
Statuses == {"absent", "pending", "active"}

NoAct == [pc |-> "idle", scenario |-> None, targets |-> {}, rack |-> None]

(* actSent is what an activation has sent to the Rack after since; listening *)
(* says that the Rack has listened ever since.                              *)
NoPush == [pc |-> "idle", rack |-> None, content |-> None, recorded |-> FALSE,
           actSent |-> {}, listening |-> FALSE]

TypeOK ==
  /\ files \subseteq Names
  /\ pointer \in Scenarios \cup {None}
  /\ topo \in Scenarios \cup {None, Partial}
  /\ status \in [Racks -> Statuses]
  /\ registered \in 0..MaxRegs /\ crashes \in 0..MaxCrashes
  /\ loaded \in BOOLEAN
  /\ active \in Scenarios \cup {None}
  /\ activation \in 0..MaxRegs
  /\ delivered \in [Racks -> 0..MaxRegs \cup {None}]
  /\ act \in [pc : {"idle", "clear", "register", "commit", "memory", "push", "record"},
              scenario : Scenarios \cup {None}, targets : SUBSET Racks,
              rack : Racks \cup {None}]
  /\ push \in [Pushers -> [pc : {"idle", "delay", "check", "publish", "record"},
                           rack : Racks \cup {None}, content : Scenarios \cup {None},
                           recorded : BOOLEAN, actSent : SUBSET Scenarios,
                           listening : BOOLEAN]]
  /\ session \in [Racks -> {"down", "hello", "listening"}]
  /\ sessions \in [Racks -> 0..MaxSessions]
  /\ got \in [Racks -> Scenarios \cup {None}]

Init ==
  /\ files = {} /\ pointer = None /\ topo = None
  /\ status = [r \in Racks |-> "absent"]
  /\ registered = 0 /\ crashes = 0
  /\ loaded = FALSE /\ active = None /\ activation = 0
  /\ delivered = [r \in Racks |-> None]
  /\ act = NoAct
  /\ push = [p \in Pushers |-> NoPush]
  /\ session = [r \in Racks |-> "down"]
  /\ sessions = [r \in Racks |-> 0]
  /\ got = [r \in Racks |-> None]

(* c.mu is not held. *)
Unlocked == act.pc = "idle"

ActiveRacks == {r \in Racks : status[r] = "active"}

-----------------------------------------------------------------------------
(* Import stores the scenario; a dry run or a refused one changes nothing. *)
Import(n) ==
  /\ Unlocked
  /\ files' = files \cup {n}
  /\ UNCHANGED <<pointer, topo, status, registered, crashes, memoryVars, delivered,
                 act, push, rackVars>>

(* Activate loads the scenario and checks its deploy targets. *)
ActivateBegin(n) ==
  /\ Unlocked
  /\ n \in files /\ Pins[n] \subseteq ActiveRacks
  /\ registered < MaxRegs
  /\ registered' = registered + 1
  /\ act' = [NoAct EXCEPT !.pc = "clear",
                          !.scenario = [name |-> n, reg |-> registered + 1]]
  /\ UNCHANGED <<files, pointer, topo, status, crashes, memoryVars, delivered, push,
                 rackVars>>

(* ClearScenarioEntities; when it fails some rows may be gone. *)
ActivateClear ==
  /\ act.pc = "clear"
  /\ \/ topo' = None /\ act' = [act EXCEPT !.pc = "register"]
     \/ topo' = Partial /\ act' = NoAct
  /\ UNCHANGED <<files, pointer, status, registered, crashes, memoryVars, delivered,
                 push, rackVars>>

(* registerScenarioEntities waits for each listed Rack to be active.  It    *)
(* fails when one is not in time, or when the scenario's row is refused.   *)
ActivateRegister ==
  /\ act.pc = "register"
  /\ \/ /\ Listed[act.scenario.name] \subseteq ActiveRacks
        /\ topo' = act.scenario /\ act' = [act EXCEPT !.pc = "commit"]
     \/ topo' = Partial /\ act' = NoAct
  /\ UNCHANGED <<files, pointer, status, registered, crashes, memoryVars, delivered,
                 push, rackVars>>

(* Variant: a pointer that cannot be moved is only logged. *)
ActivateCommitLogged ==
  /\ act.pc = "commit"
  /\ pointer' \in {pointer, act.scenario} /\ act' = [act EXCEPT !.pc = "memory"]
  /\ UNCHANGED <<files, topo, status, registered, crashes, memoryVars, delivered, push,
                 rackVars>>

(* SetActive moves the pointer; it may fail with or without having moved it. *)
ActivateCommit ==
  /\ act.pc = "commit"
  /\ \/ pointer' = act.scenario /\ act' = [act EXCEPT !.pc = "memory"]
     \/ pointer' \in {pointer, act.scenario} /\ act' = NoAct
  /\ UNCHANGED <<files, topo, status, registered, crashes, memoryVars, delivered, push,
                 rackVars>>

(* The Racks that pushScenarioToRacks reaches in an activation of s. *)
Targets(s) ==
  Listed[s.name] \cup Pins[s.name]
    \cup (IF s.name \in GlobalGear THEN ActiveRacks ELSE {})

(* Variant: the activation is counted again for each target. *)
ActivateMemoryTwice ==
  /\ act.pc = "memory"
  /\ active' = act.scenario
  /\ activation' = activation + 1 + Cardinality(Targets(act.scenario))
  /\ act' = IF Targets(act.scenario) = {} THEN NoAct
            ELSE [act EXCEPT !.pc = "push", !.targets = Targets(act.scenario)]
  /\ UNCHANGED <<registryVars, crashes, loaded, delivered, push, rackVars>>

ActivateMemory ==
  /\ act.pc = "memory"
  /\ active' = act.scenario
  /\ activation' = activation + 1
  /\ act' = IF Targets(act.scenario) = {} THEN NoAct
            ELSE [act EXCEPT !.pc = "push", !.targets = Targets(act.scenario)]
  /\ UNCHANGED <<registryVars, crashes, loaded, delivered, push, rackVars>>

-----------------------------------------------------------------------------
(* Content c is published to Rack r by the activation or by a pusher. *)
Publish(r, c) ==
  got' = IF session[r] = "listening" THEN [got EXCEPT ![r] = c] ELSE got

recordDelivery(r, f) ==
  /\ delivered' = [delivered EXCEPT ![r] = activation]
  /\ push' = [p \in Pushers |->
                IF f[p].rack = r THEN [f[p] EXCEPT !.recorded = TRUE] ELSE f[p]]

(* Activate goes on with the next target, or returns. *)
NextTarget(ts) ==
  IF ts = {} THEN NoAct ELSE [act EXCEPT !.pc = "push", !.targets = ts, !.rack = None]

(* One target of pushScenarioToRacks: waitForRack found it, and it is sent. *)
ActivatePublish(r) ==
  /\ act.pc = "push" /\ r \in act.targets
  /\ status[r] = "active"
  /\ Publish(r, act.scenario)
  /\ push' = [p \in Pushers |-> IF push[p].rack = r
                                 THEN [push[p] EXCEPT !.actSent = @ \cup {act.scenario}]
                                 ELSE push[p]]
  /\ act' = [act EXCEPT !.pc = "record", !.rack = r, !.targets = @ \ {r}]
  /\ UNCHANGED <<registryVars, crashes, memoryVars, delivered, session, sessions>>

(* Variant: a failed publish is recorded as a delivery. *)
ActivateSkipsRecorded(r) ==
  /\ act.pc = "push" /\ r \in act.targets
  /\ recordDelivery(r, push)
  /\ act' = NextTarget(act.targets \ {r})
  /\ UNCHANGED <<registryVars, crashes, memoryVars, rackVars>>

(* waitForRack gave up on it, or the bus refused the message. *)
ActivateSkips(r) ==
  /\ act.pc = "push" /\ r \in act.targets
  /\ act' = NextTarget(act.targets \ {r})
  /\ UNCHANGED <<registryVars, crashes, memoryVars, delivered, push, rackVars>>

ActivateRecord ==
  /\ act.pc = "record"
  /\ recordDelivery(act.rack, push)
  /\ act' = NextTarget(act.targets)
  /\ UNCHANGED <<registryVars, crashes, memoryVars, rackVars>>

ActivateStep ==
  \/ ActivateClear \/ ActivateRegister \/ ActivateCommit \/ ActivateMemory
  \/ \E r \in Racks : ActivatePublish(r) \/ ActivateSkips(r)
  \/ ActivateRecord

-----------------------------------------------------------------------------
(* A push to r starts: since is now. *)
StartPush(p, r) ==
  /\ push[p].pc = "idle"
  /\ push' = [push EXCEPT ![p] = [NoPush EXCEPT !.pc = "delay", !.rack = r,
                                               !.listening = session[r] = "listening"]]

(* HandleHello registers the Rack as active or pending, or finds it, and    *)
(* answers with its passport.  The router starts after LoadActive.         *)
HandleHello(r, p) ==
  /\ loaded
  /\ session[r] = "down" /\ sessions[r] < MaxSessions
  /\ status' \in {[status EXCEPT ![r] = s] :
                    s \in IF status[r] = "absent" THEN {"pending", "active"} ELSE {status[r]}}
  /\ session' = [session EXCEPT ![r] = "hello"]
  /\ sessions' = [sessions EXCEPT ![r] = @ + 1]
  /\ StartPush(p, r)
  /\ UNCHANGED <<files, pointer, topo, registered, crashes, memoryVars, delivered, act, got>>

(* An operator approves a pending Rack. *)
Approve(r, p) ==
  /\ status[r] = "pending"
  /\ status' = [status EXCEPT ![r] = "active"]
  /\ StartPush(p, r)
  /\ UNCHANGED <<files, pointer, topo, registered, crashes, memoryVars, delivered, act,
                 rackVars>>

(* Variant: the active scenario is read without c.mu. *)
PushReadUnlocked(p) ==
  /\ push[p].pc = "delay"
  /\ push' = [push EXCEPT ![p] = IF active = None THEN NoPush
                                 ELSE [@ EXCEPT !.pc = "check", !.content = active]]
  /\ UNCHANGED <<registryVars, crashes, memoryVars, delivered, act, rackVars>>

(* PushActiveToRackSince reads the active scenario under c.mu ... *)
PushRead(p) ==
  /\ push[p].pc = "delay" /\ Unlocked
  /\ push' = [push EXCEPT ![p] = IF active = None THEN NoPush
                                 ELSE [@ EXCEPT !.pc = "check", !.content = active]]
  /\ UNCHANGED <<registryVars, crashes, memoryVars, delivered, act, rackVars>>

(* The Rack has received this activation after since. *)
AlreadyDelivered(p) == delivered[push[p].rack] = activation /\ push[p].recorded

(* ... looks into the delivery record, and returns if it is there ... *)
PushSkips(p) ==
  /\ push[p].pc = "check" /\ AlreadyDelivered(p)
  /\ push' = [push EXCEPT ![p] = NoPush]
  /\ UNCHANGED <<registryVars, crashes, memoryVars, delivered, act, rackVars>>

PushGoesOn(p) ==
  /\ push[p].pc = "check" /\ ~AlreadyDelivered(p)
  /\ push' = [push EXCEPT ![p].pc = "publish"]
  /\ UNCHANGED <<registryVars, crashes, memoryVars, delivered, act, rackVars>>

(* ... and sends what it has read when the Rack is active ... *)
PushPublish(p) ==
  /\ push[p].pc = "publish" /\ status[push[p].rack] = "active"
  /\ Publish(push[p].rack, push[p].content)
  /\ push' = [push EXCEPT ![p].pc = "record"]
  /\ UNCHANGED <<registryVars, crashes, memoryVars, delivered, act, session, sessions>>

(* ... or gives up on it, or on the bus. *)
PushFails(p) ==
  /\ push[p].pc = "publish"
  /\ push' = [push EXCEPT ![p] = NoPush]
  /\ UNCHANGED <<registryVars, crashes, memoryVars, delivered, act, rackVars>>

PushRecord(p) ==
  /\ push[p].pc = "record"
  /\ recordDelivery(push[p].rack, [push EXCEPT ![p] = NoPush])
  /\ UNCHANGED <<registryVars, crashes, memoryVars, act, rackVars>>

PushStep(p) ==
  \/ PushRead(p) \/ PushSkips(p) \/ PushGoesOn(p)
  \/ PushPublish(p) \/ PushFails(p) \/ PushRecord(p)

-----------------------------------------------------------------------------
(* LoadActive restores the scenario of the pointer, and pushes nothing. *)
LoadActive ==
  /\ ~loaded /\ Unlocked
  /\ loaded' = TRUE
  /\ \/ pointer = None /\ UNCHANGED <<topo, active>>
     \/ pointer # None /\ topo' = pointer /\ active' = pointer
     \/ pointer # None /\ topo' = Partial /\ UNCHANGED active
  /\ UNCHANGED <<files, pointer, status, registered, crashes, activation, delivered, act,
                 push, rackVars>>

(* The Mixer dies and starts again: what it keeps is in the registry and in *)
(* the topology rows.                                                      *)
Crash ==
  /\ crashes < MaxCrashes
  /\ crashes' = crashes + 1
  /\ loaded' = FALSE /\ active' = None /\ activation' = 0
  /\ delivered' = [r \in Racks |-> None]
  /\ act' = NoAct
  /\ push' = [p \in Pushers |-> NoPush]
  /\ UNCHANGED <<registryVars, rackVars>>

(* The Rack has its passport and listens for scenarios. *)
RackListens(r) ==
  /\ session[r] = "hello"
  /\ session' = [session EXCEPT ![r] = "listening"]
  /\ UNCHANGED <<registryVars, crashes, memoryVars, delivered, act, push, sessions, got>>

RackStops(r) ==
  /\ session[r] # "down" /\ sessions[r] < MaxSessions
  /\ session' = [session EXCEPT ![r] = "down"]
  /\ got' = [got EXCEPT ![r] = None]
  /\ push' = [p \in Pushers |-> IF push[p].rack = r
                                 THEN [push[p] EXCEPT !.listening = FALSE] ELSE push[p]]
  /\ UNCHANGED <<registryVars, crashes, memoryVars, delivered, act, sessions>>

Next ==
  \/ \E n \in Names : Import(n) \/ ActivateBegin(n)
  \/ ActivateStep
  \/ \E r \in Racks, p \in Pushers : HandleHello(r, p) \/ Approve(r, p)
  \/ \E p \in Pushers : PushStep(p)
  \/ LoadActive \/ Crash
  \/ \E r \in Racks : RackListens(r) \/ RackStops(r)

Spec == Init /\ [][Next]_vars

-----------------------------------------------------------------------------
(***************************************************************************)
(* What is active in memory, or runs on a Rack, was stored first: the      *)
(* pointer, which a restarted Mixer reads, names it or a later one         *)
(* (Activate: "the scenario must not be active in memory only").           *)
(***************************************************************************)
StoredFirst ==
  \A s \in {active} \cup {got[r] : r \in Racks} :
    s # None => pointer # None /\ s.reg <= pointer.reg

(***************************************************************************)
(* A push after an enrollment or approval does not repeat what the         *)
(* activation of the active scenario has sent to the Rack since then: the  *)
(* Rack's gears are not restarted for nothing.                             *)
(***************************************************************************)
NoRedundantPush ==
  [][\A p \in Pushers :
       push[p].pc = "publish" /\ push'[p].pc = "record" /\ push[p].content = active =>
         active \notin push[p].actSent]_vars

(* The push p returns without sending. *)
Skips(p) == push[p].pc = "check" /\ push'[p].pc = "idle" /\ crashes' = crashes

(***************************************************************************)
(* The push after an approval is skipped only if the Rack, which has       *)
(* listened since then, has received a scenario: a delivery on record is   *)
(* one that took place.                                                    *)
(***************************************************************************)
ApprovedIsServed ==
  [][\A p \in Pushers :
       Skips(p) /\ push[p].listening => got[push[p].rack] # None]_vars

(***************************************************************************)
(* Activations and pushes, with any crash and failed write between them:   *)
(* no Rack runs what a restarted Mixer does not know of, and a push        *)
(* neither repeats a delivery nor trusts one that did not take place.      *)
(***************************************************************************)
ScenariosServed == [](TypeOK /\ StoredFirst) /\ NoRedundantPush /\ ApprovedIsServed

(***************************************************************************)
(* recordDelivery "notes that rackName received the current activation     *)
(* now": a listening Rack with the current activation on record has the    *)
(* active scenario.                                                        *)
(***************************************************************************)
DeliveredIsCurrent ==
  \A r \in Racks :
    Unlocked /\ active # None /\ delivered[r] = activation /\ got[r] # None =>
      got[r] = active

(***************************************************************************)
(* HandleHello: "An activation between now and the push reaches the Rack   *)
(* already, so the push skips it then".  A push that is skipped while the  *)
(* Rack listens finds it with a scenario.                                  *)
(***************************************************************************)
SkippedRackHasScenario ==
  [][\A p \in Pushers :
       Skips(p) /\ session[push[p].rack] = "listening" =>
         got[push[p].rack] # None]_vars

(***************************************************************************)
(* Activate: "a scenario must not be declared active - on disk or in       *)
(* memory - while a failure here leaves that registry half-cleared or      *)
(* never updated".                                                         *)
(***************************************************************************)
TopologyIsActive == Unlocked /\ active # None => topo = active
==============================================================================
