-------------------------------- MODULE Runtime --------------------------------
(* The Manager of a Rack (pkg/runtime/runtime.go) between scenarios:          *)
(* ApplyScenario, which gives up its lock while it waits for the bus subjects *)
(* to converge, Shutdown, Drain, and the control plane the gears subscribe on *)
(* (pkg/ctrl/late.go).  Several goroutines call it: the push of a scenario    *)
(* and the promotion of the Rack may both be inside ApplyScenario.            *)
(*                                                                            *)
(* A gear instance is <<call, gear>>: the call whose factory.Create made it.  *)
(* A subscription is <<call, wire>>.                                          *)
EXTENDS Naturals, FiniteSets

CONSTANTS
  Appliers,     \* the calls of ApplyScenario
  Gears,        \* gear names
  GearsOf,      \* [Appliers -> SUBSET Gears]: the gears of its scenario here
  WiresOf,      \* [Appliers -> SUBSET [to, subject, lane]]: its wires
  LinkReaders,  \* gears that subscribe to link.<io> in Init (the conductor)
  Commanded,    \* gears that subscribe to their own name in Start (io_iso8583)
  MaxShutdowns, \* bound on the calls of Shutdown
  MaxDrains     \* bound on the calls of Drain

ASSUME RuntimeAssumption ==
  /\ IsFiniteSet(Appliers) /\ "free" \notin Appliers /\ "drain" \notin Appliers
  /\ GearsOf \in [Appliers -> SUBSET Gears]
  /\ MaxShutdowns \in Nat /\ MaxDrains \in Nat

VARIABLES
  mu,           \* m.mu: a call, "drain", or "free"
  applyPc,           \* where each ApplyScenario is
  todo,         \* gears or wires the loop it is in has left
  snapshot,      \* the snapshot waitForConvergence took: set of <<subject, sub>>
  active,       \* m.activeGears: instances
  status,       \* life of each instance
  starts,       \* how often Start was called on it
  activeSubs,   \* m.activeSubs
  live,         \* bus subscriptions that exist
  attached,     \* those whose consumer the bus has set up
  hotSubjects,  \* m.hotSubjects: set of <<subject, channel>>, named by its sub
  hotClosed,       \* channels closed by the probe handler
  handling,     \* subscriptions whose handler holds a probe
  control,      \* m.control.subs: set of [key, inst]
  inDrain,     \* instances a Drain waits for
  shutdowns, drains

lockVars == <<mu, applyPc, todo, snapshot>>
gearVars == <<active, status, starts, control>>
busSubVars == <<activeSubs, live, attached, hotSubjects, hotClosed, handling>>
callVars == <<inDrain, shutdowns, drains>>
runtimeVars == <<lockVars, gearVars, busSubVars, callVars>>

Instances == Appliers \X Gears
BusSubs == UNION {{c} \X WiresOf[c] : c \in Appliers}

RuntimeTypeOK ==
  /\ mu \in Appliers \cup {"free", "drain"}
  /\ applyPc \in [Appliers -> {"idle", "init", "wire", "snapshot", "converge", "relock",
                          "start", "failing", "applied", "failed"}]
  /\ active \in SUBSET Instances
  /\ status \in [Instances -> {"none", "inited", "started", "stopped"}]
  /\ starts \in [Instances -> 0..Cardinality(Appliers)]
  /\ activeSubs \in SUBSET BusSubs /\ live \in SUBSET BusSubs /\ attached \in SUBSET live
  /\ hotClosed \in SUBSET BusSubs /\ handling \in SUBSET BusSubs
  /\ shutdowns \in 0..MaxShutdowns /\ drains \in 0..MaxDrains

NewManager ==
  /\ mu = "free"
  /\ applyPc = [c \in Appliers |-> "idle"]
  /\ todo = [c \in Appliers |-> {}]
  /\ snapshot = [c \in Appliers |-> {}]
  /\ active = {} /\ activeSubs = {} /\ live = {} /\ attached = {}
  /\ hotSubjects = {} /\ hotClosed = {} /\ handling = {} /\ control = {}
  /\ status = [i \in Instances |-> "none"]
  /\ starts = [i \in Instances |-> 0]
  /\ inDrain = {} /\ shutdowns = 0 /\ drains = 0

At(c, l) == applyPc[c] = l
ApplyGoes(c, l) == applyPc' = [applyPc EXCEPT ![c] = l]
SetTodo(c, S) == todo' = [todo EXCEPT ![c] = S]

(* LateControlPlane.Release, for the gears that are stopped.                  *)
Release(names) == {s \in control : s.key \notin names}

\* Variant of Release: a subscription belongs to the gear that made it.
ReleaseByOwner(names) == {s \in control : s.inst[2] \notin names}

(* stopAll: end the subscriptions, stop the gears, release what they listen   *)
(* to, forget ports and hot subjects.  The quiesce of the lane that comes     *)
(* first is HotLane's.                                                        *)
stopAll ==
  /\ activeSubs' = {}
  /\ live' = live \ activeSubs
  /\ attached' = attached \ activeSubs
  /\ status' = [i \in Instances |-> IF i \in active THEN "stopped" ELSE status[i]]
  /\ control' = Release({i[2] : i \in active})
  /\ active' = {}
  /\ hotSubjects' = {}
  /\ UNCHANGED <<starts, hotClosed, handling>>

(* ApplyScenario up to the gear loop: take the lock, stop what runs, derive   *)
(* the routes.  The purge of the Rack's own subjects touches no state here.   *)
ApplyBegin(c) ==
  /\ At(c, "idle") /\ mu = "free"
  /\ mu' = c
  /\ stopAll
  /\ ApplyGoes(c, "init") /\ SetTodo(c, GearsOf[c])
  /\ UNCHANGED <<snapshot, callVars>>

(* One turn of the gear loop: Create, ValidateConfig, the identifiers, Init.  *)
(* The conductor opens its link subscriptions in Init.                        *)
InitGear(c, g) ==
  /\ At(c, "init") /\ g \in todo[c]
  /\ SetTodo(c, todo[c] \ {g})
  /\ active' = {i \in active : i[2] # g} \cup {<<c, g>>}
  /\ status' = [status EXCEPT ![<<c, g>>] = "inited"]
  /\ control' = control \cup
       IF g \in LinkReaders THEN {[key |-> "link", inst |-> <<c, g>>]} ELSE {}
  /\ UNCHANGED <<mu, applyPc, snapshot, starts, busSubVars, callVars>>

InitDone(c) ==
  /\ At(c, "init") /\ todo[c] = {}
  /\ ApplyGoes(c, "wire") /\ SetTodo(c, WiresOf[c])
  /\ UNCHANGED <<mu, snapshot, gearVars, busSubVars, callVars>>

(* One turn of the wire loop.  A wire to a gear that is not here is skipped;  *)
(* one on the bus is registered as a subject to converge, under the subject's *)
(* name: a second wire of that subject takes the place of the first.          *)
WireUp(c, w) ==
  /\ At(c, "wire") /\ w \in todo[c]
  /\ SetTodo(c, todo[c] \ {w})
  /\ LET here == \E i \in active : i[2] = w.to
         onBus == here /\ w.lane = "guaranteed"
     IN /\ activeSubs' = activeSubs \cup IF here THEN {<<c, w>>} ELSE {}
        /\ live' = live \cup IF onBus THEN {<<c, w>>} ELSE {}
        /\ hotSubjects' = IF onBus
             THEN {h \in hotSubjects : h[1] # w.subject} \cup {<<w.subject, <<c, w>>>>}
             ELSE hotSubjects
  /\ UNCHANGED <<mu, applyPc, snapshot, gearVars, attached, hotClosed, handling, callVars>>

\* Variant of WiresDone: the lock is kept while waiting.
WiresDoneLocked(c) ==
  /\ At(c, "wire") /\ todo[c] = {}
  /\ ApplyGoes(c, "snapshot")
  /\ UNCHANGED <<mu, todo, snapshot, gearVars, busSubVars, callVars>>

(* The lock is released for the wait.                                         *)
WiresDone(c) ==
  /\ At(c, "wire") /\ todo[c] = {}
  /\ ApplyGoes(c, "snapshot") /\ mu' = "free"
  /\ UNCHANGED <<todo, snapshot, gearVars, busSubVars, callVars>>

(* An error while the lock is held: a gear type or a config refused, an Init, *)
(* a Subscribe or a Start that fails.  The deferred cleanup stops everything. *)
ApplyFails(c) ==
  /\ applyPc[c] \in {"init", "wire", "start"} /\ todo[c] # {}
  /\ stopAll
  /\ ApplyGoes(c, "failed") /\ mu' = "free"
  /\ UNCHANGED <<todo, snapshot, callVars>>

(* waitForConvergence: the snapshot of hotSubjects under the lock.            *)
Snapshot(c) ==
  /\ At(c, "snapshot") /\ mu = "free"
  /\ snapshot' = [snapshot EXCEPT ![c] = hotSubjects]
  /\ ApplyGoes(c, IF hotSubjects = {} THEN "relock" ELSE "converge")
  /\ UNCHANGED <<mu, todo, gearVars, busSubVars, callVars>>

(* The bus sets up the consumer of a subscription, some time after Subscribe. *)
Propagate(s) ==
  /\ s \in live \ attached
  /\ attached' = attached \cup {s}
  /\ UNCHANGED <<lockVars, gearVars, activeSubs, live, hotSubjects, hotClosed, handling, callVars>>

(* A probe, re-emitted every 500 ms for what is pending, reaches a consumer.  *)
ProbeArrives(s) ==
  /\ s \in attached \ handling
  /\ \E c \in Appliers : At(c, "converge")
                         /\ \E p \in snapshot[c] : p[1] = s[2].subject /\ p[2] \notin hotClosed
  /\ handling' = handling \cup {s}
  /\ UNCHANGED <<lockVars, gearVars, activeSubs, live, attached, hotSubjects, hotClosed, callVars>>

(* Its handler takes the lock and closes the channel the subject has now.     *)
ProbeHandled(s) ==
  /\ s \in handling /\ mu = "free"
  /\ handling' = handling \ {s}
  /\ hotClosed' = hotClosed \cup {h[2] : h \in {x \in hotSubjects : x[1] = s[2].subject}}
  /\ hotSubjects' = {h \in hotSubjects : h[1] # s[2].subject}
  /\ UNCHANGED <<lockVars, gearVars, activeSubs, live, attached, callVars>>

Converged(c) ==
  /\ At(c, "converge") /\ \A p \in snapshot[c] : p[2] \in hotClosed
  /\ ApplyGoes(c, "relock")
  /\ UNCHANGED <<mu, todo, snapshot, gearVars, busSubVars, callVars>>

(* The convergence timeout, or the end of the caller's context.               *)
ConvergenceTimeout(c) ==
  /\ At(c, "converge") /\ ApplyGoes(c, "failing")
  /\ UNCHANGED <<mu, todo, snapshot, gearVars, busSubVars, callVars>>

(* The deferred cleanup takes the lock again: it stops whatever is active.    *)
Cleanup(c) ==
  /\ At(c, "failing") /\ mu = "free"
  /\ stopAll
  /\ ApplyGoes(c, "failed")
  /\ UNCHANGED <<mu, todo, snapshot, callVars>>

\* Variant of Cleanup: the lock is not taken again, so stopAll is skipped.
CleanupUnlocked(c) ==
  /\ At(c, "failing") /\ mu = "free" /\ ApplyGoes(c, "failed")
  /\ UNCHANGED <<mu, todo, snapshot, gearVars, busSubVars, callVars>>

\* Variant of Relock: the gears this call made, not the ones active now.
RelockOwn(c) ==
  /\ At(c, "relock") /\ mu = "free"
  /\ mu' = c /\ ApplyGoes(c, "start") /\ SetTodo(c, {c} \X GearsOf[c])
  /\ UNCHANGED <<snapshot, gearVars, busSubVars, callVars>>

(* The start loop ranges over m.activeGears, whoever made them.               *)
Relock(c) ==
  /\ At(c, "relock") /\ mu = "free"
  /\ mu' = c /\ ApplyGoes(c, "start") /\ SetTodo(c, active)
  /\ UNCHANGED <<snapshot, gearVars, busSubVars, callVars>>

StartGear(c, i) ==
  /\ At(c, "start") /\ i \in todo[c]
  /\ SetTodo(c, todo[c] \ {i})
  /\ status' = [status EXCEPT ![i] = "started"]
  /\ starts' = [starts EXCEPT ![i] = @ + 1]
  /\ control' = control \cup
       IF i[2] \in Commanded THEN {[key |-> i[2], inst |-> i]} ELSE {}
  /\ UNCHANGED <<mu, applyPc, snapshot, active, busSubVars, callVars>>

ApplyReturns(c) ==
  /\ At(c, "start") /\ todo[c] = {}
  /\ ApplyGoes(c, "applied") /\ mu' = "free"
  /\ UNCHANGED <<todo, snapshot, gearVars, busSubVars, callVars>>

(* Shutdown holds the lock throughout; the drain of the outbox is Outbox's.   *)
ShutdownRuntime ==
  /\ mu = "free" /\ shutdowns < MaxShutdowns
  /\ shutdowns' = shutdowns + 1
  /\ stopAll
  /\ UNCHANGED <<lockVars, inDrain, drains>>

(* Drain holds the lock while the gears drain in parallel.                    *)
DrainBegin ==
  /\ mu = "free" /\ drains < MaxDrains
  /\ mu' = "drain" /\ drains' = drains + 1 /\ inDrain' = active
  /\ UNCHANGED <<applyPc, todo, snapshot, gearVars, busSubVars, shutdowns>>

DrainGear(i) ==
  /\ mu = "drain" /\ i \in inDrain
  /\ inDrain' = inDrain \ {i}
  /\ UNCHANGED <<lockVars, gearVars, busSubVars, shutdowns, drains>>

(* It returns when every gear is drained, or when its context ends first.     *)
DrainReturn ==
  /\ mu = "drain"
  /\ mu' = "free" /\ inDrain' = {}
  /\ UNCHANGED <<applyPc, todo, snapshot, gearVars, busSubVars, shutdowns, drains>>

Locked(c) ==
  \/ \E g \in Gears : InitGear(c, g)
  \/ InitDone(c)
  \/ \E w \in WiresOf[c] : WireUp(c, w)
  \/ WiresDone(c)
  \/ \E i \in Instances : StartGear(c, i)
  \/ ApplyReturns(c)

Waiting(c) == Snapshot(c) \/ Converged(c) \/ Cleanup(c) \/ Relock(c)

RuntimeNext ==
  \/ \E c \in Appliers : ApplyBegin(c) \/ Locked(c) \/ Waiting(c) \/ ApplyFails(c)
                         \/ ConvergenceTimeout(c)
  \/ \E s \in BusSubs : Propagate(s) \/ ProbeArrives(s) \/ ProbeHandled(s)
  \/ ShutdownRuntime \/ DrainBegin \/ DrainReturn
  \/ \E i \in Instances : DrainGear(i)

(* Loops and returns go on; sync.Mutex is not starved; the convergence timer  *)
(* fires; a Drain returns when its context ends at the latest.                *)
RuntimeFairness ==
  /\ \A c \in Appliers : /\ WF_runtimeVars(Locked(c))
                         /\ SF_runtimeVars(Waiting(c))
                         /\ WF_runtimeVars(ConvergenceTimeout(c))
  /\ WF_runtimeVars(DrainReturn)

RuntimeSpec == NewManager /\ [][RuntimeNext]_runtimeVars /\ RuntimeFairness

--------------------------------------------------------------------------------
Running(i) == status[i] \in {"inited", "started"}

(* Transactional cleanup ("ensure we don't leave partial state"): whenever    *)
(* the lock is free, what runs or is subscribed is what the Manager lists, so *)
(* that the next stopAll ends it; of each scenario all gears are started or   *)
(* none; and a call that failed has left nothing, whatever interleaved.       *)
Transactional ==
  mu = "free" =>
    /\ {i \in Instances : Running(i)} = active
    /\ live \subseteq activeSubs
    /\ \A c \in Appliers :
         /\ {g \in Gears : status[<<c, g>>] = "started"} \in {{}, GearsOf[c]}
         /\ At(c, "failed") => ~ \E i \in active \cup activeSubs : i[1] = c

(* A gear that was stopped is not started again, even by an ApplyScenario     *)
(* that was waiting when a Shutdown or another ApplyScenario stopped it.      *)
StoppedForGood ==
  [][\A i \in Instances : status[i] = "stopped" => status'[i] = "stopped"]_runtimeVars

(* Calls of ApplyScenario, Shutdown and Drain that overlap leave no partial   *)
(* scenario and revive nothing.                                               *)
WholeScenarios == []RuntimeTypeOK /\ []Transactional /\ StoppedForGood

(* A call of ApplyScenario that has begun returns.                            *)
ApplyTerminates ==
  \A c \in Appliers : ~At(c, "idle") ~> applyPc[c] \in {"applied", "failed"}

(* Refuted.  sdk.NativeGear.Start "is called exactly once after Init".        *)
StartedOnce == \A i \in Instances : starts[i] <= 1

(* Refuted.  A bus wire "has to be confirmed hot before gears start": the     *)
(* consumer of every bus wire of a started scenario has been set up.          *)
ConfirmedHot ==
  \A c \in Appliers, g \in Gears :
    status[<<c, g>>] = "started" =>
      \A s \in live : s[1] = c => s \in attached

(* Refuted.  LateControlPlane.Release "ends every subscription a gear made":  *)
(* what listens for commands belongs to a gear that is active.                *)
ReleasedWithGear ==
  mu = "free" => \A s \in control : s.inst \in active
================================================================================
