------------------------------- MODULE Outbox -------------------------------
(***************************************************************************)
(* The outbox of a Rack (pkg/runtime/outbox.go) with the emission paths    *)
(* that feed it, publishPort and publishEvent of pkg/runtime/runtime.go.   *)
(* An emission the bus refuses is parked in a bounded queue and forwarded  *)
(* by a drain.  Emitting gears, the drain, the loop that retries parked    *)
(* events, the bus and Shutdown are concurrent; every section of the code  *)
(* under the outbox mutex, and every publish, is a step of its own.        *)
(***************************************************************************)
EXTENDS Integers, Sequences, FiniteSets, FiniteSetsExt

CONSTANTS
  Items,        \* emissions, numbered; a gear emits its own in that order
  GearOf,       \* item -> gear that emits it
  SubjectOf,    \* item -> subject
  Events,       \* items that are durable events; the others are messages
  Invalid,      \* messages the bus answers with ErrInvalidMessage
  Cap,          \* outbox.max
  Retries,      \* outbox.retries
  Ordered,      \* outbox.ordered: is rack.outbox_order "subject"?
  MaxFaults     \* bound: failures of the bus

ASSUME OutboxAssumption ==
  /\ Items \subseteq Nat
  /\ Events \subseteq Items
  /\ Invalid \subseteq Items \ Events
  /\ Cap \in Nat \ {0}
  /\ Retries \in Nat \ {0}
  /\ Ordered \in BOOLEAN
  /\ MaxFaults \in Nat

VARIABLES
  bus,          \* "none" (nil), "down" or "up"
  log,          \* what the bus has accepted, without duplicates
  faults,       \* failures of the bus so far
  queue,        \* outbox.items
  parked,       \* items counted by outbox.parked
  drained,      \* items counted by outbox.drained
  dropped,      \* items counted by outbox.dropped
  draining,     \* outbox.draining
  again,        \* outbox.again
  busState,     \* outbox.busState
  drain,        \* the drain goroutine: where it stands
  pass,         \* the rest of its snapshot
  attempt,      \* attempts made for the head of pass
  forwarded,    \* has this pass taken an item out?
  held,         \* subjects held back in this pass
  drainCtx,     \* the context it runs under
  pc,           \* item -> where its emission stands
  retrying,     \* Manager.eventRetrying
  loop,         \* the event retry loop: where it stands
  shutdown,     \* Manager.Shutdown: where it stands
  owed          \* items parked at the last SetBus, if the bus held up since

busVars == <<bus, log, faults>>
counts == <<parked, drained, dropped>>
drainVars == <<drain, pass, attempt, forwarded, held, drainCtx>>
loopVars == <<retrying, loop>>
vars == <<busVars, queue, counts, draining, again, busState, drainVars, pc,
          loopVars, shutdown, owed>>

DrainPCs == {"idle", "pass", "next", "attempt", "send", "sent", "rejected"}
EmitPCs == {"new", "waiting", "moved", "check", "publish", "park", "accepted",
            "kick", "refused", "retry", "done", "failed"}

TypeOK ==
  /\ bus \in {"none", "down", "up"}
  /\ log \in Seq(Items)
  /\ faults \in 0..MaxFaults
  /\ queue \in Seq(Items) /\ Len(queue) <= Cap
  /\ parked \subseteq Items /\ drained \subseteq Items /\ dropped \subseteq Items
  /\ draining \in BOOLEAN /\ again \in BOOLEAN
  /\ busState \in {"unknown", "up", "down"}
  /\ drain \in DrainPCs
  /\ pass \in Seq(Items)
  /\ attempt \in 0..Retries
  /\ forwarded \in BOOLEAN
  /\ held \subseteq {SubjectOf[i] : i \in Items}
  /\ drainCtx \in {"background", "shutdown", "expired"}
  /\ pc \in [Items -> EmitPCs]
  /\ retrying \in BOOLEAN
  /\ loop \in {"off", "ticking", "kick", "ending"}
  /\ shutdown \in {"no", "closing", "draining", "returned"}
  /\ owed \subseteq Items

Init ==
  /\ bus \in {"none", "down", "up"}
  /\ log = <<>> /\ faults = 0
  /\ queue = <<>>
  /\ parked = {} /\ drained = {} /\ dropped = {}
  /\ draining = FALSE /\ again = FALSE /\ busState = "unknown"
  /\ drain = "idle" /\ pass = <<>> /\ attempt = 0 /\ forwarded = FALSE
  /\ held = {} /\ drainCtx = "background"
  /\ pc = [i \in Items |-> "new"]
  /\ retrying = FALSE /\ loop = "off"
  /\ shutdown = "no"
  /\ owed = {}

-----------------------------------------------------------------------------
IsEvent(i) == i \in Events

HoldsSubject(subject) == \E n \in 1..Len(queue) : SubjectOf[queue[n]] = subject

OnBus(i) == i \in Range(log)

(* The stream keeps one message per deduplication id. *)
Accept(i) == log' = IF OnBus(i) THEN log ELSE Append(log, i)

(***************************************************************************)
(* The answer of one publish.  A bus that is up may fail too, with or      *)
(* without having stored the message (the acknowledgement was lost).       *)
(***************************************************************************)
Publish(i, answer) ==
  \/ /\ answer = "nil" /\ bus = "up" /\ i \notin Invalid
     /\ Accept(i)
     /\ UNCHANGED <<faults, owed>>
  \/ /\ answer = "ErrInvalidMessage" /\ bus # "none" /\ i \in Invalid
     /\ UNCHANGED <<log, faults, owed>>
  \/ /\ answer = "error" /\ bus # "up"
     /\ UNCHANGED <<log, faults, owed>>
  \/ /\ answer = "error" /\ bus = "up" /\ i \notin Invalid /\ faults < MaxFaults
     /\ faults' = faults + 1
     /\ owed' = {}
     /\ Accept(i) \/ UNCHANGED log

(* Variant: the channel is replaced and the old one is not closed. *)
SignalMovedUnclosed == UNCHANGED pc

(* signalMovedLocked wakes the emissions that wait in waitClear. *)
SignalMoved ==
  pc' = [i \in Items |-> IF pc[i] = "waiting" THEN "moved" ELSE pc[i]]

(* Variant: the oldest item is evicted, whatever it is. *)
VictimIsOldest == 1

(* What parkLocked evicts from a full queue: the oldest event, if any. *)
Victim ==
  LET events == {n \in 1..Len(queue) : IsEvent(queue[n])}
  IN IF events = {} THEN 1 ELSE Min(events)

(* items.Remove of the nth item. *)
Without(list, n) == [k \in 1..Len(list) - 1 |-> list[IF k < n THEN k ELSE k + 1]]

(* Variant: the bound is tested after the append. *)
parkLockedLate(i) ==
  /\ parked' = parked \cup {i}
  /\ \/ /\ Len(queue) > Cap
        /\ queue' = Append(Without(queue, Victim), i)
        /\ dropped' = dropped \cup {queue[Victim]}
     \/ /\ Len(queue) <= Cap
        /\ queue' = Append(queue, i)
        /\ UNCHANGED dropped
  /\ UNCHANGED drained

parkLocked(i) ==
  /\ parked' = parked \cup {i}
  /\ \/ /\ Len(queue) >= Cap
        /\ queue' = Append(Without(queue, Victim), i)
        /\ dropped' = dropped \cup {queue[Victim]}
     \/ /\ Len(queue) < Cap
        /\ queue' = Append(queue, i)
        /\ UNCHANGED dropped
  /\ UNCHANGED drained

parkEventLocked(i) ==
  /\ Len(queue) < Cap
  /\ queue' = Append(queue, i)
  /\ parked' = parked \cup {i}
  /\ UNCHANGED <<drained, dropped>>

(* Variant: a drain request that meets a running drain is forgotten. *)
beginDrainForgets(ctx) ==
  \/ draining /\ UNCHANGED <<draining, again, busState, drainVars>>
  \/ /\ ~draining
     /\ draining' = TRUE /\ busState' = "unknown"
     /\ drain' = "pass" /\ drainCtx' = ctx
     /\ UNCHANGED <<again, pass, attempt, forwarded, held>>

beginDrain(ctx) ==
  \/ /\ draining
     /\ again' = TRUE
     /\ UNCHANGED <<draining, busState, drainVars>>
  \/ /\ ~draining
     /\ draining' = TRUE /\ busState' = "unknown"
     /\ drain' = "pass" /\ drainCtx' = ctx
     /\ UNCHANGED <<again, pass, attempt, forwarded, held>>

-----------------------------------------------------------------------------
(* waitClear's condition to wait for subject's backlog. *)
MustWait(subject) == Ordered /\ HoldsSubject(subject) /\ draining /\ busState # "down"

Goto(i, l) == pc' = [pc EXCEPT ![i] = l]

Others == <<busVars, drainVars, loopVars, shutdown, owed>>

(* publishPort or publishEvent begins: waitClear looks at the subject. *)
EmitBegin(i) ==
  /\ pc[i] = "new" /\ shutdown \in {"no", "closing"}
  /\ \A j \in Items : j < i /\ GearOf[j] = GearOf[i] => pc[j] \in {"done", "failed"}
  /\ Goto(i, IF MustWait(SubjectOf[i]) THEN "waiting" ELSE "check")
  /\ UNCHANGED <<Others, queue, counts, draining, again, busState>>

(* It was woken and looks again. *)
EmitMoved(i) ==
  /\ pc[i] = "moved"
  /\ Goto(i, IF MustWait(SubjectOf[i]) THEN "waiting" ELSE "check")
  /\ UNCHANGED <<Others, queue, counts, draining, again, busState>>

(* Its timer, outbox.wait, or its context ends the wait. *)
EmitWaitedLong(i) ==
  /\ pc[i] \in {"waiting", "moved"}
  /\ Goto(i, "check")
  /\ UNCHANGED <<Others, queue, counts, draining, again, busState>>

(* Variant: a live emission does not queue behind its subject's backlog. *)
ParkIfHeldNever(i) ==
  /\ pc[i] = "check"
  /\ Goto(i, "publish")
  /\ UNCHANGED <<Others, queue, counts, draining, again, busState>>

(* parkIfHeld and parkEventIfHeld.  A full outbox refuses an event. *)
ParkIfHeld(i) ==
  LET behind == Ordered /\ HoldsSubject(SubjectOf[i]) IN
  /\ pc[i] = "check"
  /\ \/ ~behind /\ Goto(i, "publish") /\ UNCHANGED <<queue, counts>>
     \/ behind /\ ~IsEvent(i) /\ parkLocked(i) /\ Goto(i, "kick")
     \/ behind /\ IsEvent(i) /\ parkEventLocked(i) /\ Goto(i, "kick")
     \/ behind /\ IsEvent(i) /\ Len(queue) >= Cap /\ Goto(i, "refused")
          /\ UNCHANGED <<queue, counts>>
  /\ UNCHANGED <<Others, draining, again, busState>>

(* The live publish.  Without any bus a message fails; an event is parked. *)
EmitPublish(i) ==
  /\ pc[i] = "publish"
  /\ \E answer \in {"nil", "error", "ErrInvalidMessage"} :
       /\ Publish(i, answer)
       /\ \/ answer = "nil" /\ Goto(i, "accepted")
          \/ answer # "nil" /\ bus = "none" /\ ~IsEvent(i) /\ Goto(i, "failed")
          \/ answer # "nil" /\ (bus # "none" \/ IsEvent(i)) /\ Goto(i, "park")
  /\ UNCHANGED <<bus, queue, counts, draining, again, busState, drainVars,
                 loopVars, shutdown>>

(* Variant: a message the bus refuses is reported as sent and forgotten. *)
ParkEventsOnly(i) ==
  /\ pc[i] = "park"
  /\ \/ ~IsEvent(i) /\ Goto(i, "done") /\ UNCHANGED <<queue, counts>>
     \/ IsEvent(i) /\ parkEventLocked(i) /\ Goto(i, "retry")
     \/ IsEvent(i) /\ Len(queue) >= Cap /\ Goto(i, "failed")
          /\ UNCHANGED <<queue, counts>>
  /\ UNCHANGED <<Others, draining, again, busState>>

(* The refused emission is parked; for an event the retry loop follows. *)
Park(i) ==
  /\ pc[i] = "park"
  /\ \/ ~IsEvent(i) /\ parkLocked(i) /\ Goto(i, "done")
     \/ IsEvent(i) /\ parkEventLocked(i) /\ Goto(i, "retry")
     \/ IsEvent(i) /\ Len(queue) >= Cap /\ Goto(i, "failed")
          /\ UNCHANGED <<queue, counts>>
  /\ UNCHANGED <<Others, draining, again, busState>>

(* The bus took the emission: is something parked? *)
EmitAccepted(i) ==
  /\ pc[i] = "accepted"
  /\ Goto(i, IF queue = <<>> THEN "done" ELSE "kick")
  /\ UNCHANGED <<Others, queue, counts, draining, again, busState>>

(* kickDrain; the emission ends, for a refused event with errOutboxFull. *)
Kick(i) ==
  /\ pc[i] \in {"kick", "refused"}
  /\ beginDrain("background")
  /\ Goto(i, IF pc[i] = "kick" THEN "done" ELSE "failed")
  /\ UNCHANGED <<busVars, queue, counts, loopVars, shutdown, owed>>

(* retryParkedEvents: the compare-and-swap, and the start of the loop. *)
RetryParkedEvents(i) ==
  /\ pc[i] = "retry"
  /\ Goto(i, "done")
  /\ \/ retrying /\ UNCHANGED loopVars
     \/ ~retrying /\ retrying' = TRUE /\ loop' = "ticking"
  /\ UNCHANGED <<busVars, queue, counts, draining, again, busState, drainVars,
                 shutdown, owed>>

Emission(i) ==
  \/ EmitBegin(i)
  \/ EmitMoved(i)
  \/ ParkIfHeld(i)
  \/ EmitPublish(i)
  \/ Park(i)
  \/ EmitAccepted(i)
  \/ Kick(i)
  \/ RetryParkedEvents(i)

-----------------------------------------------------------------------------
(* The fields a drain resets when it ends. *)
StopDrain ==
  /\ draining' = FALSE /\ busState' = "unknown" /\ again' = FALSE
  /\ drain' = "idle" /\ pass' = <<>> /\ attempt' = 0 /\ forwarded' = FALSE
  /\ held' = {} /\ drainCtx' = "background"
  /\ SignalMoved

(* The head of the pass is finished with. *)
NextInPass ==
  /\ drain' = "next" /\ pass' = Tail(pass) /\ attempt' = 0
  /\ UNCHANGED drainCtx

Expired == drainCtx = "expired"

(* The snapshot, or the end of the drain, under one lock. *)
DrainPass ==
  /\ drain = "pass"
  /\ \/ (Expired \/ queue = <<>>) /\ StopDrain
     \/ /\ ~Expired /\ queue # <<>>
        /\ pass' = queue /\ drain' = "next" /\ forwarded' = FALSE /\ held' = {}
        /\ UNCHANGED <<draining, again, busState, attempt, drainCtx, pc>>
  /\ UNCHANGED <<busVars, queue, counts, loopVars, shutdown, owed>>

(* The next item of the pass: skip it when its subject is held back. *)
DrainNext ==
  /\ drain = "next" /\ pass # <<>>
  /\ \/ Expired /\ StopDrain
     \/ /\ ~Expired
        /\ \/ Ordered /\ SubjectOf[Head(pass)] \in held /\ NextInPass
           \/ /\ ~(Ordered /\ SubjectOf[Head(pass)] \in held)
              /\ drain' = "attempt"
              /\ UNCHANGED <<pass, attempt, drainCtx>>
        /\ UNCHANGED <<draining, again, busState, forwarded, held, pc>>
  /\ UNCHANGED <<busVars, queue, counts, loopVars, shutdown, owed>>

(* The pass is over.  One that forwarded nothing ends the drain, unless a  *)
(* drain was asked for meanwhile.                                          *)
DrainEndPass ==
  /\ drain = "next" /\ pass = <<>>
  /\ \/ ~forwarded /\ ~again /\ StopDrain
     \/ /\ forwarded \/ again
        /\ drain' = "pass"
        /\ again' = (again /\ forwarded)
        /\ UNCHANGED <<draining, busState, pass, attempt, forwarded, held, drainCtx, pc>>
  /\ UNCHANGED <<busVars, queue, counts, loopVars, shutdown, owed>>

(* publishWithRetries before an attempt: is the item still queued? *)
DrainAttempt ==
  LET it == Head(pass) IN
  /\ drain = "attempt"
  /\ \/ Expired /\ held' = held \cup {SubjectOf[it]} /\ NextInPass
     \/ ~Expired /\ it \notin Range(queue) /\ NextInPass /\ UNCHANGED held
     \/ /\ ~Expired /\ it \in Range(queue)
        /\ drain' = "send"
        /\ UNCHANGED <<pass, attempt, held, drainCtx>>
  /\ UNCHANGED <<busVars, queue, counts, draining, again, busState, forwarded, pc,
                 loopVars, shutdown, owed>>

(* The attempt, with setBusState recording the answer. *)
DrainSend ==
  LET it == Head(pass) IN
  /\ drain = "send"
  /\ \E answer \in {"nil", "error", "ErrInvalidMessage"} :
       /\ \/ Publish(it, answer)
          \/ Expired /\ answer = "error" /\ UNCHANGED <<log, faults, owed>>
       /\ busState' = IF answer = "error" THEN "down" ELSE "up"
       /\ \/ answer = "nil" /\ drain' = "sent" /\ UNCHANGED <<pass, attempt, held>>
          \/ answer = "ErrInvalidMessage" /\ drain' = "rejected"
               /\ UNCHANGED <<pass, attempt, held>>
          \/ /\ answer = "error" /\ attempt < Retries
             /\ drain' = "attempt" /\ attempt' = attempt + 1
             /\ UNCHANGED <<pass, held>>
          \/ /\ answer = "error" /\ attempt = Retries
             /\ held' = held \cup {SubjectOf[it]}
             /\ drain' = "next" /\ pass' = Tail(pass) /\ attempt' = 0
  /\ IF busState' = busState THEN UNCHANGED pc ELSE SignalMoved
  /\ UNCHANGED <<bus, queue, counts, draining, again, forwarded, drainCtx,
                 loopVars, shutdown>>

(* Variant: an evicted item is counted as drained too. *)
DrainRemoveAlways ==
  LET it == Head(pass) IN
  /\ drain \in {"sent", "rejected"}
  /\ forwarded' = TRUE
  /\ queue' = SelectSeq(queue, LAMBDA other : other # it)
  /\ \/ drain = "sent" /\ drained' = drained \cup {it} /\ UNCHANGED dropped
     \/ drain = "rejected" /\ dropped' = dropped \cup {it} /\ UNCHANGED drained
  /\ SignalMoved
  /\ NextInPass
  /\ UNCHANGED <<busVars, parked, draining, again, busState, held, loopVars,
                 shutdown, owed>>

(* remove: an item the cap evicted meanwhile is not counted again. *)
DrainRemove ==
  LET it == Head(pass) IN
  /\ drain \in {"sent", "rejected"}
  /\ forwarded' = TRUE
  /\ \/ /\ it \in Range(queue)
        /\ \E n \in 1..Len(queue) : queue[n] = it /\ queue' = Without(queue, n)
        /\ \/ drain = "sent" /\ drained' = drained \cup {it} /\ UNCHANGED dropped
           \/ drain = "rejected" /\ dropped' = dropped \cup {it} /\ UNCHANGED drained
        /\ SignalMoved
     \/ it \notin Range(queue) /\ UNCHANGED <<queue, drained, dropped, pc>>
  /\ NextInPass
  /\ UNCHANGED <<busVars, parked, draining, again, busState, held, loopVars,
                 shutdown, owed>>

DrainStep ==
  \/ DrainPass
  \/ DrainNext
  \/ DrainEndPass
  \/ DrainAttempt
  \/ DrainSend
  \/ DrainRemove

-----------------------------------------------------------------------------
(* A tick of the retry loop: hasEvents, then kickDrain, or the end. *)
LoopTick ==
  /\ loop = "ticking"
  /\ loop' = IF shutdown = "no" /\ \E n \in 1..Len(queue) : IsEvent(queue[n])
             THEN "kick" ELSE "ending"
  /\ UNCHANGED <<busVars, queue, counts, draining, again, busState, drainVars, pc,
                 retrying, shutdown, owed>>

LoopKick ==
  /\ loop = "kick"
  /\ beginDrain("background")
  /\ loop' = "ticking"
  /\ UNCHANGED <<busVars, queue, counts, pc, retrying, shutdown, owed>>

(* The deferred eventRetrying.Store(false). *)
LoopEnd ==
  /\ loop = "ending"
  /\ loop' = "off" /\ retrying' = FALSE
  /\ UNCHANGED <<busVars, queue, counts, draining, again, busState, drainVars, pc,
                 shutdown, owed>>

-----------------------------------------------------------------------------
(* SetBus hands over a bus that is connected and starts a drain. *)
SetBus ==
  /\ shutdown = "no"
  /\ bus' = "up"
  /\ beginDrain("background")
  /\ owed' = Range(queue)
  /\ UNCHANGED <<log, faults, queue, counts, pc, loopVars, shutdown>>

(* The connection is lost, and found again without a drain being started:  *)
(* the bus reconnects by itself, or SetBus has not reached kickDrain yet.  *)
BusDown ==
  /\ bus = "up" /\ faults < MaxFaults
  /\ bus' = "down" /\ faults' = faults + 1
  /\ owed' = {}
  /\ UNCHANGED <<log, queue, counts, draining, again, busState, drainVars, pc,
                 loopVars, shutdown>>

BusReconnects ==
  /\ bus # "up"
  /\ bus' = "up"
  /\ UNCHANGED <<log, faults, queue, counts, draining, again, busState, drainVars, pc,
                 loopVars, shutdown, owed>>

-----------------------------------------------------------------------------
(* Shutdown closes m.closing and stops the gears ... *)
Shutdown ==
  /\ shutdown = "no"
  /\ shutdown' = "closing"
  /\ UNCHANGED <<busVars, queue, counts, draining, again, busState, drainVars, pc,
                 loopVars, owed>>

(* ... then drains what is parked, unless a drain is running already. *)
ShutdownDrain ==
  /\ shutdown = "closing"
  /\ \/ queue = <<>> /\ shutdown' = "returned"
          /\ UNCHANGED <<draining, again, busState, drainVars>>
     \/ queue # <<>> /\ shutdown' = (IF draining THEN "returned" ELSE "draining")
          /\ beginDrain("shutdown")
  /\ UNCHANGED <<busVars, queue, counts, pc, loopVars, owed>>

(* The five seconds of its context are over. *)
ShutdownTimeout ==
  /\ drainCtx = "shutdown"
  /\ drainCtx' = "expired"
  /\ UNCHANGED <<busVars, queue, counts, draining, again, busState, drain, pass,
                 attempt, forwarded, held, pc, loopVars, shutdown, owed>>

(* Its drain returned: what is left is logged as dropped, and so it is. *)
ShutdownReturn ==
  /\ shutdown = "draining" /\ drain = "idle"
  /\ shutdown' = "returned"
  /\ UNCHANGED <<busVars, queue, counts, draining, again, busState, drainVars, pc,
                 loopVars, owed>>

BusStep == SetBus \/ BusDown \/ BusReconnects
LoopStep == LoopTick \/ LoopKick \/ LoopEnd
ShutdownStep == Shutdown \/ ShutdownDrain \/ ShutdownTimeout \/ ShutdownReturn

Next ==
  \/ \E i \in Items : Emission(i) \/ EmitWaitedLong(i)
  \/ DrainStep
  \/ LoopStep
  \/ BusStep
  \/ ShutdownStep

Spec == Init /\ [][Next]_vars

(***************************************************************************)
(* The goroutines run on, the ticker ticks and a publish returns.  No gear *)
(* need emit, no bus need come back, and neither the timer of a waiting    *)
(* emission nor Shutdown is relied upon.                                   *)
(***************************************************************************)
Fairness ==
  /\ \A i \in Items : WF_vars(Emission(i) /\ pc[i] # "new")
  /\ WF_vars(DrainStep)
  /\ WF_vars(LoopStep)

FairSpec == Spec /\ Fairness
-----------------------------------------------------------------------------
(***************************************************************************)
(* The counters add up: an emission that was parked is queued, or counted  *)
(* as drained, or counted as dropped, and never two of these.  The cap     *)
(* evicts items that a drain holds in its snapshot; remove must not count  *)
(* those again.                                                            *)
(***************************************************************************)
ParkedAccounted ==
  /\ parked = Range(queue) \cup drained \cup dropped
  /\ drained \cap dropped = {}
  /\ (drained \cup dropped) \cap Range(queue) = {}
  /\ Len(queue) = Cardinality(Range(queue))

(***************************************************************************)
(* No silent loss: an emission reported as a success is on the bus, or is  *)
(* parked, or was counted as dropped; one counted as drained is on the     *)
(* bus.                                                                    *)
(***************************************************************************)
AcceptedIsKept ==
  /\ \A i \in Items : pc[i] = "done" => OnBus(i) \/ i \in Range(queue) \cup dropped
  /\ \A i \in drained : OnBus(i)

(***************************************************************************)
(* Of two emissions of a gear on a subject the later is on the bus only if *)
(* the earlier is, before it, or was counted as dropped or reported as     *)
(* failed: a live emission does not overtake parked ones, and a drain      *)
(* holds a subject back from the first item that the bus does not take.    *)
(***************************************************************************)
SubjectOrder ==
  Ordered => \A i, j \in Items :
    i < j /\ GearOf[i] = GearOf[j] /\ SubjectOf[i] = SubjectOf[j] /\ OnBus(j) =>
      \/ \E m, n \in DOMAIN log : m < n /\ log[m] = i /\ log[n] = j
      \/ i \in dropped \/ pc[i] = "failed"

(***************************************************************************)
(* OutboxOrderSubject: "a message is never forwarded ahead of an older one *)
(* on the same subject", not even of one that the cap evicted.             *)
(***************************************************************************)
NeverAhead ==
  Ordered => \A m, n \in DOMAIN log :
    m < n /\ GearOf[log[m]] = GearOf[log[n]] /\ SubjectOf[log[m]] = SubjectOf[log[n]] =>
      log[m] < log[n]

(***************************************************************************)
(* "An event never takes room from traffic: it leaves first": a message    *)
(* that the bus did not reject is dropped only when no event is parked.    *)
(***************************************************************************)
EventsYield ==
  [][\A i \in (dropped' \ dropped) \ (Events \cup Invalid) :
       \A n \in 1..Len(queue') : ~IsEvent(queue'[n])]_vars

(***************************************************************************)
(* Nothing vanishes in the outbox: every emission is accounted for, once,  *)
(* whatever the cap, a drain, a lost bus and a shutdown do to the queue,   *)
(* and what the cap costs is paid in events first.                         *)
(***************************************************************************)
OutboxAccounted == [](TypeOK /\ ParkedAccounted /\ AcceptedIsKept) /\ EventsYield

(***************************************************************************)
(* SetBus: "whatever was parked while the bus was down is forwarded now",  *)
(* even when an earlier drain is just giving up: if the bus holds up, the  *)
(* emissions parked at a SetBus leave the queue.                           *)
(***************************************************************************)
SetBusForwards ==
  \A i \in Items : i \in owed ~> i \notin Range(queue) \/ i \notin owed
                                   \/ shutdown # "no"

(***************************************************************************)
(* An emission that waits for its subject's backlog is woken whenever the  *)
(* reason to wait ends; it needs its timer only while parked events keep   *)
(* trying a bus that is down.                                              *)
(***************************************************************************)
WaitersReturn ==
  \A i \in Items : pc[i] \in {"waiting", "moved"} ~>
                     \/ pc[i] \notin {"waiting", "moved"} \/ shutdown # "no"
                     \/ Events # {} /\ bus # "up"

(***************************************************************************)
(* The outbox does not hold traffic back: what was parked at a SetBus is   *)
(* forwarded and what waits behind it goes on.                             *)
(***************************************************************************)
OutboxProgress == SetBusForwards /\ WaitersReturn

(***************************************************************************)
(* outboxEventRetry "is how often parked events try the bus": with the bus *)
(* up for good a parked event leaves the queue, without a SetBus and       *)
(* without other traffic.                                                  *)
(***************************************************************************)
EventsAreRetried ==
  \A i \in Events :
    i \in Range(queue) /\ bus = "up" /\ faults = MaxFaults ~>
      i \notin Range(queue) \/ shutdown # "no"

(***************************************************************************)
(* "A shutdown with a live bus and a non-empty outbox gets one bounded     *)
(* drain attempt": Shutdown does not end with parked emissions before its  *)
(* drain has run.                                                          *)
(***************************************************************************)
ShutdownDrainsFirst ==
  [][shutdown = "closing" /\ shutdown' = "returned" =>
       queue = <<>> \/ bus # "up"]_vars
=============================================================================
