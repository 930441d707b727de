------------------------------- MODULE HotLane -------------------------------
(***************************************************************************)
(* The hot lane of a Rack (pkg/runtime/lane.go): messages between gears go *)
(* through bounded in-memory queues.  A publisher is a gear's source loop  *)
(* or a handler that forwards the message it handles; a publish goes to    *)
(* every subscriber of the subject, one after the other, and may block on  *)
(* a full queue.  Subscriptions are torn down and the lane is quiesced     *)
(* while publishes are under way.  Channel operations, the pending counter *)
(* and the sections under the lane's lock are single steps; taking a       *)
(* message out of the books (an outcome of a select and the pending.Add(-1) *)
(* that follows it) is one step.                                           *)
(***************************************************************************)
EXTENDS Integers, Sequences, FiniteSets, SequencesExt

CONSTANTS
  Sources,      \* gears that emit on their own
  Subs,         \* subscriptions (laneSub)
  LaneSubjectOf,    \* source or subscription -> subject it emits or listens on
  Forwards,     \* subscription -> subject its handler emits on, or None
  TornDown,     \* bound: subscriptions that are unsubscribed
  QueueSize,    \* localLane.queueSize
  MaxMsgs,      \* bound: messages a source emits
  MaxHops,      \* bound: times a message is forwarded
  None

(* A message: the source it comes from, its number there, its hops so far. *)
Msgs == [from : Sources, no : 1..MaxMsgs, hops : 0..MaxHops]

ASSUME HotLaneAssumption ==
  /\ Sources \cap Subs = {} /\ IsFiniteSet(Subs)
  /\ TornDown \subseteq Subs
  /\ QueueSize \in Nat \ {0}
  /\ MaxMsgs \in Nat /\ MaxHops \in Nat /\ None \notin Msgs

VARIABLES
  subs,         \* subject -> localLane.subs, a sequence
  laneQueue,        \* subscription -> laneSub.queue
  closed,       \* subscriptions whose done channel is closed
  pending,      \* localLane.pending
  run,          \* subscription -> where its goroutine stands
  item,         \* subscription -> the message it handles
  received,     \* subscription -> messages of the sources it has handled
  pub,          \* publisher -> where its publish stands
  targets,      \* publisher -> subscriptions still to be tried
  msg,          \* publisher -> the message it publishes
  emitted,      \* source -> number of messages emitted
  refused,      \* pairs of a subscription and a message it was not sent
  unsub,        \* subscription -> where Unsubscribe stands
  quiesce       \* where the quiesce call stands

publisherVars == <<pub, targets, msg, emitted, refused>>
subVars == <<run, item, received>>
laneVars == <<subs, laneQueue, closed, pending, subVars, publisherVars, unsub, quiesce>>

Publishers == Sources \cup Subs
Subjects == {LaneSubjectOf[p] : p \in Publishers} \cup ({Forwards[s] : s \in Subs} \ {None})

PublishPCs == {"idle", "count", "try", "blocked"}
RunPCs == {"select", "handle", "forward", "handled", "stopped"}
UnsubPCs == {"no", "closed", "waiting", "clearing", "returned"}

LaneTypeOK ==
  /\ subs \in [Subjects -> Seq(Subs)]
  /\ laneQueue \in [Subs -> Seq(Msgs)] /\ \A s \in Subs : Len(laneQueue[s]) <= QueueSize
  /\ closed \subseteq Subs
  /\ pending \in Nat
  /\ run \in [Subs -> RunPCs]
  /\ item \in [Subs -> Msgs \cup {None}]
  /\ received \in [Subs -> Seq(Msgs)]
  /\ pub \in [Publishers -> PublishPCs]
  /\ targets \in [Publishers -> Seq(Subs)]
  /\ msg \in [Publishers -> Msgs \cup {None}]
  /\ emitted \in [Sources -> 0..MaxMsgs]
  /\ refused \subseteq Subs \X Msgs
  /\ unsub \in [Subs -> UnsubPCs]
  /\ quiesce \in {"no", "polling", "nil", "interrupted"}

LaneInit ==
  /\ subs = [j \in Subjects |-> SetToSeq({s \in Subs : LaneSubjectOf[s] = j})]
  /\ laneQueue = [s \in Subs |-> <<>>]
  /\ closed = {}
  /\ pending = 0
  /\ run = [s \in Subs |-> "select"]
  /\ item = [s \in Subs |-> None]
  /\ received = [s \in Subs |-> <<>>]
  /\ pub = [p \in Publishers |-> "idle"]
  /\ targets = [p \in Publishers |-> <<>>]
  /\ msg = [p \in Publishers |-> None]
  /\ emitted = [e \in Sources |-> 0]
  /\ refused = {}
  /\ unsub = [s \in Subs |-> "no"]
  /\ quiesce = "no"

-----------------------------------------------------------------------------
(* publish takes a snapshot of the subscribers of subject. *)
LanePublish(p, m, subject) ==
  /\ pub[p] = "idle"
  /\ targets' = [targets EXCEPT ![p] = subs[subject]]
  /\ msg' = [msg EXCEPT ![p] = IF subs[subject] = <<>> THEN None ELSE m]
  /\ pub' = [pub EXCEPT ![p] = IF subs[subject] = <<>> THEN "idle" ELSE "count"]

(* A source emits its next message. *)
Emit(e) ==
  /\ emitted[e] < MaxMsgs
  /\ emitted' = [emitted EXCEPT ![e] = @ + 1]
  /\ LanePublish(e, [from |-> e, no |-> emitted[e] + 1, hops |-> 0], LaneSubjectOf[e])
  /\ UNCHANGED <<subs, laneQueue, closed, pending, subVars, refused, unsub, quiesce>>

(* enqueue counts the message before it tries to send it. *)
EnqueueCount(p) ==
  /\ pub[p] = "count"
  /\ pending' = pending + 1
  /\ pub' = [pub EXCEPT ![p] = "try"]
  /\ UNCHANGED <<subs, laneQueue, closed, subVars, targets, msg, emitted, refused, unsub, quiesce>>

(* The head of targets has been tried. *)
NextTarget(p) ==
  /\ targets' = [targets EXCEPT ![p] = Tail(@)]
  /\ pub' = [pub EXCEPT ![p] = IF Len(targets[p]) = 1 THEN "idle" ELSE "count"]
  /\ msg' = [msg EXCEPT ![p] = IF Len(targets[p]) = 1 THEN None ELSE @]

(* Variant: the queue has no bound. *)
EnqueueUnbounded(p) ==
  LET s == Head(targets[p]) IN
  /\ pub[p] \in {"try", "blocked"}
  /\ laneQueue' = [laneQueue EXCEPT ![s] = Append(@, msg[p])]
  /\ NextTarget(p)
  /\ UNCHANGED <<subs, closed, pending, subVars, emitted, refused, unsub, quiesce>>

(* A send on the queue: at once, or after having waited for room. *)
EnqueueSend(p) ==
  LET s == Head(targets[p]) IN
  /\ pub[p] \in {"try", "blocked"}
  /\ Len(laneQueue[s]) < QueueSize
  /\ laneQueue' = [laneQueue EXCEPT ![s] = Append(@, msg[p])]
  /\ NextTarget(p)
  /\ UNCHANGED <<subs, closed, pending, subVars, emitted, refused, unsub, quiesce>>

EnqueueBlocks(p) ==
  /\ pub[p] = "try"
  /\ Len(laneQueue[Head(targets[p])]) >= QueueSize
  /\ pub' = [pub EXCEPT ![p] = "blocked"]
  /\ UNCHANGED <<subs, laneQueue, closed, pending, subVars, targets, msg, emitted, refused, unsub,
                 quiesce>>

(* Variant: no timer, only a closed subscription ends the wait. *)
EnqueueFailsOnClose(p) ==
  /\ pub[p] = "blocked" /\ Head(targets[p]) \in closed
  /\ pending' = pending - 1
  /\ refused' = refused \cup {<<Head(targets[p]), msg[p]>>}
  /\ NextTarget(p)
  /\ UNCHANGED <<subs, laneQueue, closed, subVars, emitted, unsub, quiesce>>

(* Variant: the first failure ends the publish. *)
EnqueueFailsForAll(p) ==
  /\ pub[p] = "blocked"
  /\ pending' = pending - 1
  /\ refused' = refused \cup {<<Head(targets[p]), msg[p]>>}
  /\ targets' = [targets EXCEPT ![p] = <<>>]
  /\ pub' = [pub EXCEPT ![p] = "idle"]
  /\ msg' = [msg EXCEPT ![p] = None]
  /\ UNCHANGED <<subs, laneQueue, closed, subVars, emitted, unsub, quiesce>>

(* ErrLaneClosed, ErrLaneFull (the timer) or the error of the context.  The *)
(* publish goes on with the next target and reports the first error.       *)
EnqueueFails(p) ==
  /\ pub[p] = "blocked"
  /\ pending' = pending - 1
  /\ refused' = refused \cup {<<Head(targets[p]), msg[p]>>}
  /\ NextTarget(p)
  /\ UNCHANGED <<subs, laneQueue, closed, subVars, emitted, unsub, quiesce>>

-----------------------------------------------------------------------------
(* Variant: a message is no longer pending once it is taken. *)
RunTakesUncounted(s) ==
  /\ run[s] = "select"
  /\ laneQueue[s] # <<>>
  /\ item' = [item EXCEPT ![s] = Head(laneQueue[s])]
  /\ laneQueue' = [laneQueue EXCEPT ![s] = Tail(@)]
  /\ run' = [run EXCEPT ![s] = "handle"]
  /\ pending' = pending - 1
  /\ UNCHANGED <<subs, closed, received, publisherVars, unsub, quiesce>>

(* Variant: the message stays in the queue while it is handled. *)
RunPeeks(s) ==
  /\ run[s] = "select"
  /\ laneQueue[s] # <<>>
  /\ item' = [item EXCEPT ![s] = Head(laneQueue[s])]
  /\ run' = [run EXCEPT ![s] = "handle"]
  /\ UNCHANGED <<subs, laneQueue, closed, pending, received, publisherVars, unsub, quiesce>>

(* run selects an item of the queue; a closed done channel may lose. *)
RunTakes(s) ==
  /\ run[s] = "select"
  /\ laneQueue[s] # <<>>
  /\ item' = [item EXCEPT ![s] = Head(laneQueue[s])]
  /\ laneQueue' = [laneQueue EXCEPT ![s] = Tail(@)]
  /\ run' = [run EXCEPT ![s] = "handle"]
  /\ UNCHANGED <<subs, closed, pending, received, publisherVars, unsub, quiesce>>

(* deliver calls the handler, which may emit the message on its own port. *)
Deliver(s) ==
  /\ run[s] = "handle"
  /\ received' = [received EXCEPT ![s] =
                    IF item[s].hops = 0 THEN Append(@, item[s]) ELSE @]
  /\ \/ /\ Forwards[s] # None /\ item[s].hops < MaxHops
        /\ LanePublish(s, [item[s] EXCEPT !.hops = @ + 1], Forwards[s])
        /\ run' = [run EXCEPT ![s] = "forward"]
     \/ /\ Forwards[s] = None \/ item[s].hops = MaxHops
        /\ run' = [run EXCEPT ![s] = "handled"]
        /\ UNCHANGED <<pub, targets, msg>>
  /\ UNCHANGED <<subs, laneQueue, closed, pending, item, emitted, refused, unsub, quiesce>>

(* The handler returns when its publish has. *)
HandlerReturns(s) ==
  /\ run[s] = "forward" /\ pub[s] = "idle"
  /\ run' = [run EXCEPT ![s] = "handled"]
  /\ UNCHANGED <<subs, laneQueue, closed, pending, item, received, publisherVars, unsub,
                 quiesce>>

(* Variant: a handled message stays pending. *)
RunDoneUncounted(s) ==
  /\ run[s] = "handled"
  /\ run' = [run EXCEPT ![s] = "select"]
  /\ item' = [item EXCEPT ![s] = None]
  /\ UNCHANGED <<subs, laneQueue, closed, pending, received, publisherVars, unsub, quiesce>>

RunDone(s) ==
  /\ run[s] = "handled"
  /\ pending' = pending - 1
  /\ run' = [run EXCEPT ![s] = "select"]
  /\ item' = [item EXCEPT ![s] = None]
  /\ UNCHANGED <<subs, laneQueue, closed, received, publisherVars, unsub, quiesce>>

RunStops(s) ==
  /\ run[s] = "select" /\ s \in closed
  /\ run' = [run EXCEPT ![s] = "stopped"]
  /\ UNCHANGED <<subs, laneQueue, closed, pending, item, received, publisherVars, unsub,
                 quiesce>>

-----------------------------------------------------------------------------
(* Unsubscribe closes done ... *)
Unsubscribe(s) ==
  /\ s \in TornDown
  /\ unsub[s] = "no"
  /\ closed' = closed \cup {s}
  /\ unsub' = [unsub EXCEPT ![s] = "closed"]
  /\ UNCHANGED <<subs, laneQueue, pending, subVars, publisherVars, quiesce>>

(* kept: the list without the subscription, which is in it once. *)
Without(list, s) ==
  LET at == CHOOSE i \in DOMAIN list : list[i] = s
  IN [i \in 1..Len(list) - 1 |-> list[IF i < at THEN i ELSE i + 1]]

(* ... takes the subscription out of the lane ... *)
UnsubRemoves(s) ==
  /\ unsub[s] = "closed"
  /\ subs' = [subs EXCEPT ![LaneSubjectOf[s]] = Without(@, s)]
  /\ unsub' = [unsub EXCEPT ![s] = "waiting"]
  /\ UNCHANGED <<laneQueue, closed, pending, subVars, publisherVars, quiesce>>

(* ... waits for the goroutine to stop, for unsubscribeWait at most ... *)
UnsubWaited(s) ==
  /\ unsub[s] = "waiting"
  /\ unsub' = [unsub EXCEPT ![s] = "clearing"]
  /\ UNCHANGED <<subs, laneQueue, closed, pending, subVars, publisherVars, quiesce>>

(* Variant: the dropped messages stay pending. *)
UnsubDrops(s) ==
  /\ unsub[s] = "clearing"
  /\ laneQueue' = [laneQueue EXCEPT ![s] = <<>>]
  /\ unsub' = [unsub EXCEPT ![s] = "returned"]
  /\ UNCHANGED <<subs, closed, pending, subVars, publisherVars, quiesce>>

(* ... and drops what is still queued, one message at a time. *)
UnsubClears(s) ==
  /\ unsub[s] = "clearing"
  /\ \/ /\ laneQueue[s] # <<>>
        /\ laneQueue' = [laneQueue EXCEPT ![s] = Tail(@)]
        /\ pending' = pending - 1
        /\ UNCHANGED unsub
     \/ /\ laneQueue[s] = <<>>
        /\ unsub' = [unsub EXCEPT ![s] = "returned"]
        /\ UNCHANGED <<laneQueue, pending>>
  /\ UNCHANGED <<subs, closed, subVars, publisherVars, quiesce>>

-----------------------------------------------------------------------------
QuiesceBegins ==
  /\ quiesce = "no"
  /\ quiesce' = "polling"
  /\ UNCHANGED <<subs, laneQueue, closed, pending, subVars, publisherVars, unsub>>

QuiesceNil ==
  /\ quiesce = "polling" /\ pending <= 0
  /\ quiesce' = "nil"
  /\ UNCHANGED <<subs, laneQueue, closed, pending, subVars, publisherVars, unsub>>

QuiesceInterrupted ==
  /\ quiesce = "polling" /\ pending > 0
  /\ quiesce' = "interrupted"
  /\ UNCHANGED <<subs, laneQueue, closed, pending, subVars, publisherVars, unsub>>

-----------------------------------------------------------------------------
EnqueueStep(p) ==
  EnqueueCount(p) \/ EnqueueSend(p) \/ EnqueueBlocks(p) \/ EnqueueFails(p)

RunStep(s) ==
  RunTakes(s) \/ Deliver(s) \/ HandlerReturns(s) \/ RunDone(s) \/ RunStops(s)

UnsubStep(s) ==
  Unsubscribe(s) \/ UnsubRemoves(s) \/ UnsubWaited(s) \/ UnsubClears(s)

LaneNext ==
  \/ \E e \in Sources : Emit(e)
  \/ \E p \in Publishers : EnqueueStep(p)
  \/ \E s \in Subs : RunStep(s) \/ UnsubStep(s)
  \/ QuiesceBegins \/ QuiesceNil \/ QuiesceInterrupted

LaneSpec == LaneInit /\ [][LaneNext]_laneVars

(***************************************************************************)
(* A publish makes progress (its timer ends a wait), goroutines run, and a *)
(* quiesce polls.  Nobody need emit or unsubscribe.                        *)
(***************************************************************************)
LaneFairness ==
  /\ \A p \in Publishers : WF_laneVars(EnqueueStep(p))
  /\ \A s \in Subs :
       /\ WF_laneVars(RunStep(s))
       /\ WF_laneVars(UnsubRemoves(s) \/ UnsubWaited(s) \/ UnsubClears(s))
  /\ WF_laneVars(QuiesceNil)

LaneFairSpec == LaneSpec /\ LaneFairness

-----------------------------------------------------------------------------
Handling == {s \in Subs : run[s] \in {"handle", "forward", "handled"}}
Sending == {p \in Publishers : pub[p] \in {"try", "blocked"}}
Queued == UNION {{s} \X DOMAIN laneQueue[s] : s \in Subs}

(***************************************************************************)
(* pending is exact: it counts the messages queued, being handled or on    *)
(* their way into a queue, also when Unsubscribe, a handler that outlives  *)
(* it and a late send meet on one queue.                                   *)
(***************************************************************************)
PendingExact ==
  pending = Cardinality(Queued) + Cardinality(Handling) + Cardinality(Sending)

(***************************************************************************)
(* "quiesce waits until nothing is queued and no handler is running": that *)
(* is so at the moment it returns nil, forwarded messages included.        *)
(***************************************************************************)
QuiesceIsQuiet ==
  [][quiesce = "polling" /\ quiesce' = "nil" =>
       Handling = {} /\ \A s \in Subs : laneQueue[s] = <<>>]_laneVars

(***************************************************************************)
(* "A message reaches each subscriber as its own copy, in the order it was *)
(* emitted on that subject" and "at most once": what a subscription        *)
(* handles of a source is strictly increasing.                             *)
(***************************************************************************)
InOrderOnce ==
  \A s \in Subs : \A i, j \in 1..Len(received[s]) :
    i < j /\ received[s][i].from = received[s][j].from =>
      received[s][i].no < received[s][j].no

(***************************************************************************)
(* "Every subscriber gets its turn even if an earlier one is stuck": when  *)
(* a publish is over, each subscription that is still open has the message *)
(* or was itself full for the whole send timeout.                          *)
(***************************************************************************)
FanoutComplete ==
  \A e \in Sources, s \in Subs :
    pub[e] = "idle" /\ LaneSubjectOf[s] = LaneSubjectOf[e] /\ unsub[s] = "no" =>
      \A n \in 1..emitted[e] :
        LET m == [from |-> e, no |-> n, hops |-> 0] IN
        \/ <<s, m>> \in refused
        \/ m \in ToSet(laneQueue[s]) \cup ToSet(received[s]) \cup {item[s]}

(***************************************************************************)
(* The lane is exact: it counts what is under way, delivers in order and   *)
(* once, and leaves no open subscription out.                              *)
(***************************************************************************)
LaneExact == LaneTypeOK /\ PendingExact /\ InOrderOnce /\ FanoutComplete

(***************************************************************************)
(* "The timeout is what turns that into an error and not a deadlock":      *)
(* gears that hand messages to each other in a cycle do not block for      *)
(* ever.                                                                   *)
(***************************************************************************)
PublishReturns == \A p \in Publishers : pub[p] # "idle" ~> pub[p] = "idle"

(***************************************************************************)
(* As long as no subscription is torn down a quiesce ends when the sources *)
(* have stopped: pending comes down to zero.                               *)
(***************************************************************************)
QuiesceEnds ==
  quiesce = "polling" ~> quiesce # "polling" \/ closed # {}

(***************************************************************************)
(* Nobody waits on the lane for ever: neither a publisher nor a quiesce.   *)
(***************************************************************************)
LaneProgress == PublishReturns /\ QuiesceEnds

(***************************************************************************)
(* ErrLaneClosed's comment: it is returned "when the subscription was      *)
(* unsubscribed while a message was still on its way to the queue".  So    *)
(* nothing enters the queue of a subscription that Unsubscribe has left.   *)
(***************************************************************************)
ClosedIsReported ==
  \A s \in Subs : unsub[s] = "returned" => laneQueue[s] = <<>>
=============================================================================
