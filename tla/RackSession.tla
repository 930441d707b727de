----------------------------- MODULE RackSession -----------------------------
(***************************************************************************)
(* The session of a Rack (cmd/fluxrig/commands/run.go, run_resume.go and   *)
(* run_carry.go) as far as it decides which scenario the gears run: the    *)
(* passport and the local copy on disk, enrollment, the resume of the copy *)
(* with and without the bus, the handler of the scenarios that the Mixer   *)
(* sends, the promotion of a pending Rack, and the change from a session   *)
(* without the bus to one with it that keeps the gears.  The main          *)
(* goroutine and the handler of the scenario subscription interleave; the  *)
(* handler and the resume hold scenarios.mu, the promotion does not.       *)
(* Scenarios are numbered in the order in which the Mixer activates them,  *)
(* and ApplyScenario, which serializes on the runtime's own lock, is one   *)
(* step that replaces the gears or fails and leaves none.                  *)
(***************************************************************************)
EXTENDS Naturals, Sequences

CONSTANTS
  MaxScenarios,  \* bound: scenarios the Mixer activates
  MaxSends,      \* bound: scenarios it sends to the Rack
  MaxRackSessions,   \* bound: sessions of the Rack
  MaxFailures,   \* bound: failures to apply a scenario or to start telemetry
  MaxUnsaved,    \* bound: failures to save a copy
  NeedsBus,      \* scenarios with a wire over the bus
  MaxSuspends,   \* bound: suspensions of the Rack
  FirstStatus,   \* status with which the Mixer enrolls the Rack
  NoScenario

SentScenarios == 1..MaxScenarios

ASSUME RackSessionAssumption ==
  /\ MaxScenarios \in Nat /\ MaxSends \in Nat /\ MaxRackSessions \in Nat
  /\ MaxFailures \in Nat /\ MaxUnsaved \in Nat /\ MaxSuspends \in Nat
  /\ NeedsBus \subseteq SentScenarios
  /\ FirstStatus \in {"pending", "active"}
  /\ NoScenario \notin SentScenarios
  /\ NoScenario \notin {"pending", "active", "inactive", "resume", "mixer", "promotion"}

VARIABLES
  passport,        \* status in the saved passport, or None
  copy,            \* LocalScenarioStore: the saved scenario, or None
  owned,           \* the copy names this Rack, so Load returns it
  mixer,           \* number of the Mixer's active scenario, 0 for none
  rackStatus,          \* status of the Rack at the Mixer
  sends, rackSessions, failures, unsaved, suspends,  \* counters of the bounds
  main,            \* where the main goroutine stands
  carried,         \* the session took over the gears of the one before
  isSessionActive, runtimeStarted,
  lastScenario,    \* scenario cached while pending, with its payload
  mixerSent,       \* scenarioSession.mixerSent
  resumed,         \* scenarioSession.resumed
  notice,          \* a passport on its way to the notify subscription
  activationCh,      \* activationCh holds a passport
  listening,       \* the scenario subscription exists
  inbox,           \* scenarios sent to it and not handled
  handler,         \* the handler: idle, or what it does with a scenario
  received,        \* last scenario sent to the subscription
  running,         \* scenario the gears run, or None
  startedBy,       \* what started these gears
  everRan          \* scenarios that have run on this Rack

disk == <<passport, copy, owned>>
mixerVars == <<mixer, rackStatus>>
scenarios == <<mixerSent, resumed>>
memory == <<isSessionActive, runtimeStarted, lastScenario>>
gears == <<running, startedBy, everRan>>
notes == <<notice, activationCh>>
bounds == <<sends, rackSessions, failures, unsaved, suspends>>
inVars == <<listening, inbox, handler, received>>
sessionVars == <<disk, mixerVars, bounds, main, carried, scenarios, memory, notes, inVars, gears>>

Idle == [pc |-> "idle", scenario |-> NoScenario]

SessionFlags ==
  {owned, carried, isSessionActive, runtimeStarted, mixerSent, notice, activationCh,
   listening} \subseteq BOOLEAN

SessionValues ==
  /\ passport \in {NoScenario, "pending", "active", "inactive"}
  /\ copy \in SentScenarios \cup {NoScenario}
  /\ mixer \in 0..MaxScenarios
  /\ rackStatus \in {"pending", "active", "inactive"}
  /\ sends \in 0..MaxSends /\ rackSessions \in 0..MaxRackSessions /\ failures \in 0..MaxFailures
  /\ unsaved \in 0..MaxUnsaved /\ suspends \in 0..MaxSuspends
  /\ main \in {"down", "enroll", "subscribe", "resume", "offline", "loop",
               "offlineLoop", "promote", "promoteApply", "promoteSave"}
  /\ lastScenario \in SentScenarios \cup {NoScenario} /\ resumed \in SentScenarios \cup {NoScenario}
  /\ inbox \in Seq(SentScenarios)
  /\ handler \in [pc : {"idle", "apply", "cache"}, scenario : SentScenarios \cup {NoScenario}]
  /\ received \in SentScenarios \cup {NoScenario}
  /\ running \in SentScenarios \cup {NoScenario}
  /\ startedBy \in {NoScenario, "resume", "mixer", "promotion"}
  /\ everRan \subseteq SentScenarios

SessionTypeOK == SessionValues /\ SessionFlags

SessionInit ==
  /\ passport = NoScenario /\ copy = NoScenario /\ owned = FALSE
  /\ mixer = 0 /\ rackStatus = FirstStatus
  /\ sends = 0 /\ rackSessions = 0 /\ failures = 0 /\ unsaved = 0 /\ suspends = 0
  /\ main = "down" /\ carried = FALSE
  /\ isSessionActive = FALSE /\ runtimeStarted = FALSE /\ lastScenario = NoScenario
  /\ mixerSent = FALSE /\ resumed = NoScenario /\ notice = FALSE /\ activationCh = FALSE
  /\ listening = FALSE /\ inbox = <<>> /\ handler = Idle /\ received = NoScenario
  /\ running = NoScenario /\ startedBy = NoScenario /\ everRan = {}

-----------------------------------------------------------------------------
(* ApplyScenario(sc) succeeds ... *)
Applied(sc, by) ==
  /\ running' = sc /\ startedBy' = by
  /\ everRan' = everRan \cup {sc}

(* ... or fails and stops what it has started. *)
ApplyFailed ==
  /\ failures < MaxFailures /\ failures' = failures + 1
  /\ running' = NoScenario /\ startedBy' = NoScenario
  /\ UNCHANGED everRan

(* save keeps sc as the local copy; a failure is only logged. *)
Save(sc) ==
  \/ copy' = sc /\ owned' = TRUE /\ UNCHANGED unsaved
  \/ unsaved < MaxUnsaved /\ unsaved' = unsaved + 1 /\ UNCHANGED <<copy, owned>>

(* The subscriptions, and what is on its way to them, end with the session. *)
SubscriptionsEnd ==
  /\ listening' = FALSE /\ inbox' = <<>> /\ handler' = Idle /\ received' = NoScenario
  /\ notice' = FALSE /\ activationCh' = FALSE

(* scenarios.mu is free: the handler holds it from its start to its end. *)
ScenariosUnlocked == handler = Idle

-----------------------------------------------------------------------------
(* runSession loads the passport and takes what the session before it has  *)
(* left; the bus answers, or it does not and the Rack has a passport to    *)
(* start without it.                                                       *)
StartSession ==
  /\ main = "down" /\ rackSessions < MaxRackSessions
  /\ rackSessions' = rackSessions + 1
  /\ main' \in {"enroll"} \cup (IF passport = NoScenario THEN {} ELSE {"offline"})
  /\ isSessionActive' = (passport = "active")
  /\ runtimeStarted' = (passport = "active")
  /\ lastScenario' = NoScenario
  /\ carried' = FALSE
  /\ IF carried THEN UNCHANGED scenarios ELSE mixerSent' = FALSE /\ resumed' = NoScenario
  /\ UNCHANGED <<disk, mixerVars, sends, failures, unsaved, suspends, notes, inVars, gears>>

(* The Mixer answers the Hello: the passport is saved.  Telemetry starts    *)
(* with an active passport, and only if it does is the session active.     *)
EnrollActive ==
  /\ main = "enroll" /\ rackStatus = "active"
  /\ passport' = "active"
  /\ \/ isSessionActive' = TRUE /\ runtimeStarted' = TRUE /\ UNCHANGED failures
     \/ /\ failures < MaxFailures /\ failures' = failures + 1
        /\ UNCHANGED <<isSessionActive, runtimeStarted>>
  /\ main' = "subscribe"
  /\ UNCHANGED <<copy, owned, mixerVars, sends, rackSessions, unsaved, suspends, carried, scenarios,
                 lastScenario, notes, inVars, gears>>

EnrollPending ==
  /\ main = "enroll" /\ rackStatus # "active"
  /\ passport' = rackStatus /\ isSessionActive' = FALSE
  /\ main' = "subscribe"
  /\ UNCHANGED <<copy, owned, mixerVars, bounds, carried, scenarios, runtimeStarted,
                 lastScenario, notes, inVars, gears>>

(* enrollDeadline: the session goes on with the passport it has. *)
EnrollTimeout ==
  /\ main = "enroll" /\ main' = "subscribe"
  /\ UNCHANGED <<disk, mixerVars, bounds, carried, scenarios, memory, notes, inVars, gears>>

(* The notify and the scenario subscription. *)
Subscribe ==
  /\ main = "subscribe" /\ main' = "resume"
  /\ listening' = TRUE
  /\ UNCHANGED <<disk, mixerVars, bounds, carried, scenarios, memory, notes, inbox,
                 handler, received, gears>>

(* resumeLocalScenario, under scenarios.mu. *)
ResumeCopy(mayStart) ==
  \/ /\ mayStart
     /\ \/ Applied(copy, "resume") /\ resumed' = copy /\ runtimeStarted' = TRUE
           /\ UNCHANGED failures
        \/ ApplyFailed /\ UNCHANGED <<resumed, runtimeStarted>>
  \/ ~mayStart /\ UNCHANGED <<gears, resumed, runtimeStarted, failures>>

LoadsCopy == copy # NoScenario /\ owned

(* Variant: the copy is resumed whatever the Mixer has sent. *)
MayResumeAlways == isSessionActive /\ resumed = NoScenario /\ LoadsCopy

MayResume == isSessionActive /\ resumed = NoScenario /\ ~mixerSent /\ LoadsCopy

Resume ==
  /\ main = "resume" /\ ScenariosUnlocked
  /\ main' = "loop"
  /\ ResumeCopy(MayResume)
  /\ UNCHANGED <<disk, mixerVars, sends, rackSessions, unsaved, suspends, carried, mixerSent, isSessionActive,
                 lastScenario, notes, inVars>>

(* resumeWithoutBus: a scenario with a wire over the bus waits. *)
ResumeWithoutBus ==
  /\ main = "offline" /\ ScenariosUnlocked
  /\ main' = "offlineLoop"
  /\ ResumeCopy(MayResume /\ copy \notin NeedsBus)
  /\ UNCHANGED <<disk, mixerVars, sends, rackSessions, unsaved, suspends, carried, mixerSent, isSessionActive,
                 lastScenario, notes, inVars>>

-----------------------------------------------------------------------------
(* The handler of the scenario subscription locks scenarios.mu and looks    *)
(* whether the session is active ...                                        *)
HandlerTakes ==
  /\ listening /\ inbox # <<>> /\ ScenariosUnlocked
  /\ handler' = [pc |-> IF isSessionActive THEN "apply" ELSE "cache",
                 scenario |-> Head(inbox)]
  /\ inbox' = Tail(inbox)
  /\ UNCHANGED <<disk, mixerVars, bounds, main, carried, scenarios, memory, notes,
                 listening, received, gears>>

(* Variant: any scenario of the Mixer counts as the resumed one. *)
SameAsResumedAny == resumed # NoScenario

(* consumeResumed compares the scenario with the one resumed. *)
SameAsResumed == resumed = handler.scenario

(* ... consumeResumed: the scenario is the one resumed from the copy, and   *)
(* the gears keep running; ...                                              *)
HandlerMatches ==
  /\ handler.pc = "apply" /\ SameAsResumed
  /\ resumed' = NoScenario /\ mixerSent' = TRUE /\ runtimeStarted' = TRUE
  /\ handler' = Idle
  /\ UNCHANGED <<disk, mixerVars, bounds, main, carried, isSessionActive, lastScenario,
                 notes, listening, inbox, received, gears>>

(* ... or it is applied and saved; ... *)
HandlerApplies ==
  /\ handler.pc = "apply" /\ ~SameAsResumed
  /\ resumed' = NoScenario /\ mixerSent' = TRUE /\ runtimeStarted' = TRUE
  /\ Applied(handler.scenario, "mixer")
  /\ Save(handler.scenario)
  /\ handler' = Idle
  /\ UNCHANGED <<passport, mixerVars, sends, rackSessions, failures, suspends, main, carried, isSessionActive,
                 lastScenario, notes, listening, inbox, received>>

(* ... or it fails, and the bus delivers the message again, before or      *)
(* after the ones that wait.                                               *)
HandlerFails ==
  /\ handler.pc = "apply" /\ ~SameAsResumed
  /\ resumed' = NoScenario /\ mixerSent' = TRUE
  /\ ApplyFailed
  /\ inbox' \in {<<handler.scenario>> \o inbox, Append(inbox, handler.scenario)}
  /\ handler' = Idle
  /\ UNCHANGED <<disk, mixerVars, sends, rackSessions, unsaved, suspends, main, carried, memory, notes,
                 listening, received>>

(* A session that is not active caches the scenario. *)
HandlerCaches ==
  /\ handler.pc = "cache"
  /\ lastScenario' = handler.scenario
  /\ handler' = Idle
  /\ UNCHANGED <<disk, mixerVars, bounds, main, carried, scenarios, isSessionActive,
                 runtimeStarted, notes, listening, inbox, received, gears>>

-----------------------------------------------------------------------------
(* Variant: only a passport with another name is acted on. *)
HandleNotifySaves ==
  /\ notice /\ notice' = FALSE
  /\ passport' = rackStatus
  /\ UNCHANGED <<copy, owned, mixerVars, bounds, main, carried, scenarios, memory,
                 activationCh, inVars, gears>>

(* The handler of the notify subscription: the passport is saved, and a    *)
(* session that is not active is told; a full activationCh drops it.       *)
HandleNotify ==
  /\ notice /\ notice' = FALSE
  /\ passport' = rackStatus
  /\ activationCh' = (activationCh \/ (rackStatus = "active" /\ ~isSessionActive))
  /\ UNCHANGED <<copy, owned, mixerVars, bounds, main, carried, scenarios, memory,
                 inVars, gears>>

(* A passport with another name: the session ends, its gears stop, and the *)
(* copy names the Rack as it was called before.                            *)
Reconnect ==
  /\ main = "loop" /\ notice
  /\ passport' = rackStatus /\ owned' = FALSE
  /\ main' = "down"
  /\ SubscriptionsEnd
  /\ running' = NoScenario /\ startedBy' = NoScenario
  /\ UNCHANGED <<copy, mixerVars, bounds, carried, scenarios, memory, everRan>>

(* The promotion of a pending session: telemetry starts or the promotion   *)
(* is given up, ...                                                        *)
PromoteBegin ==
  /\ main = "loop" /\ activationCh
  /\ activationCh' = FALSE
  /\ \/ isSessionActive /\ runtimeStarted /\ main' = "loop" /\ UNCHANGED failures
     \/ ~(isSessionActive /\ runtimeStarted) /\ main' = "promote" /\ UNCHANGED failures
     \/ /\ ~(isSessionActive /\ runtimeStarted) /\ main' = "loop"
        /\ failures < MaxFailures /\ failures' = failures + 1
  /\ UNCHANGED <<disk, mixerVars, sends, rackSessions, unsaved, suspends, carried, scenarios, memory, notice,
                 inVars, gears>>

(* ... the session becomes active, ... *)
PromoteActivate ==
  /\ main = "promote" /\ main' = "promoteApply"
  /\ isSessionActive' = TRUE
  /\ UNCHANGED <<disk, mixerVars, bounds, carried, scenarios, runtimeStarted,
                 lastScenario, notes, inVars, gears>>

(* Variant: the promotion applies what is cached, were it nothing. *)
PromoteApplyAny ==
  /\ main = "promoteApply" /\ main' = "promoteSave" /\ runtimeStarted' = TRUE
  /\ Applied(lastScenario, "promotion")
  /\ UNCHANGED <<disk, mixerVars, bounds, carried, scenarios, isSessionActive,
                 lastScenario, notes, inVars>>

(* ... the cached scenario is applied, without scenarios.mu, ... *)
PromoteApply ==
  /\ main = "promoteApply"
  /\ \/ lastScenario = NoScenario /\ main' = "loop" /\ isSessionActive' = TRUE
        /\ UNCHANGED <<gears, runtimeStarted, failures>>
     \/ lastScenario # NoScenario /\ main' = "promoteSave" /\ runtimeStarted' = TRUE
        /\ Applied(lastScenario, "promotion") /\ UNCHANGED <<isSessionActive, failures>>
     \/ lastScenario # NoScenario /\ main' = "loop" /\ runtimeStarted' = FALSE
        /\ isSessionActive' = FALSE /\ ApplyFailed
  /\ UNCHANGED <<disk, mixerVars, sends, rackSessions, unsaved, suspends, carried, scenarios, lastScenario,
                 notes, inVars>>

(* ... and its payload saved. *)
PromoteSave ==
  /\ main = "promoteSave" /\ main' = "loop"
  /\ Save(lastScenario)
  /\ isSessionActive' = TRUE
  /\ UNCHANGED <<passport, mixerVars, sends, rackSessions, failures, suspends, carried, scenarios, runtimeStarted,
                 lastScenario, notes, inVars, gears>>

-----------------------------------------------------------------------------
(* Variant: the gears are handed over without the scenarios of the session. *)
RejoinAnew ==
  /\ main = "offlineLoop" /\ main' = "down"
  /\ carried' = FALSE
  /\ UNCHANGED <<disk, mixerVars, bounds, scenarios, memory, notes, inVars, gears>>

(* The bus answers a session that started without it: the next session     *)
(* takes over the gears and the scenarioSession.                           *)
Rejoin ==
  /\ main = "offlineLoop" /\ main' = "down"
  /\ carried' = TRUE
  /\ UNCHANGED <<disk, mixerVars, bounds, scenarios, memory, notes, inVars, gears>>

(* The process dies, or is stopped: only the disk remains. *)
RackCrash ==
  /\ main # "down" \/ carried
  /\ rackSessions < MaxRackSessions
  /\ main' = "down" /\ carried' = FALSE
  /\ isSessionActive' = FALSE /\ runtimeStarted' = FALSE /\ lastScenario' = NoScenario
  /\ mixerSent' = FALSE /\ resumed' = NoScenario
  /\ SubscriptionsEnd
  /\ running' = NoScenario /\ startedBy' = NoScenario
  /\ UNCHANGED <<disk, mixerVars, bounds, everRan>>

-----------------------------------------------------------------------------
(* The Mixer activates a scenario, ... *)
MixerActivates ==
  /\ mixer < MaxScenarios /\ mixer' = mixer + 1
  /\ UNCHANGED <<disk, rackStatus, bounds, main, carried, scenarios, memory, notes, inVars,
                 gears>>

(* ... sends the active one to a Rack that it has approved, which receives *)
(* it if it listens, ...                                                   *)
MixerSends ==
  /\ rackStatus = "active" /\ mixer > 0 /\ listening
  /\ sends < MaxSends /\ sends' = sends + 1
  /\ inbox' = Append(inbox, mixer) /\ received' = mixer
  /\ UNCHANGED <<disk, mixerVars, rackSessions, failures, unsaved, suspends, main, carried, scenarios, memory,
                 notes, listening, handler, gears>>

(* ... and approves, suspends or activates the Rack, which it tells. *)
Tells == notice' = (notice \/ (listening /\ passport # NoScenario))

MixerApproves ==
  /\ rackStatus # "active" /\ rackStatus' = "active"
  /\ Tells
  /\ UNCHANGED <<disk, mixer, bounds, main, carried, scenarios, memory, activationCh,
                 inVars, gears>>

MixerSuspends ==
  /\ suspends < MaxSuspends /\ suspends' = suspends + 1
  /\ rackStatus = "active" /\ rackStatus' = "inactive"
  /\ Tells
  /\ UNCHANGED <<disk, mixer, sends, rackSessions, failures, unsaved, main, carried, scenarios, memory,
                 activationCh, inVars, gears>>

SessionNext ==
  \/ StartSession \/ EnrollActive \/ EnrollPending \/ EnrollTimeout \/ Subscribe
  \/ Resume \/ ResumeWithoutBus \/ Rejoin \/ RackCrash
  \/ HandlerTakes \/ HandlerMatches \/ HandlerApplies \/ HandlerFails \/ HandlerCaches
  \/ HandleNotify \/ Reconnect
  \/ PromoteBegin \/ PromoteActivate \/ PromoteApply \/ PromoteSave
  \/ MixerActivates \/ MixerSends \/ MixerApproves \/ MixerSuspends

SessionSpec == SessionInit /\ [][SessionNext]_sessionVars

(* The goroutines of the Rack go on: the main one, the handler of the       *)
(* scenarios and the handler of the notifications.                         *)
MainStep ==
  \/ EnrollActive \/ EnrollPending \/ Subscribe \/ Resume \/ ResumeWithoutBus
  \/ PromoteBegin \/ PromoteActivate \/ PromoteApply \/ PromoteSave

HandlerStep ==
  HandlerTakes \/ HandlerMatches \/ HandlerApplies \/ HandlerFails \/ HandlerCaches

SessionFairness ==
  /\ WF_sessionVars(MainStep)
  /\ WF_sessionVars(HandlerStep)
  /\ WF_sessionVars(HandleNotify)

SessionFairSpec == SessionSpec /\ SessionFairness

-----------------------------------------------------------------------------
(* When every scenario that was sent has been handled, a session that was   *)
(* active throughout runs the last one: neither the resume of the copy nor *)
(* the match with what was resumed ever wins over the Mixer.  A scenario   *)
(* that fails is delivered again, possibly after a newer one, so behaviours *)
(* with a failure are left out.                                            *)
FollowsMixer ==
  /\ main = "loop" /\ isSessionActive /\ lastScenario = NoScenario /\ failures = 0
  /\ received # NoScenario /\ inbox = <<>> /\ handler = Idle
  => running = received

(* The resume of the copy never replaces gears by an older scenario: it    *)
(* may come after the Mixer's first scenario, and the copy may be old      *)
(* because that scenario could not be saved.                               *)
ResumeNeverStale ==
  [][startedBy' = "resume" /\ running # NoScenario => running' >= running]_sessionVars

(* The Mixer's first scenario never restarts gears that already run it     *)
(* from the copy, also when an earlier session without the bus has started *)
(* them.                                                                   *)
NoNeedlessRestart ==
  [][~mixerSent /\ startedBy = "resume" /\ startedBy' = "mixer" => running' # running]_sessionVars

(* Starting gears from the copy never costs what runs: neither a newer      *)
(* scenario nor a needless restart.                                        *)
ResumesSafely == []SessionTypeOK /\ ResumeNeverStale /\ NoNeedlessRestart

Told == notice /\ rackStatus = "active"
Settled == isSessionActive \/ main = "down" \/ rackStatus # "active"

(* A session that is told that the Rack is active becomes active, unless   *)
(* it ends, the Rack is suspended or something fails on the way.           *)
PromotionCompletes == Told ~> (Settled \/ failures > 0)

(* A promotion that is given up is tried again: run.go says "Retry on next *)
(* heartbeat/activation".                                                  *)
PromotionRetried == Told ~> Settled

(* Gears that run are never replaced by an older scenario: scenarioSession *)
(* says that a stale copy can never land on top of a newer scenario.       *)
NoStaleOnTop ==
  [][running # NoScenario /\ running' # NoScenario => running' >= running]_sessionVars

(* The copy on disk is of a scenario that has run on this Rack: run.go says *)
(* that a payload is saved only once it is applied.                        *)
CopyHasRun == copy # NoScenario => copy \in everRan
==============================================================================
