--------------------------- MODULE ControlProofs ----------------------------
(***************************************************************************)
(* Proofs about which scenario the gears of a Rack run (module             *)
(* RackSession), for every instance.                                       *)
(***************************************************************************)
EXTENDS RackSession, SequenceTheorems, TLAPS

(* The session of a Rack.                                                  *)

(* Where a session has no subscription, and nothing is on its way to it.   *)
Away == main \in {"down", "enroll", "subscribe", "offline", "offlineLoop"}

AwayIsQuiet == Away => ~listening /\ inbox = <<>> /\ handler = Idle /\ received = NoScenario

(* The handler is idle or holds a scenario.                                *)
HandlerHolds ==
  handler = Idle \/ (handler.pc \in {"apply", "cache"} /\ handler.scenario \in SentScenarios)

(* Only a session that had no bus hands over its gears, and it has cached  *)
(* nothing; without that the gears are stopped when a session ends.        *)
CarriesGears ==
  /\ main # "down" => ~carried
  /\ main \in {"offline", "offlineLoop"} \/ carried => lastScenario = NoScenario
  /\ main = "down" /\ ~carried => running = NoScenario
  /\ running = NoScenario <=> startedBy = NoScenario

Alive == main # "down" \/ carried

(* The scenario resumed is the one that runs until the Mixer's first one,  *)
(* or the promotion of a cached one, replaces it; and before the loop of a *)
(* session the gears come from the copy or from the Mixer.                 *)
ResumedRuns ==
  /\ Alive /\ lastScenario = NoScenario /\ resumed # NoScenario => running = resumed
  /\ startedBy = "resume" /\ ~mixerSent => running = resumed
  /\ /\ main \notin {"loop", "promote", "promoteApply", "promoteSave"} /\ running # NoScenario
     => mixerSent \/ resumed # NoScenario

(* The last scenario sent is the last one that waits, the one the handler  *)
(* has, the one that runs, or cached.                                      *)
LastSentIsLast ==
  failures = 0 /\ received # NoScenario =>
    /\ inbox # <<>> => inbox[Len(inbox)] = received
    /\ inbox = <<>> /\ handler # Idle => handler.scenario = received
    /\ inbox = <<>> /\ handler = Idle /\ lastScenario = NoScenario
       => running = received /\ mixerSent

SessionInv ==
  /\ SessionTypeOK /\ AwayIsQuiet /\ HandlerHolds /\ CarriesGears /\ ResumedRuns
  /\ LastSentIsLast

(* What starting the gears, or failing to, makes of them.                  *)
GearValues ==
  /\ running \in SentScenarios \cup {NoScenario} /\ everRan \subseteq SentScenarios
  /\ startedBy \in {NoScenario, "resume", "mixer", "promotion"}

(* A scenario that was applied runs.                                       *)
LEMMA AppliedGears ==
  ASSUME SessionInv, NEW sc \in SentScenarios, NEW by \in {"resume", "mixer", "promotion"},
         Applied(sc, by)
  PROVE  GearValues' /\ running' = sc /\ startedBy' = by
BY DEF SessionInv, SessionTypeOK, SessionValues, Applied, GearValues

(* One that could not be applied leaves no gears and counts as a failure.  *)
LEMMA FailedGears ==
  ASSUME SessionInv, ApplyFailed
  PROVE  /\ GearValues' /\ running' = NoScenario /\ startedBy' = NoScenario
         /\ failures' \in 0..MaxFailures /\ failures' # 0
BY RackSessionAssumption
   DEF SessionInv, SessionTypeOK, SessionValues, ApplyFailed, GearValues

(* The resume either starts the gears with the copy, fails to, or leaves   *)
(* them as they are.                                                       *)
LEMMA ResumedGears ==
  ASSUME SessionInv, NEW may \in BOOLEAN, ResumeCopy(may), may => LoadsCopy
  PROVE  \/ /\ may /\ GearValues' /\ failures' = failures
            /\ running' = copy /\ resumed' = copy /\ startedBy' = "resume" /\ copy # NoScenario
         \/ /\ may /\ GearValues' /\ failures' \in 0..MaxFailures /\ failures' # 0
            /\ running' = NoScenario /\ startedBy' = NoScenario /\ resumed' = resumed
         \/ UNCHANGED <<running, startedBy, everRan, resumed, failures>>
<1>1. CASE may /\ Applied(copy, "resume") /\ resumed' = copy /\ UNCHANGED failures
  <2>1. copy \in SentScenarios /\ copy # NoScenario
    BY <1>1 DEF LoadsCopy, SessionInv, SessionTypeOK, SessionValues
  <2> QED
    BY <1>1, <2>1, AppliedGears
<1>2. CASE may /\ ApplyFailed /\ UNCHANGED <<resumed, runtimeStarted>>
  BY <1>2, FailedGears
<1>3. CASE UNCHANGED <<gears, resumed, runtimeStarted, failures>>
  BY <1>3 DEF gears
<1> QED
  BY <1>1, <1>2, <1>3, Zenon DEF ResumeCopy

(* Every step of a session keeps the types.                                *)
LEMMA SessionTypes ==
  ASSUME SessionInv, [SessionNext]_sessionVars
  PROVE  SessionTypeOK'
<1> USE DEF disk, mixerVars, scenarios, memory, gears, notes, bounds, inVars
<1>1. CASE StartSession
  <2>1. SessionValues'
    BY <1>1, RackSessionAssumption DEF StartSession, SessionInv, SessionTypeOK, SessionValues
  <2>2. SessionFlags'
    BY <1>1, Zenon DEF StartSession, SessionInv, SessionTypeOK, SessionFlags
  <2> QED
    BY <2>1, <2>2, Zenon DEF SessionTypeOK
<1>2. CASE EnrollActive
  <2>1. SessionValues'
    BY <1>2, RackSessionAssumption DEF EnrollActive, SessionInv, SessionTypeOK, SessionValues
  <2>2. SessionFlags'
    BY <1>2, Zenon DEF EnrollActive, SessionInv, SessionTypeOK, SessionFlags
  <2> QED
    BY <2>1, <2>2, Zenon DEF SessionTypeOK
<1>3. CASE EnrollPending
  <2>1. SessionValues'
    BY <1>3, RackSessionAssumption DEF EnrollPending, SessionInv, SessionTypeOK, SessionValues
  <2>2. SessionFlags'
    BY <1>3, Zenon DEF EnrollPending, SessionInv, SessionTypeOK, SessionFlags
  <2> QED
    BY <2>1, <2>2, Zenon DEF SessionTypeOK
<1>4. CASE EnrollTimeout
  BY <1>4, RackSessionAssumption
     DEF EnrollTimeout, SessionInv, SessionTypeOK, SessionValues, SessionFlags
<1>5. CASE Subscribe
  BY <1>5, RackSessionAssumption
     DEF Subscribe, SessionInv, SessionTypeOK, SessionValues, SessionFlags
<1>6. CASE Resume
  <2>1. SessionValues'
    <3>1. ResumeCopy(MayResume) /\ MayResume \in BOOLEAN /\ (MayResume => LoadsCopy)
      BY <1>6, Zenon DEF Resume, MayResume
    <3> QED
      BY <1>6, <3>1, ResumedGears
         DEF Resume, SessionInv, SessionTypeOK, SessionValues, GearValues
  <2>2. SessionFlags'
    BY <1>6, Zenon DEF Resume, ResumeCopy, SessionInv, SessionTypeOK, SessionFlags
  <2> QED
    BY <2>1, <2>2, Zenon DEF SessionTypeOK
<1>7. CASE ResumeWithoutBus
  <2>1. SessionValues'
    <3> DEFINE may == MayResume /\ copy \notin NeedsBus
    <3>1. ResumeCopy(may) /\ may \in BOOLEAN /\ (may => LoadsCopy)
      BY <1>7, Zenon DEF ResumeWithoutBus, MayResume
    <3> HIDE DEF may
    <3> QED
      BY <1>7, <3>1, ResumedGears
         DEF ResumeWithoutBus, SessionInv, SessionTypeOK, SessionValues, GearValues
  <2>2. SessionFlags'
    BY <1>7, Zenon DEF ResumeWithoutBus, ResumeCopy, SessionInv, SessionTypeOK, SessionFlags
  <2> QED
    BY <2>1, <2>2, Zenon DEF SessionTypeOK
<1>8. CASE Rejoin
  BY <1>8, RackSessionAssumption
     DEF Rejoin, SessionInv, SessionTypeOK, SessionValues, SessionFlags
<1>9. CASE RackCrash
  <2>1. SessionValues'
    BY <1>9, RackSessionAssumption DEF RackCrash, SubscriptionsEnd, SessionInv, SessionTypeOK, SessionValues, Idle
  <2>2. SessionFlags'
    BY <1>9, Zenon DEF RackCrash, SubscriptionsEnd, SessionInv, SessionTypeOK, SessionFlags
  <2> QED
    BY <2>1, <2>2, Zenon DEF SessionTypeOK
<1>10. CASE HandlerTakes
  BY <1>10, RackSessionAssumption
     DEF HandlerTakes, ScenariosUnlocked, Idle, SessionInv, SessionTypeOK, SessionValues, SessionFlags, HandlerHolds
<1>11. CASE HandlerMatches
  BY <1>11, RackSessionAssumption
     DEF HandlerMatches, Idle, SessionInv, SessionTypeOK, SessionValues, SessionFlags, HandlerHolds
<1>12. CASE HandlerApplies
  <2>1. SessionValues'
    <3>1. handler.scenario \in SentScenarios
      BY <1>12 DEF HandlerApplies, SessionInv, HandlerHolds, Idle
    <3>2. GearValues'
      BY <1>12, <3>1, AppliedGears DEF HandlerApplies
    <3> QED
      BY <1>12, <3>1, <3>2, RackSessionAssumption
         DEF HandlerApplies, Save, Idle, SessionInv, SessionTypeOK, SessionValues, GearValues
  <2>2. SessionFlags'
    BY <1>12, Zenon DEF HandlerApplies, Save, SessionInv, SessionTypeOK, SessionFlags
  <2> QED
    BY <2>1, <2>2, Zenon DEF SessionTypeOK
<1>13. CASE HandlerFails
  <2>1. SessionValues'
    <3>1. handler.scenario \in SentScenarios
      BY <1>13 DEF HandlerFails, SessionInv, HandlerHolds, Idle
    <3>2. GearValues' /\ failures' \in 0..MaxFailures
      BY <1>13, FailedGears DEF HandlerFails
    <3>3. inbox' \in Seq(SentScenarios)
      <4>1. inbox \in Seq(SentScenarios) /\ <<handler.scenario>> \in Seq(SentScenarios)
        BY <3>1 DEF SessionInv, SessionTypeOK, SessionValues
      <4>2. <<handler.scenario>> \o inbox \in Seq(SentScenarios)
        BY <4>1, ConcatProperties, Zenon
      <4>3. Append(inbox, handler.scenario) \in Seq(SentScenarios)
        BY <3>1, <4>1, AppendProperties, Zenon
      <4> QED
        BY <1>13, <4>2, <4>3, Zenon DEF HandlerFails
    <3> QED
      BY <1>13, <3>2, <3>3
         DEF HandlerFails, Idle, SessionInv, SessionTypeOK, SessionValues, GearValues
  <2>2. SessionFlags'
    BY <1>13, Zenon DEF HandlerFails, SessionInv, SessionTypeOK, SessionFlags
  <2> QED
    BY <2>1, <2>2, Zenon DEF SessionTypeOK
<1>14. CASE HandlerCaches
  BY <1>14, RackSessionAssumption
     DEF HandlerCaches, Idle, SessionInv, SessionTypeOK, SessionValues, SessionFlags, HandlerHolds
<1>15. CASE HandleNotify
  <2>1. SessionValues'
    BY <1>15, RackSessionAssumption DEF HandleNotify, SessionInv, SessionTypeOK, SessionValues
  <2>2. SessionFlags'
    BY <1>15, Zenon DEF HandleNotify, SessionInv, SessionTypeOK, SessionFlags
  <2> QED
    BY <2>1, <2>2, Zenon DEF SessionTypeOK
<1>16. CASE Reconnect
  <2>1. SessionValues'
    BY <1>16, RackSessionAssumption DEF Reconnect, SubscriptionsEnd, SessionInv, SessionTypeOK, SessionValues, Idle
  <2>2. SessionFlags'
    BY <1>16, Zenon DEF Reconnect, SubscriptionsEnd, SessionInv, SessionTypeOK, SessionFlags
  <2> QED
    BY <2>1, <2>2, Zenon DEF SessionTypeOK
<1>17. CASE PromoteBegin
  <2>1. SessionValues'
    BY <1>17, RackSessionAssumption DEF PromoteBegin, SessionInv, SessionTypeOK, SessionValues
  <2>2. SessionFlags'
    BY <1>17, Zenon DEF PromoteBegin, SessionInv, SessionTypeOK, SessionFlags
  <2> QED
    BY <2>1, <2>2, Zenon DEF SessionTypeOK
<1>18. CASE PromoteActivate
  BY <1>18, RackSessionAssumption
     DEF PromoteActivate, SessionInv, SessionTypeOK, SessionValues, SessionFlags
<1>19. CASE PromoteApply
  <2>1. SessionValues'
    <3>1. lastScenario # NoScenario => lastScenario \in SentScenarios
      BY DEF SessionInv, SessionTypeOK, SessionValues
    <3>2. /\ GearValues' /\ failures' \in 0..MaxFailures
          /\ main' \in {"loop", "promoteSave"}
      <4>1. CASE lastScenario = NoScenario /\ main' = "loop" /\ UNCHANGED <<gears, failures>>
        BY <4>1 DEF SessionInv, SessionTypeOK, SessionValues, GearValues
      <4>2. CASE /\ lastScenario # NoScenario /\ main' = "promoteSave"
                 /\ Applied(lastScenario, "promotion") /\ UNCHANGED failures
        BY <3>1, <4>2, AppliedGears DEF SessionInv, SessionTypeOK, SessionValues
      <4>3. CASE main' = "loop" /\ ApplyFailed
        BY <4>3, FailedGears
      <4> QED
        BY <1>19, <4>1, <4>2, <4>3, Zenon DEF PromoteApply
    <3> QED
      BY <1>19, <3>2 DEF PromoteApply, SessionInv, SessionTypeOK, SessionValues, GearValues
  <2>2. SessionFlags'
    BY <1>19, Zenon DEF PromoteApply, SessionInv, SessionTypeOK, SessionFlags
  <2> QED
    BY <2>1, <2>2, Zenon DEF SessionTypeOK
<1>20. CASE PromoteSave
  <2>1. SessionValues'
    BY <1>20, RackSessionAssumption DEF PromoteSave, Save, SessionInv, SessionTypeOK, SessionValues
  <2>2. SessionFlags'
    BY <1>20, Zenon DEF PromoteSave, Save, SessionInv, SessionTypeOK, SessionFlags
  <2> QED
    BY <2>1, <2>2, Zenon DEF SessionTypeOK
<1>21. CASE MixerActivates
  BY <1>21, RackSessionAssumption
     DEF MixerActivates, SessionInv, SessionTypeOK, SessionValues, SessionFlags
<1>22. CASE MixerSends
  <2>1. mixer \in SentScenarios
    BY <1>22, RackSessionAssumption
       DEF MixerSends, SessionInv, SessionTypeOK, SessionValues, SentScenarios
  <2>2. inbox' \in Seq(SentScenarios)
    BY <1>22, <2>1, AppendProperties, Zenon
       DEF MixerSends, SessionInv, SessionTypeOK, SessionValues
  <2>3. sends' \in 0..MaxSends
    BY <1>22, RackSessionAssumption DEF MixerSends, SessionInv, SessionTypeOK, SessionValues
  <2> QED
    BY <1>22, <2>1, <2>2, <2>3
       DEF MixerSends, SessionInv, SessionTypeOK, SessionValues, SessionFlags
<1>23. CASE MixerApproves
  <2>1. SessionValues'
    BY <1>23, RackSessionAssumption DEF MixerApproves, Tells, SessionInv, SessionTypeOK, SessionValues
  <2>2. SessionFlags'
    BY <1>23, Zenon DEF MixerApproves, Tells, SessionInv, SessionTypeOK, SessionFlags
  <2> QED
    BY <2>1, <2>2, Zenon DEF SessionTypeOK
<1>24. CASE MixerSuspends
  <2>1. SessionValues'
    BY <1>24, RackSessionAssumption DEF MixerSuspends, Tells, SessionInv, SessionTypeOK, SessionValues
  <2>2. SessionFlags'
    BY <1>24, Zenon DEF MixerSuspends, Tells, SessionInv, SessionTypeOK, SessionFlags
  <2> QED
    BY <2>1, <2>2, Zenon DEF SessionTypeOK
<1>25. CASE UNCHANGED sessionVars
  BY <1>25 DEF sessionVars, SessionInv, SessionTypeOK, SessionValues, SessionFlags
<1> QED
  BY <1>1, <1>2, <1>3, <1>4, <1>5, <1>6, <1>7, <1>8, <1>9, <1>10, <1>11, <1>12, <1>13,
     <1>14, <1>15, <1>16, <1>17, <1>18, <1>19, <1>20, <1>21, <1>22, <1>23, <1>24, <1>25, Zenon
     DEF SessionNext

Looping == {"loop", "promote", "promoteApply", "promoteSave"}

(* What the invariant says besides the types.                              *)
Sound == AwayIsQuiet /\ HandlerHolds /\ CarriesGears /\ ResumedRuns /\ LastSentIsLast

(* A step of the main goroutine, of the notify handler or of the Mixer     *)
(* that touches neither the scenarios nor the gears.                       *)
LEMMA GearsUntouched ==
  ASSUME SessionInv, UNCHANGED <<carried, inVars, gears, scenarios, lastScenario>>,
         failures' = 0 => failures = 0,
         \/ main' = main
         \/ main = "enroll" /\ main' = "subscribe"
         \/ main \in Looping /\ main' \in Looping
  PROVE  Sound'
<1> USE DEF inVars, gears, scenarios
<1>1. AwayIsQuiet' /\ HandlerHolds' /\ CarriesGears'
  BY DEF SessionInv, AwayIsQuiet, Away, HandlerHolds, CarriesGears, Looping
<1>2. ResumedRuns' /\ LastSentIsLast'
  BY DEF SessionInv, ResumedRuns, Alive, LastSentIsLast, CarriesGears, Looping
<1> QED
  BY <1>1, <1>2 DEF Sound

(* As long as nothing has failed nothing had failed before.                *)
LEMMA FailuresCount ==
  ASSUME SessionInv, failures' = failures \/ failures' = failures + 1
  PROVE  failures' = 0 => failures = 0
BY DEF SessionInv, SessionTypeOK, SessionValues

(* Taking the first of a queue leaves its last where it was.               *)
LEMMA LastIsKept ==
  ASSUME NEW S, NEW q \in Seq(S), q # <<>>
  PROVE  /\ Head(q) \in S
         /\ Tail(q) = <<>> => Head(q) = q[Len(q)]
         /\ Tail(q) # <<>> => Tail(q)[Len(Tail(q))] = q[Len(q)]
<1>1. Len(q) \in Nat \ {0} /\ Head(q) = q[1] /\ Head(q) \in S
  BY EmptySeq, HeadTailProperties
<1>2. /\ Tail(q) \in Seq(S) /\ Len(Tail(q)) = Len(q) - 1
      /\ \A i \in 1..Len(Tail(q)) : Tail(q)[i] = q[i + 1]
  BY HeadTailProperties
<1>3. Len(Tail(q)) = 0 => Len(q) = 1
  <2>1. \A k \in Nat \ {0} : k - 1 = 0 => k = 1
    OBVIOUS
  <2> QED
    BY <1>1, <1>2, <2>1, Zenon
<1>4. CASE Tail(q) = <<>>
  <2>1. Len(Tail(q)) = 0
    BY <1>2, <1>4, EmptySeq, Zenon
  <2> QED
    BY <1>1, <1>3, <1>4, <2>1, Zenon
<1>5. CASE Tail(q) # <<>>
  <2>1. Len(Tail(q)) \in 1..Len(Tail(q))
    BY <1>2, <1>5, EmptySeq
  <2> QED
    BY <1>1, <1>2, <1>5, <2>1
<1> QED
  BY <1>1, <1>4, <1>5

(* Every step keeps the rest of the invariant.                             *)
LEMMA SessionSound ==
  ASSUME SessionInv, [SessionNext]_sessionVars
  PROVE  Sound'
<1> USE DEF disk, mixerVars, scenarios, memory, gears, notes, bounds, inVars, Idle
<1>1. CASE StartSession
  <2>2. AwayIsQuiet' /\ HandlerHolds' /\ CarriesGears'
    BY <1>1, RackSessionAssumption
       DEF StartSession,
           SessionInv, SessionTypeOK, SessionValues, AwayIsQuiet, Away, HandlerHolds, CarriesGears,
           ResumedRuns
  <2>3. ResumedRuns' /\ LastSentIsLast'
    BY <1>1, RackSessionAssumption
       DEF StartSession,
           SessionInv, SessionTypeOK, SessionValues, AwayIsQuiet, Away, HandlerHolds, CarriesGears,
           ResumedRuns, Alive, LastSentIsLast
  <2> QED
    BY <2>2, <2>3, Zenon DEF Sound
<1>2. CASE EnrollActive
  BY <1>2, GearsUntouched, FailuresCount, Zenon DEF EnrollActive, Looping
<1>3. CASE EnrollPending
  BY <1>3, GearsUntouched, FailuresCount, Zenon DEF EnrollPending, Looping
<1>4. CASE EnrollTimeout
  BY <1>4, GearsUntouched, FailuresCount, Zenon DEF EnrollTimeout, Looping
<1>5. CASE Subscribe
  <2>2. AwayIsQuiet' /\ HandlerHolds' /\ CarriesGears'
    BY <1>5, RackSessionAssumption
       DEF Subscribe,
           SessionInv, SessionTypeOK, SessionValues, AwayIsQuiet, Away, HandlerHolds, CarriesGears,
           ResumedRuns
  <2>3. ResumedRuns' /\ LastSentIsLast'
    BY <1>5, RackSessionAssumption
       DEF Subscribe,
           SessionInv, SessionTypeOK, SessionValues, AwayIsQuiet, Away, HandlerHolds, CarriesGears,
           ResumedRuns, Alive, LastSentIsLast
  <2> QED
    BY <2>2, <2>3, Zenon DEF Sound
<1>6. CASE Resume
  <2>0. ResumeCopy(MayResume) /\ MayResume \in BOOLEAN /\ (MayResume => LoadsCopy)
    BY <1>6, Zenon DEF Resume, MayResume
  <2>1. \/ /\ MayResume /\ failures' = failures
           /\ running' = copy /\ resumed' = copy /\ startedBy' = "resume" /\ copy # NoScenario
        \/ /\ MayResume /\ failures' # 0
           /\ running' = NoScenario /\ startedBy' = NoScenario /\ resumed' = resumed
        \/ UNCHANGED <<running, startedBy, resumed, failures>>
    BY <2>0, ResumedGears
  <2>2. AwayIsQuiet' /\ HandlerHolds' /\ CarriesGears'
    BY <1>6, <2>1, RackSessionAssumption
       DEF Resume, MayResume, LoadsCopy, ScenariosUnlocked,
           SessionInv, SessionTypeOK, SessionValues, AwayIsQuiet, Away, HandlerHolds, CarriesGears,
           ResumedRuns
  <2>3. ResumedRuns'
    <3>1. CASE resumed' = running' /\ running' # NoScenario
      BY <1>6, <3>1 DEF Resume, SessionInv, CarriesGears, ResumedRuns, Alive
    <3>2. CASE /\ MayResume /\ running' = NoScenario /\ startedBy' = NoScenario
               /\ resumed' = resumed
      BY <1>6, <3>2, RackSessionAssumption DEF Resume, MayResume, ResumedRuns
    <3>3. CASE UNCHANGED <<running, startedBy, resumed>>
      BY <1>6, <3>3 DEF Resume, SessionInv, ResumedRuns, Alive
    <3> QED
      BY <2>1, <3>1, <3>2, <3>3, Zenon
  <2>4. LastSentIsLast'
    BY <1>6, <2>1 DEF Resume, MayResume, SessionInv, LastSentIsLast
  <2> QED
    BY <2>2, <2>3, <2>4, Zenon DEF Sound
<1>7. CASE ResumeWithoutBus
  <2> DEFINE may == MayResume /\ copy \notin NeedsBus
  <2>0. ResumeCopy(may) /\ may \in BOOLEAN /\ (may => LoadsCopy) /\ (may => MayResume)
    BY <1>7, Zenon DEF ResumeWithoutBus, MayResume
  <2> HIDE DEF may
  <2>1. \/ /\ MayResume /\ failures' = failures
           /\ running' = copy /\ resumed' = copy /\ startedBy' = "resume" /\ copy # NoScenario
        \/ /\ MayResume /\ failures' # 0
           /\ running' = NoScenario /\ startedBy' = NoScenario /\ resumed' = resumed
        \/ UNCHANGED <<running, startedBy, resumed, failures>>
    BY <2>0, ResumedGears
  <2>2. AwayIsQuiet' /\ HandlerHolds' /\ CarriesGears'
    BY <1>7, <2>1, RackSessionAssumption
       DEF ResumeWithoutBus, MayResume, LoadsCopy, ScenariosUnlocked,
           SessionInv, SessionTypeOK, SessionValues, AwayIsQuiet, Away, HandlerHolds, CarriesGears,
           ResumedRuns
  <2>3. ResumedRuns'
    <3>1. CASE resumed' = running' /\ running' # NoScenario
      BY <1>7, <3>1 DEF ResumeWithoutBus, SessionInv, CarriesGears, ResumedRuns, Alive
    <3>2. CASE /\ MayResume /\ running' = NoScenario /\ startedBy' = NoScenario
               /\ resumed' = resumed
      BY <1>7, <3>2, RackSessionAssumption DEF ResumeWithoutBus, MayResume, ResumedRuns
    <3>3. CASE UNCHANGED <<running, startedBy, resumed>>
      BY <1>7, <3>3 DEF ResumeWithoutBus, SessionInv, ResumedRuns, Alive
    <3> QED
      BY <2>1, <3>1, <3>2, <3>3, Zenon
  <2>4. LastSentIsLast'
    BY <1>7, <2>1 DEF ResumeWithoutBus, MayResume, SessionInv, LastSentIsLast
  <2> QED
    BY <2>2, <2>3, <2>4, Zenon DEF Sound
<1>8. CASE Rejoin
  <2>2. AwayIsQuiet' /\ HandlerHolds' /\ CarriesGears'
    BY <1>8, RackSessionAssumption
       DEF Rejoin,
           SessionInv, SessionTypeOK, SessionValues, AwayIsQuiet, Away, HandlerHolds, CarriesGears,
           ResumedRuns
  <2>3. ResumedRuns' /\ LastSentIsLast'
    BY <1>8, RackSessionAssumption
       DEF Rejoin,
           SessionInv, SessionTypeOK, SessionValues, AwayIsQuiet, Away, HandlerHolds, CarriesGears,
           ResumedRuns, Alive, LastSentIsLast
  <2> QED
    BY <2>2, <2>3, Zenon DEF Sound
<1>9. CASE RackCrash
  <2>2. AwayIsQuiet' /\ HandlerHolds' /\ CarriesGears'
    BY <1>9, RackSessionAssumption
       DEF RackCrash, SubscriptionsEnd,
           SessionInv, SessionTypeOK, SessionValues, AwayIsQuiet, Away, HandlerHolds, CarriesGears,
           ResumedRuns
  <2>3. ResumedRuns' /\ LastSentIsLast'
    BY <1>9, RackSessionAssumption
       DEF RackCrash, SubscriptionsEnd,
           SessionInv, SessionTypeOK, SessionValues, AwayIsQuiet, Away, HandlerHolds, CarriesGears,
           ResumedRuns, Alive, LastSentIsLast
  <2> QED
    BY <2>2, <2>3, Zenon DEF Sound
<1>10. CASE HandlerTakes
  <2>2. AwayIsQuiet' /\ HandlerHolds' /\ CarriesGears'
    BY <1>10, RackSessionAssumption
       DEF HandlerTakes, ScenariosUnlocked,
           SessionInv, SessionTypeOK, SessionValues, AwayIsQuiet, Away, HandlerHolds, CarriesGears,
           ResumedRuns
  <2>3. ResumedRuns'
    BY <1>10 DEF HandlerTakes, SessionInv, ResumedRuns, Alive
  <2>4. /\ Head(inbox) \in SentScenarios
        /\ Tail(inbox) = <<>> => Head(inbox) = inbox[Len(inbox)]
        /\ Tail(inbox) # <<>> => Tail(inbox)[Len(Tail(inbox))] = inbox[Len(inbox)]
    BY <1>10, LastIsKept DEF HandlerTakes, SessionInv, SessionTypeOK, SessionValues
  <2>5. LastSentIsLast'
    BY <1>10, <2>4, RackSessionAssumption DEF HandlerTakes, SessionInv, LastSentIsLast
  <2> QED
    BY <2>2, <2>3, <2>5, Zenon DEF Sound
<1>11. CASE HandlerMatches
  <2>2. AwayIsQuiet' /\ HandlerHolds' /\ CarriesGears'
    BY <1>11, RackSessionAssumption
       DEF HandlerMatches, SameAsResumed,
           SessionInv, SessionTypeOK, SessionValues, AwayIsQuiet, Away, HandlerHolds, CarriesGears,
           ResumedRuns
  <2>3. ResumedRuns' /\ LastSentIsLast'
    BY <1>11, RackSessionAssumption
       DEF HandlerMatches, SameAsResumed,
           SessionInv, SessionTypeOK, SessionValues, AwayIsQuiet, Away, HandlerHolds, CarriesGears,
           ResumedRuns, Alive, LastSentIsLast
  <2> QED
    BY <2>2, <2>3, Zenon DEF Sound
<1>12. CASE HandlerApplies
  <2>2. AwayIsQuiet' /\ HandlerHolds' /\ CarriesGears'
    BY <1>12, RackSessionAssumption
       DEF HandlerApplies, SameAsResumed, Applied,
           SessionInv, SessionTypeOK, SessionValues, AwayIsQuiet, Away, HandlerHolds, CarriesGears,
           ResumedRuns
  <2>3. ResumedRuns' /\ LastSentIsLast'
    BY <1>12, RackSessionAssumption
       DEF HandlerApplies, SameAsResumed, Applied,
           SessionInv, SessionTypeOK, SessionValues, AwayIsQuiet, Away, HandlerHolds, CarriesGears,
           ResumedRuns, Alive, LastSentIsLast
  <2> QED
    BY <2>2, <2>3, Zenon DEF Sound
<1>13. CASE HandlerFails
  <2>2. AwayIsQuiet' /\ HandlerHolds' /\ CarriesGears'
    BY <1>13, RackSessionAssumption
       DEF HandlerFails, SameAsResumed, ApplyFailed,
           SessionInv, SessionTypeOK, SessionValues, AwayIsQuiet, Away, HandlerHolds, CarriesGears,
           ResumedRuns
  <2>3. ResumedRuns' /\ LastSentIsLast'
    BY <1>13, RackSessionAssumption
       DEF HandlerFails, SameAsResumed, ApplyFailed,
           SessionInv, SessionTypeOK, SessionValues, AwayIsQuiet, Away, HandlerHolds, CarriesGears,
           ResumedRuns, Alive, LastSentIsLast
  <2> QED
    BY <2>2, <2>3, Zenon DEF Sound
<1>14. CASE HandlerCaches
  <2>2. AwayIsQuiet' /\ HandlerHolds' /\ CarriesGears'
    BY <1>14, RackSessionAssumption
       DEF HandlerCaches,
           SessionInv, SessionTypeOK, SessionValues, AwayIsQuiet, Away, HandlerHolds, CarriesGears,
           ResumedRuns
  <2>3. ResumedRuns' /\ LastSentIsLast'
    BY <1>14, RackSessionAssumption
       DEF HandlerCaches,
           SessionInv, SessionTypeOK, SessionValues, AwayIsQuiet, Away, HandlerHolds, CarriesGears,
           ResumedRuns, Alive, LastSentIsLast
  <2> QED
    BY <2>2, <2>3, Zenon DEF Sound
<1>15. CASE HandleNotify
  BY <1>15, GearsUntouched, FailuresCount, Zenon DEF HandleNotify, Looping
<1>16. CASE Reconnect
  <2>2. AwayIsQuiet' /\ HandlerHolds' /\ CarriesGears'
    BY <1>16, RackSessionAssumption
       DEF Reconnect, SubscriptionsEnd,
           SessionInv, SessionTypeOK, SessionValues, AwayIsQuiet, Away, HandlerHolds, CarriesGears,
           ResumedRuns
  <2>3. ResumedRuns' /\ LastSentIsLast'
    BY <1>16, RackSessionAssumption
       DEF Reconnect, SubscriptionsEnd,
           SessionInv, SessionTypeOK, SessionValues, AwayIsQuiet, Away, HandlerHolds, CarriesGears,
           ResumedRuns, Alive, LastSentIsLast
  <2> QED
    BY <2>2, <2>3, Zenon DEF Sound
<1>17. CASE PromoteBegin
  BY <1>17, GearsUntouched, FailuresCount, Zenon DEF PromoteBegin, Looping
<1>18. CASE PromoteActivate
  BY <1>18, GearsUntouched, FailuresCount, Zenon DEF PromoteActivate, Looping
<1>19. CASE PromoteApply
  <2>2. AwayIsQuiet' /\ HandlerHolds' /\ CarriesGears'
    BY <1>19, RackSessionAssumption
       DEF PromoteApply, Applied, ApplyFailed,
           SessionInv, SessionTypeOK, SessionValues, AwayIsQuiet, Away, HandlerHolds, CarriesGears,
           ResumedRuns
  <2>3. ResumedRuns' /\ LastSentIsLast'
    BY <1>19, RackSessionAssumption
       DEF PromoteApply, Applied, ApplyFailed,
           SessionInv, SessionTypeOK, SessionValues, AwayIsQuiet, Away, HandlerHolds, CarriesGears,
           ResumedRuns, Alive, LastSentIsLast
  <2> QED
    BY <2>2, <2>3, Zenon DEF Sound
<1>20. CASE PromoteSave
  BY <1>20, GearsUntouched, FailuresCount, Zenon DEF PromoteSave, Looping
<1>21. CASE MixerActivates
  BY <1>21, GearsUntouched, FailuresCount, Zenon DEF MixerActivates, Looping
<1>22. CASE MixerSends
  <2>2. AwayIsQuiet' /\ HandlerHolds' /\ CarriesGears'
    BY <1>22, RackSessionAssumption
       DEF MixerSends,
           SessionInv, SessionTypeOK, SessionValues, AwayIsQuiet, Away, HandlerHolds, CarriesGears,
           ResumedRuns
  <2>3. ResumedRuns' /\ LastSentIsLast'
    BY <1>22, RackSessionAssumption
       DEF MixerSends,
           SessionInv, SessionTypeOK, SessionValues, AwayIsQuiet, Away, HandlerHolds, CarriesGears,
           ResumedRuns, Alive, LastSentIsLast
  <2> QED
    BY <2>2, <2>3, Zenon DEF Sound
<1>23. CASE MixerApproves
  BY <1>23, GearsUntouched, FailuresCount, Zenon DEF MixerApproves, Looping
<1>24. CASE MixerSuspends
  BY <1>24, GearsUntouched, FailuresCount, Zenon DEF MixerSuspends, Looping
<1>25. CASE UNCHANGED sessionVars
  BY <1>25, GearsUntouched, Zenon DEF sessionVars
<1> QED
  BY <1>1, <1>2, <1>3, <1>4, <1>5, <1>6, <1>7, <1>8, <1>9, <1>10, <1>11, <1>12, <1>13,
     <1>14, <1>15, <1>16, <1>17, <1>18, <1>19, <1>20, <1>21, <1>22, <1>23, <1>24, <1>25, Zenon
     DEF SessionNext

(* So the invariant holds throughout.                                      *)
LEMMA SessionInvariant == SessionSpec => []SessionInv
<1>1. SessionInit => SessionInv
  <2> SUFFICES ASSUME SessionInit PROVE SessionInv
    OBVIOUS
  <2>1. SessionValues
    BY RackSessionAssumption DEF SessionInit, SessionValues, Idle
  <2>2. SessionFlags
    BY Zenon DEF SessionInit, SessionFlags
  <2>3. AwayIsQuiet /\ HandlerHolds /\ CarriesGears /\ ResumedRuns /\ LastSentIsLast
    BY RackSessionAssumption
       DEF SessionInit, AwayIsQuiet, HandlerHolds, CarriesGears, ResumedRuns, LastSentIsLast
  <2> QED
    BY <2>1, <2>2, <2>3 DEF SessionInv, SessionTypeOK
<1>2. SessionInv /\ [SessionNext]_sessionVars => SessionInv'
  BY SessionTypes, SessionSound, Zenon DEF SessionInv, Sound
<1> QED
  BY <1>1, <1>2, PTL DEF SessionSpec

(* When every scenario that was sent has been handled, a session that was  *)
(* active throughout runs the last one, if none failed: neither the resume *)
(* of the copy nor the match with what was resumed wins over the Mixer.    *)
THEOREM MixerIsFollowed == SessionSpec => []FollowsMixer
<1>1. SessionInv => FollowsMixer
  BY Zenon DEF SessionInv, LastSentIsLast, FollowsMixer
<1> QED
  BY <1>1, SessionInvariant, PTL

(* A step after which the copy's gears run has left them as they were, or  *)
(* has started them where none ran.                                        *)
LEMMA ResumeStartsFresh ==
  ASSUME SessionInv, [SessionNext]_sessionVars, startedBy' = "resume", running # NoScenario
  PROVE  running' >= running
<1>1. ASSUME Resume \/ ResumeWithoutBus, running' # running
      PROVE  FALSE
  <2>1. MayResume /\ main \in {"resume", "offline"}
    BY <1>1, Zenon DEF Resume, ResumeWithoutBus, ResumeCopy, gears
  <2> QED
    BY <2>1 DEF MayResume, SessionInv, ResumedRuns
<1>2. running' # running => Resume \/ ResumeWithoutBus
  BY RackSessionAssumption, Zenon
     DEF SessionNext, sessionVars, gears, StartSession, EnrollActive, EnrollPending,
         EnrollTimeout, Subscribe, Rejoin, RackCrash, HandlerTakes, HandlerMatches,
         HandlerApplies, HandlerFails, HandlerCaches, HandleNotify, Reconnect, PromoteBegin,
         PromoteActivate, PromoteApply, PromoteSave, MixerActivates, MixerSends, MixerApproves,
         MixerSuspends, Applied, ApplyFailed
<1>3. running' = running
  BY <1>1, <1>2, Zenon
<1>4. running \in Nat
  BY DEF SessionInv, SessionTypeOK, SessionValues, SentScenarios
<1> QED
  BY <1>3, <1>4

(* The Mixer's scenario replaces the copy's gears only if it is another.   *)
LEMMA MatchKeepsGears ==
  ASSUME SessionInv, [SessionNext]_sessionVars, ~mixerSent, startedBy = "resume",
         startedBy' = "mixer"
  PROVE  running' # running
<1>1. HandlerApplies
  BY RackSessionAssumption, Zenon
     DEF SessionNext, sessionVars, gears, StartSession, EnrollActive, EnrollPending,
         EnrollTimeout, Subscribe, Resume, ResumeWithoutBus, ResumeCopy, Rejoin, RackCrash,
         HandlerTakes, HandlerMatches, HandlerFails, HandlerCaches, HandleNotify, Reconnect,
         PromoteBegin, PromoteActivate, PromoteApply, PromoteSave, MixerActivates, MixerSends,
         MixerApproves, MixerSuspends, Applied, ApplyFailed
<1>2. running = resumed
  BY Zenon DEF SessionInv, ResumedRuns
<1> QED
  BY <1>1, <1>2, Zenon DEF HandlerApplies, SameAsResumed, Applied

(* The resume never replaces gears by an older scenario, and the Mixer's   *)
(* first scenario never restarts gears that run it from the copy, with and *)
(* without the bus, whatever is saved, crashes or is handed over between.  *)
THEOREM ResumeIsSafe == SessionSpec => ResumesSafely
<1>1. SessionInv /\ [SessionNext]_sessionVars
      => [startedBy' = "resume" /\ running # NoScenario => running' >= running]_sessionVars
  BY ResumeStartsFresh, Zenon
<1>2. SessionInv /\ [SessionNext]_sessionVars
      => [~mixerSent /\ startedBy = "resume" /\ startedBy' = "mixer"
          => running' # running]_sessionVars
  BY MatchKeepsGears, Zenon
<1>3. SessionInv => SessionTypeOK
  BY Zenon DEF SessionInv
<1> QED
  BY <1>1, <1>2, <1>3, SessionInvariant, PTL
     DEF SessionSpec, ResumesSafely, ResumeNeverStale, NoNeedlessRestart

==============================================================================
