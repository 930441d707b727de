---------------------------- MODULE ServicesProofs ----------------------------
(***************************************************************************)
(* Proofs about what starts, connects and reads on a Rack, for every       *)
(* instance: the Manager of module Runtime with any number of overlapping  *)
(* calls, the client link of module Uplink, the event reader of module     *)
(* EventReader and the Bento gear of module BentoGear.                     *)
(***************************************************************************)
EXTENDS Runtime, Uplink, EventReader, BentoGear, FiniteSetTheorems, SequenceTheorems, TLAPS

-----------------------------------------------------------------------------
(* The Manager of a Rack.                                                  *)

ApplyStates == {"idle", "init", "wire", "snapshot", "converge", "relock",
                "start", "failing", "applied", "failed"}
GearStates == {"none", "inited", "started", "stopped"}

RuntimeTypes ==
  /\ applyPc \in [Appliers -> ApplyStates]
  /\ DOMAIN todo = Appliers
  /\ active \subseteq Instances
  /\ status \in [Instances -> GearStates]
  /\ starts \in [Instances -> Nat]
  /\ activeSubs \subseteq BusSubs /\ live \subseteq activeSubs /\ attached \subseteq live
  /\ hotClosed \subseteq BusSubs /\ handling \subseteq BusSubs
  /\ \A h \in hotSubjects : h[2] \in BusSubs
  /\ shutdowns \in 0..MaxShutdowns /\ drains \in 0..MaxDrains

(* The calls that hold m.mu are the ones inside a locked stretch.          *)
LockHeld ==
  /\ mu \in Appliers \cup {"free", "drain"}
  /\ \A c \in Appliers : mu = c <=> applyPc[c] \in {"init", "wire", "start"}

(* What the Manager lists belongs to a call that has begun and not failed. *)
Owned ==
  \A i \in active \cup activeSubs : applyPc[i[1]] \notin {"idle", "failed"}

(* What a call has made so far: the gears its loops have gone through.     *)
Built(c) ==
  /\ At(c, "idle") => \A g \in Gears : status[<<c, g>>] = "none"
  /\ At(c, "init") =>
       /\ todo[c] \subseteq GearsOf[c] /\ active = {c} \X (GearsOf[c] \ todo[c])
       /\ \A g \in todo[c] : status[<<c, g>>] = "none"
       /\ \A i \in active : status[i] = "inited"
  /\ At(c, "wire") =>
       /\ todo[c] \subseteq WiresOf[c] /\ active = {c} \X GearsOf[c]
       /\ \A i \in active : status[i] = "inited"
  /\ At(c, "start") =>
       /\ todo[c] \subseteq active /\ \A i \in active \ todo[c] : status[i] = "started"
GearsBuilt ==
  /\ \A i \in Instances : Running(i) <=> i \in active
  /\ \A c \in Appliers : Built(c)

(* Outside the gear loop all gears of one call are listed or none, and     *)
(* outside the start loop all of them are started or none.                 *)
AllOrNone ==
  /\ (\A c \in Appliers : ~At(c, "init")) =>
       active = {} \/ \E c \in Appliers : active = {c} \X GearsOf[c]
  /\ (\A c \in Appliers : ~At(c, "start")) =>
       \A i, j \in active : status[i] = status[j]

(***************************************************************************)
(* The inductive invariant of the Manager.                                 *)
(***************************************************************************)
RuntimeInv == RuntimeTypes /\ LockHeld /\ Owned /\ GearsBuilt /\ AllOrNone

(***************************************************************************)
(* stopAll leaves nothing listed, subscribed or running.                   *)
(***************************************************************************)
LEMMA StopAllEmpties ==
  ASSUME RuntimeInv, stopAll
  PROVE  /\ active' = {} /\ activeSubs' = {} /\ live' = {} /\ attached' = {}
         /\ status' \in [Instances -> GearStates]
         /\ \A i \in Instances : /\ status'[i] \notin {"inited", "started"}
                                 /\ i \in active => status'[i] = "stopped"
                                 /\ i \notin active => status'[i] = status[i]
         /\ hotSubjects' = {} /\ UNCHANGED <<starts, hotClosed, handling>>
BY DEF stopAll, RuntimeInv, RuntimeTypes, GearsBuilt, Running, GearStates

(* A call that has not begun has made nothing.                             *)
LEMMA IdleMadeNone ==
  ASSUME RuntimeInv, NEW d \in Appliers, applyPc[d] = "idle", NEW h \in Gears
  PROVE  <<d, h>> \in Instances /\ status[<<d, h>>] = "none"
<1>1. Built(d)
  BY Zenon DEF RuntimeInv, GearsBuilt
<1> QED
  BY <1>1, Zenon DEF Built, At, Instances

(***************************************************************************)
(* Steps with stopAll in them: it ends what another call may have made.    *)
(***************************************************************************)
LEMMA ApplyBeginInv ==
  ASSUME RuntimeInv, NEW c \in Appliers, ApplyBegin(c)
  PROVE  RuntimeInv'
<1>1. /\ active' = {} /\ activeSubs' = {} /\ live' = {} /\ attached' = {}
      /\ status' \in [Instances -> GearStates]
      /\ \A i \in Instances : /\ status'[i] \notin {"inited", "started"}
                              /\ i \in active => status'[i] = "stopped"
                              /\ i \notin active => status'[i] = status[i]
      /\ hotSubjects' = {} /\ UNCHANGED <<starts, hotClosed, handling>>
  BY StopAllEmpties DEF ApplyBegin
<1>2. /\ applyPc[c] = "idle" /\ mu = "free" /\ mu' = c /\ UNCHANGED callVars
      /\ applyPc' = [applyPc EXCEPT ![c] = "init"] /\ todo' = [todo EXCEPT ![c] = GearsOf[c]]
  BY DEF ApplyBegin, At, ApplyGoes, SetTodo
<1>3. RuntimeTypes'
  BY <1>1, <1>2 DEF RuntimeInv, RuntimeTypes, ApplyStates, callVars
<1>4. LockHeld'
  BY <1>2, RuntimeAssumption DEF RuntimeInv, RuntimeTypes, LockHeld
<1>5. Owned' /\ AllOrNone'
  BY <1>1, <1>2 DEF RuntimeInv, RuntimeTypes, Owned, AllOrNone, At
<1>6. \A g \in Gears : status'[<<c, g>>] = "none"
  <2> SUFFICES ASSUME NEW g \in Gears PROVE status'[<<c, g>>] = "none"
    OBVIOUS
  <2>1. status[<<c, g>>] = "none" /\ <<c, g>> \in Instances
    BY <1>2 DEF RuntimeInv, GearsBuilt, Built, At, Instances
  <2> QED
    BY <1>1, <2>1 DEF RuntimeInv, GearsBuilt, Running
<1>7. GearsBuilt'
  <2>1. \A d \in Appliers : applyPc'[d] \in {"init", "wire", "start"} => d = c
    BY <1>2, RuntimeAssumption DEF RuntimeInv, RuntimeTypes, LockHeld
  <2>2. \A d \in Appliers, g \in Gears : At(d, "idle")' => status'[<<d, g>>] = "none"
    BY <1>1, <1>2 DEF RuntimeInv, RuntimeTypes, GearsBuilt, Built, At, Running, Instances
  <2>3. GearsOf[c] \subseteq Gears /\ todo'[c] = GearsOf[c] /\ applyPc'[c] = "init"
    BY <1>2, RuntimeAssumption, Zenon DEF RuntimeInv, RuntimeTypes
  <2> QED
    BY <1>1, <1>6, <2>1, <2>2, <2>3 DEF GearsBuilt, Built, At, Running
<1> QED
  BY <1>3, <1>4, <1>5, <1>7 DEF RuntimeInv

(* ApplyFails, Cleanup and Shutdown: nobody is in a locked stretch then.   *)
LEMMA StopsInv ==
  ASSUME RuntimeInv, stopAll, mu' = "free", UNCHANGED <<todo, drains>>,
         shutdowns' \in 0..MaxShutdowns, applyPc' \in [Appliers -> ApplyStates],
         \A d \in Appliers : applyPc'[d] \notin {"init", "wire", "start"},
         \A d \in Appliers : applyPc'[d] = "idle" => applyPc[d] = "idle"
  PROVE  RuntimeInv'
<1>1. /\ active' = {} /\ activeSubs' = {} /\ live' = {} /\ attached' = {}
      /\ status' \in [Instances -> GearStates]
      /\ \A i \in Instances : /\ status'[i] \notin {"inited", "started"}
                              /\ i \in active => status'[i] = "stopped"
                              /\ i \notin active => status'[i] = status[i]
      /\ hotSubjects' = {} /\ UNCHANGED <<starts, hotClosed, handling>>
  BY StopAllEmpties
<1>2. RuntimeTypes'
  BY <1>1 DEF RuntimeInv, RuntimeTypes
<1>3. LockHeld' /\ Owned' /\ AllOrNone'
  BY <1>1, RuntimeAssumption DEF LockHeld, Owned, AllOrNone
<1>4. \A d \in Appliers, g \in Gears : At(d, "idle")' => status'[<<d, g>>] = "none"
  BY <1>1 DEF RuntimeInv, GearsBuilt, Built, At, Running, Instances
<1>5. GearsBuilt'
  BY <1>1, <1>4 DEF GearsBuilt, Built, At, Running
<1> QED
  BY <1>2, <1>3, <1>5 DEF RuntimeInv

(* The calls that do so.                                                   *)
LEMMA StoppingInv ==
  ASSUME RuntimeInv,
         ShutdownRuntime \/ \E c \in Appliers : ApplyFails(c) \/ Cleanup(c)
  PROVE  RuntimeInv'
<1>1. CASE ShutdownRuntime
  <2>1. shutdowns' \in 0..MaxShutdowns /\ mu' = "free" /\ UNCHANGED <<todo, drains, applyPc>>
    BY <1>1, RuntimeAssumption DEF ShutdownRuntime, RuntimeInv, RuntimeTypes, lockVars
  <2>2. \A d \in Appliers : applyPc'[d] \notin {"init", "wire", "start"}
    BY <1>1, <2>1, RuntimeAssumption DEF ShutdownRuntime, RuntimeInv, LockHeld
  <2> QED
    BY <1>1, <2>1, <2>2, StopsInv DEF ShutdownRuntime, RuntimeInv, RuntimeTypes
<1>2. ASSUME NEW c \in Appliers, ApplyFails(c) \/ Cleanup(c)
      PROVE  RuntimeInv'
  <2>1. /\ mu' = "free" /\ UNCHANGED <<todo, drains, shutdowns>> /\ stopAll
        /\ applyPc' = [applyPc EXCEPT ![c] = "failed"]
    BY <1>2 DEF ApplyFails, Cleanup, ApplyGoes, callVars
  <2>2. \A d \in Appliers : d # c => applyPc[d] \notin {"init", "wire", "start"}
    BY <1>2, RuntimeAssumption DEF ApplyFails, Cleanup, RuntimeInv, LockHeld
  <2>3. /\ applyPc' \in [Appliers -> ApplyStates]
        /\ \A d \in Appliers : applyPc'[d] \notin {"init", "wire", "start"}
        /\ \A d \in Appliers : applyPc'[d] = "idle" => applyPc[d] = "idle"
    BY <2>1, <2>2 DEF RuntimeInv, RuntimeTypes, ApplyStates
  <2> QED
    BY <2>1, <2>3, StopsInv DEF RuntimeInv, RuntimeTypes
<1> QED
  BY <1>1, <1>2

(***************************************************************************)
(* The locked stretches of ApplyScenario: the gear loop, the wire loop and *)
(* the start loop, with their ends.                                        *)
(***************************************************************************)
LEMMA InitGearInv ==
  ASSUME RuntimeInv, NEW c \in Appliers, NEW g \in Gears, InitGear(c, g)
  PROVE  RuntimeInv'
<1>1. /\ applyPc[c] = "init" /\ g \in todo[c] /\ todo' = [todo EXCEPT ![c] = todo[c] \ {g}]
      /\ active' = {i \in active : i[2] # g} \cup {<<c, g>>}
      /\ status' = [status EXCEPT ![<<c, g>>] = "inited"]
      /\ UNCHANGED <<mu, applyPc, snapshot, starts, busSubVars, callVars>>
  BY DEF InitGear, At, SetTodo
<1>2. /\ todo[c] \subseteq GearsOf[c] /\ active = {c} \X (GearsOf[c] \ todo[c])
      /\ status[<<c, g>>] = "none"
      /\ \A i \in active : status[i] = "inited"
  BY <1>1 DEF RuntimeInv, GearsBuilt, Built, At
<1>3. active' = {c} \X (GearsOf[c] \ (todo[c] \ {g})) /\ active' = active \cup {<<c, g>>}
  BY <1>1, <1>2
<1>4. \A d \in Appliers : applyPc[d] \in {"init", "wire", "start"} => d = c
  BY <1>1 DEF RuntimeInv, LockHeld
<1>5. <<c, g>> \in Instances
  BY DEF Instances
<1>6. RuntimeTypes' /\ LockHeld'
  BY <1>1, <1>3, <1>5 DEF RuntimeInv, RuntimeTypes, LockHeld, GearStates, busSubVars, callVars
<1>7. Owned'
  BY <1>1, <1>3 DEF RuntimeInv, Owned, busSubVars
<1>8. /\ status'[<<c, g>>] = "inited"
      /\ \A i \in Instances : i # <<c, g>> => status'[i] = status[i]
  BY <1>1, <1>5 DEF RuntimeInv, RuntimeTypes
<1>9. \A i \in active' : status'[i] = "inited"
  BY <1>2, <1>3, <1>8 DEF RuntimeInv, RuntimeTypes
<1>10. GearsBuilt'
  <2>1. \A i \in Instances : Running(i)' <=> i \in active'
    BY <1>3, <1>8 DEF RuntimeInv, GearsBuilt, Running
  <2>2. ASSUME NEW d \in Appliers, NEW h \in Gears, applyPc'[d] = "idle"
        PROVE  status'[<<d, h>>] = "none"
    <3>1. applyPc[d] = "idle" /\ d # c
      BY <1>1, <2>2
    <3>2. <<d, h>> \in Instances /\ status[<<d, h>>] = "none"
      BY <3>1, IdleMadeNone, Zenon
    <3>3. <<d, h>> # <<c, g>>
      BY <3>1
    <3> QED
      BY <1>8, <3>2, <3>3, Zenon
  <2>3. todo'[c] = todo[c] \ {g} /\ \A h \in todo'[c] : status'[<<c, h>>] = "none"
    BY <1>1, <1>2, <1>8, RuntimeAssumption
       DEF RuntimeInv, RuntimeTypes, GearsBuilt, Built, At, Instances
  <2> QED
    BY <1>1, <1>2, <1>3, <1>4, <1>9, <2>1, <2>2, <2>3 DEF GearsBuilt, Built, At
<1>11. AllOrNone'
  BY <1>1, <1>9 DEF AllOrNone, At
<1> QED
  BY <1>6, <1>7, <1>10, <1>11 DEF RuntimeInv

(* A wire of the scenario is subscribed.                                   *)
LEMMA WireUpInv ==
  ASSUME RuntimeInv, NEW c \in Appliers, NEW w \in WiresOf[c], WireUp(c, w)
  PROVE  RuntimeInv'
<1>1. /\ applyPc[c] = "wire" /\ w \in todo[c] /\ todo' = [todo EXCEPT ![c] = todo[c] \ {w}]
      /\ UNCHANGED <<mu, applyPc, active, status, starts, attached, hotClosed, handling, callVars>>
  BY DEF WireUp, At, SetTodo, gearVars
<1>2. /\ activeSubs' \subseteq activeSubs \cup {<<c, w>>}
      /\ live' \subseteq activeSubs' /\ live \subseteq live'
      /\ \A h \in hotSubjects' : h \in hotSubjects \/ h[2] = <<c, w>>
  BY DEF WireUp, RuntimeInv, RuntimeTypes
<1>3. <<c, w>> \in BusSubs
  BY DEF BusSubs
<1>4. RuntimeTypes' /\ LockHeld'
  BY <1>1, <1>2, <1>3 DEF RuntimeInv, RuntimeTypes, LockHeld, callVars
<1>5. Owned' /\ AllOrNone'
  BY <1>1, <1>2 DEF RuntimeInv, Owned, AllOrNone, At
<1>6. \A d \in Appliers : applyPc[d] \in {"init", "wire", "start"} => d = c
  BY <1>1 DEF RuntimeInv, LockHeld
<1>7. todo'[c] \subseteq todo[c]
  BY <1>1 DEF RuntimeInv, RuntimeTypes
<1>8. GearsBuilt'
  <2>1. \A i \in Instances : Running(i)' <=> i \in active'
    BY <1>1, Zenon DEF RuntimeInv, GearsBuilt, Running
  <2>2. \A d \in Appliers, g \in Gears : applyPc'[d] = "idle" => status'[<<d, g>>] = "none"
    BY <1>1, IdleMadeNone, Zenon
  <2>3. \A d \in Appliers : /\ applyPc'[d] # "init" /\ applyPc'[d] # "start"
                            /\ applyPc'[d] = "wire" => d = c
    BY <1>1, <1>6, Zenon
  <2>4. /\ todo'[c] \subseteq WiresOf[c] /\ active' = {c} \X GearsOf[c]
        /\ \A i \in active' : status'[i] = "inited"
    <3>1. Built(c)
      BY Zenon DEF RuntimeInv, GearsBuilt
    <3>2. /\ todo[c] \subseteq WiresOf[c] /\ active = {c} \X GearsOf[c]
          /\ \A i \in active : status[i] = "inited"
      BY <1>1, <3>1, Zenon DEF Built, At
    <3> QED
      BY <1>1, <1>7, <3>2, Zenon
  <2>5. \A d \in Appliers : Built(d)'
    BY <2>2, <2>3, <2>4, Zenon DEF Built, At
  <2> QED
    BY <2>1, <2>5, Zenon DEF GearsBuilt
<1> QED
  BY <1>4, <1>5, <1>8 DEF RuntimeInv

(* A gear is started.                                                      *)
LEMMA StartGearInv ==
  ASSUME RuntimeInv, NEW c \in Appliers, NEW i \in Instances, StartGear(c, i)
  PROVE  RuntimeInv'
<1>1. /\ applyPc[c] = "start" /\ i \in todo[c] /\ todo' = [todo EXCEPT ![c] = todo[c] \ {i}]
      /\ status' = [status EXCEPT ![i] = "started"]
      /\ starts' = [starts EXCEPT ![i] = @ + 1]
      /\ UNCHANGED <<mu, applyPc, active, busSubVars, callVars>>
  BY Zenon DEF StartGear, At, SetTodo
<1>2. /\ todo[c] \subseteq active /\ i \in active /\ todo'[c] = todo[c] \ {i}
      /\ \A j \in active \ todo[c] : status[j] = "started"
  BY <1>1 DEF RuntimeInv, RuntimeTypes, GearsBuilt, Built, At
<1>3. \A d \in Appliers : applyPc[d] \in {"init", "wire", "start"} => d = c
  BY <1>1 DEF RuntimeInv, LockHeld
<1>4. RuntimeTypes' /\ LockHeld'
  BY <1>1 DEF RuntimeInv, RuntimeTypes, LockHeld, GearStates, busSubVars, callVars
<1>5. Owned' /\ AllOrNone'
  BY <1>1, <1>3 DEF RuntimeInv, Owned, AllOrNone, At, busSubVars
<1>6. /\ status'[i] = "started"
      /\ \A j \in Instances : j # i => status'[j] = status[j]
  BY <1>1 DEF RuntimeInv, RuntimeTypes
<1>7. GearsBuilt'
  <2>1. \A j \in Instances : Running(j)' <=> j \in active'
    BY <1>1, <1>2, <1>6 DEF RuntimeInv, GearsBuilt, Running
  <2>2. status[i] # "none"
    BY <1>2 DEF RuntimeInv, GearsBuilt, Running
  <2>3. ASSUME NEW d \in Appliers, NEW h \in Gears, applyPc'[d] = "idle"
        PROVE  status'[<<d, h>>] = "none"
    <3>1. applyPc[d] = "idle"
      BY <1>1, <2>3, Zenon
    <3>2. <<d, h>> \in Instances /\ status[<<d, h>>] = "none"
      BY <3>1, IdleMadeNone, Zenon
    <3> QED
      BY <1>6, <2>2, <3>2, Zenon
  <2>4. \A j \in active' \ todo'[c] : status'[j] = "started"
    BY <1>1, <1>2, <1>6 DEF RuntimeInv, RuntimeTypes
  <2> QED
    BY <1>1, <1>2, <1>3, <2>1, <2>3, <2>4 DEF GearsBuilt, Built, At
<1> QED
  BY <1>4, <1>5, <1>7 DEF RuntimeInv

(* A step that changes neither a gear nor where a call stands.             *)
LEMMA GearsStay ==
  ASSUME RuntimeInv, UNCHANGED <<applyPc, todo, active, status>>
  PROVE  GearsBuilt' /\ AllOrNone'
<1>1. applyPc' = applyPc /\ todo' = todo /\ active' = active /\ status' = status
  BY Zenon
<1>2. \A i \in Instances : Running(i)' <=> i \in active'
  BY <1>1, Zenon DEF RuntimeInv, GearsBuilt, Running
<1>3. ASSUME NEW c \in Appliers PROVE Built(c)'
  <2>1. Built(c)
    BY Zenon DEF RuntimeInv, GearsBuilt
  <2> QED
    BY <1>1, <2>1, Zenon DEF Built, At
<1>4. AllOrNone'
  BY <1>1, Zenon DEF RuntimeInv, AllOrNone, At
<1> QED
  BY <1>2, <1>3, <1>4, Zenon DEF GearsBuilt

(* A call goes on to stretch l with S to do, and changes nothing it made.  *)
GoesOn(c, l, S) ==
  /\ l \in ApplyStates \ {"idle", "failed", "init"}
  /\ UNCHANGED <<active, status, starts, busSubVars, callVars>>
  /\ applyPc' = [applyPc EXCEPT ![c] = l]
  /\ DOMAIN todo' = Appliers /\ todo'[c] = S /\ \A d \in Appliers : d # c => todo'[d] = todo[d]
  /\ mu' \in Appliers \cup {"free", "drain"}
  /\ \A d \in Appliers : mu' = d <=> applyPc'[d] \in {"init", "wire", "start"}
  /\ applyPc[c] = "init" => active = {c} \X GearsOf[c]
  /\ applyPc[c] = "start" => \A i, j \in active : status[i] = status[j]
  /\ l = "wire" => /\ S \subseteq WiresOf[c] /\ active = {c} \X GearsOf[c]
                   /\ \A i \in active : status[i] = "inited"
  /\ l = "start" => S \subseteq active /\ \A i \in active \ S : status[i] = "started"

(* It keeps the invariant.                                                 *)
LEMMA GoesOnInv ==
  ASSUME RuntimeInv, NEW c \in Appliers, NEW l, NEW S, GoesOn(c, l, S)
  PROVE  RuntimeInv'
<1>1. /\ active' = active /\ status' = status /\ starts' = starts
      /\ activeSubs' = activeSubs /\ live' = live /\ attached' = attached
      /\ hotSubjects' = hotSubjects /\ hotClosed' = hotClosed /\ handling' = handling
      /\ shutdowns' = shutdowns /\ drains' = drains
  BY Zenon DEF GoesOn, busSubVars, callVars
<1>2. /\ l \in ApplyStates /\ l \notin {"idle", "failed", "init"}
      /\ DOMAIN todo' = Appliers /\ todo'[c] = S /\ \A d \in Appliers : d # c => todo'[d] = todo[d]
  BY Zenon DEF GoesOn
<1>3. /\ applyPc' \in [Appliers -> ApplyStates] /\ applyPc'[c] = l
      /\ \A d \in Appliers : d # c => applyPc'[d] = applyPc[d]
  <2>1. applyPc \in [Appliers -> ApplyStates] /\ applyPc' = [applyPc EXCEPT ![c] = l]
    BY Zenon DEF RuntimeInv, RuntimeTypes, GoesOn
  <2> QED
    BY <1>2, <2>1, Zenon
<1>4. RuntimeTypes'
  BY <1>1, <1>2, <1>3, Zenon DEF RuntimeInv, RuntimeTypes
<1>5. LockHeld'
  BY Zenon DEF LockHeld, GoesOn
<1>6. Owned'
  <2>1. active \subseteq Instances /\ activeSubs \subseteq BusSubs
    BY Zenon DEF RuntimeInv, RuntimeTypes
  <2>2. (\A i \in Instances : i[1] \in Appliers) /\ \A i \in BusSubs : i[1] \in Appliers
    BY DEF Instances, BusSubs
  <2>3. \A i \in active \cup activeSubs : i[1] \in Appliers
    BY <2>1, <2>2, Zenon
  <2> QED
    BY <1>1, <1>2, <1>3, <2>3, Zenon DEF RuntimeInv, Owned
<1>7. GearsBuilt'
  <2>1. \A i \in Instances : Running(i)' <=> i \in active'
    BY <1>1, Zenon DEF RuntimeInv, GearsBuilt, Running
  <2>2. ASSUME NEW d \in Appliers, d # c PROVE Built(d)'
    <3>1. Built(d)
      BY Zenon DEF RuntimeInv, GearsBuilt
    <3>2. applyPc'[d] = applyPc[d] /\ todo'[d] = todo[d]
      BY <1>2, <1>3, <2>2, Zenon
    <3> QED
      BY <1>1, <3>1, <3>2, Zenon DEF Built, At
  <2>3. Built(c)'
    <3>1. l = "wire" => /\ todo'[c] \subseteq WiresOf[c] /\ active = {c} \X GearsOf[c]
                        /\ \A i \in active : status[i] = "inited"
      BY <1>2, Zenon DEF GoesOn
    <3>2. l = "start" => todo'[c] \subseteq active /\ \A i \in active \ todo'[c] : status[i] = "started"
      BY <1>2, Zenon DEF GoesOn
    <3> QED
      BY <1>1, <1>2, <1>3, <3>1, <3>2, Zenon DEF Built, At
  <2> QED
    BY <2>1, <2>2, <2>3, Zenon DEF GearsBuilt
<1>8. AllOrNone'
  <2>1. (\A d \in Appliers : applyPc'[d] # "init") =>
          active = {} \/ \E d \in Appliers : active = {d} \X GearsOf[d]
    BY <1>3, Zenon DEF RuntimeInv, AllOrNone, At, GoesOn
  <2>2. (\A d \in Appliers : applyPc'[d] # "start") => \A i, j \in active : status[i] = status[j]
    BY <1>3, Zenon DEF RuntimeInv, AllOrNone, At, GoesOn
  <2> QED
    BY <1>1, <2>1, <2>2, Zenon DEF AllOrNone, At
<1> QED
  BY <1>4, <1>5, <1>6, <1>7, <1>8 DEF RuntimeInv

(* Steps that go on to the next stretch.                                   *)
LEMMA StretchInv ==
  ASSUME RuntimeInv, NEW c \in Appliers,
         \/ InitDone(c) \/ WiresDone(c) \/ ApplyReturns(c) \/ Relock(c)
         \/ Snapshot(c) \/ Converged(c) \/ ConvergenceTimeout(c)
  PROVE  RuntimeInv'
<1>1. UNCHANGED <<active, status, starts, busSubVars, callVars>>
  BY Zenon DEF InitDone, WiresDone, ApplyReturns, Relock, Snapshot, Converged, ConvergenceTimeout,
         gearVars
<1>2. /\ applyPc \in [Appliers -> ApplyStates] /\ DOMAIN todo = Appliers
      /\ mu \in Appliers \cup {"free", "drain"}
      /\ \A d \in Appliers : mu = d <=> applyPc[d] \in {"init", "wire", "start"}
  BY Zenon DEF RuntimeInv, RuntimeTypes, LockHeld
<1>3. \A d \in Appliers : d # "free"
  BY RuntimeAssumption, Zenon
<1>4. CASE InitDone(c)
  <2>1. /\ applyPc[c] = "init" /\ todo[c] = {} /\ applyPc' = [applyPc EXCEPT ![c] = "wire"]
        /\ todo' = [todo EXCEPT ![c] = WiresOf[c]] /\ mu' = mu
    BY <1>4, Zenon DEF InitDone, At, ApplyGoes, SetTodo
  <2>2. active = {c} \X GearsOf[c] /\ \A i \in active : status[i] = "inited"
    BY <2>1, Zenon DEF RuntimeInv, GearsBuilt, Built, At
  <2>3. /\ DOMAIN todo' = Appliers /\ todo'[c] = WiresOf[c]
        /\ \A d \in Appliers : d # c => todo'[d] = todo[d]
    BY <1>2, <2>1, Zenon
  <2>4. \A d \in Appliers : mu' = d <=> applyPc'[d] \in {"init", "wire", "start"}
    BY <1>2, <2>1, Zenon
  <2>5. "wire" \in ApplyStates \ {"idle", "failed", "init"}
    BY DEF ApplyStates
  <2> QED
    BY <1>1, <1>2, <2>1, <2>2, <2>3, <2>4, <2>5, GoesOnInv, ZenonT(60) DEF GoesOn
<1>5. CASE WiresDone(c) \/ ApplyReturns(c)
  <2>1. PICK l \in {"snapshot", "applied"} :
          /\ applyPc[c] \in {"wire", "start"} /\ todo[c] = {} /\ mu' = "free"
          /\ applyPc' = [applyPc EXCEPT ![c] = l] /\ todo' = todo
    BY <1>5, Zenon DEF WiresDone, ApplyReturns, At, ApplyGoes
  <2>2. \A i, j \in active : status[i] = status[j]
    BY <2>1, Zenon DEF RuntimeInv, GearsBuilt, Built, At
  <2>3. DOMAIN todo' = Appliers /\ \A d \in Appliers : todo'[d] = todo[d]
    BY <1>2, <2>1, Zenon
  <2>4. \A d \in Appliers : d # c => applyPc[d] \notin {"init", "wire", "start"}
    BY <1>2, <2>1, Zenon
  <2>5. \A d \in Appliers : mu' = d <=> applyPc'[d] \in {"init", "wire", "start"}
    BY <1>2, <1>3, <2>1, <2>4, Zenon
  <2>6. l \in ApplyStates \ {"idle", "failed", "init"} /\ l \notin {"wire", "start"}
    BY DEF ApplyStates
  <2>7. mu' \in Appliers \cup {"free", "drain"} /\ applyPc[c] # "init"
    BY <2>1
  <2> QED
    BY <1>1, <2>1, <2>2, <2>3, <2>5, <2>6, <2>7, GoesOnInv, Zenon DEF GoesOn
<1>6. CASE Relock(c)
  <2>1. /\ applyPc[c] = "relock" /\ mu = "free" /\ mu' = c
        /\ applyPc' = [applyPc EXCEPT ![c] = "start"] /\ todo' = [todo EXCEPT ![c] = active]
    BY <1>6, Zenon DEF Relock, At, ApplyGoes, SetTodo
  <2>2. \A d \in Appliers : applyPc[d] \notin {"init", "wire", "start"}
    BY <1>2, <1>3, <2>1, Zenon
  <2>3. /\ DOMAIN todo' = Appliers /\ todo'[c] = active
        /\ \A d \in Appliers : d # c => todo'[d] = todo[d]
    BY <1>2, <2>1, Zenon
  <2>4. \A d \in Appliers : mu' = d <=> applyPc'[d] \in {"init", "wire", "start"}
    BY <1>2, <2>1, <2>2, Zenon
  <2>5. "start" \in ApplyStates \ {"idle", "failed", "init"} /\ mu' \in Appliers \cup {"free", "drain"}
    BY <2>1 DEF ApplyStates
  <2> QED
    BY <1>1, <2>1, <2>3, <2>4, <2>5, GoesOnInv, Zenon DEF GoesOn
<1>7. CASE Snapshot(c) \/ Converged(c) \/ ConvergenceTimeout(c)
  <2>1. PICK l \in {"relock", "converge", "failing"} :
          /\ applyPc[c] \in {"snapshot", "converge"} /\ mu' = mu /\ todo' = todo
          /\ applyPc' = [applyPc EXCEPT ![c] = l]
    BY <1>7, Zenon DEF Snapshot, Converged, ConvergenceTimeout, At, ApplyGoes
  <2>2. DOMAIN todo' = Appliers /\ \A d \in Appliers : todo'[d] = todo[d]
    BY <1>2, <2>1, Zenon
  <2>3. l \in ApplyStates \ {"idle", "failed", "init"} /\ l \notin {"init", "wire", "start"}
    BY DEF ApplyStates
  <2>4. \A d \in Appliers : mu' = d <=> applyPc'[d] \in {"init", "wire", "start"}
    BY <1>2, <2>1, <2>3, Zenon
  <2>5. applyPc[c] # "init" /\ applyPc[c] # "start" /\ mu' \in Appliers \cup {"free", "drain"}
    BY <1>2, <2>1
  <2> QED
    BY <1>1, <2>1, <2>2, <2>3, <2>4, <2>5, GoesOnInv, Zenon DEF GoesOn
<1> QED
  BY <1>4, <1>5, <1>6, <1>7

(* Probes, and Drain, which holds the lock and changes no gear.            *)
LEMMA ProbeInv ==
  ASSUME RuntimeInv, NEW s \in BusSubs, Propagate(s) \/ ProbeArrives(s) \/ ProbeHandled(s)
  PROVE  RuntimeInv'
<1>1. UNCHANGED <<mu, applyPc, todo, active, status, starts, activeSubs, live, callVars>>
  BY Zenon DEF Propagate, ProbeArrives, ProbeHandled, lockVars, gearVars
<1>2. /\ attached' \subseteq live /\ handling' \subseteq BusSubs
      /\ hotClosed' \subseteq BusSubs /\ hotSubjects' \subseteq hotSubjects
  BY Zenon DEF Propagate, ProbeArrives, ProbeHandled, RuntimeInv, RuntimeTypes
<1>3. \A h \in hotSubjects' : h[2] \in BusSubs
  BY <1>2, Zenon DEF RuntimeInv, RuntimeTypes
<1>4. RuntimeTypes'
  BY <1>1, <1>2, <1>3, Zenon DEF RuntimeInv, RuntimeTypes, callVars
<1>5. LockHeld' /\ Owned'
  BY <1>1, Zenon DEF RuntimeInv, LockHeld, Owned
<1>6. GearsBuilt' /\ AllOrNone'
  BY <1>1, GearsStay, Zenon
<1> QED
  BY <1>4, <1>5, <1>6 DEF RuntimeInv

(* Drain takes the lock and starts nothing.                                *)
LEMMA RuntimeDrainInv ==
  ASSUME RuntimeInv, DrainBegin \/ DrainReturn \/ \E i \in Instances : DrainGear(i)
  PROVE  RuntimeInv'
<1>1. UNCHANGED <<applyPc, todo, active, status, starts, busSubVars, shutdowns>>
  BY DEF DrainBegin, DrainReturn, DrainGear, lockVars, gearVars
<1>2. drains' \in 0..MaxDrains
  BY RuntimeAssumption DEF DrainBegin, DrainReturn, DrainGear, RuntimeInv, RuntimeTypes
<1>3. mu \in {"free", "drain"} /\ mu' \in {"free", "drain"}
  BY DEF DrainBegin, DrainReturn, DrainGear, lockVars
<1>4. RuntimeTypes'
  BY <1>1, <1>2, Zenon DEF RuntimeInv, RuntimeTypes, busSubVars
<1>5. LockHeld'
  BY <1>1, <1>3, RuntimeAssumption DEF RuntimeInv, LockHeld
<1>6. Owned'
  BY <1>1, Zenon DEF RuntimeInv, Owned, busSubVars
<1>7. GearsBuilt' /\ AllOrNone'
  BY <1>1, GearsStay, Zenon
<1> QED
  BY <1>4, <1>5, <1>6, <1>7 DEF RuntimeInv

(* A new Manager lists nothing.                                            *)
LEMMA RuntimeInitInv == NewManager => RuntimeInv
<1> SUFFICES ASSUME NewManager PROVE RuntimeInv
  OBVIOUS
<1>1. RuntimeTypes
  BY RuntimeAssumption DEF NewManager, RuntimeTypes, ApplyStates, GearStates
<1>2. LockHeld /\ Owned /\ AllOrNone
  BY RuntimeAssumption DEF NewManager, LockHeld, Owned, AllOrNone
<1>3. GearsBuilt
  BY DEF NewManager, GearsBuilt, Built, At, Running, Instances
<1> QED
  BY <1>1, <1>2, <1>3 DEF RuntimeInv

(* Every step keeps the invariant.                                         *)
LEMMA RuntimeNextInv == RuntimeInv /\ [RuntimeNext]_runtimeVars => RuntimeInv'
<1> SUFFICES ASSUME RuntimeInv, [RuntimeNext]_runtimeVars PROVE RuntimeInv'
  OBVIOUS
<1>1. ASSUME NEW c \in Appliers,
             ApplyBegin(c) \/ Locked(c) \/ Waiting(c) \/ ApplyFails(c) \/ ConvergenceTimeout(c)
      PROVE  RuntimeInv'
  BY <1>1, ApplyBeginInv, StoppingInv, InitGearInv, WireUpInv, StartGearInv, StretchInv, Zenon
     DEF Locked, Waiting
<1>2. CASE \E s \in BusSubs : Propagate(s) \/ ProbeArrives(s) \/ ProbeHandled(s)
  BY <1>2, ProbeInv
<1>3. CASE ShutdownRuntime
  BY <1>3, StoppingInv
<1>4. CASE DrainBegin \/ DrainReturn \/ \E i \in Instances : DrainGear(i)
  BY <1>4, RuntimeDrainInv
<1>5. CASE UNCHANGED runtimeVars
  <2>1. UNCHANGED <<mu, applyPc, todo, active, status, starts, activeSubs, live, attached,
                    hotSubjects, hotClosed, handling, shutdowns, drains>>
    BY <1>5 DEF runtimeVars, lockVars, gearVars, busSubVars, callVars
  <2>2. RuntimeTypes'
    BY <2>1 DEF RuntimeInv, RuntimeTypes
  <2>3. LockHeld' /\ Owned' /\ GearsBuilt' /\ AllOrNone'
    BY <2>1 DEF RuntimeInv, LockHeld, Owned, GearsBuilt, Built, AllOrNone, At, Running
  <2> QED
    BY <2>2, <2>3 DEF RuntimeInv
<1> QED
  BY <1>1, <1>2, <1>3, <1>4, <1>5 DEF RuntimeNext

(* So it holds throughout.                                                 *)
LEMMA RuntimeInvariance == RuntimeSpec => []RuntimeInv
BY RuntimeInitInv, RuntimeNextInv, PTL DEF RuntimeSpec

(* The calls whose start loop is past instance i.  A call goes through the *)
(* loop once, so they bound how often Start was called on i.               *)
Past(i) == {c \in Appliers : \/ applyPc[c] \in {"applied", "failed"}
                             \/ At(c, "start") /\ i \notin todo[c]}
StartsCounted == \A i \in Instances : starts[i] <= Cardinality(Past(i))

(* What has been begun stays begun.                                        *)
LEMMA PastGrows ==
  ASSUME RuntimeInv, [RuntimeNext]_runtimeVars, NEW i \in Instances
  PROVE  Past(i) \subseteq Past(i)'
<1>1. ASSUME NEW c \in Appliers,
             ApplyBegin(c) \/ Locked(c) \/ Waiting(c) \/ ApplyFails(c) \/ ConvergenceTimeout(c)
      PROVE  Past(i) \subseteq Past(i)'
  <2>1. \A d \in Appliers : d # c => applyPc'[d] = applyPc[d] /\ todo'[d] = todo[d]
    BY <1>1, Zenon
       DEF ApplyBegin, Locked, Waiting, ApplyFails, ConvergenceTimeout, InitGear, InitDone, WireUp,
           WiresDone, StartGear, ApplyReturns, Snapshot, Converged, Cleanup, Relock, ApplyGoes,
           SetTodo, RuntimeInv, RuntimeTypes
  <2>2. applyPc[c] \notin {"applied", "failed"}
    BY <1>1, Zenon
       DEF ApplyBegin, Locked, Waiting, ApplyFails, ConvergenceTimeout, InitGear, InitDone, WireUp,
           WiresDone, StartGear, ApplyReturns, Snapshot, Converged, Cleanup, Relock, At
  <2>3. applyPc[c] = "start" =>
          \/ applyPc'[c] \in {"applied", "failed"}
          \/ applyPc'[c] = "start" /\ todo'[c] \subseteq todo[c]
    BY <1>1, ZenonT(60)
       DEF ApplyBegin, Locked, Waiting, ApplyFails, ConvergenceTimeout, InitGear, InitDone, WireUp,
           WiresDone, StartGear, ApplyReturns, Snapshot, Converged, Cleanup, Relock, At, ApplyGoes,
           SetTodo, RuntimeInv, RuntimeTypes
  <2> QED
    BY <2>1, <2>2, <2>3 DEF Past, At
<1>2. CASE UNCHANGED <<applyPc, todo>>
  BY <1>2 DEF Past, At
<1>3. CASE \/ \E s \in BusSubs : Propagate(s) \/ ProbeArrives(s) \/ ProbeHandled(s)
           \/ ShutdownRuntime \/ DrainBegin \/ DrainReturn
           \/ \E j \in Instances : DrainGear(j)
           \/ UNCHANGED runtimeVars
  BY <1>2, <1>3, Zenon
     DEF Propagate, ProbeArrives, ProbeHandled, ShutdownRuntime, DrainBegin, DrainReturn,
         DrainGear, runtimeVars, lockVars
<1> QED
  BY <1>1, <1>3 DEF RuntimeNext

(* They are calls, of which there are finitely many.                       *)
LEMMA PastFinite ==
  ASSUME NEW i \in Instances
  PROVE  /\ IsFiniteSet(Past(i)) /\ IsFiniteSet(Past(i)')
         /\ Cardinality(Past(i)) \in Nat /\ Cardinality(Past(i)') \in Nat
         /\ Cardinality(Past(i)) <= Cardinality(Appliers)
<1>1. Past(i) \subseteq Appliers /\ Past(i)' \subseteq Appliers
  BY Zenon DEF Past
<1>2. IsFiniteSet(Past(i)) /\ IsFiniteSet(Past(i)') /\ Cardinality(Past(i)) <= Cardinality(Appliers)
  BY <1>1, RuntimeAssumption, FS_Subset, Zenon
<1> QED
  BY <1>2, FS_CardinalityType, Zenon

(* The number of starts stays what it should be.                           *)
LEMMA StartsCountedKept ==
  RuntimeInv /\ StartsCounted /\ [RuntimeNext]_runtimeVars => StartsCounted'
<1> SUFFICES ASSUME RuntimeInv, StartsCounted, [RuntimeNext]_runtimeVars, NEW i \in Instances
             PROVE  starts'[i] <= Cardinality(Past(i)')
  BY DEF StartsCounted
<1>1. /\ IsFiniteSet(Past(i)) /\ IsFiniteSet(Past(i)')
      /\ Cardinality(Past(i)) \in Nat /\ Cardinality(Past(i)') \in Nat
  BY PastFinite, Zenon
<1>2. Cardinality(Past(i)) <= Cardinality(Past(i)')
  BY <1>1, PastGrows, FS_Subset, Zenon
<1>3. starts[i] \in Nat /\ starts[i] <= Cardinality(Past(i))
  BY DEF RuntimeInv, RuntimeTypes, StartsCounted
<1>4. CASE starts'[i] = starts[i]
  BY <1>1, <1>2, <1>3, <1>4
<1>5. ASSUME NEW c \in Appliers, StartGear(c, i)
      PROVE  starts'[i] <= Cardinality(Past(i)')
  <2>1. starts'[i] = starts[i] + 1
    BY <1>5, Zenon DEF StartGear, RuntimeInv, RuntimeTypes
  <2>2. c \notin Past(i) /\ c \in Past(i)'
    BY <1>5 DEF StartGear, Past, At, SetTodo, RuntimeInv, RuntimeTypes
  <2>3. Past(i) \cup {c} \subseteq Past(i)'
    BY <2>2, PastGrows, Zenon
  <2>4. Cardinality(Past(i) \cup {c}) = Cardinality(Past(i)) + 1
    BY <1>1, <2>2, FS_AddElement, Zenon
  <2>5. Cardinality(Past(i) \cup {c}) <= Cardinality(Past(i)')
    BY <1>1, <2>3, FS_Subset, Zenon
  <2> QED
    BY <1>1, <1>3, <2>1, <2>4, <2>5
<1>6. CASE \E c \in Appliers, j \in Instances : StartGear(c, j)
  <2>1. PICK c \in Appliers, j \in Instances : StartGear(c, j)
    BY <1>6
  <2>2. j # i => starts'[i] = starts[i]
    BY <2>1, Zenon DEF StartGear, RuntimeInv, RuntimeTypes
  <2> QED
    BY <1>4, <1>5, <2>1, <2>2, Zenon
<1>7. CASE UNCHANGED starts
  BY <1>4, <1>7
<1>8. (\E c \in Appliers, j \in Instances : StartGear(c, j)) \/ UNCHANGED starts
  BY ZenonT(60)
     DEF RuntimeNext, ApplyBegin, Locked, Waiting, ApplyFails, ConvergenceTimeout, InitGear,
         InitDone, WireUp, WiresDone, ApplyReturns, Snapshot, Converged, Cleanup, Relock,
         stopAll, Propagate, ProbeArrives, ProbeHandled, ShutdownRuntime, DrainBegin, DrainReturn,
         DrainGear, runtimeVars, gearVars
<1> QED
  BY <1>6, <1>7, <1>8

(***************************************************************************)
(* No step of any call starts or initialises a gear that was stopped.      *)
(***************************************************************************)
LEMMA StoppedStays ==
  RuntimeInv /\ [RuntimeNext]_runtimeVars =>
    [\A i \in Instances : status[i] = "stopped" => status'[i] = "stopped"]_runtimeVars
<1> SUFFICES ASSUME RuntimeInv, [RuntimeNext]_runtimeVars,
                    NEW i \in Instances, status[i] = "stopped"
             PROVE  status'[i] = "stopped"
  OBVIOUS
<1>1. CASE stopAll
  BY <1>1 DEF stopAll
<1>2. ASSUME NEW c \in Appliers, NEW g \in Gears, InitGear(c, g)
      PROVE  status'[i] = "stopped"
  <2>1. status[<<c, g>>] = "none"
    BY <1>2, Zenon DEF InitGear, At, RuntimeInv, GearsBuilt, Built
  <2> QED
    BY <1>2, <2>1, Zenon DEF InitGear, RuntimeInv, RuntimeTypes
<1>3. ASSUME NEW c \in Appliers, NEW j \in Instances, StartGear(c, j)
      PROVE  status'[i] = "stopped"
  <2>1. Running(j)
    BY <1>3, Zenon DEF StartGear, At, RuntimeInv, GearsBuilt, Built
  <2> QED
    BY <1>3, <2>1, Zenon DEF StartGear, Running, RuntimeInv, RuntimeTypes
<1>4. CASE UNCHANGED status
  BY <1>4
<1>5. \/ stopAll \/ UNCHANGED status
      \/ \E c \in Appliers, g \in Gears : InitGear(c, g)
      \/ \E c \in Appliers, j \in Instances : StartGear(c, j)
  BY Zenon
     DEF RuntimeNext, ApplyBegin, Locked, Waiting, ApplyFails, ConvergenceTimeout,
         InitDone, WireUp, WiresDone, ApplyReturns, Snapshot, Converged, Cleanup, Relock,
         Propagate, ProbeArrives, ProbeHandled, ShutdownRuntime, DrainBegin, DrainReturn,
         DrainGear, runtimeVars, gearVars
<1> QED
  BY <1>1, <1>2, <1>3, <1>4, <1>5

(***************************************************************************)
(* Whenever the lock is free, what runs is what the Manager lists, of each *)
(* scenario all gears are started or none, and a failed call left nothing. *)
(***************************************************************************)
LEMMA FreeIsTransactional == RuntimeInv => Transactional
<1> SUFFICES ASSUME RuntimeInv, mu = "free" PROVE Transactional
  BY DEF Transactional
<1>1. \A c \in Appliers : applyPc[c] \notin {"init", "wire", "start"}
  BY RuntimeAssumption DEF RuntimeInv, LockHeld
<1>2. {i \in Instances : Running(i)} = active /\ live \subseteq activeSubs
  BY Zenon DEF RuntimeInv, RuntimeTypes, GearsBuilt
<1>3. ASSUME NEW c \in Appliers
      PROVE  {g \in Gears : status[<<c, g>>] = "started"} \in {{}, GearsOf[c]}
  <2>1. \A g \in Gears : status[<<c, g>>] = "started" => <<c, g>> \in active
    BY DEF RuntimeInv, GearsBuilt, Running, Instances
  <2>2. \A i, j \in active : status[i] = status[j]
    BY <1>1 DEF RuntimeInv, AllOrNone, At
  <2>3. active = {} \/ \E d \in Appliers : active = {d} \X GearsOf[d]
    BY <1>1 DEF RuntimeInv, AllOrNone, At
  <2>4. GearsOf[c] \subseteq Gears
    BY RuntimeAssumption
  <2> QED
    BY <2>1, <2>2, <2>3, <2>4, ZenonT(60)
<1>4. ASSUME NEW c \in Appliers, At(c, "failed")
      PROVE  ~ \E i \in active \cup activeSubs : i[1] = c
  BY <1>4 DEF At, RuntimeInv, Owned
<1> QED
  BY <1>2, <1>3, <1>4 DEF Transactional

(***************************************************************************)
(* Transactional cleanup, for any number of overlapping calls of           *)
(* ApplyScenario, Shutdown and Drain: no partial scenario is left and no   *)
(* gear that was stopped is started again, although ApplyScenario gives up *)
(* its lock in the middle.                                                 *)
(***************************************************************************)
THEOREM ScenariosAreWhole == RuntimeSpec => WholeScenarios
<1>1. NewManager => StartsCounted
  <2> SUFFICES ASSUME NewManager, NEW i \in Instances PROVE starts[i] <= Cardinality(Past(i))
    BY DEF StartsCounted
  <2>1. Cardinality(Past(i)) \in Nat
    BY PastFinite, Zenon
  <2> QED
    BY <2>1 DEF NewManager
<1>2. RuntimeInv /\ StartsCounted => RuntimeTypeOK
  <2> SUFFICES ASSUME RuntimeInv, StartsCounted PROVE RuntimeTypeOK
    OBVIOUS
  <2>1. Cardinality(Appliers) \in Nat
    BY RuntimeAssumption, FS_CardinalityType, Zenon
  <2>2. starts \in [Instances -> 0..Cardinality(Appliers)]
    <3> SUFFICES ASSUME NEW i \in Instances PROVE starts[i] \in 0..Cardinality(Appliers)
      BY DEF RuntimeInv, RuntimeTypes
    <3>1. Cardinality(Past(i)) \in Nat /\ Cardinality(Past(i)) <= Cardinality(Appliers)
      BY PastFinite, Zenon
    <3>2. starts[i] \in Nat /\ starts[i] <= Cardinality(Past(i))
      BY Zenon DEF StartsCounted, RuntimeInv, RuntimeTypes
    <3> QED
      BY <2>1, <3>1, <3>2
  <2> QED
    BY <2>2 DEF RuntimeInv, RuntimeTypes, LockHeld, RuntimeTypeOK, ApplyStates, GearStates
<1> QED
  BY <1>1, <1>2, RuntimeInvariance, StartsCountedKept, StoppedStays, FreeIsTransactional, PTL
     DEF RuntimeSpec, WholeScenarios, StoppedForGood

-----------------------------------------------------------------------------
(* The client link.                                                        *)

(* handleConn stores its connection from before linkState(true) to before  *)
(* linkState(false), so a Stop that loads nothing finds no read under way. *)
StoredWhileReading ==
  ~connPtr => pc \notin {"stored", "loop", "reading", "emit", "closing"} /\ (pc = "publish" => ~up)

(* A Stop of the ISO client that returned nil found nothing to read from,  *)
(* or waited for the end of runLoop; done is set for whatever comes later. *)
UplinkInv ==
  /\ connPtr \in BOOLEAN /\ up \in BOOLEAN
  /\ StoredWhileReading
  /\ upStop # "idle" => upDone
  /\ kind = "iso" /\ upStop = "stopped" => pc \notin {"reading", "emit"}

(***************************************************************************)
(* A Stop of the ISO client that returned nil is final: nothing is emitted *)
(* after it, also when a dial it could not see completes later.            *)
(***************************************************************************)
THEOREM StopsAreFinal == UplinkSpec => []StopIsFinal
<1>1. UplinkInit => UplinkInv
  BY Zenon DEF UplinkInit, UplinkInv, StoredWhileReading
<1>2. UplinkInv /\ [UplinkNext]_uplinkVars => UplinkInv'
  <2> SUFFICES ASSUME UplinkInv, [UplinkNext]_uplinkVars PROVE UplinkInv'
    OBVIOUS
  <2> USE DEF UplinkInv, StoredWhileReading, UpAt
  <2>1. CASE \/ DialLoop \/ DialOk \/ DialFails \/ ReconnectWait \/ StoreConn \/ FrameIn
             \/ ResponseEmitted \/ WatchForClose \/ CloseUplink \/ ReadEnds
    BY <2>1, Zenon DEF DialLoop, DialOk, DialFails, ReconnectWait, StoreConn, FrameIn,
                ResponseEmitted, WatchForClose, CloseUplink, ReadEnds
  <2>2. CASE PublishLookup \/ PublishSend
    BY <2>2, Zenon DEF PublishLookup, PublishSend
  <2>3. CASE ConnLoop
    BY <2>3 DEF ConnLoop
  <2>4. CASE StopUplink \/ StopUplinkLoad \/ StopUplinkWait
    BY <2>4 DEF StopUplink, StopUplinkLoad, StopUplinkWait
  <2>5. CASE UNCHANGED <<kind, pc, connPtr, up, upDone, upStop>>
    BY <2>5
  <2>6. CASE \/ ProcessRequest \/ WriteRequest \/ DisconnectUplink
             \/ (\E b \in Buses : Bind(b)) \/ Deliver \/ StartConductor \/ Sense
             \/ UNCHANGED uplinkVars
    BY <2>5, <2>6, Zenon
       DEF ProcessRequest, WriteRequest, DisconnectUplink, Bind, Deliver, StartConductor, Sense,
           uplinkVars, clientVars
  <2> QED
    BY <2>1, <2>2, <2>3, <2>4, <2>6 DEF UplinkNext, runLoop
<1>3. UplinkInv => StopIsFinal
  BY DEF UplinkInv, StopIsFinal
<1> QED
  BY <1>1, <1>2, <1>3, PTL DEF UplinkSpec

-----------------------------------------------------------------------------
(* The reader of the event stream.                                         *)

EventRecords == [kind : {Wanted, "other", "garbled"}, age : 0..MaxEventAge + 1,
                 state : {"none", "new", "flying", "done"},
                 count : 0..MaxDeliver, wait : 0..MaxEventAge]

ReaderInv ==
  /\ event \in [Ids -> EventRecords]
  /\ reader \in [open : BOOLEAN, conn : Nat, broken : BOOLEAN]
  /\ conn \in Nat /\ losses \in Nat
  /\ fetched \in Seq(Ids) /\ work \subseteq [e : Ids, c : Nat]
  /\ AckedIsEmitted

(* A period leaves an event what it is, and no younger.                    *)
LEMMA EventAged ==
  ASSUME NEW v \in EventRecords
  PROVE  /\ Aged(v) \in EventRecords /\ Aged(v).kind = v.kind
         /\ Aged(v).age \in Nat /\ Aged(v).age >= v.age /\ Aged(v).state = v.state
<1> DEFINE a == IF v.age <= MaxEventAge THEN v.age + 1 ELSE v.age
           b == IF v.state = "flying" /\ v.wait < MaxEventAge THEN v.wait + 1 ELSE v.wait
<1>1. v.age \in 0..MaxEventAge + 1 /\ v.wait \in 0..MaxEventAge
  BY Zenon DEF EventRecords
<1>2. /\ a \in 0..MaxEventAge + 1 /\ b \in 0..MaxEventAge
      /\ a \in Nat /\ a >= v.age /\ v.age \in Nat /\ v.age >= v.age
  BY <1>1, ReaderAssumption
<1> HIDE DEF a, b
<1>3. Aged(v) = IF v.state = "none" THEN v ELSE [v EXCEPT !.age = a, !.wait = b]
  BY Zenon DEF Aged, a, b
<1>4. CASE v.state = "none"
  BY <1>2, <1>3, <1>4, Zenon
<1>5. CASE v.state # "none"
  <2>1. Aged(v) \in EventRecords
    BY <1>2, <1>3, <1>5, Zenon DEF EventRecords
  <2>2. Aged(v).kind = v.kind /\ Aged(v).age = a /\ Aged(v).state = v.state
    BY <1>3, <1>5, Zenon DEF EventRecords
  <2> QED
    BY <1>2, <2>1, <2>2, Zenon
<1> QED
  BY <1>4, <1>5

(* A step that changes the record of one event, and only settles it when   *)
(* it was emitted or is one the reader drops.                              *)
LEMMA EventChanged ==
  ASSUME ReaderInv, emitted \subseteq emitted', NEW e \in Ids, NEW v \in EventRecords,
         event' = [event EXCEPT ![e] = v],
         v.state = "done" => e \in emitted' \/ v.kind # Wanted \/ v.age > MaxEventAge
  PROVE  event' \in [Ids -> EventRecords] /\ AckedIsEmitted'
<1>1. event' \in [Ids -> EventRecords] /\ event'[e] = v
      /\ \A d \in Ids : d # e => event'[d] = event[d]
  BY DEF ReaderInv
<1> QED
  BY <1>1, Zenon DEF ReaderInv, AckedIsEmitted, TooOld

(* A step that leaves the events alone.                                    *)
LEMMA EventsSame ==
  ASSUME ReaderInv, emitted \subseteq emitted', UNCHANGED event
  PROVE  event' \in [Ids -> EventRecords] /\ AckedIsEmitted'
BY DEF ReaderInv, AckedIsEmitted, TooOld

(* Settling an event.                                                      *)
LEMMA SettleKeeps ==
  ASSUME ReaderInv, NEW e \in Ids, NEW c, Settle(e, c), emitted \subseteq emitted',
         e \in emitted' \/ event[e].kind # Wanted \/ TooOld(e)
  PROVE  event' \in [Ids -> EventRecords] /\ AckedIsEmitted'
<1>1. CASE event' = [event EXCEPT ![e].state = "done"]
  <2> DEFINE v == [event[e] EXCEPT !.state = "done"]
  <2>1. event[e] \in EventRecords /\ 0 \in 0..MaxDeliver /\ 0 \in 0..MaxEventAge
    BY ReaderAssumption DEF ReaderInv
  <2>2. v \in EventRecords
    BY <2>1, Zenon DEF EventRecords
  <2>3. v.kind = event[e].kind /\ v.age = event[e].age
    BY <2>1, Zenon DEF EventRecords
  <2>4. event' = [event EXCEPT ![e] = v]
    BY <1>1, Zenon
  <2> QED
    BY <2>2, <2>3, <2>4, EventChanged, Zenon DEF TooOld
<1> QED
  BY <1>1, EventsSame DEF Settle

(* The stream publishes, delivers and ages events, and the consumer goes.  *)
LEMMA StreamKeeps ==
  ASSUME ReaderInv,
         \/ \E e \in Ids : DeliverEvent(e) \/ \E k \in {Wanted, "other", "garbled"} : Publish(e, k)
         \/ Tick \/ DeleteConsumer
  PROVE  event' \in [Ids -> EventRecords] /\ AckedIsEmitted'
<1>1. ASSUME NEW e \in Ids, DeliverEvent(e)
      PROVE  event' \in [Ids -> EventRecords] /\ AckedIsEmitted'
  <2> DEFINE v == [event[e] EXCEPT !.state = "flying", !.count = event[e].count + 1, !.wait = 0]
  <2>1. event[e] \in EventRecords
    BY DEF ReaderInv
  <2>2. event[e].count \in 0..MaxDeliver /\ event[e].count < MaxDeliver
    BY <1>1, <2>1, Zenon DEF DeliverEvent, Due, EventRecords
  <2>3. event[e].count + 1 \in 0..MaxDeliver /\ 0 \in 0..MaxEventAge
    BY <2>2, ReaderAssumption
  <2>4. v \in EventRecords
    BY <2>1, <2>3, Zenon DEF EventRecords
  <2>5. v.state = "flying"
    BY <2>1, Zenon DEF EventRecords
  <2>6. event' = [event EXCEPT ![e] = v] /\ UNCHANGED emitted
    BY <1>1, Zenon DEF DeliverEvent
  <2> HIDE DEF v
  <2> QED
    BY <2>4, <2>5, <2>6, EventChanged, Zenon
<1>2. ASSUME NEW e \in Ids, NEW k \in {Wanted, "other", "garbled"}, Publish(e, k)
      PROVE  event' \in [Ids -> EventRecords] /\ AckedIsEmitted'
  <2> DEFINE v == [NoEvent EXCEPT !.kind = k, !.age = 1, !.state = "new"]
  <2>1. NoEvent \in EventRecords /\ 1 \in 0..MaxEventAge + 1
    BY ReaderAssumption DEF NoEvent, EventRecords
  <2>2. v \in EventRecords /\ v.state = "new"
    BY <2>1, Zenon DEF EventRecords
  <2>3. event' = [event EXCEPT ![e] = v] /\ UNCHANGED emitted
    BY <1>2, Zenon DEF Publish
  <2> HIDE DEF v
  <2> QED
    BY <2>2, <2>3, EventChanged, Zenon
<1>3. CASE Tick
  <2>1. event' = [e \in Ids |-> Aged(event[e])] /\ UNCHANGED emitted
    BY <1>3, Zenon DEF Tick
  <2>2. ASSUME NEW e \in Ids
        PROVE  /\ event'[e] \in EventRecords /\ event'[e].kind = event[e].kind
               /\ event'[e].state = event[e].state
               /\ event[e].age > MaxEventAge => event'[e].age > MaxEventAge
    <3>1. event[e] \in EventRecords
      BY DEF ReaderInv
    <3>2. event[e].age \in Nat
      BY <3>1, ReaderAssumption DEF EventRecords
    <3>3. event'[e] = Aged(event[e])
      BY <2>1
    <3>4. /\ event'[e] \in EventRecords /\ event'[e].kind = event[e].kind
          /\ event'[e].age \in Nat /\ event'[e].age >= event[e].age
          /\ event'[e].state = event[e].state
      BY <3>1, <3>3, EventAged, Zenon
    <3> QED
      BY <3>2, <3>4, ReaderAssumption
  <2>3. event' \in [Ids -> EventRecords]
    BY <2>1, <2>2
  <2> QED
    BY <2>1, <2>2, <2>3, Zenon DEF ReaderInv, AckedIsEmitted, TooOld
<1>4. CASE DeleteConsumer
  <2>1. /\ event' = [e \in Ids |-> IF event[e].state = "none" THEN event[e]
                                   ELSE [event[e] EXCEPT !.state = "new", !.count = 0, !.wait = 0]]
        /\ UNCHANGED emitted
    BY <1>4, Zenon DEF DeleteConsumer
  <2>2. ASSUME NEW e \in Ids
        PROVE  \/ event'[e] = event[e]
               \/ event'[e] \in EventRecords /\ event'[e].state = "new"
    <3>1. event[e] \in EventRecords /\ 0 \in 0..MaxDeliver /\ 0 \in 0..MaxEventAge
      BY ReaderAssumption DEF ReaderInv
    <3> DEFINE v == [event[e] EXCEPT !.state = "new", !.count = 0, !.wait = 0]
    <3>2. v \in EventRecords
      BY <3>1, Zenon DEF EventRecords
    <3>3. v.state = "new"
      BY <3>1, Zenon DEF EventRecords
    <3>4. event'[e] = event[e] \/ event'[e] = v
      BY <2>1, Zenon
    <3> QED
      BY <3>2, <3>3, <3>4, Zenon
  <2>3. event' \in [Ids -> EventRecords]
    BY <2>1, <2>2, Zenon DEF ReaderInv
  <2> QED
    BY <2>1, <2>2, <2>3, Zenon DEF ReaderInv, AckedIsEmitted, TooOld
<1> QED
  BY <1>1, <1>2, <1>3, <1>4

(* Next and the end of the pipeline: what they settle was emitted, or is   *)
(* not an event the gear wants.                                            *)
LEMMA PipelineKeeps ==
  ASSUME ReaderInv, NextEvent \/ \E w \in work, ok \in BOOLEAN : Ack(w, ok)
  PROVE  event' \in [Ids -> EventRecords] /\ AckedIsEmitted'
<1>1. CASE NextEvent
  <2>1. Head(fetched) \in Ids
    <3>1. fetched \in Seq(Ids) /\ fetched # <<>>
      BY <1>1, Zenon DEF NextEvent, ReaderInv
    <3> QED
      BY <3>1, HeadTailProperties, Zenon
  <2>2. UNCHANGED emitted
    BY <1>1, Zenon DEF NextEvent
  <2>3. CASE accept(Head(fetched))
    BY <1>1, <2>2, <2>3, EventsSame, Zenon DEF NextEvent
  <2>4. CASE ~accept(Head(fetched))
    BY <1>1, <2>1, <2>2, <2>4, SettleKeeps, Zenon DEF NextEvent, accept
  <2> QED
    BY <2>3, <2>4
<1>2. ASSUME NEW w \in work, NEW ok \in BOOLEAN, Ack(w, ok)
      PROVE  event' \in [Ids -> EventRecords] /\ AckedIsEmitted'
  <2>1. w.e \in Ids
    BY DEF ReaderInv
  <2>2. emitted' = IF ok THEN emitted \cup {w.e} ELSE emitted
    BY <1>2, Zenon DEF Ack
  <2>3. CASE ok
    BY <1>2, <2>1, <2>2, <2>3, SettleKeeps, Zenon DEF Ack, WriteError
  <2>4. CASE ~ok /\ event' = [event EXCEPT ![w.e].state = "new", ![w.e].wait = 0]
    <3> DEFINE v == [event[w.e] EXCEPT !.state = "new", !.wait = 0]
    <3>1. event[w.e] \in EventRecords /\ 0 \in 0..MaxEventAge
      BY <2>1, ReaderAssumption DEF ReaderInv
    <3>2. v \in EventRecords
      BY <3>1, Zenon DEF EventRecords
    <3>3. v.state = "new"
      BY <3>1, Zenon DEF EventRecords
    <3>4. event' = [event EXCEPT ![w.e] = v]
      BY <2>4, Zenon
    <3> HIDE DEF v
    <3> QED
      BY <2>1, <2>2, <2>4, <3>2, <3>3, <3>4, EventChanged, Zenon
  <2>5. CASE ~ok /\ UNCHANGED event
    BY <2>2, <2>5, EventsSame, Zenon
  <2> QED
    BY <1>2, <2>3, <2>4, <2>5, Zenon DEF Ack, WriteError
<1> QED
  BY <1>1, <1>2

(***************************************************************************)
(* An event the consumer is done with was emitted, or is one the reader    *)
(* drops, whatever is lost, delivered again or settled late.               *)
(***************************************************************************)
THEOREM AckedIsAlwaysEmitted == ReaderSpec => []AckedIsEmitted
<1>1. ReaderInit => ReaderInv
  <2> SUFFICES ASSUME ReaderInit PROVE ReaderInv
    OBVIOUS
  <2>1. NoEvent \in EventRecords /\ NoEvent.state = "none"
    BY ReaderAssumption DEF NoEvent, EventRecords
  <2>2. event \in [Ids -> EventRecords] /\ AckedIsEmitted
    BY <2>1 DEF ReaderInit, AckedIsEmitted
  <2> QED
    BY <2>2 DEF ReaderInit, ReaderInv, Closed
<1>2. ReaderInv /\ [ReaderNext]_rvars => ReaderInv'
  <2> SUFFICES ASSUME ReaderInv, [ReaderNext]_rvars PROVE ReaderInv'
    OBVIOUS
  <2>1. event' \in [Ids -> EventRecords] /\ AckedIsEmitted'
    <3>1. CASE UNCHANGED <<event, emitted>>
      BY <3>1, EventsSame
    <3>2. CASE Reconnect \/ Open \/ NextReopens \/ UNCHANGED rvars
      BY <3>1, <3>2 DEF Reconnect, Open, NextReopens, rvars
    <3> QED
      BY <3>2, StreamKeeps, PipelineKeeps DEF ReaderNext
  <2>2. /\ reader' \in [open : BOOLEAN, conn : Nat, broken : BOOLEAN]
        /\ conn' \in Nat /\ losses' \in Nat
    <3>1. CASE UNCHANGED <<reader, conn, losses>>
      BY <3>1 DEF ReaderInv
    <3>2. CASE Reconnect
      BY <3>2 DEF Reconnect, ReaderInv
    <3>3. CASE DeleteConsumer
      <4>1. PICK b \in {reader.broken, reader.open} : reader' = [reader EXCEPT !.broken = b]
        BY <3>3, Zenon DEF DeleteConsumer
      <4>2. b \in BOOLEAN
        BY <4>1, Zenon DEF ReaderInv
      <4>3. reader' \in [open : BOOLEAN, conn : Nat, broken : BOOLEAN]
        BY <4>1, <4>2, Zenon DEF ReaderInv
      <4>4. conn' = conn /\ losses' = losses + 1
        BY <3>3, Zenon DEF DeleteConsumer
      <4> QED
        BY <4>3, <4>4 DEF ReaderInv
    <3>4. CASE Open
      BY <3>4, Zenon DEF Open, ReaderInv
    <3>5. CASE NextReopens
      <4>1. Closed \in [open : BOOLEAN, conn : Nat, broken : BOOLEAN]
        BY DEF Closed
      <4> QED
        BY <3>5, <4>1, Zenon DEF NextReopens, ReaderInv
    <3> QED
      BY <3>1, <3>2, <3>3, <3>4, <3>5, Zenon
         DEF ReaderNext, DeliverEvent, Publish, Tick, NextEvent, Ack, rvars
  <2>3. fetched' \in Seq(Ids) /\ work' \subseteq [e : Ids, c : Nat]
    <3>1. CASE UNCHANGED <<fetched, work>>
      BY <3>1 DEF ReaderInv
    <3>2. ASSUME NEW e \in Ids, DeliverEvent(e)
          PROVE  fetched' \in Seq(Ids) /\ work' \subseteq [e : Ids, c : Nat]
      BY <3>2 DEF DeliverEvent, ReaderInv
    <3>3. CASE NextReopens
      BY <3>3 DEF NextReopens, ReaderInv
    <3>4. CASE NextEvent
      <4>1. fetched' \in Seq(Ids) /\ Head(fetched) \in Ids /\ reader.conn \in Nat
        BY <3>4 DEF NextEvent, ReaderInv
      <4>2. work' = work \/ work' = work \cup {[e |-> Head(fetched), c |-> reader.conn]}
        BY <3>4, Zenon DEF NextEvent
      <4> QED
        BY <4>1, <4>2 DEF ReaderInv
    <3>5. ASSUME NEW w \in work, NEW ok \in BOOLEAN, Ack(w, ok)
          PROVE  fetched' \in Seq(Ids) /\ work' \subseteq [e : Ids, c : Nat]
      BY <3>5 DEF Ack, ReaderInv
    <3> QED
      BY <3>1, <3>2, <3>3, <3>4, <3>5, Zenon
         DEF ReaderNext, Publish, Tick, Reconnect, DeleteConsumer, Open, rvars
  <2> QED
    BY <2>1, <2>2, <2>3 DEF ReaderInv
<1>3. ReaderInv => AckedIsEmitted
  BY DEF ReaderInv
<1> QED
  BY <1>1, <1>2, <1>3, PTL DEF ReaderSpec

(***************************************************************************)
(* BentoGear: what Process took is out, in the stream or in the channel,   *)
(* until Stop drops what is left.                                          *)
(***************************************************************************)
Queued(s) == {s[i] : i \in DOMAIN s}

BentoInv == inChan \in Seq(BentoMsgs) /\ TakenAccounted

(* What a queue holds when a message comes.                                *)
LEMMA QueuedAppend ==
  ASSUME NEW S, NEW s \in Seq(S), NEW m \in S
  PROVE  Append(s, m) \in Seq(S) /\ Queued(Append(s, m)) = Queued(s) \cup {m}
<1>1. /\ Append(s, m) \in Seq(S) /\ DOMAIN Append(s, m) = 1..Len(s) + 1
      /\ DOMAIN s = 1..Len(s) /\ Len(s) \in Nat
      /\ \A i \in 1..Len(s) : Append(s, m)[i] = s[i]
      /\ Append(s, m)[Len(s) + 1] = m
  OBVIOUS
<1>2. 1..Len(s) + 1 = (1..Len(s)) \cup {Len(s) + 1}
  BY <1>1
<1>3. ASSUME NEW x \in Queued(Append(s, m)) PROVE x \in Queued(s) \cup {m}
  BY <1>1, <1>2, <1>3, Zenon DEF Queued
<1>4. ASSUME NEW x \in Queued(s) PROVE x \in Queued(Append(s, m))
  BY <1>1, <1>2, <1>4, Zenon DEF Queued
<1>5. m \in Queued(Append(s, m))
  BY <1>1, <1>2, Zenon DEF Queued
<1> QED
  BY <1>1, <1>3, <1>4, <1>5, Zenon

(* What it holds when the first one is taken.                              *)
LEMMA QueuedHead ==
  ASSUME NEW S, NEW s \in Seq(S), s # <<>>
  PROVE  /\ Tail(s) \in Seq(S) /\ Head(s) \in S
         /\ Queued(s) = Queued(Tail(s)) \cup {Head(s)}
<1>1. /\ Tail(s) \in Seq(S) /\ DOMAIN Tail(s) = 1..Len(s) - 1 /\ Head(s) = s[1]
      /\ DOMAIN s = 1..Len(s) /\ Len(s) \in Nat /\ Len(s) > 0 /\ Head(s) \in S
      /\ \A i \in 1..Len(s) - 1 : Tail(s)[i] = s[i + 1]
  OBVIOUS
<1>2. ASSUME NEW x \in Queued(s) PROVE x \in Queued(Tail(s)) \cup {Head(s)}
  <2>1. PICK i \in 1..Len(s) : x = s[i]
    BY <1>1, Zenon DEF Queued
  <2>2. i = 1 \/ (i - 1 \in 1..Len(s) - 1 /\ (i - 1) + 1 = i)
    BY <1>1
  <2>3. CASE i = 1
    BY <1>1, <2>1, <2>3
  <2>4. CASE i - 1 \in 1..Len(s) - 1 /\ (i - 1) + 1 = i
    <3>1. Tail(s)[i - 1] = x /\ i - 1 \in DOMAIN Tail(s)
      BY <1>1, <2>1, <2>4
    <3> QED
      BY <3>1, Zenon DEF Queued
  <2> QED
    BY <2>2, <2>3, <2>4
<1>3. ASSUME NEW x \in Queued(Tail(s)) PROVE x \in Queued(s)
  <2>1. PICK i \in 1..Len(s) - 1 : x = Tail(s)[i]
    BY <1>1, Zenon DEF Queued
  <2>2. x = s[i + 1] /\ i + 1 \in DOMAIN s
    BY <1>1, <2>1
  <2> QED
    BY <2>2, Zenon DEF Queued
<1>4. Head(s) \in Queued(s)
  <2>1. 1 \in DOMAIN s
    BY <1>1
  <2> QED
    BY <1>1, <2>1, Zenon DEF Queued
<1> QED
  BY <1>1, <1>2, <1>3, <1>4, Zenon

(***************************************************************************)
(* What Process took leaves the gear at most once and never from nowhere,  *)
(* and only Stop drops any of it: for every set of messages and every      *)
(* capacity of the channel.                                                *)
(***************************************************************************)
THEOREM TakenIsAccounted == BentoSpec => []TakenAccounted
<1> DEFINE Books == /\ out \cup piped \cup Queued(inChan) \subseteq taken
                    /\ stage # "stopped" => taken = out \cup piped \cup Queued(inChan)
<1>1. TakenAccounted <=> Books
  BY Zenon DEF TakenAccounted, Queued
<1>2. BentoInit => BentoInv
  <2>1. Queued(<<>>) = {}
    BY DEF Queued
  <2> QED
    BY <1>1, <2>1 DEF BentoInit, BentoInv
<1>3. BentoInv /\ [BentoNext]_bvars => BentoInv'
  <2> SUFFICES ASSUME BentoInv, [BentoNext]_bvars PROVE BentoInv'
    OBVIOUS
  <2>1. TakenAccounted' <=> Books'
    BY Zenon DEF TakenAccounted, Queued
  <2> HIDE DEF Books
  <2> SUFFICES inChan' \in Seq(BentoMsgs) /\ Books'
    BY <2>1, Zenon DEF BentoInv
  <2>2. Books
    BY <1>1, Zenon DEF BentoInv
  <2>3. ASSUME NEW m \in BentoMsgs, ProcessSends(m)
        PROVE  inChan' \in Seq(BentoMsgs) /\ Books'
    <3>1. CASE inClosed
      BY <2>2, <2>3, <3>1, Zenon DEF ProcessSends, BentoInv, Books
    <3>2. CASE ~inClosed
      <4>1. inChan' = Append(inChan, m) /\ inChan \in Seq(BentoMsgs)
        BY <2>3, <3>2, Zenon DEF ProcessSends, BentoInv
      <4>2. inChan' \in Seq(BentoMsgs) /\ Queued(inChan') = Queued(inChan) \cup {m}
        BY <4>1, QueuedAppend
      <4>3. taken' = taken \cup {m} /\ UNCHANGED <<out, piped, stage>>
        BY <2>3, <3>2, Zenon DEF ProcessSends
      <4> QED
        BY <2>2, <4>2, <4>3, Zenon DEF Books
    <3> QED
      BY <3>1, <3>2
  <2>4. ASSUME NEW m \in BentoMsgs, Write(m)
        PROVE  inChan' \in Seq(BentoMsgs) /\ Books'
    <3>1. /\ UNCHANGED <<inChan, taken, stage>> /\ inChan \in Seq(BentoMsgs)
          /\ out' \cup piped' = out \cup piped
      BY <2>4, Zenon DEF Write, BentoInv
    <3> QED
      BY <2>2, <3>1, Zenon DEF Books
  <2>5. CASE Read
    <3>1. /\ inChan' \in Seq(BentoMsgs) /\ Queued(inChan) = Queued(inChan') \cup {Head(inChan)}
      BY <2>5, QueuedHead, Zenon DEF Read, BentoInv
    <3>2. UNCHANGED <<taken, stage, out>> /\ piped' = piped \cup {Head(inChan)}
      BY <2>5, Zenon DEF Read
    <3> QED
      BY <2>2, <3>1, <3>2, Zenon DEF Books, BentoInv
  <2>6. CASE StopWaits
    <3>1. inChan' = <<>> /\ Queued(inChan') = {} /\ inChan' \in Seq(BentoMsgs)
      BY <2>6 DEF StopWaits, Queued
    <3> QED
      BY <2>2, <2>6, <3>1, Zenon DEF StopWaits, Books, BentoInv
  <2>7. CASE /\ UNCHANGED <<inChan, taken, piped, out>>
             /\ stage' = stage \/ stage # "stopped"
    BY <2>2, <2>7, Zenon DEF Books, BentoInv
  <2>8. ASSUME NEW m \in BentoMsgs, Process(m) \/ ProcessGivesUp(m)
        PROVE  UNCHANGED <<inChan, taken, piped, out, stage>>
    BY <2>8, Zenon DEF Process, ProcessGivesUp
  <2>9. CASE Drain \/ StopCancels \/ StopClosesChan \/ UNCHANGED bvars
    BY <2>7, <2>9 DEF Drain, StopCancels, StopClosesChan, bvars
  <2> QED
    BY <2>3, <2>4, <2>5, <2>6, <2>7, <2>8, <2>9, Zenon DEF BentoNext
<1>4. BentoInv => TakenAccounted
  BY DEF BentoInv
<1> QED
  BY <1>2, <1>3, <1>4, PTL DEF BentoSpec
===============================================================================
