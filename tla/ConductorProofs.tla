-------------------------- MODULE ConductorProofs --------------------------
(***************************************************************************)
(* Proofs about the engine (module Valet), for every set of keys,          *)
(* destinations, tickets and Drain calls and every bound, and about the    *)
(* Conductor that drives it, for every set of requests: what the handlers  *)
(* do on top of the engine keeps the engine's own invariant, and a request *)
(* gets one verdict, the one its ticket settled with.                      *)
(***************************************************************************)
EXTENDS Conductor, FiniteSetTheorems, TLAPS

-----------------------------------------------------------------------------
(* The engine.                                                             *)

(* What Park labels a ticket with stays, and an unused ticket has nothing. *)
Labelled ==
  \A t \in Tickets :
    /\ tstate[t] # "unused" => tkey[t] \in Keys /\ tdest[t] \in Dests
    /\ tstate[t] = "unused" =>
         armed[t] = "none" /\ \A kind \in TimerKinds : <<kind, t>> \notin fired

(* OnExpire is called once, for a ticket that expired. *)
Reported ==
  \A t \in Tickets :
    /\ t \in calling => tstate[t] = "expired" /\ calls[t] = 0
    /\ calls[t] > 0 => tstate[t] = "expired" /\ t \notin calling

(* A closed engine holds nothing. *)
ClosedEmpty ==
  state = "closed" => \A k \in Keys : store[k] = None /\ retained[k] = None

(***************************************************************************)
(* The inductive invariant.                                                *)
(***************************************************************************)
Inv ==
  /\ TypeOK
  /\ Linked
  /\ Labelled
  /\ ClosedEmpty
  /\ Reported
  /\ AccountingExact

-----------------------------------------------------------------------------
(***************************************************************************)
(* InFlight and its parts are finite, being sets of tickets.               *)
(***************************************************************************)
LEMMA InFlightFinite ==
  /\ IsFiniteSet(InFlight)
  /\ \A d : IsFiniteSet({t \in InFlight : tdest[t] = d})
<1>1. InFlight \in SUBSET Tickets
  BY Zenon DEF InFlight
<1>2. \A d : {t \in InFlight : tdest[t] = d} \in SUBSET Tickets
  BY Zenon DEF InFlight
<1>3. \A S \in SUBSET Tickets : IsFiniteSet(S)
  BY FS_Subset, ValetAssumption, Zenon
<1> QED
  BY <1>1, <1>2, <1>3, Zenon

(***************************************************************************)
(* Taking the ticket of key k out of the store, as Redeem, Release and     *)
(* expire do, keeps the counters exact when decOpenLocked accounts for it. *)
(***************************************************************************)
LEMMA TakeKeepsCounts ==
  ASSUME Inv, NEW k \in Keys, store[k] # None,
         store' = [store EXCEPT ![k] = None],
         DecCounts(store[k]), tdest' = tdest
  PROVE  /\ openCount' \in Nat
         /\ destCounts' \in [Dests -> Nat]
         /\ AccountingExact'
<1> DEFINE t == store[k]
           To(d) == {u \in InFlight : tdest[u] = d}
<1>1. t \in Tickets /\ tkey[t] = k /\ tdest[t] \in Dests /\ t \in InFlight
  BY DEF Inv, TypeOK, Linked, Labelled, InFlight
<1>2. InFlight' = InFlight \ {t}
  <2>1. \A j \in Keys : j # k => store[j] # t
    BY <1>1 DEF Inv, Linked, TypeOK
  <2> QED
    BY <1>1, <2>1, ValetAssumption, Zenon DEF InFlight, Inv, TypeOK
<1>3. /\ Cardinality(InFlight) \in Nat
      /\ Cardinality(InFlight') = Cardinality(InFlight) - 1
  BY <1>1, <1>2, InFlightFinite, FS_RemoveElement, FS_CardinalityType, Zenon
<1>4. openCount' \in Nat /\ openCount' = Cardinality(InFlight')
  <2>1. Cardinality(InFlight') \in Nat
    <3>1. IsFiniteSet(InFlight')
      BY <1>2, InFlightFinite, FS_RemoveElement, Zenon
    <3> QED
      BY <3>1, FS_CardinalityType, Zenon
  <2> QED
    BY <1>3, <2>1, Zenon DEF Inv, AccountingExact, DecCounts
<1>5. ASSUME NEW d \in Dests
      PROVE  destCounts'[d] \in Nat /\ destCounts'[d] = Cardinality(To(d)')
  <2>1. To(d)' = To(d) \ {t}
    BY <1>2, Zenon
  <2>2. IsFiniteSet(To(d)) /\ Cardinality(To(d)) \in Nat
    BY InFlightFinite, FS_CardinalityType, Zenon
  <2>3. Cardinality(To(d)') =
          IF t \in To(d) THEN Cardinality(To(d)) - 1 ELSE Cardinality(To(d))
    BY <2>1, <2>2, FS_RemoveElement, Zenon
  <2>4. destCounts[d] = Cardinality(To(d))
    BY Zenon DEF Inv, AccountingExact
  <2>5. t \in To(d) <=> tdest[t] = d
    BY <1>1, Zenon
  <2>6. CASE tdest[t] = d
    <3>1. To(d) # {}
      BY <2>5, <2>6, Zenon
    <3>2. Cardinality(To(d)) # 0
      BY <3>1, <2>2, FS_EmptySet, Zenon
    <3>3. destCounts'[d] = IF destCounts[d] <= 1 THEN 0 ELSE destCounts[d] - 1
      BY <2>6, <1>1, Zenon DEF DecCounts, Inv, TypeOK
    <3> QED
      BY <2>2, <2>3, <2>4, <2>5, <2>6, <3>2, <3>3
  <2>7. CASE tdest[t] # d
    <3>1. destCounts'[d] = destCounts[d]
      BY <2>7, <1>1, Zenon DEF DecCounts, Inv, TypeOK
    <3> QED
      BY <2>2, <2>3, <2>4, <2>5, <2>7, <3>1, Zenon
  <2> QED
    BY <2>6, <2>7, Zenon
<1>6. destCounts' \in [Dests -> Nat]
  <2>1. destCounts' = [d \in Dests |-> destCounts'[d]]
    BY Zenon DEF DecCounts, Inv, TypeOK
  <2> QED
    BY <2>1, <1>5, Zenon
<1> QED
  BY <1>4, <1>5, <1>6, Zenon DEF AccountingExact

(***************************************************************************)
(* Steps that leave store, counters and destinations alone keep the counts *)
(* exact.                                                                  *)
(***************************************************************************)
LEMMA SameKeepsCounts ==
  ASSUME AccountingExact, UNCHANGED <<store, openCount, destCounts, tdest>>
  PROVE  AccountingExact'
BY Zenon DEF AccountingExact, InFlight

(***************************************************************************)
(* Park puts a ticket in the store that was not there and counts it.       *)
(***************************************************************************)
LEMMA ParkKeepsCounts ==
  ASSUME Inv, NEW k \in Keys, NEW d \in Dests, NEW t \in Tickets, Park(k, d, t)
  PROVE  /\ openCount' \in Nat
         /\ destCounts' \in [Dests -> Nat]
         /\ AccountingExact'
<1> DEFINE To(e) == {u \in InFlight : tdest[u] = e}
<1>1. store[k] = None /\ tstate[t] = "unused"
  BY Zenon DEF Park, ParkResult
<1>2. t \notin InFlight
  BY <1>1, ValetAssumption DEF InFlight, Inv, Linked
<1>3. InFlight' = InFlight \cup {t}
  BY <1>1, <1>2, ValetAssumption, Zenon DEF InFlight, Park, Inv, TypeOK
<1>4. Cardinality(InFlight) \in Nat
  BY InFlightFinite, FS_CardinalityType, Zenon
<1>5. Cardinality(InFlight') = Cardinality(InFlight) + 1
  BY <1>2, <1>3, InFlightFinite, FS_AddElement, Zenon
<1>6. openCount' \in Nat /\ openCount' = Cardinality(InFlight')
  BY <1>4, <1>5 DEF Inv, AccountingExact, Park
<1>7. ASSUME NEW e \in Dests
      PROVE  destCounts'[e] \in Nat /\ destCounts'[e] = Cardinality(To(e)')
  <2>1. \A u \in InFlight : tdest'[u] = tdest[u]
    BY <1>2, Zenon DEF Park, Inv, TypeOK, InFlight
  <2>2. tdest'[t] = d
    BY Zenon DEF Park, Inv, TypeOK
  <2>3. To(e)' = IF e = d THEN To(e) \cup {t} ELSE To(e)
    BY <1>3, <2>1, <2>2, Zenon
  <2>4. IsFiniteSet(To(e)) /\ Cardinality(To(e)) \in Nat /\ t \notin To(e)
    BY <1>2, InFlightFinite, FS_CardinalityType, Zenon
  <2>5. destCounts[e] = Cardinality(To(e))
    BY Zenon DEF Inv, AccountingExact
  <2>6. CASE e = d
    <3>1. Cardinality(To(e)') = Cardinality(To(e)) + 1
      BY <2>3, <2>4, <2>6, FS_AddElement, Zenon
    <3>2. destCounts'[e] = destCounts[e] + 1
      BY <2>6, Zenon DEF Park, Inv, TypeOK
    <3> QED
      BY <2>4, <2>5, <3>1, <3>2
  <2>7. CASE e # d
    <3>1. destCounts'[e] = destCounts[e]
      BY <2>7, Zenon DEF Park, Inv, TypeOK
    <3> QED
      BY <2>3, <2>4, <2>5, <2>7, <3>1, Zenon
  <2> QED
    BY <2>6, <2>7, Zenon
<1>8. destCounts' \in [Dests -> Nat]
  <2>1. destCounts' = [e \in Dests |-> destCounts'[e]]
    BY Zenon DEF Park, Inv, TypeOK
  <2> QED
    BY <2>1, <1>7, Zenon
<1> QED
  BY <1>6, <1>7, <1>8, Zenon DEF AccountingExact

(***************************************************************************)
(* Close empties the store and resets the counters.                        *)
(***************************************************************************)
LEMMA CloseKeepsCounts ==
  ASSUME Close
  PROVE  AccountingExact'
<1>1. InFlight' = {}
  BY ValetAssumption, Zenon DEF Close, InFlight
<1>2. \A d : {t \in InFlight : tdest[t] = d}' = {}
  BY <1>1, Zenon
<1> QED
  BY <1>1, <1>2, FS_EmptySet, Zenon DEF Close, AccountingExact

-----------------------------------------------------------------------------
(* A new engine satisfies the invariant. *)
LEMMA InitInv == Init => Inv
<1> SUFFICES ASSUME Init PROVE Inv
  BY Zenon
<1>1. InFlight = {}
  BY ValetAssumption, Zenon DEF Init, InFlight
<1>2. \A d : {t \in InFlight : tdest[t] = d} = {}
  BY <1>1, Zenon
<1>3. AccountingExact
  BY <1>1, <1>2, FS_EmptySet, Zenon DEF Init, AccountingExact
<1>4. TypeOK
  BY Zenon DEF Init, TypeOK, EngineStates, TicketStates, TimerKinds, DrainStates, CtxStates
<1>5. Linked /\ Labelled /\ ClosedEmpty /\ Reported
  BY DEF Init, Linked, Labelled, ClosedEmpty, Reported
<1> QED
  BY <1>3, <1>4, <1>5, Zenon DEF Inv

(***************************************************************************)
(* Broadcast only moves Drain calls between their states.                  *)
(***************************************************************************)
LEMMA BroadcastType ==
  ASSUME TypeOK, Broadcast
  PROVE  drain' \in [Drains -> DrainStates]
BY Zenon DEF TypeOK, Broadcast, DrainStates

USE DEF EngineStates, TicketStates, TimerKinds, DrainStates, CtxStates

(* Park creates a ticket only for a key that has none. *)
LEMMA ParkInv ==
  ASSUME Inv, NEW k \in Keys, NEW d \in Dests, NEW t \in Tickets, Park(k, d, t)
  PROVE  Inv'
<1>1. state = "running" /\ store[k] = None /\ retained[k] = None
  BY Zenon DEF Park, ParkResult, Inv, TypeOK
<1>2. TypeOK'
  BY ParkKeepsCounts, Zenon DEF Park, Inv, TypeOK, tickets, callbacks
<1>3. Linked'
  BY <1>1, ValetAssumption DEF Park, Inv, TypeOK, Linked
<1>4. Labelled'
  BY Zenon DEF Park, Inv, TypeOK, Labelled
<1>5. ClosedEmpty' /\ Reported'
  BY <1>1, Zenon DEF Park, Inv, TypeOK, ClosedEmpty, Reported, callbacks
<1> QED
  BY <1>2, <1>3, <1>4, <1>5, ParkKeepsCounts, Zenon DEF Inv

(* Redeem takes the ticket of its key out of the store. *)
LEMMA RedeemInv ==
  ASSUME Inv, NEW k \in Keys, Redeem(k)
  PROVE  Inv'
<1>1. state # "closed" /\ store[k] # None /\ store[k] \in Tickets
  BY Zenon DEF Redeem, RedeemResult, Inv, TypeOK
<1>2. openCount' \in Nat /\ destCounts' \in [Dests -> Nat] /\ AccountingExact'
  BY <1>1, TakeKeepsCounts, Zenon DEF Redeem, decOpenLocked
<1>3. TypeOK'
  BY <1>1, <1>2, BroadcastType, ValetAssumption, Zenon
     DEF Redeem, decOpenLocked, Inv, TypeOK, callbacks
<1>4. Linked'
  BY <1>1, ValetAssumption DEF Redeem, Inv, TypeOK, Linked
<1>5. Labelled'
  <2>1. tstate[store[k]] = "open"
    BY <1>1, Zenon DEF Inv, Linked
  <2> QED
    BY <1>1, <2>1, Zenon DEF Redeem, Inv, TypeOK, Labelled
<1>6. ClosedEmpty' /\ Reported'
  BY <1>1 DEF Redeem, Inv, TypeOK, ClosedEmpty, Reported, Linked, callbacks
<1> QED
  BY <1>2, <1>3, <1>4, <1>5, <1>6, Zenon DEF Inv

(* Release takes the ticket of its key out of the store. *)
LEMMA ReleaseInv ==
  ASSUME Inv, NEW k \in Keys, Release(k)
  PROVE  Inv'
<1>1. state # "closed" /\ store[k] # None /\ store[k] \in Tickets
  BY Zenon DEF Release, Inv, TypeOK
<1>2. openCount' \in Nat /\ destCounts' \in [Dests -> Nat] /\ AccountingExact'
  BY <1>1, TakeKeepsCounts, Zenon DEF Release, decOpenLocked
<1>3. TypeOK'
  BY <1>1, <1>2, BroadcastType, Zenon DEF Release, decOpenLocked, Inv, TypeOK, callbacks
<1>4. Linked'
  BY <1>1, ValetAssumption DEF Release, Inv, TypeOK, Linked
<1>5. Labelled'
  <2>1. tstate[store[k]] = "open"
    BY <1>1, Zenon DEF Inv, Linked
  <2> QED
    BY <1>1, <2>1, Zenon DEF Release, Inv, TypeOK, Labelled
<1>6. ClosedEmpty' /\ Reported'
  BY <1>1 DEF Release, Inv, TypeOK, ClosedEmpty, Reported, Linked, callbacks
<1> QED
  BY <1>2, <1>3, <1>4, <1>5, <1>6, Zenon DEF Inv

(* expire takes a ticket out of the store that is still its key's. *)
LEMMA ExpireOpenInv ==
  ASSUME Inv, NEW t \in Tickets, ExpireOpen(t)
  PROVE  Inv'
<1>1. tkey[t] \in Keys /\ store[tkey[t]] = t /\ tstate[t] = "open"
      /\ state # "closed" /\ t # None
  <2>1. tstate[t] # "unused"
    <3>1. "expiry" \in TimerKinds /\ <<"expiry", t>> \in fired
      BY Zenon DEF ExpireOpen
    <3> HIDE DEF TimerKinds
    <3> QED
      BY <3>1, Zenon DEF Inv, Labelled
  <2>2. tkey[t] \in Keys
    BY <2>1, Zenon DEF Inv, Labelled
  <2>3. store[tkey[t]] = t /\ state # "closed" /\ t # None
    BY ValetAssumption, Zenon DEF ExpireOpen, StillOpen
  <2> QED
    BY <2>2, <2>3 DEF Inv, Linked
<1>2. openCount' \in Nat /\ destCounts' \in [Dests -> Nat] /\ AccountingExact'
  BY <1>1, TakeKeepsCounts, Zenon DEF ExpireOpen, decOpenLocked
<1>3. TypeOK'
  BY <1>1, <1>2, BroadcastType, Zenon DEF ExpireOpen, decOpenLocked, Inv, TypeOK
<1>4. Linked'
  BY <1>1, ValetAssumption DEF ExpireOpen, Inv, TypeOK, Linked
<1>5. Labelled'
  BY <1>1, Zenon DEF ExpireOpen, Inv, TypeOK, Labelled
<1>6. ClosedEmpty' /\ Reported'
  BY <1>1 DEF ExpireOpen, Inv, TypeOK, ClosedEmpty, Reported
<1> QED
  BY <1>2, <1>3, <1>4, <1>5, <1>6, Zenon DEF Inv

(* The other timer steps leave store and counts alone. *)
LEMMA TimerInv ==
  ASSUME Inv, NEW t \in Tickets, TimerStep(t)
  PROVE  Inv'
<1>1. CASE Fire(t)
  BY <1>1, SameKeepsCounts
     DEF Fire, Inv, TypeOK, Linked, Labelled, ClosedEmpty, Reported, tickets,
         counters, callbacks
<1>2. CASE ExpireOpen(t)
  BY <1>2, ExpireOpenInv, Zenon
<1>3. CASE ExpireStale(t)
  BY <1>3, SameKeepsCounts, Zenon
     DEF ExpireStale, Inv, TypeOK, Linked, Labelled, ClosedEmpty, Reported,
         tickets, counters, callbacks
<1>4. CASE OnExpire(t)
  BY <1>4, SameKeepsCounts
     DEF OnExpire, Inv, TypeOK, Linked, Labelled, ClosedEmpty, Reported, tickets,
         counters
<1>5. CASE Purge(t)
  BY <1>5, SameKeepsCounts
     DEF Purge, Inv, TypeOK, Linked, Labelled, ClosedEmpty, Reported, tickets,
         counters, callbacks
<1> QED
  BY <1>1, <1>2, <1>3, <1>4, <1>5, Zenon DEF TimerStep

(* The steps of a Drain leave store and counts alone. *)
LEMMA DrainInv ==
  ASSUME Inv, NEW c \in Drains, DrainStep(c)
  PROVE  Inv'
<1>1. UNCHANGED <<store, counters, retained, tickets, armed, fired, callbacks>>
  BY Zenon DEF DrainStep, Drain, DrainWake, CtxEnds, CtxWake
<1>2. LoopOutcome(c, "draining") \in DrainStates /\ LoopOutcome(c, state) \in DrainStates
  BY Zenon DEF LoopOutcome
<1>3. /\ state' \in EngineStates
      /\ drain' \in [Drains -> DrainStates]
      /\ ctx' \in [Drains -> CtxStates]
      /\ state' = "closed" => state = "closed"
      /\ state = "closed" => state' = "closed"
  BY <1>2, BroadcastType, Zenon DEF DrainStep, Drain, DrainWake, CtxEnds, CtxWake, Inv, TypeOK
<1> QED
  BY <1>1, <1>3, SameKeepsCounts, Zenon
     DEF Inv, TypeOK, Linked, Labelled, ClosedEmpty, Reported, tickets, counters,
         callbacks

(* Close empties the store, the retained outcomes and the counts. *)
LEMMA CloseInv ==
  ASSUME Inv, Close
  PROVE  Inv'
<1>1. TypeOK'
  BY BroadcastType, Zenon DEF Close, Inv, TypeOK, tickets, callbacks
<1>2. Linked' /\ Labelled' /\ ClosedEmpty' /\ Reported'
  BY Zenon DEF Close, Inv, TypeOK, Linked, Labelled, ClosedEmpty, Reported, tickets, callbacks
<1> QED
  BY <1>1, <1>2, CloseKeepsCounts, Zenon DEF Inv

(***************************************************************************)
(* Every step of the engine preserves the inductive invariant.             *)
(***************************************************************************)
LEMMA NextInv == Inv /\ [Next]_vars => Inv'
<1> SUFFICES ASSUME Inv, [Next]_vars PROVE Inv'
  BY Zenon
<1>1. CASE \E k \in Keys, d \in Dests, t \in Tickets : Park(k, d, t)
  BY <1>1, ParkInv, Zenon
<1>2. CASE \E k \in Keys : Redeem(k) \/ Release(k)
  BY <1>2, RedeemInv, ReleaseInv, Zenon
<1>3. CASE \E t \in Tickets : TimerStep(t)
  BY <1>3, TimerInv, Zenon
<1>4. CASE \E c \in Drains : DrainStep(c)
  BY <1>4, DrainInv, Zenon
<1>5. CASE Close
  BY <1>5, CloseInv, Zenon
<1>6. CASE UNCHANGED vars
  BY <1>6, SameKeepsCounts, Zenon
     DEF vars, Inv, TypeOK, Linked, Labelled, ClosedEmpty, Reported, tickets,
         counters, callbacks
<1> QED
  BY <1>1, <1>2, <1>3, <1>4, <1>5, <1>6, Zenon DEF Next

(* Inv is an invariant of the engine. *)
LEMMA Invariance == Spec => []Inv
BY InitInv, NextInv, PTL DEF Spec

(***************************************************************************)
(* TypeOK holds in every reachable state: in particular openCount never    *)
(* goes below zero, so decOpenLocked never runs twice for one ticket.      *)
(***************************************************************************)
THEOREM TypeCorrect == Spec => []TypeOK
<1>1. Inv => TypeOK
  BY Zenon DEF Inv
<1> QED
  BY <1>1, Invariance, PTL

(***************************************************************************)
(* openCount and destCounts always are the numbers of tickets in the       *)
(* store, in all and per destination.                                      *)
(***************************************************************************)
THEOREM CountsAreExact == Spec => []AccountingExact
<1>1. Inv => AccountingExact
  BY Zenon DEF Inv
<1> QED
  BY <1>1, Invariance, PTL

-----------------------------------------------------------------------------
(***************************************************************************)
(* A key is never both in flight and answered.                             *)
(***************************************************************************)
THEOREM KeysAreExclusive == Spec => []KeyExclusive
<1>1. Init => KeyExclusive
  BY DEF Init, KeyExclusive
<1>2. Inv /\ KeyExclusive /\ [Next]_vars => KeyExclusive'
  <2> SUFFICES ASSUME Inv, KeyExclusive, [Next]_vars PROVE KeyExclusive'
    BY Zenon
  <2>1. ASSUME NEW k \in Keys, NEW d \in Dests, NEW t \in Tickets, Park(k, d, t)
        PROVE  KeyExclusive'
    BY <2>1, Zenon DEF Park, ParkResult, KeyExclusive, Inv, TypeOK
  <2>2. ASSUME NEW k \in Keys, Redeem(k) \/ Release(k)
        PROVE  KeyExclusive'
    BY <2>2, Zenon DEF Redeem, Release, KeyExclusive, Inv, TypeOK
  <2>3. ASSUME NEW t \in Tickets, TimerStep(t)
        PROVE  KeyExclusive'
    BY <2>3 DEF TimerStep, Fire, ExpireOpen, ExpireStale, OnExpire, Purge,
                KeyExclusive, Inv, TypeOK
  <2>4. ASSUME NEW c \in Drains, DrainStep(c)
        PROVE  KeyExclusive'
    BY <2>4, Zenon DEF DrainStep, Drain, DrainWake, CtxEnds, CtxWake, KeyExclusive
  <2>5. CASE Close
    BY <2>5, Zenon DEF Close, KeyExclusive
  <2>6. CASE UNCHANGED vars
    BY <2>6, Zenon DEF vars, KeyExclusive
  <2> QED
    BY <2>1, <2>2, <2>3, <2>4, <2>5, <2>6, Zenon DEF Next
<1> QED
  BY <1>1, <1>2, Invariance, PTL DEF Spec

(***************************************************************************)
(* Every open ticket keeps its expiry, every retained outcome its purge.   *)
(***************************************************************************)
THEOREM TimersAreKept == Spec => []NothingForgotten
<1>1. Init => NothingForgotten
  BY DEF Init, NothingForgotten
<1>2. Inv /\ NothingForgotten /\ [Next]_vars => NothingForgotten'
  <2> SUFFICES ASSUME Inv, NothingForgotten, [Next]_vars PROVE NothingForgotten'
    BY Zenon
  <2>1. ASSUME NEW k \in Keys, NEW d \in Dests, NEW t \in Tickets, Park(k, d, t)
        PROVE  NothingForgotten'
    <3>1. armed'[t] = "expiry" /\ store'[k] = t
      BY <2>1, Zenon DEF Park, Inv, TypeOK
    <3>2. \A j \in Keys : /\ j # k => store'[j] = store[j]
                          /\ store[j] # t /\ retained[j] # t
      BY <2>1, ValetAssumption DEF Park, Inv, TypeOK, Linked
    <3>3. \A u \in Tickets : u # t => armed'[u] = armed[u]
      BY <2>1, Zenon DEF Park, Inv, TypeOK
    <3>4. fired' = fired /\ retained' = retained
      BY <2>1, Zenon DEF Park
    <3> SUFFICES ASSUME NEW j \in Keys
                 PROVE  /\ store'[j] # None =>
                             armed'[store'[j]] = "expiry" \/ <<"expiry", store'[j]>> \in fired'
                        /\ retained'[j] # None =>
                             armed'[retained'[j]] = "purge" \/ <<"purge", retained'[j]>> \in fired'
      BY Zenon DEF NothingForgotten
    <3>5. retained[j] # None => retained[j] \in Tickets /\ retained[j] # t
      BY <3>2, Zenon DEF Inv, TypeOK
    <3>6. j # k /\ store[j] # None => store[j] \in Tickets /\ store[j] # t
      BY <3>2 DEF Inv, TypeOK
    <3>7. retained'[j] # None =>
            armed'[retained'[j]] = "purge" \/ <<"purge", retained'[j]>> \in fired'
      BY <3>3, <3>4, <3>5, Zenon DEF NothingForgotten
    <3>8. store'[j] # None =>
            armed'[store'[j]] = "expiry" \/ <<"expiry", store'[j]>> \in fired'
      BY <3>1, <3>2, <3>3, <3>4, <3>6, Zenon DEF NothingForgotten
    <3> QED
      BY <3>7, <3>8, Zenon
  <2>2. ASSUME NEW k \in Keys, Redeem(k)
        PROVE  NothingForgotten'
    <3>1. store[k] \in Tickets /\ tstate[store[k]] = "open" /\ tkey[store[k]] = k
      BY <2>2 DEF Redeem, RedeemResult, Inv, TypeOK, Linked
    <3> QED
      BY <2>2, <3>1, ValetAssumption DEF Redeem, NothingForgotten, Inv, TypeOK, Linked
  <2>3. ASSUME NEW k \in Keys, Release(k)
        PROVE  NothingForgotten'
    <3>1. store[k] \in Tickets /\ tstate[store[k]] = "open" /\ tkey[store[k]] = k
      BY <2>3 DEF Release, Inv, TypeOK, Linked
    <3> QED
      BY <2>3, <3>1, ValetAssumption DEF Release, NothingForgotten, Inv, TypeOK, Linked
  <2>4. ASSUME NEW t \in Tickets, Fire(t)
        PROVE  NothingForgotten'
    BY <2>4 DEF Fire, NothingForgotten, Inv, TypeOK
  <2>5. ASSUME NEW t \in Tickets, ExpireOpen(t)
        PROVE  NothingForgotten'
    BY <2>5, ValetAssumption DEF ExpireOpen, StillOpen, NothingForgotten, Inv, TypeOK, Linked
  <2>6. ASSUME NEW t \in Tickets, ExpireStale(t)
        PROVE  NothingForgotten'
    BY <2>6, ValetAssumption
       DEF ExpireStale, StillOpen, NothingForgotten, Inv, TypeOK, Linked, ClosedEmpty
  <2>7. ASSUME NEW t \in Tickets, OnExpire(t)
        PROVE  NothingForgotten'
    BY <2>7, Zenon DEF OnExpire, NothingForgotten
  <2>8. ASSUME NEW t \in Tickets, Purge(t)
        PROVE  NothingForgotten'
    BY <2>8, ValetAssumption DEF Purge, NothingForgotten, Inv, TypeOK, Linked
  <2>9. ASSUME NEW c \in Drains, DrainStep(c)
        PROVE  NothingForgotten'
    BY <2>9, Zenon DEF DrainStep, Drain, DrainWake, CtxEnds, CtxWake, NothingForgotten
  <2>10. CASE Close
    BY <2>10, Zenon DEF Close, NothingForgotten
  <2>11. CASE UNCHANGED vars
    BY <2>11, Zenon DEF vars, NothingForgotten
  <2> QED
    BY <2>1, <2>2, <2>3, <2>4, <2>5, <2>6, <2>7, <2>8, <2>9, <2>10, <2>11, Zenon
       DEF Next, TimerStep
<1> QED
  BY <1>1, <1>2, Invariance, PTL DEF Spec

-----------------------------------------------------------------------------
(* A Drain that has begun has left the running state for good. *)
DrainBegun ==
  /\ DrainNilMeansIdle
  /\ \A c \in Drains : drain[c] \in {"waiting", "ready", "nil", "interrupted"} =>
       state # "running"

(* With openCount at zero no ticket is open. *)
LEMMA ZeroMeansIdle ==
  ASSUME Inv, state # "closed", openCount = 0
  PROVE  \A t \in Tickets : tstate[t] # "open"
<1>1. InFlight = {}
  BY InFlightFinite, FS_EmptySet, Zenon DEF Inv, AccountingExact
<1> QED
  BY <1>1 DEF InFlight, Inv, Linked

(***************************************************************************)
(* A Drain that returned nil leaves nothing in flight until Close.         *)
(***************************************************************************)
THEOREM DrainIsComplete == Spec => []DrainNilMeansIdle
<1>1. Init => DrainBegun
  BY Zenon DEF Init, DrainBegun, DrainNilMeansIdle
<1>2. Inv /\ DrainBegun /\ [Next]_vars => DrainBegun'
  <2> SUFFICES ASSUME Inv, DrainBegun, [Next]_vars PROVE DrainBegun'
    BY Zenon
  <2> USE DEF DrainBegun, DrainNilMeansIdle
  <2>1. ASSUME NEW k \in Keys, NEW d \in Dests, NEW t \in Tickets, Park(k, d, t)
        PROVE  DrainBegun'
    <3>1. state = "running"
      BY <2>1, Zenon DEF Park, ParkResult, Inv, TypeOK
    <3> QED
      BY <2>1, <3>1, Zenon DEF Park
  <2>2. ASSUME NEW k \in Keys, Redeem(k) \/ Release(k)
        PROVE  DrainBegun'
    BY <2>2 DEF Redeem, Release, decOpenLocked, Broadcast, Inv, TypeOK
  <2>3. ASSUME NEW t \in Tickets, TimerStep(t)
        PROVE  DrainBegun'
    BY <2>3 DEF TimerStep, Fire, ExpireOpen, ExpireStale, OnExpire, Purge,
                decOpenLocked, Broadcast, Inv, TypeOK, tickets
  <2>4. ASSUME NEW c \in Drains, Drain(c)
        PROVE  DrainBegun'
    <3>1. CASE state = "closed"
      BY <2>4, <3>1, Zenon DEF Drain, Inv, TypeOK
    <3>2. CASE state # "closed"
      <4>1. LoopOutcome(c, "draining") = "nil" => openCount = 0
        BY DEF LoopOutcome, MustWait, Inv, TypeOK
      <4> QED
        BY <2>4, <3>2, <4>1, ZeroMeansIdle, Zenon DEF Drain, Inv, TypeOK, tickets
    <3> QED
      BY <3>1, <3>2, Zenon
  <2>5. ASSUME NEW c \in Drains, DrainWake(c)
        PROVE  DrainBegun'
    <3>1. LoopOutcome(c, state) = "nil" => openCount = 0
      BY DEF LoopOutcome, MustWait, Inv, TypeOK
    <3> QED
      BY <2>5, <3>1, ZeroMeansIdle, Zenon DEF DrainWake, Inv, TypeOK, tickets
  <2>6. ASSUME NEW c \in Drains, CtxEnds(c) \/ CtxWake(c)
        PROVE  DrainBegun'
    BY <2>6 DEF CtxEnds, CtxWake, Broadcast, Inv, TypeOK, tickets
  <2>7. CASE Close
    BY <2>7, Zenon DEF Close, Broadcast, tickets
  <2>8. CASE UNCHANGED vars
    BY <2>8, Zenon DEF vars, tickets
  <2> QED
    BY <2>1, <2>2, <2>3, <2>4, <2>5, <2>6, <2>7, <2>8, Zenon DEF Next, DrainStep
<1>3. DrainBegun => DrainNilMeansIdle
  BY Zenon DEF DrainBegun
<1> QED
  BY <1>1, <1>2, <1>3, Invariance, PTL DEF Spec

-----------------------------------------------------------------------------
(* The tickets whose expiry was reported. *)
Calls == {t \in Tickets : calls[t] > 0}

(* What a step that only touches timers, Drains and retention maps to. *)
LEMMA Stutters ==
  ASSUME UNCHANGED <<tickets, calls>>, (state' = "closed") = (state = "closed")
  PROVE  UNCHANGED Contract!vars
BY Zenon DEF Contract!vars, Life, tickets

(* An open ticket that settles with the given outcome. *)
LEMMA Settles ==
  ASSUME Inv, state # "closed", NEW t \in Tickets, tstate[t] = "open",
         NEW outcome \in {"closed", "expired", "released"},
         tstate' = [tstate EXCEPT ![t] = outcome],
         UNCHANGED <<state, tkey, calls>>
  PROVE  Contract!Next
<1>1. Contract!Settle(t, outcome)
  BY Zenon DEF Contract!Settle, Life, Inv, TypeOK
<1> QED
  BY <1>1, Zenon DEF Contract!Next, Contract!Outcomes

(* The engine's open tickets are the contract's. *)
LEMMA OpenIsInFlight ==
  ASSUME Inv, state # "closed"
  PROVE  {t \in Tickets : Life[t] = "open"} = InFlight
<1>1. \A t \in Tickets : Life[t] = tstate[t]
  BY Zenon DEF Life
<1>2. \A t \in Tickets : tstate[t] = "open" <=> t \in InFlight
  BY ValetAssumption DEF Inv, Linked, InFlight
<1> QED
  BY <1>1, <1>2, Zenon DEF InFlight

(* A step of the engine is a step of the contract or leaves it unchanged. *)
LEMMA StepKeepsContract == Inv /\ [Next]_vars => [Contract!Next]_(Contract!vars)
<1> SUFFICES ASSUME Inv, [Next]_vars PROVE Contract!Next \/ UNCHANGED Contract!vars
  BY Zenon
<1>1. ASSUME NEW k \in Keys, NEW d \in Dests, NEW t \in Tickets, Park(k, d, t)
      PROVE  Contract!Next
  <2>1. state = "running" /\ store[k] = None
    BY <1>1, Zenon DEF Park, ParkResult, Inv, TypeOK
  <2>2. {u \in Tickets : Life[u] = "open"} = InFlight
    BY <2>1, OpenIsInFlight, Zenon
  <2>3. \A u \in InFlight : tkey[u] # k
    BY <2>1, ValetAssumption DEF InFlight, Inv, Linked
  <2>4. MaxInFlight > 0 => Cardinality(InFlight) < MaxInFlight
    BY <1>1, <2>1, ValetAssumption DEF Park, ParkResult, Inv, TypeOK, AccountingExact
  <2>5. Life' = [Life EXCEPT ![t] = "open"] /\ Life[t] = "unused"
    BY <1>1, <2>1, Zenon DEF Park, Life, Inv, TypeOK
  <2>6. tkey' = [tkey EXCEPT ![t] = k] /\ UNCHANGED <<calls, state>>
    BY <1>1, Zenon DEF Park, callbacks
  <2>7. Contract!OpenTickets = InFlight
    BY <2>2, Zenon DEF Contract!OpenTickets
  <2>8. Contract!Cardinality(InFlight) = Cardinality(InFlight)
    BY Zenon DEF Contract!Cardinality, Cardinality
  <2>9. Contract!Open(t, k)
    BY <2>1, <2>3, <2>4, <2>5, <2>6, <2>7, <2>8, Zenon DEF Contract!Open
  <2> QED
    BY <2>9, Zenon DEF Contract!Next
<1>2. ASSUME NEW k \in Keys, Redeem(k)
      PROVE  Contract!Next
  <2>1. store[k] \in Tickets /\ state # "closed"
    BY <1>2, Zenon DEF Redeem, RedeemResult, Inv, TypeOK
  <2>2. tstate[store[k]] = "open"
    BY <2>1, ValetAssumption, Zenon DEF Inv, Linked
  <2>3. tstate' = [tstate EXCEPT ![store[k]] = "closed"] /\ UNCHANGED <<state, tkey, calls>>
    BY <1>2, Zenon DEF Redeem, callbacks
  <2> QED
    BY <2>1, <2>2, <2>3, Settles, Zenon
<1>3. ASSUME NEW k \in Keys, Release(k)
      PROVE  Contract!Next
  <2>1. store[k] \in Tickets /\ state # "closed"
    BY <1>3, Zenon DEF Release, Inv, TypeOK
  <2>2. tstate[store[k]] = "open"
    BY <2>1, ValetAssumption, Zenon DEF Inv, Linked
  <2>3. tstate' = [tstate EXCEPT ![store[k]] = "released"] /\ UNCHANGED <<state, tkey, calls>>
    BY <1>3, Zenon DEF Release, callbacks
  <2> QED
    BY <2>1, <2>2, <2>3, Settles, Zenon
<1>4. ASSUME NEW t \in Tickets, ExpireOpen(t)
      PROVE  Contract!Next
  <2>1. tstate[t] = "open" /\ state # "closed"
    <3>1. "expiry" \in TimerKinds /\ <<"expiry", t>> \in fired
      BY <1>4, Zenon DEF ExpireOpen
    <3> HIDE DEF TimerKinds
    <3>2. tkey[t] \in Keys
      BY <3>1, Zenon DEF Inv, Labelled
    <3> QED
      BY <1>4, <3>2, ValetAssumption DEF ExpireOpen, StillOpen, Inv, Linked
  <2> QED
    BY <1>4, <2>1, Settles, Zenon DEF ExpireOpen
<1>5. ASSUME NEW t \in Tickets, OnExpire(t)
      PROVE  Contract!Next
  <2>1. tstate[t] = "expired" /\ calls[t] = 0
    BY <1>5, Zenon DEF OnExpire, Inv, Reported
  <2>2. Calls' = Calls \cup {t} /\ t \notin Calls
    BY <1>5, <2>1 DEF OnExpire, Calls, Inv, TypeOK
  <2>3. Contract!Report(t)
    BY <1>5, <2>1, <2>2, Zenon DEF OnExpire, Contract!Report, Calls, Life, tickets
  <2> QED
    BY <2>3, Zenon DEF Contract!Next
<1>6. ASSUME NEW t \in Tickets, Fire(t) \/ ExpireStale(t) \/ Purge(t)
      PROVE  UNCHANGED Contract!vars
  BY <1>6, Stutters, Zenon DEF Fire, ExpireStale, Purge, callbacks
<1>7. ASSUME NEW c \in Drains, DrainStep(c)
      PROVE  UNCHANGED Contract!vars
  <2>1. UNCHANGED <<tickets, calls>>
    BY <1>7, Zenon DEF DrainStep, Drain, DrainWake, CtxEnds, CtxWake, callbacks
  <2>2. (state' = "closed") = (state = "closed")
    BY <1>7, Zenon DEF DrainStep, Drain, DrainWake, CtxEnds, CtxWake
  <2> QED
    BY <2>1, <2>2, Stutters, Zenon
<1>8. CASE Close
  <2>1. Life' = [t \in Tickets |-> IF Life[t] = "open" THEN "dropped" ELSE Life[t]]
    BY <1>8, Zenon DEF Close, Life, tickets, Inv, TypeOK
  <2>2. Contract!Abandon
    BY <1>8, <2>1, Zenon DEF Close, Contract!Abandon, tickets, callbacks
  <2> QED
    BY <2>2, Zenon DEF Contract!Next
<1>9. CASE UNCHANGED vars
  BY <1>9, Stutters, Zenon DEF vars, callbacks
<1> QED
  BY <1>1, <1>2, <1>3, <1>4, <1>5, <1>6, <1>7, <1>8, <1>9, Zenon DEF Next, TimerStep

(***************************************************************************)
(* Put together: the engine is consistent after every call, for every      *)
(* number of keys, destinations, tickets, Drains and any bound.            *)
(***************************************************************************)
THEOREM EngineIsConsistent == Spec => []EngineConsistent
<1>1. TypeOK /\ AccountingExact /\ NothingForgotten /\ KeyExclusive /\ DrainNilMeansIdle
        => EngineConsistent
  BY Zenon DEF EngineConsistent
<1> QED
  BY <1>1, TypeCorrect, CountsAreExact, TimersAreKept, KeysAreExclusive, DrainIsComplete, PTL

(***************************************************************************)
(* The engine implements TicketContract: a ticket settles once, a key has  *)
(* one open ticket, the bound on open tickets holds, and an expiry is      *)
(* reported at most once.                                                  *)
(***************************************************************************)
THEOREM EngineKeepsContract == Spec => KeepsContract
<1>1. Init => Contract!Init
  BY DEF Init, Contract!Init, Life
<1> QED
  BY <1>1, StepKeepsContract, Invariance, PTL DEF Spec, KeepsContract, Contract!Spec

-----------------------------------------------------------------------------
(* The Conductor.                                                          *)

Settled == {"closed", "expired", "released"}

(* What a handler that has gone so far holds: a key and a destination when *)
(* it is about to park, its ticket from then on.                           *)
HandlersHold ==
  \A r \in Requests :
    /\ pc[r] \in {"picked", "emit", "release"} => KeyOf[r] \in Keys
    /\ pc[r] = "picked" => picked[r] \in Dests
    /\ pc[r] \in {"emit", "release"} =>
         ticket[r] \in Tickets /\ tstate[ticket[r]] # "unused"

(* Only a parked request is sent, so a reply on its way has a ticket.      *)
RepliesHaveTickets ==
  /\ \A t \in sent : tstate[t] # "unused"
  /\ \A k \in wire : \E t \in Tickets : tkey[t] = k /\ tstate[t] # "unused"

(* A ticket's response is emitted by the one handler that redeemed it, its *)
(* timeout by the one call of onExpire.                                    *)
EmittedOnce ==
  \A t \in Tickets :
    /\ responses[t] <= 1
    /\ t \in responding => responses[t] = 0
    /\ t \in expiring => t \in calling
    /\ timeouts[t] = calls[t] /\ timeouts[t] <= 1

(***************************************************************************)
(* The inductive invariant: the engine's, and what the handlers keep.      *)
(***************************************************************************)
CInv ==
  /\ Inv
  /\ ConductorTypeOK
  /\ HandlersHold
  /\ RepliesHaveTickets
  /\ EmittedOnce
  /\ VerdictMatchesTicket
  /\ UnmatchedOnlyAfterSettling

-----------------------------------------------------------------------------
(* What the store holds is an open ticket.                                 *)
LEMMA HeldIsOpen ==
  ASSUME Inv, NEW k \in Keys, store[k] # None
  PROVE  store[k] \in Tickets /\ tstate[store[k]] = "open"
<1>1. store[k] \in Tickets \cup {None}
  BY Zenon DEF Inv, TypeOK
<1>2. Linked
  BY Zenon DEF Inv
<1>3. tstate[store[k]] = "open"
  BY <1>2 DEF Linked
<1> QED
  BY <1>1, <1>3, Zenon

(***************************************************************************)
(* A step of the engine leaves the key of a parked ticket alone, and a     *)
(* ticket that has settled stays as it settled.                            *)
(***************************************************************************)
LEMMA TicketsGoForward ==
  ASSUME Inv, [Next]_vars
  PROVE  \A t \in Tickets : tstate[t] # "unused" =>
           /\ tkey'[t] = tkey[t] /\ tstate'[t] # "unused"
           /\ tstate[t] \in Settled => tstate'[t] = tstate[t]
<1> USE DEF Settled
<1>1. CASE \E k \in Keys, d \in Dests, t \in Tickets : Park(k, d, t)
  <2>1. PICK t \in Tickets :
          /\ tstate[t] = "unused" /\ \E k \in Keys : tkey' = [tkey EXCEPT ![t] = k]
          /\ tstate' = [tstate EXCEPT ![t] = "open"]
    BY <1>1, Zenon DEF Park
  <2>2. tstate \in [Tickets -> TicketStates] /\ tkey \in [Tickets -> Keys \cup {None}]
    BY Zenon DEF Inv, TypeOK
  <2> QED
    BY <2>1, <2>2
<1>2. CASE \E k \in Keys : Redeem(k) \/ Release(k)
  <2>1. PICK k \in Keys : Redeem(k) \/ Release(k)
    BY <1>2, Zenon
  <2>2. store[k] \in Tickets /\ tstate[store[k]] = "open"
    <3>1. store[k] # None
      BY <2>1 DEF Redeem, RedeemResult, Release
    <3> QED
      BY <3>1, HeldIsOpen, Zenon
  <2> QED
    BY <2>1, <2>2, Zenon DEF Inv, TypeOK, Redeem, Release
<1>3. CASE \E t \in Tickets : TimerStep(t)
  <2>1. PICK t \in Tickets : TimerStep(t)
    BY <1>3, Zenon
  <2>2. CASE ExpireOpen(t)
    <3>1. tstate[t] = "open"
      <4>1. "expiry" \in TimerKinds /\ <<"expiry", t>> \in fired
        BY <2>2, Zenon DEF ExpireOpen, TimerKinds
      <4>2. tkey[t] \in Keys
        BY <4>1, Zenon DEF Inv, Labelled
      <4> QED
        <5>1. store[tkey[t]] = t /\ t # None
          BY <2>2, ValetAssumption, Zenon DEF ExpireOpen, StillOpen
        <5> QED
          BY <4>2, <5>1, HeldIsOpen
    <3> QED
      BY <2>2, <3>1, Zenon DEF ExpireOpen, Inv, TypeOK
  <2> QED
    BY <2>1, <2>2, Zenon DEF TimerStep, Fire, ExpireStale, OnExpire, Purge, tickets
<1>4. CASE \E c \in Drains : DrainStep(c)
  BY <1>4, Zenon DEF DrainStep, Drain, DrainWake, CtxEnds, CtxWake, tickets
<1>5. CASE Close
  BY <1>5, Zenon DEF Close, tickets
<1>6. CASE UNCHANGED vars
  BY <1>6, Zenon DEF vars, tickets
<1> QED
  BY <1>1, <1>2, <1>3, <1>4, <1>5, <1>6, Zenon DEF Next

(***************************************************************************)
(* What the handlers keep survives a step of the engine: it only speaks of *)
(* parked tickets, which keep their key, and of settled ones, which stay.  *)
(***************************************************************************)
LEMMA EngineKeepsHandlers ==
  ASSUME CInv, [Next]_vars
  PROVE  /\ Inv'
         /\ UNCHANGED <<pc, picked, ticket>> => HandlersHold'
         /\ UNCHANGED <<sent, wire>> => RepliesHaveTickets'
         /\ UNCHANGED <<responding, responses, expiring, timeouts>> => VerdictMatchesTicket'
         /\ UNCHANGED unmatched => UnmatchedOnlyAfterSettling'
<1>1. Inv'
  BY NextInv, Zenon DEF CInv
<1>2. \A t \in Tickets : tstate[t] # "unused" =>
           /\ tkey'[t] = tkey[t] /\ tstate'[t] # "unused"
           /\ tstate[t] \in Settled => tstate'[t] = tstate[t]
  BY TicketsGoForward, Zenon DEF CInv
<1>3. ASSUME UNCHANGED <<pc, picked, ticket>>
      PROVE  HandlersHold'
  BY <1>2, <1>3, Zenon DEF CInv, HandlersHold
<1>4. ASSUME UNCHANGED <<sent, wire>>
      PROVE  RepliesHaveTickets'
  <2>1. \A t \in sent' : t \in Tickets /\ tstate'[t] # "unused"
    BY <1>2, <1>4, Zenon DEF CInv, ConductorTypeOK, RepliesHaveTickets
  <2>2. ASSUME NEW k \in wire'
        PROVE  \E t \in Tickets : tkey'[t] = k /\ tstate'[t] # "unused"
    <3>1. PICK t \in Tickets : tkey[t] = k /\ tstate[t] # "unused"
      BY <1>4, <2>2, Zenon DEF CInv, RepliesHaveTickets
    <3> QED
      BY <1>2, <3>1, Zenon
  <2> QED
    BY <2>1, <2>2, Zenon DEF RepliesHaveTickets
<1>5. ASSUME UNCHANGED <<responding, responses, expiring, timeouts>>
      PROVE  VerdictMatchesTicket'
  BY <1>2, <1>5, Zenon DEF CInv, VerdictMatchesTicket, Settled
<1>6. ASSUME UNCHANGED unmatched
      PROVE  UnmatchedOnlyAfterSettling'
  <2>1. ASSUME NEW k \in unmatched'
        PROVE  \E t \in Tickets : tkey'[t] = k /\ tstate'[t] \in Settled
    <3>1. PICK t \in Tickets : tkey[t] = k /\ tstate[t] \in Settled
      BY <1>6, <2>1, Zenon DEF CInv, UnmatchedOnlyAfterSettling, Settled
    <3>2. tstate[t] # "unused"
      BY <3>1 DEF Settled
    <3> QED
      BY <1>2, <3>1, <3>2, Zenon
  <2> QED
    BY <2>1, Zenon DEF UnmatchedOnlyAfterSettling, Settled
<1> QED
  BY <1>1, <1>3, <1>4, <1>5, <1>6, Zenon

-----------------------------------------------------------------------------
(* The handler of a request: what it calls of the engine is Park or        *)
(* Release, with the key and the destination it holds.                     *)
LEMMA RequestInv ==
  ASSUME CInv, NEW r \in Requests, RequestStep(r)
  PROVE  [Next]_vars /\ CInv'
<1> USE DEF HandlerStates, Reasons
<1>1. CASE RouteRequest(r)
  <2>1. UNCHANGED vars
    BY <1>1, Zenon DEF RouteRequest
  <2>2. UNCHANGED <<ticket, home, link, sent, replyVars, expiryVars>>
    BY <1>1, Zenon DEF RouteRequest
  <2>3. Inv'
    BY <2>1, EngineKeepsHandlers, Zenon
  <2>4. ASSUME UNCHANGED picked, NEW reason \in Reasons, Refuse(r, reason)
        PROVE  ConductorTypeOK' /\ HandlersHold'
    BY <2>1, <2>2, <2>3, <2>4, Zenon
       DEF Refuse, CInv, Inv, ConductorTypeOK, HandlersHold, vars, tickets, replyVars, expiryVars
  <2>5. ASSUME KeyOf[r] # None, NEW d \in Available, picked' = [picked EXCEPT ![r] = d],
               pc' = [pc EXCEPT ![r] = "picked"], UNCHANGED verdict
        PROVE  ConductorTypeOK' /\ HandlersHold'
    BY <2>1, <2>2, <2>3, <2>5, ConductorAssumption, Zenon
       DEF Available, CInv, Inv, ConductorTypeOK, HandlersHold, vars, tickets, replyVars,
           expiryVars
  <2>6. ConductorTypeOK' /\ HandlersHold'
    BY <1>1, <2>4, <2>5, Zenon DEF RouteRequest
  <2> QED
    BY <2>1, <2>2, <2>3, <2>6, EngineKeepsHandlers, Zenon
       DEF replyVars, expiryVars, CInv, EmittedOnce, vars, callbacks
<1>2. CASE ParkNew(r)
  <2>1. PICK t \in Tickets :
          /\ Park(KeyOf[r], picked[r], t)
          /\ ticket' = [ticket EXCEPT ![r] = t]
          /\ home' = [home EXCEPT ![t] = r]
    BY <1>2, Zenon DEF ParkNew
  <2>2. KeyOf[r] \in Keys /\ picked[r] \in Dests
    BY <1>2, Zenon DEF ParkNew, CInv, HandlersHold
  <2>3. Next
    BY <2>1, <2>2, Zenon DEF Next
  <2>4. UNCHANGED <<link, picked, verdict, sent, replyVars, expiryVars>>
    BY <1>2, Zenon DEF ParkNew
  <2>5. Inv'
    BY <2>3, EngineKeepsHandlers, Zenon
  <2>6. ConductorTypeOK'
    BY <1>2, <2>1, <2>4, <2>5, Zenon
       DEF ParkNew, CInv, ConductorTypeOK, Inv, replyVars, expiryVars
  <2>7. HandlersHold'
    <3>1. /\ pc' = [pc EXCEPT ![r] = "emit"] /\ ticket' = [ticket EXCEPT ![r] = t]
          /\ tstate' = [tstate EXCEPT ![t] = "open"]
      BY <1>2, <2>1, Zenon DEF ParkNew, Park
    <3>2. /\ pc \in [Requests -> HandlerStates] /\ ticket \in [Requests -> Tickets \cup {None}]
          /\ tstate \in [Tickets -> TicketStates]
      BY Zenon DEF CInv, Inv, TypeOK, ConductorTypeOK
    <3>3. /\ pc'[r] = "emit" /\ ticket'[r] = t /\ tstate'[t] # "unused"
          /\ \A q \in Requests : q # r => pc'[q] = pc[q] /\ ticket'[q] = ticket[q]
          /\ \A u \in Tickets : u # t => tstate'[u] = tstate[u]
      BY <3>1, <3>2
    <3>4. ASSUME NEW q \in Requests, q # r
          PROVE  /\ pc'[q] \in {"picked", "emit", "release"} => KeyOf[q] \in Keys
                 /\ pc'[q] = "picked" => picked'[q] \in Dests
                 /\ pc'[q] \in {"emit", "release"} =>
                      ticket'[q] \in Tickets /\ tstate'[ticket'[q]] # "unused"
      BY <2>4, <3>3, <3>4, Zenon DEF CInv, HandlersHold
    <3>5. pc'[r] # "picked"
      BY <3>3
    <3> QED
      BY <2>2, <3>3, <3>4, <3>5, Zenon DEF HandlersHold
  <2>8. EmittedOnce'
    BY <2>1, <2>4, Zenon DEF Park, CInv, EmittedOnce, replyVars, expiryVars, callbacks
  <2> QED
    BY <2>3, <2>4, <2>5, <2>6, <2>7, <2>8, EngineKeepsHandlers, Zenon
       DEF replyVars, expiryVars, CInv
<1>3. CASE ParkAnswered(r)
  <2>1. UNCHANGED vars
    BY <1>3, Zenon DEF ParkAnswered
  <2>2. UNCHANGED <<picked, home, link, sent, replyVars, expiryVars>>
    BY <1>3, Zenon DEF ParkAnswered
  <2>3. KeyOf[r] \in Keys
    BY <1>3, Zenon DEF ParkAnswered, CInv, HandlersHold
  <2>4. ConductorTypeOK' /\ HandlersHold'
    <3>1. /\ store[KeyOf[r]] \in Tickets \cup {None}
          /\ retained[KeyOf[r]] \in Tickets \cup {None}
      BY <2>3, Zenon DEF CInv, Inv, TypeOK
    <3>2. PICK a \in Tickets \cup {None}, e \in {"absorbed", "replay", "error"},
               g \in Reasons \cup {None} :
            /\ ticket' = [ticket EXCEPT ![r] = a] \/ ticket' = ticket
            /\ pc' = [pc EXCEPT ![r] = e]
            /\ verdict' = [verdict EXCEPT ![r] = g] \/ verdict' = verdict
      BY <1>3, <3>1, Zenon DEF ParkAnswered, Refuse
    <3>3. /\ ticket \in [Requests -> Tickets \cup {None}] /\ pc \in [Requests -> HandlerStates]
          /\ verdict \in [Requests -> Reasons \cup {None}]
      BY Zenon DEF CInv, ConductorTypeOK
    <3>4. /\ ticket' \in [Requests -> Tickets \cup {None}] /\ pc' \in [Requests -> HandlerStates]
          /\ verdict' \in [Requests -> Reasons \cup {None}]
      BY <3>2, <3>3, Zenon
    <3>5. /\ pc'[r] \notin {"picked", "emit", "release"}
          /\ \A q \in Requests : q # r => pc'[q] = pc[q] /\ ticket'[q] = ticket[q]
      BY <3>2, <3>3, Zenon
    <3>6. ConductorTypeOK'
      BY <2>1, <2>2, <3>4, Zenon
         DEF CInv, ConductorTypeOK, TypeOK, vars, tickets, counters, callbacks, replyVars,
             expiryVars
    <3>7. HandlersHold'
      BY <2>1, <2>2, <3>5, Zenon DEF CInv, HandlersHold, vars, tickets
    <3> QED
      BY <3>6, <3>7, Zenon
  <2> QED
    BY <2>1, <2>2, <2>4, EngineKeepsHandlers, Zenon
       DEF replyVars, expiryVars, CInv, EmittedOnce, vars, callbacks
<1>4. CASE Replay(r)
  <2>1. UNCHANGED vars
    BY <1>4, Zenon DEF Replay
  <2>2. UNCHANGED <<picked, ticket, home, link, sent, replyVars, expiryVars>>
    BY <1>4, Zenon DEF Replay
  <2>3. ConductorTypeOK' /\ HandlersHold'
    <3>1. PICK e \in {"done", "error"}, g \in Reasons :
            /\ pc' = [pc EXCEPT ![r] = e]
            /\ verdict' = [verdict EXCEPT ![r] = g] \/ verdict' = verdict
      BY <1>4, Zenon DEF Replay, Refuse
    <3>2. pc \in [Requests -> HandlerStates] /\ verdict \in [Requests -> Reasons \cup {None}]
      BY Zenon DEF CInv, ConductorTypeOK
    <3>3. pc' \in [Requests -> HandlerStates] /\ verdict' \in [Requests -> Reasons \cup {None}]
      BY <3>1, <3>2, Zenon
    <3>4. /\ pc'[r] \notin {"picked", "emit", "release"}
          /\ \A q \in Requests : q # r => pc'[q] = pc[q]
      BY <3>1, <3>2, Zenon
    <3>5. ConductorTypeOK'
      BY <2>1, <2>2, <3>3, Zenon
         DEF CInv, ConductorTypeOK, TypeOK, vars, tickets, counters, callbacks, replyVars,
             expiryVars
    <3>6. HandlersHold'
      BY <2>1, <2>2, <3>4, Zenon DEF CInv, HandlersHold, vars, tickets
    <3> QED
      BY <3>5, <3>6, Zenon
  <2> QED
    BY <2>1, <2>2, <2>3, EngineKeepsHandlers, Zenon
       DEF replyVars, expiryVars, CInv, EmittedOnce, vars, callbacks
<1>5. CASE EmitRequest(r)
  <2>1. UNCHANGED vars
    BY <1>5, Zenon DEF EmitRequest
  <2>2. UNCHANGED <<picked, ticket, home, verdict, link, replyVars, expiryVars>>
    BY <1>5, Zenon DEF EmitRequest
  <2>3. ticket[r] \in Tickets /\ tstate[ticket[r]] # "unused"
    BY <1>5, Zenon DEF EmitRequest, CInv, HandlersHold
  <2>4. ConductorTypeOK' /\ HandlersHold' /\ RepliesHaveTickets'
    <3>1. PICK e \in {"done", "release"} : pc' = [pc EXCEPT ![r] = e]
      BY <1>5, Zenon DEF EmitRequest
    <3>2. sent' \subseteq sent \cup {ticket[r]}
      BY <1>5, Zenon DEF EmitRequest
    <3>3. pc \in [Requests -> HandlerStates] /\ sent \subseteq Tickets
      BY Zenon DEF CInv, ConductorTypeOK
    <3>4. pc' \in [Requests -> HandlerStates] /\ sent' \subseteq Tickets
      BY <2>3, <3>1, <3>2, <3>3, Zenon
    <3>5. /\ pc[r] = "emit" /\ pc'[r] # "picked"
          /\ \A q \in Requests : q # r => pc'[q] = pc[q]
      BY <1>5, <3>1, <3>3, Zenon DEF EmitRequest
    <3>6. ConductorTypeOK'
      BY <2>1, <2>2, <3>4, Zenon
         DEF CInv, ConductorTypeOK, TypeOK, vars, tickets, counters, callbacks, replyVars,
             expiryVars
    <3>7. HandlersHold'
      BY <2>1, <2>2, <2>3, <3>5, Zenon DEF CInv, HandlersHold, vars, tickets
    <3>8. RepliesHaveTickets'
      BY <2>1, <2>2, <2>3, <3>2, Zenon DEF CInv, RepliesHaveTickets, vars, tickets, replyVars
    <3> QED
      BY <3>6, <3>7, <3>8, Zenon
  <2> QED
    BY <2>1, <2>2, <2>4, EngineKeepsHandlers, Zenon
       DEF replyVars, expiryVars, CInv, EmittedOnce, vars, callbacks
<1>6. CASE ReleaseRequest(r)
  <2>1. KeyOf[r] \in Keys
    BY <1>6, Zenon DEF ReleaseRequest, CInv, HandlersHold
  <2>2. [Next]_vars
    BY <1>6, <2>1, Zenon DEF ReleaseRequest, Next
  <2>3. UNCHANGED <<picked, ticket, home, link, sent, replyVars, expiryVars, callbacks>>
    BY <1>6, Zenon DEF ReleaseRequest, Release, vars
  <2>4. Inv'
    BY <2>2, EngineKeepsHandlers, Zenon
  <2>5. ConductorTypeOK'
    BY <1>6, <2>3, <2>4, Zenon
       DEF ReleaseRequest, Refuse, CInv, ConductorTypeOK, Inv, replyVars, expiryVars
  <2>6. HandlersHold'
    BY <1>6, <2>2, <2>3, TicketsGoForward, Zenon
       DEF ReleaseRequest, Refuse, CInv, ConductorTypeOK, HandlersHold
  <2> QED
    BY <2>2, <2>3, <2>4, <2>5, <2>6, EngineKeepsHandlers, Zenon
       DEF replyVars, expiryVars, callbacks, CInv, EmittedOnce
<1> QED
  BY <1>1, <1>2, <1>3, <1>4, <1>5, <1>6, Zenon DEF RequestStep

(* A reply redeems at most the ticket its key holds, which then is closed, *)
(* and is unmatched when the ticket it came for has settled.               *)
LEMMA ReplyInv ==
  ASSUME CInv, NEW k \in Keys, HandleReply(k)
  PROVE  [Next]_vars /\ CInv'
<1>1. UNCHANGED <<link, requestVars, sent, replies, responses, expiryVars>>
  BY Zenon DEF HandleReply
<1>2. wire' \subseteq wire
  BY Zenon DEF HandleReply
<1>3. CASE /\ Redeem(k) /\ responding' = responding \cup {store[k]} /\ UNCHANGED unmatched
  <2>1. Next
    BY <1>3, Zenon DEF Next
  <2>2. store[k] \in Tickets /\ tstate[store[k]] = "open"
    <3>1. store[k] # None
      BY <1>3 DEF Redeem, RedeemResult
    <3> QED
      BY <3>1, HeldIsOpen, Zenon DEF CInv
  <2>3. tstate' = [tstate EXCEPT ![store[k]] = "closed"] /\ UNCHANGED callbacks
    BY <1>3, Zenon DEF Redeem
  <2>4. Inv'
    BY <2>1, EngineKeepsHandlers, Zenon
  <2>5. ConductorTypeOK'
    BY <1>1, <1>2, <1>3, <2>2, <2>4, Zenon
       DEF CInv, ConductorTypeOK, Inv, requestVars, expiryVars
  <2>6. RepliesHaveTickets'
    BY <1>1, <1>2, <2>1, TicketsGoForward, Zenon DEF CInv, ConductorTypeOK, RepliesHaveTickets
  <2>7. EmittedOnce' /\ VerdictMatchesTicket'
    <3>1. responses[store[k]] = 0
      <4>1. responses[store[k]] \in Nat /\ ~(responses[store[k]] > 0)
        BY <2>2, Zenon DEF CInv, ConductorTypeOK, VerdictMatchesTicket
      <4> QED
        BY <4>1
    <3>2. /\ tstate'[store[k]] = "closed"
          /\ \A t \in Tickets : t # store[k] => tstate'[t] = tstate[t]
      BY <2>2, <2>3, Zenon DEF CInv, Inv, TypeOK
    <3>3. EmittedOnce'
      BY <1>1, <1>3, <2>3, <3>1, Zenon DEF CInv, EmittedOnce, expiryVars, callbacks
    <3>4. ASSUME NEW t \in Tickets, t # store[k]
          PROVE  /\ t \in responding' \/ responses'[t] > 0 => tstate'[t] = "closed"
                 /\ t \in expiring' \/ timeouts'[t] > 0 => tstate'[t] = "expired"
      BY <1>1, <1>3, <3>2, <3>4, Zenon DEF CInv, VerdictMatchesTicket, expiryVars
    <3>5. store[k] \notin expiring' /\ ~(timeouts'[store[k]] > 0)
      BY <1>1, <2>2, Zenon DEF CInv, VerdictMatchesTicket, expiryVars
    <3> QED
      BY <3>2, <3>3, <3>4, <3>5, Zenon DEF VerdictMatchesTicket
  <2> QED
    BY <1>1, <1>3, <2>1, <2>4, <2>5, <2>6, <2>7, EngineKeepsHandlers, Zenon DEF CInv, requestVars
<1>4. CASE /\ RedeemResult(k) \in {"ErrUnmatched", "ErrAlreadyRedeemed"}
           /\ unmatched' = unmatched \cup {k}
           /\ UNCHANGED <<vars, responding>>
  <2>1. state # "closed" /\ store[k] = None
    BY <1>4, Zenon DEF RedeemResult
  <2>2. PICK t \in Tickets : tkey[t] = k /\ tstate[t] # "unused"
    BY Zenon DEF HandleReply, CInv, RepliesHaveTickets
  <2>3. tstate[t] \in {"closed", "expired", "released"}
    <3>1. tstate[t] \in {"unused", "open", "closed", "expired", "released"}
      BY Zenon DEF CInv, Inv, TypeOK, TicketStates
    <3>2. tstate[t] # "open"
      BY <2>1, <2>2, ValetAssumption, Zenon DEF CInv, Inv, Linked
    <3> QED
      BY <2>2, <3>1, <3>2, Zenon
  <2>4. UnmatchedOnlyAfterSettling'
    BY <1>4, <2>2, <2>3, Zenon DEF CInv, UnmatchedOnlyAfterSettling, vars, tickets
  <2>5. Inv'
    BY <1>4, EngineKeepsHandlers, Zenon
  <2>6. ConductorTypeOK' /\ RepliesHaveTickets' /\ EmittedOnce'
    BY <1>1, <1>2, <1>4, <2>5, Zenon
       DEF CInv, ConductorTypeOK, Inv, RepliesHaveTickets, EmittedOnce, vars, tickets,
           callbacks, requestVars, expiryVars
  <2> QED
    BY <1>1, <1>4, <2>4, <2>5, <2>6, EngineKeepsHandlers, Zenon DEF CInv, requestVars, expiryVars
<1>5. CASE UNCHANGED <<vars, responding, unmatched>>
  <2>1. Inv'
    BY <1>5, EngineKeepsHandlers, Zenon
  <2>2. ConductorTypeOK' /\ RepliesHaveTickets' /\ EmittedOnce'
    BY <1>1, <1>2, <1>5, <2>1, Zenon
       DEF CInv, ConductorTypeOK, Inv, RepliesHaveTickets, EmittedOnce, vars, tickets,
           callbacks, requestVars, expiryVars
  <2> QED
    BY <1>1, <1>5, <2>1, <2>2, EngineKeepsHandlers, Zenon DEF CInv, requestVars, expiryVars
<1> QED
  BY <1>3, <1>4, <1>5, Zenon DEF HandleReply

(* A destination answers what was sent, a handler emits the response of    *)
(* the ticket it redeemed, and onExpire its timeout.                       *)
LEMMA TicketInv ==
  ASSUME CInv, NEW t \in Tickets,
         \/ DestinationReplies(t) \/ EmitResponse(t)
         \/ ExpiryTakesSlot(t) \/ ExpiryEmits(t)
  PROVE  [Next]_vars /\ CInv'
<1>1. CASE DestinationReplies(t)
  <2>1. UNCHANGED vars
    BY <1>1, Zenon DEF DestinationReplies
  <2>2. tstate[t] # "unused" /\ tkey[t] \in Keys
    BY <1>1, Zenon DEF DestinationReplies, CInv, RepliesHaveTickets, Inv, Labelled
  <2>3. UNCHANGED <<link, requestVars, sent, responding, responses, unmatched, expiryVars>>
    BY <1>1, Zenon DEF DestinationReplies
  <2>4. Inv'
    BY <2>1, EngineKeepsHandlers, Zenon
  <2>5. replies' \in [Tickets -> 0..MaxReplies]
    <3>1. replies[t] + 1 \in 0..MaxReplies
      <4>1. replies[t] \in 0..MaxReplies /\ replies[t] < MaxReplies /\ MaxReplies \in Nat
        BY <1>1, ConductorAssumption, Zenon DEF DestinationReplies, CInv, ConductorTypeOK
      <4> QED
        BY <4>1
    <3> QED
      BY <1>1, <3>1, Zenon DEF DestinationReplies, CInv, ConductorTypeOK
  <2>6. ConductorTypeOK'
    BY <1>1, <2>2, <2>3, <2>4, <2>5, Zenon
       DEF DestinationReplies, CInv, ConductorTypeOK, Inv, requestVars, expiryVars
  <2>7. RepliesHaveTickets'
    BY <1>1, <2>1, <2>2, <2>3, Zenon
       DEF DestinationReplies, CInv, RepliesHaveTickets, vars, tickets
  <2>8. EmittedOnce'
    BY <2>1, <2>3, Zenon DEF CInv, EmittedOnce, vars, callbacks, expiryVars
  <2> QED
    BY <2>1, <2>3, <2>4, <2>6, <2>7, <2>8, EngineKeepsHandlers, Zenon
       DEF CInv, requestVars, expiryVars
<1>2. CASE EmitResponse(t)
  <2>1. UNCHANGED vars
    BY <1>2, Zenon DEF EmitResponse
  <2>2. UNCHANGED <<link, pc, picked, ticket, home, sent, replies, wire, unmatched, expiryVars>>
    BY <1>2, Zenon DEF EmitResponse
  <2>3. Inv'
    BY <2>1, EngineKeepsHandlers, Zenon
  <2>4. ConductorTypeOK'
    <3>1. /\ responding \subseteq Tickets /\ responses \in [Tickets -> Nat]
          /\ verdict \in [Requests -> Reasons \cup {None}]
      BY Zenon DEF CInv, ConductorTypeOK
    <3>2. /\ responses' = [responses EXCEPT ![t] = @ + 1] \/ responses' = responses
          /\ \/ verdict' = [verdict EXCEPT ![home[t]] = "invalid_origin"]
             \/ verdict' = verdict
          /\ responding' = responding \ {t}
      BY <1>2, Zenon DEF EmitResponse
    <3>3. responses' \in [Tickets -> Nat] /\ responding' \subseteq Tickets
      BY <3>1, <3>2
    <3>4. verdict' \in [Requests -> Reasons \cup {None}]
      BY <3>1, <3>2 DEF Reasons
    <3> QED
      BY <2>2, <2>3, <3>3, <3>4, Zenon DEF CInv, ConductorTypeOK, Inv, expiryVars
  <2>5. EmittedOnce' /\ VerdictMatchesTicket'
    <3>1. /\ t \in responding /\ responding' = responding \ {t}
          /\ responses' = [responses EXCEPT ![t] = @ + 1] \/ responses' = responses
      BY <1>2, Zenon DEF EmitResponse
    <3>2. /\ responses \in [Tickets -> Nat] /\ responses[t] = 0 /\ tstate[t] = "closed"
          /\ \A u \in Tickets : u \in responding => responses[u] = 0
          /\ \A u \in Tickets : responses[u] <= 1
          /\ \A u \in Tickets : u \in responding \/ responses[u] > 0 => tstate[u] = "closed"
      BY <3>1, Zenon DEF CInv, ConductorTypeOK, EmittedOnce, VerdictMatchesTicket
    <3>3. \A u \in Tickets :
            /\ responses'[u] <= 1 /\ (u \in responding' => responses'[u] = 0)
            /\ u \in responding' \/ responses'[u] > 0 => tstate[u] = "closed"
      BY <3>1, <3>2
    <3>4. UNCHANGED <<tstate, calls, calling, timeouts, expiring>>
      BY <2>1, <2>2, Zenon DEF vars, tickets, callbacks, expiryVars
    <3> QED
      BY <3>3, <3>4, Zenon DEF CInv, EmittedOnce, VerdictMatchesTicket
  <2> QED
    BY <2>1, <2>2, <2>3, <2>4, <2>5, EngineKeepsHandlers, Zenon DEF CInv
<1>3. CASE ExpiryTakesSlot(t)
  <2>1. UNCHANGED vars
    BY <1>3, Zenon DEF ExpiryTakesSlot
  <2>2. UNCHANGED <<link, requestVars, sent, replyVars, timeouts>>
    BY <1>3, Zenon DEF ExpiryTakesSlot
  <2>3. Inv'
    BY <2>1, EngineKeepsHandlers, Zenon
  <2>4. ConductorTypeOK'
    BY <1>3, <2>2, <2>3, Zenon
       DEF ExpiryTakesSlot, CInv, ConductorTypeOK, Inv, requestVars, replyVars
  <2>5. EmittedOnce' /\ VerdictMatchesTicket'
    BY <1>3, <2>1, <2>2, Zenon
       DEF ExpiryTakesSlot, CInv, Inv, Reported, EmittedOnce, VerdictMatchesTicket, vars,
           tickets, callbacks, replyVars
  <2> QED
    BY <2>1, <2>2, <2>3, <2>4, <2>5, EngineKeepsHandlers, Zenon DEF CInv, requestVars, replyVars
<1>4. CASE ExpiryEmits(t)
  <2>1. Next
    BY <1>4, Zenon DEF ExpiryEmits, Next, TimerStep
  <2>2. UNCHANGED <<link, requestVars, sent, replyVars>>
    BY <1>4, Zenon DEF ExpiryEmits
  <2>3. Inv'
    BY <2>1, EngineKeepsHandlers, Zenon
  <2>4. ConductorTypeOK'
    <3>1. timeouts \in [Tickets -> Nat] /\ timeouts' = [timeouts EXCEPT ![t] = @ + 1]
      BY <1>4, Zenon DEF ExpiryEmits, CInv, ConductorTypeOK
    <3>2. timeouts' \in [Tickets -> Nat]
      BY <3>1
    <3> QED
      BY <1>4, <2>2, <2>3, <3>2, Zenon
         DEF ExpiryEmits, CInv, ConductorTypeOK, Inv, requestVars, replyVars
  <2>5. tstate[t] = "expired" /\ calls[t] = 0 /\ timeouts[t] = 0 /\ UNCHANGED tstate
    BY <1>4, Zenon DEF ExpiryEmits, OnExpire, CInv, Inv, Reported, EmittedOnce, tickets
  <2>6. EmittedOnce'
    <3> SUFFICES ASSUME NEW u \in Tickets
                 PROVE  /\ u \in expiring' => u \in calling'
                        /\ timeouts'[u] = calls'[u] /\ timeouts'[u] <= 1
      BY <2>2, Zenon DEF CInv, EmittedOnce, replyVars
    <3>1. /\ calls' = [calls EXCEPT ![t] = @ + 1] /\ calling' = calling \ {t}
          /\ timeouts' = [timeouts EXCEPT ![t] = @ + 1] /\ expiring' = expiring \ {t}
      BY <1>4, Zenon DEF ExpiryEmits, OnExpire
    <3>2. /\ calls \in [Tickets -> Nat] /\ timeouts \in [Tickets -> Nat]
          /\ timeouts[u] = calls[u] /\ timeouts[u] <= 1
          /\ u \in expiring => u \in calling
      BY Zenon DEF CInv, Inv, TypeOK, ConductorTypeOK, EmittedOnce
    <3> QED
      BY <2>5, <3>1, <3>2
  <2>7. VerdictMatchesTicket'
    BY <1>4, <2>2, <2>5, Zenon
       DEF ExpiryEmits, CInv, ConductorTypeOK, VerdictMatchesTicket, replyVars
  <2> QED
    BY <2>1, <2>2, <2>3, <2>4, <2>6, <2>7, EngineKeepsHandlers, Zenon
       DEF CInv, requestVars, replyVars
<1> QED
  BY <1>1, <1>2, <1>3, <1>4, Zenon

(* Timers, Drain and Close, with no handler taking part.                   *)
LEMMA EngineInv ==
  ASSUME CInv, EngineStep
  PROVE  [Next]_vars /\ CInv'
<1>1. Next
  BY Zenon DEF EngineStep, Next, TimerStep
<1>2. UNCHANGED cvars
  BY Zenon DEF EngineStep
<1>3. UNCHANGED calls /\ calling \subseteq calling'
  BY Zenon DEF EngineStep, Fire, ExpireOpen, ExpireStale, Purge, DrainStep, Drain, DrainWake,
         CtxEnds, CtxWake, Close, callbacks
<1>4. Inv'
  BY <1>1, EngineKeepsHandlers, Zenon
<1>5. ConductorTypeOK' /\ EmittedOnce'
  BY <1>2, <1>3, <1>4, Zenon
     DEF CInv, ConductorTypeOK, Inv, EmittedOnce, cvars, requestVars, replyVars, expiryVars
<1> QED
  BY <1>1, <1>2, <1>4, <1>5, EngineKeepsHandlers, Zenon
     DEF CInv, cvars, requestVars, replyVars, expiryVars

(* The handlers start with nothing in hand.                                *)
LEMMA CInitInv == CInit => CInv
<1> SUFFICES ASSUME CInit PROVE CInv
  BY Zenon
<1>1. Inv
  BY InitInv, Zenon DEF CInit
<1>2. ConductorTypeOK
  <2>1. pc \in [Requests -> HandlerStates]
    BY DEF CInit, HandlerStates
  <2>2. /\ replies \in [Tickets -> 0..MaxReplies] /\ responses \in [Tickets -> Nat]
        /\ timeouts \in [Tickets -> Nat]
    BY ConductorAssumption DEF CInit
  <2> QED
    BY <1>1, <2>1, <2>2, Zenon DEF CInit, ConductorTypeOK, Inv
<1> QED
  <2>1. HandlersHold
    BY DEF CInit, HandlersHold
  <2>2. EmittedOnce /\ VerdictMatchesTicket
    BY DEF CInit, Init, EmittedOnce, VerdictMatchesTicket
  <2>3. RepliesHaveTickets /\ UnmatchedOnlyAfterSettling
    BY Zenon DEF CInit, RepliesHaveTickets, UnmatchedOnlyAfterSettling
  <2> QED
    BY <1>1, <1>2, <2>1, <2>2, <2>3, Zenon DEF CInv

(***************************************************************************)
(* Every step of the conductor is a step of the engine or leaves it alone, *)
(* and keeps the invariant.                                                *)
(***************************************************************************)
LEMMA CNextInv == CInv /\ [CNext]_allvars => [Next]_vars /\ CInv'
<1> SUFFICES ASSUME CInv, [CNext]_allvars PROVE [Next]_vars /\ CInv'
  BY Zenon
<1>1. CASE \E d \in Dests : LinkState(d)
  <2>1. UNCHANGED <<vars, requestVars, sent, replyVars, expiryVars>>
    BY <1>1, Zenon DEF LinkState
  <2>2. link' \in [Dests -> BOOLEAN]
    BY <1>1, Zenon DEF LinkState, CInv, ConductorTypeOK
  <2>3. Inv'
    BY <2>1, EngineKeepsHandlers, Zenon
  <2>4. ConductorTypeOK' /\ EmittedOnce'
    BY <2>1, <2>2, <2>3, Zenon
       DEF CInv, ConductorTypeOK, Inv, EmittedOnce, vars, callbacks, requestVars, replyVars,
           expiryVars
  <2> QED
    BY <2>1, <2>3, <2>4, EngineKeepsHandlers, Zenon DEF CInv, requestVars, replyVars, expiryVars
<1>2. CASE \E r \in Requests : RequestStep(r)
  BY <1>2, RequestInv, Zenon
<1>3. CASE \E t \in Tickets : \/ DestinationReplies(t) \/ EmitResponse(t)
                              \/ ExpiryTakesSlot(t) \/ ExpiryEmits(t)
  BY <1>3, TicketInv, Zenon
<1>4. CASE \E k \in Keys : HandleReply(k)
  BY <1>4, ReplyInv, Zenon
<1>5. CASE EngineStep
  BY <1>5, EngineInv, Zenon
<1>6. CASE UNCHANGED allvars
  <2>1. UNCHANGED vars /\ UNCHANGED cvars
    BY <1>6, Zenon DEF allvars
  <2>2. Inv'
    BY <2>1, EngineKeepsHandlers, Zenon
  <2>3. ConductorTypeOK' /\ EmittedOnce'
    BY <2>1, <2>2, Zenon
       DEF CInv, ConductorTypeOK, Inv, EmittedOnce, cvars, vars, callbacks, requestVars,
           replyVars, expiryVars
  <2> QED
    BY <2>1, <2>2, <2>3, EngineKeepsHandlers, Zenon
       DEF CInv, cvars, requestVars, replyVars, expiryVars
<1> QED
  BY <1>1, <1>2, <1>3, <1>4, <1>5, <1>6, Zenon DEF CNext

(* So the invariant holds throughout.                                      *)
LEMMA CInvariance == CSpec => []CInv
BY CInitInv, CNextInv, PTL DEF CSpec

-----------------------------------------------------------------------------
(***************************************************************************)
(* The conductor drives the engine only as the engine's specification says *)
(* a caller may: every behaviour of the conductor is one of the engine.    *)
(***************************************************************************)
THEOREM ConductorDrivesEngine == CSpec => Spec
<1>1. CInit => Init
  BY Zenon DEF CInit
<1> QED
  BY <1>1, CInvariance, CNextInv, PTL DEF CSpec, Spec

(***************************************************************************)
(* So the engine under the conductor's handlers is consistent and keeps    *)
(* its contract.                                                           *)
(***************************************************************************)
THEOREM ConductorKeepsContract == CSpec => []EngineConsistent /\ KeepsContract
BY ConductorDrivesEngine, EngineIsConsistent, EngineKeepsContract, PTL

(***************************************************************************)
(* A request gets one verdict: its response and its timeout exclude each   *)
(* other and neither is emitted twice.                                     *)
(***************************************************************************)
THEOREM RequestsGetOneVerdict == CSpec => []OneVerdict
<1>1. CInv => OneVerdict
  <2> SUFFICES ASSUME CInv, NEW t \in Tickets PROVE responses[t] + timeouts[t] <= 1
    BY Zenon DEF OneVerdict
  <2>1. responses[t] \in Nat /\ timeouts[t] \in Nat /\ responses[t] <= 1 /\ timeouts[t] <= 1
    BY Zenon DEF CInv, ConductorTypeOK, EmittedOnce
  <2>2. responses[t] = 0 \/ timeouts[t] = 0
    BY <2>1 DEF CInv, VerdictMatchesTicket
  <2> QED
    BY <2>1, <2>2
<1> QED
  BY <1>1, CInvariance, PTL

(***************************************************************************)
(* A response leaves only for a ticket a reply redeemed, a timeout only    *)
(* for one that expired, and a reply is emitted as unmatched only after a  *)
(* ticket of its key has settled: handleRequest's park-before-emit leaves  *)
(* no window in which a fast reply finds no ticket.                        *)
(***************************************************************************)
THEOREM VerdictsAreSound == CSpec => []VerdictsSound
<1>1. CInv => VerdictsSound
  BY Zenon DEF CInv, VerdictsSound
<1> QED
  BY <1>1, CInvariance, PTL
=============================================================================
