------------------------------- MODULE Valet -------------------------------
(***************************************************************************)
(* The correlation engine of pkg/valet: requests are parked under a key,   *)
(* replies redeem them, timers expire them.  Every method takes the        *)
(* engine mutex, so a method is one action.  What is concurrent are the    *)
(* timers (a timer that has fired has started a goroutine that waits for   *)
(* the mutex, and stopping it then comes too late), the expiry callback    *)
(* (run after the mutex is released), and Drain, which sleeps on a         *)
(* condition variable.                                                     *)
(***************************************************************************)
EXTENDS Integers, FiniteSets

CONSTANTS
  Keys,         \* correlation keys
  Dests,        \* destination labels
  Tickets,      \* identities of *Ticket; a ticket is never reused
  MaxInFlight,  \* Config.MaxInFlight, 0 for unbounded
  Retention,    \* is Config.RetainAfterClose positive?
  Drains,       \* calls of Drain
  None          \* absence of a ticket, a key or a destination

ASSUME ValetAssumption ==
  /\ IsFiniteSet(Tickets)
  /\ None \notin Tickets
  /\ MaxInFlight \in Nat
  /\ Retention \in BOOLEAN

VARIABLES
  state,        \* Engine.state
  store,        \* key -> the open ticket (MemoryStore.tickets)
  openCount,    \* Engine.openCount
  destCounts,   \* Engine.destCounts; a missing entry reads as 0
  retained,     \* key -> the redeemed ticket kept for replay
  tstate,       \* ticket -> Ticket.state, "unused" before Park creates it
  tkey,         \* ticket -> Ticket.Key
  tdest,        \* ticket -> Ticket.Destination
  armed,        \* ticket -> the timer armed in Ticket.timer
  fired,        \* timer goroutines waiting for the mutex
  calling,      \* expired tickets whose OnExpire call is outstanding
  calls,        \* ticket -> number of OnExpire calls made
  drain,        \* Drain call -> where it stands
  ctx           \* Drain call -> its context

tickets == <<tstate, tkey, tdest>>
counters == <<openCount, destCounts>>
callbacks == <<calling, calls>>
vars == <<state, store, counters, retained, tickets, armed, fired, callbacks,
          drain, ctx>>

EngineStates == {"running", "draining", "closed"}
TicketStates == {"unused", "open", "closed", "expired", "released"}
TimerKinds == {"expiry", "purge"}
DrainStates == {"idle", "waiting", "ready", "nil", "interrupted", "ErrClosed"}
CtxStates == {"live", "done", "signalled"}

TypeOK ==
  /\ state \in EngineStates
  /\ store \in [Keys -> Tickets \cup {None}]
  /\ openCount \in Nat
  /\ destCounts \in [Dests -> Nat]
  /\ retained \in [Keys -> Tickets \cup {None}]
  /\ tstate \in [Tickets -> TicketStates]
  /\ tkey \in [Tickets -> Keys \cup {None}]
  /\ tdest \in [Tickets -> Dests \cup {None}]
  /\ armed \in [Tickets -> TimerKinds \cup {"none"}]
  /\ fired \subseteq TimerKinds \X Tickets
  /\ calling \subseteq Tickets
  /\ calls \in [Tickets -> Nat]
  /\ drain \in [Drains -> DrainStates]
  /\ ctx \in [Drains -> CtxStates]

Init ==
  /\ state = "running"
  /\ store = [k \in Keys |-> None]
  /\ openCount = 0
  /\ destCounts = [d \in Dests |-> 0]
  /\ retained = [k \in Keys |-> None]
  /\ tstate = [t \in Tickets |-> "unused"]
  /\ tkey = [t \in Tickets |-> None]
  /\ tdest = [t \in Tickets |-> None]
  /\ armed = [t \in Tickets |-> "none"]
  /\ fired = {}
  /\ calling = {}
  /\ calls = [t \in Tickets |-> 0]
  /\ drain = [c \in Drains |-> "idle"]
  /\ ctx = [c \in Drains |-> "live"]

-----------------------------------------------------------------------------
(* cond.Broadcast: every sleeping Drain will take the mutex again. *)
Broadcast ==
  drain' = [c \in Drains |-> IF drain[c] = "waiting" THEN "ready" ELSE drain[c]]

(* Variant: the destination's count is forgotten. *)
DecCountsOpenOnly(t) ==
  /\ openCount' = openCount - 1
  /\ UNCHANGED destCounts

(* The accounting half of decOpenLocked, for ticket t. *)
DecCounts(t) ==
  /\ openCount' = openCount - 1
  /\ destCounts' = [destCounts EXCEPT ![tdest[t]] = IF @ <= 1 THEN 0 ELSE @ - 1]

(* Variant: no broadcast. *)
decOpenSilently(t) == DecCounts(t) /\ UNCHANGED drain

decOpenLocked(t) == DecCounts(t) /\ Broadcast

(* Variant: the retained outcomes are not consulted. *)
ParkResultNoReplay(k) ==
  CASE state = "closed" -> "ErrClosed"
    [] state # "closed" /\ store[k] # None -> "AttachedOpen"
    [] state = "draining" /\ store[k] = None -> "ErrDraining"
    [] state = "running" /\ store[k] = None /\ MaxInFlight > 0
         /\ openCount >= MaxInFlight -> "ErrOverloaded"
    [] OTHER -> "Parked"

(* Variant: a draining engine still accepts new work. *)
ParkResultNoDrain(k) ==
  CASE state = "closed" -> "ErrClosed"
    [] state # "closed" /\ store[k] # None -> "AttachedOpen"
    [] state # "closed" /\ store[k] = None /\ retained[k] # None -> "ReplayedClosed"
    [] state # "closed" /\ store[k] = None /\ retained[k] = None
         /\ MaxInFlight > 0 /\ openCount >= MaxInFlight -> "ErrOverloaded"
    [] OTHER -> "Parked"

(* What Park answers for key k, in the order of its early returns. *)
ParkResult(k) ==
  CASE state = "closed" -> "ErrClosed"
    [] state # "closed" /\ store[k] # None -> "AttachedOpen"
    [] state # "closed" /\ store[k] = None /\ retained[k] # None -> "ReplayedClosed"
    [] state = "draining" /\ store[k] = None /\ retained[k] = None -> "ErrDraining"
    [] state = "running" /\ store[k] = None /\ retained[k] = None
         /\ MaxInFlight > 0 /\ openCount >= MaxInFlight -> "ErrOverloaded"
    [] OTHER -> "Parked"

(* Park creates ticket t; all its other answers leave the engine alone. *)
Park(k, d, t) ==
  /\ ParkResult(k) = "Parked"
  /\ tstate[t] = "unused"
  /\ tstate' = [tstate EXCEPT ![t] = "open"]
  /\ tkey' = [tkey EXCEPT ![t] = k]
  /\ tdest' = [tdest EXCEPT ![t] = d]
  /\ store' = [store EXCEPT ![k] = t]
  /\ openCount' = openCount + 1
  /\ destCounts' = [destCounts EXCEPT ![d] = @ + 1]
  /\ armed' = [armed EXCEPT ![t] = "expiry"]
  /\ UNCHANGED <<state, retained, fired, callbacks, drain, ctx>>

(* Variant: a draining engine matches no replies. *)
RedeemResultNoDrain(k) ==
  CASE state = "closed" -> "ErrClosed"
    [] state = "running" /\ store[k] # None -> "redeemed"
    [] state # "closed" /\ store[k] = None /\ retained[k] # None -> "ErrAlreadyRedeemed"
    [] OTHER -> "ErrUnmatched"

(* What Redeem answers for key k. *)
RedeemResult(k) ==
  CASE state = "closed" -> "ErrClosed"
    [] state # "closed" /\ store[k] # None -> "redeemed"
    [] state # "closed" /\ store[k] = None /\ retained[k] # None -> "ErrAlreadyRedeemed"
    [] OTHER -> "ErrUnmatched"

(* Variant: the timer is stopped after the purge timer was stored in it. *)
RedeemStopsLate(k) ==
  LET t == store[k] IN
  /\ RedeemResult(k) = "redeemed"
  /\ store' = [store EXCEPT ![k] = None]
  /\ tstate' = [tstate EXCEPT ![t] = "closed"]
  /\ decOpenLocked(t)
  /\ armed' = [armed EXCEPT ![t] = "none"]
  /\ retained' = IF Retention THEN [retained EXCEPT ![k] = t] ELSE retained
  /\ UNCHANGED <<state, tkey, tdest, fired, callbacks, ctx>>

Redeem(k) ==
  LET t == store[k] IN
  /\ RedeemResult(k) = "redeemed"
  /\ store' = [store EXCEPT ![k] = None]
  /\ tstate' = [tstate EXCEPT ![t] = "closed"]
  /\ decOpenLocked(t)
  /\ armed' = [armed EXCEPT ![t] = IF Retention THEN "purge" ELSE "none"]
  /\ retained' = IF Retention THEN [retained EXCEPT ![k] = t] ELSE retained
  /\ UNCHANGED <<state, tkey, tdest, fired, callbacks, ctx>>

(* Variant: the ticket is looked up with Get and stays in the store. *)
ReleaseGets(k) ==
  LET t == store[k] IN
  /\ state # "closed"
  /\ store[k] # None
  /\ tstate' = [tstate EXCEPT ![t] = "released"]
  /\ decOpenLocked(t)
  /\ armed' = [armed EXCEPT ![t] = "none"]
  /\ UNCHANGED <<state, store, retained, tkey, tdest, fired, callbacks, ctx>>

Release(k) ==
  LET t == store[k] IN
  /\ state # "closed"
  /\ store[k] # None
  /\ store' = [store EXCEPT ![k] = None]
  /\ tstate' = [tstate EXCEPT ![t] = "released"]
  /\ decOpenLocked(t)
  /\ armed' = [armed EXCEPT ![t] = "none"]
  /\ UNCHANGED <<state, retained, tkey, tdest, fired, callbacks, ctx>>

-----------------------------------------------------------------------------
(* The clock runs a timer down: its function starts in a goroutine. *)
Fire(t) ==
  /\ armed[t] # "none"
  /\ fired' = fired \cup {<<armed[t], t>>}
  /\ armed' = [armed EXCEPT ![t] = "none"]
  /\ UNCHANGED <<state, store, counters, retained, tickets, callbacks, drain, ctx>>

(* Variant: any ticket under the key will do. *)
StillOpenByKey(t) ==
  /\ state # "closed"
  /\ store[tkey[t]] # None

(* expire's check, once it holds the mutex: is t still what its key holds? *)
StillOpen(t) ==
  /\ state # "closed"
  /\ store[tkey[t]] = t

(* Variant: the callback is not made. *)
ExpireSilently(t) ==
  /\ <<"expiry", t>> \in fired
  /\ StillOpen(t)
  /\ fired' = fired \ {<<"expiry", t>>}
  /\ store' = [store EXCEPT ![tkey[t]] = None]
  /\ tstate' = [tstate EXCEPT ![t] = "expired"]
  /\ decOpenLocked(t)
  /\ UNCHANGED <<state, retained, tkey, tdest, armed, callbacks, ctx>>

ExpireOpen(t) ==
  /\ <<"expiry", t>> \in fired
  /\ StillOpen(t)
  /\ fired' = fired \ {<<"expiry", t>>}
  /\ store' = [store EXCEPT ![tkey[t]] = None]
  /\ tstate' = [tstate EXCEPT ![t] = "expired"]
  /\ decOpenLocked(t)
  /\ calling' = calling \cup {t}
  /\ UNCHANGED <<state, retained, tkey, tdest, armed, calls, ctx>>

ExpireStale(t) ==
  /\ <<"expiry", t>> \in fired
  /\ ~StillOpen(t)
  /\ fired' = fired \ {<<"expiry", t>>}
  /\ UNCHANGED <<state, store, counters, retained, tickets, armed, callbacks,
                 drain, ctx>>

(* OnExpire(t), called by expire after it has released the mutex. *)
OnExpire(t) ==
  /\ t \in calling
  /\ calling' = calling \ {t}
  /\ calls' = [calls EXCEPT ![t] = @ + 1]
  /\ UNCHANGED <<state, store, counters, retained, tickets, armed, fired, drain,
                 ctx>>

(* Variant: only a running engine drops the outcome. *)
PurgeWhenRunning(t) ==
  /\ <<"purge", t>> \in fired
  /\ fired' = fired \ {<<"purge", t>>}
  /\ retained' = [k \in Keys |->
                    IF state = "running" /\ k = tkey[t] /\ retained[k] = t
                    THEN None ELSE retained[k]]
  /\ UNCHANGED <<state, store, counters, tickets, armed, callbacks, drain, ctx>>

Purge(t) ==
  /\ <<"purge", t>> \in fired
  /\ fired' = fired \ {<<"purge", t>>}
  /\ retained' = [k \in Keys |-> IF k = tkey[t] /\ retained[k] = t THEN None
                                                               ELSE retained[k]]
  /\ UNCHANGED <<state, store, counters, tickets, armed, callbacks, drain, ctx>>

-----------------------------------------------------------------------------
(* Drain's loop condition and, when it is false, what Drain returns. *)
MustWait(c, s) == openCount > 0 /\ ctx[c] = "live" /\ s = "draining"

LoopOutcome(c, s) ==
  CASE MustWait(c, s) -> "waiting"
    [] ~MustWait(c, s) /\ openCount > 0 -> "interrupted"
    [] OTHER -> "nil"

Drain(c) ==
  /\ drain[c] = "idle"
  /\ \/ /\ state = "closed"
        /\ drain' = [drain EXCEPT ![c] = "ErrClosed"]
        /\ UNCHANGED state
     \/ /\ state # "closed"
        /\ state' = "draining"
        /\ drain' = [drain EXCEPT ![c] = LoopOutcome(c, "draining")]
  /\ UNCHANGED <<store, counters, retained, tickets, armed, fired, callbacks, ctx>>

(* A woken Drain has the mutex back and evaluates its loop condition. *)
DrainWake(c) ==
  /\ drain[c] = "ready"
  /\ drain' = [drain EXCEPT ![c] = LoopOutcome(c, state)]
  /\ UNCHANGED <<state, store, counters, retained, tickets, armed, fired,
                 callbacks, ctx>>

(* The caller's context ends; nobody holds the mutex for that. *)
CtxEnds(c) ==
  /\ ctx[c] = "live"
  /\ ctx' = [ctx EXCEPT ![c] = "done"]
  /\ UNCHANGED <<state, store, counters, retained, tickets, armed, fired,
                 callbacks, drain>>

(* context.AfterFunc of a running Drain: broadcast under the mutex. *)
CtxWake(c) ==
  /\ ctx[c] = "done"
  /\ drain[c] \in {"waiting", "ready"}
  /\ ctx' = [ctx EXCEPT ![c] = "signalled"]
  /\ Broadcast
  /\ UNCHANGED <<state, store, counters, retained, tickets, armed, fired, callbacks>>

Close ==
  /\ state # "closed"
  /\ state' = "closed"
  /\ store' = [k \in Keys |-> None]
  /\ armed' = [t \in Tickets |->
                 IF \E k \in Keys : t \in {store[k], retained[k]} THEN "none"
                                                                 ELSE armed[t]]
  /\ retained' = [k \in Keys |-> None]
  /\ openCount' = 0
  /\ destCounts' = [d \in Dests |-> 0]
  /\ Broadcast
  /\ UNCHANGED <<tickets, fired, callbacks, ctx>>

-----------------------------------------------------------------------------
TimerStep(t) ==
  \/ Fire(t)
  \/ ExpireOpen(t)
  \/ ExpireStale(t)
  \/ OnExpire(t)
  \/ Purge(t)

DrainStep(c) ==
  \/ Drain(c)
  \/ DrainWake(c)
  \/ CtxEnds(c)
  \/ CtxWake(c)

Next ==
  \/ \E k \in Keys, d \in Dests, t \in Tickets : Park(k, d, t)
  \/ \E k \in Keys : Redeem(k) \/ Release(k)
  \/ \E t \in Tickets : TimerStep(t)
  \/ \E c \in Drains : DrainStep(c)
  \/ Close

Spec == Init /\ [][Next]_vars

(***************************************************************************)
(* Timers run down, goroutines get the mutex (Go's mutex hands itself to a *)
(* waiter that starves) and callbacks return.  Nothing makes a caller      *)
(* park, redeem, release, drain, cancel or close.                          *)
(***************************************************************************)
Fairness ==
  /\ \A t \in Tickets :
       /\ WF_vars(Fire(t))
       /\ WF_vars(ExpireOpen(t) \/ ExpireStale(t))
       /\ WF_vars(OnExpire(t))
       /\ WF_vars(Purge(t))
  /\ \A c \in Drains : WF_vars(DrainWake(c)) /\ WF_vars(CtxWake(c))

FairSpec == Spec /\ Fairness

-----------------------------------------------------------------------------
(* Tickets the store holds. *)
InFlight == {t \in Tickets : \E k \in Keys : store[k] = t}

(* Store, retained outcomes and tickets agree with each other. *)
Linked ==
  /\ \A k \in Keys : store[k] # None =>
       tkey[store[k]] = k /\ tstate[store[k]] = "open"
  /\ \A k \in Keys : retained[k] # None =>
       tkey[retained[k]] = k /\ tstate[retained[k]] = "closed"
  /\ \A t \in Tickets : tstate[t] = "open" /\ state # "closed" =>
       tkey[t] \in Keys /\ store[tkey[t]] = t

(***************************************************************************)
(* The load figures routing relies on are exact: openCount, and the count  *)
(* of every destination, are the numbers of tickets really in the store,   *)
(* whatever order parks, redemptions, releases, expiries and Close took.   *)
(***************************************************************************)
AccountingExact ==
  /\ openCount = Cardinality(InFlight)
  /\ \A d \in Dests :
       destCounts[d] = Cardinality({t \in InFlight : tdest[t] = d})

(***************************************************************************)
(* No open ticket and no retained outcome is forgotten: each still has its *)
(* own timer armed, or that timer has fired and its goroutine is waiting   *)
(* for the mutex.  Arming and stopping happen in Park, Redeem and Release. *)
(***************************************************************************)
NothingForgotten ==
  \A k \in Keys :
    /\ store[k] # None =>
         armed[store[k]] = "expiry" \/ <<"expiry", store[k]>> \in fired
    /\ retained[k] # None =>
         armed[retained[k]] = "purge" \/ <<"purge", retained[k]>> \in fired

(***************************************************************************)
(* A key is never both in flight and answered: Redeem's ErrAlreadyRedeemed *)
(* and Park's AttachedOpen and ReplayedClosed exclude each other.          *)
(***************************************************************************)
KeyExclusive == \A k \in Keys : store[k] = None \/ retained[k] = None

(***************************************************************************)
(* Once a Drain has returned nil nothing is in flight and nothing new is   *)
(* accepted, for as long as the engine is not closed.                      *)
(***************************************************************************)
DrainNilMeansIdle ==
  \A c \in Drains : drain[c] = "nil" /\ state # "closed" =>
    \A t \in Tickets : tstate[t] # "open"

(***************************************************************************)
(* The engine is consistent after every call: its figures are exact, its   *)
(* timers are kept, no key is in flight and answered, and a nil Drain was  *)
(* complete.                                                               *)
(***************************************************************************)
EngineConsistent ==
  /\ TypeOK
  /\ AccountingExact
  /\ NothingForgotten
  /\ KeyExclusive
  /\ DrainNilMeansIdle

(***************************************************************************)
(* Drain's comment: it keeps matching replies "until every open ticket     *)
(* clears (redeemed or expired) or ctx is done, in which case it reports   *)
(* the number of tickets still open".  So a nil Drain leaves no ticket     *)
(* that is neither redeemed, expired nor released.                         *)
(***************************************************************************)
DrainNilMeansCleared ==
  \A c \in Drains : drain[c] = "nil" => \A t \in Tickets : tstate[t] # "open"

(***************************************************************************)
(* A Drain returns: its tickets expire, or its context ends, or Close ends *)
(* it, and each of these wakes it (no wake-up of the condition is lost).   *)
(***************************************************************************)
DrainReturns ==
  \A c \in Drains : drain[c] \in {"waiting", "ready"} ~>
                      drain[c] \in {"nil", "interrupted"}

(***************************************************************************)
(* The retention window ends: a retained outcome is dropped in the end, so *)
(* its key can be parked afresh.                                           *)
(***************************************************************************)
RetentionEnds ==
  \A k \in Keys, t \in Tickets : retained[k] = t ~> retained[k] # t

(***************************************************************************)
(* The engine implements TicketContract.  A ticket that was open when the  *)
(* engine was closed is abandoned.                                         *)
(***************************************************************************)
Life == [t \in Tickets |-> IF state = "closed" /\ tstate[t] = "open"
                           THEN "dropped" ELSE tstate[t]]

Contract == INSTANCE TicketContract WITH
  life <- Life,
  owner <- tkey,
  reported <- {t \in Tickets : calls[t] > 0},
  ended <- (state = "closed")

(***************************************************************************)
(* Each step of Park, Redeem, Release, expire, the callback or Close is a  *)
(* step of the contract: a ticket settles once, a key has one open ticket, *)
(* the bound holds, and an expiry is reported once.                        *)
(***************************************************************************)
KeepsContract == Contract!Spec

(***************************************************************************)
(* With timers, goroutines and callbacks that make progress, every ticket  *)
(* settles and every expiry is reported to OnExpire.                       *)
(***************************************************************************)
SettlesTickets == Contract!FairSpec

(***************************************************************************)
(* Nothing waits for ever on the engine: no Drain, no retained outcome, no *)
(* ticket and no expiry that has to be reported.                           *)
(***************************************************************************)
EngineProgress == DrainReturns /\ RetentionEnds /\ SettlesTickets
=============================================================================
