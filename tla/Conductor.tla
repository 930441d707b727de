----------------------------- MODULE Conductor -----------------------------
(***************************************************************************)
(* The conductor gear (pkg/gears/native/conductor) on top of the engine of *)
(* module Valet.  A request is keyed, routed, given a destination, parked  *)
(* and emitted; a reply redeems the ticket and its response is emitted.    *)
(* Handlers run concurrently, on the goroutines of their wires, and every  *)
(* call they make to the engine or to the emitter is a step of its own.    *)
(* An emission can fail after part of its wires received the message: the  *)
(* runtime tries every hot-lane subscriber and the bus and then reports    *)
(* the first error.                                                        *)
(***************************************************************************)
EXTENDS Valet

CONSTANTS
  Requests,     \* request messages, retransmissions included
  KeyOf,        \* request -> its correlation key, None when buildKey fails
  Routed,       \* requests that match a route
  Trusted,      \* requests whose origin stamp responsePortFor accepts
  MaxReplies,   \* bound: replies a destination sends for one request
  ExpirySlots   \* maxConcurrentExpiryEmits

ASSUME ConductorAssumption ==
  /\ KeyOf \in [Requests -> Keys \cup {None}]
  /\ Routed \subseteq Requests
  /\ Trusted \subseteq Requests
  /\ MaxReplies \in Nat
  /\ ExpirySlots \in Nat \ {0}

VARIABLES
  link,         \* destination port -> Gear.availability
  pc,           \* request -> where its handler stands
  picked,       \* request -> destination chosen by the tree
  ticket,       \* request -> ticket its Park returned
  home,         \* ticket -> request it was parked for (Request, ReturnCtx)
  verdict,      \* request -> reason it was refused for, or None
  sent,         \* tickets whose request reached the destination
  replies,      \* ticket -> replies the destination has sent for it
  wire,         \* keys of the replies on their way to in_reply
  responding,   \* redeemed tickets whose response is about to be emitted
  responses,    \* ticket -> Emit calls made for the response to a live reply
  timeouts,     \* ticket -> Emit calls made for its timeout
  unmatched,    \* keys of the replies emitted as unmatched_reply
  expiring      \* tickets whose onExpire holds a slot of expireSem

requestVars == <<pc, picked, ticket, home, verdict>>
replyVars == <<replies, wire, responding, responses, unmatched>>
expiryVars == <<timeouts, expiring>>
cvars == <<link, requestVars, sent, replyVars, expiryVars>>
allvars == <<vars, cvars>>

HandlerStates ==
  {"new", "picked", "emit", "replay", "release", "done", "absorbed", "error"}

Reasons == {"no_key", "no_route", "no_destination", "overloaded",
            "invalid_origin", "park_failed", "emit_failed"}

ConductorTypeOK ==
  /\ TypeOK
  /\ link \in [Dests -> BOOLEAN]
  /\ pc \in [Requests -> HandlerStates]
  /\ picked \in [Requests -> Dests \cup {None}]
  /\ ticket \in [Requests -> Tickets \cup {None}]
  /\ home \in [Tickets -> Requests \cup {None}]
  /\ verdict \in [Requests -> Reasons \cup {None}]
  /\ sent \subseteq Tickets
  /\ replies \in [Tickets -> 0..MaxReplies]
  /\ wire \subseteq Keys
  /\ responding \subseteq Tickets
  /\ responses \in [Tickets -> Nat]
  /\ timeouts \in [Tickets -> Nat]
  /\ unmatched \subseteq Keys
  /\ expiring \subseteq Tickets

CInit ==
  /\ Init
  /\ link = [d \in Dests |-> FALSE]
  /\ pc = [r \in Requests |-> "new"]
  /\ picked = [r \in Requests |-> None]
  /\ ticket = [r \in Requests |-> None]
  /\ home = [t \in Tickets |-> None]
  /\ verdict = [r \in Requests |-> None]
  /\ sent = {}
  /\ replies = [t \in Tickets |-> 0]
  /\ wire = {}
  /\ responding = {}
  /\ responses = [t \in Tickets |-> 0]
  /\ timeouts = [t \in Tickets |-> 0]
  /\ unmatched = {}
  /\ expiring = {}

-----------------------------------------------------------------------------
(* A link-state command from the I/O gear behind port d is consumed. *)
LinkState(d) ==
  /\ link' = [link EXCEPT ![d] = ~@]
  /\ UNCHANGED <<vars, requestVars, sent, replyVars, expiryVars>>

(* The handler of r ends: r leaves on the error port with that reason, or  *)
(* the error is returned to the runtime (park_failed and emit_failed).     *)
Refuse(r, reason) ==
  /\ verdict' = [verdict EXCEPT ![r] = reason]
  /\ pc' = [pc EXCEPT ![r] = "error"]

(* The leaves the destination tree may select, whatever its strategies. *)
Available == {d \in Dests : link[d]}

(* handleRequest up to the choice of the destination.  No ticket yet. *)
RouteRequest(r) ==
  /\ pc[r] = "new"
  /\ \/ KeyOf[r] = None /\ Refuse(r, "no_key") /\ UNCHANGED picked
     \/ KeyOf[r] # None /\ r \notin Routed /\ Refuse(r, "no_route")
          /\ UNCHANGED picked
     \/ KeyOf[r] # None /\ r \in Routed /\ Available = {}
          /\ Refuse(r, "no_destination") /\ UNCHANGED picked
     \/ /\ KeyOf[r] # None /\ r \in Routed
        /\ \E d \in Available : picked' = [picked EXCEPT ![r] = d]
        /\ pc' = [pc EXCEPT ![r] = "picked"]
        /\ UNCHANGED verdict
  /\ UNCHANGED <<vars, link, ticket, home, sent, replyVars, expiryVars>>

(* Variant: the request is emitted before it is parked. *)
ParkNewAfterEmit(r) ==
  /\ pc[r] = "picked"
  /\ \E t \in Tickets :
       \/ /\ tstate[t] = "unused" /\ ticket[r] = None
          /\ ParkResult(KeyOf[r]) = "Parked"
          /\ tkey' = [tkey EXCEPT ![t] = KeyOf[r]]
          /\ sent' = sent \cup {t}
          /\ ticket' = [ticket EXCEPT ![r] = t]
          /\ home' = [home EXCEPT ![t] = r]
          /\ UNCHANGED <<state, store, counters, retained, tstate, tdest, armed,
                         fired, callbacks, drain, ctx, pc>>
       \/ /\ ticket[r] = t /\ Park(KeyOf[r], picked[r], t)
          /\ pc' = [pc EXCEPT ![r] = "done"]
          /\ UNCHANGED <<ticket, home, sent>>
  /\ UNCHANGED <<link, picked, verdict, replyVars, expiryVars>>

(* The call of Park, when it creates a ticket for r. *)
ParkNew(r) ==
  /\ pc[r] = "picked"
  /\ \E t \in Tickets :
       /\ Park(KeyOf[r], picked[r], t)
       /\ ticket' = [ticket EXCEPT ![r] = t]
       /\ home' = [home EXCEPT ![t] = r]
  /\ pc' = [pc EXCEPT ![r] = "emit"]
  /\ UNCHANGED <<link, picked, verdict, sent, replyVars, expiryVars>>

(* The other answers of Park: a duplicate, or a refusal. *)
ParkAnswered(r) ==
  LET answer == ParkResult(KeyOf[r]) IN
  /\ pc[r] = "picked"
  /\ \/ /\ answer = "AttachedOpen"
        /\ ticket' = [ticket EXCEPT ![r] = store[KeyOf[r]]]
        /\ pc' = [pc EXCEPT ![r] = "absorbed"]
        /\ UNCHANGED verdict
     \/ /\ answer = "ReplayedClosed"
        /\ ticket' = [ticket EXCEPT ![r] = retained[KeyOf[r]]]
        /\ pc' = [pc EXCEPT ![r] = "replay"]
        /\ UNCHANGED verdict
     \/ answer = "ErrOverloaded" /\ Refuse(r, "overloaded") /\ UNCHANGED ticket
     \/ answer \in {"ErrDraining", "ErrClosed"} /\ Refuse(r, "park_failed")
          /\ UNCHANGED ticket
  /\ UNCHANGED <<vars, link, picked, home, sent, replyVars, expiryVars>>

(* responsePortFor: may the response of ticket t be sent home? *)
OriginAccepted(t) == home[t] \in Trusted

(* ReplayedClosed: the retained outcome is emitted again, or refused. *)
Replay(r) ==
  /\ pc[r] = "replay"
  /\ \/ OriginAccepted(ticket[r]) /\ pc' = [pc EXCEPT ![r] = "done"]
          /\ UNCHANGED verdict
     \/ ~OriginAccepted(ticket[r]) /\ Refuse(r, "invalid_origin")
  /\ UNCHANGED <<vars, link, picked, ticket, home, sent, replyVars, expiryVars>>

(* Emit(dest, msg) for the freshly parked request r. *)
EmitRequest(r) ==
  /\ pc[r] = "emit"
  /\ \/ /\ pc' = [pc EXCEPT ![r] = "done"]
        /\ sent' = sent \cup {ticket[r]}
     \/ /\ pc' = [pc EXCEPT ![r] = "release"]
        /\ sent' \in {sent, sent \cup {ticket[r]}}
  /\ UNCHANGED <<vars, link, picked, ticket, home, verdict, replyVars, expiryVars>>

(* The emission failed: Release(key), then the error is returned. *)
ReleaseRequest(r) ==
  /\ pc[r] = "release"
  /\ Refuse(r, "emit_failed")
  /\ \/ Release(KeyOf[r])
     \/ (state = "closed" \/ store[KeyOf[r]] = None) /\ UNCHANGED vars
  /\ UNCHANGED <<link, picked, ticket, home, sent, replyVars, expiryVars>>

-----------------------------------------------------------------------------
(* The destination answers the request sent for t, possibly more than once. *)
DestinationReplies(t) ==
  /\ t \in sent
  /\ replies[t] < MaxReplies
  /\ replies' = [replies EXCEPT ![t] = @ + 1]
  /\ wire' = wire \cup {tkey[t]}
  /\ UNCHANGED <<vars, link, requestVars, sent, responding, responses, unmatched,
                 expiryVars>>

(* handleReply up to Redeem.  The bus may deliver a reply again later.  A  *)
(* reply without a key leaves on the error port and touches nothing.       *)
HandleReply(k) ==
  /\ k \in wire
  /\ wire' \in {wire, wire \ {k}}
  /\ \/ /\ Redeem(k)
        /\ responding' = responding \cup {store[k]}
        /\ UNCHANGED unmatched
     \/ /\ RedeemResult(k) \in {"ErrUnmatched", "ErrAlreadyRedeemed"}
        /\ unmatched' = unmatched \cup {k}
        /\ UNCHANGED <<vars, responding>>
     \/ /\ RedeemResult(k) = "ErrClosed"
        /\ UNCHANGED <<vars, responding, unmatched>>
  /\ UNCHANGED <<link, requestVars, sent, replies, responses, expiryVars>>

(* Variant: the response is emitted once per attempt, not once per ticket. *)
EmitResponsePerAttempt(t) ==
  /\ t \in responding
  /\ responding' = responding \ {t}
  /\ \/ /\ OriginAccepted(t)
        /\ responses' = [responses EXCEPT ![t] =
                           @ + Cardinality({r \in Requests : ticket[r] = t})]
        /\ UNCHANGED verdict
     \/ /\ ~OriginAccepted(t)
        /\ verdict' = [verdict EXCEPT ![home[t]] = "invalid_origin"]
        /\ UNCHANGED responses
  /\ UNCHANGED <<vars, link, pc, picked, ticket, home, sent, replies, wire, unmatched,
                 expiryVars>>

(* The rest of handleReply: the response goes home, or is refused. *)
EmitResponse(t) ==
  /\ t \in responding
  /\ responding' = responding \ {t}
  /\ \/ /\ OriginAccepted(t)
        /\ responses' = [responses EXCEPT ![t] = @ + 1]
        /\ UNCHANGED verdict
     \/ /\ ~OriginAccepted(t)
        /\ verdict' = [verdict EXCEPT ![home[t]] = "invalid_origin"]
        /\ UNCHANGED responses
  /\ UNCHANGED <<vars, link, pc, picked, ticket, home, sent, replies, wire, unmatched,
                 expiryVars>>

-----------------------------------------------------------------------------
(* onExpire takes a slot of expireSem ... *)
ExpiryTakesSlot(t) ==
  /\ t \in calling \ expiring
  /\ Cardinality(expiring) < ExpirySlots
  /\ expiring' = expiring \cup {t}
  /\ UNCHANGED <<vars, link, requestVars, sent, replyVars, timeouts>>

(* Variant: the slot is kept. *)
ExpiryKeepsSlot(t) ==
  /\ t \in expiring
  /\ OnExpire(t)
  /\ timeouts' = [timeouts EXCEPT ![t] = @ + 1]
  /\ UNCHANGED <<link, requestVars, sent, replyVars, expiring>>

(* ... emits the parked request on the error port and gives the slot back. *)
ExpiryEmits(t) ==
  /\ t \in expiring
  /\ OnExpire(t)
  /\ expiring' = expiring \ {t}
  /\ timeouts' = [timeouts EXCEPT ![t] = @ + 1]
  /\ UNCHANGED <<link, requestVars, sent, replyVars>>

(* Steps of the engine the handlers take no part in. *)
EngineStep ==
  /\ \/ \E t \in Tickets : Fire(t) \/ ExpireOpen(t) \/ ExpireStale(t) \/ Purge(t)
     \/ \E c \in Drains : DrainStep(c)
     \/ Close
  /\ UNCHANGED cvars

RequestStep(r) ==
  \/ RouteRequest(r)
  \/ ParkNew(r)
  \/ ParkAnswered(r)
  \/ Replay(r)
  \/ EmitRequest(r)
  \/ ReleaseRequest(r)

CNext ==
  \/ \E d \in Dests : LinkState(d)
  \/ \E r \in Requests : RequestStep(r)
  \/ \E t \in Tickets : DestinationReplies(t) \/ EmitResponse(t)
                          \/ ExpiryTakesSlot(t) \/ ExpiryEmits(t)
  \/ \E k \in Keys : HandleReply(k)
  \/ EngineStep

CSpec == CInit /\ [][CNext]_allvars

(***************************************************************************)
(* Handlers, timer goroutines and callbacks run on; destinations need not  *)
(* answer, links need not come up, nobody need drain or close.             *)
(***************************************************************************)
CFairness ==
  /\ \A r \in Requests : WF_allvars(RequestStep(r))
  /\ \A t \in Tickets :
       /\ WF_allvars(Fire(t) /\ UNCHANGED cvars)
       /\ WF_allvars((ExpireOpen(t) \/ ExpireStale(t)) /\ UNCHANGED cvars)
       /\ WF_allvars(EmitResponse(t))
       /\ WF_allvars(ExpiryTakesSlot(t))
       /\ WF_allvars(ExpiryEmits(t))

CFairSpec == CSpec /\ CFairness

-----------------------------------------------------------------------------
(***************************************************************************)
(* A request gets one verdict: its response and its timeout exclude each   *)
(* other and neither is emitted twice, however a reply, the expiry timer,  *)
(* a retransmission and a failed emission of the same key interleave.      *)
(***************************************************************************)
OneVerdict == \A t \in Tickets : responses[t] + timeouts[t] <= 1

(***************************************************************************)
(* handleRequest parks "before emit so a fast reply can never race an      *)
(* absent ticket": a reply is unmatched only after a ticket of its key has *)
(* settled, never because its request is not parked yet.                   *)
(***************************************************************************)
UnmatchedOnlyAfterSettling ==
  \A k \in unmatched : \E t \in Tickets :
    tkey[t] = k /\ tstate[t] \in {"closed", "expired", "released"}

(***************************************************************************)
(* A response leaves only for a ticket that a reply redeemed, and a        *)
(* timeout only for a ticket that no reply redeemed: the two goroutines    *)
(* that emit them act on what the engine decided under its mutex.          *)
(***************************************************************************)
VerdictMatchesTicket ==
  \A t \in Tickets :
    /\ t \in responding \/ responses[t] > 0 => tstate[t] = "closed"
    /\ t \in expiring \/ timeouts[t] > 0 => tstate[t] = "expired"

(***************************************************************************)
(* What leaves the conductor is what the engine decided: a verdict follows *)
(* its ticket and a reply is unmatched only when it came too late.         *)
(***************************************************************************)
VerdictsSound ==
  ConductorTypeOK /\ UnmatchedOnlyAfterSettling /\ VerdictMatchesTicket

(***************************************************************************)
(* Every parked request gets its verdict: a response, a timeout, or a      *)
(* refusal, unless its ticket is released or the engine is closed.  The    *)
(* expiry semaphore delays timeouts and never stops them.                  *)
(***************************************************************************)
VerdictDelivered ==
  \A t \in Tickets : tstate[t] = "open" ~>
    \/ responses[t] + timeouts[t] > 0
    \/ tstate[t] = "released"
    \/ tstate[t] = "closed" /\ ~OriginAccepted(t)
    \/ state = "closed"

(***************************************************************************)
(* TicketReleased's comment: "no request was ever actually sent for this   *)
(* ticket".                                                                *)
(***************************************************************************)
ReleasedNeverSent == \A t \in Tickets : tstate[t] = "released" => t \notin sent

(***************************************************************************)
(* Park's comment on AttachedOpen: "do not route again, the eventual reply *)
(* answers both attempts".  So the ticket that absorbed a retransmission   *)
(* is not withdrawn.                                                       *)
(***************************************************************************)
AttachedIsAnswered ==
  \A r \in Requests : pc[r] = "absorbed" => tstate[ticket[r]] # "released"
=============================================================================
