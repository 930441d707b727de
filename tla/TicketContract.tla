--------------------------- MODULE TicketContract ---------------------------
(***************************************************************************)
(* What the correlation engine of pkg/valet promises its caller, without   *)
(* locks, timers, counters or maps.  A ticket is opened for a key, settles *)
(* exactly once and never changes again; a key has at most one open        *)
(* ticket; the number of open tickets respects the configured bound; the   *)
(* expiry of a ticket is reported at most once and only if it expired.     *)
(* Closing the engine abandons the open tickets and ends all activity.     *)
(***************************************************************************)
EXTENDS Integers, FiniteSets

CONSTANTS
  Keys,         \* correlation keys
  Tickets,      \* ticket identities
  MaxInFlight,  \* bound on open tickets, 0 for none
  None          \* the key of a ticket that was never opened

VARIABLES
  life,         \* ticket -> stage of its life
  owner,        \* ticket -> the key it was opened for
  reported,     \* tickets whose expiry has been reported
  ended         \* has the engine been closed?

vars == <<life, owner, reported, ended>>

Outcomes == {"closed", "expired", "released"}

OpenTickets == {t \in Tickets : life[t] = "open"}

Init ==
  /\ life = [t \in Tickets |-> "unused"]
  /\ owner = [t \in Tickets |-> None]
  /\ reported = {}
  /\ ended = FALSE

Open(t, k) ==
  /\ ~ended
  /\ life[t] = "unused"
  /\ \A u \in OpenTickets : owner[u] # k
  /\ MaxInFlight > 0 => Cardinality(OpenTickets) < MaxInFlight
  /\ life' = [life EXCEPT ![t] = "open"]
  /\ owner' = [owner EXCEPT ![t] = k]
  /\ UNCHANGED <<reported, ended>>

Settle(t, outcome) ==
  /\ ~ended
  /\ life[t] = "open"
  /\ life' = [life EXCEPT ![t] = outcome]
  /\ UNCHANGED <<owner, reported, ended>>

Report(t) ==
  /\ life[t] = "expired"
  /\ t \notin reported
  /\ reported' = reported \cup {t}
  /\ UNCHANGED <<life, owner, ended>>

Abandon ==
  /\ ~ended
  /\ ended' = TRUE
  /\ life' = [t \in Tickets |-> IF life[t] = "open" THEN "dropped" ELSE life[t]]
  /\ UNCHANGED <<owner, reported>>

Next ==
  \/ \E t \in Tickets, k \in Keys : Open(t, k)
  \/ \E t \in Tickets, outcome \in Outcomes : Settle(t, outcome)
  \/ \E t \in Tickets : Report(t)
  \/ Abandon

Spec == Init /\ [][Next]_vars

(***************************************************************************)
(* The liveness half: an open ticket does not stay open for ever, and the  *)
(* expiry of a ticket is reported in the end.                              *)
(***************************************************************************)
FairSpec ==
  /\ Spec
  /\ \A t \in Tickets :
       /\ WF_vars(\E outcome \in Outcomes : Settle(t, outcome))
       /\ WF_vars(Report(t))
=============================================================================
