---------------------------- MODULE MCConductor ----------------------------
(* Instances of Conductor for TLC. *)
EXTENDS Conductor, TLC

CONSTANTS r1, r2, r3, k1, k2

(* Retransmission: r1 and r2 carry the same key; r3 has none. *)
RetransmitKeyOf == (r1 :> k1) @@ (r2 :> k1) @@ (r3 :> None)

(* Competition: r1 and r2 are different requests. *)
CompeteKeyOf == (r1 :> k1) @@ (r2 :> k2)

TicketSymmetry == Permutations(Tickets)
=============================================================================
