----------------------------- MODULE MCHotLane -----------------------------
(***************************************************************************)
(* Instances of HotLane.  Source "src" emits on "a", to which "x" and "y"  *)
(* listen.  In the fan-out x forwards to "b", to which nobody listens; in  *)
(* the cycle it forwards to "a", and so to itself and to y: the shortest   *)
(* cycle in which a full queue waits for its own consumer.                 *)
(***************************************************************************)
EXTENDS HotLane

FanSubjectOf == [p \in Publishers |-> "a"]
FanForwards == [s \in Subs |-> IF s = "x" THEN "b" ELSE None]
CycleForwards == [s \in Subs |-> IF s = "x" THEN "a" ELSE None]
=============================================================================
