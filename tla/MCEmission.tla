----------------------------- MODULE MCEmission -----------------------------
(***************************************************************************)
(* Where an emission goes and whether it gets there: a behaviour is one of *)
(* a destination tree, which picks the port, or one of the outbox, with    *)
(* progress.                                                               *)
(***************************************************************************)
EXTENDS Outbox, DestTree

(* Gear "a" emits 1 and 2 on subject "s"; gear "b" emits 3, on "s" too or  *)
(* on "t"; gear "c" emits 4.                                               *)
MCGearOf == [i \in Items |-> IF i <= 2 THEN "a" ELSE IF i = 3 THEN "b" ELSE "c"]
OneSubject == [i \in Items |-> "s"]
TwoSubjects == [i \in Items |-> IF i <= 2 THEN "s" ELSE "t"]

Node(k, cs) == [root |-> "n", kind |-> [n |-> k], children |-> [n |-> cs]]
Nested(k, cs, j, ds) == [root |-> "n", kind |-> [n |-> k, m |-> j], children |-> [n |-> cs, m |-> ds]]

AllPorts == {"a", "b", "c"}
SomeTrees ==
  {Node("least_loaded", <<"a", "b", "c">>),
   Nested("round_robin", <<"m", "c">>, "failover", <<"a", "b">>),
   Nested("failover", <<"m", "c">>, "least_loaded", <<"a", "b">>),
   Nested("least_loaded", <<"m", "c">>, "round_robin", <<"a", "b">>)}

VARIABLE part   \* "tree" or "outbox"

EmissionInit ==
  /\ Init /\ TreeInit
  /\ part \in {"tree", "outbox"}
  /\ IF part = "tree" THEN bus = "none" ELSE up = {} /\ tree = CHOOSE t \in Trees : TRUE

EmissionNext ==
  /\ UNCHANGED part
  /\ \/ part = "outbox" /\ Next /\ UNCHANGED tvars
     \/ part = "tree" /\ TreeNext /\ UNCHANGED vars

(* An outbox to which nobody emits has no fair step, so Fairness asks for  *)
(* nothing while a tree runs.                                              *)
EmissionSpec == EmissionInit /\ [][EmissionNext]_<<vars, tvars, part>> /\ Fairness
=============================================================================
