----------------------------- MODULE MCServices -----------------------------
(***************************************************************************)
(* What starts, connects and subscribes on a Rack, with progress: a        *)
(* behaviour is one of the runtime, of a client link and the conductor     *)
(* that senses it, of a reader of the event stream, or of the Bento gear.  *)
(***************************************************************************)
EXTENDS Runtime, Uplink, EventReader, BentoGear

CONSTANTS push, promotion, conductor, client

(* Both scenarios have the two gears.  The one pushed has two bus wires of    *)
(* one subject and a wire on the lane; the cached one a single bus wire.      *)
MCGearsOf == [c \in {push, promotion} |-> {conductor, client}]

MCWiresOf ==
  [c \in {push, promotion} |->
     {[to |-> conductor, subject |-> "in", lane |-> "guaranteed"]} \cup
     IF c = push
     THEN {[to |-> client, subject |-> "in", lane |-> "guaranteed"],
           [to |-> client, subject |-> "out", lane |-> "hot"]}
     ELSE {}]

VARIABLE part   \* the one that runs
servicesVars == <<runtimeVars, uplinkVars, rvars, bvars, part>>

ServicesInit ==
  /\ NewManager /\ UplinkInit /\ ReaderInit /\ BentoInit
  /\ part \in {"runtime", "uplink", "reader", "bento"}
  /\ part = "uplink" \/ kind = "iso"

ServicesNext ==
  /\ UNCHANGED part
  /\ \/ part = "runtime" /\ RuntimeNext /\ UNCHANGED <<uplinkVars, rvars, bvars>>
     \/ part = "uplink" /\ UplinkNext /\ UNCHANGED <<runtimeVars, rvars, bvars>>
     \/ part = "reader" /\ ReaderNext /\ UNCHANGED <<runtimeVars, uplinkVars, bvars>>
     \/ part = "bento" /\ BentoNext /\ UNCHANGED <<runtimeVars, uplinkVars, rvars>>

(* The fairness of each, while it runs.  A Manager without a call has      *)
(* nothing to do, so RuntimeFairness asks for nothing elsewhere.           *)
Up == part = "uplink"
Reading == part = "reader"
ServicesFairness ==
  /\ RuntimeFairness
  /\ WF_uplinkVars(Up /\ runLoop) /\ WF_uplinkVars(Up /\ ReadEnds /\ ~upOpen)
  /\ WF_uplinkVars(Up /\ StopUplinkLoad) /\ WF_uplinkVars(Up /\ Deliver)
  /\ WF_uplinkVars(Up /\ StartConductor) /\ WF_uplinkVars(Up /\ Sense)
  /\ WF_rvars(Reading /\ Open) /\ WF_rvars(Reading /\ NextReopens)
  /\ WF_rvars(Reading /\ conn = 0 /\ Reconnect)

ServicesSpec == ServicesInit /\ [][ServicesNext]_servicesVars /\ ServicesFairness

(* Once the link settles, the conductor's view of its port is its state,   *)
(* and the goroutine of a stopped ISO 8583 client ends.                    *)
UplinkSettles == Up => LinkSensed /\ ClientEnds

(* A reader of the event stream comes back to reading, again and again.    *)
ReaderComesBack == Reading => ReaderReopens
==============================================================================
