------------------------------ MODULE MCControl ------------------------------
(***************************************************************************)
(* Racks that come and go, with progress: a behaviour is one of the        *)
(* sessions of a Rack, or one of the registry with its sweeps.             *)
(***************************************************************************)
EXTENDS RackSession, Registry, TLC

CONSTANTS m1, m3, a, b, s1

(* The registry starts with a single Rack, m1, called a.                   *)
OneRackInit ==
  /\ RegistryInit
  /\ names = (a :> m1) @@ (b :> Nil)
  /\ \A m \in Machines : Present(m) <=> m = m1
  /\ recs[m1].secret = s1

VARIABLE part   \* the one that runs
controlVars == <<sessionVars, regVars, part>>

ControlInit == SessionInit /\ OneRackInit /\ part \in {"session", "registry"}

ControlNext ==
  /\ UNCHANGED part
  /\ \/ part = "session" /\ SessionNext /\ UNCHANGED regVars
     \/ part = "registry" /\ RegistryNext /\ UNCHANGED sessionVars

(* The fairness of each, while it runs.  A Rack without a session has      *)
(* nothing to do, so SessionFairness asks for nothing elsewhere.           *)
Registering == part = "registry"
ControlFairness ==
  /\ SessionFairness
  /\ \A p \in Procs : /\ WF_regVars(Registering /\ Proceeds(p))
                      /\ WF_regVars(Registering /\ BeginSweep(p))
  /\ \A m \in Machines : WF_regVars(Registering /\ Ages(m))

ControlSpec == ControlInit /\ [][ControlNext]_controlVars /\ ControlFairness

(* The sweeps bring the registry back to a consistent state for good,      *)
(* whatever was cut short and whatever ran at once.                        *)
SweepsRepair == Registering => SweepConverges
==============================================================================
