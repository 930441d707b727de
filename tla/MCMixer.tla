------------------------------ MODULE MCMixer ------------------------------
(***************************************************************************)
(* What the Mixer keeps: a behaviour is one of the registry, of the spec   *)
(* store, of the start and repair of the Mixer, or of its scenarios.       *)
(***************************************************************************)
EXTENDS Registry, SpecStore, MixerBoot, ScenarioControl, TLC

CONSTANTS m1, m3, a, b, s1

(* The registry starts with a single Rack, m1, called a; the removal of m3  *)
(* has left the key of b behind.                                           *)
OrphanInit ==
  /\ RegistryInit
  /\ names = (a :> m1) @@ (b :> m3)
  /\ \A m \in Machines : Present(m) <=> m = m1
  /\ recs[m1].secret = s1

(* Scenario "pinned" deploys to Rack "r1"; the other has a global gear.    *)
MCPins == [n \in Names |-> IF n = "pinned" THEN {"r1"} ELSE {}]
MCListed == MCPins

VARIABLE part   \* the one that runs
mixerVars == <<regVars, specVars, bootVars, vars, part>>

MixerInit ==
  /\ OrphanInit /\ SpecInit /\ BootInit /\ Init
  /\ part \in {"registry", "specs", "boot", "scenarios"}

MixerNext ==
  /\ UNCHANGED part
  /\ \/ part = "registry" /\ RegistryNext /\ UNCHANGED <<specVars, bootVars, vars>>
     \/ part = "specs" /\ SpecNext /\ UNCHANGED <<regVars, bootVars, vars>>
     \/ part = "boot" /\ BootNext /\ UNCHANGED <<regVars, specVars, vars>>
     \/ part = "scenarios" /\ Next /\ UNCHANGED <<regVars, specVars, bootVars>>

MixerSpec == MixerInit /\ [][MixerNext]_mixerVars

WorkerSymmetry == Permutations(Workers)
==============================================================================
