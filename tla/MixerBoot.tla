------------------------------- MODULE MixerBoot -------------------------------
(* What a Mixer keeps on disk and what its start, its repair and its operator  *)
(* do to it: the cluster key and the identity it signs (pkg/mixer/app.go,      *)
(* pkg/pki/state.go), the encrypted message store and its marker               *)
(* (pkg/snake/server.go), and --repair (pkg/mixer/repair.go, pkg/snake).       *)
(* Keys and identities are numbered in the order they are generated; 0 is a    *)
(* file that is missing or does not load, and the key of a store in clear.     *)
EXTENDS Naturals, FiniteSets

CONSTANTS
  Streams,        \* streams the Mixer manages
  MsgStream,      \* the one NewServer provisions, snake.stream_name
  MaxKeys,        \* bound on the cluster keys generated
  MaxMsgs,        \* bound on the messages of a stream
  MaxBootFaults,      \* bound on crashes, failed calls and damaged streams
  MaxChanges,     \* bound on what the operator changes
  Decrypting      \* the operator may turn snake.store_encryption off

ASSUME BootAssumption == MsgStream \in Streams /\ MaxKeys \in Nat

VARIABLES
  keyFile,        \* the cluster key on disk
  mixerFlux,      \* the identity on disk: [id, by], by the key that signed it
  generated,      \* cluster keys generated so far
  ids,            \* identities generated so far
  stored,         \* [Streams -> [there, msgs, subjects, limits, damaged]];
                  \* limits: it has those of the configuration
  storeKey,       \* the key the store on disk is encrypted with
  marker,         \* .store-encrypted
  cfg,            \* [encrypt, own, old, subjects]: the configuration
  bootPc,             \* where the process is
  key, machine,   \* its cluster key and identity
  opened,         \* how its server found the store
  force, report,  \* --force, and what Diagnose found
  verdict,        \* exit code of the last repair, 9 for none
  firstId,        \* the identity the Mixer was first ready with
  keyTouched,     \* the operator has changed the cluster key since
  bootFaults, changes

diskVars == <<keyFile, mixerFlux, generated, ids, stored, storeKey, marker>>
procVars == <<bootPc, key, machine, opened, force, report>>
bootVars == <<diskVars, cfg, procVars, verdict, firstId, keyTouched, bootFaults, changes>>

OwnKey == MaxKeys + 1       \* the key in snake.store_key_file
HealthyState == 0
Drift == 1
Absent == 2
Unreadable == 3
RepairOK == 0
RepairNeedsForce == 1
RepairFailed == 2
NoVerdict == 9

NoStream == [there |-> FALSE, msgs |-> 0, subjects |-> 0, limits |-> TRUE, damaged |-> FALSE]

BootTypeOK ==
  /\ keyFile \in 0..MaxKeys /\ generated \in 0..MaxKeys
  /\ mixerFlux \in [id : 0..ids, by : 0..MaxKeys]
  /\ stored \in [Streams -> [there : BOOLEAN, msgs : 0..MaxMsgs, subjects : {0, 1},
                             limits : BOOLEAN, damaged : BOOLEAN]]
  /\ storeKey \in 0..OwnKey /\ marker \in BOOLEAN
  /\ opened \in {"no", "ok", "empty", "closed"}
  /\ verdict \in {RepairOK, RepairNeedsForce, RepairFailed, NoVerdict}

BootInit ==
  /\ keyFile = 0 /\ mixerFlux = [id |-> 0, by |-> 0] /\ generated = 0 /\ ids = 0
  /\ stored = [s \in Streams |-> NoStream] /\ storeKey = 0 /\ marker = FALSE
  /\ cfg \in [encrypt : IF Decrypting THEN BOOLEAN ELSE {TRUE}, own : {FALSE}, old : {0}, subjects : {0}]
  /\ bootPc = "down" /\ key = 0 /\ machine = 0 /\ opened = "no" /\ force = FALSE
  /\ report = [s \in Streams |-> HealthyState]
  /\ verdict = NoVerdict /\ firstId = 0 /\ keyTouched = FALSE /\ bootFaults = 0 /\ changes = 0

BootGoes(a, b) == bootPc = a /\ bootPc' = b
Exit == bootPc' = "down" /\ opened' = "no" /\ key' = 0 /\ machine' = 0
Fault == bootFaults < MaxBootFaults /\ bootFaults' = bootFaults + 1

--------------------------------------------------------------------------------
(* resolveStoreKeys: off, the operator's key file, or derived from the cluster *)
(* key; and the previous key of a rotation.                                    *)
StoreKey(k) == IF ~cfg.encrypt THEN 0 ELSE IF cfg.own THEN OwnKey ELSE k
StoreOldKey == IF cfg.encrypt THEN cfg.old ELSE 0

(* What the server makes of the store: with a key it converts one in clear or  *)
(* under the old key, and does not open one under another; without a key an    *)
(* encrypted store looks empty.                                                *)
Open(k, old) ==
  IF storeKey = k THEN "ok"
  ELSE IF k = 0 THEN "empty"
  ELSE IF storeKey = 0 \/ storeKey = old THEN "ok" ELSE "closed"

(* NewServer up to readiness.                                                  *)
OpenStore(next) ==
  LET k == StoreKey(key)  o == Open(k, StoreOldKey) IN
    IF k = 0 /\ marker THEN Exit /\ UNCHANGED storeKey
    ELSE /\ opened' = o /\ bootPc' = next /\ UNCHANGED <<key, machine>>
         /\ storeKey' = IF o = "ok" THEN k ELSE storeKey

Visible(s) == opened = "ok" /\ stored[s].there

(* CreateStream; on a server that found the store empty, in place of what is   *)
(* in it.                                                                      *)
New == [there |-> TRUE, msgs |-> 0, subjects |-> cfg.subjects, limits |-> TRUE, damaged |-> FALSE]
Update(s) == [stored[s] EXCEPT !.subjects = cfg.subjects, !.limits = TRUE]

(* provisionStream: update one that is there, create one that is not.          *)
Provision(ss) ==
  /\ stored' = [s \in Streams |->
                  IF s \in ss
                  THEN IF Visible(s) THEN Update(s) ELSE New
                  ELSE IF opened = "empty" THEN NoStream ELSE stored[s]]
  /\ storeKey' = IF opened = "empty" THEN 0 ELSE storeKey
  /\ opened' = "ok"

--------------------------------------------------------------------------------
(* App.Run: open the database, then load the cluster key or make a new one.    *)
Boot ==
  /\ BootGoes("down", "key")
  /\ UNCHANGED <<diskVars, cfg, key, machine, opened, force, report, verdict, firstId, keyTouched, bootFaults, changes>>

HasClusterKey == keyFile # 0
GenerateClusterKey == generated < MaxKeys /\ generated' = generated + 1 /\ keyFile' = generated'

LoadClusterKey ==
  /\ BootGoes("key", "identity")
  /\ IF HasClusterKey THEN key' = keyFile /\ UNCHANGED <<keyFile, generated>>
     ELSE GenerateClusterKey /\ key' = keyFile'
  /\ UNCHANGED <<mixerFlux, ids, stored, storeKey, marker, cfg, machine, opened, force, report,
                 verdict, firstId, keyTouched, bootFaults, changes>>

MixerFluxValid == mixerFlux.id # 0 /\ mixerFlux.by = key

\* Variant of LoadMixerState: the new passport is kept in memory only.
LoadMixerStateUnsaved ==
  /\ BootGoes("identity", "open")
  /\ IF MixerFluxValid
     THEN machine' = mixerFlux.id /\ UNCHANGED <<mixerFlux, ids>>
     ELSE ids' = ids + 1 /\ machine' = ids' /\ UNCHANGED mixerFlux
  /\ UNCHANGED <<keyFile, generated, stored, storeKey, marker, cfg, key, opened, force, report,
                 verdict, firstId, keyTouched, bootFaults, changes>>

(* LoadMixerState, or a new identity where the passport is missing or signed   *)
(* by another key.                                                             *)
LoadMixerState ==
  /\ BootGoes("identity", "open")
  /\ IF MixerFluxValid
     THEN machine' = mixerFlux.id /\ UNCHANGED <<mixerFlux, ids>>
     ELSE ids' = ids + 1 /\ machine' = ids' /\ mixerFlux' = [id |-> ids', by |-> key]
  /\ UNCHANGED <<keyFile, generated, stored, storeKey, marker, cfg, key, opened, force, report,
                 verdict, firstId, keyTouched, bootFaults, changes>>

BootOpen ==
  /\ bootPc = "open" /\ OpenStore("provision")
  /\ UNCHANGED <<keyFile, mixerFlux, generated, ids, stored, marker, cfg, force, report, verdict, firstId, keyTouched, bootFaults, changes>>

(* The message stream; a store that did not open fails the start.              *)
ProvisionMessages ==
  /\ bootPc = "provision"
  /\ IF opened = "closed" THEN Exit /\ UNCHANGED <<stored, storeKey>>
     ELSE Provision({MsgStream}) /\ bootPc' = "marker" /\ UNCHANGED <<key, machine>>
  /\ UNCHANGED <<keyFile, mixerFlux, generated, ids, marker, cfg, force, report, verdict,
                 firstId, keyTouched, bootFaults, changes>>

WriteMarker ==
  /\ BootGoes("marker", "streams") /\ marker' = (marker \/ StoreKey(key) # 0)
  /\ UNCHANGED <<keyFile, mixerFlux, generated, ids, stored, storeKey, cfg, key, machine, opened, force,
                 report, verdict, firstId, keyTouched, bootFaults, changes>>

(* The telemetry, dead letter and event streams; a failure is only logged.     *)
ProvisionOthers ==
  /\ BootGoes("streams", "connect")
  /\ \/ Provision(Streams \ {MsgStream})
     \/ UNCHANGED <<stored, storeKey, opened>>
  /\ UNCHANGED <<keyFile, mixerFlux, generated, ids, marker, cfg, key, machine, force,
                 report, verdict, firstId, keyTouched, bootFaults, changes>>

Phase(a, b) ==
  /\ BootGoes(a, b)
  /\ UNCHANGED <<diskVars, cfg, key, machine, opened, force, report, verdict, firstId, keyTouched,
                 bootFaults, changes>>

(* The bus and the registry buckets.                                           *)
Connect == Phase("connect", "router")

(* Router.ConfigureJetStream: CreateOrUpdateStream with a day of age, whatever *)
(* is configured, and no limit in bytes.                                       *)
ConfigureJetStream ==
  /\ BootGoes("router", "serve")
  /\ stored' = [stored EXCEPT ![MsgStream] = [Update(MsgStream) EXCEPT !.limits = FALSE]]
  /\ UNCHANGED <<keyFile, mixerFlux, generated, ids, storeKey, marker, cfg, key, machine, opened,
                 force, report, verdict, firstId, keyTouched, bootFaults, changes>>

(* The controllers, ingest and retention, the Mixer's own entry, and the API's *)
(* listener, without which the Mixer does not start.                           *)
Ready ==
  /\ BootGoes("serve", "ready")
  /\ firstId' = IF firstId = 0 THEN machine ELSE firstId
  /\ UNCHANGED <<diskVars, cfg, key, machine, opened, force, report, verdict, keyTouched,
                 bootFaults, changes>>

(* A call of the start fails, a signal or a failed API ends Run, or it crashes.*)
Down ==
  /\ bootPc \notin {"down", "ready"} /\ Fault /\ Exit
  /\ UNCHANGED <<diskVars, cfg, force, report, verdict, firstId, keyTouched, changes>>

ShutdownMixer ==
  /\ bootPc = "ready" /\ Exit
  /\ UNCHANGED <<diskVars, cfg, force, report, verdict, firstId, keyTouched, bootFaults, changes>>

Stored(s) ==
  /\ bootPc = "ready" /\ stored[s].there /\ stored[s].msgs < MaxMsgs
  /\ stored' = [stored EXCEPT ![s].msgs = @ + 1]
  /\ UNCHANGED <<keyFile, mixerFlux, generated, ids, storeKey, marker, cfg, procVars, verdict,
                 firstId, keyTouched, bootFaults, changes>>

--------------------------------------------------------------------------------
(* Repair: the key is loaded and never made, the server starts without         *)
(* provisioning, and records its key.                                          *)
RepairBegin(f) ==
  /\ bootPc = "down" /\ force' = f
  /\ IF ~HasClusterKey THEN verdict' = RepairFailed /\ UNCHANGED <<bootPc, key>>
     ELSE bootPc' = "repair" /\ key' = keyFile /\ UNCHANGED verdict
  /\ UNCHANGED <<diskVars, cfg, machine, opened, report, firstId, keyTouched, bootFaults, changes>>

RepairOpen ==
  /\ bootPc = "repair" /\ OpenStore("diagnose")
  /\ marker' = (marker \/ StoreKey(key) # 0)
  /\ verdict' = IF StoreKey(key) = 0 /\ marker THEN RepairFailed ELSE verdict
  /\ UNCHANGED <<keyFile, mixerFlux, generated, ids, stored, cfg, force, report, firstId, keyTouched, bootFaults, changes>>

(* Diagnose: absent, then drifted, then unreadable, in that order.             *)
State(s) ==
  IF ~Visible(s) THEN Absent
  ELSE IF stored[s].subjects # cfg.subjects THEN Drift
  ELSE IF stored[s].msgs > 0 /\ stored[s].damaged THEN Unreadable
  ELSE HealthyState

Diagnose ==
  /\ BootGoes("diagnose", "fix") /\ report' = [s \in Streams |-> State(s)]
  /\ UNCHANGED <<diskVars, cfg, key, machine, opened, force, verdict, firstId, keyTouched, bootFaults, changes>>

NeedsForce == \E s \in Streams : report[s] = Unreadable

\* Variant of Blocked: an unreadable stream is recreated without --force.
BlockedNever == FALSE

Blocked == NeedsForce /\ ~force

(* snake.Repair: drift is updated, an absent stream created, an unreadable one *)
(* deleted and created.  A store that did not open takes no new stream.        *)
ApplyRepair ==
  /\ bootPc = "fix" /\ Exit
  /\ IF Blocked \/ opened = "closed"
     THEN /\ verdict' = IF Blocked THEN RepairNeedsForce ELSE RepairFailed
          /\ UNCHANGED <<stored, storeKey>>
     ELSE /\ verdict' = RepairOK
          /\ storeKey' = IF opened = "empty" THEN 0 ELSE storeKey
          /\ stored' = [s \in Streams |->
               CASE report[s] = HealthyState -> stored[s]
                 [] report[s] = Drift -> [stored[s] EXCEPT !.subjects = cfg.subjects]
                 [] OTHER -> New]
  /\ UNCHANGED <<keyFile, mixerFlux, generated, ids, marker, cfg, force, report, firstId, keyTouched,
                 bootFaults, changes>>

--------------------------------------------------------------------------------
(* The operator, with the Mixer down: another setting, a key file of their     *)
(* own, the previous key of a rotation, other subjects; the cluster key lost   *)
(* or an earlier one put back.                                                 *)
Configure ==
  /\ bootPc = "down" /\ changes < MaxChanges /\ changes' = changes + 1
  /\ \/ Decrypting /\ cfg' = [cfg EXCEPT !.encrypt = ~@] /\ UNCHANGED <<keyFile, keyTouched>>
     \/ \E k \in 1..generated \cup {0, OwnKey} :
          cfg' = [cfg EXCEPT !.old = k] /\ UNCHANGED <<keyFile, keyTouched>>
     \/ cfg' \in {[cfg EXCEPT !.own = ~@], [cfg EXCEPT !.subjects = 1 - @]}
        /\ UNCHANGED <<keyFile, keyTouched>>
     \/ \E k \in 0..generated : keyFile' = k /\ keyTouched' = TRUE /\ UNCHANGED cfg
  /\ UNCHANGED <<mixerFlux, generated, ids, stored, storeKey, marker, procVars, verdict,
                 firstId, bootFaults>>

(* A block of a stream goes bad on disk.                                       *)
Damage(s) ==
  /\ bootPc = "down" /\ stored[s].msgs > 0 /\ Fault
  /\ stored' = [stored EXCEPT ![s].damaged = TRUE]
  /\ UNCHANGED <<keyFile, mixerFlux, generated, ids, storeKey, marker, cfg, procVars, verdict,
                 firstId, keyTouched, changes>>

BootNext ==
  \/ Boot \/ LoadClusterKey \/ LoadMixerState \/ BootOpen \/ ProvisionMessages \/ WriteMarker
  \/ ProvisionOthers \/ Connect \/ ConfigureJetStream \/ Ready \/ Down \/ ShutdownMixer
  \/ \E s \in Streams : Stored(s) \/ Damage(s)
  \/ \E f \in BOOLEAN : RepairBegin(f)
  \/ RepairOpen \/ Diagnose \/ ApplyRepair \/ Configure

BootSpec == BootInit /\ [][BootNext]_bootVars

--------------------------------------------------------------------------------
(* A start, failed or not, a key that changed or is missing, a rotation and a  *)
(* repair never lose a stored message; only a repair with --force does.        *)
KeptUnlessForced ==
  [][\A s \in Streams : stored'[s].msgs < stored[s].msgs => force /\ bootPc = "fix"]_bootVars

(* Wherever earlier starts were cut short, a Mixer that is ready has the       *)
(* identity it was first ready with, as long as nobody touched its key.        *)
IdentityKept == bootPc = "ready" /\ ~keyTouched => machine = firstId

(* A start or a repair keeps what the Mixer is and what it holds.              *)
BootKeeps == []BootTypeOK /\ []IdentityKept /\ KeptUnlessForced

(* Refuted when encryption can be turned off.  "Started without a key, the     *)
(* server would open an encrypted store and find it empty; the marker turns    *)
(* that into an error": the marker is written only after the store was         *)
(* converted and provisioned.                                                  *)
EncryptedIsRefused == opened = "empty" => \A s \in Streams : stored[s].msgs = 0

(* Refuted.  "0 means healthy or repaired": a stream that drifted and cannot   *)
(* be read is taken for drifted only.                                          *)
RepairedIsHealthy ==
  [][bootPc = "fix" /\ verdict' = RepairOK =>
       \A s \in Streams : stored'[s].there /\ ~(stored'[s].damaged /\ stored'[s].msgs > 0)]_bootVars

(* Refuted.  Of a store whose cluster key is missing, Repair says it "fails    *)
(* here with the same actionable error a normal boot gives"; a normal boot     *)
(* makes a new authority and a new identity.                                   *)
MissingKeyFailsBoot == [][generated' # generated => mixerFlux.id = 0]_bootVars

(* Refuted.  "An operator who lowers, or clears, a limit on an existing stream *)
(* expects the next start to apply it": the router, configured after the       *)
(* stream was provisioned, replaces its limits.                                *)
LimitsApplied == bootPc = "ready" => stored[MsgStream].limits
================================================================================
