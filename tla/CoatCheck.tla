------------------------------- MODULE CoatCheck -------------------------------
(* The coatcheck gear (pkg/gears/native/coatcheck): the store side parks the    *)
(* fields of a request under its correlation key and forwards it without them, *)
(* the restore side puts them back into the reply, the daemon emits a timeout   *)
(* for a coat nobody claimed.  The bucket is pkg/bus/nats_kv.go; its server is  *)
(* external.                                                                    *)
EXTENDS Naturals, Sequences, FiniteSets

CONSTANTS
  Requests,      \* 1..n
  KeyOf,         \* [Requests -> correlation keys]
  OnMissingCoat, \* "error", "drop" or "forward"
  MaxRestarts    \* bound on the restarts of the daemon

VARIABLES
  awaitStore,    \* config.AwaitStore
  parkedCoats,        \* where Process of each request is
  kv,            \* the bucket: key -> request whose coat it holds, 0 for none
  putAt,         \* key -> requests in the order their put landed
  replies,       \* <<request, coat>> of each reply emitted, 0 for no coat
  watch,         \* changes of the bucket on their way to the daemon
  watching,      \* the daemon runs
  timers,        \* d.timers: key -> request, 0 for none
  armed,         \* requests whose runtime timer is pending
  firing,        \* requests whose handleTimeout runs: "lock", "delete"
  timeouts,      \* requests whose timeout was emitted
  restarts

coatVars == <<awaitStore, parkedCoats, kv, putAt, replies, watch, watching, timers, armed,
              firing, timeouts, restarts>>

Keys == {KeyOf[r] : r \in Requests}

CoatInit ==
  /\ awaitStore \in BOOLEAN
  /\ parkedCoats = [r \in Requests |-> "new"]
  /\ kv = [k \in Keys |-> 0] /\ putAt = [k \in Keys |-> <<>>] /\ replies = {}
  /\ watch = <<>> /\ watching = TRUE /\ timers = [k \in Keys |-> 0]
  /\ armed = {} /\ firing = [r \in Requests |-> "no"] /\ timeouts = {} /\ restarts = 0

(* A change of the bucket is seen by a daemon that runs (deliver new).          *)
Changed(k, v) ==
  /\ kv' = [kv EXCEPT ![k] = v]
  /\ watch' = IF watching THEN Append(watch, <<k, v>>) ELSE watch

--------------------------------------------------------------------------------
(* StoreLogic.Process: with await_store the request waits for the put, without  *)
(* it the put is detached and the request is forwarded, stripped, at once.      *)
StoreBegin(r) ==
  /\ parkedCoats[r] = "new"
  /\ parkedCoats' = [parkedCoats EXCEPT ![r] = IF awaitStore THEN "putting" ELSE "detached"]
  /\ UNCHANGED <<awaitStore, kv, putAt, replies, watch, watching, timers, armed, firing,
                 timeouts, restarts>>

(* PutWithTTL: Create with the TTL, or Put over a live key.                     *)
PutLands(r) ==
  /\ parkedCoats[r] \in {"putting", "detached"}
  /\ parkedCoats' = [parkedCoats EXCEPT ![r] = "forwarded"]
  /\ Changed(KeyOf[r], r) /\ putAt' = [putAt EXCEPT ![KeyOf[r]] = Append(@, r)]
  /\ UNCHANGED <<awaitStore, replies, watching, timers, armed, firing, timeouts, restarts>>

\* Variant of PutFails: the awaited request is forwarded all the same.
PutFailsForwarded(r) ==
  /\ parkedCoats[r] \in {"putting", "detached"}
  /\ parkedCoats' = [parkedCoats EXCEPT ![r] = "forwarded"]
  /\ UNCHANGED <<awaitStore, kv, putAt, replies, watch, watching, timers, armed, firing,
                 timeouts, restarts>>

(* It fails, or store_timeout passes: the awaited request fails, a detached one *)
(* is forwarded already.                                                        *)
PutFails(r) ==
  /\ parkedCoats[r] \in {"putting", "detached"}
  /\ parkedCoats' = [parkedCoats EXCEPT ![r] = IF @ = "putting" THEN "failed" ELSE "forwarded"]
  /\ UNCHANGED <<awaitStore, kv, putAt, replies, watch, watching, timers, armed, firing,
                 timeouts, restarts>>

(* handleMissing: what the reply to r becomes without a coat.                   *)
handleMissing(r) == IF OnMissingCoat = "forward" THEN {<<r, 0>>} ELSE {}

(* RestoreLogic.Process for the reply to a forwarded request; the coat stays.   *)
Restore(r) ==
  /\ parkedCoats[r] \in {"detached", "forwarded"} /\ ~ \E p \in replies : p[1] = r
  /\ LET coat == kv[KeyOf[r]] IN
       replies' = replies \cup IF coat = 0 THEN handleMissing(r) ELSE {<<r, coat>>}
  /\ UNCHANGED <<awaitStore, parkedCoats, kv, putAt, watch, watching, timers, armed, firing,
                 timeouts, restarts>>

--------------------------------------------------------------------------------
Drop(k) == armed \ {timers[k]}

(* The daemon's callback: a value arms a timer, an empty one cancels it.        *)
scheduleExpiry ==
  /\ watch # <<>> /\ Head(watch)[2] # 0 /\ watch' = Tail(watch)
  /\ LET k == Head(watch)[1]  r == Head(watch)[2] IN
       /\ armed' = Drop(k) \cup {r}
       /\ timers' = [timers EXCEPT ![k] = r]
  /\ UNCHANGED <<awaitStore, parkedCoats, kv, putAt, replies, watching, firing, timeouts, restarts>>

cancelExpiry ==
  /\ watch # <<>> /\ Head(watch)[2] = 0 /\ watch' = Tail(watch)
  /\ LET k == Head(watch)[1] IN
       armed' = Drop(k) /\ timers' = [timers EXCEPT ![k] = 0]
  /\ UNCHANGED <<awaitStore, parkedCoats, kv, putAt, replies, watching, firing, timeouts, restarts>>

(* The runtime timer fires: from here Stop on it comes too late.                *)
TimerFires(r) ==
  /\ r \in armed /\ armed' = armed \ {r} /\ firing' = [firing EXCEPT ![r] = "lock"]
  /\ UNCHANGED <<awaitStore, parkedCoats, kv, putAt, replies, watch, watching, timers, timeouts,
                 restarts>>

(* handleTimeout: forget the key's timer, emit, then delete the key.            *)
handleTimeout(r) ==
  /\ firing[r] = "lock" /\ firing' = [firing EXCEPT ![r] = "delete"]
  /\ timers' = [timers EXCEPT ![KeyOf[r]] = 0] /\ timeouts' = timeouts \cup {r}
  /\ UNCHANGED <<awaitStore, parkedCoats, kv, putAt, replies, watch, watching, armed, restarts>>

DeleteExpired(r) ==
  /\ firing[r] = "delete" /\ firing' = [firing EXCEPT ![r] = "no"]
  /\ Changed(KeyOf[r], 0)
  /\ UNCHANGED <<awaitStore, parkedCoats, putAt, replies, watching, timers, armed, timeouts, restarts>>

(* The server drops an entry at its TTL; it may leave a marker, an empty value. *)
EntryExpires(k) ==
  /\ kv[k] # 0
  /\ \/ Changed(k, 0)
     \/ kv' = [kv EXCEPT ![k] = 0] /\ UNCHANGED watch
  /\ UNCHANGED <<awaitStore, parkedCoats, putAt, replies, watching, timers, armed, firing,
                 timeouts, restarts>>

(* Stop of the daemon, and Start of the next one, which sees only new changes.  *)
StopDaemon ==
  /\ watching /\ restarts < MaxRestarts /\ watching' = FALSE
  /\ watch' = <<>> /\ timers' = [k \in Keys |-> 0] /\ armed' = {}
  /\ UNCHANGED <<awaitStore, parkedCoats, kv, putAt, replies, firing, timeouts, restarts>>

StartDaemon ==
  /\ ~watching /\ watching' = TRUE /\ restarts' = restarts + 1
  /\ UNCHANGED <<awaitStore, parkedCoats, kv, putAt, replies, watch, timers, armed, firing, timeouts>>

CoatNext ==
  \/ \E r \in Requests : \/ StoreBegin(r) \/ PutLands(r) \/ PutFails(r) \/ Restore(r)
                         \/ TimerFires(r) \/ handleTimeout(r) \/ DeleteExpired(r)
  \/ scheduleExpiry \/ cancelExpiry
  \/ \E k \in Keys : EntryExpires(k)
  \/ StopDaemon \/ StartDaemon

CoatSpec == CoatInit /\ [][CoatNext]_coatVars

--------------------------------------------------------------------------------
PutIndices(r) == {i \in DOMAIN putAt[KeyOf[r]] : putAt[KeyOf[r]][i] = r}

(* A reply that is emitted is whole, whatever timers, expiries and other        *)
(* requests under its key did meanwhile: with await_store it carries the coat   *)
(* of its own request or of one parked under the key since; it goes out without *)
(* a coat only where on_missing is "forward".                                   *)
RepliesWhole ==
  \A p \in replies :
    IF p[2] = 0 THEN OnMissingCoat = "forward"
    ELSE /\ KeyOf[p[1]] = KeyOf[p[2]]
         /\ awaitStore => \E i \in PutIndices(p[1]), j \in PutIndices(p[2]) : i <= j

(* Refuted.  scheduleExpiry: "If timer exists, stop it (update)", so a coat     *)
(* parked again is not removed by the timeout of the one before it.             *)
ReparkSurvives ==
  [][\A r \in Requests : DeleteExpired(r) => kv[KeyOf[r]] \in {0, r}]_coatVars
================================================================================
