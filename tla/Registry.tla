------------------------------ MODULE Registry ------------------------------
(***************************************************************************)
(* The identity registry of the Mixer (pkg/registry/kvstore): the record   *)
(* of every Rack and the key of every name live in one JetStream bucket    *)
(* that the handlers write without a lock.  An operation is a sequence     *)
(* of single-key calls, and each call is one step here: registration with  *)
(* adoption, approval with a rename, removal, a change of status, and the  *)
(* sweep that repairs what an operation cut short leaves behind.  Another  *)
(* process, or a crash, may come between any two calls.                    *)
(*                                                                         *)
(* A revision matters only in "is the key still as I read it", so a        *)
(* process holds the set of keys of which it has the current revision, and *)
(* every write takes the key from the set of everyone else.  Time matters  *)
(* only in "was the record updated less than grace ago": a record is aged  *)
(* or it is not.                                                           *)
(***************************************************************************)
EXTENDS Naturals, FiniteSets

CONSTANTS
  Machines,      \* MachineIDs of Racks
  RackNames,         \* names of Racks
  NoName,        \* the empty name
  CallNames,     \* bound: the names given in calls
  Secrets,       \* bound: the secrets that fresh registrations issue
  Bootstrap,     \* the bootstrap secret
  AutoAdopt,     \* Store.autoAdopt
  Workers,       \* the handlers of enrollments and API calls
  Sweepers,      \* the sweepRegistry goroutine: one in the one Mixer
  WriteRetries,  \* Config.WriteRetries
  MaxOps,        \* bound: operations begun
  MaxRegistryCrashes,    \* bound: operations cut short
  Nil

Procs == Workers \cup Sweepers
RecordStatuses == {"pending", "active", "inactive"}
Records == [name : RackNames \cup {NoName}, status : RecordStatuses, secret : Secrets, aged : BOOLEAN]

ASSUME RegistryAssumption ==
  /\ IsFiniteSet(Machines) /\ IsFiniteSet(RackNames)
  /\ Machines \cap RackNames = {} /\ Workers \cap Sweepers = {}
  /\ \A p, q \in Sweepers : p = q
  /\ CallNames \subseteq RackNames \cup {NoName}
  /\ NoName \notin RackNames \cup Machines /\ Bootstrap \notin Secrets
  /\ Nil \notin Machines \cup RackNames \cup Records
  /\ AutoAdopt \in BOOLEAN
  /\ WriteRetries \in Nat /\ MaxOps \in Nat /\ MaxRegistryCrashes \in Nat

VARIABLES
  recs,     \* entity keys of the bucket: the record of a machine, or None
  names,    \* name keys: the machine a name points at, or None
  issued,   \* secrets generated
  answered, \* secrets that a registration has returned to a Rack
  proc,     \* per process: its operation and its local variables
  ops, registryCrashes,  \* counters of the bounds
  solid     \* history: names whose key was written to point at a record
            \* that carried the name, and that has carried it ever since

regVars == <<recs, names, issued, answered, proc, ops, registryCrashes, solid>>

IdleWorker == [op |-> "idle", pc |-> "", m |-> Nil, name |-> NoName, secret |-> Bootstrap,
         tries |-> 0, rec |-> Nil, holder |-> Nil, err |-> "", fresh |-> {},
         status |-> "active", old |-> {}, todo |-> {}, held |-> [m \in Machines |-> {}],
         settled |-> {}]

(* What a process knows: its operation, the next call of it and the values *)
(* it has read.                                                            *)
Locals ==
  [op : {"idle", "register", "approve", "remove", "removeName", "status", "sweep"},
   pc : {"", "get", "update", "resolve", "holder", "create", "adopt", "copy", "move",
         "moveCreate", "moveUpdate", "dropOld", "claim", "claimGet", "claimCheck",
         "claimTake", "undo", "release", "releaseDelete", "delete", "names",
         "nameRecord", "nameDelete", "records", "drop", "rollback"},
   m : Machines \cup {Nil}, name : RackNames \cup {NoName},
   secret : Secrets \cup {Bootstrap}, status : RecordStatuses, old : SUBSET RackNames,
   tries : 0..WriteRetries, rec : Records \cup {Nil}, holder : Machines \cup {Nil},
   err : {"", "conflict", "taken"}, fresh : SUBSET (Machines \cup RackNames),
   todo : SUBSET (Machines \cup RackNames), held : [Machines -> SUBSET RackNames],
   settled : SUBSET Machines]

(* Types of the bucket, the secrets and the processes. *)
RegistryTypeOK ==
  /\ recs \in [Machines -> Records \cup {Nil}]
  /\ names \in [RackNames -> Machines \cup {Nil}]
  /\ answered \subseteq issued /\ issued \subseteq Secrets
  /\ ops \in 0..MaxOps /\ registryCrashes \in 0..MaxRegistryCrashes
  /\ solid \subseteq RackNames
  /\ proc \in [Procs -> Locals]

(* A registry of Racks that have all finished registering: every record   *)
(* has a name whose key points at it.  A removal cut short may have left a *)
(* name key that points at a machine without a record.                    *)
RegistryInit ==
  /\ names \in [RackNames -> Machines \cup {Nil}]
  /\ \A n1, n2 \in RackNames : names[n1] = names[n2] /\ names[n1] # Nil => n1 = n2
  /\ \E s \in [Machines -> Secrets], live \in SUBSET {names[n] : n \in RackNames} :
       /\ \A x, y \in Machines : s[x] = s[y] => x = y
       /\ recs = [m \in Machines |->
            IF m \in live
            THEN [name |-> CHOOSE n \in RackNames : names[n] = m, status |-> "active",
                  secret |-> s[m], aged |-> TRUE]
            ELSE Nil]
  /\ issued = {recs[m].secret : m \in {x \in Machines : recs[x] # Nil}}
  /\ answered = issued
  /\ proc = [p \in Procs |-> IdleWorker]
  /\ ops = 0 /\ registryCrashes = 0
  /\ solid = {n \in RackNames : names[n] # Nil /\ recs[names[n]] # Nil}

-----------------------------------------------------------------------------
(* The bucket.  Each of these fixes recs, names, solid and proc, where     *)
(* next is what process p continues with.                                  *)

Reads(p, next) ==
  /\ proc' = [proc EXCEPT ![p] = next]
  /\ UNCHANGED <<recs, names, solid>>

WithoutRevision(p, key, next) ==
  [q \in Procs |-> IF q = p THEN next
                   ELSE [proc[q] EXCEPT !.fresh = @ \ {key}, !.settled = @ \ {key}]]

(* Create, Update or Delete of the record of m. *)
WritesRecord(p, m, r, next) ==
  /\ recs' = [recs EXCEPT ![m] = r]
  /\ solid' = {n \in solid : names[n] = m => r # Nil /\ r.name = n}
  /\ proc' = WithoutRevision(p, m, next)
  /\ UNCHANGED names

(* Create, Update or Delete of the key of name n. *)
WritesName(p, n, m, next) ==
  /\ names' = [names EXCEPT ![n] = m]
  /\ solid' = IF m # Nil /\ recs[m] # Nil /\ recs[m].name = n
              THEN solid \cup {n} ELSE solid \ {n}
  /\ proc' = WithoutRevision(p, n, next)
  /\ UNCHANGED recs

(* Variant: retries without end. *)
AgainAlways(l) ==
  [IdleWorker EXCEPT !.op = l.op, !.pc = "get", !.m = l.m, !.name = l.name,
               !.secret = l.secret, !.status = l.status, !.tries = l.tries + 1]

(* Store.retry after a revision conflict: the operation starts again, or   *)
(* gives up.                                                               *)
Again(l) ==
  IF l.tries < WriteRetries
  THEN [IdleWorker EXCEPT !.op = l.op, !.pc = "get", !.m = l.m, !.name = l.name,
                    !.secret = l.secret, !.status = l.status, !.tries = l.tries + 1]
  ELSE IdleWorker

At(p, op, pc) == proc[p].op = op /\ proc[p].pc = pc
Carries(m, n) == recs[m] # Nil /\ recs[m].name = n
opBounds == <<ops, registryCrashes>>
given == <<issued, answered>>

-----------------------------------------------------------------------------
(* RegisterEntity. *)

BeginRegister(p) ==
  /\ p \in Workers /\ proc[p].op = "idle" /\ ops < MaxOps
  /\ \E m \in Machines, n \in CallNames, s \in answered \cup {Bootstrap} :
       Reads(p, [IdleWorker EXCEPT !.op = "register", !.pc = "get", !.m = m, !.name = n, !.secret = s])
  /\ ops' = ops + 1
  /\ UNCHANGED <<given, registryCrashes>>

(* A known machine must present its own secret. *)
RegisterGets(p) ==
  /\ At(p, "register", "get")
  /\ LET l == proc[p] r == recs[l.m]
     IN  Reads(p, CASE r = Nil -> [l EXCEPT !.pc = IF l.name = NoName THEN "create" ELSE "resolve"]
                    [] r # Nil /\ r.secret # l.secret -> IdleWorker
                    [] OTHER -> [l EXCEPT !.pc = "update", !.fresh = {l.m},
                                          !.rec = [r EXCEPT !.aged = FALSE]])
  /\ UNCHANGED <<given, opBounds>>

(* The Update that ends a registration of a known machine, and a change   *)
(* of status.                                                             *)
Updates(p) ==
  /\ proc[p].op \in {"register", "status"} /\ proc[p].pc = "update"
  /\ LET l == proc[p]
     IN  IF l.m \in l.fresh THEN WritesRecord(p, l.m, l.rec, IdleWorker)
                            ELSE Reads(p, Again(l))
  /\ UNCHANGED <<given, opBounds>>

(* resolveName, first call: the name key. *)
RegisterResolves(p) ==
  /\ At(p, "register", "resolve")
  /\ LET l == proc[p] h == names[l.name]
     IN  Reads(p, IF h = Nil THEN [l EXCEPT !.pc = "create"]
                              ELSE [l EXCEPT !.pc = "holder", !.holder = h])
  /\ UNCHANGED <<given, opBounds>>

(* resolveName, second call: the holder's record; then adoption by the    *)
(* holder's secret, or a conflict.                                        *)
RegisterReadsHolder(p) ==
  /\ At(p, "register", "holder")
  /\ LET l == proc[p] h == l.holder
     IN  Reads(p, CASE ~Carries(h, l.name) -> [l EXCEPT !.pc = "create", !.holder = Nil]
                    [] Carries(h, l.name) /\ recs[h].secret = l.secret /\ h # l.m ->
                         [l EXCEPT !.pc = "adopt", !.rec = recs[h]]
                    [] OTHER -> IdleWorker)
  /\ UNCHANGED <<given, opBounds>>

(* A fresh registration: the record is created before the name is claimed. *)
RegisterCreates(p) ==
  /\ At(p, "register", "create")
  /\ LET l == proc[p]
     IN  \/ /\ l.secret # Bootstrap \/ issued = Secrets
            /\ Reads(p, IdleWorker)
            /\ UNCHANGED given
         \/ /\ l.secret = Bootstrap /\ recs[l.m] # Nil
            /\ Reads(p, Again(l))
            /\ UNCHANGED given
         \/ /\ l.secret = Bootstrap /\ recs[l.m] = Nil /\ issued # Secrets
            /\ LET s == CHOOSE x \in Secrets \ issued : TRUE
                   r == [name |-> l.name, secret |-> s, aged |-> FALSE,
                         status |-> IF AutoAdopt THEN "active" ELSE "pending"]
               IN  /\ WritesRecord(p, l.m, r, IF l.name = NoName THEN IdleWorker
                        ELSE [l EXCEPT !.pc = "claim", !.rec = r, !.fresh = {l.m}])
                   /\ issued' = issued \cup {s}
                   /\ answered' = IF l.name = NoName THEN answered \cup {s} ELSE answered
  /\ UNCHANGED opBounds

(* adopt: the revision of the holder's record is read again, *)
AdoptGets(p) ==
  /\ At(p, "register", "adopt")
  /\ LET l == proc[p]
     IN  Reads(p, IF recs[l.holder] = Nil THEN IdleWorker
                  ELSE [l EXCEPT !.pc = "copy", !.fresh = {l.holder}])
  /\ UNCHANGED <<given, opBounds>>

(* the record read before is created under the new machine, *)
AdoptCopies(p) ==
  /\ At(p, "register", "copy")
  /\ LET l == proc[p]
     IN  IF recs[l.m] # Nil THEN Reads(p, Again(l))
         ELSE WritesRecord(p, l.m, [l.rec EXCEPT !.aged = FALSE],
                           [l EXCEPT !.pc = "move", !.fresh = @ \cup {l.m}])
  /\ UNCHANGED <<given, opBounds>>

(* moveName repoints the name if it still points at the old machine, *)
AdoptReadsName(p) ==
  /\ At(p, "register", "move")
  /\ LET l == proc[p] h == names[l.name]
     IN  Reads(p, CASE h = Nil -> [l EXCEPT !.pc = "moveCreate"]
                    [] h = l.holder -> [l EXCEPT !.pc = "moveUpdate", !.fresh = @ \cup {l.name}]
                    [] OTHER -> [l EXCEPT !.pc = "undo", !.err = "conflict"])
  /\ UNCHANGED <<given, opBounds>>

AdoptMovesName(p) ==
  /\ proc[p].op = "register" /\ proc[p].pc \in {"moveCreate", "moveUpdate"}
  /\ LET l == proc[p]
     IN  IF (l.pc = "moveCreate" /\ names[l.name] = Nil) \/ (l.pc = "moveUpdate" /\ l.name \in l.fresh)
         THEN WritesName(p, l.name, l.m, [l EXCEPT !.pc = "dropOld"])
         ELSE Reads(p, [l EXCEPT !.pc = "undo", !.err = "conflict"])
  /\ UNCHANGED <<given, opBounds>>

(* and the old record is deleted; a conflict here is ignored. *)
AdoptDropsOld(p) ==
  /\ At(p, "register", "dropOld")
  /\ LET l == proc[p]
     IN  IF l.holder \in l.fresh THEN WritesRecord(p, l.holder, Nil, IdleWorker)
                                 ELSE Reads(p, IdleWorker)
  /\ UNCHANGED <<given, opBounds>>

-----------------------------------------------------------------------------
(* claimName, for a registration, a rename and the sweep. *)

(* What follows a claim that succeeded. *)
Claimed(l) ==
  CASE l.op = "register" -> IdleWorker
    [] l.op = "approve" -> [IdleWorker EXCEPT !.op = l.op, !.pc = "release", !.m = l.m, !.old = {l.rec.name} \ {NoName}]
    [] l.op = "sweep" -> [l EXCEPT !.pc = "release", !.old = l.held[l.m]]

(* What follows one that failed. *)
NotClaimed(l, why) ==
  CASE l.op # "sweep" -> [l EXCEPT !.pc = "undo", !.err = why]
    [] l.op = "sweep" /\ why = "taken" -> [l EXCEPT !.pc = "rollback"]
    [] OTHER -> IdleWorker

Answers(l) == answered' = IF l.op = "register" THEN answered \cup {l.rec.secret} ELSE answered

ClaimCreates(p) ==
  /\ proc[p].pc = "claim"
  /\ LET l == proc[p]
     IN  IF names[l.name] = Nil
         THEN WritesName(p, l.name, l.m, Claimed(l)) /\ Answers(l)
         ELSE Reads(p, [l EXCEPT !.pc = "claimGet"]) /\ UNCHANGED answered
  /\ UNCHANGED <<issued, opBounds>>

ClaimGets(p) ==
  /\ proc[p].pc = "claimGet"
  /\ LET l == proc[p] h == names[l.name]
     IN  CASE h = Nil -> Reads(p, NotClaimed(l, "conflict")) /\ UNCHANGED answered
           [] h = l.m  -> Reads(p, Claimed(l)) /\ Answers(l)
           [] OTHER    -> /\ Reads(p, [l EXCEPT !.pc = "claimCheck", !.holder = h,
                                                !.fresh = @ \cup {l.name}])
                          /\ UNCHANGED answered
  /\ UNCHANGED <<issued, opBounds>>

(* The orphan test: the holder is gone or does not carry the name. *)
ClaimChecks(p) ==
  /\ proc[p].pc = "claimCheck"
  /\ LET l == proc[p]
     IN  Reads(p, IF Carries(l.holder, l.name) THEN NotClaimed(l, "taken")
                                               ELSE [l EXCEPT !.pc = "claimTake"])
  /\ UNCHANGED <<given, opBounds>>

(* Variant: takes an orphan key whatever its revision. *)
ClaimTakesUnchecked(p) ==
  /\ proc[p].pc = "claimTake"
  /\ LET l == proc[p]
     IN  WritesName(p, l.name, l.m, Claimed(l)) /\ Answers(l)
  /\ UNCHANGED <<issued, opBounds>>

(* The takeover of an orphan key, if nobody has written it since. *)
ClaimTakes(p) ==
  /\ proc[p].pc = "claimTake"
  /\ LET l == proc[p]
     IN  IF l.name \in l.fresh
         THEN WritesName(p, l.name, l.m, Claimed(l)) /\ Answers(l)
         ELSE Reads(p, NotClaimed(l, "conflict")) /\ UNCHANGED answered
  /\ UNCHANGED <<issued, opBounds>>

(* A registration deletes the record it created, an approval puts back   *)
(* the record it read; a conflict here is ignored.                        *)
Undoes(p) ==
  /\ proc[p].pc = "undo"
  /\ LET l == proc[p]
         next == IF l.err = "conflict" THEN Again(l) ELSE IdleWorker
     IN  IF l.m \in l.fresh
         THEN WritesRecord(p, l.m, IF l.op = "approve" THEN l.rec ELSE Nil, next)
         ELSE Reads(p, next)
  /\ UNCHANGED <<given, opBounds>>

-----------------------------------------------------------------------------
(* releaseName, after a rename, a removal and a rename the sweep completes. *)

(* The next round of the sweep over the records. *)
NextRecord(l) ==
  [l EXCEPT !.pc = "records", !.m = Nil, !.rec = Nil, !.name = NoName, !.holder = Nil,
            !.old = {}, !.fresh = {}]

AfterRelease(l) ==
  IF l.op = "sweep" THEN NextRecord(l) ELSE IdleWorker

ReleaseGets(p) ==
  /\ proc[p].pc = "release"
  /\ LET l == proc[p]
     IN  \/ l.old = {} /\ Reads(p, AfterRelease(l))
         \/ \E n \in l.old :
              Reads(p, IF names[n] = l.m
                       THEN [l EXCEPT !.pc = "releaseDelete", !.name = n, !.fresh = {n}]
                       ELSE [l EXCEPT !.old = @ \ {n}])
  /\ UNCHANGED <<given, opBounds>>

ReleaseDeletes(p) ==
  /\ proc[p].pc = "releaseDelete"
  /\ LET l == proc[p]
         next == [l EXCEPT !.pc = "release", !.old = @ \ {l.name}, !.fresh = {}]
     IN  IF l.name \in l.fresh THEN WritesName(p, l.name, Nil, next) ELSE Reads(p, next)
  /\ UNCHANGED <<given, opBounds>>

-----------------------------------------------------------------------------
(* Approve. *)

BeginApprove(p) ==
  /\ p \in Workers /\ proc[p].op = "idle" /\ ops < MaxOps
  /\ \E m \in Machines, n \in CallNames :
       Reads(p, [IdleWorker EXCEPT !.op = "approve", !.pc = "get", !.m = m, !.name = n])
  /\ ops' = ops + 1
  /\ UNCHANGED <<given, registryCrashes>>

ApproveGets(p) ==
  /\ At(p, "approve", "get")
  /\ LET l == proc[p] r == recs[l.m]
     IN  Reads(p, IF r = Nil THEN IdleWorker
                  ELSE [l EXCEPT !.rec = r, !.fresh = {l.m},
                                 !.pc = IF l.name \in {NoName, r.name} THEN "update" ELSE "resolve"])
  /\ UNCHANGED <<given, opBounds>>

(* A name that another entity holds is refused before anything is written. *)
ApproveResolves(p) ==
  /\ At(p, "approve", "resolve")
  /\ LET l == proc[p] h == names[l.name]
     IN  Reads(p, IF h = Nil THEN [l EXCEPT !.pc = "update"]
                              ELSE [l EXCEPT !.pc = "holder", !.holder = h])
  /\ UNCHANGED <<given, opBounds>>

ApproveReadsHolder(p) ==
  /\ At(p, "approve", "holder")
  /\ LET l == proc[p]
     IN  Reads(p, IF Carries(l.holder, l.name) /\ l.holder # l.m THEN IdleWorker
                  ELSE [l EXCEPT !.pc = "update", !.holder = Nil])
  /\ UNCHANGED <<given, opBounds>>

(* The record carries the new name before the name is claimed. *)
ApproveUpdates(p) ==
  /\ At(p, "approve", "update")
  /\ LET l == proc[p]
         n == IF l.name = NoName THEN l.rec.name ELSE l.name
         r == [l.rec EXCEPT !.name = n, !.status = "active", !.aged = FALSE]
     IN  IF l.m \notin l.fresh THEN Reads(p, Again(l))
         ELSE WritesRecord(p, l.m, r, IF n = l.rec.name THEN IdleWorker ELSE [l EXCEPT !.pc = "claim"])
  /\ UNCHANGED <<given, opBounds>>

-----------------------------------------------------------------------------
(* RemoveEntity, RemoveByName and UpdateStatusEntity. *)

BeginRemove(p) ==
  /\ p \in Workers /\ proc[p].op = "idle" /\ ops < MaxOps
  /\ \/ \E m \in Machines : Reads(p, [IdleWorker EXCEPT !.op = "remove", !.pc = "get", !.m = m])
     \/ \E n \in RackNames : Reads(p, [IdleWorker EXCEPT !.op = "removeName", !.pc = "resolve", !.name = n])
  /\ ops' = ops + 1
  /\ UNCHANGED <<given, registryCrashes>>

RemoveResolves(p) ==
  /\ At(p, "removeName", "resolve")
  /\ LET l == proc[p] h == names[l.name]
     IN  Reads(p, IF h = Nil THEN IdleWorker ELSE [l EXCEPT !.pc = "holder", !.holder = h])
  /\ UNCHANGED <<given, opBounds>>

RemoveReadsHolder(p) ==
  /\ At(p, "removeName", "holder")
  /\ LET l == proc[p]
     IN  Reads(p, IF Carries(l.holder, l.name)
                  THEN [IdleWorker EXCEPT !.op = "remove", !.pc = "get", !.m = l.holder] ELSE IdleWorker)
  /\ UNCHANGED <<given, opBounds>>

RemoveGets(p) ==
  /\ At(p, "remove", "get")
  /\ LET l == proc[p] r == recs[l.m]
     IN  Reads(p, IF r = Nil THEN IdleWorker
                  ELSE [l EXCEPT !.pc = "delete", !.fresh = {l.m}, !.old = {r.name} \ {NoName}])
  /\ UNCHANGED <<given, opBounds>>

(* The record goes first, then its name. *)
RemoveDeletes(p) ==
  /\ At(p, "remove", "delete")
  /\ LET l == proc[p]
     IN  IF l.m \in l.fresh THEN WritesRecord(p, l.m, Nil, [l EXCEPT !.pc = "release", !.fresh = {}])
                            ELSE Reads(p, Again(l))
  /\ UNCHANGED <<given, opBounds>>

BeginStatus(p) ==
  /\ p \in Workers /\ proc[p].op = "idle" /\ ops < MaxOps
  /\ \E m \in Machines, st \in {"active", "inactive"} :
       Reads(p, [IdleWorker EXCEPT !.op = "status", !.pc = "get", !.m = m, !.status = st])
  /\ ops' = ops + 1
  /\ UNCHANGED <<given, registryCrashes>>

StatusGets(p) ==
  /\ At(p, "status", "get")
  /\ LET l == proc[p] r == recs[l.m]
     IN  Reads(p, IF r = Nil THEN IdleWorker
                  ELSE [l EXCEPT !.pc = "update", !.fresh = {l.m},
                                 !.rec = [r EXCEPT !.status = l.status, !.aged = FALSE]])
  /\ UNCHANGED <<given, opBounds>>

-----------------------------------------------------------------------------
(* SweepOrphans. *)

Present(m) == recs[m] # Nil
WorksOn(q, m) == m \in {proc[q].m, proc[q].holder}

(* The name keys are listed first. *)
BeginSweep(p) ==
  /\ p \in Sweepers /\ proc[p].op = "idle"
  /\ Reads(p, [IdleWorker EXCEPT !.op = "sweep", !.pc = "names",
                           !.todo = {n \in RackNames : names[n] # Nil},
                           !.settled = {m \in Machines : \A q \in Workers : ~WorksOn(q, m)}])
  /\ UNCHANGED <<given, opBounds>>

SweepGetsName(p) ==
  /\ At(p, "sweep", "names")
  /\ \E n \in proc[p].todo :
       LET l == [proc[p] EXCEPT !.todo = @ \ {n}]
       IN  Reads(p, IF names[n] = Nil THEN l
                    ELSE [l EXCEPT !.pc = "nameRecord", !.name = n, !.holder = names[n],
                                   !.fresh = {n}])
  /\ UNCHANGED <<given, opBounds>>

SweepReadsRecord(p) ==
  /\ At(p, "sweep", "nameRecord")
  /\ LET l == proc[p]
     IN  Reads(p, IF Present(l.holder) THEN [l EXCEPT !.pc = "names", !.fresh = {}, !.held[l.holder] = @ \cup {l.name}]
                                       ELSE [l EXCEPT !.pc = "nameDelete"])
  /\ UNCHANGED <<given, opBounds>>

SweepDeletesName(p) ==
  /\ At(p, "sweep", "nameDelete")
  /\ LET l == proc[p] next == [l EXCEPT !.pc = "names", !.fresh = {}]
     IN  IF l.name \in l.fresh THEN WritesName(p, l.name, Nil, next) ELSE Reads(p, next)
  /\ UNCHANGED <<given, opBounds>>

(* Then the records. *)
SweepLists(p) ==
  /\ At(p, "sweep", "names") /\ proc[p].todo = {}
  /\ Reads(p, [proc[p] EXCEPT !.pc = "records", !.todo = {m \in Machines : Present(m)},
                              !.holder = Nil, !.name = NoName, !.fresh = {}])
  /\ UNCHANGED <<given, opBounds>>

(* Variant: any name key is good enough. *)
HealthyIfNamed(l, m) ==
  ~Present(m) \/ recs[m].name = NoName \/ ~recs[m].aged \/ l.held[m] # {}

(* A record without a name, a young one and one whose name key points at it *)
(* are left alone.                                                          *)
Healthy(l, m) ==
  ~Present(m) \/ recs[m].name = NoName \/ ~recs[m].aged \/ recs[m].name \in l.held[m]

SweepGetsRecord(p) ==
  /\ At(p, "sweep", "records")
  /\ \E m \in proc[p].todo :
       LET l == [proc[p] EXCEPT !.todo = @ \ {m}]
           found == [l EXCEPT !.m = m, !.rec = recs[m], !.name = recs[m].name, !.fresh = {m}]
       IN  Reads(p, CASE Healthy(l, m) -> l
                      [] ~Healthy(l, m) /\ l.held[m] = {} -> [found EXCEPT !.pc = "drop"]
                      [] OTHER -> [found EXCEPT !.pc = "claim"])
  /\ UNCHANGED <<given, opBounds>>

SweepDrops(p) ==
  /\ At(p, "sweep", "drop")
  /\ LET l == proc[p] next == NextRecord(l)
     IN  IF l.m \in l.fresh THEN WritesRecord(p, l.m, Nil, next) ELSE Reads(p, next)
  /\ UNCHANGED <<given, opBounds>>

(* The new name of an interrupted rename is taken: the record goes back to *)
(* an older name that pointed at it.                                       *)
SweepRollsBack(p) ==
  /\ At(p, "sweep", "rollback")
  /\ \E n \in proc[p].held[proc[p].m] :
       LET l == proc[p] next == NextRecord([l EXCEPT !.settled = @ \ {l.m}])
       IN  IF l.m \in l.fresh
           THEN WritesRecord(p, l.m, [l.rec EXCEPT !.name = n, !.aged = FALSE], next)
           ELSE Reads(p, next)
  /\ UNCHANGED <<given, opBounds>>

SweepEnds(p) ==
  /\ At(p, "sweep", "records") /\ proc[p].todo = {}
  /\ Reads(p, IdleWorker)
  /\ UNCHANGED <<given, opBounds>>

-----------------------------------------------------------------------------
(* The grace period is longer than an operation and a sweep together: a   *)
(* record grows old only when no operation is at work on it, and during a *)
(* sweep only if none was when the sweep began and nothing has written it *)
(* since.                                                                 *)
Ages(m) ==
  /\ Present(m) /\ ~recs[m].aged
  /\ \A q \in Workers : ~WorksOn(q, m)
  /\ \A q \in Sweepers : proc[q].op = "sweep" => m \in proc[q].settled
  /\ recs' = [recs EXCEPT ![m].aged = TRUE]
  /\ UNCHANGED <<names, proc, solid, given, opBounds>>

(* The Mixer stops, or the bucket returns an error, between two calls. *)
RegistryCrash(p) ==
  /\ proc[p].op # "idle" /\ registryCrashes < MaxRegistryCrashes
  /\ Reads(p, IdleWorker)
  /\ registryCrashes' = registryCrashes + 1
  /\ UNCHANGED <<given, ops>>

RegisterStep(p) ==
  \/ RegisterGets(p) \/ RegisterResolves(p) \/ RegisterReadsHolder(p) \/ RegisterCreates(p)
  \/ AdoptGets(p) \/ AdoptCopies(p) \/ AdoptReadsName(p) \/ AdoptMovesName(p) \/ AdoptDropsOld(p)

ApproveStep(p) ==
  ApproveGets(p) \/ ApproveResolves(p) \/ ApproveReadsHolder(p) \/ ApproveUpdates(p)

RemoveStep(p) ==
  \/ RemoveResolves(p) \/ RemoveReadsHolder(p) \/ RemoveGets(p) \/ RemoveDeletes(p)

NameStep(p) ==
  \/ ClaimCreates(p) \/ ClaimGets(p) \/ ClaimChecks(p) \/ ClaimTakes(p)
  \/ Undoes(p) \/ ReleaseGets(p) \/ ReleaseDeletes(p)

SweepStep(p) ==
  \/ SweepGetsName(p) \/ SweepReadsRecord(p) \/ SweepDeletesName(p) \/ SweepLists(p)
  \/ SweepGetsRecord(p) \/ SweepDrops(p) \/ SweepRollsBack(p) \/ SweepEnds(p)

Proceeds(p) ==
  \/ RegisterStep(p) \/ ApproveStep(p) \/ RemoveStep(p) \/ StatusGets(p) \/ Updates(p)
  \/ NameStep(p) \/ SweepStep(p)

RegistryNext ==
  \/ \E p \in Procs :
       \/ BeginRegister(p) \/ BeginApprove(p) \/ BeginRemove(p) \/ BeginStatus(p) \/ BeginSweep(p)
       \/ Proceeds(p) \/ RegistryCrash(p)
  \/ \E m \in Machines : Ages(m)

RegistrySpec == RegistryInit /\ [][RegistryNext]_regVars

(* Operations run, sweepRegistry sweeps again and again, time passes. *)
RegistryFairness ==
  /\ \A p \in Procs : WF_regVars(Proceeds(p)) /\ WF_regVars(BeginSweep(p))
  /\ \A m \in Machines : WF_regVars(Ages(m))

RegistryFairSpec == RegistrySpec /\ RegistryFairness

-----------------------------------------------------------------------------
(* The name of a Rack, once its key was written for a record that carried  *)
(* it, is taken away by no call that works from what it read about another *)
(* Rack, and by no sweep that takes the Rack for unfinished: not by a      *)
(* claim, a stale release, the deletion of a name key or of a record, nor  *)
(* the rollback of a rename.  The hold ends in an approval or a removal of *)
(* that Rack, in the undo of its own registration, in the release that     *)
(* completes its own rename, or in an adoption that presented the secret   *)
(* it read in the record of the holder.                                    *)
NameKept ==
  [][\A n \in solid :
       LET m == names[n]
       IN  \/ names'[n] = m /\ n \in solid'
           \/ \E p \in Procs :
                /\ proc'[p] # proc[p] /\ proc[p].m = m
                /\ proc[p].op \in {"approve", "remove"} \/ proc[p].pc \in {"undo", "releaseDelete"}
           \/ \E p \in Workers :
                /\ proc'[p] # proc[p] /\ proc[p].holder = m
                /\ proc[p].pc \in {"moveUpdate", "dropOld"}
                /\ proc[p].secret = proc[p].rec.secret]_regVars

(* store.go says that an unknown MachineID adopts a name whose holder has   *)
(* the same secret: the record from which an adoption takes the name has    *)
(* the secret that the adoption presented.                                  *)
AdoptionKnowsSecret ==
  [][\A p \in Workers :
       At(p, "register", "moveUpdate") /\ proc'[p].pc = "dropOld" /\ Present(proc[p].holder)
         => recs[proc[p].holder].secret = proc[p].secret]_regVars

(* Whatever was cut short and whatever ran at once, the sweeps bring the   *)
(* registry back to a state in which the key of every record's name points *)
(* at it and every name key points at a record.                            *)
Repaired ==
  /\ \A m \in Machines : Present(m) /\ recs[m].name # NoName => names[recs[m].name] = m
  /\ \A n \in RackNames : names[n] # Nil => Present(names[n])

SweepConverges == <>[]Repaired

(* sweep.go says that the sweep repairs what a crash between two writes    *)
(* leaves behind: without one, when every operation has ended, the name of *)
(* every record points at it, but for the old record of an adoption.       *)
CrashLeavesOrphans ==
  registryCrashes = 0 /\ (\A p \in Procs : proc[p].op = "idle") =>
    \A m \in Machines : Present(m) /\ recs[m].name # NoName =>
      \/ names[recs[m].name] = m
      \/ \E x \in Machines \ {m} : Present(x) /\ recs[x].secret = recs[m].secret

(* bucket.go says that a write that must not overwrite a concurrent one    *)
(* checks the revision read: when an adoption is about to drop the old     *)
(* record, what it copied to the new machine is what that record says.     *)
AdoptionCopiesCurrent ==
  \A p \in Workers :
    LET l == proc[p]
    IN  At(p, "register", "dropOld") /\ l.holder \in l.fresh =>
          recs[l.holder].status = l.rec.status /\ recs[l.holder].name = l.rec.name

=============================================================================
