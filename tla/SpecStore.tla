------------------------------- MODULE SpecStore -------------------------------
(* The spec store (pkg/manager, pkg/manager/cas) as processes share it: a CLI   *)
(* and a Mixer import artefacts into one content-addressed store and one        *)
(* index.json under a lock file, load them by name and tag, fail and crash.     *)
(* A content stands for its hash; a tag is its place in the version order.      *)
EXTENDS Naturals, FiniteSets, FiniteSetsExt

CONSTANTS
  Managers,        \* processes with a manager of their own
  Artefacts,        \* artefact names
  Contents,     \* contents, numbered from 1
  MaxTag,       \* versions are 1..MaxTag
  MaxImports,   \* bound on the imports in a behaviour
  MaxSpecFaults     \* bound on failed writes and crashes

NoProc == "no process"

ASSUME SpecAssumption ==
  /\ Artefacts # {} /\ 0 \notin Contents /\ NoProc \notin Managers
  /\ MaxTag \in Nat /\ MaxImports \in Nat /\ MaxSpecFaults \in Nat

VARIABLES
  blob,         \* [Contents -> "none", "torn" or "whole"]
  disk,         \* index.json
  mem,          \* [Procs -> m.index]
  ipc,          \* where each process is
  job,          \* [Procs -> the import it runs: name, content, tag, 0 for none declared]
  lockedBy,     \* holder of index.lock
  filed,        \* <<name, tag, content>> an Import has returned
  loadedBlob,       \* state of the blob the last Load read
  imports, specFaults

specVars == <<blob, disk, mem, ipc, job, lockedBy, filed, loadedBlob, imports, specFaults>>

Tags == 1..MaxTag
EmptyIndex == [n \in Artefacts |-> [tags |-> [t \in Tags |-> 0], latest |-> 0]]
NoJob == [name |-> CHOOSE n \in Artefacts : TRUE, content |-> 0, tag |-> 0]

SpecInit ==
  /\ blob = [c \in Contents |-> "none"] /\ disk = EmptyIndex
  /\ mem = [p \in Managers |-> EmptyIndex] /\ ipc = [p \in Managers |-> "idle"]
  /\ job = [p \in Managers |-> NoJob] /\ lockedBy = NoProc
  /\ filed = {} /\ loadedBlob = "whole" /\ imports = 0 /\ specFaults = 0

GoTo(p, l) == ipc' = [ipc EXCEPT ![p] = l]

--------------------------------------------------------------------------------
(* resolveLatest and resolveLatestHash: the highest version, not the last.      *)
Versions(tags) == {t \in Tags : tags[t] # 0}
resolveLatestHash(tags) == IF Versions(tags) = {} THEN 0 ELSE tags[Max(Versions(tags))]

(* calcNextMinorFrom.                                                           *)
calcNextMinor(tags) == IF Versions(tags) = {} THEN 1 ELSE Max(Versions(tags)) + 1

(* mergeIndex: the union, the second argument wins.                             *)
mergeIndex(a, b) ==
  LET pick(x, y) == IF y # 0 THEN y ELSE x
  IN [n \in Artefacts |-> [tags |-> [t \in Tags |-> pick(a[n].tags[t], b[n].tags[t])],
                       latest |-> pick(a[n].latest, b[n].latest)]]

(* The tag an import files under: the one declared, or the next minor.          *)
FinalTag(j, idx) == IF j.tag # 0 THEN j.tag ELSE calcNextMinor(idx[j.name].tags)

(* An existing version with other content is refused; the same content is not.  *)
Conflict(j, t, idx) == idx[j.name].tags[t] \notin {0, j.content}

File(j, t, idx) ==
  LET tags == [idx[j.name].tags EXCEPT ![t] = j.content]
  IN [idx EXCEPT ![j.name] = [tags |-> tags, latest |-> resolveLatestHash(tags)]]

--------------------------------------------------------------------------------
(* Import: the name is settled, then store.Put creates or truncates the blob    *)
(* and writes it.                                                               *)
ImportBegin(p) ==
  /\ ipc[p] = "idle" /\ imports < MaxImports /\ imports' = imports + 1
  /\ \E n \in Artefacts, c \in Contents, t \in Tags \cup {0} :
       /\ job' = [job EXCEPT ![p] = [name |-> n, content |-> c, tag |-> t]]
       /\ blob' = [blob EXCEPT ![c] = "torn"]
  /\ GoTo(p, "put")
  /\ UNCHANGED <<disk, mem, lockedBy, filed, loadedBlob, specFaults>>

PutDone(p) ==
  /\ ipc[p] = "put" /\ GoTo(p, "lock")
  /\ blob' = [blob EXCEPT ![job[p].content] = "whole"]
  /\ UNCHANGED <<disk, mem, job, lockedBy, filed, loadedBlob, imports, specFaults>>

(* AcquireWithTimeout on index.lock.                                            *)
LockIndex(p) ==
  /\ ipc[p] = "lock" /\ lockedBy = NoProc /\ lockedBy' = p /\ GoTo(p, "change")
  /\ UNCHANGED <<blob, disk, mem, job, filed, loadedBlob, imports, specFaults>>

LockTimeout(p) ==
  /\ ipc[p] = "lock" /\ lockedBy # NoProc /\ GoTo(p, "idle")
  /\ UNCHANGED <<blob, disk, mem, job, lockedBy, filed, loadedBlob, imports, specFaults>>

\* Variant of CurrentIndex: the manager's own copy, from when it last loaded.
CurrentIndexStale(p) == mem[p]

(* What updateIndex hands to the change: the index on disk over its own copy.   *)
CurrentIndex(p) == mergeIndex(mem[p], disk)

(* updateIndex up to the write: the merged index is adopted whatever the change *)
(* decides, and the change edits it in place.                                   *)
ChangeIndex(p) ==
  /\ ipc[p] = "change"
  /\ LET idx == CurrentIndex(p)  t == FinalTag(job[p], idx) IN
       IF t \notin Tags \/ Conflict(job[p], t, idx)
       THEN /\ mem' = [mem EXCEPT ![p] = idx] /\ lockedBy' = NoProc
            /\ GoTo(p, "idle") /\ UNCHANGED job
       ELSE /\ mem' = [mem EXCEPT ![p] = File(job[p], t, idx)]
            /\ job' = [job EXCEPT ![p].tag = t]
            /\ GoTo(p, "write") /\ UNCHANGED lockedBy
  /\ UNCHANGED <<blob, disk, filed, loadedBlob, imports, specFaults>>

(* writeFileAtomic, and the release of the lock.                                *)
WriteIndex(p) ==
  /\ ipc[p] = "write" /\ GoTo(p, "idle") /\ lockedBy' = NoProc
  /\ disk' = mem[p]
  /\ filed' = filed \cup {<<job[p].name, job[p].tag, job[p].content>>}
  /\ UNCHANGED <<blob, mem, job, loadedBlob, imports, specFaults>>

WriteFails(p) ==
  /\ ipc[p] = "write" /\ specFaults < MaxSpecFaults /\ specFaults' = specFaults + 1
  /\ GoTo(p, "idle") /\ lockedBy' = NoProc
  /\ UNCHANGED <<blob, disk, mem, job, filed, loadedBlob, imports>>

(* The process ends anywhere, its lock with it, and starts again: NewManager    *)
(* and loadIndex.                                                               *)
CrashRestart(p) ==
  /\ specFaults < MaxSpecFaults /\ specFaults' = specFaults + 1
  /\ GoTo(p, "idle") /\ mem' = [mem EXCEPT ![p] = disk]
  /\ lockedBy' = IF lockedBy = p THEN NoProc ELSE lockedBy
  /\ UNCHANGED <<blob, disk, job, filed, loadedBlob, imports>>

(* Load of name:tag (0 for latest) by a process that imports nothing now.       *)
Load(p) ==
  /\ ipc[p] = "idle"
  /\ \E n \in Artefacts, t \in Tags \cup {0} :
       LET hash == IF t # 0 THEN mem[p][n].tags[t]
                   ELSE IF mem[p][n].latest # 0 THEN mem[p][n].latest
                   ELSE resolveLatestHash(mem[p][n].tags)
       IN hash # 0 /\ loadedBlob' = blob[hash]
  /\ UNCHANGED <<blob, disk, mem, ipc, job, lockedBy, filed, imports, specFaults>>

SpecNext ==
  \E p \in Managers :
    \/ ImportBegin(p) \/ PutDone(p) \/ LockIndex(p) \/ LockTimeout(p) \/ ChangeIndex(p)
    \/ WriteIndex(p) \/ WriteFails(p) \/ CrashRestart(p) \/ Load(p)

SpecSpec == SpecInit /\ [][SpecNext]_specVars

--------------------------------------------------------------------------------
(* What an import returned stays filed, unchanged, for every process, however   *)
(* imports of several processes, failed writes and crashes interleave ("Two     *)
(* concurrent imports no longer lose a version"), and its content is stored.    *)
FiledIsKept ==
  \A f \in filed : disk[f[1]].tags[f[2]] = f[3] /\ blob[f[3]] # "none"

(* Refuted.  importArtifact: "this is safe before the index is locked: the same *)
(* bytes always land in one place".  Put truncates the blob it writes again, so *)
(* a load of the version that holds it reads part of it.                        *)
LoadIntact == loadedBlob = "whole"

(* Refuted.  resolveLatestHash keeps "the latest index entry in sync with       *)
(* semver ordering": an entry of a failed write reaches the disk with a later   *)
(* import, past the latest of its name.                                         *)
LatestIsHighest ==
  \A n \in Artefacts : disk[n].latest = resolveLatestHash(disk[n].tags)
================================================================================
