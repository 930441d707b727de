------------------------------ MODULE RackProofs ------------------------------
(***************************************************************************)
(* Proofs about what a Rack keeps for others, for every instance: the      *)
(* artefacts of module SpecStore, which its processes and the Mixer's      *)
(* share, the coats of module CoatCheck, the backlog of module TcpServer   *)
(* and the log files of module Rotator.                                    *)
(***************************************************************************)
EXTENDS SpecStore, CoatCheck, TcpServer, Rotator, FiniteSetTheorems, SequenceTheorems,
        WellFoundedInduction, NaturalsInduction, TLAPS

(* A nonempty set of numbers has a least one, and one that is bounded a    *)
(* greatest.                                                               *)
LEMMA LeastOf ==
  ASSUME NEW I, I \subseteq Nat, I # {}
  PROVE  \E x \in I : \A y \in I : x <= y
<1>1. PICK x \in I : \A y \in I : ~ (<<y, x>> \in OpToRel(<, Nat))
  BY NatLessThanWellFounded, WFMin, Zenon
<1>2. ASSUME NEW y \in I PROVE x <= y
  <2>1. ~ (<<y, x>> \in {ss \in Nat \X Nat : ss[1] < ss[2]})
    BY <1>1, Zenon DEF OpToRel
  <2>2. y \in Nat /\ x \in Nat
    OBVIOUS
  <2> QED
    BY <2>1, <2>2
<1> QED
  BY <1>2, Zenon

(* A set of numbers up to N that is not empty has a greatest element.      *)
LEMMA GreatestOf ==
  ASSUME NEW N \in Nat, NEW I, I \subseteq 1..N, I # {}
  PROVE  Max(I) \in I
<1> DEFINE J == {n \in Nat : N - n \in I}
<1>1. PICK k \in I : TRUE
  BY Zenon
<1>2. N - k \in J
  BY <1>1
<1>3. PICK x \in J : \A y \in J : x <= y
  BY <1>2, LeastOf, Zenon
<1>4. N - x \in I /\ \A y \in I : N - x >= y
  <2> SUFFICES ASSUME NEW y \in I PROVE N - x >= y
    BY <1>3
  <2>1. N - y \in J
    OBVIOUS
  <2> QED
    BY <1>3, <2>1
<1> HIDE DEF J
<1> QED
  BY <1>4, Zenon DEF Max

-----------------------------------------------------------------------------
(* The spec store.                                                         *)

ImportStates == {"idle", "put", "lock", "change", "write"}
Indexes == [Artefacts -> [tags : [Tags -> Contents \cup {0}], latest : Contents \cup {0}]]
Jobs == [name : Artefacts, content : Contents \cup {0}, tag : Tags \cup {0}]

SpecTypes ==
  /\ blob \in [Contents -> {"none", "torn", "whole"}]
  /\ disk \in Indexes /\ mem \in [Managers -> Indexes]
  /\ ipc \in [Managers -> ImportStates] /\ job \in [Managers -> Jobs]
  /\ filed \subseteq Artefacts \X Tags \X Contents

(* An import that is under way has put its content, and one that changes   *)
(* or writes the index holds the lock.                                     *)
ImportsHold ==
  \A p \in Managers :
    /\ ipc[p] # "idle" => job[p].content \in Contents /\ blob[job[p].content] # "none"
    /\ ipc[p] \in {"change", "write"} => lockedBy = p

(* What a process is about to write keeps what was filed and has its own   *)
(* entry.                                                                  *)
Entry(idx, f) == idx[f[1]].tags[f[2]] = f[3]
ReadyToWrite ==
  \A p \in Managers : ipc[p] = "write" =>
    /\ job[p].tag \in Tags
    /\ \A f \in filed \cup {<<job[p].name, job[p].tag, job[p].content>>} : Entry(mem[p], f)

SpecInv == SpecTypes /\ ImportsHold /\ ReadyToWrite /\ FiledIsKept

(* mergeIndex has the entries of the index that wins.                      *)
LEMMA MergeKeeps ==
  ASSUME NEW i \in Indexes, NEW j \in Indexes
  PROVE  /\ mergeIndex(i, j) \in Indexes
         /\ \A n \in Artefacts, t \in Tags :
              j[n].tags[t] # 0 => mergeIndex(i, j)[n].tags[t] = j[n].tags[t]
BY DEF mergeIndex, Indexes

(* A version that is filed leaves the others as they are.                  *)
LEMMA FileKeeps ==
  ASSUME NEW idx \in Indexes, NEW j \in Jobs, j.content \in Contents, NEW t \in Tags
  PROVE  /\ File(j, t, idx) \in Indexes
         /\ File(j, t, idx)[j.name].tags[t] = j.content
         /\ \A n \in Artefacts, u \in Tags :
              n # j.name \/ u # t => File(j, t, idx)[n].tags[u] = idx[n].tags[u]
<1> DEFINE tags == [idx[j.name].tags EXCEPT ![t] = j.content]
<1>1. tags \in [Tags -> Contents \cup {0}] /\ j.name \in Artefacts
  BY DEF Indexes, Jobs
<1>2. resolveLatestHash(tags) \in Contents \cup {0}
  <2>1. Versions(tags) \subseteq Tags
    BY DEF Versions
  <2>2. Versions(tags) # {} => Max(Versions(tags)) \in Tags
    BY <2>1, GreatestOf, SpecAssumption DEF Tags
  <2> QED
    BY <1>1, <2>2 DEF resolveLatestHash
<1> QED
  BY <1>1, <1>2 DEF File, Indexes, Jobs

(* The spec store starts with nothing filed.                               *)
LEMMA SpecInitInv == SpecInit => SpecInv
<1> SUFFICES ASSUME SpecInit PROVE SpecInv
  OBVIOUS
<1>1. EmptyIndex \in Indexes
  BY DEF EmptyIndex, Indexes
<1>2. NoJob \in Jobs
  BY SpecAssumption DEF NoJob, Jobs
<1> QED
  BY <1>1, <1>2 DEF SpecInit, SpecInv, SpecTypes, ImportsHold, ReadyToWrite, FiledIsKept, ImportStates

(* The steps that leave index and lock alone.                              *)
LEMMA PutKeeps ==
  ASSUME SpecInv, NEW p \in Managers, ImportBegin(p) \/ PutDone(p) \/ Load(p)
  PROVE  SpecInv'
<1>1. CASE ImportBegin(p)
  <2>1. PICK n \in Artefacts, c \in Contents, t \in Tags \cup {0} :
          /\ job' = [job EXCEPT ![p] = [name |-> n, content |-> c, tag |-> t]]
          /\ blob' = [blob EXCEPT ![c] = "torn"]
    BY <1>1, Zenon DEF ImportBegin
  <2>2. SpecTypes' /\ ipc'[p] = "put" /\ \A q \in Managers \ {p} : ipc'[q] = ipc[q] /\ job'[q] = job[q]
    BY <1>1, <2>1 DEF ImportBegin, GoTo, SpecInv, SpecTypes, Jobs, ImportStates
  <2>3. /\ job'[p].content = c /\ blob'[c] # "none"
        /\ \A d \in Contents : blob[d] # "none" => blob'[d] # "none"
    BY <2>1 DEF SpecInv, SpecTypes
  <2>4. ImportsHold'
    BY <1>1, <2>2, <2>3 DEF ImportBegin, SpecInv, ImportsHold
  <2>5. ReadyToWrite'
    BY <1>1, <2>2 DEF ImportBegin, SpecInv, ReadyToWrite, Entry
  <2>6. FiledIsKept'
    BY <1>1, <2>3 DEF ImportBegin, SpecInv, SpecTypes, FiledIsKept
  <2> QED
    BY <2>2, <2>4, <2>5, <2>6 DEF SpecInv
<1>2. CASE PutDone(p)
  <2>1. SpecTypes' /\ ipc'[p] = "lock" /\ \A q \in Managers \ {p} : ipc'[q] = ipc[q]
    BY <1>2, Zenon DEF PutDone, GoTo, SpecInv, SpecTypes, ImportStates
  <2>2. \A d \in Contents : blob[d] # "none" => blob'[d] # "none"
    BY <1>2 DEF PutDone, SpecInv, SpecTypes
  <2>3. ImportsHold'
    BY <1>2, <2>1, <2>2 DEF PutDone, SpecInv, ImportsHold
  <2>4. ReadyToWrite'
    BY <1>2, <2>1 DEF PutDone, SpecInv, ReadyToWrite, Entry
  <2>5. FiledIsKept'
    BY <1>2, <2>2 DEF PutDone, SpecInv, SpecTypes, FiledIsKept
  <2> QED
    BY <2>1, <2>3, <2>4, <2>5 DEF SpecInv
<1>3. CASE Load(p)
  BY <1>3, Zenon DEF Load, SpecInv, SpecTypes, ImportsHold, ReadyToWrite, Entry, FiledIsKept
<1> QED
  BY <1>1, <1>2, <1>3

(* An import that takes the lock, gives up on it or ends without a write.  *)
LEMMA LockKeeps ==
  ASSUME SpecInv, NEW p \in Managers,
         LockIndex(p) \/ LockTimeout(p) \/ WriteFails(p) \/ CrashRestart(p)
  PROVE  SpecInv'
<1>1. /\ UNCHANGED <<blob, disk, job, filed>>
      /\ \E l \in {"idle", "change"} : ipc' = [ipc EXCEPT ![p] = l]
      /\ mem' \in {mem, [mem EXCEPT ![p] = disk]}
  BY DEF LockIndex, LockTimeout, WriteFails, CrashRestart, GoTo
<1>2. /\ ipc'[p] \in {"idle", "change"}
      /\ \A q \in Managers \ {p} : ipc'[q] = ipc[q] /\ mem'[q] = mem[q]
      /\ SpecTypes'
  BY <1>1 DEF SpecInv, SpecTypes, ImportStates
<1>3. ImportsHold'
  BY <1>1, <1>2, SpecAssumption
     DEF SpecInv, SpecTypes, ImportsHold, LockIndex, LockTimeout, WriteFails, CrashRestart, GoTo
<1>4. ReadyToWrite'
  BY <1>1, <1>2 DEF SpecInv, ReadyToWrite, Entry
<1>5. FiledIsKept'
  BY <1>1 DEF SpecInv, FiledIsKept
<1> QED
  BY <1>2, <1>3, <1>4, <1>5 DEF SpecInv

(* updateIndex starts from what is on disk, so that it keeps what was      *)
(* filed, and refuses to file another content under a version of it.       *)
LEMMA ChangeKeeps ==
  ASSUME SpecInv, NEW p \in Managers, ChangeIndex(p)
  PROVE  SpecInv'
<1> DEFINE idx == CurrentIndex(p)
           t == FinalTag(job[p], idx)
<1>1. /\ ipc[p] = "change" /\ lockedBy = p /\ job[p] \in Jobs /\ job[p].content \in Contents
      /\ \A q \in Managers \ {p} : ipc[q] \notin {"change", "write"}
  BY Zenon DEF ChangeIndex, SpecInv, SpecTypes, ImportsHold
<1>2. idx \in Indexes /\ \A f \in filed : Entry(idx, f)
  <2>1. mem[p] \in Indexes /\ disk \in Indexes
    BY DEF SpecInv, SpecTypes
  <2>2. /\ idx \in Indexes
        /\ \A n \in Artefacts, u \in Tags : disk[n].tags[u] # 0 => idx[n].tags[u] = disk[n].tags[u]
    BY <2>1, MergeKeeps, Zenon DEF CurrentIndex
  <2>3. ASSUME NEW f \in filed PROVE Entry(idx, f)
    <3>1. f[1] \in Artefacts /\ f[2] \in Tags /\ f[3] \in Contents /\ disk[f[1]].tags[f[2]] = f[3]
      BY DEF SpecInv, SpecTypes, FiledIsKept
    <3> QED
      BY <2>2, <3>1, SpecAssumption, Zenon DEF Entry
  <2> QED
    BY <2>2, <2>3
<1> HIDE DEF idx, t
<1>3. /\ UNCHANGED <<blob, disk, filed>>
      /\ IF t \notin Tags \/ Conflict(job[p], t, idx)
         THEN /\ mem' = [mem EXCEPT ![p] = idx] /\ lockedBy' = NoProc
              /\ ipc' = [ipc EXCEPT ![p] = "idle"] /\ job' = job
         ELSE /\ mem' = [mem EXCEPT ![p] = File(job[p], t, idx)]
              /\ job' = [job EXCEPT ![p].tag = t]
              /\ ipc' = [ipc EXCEPT ![p] = "write"] /\ lockedBy' = lockedBy
  BY Zenon DEF ChangeIndex, GoTo, idx, t
<1>4. CASE t \notin Tags \/ Conflict(job[p], t, idx)
  <2>1. SpecTypes' /\ ipc'[p] = "idle" /\ \A q \in Managers \ {p} : ipc'[q] = ipc[q]
    BY <1>2, <1>3, <1>4 DEF SpecInv, SpecTypes, ImportStates
  <2>2. ImportsHold' /\ ReadyToWrite'
    BY <1>1, <1>3, <1>4, <2>1 DEF SpecInv, ImportsHold, ReadyToWrite
  <2>3. FiledIsKept'
    BY <1>3 DEF SpecInv, FiledIsKept
  <2> QED
    BY <2>1, <2>2, <2>3 DEF SpecInv
<1>5. CASE t \in Tags /\ ~Conflict(job[p], t, idx)
  <2> DEFINE new == File(job[p], t, idx)
  <2>1. /\ new \in Indexes /\ new[job[p].name].tags[t] = job[p].content
        /\ \A n \in Artefacts, u \in Tags : n # job[p].name \/ u # t => new[n].tags[u] = idx[n].tags[u]
    BY <1>1, <1>2, <1>5, FileKeeps
  <2>2. idx[job[p].name].tags[t] \in {0, job[p].content}
    BY <1>5 DEF Conflict
  <2>3. ASSUME NEW f \in filed PROVE Entry(new, f)
    <3>1. f[1] \in Artefacts /\ f[2] \in Tags /\ f[3] \in Contents /\ idx[f[1]].tags[f[2]] = f[3]
      BY <1>2 DEF SpecInv, SpecTypes, Entry
    <3>2. CASE f[1] = job[p].name /\ f[2] = t
      BY <2>1, <2>2, <3>1, <3>2, SpecAssumption, Zenon DEF Entry
    <3>3. CASE f[1] # job[p].name \/ f[2] # t
      BY <2>1, <3>1, <3>3, Zenon DEF Entry
    <3> QED
      BY <3>2, <3>3
  <2> HIDE DEF new
  <2>4. /\ mem' = [mem EXCEPT ![p] = new] /\ job' = [job EXCEPT ![p].tag = t]
        /\ ipc' = [ipc EXCEPT ![p] = "write"] /\ lockedBy' = lockedBy
    BY <1>3, <1>5, Zenon DEF new
  <2>5. /\ mem'[p] = new /\ ipc'[p] = "write"
        /\ job'[p].name = job[p].name /\ job'[p].content = job[p].content /\ job'[p].tag = t
        /\ \A q \in Managers \ {p} : ipc'[q] = ipc[q] /\ job'[q] = job[q]
    BY <1>1, <2>4 DEF SpecInv, SpecTypes, Jobs
  <2>6. SpecTypes'
    BY <1>3, <1>5, <2>1, <2>4 DEF SpecInv, SpecTypes, ImportStates, Jobs
  <2>7. ImportsHold'
    BY <1>1, <1>3, <2>4, <2>5 DEF SpecInv, ImportsHold
  <2>8. Entry(new, <<job[p].name, t, job[p].content>>)
    BY <2>1 DEF Entry
  <2>9. ReadyToWrite'
    <3> SUFFICES ASSUME NEW q \in Managers, ipc'[q] = "write",
                        NEW f \in filed \cup {<<job'[q].name, job'[q].tag, job'[q].content>>}
                 PROVE  job'[q].tag \in Tags /\ Entry(mem'[q], f)
      BY <1>3, Zenon DEF ReadyToWrite, Entry
    <3>1. q = p
      BY <1>1, <2>5
    <3> QED
      BY <1>5, <2>3, <2>5, <2>8, <3>1
  <2>10. FiledIsKept'
    BY <1>3 DEF SpecInv, FiledIsKept
  <2> QED
    BY <2>6, <2>7, <2>9, <2>10 DEF SpecInv
<1> QED
  BY <1>4, <1>5

(* The write puts what was prepared under the same lock in the place of    *)
(* the index.                                                              *)
LEMMA WriteKeeps ==
  ASSUME SpecInv, NEW p \in Managers, WriteIndex(p)
  PROVE  SpecInv'
<1> DEFINE new == <<job[p].name, job[p].tag, job[p].content>>
<1>1. /\ ipc[p] = "write" /\ lockedBy = p /\ job[p] \in Jobs /\ job[p].tag \in Tags
      /\ job[p].content \in Contents /\ blob[job[p].content] # "none"
      /\ \A q \in Managers \ {p} : ipc[q] \notin {"change", "write"}
      /\ \A f \in filed \cup {new} : Entry(mem[p], f)
  BY Zenon DEF WriteIndex, SpecInv, SpecTypes, ImportsHold, ReadyToWrite
<1>2. new \in Artefacts \X Tags \X Contents /\ new[3] = job[p].content
  BY <1>1 DEF Jobs
<1> HIDE DEF new
<1>3. /\ disk' = mem[p] /\ filed' = filed \cup {new} /\ ipc' = [ipc EXCEPT ![p] = "idle"]
      /\ UNCHANGED <<blob, mem, job>>
  BY Zenon DEF WriteIndex, GoTo, new
<1>4. SpecTypes' /\ ipc'[p] = "idle" /\ \A q \in Managers \ {p} : ipc'[q] = ipc[q]
  BY <1>2, <1>3 DEF SpecInv, SpecTypes, ImportStates
<1>5. ImportsHold' /\ ReadyToWrite'
  BY <1>1, <1>3, <1>4 DEF SpecInv, ImportsHold, ReadyToWrite
<1>6. FiledIsKept'
  BY <1>1, <1>2, <1>3 DEF SpecInv, FiledIsKept, Entry
<1> QED
  BY <1>4, <1>5, <1>6 DEF SpecInv

(***************************************************************************)
(* What an import returned stays filed under its version, whatever other   *)
(* processes import, fail to write or crash with, for any number of        *)
(* processes, names, versions and contents.                                *)
(***************************************************************************)
THEOREM FiledStaysFiled == SpecSpec => []FiledIsKept
<1>1. SpecInv /\ [SpecNext]_specVars => SpecInv'
  <2> SUFFICES ASSUME SpecInv, [SpecNext]_specVars PROVE SpecInv'
    OBVIOUS
  <2>1. CASE UNCHANGED specVars
    BY <2>1, Zenon DEF specVars, SpecInv, SpecTypes, ImportsHold, ReadyToWrite, Entry, FiledIsKept
  <2>2. CASE SpecNext
    BY <2>2, PutKeeps, LockKeeps, ChangeKeeps, WriteKeeps, Zenon DEF SpecNext
  <2> QED
    BY <2>1, <2>2
<1>2. SpecInv => FiledIsKept
  BY DEF SpecInv
<1> QED
  BY <1>1, <1>2, SpecInitInv, PTL DEF SpecSpec

-----------------------------------------------------------------------------
(* The coat check.                                                         *)

CoatStates == {"new", "putting", "detached", "failed", "forwarded"}

CoatTypes ==
  /\ awaitStore \in BOOLEAN /\ parkedCoats \in [Requests -> CoatStates]
  /\ kv \in [Keys -> Requests \cup {0}] /\ putAt \in [Keys -> Seq(Requests)]
  /\ replies \subseteq Requests \X (Requests \cup {0})

(* A key holds the last coat that was put under it, or none.               *)
LastIsHeld ==
  \A k \in Keys :
    /\ \A i \in 1..Len(putAt[k]) : KeyOf[putAt[k][i]] = k
    /\ kv[k] # 0 => putAt[k] # <<>> /\ putAt[k][Len(putAt[k])] = kv[k]

(* With await_store a request is forwarded only after its put has landed.  *)
ForwardedIsPut ==
  awaitStore => \A r \in Requests :
    parkedCoats[r] # "detached" /\ (parkedCoats[r] = "forwarded" => PutIndices(r) # {})

CoatInv == CoatTypes /\ LastIsHeld /\ ForwardedIsPut /\ RepliesWhole

(* Nothing is put, forwarded or replied; at most an entry goes away.       *)
CoatsGo ==
  /\ UNCHANGED <<awaitStore, parkedCoats, putAt, replies>>
  /\ \/ kv' = kv
     \/ \E k \in Keys : kv' = [kv EXCEPT ![k] = 0]

(* Coats that expire or are deleted take nothing from the order of the     *)
(* puts.                                                                   *)
LEMMA CoatsGoInv ==
  ASSUME CoatInv, CoatsGo
  PROVE  CoatInv'
<1>1. CoatTypes' /\ \A k \in Keys : kv'[k] \in {kv[k], 0}
  BY DEF CoatsGo, CoatInv, CoatTypes
<1>2. LastIsHeld'
  BY <1>1 DEF CoatsGo, CoatInv, LastIsHeld
<1>3. ForwardedIsPut' /\ RepliesWhole'
  BY Zenon DEF CoatsGo, CoatInv, ForwardedIsPut, RepliesWhole, PutIndices
<1> QED
  BY <1>1, <1>2, <1>3 DEF CoatInv

(* The daemon and the server: timers come and go, entries expire.          *)
LEMMA DaemonGoes ==
  ASSUME \/ \E r \in Requests : TimerFires(r) \/ handleTimeout(r) \/ DeleteExpired(r)
         \/ scheduleExpiry \/ cancelExpiry \/ StopDaemon \/ StartDaemon
         \/ \E k \in Keys : EntryExpires(k)
  PROVE  CoatsGo
<1>1. ASSUME NEW r \in Requests, TimerFires(r) \/ handleTimeout(r) \/ DeleteExpired(r)
      PROVE  CoatsGo
  <2>1. KeyOf[r] \in Keys
    BY Zenon DEF Keys
  <2> QED
    BY <1>1, <2>1, Zenon DEF TimerFires, handleTimeout, DeleteExpired, Changed, CoatsGo
<1>2. ASSUME scheduleExpiry \/ cancelExpiry \/ StopDaemon \/ StartDaemon
      PROVE  CoatsGo
  BY <1>2, Zenon DEF scheduleExpiry, cancelExpiry, StopDaemon, StartDaemon, CoatsGo
<1>3. ASSUME NEW k \in Keys, EntryExpires(k) PROVE CoatsGo
  BY <1>3, Zenon DEF EntryExpires, Changed, CoatsGo
<1> QED
  BY <1>1, <1>2, <1>3

(* A request that begins, or whose put failed, is not forwarded if it      *)
(* waits for its put.                                                      *)
LEMMA StoreInv ==
  ASSUME CoatInv, NEW r \in Requests, StoreBegin(r) \/ PutFails(r)
  PROVE  CoatInv'
<1>1. /\ UNCHANGED <<awaitStore, kv, putAt, replies>>
      /\ \E l \in CoatStates : /\ parkedCoats' = [parkedCoats EXCEPT ![r] = l]
                               /\ awaitStore => l \in {"putting", "failed"}
  BY DEF StoreBegin, PutFails, CoatInv, CoatTypes, ForwardedIsPut, CoatStates
<1>2. /\ CoatTypes'
      /\ awaitStore => parkedCoats'[r] \in {"putting", "failed"}
      /\ \A q \in Requests \ {r} : parkedCoats'[q] = parkedCoats[q]
  BY <1>1 DEF CoatInv, CoatTypes
<1>3. LastIsHeld' /\ RepliesWhole'
  BY <1>1, Zenon DEF CoatInv, LastIsHeld, RepliesWhole, PutIndices
<1>4. ForwardedIsPut'
  <2> SUFFICES ASSUME awaitStore, NEW q \in Requests
               PROVE  /\ parkedCoats'[q] # "detached"
                      /\ parkedCoats'[q] = "forwarded" => PutIndices(q) # {}
    BY <1>1, Zenon DEF ForwardedIsPut, PutIndices
  <2> QED
    BY <1>2 DEF CoatInv, ForwardedIsPut
<1> QED
  BY <1>2, <1>3, <1>4 DEF CoatInv

(* A put keeps the places of the others and adds one at the end.           *)
LEMMA PutLandsInv ==
  ASSUME CoatInv, NEW r \in Requests, PutLands(r)
  PROVE  CoatInv'
<1> DEFINE k == KeyOf[r]
           n == Len(putAt[k]) + 1
<1>1. k \in Keys /\ putAt[k] \in Seq(Requests) /\ n \in Nat
  BY DEF Keys, CoatInv, CoatTypes
<1>2. /\ UNCHANGED <<awaitStore, replies>>
      /\ parkedCoats' = [parkedCoats EXCEPT ![r] = "forwarded"]
      /\ kv' = [kv EXCEPT ![k] = r] /\ putAt' = [putAt EXCEPT ![k] = Append(@, r)]
  BY DEF PutLands, Changed
<1> HIDE DEF k
<1>3. /\ putAt'[k] = Append(putAt[k], r) /\ Len(putAt'[k]) = n /\ putAt'[k][n] = r
      /\ \A i \in 1..n - 1 : putAt'[k][i] = putAt[k][i]
      /\ \A l \in Keys \ {k} : putAt'[l] = putAt[l] /\ kv'[l] = kv[l]
      /\ kv'[k] = r /\ putAt'[k] # <<>>
      /\ \A q \in Requests \ {r} : parkedCoats'[q] = parkedCoats[q]
  BY <1>1, <1>2 DEF CoatInv, CoatTypes
<1>4. CoatTypes'
  BY <1>1, <1>2 DEF CoatInv, CoatTypes, CoatStates
<1>5. LastIsHeld'
  <2> SUFFICES ASSUME NEW l \in Keys
               PROVE  /\ \A i \in 1..Len(putAt'[l]) : KeyOf[putAt'[l][i]] = l
                      /\ kv'[l] # 0 => putAt'[l] # <<>> /\ putAt'[l][Len(putAt'[l])] = kv'[l]
    BY Zenon DEF LastIsHeld
  <2>1. CASE l = k
    <3>1. \A i \in 1..n - 1 : KeyOf[putAt[k][i]] = k
      BY <1>1 DEF CoatInv, LastIsHeld
    <3>2. KeyOf[putAt'[k][n]] = k
      BY <1>3, Zenon DEF k
    <3>3. 1..n = (1..n - 1) \cup {n}
      BY <1>1
    <3>4. \A i \in 1..n : KeyOf[putAt'[k][i]] = k
      BY <1>3, <3>1, <3>2, <3>3, Zenon
    <3> QED
      BY <1>3, <2>1, <3>4, Zenon
  <2>2. CASE l # k
    <3>1. putAt'[l] = putAt[l] /\ kv'[l] = kv[l]
      BY <1>3, <2>2, Zenon
    <3> QED
      BY <3>1, Zenon DEF CoatInv, LastIsHeld
  <2> QED
    BY <2>1, <2>2
<1>6. /\ \A q \in Requests : PutIndices(q) \subseteq PutIndices(q)'
      /\ PutIndices(r)' # {}
  <2>1. ASSUME NEW q \in Requests, NEW i \in PutIndices(q) PROVE i \in PutIndices(q)'
    <3>1. KeyOf[q] \in Keys
      BY Zenon DEF Keys
    <3>2. CASE KeyOf[q] = k
      BY <1>1, <1>3, <2>1, <3>2, SMTT(30) DEF PutIndices
    <3>3. CASE KeyOf[q] # k
      BY <1>3, <2>1, <3>1, <3>3, Zenon DEF PutIndices
    <3> QED
      BY <3>2, <3>3
  <2>2. n \in PutIndices(r)'
    BY <1>1, <1>3 DEF PutIndices, k
  <2> QED
    BY <2>1, <2>2
<1>7. ForwardedIsPut'
  BY <1>2, <1>3, <1>6, Zenon DEF CoatInv, CoatTypes, ForwardedIsPut
<1>8. RepliesWhole'
  BY <1>2, <1>6, Zenon DEF CoatInv, CoatTypes, RepliesWhole
<1> QED
  BY <1>4, <1>5, <1>7, <1>8 DEF CoatInv

(* The coat a reply gets is the last one put under its key, and its        *)
(* request's own is among them.                                            *)
LEMMA RestoreInv ==
  ASSUME CoatInv, NEW r \in Requests, Restore(r)
  PROVE  CoatInv'
<1> DEFINE coat == kv[KeyOf[r]]
           n == Len(putAt[KeyOf[r]])
<1>1. /\ KeyOf[r] \in Keys /\ coat \in Requests \cup {0} /\ putAt[KeyOf[r]] \in Seq(Requests)
      /\ parkedCoats[r] \in {"detached", "forwarded"}
      /\ UNCHANGED <<awaitStore, parkedCoats, kv, putAt>>
      /\ replies' = replies \cup IF coat = 0 THEN handleMissing(r) ELSE {<<r, coat>>}
  BY DEF Keys, Restore, CoatInv, CoatTypes
<1>2. coat # 0 => KeyOf[coat] = KeyOf[r] /\ n \in PutIndices(coat)
  BY <1>1 DEF CoatInv, LastIsHeld, PutIndices
<1>3. awaitStore => \E i \in PutIndices(r) : i <= n
  <2> SUFFICES ASSUME awaitStore PROVE \E i \in PutIndices(r) : i <= n
    OBVIOUS
  <2>1. PICK i \in PutIndices(r) : TRUE
    BY <1>1, Zenon DEF CoatInv, ForwardedIsPut
  <2> QED
    BY <1>1, <2>1 DEF PutIndices
<1>4. CoatTypes'
  BY <1>1 DEF CoatInv, CoatTypes, handleMissing
<1>5. LastIsHeld' /\ ForwardedIsPut'
  BY <1>1, Zenon DEF CoatInv, LastIsHeld, ForwardedIsPut, PutIndices
<1>6. RepliesWhole'
  <2> SUFFICES ASSUME NEW p \in replies'
               PROVE  IF p[2] = 0 THEN OnMissingCoat = "forward"
                      ELSE /\ KeyOf[p[1]] = KeyOf[p[2]]
                           /\ awaitStore => \E i \in PutIndices(p[1]), j \in PutIndices(p[2]) : i <= j
    BY <1>1, Zenon DEF RepliesWhole, PutIndices
  <2>1. CASE p \in replies
    BY <2>1, Zenon DEF CoatInv, RepliesWhole
  <2>2. CASE p \notin replies /\ coat = 0
    BY <1>1, <2>2 DEF handleMissing
  <2>3. CASE p \notin replies /\ coat # 0
    <3>1. p[1] = r /\ p[2] = coat
      BY <1>1, <2>3
    <3> QED
      BY <1>2, <1>3, <2>3, <3>1, Zenon
  <2> QED
    BY <2>1, <2>2, <2>3
<1> QED
  BY <1>4, <1>5, <1>6 DEF CoatInv

(***************************************************************************)
(* A reply that is emitted carries, with await_store, the coat of its      *)
(* request or of a later one of its key, and none only where on_missing    *)
(* says so: for any requests and keys, whatever expires, times out or      *)
(* restarts.                                                               *)
(***************************************************************************)
THEOREM RepliesAreWhole == CoatSpec => []RepliesWhole
<1>1. CoatInit => CoatInv
  BY DEF CoatInit, CoatInv, CoatTypes, CoatStates, LastIsHeld, ForwardedIsPut, RepliesWhole
<1>2. CoatInv /\ [CoatNext]_coatVars => CoatInv'
  <2> SUFFICES ASSUME CoatInv, [CoatNext]_coatVars PROVE CoatInv'
    OBVIOUS
  <2>1. CASE UNCHANGED coatVars
    BY <2>1, CoatsGoInv, Zenon DEF coatVars, CoatsGo
  <2>2. CASE CoatNext
    BY <2>2, DaemonGoes, CoatsGoInv, StoreInv, PutLandsInv, RestoreInv, Zenon DEF CoatNext
  <2> QED
    BY <2>1, <2>2
<1>3. CoatInv => RepliesWhole
  BY DEF CoatInv
<1> QED
  BY <1>1, <1>2, <1>3, PTL DEF CoatSpec

-----------------------------------------------------------------------------
(* The log rotator.                                                        *)

CleanupStates == {"compress", "remove", "list", "delete", "done"}
Backups == Nat \X BOOLEAN
Newest == cleanup[rotated].of

RotatorTypes ==
  /\ backups \subseteq Backups /\ IsFiniteSet(backups)
  /\ broken \in BOOLEAN /\ now \in Nat /\ rotated \in Nat
  /\ cleanup \in [1..rotated -> [pc : CleanupStates, of : Nat, old : SUBSET Backups]]
  /\ \A f \in backups : f[1] <= now
  /\ \A r \in 1..rotated : cleanup[r].of <= now

(* A goroutine has not listed the backups yet.                             *)
ToList(r) == cleanup[r].pc \in {"compress", "remove", "list"}

(* A backup too many is about to be deleted, or to be found by a goroutine *)
(* that lists the directory after it was made.                             *)
TooManyGo ==
  ~broken /\ MaxBackups > 0 =>
    \/ \E r \in 1..rotated : ToList(r)
    \/ \A f \in Oldest : \E r \in 1..rotated : cleanup[r].pc = "delete" /\ f \in cleanup[r].old

(* The newest backup has one of its two names, and no goroutine is about   *)
(* to take the last one from it.                                           *)
NewestStays ==
  ~broken /\ rotated > 0 =>
    /\ \A f \in backups : f[1] <= Newest
    /\ <<Newest, FALSE>> \in backups \/ <<Newest, TRUE>> \in backups
    /\ \A r \in 1..rotated :
         /\ cleanup[r].of <= Newest
         /\ cleanup[r].pc = "remove" /\ cleanup[r].of = Newest => <<Newest, TRUE>> \in backups
         /\ \A f \in cleanup[r].old : /\ f[1] <= Newest
                                      /\ f[1] = Newest => ~f[2] /\ <<Newest, TRUE>> \in backups

RotatorInv == RotatorTypes /\ TooManyGo /\ NewestStays

(* The backups behind f, and that with fewer backups none gets more.       *)
Behind(f, B) == {g \in B : Before(f, g)}
(* With fewer backups no other backup becomes one too many.                *)
LEMMA OldestShrinks ==
  ASSUME RotatorTypes, MaxBackups \in Nat, backups' \subseteq backups
  PROVE  Oldest' \subseteq Oldest
<1> SUFFICES ASSUME NEW f \in Oldest' PROVE f \in Oldest
  OBVIOUS
<1>1. f \in backups' /\ Cardinality(Behind(f, backups')) >= MaxBackups
  BY Zenon DEF Oldest, Behind, Before
<1>2. Behind(f, backups') \subseteq Behind(f, backups) /\ Behind(f, backups) \subseteq backups
  BY Zenon DEF Behind
<1>3. IsFiniteSet(Behind(f, backups)) /\ IsFiniteSet(Behind(f, backups'))
  BY <1>2, FS_Subset, Zenon DEF RotatorTypes
<1>4. Cardinality(Behind(f, backups')) <= Cardinality(Behind(f, backups))
  BY <1>2, <1>3, FS_Subset
<1>5. Cardinality(Behind(f, backups')) \in Nat /\ Cardinality(Behind(f, backups)) \in Nat
  BY <1>3, FS_CardinalityType
<1>6. Cardinality(Behind(f, backups)) >= MaxBackups
  BY <1>1, <1>4, <1>5
<1> QED
  BY <1>1, <1>6, Zenon DEF Oldest, Behind, Before

(* With no backup too many there are at most as many as asked for: the     *)
(* first by name has all others behind it.                                 *)
LEMMA NoneTooMany ==
  ASSUME RotatorTypes, MaxBackups \in Nat, MaxBackups > 0, Oldest = {}
  PROVE  Cardinality(backups) <= MaxBackups
<1>1. CASE backups = {}
  BY <1>1, FS_EmptySet
<1>2. CASE backups # {}
  <2> DEFINE key(f) == 2 * f[1] + (IF f[2] THEN 1 ELSE 0)
             K == {key(f) : f \in backups}
  <2>1. \A f \in backups : f = <<f[1], f[2]>> /\ f[1] \in Nat /\ f[2] \in BOOLEAN
    BY DEF RotatorTypes, Backups
  <2>2. \A f \in backups : key(f) \in Nat
    BY <2>1
  <2>3. K \subseteq Nat /\ K # {}
    BY <1>2, <2>2
  <2>4. PICK f \in backups : \A g \in backups : key(f) <= key(g)
    <3>1. PICK x \in K : \A y \in K : x <= y
      BY <2>3, LeastOf, Zenon
    <3> QED
      BY <3>1, Zenon
  <2>5. ASSUME NEW g \in backups, g # f PROVE Before(f, g)
    <3>1. key(f) <= key(g) /\ (f[1] # g[1] \/ f[2] # g[2])
      BY <2>1, <2>4, <2>5
    <3> QED
      BY <2>1, <3>1 DEF Before
  <2>6. backups \ {f} \subseteq Behind(f, backups) /\ Behind(f, backups) \subseteq backups
    BY <2>5, Zenon DEF Behind
  <2>7. IsFiniteSet(backups) /\ IsFiniteSet(Behind(f, backups)) /\ IsFiniteSet(backups \ {f})
    BY <2>6, FS_Subset, FS_RemoveElement, Zenon DEF RotatorTypes
  <2>8. /\ Cardinality(backups \ {f}) <= Cardinality(Behind(f, backups))
        /\ Cardinality(backups \ {f}) = Cardinality(backups) - 1
        /\ Cardinality(backups) \in Nat /\ Cardinality(Behind(f, backups)) \in Nat
    BY <2>6, <2>7, FS_Subset, FS_RemoveElement, FS_CardinalityType
  <2>9. ~(Cardinality(Behind(f, backups)) >= MaxBackups)
    BY Zenon DEF Oldest, Behind, Before
  <2> QED
    BY <2>8, <2>9
<1> QED
  BY <1>1, <1>2

(* The backups stay what they are when one is made.                        *)
LEMMA BackupAdded ==
  ASSUME NEW B, NEW n, B \subseteq Backups, IsFiniteSet(B), \A f \in B : f[1] <= n,
         NEW t \in Nat, t <= n, NEW z \in BOOLEAN
  PROVE  LET C == B \cup {<<t, z>>}
         IN C \subseteq Backups /\ IsFiniteSet(C) /\ \A f \in C : f[1] <= n
<1>1. <<t, z>> \in Backups /\ <<t, z>>[1] = t
  BY DEF Backups
<1>2. IsFiniteSet(B \cup {<<t, z>>})
  BY FS_AddElement, Zenon
<1> QED
  BY <1>1, <1>2, Zenon

(* No backup and no goroutine is of a time to come.                        *)
LEMMA BackupParts ==
  ASSUME RotatorTypes
  PROVE  /\ \A f \in backups : f[1] \in Nat /\ f[1] <= now
         /\ \A r \in 1..rotated : cleanup[r].of \in Nat /\ cleanup[r].of <= now
<1>1. \A f \in Backups : f[1] \in Nat
  BY DEF Backups
<1>2. backups \subseteq Backups /\ \A f \in backups : f[1] <= now
  BY Zenon DEF RotatorTypes
<1>3. \A r \in 1..rotated : cleanup[r].of \in Nat /\ cleanup[r].of <= now
  BY DEF RotatorTypes
<1> QED
  BY <1>1, <1>2, <1>3, Zenon

(* The rotator starts with no backups.                                     *)
LEMMA RotatorInitInv == RotatorInit => RotatorInv
<1> SUFFICES ASSUME RotatorInit PROVE RotatorInv
  OBVIOUS
<1>1. backups = {} /\ rotated = 0 /\ now = 0 /\ broken = FALSE /\ cleanup = [r \in {} |-> [pc |-> "done", of |-> 0, old |-> {}]]
  BY DEF RotatorInit
<1>2. IsFiniteSet(backups) /\ 1..rotated = {}
  BY <1>1, FS_EmptySet
<1>3. RotatorTypes
  BY <1>1, <1>2, Zenon DEF RotatorTypes
<1>4. Oldest = {}
  BY <1>1, Zenon DEF Oldest
<1> QED
  BY <1>1, <1>3, <1>4 DEF RotatorInv, TooManyGo, NewestStays

(* The clock and a write leave the backups alone.                          *)
LEMMA WriteInv ==
  ASSUME RotatorInv, RotatorTick \/ \E n \in 1..MaxSize : WriteInto(n)
  PROVE  RotatorInv'
<1>1. UNCHANGED <<broken, backups, rotated, cleanup>> /\ now' \in {now, now + 1}
  BY DEF RotatorTick, WriteInto
<1>2. RotatorTypes'
  <2>1. RotatorTypes /\ now \in Nat
    BY Zenon DEF RotatorInv, RotatorTypes
  <2>2. now' \in Nat /\ \A x \in Nat : x <= now => x <= now'
    BY <1>1, <2>1
  <2>3. /\ \A f \in backups' : f[1] <= now'
        /\ \A r \in 1..rotated' : cleanup'[r].of <= now'
    BY <1>1, <2>1, <2>2, BackupParts, Zenon
  <2> QED
    BY <1>1, <2>1, <2>2, <2>3, Zenon DEF RotatorTypes
<1>3. TooManyGo' /\ NewestStays'
  BY <1>1, Zenon DEF RotatorInv, TooManyGo, NewestStays, Newest, ToList, Oldest, Before
<1> QED
  BY <1>2, <1>3 DEF RotatorInv

(* A rotation makes the newest backup and a goroutine that has yet to list. *)
LEMMA RotateInv ==
  ASSUME RotatorInv, NEW n \in 1..MaxSize, rotate(n)
  PROVE  RotatorInv'
<1> DEFINE s == rotated + 1
           new == [pc |-> Starts, of |-> now, old |-> {}]
<1>1. /\ rotated' = s /\ backups' = backups \cup {<<now, FALSE>>} /\ now' = now /\ broken' = broken
      /\ cleanup' = [r \in DOMAIN cleanup \cup {s} |-> IF r = s THEN new ELSE cleanup[r]]
      /\ ~broken
  BY DEF rotate
<1>2. rotated \in Nat /\ DOMAIN cleanup = 1..rotated /\ now \in Nat
  BY DEF RotatorInv, RotatorTypes
<1>3. 1..s = (1..rotated) \cup {s} /\ s \notin 1..rotated /\ s \in Nat
  BY <1>2
<1>4. /\ new.pc \in {"compress", "list"} /\ new.of = now /\ new.old = {}
      /\ new \in [pc : CleanupStates, of : Nat, old : SUBSET Backups]
  BY <1>2 DEF Starts, CleanupStates
<1> HIDE DEF new
<1>5. /\ cleanup' \in [1..s -> [pc : CleanupStates, of : Nat, old : SUBSET Backups]]
      /\ cleanup'[s] = new /\ \A r \in 1..rotated : cleanup'[r] = cleanup[r]
  BY <1>1, <1>2, <1>3, <1>4 DEF RotatorInv, RotatorTypes
<1>6. IsFiniteSet(backups') /\ backups' \subseteq Backups /\ \A f \in backups' : f[1] <= now
  <2>1. now <= now /\ FALSE \in BOOLEAN
    BY <1>2
  <2> QED
    BY <1>1, <1>2, <2>1, BackupAdded, Zenon DEF RotatorInv, RotatorTypes
<1>7. RotatorTypes'
  <2>1. now <= now
    BY <1>2
  <2>2. \A r \in 1..s : cleanup'[r].of <= now
    BY <1>3, <1>4, <1>5, <2>1, Zenon DEF RotatorInv, RotatorTypes
  <2> QED
    BY <1>1, <1>2, <1>3, <1>5, <1>6, <2>2, Zenon DEF RotatorInv, RotatorTypes
<1>8. TooManyGo'
  BY <1>1, <1>3, <1>4, <1>5 DEF TooManyGo, ToList
<1>9. NewestStays'
  <2>1. Newest' = now
    BY <1>1, <1>4, <1>5 DEF Newest
  <2>2. <<now, FALSE>> \in backups'
    BY <1>1
  <2>3. ASSUME NEW r \in 1..rotated
        PROVE  /\ cleanup[r].of <= now
               /\ cleanup[r].pc = "remove" /\ cleanup[r].of = now => <<now, TRUE>> \in backups'
               /\ \A f \in cleanup[r].old : /\ f[1] <= now
                                            /\ f[1] = now => ~f[2] /\ <<now, TRUE>> \in backups'
    <3>1. rotated > 0 /\ rotated \in 1..rotated
      BY <1>2
    <3>2. /\ Newest \in Nat /\ Newest <= now /\ cleanup[r].of \in Nat
          /\ \A f \in cleanup[r].old : f[1] \in Nat
      BY <3>1 DEF Newest, RotatorInv, RotatorTypes, Backups
    <3>3. /\ cleanup[r].of <= Newest
          /\ cleanup[r].pc = "remove" /\ cleanup[r].of = Newest => <<Newest, TRUE>> \in backups
          /\ \A f \in cleanup[r].old : /\ f[1] <= Newest
                                       /\ f[1] = Newest => ~f[2] /\ <<Newest, TRUE>> \in backups
      BY <1>1, <3>1, Zenon DEF RotatorInv, NewestStays
    <3>4. CASE Newest = now
      BY <1>1, <3>3, <3>4, Zenon
    <3>5. CASE Newest # now
      BY <1>2, <3>2, <3>3, <3>5
    <3> QED
      BY <3>4, <3>5, Zenon
  <2>4. ASSUME NEW r \in 1..s
        PROVE  /\ cleanup'[r].of <= now
               /\ cleanup'[r].pc = "remove" /\ cleanup'[r].of = now => <<now, TRUE>> \in backups'
               /\ \A f \in cleanup'[r].old : /\ f[1] <= now
                                             /\ f[1] = now => ~f[2] /\ <<now, TRUE>> \in backups'
    <3>1. CASE r \in 1..rotated
      BY <1>5, <2>3, <3>1, Zenon
    <3>2. CASE r = s
      BY <1>2, <1>4, <1>5, <3>2
    <3> QED
      BY <1>3, <3>1, <3>2, Zenon
  <2> QED
    BY <1>1, <1>6, <2>1, <2>2, <2>4, Zenon DEF NewestStays
<1> QED
  BY <1>7, <1>8, <1>9 DEF RotatorInv

(* After a rotation that failed nothing is promised.                       *)
LEMMA RotateFailsInv ==
  ASSUME RotatorInv, NEW n \in 1..MaxSize, rotateFails(n)
  PROVE  RotatorInv'
<1>1. /\ broken' = TRUE /\ UNCHANGED <<now, rotated, cleanup>>
      /\ backups' \in {backups, backups \cup {<<now, FALSE>>}}
  BY Zenon DEF rotateFails
<1>2. RotatorTypes /\ now <= now /\ FALSE \in BOOLEAN
  BY DEF RotatorInv, RotatorTypes
<1>3. /\ backups \subseteq Backups /\ IsFiniteSet(backups) /\ \A f \in backups : f[1] <= now
      /\ now \in Nat
  BY <1>2, Zenon DEF RotatorTypes
<1>4. backups' \subseteq Backups /\ IsFiniteSet(backups') /\ \A f \in backups' : f[1] <= now
  <2>1. CASE backups' = backups \cup {<<now, FALSE>>}
    BY <1>2, <1>3, <2>1, BackupAdded, Zenon
  <2> QED
    BY <1>1, <1>3, <2>1, Zenon
<1>5. RotatorTypes'
  BY <1>1, <1>2, <1>4, Zenon DEF RotatorTypes
<1> QED
  BY <1>1, <1>5 DEF RotatorInv, TooManyGo, NewestStays

(* A goroutine goes on.                                                    *)
LEMMA CleanupGoesOn ==
  ASSUME RotatorTypes, NEW r \in DOMAIN cleanup, NEW l \in CleanupStates, CleanupGoes(r, l)
  PROVE  /\ r \in 1..rotated /\ cleanup'[r].pc = l
         /\ cleanup' \in [1..rotated -> [pc : CleanupStates, of : Nat, old : SUBSET Backups]]
         /\ \A q \in 1..rotated : cleanup'[q].of = cleanup[q].of /\ cleanup'[q].old = cleanup[q].old
         /\ \A q \in 1..rotated : q # r => cleanup'[q] = cleanup[q]
BY Zenon DEF RotatorTypes, CleanupGoes

(* Until it lists, a goroutine may add the compressed name of its backup,  *)
(* and drops the first name only once it has.                              *)
LEMMA CompressInv ==
  ASSUME RotatorInv, NEW r \in DOMAIN cleanup, compressFile(r) \/ RemoveOriginal(r)
  PROVE  RotatorInv'
<1> DEFINE t == cleanup[r].of
<1>1. UNCHANGED <<broken, now, rotated>> /\ RotatorTypes /\ r \in 1..rotated /\ t \in Nat /\ t <= now
  BY Zenon DEF compressFile, RemoveOriginal, RotatorInv, RotatorTypes
<1>2. \/ /\ CleanupGoes(r, "remove") /\ backups' = backups \cup {<<t, TRUE>>}
      \/ /\ CleanupGoes(r, "list") /\ backups' \in {backups, backups \cup {<<t, TRUE>>}}
      \/ /\ CleanupGoes(r, "list") /\ backups' = backups \ {<<t, FALSE>>} /\ cleanup[r].pc = "remove"
  BY Zenon DEF compressFile, RemoveOriginal
<1>3. PICK l \in {"remove", "list"} :
        /\ CleanupGoes(r, l)
        /\ l = "remove" => backups' = backups \cup {<<t, TRUE>>}
        /\ \/ backups' \in {backups, backups \cup {<<t, TRUE>>}}
           \/ backups' = backups \ {<<t, FALSE>>} /\ cleanup[r].pc = "remove"
  BY <1>2, Zenon
<1>4. /\ cleanup'[r].pc = l
      /\ cleanup' \in [1..rotated -> [pc : CleanupStates, of : Nat, old : SUBSET Backups]]
      /\ \A q \in 1..rotated : cleanup'[q].of = cleanup[q].of /\ cleanup'[q].old = cleanup[q].old
      /\ \A q \in 1..rotated : q # r => cleanup'[q] = cleanup[q]
  BY <1>1, <1>3, CleanupGoesOn DEF CleanupStates
<1>5. IsFiniteSet(backups') /\ backups' \subseteq Backups /\ \A f \in backups' : f[1] <= now
  <2>1. CASE backups' = backups \cup {<<t, TRUE>>}
    <3>1. /\ backups \subseteq Backups /\ IsFiniteSet(backups) /\ \A f \in backups : f[1] <= now
          /\ TRUE \in BOOLEAN
      BY <1>1, Zenon DEF RotatorTypes
    <3> HIDE DEF t
    <3> QED
      BY <1>1, <2>1, <3>1, BackupAdded, Zenon
  <2>2. CASE backups' \subseteq backups
    BY <1>1, <2>2, FS_Subset, Zenon DEF RotatorTypes
  <2> QED
    BY <1>3, <2>1, <2>2, Zenon
<1>6. RotatorTypes'
  BY <1>1, <1>4, <1>5 DEF RotatorTypes
<1>7. TooManyGo'
  BY <1>1, <1>4 DEF TooManyGo, ToList
<1>8. ASSUME ~broken, rotated > 0 PROVE NewestStays'
  <2>1. Newest' = Newest /\ Newest \in Nat /\ t <= Newest
    BY <1>1, <1>4, <1>8 DEF Newest, RotatorInv, RotatorTypes, NewestStays
  <2>2. \A f \in backups' : f[1] <= Newest
    <3>1. \A f \in backups : f[1] <= Newest
      BY <1>8, Zenon DEF RotatorInv, NewestStays
    <3>2. <<t, TRUE>>[1] = t
      OBVIOUS
    <3> QED
      BY <1>3, <2>1, <3>1, <3>2, Zenon
  <2>3. <<Newest, TRUE>> \in backups => <<Newest, TRUE>> \in backups'
    BY <1>3, Zenon
  <2>4. <<Newest, FALSE>> \in backups' \/ <<Newest, TRUE>> \in backups'
    BY <1>1, <1>3, <1>8, Zenon DEF RotatorInv, NewestStays
  <2>5. cleanup'[r].pc = "remove" /\ t = Newest => <<Newest, TRUE>> \in backups'
    BY <1>3, <1>4, Zenon
  <2>6. ASSUME NEW q \in 1..rotated
        PROVE  /\ cleanup'[q].of <= Newest
               /\ cleanup'[q].pc = "remove" /\ cleanup'[q].of = Newest => <<Newest, TRUE>> \in backups'
               /\ \A f \in cleanup'[q].old :
                    f[1] <= Newest /\ (f[1] = Newest => ~f[2] /\ <<Newest, TRUE>> \in backups')
    BY <1>4, <1>8, <2>3, <2>5, Zenon DEF RotatorInv, NewestStays
  <2> QED
    BY <1>1, <2>1, <2>2, <2>4, <2>6, Zenon DEF NewestStays
<1>9. NewestStays'
  BY <1>1, <1>8 DEF NewestStays
<1> QED
  BY <1>6, <1>7, <1>9 DEF RotatorInv

(* A backup that is listed for deletion has a newer name behind it.        *)
LEMMA ListInv ==
  ASSUME RotatorInv, NEW r \in DOMAIN cleanup, ListBackups(r)
  PROVE  RotatorInv'
<1> DEFINE o == IF MaxBackups = 0 THEN {} ELSE Oldest
<1>1. /\ UNCHANGED <<broken, backups, now, rotated>> /\ r \in 1..rotated
      /\ cleanup' = [cleanup EXCEPT ![r] = [@ EXCEPT !.pc = "delete", !.old = o]]
      /\ RotatorTypes /\ MaxBackups \in Nat
  BY RotatorAssumption DEF ListBackups, RotatorInv, RotatorTypes
<1>2. o \subseteq backups /\ Oldest' = Oldest
  BY <1>1, Zenon DEF Oldest, Before
<1> HIDE DEF o
<1>3. /\ cleanup'[r].pc = "delete" /\ cleanup'[r].old = o
      /\ cleanup' \in [1..rotated -> [pc : CleanupStates, of : Nat, old : SUBSET Backups]]
      /\ \A q \in 1..rotated : cleanup'[q].of = cleanup[q].of
      /\ \A q \in 1..rotated : q # r => cleanup'[q] = cleanup[q]
  BY <1>1, <1>2, Zenon DEF RotatorTypes, CleanupStates
<1>4. RotatorTypes'
  BY <1>1, <1>3 DEF RotatorTypes
<1>5. TooManyGo'
  BY <1>1, <1>2, <1>3 DEF TooManyGo, o
<1>6. ASSUME ~broken, rotated > 0 PROVE NewestStays'
  <2>1. Newest' = Newest /\ Newest \in Nat
    BY <1>1, <1>3, <1>6 DEF Newest, RotatorTypes
  <2>2. ASSUME NEW f \in o PROVE f[1] <= Newest /\ (f[1] = Newest => ~f[2] /\ <<Newest, TRUE>> \in backups)
    <3>1. f \in Oldest /\ MaxBackups > 0 /\ f \in backups /\ f[1] <= Newest
      BY <1>1, <1>2, <1>6 DEF o, RotatorInv, NewestStays
    <3>2. Cardinality(Behind(f, backups)) >= MaxBackups
      BY <3>1, Zenon DEF Oldest, Behind, Before
    <3>3. Behind(f, backups) # {}
      BY <1>1, <3>1, <3>2, FS_EmptySet
    <3>4. PICK g \in backups : Before(f, g)
      BY <3>3, Zenon DEF Behind
    <3>5. g = <<g[1], g[2]>> /\ g[1] \in Nat /\ g[2] \in BOOLEAN /\ f[1] \in Nat /\ g[1] <= Newest
      BY <1>1, <1>6, <3>1 DEF RotatorTypes, Backups, RotatorInv, NewestStays
    <3>6. f[1] = Newest => g[1] = Newest /\ ~f[2] /\ g[2]
      BY <2>1, <3>4, <3>5 DEF Before
    <3>7. f[1] = Newest => g = <<Newest, TRUE>>
      BY <3>5, <3>6, Zenon
    <3> QED
      BY <3>1, <3>4, <3>6, <3>7, Zenon
  <2>3. ASSUME NEW q \in 1..rotated
        PROVE  /\ cleanup'[q].of <= Newest
               /\ cleanup'[q].pc = "remove" /\ cleanup'[q].of = Newest => <<Newest, TRUE>> \in backups
               /\ \A f \in cleanup'[q].old :
                    f[1] <= Newest /\ (f[1] = Newest => ~f[2] /\ <<Newest, TRUE>> \in backups)
    <3>1. CASE q = r
      BY <1>3, <1>6, <2>2, <3>1, Zenon DEF RotatorInv, NewestStays
    <3>2. CASE q # r
      BY <1>3, <1>6, <3>2, Zenon DEF RotatorInv, NewestStays
    <3> QED
      BY <3>1, <3>2, Zenon
  <2> QED
    BY <1>1, <1>6, <2>1, <2>3, Zenon DEF RotatorInv, NewestStays
<1>7. NewestStays'
  BY <1>1, <1>6 DEF NewestStays
<1> QED
  BY <1>4, <1>5, <1>7 DEF RotatorInv

(* What is deleted leaves no backup too many that nobody deletes.          *)
LEMMA DeleteInv ==
  ASSUME RotatorInv, NEW r \in DOMAIN cleanup, DeleteOldest(r)
  PROVE  RotatorInv'
<1>1. /\ UNCHANGED <<broken, now, rotated>> /\ RotatorTypes /\ MaxBackups \in Nat
      /\ CleanupGoes(r, "done") /\ backups' = backups \ cleanup[r].old /\ cleanup[r].pc = "delete"
  BY RotatorAssumption DEF DeleteOldest, RotatorInv
<1>2. /\ r \in 1..rotated /\ cleanup'[r].pc = "done"
      /\ cleanup' \in [1..rotated -> [pc : CleanupStates, of : Nat, old : SUBSET Backups]]
      /\ \A q \in 1..rotated : cleanup'[q].of = cleanup[q].of /\ cleanup'[q].old = cleanup[q].old
      /\ \A q \in 1..rotated : q # r => cleanup'[q] = cleanup[q]
  BY <1>1, CleanupGoesOn DEF CleanupStates
<1>3. backups' \subseteq backups /\ IsFiniteSet(backups')
  BY <1>1, FS_Subset, Zenon DEF RotatorTypes
<1>4. RotatorTypes'
  BY <1>1, <1>2, <1>3 DEF RotatorTypes
<1>5. TooManyGo'
  <2> SUFFICES ASSUME ~broken, MaxBackups > 0, \A q \in 1..rotated : ~ToList(q)', NEW f \in Oldest'
               PROVE  \E q \in 1..rotated : cleanup'[q].pc = "delete" /\ f \in cleanup'[q].old
    BY <1>1, Zenon DEF TooManyGo
  <2>1. f \in Oldest /\ f \in backups'
    BY <1>1, <1>3, OldestShrinks, Zenon DEF Oldest
  <2>2. \A q \in 1..rotated : ~ToList(q)
    BY <1>1, <1>2 DEF ToList
  <2>3. PICK q \in 1..rotated : cleanup[q].pc = "delete" /\ f \in cleanup[q].old
    BY <2>1, <2>2, Zenon DEF RotatorInv, TooManyGo
  <2>4. q # r
    BY <1>1, <2>1, <2>3
  <2> QED
    BY <1>2, <2>3, <2>4, Zenon
<1>6. ASSUME ~broken, rotated > 0 PROVE NewestStays'
  <2>1. Newest' = Newest
    BY <1>1, <1>2, <1>6 DEF Newest, RotatorTypes
  <2>2. <<Newest, TRUE>> \in backups => <<Newest, TRUE>> \in backups'
    BY <1>1, <1>2, <1>6, Zenon DEF RotatorInv, NewestStays
  <2>3. <<Newest, FALSE>> \in backups' \/ <<Newest, TRUE>> \in backups'
    BY <1>1, <1>2, <1>6, <2>2, Zenon DEF RotatorInv, NewestStays
  <2>4. ASSUME NEW q \in 1..rotated
        PROVE  /\ cleanup'[q].of <= Newest
               /\ cleanup'[q].pc = "remove" /\ cleanup'[q].of = Newest => <<Newest, TRUE>> \in backups'
               /\ \A f \in cleanup'[q].old :
                    f[1] <= Newest /\ (f[1] = Newest => ~f[2] /\ <<Newest, TRUE>> \in backups')
    BY <1>2, <1>6, <2>2, Zenon DEF RotatorInv, NewestStays
  <2> QED
    BY <1>1, <1>3, <1>6, <2>1, <2>3, <2>4, Zenon DEF RotatorInv, NewestStays
<1>7. NewestStays'
  BY <1>1, <1>6 DEF NewestStays
<1> QED
  BY <1>4, <1>5, <1>7 DEF RotatorInv

(***************************************************************************)
(* Once the cleanup goroutines of all rotations have ended, at most        *)
(* maxBackups backups are left and the newest is one of them: for any      *)
(* number of rotations, in any order of their steps and with any failures  *)
(* to compress.                                                            *)
(***************************************************************************)
THEOREM QuietMeansPruned == RotatorSpec => []QuietIsPruned
<1>1. RotatorInv /\ [RotatorNext]_rotvars => RotatorInv'
  <2> SUFFICES ASSUME RotatorInv, [RotatorNext]_rotvars PROVE RotatorInv'
    OBVIOUS
  <2>1. CASE UNCHANGED rotvars
    BY <2>1, Zenon DEF rotvars, RotatorInv, RotatorTypes, TooManyGo, NewestStays, Newest, ToList,
                       Oldest, Before
  <2>2. CASE RotatorNext
    BY <2>2, WriteInv, RotateInv, RotateFailsInv, CompressInv, ListInv, DeleteInv, Zenon
       DEF RotatorNext
  <2> QED
    BY <2>1, <2>2
<1>2. RotatorInv => QuietIsPruned
  <2> SUFFICES ASSUME RotatorInv, Quiet, ~broken, MaxBackups > 0, rotated > 0
               PROVE  /\ Cardinality(backups) <= MaxBackups
                      /\ \E f \in backups : f[1] = cleanup[rotated].of
    BY Zenon DEF QuietIsPruned
  <2>1. DOMAIN cleanup = 1..rotated
    BY DEF RotatorInv, RotatorTypes
  <2>2. \A r \in 1..rotated : ~ToList(r) /\ cleanup[r].pc # "delete"
    BY <2>1 DEF Quiet, ToList
  <2>3. Oldest = {}
    BY <2>2, Zenon DEF RotatorInv, TooManyGo
  <2>4. Cardinality(backups) <= MaxBackups
    BY <2>3, NoneTooMany, RotatorAssumption, Zenon DEF RotatorInv
  <2>5. \E f \in backups : f[1] = Newest
    <3>1. <<Newest, FALSE>>[1] = Newest /\ <<Newest, TRUE>>[1] = Newest
      OBVIOUS
    <3> QED
      BY <3>1, Zenon DEF RotatorInv, NewestStays
  <2> QED
    BY <2>4, <2>5, Zenon DEF Newest
<1> QED
  BY <1>1, <1>2, RotatorInitInv, PTL DEF RotatorSpec

-----------------------------------------------------------------------------
(* The backlog of the TCP server.                                          *)

NoRepeat(q) == \A i, j \in 1..Len(q) : q[i] = q[j] => i = j

(* Where a message can be, and what is there.                              *)
InBuffer == <<"buffer", Nobody>>
AsDropped == <<"dropped", Nobody>>
AsRefused == <<"refused", Nobody>>
InFlush(c) == <<"flush", c>>
AtPeer(c) == <<"written", c>>
Spots == {InBuffer, AsDropped, AsRefused} \cup ({"flush", "written"} \X Peers)
Places(buf, pend, wr, drop, ref) ==
  [s \in Spots |-> CASE s[1] = "buffer" -> Range(buf)
                     [] s[1] = "flush" -> Range(pend[s[2]])
                     [] s[1] = "written" -> Range(wr[s[2]])
                     [] s[1] = "dropped" -> drop
                     [] OTHER -> ref]

(* Every message of N, and no other, is in one place.                      *)
Partition(F, N) ==
  /\ \A s \in Spots : F[s] \subseteq N
  /\ \A m \in N : \E s \in Spots : m \in F[s]
  /\ \A s, t \in Spots : \A m \in F[s] : m \in F[t] => s = t

(* The messages Process is done with.                                      *)
Taken(call) == 1..(IF call.at = "idle" THEN call.m ELSE call.m - 1)

TcpStates == {"off", "accepted", "counted", "take", "flush", "scan", "closing", "closed", "ended"}
TcpTypes ==
  /\ msgBuffer \in Seq(Nat) /\ pending \in [Peers -> Seq(Nat)] /\ written \in [Peers -> Seq(Nat)]
  /\ proc \in [at : {"idle", "write", "sole", "buffer"}, m : Nat, to : Peers \cup {Nobody}]
  /\ proc.at = "write" => proc.to \in Peers
  /\ proc.at # "idle" => proc.m > 0
  /\ tcpAt \in [Peers -> TcpStates] /\ IsFiniteSet(activeConns)

NoneTwice ==
  NoRepeat(msgBuffer) /\ \A c \in Peers : NoRepeat(pending[c]) /\ NoRepeat(written[c])

(* Only a handler in its flush holds messages.                             *)
FlushHolds == \A c \in Peers : tcpAt[c] # "flush" => pending[c] = <<>>

TcpInv ==
  /\ TcpTypes /\ NoneTwice /\ FlushHolds
  /\ Partition(Places(msgBuffer, pending, written, tcpDropped, refused), Taken(proc))

(* Which messages each place holds.                                        *)
LEMMA PlacesAre ==
  ASSUME NEW buf, NEW pend, NEW wr, NEW drop, NEW ref
  PROVE  LET F == Places(buf, pend, wr, drop, ref) IN
           /\ F[InBuffer] = Range(buf) /\ F[AsDropped] = drop /\ F[AsRefused] = ref
           /\ \A c \in Peers : F[InFlush(c)] = Range(pend[c]) /\ F[AtPeer(c)] = Range(wr[c])
BY DEF Places, Spots, InBuffer, AsDropped, AsRefused, InFlush, AtPeer

(* The places are distinct.                                                *)
LEMMA SpotsDiffer ==
  /\ {InBuffer, AsDropped, AsRefused} \subseteq Spots
  /\ InBuffer # AsDropped /\ InBuffer # AsRefused /\ AsDropped # AsRefused
  /\ \A c \in Peers : /\ InFlush(c) \in Spots /\ AtPeer(c) \in Spots /\ InFlush(c) # AtPeer(c)
                      /\ {InFlush(c), AtPeer(c)} \cap {InBuffer, AsDropped, AsRefused} = {}
  /\ \A c, d \in Peers : c # d => InFlush(c) # InFlush(d) /\ AtPeer(c) # AtPeer(d)
  /\ \A s \in Spots : \/ s \in {InBuffer, AsDropped, AsRefused}
                      \/ \E c \in Peers : s \in {InFlush(c), AtPeer(c)}
BY DEF Spots, InBuffer, AsDropped, AsRefused, InFlush, AtPeer

(* Messages that go from one place to another, and one that is new.        *)
Moves(F, G, a, b, M) ==
  /\ a \in Spots /\ b \in Spots /\ a # b /\ M \subseteq F[a]
  /\ G[a] = F[a] \ M /\ G[b] = F[b] \cup M /\ \A s \in Spots \ {a, b} : G[s] = F[s]
Adds(F, G, a, x) ==
  a \in Spots /\ G[a] = F[a] \cup {x} /\ \A s \in Spots \ {a} : G[s] = F[s]

(* A move from one place to another keeps the partition,                   *)
LEMMA MoveKeeps ==
  ASSUME NEW F, NEW G, NEW N, NEW a, NEW b, NEW M, Moves(F, G, a, b, M), Partition(F, N)
  PROVE  Partition(G, N)
<1>1. /\ a \in Spots /\ b \in Spots /\ a # b /\ \A m \in M : m \in F[a]
      /\ \A m : m \in G[a] <=> m \in F[a] /\ m \notin M
      /\ \A m : m \in G[b] <=> m \in F[b] \/ m \in M
      /\ \A s \in Spots : s # a /\ s # b => G[s] = F[s]
  BY Zenon DEF Moves
<1>2. /\ \A s \in Spots : \A m \in F[s] : m \in N
      /\ \A m \in N : \E s \in Spots : m \in F[s]
      /\ \A s, t \in Spots : \A m \in F[s] : m \in F[t] => s = t
  BY Zenon DEF Partition
<1>3. ASSUME NEW s \in Spots, NEW m \in G[s] PROVE m \in N
  BY <1>1, <1>2, <1>3, Zenon
<1>4. ASSUME NEW m \in N PROVE \E s \in Spots : m \in G[s]
  <2>1. PICK s \in Spots : m \in F[s]
    BY <1>2, Zenon
  <2> QED
    BY <1>1, <2>1, Zenon
<1>5. ASSUME NEW s \in Spots, NEW t \in Spots, NEW m \in G[s], m \in G[t] PROVE s = t
  <2>1. CASE m \in M
    <3>1. \A u \in Spots : m \in F[u] => u = a
      BY <1>1, <1>2, <2>1, Zenon
    <3>2. \A u \in Spots : m \in G[u] => u = b
      BY <1>1, <2>1, <3>1, Zenon
    <3> QED
      BY <1>5, <3>2, Zenon
  <2>2. CASE m \notin M
    <3>1. \A u \in Spots : m \in G[u] => m \in F[u]
      BY <1>1, <2>2, Zenon
    <3> QED
      BY <1>2, <1>5, <3>1, Zenon
  <2> QED
    BY <2>1, <2>2
<1> QED
  BY <1>3, <1>4, <1>5, Zenon DEF Partition

(* and so does the arrival of a new message.                               *)
LEMMA AddKeeps ==
  ASSUME NEW F, NEW G, NEW N, NEW a, NEW x, Adds(F, G, a, x), Partition(F, N), x \notin N
  PROVE  Partition(G, N \cup {x})
<1>1. /\ a \in Spots /\ \A m : m \in G[a] <=> m \in F[a] \/ m = x
      /\ \A s \in Spots : s # a => G[s] = F[s]
  BY Zenon DEF Adds
<1>2. /\ \A s \in Spots : \A m \in F[s] : m \in N
      /\ \A m \in N : \E s \in Spots : m \in F[s]
      /\ \A s, t \in Spots : \A m \in F[s] : m \in F[t] => s = t
      /\ \A s \in Spots : x \notin F[s]
  BY Zenon DEF Partition
<1>3. ASSUME NEW s \in Spots, NEW m \in G[s] PROVE m \in N \cup {x}
  BY <1>1, <1>2, <1>3, Zenon
<1>4. ASSUME NEW m \in N \cup {x} PROVE \E s \in Spots : m \in G[s]
  BY <1>1, <1>2, Zenon
<1>5. ASSUME NEW s \in Spots, NEW t \in Spots, NEW m \in G[s], m \in G[t] PROVE s = t
  <2>1. CASE m = x
    BY <1>1, <1>2, <1>5, <2>1, Zenon
  <2>2. CASE m # x
    <3>1. \A u \in Spots : m \in G[u] => m \in F[u]
      BY <1>1, <2>2, Zenon
    <3> QED
      BY <1>2, <1>5, <3>1, Zenon
  <2> QED
    BY <2>1, <2>2
<1> QED
  BY <1>3, <1>4, <1>5, Zenon DEF Partition

(* The places a step leaves alone, named one by one.                       *)
Alike(F, G, B) ==
  /\ InBuffer \in B \/ G[InBuffer] = F[InBuffer]
  /\ AsDropped \in B \/ G[AsDropped] = F[AsDropped]
  /\ AsRefused \in B \/ G[AsRefused] = F[AsRefused]
  /\ \A d \in Peers : InFlush(d) \in B \/ G[InFlush(d)] = F[InFlush(d)]
  /\ \A d \in Peers : AtPeer(d) \in B \/ G[AtPeer(d)] = F[AtPeer(d)]

(* What changes only some places leaves the others alone.                  *)
LEMMA AlikeElsewhere ==
  ASSUME NEW F, NEW G, NEW B, Alike(F, G, B)
  PROVE  \A s \in Spots \ B : G[s] = F[s]
<1> SUFFICES ASSUME NEW s \in Spots, s \notin B PROVE G[s] = F[s]
  OBVIOUS
<1>1. CASE s \in {InBuffer, AsDropped, AsRefused}
  BY <1>1, Zenon DEF Alike
<1>2. CASE \E c \in Peers : s \in {InFlush(c), AtPeer(c)}
  BY <1>2, Zenon DEF Alike
<1> QED
  BY <1>1, <1>2, SpotsDiffer, Zenon

(* No message is in two places.                                            *)
LEMMA OnePlace ==
  ASSUME NEW F, NEW N, Partition(F, N), NEW s \in Spots, NEW t \in Spots, s # t, NEW m \in F[s]
  PROVE  m \notin F[t] /\ m \in N
BY Zenon DEF Partition

(* Lists without repetitions.  Every step of the buffer and of a flush takes *)
(* a list apart or puts one together.                                        *)
Joined(p, q, w) ==
  /\ Len(w) = Len(p) + Len(q)
  /\ \A i \in 1..Len(p) : w[i] = p[i]
  /\ \A i \in 1..Len(q) : w[Len(p) + i] = q[i]
Disjoint(p, q) == \A x \in Range(p) : x \notin Range(q)

(* A list and the set of its elements.                                     *)
LEMMA ListOf ==
  ASSUME NEW q \in Seq(Nat)
  PROVE  /\ Len(q) \in Nat /\ DOMAIN q = 1..Len(q) /\ \A i \in 1..Len(q) : q[i] \in Nat
         /\ \A x : x \in Range(q) <=> \E i \in 1..Len(q) : q[i] = x
<1>1. Len(q) \in Nat /\ DOMAIN q = 1..Len(q) /\ \A i \in 1..Len(q) : q[i] \in Nat
  OBVIOUS
<1> QED
  BY <1>1, Zenon DEF Range

(* The positions of the two parts in the whole.                            *)
LEMMA TwoParts ==
  ASSUME NEW k \in Nat, NEW n \in Nat
  PROVE  /\ \A i \in 1..k : i \in 1..k + n
         /\ \A i \in 1..n : k + i \in 1..k + n
         /\ \A i \in 1..k + n : i \in 1..k \/ \E j \in 1..n : i = k + j
         /\ \A i \in 1..k, j \in 1..n : i # k + j
         /\ \A i, j \in 1..n : k + i = k + j => i = j
<1>1. ASSUME NEW i \in 1..k + n, i \notin 1..k PROVE \E j \in 1..n : i = k + j
  <2>1. i - k \in 1..n /\ i = k + (i - k)
    BY <1>1
  <2> QED
    BY <2>1
<1> QED
  BY <1>1

(* Two lists joined hold the elements of both, and repeat none if neither  *)
(* does and they share none.                                               *)
LEMMA JoinedLists ==
  ASSUME NEW p \in Seq(Nat), NEW q \in Seq(Nat), NEW w \in Seq(Nat), Joined(p, q, w)
  PROVE  /\ Range(w) = Range(p) \cup Range(q)
         /\ NoRepeat(w) <=> NoRepeat(p) /\ NoRepeat(q) /\ Disjoint(p, q)
<1> DEFINE k == Len(p)
           A == 1..Len(p)
           B == 1..Len(q)
           C == 1..Len(w)
           g(i) == k + i
<1>1. /\ \A y : y \in Range(p) <=> \E i \in A : p[i] = y
      /\ \A y : y \in Range(q) <=> \E i \in B : q[i] = y
      /\ \A y : y \in Range(w) <=> \E i \in C : w[i] = y
      /\ Len(p) \in Nat /\ Len(q) \in Nat
  BY ListOf, Zenon
<1>2. /\ \A i \in A : i \in C
      /\ \A i \in B : g(i) \in C
      /\ \A i \in C : i \in A \/ \E j \in B : i = g(j)
      /\ \A i \in A, j \in B : i # g(j)
      /\ \A i, j \in B : g(i) = g(j) => i = j
  BY <1>1, TwoParts, Zenon DEF Joined
<1>3. (\A i \in A : w[i] = p[i]) /\ (\A i \in B : w[g(i)] = q[i])
  BY Zenon DEF Joined
<1>4. /\ NoRepeat(p) <=> \A i, j \in A : p[i] = p[j] => i = j
      /\ NoRepeat(q) <=> \A i, j \in B : q[i] = q[j] => i = j
      /\ NoRepeat(w) <=> \A i, j \in C : w[i] = w[j] => i = j
  BY Zenon DEF NoRepeat
<1> HIDE DEF A, B, C, g
<1>5. Disjoint(p, q) <=> \A i \in A, j \in B : p[i] # q[j]
  <2>1. (\A i \in A : p[i] \in Range(p)) /\ (\A j \in B : q[j] \in Range(q))
    BY <1>1, Zenon
  <2>2. ASSUME Disjoint(p, q), NEW i \in A, NEW j \in B PROVE p[i] # q[j]
    BY <2>1, <2>2, Zenon DEF Disjoint
  <2>3. ASSUME \A i \in A, j \in B : p[i] # q[j], NEW y \in Range(p) PROVE y \notin Range(q)
    <3>1. PICK i \in A : p[i] = y
      BY <1>1, Zenon
    <3>2. \A j \in B : q[j] # y
      BY <2>3, <3>1, Zenon
    <3> QED
      BY <1>1, <3>2, Zenon
  <2> QED
    BY <2>2, <2>3, Zenon DEF Disjoint
<1>6. ASSUME NEW y PROVE y \in Range(w) <=> y \in Range(p) \/ y \in Range(q)
  <2>1. ASSUME NEW i \in C, w[i] = y PROVE y \in Range(p) \/ y \in Range(q)
    <3>1. CASE i \in A
      BY <1>1, <1>3, <2>1, <3>1, Zenon
    <3>2. CASE i \notin A
      <4>1. PICK j \in B : i = g(j)
        BY <1>2, <3>2, Zenon
      <4>2. q[j] = y
        BY <1>3, <2>1, <4>1, Zenon
      <4> QED
        BY <1>1, <4>2, Zenon
    <3> QED
      BY <3>1, <3>2
  <2>2. ASSUME NEW i \in A, p[i] = y PROVE y \in Range(w)
    BY <1>1, <1>2, <1>3, <2>2, Zenon
  <2>3. ASSUME NEW i \in B, q[i] = y PROVE y \in Range(w)
    <3>1. g(i) \in C /\ w[g(i)] = y
      BY <1>2, <1>3, <2>3, Zenon
    <3> QED
      BY <1>1, <3>1, Zenon
  <2> QED
    BY <1>1, <2>1, <2>2, <2>3, Zenon
<1>7. ASSUME NoRepeat(w) PROVE NoRepeat(p) /\ NoRepeat(q) /\ Disjoint(p, q)
  <2>1. \A i, j \in C : w[i] = w[j] => i = j
    BY <1>4, <1>7, Zenon
  <2>2. NoRepeat(p)
    BY <1>2, <1>3, <1>4, <2>1, Zenon
  <2>3. ASSUME NEW i \in B, NEW j \in B, q[i] = q[j] PROVE i = j
    <3>1. g(i) \in C /\ g(j) \in C /\ w[g(i)] = w[g(j)]
      BY <1>2, <1>3, <2>3, Zenon
    <3> QED
      BY <1>2, <2>1, <3>1, Zenon
  <2>4. ASSUME NEW i \in A, NEW j \in B, p[i] = q[j] PROVE FALSE
    <3>1. i \in C /\ g(j) \in C /\ w[i] = w[g(j)]
      BY <1>2, <1>3, <2>4, Zenon
    <3> QED
      BY <1>2, <2>1, <3>1, Zenon
  <2> QED
    BY <1>4, <1>5, <2>2, <2>3, <2>4, Zenon
<1>8. ASSUME NoRepeat(p), NoRepeat(q), Disjoint(p, q) PROVE NoRepeat(w)
  <2> SUFFICES ASSUME NEW i \in C, NEW j \in C, w[i] = w[j] PROVE i = j
    BY <1>4, Zenon
  <2>1. CASE i \in A /\ j \in A
    BY <1>3, <1>4, <1>8, <2>1, Zenon
  <2>2. CASE i \in A /\ j \notin A
    <3>1. PICK u \in B : j = g(u)
      BY <1>2, <2>2, Zenon
    <3>2. p[i] = q[u]
      BY <1>3, <2>2, <3>1, Zenon
    <3> QED
      BY <1>5, <1>8, <2>2, <3>2, Zenon
  <2>3. CASE i \notin A /\ j \in A
    <3>1. PICK u \in B : i = g(u)
      BY <1>2, <2>3, Zenon
    <3>2. p[j] = q[u]
      BY <1>3, <2>3, <3>1, Zenon
    <3> QED
      BY <1>5, <1>8, <2>3, <3>2, Zenon
  <2>4. CASE i \notin A /\ j \notin A
    <3>1. PICK u \in B : i = g(u)
      BY <1>2, <2>4, Zenon
    <3>2. PICK v \in B : j = g(v)
      BY <1>2, <2>4, Zenon
    <3>3. q[u] = q[v]
      BY <1>3, <3>1, <3>2, Zenon
    <3> QED
      BY <1>4, <1>8, <3>1, <3>2, <3>3, Zenon
  <2> QED
    BY <2>1, <2>2, <2>3, <2>4
<1> QED
  BY <1>6, <1>7, <1>8, Zenon

(* The list of one message,                                                *)
LEMMA SingleList ==
  ASSUME NEW x \in Nat
  PROVE  <<x>> \in Seq(Nat) /\ Range(<<x>>) = {x} /\ NoRepeat(<<x>>)
<1>1. <<x>> \in Seq(Nat) /\ Len(<<x>>) = 1 /\ <<x>>[1] = x
  OBVIOUS
<1>2. 1..1 = {1}
  OBVIOUS
<1>3. Range(<<x>>) = {x}
  <2>1. \A y : y \in Range(<<x>>) <=> \E i \in 1..Len(<<x>>) : <<x>>[i] = y
    BY <1>1, ListOf, Zenon
  <2>2. \A y : y \in Range(<<x>>) <=> y = x
    BY <1>1, <1>2, <2>1
  <2> QED
    BY <2>2, Zenon
<1>4. NoRepeat(<<x>>)
  BY <1>1 DEF NoRepeat
<1> QED
  BY <1>1, <1>3, <1>4

(* a list with a new message at its end,                                   *)
LEMMA AppendList ==
  ASSUME NEW q \in Seq(Nat), NEW x \in Nat, NoRepeat(q), x \notin Range(q)
  PROVE  /\ Append(q, x) \in Seq(Nat) /\ NoRepeat(Append(q, x))
         /\ Range(Append(q, x)) = Range(q) \cup {x}
<1>1. Append(q, x) \in Seq(Nat) /\ Joined(q, <<x>>, Append(q, x))
  BY DEF Joined
<1>2. <<x>> \in Seq(Nat) /\ NoRepeat(<<x>>) /\ Disjoint(q, <<x>>) /\ Range(<<x>>) = {x}
  BY SingleList, Zenon DEF Disjoint
<1>3. /\ Range(Append(q, x)) = Range(q) \cup Range(<<x>>)
      /\ NoRepeat(Append(q, x)) <=> NoRepeat(q) /\ NoRepeat(<<x>>) /\ Disjoint(q, <<x>>)
  BY <1>1, <1>2, JoinedLists, Zenon
<1> QED
  BY <1>1, <1>2, <1>3, Zenon

(* a list without its first,                                               *)
LEMMA TailList ==
  ASSUME NEW q \in Seq(Nat), q # <<>>, NoRepeat(q)
  PROVE  /\ Tail(q) \in Seq(Nat) /\ Head(q) \in Nat /\ NoRepeat(Tail(q))
         /\ Head(q) \in Range(q) /\ Range(Tail(q)) = Range(q) \ {Head(q)}
<1> DEFINE x == Head(q)
<1>1. Tail(q) \in Seq(Nat) /\ x \in Nat /\ Joined(<<x>>, Tail(q), q)
  BY DEF Joined
<1> HIDE DEF x
<1>2. <<x>> \in Seq(Nat) /\ Range(<<x>>) = {x}
  BY <1>1, SingleList, Zenon
<1>3. /\ Range(q) = Range(<<x>>) \cup Range(Tail(q))
      /\ NoRepeat(Tail(q)) /\ Disjoint(<<x>>, Tail(q))
  BY <1>1, <1>2, JoinedLists, Zenon
<1>4. x \notin Range(Tail(q))
  BY <1>2, <1>3, Zenon DEF Disjoint
<1> QED
  BY <1>1, <1>2, <1>3, <1>4, Zenon DEF x

(* and two lists that share no message, one after the other.               *)
LEMMA ConcatList ==
  ASSUME NEW p \in Seq(Nat), NEW q \in Seq(Nat), NoRepeat(p), NoRepeat(q), Disjoint(p, q)
  PROVE  p \o q \in Seq(Nat) /\ NoRepeat(p \o q) /\ Range(p \o q) = Range(p) \cup Range(q)
<1>1. p \o q \in Seq(Nat) /\ Joined(p, q, p \o q)
  BY DEF Joined
<1> QED
  BY <1>1, JoinedLists, Zenon

(* The cap: what is over it is taken from the front.                       *)
LEMMA CapList ==
  ASSUME NEW q \in Seq(Nat), NoRepeat(q)
  PROVE  /\ Keep(q) \in Seq(Nat) /\ NoRepeat(Keep(q))
         /\ Over(q) \subseteq Range(q) /\ Range(Keep(q)) = Range(q) \ Over(q)
<1>1. CASE ~(Len(q) > MaxBuffered)
  BY <1>1, Zenon DEF Keep, Over
<1>2. CASE Len(q) > MaxBuffered
  <2> DEFINE n == Len(q) - MaxBuffered
             v == SubSeq(q, 1, n)
             w == SubSeq(q, n + 1, Len(q))
  <2>1. Len(q) \in Nat /\ n \in 1..Len(q) /\ MaxBuffered \in Nat
    BY <1>2, TcpAssumption
  <2>2. Keep(q) = w /\ Over(q) = Range(v)
    BY <1>2, Zenon DEF Keep, Over
  <2> HIDE DEF n
  <2>3. \A i \in 1..Len(q) : q[i] \in Nat
    OBVIOUS
  <2>4. v \in Seq(Nat) /\ Len(v) = n /\ \A i \in 1..n : v[i] = q[i]
    <3>1. n \in Int /\ (\A i \in 1..n : q[i] \in Nat) /\ 1 <= n /\ n - 1 + 1 = n
      BY <2>1, <2>3
    <3>2. \A i \in 1..n : 1 + i - 1 = i
      BY <2>1
    <3>3. /\ SubSeq(q, 1, n) \in Seq(Nat) /\ Len(SubSeq(q, 1, n)) = n
          /\ \A i \in 1..n - 1 + 1 : SubSeq(q, 1, n)[i] = q[1 + i - 1]
      BY <3>1, SubSeqProperties
    <3> QED
      BY <3>1, <3>2, <3>3, Zenon
  <2>5. /\ w \in Seq(Nat) /\ Len(w) = Len(q) - n
        /\ \A i \in 1..Len(q) - n : w[i] = q[n + i]
    <3>1. n + 1 \in Int /\ Len(q) \in Int /\ \A i \in n + 1..Len(q) : q[i] \in Nat
      BY <2>1, <2>3
    <3>2. Len(q) - (n + 1) + 1 = Len(q) - n /\ \A i \in 1..Len(q) - n : n + 1 + i - 1 = n + i
      BY <2>1
    <3>3. /\ w \in Seq(Nat) /\ Len(w) = IF n + 1 <= Len(q) THEN Len(q) - (n + 1) + 1 ELSE 0
          /\ \A i \in 1..Len(q) - (n + 1) + 1 : w[i] = q[n + 1 + i - 1]
      BY <3>1, SubSeqProperties
    <3>4. Len(w) = Len(q) - n
      BY <2>1, <3>3
    <3> QED
      BY <3>2, <3>3, <3>4, Zenon
  <2> HIDE DEF v, w
  <2>6. Joined(v, w, q)
    BY <2>1, <2>4, <2>5, SMTT(30) DEF Joined
  <2>7. Range(q) = Range(v) \cup Range(w) /\ NoRepeat(w) /\ Disjoint(v, w)
    BY <2>4, <2>5, <2>6, JoinedLists, Zenon
  <2> QED
    BY <2>2, <2>5, <2>7, Zenon DEF Disjoint
<1> QED
  BY <1>1, <1>2

Spread == Places(msgBuffer, pending, written, tcpDropped, refused)

(* What is where in the TCP server now,                                    *)
LEMMA SpreadIs ==
  /\ Spread[InBuffer] = Range(msgBuffer) /\ Spread[AsDropped] = tcpDropped /\ Spread[AsRefused] = refused
  /\ \A d \in Peers : Spread[InFlush(d)] = Range(pending[d]) /\ Spread[AtPeer(d)] = Range(written[d])
BY PlacesAre DEF Spread

(* after a step,                                                           *)
LEMMA SpreadNext ==
  /\ Spread'[InBuffer] = Range(msgBuffer') /\ Spread'[AsDropped] = tcpDropped' /\ Spread'[AsRefused] = refused'
  /\ \A d \in Peers : Spread'[InFlush(d)] = Range(pending'[d]) /\ Spread'[AtPeer(d)] = Range(written'[d])
BY PlacesAre DEF Spread

(* and in the places that the step leaves alone.                           *)
LEMMA SpreadSame ==
  /\ msgBuffer' = msgBuffer => Spread'[InBuffer] = Spread[InBuffer]
  /\ tcpDropped' = tcpDropped => Spread'[AsDropped] = Spread[AsDropped]
  /\ refused' = refused => Spread'[AsRefused] = Spread[AsRefused]
  /\ \A d \in Peers : pending'[d] = pending[d] => Spread'[InFlush(d)] = Spread[InFlush(d)]
  /\ \A d \in Peers : written'[d] = written[d] => Spread'[AtPeer(d)] = Spread[AtPeer(d)]
BY SpreadIs, SpreadNext, Zenon

(* The empty list.                                                         *)
LEMMA EmptyList == Range(<<>>) = {} /\ NoRepeat(<<>>) /\ <<>> \in Seq(Nat)
<1>1. <<>> \in Seq(Nat) /\ Len(<<>>) = 0 /\ DOMAIN <<>> = {}
  OBVIOUS
<1>2. Range(<<>>) = {}
  BY <1>1, Zenon DEF Range
<1>3. NoRepeat(<<>>)
  BY <1>1 DEF NoRepeat
<1> QED
  BY <1>1, <1>2, <1>3

(* What a step of the messages has to show.                                *)
LEMMA TcpInvFollows ==
  ASSUME TcpTypes', NoneTwice', FlushHolds', Partition(Spread', Taken(proc'))
  PROVE  TcpInv'
BY Zenon DEF TcpInv, Spread

(* Steps that move no message.                                             *)
LEMMA SpreadStays ==
  ASSUME TcpInv, UNCHANGED <<msgBuffer, pending, written, tcpDropped, refused>>,
         TcpTypes', FlushHolds', Taken(proc') = Taken(proc)
  PROVE  TcpInv'
BY Zenon DEF TcpInv, NoneTwice

(* Connections that come and go without a flush in hand move no message.   *)
LEMMA ConnectionInv ==
  ASSUME TcpInv, NEW c \in Peers,
         \/ TcpAccept(c) \/ TcpCount(c) \/ TcpStore(c) \/ FlushDone(c) \/ ScanEnds(c)
         \/ Unstore(c) \/ Uncount(c) \/ PeerCloses(c)
  PROVE  TcpInv'
<1>1. /\ UNCHANGED tcpMsgVars
      /\ activeConns' \in {activeConns, activeConns \cup {c}, activeConns \ {c}}
      /\ \/ tcpAt' = tcpAt
         \/ \E a, b \in TcpStates \ {"flush"} : TcpStep(c, a, b)
         \/ TcpStep(c, "flush", "scan") /\ pending[c] = <<>>
  BY Zenon DEF TcpAccept, TcpCount, TcpStore, FlushDone, ScanEnds, Unstore, Uncount, PeerCloses, TcpStates
<1>2. TcpTypes' /\ FlushHolds'
  <2>1. tcpAt \in [Peers -> TcpStates] /\ IsFiniteSet(activeConns)
    BY DEF TcpInv, TcpTypes
  <2>2. IsFiniteSet(activeConns')
    <3>1. IsFiniteSet(activeConns \cup {c})
      BY <2>1, FS_AddElement, Zenon
    <3>2. IsFiniteSet(activeConns \ {c})
      BY <2>1, FS_RemoveElement, Zenon
    <3> QED
      BY <1>1, <2>1, <3>1, <3>2, Zenon
  <2>3. /\ tcpAt' \in [Peers -> TcpStates] /\ \A d \in Peers : d # c => tcpAt'[d] = tcpAt[d]
        /\ tcpAt'[c] # "flush" => pending[c] = <<>>
    BY <1>1, <2>1, Zenon DEF TcpStep, TcpStates, TcpInv, FlushHolds
  <2>4. UNCHANGED <<msgBuffer, pending, written, tcpDropped, refused, proc>>
    BY <1>1, Zenon DEF tcpMsgVars
  <2>5. TcpTypes'
    BY <2>2, <2>3, <2>4, Zenon DEF TcpInv, TcpTypes
  <2>6. FlushHolds'
    BY <2>3, <2>4, Zenon DEF TcpInv, FlushHolds
  <2> QED
    BY <2>5, <2>6
<1> QED
  BY <1>1, <1>2, SpreadStays, Zenon DEF tcpMsgVars

(* A flush takes the whole buffer, ...                                     *)
LEMMA TakeBufferInv ==
  ASSUME TcpInv, NEW c \in Peers, TakeBuffer(c)
  PROVE  TcpInv'
<1>1. /\ tcpAt[c] = "take" /\ tcpAt' = [tcpAt EXCEPT ![c] = "flush"]
      /\ pending' = [pending EXCEPT ![c] = msgBuffer] /\ msgBuffer' = <<>>
      /\ UNCHANGED <<activeConns, written, tcpDropped, refused, proc>>
  BY Zenon DEF TakeBuffer, TcpStep
<1>2. /\ TcpTypes /\ NoneTwice /\ FlushHolds /\ pending[c] = <<>>
      /\ Partition(Spread, Taken(proc))
  BY <1>1 DEF TcpInv, FlushHolds, Spread
<1>3. /\ pending'[c] = msgBuffer /\ tcpAt'[c] = "flush"
      /\ \A d \in Peers : d # c => pending'[d] = pending[d] /\ tcpAt'[d] = tcpAt[d]
  BY <1>1, <1>2 DEF TcpTypes
<1>4. TcpTypes'
  BY <1>1, <1>2 DEF TcpTypes, TcpStates
<1>5. NoneTwice' /\ FlushHolds'
  BY <1>1, <1>2, <1>3, EmptyList, Zenon DEF NoneTwice, FlushHolds
<1>6. Partition(Spread', Taken(proc'))
  <2>1. /\ Spread[InBuffer] = Range(msgBuffer) /\ Spread[InFlush(c)] = {}
        /\ Spread'[InBuffer] = {} /\ Spread'[InFlush(c)] = Range(msgBuffer)
    BY <1>1, <1>2, <1>3, SpreadIs, SpreadNext, EmptyList, Zenon
  <2>2. Alike(Spread, Spread', {InBuffer, InFlush(c)})
    BY <1>1, <1>3, SpreadSame, Zenon DEF Alike
  <2>3. \A s \in Spots \ {InBuffer, InFlush(c)} : Spread'[s] = Spread[s]
    BY <2>2, AlikeElsewhere, ZenonT(60)
  <2>4. InBuffer \in Spots /\ InFlush(c) \in Spots /\ InBuffer # InFlush(c)
    BY SpotsDiffer, Zenon
  <2>5. Moves(Spread, Spread', InBuffer, InFlush(c), Range(msgBuffer))
    BY <2>1, <2>3, <2>4, Zenon DEF Moves
  <2>6. Partition(Spread', Taken(proc))
    BY <1>2, <2>5, MoveKeeps, Zenon
  <2> QED
    BY <1>1, <2>6, Zenon
<1> QED
  BY <1>4, <1>5, <1>6, TcpInvFollows, Zenon

(* ... writes it message by message, ...                                   *)
LEMMA FlushOneInv ==
  ASSUME TcpInv, NEW c \in Peers, FlushOne(c)
  PROVE  TcpInv'
<1> DEFINE x == Head(pending[c])
<1>1. /\ tcpAt[c] = "flush" /\ pending[c] # <<>>
      /\ written' = [written EXCEPT ![c] = Append(@, x)] /\ pending' = [pending EXCEPT ![c] = Tail(@)]
      /\ UNCHANGED <<tcpAt, activeConns, msgBuffer, tcpDropped, refused, proc>>
  BY Zenon DEF FlushOne, tcpConnVars
<1>2. /\ TcpTypes /\ NoneTwice /\ FlushHolds /\ Partition(Spread, Taken(proc))
      /\ pending[c] \in Seq(Nat) /\ written[c] \in Seq(Nat) /\ NoRepeat(pending[c]) /\ NoRepeat(written[c])
  BY DEF TcpInv, TcpTypes, NoneTwice, Spread
<1>3. /\ pending'[c] = Tail(pending[c]) /\ written'[c] = Append(written[c], x)
      /\ \A d \in Peers : d # c => pending'[d] = pending[d] /\ written'[d] = written[d]
  BY <1>1, <1>2 DEF TcpTypes
<1>4. /\ Tail(pending[c]) \in Seq(Nat) /\ x \in Nat /\ NoRepeat(Tail(pending[c]))
      /\ x \in Range(pending[c]) /\ Range(Tail(pending[c])) = Range(pending[c]) \ {x}
  BY <1>1, <1>2, TailList, Zenon
<1> HIDE DEF x
<1>5. InFlush(c) \in Spots /\ AtPeer(c) \in Spots /\ InFlush(c) # AtPeer(c)
  BY SpotsDiffer, Zenon
<1>6. x \notin Range(written[c])
  <2>1. x \in Spread[InFlush(c)]
    BY <1>4, SpreadIs, Zenon
  <2>2. x \notin Spread[AtPeer(c)]
    BY <1>2, <1>5, <2>1, OnePlace, Zenon
  <2> QED
    BY <2>2, SpreadIs, Zenon
<1>7. /\ Append(written[c], x) \in Seq(Nat) /\ NoRepeat(Append(written[c], x))
      /\ Range(Append(written[c], x)) = Range(written[c]) \cup {x}
  BY <1>2, <1>4, <1>6, AppendList, Zenon
<1>8. TcpTypes'
  BY <1>1, <1>2, <1>4, <1>7 DEF TcpTypes
<1>9. NoneTwice' /\ FlushHolds'
  BY <1>1, <1>2, <1>3, <1>4, <1>7, Zenon DEF NoneTwice, FlushHolds
<1>10. Partition(Spread', Taken(proc'))
  <2>1. /\ Spread'[InFlush(c)] = Spread[InFlush(c)] \ {x}
        /\ Spread'[AtPeer(c)] = Spread[AtPeer(c)] \cup {x} /\ {x} \subseteq Spread[InFlush(c)]
    BY <1>3, <1>4, <1>7, SpreadIs, SpreadNext, Zenon
  <2>2. Alike(Spread, Spread', {InFlush(c), AtPeer(c)})
    BY <1>1, <1>3, SpreadSame, Zenon DEF Alike
  <2>3. \A s \in Spots \ {InFlush(c), AtPeer(c)} : Spread'[s] = Spread[s]
    BY <2>2, AlikeElsewhere, Zenon
  <2>4. Moves(Spread, Spread', InFlush(c), AtPeer(c), {x})
    BY <1>5, <2>1, <2>3, Zenon DEF Moves
  <2>5. Partition(Spread', Taken(proc))
    BY <1>2, <2>4, MoveKeeps, Zenon
  <2> QED
    BY <1>1, <2>5, Zenon
<1> QED
  BY <1>8, <1>9, <1>10, TcpInvFollows, Zenon

(* ... and puts what a failed write left back in front of the buffer,       *)
(* within its cap: first a move into the buffer (H), then what goes over.   *)
LEMMA FlushFailsInv ==
  ASSUME TcpInv, NEW c \in Peers, FlushFails(c)
  PROVE  TcpInv'
<1> DEFINE all == pending[c] \o msgBuffer
           H == [s \in Spots |-> IF s = InFlush(c) THEN {} ELSE IF s = InBuffer THEN Range(all) ELSE Spread[s]]
<1>1. /\ tcpAt[c] = "flush" /\ tcpAt' = [tcpAt EXCEPT ![c] = "scan"]
      /\ msgBuffer' = Keep(all) /\ tcpDropped' = tcpDropped \cup Over(all)
      /\ pending' = [pending EXCEPT ![c] = <<>>]
      /\ UNCHANGED <<activeConns, written, refused, proc>>
  BY Zenon DEF FlushFails, TcpStep, requeue
<1>2. /\ TcpTypes /\ NoneTwice /\ FlushHolds /\ Partition(Spread, Taken(proc))
      /\ pending[c] \in Seq(Nat) /\ msgBuffer \in Seq(Nat) /\ NoRepeat(pending[c]) /\ NoRepeat(msgBuffer)
  BY DEF TcpInv, TcpTypes, NoneTwice, Spread
<1>3. /\ pending'[c] = <<>> /\ tcpAt'[c] = "scan"
      /\ \A d \in Peers : d # c => pending'[d] = pending[d] /\ tcpAt'[d] = tcpAt[d]
  BY <1>1, <1>2 DEF TcpTypes
<1>4. /\ InFlush(c) \in Spots /\ InBuffer \in Spots /\ AsDropped \in Spots
      /\ InFlush(c) # InBuffer /\ InFlush(c) # AsDropped /\ InBuffer # AsDropped
  BY SpotsDiffer, Zenon
<1>5. Disjoint(pending[c], msgBuffer)
  <2> SUFFICES ASSUME NEW y \in Range(pending[c]) PROVE y \notin Range(msgBuffer)
    BY Zenon DEF Disjoint
  <2>1. y \in Spread[InFlush(c)]
    BY SpreadIs, Zenon
  <2>2. y \notin Spread[InBuffer]
    BY <1>2, <1>4, <2>1, OnePlace, Zenon
  <2> QED
    BY <2>2, SpreadIs, Zenon
<1>6. all \in Seq(Nat) /\ NoRepeat(all) /\ Range(all) = Range(pending[c]) \cup Range(msgBuffer)
  BY <1>2, <1>5, ConcatList, Zenon
<1> HIDE DEF all
<1>7. /\ Keep(all) \in Seq(Nat) /\ NoRepeat(Keep(all))
      /\ Over(all) \subseteq Range(all) /\ Range(Keep(all)) = Range(all) \ Over(all)
  BY <1>6, CapList, Zenon
<1>8. TcpTypes'
  BY <1>1, <1>2, <1>7 DEF TcpTypes, TcpStates
<1>9. NoneTwice' /\ FlushHolds'
  BY <1>1, <1>2, <1>3, <1>7, EmptyList, Zenon DEF NoneTwice, FlushHolds
<1>10. /\ H[InFlush(c)] = {} /\ H[InBuffer] = Range(all)
       /\ \A s \in Spots \ {InFlush(c), InBuffer} : H[s] = Spread[s]
  BY <1>4, Zenon
<1> HIDE DEF H
<1>11. Partition(H, Taken(proc))
  <2>1. /\ H[InFlush(c)] = Spread[InFlush(c)] \ Range(pending[c])
        /\ H[InBuffer] = Spread[InBuffer] \cup Range(pending[c])
        /\ Range(pending[c]) \subseteq Spread[InFlush(c)]
    BY <1>6, <1>10, SpreadIs, Zenon
  <2>2. Moves(Spread, H, InFlush(c), InBuffer, Range(pending[c]))
    BY <1>4, <1>10, <2>1, Zenon DEF Moves
  <2> QED
    BY <1>2, <2>2, MoveKeeps, Zenon
<1>12. Partition(Spread', Taken(proc'))
  <2>1. H[AsDropped] = tcpDropped /\ Spread'[InBuffer] = Range(Keep(all))
        /\ Spread'[AsDropped] = tcpDropped \cup Over(all)
    BY <1>1, <1>4, <1>10, SpreadIs, SpreadNext, Zenon
  <2>2. /\ Spread'[InBuffer] = H[InBuffer] \ Over(all) /\ Spread'[AsDropped] = H[AsDropped] \cup Over(all)
        /\ Over(all) \subseteq H[InBuffer]
    BY <1>7, <1>10, <2>1, Zenon
  <2>3. Alike(Spread, Spread', {InFlush(c), InBuffer, AsDropped})
    BY <1>1, <1>3, SpreadSame, Zenon DEF Alike
  <2>4. Spread'[InFlush(c)] = H[InFlush(c)]
    BY <1>3, <1>10, SpreadNext, EmptyList, Zenon
  <2>5. \A s \in Spots \ {InFlush(c), InBuffer, AsDropped} : Spread'[s] = Spread[s]
    BY <2>3, AlikeElsewhere, ZenonT(60)
  <2>6. \A s \in Spots \ {InBuffer, AsDropped} : Spread'[s] = H[s]
    BY <1>10, <2>4, <2>5, Zenon
  <2>7. Moves(H, Spread', InBuffer, AsDropped, Over(all))
    BY <1>4, <2>2, <2>6, Zenon DEF Moves
  <2>8. Partition(Spread', Taken(proc))
    BY <1>11, <2>7, MoveKeeps, Zenon
  <2> QED
    BY <1>1, <2>8, Zenon
<1> QED
  BY <1>8, <1>9, <1>12, TcpInvFollows, Zenon

(* Process: a message that is refused or written is done with in one step; *)
(* one that is still in hand is in no place yet.                           *)
LEMMA TakenDone ==
  ASSUME TcpTypes, proc.at # "idle"
  PROVE  /\ proc.m \in Nat /\ proc.m \notin Taken(proc)
         /\ \A to : Taken([proc EXCEPT !.at = "idle", !.to = to]) = Taken(proc) \cup {proc.m}
<1>1. proc.m \in Nat /\ proc.m > 0
  BY DEF TcpTypes
<1>2. Taken(proc) = 1..proc.m - 1
  BY DEF Taken
<1>3. ASSUME NEW to PROVE Taken([proc EXCEPT !.at = "idle", !.to = to]) = 1..proc.m
  BY DEF Taken, TcpTypes
<1>4. 1..proc.m = (1..proc.m - 1) \cup {proc.m} /\ proc.m \notin 1..proc.m - 1
  BY <1>1
<1> QED
  BY <1>1, <1>2, <1>3, <1>4, Zenon

(* A message that Process refuses is a new one among the refused.          *)
LEMMA RefusedAdds ==
  ASSUME NEW x, refused' = refused \cup {x},
         UNCHANGED <<msgBuffer, pending, written, tcpDropped>>
  PROVE  Adds(Spread, Spread', AsRefused, x)
<1>1. Spread'[AsRefused] = Spread[AsRefused] \cup {x}
  BY SpreadIs, SpreadNext, Zenon
<1>2. Alike(Spread, Spread', {AsRefused})
  BY SpreadSame, Zenon DEF Alike
<1>3. \A s \in Spots \ {AsRefused} : Spread'[s] = Spread[s]
  BY <1>2, AlikeElsewhere, Zenon
<1> QED
  BY <1>1, <1>3, SpotsDiffer, Zenon DEF Adds

(* The message refused at once, or handed on.                              *)
LEMMA ProcessInv ==
  ASSUME TcpInv, ProcessAny \/ \E c \in Peers : ProcessNamed(c)
  PROVE  TcpInv'
<1> DEFINE x == proc.m + 1
<1>1. /\ proc.at = "idle" /\ UNCHANGED <<tcpAt, activeConns, msgBuffer, pending, written, tcpDropped>>
      /\ \/ /\ proc' = [at |-> "idle", m |-> x, to |-> Nobody] /\ refused' = refused \cup {x}
         \/ /\ \E a \in {"buffer", "sole"} : proc' = [at |-> a, m |-> x, to |-> Nobody]
            /\ refused' = refused
         \/ /\ \E c \in Peers : proc' = [at |-> "write", m |-> x, to |-> c]
            /\ refused' = refused
  <2>1. CASE ProcessAny
    <3>1. Cardinality(activeConns) \in Nat
      BY FS_CardinalityType, Zenon DEF TcpInv, TcpTypes
    <3>2. CASE Cardinality(activeConns) \in {0, 1}
      BY <2>1, <3>2 DEF ProcessAny, tcpConnVars
    <3>3. CASE Cardinality(activeConns) \notin {0, 1}
      <4>1. Cardinality(activeConns) > 1 /\ Cardinality(activeConns) # 0 /\ Cardinality(activeConns) # 1
        BY <3>1, <3>3
      <4> QED
        BY <2>1, <4>1 DEF ProcessAny, tcpConnVars
    <3> QED
      BY <3>2, <3>3
  <2>2. CASE \E c \in Peers : ProcessNamed(c)
    BY <2>2, Zenon DEF ProcessNamed, tcpConnVars
  <2> QED
    BY <2>1, <2>2
<1>2. /\ TcpTypes /\ NoneTwice /\ FlushHolds /\ Partition(Spread, Taken(proc)) /\ proc.m \in Nat
  BY DEF TcpInv, TcpTypes, Spread
<1>3. x \in Nat /\ x > 0 /\ x - 1 = proc.m /\ 1..x = (1..proc.m) \cup {x} /\ x \notin 1..proc.m
  BY <1>2
<1>4. Taken(proc) = 1..proc.m
  BY <1>1, Zenon DEF Taken
<1> HIDE DEF x
<1>5. TcpTypes'
  BY <1>1, <1>2, <1>3 DEF TcpTypes
<1>6. NoneTwice' /\ FlushHolds'
  BY <1>1, <1>2, Zenon DEF NoneTwice, FlushHolds
<1>7. CASE proc'.at = "idle"
  <2>1. proc' = [at |-> "idle", m |-> x, to |-> Nobody] /\ refused' = refused \cup {x}
    <3>1. ASSUME NEW a, a # "idle", NEW c, proc' = [at |-> a, m |-> x, to |-> c]
          PROVE  FALSE
      BY <1>7, <3>1, Zenon
    <3>2. "write" # "idle" /\ \A a \in {"buffer", "sole"} : a # "idle"
      OBVIOUS
    <3> QED
      BY <1>1, <3>1, <3>2, Zenon
  <2>2. Taken(proc') = Taken(proc) \cup {x} /\ x \notin Taken(proc)
    BY <1>3, <1>4, <2>1 DEF Taken
  <2>3. Adds(Spread, Spread', AsRefused, x)
    BY <1>1, <2>1, RefusedAdds, Zenon
  <2>4. Partition(Spread', Taken(proc) \cup {x})
    BY <1>2, <2>2, <2>3, AddKeeps, Zenon
  <2>5. Partition(Spread', Taken(proc'))
    BY <2>2, <2>4, Zenon
  <2> QED
    BY <1>5, <1>6, <2>5, TcpInvFollows, Zenon
<1>8. CASE proc'.at # "idle"
  <2>1. proc'.m = x /\ refused' = refused
    BY <1>1, <1>8
  <2>2. Taken(proc') = Taken(proc)
    BY <1>3, <1>4, <1>8, <2>1 DEF Taken
  <2> QED
    BY <1>1, <1>5, <1>6, <2>1, <2>2, SpreadStays, Zenon
<1> QED
  BY <1>7, <1>8

(* The choice of the only connection, or of the buffer, moves no message.  *)
LEMMA SoleInv ==
  ASSUME TcpInv, soleActiveConnection
  PROVE  TcpInv'
<1>1. /\ UNCHANGED <<tcpAt, activeConns, msgBuffer, pending, written, tcpDropped, refused>>
      /\ proc.at = "sole"
      /\ \/ \E c \in Peers : proc' = [proc EXCEPT !.at = "write", !.to = c]
         \/ proc' = [proc EXCEPT !.at = "buffer", !.to = Nobody]
  BY Zenon DEF soleActiveConnection, Proc, tcpConnVars
<1>2. TcpTypes' /\ Taken(proc') = Taken(proc)
  BY <1>1, Zenon DEF TcpInv, TcpTypes, Taken
<1>3. FlushHolds'
  BY <1>1, Zenon DEF TcpInv, FlushHolds
<1> QED
  BY <1>1, <1>2, <1>3, SpreadStays, Zenon

(* A message that goes to the end of the buffer, within its cap.           *)
LEMMA BufferInv ==
  ASSUME TcpInv, bufferMessage
  PROVE  TcpInv'
<1> DEFINE x == proc.m
           all == Append(msgBuffer, x)
           H == [s \in Spots |-> IF s = InBuffer THEN Range(all) ELSE Spread[s]]
<1>1. /\ proc.at = "buffer" /\ proc' = [proc EXCEPT !.at = "idle", !.to = Nobody]
      /\ msgBuffer' = Keep(all) /\ tcpDropped' = tcpDropped \cup Over(all)
      /\ UNCHANGED <<tcpAt, activeConns, pending, written, refused>>
  BY Zenon DEF bufferMessage, Returns, tcpConnVars
<1>2. /\ TcpTypes /\ NoneTwice /\ FlushHolds /\ Partition(Spread, Taken(proc))
      /\ msgBuffer \in Seq(Nat) /\ NoRepeat(msgBuffer)
  BY DEF TcpInv, TcpTypes, NoneTwice, Spread
<1>3. x \in Nat /\ x \notin Taken(proc) /\ Taken(proc') = Taken(proc) \cup {x}
  <2>1. proc.at # "idle"
    BY <1>1
  <2> QED
    BY <1>1, <1>2, <2>1, TakenDone, Zenon
<1> HIDE DEF x
<1>4. InBuffer \in Spots /\ AsDropped \in Spots /\ InBuffer # AsDropped
  BY SpotsDiffer
<1>5. x \notin Range(msgBuffer)
  <2>1. Spread[InBuffer] \subseteq Taken(proc)
    BY <1>2, <1>4, Zenon DEF Partition
  <2> QED
    BY <1>3, <2>1, SpreadIs, Zenon
<1>6. all \in Seq(Nat) /\ NoRepeat(all) /\ Range(all) = Range(msgBuffer) \cup {x}
  BY <1>2, <1>3, <1>5, AppendList, Zenon
<1> HIDE DEF all
<1>7. /\ Keep(all) \in Seq(Nat) /\ NoRepeat(Keep(all))
      /\ Over(all) \subseteq Range(all) /\ Range(Keep(all)) = Range(all) \ Over(all)
  BY <1>6, CapList, Zenon
<1>8. TcpTypes'
  BY <1>1, <1>2, <1>7, Zenon DEF TcpTypes
<1>9. NoneTwice' /\ FlushHolds'
  BY <1>1, <1>2, <1>7, Zenon DEF NoneTwice, FlushHolds
<1>10. H[InBuffer] = Range(all) /\ \A s \in Spots \ {InBuffer} : H[s] = Spread[s]
  BY <1>4, Zenon
<1> HIDE DEF H
<1>11. Partition(H, Taken(proc) \cup {x})
  <2>1. H[InBuffer] = Spread[InBuffer] \cup {x}
    BY <1>6, <1>10, SpreadIs, Zenon
  <2>2. Adds(Spread, H, InBuffer, x)
    BY <1>4, <1>10, <2>1, Zenon DEF Adds
  <2> QED
    BY <1>2, <1>3, <2>2, AddKeeps, Zenon
<1>12. Partition(Spread', Taken(proc'))
  <2>1. H[AsDropped] = tcpDropped /\ Spread'[InBuffer] = Range(Keep(all))
        /\ Spread'[AsDropped] = tcpDropped \cup Over(all)
    BY <1>1, <1>4, <1>10, SpreadIs, SpreadNext, Zenon
  <2>2. /\ Spread'[InBuffer] = H[InBuffer] \ Over(all) /\ Spread'[AsDropped] = H[AsDropped] \cup Over(all)
        /\ Over(all) \subseteq H[InBuffer]
    BY <1>7, <1>10, <2>1, Zenon
  <2>3. Alike(Spread, Spread', {InBuffer, AsDropped})
    BY <1>1, SpreadSame, Zenon DEF Alike
  <2>4. \A s \in Spots \ {InBuffer, AsDropped} : Spread'[s] = Spread[s]
    BY <2>3, AlikeElsewhere, ZenonT(60)
  <2>5. Moves(H, Spread', InBuffer, AsDropped, Over(all))
    BY <1>4, <1>10, <2>2, <2>4, Zenon DEF Moves
  <2>6. Partition(Spread', Taken(proc) \cup {x})
    BY <1>11, <2>5, MoveKeeps, Zenon
  <2> QED
    BY <1>3, <2>6, Zenon
<1> QED
  BY <1>8, <1>9, <1>12, TcpInvFollows, Zenon

(* A write hands the message to a peer or has it refused.                  *)
LEMMA WriteToInv ==
  ASSUME TcpInv, writeTo
  PROVE  TcpInv'
<1> DEFINE x == proc.m
           c == proc.to
<1>1. /\ proc.at = "write" /\ proc' = [proc EXCEPT !.at = "idle", !.to = Nobody]
      /\ \/ written' = [written EXCEPT ![c] = Append(@, x)] /\ refused' = refused
         \/ refused' = refused \cup {x} /\ written' = written
      /\ UNCHANGED <<tcpAt, activeConns, msgBuffer, pending, tcpDropped>>
  BY Zenon DEF writeTo, Returns, tcpConnVars
<1>2. /\ TcpTypes /\ NoneTwice /\ FlushHolds /\ Partition(Spread, Taken(proc)) /\ c \in Peers
      /\ written[c] \in Seq(Nat) /\ NoRepeat(written[c])
  BY <1>1 DEF TcpInv, TcpTypes, NoneTwice, Spread
<1>3. x \in Nat /\ x \notin Taken(proc) /\ Taken(proc') = Taken(proc) \cup {x}
  <2>1. proc.at # "idle"
    BY <1>1
  <2> QED
    BY <1>1, <1>2, <2>1, TakenDone, Zenon
<1> HIDE DEF x, c
<1>4. AtPeer(c) \in Spots /\ AsRefused \in Spots
  BY <1>2, SpotsDiffer
<1>5. x \notin Range(written[c])
  <2>1. Spread[AtPeer(c)] \subseteq Taken(proc)
    BY <1>2, <1>4, Zenon DEF Partition
  <2> QED
    BY <1>2, <1>3, <2>1, SpreadIs, Zenon
<1>6. /\ Append(written[c], x) \in Seq(Nat) /\ NoRepeat(Append(written[c], x))
      /\ Range(Append(written[c], x)) = Range(written[c]) \cup {x}
  BY <1>2, <1>3, <1>5, AppendList, Zenon
<1>7. TcpTypes' /\ FlushHolds'
  <2>1. TcpTypes'
    BY <1>1, <1>2, <1>6, Zenon DEF TcpTypes
  <2> QED
    BY <1>1, <1>2, <2>1, Zenon DEF FlushHolds
<1>8. CASE written' = [written EXCEPT ![c] = Append(@, x)] /\ refused' = refused
  <2>1. written'[c] = Append(written[c], x) /\ \A d \in Peers : d # c => written'[d] = written[d]
    BY <1>2, <1>8 DEF TcpTypes
  <2>2. NoneTwice'
    BY <1>1, <1>2, <1>6, <2>1, Zenon DEF NoneTwice
  <2>3. Spread'[AtPeer(c)] = Spread[AtPeer(c)] \cup {x}
    BY <1>2, <1>6, <2>1, SpreadIs, SpreadNext, Zenon
  <2>4. Alike(Spread, Spread', {AtPeer(c)})
    BY <1>1, <1>8, <2>1, SpreadSame, Zenon DEF Alike
  <2>5. \A s \in Spots \ {AtPeer(c)} : Spread'[s] = Spread[s]
    BY <2>4, AlikeElsewhere, Zenon
  <2>6. Adds(Spread, Spread', AtPeer(c), x)
    BY <1>4, <2>3, <2>5, Zenon DEF Adds
  <2>7. Partition(Spread', Taken(proc) \cup {x})
    BY <1>2, <1>3, <2>6, AddKeeps, Zenon
  <2>8. Partition(Spread', Taken(proc'))
    BY <1>3, <2>7, Zenon
  <2> QED
    BY <1>7, <2>2, <2>8, TcpInvFollows, Zenon
<1>9. CASE refused' = refused \cup {x} /\ written' = written
  <2>1. NoneTwice'
    BY <1>1, <1>2, <1>9, Zenon DEF NoneTwice
  <2>2. Adds(Spread, Spread', AsRefused, x)
    BY <1>1, <1>9, RefusedAdds, Zenon
  <2>3. Partition(Spread', Taken(proc) \cup {x})
    BY <1>2, <1>3, <2>2, AddKeeps, Zenon
  <2>4. Partition(Spread', Taken(proc'))
    BY <1>3, <2>3, Zenon
  <2> QED
    BY <1>7, <2>1, <2>4, TcpInvFollows, Zenon
<1> QED
  BY <1>1, <1>8, <1>9, Zenon

(* The TCP server starts with no message anywhere.                         *)
LEMMA TcpInitInv == TcpInit => TcpInv
<1> SUFFICES ASSUME TcpInit PROVE TcpInv
  OBVIOUS
<1>1. TcpTypes
  BY FS_EmptySet DEF TcpInit, TcpTypes, TcpStates, Nobody
<1>2. /\ msgBuffer = <<>> /\ tcpDropped = {} /\ refused = {} /\ proc.at = "idle" /\ proc.m = 0
      /\ \A c \in Peers : pending[c] = <<>> /\ written[c] = <<>>
  BY DEF TcpInit
<1>3. NoneTwice /\ FlushHolds
  BY <1>2, EmptyList, Zenon DEF NoneTwice, FlushHolds
<1>4. Taken(proc) = {}
  BY <1>2 DEF Taken
<1>5. \A s \in Spots : Spread[s] = {}
  BY <1>2, SpreadIs, SpotsDiffer, EmptyList, Zenon
<1>6. Partition(Spread, Taken(proc))
  BY <1>4, <1>5, Zenon DEF Partition
<1> QED
  BY <1>1, <1>3, <1>6, Zenon DEF TcpInv, Spread

(* Counting: a list without repetitions holds a message once or not at all, *)
(* and of all peers one at most holds it.                                   *)
LEMMA OccursOnce ==
  ASSUME NEW q \in Seq(Nat), NoRepeat(q), NEW m
  PROVE  Occurs(m, q) = IF m \in Range(q) THEN 1 ELSE 0
<1> DEFINE I == {i \in 1..Len(q) : q[i] = m}
<1>1. CASE m \in Range(q)
  <2>1. PICK k \in 1..Len(q) : q[k] = m
    BY <1>1, ListOf, Zenon
  <2>2. I = {k}
    BY <2>1, Zenon DEF NoRepeat
  <2>3. Cardinality(I) = 1
    BY <2>2, FS_Singleton, Zenon
  <2> QED
    BY <1>1, <2>3, Zenon DEF Occurs
<1>2. CASE m \notin Range(q)
  <2>1. I = {}
    BY <1>2, ListOf, Zenon
  <2>2. Cardinality(I) = 0
    BY <2>1, FS_EmptySet, Zenon
  <2> QED
    BY <1>2, <2>2, Zenon DEF Occurs
<1> QED
  BY <1>1, <1>2

(* What a partition says of each message.                                  *)
LEMMA OneInPlace == TcpInv => EachMessageOnce
<1> SUFFICES ASSUME TcpInv, NEW m \in Taken(proc)
             PROVE  Occurs(m, msgBuffer) + Cardinality({c \in Peers : Occurs(m, pending[c]) = 1})
                      + Cardinality({c \in Peers : Occurs(m, written[c]) = 1})
                      + (IF m \in tcpDropped THEN 1 ELSE 0) + (IF m \in refused THEN 1 ELSE 0) = 1
  BY Zenon DEF EachMessageOnce, Taken
<1> DEFINE P == {c \in Peers : Occurs(m, pending[c]) = 1}
           W == {c \in Peers : Occurs(m, written[c]) = 1}
<1>1. /\ Partition(Spread, Taken(proc)) /\ TcpTypes /\ NoneTwice
  BY Zenon DEF TcpInv, Spread
<1>2. /\ Occurs(m, msgBuffer) = IF m \in Spread[InBuffer] THEN 1 ELSE 0
      /\ m \in tcpDropped <=> m \in Spread[AsDropped]
      /\ m \in refused <=> m \in Spread[AsRefused]
  <2>1. Occurs(m, msgBuffer) = IF m \in Range(msgBuffer) THEN 1 ELSE 0
    BY <1>1, OccursOnce, Zenon DEF TcpTypes, NoneTwice
  <2> QED
    BY <2>1, SpreadIs, Zenon
<1>3. ASSUME NEW c \in Peers
      PROVE  /\ c \in P <=> m \in Spread[InFlush(c)]
             /\ c \in W <=> m \in Spread[AtPeer(c)]
  <2>1. /\ pending[c] \in Seq(Nat) /\ NoRepeat(pending[c])
        /\ written[c] \in Seq(Nat) /\ NoRepeat(written[c])
    BY <1>1 DEF TcpTypes, NoneTwice
  <2>2. /\ Occurs(m, pending[c]) = IF m \in Range(pending[c]) THEN 1 ELSE 0
        /\ Occurs(m, written[c]) = IF m \in Range(written[c]) THEN 1 ELSE 0
    BY <2>1, OccursOnce, Zenon
  <2>3. /\ Occurs(m, pending[c]) = 1 <=> m \in Range(pending[c])
        /\ Occurs(m, written[c]) = 1 <=> m \in Range(written[c])
    BY <2>2
  <2> QED
    BY <2>3, SpreadIs, Zenon
<1>4. PICK s \in Spots : m \in Spread[s] /\ \A t \in Spots : m \in Spread[t] => t = s
  BY <1>1, Zenon DEF Partition
<1>5. /\ P \subseteq Peers /\ W \subseteq Peers
      /\ Cardinality({}) = 0 /\ \A c : Cardinality({c}) = 1
  BY FS_EmptySet, FS_Singleton, Zenon
<1> HIDE DEF P, W
<1>6. CASE s \in {InBuffer, AsDropped, AsRefused}
  <2>1. P = {} /\ W = {}
    BY <1>3, <1>4, <1>5, <1>6, SpotsDiffer, Zenon
  <2>2. Cardinality(P) = 0 /\ Cardinality(W) = 0
    BY <1>5, <2>1, Zenon
  <2>3. /\ m \in Spread[InBuffer] <=> s = InBuffer
        /\ m \in Spread[AsDropped] <=> s = AsDropped
        /\ m \in Spread[AsRefused] <=> s = AsRefused
    BY <1>4, SpotsDiffer, Zenon
  <2>4. Occurs(m, msgBuffer) + Cardinality(P) + Cardinality(W)
          + (IF m \in tcpDropped THEN 1 ELSE 0) + (IF m \in refused THEN 1 ELSE 0) = 1
    <3>1. InBuffer # AsDropped /\ InBuffer # AsRefused /\ AsDropped # AsRefused
      BY SpotsDiffer, Zenon
    <3>2. CASE s = InBuffer
      <4>1. Occurs(m, msgBuffer) = 1 /\ m \notin tcpDropped /\ m \notin refused
        BY <1>2, <2>3, <3>1, <3>2, Zenon
      <4> QED
        BY <2>2, <4>1
    <3>3. CASE s = AsDropped
      <4>1. Occurs(m, msgBuffer) = 0 /\ m \in tcpDropped /\ m \notin refused
        BY <1>2, <2>3, <3>1, <3>3, Zenon
      <4> QED
        BY <2>2, <4>1
    <3>4. CASE s = AsRefused
      <4>1. Occurs(m, msgBuffer) = 0 /\ m \notin tcpDropped /\ m \in refused
        BY <1>2, <2>3, <3>1, <3>4, Zenon
      <4> QED
        BY <2>2, <4>1
    <3> QED
      BY <1>6, <3>2, <3>3, <3>4
  <2> QED
    BY <2>4, Zenon DEF P, W
<1>7. CASE s \notin {InBuffer, AsDropped, AsRefused}
  <2>1. Occurs(m, msgBuffer) = 0 /\ m \notin tcpDropped /\ m \notin refused
    BY <1>2, <1>4, <1>7, SpotsDiffer, Zenon
  <2>2. PICK c \in Peers : s \in {InFlush(c), AtPeer(c)}
    BY <1>7, SpotsDiffer, Zenon
  <2>3. CASE s = InFlush(c)
    <3>1. \A d \in Peers : InFlush(d) = s <=> d = c
      BY <2>3, SpotsDiffer, Zenon
    <3>2. \A d \in Peers : AtPeer(d) # s
      BY <2>3 DEF InFlush, AtPeer
    <3>3. \A d \in Peers : (d \in P <=> d = c) /\ d \notin W
      BY <1>3, <1>4, <3>1, <3>2, SpotsDiffer, Zenon
    <3>4. P = {c} /\ W = {}
      BY <1>5, <3>3, Zenon
    <3>5. Cardinality(P) = 1 /\ Cardinality(W) = 0
      BY <1>5, <3>4, Zenon
    <3>6. Occurs(m, msgBuffer) + Cardinality(P) + Cardinality(W)
            + (IF m \in tcpDropped THEN 1 ELSE 0) + (IF m \in refused THEN 1 ELSE 0) = 1
      BY <2>1, <3>5
    <3> QED
      BY <3>6, Zenon DEF P, W
  <2>4. CASE s = AtPeer(c)
    <3>1. \A d \in Peers : AtPeer(d) = s <=> d = c
      BY <2>4, SpotsDiffer, Zenon
    <3>2. \A d \in Peers : InFlush(d) # s
      BY <2>4 DEF InFlush, AtPeer
    <3>3. \A d \in Peers : (d \in W <=> d = c) /\ d \notin P
      BY <1>3, <1>4, <3>1, <3>2, SpotsDiffer, Zenon
    <3>4. P = {} /\ W = {c}
      BY <1>5, <3>3, Zenon
    <3>5. Cardinality(P) = 0 /\ Cardinality(W) = 1
      BY <1>5, <3>4, Zenon
    <3>6. Occurs(m, msgBuffer) + Cardinality(P) + Cardinality(W)
            + (IF m \in tcpDropped THEN 1 ELSE 0) + (IF m \in refused THEN 1 ELSE 0) = 1
      BY <2>1, <3>5
    <3> QED
      BY <3>6, Zenon DEF P, W
  <2> QED
    BY <2>2, <2>3, <2>4, Zenon
<1> QED
  BY <1>6, <1>7

(* Every message Process is done with (server.go) is in exactly one place:  *)
(* buffered, in the hands of one flush, written to one peer, refused or     *)
(* counted as dropped, for any number of peers, cap and interleaving.       *)
THEOREM MessagesStayOnce == TcpSpec => []EachMessageOnce
<1>1. TcpInv /\ [TcpNext]_tcpVars => TcpInv'
  <2> SUFFICES ASSUME TcpInv, [TcpNext]_tcpVars PROVE TcpInv'
    OBVIOUS
  <2>1. ASSUME NEW c \in Peers, TcpAccept(c) \/ TcpHandler(c) \/ PeerCloses(c) PROVE TcpInv'
    BY <2>1, ConnectionInv, TakeBufferInv, FlushOneInv, FlushFailsInv, Zenon DEF TcpHandler
  <2>2. CASE TcpProcess
    BY <2>2, ProcessInv, SoleInv, BufferInv, WriteToInv, Zenon DEF TcpProcess
  <2>3. CASE \/ TcpDrainBegin \/ TcpDrainReturn \/ TcpStopBegin \/ TcpStopSweep
             \/ UNCHANGED tcpVars
    <3>1. UNCHANGED <<tcpAt, activeConns, tcpMsgVars>>
      BY <2>3, Zenon DEF TcpDrainBegin, TcpDrainReturn, TcpStopBegin, TcpStopSweep, tcpVars, tcpConnVars
    <3>2. TcpTypes' /\ FlushHolds'
      BY <3>1, Zenon DEF TcpInv, TcpTypes, FlushHolds, tcpMsgVars
    <3> QED
      BY <3>1, <3>2, SpreadStays, Zenon DEF tcpMsgVars
  <2> QED
    BY <2>1, <2>2, <2>3, Zenon DEF TcpNext
<1> QED
  BY <1>1, TcpInitInv, OneInPlace, PTL DEF TcpSpec
===============================================================================
