-------------------------------- MODULE Rotator --------------------------------
(* The log rotator: writers behind one mutex, a rotation when a write would    *)
(* pass the size, and one cleanup goroutine per rotation that compresses the   *)
(* backup and prunes the old ones, all of them on one directory.               *)
EXTENDS Integers, FiniteSets

CONSTANTS MaxSize,      \* maxSize, in lengths of a write
          MaxBackups,   \* maxBackups
          MaxRotations, \* bound on rotations
          MaxNow        \* bound on the clock, in the milliseconds of a timestamp

ASSUME RotatorAssumption ==
  MaxSize \in Nat /\ MaxBackups \in Nat /\ MaxRotations \in Nat /\ MaxNow \in Nat

VARIABLES size,      \* r.size
          broken,    \* the file is closed: a rotation failed between Close and open
          backups,   \* backups on disk: <<timestamp, compressed>>
          now,       \* the clock
          rotated,   \* rotations so far
          cleanup,   \* [rotations -> what its goroutine does next, and on which files]
          compress   \* r.compress

rotvars == <<size, broken, backups, now, rotated, cleanup, compress>>

RotatorTypeOK ==
  /\ size \in 0..MaxSize /\ broken \in BOOLEAN /\ backups \subseteq (0..MaxNow) \X BOOLEAN
  /\ \A r \in DOMAIN cleanup : cleanup[r].pc \in {"compress", "remove", "list", "delete", "done"}

RotatorInit ==
  /\ size \in 0..MaxSize /\ broken = FALSE /\ backups = {} /\ now = 0 /\ rotated = 0
  /\ cleanup = [r \in {} |-> [pc |-> "done", of |-> 0, old |-> {}]] /\ compress \in BOOLEAN

RotatorTick == now < MaxNow /\ now' = now + 1 /\ UNCHANGED <<size, broken, backups, rotated, cleanup, compress>>
--------------------------------------------------------------------------------
(* Write: into the file as it is, or into a new one behind a rotation.         *)
WriteInto(n) ==
  /\ ~broken /\ size + n <= MaxSize /\ size' = size + n
  /\ UNCHANGED <<broken, backups, now, rotated, cleanup, compress>>

Starts == IF compress THEN "compress" ELSE "list"
rotate(n) ==
  /\ ~broken /\ size + n > MaxSize /\ rotated < MaxRotations
  /\ rotated' = rotated + 1 /\ backups' = backups \cup {<<now, FALSE>>} /\ size' = n
  /\ cleanup' = [r \in DOMAIN cleanup \cup {rotated + 1} |->
                   IF r = rotated + 1 THEN [pc |-> Starts, of |-> now, old |-> {}] ELSE cleanup[r]]
  /\ UNCHANGED <<broken, now, compress>>
(* The rename or the open fails.  The file stays closed, and every later write *)
(* fails with it.                                                              *)
rotateFails(n) ==
  /\ ~broken /\ size + n > MaxSize /\ broken' = TRUE
  /\ backups' \in {backups, backups \cup {<<now, FALSE>>}}
  /\ UNCHANGED <<size, now, rotated, cleanup, compress>>
--------------------------------------------------------------------------------
(* The goroutine of rotation r.                                                *)
CleanupGoes(r, pc) == cleanup' = [cleanup EXCEPT ![r].pc = pc]

(* A copy that fails half way leaves what it wrote.                            *)
compressFile(r) ==
  /\ cleanup[r].pc = "compress"
  /\ \/ /\ <<cleanup[r].of, FALSE>> \in backups
        /\ \E pc \in {"remove", "list"} : CleanupGoes(r, pc)
        /\ backups' = backups \cup {<<cleanup[r].of, TRUE>>}
     \/ CleanupGoes(r, "list") /\ UNCHANGED backups
  /\ UNCHANGED <<size, broken, now, rotated, compress>>
RemoveOriginal(r) ==
  /\ cleanup[r].pc = "remove" /\ CleanupGoes(r, "list") /\ backups' = backups \ {<<cleanup[r].of, FALSE>>}
  /\ UNCHANGED <<size, broken, now, rotated, compress>>

(* Names sort by timestamp, a compressed file behind the one it came from.     *)
Before(a, b) == a[1] < b[1] \/ (a[1] = b[1] /\ ~a[2] /\ b[2])
\* Variant of Oldest: one backup more is kept, as if the file in use were listed.
OldestButOne == {f \in backups : Cardinality({g \in backups : Before(f, g)}) >= MaxBackups + 1}
Oldest == {f \in backups : Cardinality({g \in backups : Before(f, g)}) >= MaxBackups}
ListBackups(r) ==
  /\ cleanup[r].pc = "list"
  /\ cleanup' = [cleanup EXCEPT ![r] = [@ EXCEPT !.pc = "delete", !.old = IF MaxBackups = 0 THEN {} ELSE Oldest]]
  /\ UNCHANGED <<size, broken, backups, now, rotated, compress>>
DeleteOldest(r) ==
  /\ cleanup[r].pc = "delete" /\ CleanupGoes(r, "done") /\ backups' = backups \ cleanup[r].old
  /\ UNCHANGED <<size, broken, now, rotated, compress>>

RotatorNext ==
  \/ RotatorTick
  \/ \E n \in 1..MaxSize : WriteInto(n) \/ rotate(n) \/ rotateFails(n)
  \/ \E r \in DOMAIN cleanup : compressFile(r) \/ RemoveOriginal(r) \/ ListBackups(r) \/ DeleteOldest(r)
RotatorSpec == RotatorInit /\ [][RotatorNext]_rotvars
--------------------------------------------------------------------------------
Quiet == \A r \in DOMAIN cleanup : cleanup[r].pc = "done"

(* Once every goroutine has ended, no more backups are left than were asked    *)
(* for, in whatever order they compressed, failed, listed and deleted, and the *)
(* newest is among them under one of its two names.                            *)
QuietIsPruned ==
  Quiet /\ ~broken /\ MaxBackups > 0 /\ rotated > 0 =>
    /\ Cardinality(backups) <= MaxBackups
    /\ \E f \in backups : f[1] = cleanup[rotated].of

(* Refuted.  "Timestamp suffix for uniqueness": a rotation never renames over  *)
(* a backup that is there.                                                     *)
BackupsUnique == [][rotated' # rotated => <<now, FALSE>> \notin backups]_rotvars

(* Refuted.  "maxBackups: Number of old files to keep": once every goroutine   *)
(* has ended, that many are left if there were as many, each with a timestamp  *)
(* of its own.                                                                 *)
KeepsBackups ==
  LET stamps == {cleanup[r].of : r \in DOMAIN cleanup}
  IN Quiet /\ MaxBackups > 0 /\ Cardinality(stamps) = rotated =>
       Cardinality(backups) >= (IF rotated < MaxBackups THEN rotated ELSE MaxBackups)
================================================================================
