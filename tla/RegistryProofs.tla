--------------------------- MODULE RegistryProofs ---------------------------
(***************************************************************************)
(* Proofs about who holds a name in the registry, for every instance       *)
(* (module Registry).                                                      *)
(*                                                                         *)
(* What a process knows is stated as a predicate of the values R of recs,  *)
(* N of names, S of solid and of its own record l, so that a write of one  *)
(* key, and what it does to everybody else, is a lemma about values.       *)
(***************************************************************************)
EXTENDS Registry, TLAPS

ClaimSteps == {"claim", "claimGet", "claimCheck", "claimTake"}
MoveSteps == {"move", "moveCreate", "moveUpdate"}
NamePass == {"names", "nameRecord", "nameDelete"}

(* An operation that has written the record of its machine and not yet the *)
(* name key.                                                               *)
Claiming(l) == l.op # "sweep" /\ l.pc \in ClaimSteps \cup MoveSteps

(* An approval that would put back an aged record, and one that has to     *)
(* when its claim is refused.                                              *)
Restores(l) == l.op = "approve" /\ l.rec # Nil /\ l.rec.aged /\ l.m \in l.fresh
Renaming(l) == Restores(l) /\ l.pc \in ClaimSteps \cup {"undo"}

(* The calls of each operation, whose process makes them, and what they    *)
(* are about.                                                              *)
Belongs(p, l) ==
  /\ l.op = "sweep" => p \in Sweepers
  /\ l.op \notin {"sweep", "idle"} => p \in Workers
  /\ l.op = "idle" => l.pc = ""
  /\ l.pc \in ClaimSteps => l.op \in {"register", "approve", "sweep"}
  /\ l.pc \in MoveSteps \cup {"create", "adopt", "copy", "dropOld"} => l.op = "register"
  /\ l.pc = "undo" => l.op \in {"register", "approve"}
  /\ l.pc \in {"release", "releaseDelete"} => l.op \in {"approve", "remove", "sweep"}
  /\ l.op \in {"register", "approve", "remove", "status"} => l.m \in Machines
  /\ l.pc \in ClaimSteps \cup {"drop", "rollback", "release", "releaseDelete"} => l.m \in Machines
  /\ l.pc \in ClaimSteps \cup MoveSteps
       \cup {"resolve", "holder", "adopt", "copy", "releaseDelete", "nameRecord", "nameDelete"}
     => l.name \in RackNames
  /\ l.pc \in {"holder", "adopt", "copy", "nameRecord"} \cup MoveSteps => l.holder \in Machines
  /\ l.op = "sweep" /\ l.pc \in NamePass => l.m = Nil
  /\ l.op = "sweep" =>
       l.todo \subseteq IF l.pc \in NamePass THEN RackNames ELSE Machines \ {l.m}

(* The record and the key of which a process has the current revision are  *)
(* as it read them; a record whose name is being claimed is young; and the *)
(* sweep repairs only records to which their own name does not point.      *)
Knows(R, N, S, l) ==
  /\ l.pc \in {"moveUpdate", "claimCheck", "nameRecord"} /\ l.name \in l.fresh
       => N[l.name] = l.holder
  /\ l.pc \in {"claimTake", "nameDelete"} /\ l.name \in l.fresh => l.name \notin S
  /\ l.pc = "releaseDelete" /\ l.name \in l.fresh => N[l.name] = l.m
  /\ l.op \in {"register", "status"} /\ l.pc = "update"
       => /\ l.rec # Nil /\ ~l.rec.aged
          /\ l.m \in l.fresh => R[l.m] # Nil /\ R[l.m].name = l.rec.name
  /\ l.op = "approve" /\ l.pc \in {"resolve", "holder", "update"}
       => l.rec # Nil /\ (l.m \in l.fresh => R[l.m] = l.rec)
  /\ l.op = "approve" /\ l.pc \in ClaimSteps \cup {"undo"}
       => /\ l.rec # Nil /\ l.rec.name # l.name
          /\ l.m \in l.fresh => R[l.m] # Nil
  /\ l.pc \in ClaimSteps \cup {"rollback"} => l.rec # Nil
  /\ l.pc \in MoveSteps \cup {"adopt", "copy", "dropOld"}
       => l.rec # Nil /\ l.rec.secret = l.secret
  /\ Claiming(l) /\ R[l.m] # Nil => ~R[l.m].aged
  /\ l.op = "sweep" /\ l.pc \in ClaimSteps \cup {"drop", "rollback"} /\ l.m \in l.fresh
       => /\ R[l.m] # Nil /\ R[l.m].aged
          /\ R[l.m].name \in RackNames /\ N[R[l.m].name] # l.m

(* The sweep s has yet to look at the record of m, and it has seen or will *)
(* see the key of c point at m.                                            *)
Pending(s, m) == s.op = "sweep" /\ (s.pc \in NamePass \/ m \in s.todo)
Sees(s, m, c) ==
  c \in s.held[m] \/ c \in s.todo \/ (s.pc = "nameRecord" /\ s.name = c /\ s.holder = m)
Tracks(R, N, s, m, c) == Pending(s, m) /\ R[m] # Nil /\ N[c] = m => Sees(s, m, c)

(* It does so for every record that is aged or may age while it runs,      *)
Swept(R, N, s) ==
  \A m \in Machines :
    R[m] # Nil /\ R[m].name \in RackNames /\ (R[m].aged \/ m \in s.settled)
      => Tracks(R, N, s, m, R[m].name)

(* and for every aged record that an approval may put back.  Nobody claims *)
(* a name for a machine whose record is to be put back aged, nor for one   *)
(* whose record may age while the sweep runs.                              *)
Apart(R, N, l, k) ==
  /\ Restores(l) /\ Claiming(k) => l.m # k.m
  /\ l.op = "sweep" /\ Claiming(k) => k.m \notin l.settled
  /\ Renaming(k) /\ k.rec.name \in RackNames => Tracks(R, N, l, k.m, k.rec.name)

Carried(R, N, S) == \A n \in S : N[n] # Nil /\ R[N[n]] # Nil /\ R[N[n]].name = n

BucketTypes ==
  /\ recs \in [Machines -> Records \cup {Nil}]
  /\ names \in [RackNames -> Machines \cup {Nil}]
  /\ solid \subseteq RackNames
  /\ proc \in [Procs -> Locals]

(* The inductive invariant.                                                *)
BucketInv ==
  /\ BucketTypes
  /\ Carried(recs, names, solid)
  /\ \A p \in Procs : /\ Belongs(p, proc[p]) /\ Knows(recs, names, solid, proc[p])
                      /\ Swept(recs, names, proc[p])
  /\ \A p, q \in Procs : p # q => Apart(recs, names, proc[p], proc[q])

-----------------------------------------------------------------------------
(* What a write of a key does to the others.                               *)

(* The types of the fields of a process.                                   *)
LEMMA LocalFields ==
  ASSUME NEW l \in Locals
  PROVE  /\ l.m \in Machines \cup {Nil} /\ l.holder \in Machines \cup {Nil}
         /\ l.name \in RackNames \cup {NoName} /\ l.secret \in Secrets \cup {Bootstrap}
         /\ l.rec \in Records \cup {Nil} /\ l.status \in RecordStatuses
         /\ l.fresh \subseteq Machines \cup RackNames /\ l.old \subseteq RackNames
         /\ l.todo \subseteq Machines \cup RackNames /\ l.settled \subseteq Machines
         /\ l.held \in [Machines -> SUBSET RackNames] /\ l.tries \in 0..WriteRetries
BY Zenon DEF Locals

(* No key is a name and a machine, or stands for none.                     *)
LEMMA NameIsNoMachine ==
  /\ \A x \in RackNames : x \notin Machines /\ x # Nil /\ x # NoName
  /\ \A x \in Machines : x \notin RackNames /\ x # Nil /\ x # NoName
BY RegistryAssumption, Zenon

Stripped(l, key) == [l EXCEPT !.fresh = @ \ {key}, !.settled = @ \ {key}]

(* A write by another process takes the key from what a process has the    *)
(* revision of, and from the records that were untouched; all else stays.  *)
LEMMA StrippedFields ==
  ASSUME NEW l \in Locals, NEW key, NEW x, x = Stripped(l, key)
  PROVE  /\ x \in Locals
         /\ x.op = l.op /\ x.pc = l.pc /\ x.m = l.m /\ x.name = l.name /\ x.rec = l.rec
         /\ x.holder = l.holder /\ x.todo = l.todo /\ x.held = l.held /\ x.secret = l.secret
         /\ x.fresh = l.fresh \ {key} /\ x.settled = l.settled \ {key}
BY ZenonT(60) DEF Stripped, Locals

(* It leaves what the process may be about as it was.                      *)
LEMMA StrippedBelongs ==
  ASSUME NEW l \in Locals, NEW key, NEW p, Belongs(p, l)
  PROVE  Belongs(p, Stripped(l, key))
<1>1. PICK x : x = Stripped(l, key)
  BY Zenon
<1>2. x.op = l.op /\ x.pc = l.pc /\ x.m = l.m /\ x.name = l.name /\ x.holder = l.holder /\ x.todo = l.todo
  BY <1>1, StrippedFields
<1>3. Belongs(p, x)
  BY <1>2, Zenon DEF Belongs
<1> QED
  BY <1>1, <1>3, Zenon

(* Of a record:                                                            *)
LEMMA RecordKnows ==
  ASSUME NEW R \in [Machines -> Records \cup {Nil}], NEW N, NEW S, NEW T \in SUBSET S,
         NEW l \in Locals, NEW x, NEW m \in Machines, NEW r \in Records \cup {Nil},
         x = Stripped(l, m), Knows(R, N, S, l),
         r = Nil \/ ~r.aged \/ (Claiming(l) => l.m # m)
  PROVE  Knows([R EXCEPT ![m] = r], N, T, x)
<1> DEFINE Q == [R EXCEPT ![m] = r]
<1>1. /\ x.op = l.op /\ x.pc = l.pc /\ x.m = l.m /\ x.name = l.name /\ x.rec = l.rec
      /\ x.holder = l.holder /\ x.secret = l.secret
      /\ x.fresh = l.fresh \ {m}
  BY StrippedFields
<1>2. \A i \in Machines : i # m => Q[i] = R[i]
  OBVIOUS
<1>3. Q[m] = r
  OBVIOUS
<1>4. \A i : i \in x.fresh => i # m /\ i \in l.fresh
  BY <1>1
<1>5. l.m \in Machines \/ l.m = Nil
  BY LocalFields, Zenon
<1> HIDE DEF Q
<1> QED
  BY <1>1, <1>2, <1>3, <1>4, <1>5, RegistryAssumption DEF Knows, Claiming, ClaimSteps, MoveSteps

(* The write of a record keeps what a sweep sees, unless the record comes  *)
(* back aged while the sweep cannot see its name.                          *)
LEMMA RecordSwept ==
  ASSUME NEW R \in [Machines -> Records \cup {Nil}], NEW N,
         NEW l \in Locals, NEW x, NEW m \in Machines, NEW r \in Records \cup {Nil},
         x = Stripped(l, m), Swept(R, N, l),
         \/ r = Nil \/ ~r.aged
         \/ R[m] # Nil /\ (r.name \in RackNames => Tracks(R, N, l, m, r.name))
  PROVE  Swept([R EXCEPT ![m] = r], N, x)
<1> DEFINE Q == [R EXCEPT ![m] = r]
<1>1. /\ x.op = l.op /\ x.pc = l.pc /\ x.name = l.name /\ x.holder = l.holder
      /\ x.todo = l.todo /\ x.held = l.held /\ x.settled = l.settled \ {m}
  BY StrippedFields
<1>2. \A i \in Machines : i # m => Q[i] = R[i]
  OBVIOUS
<1>3. Q[m] = r
  OBVIOUS
<1> SUFFICES Swept(Q, N, x)
  OBVIOUS
<1> HIDE DEF Q
<1>4. ASSUME NEW i \in Machines, NEW c, R[i] # Nil, Tracks(R, N, l, i, c)
      PROVE  Tracks(Q, N, x, i, c)
  BY <1>1, <1>4, Zenon DEF Tracks, Pending, Sees
<1> SUFFICES ASSUME NEW i \in Machines, Q[i] # Nil, Q[i].name \in RackNames,
                    Q[i].aged \/ i \in x.settled
             PROVE  Tracks(Q, N, x, i, Q[i].name)
  BY Zenon DEF Swept
<1>5. CASE i = m
  <2>1. r # Nil /\ r.aged /\ r.name \in RackNames
    BY <1>1, <1>3, <1>5
  <2> QED
    BY <1>3, <1>4, <1>5, <2>1, Zenon
<1>6. CASE i # m
  <2>1. R[i] # Nil /\ R[i].name \in RackNames /\ (R[i].aged \/ i \in l.settled) /\ Q[i] = R[i]
    BY <1>1, <1>2, <1>6
  <2>2. Tracks(R, N, l, i, R[i].name)
    BY <2>1, Zenon DEF Swept
  <2> QED
    BY <1>4, <2>1, <2>2, Zenon
<1> QED
  BY <1>5, <1>6

(* The write of a record keeps processes apart.                            *)
LEMMA RecordApart ==
  ASSUME NEW R \in [Machines -> Records \cup {Nil}], NEW N,
         NEW l \in Locals, NEW k \in Locals, NEW x, NEW y,
         NEW m \in Machines, NEW r \in Records \cup {Nil},
         x = Stripped(l, m), y = Stripped(k, m), Apart(R, N, l, k)
  PROVE  Apart([R EXCEPT ![m] = r], N, x, y)
<1> DEFINE Q == [R EXCEPT ![m] = r]
<1>1. /\ x.op = l.op /\ x.pc = l.pc /\ x.m = l.m /\ x.name = l.name /\ x.rec = l.rec
      /\ x.holder = l.holder /\ x.todo = l.todo /\ x.held = l.held
      /\ x.fresh = l.fresh \ {m} /\ x.settled = l.settled \ {m}
  BY StrippedFields
<1>2. /\ y.op = k.op /\ y.pc = k.pc /\ y.m = k.m /\ y.rec = k.rec /\ y.fresh = k.fresh \ {m}
  BY StrippedFields
<1>3. \A i \in Machines : i # m => Q[i] = R[i]
  OBVIOUS
<1> HIDE DEF Q
<1>4. Claiming(y) = Claiming(k) /\ (Restores(x) => Restores(l)) /\ (Renaming(y) => Renaming(k) /\ k.m # m)
  BY <1>1, <1>2 DEF Claiming, Restores, Renaming
<1>5. ASSUME NEW i \in Machines, NEW c, i # m, Tracks(R, N, l, i, c)
      PROVE  Tracks(Q, N, x, i, c)
  <2>1. Q[i] = R[i]
    BY <1>3, <1>5
  <2> QED
    BY <1>1, <1>5, <2>1, Zenon DEF Tracks, Pending, Sees
<1>6. Renaming(k) => k.m \in Machines
  <2>1. k.m \in Machines \cup {Nil} /\ k.fresh \subseteq Machines \cup RackNames
    BY LocalFields
  <2> QED
    BY <2>1, RegistryAssumption, Zenon DEF Renaming, Restores
<1>7. Restores(x) /\ Claiming(y) => x.m # y.m
  BY <1>1, <1>2, <1>4, Zenon DEF Apart
<1>8. x.op = "sweep" /\ Claiming(y) => y.m \notin x.settled
  BY <1>1, <1>2, <1>4 DEF Apart
<1>9. Renaming(y) /\ y.rec.name \in RackNames => Tracks(Q, N, x, y.m, y.rec.name)
  BY <1>2, <1>4, <1>5, <1>6, Zenon DEF Apart
<1> QED
  BY <1>7, <1>8, <1>9, Zenon DEF Apart, Q

(* Of a name key:                                                          *)
LEMMA NameKnows ==
  ASSUME NEW R \in [Machines -> Records \cup {Nil}],
         NEW N \in [RackNames -> Machines \cup {Nil}], NEW S, NEW T,
         NEW l \in Locals, NEW x, NEW n \in RackNames, NEW v \in Machines \cup {Nil},
         \A c \in T : c # n => c \in S,
         x = Stripped(l, n), Knows(R, N, S, l),
         v = Nil \/ l.op # "sweep" \/ (R[v] # Nil => ~R[v].aged)
  PROVE  Knows(R, [N EXCEPT ![n] = v], T, x)
<1> DEFINE Q == [N EXCEPT ![n] = v]
<1>1. /\ x.op = l.op /\ x.pc = l.pc /\ x.m = l.m /\ x.name = l.name /\ x.rec = l.rec
      /\ x.holder = l.holder /\ x.secret = l.secret
      /\ x.fresh = l.fresh \ {n}
  BY StrippedFields
<1>2. \A c \in RackNames : c # n => Q[c] = N[c]
  OBVIOUS
<1>3. Q[n] = v
  OBVIOUS
<1>4. \A i : i \in x.fresh => i # n /\ i \in l.fresh
  BY <1>1
<1>5. (l.m \in Machines \/ l.m = Nil) /\ (l.name \in RackNames \/ l.name = NoName)
      /\ l.fresh \subseteq Machines \cup RackNames
  BY LocalFields
<1> SUFFICES Knows(R, Q, T, x)
  OBVIOUS
<1> HIDE DEF Q
<1>6. l.name \in x.fresh => l.name \in l.fresh /\ Q[l.name] = N[l.name] /\ (l.name \in T => l.name \in S)
  <2>1. l.name \in x.fresh => l.name \in RackNames /\ l.name # n /\ l.name \in l.fresh
    BY <1>4, <1>5, NameIsNoMachine, Zenon
  <2> QED
    BY <1>2, <2>1, Zenon
<1>7. l.m \in x.fresh => l.m \in l.fresh
  BY <1>4
<1>8. ASSUME l.op = "sweep", R[l.m] # Nil, R[l.m].aged, R[l.m].name \in RackNames, N[R[l.m].name] # l.m,
             l.m \in x.fresh
      PROVE  Q[R[l.m].name] # l.m
  <2>1. l.m \in Machines
    BY <1>4, <1>5, <1>8, RegistryAssumption
  <2> QED
    BY <1>2, <1>3, <1>8, <2>1, RegistryAssumption
<1> QED
  BY <1>1, <1>6, <1>7, <1>8 DEF Knows, Claiming

(* So does the write of a name key keep what a sweep sees, if it points at *)
(* a young record that the sweep does not take for settled,                *)
LEMMA NameSwept ==
  ASSUME NEW R \in [Machines -> Records \cup {Nil}],
         NEW N \in [RackNames -> Machines \cup {Nil}],
         NEW l \in Locals, NEW x, NEW n \in RackNames, NEW v \in Machines \cup {Nil},
         x = Stripped(l, n), Swept(R, N, l),
         v = Nil \/ l.op # "sweep" \/ (v \notin l.settled /\ (R[v] # Nil => ~R[v].aged))
  PROVE  Swept(R, [N EXCEPT ![n] = v], x)
<1> DEFINE Q == [N EXCEPT ![n] = v]
<1>1. /\ x.op = l.op /\ x.pc = l.pc /\ x.name = l.name /\ x.holder = l.holder
      /\ x.todo = l.todo /\ x.held = l.held /\ x.settled = l.settled \ {n}
  BY StrippedFields
<1>2. \A c \in RackNames : c # n => Q[c] = N[c]
  OBVIOUS
<1>3. Q[n] = v
  OBVIOUS
<1> SUFFICES Swept(R, Q, x)
  OBVIOUS
<1> HIDE DEF Q
<1> SUFFICES ASSUME NEW i \in Machines, R[i] # Nil, R[i].name \in RackNames,
                    R[i].aged \/ i \in x.settled, Pending(x, i), Q[R[i].name] = i
             PROVE  Sees(x, i, R[i].name)
  BY Zenon DEF Swept, Tracks
<1>4. R[i].aged \/ i \in l.settled
  BY <1>1
<1>5. Pending(l, i)
  BY <1>1, Zenon DEF Pending
<1>6. N[R[i].name] = i
  BY <1>1, <1>2, <1>3, <1>4, RegistryAssumption DEF Pending
<1>7. Sees(l, i, R[i].name)
  BY <1>4, <1>5, <1>6, Zenon DEF Swept, Tracks
<1> QED
  BY <1>1, <1>7, Zenon DEF Sees

(* and processes apart, if no approval may put back the record it points   *)
(* at.                                                                     *)
LEMMA NameApart ==
  ASSUME NEW R, NEW N \in [RackNames -> Machines \cup {Nil}],
         NEW l \in Locals, NEW k \in Locals, NEW x, NEW y,
         NEW n \in RackNames, NEW v \in Machines \cup {Nil},
         x = Stripped(l, n), y = Stripped(k, n), Apart(R, N, l, k),
         v = Nil \/ l.op # "sweep" \/ ~Restores(k) \/ k.m # v
  PROVE  Apart(R, [N EXCEPT ![n] = v], x, y)
<1> DEFINE Q == [N EXCEPT ![n] = v]
<1>1. /\ x.op = l.op /\ x.pc = l.pc /\ x.m = l.m /\ x.name = l.name /\ x.rec = l.rec
      /\ x.holder = l.holder /\ x.todo = l.todo /\ x.held = l.held
      /\ x.fresh = l.fresh \ {n} /\ x.settled = l.settled \ {n}
  BY StrippedFields
<1>2. /\ y.op = k.op /\ y.pc = k.pc /\ y.m = k.m /\ y.rec = k.rec /\ y.fresh = k.fresh \ {n}
  BY StrippedFields
<1>3. \A c \in RackNames : c # n => Q[c] = N[c]
  OBVIOUS
<1>4. Q[n] = v
  OBVIOUS
<1> SUFFICES Apart(R, Q, x, y)
  OBVIOUS
<1> HIDE DEF Q
<1>5. Claiming(y) = Claiming(k) /\ (Restores(x) => Restores(l)) /\ (Renaming(y) => Renaming(k))
  BY <1>1, <1>2 DEF Claiming, Restores, Renaming
<1>6. Renaming(k) => Restores(k) /\ k.m \in Machines
  <2>1. k.m \in Machines \cup {Nil} /\ k.fresh \subseteq Machines \cup RackNames
    BY LocalFields
  <2> QED
    BY <2>1, RegistryAssumption, Zenon DEF Renaming, Restores
<1>7. Restores(x) /\ Claiming(y) => x.m # y.m
  BY <1>1, <1>2, <1>5, Zenon DEF Apart
<1>8. x.op = "sweep" /\ Claiming(y) => y.m \notin x.settled
  BY <1>1, <1>2, <1>5 DEF Apart
<1>9. ASSUME Renaming(y), y.rec.name \in RackNames, Pending(x, y.m), R[y.m] # Nil, Q[y.rec.name] = y.m
      PROVE  Sees(x, y.m, y.rec.name)
  <2>1. Pending(l, k.m) /\ l.op = "sweep"
    BY <1>1, <1>2, <1>9, Zenon DEF Pending
  <2>2. N[k.rec.name] = k.m
    BY <1>2, <1>3, <1>4, <1>5, <1>6, <1>9, <2>1, RegistryAssumption
  <2>3. Sees(l, k.m, k.rec.name)
    BY <1>2, <1>5, <1>9, <2>1, <2>2, Zenon DEF Apart, Tracks
  <2> QED
    BY <1>1, <1>2, <2>3, Zenon DEF Sees
<1> QED
  BY <1>7, <1>8, <1>9, Zenon DEF Apart, Tracks

-----------------------------------------------------------------------------
(* A step of one process keeps the invariant if what the process continues *)
(* with agrees with the bucket and with every other process.               *)

Fits(R, N, S, p, next) ==
  next \in Locals /\ Belongs(p, next) /\ Knows(R, N, S, next) /\ Swept(R, N, next)

(* A call that only reads keeps the invariant if what follows fits its     *)
(* process and is apart from the others.                                   *)
LEMMA AfterRead ==
  ASSUME BucketInv, NEW p \in Procs, NEW next, Reads(p, next),
         Fits(recs, names, solid, p, next),
         \A q \in Procs \ {p} : Apart(recs, names, next, proc[q]) /\ Apart(recs, names, proc[q], next)
  PROVE  BucketInv'
<1>1. /\ recs' = recs /\ names' = names /\ solid' = solid
      /\ proc' = [proc EXCEPT ![p] = next]
  BY DEF Reads
<1>2. /\ proc'[p] = next /\ \A q \in Procs \ {p} : proc'[q] = proc[q]
      /\ proc' \in [Procs -> Locals]
  BY <1>1 DEF BucketInv, BucketTypes, Fits
<1>3. BucketTypes'
  BY <1>1, <1>2 DEF BucketInv, BucketTypes
<1>4. Carried(recs', names', solid')
  BY <1>1, Zenon DEF BucketInv
<1>5. ASSUME NEW q \in Procs
      PROVE  Belongs(q, proc'[q]) /\ Knows(recs', names', solid', proc'[q]) /\ Swept(recs', names', proc'[q])
  BY <1>1, <1>2, Zenon DEF BucketInv, Fits
<1>6. ASSUME NEW q1 \in Procs, NEW q2 \in Procs, q1 # q2
      PROVE  Apart(recs', names', proc'[q1], proc'[q2])
  BY <1>1, <1>2, <1>6, Zenon DEF BucketInv
<1> QED
  BY <1>3, <1>4, <1>5, <1>6, Zenon DEF BucketInv

(* The same of a call that writes a record: one that was aged is put back  *)
(* only where every sweep can see its name and nobody claims one for it;   *)
LEMMA AfterRecord ==
  ASSUME BucketInv, NEW p \in Procs, NEW m \in Machines, NEW r \in Records \cup {Nil}, NEW next,
         WritesRecord(p, m, r, next),
         \/ r = Nil \/ ~r.aged
         \/ /\ recs[m] # Nil
            /\ \A q \in Procs \ {p} :
                 /\ Claiming(proc[q]) => proc[q].m # m
                 /\ r.name \in RackNames => Tracks(recs, names, proc[q], m, r.name),
         Fits(recs', names, solid', p, next),
         \A q \in Procs \ {p} : /\ Apart(recs', names, next, Stripped(proc[q], m))
                                /\ Apart(recs', names, Stripped(proc[q], m), next)
  PROVE  BucketInv'
<1>1. /\ recs' = [recs EXCEPT ![m] = r] /\ names' = names
      /\ solid' = {n \in solid : names[n] = m => r # Nil /\ r.name = n}
      /\ proc' = [q \in Procs |-> IF q = p THEN next ELSE Stripped(proc[q], m)]
  BY Zenon DEF WritesRecord, WithoutRevision, Stripped
<1>2. /\ recs \in [Machines -> Records \cup {Nil}] /\ names \in [RackNames -> Machines \cup {Nil}]
      /\ solid \subseteq RackNames
      /\ \A q \in Procs : proc[q] \in Locals
  BY DEF BucketInv, BucketTypes
<1>3. proc'[p] = next /\ \A q \in Procs \ {p} : proc'[q] = Stripped(proc[q], m)
  BY <1>1, Zenon
<1>4. BucketTypes'
  <2>1. recs' \in [Machines -> Records \cup {Nil}] /\ solid' \subseteq RackNames
    BY <1>1, <1>2
  <2>2. \A q \in Procs : Stripped(proc[q], m) \in Locals
    BY <1>2, StrippedFields, Zenon
  <2>3. proc' \in [Procs -> Locals]
    BY <1>1, <2>2 DEF Fits
  <2> QED
    BY <1>1, <1>2, <2>1, <2>3, Zenon DEF BucketTypes
<1>5. Carried(recs', names', solid')
  BY <1>1, <1>2, RegistryAssumption DEF Carried, BucketInv
<1>6. ASSUME NEW q \in Procs
      PROVE  Belongs(q, proc'[q]) /\ Knows(recs', names', solid', proc'[q]) /\ Swept(recs', names', proc'[q])
  <2>1. CASE q = p
    BY <1>1, <1>3, <2>1, Zenon DEF Fits
  <2>2. CASE q # p
    <3>1. Belongs(q, proc[q]) /\ Knows(recs, names, solid, proc[q]) /\ Swept(recs, names, proc[q])
      BY Zenon DEF BucketInv
    <3>2. Belongs(q, proc'[q])
      BY <1>2, <1>3, <2>2, <3>1, StrippedBelongs, Zenon
    <3>3. solid' \in SUBSET solid
      BY <1>1
    <3>4. Knows(recs', names', solid', proc'[q])
      BY <1>1, <1>2, <1>3, <2>2, <3>1, <3>3, RecordKnows, Zenon
    <3>5. Swept(recs', names', proc'[q])
      BY <1>1, <1>2, <1>3, <2>2, <3>1, RecordSwept, Zenon
    <3> QED
      BY <3>2, <3>4, <3>5
  <2> QED
    BY <2>1, <2>2
<1>7. ASSUME NEW q1 \in Procs, NEW q2 \in Procs, q1 # q2
      PROVE  Apart(recs', names', proc'[q1], proc'[q2])
  <2>1. CASE q1 = p \/ q2 = p
    BY <1>1, <1>3, <1>7, <2>1, Zenon
  <2>2. CASE q1 # p /\ q2 # p
    <3>1. Apart(recs, names, proc[q1], proc[q2])
      BY <1>7, Zenon DEF BucketInv
    <3> QED
      BY <1>1, <1>2, <1>3, <2>2, <3>1, RecordApart, Zenon
  <2> QED
    BY <2>1, <2>2
<1> QED
  BY <1>4, <1>5, <1>6, <1>7, Zenon DEF BucketInv

(* and of a call that writes a name key: only a process that claims the    *)
(* name for the machine makes it point there while a sweep runs.           *)
LEMMA AfterName ==
  ASSUME BucketInv, NEW p \in Procs, NEW n \in RackNames, NEW v \in Machines \cup {Nil}, NEW next,
         WritesName(p, n, v, next),
         \/ v = Nil
         \/ \A q \in Procs \ {p} : proc[q].op # "sweep"
         \/ Claiming(proc[p]) /\ proc[p].m = v,
         Fits(recs, names', solid', p, next),
         \A q \in Procs \ {p} : /\ Apart(recs, names', next, Stripped(proc[q], n))
                                /\ Apart(recs, names', Stripped(proc[q], n), next)
  PROVE  BucketInv'
<1>1. /\ recs' = recs /\ names' = [names EXCEPT ![n] = v]
      /\ solid' = IF v # Nil /\ recs[v] # Nil /\ recs[v].name = n THEN solid \cup {n} ELSE solid \ {n}
      /\ proc' = [q \in Procs |-> IF q = p THEN next ELSE Stripped(proc[q], n)]
  BY Zenon DEF WritesName, WithoutRevision, Stripped
<1>2. /\ recs \in [Machines -> Records \cup {Nil}] /\ names \in [RackNames -> Machines \cup {Nil}]
      /\ solid \subseteq RackNames
      /\ \A q \in Procs : proc[q] \in Locals
  BY DEF BucketInv, BucketTypes
<1>3. proc'[p] = next /\ \A q \in Procs \ {p} : proc'[q] = Stripped(proc[q], n)
  BY <1>1, Zenon
<1>4. BucketTypes'
  <2>1. names' \in [RackNames -> Machines \cup {Nil}] /\ solid' \subseteq RackNames
    BY <1>1, <1>2
  <2>2. \A q \in Procs : Stripped(proc[q], n) \in Locals
    BY <1>2, StrippedFields, Zenon
  <2>3. proc' \in [Procs -> Locals]
    BY <1>1, <2>2 DEF Fits
  <2> QED
    BY <1>1, <1>2, <2>1, <2>3, Zenon DEF BucketTypes
<1>5. Carried(recs', names', solid')
  BY <1>1, <1>2, RegistryAssumption DEF Carried, BucketInv
<1>6. ASSUME NEW q \in Procs
      PROVE  Belongs(q, proc'[q]) /\ Knows(recs', names', solid', proc'[q]) /\ Swept(recs', names', proc'[q])
  <2>1. CASE q = p
    BY <1>1, <1>3, <2>1, Zenon DEF Fits
  <2>2. CASE q # p
    <3>1. Belongs(q, proc[q]) /\ Knows(recs, names, solid, proc[q]) /\ Swept(recs, names, proc[q])
      BY Zenon DEF BucketInv
    <3>2. Belongs(q, proc'[q])
      BY <1>2, <1>3, <2>2, <3>1, StrippedBelongs, Zenon
    <3>3. \A c \in solid' : c # n => c \in solid
      BY <1>1
    <3>4. \/ v = Nil \/ proc[q].op # "sweep"
          \/ v \notin proc[q].settled /\ (recs[v] # Nil => ~recs[v].aged)
      <4>1. Knows(recs, names, solid, proc[p]) /\ Apart(recs, names, proc[q], proc[p])
        BY <2>2, Zenon DEF BucketInv
      <4>2. Claiming(proc[p]) /\ recs[proc[p].m] # Nil => ~recs[proc[p].m].aged
        BY <4>1, Zenon DEF Knows
      <4>3. proc[q].op = "sweep" /\ Claiming(proc[p]) => proc[p].m \notin proc[q].settled
        BY <4>1, Zenon DEF Apart
      <4> QED
        BY <2>2, <4>2, <4>3, Zenon
    <3>5. Knows(recs', names', solid', proc'[q])
      BY <1>1, <1>2, <1>3, <2>2, <3>1, <3>3, <3>4, NameKnows, Zenon
    <3>6. Swept(recs', names', proc'[q])
      BY <1>1, <1>2, <1>3, <2>2, <3>1, <3>4, NameSwept, Zenon
    <3> QED
      BY <3>2, <3>5, <3>6
  <2> QED
    BY <2>1, <2>2
<1>7. ASSUME NEW q1 \in Procs, NEW q2 \in Procs, q1 # q2
      PROVE  Apart(recs', names', proc'[q1], proc'[q2])
  <2>1. CASE q1 = p \/ q2 = p
    BY <1>1, <1>3, <1>7, <2>1, Zenon
  <2>2. CASE q1 # p /\ q2 # p
    <3>1. Apart(recs, names, proc[q1], proc[q2])
      BY <1>7, Zenon DEF BucketInv
    <3>2. v = Nil \/ proc[q1].op # "sweep" \/ ~Restores(proc[q2]) \/ proc[q2].m # v
      BY <2>2, Zenon DEF BucketInv, Apart
    <3> QED
      BY <1>1, <1>2, <1>3, <2>2, <3>1, <3>2, NameApart, Zenon
  <2> QED
    BY <2>1, <2>2
<1> QED
  BY <1>4, <1>5, <1>6, <1>7, Zenon DEF BucketInv

-----------------------------------------------------------------------------
(* How a process may continue.                                             *)

(* With nothing that another process minds, *)
Quiet(l) == l.op # "sweep" /\ ~Claiming(l) /\ ~Restores(l)

(* A quiet process has nothing to do with the others.                      *)
LEMMA QuietIsApart ==
  ASSUME NEW R, NEW N, NEW l, Quiet(l)
  PROVE  Swept(R, N, l) /\ \A k : Apart(R, N, l, k) /\ Apart(R, N, k, l)
<1>1. \A i, c : Tracks(R, N, l, i, c)
  BY Zenon DEF Quiet, Tracks, Pending
<1> QED
  BY <1>1, Zenon DEF Quiet, Swept, Apart, Renaming

(* So a call after which its process is quiet has only itself to answer    *)
(* for: when it reads,                                                     *)
LEMMA ReadQuiet ==
  ASSUME BucketInv, NEW p \in Procs, NEW next \in Locals, Reads(p, next),
         Belongs(p, next), Knows(recs, names, solid, next), Quiet(next)
  PROVE  BucketInv'
BY AfterRead, QuietIsApart, Zenon DEF Fits

(* when it writes a record,                                                *)
LEMMA RecordQuiet ==
  ASSUME BucketInv, NEW p \in Procs, NEW m \in Machines, NEW r \in Records \cup {Nil},
         NEW next \in Locals, WritesRecord(p, m, r, next), r = Nil \/ ~r.aged,
         Belongs(p, next), Knows(recs', names, solid', next), Quiet(next)
  PROVE  BucketInv'
BY AfterRecord, QuietIsApart, Zenon DEF Fits

(* and when it writes a name key.                                          *)
LEMMA NameQuiet ==
  ASSUME BucketInv, NEW p \in Procs, NEW n \in RackNames, NEW v \in Machines \cup {Nil},
         NEW next \in Locals, WritesName(p, n, v, next),
         v = Nil \/ (Claiming(proc[p]) /\ proc[p].m = v),
         Belongs(p, next), Knows(recs, names', solid', next), Quiet(next)
  PROVE  BucketInv'
BY AfterName, QuietIsApart, Zenon DEF Fits

(* with nothing that it has to know, *)
Plain(l) ==
  /\ l.op # "sweep" /\ (l.op = "approve" => l.rec = Nil)
  /\ \/ l.pc \in {"", "get", "create", "delete", "release"}
     \/ l.pc \in {"resolve", "holder"} /\ l.op # "approve"

(* A process that has read nothing it relies on is quiet.                  *)
LEMMA PlainIsQuiet ==
  ASSUME NEW l, Plain(l)
  PROVE  Quiet(l) /\ \A R, N, S : Knows(R, N, S, l)
<1>1. ~Claiming(l)
  BY Zenon DEF Plain, Claiming, ClaimSteps, MoveSteps
<1>2. ~Restores(l)
  BY Zenon DEF Plain, Restores
<1>3. ASSUME NEW R, NEW N, NEW S
      PROVE  Knows(R, N, S, l)
  BY <1>1, Zenon DEF Plain, Knows, ClaimSteps, MoveSteps
<1> QED
  BY <1>1, <1>2, <1>3, Zenon DEF Quiet, Plain

(* So is one without an operation.                                         *)
LEMMA IdleFits ==
  /\ IdleWorker \in Locals /\ IdleWorker.op = "idle" /\ IdleWorker.pc = ""
  /\ Plain(IdleWorker) /\ \A p : Belongs(p, IdleWorker)
<1>1. IdleWorker.op = "idle" /\ IdleWorker.pc = ""
  BY DEF IdleWorker
<1>2. Plain(IdleWorker)
  BY <1>1, Zenon DEF Plain
<1>3. \A p : Belongs(p, IdleWorker)
  BY <1>1, Zenon DEF Belongs, ClaimSteps, MoveSteps, NamePass
<1>4. 0 \in 0..WriteRetries /\ {} \in SUBSET Machines /\ {} \in SUBSET RackNames
      /\ {} \in SUBSET (Machines \cup RackNames) /\ [m \in Machines |-> {}] \in [Machines -> SUBSET RackNames]
      /\ "active" \in RecordStatuses
  BY RegistryAssumption DEF RecordStatuses
<1>5. IdleWorker \in Locals
  BY <1>4, Zenon DEF IdleWorker, Locals
<1> QED
  BY <1>1, <1>2, <1>3, <1>5, Zenon

(* from the start,                                                         *)
Made(o, c, i, n, s, st, t, old, todo, settled) ==
  [op |-> o, pc |-> c, m |-> i, name |-> n, secret |-> s, tries |-> t, rec |-> Nil,
   holder |-> Nil, err |-> "", fresh |-> {}, status |-> st, old |-> old, todo |-> todo,
   held |-> [m \in Machines |-> {}], settled |-> settled]

MayBeMade(o, c, i, n, s, st, t, old, todo, settled) ==
  /\ o \in {"register", "approve", "remove", "removeName", "status", "sweep"}
  /\ c \in {"get", "resolve", "names", "release"}
  /\ i \in Machines \cup {Nil} /\ n \in RackNames \cup {NoName}
  /\ s \in Secrets \cup {Bootstrap} /\ st \in RecordStatuses /\ t \in 0..WriteRetries
  /\ old \in SUBSET RackNames /\ todo \in SUBSET (Machines \cup RackNames)
  /\ settled \in SUBSET Machines

(* The fields of a process that has just begun.                            *)
LEMMA MadeFields ==
  ASSUME NEW o, NEW c, NEW i, NEW n, NEW s, NEW st, NEW t, NEW old, NEW todo, NEW settled,
         MayBeMade(o, c, i, n, s, st, t, old, todo, settled)
  PROVE  LET x == Made(o, c, i, n, s, st, t, old, todo, settled) IN
         /\ x \in Locals /\ x.op = o /\ x.pc = c /\ x.m = i /\ x.name = n /\ x.rec = Nil
         /\ x.fresh = {} /\ x.todo = todo /\ x.settled = settled
         /\ x.held = [m \in Machines |-> {}]
<1>1. {} \in SUBSET (Machines \cup RackNames) /\ [m \in Machines |-> {}] \in [Machines -> SUBSET RackNames]
  BY Zenon
<1>2. Made(o, c, i, n, s, st, t, old, todo, settled) \in Locals
  BY <1>1, ZenonT(60) DEF Locals, Made, MayBeMade
<1> QED
  BY <1>2, ZenonT(60) DEF Made

(* as Store.retry does, *)
LEMMA AgainFits ==
  ASSUME NEW p, NEW l \in Locals, Belongs(p, l), l.op \in {"register", "approve", "remove", "status"}
  PROVE  Again(l) \in Locals /\ Plain(Again(l)) /\ Belongs(p, Again(l))
<1>1. CASE l.tries < WriteRetries
  <2> DEFINE x == Made(l.op, "get", l.m, l.name, l.secret, l.status, l.tries + 1, {}, {}, {})
  <2>1. l.tries + 1 \in 0..WriteRetries
    BY <1>1, LocalFields, RegistryAssumption
  <2>2. Again(l) = x
    BY <1>1, Zenon DEF Again, Made, IdleWorker
  <2>3. x \in Locals /\ x.op = l.op /\ x.pc = "get" /\ x.m = l.m /\ x.rec = Nil
    <3>1. MayBeMade(l.op, "get", l.m, l.name, l.secret, l.status, l.tries + 1, {}, {}, {})
      BY <2>1, LocalFields, Zenon DEF MayBeMade
    <3> QED
      BY <3>1, MadeFields
  <2> HIDE DEF x
  <2>4. Plain(x)
    BY <2>3, Zenon DEF Plain
  <2>5. Belongs(p, x)
    BY <2>3, Zenon DEF Belongs, ClaimSteps, MoveSteps, NamePass
  <2> QED
    BY <2>2, <2>3, <2>4, <2>5
<1>2. CASE ~(l.tries < WriteRetries)
  BY <1>2, IdleFits, Zenon DEF Again
<1> QED
  BY <1>1, <1>2

(* or with the next call of the same operation on the same machine.        *)
Continues(l, x) ==
  /\ l.op # "sweep" /\ x.op = l.op /\ x.m = l.m /\ x.rec = l.rec
  /\ x.m \in x.fresh => l.m \in l.fresh
  /\ Claiming(x) => Claiming(l)
  /\ x.pc \in ClaimSteps \cup {"undo"} => l.pc \in ClaimSteps \cup {"undo"}

(* A call that reads and goes on with the same operation keeps the         *)
(* invariant.                                                              *)
LEMMA ReadContinues ==
  ASSUME BucketInv, NEW p \in Procs, NEW next \in Locals, Reads(p, next),
         Belongs(p, next), Knows(recs, names, solid, next), Continues(proc[p], next)
  PROVE  BucketInv'
<1>1. (Restores(next) => Restores(proc[p])) /\ (Renaming(next) => Renaming(proc[p]))
  BY Zenon DEF Continues, Restores, Renaming
<1>2. \A i, c : Tracks(recs, names, next, i, c)
  BY Zenon DEF Continues, Tracks, Pending
<1>3. ASSUME NEW q \in Procs \ {p}
      PROVE  Apart(recs, names, next, proc[q]) /\ Apart(recs, names, proc[q], next)
  <2>1. Apart(recs, names, proc[p], proc[q]) /\ Apart(recs, names, proc[q], proc[p])
    BY <1>3, Zenon DEF BucketInv
  <2> QED
    BY <1>1, <1>2, <2>1, Zenon DEF Apart, Continues
<1>4. Swept(recs, names, next)
  BY <1>2, Zenon DEF Swept
<1> QED
  BY <1>3, <1>4, AfterRead, Zenon DEF Fits

-----------------------------------------------------------------------------
(* The operations of the workers.                                          *)

(* What the invariant says of one process.                                 *)
LEMMA Own ==
  ASSUME BucketInv, NEW p \in Procs
  PROVE  /\ proc[p] \in Locals /\ Belongs(p, proc[p]) /\ Knows(recs, names, solid, proc[p])
         /\ Swept(recs, names, proc[p])
         /\ recs \in [Machines -> Records \cup {Nil}] /\ names \in [RackNames -> Machines \cup {Nil}]
BY Zenon DEF BucketInv, BucketTypes

(* A call that ends its operation keeps it,                                *)
LEMMA ReadIdle ==
  ASSUME BucketInv, NEW p \in Procs, Reads(p, IdleWorker)
  PROVE  BucketInv'
BY ReadQuiet, IdleFits, PlainIsQuiet, Zenon

(* a call that lost a race and starts over, or gives up, keeps it,         *)
LEMMA ReadAgain ==
  ASSUME BucketInv, NEW p \in Procs, Reads(p, Again(proc[p])),
         proc[p].op \in {"register", "approve", "remove", "status"}
  PROVE  BucketInv'
BY Own, ReadQuiet, AgainFits, PlainIsQuiet, Zenon

(* and so does one after which nothing that was read is relied on.         *)
LEMMA ReadPlain ==
  ASSUME BucketInv, NEW p \in Procs, NEW next \in Locals, Reads(p, next),
         Plain(next), Belongs(p, next)
  PROVE  BucketInv'
BY ReadQuiet, PlainIsQuiet, Zenon

(* An operation that begins has read nothing.                              *)
LEMMA NewOperation ==
  ASSUME BucketInv, NEW p \in Workers, NEW x \in Locals, Reads(p, x),
         x.op \in {"register", "approve", "remove", "status"}, x.pc = "get",
         x.m \in Machines, x.rec = Nil
  PROVE  BucketInv'
<1>1. Plain(x)
  BY Zenon DEF Plain
<1>2. Belongs(p, x)
  BY Zenon DEF Belongs, ClaimSteps, MoveSteps, NamePass
<1> QED
  BY <1>1, <1>2, ReadPlain, Zenon DEF Procs

(* The beginnings of RegisterEntity, Approve, RemoveEntity and             *)
(* UpdateStatusEntity keep the invariant.                                  *)
LEMMA BeginKeeps ==
  ASSUME BucketInv, NEW p \in Procs, answered \subseteq Secrets,
         BeginRegister(p) \/ BeginApprove(p) \/ BeginRemove(p) \/ BeginStatus(p)
  PROVE  BucketInv'
<1>0. p \in Workers
  BY Zenon DEF BeginRegister, BeginApprove, BeginRemove, BeginStatus
<1>1. /\ "active" \in RecordStatuses /\ "inactive" \in RecordStatuses
      /\ CallNames \subseteq RackNames \cup {NoName}
  BY RegistryAssumption DEF RecordStatuses
<1>2. CASE BeginRegister(p)
  <2>1. PICK i \in Machines, n \in CallNames, s \in answered \cup {Bootstrap} :
          Reads(p, [IdleWorker EXCEPT !.op = "register", !.pc = "get", !.m = i, !.name = n, !.secret = s])
    BY <1>2, Zenon DEF BeginRegister
  <2>2. PICK x : x = [IdleWorker EXCEPT !.op = "register", !.pc = "get", !.m = i, !.name = n, !.secret = s]
    BY Zenon
  <2>3. Reads(p, x)
    BY <2>1, <2>2, Zenon
  <2>4. n \in RackNames \cup {NoName} /\ s \in Secrets \cup {Bootstrap}
    BY <1>1
  <2>5. x \in Locals
    BY <2>2, <2>4, IdleFits, ZenonT(60) DEF Locals
  <2>6. x.op = "register" /\ x.pc = "get" /\ x.m = i /\ x.rec = Nil
    BY <2>2, Zenon DEF IdleWorker
  <2> QED
    BY <1>0, <2>3, <2>5, <2>6, NewOperation
<1>3. CASE BeginApprove(p)
  <2>1. PICK i \in Machines, n \in CallNames :
          Reads(p, [IdleWorker EXCEPT !.op = "approve", !.pc = "get", !.m = i, !.name = n])
    BY <1>3, Zenon DEF BeginApprove
  <2>2. PICK x : x = [IdleWorker EXCEPT !.op = "approve", !.pc = "get", !.m = i, !.name = n]
    BY Zenon
  <2>3. Reads(p, x)
    BY <2>1, <2>2, Zenon
  <2>4. n \in RackNames \cup {NoName}
    BY <1>1
  <2>5. x \in Locals
    BY <2>2, <2>4, IdleFits, ZenonT(60) DEF Locals
  <2>6. x.op = "approve" /\ x.pc = "get" /\ x.m = i /\ x.rec = Nil
    BY <2>2, Zenon DEF IdleWorker
  <2> QED
    BY <1>0, <2>3, <2>5, <2>6, NewOperation
<1>4. CASE BeginStatus(p)
  <2>1. PICK i \in Machines, st \in {"active", "inactive"} :
          Reads(p, [IdleWorker EXCEPT !.op = "status", !.pc = "get", !.m = i, !.status = st])
    BY <1>4, Zenon DEF BeginStatus
  <2>2. PICK x : x = [IdleWorker EXCEPT !.op = "status", !.pc = "get", !.m = i, !.status = st]
    BY Zenon
  <2>3. Reads(p, x)
    BY <2>1, <2>2, Zenon
  <2>4. st \in RecordStatuses
    BY <1>1
  <2>5. x \in Locals
    BY <2>2, <2>4, IdleFits, ZenonT(60) DEF Locals
  <2>6. x.op = "status" /\ x.pc = "get" /\ x.m = i /\ x.rec = Nil
    BY <2>2, Zenon DEF IdleWorker
  <2> QED
    BY <1>0, <2>3, <2>5, <2>6, NewOperation
<1>5. CASE \E i \in Machines : Reads(p, [IdleWorker EXCEPT !.op = "remove", !.pc = "get", !.m = i])
  <2>1. PICK i \in Machines :
          Reads(p, [IdleWorker EXCEPT !.op = "remove", !.pc = "get", !.m = i])
    BY <1>5, Zenon
  <2>2. PICK x : x = [IdleWorker EXCEPT !.op = "remove", !.pc = "get", !.m = i]
    BY Zenon
  <2>3. Reads(p, x)
    BY <2>1, <2>2, Zenon
  <2>4. x \in Locals
    BY <2>2, IdleFits, ZenonT(60) DEF Locals
  <2>5. x.op = "remove" /\ x.pc = "get" /\ x.m = i /\ x.rec = Nil
    BY <2>2, Zenon DEF IdleWorker
  <2> QED
    BY <1>0, <2>3, <2>4, <2>5, NewOperation
<1>6. CASE \E n \in RackNames : Reads(p, [IdleWorker EXCEPT !.op = "removeName", !.pc = "resolve", !.name = n])
  <2>1. PICK n \in RackNames :
          Reads(p, [IdleWorker EXCEPT !.op = "removeName", !.pc = "resolve", !.name = n])
    BY <1>6, Zenon
  <2>2. PICK x : x = [IdleWorker EXCEPT !.op = "removeName", !.pc = "resolve", !.name = n]
    BY Zenon
  <2>3. Reads(p, x)
    BY <2>1, <2>2, Zenon
  <2>4. x \in Locals
    BY <2>2, IdleFits, ZenonT(60) DEF Locals
  <2>5. x.op = "removeName" /\ x.pc = "resolve" /\ x.name = n
    BY <2>2, Zenon DEF IdleWorker
  <2>6. Plain(x)
    BY <2>5, Zenon DEF Plain
  <2>7. Belongs(p, x)
    BY <1>0, <2>5, Zenon DEF Belongs, ClaimSteps, MoveSteps, NamePass
  <2> QED
    BY <2>3, <2>4, <2>6, <2>7, ReadPlain, Zenon
<1> QED
  BY <1>2, <1>3, <1>4, <1>5, <1>6, Zenon DEF BeginRemove

(* The types of the fields of a record.                                    *)
LEMMA RecordFields ==
  ASSUME NEW r \in Records
  PROVE  r # Nil /\ r.name \in RackNames \cup {NoName} /\ r.secret \in Secrets
BY RegistryAssumption, Zenon DEF Records

(* A record that is written again is young.                                *)
LEMMA Touched ==
  ASSUME NEW r \in Records, NEW x, x = [r EXCEPT !.aged = FALSE]
  PROVE  x \in Records /\ x # Nil /\ x.name = r.name /\ x.secret = r.secret /\ ~x.aged
<1>1. x \in Records /\ x.name = r.name /\ x.secret = r.secret /\ ~x.aged
  BY Zenon DEF Records
<1> QED
  BY <1>1, RecordFields, Zenon

(* A change of status keeps the name and makes the record young.           *)
LEMMA TouchedStatus ==
  ASSUME NEW r \in Records, NEW st \in RecordStatuses, NEW x,
         x = [r EXCEPT !.status = st, !.aged = FALSE]
  PROVE  x \in Records /\ x # Nil /\ x.name = r.name /\ ~x.aged
<1>1. x \in Records /\ x.name = r.name /\ ~x.aged
  BY Zenon DEF Records
<1> QED
  BY <1>1, RecordFields, Zenon

(* So does a rollback, with the name it goes back to.                      *)
LEMMA RolledBack ==
  ASSUME NEW r \in Records, NEW n \in RackNames \cup {NoName}, NEW x,
         x = [r EXCEPT !.name = n, !.aged = FALSE]
  PROVE  x \in Records /\ x # Nil /\ x.name = n /\ ~x.aged
<1>1. x \in Records /\ x.name = n /\ ~x.aged
  BY Zenon DEF Records
<1> QED
  BY <1>1, RecordFields, Zenon

(* registerOnce reads the record of its machine.                           *)
LEMMA RegisterGetsKeeps ==
  ASSUME BucketInv, NEW p \in Procs, RegisterGets(p)
  PROVE  BucketInv'
<1>1. PICK l : l = proc[p]
  BY Zenon
<1>2. PICK r : r = recs[l.m]
  BY Zenon
<1>3. /\ l \in Locals /\ Belongs(p, l) /\ l.op = "register" /\ l.pc = "get"
  BY <1>1, Own, Zenon DEF RegisterGets, At
<1>4. l.m \in Machines /\ l.name \in RackNames \cup {NoName} /\ r \in Records \cup {Nil} /\ p \in Workers
  BY <1>2, <1>3, Own, LocalFields, Zenon DEF Belongs
<1>5. CASE r = Nil
  <2>1. PICK x : x = [l EXCEPT !.pc = IF l.name = NoName THEN "create" ELSE "resolve"]
    BY Zenon
  <2>2. Reads(p, x)
    BY <1>1, <1>2, <1>5, <2>1, Zenon DEF RegisterGets
  <2>3. /\ x \in Locals /\ x.op = l.op /\ x.m = l.m /\ x.name = l.name
        /\ x.pc = IF l.name = NoName THEN "create" ELSE "resolve"
    BY <1>3, <2>1, ZenonT(60) DEF Locals
  <2>4. Plain(x)
    BY <1>3, <2>3, Zenon DEF Plain
  <2>5. Belongs(p, x)
    BY <1>3, <1>4, <2>3, Zenon DEF Belongs, ClaimSteps, MoveSteps, NamePass
  <2> QED
    BY <2>2, <2>3, <2>4, <2>5, ReadPlain, Zenon
<1>6. CASE r # Nil /\ r.secret # l.secret
  <2>1. Reads(p, IdleWorker)
    BY <1>1, <1>2, <1>6, Zenon DEF RegisterGets
  <2> QED
    BY <2>1, ReadIdle, Zenon
<1>7. CASE r # Nil /\ r.secret = l.secret
  <2>1. PICK y : y = [r EXCEPT !.aged = FALSE]
    BY Zenon
  <2>2. PICK x : x = [l EXCEPT !.pc = "update", !.fresh = {l.m}, !.rec = y]
    BY Zenon
  <2>3. Reads(p, x)
    BY <1>1, <1>2, <1>7, <2>1, <2>2, Zenon DEF RegisterGets
  <2>4. y \in Records /\ y.name = r.name /\ ~y.aged /\ y # Nil
    BY <1>4, <1>7, <2>1, Touched, Zenon
  <2>5. /\ x \in Locals /\ x.op = l.op /\ x.m = l.m /\ x.pc = "update" /\ x.fresh = {l.m} /\ x.rec = y
    BY <1>3, <1>4, <2>2, <2>4, ZenonT(60) DEF Locals
  <2>6. Quiet(x)
    BY <1>3, <2>5, Zenon DEF Quiet, Claiming, ClaimSteps, MoveSteps, Restores
  <2>7. Belongs(p, x)
    BY <1>3, <1>4, <2>5, Zenon DEF Belongs, ClaimSteps, MoveSteps, NamePass
  <2>8. Knows(recs, names, solid, x)
    BY <1>2, <1>3, <1>7, <2>4, <2>5, Zenon DEF Knows, Claiming, ClaimSteps, MoveSteps
  <2> QED
    BY <2>3, <2>5, <2>6, <2>7, <2>8, ReadQuiet, Zenon
<1> QED
  BY <1>5, <1>6, <1>7

(* It looks up the name,                                                   *)
LEMMA RegisterResolvesKeeps ==
  ASSUME BucketInv, NEW p \in Procs, RegisterResolves(p)
  PROVE  BucketInv'
<1>1. PICK l : l = proc[p]
  BY Zenon
<1>2. /\ l \in Locals /\ Belongs(p, l) /\ Knows(recs, names, solid, l)
      /\ l.op = "register" /\ l.pc = "resolve"
  BY <1>1, Own, Zenon DEF RegisterResolves, At
<1>3. l.m \in Machines /\ l.name \in RackNames /\ p \in Workers /\ names[l.name] \in Machines \cup {Nil}
  BY <1>2, LocalFields, Own, Zenon DEF Belongs, ClaimSteps, MoveSteps, NamePass
<1>4. CASE names[l.name] = Nil
  <2>1. PICK x : x = [l EXCEPT !.pc = "create"]
    BY Zenon
  <2>2. Reads(p, x)
    BY <1>1, <1>4, <2>1, Zenon DEF RegisterResolves
  <2>3. x \in Locals /\ x.op = l.op /\ x.m = l.m /\ x.name = l.name /\ x.pc = "create"
    BY <1>2, <1>3, <1>4, <2>1, ZenonT(60) DEF Locals
  <2>4. Plain(x)
    BY <1>2, <2>3, Zenon DEF Plain
  <2>5. Belongs(p, x)
    BY <1>2, <1>3, <1>4, <2>3, Zenon DEF Belongs, ClaimSteps, MoveSteps, NamePass
  <2> QED
    BY <2>2, <2>3, <2>4, <2>5, ReadPlain, Zenon
<1>5. CASE names[l.name] # Nil
  <2>1. PICK x : x = [l EXCEPT !.pc = "holder", !.holder = names[l.name]]
    BY Zenon
  <2>2. Reads(p, x)
    BY <1>1, <1>5, <2>1, Zenon DEF RegisterResolves
  <2>3. x \in Locals /\ x.op = l.op /\ x.m = l.m /\ x.name = l.name /\ x.pc = "holder" /\ x.holder = names[l.name]
    BY <1>2, <1>3, <1>5, <2>1, ZenonT(60) DEF Locals
  <2>4. Plain(x)
    BY <1>2, <2>3, Zenon DEF Plain
  <2>5. Belongs(p, x)
    BY <1>2, <1>3, <1>5, <2>3, Zenon DEF Belongs, ClaimSteps, MoveSteps, NamePass
  <2> QED
    BY <2>2, <2>3, <2>4, <2>5, ReadPlain, Zenon
<1> QED
  BY <1>4, <1>5

(* and reads the record of its holder.                                     *)
LEMMA RegisterReadsHolderKeeps ==
  ASSUME BucketInv, NEW p \in Procs, RegisterReadsHolder(p)
  PROVE  BucketInv'
<1>1. PICK l : l = proc[p]
  BY Zenon
<1>2. /\ l \in Locals /\ Belongs(p, l) /\ Knows(recs, names, solid, l)
      /\ l.op = "register" /\ l.pc = "holder"
  BY <1>1, Own, Zenon DEF RegisterReadsHolder, At
<1>3. l.m \in Machines /\ l.name \in RackNames /\ p \in Workers /\ l.holder \in Machines /\ recs[l.holder] \in Records \cup {Nil}
  BY <1>2, LocalFields, Own, Zenon DEF Belongs, ClaimSteps, MoveSteps, NamePass
<1>4. CASE ~Carries(l.holder, l.name)
  <2>1. PICK x : x = [l EXCEPT !.pc = "create", !.holder = Nil]
    BY Zenon
  <2>2. Reads(p, x)
    BY <1>1, <1>4, <2>1, Zenon DEF RegisterReadsHolder
  <2>3. x \in Locals /\ x.op = l.op /\ x.m = l.m /\ x.name = l.name /\ x.pc = "create"
    BY <1>2, <1>3, <1>4, <2>1, ZenonT(60) DEF Locals
  <2>4. Plain(x)
    BY <1>2, <2>3, Zenon DEF Plain
  <2>5. Belongs(p, x)
    BY <1>2, <1>3, <1>4, <2>3, Zenon DEF Belongs, ClaimSteps, MoveSteps, NamePass
  <2> QED
    BY <2>2, <2>3, <2>4, <2>5, ReadPlain, Zenon
<1>5. CASE Carries(l.holder, l.name) /\ recs[l.holder].secret = l.secret /\ l.holder # l.m
  <2>1. PICK x : x = [l EXCEPT !.pc = "adopt", !.rec = recs[l.holder]]
    BY Zenon
  <2>2. Reads(p, x)
    BY <1>1, <1>5, <2>1, Zenon DEF RegisterReadsHolder
  <2>3. x \in Locals /\ x.op = l.op /\ x.m = l.m /\ x.name = l.name /\ x.pc = "adopt"
        /\ x.rec = recs[l.holder] /\ x.holder = l.holder /\ x.secret = l.secret
    BY <1>2, <1>3, <1>5, <2>1, ZenonT(60) DEF Locals
  <2>4. Quiet(x)
    BY <1>2, <2>3, Zenon DEF Quiet, Claiming, ClaimSteps, MoveSteps, Restores
  <2>5. Belongs(p, x)
    BY <1>2, <1>3, <1>5, <2>3, Zenon DEF Belongs, ClaimSteps, MoveSteps, NamePass
  <2>6. Knows(recs, names, solid, x)
    BY <1>1, <1>2, <1>3, <1>5, <2>3, Zenon DEF Knows, Claiming, ClaimSteps, MoveSteps, Carries
  <2> QED
    BY <2>2, <2>3, <2>4, <2>5, <2>6, ReadQuiet, Zenon
<1>6. CASE Carries(l.holder, l.name) /\ ~(recs[l.holder].secret = l.secret /\ l.holder # l.m)
  <2>1. Reads(p, IdleWorker)
    BY <1>1, <1>6, Zenon DEF RegisterReadsHolder
  <2> QED
    BY <2>1, ReadIdle, Zenon
<1> QED
  BY <1>4, <1>5, <1>6

(* adopt reads the revision of the old record.                             *)
LEMMA AdoptGetsKeeps ==
  ASSUME BucketInv, NEW p \in Procs, AdoptGets(p)
  PROVE  BucketInv'
<1>1. PICK l : l = proc[p]
  BY Zenon
<1>2. /\ l \in Locals /\ Belongs(p, l) /\ Knows(recs, names, solid, l)
      /\ l.op = "register" /\ l.pc = "adopt"
  BY <1>1, Own, Zenon DEF AdoptGets, At
<1>3. l.m \in Machines /\ l.name \in RackNames /\ p \in Workers /\ l.holder \in Machines
  BY <1>2, LocalFields, Own, Zenon DEF Belongs, ClaimSteps, MoveSteps, NamePass
<1>4. CASE recs[l.holder] = Nil
  <2>1. Reads(p, IdleWorker)
    BY <1>1, <1>4, Zenon DEF AdoptGets
  <2> QED
    BY <2>1, ReadIdle, Zenon
<1>5. CASE recs[l.holder] # Nil
  <2>1. PICK x : x = [l EXCEPT !.pc = "copy", !.fresh = {l.holder}]
    BY Zenon
  <2>2. Reads(p, x)
    BY <1>1, <1>5, <2>1, Zenon DEF AdoptGets
  <2>3. x \in Locals /\ x.op = l.op /\ x.m = l.m /\ x.name = l.name /\ x.pc = "copy"
        /\ x.rec = l.rec /\ x.holder = l.holder /\ x.secret = l.secret
    BY <1>2, <1>3, <1>5, <2>1, ZenonT(60) DEF Locals
  <2>4. Quiet(x)
    BY <1>2, <2>3, Zenon DEF Quiet, Claiming, ClaimSteps, MoveSteps, Restores
  <2>5. Belongs(p, x)
    BY <1>2, <1>3, <1>5, <2>3, Zenon DEF Belongs, ClaimSteps, MoveSteps, NamePass
  <2>6. Knows(recs, names, solid, x)
    BY <1>1, <1>2, <1>3, <1>5, <2>3, Zenon DEF Knows, Claiming, ClaimSteps, MoveSteps
  <2> QED
    BY <2>2, <2>3, <2>4, <2>5, <2>6, ReadQuiet, Zenon
<1> QED
  BY <1>4, <1>5

(* A registration that has just written the record of its machine.         *)
LEMMA RegistrationApart ==
  ASSUME NEW R, NEW N, NEW x, NEW l \in Locals, NEW m, x.op = "register", x.m = m
  PROVE  Swept(R, N, x) /\ Apart(R, N, x, Stripped(l, m)) /\ Apart(R, N, Stripped(l, m), x)
<1>1. PICK y : y = Stripped(l, m)
  BY Zenon
<1>2. y.m = l.m /\ m \notin y.fresh /\ m \notin y.settled
  BY <1>1, StrippedFields
<1>3. \A i, c : Tracks(R, N, x, i, c)
  BY Zenon DEF Tracks, Pending
<1>4. Swept(R, N, x)
  BY <1>3, Zenon DEF Swept
<1>5. Apart(R, N, x, y)
  BY <1>3, Zenon DEF Apart, Restores
<1>6. Apart(R, N, y, x)
  BY <1>2, Zenon DEF Apart, Restores, Renaming
<1> QED
  BY <1>1, <1>4, <1>5, <1>6

(* A registration that writes the record of its own machine keeps the      *)
(* others as they are.                                                     *)
LEMMA RecordRegistered ==
  ASSUME BucketInv, NEW p \in Procs, NEW m \in Machines, NEW r \in Records \cup {Nil},
         NEW next \in Locals, WritesRecord(p, m, r, next), r = Nil \/ ~r.aged,
         Belongs(p, next), Knows(recs', names, solid', next), next.op = "register", next.m = m
  PROVE  BucketInv'
<1>1. \A q \in Procs : proc[q] \in Locals
  BY Own, Zenon
<1>2. Fits(recs', names, solid', p, next)
  BY <1>1, RegistrationApart, Zenon DEF Fits
<1>3. \A q \in Procs \ {p} : /\ Apart(recs', names, next, Stripped(proc[q], m))
                             /\ Apart(recs', names, Stripped(proc[q], m), next)
  BY <1>1, RegistrationApart, Zenon
<1> QED
  BY <1>2, <1>3, AfterRecord, Zenon

(* So does an operation that ends with the write of a record.              *)
LEMMA RecordIdle ==
  ASSUME BucketInv, NEW p \in Procs, NEW m \in Machines, NEW r \in Records \cup {Nil},
         WritesRecord(p, m, r, IdleWorker), r = Nil \/ ~r.aged
  PROVE  BucketInv'
BY RecordQuiet, IdleFits, PlainIsQuiet, Zenon

(* registerOnce and UpdateStatusEntity update a record they have read.     *)
LEMMA UpdatesKeeps ==
  ASSUME BucketInv, NEW p \in Procs, Updates(p)
  PROVE  BucketInv'
<1>1. PICK l : l = proc[p]
  BY Zenon
<1>2. /\ l \in Locals /\ Belongs(p, l) /\ Knows(recs, names, solid, l)
      /\ l.op \in {"register", "status"} /\ l.pc = "update"
  BY <1>1, Own, Zenon DEF Updates
<1>3. l.m \in Machines /\ l.rec \in Records /\ ~l.rec.aged
  BY <1>2, LocalFields, Zenon DEF Belongs, Knows
<1>4. CASE l.m \in l.fresh
  <2>1. WritesRecord(p, l.m, l.rec, IdleWorker)
    BY <1>1, <1>4, Zenon DEF Updates
  <2> QED
    BY <1>3, <2>1, RecordIdle, Zenon
<1>5. CASE l.m \notin l.fresh
  <2>1. Reads(p, Again(proc[p]))
    BY <1>1, <1>5, Zenon DEF Updates
  <2> QED
    BY <1>1, <1>2, <2>1, ReadAgain, Zenon
<1> QED
  BY <1>4, <1>5

(* UpdateStatusEntity reads the record.                                    *)
LEMMA StatusGetsKeeps ==
  ASSUME BucketInv, NEW p \in Procs, StatusGets(p)
  PROVE  BucketInv'
<1>1. PICK l : l = proc[p]
  BY Zenon
<1>2. /\ l \in Locals /\ Belongs(p, l) /\ Knows(recs, names, solid, l)
      /\ l.op = "status" /\ l.pc = "get"
  BY <1>1, Own, Zenon DEF StatusGets, At
<1>3. l.m \in Machines /\ l.status \in RecordStatuses /\ p \in Workers /\ recs[l.m] \in Records \cup {Nil}
  BY <1>2, LocalFields, Own, Zenon DEF Belongs, ClaimSteps, MoveSteps, NamePass
<1>4. CASE recs[l.m] = Nil
  <2>1. Reads(p, IdleWorker)
    BY <1>1, <1>4, Zenon DEF StatusGets
  <2> QED
    BY <2>1, ReadIdle, Zenon
<1>5. CASE recs[l.m] # Nil
  <2>1. PICK y : y = [recs[l.m] EXCEPT !.status = l.status, !.aged = FALSE]
    BY Zenon
  <2>2. PICK x : x = [l EXCEPT !.pc = "update", !.fresh = {l.m}, !.rec = y]
    BY Zenon
  <2>3. Reads(p, x)
    BY <1>1, <1>5, <2>1, <2>2, Zenon DEF StatusGets
  <2>4. y \in Records /\ y.name = recs[l.m].name /\ ~y.aged /\ y # Nil
    BY <1>3, <1>5, <2>1, TouchedStatus, Zenon
  <2>5. /\ x \in Locals /\ x.op = l.op /\ x.m = l.m /\ x.pc = "update" /\ x.fresh = {l.m} /\ x.rec = y
    BY <1>2, <1>3, <2>2, <2>4, ZenonT(60) DEF Locals
  <2>6. Quiet(x)
    BY <1>2, <2>5, Zenon DEF Quiet, Claiming, ClaimSteps, MoveSteps, Restores
  <2>7. Belongs(p, x)
    BY <1>2, <1>3, <2>5, Zenon DEF Belongs, ClaimSteps, MoveSteps, NamePass
  <2>8. Knows(recs, names, solid, x)
    BY <1>2, <1>5, <2>4, <2>5, Zenon DEF Knows, Claiming, ClaimSteps, MoveSteps
  <2> QED
    BY <2>3, <2>5, <2>6, <2>7, <2>8, ReadQuiet, Zenon
<1> QED
  BY <1>4, <1>5

(* registerOnce creates a record, whose name is to be claimed.             *)
LEMMA RegisterCreatesKeeps ==
  ASSUME BucketInv, NEW p \in Procs, issued \subseteq Secrets, RegisterCreates(p)
  PROVE  BucketInv'
<1>1. PICK l : l = proc[p]
  BY Zenon
<1>2. /\ l \in Locals /\ Belongs(p, l) /\ Knows(recs, names, solid, l)
      /\ l.op = "register" /\ l.pc = "create"
  BY <1>1, Own, Zenon DEF RegisterCreates, At
<1>3. l.m \in Machines /\ l.name \in RackNames \cup {NoName} /\ p \in Workers
  BY <1>2, LocalFields, Own, Zenon DEF Belongs, ClaimSteps, MoveSteps, NamePass
<1>4. CASE Reads(p, IdleWorker)
  BY <1>4, ReadIdle, Zenon
<1>5. CASE Reads(p, Again(l))
  BY <1>1, <1>2, <1>5, ReadAgain, Zenon
<1>6. ASSUME NEW s \in Secrets, NEW r,
             r = [name |-> l.name, secret |-> s, aged |-> FALSE,
                  status |-> IF AutoAdopt THEN "active" ELSE "pending"],
             WritesRecord(p, l.m, r, IF l.name = NoName THEN IdleWorker
                          ELSE [l EXCEPT !.pc = "claim", !.rec = r, !.fresh = {l.m}])
      PROVE  BucketInv'
  <2>1. r \in Records /\ ~r.aged
    <3>1. (IF AutoAdopt THEN "active" ELSE "pending") \in RecordStatuses
      BY DEF RecordStatuses
    <3> QED
      BY <1>3, <1>6, <3>1, Zenon DEF Records
  <2>2. CASE l.name = NoName
    <3>1. WritesRecord(p, l.m, r, IdleWorker)
      BY <1>6, <2>2, Zenon
    <3> QED
      BY <1>3, <2>1, <3>1, RecordIdle, Zenon
  <2>3. CASE l.name # NoName
    <3>1. PICK x : x = [l EXCEPT !.pc = "claim", !.rec = r, !.fresh = {l.m}]
      BY Zenon
    <3>2. WritesRecord(p, l.m, r, x)
      BY <1>6, <2>3, <3>1, Zenon
    <3>3. /\ x \in Locals /\ x.op = l.op /\ x.m = l.m /\ x.name = l.name /\ x.pc = "claim" /\ x.rec = r
      BY <1>2, <1>3, <2>1, <3>1, ZenonT(60) DEF Locals
    <3>4. recs'[l.m] = r
      BY <1>3, <3>2, Own DEF WritesRecord
    <3>5. Belongs(p, x)
      BY <1>2, <1>3, <2>3, <3>3, Zenon DEF Belongs, ClaimSteps, MoveSteps, NamePass
    <3>6. Knows(recs', names, solid', x)
      BY <1>2, <2>1, <3>3, <3>4, RecordFields, Zenon DEF Knows, Claiming, ClaimSteps, MoveSteps
    <3> QED
      BY <1>2, <1>3, <2>1, <3>2, <3>3, <3>5, <3>6, RecordRegistered, Zenon
  <2> QED
    BY <2>2, <2>3
<1>7. CASE issued # Secrets /\
        LET s == CHOOSE x \in Secrets \ issued : TRUE
            r == [name |-> l.name, secret |-> s, aged |-> FALSE,
                  status |-> IF AutoAdopt THEN "active" ELSE "pending"]
        IN  WritesRecord(p, l.m, r, IF l.name = NoName THEN IdleWorker
                         ELSE [l EXCEPT !.pc = "claim", !.rec = r, !.fresh = {l.m}])
  <2>1. PICK s : s = CHOOSE x \in Secrets \ issued : TRUE
    BY Zenon
  <2>2. s \in Secrets
    <3>1. \E x : x \in Secrets \ issued
      BY <1>7
    <3> QED
      BY <2>1, <3>1, Zenon
  <2> QED
    BY <1>6, <1>7, <2>1, <2>2, Zenon
<1> QED
  BY <1>1, <1>4, <1>5, <1>7, Zenon DEF RegisterCreates

(* adopt writes the record of the new machine.                             *)
LEMMA AdoptCopiesKeeps ==
  ASSUME BucketInv, NEW p \in Procs, AdoptCopies(p)
  PROVE  BucketInv'
<1>1. PICK l : l = proc[p]
  BY Zenon
<1>2. /\ l \in Locals /\ Belongs(p, l) /\ Knows(recs, names, solid, l)
      /\ l.op = "register" /\ l.pc = "copy"
  BY <1>1, Own, Zenon DEF AdoptCopies, At
<1>3. l.m \in Machines /\ l.name \in RackNames /\ p \in Workers /\ l.holder \in Machines
      /\ l.fresh \subseteq Machines \cup RackNames
  BY <1>2, LocalFields, Own, Zenon DEF Belongs, ClaimSteps, MoveSteps, NamePass
<1>4. l.rec \in Records /\ l.rec.secret = l.secret
  BY <1>2, LocalFields, Zenon DEF Knows
<1>5. CASE recs[l.m] # Nil
  <2>1. Reads(p, Again(proc[p]))
    BY <1>1, <1>5, Zenon DEF AdoptCopies
  <2> QED
    BY <1>1, <1>2, <2>1, ReadAgain, Zenon
<1>6. CASE recs[l.m] = Nil
  <2>1. PICK r : r = [l.rec EXCEPT !.aged = FALSE]
    BY Zenon
  <2>2. PICK x : x = [l EXCEPT !.pc = "move", !.fresh = @ \cup {l.m}]
    BY Zenon
  <2>3. WritesRecord(p, l.m, r, x)
    BY <1>1, <1>6, <2>1, <2>2, Zenon DEF AdoptCopies
  <2>4. r \in Records /\ ~r.aged
    BY <1>4, <2>1, Touched, Zenon
  <2>5. /\ x \in Locals /\ x.op = l.op /\ x.m = l.m /\ x.name = l.name /\ x.pc = "move"
        /\ x.rec = l.rec /\ x.holder = l.holder /\ x.secret = l.secret
    <3>1. l.fresh \cup {l.m} \in SUBSET (Machines \cup RackNames)
      BY <1>3
    <3> QED
      BY <1>2, <2>2, <3>1, ZenonT(60) DEF Locals
  <2>6. recs'[l.m] = r
    BY <1>3, <2>3, Own DEF WritesRecord
  <2>7. Belongs(p, x)
    BY <1>2, <1>3, <2>5, Zenon DEF Belongs, ClaimSteps, MoveSteps, NamePass
  <2>8. Knows(recs', names, solid', x)
    BY <1>2, <1>4, <2>4, <2>5, <2>6, RecordFields, Zenon DEF Knows, Claiming, ClaimSteps, MoveSteps
  <2> QED
    BY <1>2, <1>3, <2>3, <2>4, <2>5, <2>7, <2>8, RecordRegistered, Zenon
<1> QED
  BY <1>5, <1>6

(* moveName reads the name key,                                            *)
LEMMA AdoptReadsNameKeeps ==
  ASSUME BucketInv, NEW p \in Procs, AdoptReadsName(p)
  PROVE  BucketInv'
<1>1. PICK l : l = proc[p]
  BY Zenon
<1>2. /\ l \in Locals /\ Belongs(p, l) /\ Knows(recs, names, solid, l)
      /\ l.op = "register" /\ l.pc = "move"
  BY <1>1, Own, Zenon DEF AdoptReadsName, At
<1>3. l.m \in Machines /\ l.name \in RackNames /\ p \in Workers /\ l.holder \in Machines
      /\ l.fresh \subseteq Machines \cup RackNames
  BY <1>2, LocalFields, Own, Zenon DEF Belongs, ClaimSteps, MoveSteps, NamePass
<1>4. l.rec \in Records /\ l.rec.secret = l.secret /\ (recs[l.m] # Nil => ~recs[l.m].aged)
  BY <1>2, LocalFields, Zenon DEF Knows, Claiming, MoveSteps
<1>5. CASE names[l.name] = Nil
  <2>1. PICK x : x = [l EXCEPT !.pc = "moveCreate"]
    BY Zenon
  <2>2. Reads(p, x)
    BY <1>1, <1>3, <1>5, <2>1, RegistryAssumption, Zenon DEF AdoptReadsName
  <2>3. /\ x \in Locals /\ x.op = l.op /\ x.m = l.m /\ x.name = l.name /\ x.pc = "moveCreate"
        /\ x.rec = l.rec /\ x.holder = l.holder /\ x.secret = l.secret /\ x.fresh = l.fresh
    BY <1>2, <1>3, <2>1, ZenonT(60) DEF Locals
  <2>4. Belongs(p, x)
    BY <1>2, <1>3, <2>3, Zenon DEF Belongs, ClaimSteps, MoveSteps, NamePass
  <2>5. Knows(recs, names, solid, x)
    BY <1>2, <1>4, <1>5, <2>3, RecordFields, Zenon DEF Knows, Claiming, ClaimSteps, MoveSteps
  <2>6. Continues(proc[p], x)
    BY <1>1, <1>2, <1>3, <2>3, NameIsNoMachine, Zenon DEF Continues, Claiming, ClaimSteps, MoveSteps
  <2> QED
    BY <2>2, <2>3, <2>4, <2>5, <2>6, ReadContinues, Zenon
<1>6. CASE names[l.name] = l.holder
  <2>1. PICK x : x = [l EXCEPT !.pc = "moveUpdate", !.fresh = @ \cup {l.name}]
    BY Zenon
  <2>2. Reads(p, x)
    BY <1>1, <1>3, <1>6, <2>1, NameIsNoMachine, Zenon DEF AdoptReadsName
  <2>3. /\ x \in Locals /\ x.op = l.op /\ x.m = l.m /\ x.name = l.name /\ x.pc = "moveUpdate"
        /\ x.rec = l.rec /\ x.holder = l.holder /\ x.secret = l.secret /\ x.fresh = l.fresh \cup {l.name}
    <3>1. l.fresh \cup {l.name} \in SUBSET (Machines \cup RackNames)
      BY <1>3
    <3> QED
      BY <1>2, <2>1, <3>1, ZenonT(60) DEF Locals
  <2>4. Belongs(p, x)
    BY <1>2, <1>3, <2>3, Zenon DEF Belongs, ClaimSteps, MoveSteps, NamePass
  <2>5. Knows(recs, names, solid, x)
    BY <1>2, <1>4, <1>6, <2>3, RecordFields, Zenon DEF Knows, Claiming, ClaimSteps, MoveSteps
  <2>6. Continues(proc[p], x)
    BY <1>1, <1>2, <1>3, <2>3, NameIsNoMachine, Zenon DEF Continues, Claiming, ClaimSteps, MoveSteps
  <2> QED
    BY <2>2, <2>3, <2>4, <2>5, <2>6, ReadContinues, Zenon
<1>7. CASE names[l.name] # Nil /\ names[l.name] # l.holder
  <2>1. PICK x : x = [l EXCEPT !.pc = "undo", !.err = "conflict"]
    BY Zenon
  <2>2. Reads(p, x)
    BY <1>1, <1>3, <1>7, <2>1, RegistryAssumption, Zenon DEF AdoptReadsName
  <2>3. /\ x \in Locals /\ x.op = l.op /\ x.m = l.m /\ x.name = l.name /\ x.pc = "undo"
        /\ x.rec = l.rec /\ x.holder = l.holder /\ x.secret = l.secret
    BY <1>2, <1>3, <2>1, ZenonT(60) DEF Locals
  <2>4. Belongs(p, x)
    BY <1>2, <1>3, <2>3, Zenon DEF Belongs, ClaimSteps, MoveSteps, NamePass
  <2>5. Quiet(x)
    BY <1>2, <2>3, Zenon DEF Quiet, Claiming, ClaimSteps, MoveSteps, Restores
  <2>6. Knows(recs, names, solid, x)
    BY <1>2, <2>3, Zenon DEF Knows, Claiming, ClaimSteps, MoveSteps
  <2> QED
    BY <2>2, <2>3, <2>4, <2>5, <2>6, ReadQuiet, Zenon
<1> QED
  BY <1>5, <1>6, <1>7

(* and points it at the new machine.                                       *)
LEMMA AdoptMovesNameKeeps ==
  ASSUME BucketInv, NEW p \in Procs, AdoptMovesName(p)
  PROVE  BucketInv'
<1>1. PICK l : l = proc[p]
  BY Zenon
<1>2. /\ l \in Locals /\ Belongs(p, l) /\ Knows(recs, names, solid, l)
      /\ l.op = "register" /\ l.pc \in {"moveCreate", "moveUpdate"}
  BY <1>1, Own, Zenon DEF AdoptMovesName, At
<1>3. l.m \in Machines /\ l.name \in RackNames /\ p \in Workers /\ l.holder \in Machines
  BY <1>2, LocalFields, Own, Zenon DEF Belongs, ClaimSteps, MoveSteps, NamePass
<1>4. l.rec \in Records /\ l.rec.secret = l.secret /\ Claiming(l)
  BY <1>2, LocalFields, Zenon DEF Knows, Claiming, MoveSteps
<1>5. CASE (l.pc = "moveCreate" /\ names[l.name] = Nil) \/ (l.pc = "moveUpdate" /\ l.name \in l.fresh)
  <2>1. PICK x : x = [l EXCEPT !.pc = "dropOld"]
    BY Zenon
  <2>2. WritesName(p, l.name, l.m, x)
    BY <1>1, <1>5, <2>1, Zenon DEF AdoptMovesName
  <2>3. /\ x \in Locals /\ x.op = l.op /\ x.m = l.m /\ x.name = l.name /\ x.pc = "dropOld"
        /\ x.rec = l.rec /\ x.holder = l.holder /\ x.secret = l.secret
    BY <1>2, <2>1, ZenonT(60) DEF Locals
  <2>4. Belongs(p, x)
    BY <1>2, <1>3, <2>3, Zenon DEF Belongs, ClaimSteps, MoveSteps, NamePass
  <2>5. Quiet(x)
    BY <1>2, <2>3, Zenon DEF Quiet, Claiming, ClaimSteps, MoveSteps, Restores
  <2>6. Knows(recs, names', solid', x)
    BY <1>2, <1>4, <2>3, RecordFields, Zenon DEF Knows, Claiming, ClaimSteps, MoveSteps
  <2> QED
    BY <1>1, <1>3, <1>4, <2>2, <2>3, <2>4, <2>5, <2>6, NameQuiet, Zenon
<1>6. CASE ~((l.pc = "moveCreate" /\ names[l.name] = Nil) \/ (l.pc = "moveUpdate" /\ l.name \in l.fresh))
  <2>1. PICK x : x = [l EXCEPT !.pc = "undo", !.err = "conflict"]
    BY Zenon
  <2>2. Reads(p, x)
    BY <1>1, <1>3, <1>6, <2>1, RegistryAssumption, Zenon DEF AdoptMovesName
  <2>3. /\ x \in Locals /\ x.op = l.op /\ x.m = l.m /\ x.name = l.name /\ x.pc = "undo"
        /\ x.rec = l.rec /\ x.holder = l.holder /\ x.secret = l.secret
    BY <1>2, <1>3, <2>1, ZenonT(60) DEF Locals
  <2>4. Belongs(p, x)
    BY <1>2, <1>3, <2>3, Zenon DEF Belongs, ClaimSteps, MoveSteps, NamePass
  <2>5. Quiet(x)
    BY <1>2, <2>3, Zenon DEF Quiet, Claiming, ClaimSteps, MoveSteps, Restores
  <2>6. Knows(recs, names, solid, x)
    BY <1>2, <2>3, Zenon DEF Knows, Claiming, ClaimSteps, MoveSteps
  <2> QED
    BY <2>2, <2>3, <2>4, <2>5, <2>6, ReadQuiet, Zenon
<1> QED
  BY <1>5, <1>6

(* adopt deletes the old record.                                           *)
LEMMA AdoptDropsOldKeeps ==
  ASSUME BucketInv, NEW p \in Procs, AdoptDropsOld(p)
  PROVE  BucketInv'
<1>1. PICK l : l = proc[p]
  BY Zenon
<1>2. /\ l \in Locals /\ Belongs(p, l) /\ Knows(recs, names, solid, l)
      /\ l.op = "register" /\ l.pc = "dropOld"
  BY <1>1, Own, Zenon DEF AdoptDropsOld, At
<1>3. l.holder \in l.fresh => l.holder \in Machines
  <2>1. l.holder \in Machines \cup {Nil} /\ l.fresh \subseteq Machines \cup RackNames
    BY <1>2, LocalFields, Zenon
  <2> QED
    BY <2>1, RegistryAssumption
<1>4. CASE l.holder \notin l.fresh
  <2>1. Reads(p, IdleWorker)
    BY <1>1, <1>4, Zenon DEF AdoptDropsOld
  <2> QED
    BY <2>1, ReadIdle, Zenon
<1>5. CASE l.holder \in l.fresh
  <2>1. WritesRecord(p, l.holder, Nil, IdleWorker)
    BY <1>1, <1>5, Zenon DEF AdoptDropsOld
  <2> QED
    BY <1>3, <1>5, <2>1, RecordIdle, Zenon
<1> QED
  BY <1>4, <1>5

(* An approval.                                                            *)
LEMMA ApproveGetsKeeps ==
  ASSUME BucketInv, NEW p \in Procs, ApproveGets(p)
  PROVE  BucketInv'
<1>1. PICK l : l = proc[p]
  BY Zenon
<1>2. /\ l \in Locals /\ Belongs(p, l) /\ Knows(recs, names, solid, l)
      /\ l.op = "approve" /\ l.pc = "get"
  BY <1>1, Own, Zenon DEF ApproveGets, At
<1>3. l.m \in Machines /\ l.name \in RackNames \cup {NoName} /\ p \in Workers /\ recs[l.m] \in Records \cup {Nil}
  BY <1>2, LocalFields, Own, Zenon DEF Belongs, ClaimSteps, MoveSteps, NamePass
<1>4. CASE recs[l.m] = Nil
  <2>1. Reads(p, IdleWorker)
    BY <1>1, <1>4, Zenon DEF ApproveGets
  <2> QED
    BY <2>1, ReadIdle, Zenon
<1>5. CASE recs[l.m] # Nil
  <2>1. PICK x : x = [l EXCEPT !.rec = recs[l.m], !.fresh = {l.m},
                        !.pc = IF l.name \in {NoName, recs[l.m].name} THEN "update" ELSE "resolve"]
    BY Zenon
  <2>2. Reads(p, x)
    BY <1>1, <1>5, <2>1, Zenon DEF ApproveGets
  <2>3. /\ x \in Locals /\ x.op = l.op /\ x.m = l.m /\ x.name = l.name /\ x.rec = recs[l.m]
        /\ x.pc = IF l.name \in {NoName, recs[l.m].name} THEN "update" ELSE "resolve"
    BY <1>2, <1>3, <2>1, ZenonT(60) DEF Locals
  <2>4. /\ x.pc \in {"update", "resolve"} /\ (x.pc = "resolve" => x.name \in RackNames)
    BY <1>3, <2>3, Zenon
  <2>5. Belongs(p, x)
    BY <1>2, <1>3, <2>3, <2>4, Zenon DEF Belongs, ClaimSteps, MoveSteps, NamePass
  <2>6. Knows(recs, names, solid, x)
    BY <1>2, <1>5, <2>3, <2>4, Zenon DEF Knows, Claiming, ClaimSteps, MoveSteps
  <2>7. ~Claiming(x) /\ ~Renaming(x) /\ x.op # "sweep"
    BY <1>2, <2>3, <2>4, Zenon DEF Claiming, ClaimSteps, MoveSteps, Renaming
  <2>8. \A i, c : Tracks(recs, names, x, i, c)
    BY <2>7, Zenon DEF Tracks, Pending
  <2>9. Fits(recs, names, solid, p, x)
    BY <2>3, <2>5, <2>6, <2>8, Zenon DEF Fits, Swept
  <2>10. ASSUME NEW q \in Procs \ {p}
         PROVE  Apart(recs, names, x, proc[q]) /\ Apart(recs, names, proc[q], x)
    <3>1. Claiming(proc[q]) /\ recs[proc[q].m] # Nil => ~recs[proc[q].m].aged
      BY Own, Zenon DEF Knows
    <3>2. Restores(x) /\ Claiming(proc[q]) => x.m # proc[q].m
      BY <1>5, <2>3, <3>1, Zenon DEF Restores
    <3> QED
      BY <2>7, <2>8, <3>2, Zenon DEF Apart
  <2> QED
    BY <2>2, <2>9, <2>10, AfterRead, Zenon
<1> QED
  BY <1>4, <1>5

(* Approve looks up the new name,                                          *)
LEMMA ApproveResolvesKeeps ==
  ASSUME BucketInv, NEW p \in Procs, ApproveResolves(p)
  PROVE  BucketInv'
<1>1. PICK l : l = proc[p]
  BY Zenon
<1>2. /\ l \in Locals /\ Belongs(p, l) /\ Knows(recs, names, solid, l)
      /\ l.op = "approve" /\ l.pc = "resolve"
  BY <1>1, Own, Zenon DEF ApproveResolves, At
<1>3. l.m \in Machines /\ l.name \in RackNames /\ p \in Workers /\ names[l.name] \in Machines \cup {Nil}
  BY <1>2, LocalFields, Own, Zenon DEF Belongs, ClaimSteps, MoveSteps, NamePass
<1>4. CASE names[l.name] = Nil
  <2>1. PICK x : x = [l EXCEPT !.pc = "update"]
    BY Zenon
  <2>2. Reads(p, x)
    BY <1>1, <1>4, <2>1, Zenon DEF ApproveResolves
  <2>3. /\ x \in Locals /\ x.op = l.op /\ x.m = l.m /\ x.name = l.name /\ x.pc = "update"
        /\ x.rec = l.rec /\ x.fresh = l.fresh
    BY <1>2, <1>3, <2>1, ZenonT(60) DEF Locals
  <2>4. Belongs(p, x)
    BY <1>2, <1>3, <1>4, <2>3, Zenon DEF Belongs, ClaimSteps, MoveSteps, NamePass
  <2>5. Knows(recs, names, solid, x)
    BY <1>2, <2>3, Zenon DEF Knows, Claiming, ClaimSteps, MoveSteps
  <2>6. Continues(proc[p], x)
    BY <1>1, <1>2, <2>3, Zenon DEF Continues, Claiming, ClaimSteps, MoveSteps
  <2> QED
    BY <2>2, <2>3, <2>4, <2>5, <2>6, ReadContinues, Zenon
<1>5. CASE names[l.name] # Nil
  <2>1. PICK x : x = [l EXCEPT !.pc = "holder", !.holder = names[l.name]]
    BY Zenon
  <2>2. Reads(p, x)
    BY <1>1, <1>5, <2>1, Zenon DEF ApproveResolves
  <2>3. /\ x \in Locals /\ x.op = l.op /\ x.m = l.m /\ x.name = l.name /\ x.pc = "holder"
        /\ x.rec = l.rec /\ x.fresh = l.fresh /\ x.holder = names[l.name]
    BY <1>2, <1>3, <2>1, ZenonT(60) DEF Locals
  <2>4. Belongs(p, x)
    BY <1>2, <1>3, <1>5, <2>3, Zenon DEF Belongs, ClaimSteps, MoveSteps, NamePass
  <2>5. Knows(recs, names, solid, x)
    BY <1>2, <2>3, Zenon DEF Knows, Claiming, ClaimSteps, MoveSteps
  <2>6. Continues(proc[p], x)
    BY <1>1, <1>2, <2>3, Zenon DEF Continues, Claiming, ClaimSteps, MoveSteps
  <2> QED
    BY <2>2, <2>3, <2>4, <2>5, <2>6, ReadContinues, Zenon
<1> QED
  BY <1>4, <1>5

(* reads the record of its holder,                                         *)
LEMMA ApproveReadsHolderKeeps ==
  ASSUME BucketInv, NEW p \in Procs, ApproveReadsHolder(p)
  PROVE  BucketInv'
<1>1. PICK l : l = proc[p]
  BY Zenon
<1>2. /\ l \in Locals /\ Belongs(p, l) /\ Knows(recs, names, solid, l)
      /\ l.op = "approve" /\ l.pc = "holder"
  BY <1>1, Own, Zenon DEF ApproveReadsHolder, At
<1>3. l.m \in Machines /\ p \in Workers
  BY <1>2, LocalFields, Own, Zenon DEF Belongs, ClaimSteps, MoveSteps, NamePass
<1>4. CASE Carries(l.holder, l.name) /\ l.holder # l.m
  <2>1. Reads(p, IdleWorker)
    BY <1>1, <1>4, Zenon DEF ApproveReadsHolder
  <2> QED
    BY <2>1, ReadIdle, Zenon
<1>5. CASE ~(Carries(l.holder, l.name) /\ l.holder # l.m)
  <2>1. PICK x : x = [l EXCEPT !.pc = "update", !.holder = Nil]
    BY Zenon
  <2>2. Reads(p, x)
    BY <1>1, <1>5, <2>1, Zenon DEF ApproveReadsHolder
  <2>3. /\ x \in Locals /\ x.op = l.op /\ x.m = l.m /\ x.name = l.name /\ x.pc = "update"
        /\ x.rec = l.rec /\ x.fresh = l.fresh
    BY <1>2, <1>3, <2>1, ZenonT(60) DEF Locals
  <2>4. Belongs(p, x)
    BY <1>2, <1>3, <1>5, <2>3, Zenon DEF Belongs, ClaimSteps, MoveSteps, NamePass
  <2>5. Knows(recs, names, solid, x)
    BY <1>2, <2>3, Zenon DEF Knows, Claiming, ClaimSteps, MoveSteps
  <2>6. Continues(proc[p], x)
    BY <1>1, <1>2, <2>3, Zenon DEF Continues, Claiming, ClaimSteps, MoveSteps
  <2> QED
    BY <2>2, <2>3, <2>4, <2>5, <2>6, ReadContinues, Zenon
<1> QED
  BY <1>4, <1>5

(* and writes the record under the new name, which is to be claimed.       *)
LEMMA ApproveUpdatesKeeps ==
  ASSUME BucketInv, NEW p \in Procs, ApproveUpdates(p)
  PROVE  BucketInv'
<1>1. PICK l : l = proc[p]
  BY Zenon
<1>2. /\ l \in Locals /\ Belongs(p, l) /\ Knows(recs, names, solid, l)
      /\ l.op = "approve" /\ l.pc = "update"
  BY <1>1, Own, Zenon DEF ApproveUpdates, At
<1>3. l.m \in Machines /\ p \in Workers /\ l.name \in RackNames \cup {NoName} /\ l.rec \in Records \cup {Nil}
  BY <1>2, LocalFields, Own, Zenon DEF Belongs, ClaimSteps, MoveSteps, NamePass
<1>4. l.rec \in Records /\ l.rec.name \in RackNames \cup {NoName} /\ (l.m \in l.fresh => recs[l.m] = l.rec)
  BY <1>2, <1>3, RecordFields, Zenon DEF Knows
<1>5. CASE l.m \notin l.fresh
  <2>1. Reads(p, Again(proc[p]))
    BY <1>1, <1>5, Zenon DEF ApproveUpdates
  <2> QED
    BY <1>1, <1>2, <2>1, ReadAgain, Zenon
<1>6. CASE l.m \in l.fresh
  <2>1. PICK n : n = IF l.name = NoName THEN l.rec.name ELSE l.name
    BY Zenon
  <2>2. PICK r : r = [l.rec EXCEPT !.name = n, !.status = "active", !.aged = FALSE]
    BY Zenon
  <2>3. WritesRecord(p, l.m, r, IF n = l.rec.name THEN IdleWorker ELSE [l EXCEPT !.pc = "claim"])
    BY <1>1, <1>6, <2>1, <2>2, Zenon DEF ApproveUpdates
  <2>4. n \in RackNames \cup {NoName}
    BY <1>3, <1>4, <2>1, Zenon
  <2>5. r \in Records /\ r # Nil /\ ~r.aged
    <3>1. "active" \in RecordStatuses
      BY DEF RecordStatuses
    <3>2. r \in Records /\ ~r.aged
      BY <1>4, <2>2, <2>4, <3>1, Zenon DEF Records
    <3> QED
      BY <3>2, RecordFields, Zenon
  <2>6. CASE n = l.rec.name
    <3>1. WritesRecord(p, l.m, r, IdleWorker)
      BY <2>3, <2>6, Zenon
    <3> QED
      BY <1>3, <2>5, <3>1, RecordIdle, Zenon
  <2>7. CASE n # l.rec.name
    <3>1. PICK x : x = [l EXCEPT !.pc = "claim"]
      BY Zenon
    <3>2. WritesRecord(p, l.m, r, x)
      BY <2>3, <2>7, <3>1, Zenon
    <3>3. /\ x \in Locals /\ x.op = l.op /\ x.m = l.m /\ x.name = l.name /\ x.pc = "claim"
          /\ x.rec = l.rec /\ x.fresh = l.fresh
      BY <1>2, <3>1, ZenonT(60) DEF Locals
    <3>4. recs'[l.m] = r
      BY <1>3, <3>2, Own DEF WritesRecord
    <3>5. l.name \in RackNames /\ l.name # l.rec.name
      BY <1>3, <2>1, <2>7, Zenon
    <3>6. Belongs(p, x)
      BY <1>2, <1>3, <3>3, <3>5, Zenon DEF Belongs, ClaimSteps, MoveSteps, NamePass
    <3>7. Knows(recs', names, solid', x)
      BY <1>2, <1>4, <2>5, <3>3, <3>4, <3>5, RecordFields, Zenon DEF Knows, Claiming, ClaimSteps, MoveSteps
    <3>8. \A i, c : Tracks(recs', names, x, i, c)
      BY <1>2, <3>3, Zenon DEF Tracks, Pending
    <3>9. Fits(recs', names, solid', p, x)
      BY <3>3, <3>6, <3>7, <3>8, Zenon DEF Fits, Swept
    <3>10. ASSUME NEW q \in Procs \ {p}
           PROVE  /\ Apart(recs', names, x, Stripped(proc[q], l.m))
                  /\ Apart(recs', names, Stripped(proc[q], l.m), x)
      <4>1. PICK k : k = proc[q]
        BY Zenon
      <4>2. PICK y : y = Stripped(k, l.m)
        BY Zenon
      <4>3. k \in Locals /\ Swept(recs, names, k) /\ Apart(recs, names, l, k)
        BY <1>1, <4>1, Own, Zenon DEF BucketInv
      <4>4. /\ y.op = k.op /\ y.pc = k.pc /\ y.m = k.m /\ y.name = k.name /\ y.holder = k.holder
            /\ y.todo = k.todo /\ y.held = k.held
        BY <4>2, <4>3, StrippedFields
      <4>5. l.m \notin y.fresh /\ l.m \notin y.settled
        BY <4>2, <4>3, StrippedFields
      <4>6. Restores(x) /\ Claiming(y) => x.m # y.m
        BY <3>3, <4>3, <4>4, Zenon DEF Apart, Restores, Claiming
      <4>7. Apart(recs', names, x, y)
        BY <1>2, <3>3, <3>8, <4>6, Zenon DEF Apart
      <4>8. ASSUME l.rec.aged, l.rec.name \in RackNames
            PROVE  Tracks(recs', names, y, l.m, l.rec.name)
        <5>1. Tracks(recs, names, k, l.m, l.rec.name)
          BY <1>3, <1>4, <1>6, <4>3, <4>8, RecordFields, Zenon DEF Swept
        <5> QED
          BY <1>4, <1>6, <4>4, <5>1, RecordFields, Zenon DEF Tracks, Pending, Sees
      <4>9. Apart(recs', names, y, x)
        BY <3>3, <4>5, <4>8, Zenon DEF Apart, Restores, Renaming
      <4> QED
        BY <4>1, <4>2, <4>7, <4>9
    <3> QED
      BY <1>3, <2>5, <3>2, <3>9, <3>10, AfterRecord, Zenon
  <2> QED
    BY <2>6, <2>7
<1> QED
  BY <1>5, <1>6

(* A removal.                                                              *)
LEMMA RemoveResolvesKeeps ==
  ASSUME BucketInv, NEW p \in Procs, RemoveResolves(p)
  PROVE  BucketInv'
<1>1. PICK l : l = proc[p]
  BY Zenon
<1>2. /\ l \in Locals /\ Belongs(p, l) /\ Knows(recs, names, solid, l)
      /\ l.op = "removeName" /\ l.pc = "resolve"
  BY <1>1, Own, Zenon DEF RemoveResolves, At
<1>3. l.name \in RackNames /\ p \in Workers /\ names[l.name] \in Machines \cup {Nil}
  BY <1>2, LocalFields, Own, Zenon DEF Belongs, ClaimSteps, MoveSteps, NamePass
<1>4. CASE names[l.name] = Nil
  <2>1. Reads(p, IdleWorker)
    BY <1>1, <1>4, Zenon DEF RemoveResolves
  <2> QED
    BY <2>1, ReadIdle, Zenon
<1>5. CASE names[l.name] # Nil
  <2>1. PICK x : x = [l EXCEPT !.pc = "holder", !.holder = names[l.name]]
    BY Zenon
  <2>2. Reads(p, x)
    BY <1>1, <1>5, <2>1, Zenon DEF RemoveResolves
  <2>3. x \in Locals /\ x.op = l.op /\ x.m = l.m /\ x.name = l.name /\ x.pc = "holder" /\ x.holder = names[l.name]
    BY <1>2, <1>3, <1>5, <2>1, ZenonT(60) DEF Locals
  <2>4. Plain(x)
    BY <1>2, <2>3, Zenon DEF Plain
  <2>5. Belongs(p, x)
    BY <1>2, <1>3, <1>5, <2>3, Zenon DEF Belongs, ClaimSteps, MoveSteps, NamePass
  <2> QED
    BY <2>2, <2>3, <2>4, <2>5, ReadPlain, Zenon
<1> QED
  BY <1>4, <1>5

(* RemoveByName reads the record of the holder.                            *)
LEMMA RemoveReadsHolderKeeps ==
  ASSUME BucketInv, NEW p \in Procs, RemoveReadsHolder(p)
  PROVE  BucketInv'
<1>1. PICK l : l = proc[p]
  BY Zenon
<1>2. /\ l \in Locals /\ Belongs(p, l) /\ Knows(recs, names, solid, l)
      /\ l.op = "removeName" /\ l.pc = "holder"
  BY <1>1, Own, Zenon DEF RemoveReadsHolder, At
<1>3. l.holder \in Machines /\ p \in Workers
  BY <1>2, LocalFields, Own, Zenon DEF Belongs, ClaimSteps, MoveSteps, NamePass
<1>4. CASE ~Carries(l.holder, l.name)
  <2>1. Reads(p, IdleWorker)
    BY <1>1, <1>4, Zenon DEF RemoveReadsHolder
  <2> QED
    BY <2>1, ReadIdle, Zenon
<1>5. CASE Carries(l.holder, l.name)
  <2>1. PICK x : x = [IdleWorker EXCEPT !.op = "remove", !.pc = "get", !.m = l.holder]
    BY Zenon
  <2>2. Reads(p, x)
    BY <1>1, <1>5, <2>1, Zenon DEF RemoveReadsHolder
  <2>3. x \in Locals
    BY <1>3, <2>1, IdleFits, ZenonT(60) DEF Locals
  <2>4. x.op = "remove" /\ x.pc = "get" /\ x.m = l.holder /\ x.rec = Nil
    BY <2>1, Zenon DEF IdleWorker
  <2> QED
    BY <1>3, <2>2, <2>3, <2>4, NewOperation
<1> QED
  BY <1>4, <1>5

(* RemoveEntity reads the record,                                          *)
LEMMA RemoveGetsKeeps ==
  ASSUME BucketInv, NEW p \in Procs, RemoveGets(p)
  PROVE  BucketInv'
<1>1. PICK l : l = proc[p]
  BY Zenon
<1>2. /\ l \in Locals /\ Belongs(p, l) /\ Knows(recs, names, solid, l)
      /\ l.op = "remove" /\ l.pc = "get"
  BY <1>1, Own, Zenon DEF RemoveGets, At
<1>3. l.m \in Machines /\ p \in Workers /\ recs[l.m] \in Records \cup {Nil}
  BY <1>2, LocalFields, Own, Zenon DEF Belongs, ClaimSteps, MoveSteps, NamePass
<1>4. CASE recs[l.m] = Nil
  <2>1. Reads(p, IdleWorker)
    BY <1>1, <1>4, Zenon DEF RemoveGets
  <2> QED
    BY <2>1, ReadIdle, Zenon
<1>5. CASE recs[l.m] # Nil
  <2>1. PICK x : x = [l EXCEPT !.pc = "delete", !.fresh = {l.m}, !.old = {recs[l.m].name} \ {NoName}]
    BY Zenon
  <2>2. Reads(p, x)
    BY <1>1, <1>5, <2>1, Zenon DEF RemoveGets
  <2>3. x \in Locals /\ x.op = l.op /\ x.m = l.m /\ x.name = l.name /\ x.pc = "delete"
    <3>1. {recs[l.m].name} \ {NoName} \in SUBSET RackNames
      BY <1>3, <1>5, RecordFields
    <3> QED
      BY <1>2, <1>3, <2>1, <3>1, ZenonT(60) DEF Locals
  <2>4. Plain(x)
    BY <1>2, <2>3, Zenon DEF Plain
  <2>5. Belongs(p, x)
    BY <1>2, <1>3, <1>5, <2>3, Zenon DEF Belongs, ClaimSteps, MoveSteps, NamePass
  <2> QED
    BY <2>2, <2>3, <2>4, <2>5, ReadPlain, Zenon
<1> QED
  BY <1>4, <1>5

(* and deletes it; its name is to be released.                             *)
LEMMA RemoveDeletesKeeps ==
  ASSUME BucketInv, NEW p \in Procs, RemoveDeletes(p)
  PROVE  BucketInv'
<1>1. PICK l : l = proc[p]
  BY Zenon
<1>2. /\ l \in Locals /\ Belongs(p, l) /\ Knows(recs, names, solid, l)
      /\ l.op = "remove" /\ l.pc = "delete"
  BY <1>1, Own, Zenon DEF RemoveDeletes, At
<1>3. l.m \in Machines /\ p \in Workers
  BY <1>2, LocalFields, Own, Zenon DEF Belongs, ClaimSteps, MoveSteps, NamePass
<1>4. CASE l.m \notin l.fresh
  <2>1. Reads(p, Again(proc[p]))
    BY <1>1, <1>4, Zenon DEF RemoveDeletes
  <2> QED
    BY <1>1, <1>2, <2>1, ReadAgain, Zenon
<1>5. CASE l.m \in l.fresh
  <2>1. PICK x : x = [l EXCEPT !.pc = "release", !.fresh = {}]
    BY Zenon
  <2>2. WritesRecord(p, l.m, Nil, x)
    BY <1>1, <1>5, <2>1, Zenon DEF RemoveDeletes
  <2>3. x \in Locals /\ x.op = l.op /\ x.m = l.m /\ x.pc = "release"
    BY <1>2, <2>1, ZenonT(60) DEF Locals
  <2>4. Plain(x)
    BY <1>2, <2>3, Zenon DEF Plain
  <2>5. Belongs(p, x)
    BY <1>2, <1>3, <2>3, Zenon DEF Belongs, ClaimSteps, MoveSteps, NamePass
  <2>6. Knows(recs', names, solid', x) /\ Quiet(x)
    BY <2>4, PlainIsQuiet, Zenon
  <2> QED
    BY <1>3, <2>2, <2>3, <2>5, <2>6, RecordQuiet, Zenon
<1> QED
  BY <1>4, <1>5

(* The undo of a claim that was refused.                                   *)
LEMMA UndoesKeeps ==
  ASSUME BucketInv, NEW p \in Procs, Undoes(p)
  PROVE  BucketInv'
<1>1. PICK l : l = proc[p]
  BY Zenon
<1>2. /\ l \in Locals /\ Belongs(p, l) /\ Knows(recs, names, solid, l)
      /\ l.op \in {"register", "approve"} /\ l.pc = "undo"
  BY <1>1, Own, Zenon DEF Undoes, Belongs
<1>3. l.m \in Machines /\ p \in Workers /\ l.rec \in Records \cup {Nil}
  BY <1>2, LocalFields, Own, Zenon DEF Belongs, ClaimSteps, MoveSteps, NamePass
<1>4. PICK x : x = IF l.err = "conflict" THEN Again(l) ELSE IdleWorker
  BY Zenon
<1>5. x \in Locals /\ Plain(x) /\ Belongs(p, x)
  BY <1>2, <1>4, AgainFits, IdleFits, Zenon
<1>6. Quiet(x) /\ \A R, N, S : Knows(R, N, S, x)
  BY <1>5, PlainIsQuiet, Zenon
<1>7. CASE l.m \notin l.fresh
  <2>1. Reads(p, x)
    BY <1>1, <1>4, <1>7, Zenon DEF Undoes
  <2> QED
    BY <1>5, <2>1, ReadPlain, Zenon
<1>8. CASE l.m \in l.fresh /\ l.op = "register"
  <2>1. WritesRecord(p, l.m, Nil, x)
    BY <1>1, <1>4, <1>8, Zenon DEF Undoes
  <2> QED
    BY <1>3, <1>5, <1>6, <2>1, RecordQuiet, Zenon
<1>9. CASE l.m \in l.fresh /\ l.op = "approve"
  <2>1. WritesRecord(p, l.m, l.rec, x)
    BY <1>1, <1>4, <1>9, Zenon DEF Undoes
  <2>2. l.rec \in Records /\ recs[l.m] # Nil
    BY <1>2, <1>3, <1>9, Zenon DEF Knows
  <2>3. CASE ~l.rec.aged
    BY <1>3, <1>5, <1>6, <2>1, <2>2, <2>3, RecordQuiet, Zenon
  <2>4. CASE l.rec.aged
    <3>1. Restores(l) /\ Renaming(l)
      BY <1>2, <1>9, <2>2, <2>4, RecordFields, Zenon DEF Restores, Renaming
    <3>2. ASSUME NEW q \in Procs \ {p}
          PROVE  /\ Claiming(proc[q]) => proc[q].m # l.m
                 /\ l.rec.name \in RackNames => Tracks(recs, names, proc[q], l.m, l.rec.name)
      <4>1. Apart(recs, names, l, proc[q]) /\ Apart(recs, names, proc[q], l)
        BY <1>1, Zenon DEF BucketInv
      <4> QED
        BY <3>1, <4>1, Zenon DEF Apart
    <3>3. Fits(recs', names, solid', p, x)
      BY <1>5, <1>6, QuietIsApart, Zenon DEF Fits
    <3>4. \A q \in Procs \ {p} : /\ Apart(recs', names, x, Stripped(proc[q], l.m))
                                 /\ Apart(recs', names, Stripped(proc[q], l.m), x)
      BY <1>6, QuietIsApart, Zenon
    <3> QED
      BY <1>3, <2>1, <2>2, <3>2, <3>3, <3>4, AfterRecord, Zenon
  <2> QED
    BY <2>3, <2>4
<1> QED
  BY <1>2, <1>7, <1>8, <1>9, Zenon

-----------------------------------------------------------------------------
(* The sweep.                                                              *)

(* A step of it that lets it see what it saw before.                       *)
Resumes(R, N, l, Q, M, x) ==
  /\ l.op = "sweep" /\ x.op = "sweep" /\ x.settled \subseteq l.settled
  /\ \A i \in Machines :
       /\ Q[i] = R[i] \/ ~Pending(x, i)
       /\ \A c \in RackNames : Tracks(R, N, l, i, c) => Tracks(Q, M, x, i, c)

(* A sweep that goes on to where it sees no less keeps what it sees,       *)
LEMMA ResumesSwept ==
  ASSUME NEW R, NEW N, NEW l, NEW Q, NEW M, NEW x, Resumes(R, N, l, Q, M, x), Swept(R, N, l)
  PROVE  Swept(Q, M, x)
<1> SUFFICES ASSUME NEW i \in Machines, Q[i] # Nil, Q[i].name \in RackNames, Q[i].aged \/ i \in x.settled
             PROVE  Tracks(Q, M, x, i, Q[i].name)
  BY Zenon DEF Swept
<1>1. CASE ~Pending(x, i)
  BY <1>1, Zenon DEF Tracks
<1>2. CASE Q[i] = R[i]
  <2>1. R[i].aged \/ i \in l.settled
    BY <1>2, Zenon DEF Resumes
  <2>2. Tracks(R, N, l, i, R[i].name)
    BY <1>2, <2>1, Zenon DEF Swept
  <2> QED
    BY <1>2, <2>2, Zenon DEF Resumes
<1> QED
  BY <1>1, <1>2, Zenon DEF Resumes

(* and stays apart from the others.                                        *)
LEMMA ResumesApart ==
  ASSUME NEW R, NEW N, NEW l, NEW Q, NEW M, NEW x, Resumes(R, N, l, Q, M, x),
         NEW k \in Locals, NEW y, y = k \/ (\E key : y = Stripped(k, key)), Apart(R, N, l, k)
  PROVE  Apart(Q, M, x, y) /\ Apart(Q, M, y, x)
<1>1. /\ y.op = k.op /\ y.pc = k.pc /\ y.m = k.m /\ y.rec = k.rec
  BY StrippedFields
<1>2. y.m \in y.fresh => k.m \in k.fresh
  BY StrippedFields
<1>3. k.m \in k.fresh => k.m \in Machines
  BY LocalFields, RegistryAssumption
<1>4. (Claiming(y) => Claiming(k)) /\ (Renaming(y) => Renaming(k) /\ k.m \in Machines)
  BY <1>1, <1>2, <1>3, Zenon DEF Claiming, Renaming, Restores
<1>5. Apart(Q, M, x, y)
  <2>1. Restores(x) /\ Claiming(y) => x.m # y.m
    BY Zenon DEF Restores, Resumes
  <2>2. x.op = "sweep" /\ Claiming(y) => y.m \notin x.settled
    BY <1>1, <1>4, Zenon DEF Apart, Resumes
  <2>3. Renaming(y) /\ y.rec.name \in RackNames => Tracks(Q, M, x, y.m, y.rec.name)
    BY <1>1, <1>4, Zenon DEF Apart, Resumes
  <2> QED
    BY <2>1, <2>2, <2>3, Zenon DEF Apart
<1>6. Apart(Q, M, y, x)
  BY Zenon DEF Apart, Claiming, Renaming, Restores, Resumes
<1> QED
  BY <1>5, <1>6

(* So a call of the sweep has only itself to answer for: when it reads,    *)
LEMMA ReadSweeps ==
  ASSUME BucketInv, NEW p \in Procs, NEW next \in Locals, Reads(p, next),
         Belongs(p, next), Knows(recs, names, solid, next),
         Resumes(recs, names, proc[p], recs, names, next)
  PROVE  BucketInv'
<1>1. Fits(recs, names, solid, p, next)
  BY Own, ResumesSwept, Zenon DEF Fits
<1>2. ASSUME NEW q \in Procs \ {p}
      PROVE  Apart(recs, names, next, proc[q]) /\ Apart(recs, names, proc[q], next)
  <2>1. proc[q] \in Locals /\ Apart(recs, names, proc[p], proc[q])
    BY Own, Zenon DEF BucketInv
  <2> QED
    BY <2>1, ResumesApart, Zenon
<1> QED
  BY <1>1, <1>2, AfterRead, Zenon

(* when it writes a record,                                                *)
LEMMA RecordSweeps ==
  ASSUME BucketInv, NEW p \in Procs, NEW m \in Machines, NEW r \in Records \cup {Nil},
         NEW next \in Locals, WritesRecord(p, m, r, next), r = Nil \/ ~r.aged,
         Belongs(p, next), Knows(recs', names, solid', next),
         Resumes(recs, names, proc[p], recs', names, next)
  PROVE  BucketInv'
<1>1. Fits(recs', names, solid', p, next)
  BY Own, ResumesSwept, ZenonT(60) DEF Fits
<1>2. ASSUME NEW q \in Procs \ {p}
      PROVE  /\ Apart(recs', names, next, Stripped(proc[q], m))
             /\ Apart(recs', names, Stripped(proc[q], m), next)
  <2>1. proc[q] \in Locals /\ Apart(recs, names, proc[p], proc[q])
    BY Own, Zenon DEF BucketInv
  <2> QED
    BY <2>1, ResumesApart, Zenon
<1> QED
  BY <1>1, <1>2, AfterRecord, Zenon

(* There is one sweep.                                                     *)
LEMMA OneSweep ==
  ASSUME BucketInv, NEW p \in Procs, proc[p].op = "sweep"
  PROVE  p \in Sweepers /\ \A q \in Procs \ {p} : proc[q].op # "sweep"
<1>1. \A q \in Procs : proc[q].op = "sweep" => q \in Sweepers
  BY Own, Zenon DEF Belongs
<1> QED
  BY <1>1, RegistryAssumption, Zenon

(* and when it writes a name key.                                          *)
LEMMA NameSweeps ==
  ASSUME BucketInv, NEW p \in Procs, NEW n \in RackNames, NEW v \in Machines \cup {Nil},
         NEW next \in Locals, WritesName(p, n, v, next),
         Belongs(p, next), Knows(recs, names', solid', next),
         Resumes(recs, names, proc[p], recs, names', next)
  PROVE  BucketInv'
<1>1. Fits(recs, names', solid', p, next)
  BY Own, ResumesSwept, ZenonT(60) DEF Fits
<1>2. ASSUME NEW q \in Procs \ {p}
      PROVE  /\ Apart(recs, names', next, Stripped(proc[q], n))
             /\ Apart(recs, names', Stripped(proc[q], n), next)
  <2>1. proc[q] \in Locals /\ Apart(recs, names, proc[p], proc[q])
    BY Own, Zenon DEF BucketInv
  <2> QED
    BY <2>1, ResumesApart, Zenon
<1>3. \A q \in Procs \ {p} : proc[q].op # "sweep"
  BY OneSweep, Zenon DEF Resumes
<1> QED
  BY <1>1, <1>2, <1>3, AfterName, Zenon

(* Among the records, the rest of which it leaves alone,                   *)
LEMMA SameRound ==
  ASSUME NEW R, NEW N, NEW l, NEW Q, NEW M, NEW x,
         l.op = "sweep", x.op = "sweep", x.settled \subseteq l.settled,
         x.todo = l.todo, x.held = l.held, l.pc \notin NamePass, x.pc \notin NamePass,
         \A i \in l.todo : Q[i] = R[i] /\ \A c \in RackNames : M[c] = i => N[c] = i
  PROVE  Resumes(R, N, l, Q, M, x)
<1>1. ASSUME NEW i \in Machines, i \notin l.todo
      PROVE  ~Pending(x, i)
  BY <1>1, Zenon DEF Pending
<1>2. ASSUME NEW i \in Machines, NEW c \in RackNames, i \in l.todo, Tracks(R, N, l, i, c)
      PROVE  Tracks(Q, M, x, i, c)
  <2>1. Pending(l, i)
    BY <1>2, Zenon DEF Pending
  <2>2. Q[i] = R[i] /\ (M[c] = i => N[c] = i)
    BY <1>2
  <2>3. Sees(l, i, c) => Sees(x, i, c)
    BY Zenon DEF Sees, NamePass
  <2> QED
    BY <1>2, <2>1, <2>2, <2>3, Zenon DEF Tracks
<1>3. ASSUME NEW i \in Machines
      PROVE  /\ Q[i] = R[i] \/ ~Pending(x, i)
             /\ \A c \in RackNames : Tracks(R, N, l, i, c) => Tracks(Q, M, x, i, c)
  <2>1. CASE i \in l.todo
    BY <1>2, <2>1, Zenon
  <2>2. CASE i \notin l.todo
    BY <1>1, <2>2, Zenon DEF Tracks
  <2> QED
    BY <2>1, <2>2
<1> QED
  BY <1>3, Zenon DEF Resumes

(* The sweep goes on to the next record with nothing in hand.              *)
LEMMA NextRecordFits ==
  ASSUME NEW p, NEW l \in Locals, Belongs(p, l), l.op = "sweep", l.pc \notin NamePass,
         NEW x, x = NextRecord(l)
  PROVE  /\ x \in Locals /\ x.op = "sweep" /\ x.pc = "records"
         /\ x.todo = l.todo /\ x.held = l.held /\ x.settled = l.settled
         /\ Belongs(p, x) /\ \A R, N, S : Knows(R, N, S, x)
<1>1. /\ x \in Locals /\ x.op = l.op /\ x.pc = "records" /\ x.m = Nil
      /\ x.todo = l.todo /\ x.held = l.held /\ x.settled = l.settled
  BY ZenonT(60) DEF NextRecord, Locals
<1>2. x.todo \subseteq Machines \ {x.m}
  BY <1>1, RegistryAssumption DEF Belongs
<1>3. Belongs(p, x)
  BY <1>1, <1>2, Zenon DEF Belongs, ClaimSteps, MoveSteps, NamePass
<1>4. \A R, N, S : Knows(R, N, S, x)
  BY <1>1, Zenon DEF Knows, Claiming, ClaimSteps, MoveSteps
<1> QED
  BY <1>1, <1>3, <1>4, Zenon

(* The sweep deletes a record that no name points at.                      *)
LEMMA SweepDropsKeeps ==
  ASSUME BucketInv, NEW p \in Procs, SweepDrops(p)
  PROVE  BucketInv'
<1>1. PICK l : l = proc[p]
  BY Zenon
<1>2. /\ l \in Locals /\ Belongs(p, l) /\ Knows(recs, names, solid, l)
      /\ l.op = "sweep" /\ l.pc = "drop"
  BY <1>1, Own, Zenon DEF SweepDrops, At
<1>3. l.m \in Machines /\ l.todo \subseteq Machines \ {l.m} /\ l.pc \notin NamePass
  BY <1>2, LocalFields, Own, Zenon DEF Belongs, ClaimSteps, MoveSteps, NamePass
<1>4. PICK x : x = NextRecord(l)
  BY Zenon
<1>5. /\ x \in Locals /\ x.op = "sweep" /\ x.pc = "records"
      /\ x.todo = l.todo /\ x.held = l.held /\ x.settled = l.settled
      /\ Belongs(p, x) /\ \A R, N, S : Knows(R, N, S, x)
  BY <1>2, <1>3, <1>4, NextRecordFits, ZenonT(60)
<1>6. x.pc \notin NamePass
  BY <1>5, Zenon DEF NamePass
<1>7. CASE l.m \notin l.fresh
  <2>1. Reads(p, x)
    BY <1>1, <1>4, <1>7, Zenon DEF SweepDrops
  <2>2. Resumes(recs, names, l, recs, names, x)
    BY <1>2, <1>3, <1>5, <1>6, SameRound, Zenon
  <2> QED
    BY <1>1, <1>5, <2>1, <2>2, ReadSweeps, Zenon
<1>8. CASE l.m \in l.fresh
  <2>1. WritesRecord(p, l.m, Nil, x)
    BY <1>1, <1>4, <1>8, Zenon DEF SweepDrops
  <2>2. \A i \in l.todo : recs'[i] = recs[i]
    BY <1>3, <2>1, Own DEF WritesRecord
  <2>3. Resumes(recs, names, l, recs', names, x)
    BY <1>2, <1>3, <1>5, <1>6, <2>2, SameRound, Zenon
  <2> QED
    BY <1>1, <1>3, <1>5, <2>1, <2>3, RecordSweeps, Zenon
<1> QED
  BY <1>7, <1>8

(* It gives a record back the name that points at it.                      *)
LEMMA SweepRollsBackKeeps ==
  ASSUME BucketInv, NEW p \in Procs, SweepRollsBack(p)
  PROVE  BucketInv'
<1>1. PICK l : l = proc[p]
  BY Zenon
<1>2. /\ l \in Locals /\ Belongs(p, l) /\ Knows(recs, names, solid, l)
      /\ l.op = "sweep" /\ l.pc = "rollback"
  BY <1>1, Own, Zenon DEF SweepRollsBack, At
<1>3. /\ l.m \in Machines /\ l.todo \subseteq Machines \ {l.m} /\ l.pc \notin NamePass
      /\ l.held[l.m] \subseteq RackNames /\ l.settled \subseteq Machines
  <2>1. l.held \in [Machines -> SUBSET RackNames] /\ l.settled \subseteq Machines
    BY <1>2, LocalFields, Zenon
  <2>2. l.m \in Machines /\ l.todo \subseteq Machines \ {l.m} /\ l.pc \notin NamePass
    BY <1>2, Zenon DEF Belongs, NamePass
  <2> QED
    BY <2>1, <2>2
<1>4. l.rec \in Records
  BY <1>2, LocalFields, Zenon DEF Knows
<1>5. PICK k : k = [l EXCEPT !.settled = @ \ {l.m}]
  BY Zenon
<1>6. /\ k \in Locals /\ k.op = l.op /\ k.pc = l.pc /\ k.m = l.m /\ k.name = l.name
      /\ k.holder = l.holder /\ k.todo = l.todo /\ k.held = l.held /\ k.settled = l.settled \ {l.m}
  <2>1. l.settled \ {l.m} \in SUBSET Machines
    BY <1>3
  <2> QED
    BY <1>2, <1>5, <2>1, ZenonT(60) DEF Locals
<1>7. Belongs(p, k)
  BY <1>2, <1>6, Zenon DEF Belongs
<1>8. PICK x : x = NextRecord(k)
  BY Zenon
<1>9. /\ x \in Locals /\ x.op = "sweep" /\ x.pc = "records"
      /\ x.todo = l.todo /\ x.held = l.held /\ x.settled = l.settled \ {l.m}
      /\ Belongs(p, x) /\ \A R, N, S : Knows(R, N, S, x)
  <2>1. k.op = "sweep" /\ k.pc \notin NamePass
    BY <1>2, <1>3, <1>6, Zenon
  <2>2. /\ x \in Locals /\ x.op = "sweep" /\ x.pc = "records"
        /\ x.todo = k.todo /\ x.held = k.held /\ x.settled = k.settled
        /\ Belongs(p, x) /\ \A R, N, S : Knows(R, N, S, x)
    BY <1>6, <1>7, <1>8, <2>1, NextRecordFits, ZenonT(60)
  <2> QED
    BY <1>6, <2>2, Zenon
<1>10. x.pc \notin NamePass /\ x.settled \subseteq l.settled
  BY <1>9, Zenon DEF NamePass
<1>11. CASE l.m \notin l.fresh
  <2>1. Reads(p, x)
    BY <1>1, <1>5, <1>8, <1>11, Zenon DEF SweepRollsBack
  <2>2. Resumes(recs, names, l, recs, names, x)
    BY <1>2, <1>3, <1>9, <1>10, SameRound, Zenon
  <2> QED
    BY <1>1, <1>9, <2>1, <2>2, ReadSweeps, Zenon
<1>12. CASE l.m \in l.fresh
  <2>1. PICK n \in l.held[l.m] : WritesRecord(p, l.m, [l.rec EXCEPT !.name = n, !.aged = FALSE], x)
    BY <1>1, <1>5, <1>8, <1>12, Zenon DEF SweepRollsBack
  <2>2. PICK r : r = [l.rec EXCEPT !.name = n, !.aged = FALSE]
    BY Zenon
  <2>3. n \in RackNames \cup {NoName}
    BY <1>3, <2>1
  <2>4. r \in Records /\ ~r.aged
    BY <1>4, <2>2, <2>3, Zenon DEF Records
  <2>5. WritesRecord(p, l.m, r, x)
    BY <2>1, <2>2, Zenon
  <2>6. \A i \in l.todo : recs'[i] = recs[i]
    BY <1>3, <2>5, Own DEF WritesRecord
  <2>7. Resumes(recs, names, l, recs', names, x)
    BY <1>2, <1>3, <1>9, <1>10, <2>6, SameRound, Zenon
  <2> QED
    BY <1>1, <1>3, <1>9, <2>4, <2>5, <2>7, RecordSweeps, Zenon
<1> QED
  BY <1>11, <1>12

(* A sweep that is done, and a process that is cut short, leave nothing    *)
(* behind but what they wrote.                                             *)
LEMMA SweepEndsKeeps ==
  ASSUME BucketInv, NEW p \in Procs, SweepEnds(p) \/ RegistryCrash(p)
  PROVE  BucketInv'
BY ReadIdle, Zenon DEF SweepEnds, RegistryCrash

(* A sweep of the records that goes on to another one sees no less.        *)
LEMMA NextRound ==
  ASSUME NEW R, NEW N, NEW l, NEW x, NEW m,
         l.op = "sweep", x.op = "sweep", x.settled = l.settled,
         l.todo \subseteq Machines, x.todo = l.todo \ {m}, x.held = l.held,
         l.pc \notin NamePass, x.pc \notin NamePass
  PROVE  Resumes(R, N, l, R, N, x)
<1>1. ASSUME NEW i \in Machines, NEW c \in RackNames, Tracks(R, N, l, i, c)
      PROVE  Tracks(R, N, x, i, c)
  <2>1. Pending(x, i) => Pending(l, i)
    BY Zenon DEF Pending
  <2>2. Sees(l, i, c) => Sees(x, i, c)
    BY NameIsNoMachine, Zenon DEF Sees, NamePass
  <2> QED
    BY <1>1, <2>1, <2>2, Zenon DEF Tracks
<1> QED
  BY <1>1, Zenon DEF Resumes

(* The sweep takes a record and decides by the names it has seen.          *)
LEMMA SweepGetsRecordKeeps ==
  ASSUME BucketInv, NEW p \in Procs, SweepGetsRecord(p)
  PROVE  BucketInv'
<1>1. PICK l : l = proc[p]
  BY Zenon
<1>2. /\ l \in Locals /\ Belongs(p, l) /\ Knows(recs, names, solid, l)
      /\ l.op = "sweep" /\ l.pc = "records"
  BY <1>1, Own, Zenon DEF SweepGetsRecord, At
<1>3. l.todo \subseteq Machines /\ l.todo \subseteq Machines \ {l.m} /\ l.pc \notin NamePass
      /\ p \in Sweepers
  BY <1>2, LocalFields, Own, Zenon DEF Belongs, ClaimSteps, MoveSteps, NamePass
<1>4. PICK m \in l.todo :
        LET k == [l EXCEPT !.todo = @ \ {m}]
            found == [k EXCEPT !.m = m, !.rec = recs[m], !.name = recs[m].name, !.fresh = {m}]
        IN  Reads(p, CASE Healthy(k, m) -> k
                       [] ~Healthy(k, m) /\ k.held[m] = {} -> [found EXCEPT !.pc = "drop"]
                       [] OTHER -> [found EXCEPT !.pc = "claim"])
  BY <1>1, Zenon DEF SweepGetsRecord
<1>5. PICK k : k = [l EXCEPT !.todo = @ \ {m}]
  BY Zenon
<1>6. /\ k \in Locals /\ k.op = l.op /\ k.pc = l.pc /\ k.m = l.m /\ k.name = l.name
      /\ k.holder = l.holder /\ k.todo = l.todo \ {m} /\ k.held = l.held /\ k.settled = l.settled
  <2>1. l.todo \ {m} \in SUBSET (Machines \cup RackNames)
    BY <1>3
  <2> QED
    BY <1>2, <1>5, <2>1, ZenonT(60) DEF Locals
<1>7. m \in Machines /\ recs[m] \in Records \cup {Nil}
  BY <1>3, <1>4, Own, Zenon
<1>8. CASE Healthy(k, m)
  <2>1. Reads(p, k)
    BY <1>4, <1>5, <1>8, Zenon
  <2>2. Belongs(p, k)
    BY <1>2, <1>3, <1>6, Zenon DEF Belongs, NamePass
  <2>3. Knows(recs, names, solid, k)
    BY <1>2, <1>6, Zenon DEF Knows, Claiming, ClaimSteps, MoveSteps
  <2>4. Resumes(recs, names, l, recs, names, k)
    BY <1>2, <1>3, <1>6, NextRound, Zenon
  <2> QED
    BY <1>1, <1>6, <2>1, <2>2, <2>3, <2>4, ReadSweeps, Zenon
<1>9. CASE ~Healthy(k, m)
  <2>1. /\ recs[m] \in Records /\ recs[m].name \in RackNames /\ recs[m].aged
        /\ recs[m].name \notin l.held[m]
    BY <1>6, <1>7, <1>9, RecordFields, Zenon DEF Healthy, Present
  <2>2. PICK pc \in {"drop", "claim"} :
          Reads(p, [[k EXCEPT !.m = m, !.rec = recs[m], !.name = recs[m].name, !.fresh = {m}] EXCEPT !.pc = pc])
    BY <1>4, <1>5, <1>9, Zenon
  <2>3. PICK x : x = [[k EXCEPT !.m = m, !.rec = recs[m], !.name = recs[m].name, !.fresh = {m}] EXCEPT !.pc = pc]
    BY Zenon
  <2>4. /\ x \in Locals /\ x.op = k.op /\ x.pc = pc /\ x.m = m /\ x.name = recs[m].name
        /\ x.rec = recs[m] /\ x.fresh = {m} /\ x.todo = k.todo /\ x.held = k.held /\ x.settled = k.settled
    <3>1. recs[m].name \in RackNames \cup {NoName}
      BY <2>1, Zenon
    <3> QED
      BY <1>6, <1>7, <2>2, <2>3, <3>1, ZenonT(60) DEF Locals
  <2>5. x.todo \subseteq Machines \ {x.m}
    BY <1>3, <1>6, <2>4
  <2>6. Belongs(p, x)
    BY <1>2, <1>3, <1>6, <1>7, <2>1, <2>2, <2>4, <2>5, Zenon DEF Belongs, ClaimSteps, MoveSteps, NamePass
  <2>7. names[recs[m].name] # m
    <3>1. Pending(l, m)
      BY <1>2, <1>4, Zenon DEF Pending
    <3>2. ~Sees(l, m, recs[m].name)
      BY <1>2, <1>3, <2>1, NameIsNoMachine, Zenon DEF Sees
    <3>3. Tracks(recs, names, l, m, recs[m].name)
      BY <1>1, <1>7, <2>1, Own, RecordFields, Zenon DEF Swept
    <3> QED
      BY <2>1, <3>1, <3>2, <3>3, RecordFields, Zenon DEF Tracks
  <2>8. Knows(recs, names, solid, x)
    BY <1>2, <1>6, <2>1, <2>2, <2>4, <2>7, RecordFields, ZenonT(60) DEF Knows, Claiming, ClaimSteps, MoveSteps
  <2>9. Resumes(recs, names, l, recs, names, x)
    <3>1. x.pc \notin NamePass
      BY <2>2, <2>4, Zenon DEF NamePass
    <3> QED
      BY <1>2, <1>3, <1>6, <2>4, <3>1, NextRound, ZenonT(60)
  <2>10. Reads(p, x)
    BY <2>2, <2>3, Zenon
  <2> QED
    BY <1>1, <2>4, <2>6, <2>8, <2>9, <2>10, ReadSweeps, Zenon
<1> QED
  BY <1>8, <1>9

(* It lists the records when it is done with the names.                    *)
LEMMA SweepListsKeeps ==
  ASSUME BucketInv, NEW p \in Procs, SweepLists(p)
  PROVE  BucketInv'
<1>1. PICK l : l = proc[p]
  BY Zenon
<1>2. /\ l \in Locals /\ Belongs(p, l) /\ Knows(recs, names, solid, l)
      /\ l.op = "sweep" /\ l.pc = "names"
  BY <1>1, Own, Zenon DEF SweepLists, At
<1>3. /\ l.m = Nil /\ p \in Sweepers /\ l.pc \in NamePass
  BY <1>2, LocalFields, Own, Zenon DEF Belongs, ClaimSteps, MoveSteps, NamePass
<1>4. PICK x : x = [l EXCEPT !.pc = "records", !.todo = {m \in Machines : Present(m)},
                       !.holder = Nil, !.name = NoName, !.fresh = {}]
  BY Zenon
<1>5. Reads(p, x) /\ l.todo = {}
  BY <1>1, <1>4, Zenon DEF SweepLists
<1>6. /\ x \in Locals /\ x.op = l.op /\ x.pc = "records" /\ x.m = l.m /\ x.held = l.held
      /\ x.todo = {m \in Machines : Present(m)} /\ x.settled = l.settled
  <2>1. {m \in Machines : Present(m)} \in SUBSET (Machines \cup RackNames)
    BY Zenon
  <2> QED
    BY <1>2, <1>4, <2>1, ZenonT(60) DEF Locals
<1>7. x.todo \subseteq Machines \ {x.m}
  BY <1>3, <1>6, RegistryAssumption
<1>8. Belongs(p, x)
  BY <1>2, <1>3, <1>6, <1>7, Zenon DEF Belongs, ClaimSteps, MoveSteps, NamePass
<1>9. Knows(recs, names, solid, x)
  BY <1>2, <1>6, Zenon DEF Knows, Claiming, ClaimSteps, MoveSteps
<1>10. ASSUME NEW i \in Machines, NEW c \in RackNames, Tracks(recs, names, l, i, c)
       PROVE  Tracks(recs, names, x, i, c)
  <2>1. Pending(l, i)
    BY <1>2, <1>3, Zenon DEF Pending
  <2>2. Sees(l, i, c) => Sees(x, i, c)
    BY <1>2, <1>5, <1>6, Zenon DEF Sees
  <2> QED
    BY <1>10, <2>1, <2>2, Zenon DEF Tracks
<1>11. Resumes(recs, names, l, recs, names, x)
  BY <1>2, <1>6, <1>10, Zenon DEF Resumes
<1> QED
  BY <1>1, <1>5, <1>6, <1>8, <1>9, <1>11, ReadSweeps, Zenon

(* and among the name keys.                                                *)
LEMMA SweepGetsNameKeeps ==
  ASSUME BucketInv, NEW p \in Procs, SweepGetsName(p)
  PROVE  BucketInv'
<1>1. PICK l : l = proc[p]
  BY Zenon
<1>2. /\ l \in Locals /\ Belongs(p, l) /\ Knows(recs, names, solid, l)
      /\ l.op = "sweep" /\ l.pc = "names"
  BY <1>1, Own, Zenon DEF SweepGetsName, At
<1>3. /\ l.m = Nil /\ p \in Sweepers /\ l.pc \in NamePass /\ l.todo \subseteq RackNames
  BY <1>2, LocalFields, Own, Zenon DEF Belongs, ClaimSteps, MoveSteps, NamePass
<1>4. PICK n \in l.todo :
        LET k == [l EXCEPT !.todo = @ \ {n}]
        IN  Reads(p, IF names[n] = Nil THEN k
                     ELSE [k EXCEPT !.pc = "nameRecord", !.name = n, !.holder = names[n], !.fresh = {n}])
  BY <1>1, Zenon DEF SweepGetsName
<1>5. PICK k : k = [l EXCEPT !.todo = @ \ {n}]
  BY Zenon
<1>6. /\ k \in Locals /\ k.op = l.op /\ k.pc = l.pc /\ k.m = l.m /\ k.name = l.name
      /\ k.holder = l.holder /\ k.todo = l.todo \ {n} /\ k.held = l.held /\ k.settled = l.settled
  <2>1. l.todo \ {n} \in SUBSET (Machines \cup RackNames)
    BY <1>3
  <2> QED
    BY <1>2, <1>5, <2>1, ZenonT(60) DEF Locals
<1>7. n \in RackNames /\ names[n] \in Machines \cup {Nil} /\ k.todo \subseteq RackNames
  BY <1>3, <1>4, <1>6, Own, Zenon
<1>8. \A i : Pending(l, i)
  BY <1>2, <1>3, Zenon DEF Pending
<1>9. CASE names[n] = Nil
  <2>1. Reads(p, k)
    BY <1>4, <1>5, <1>9, Zenon
  <2>2. Belongs(p, k)
    BY <1>2, <1>3, <1>6, <1>7, Zenon DEF Belongs, ClaimSteps, MoveSteps
  <2>3. Knows(recs, names, solid, k)
    BY <1>2, <1>6, Zenon DEF Knows, Claiming, ClaimSteps, MoveSteps
  <2>4. ASSUME NEW i \in Machines, NEW c \in RackNames, Tracks(recs, names, l, i, c)
        PROVE  Tracks(recs, names, k, i, c)
    <3>1. names[c] = i => c # n
      BY <1>9, NameIsNoMachine, Zenon
    <3>2. names[c] = i /\ Sees(l, i, c) => Sees(k, i, c)
      BY <1>2, <1>6, <3>1, Zenon DEF Sees
    <3> QED
      BY <1>8, <2>4, <3>2, Zenon DEF Tracks
  <2>5. Resumes(recs, names, l, recs, names, k)
    BY <1>2, <1>6, <2>4, Zenon DEF Resumes
  <2> QED
    BY <1>1, <1>6, <2>1, <2>2, <2>3, <2>5, ReadSweeps, Zenon
<1>10. CASE names[n] # Nil
  <2>1. PICK x : x = [k EXCEPT !.pc = "nameRecord", !.name = n, !.holder = names[n], !.fresh = {n}]
    BY Zenon
  <2>2. Reads(p, x)
    BY <1>4, <1>5, <1>10, <2>1, Zenon
  <2>3. /\ x \in Locals /\ x.op = k.op /\ x.pc = "nameRecord" /\ x.m = k.m /\ x.name = n
        /\ x.holder = names[n] /\ x.todo = k.todo /\ x.held = k.held /\ x.settled = k.settled
    BY <1>6, <1>7, <2>1, ZenonT(60) DEF Locals
  <2>4. Belongs(p, x)
    BY <1>2, <1>3, <1>6, <1>7, <1>10, <2>3, Zenon DEF Belongs, ClaimSteps, MoveSteps, NamePass
  <2>5. Knows(recs, names, solid, x)
    BY <1>2, <1>6, <2>3, Zenon DEF Knows, Claiming, ClaimSteps, MoveSteps
  <2>6. ASSUME NEW i \in Machines, NEW c \in RackNames, Tracks(recs, names, l, i, c)
        PROVE  Tracks(recs, names, x, i, c)
    <3>1. names[c] = i /\ Sees(l, i, c) => Sees(x, i, c)
      BY <1>2, <1>6, <2>3, Zenon DEF Sees
    <3> QED
      BY <1>8, <2>6, <3>1, Zenon DEF Tracks
  <2>7. Resumes(recs, names, l, recs, names, x)
    BY <1>2, <1>6, <2>3, <2>6, Zenon DEF Resumes
  <2> QED
    BY <1>1, <2>2, <2>3, <2>4, <2>5, <2>7, ReadSweeps, Zenon
<1> QED
  BY <1>9, <1>10

(* It reads the record a name points at, and remembers the name for it.    *)
LEMMA SweepReadsRecordKeeps ==
  ASSUME BucketInv, NEW p \in Procs, SweepReadsRecord(p)
  PROVE  BucketInv'
<1>1. PICK l : l = proc[p]
  BY Zenon
<1>2. /\ l \in Locals /\ Belongs(p, l) /\ Knows(recs, names, solid, l)
      /\ l.op = "sweep" /\ l.pc = "nameRecord"
  BY <1>1, Own, Zenon DEF SweepReadsRecord, At
<1>3. /\ l.m = Nil /\ p \in Sweepers /\ l.pc \in NamePass /\ l.todo \subseteq RackNames
      /\ l.name \in RackNames /\ l.holder \in Machines /\ l.held \in [Machines -> SUBSET RackNames]
  BY <1>2, LocalFields, Own, Zenon DEF Belongs, ClaimSteps, MoveSteps, NamePass
<1>4. \A i : Pending(l, i)
  BY <1>2, <1>3, Zenon DEF Pending
<1>5. CASE Present(l.holder)
  <2>1. PICK x : x = [l EXCEPT !.pc = "names", !.fresh = {}, !.held[l.holder] = @ \cup {l.name}]
    BY Zenon
  <2>2. Reads(p, x)
    BY <1>1, <1>5, <2>1, Zenon DEF SweepReadsRecord
  <2>3. PICK h : h = [l.held EXCEPT ![l.holder] = @ \cup {l.name}]
    BY Zenon
  <2>4. /\ h \in [Machines -> SUBSET RackNames] /\ l.name \in h[l.holder]
        /\ \A i \in Machines : l.held[i] \subseteq h[i]
    BY <1>3, <2>3
  <2>5. x = [l EXCEPT !.pc = "names", !.fresh = {}, !.held = h]
    BY <2>1, <2>3, Zenon
  <2>6. /\ x \in Locals /\ x.op = l.op /\ x.pc = "names" /\ x.m = l.m
        /\ x.todo = l.todo /\ x.held = h /\ x.settled = l.settled
    BY <1>2, <2>4, <2>5, ZenonT(60) DEF Locals
  <2>7. Belongs(p, x)
    BY <1>2, <1>3, <2>6, Zenon DEF Belongs, ClaimSteps, MoveSteps, NamePass
  <2>8. Knows(recs, names, solid, x)
    BY <1>2, <2>6, Zenon DEF Knows, Claiming, ClaimSteps, MoveSteps
  <2>9. ASSUME NEW i \in Machines, NEW c \in RackNames, Tracks(recs, names, l, i, c)
        PROVE  Tracks(recs, names, x, i, c)
    <3>1. Sees(l, i, c) => Sees(x, i, c)
      BY <2>4, <2>6, Zenon DEF Sees
    <3> QED
      BY <1>4, <2>9, <3>1, Zenon DEF Tracks
  <2>10. Resumes(recs, names, l, recs, names, x)
    BY <1>2, <2>6, <2>9, Zenon DEF Resumes
  <2> QED
    BY <1>1, <2>2, <2>6, <2>7, <2>8, <2>10, ReadSweeps, Zenon
<1>6. CASE ~Present(l.holder)
  <2>1. PICK x : x = [l EXCEPT !.pc = "nameDelete"]
    BY Zenon
  <2>2. Reads(p, x)
    BY <1>1, <1>6, <2>1, Zenon DEF SweepReadsRecord
  <2>3. /\ x \in Locals /\ x.op = l.op /\ x.pc = "nameDelete" /\ x.m = l.m /\ x.name = l.name
        /\ x.fresh = l.fresh /\ x.todo = l.todo /\ x.held = l.held /\ x.settled = l.settled
    BY <1>2, <2>1, ZenonT(60) DEF Locals
  <2>4. Belongs(p, x)
    BY <1>2, <1>3, <2>3, Zenon DEF Belongs, ClaimSteps, MoveSteps, NamePass
  <2>5. l.name \in l.fresh => l.name \notin solid
    <3>1. l.name \in l.fresh => names[l.name] = l.holder
      BY <1>2, Zenon DEF Knows
    <3>2. Carried(recs, names, solid)
      BY Zenon DEF BucketInv
    <3> QED
      BY <1>6, <3>1, <3>2, Zenon DEF Carried, Present
  <2>6. Knows(recs, names, solid, x)
    BY <1>2, <2>3, <2>5, Zenon DEF Knows, Claiming, ClaimSteps, MoveSteps
  <2>7. ASSUME NEW i \in Machines, NEW c \in RackNames, Tracks(recs, names, l, i, c)
        PROVE  Tracks(recs, names, x, i, c)
    <3>1. recs[i] # Nil /\ Sees(l, i, c) => Sees(x, i, c)
      BY <1>6, <2>3, Zenon DEF Sees, Present
    <3> QED
      BY <1>4, <2>7, <3>1, Zenon DEF Tracks
  <2>8. Resumes(recs, names, l, recs, names, x)
    BY <1>2, <2>3, <2>7, Zenon DEF Resumes
  <2> QED
    BY <1>1, <2>2, <2>3, <2>4, <2>6, <2>8, ReadSweeps, Zenon
<1> QED
  BY <1>5, <1>6

(* It deletes a name key without a record.                                 *)
LEMMA SweepDeletesNameKeeps ==
  ASSUME BucketInv, NEW p \in Procs, SweepDeletesName(p)
  PROVE  BucketInv'
<1>1. PICK l : l = proc[p]
  BY Zenon
<1>2. /\ l \in Locals /\ Belongs(p, l) /\ Knows(recs, names, solid, l)
      /\ l.op = "sweep" /\ l.pc = "nameDelete"
  BY <1>1, Own, Zenon DEF SweepDeletesName, At
<1>3. /\ l.m = Nil /\ p \in Sweepers /\ l.pc \in NamePass /\ l.todo \subseteq RackNames
      /\ l.name \in RackNames
  BY <1>2, LocalFields, Own, Zenon DEF Belongs, ClaimSteps, MoveSteps, NamePass
<1>4. \A i : Pending(l, i)
  BY <1>2, <1>3, Zenon DEF Pending
<1>5. PICK x : x = [l EXCEPT !.pc = "names", !.fresh = {}]
  BY Zenon
<1>6. /\ x \in Locals /\ x.op = l.op /\ x.pc = "names" /\ x.m = l.m /\ x.name = l.name
      /\ x.todo = l.todo /\ x.held = l.held /\ x.settled = l.settled
  BY <1>2, <1>5, ZenonT(60) DEF Locals
<1>7. Belongs(p, x)
  BY <1>2, <1>3, <1>6, Zenon DEF Belongs, ClaimSteps, MoveSteps, NamePass
<1>8. \A R, N, S : Knows(R, N, S, x)
  BY <1>2, <1>6, Zenon DEF Knows, Claiming, ClaimSteps, MoveSteps
<1>9. \A i, c : Sees(l, i, c) => Sees(x, i, c)
  BY <1>2, <1>6, Zenon DEF Sees
<1>10. CASE l.name \in l.fresh
  <2>1. WritesName(p, l.name, Nil, x)
    BY <1>1, <1>5, <1>10, Zenon DEF SweepDeletesName
  <2>2. \A i \in Machines, c \in RackNames : names'[c] = i => names[c] = i
    BY <1>3, <2>1, Own, RegistryAssumption DEF WritesName
  <2>3. ASSUME NEW i \in Machines, NEW c \in RackNames, Tracks(recs, names, l, i, c)
        PROVE  Tracks(recs, names', x, i, c)
    BY <1>4, <1>9, <2>2, <2>3, Zenon DEF Tracks
  <2>4. Resumes(recs, names, l, recs, names', x)
    BY <1>2, <1>6, <2>3, Zenon DEF Resumes
  <2> QED
    BY <1>1, <1>3, <1>6, <1>7, <1>8, <2>1, <2>4, NameSweeps, Zenon
<1>11. CASE l.name \notin l.fresh
  <2>1. Reads(p, x)
    BY <1>1, <1>5, <1>11, Zenon DEF SweepDeletesName
  <2>2. Resumes(recs, names, l, recs, names, x)
    BY <1>2, <1>4, <1>6, <1>9, Zenon DEF Resumes, Tracks
  <2> QED
    BY <1>1, <1>6, <1>7, <1>8, <2>1, <2>2, ReadSweeps, Zenon
<1> QED
  BY <1>10, <1>11

(* A sweep begins with the keys that there are and with the records at     *)
(* which nobody is at work.                                                *)
LEMMA BeginSweepKeeps ==
  ASSUME BucketInv, NEW p \in Procs, BeginSweep(p)
  PROVE  BucketInv'
<1> DEFINE listed == {n \in RackNames : names[n] # Nil}
           quiet == {m \in Machines : \A q \in Workers : ~WorksOn(q, m)}
<1>1. PICK x : x = [IdleWorker EXCEPT !.op = "sweep", !.pc = "names", !.todo = listed, !.settled = quiet]
  BY Zenon
<1>2. p \in Sweepers /\ Reads(p, x)
  BY <1>1, Zenon DEF BeginSweep
<1>3. x \in Locals
  <2>1. listed \in SUBSET (Machines \cup RackNames) /\ quiet \in SUBSET Machines
    BY Zenon
  <2> HIDE DEF listed, quiet
  <2> QED
    BY <1>1, <2>1, IdleFits, ZenonT(60) DEF Locals
<1>4. x.op = "sweep" /\ x.pc = "names" /\ x.m = Nil /\ x.todo = listed /\ x.settled = quiet
  BY <1>1, Zenon DEF IdleWorker
<1>5. Belongs(p, x)
  BY <1>2, <1>4, Zenon DEF Belongs, ClaimSteps, MoveSteps, NamePass
<1>6. Knows(recs, names, solid, x)
  BY <1>4, Zenon DEF Knows, Claiming, ClaimSteps, MoveSteps
<1>7. ASSUME NEW i \in Machines, NEW c \in RackNames
      PROVE  Tracks(recs, names, x, i, c)
  BY <1>4, NameIsNoMachine, Zenon DEF Tracks, Sees
<1>8. Fits(recs, names, solid, p, x)
  BY <1>3, <1>5, <1>6, <1>7, Zenon DEF Fits, Swept
<1>9. ASSUME NEW q \in Procs \ {p}
      PROVE  Apart(recs, names, x, proc[q]) /\ Apart(recs, names, proc[q], x)
  <2>1. PICK k : k = proc[q]
    BY Zenon
  <2>2. k \in Locals /\ Belongs(q, k)
    BY <2>1, Own, Zenon
  <2>3. Claiming(k) => q \in Workers
    BY <2>2, Zenon DEF Claiming, Belongs, ClaimSteps, MoveSteps
  <2>4. Claiming(k) => k.m \notin x.settled
    BY <1>4, <2>1, <2>3, Zenon DEF WorksOn
  <2>5. Renaming(k) => k.m \in Machines
    BY <2>2, Zenon DEF Renaming, Restores, Belongs
  <2>6. Apart(recs, names, x, k)
    BY <1>4, <1>7, <2>4, <2>5, Zenon DEF Apart, Restores
  <2>7. Apart(recs, names, k, x)
    BY <1>4, Zenon DEF Apart, Claiming, Renaming, Restores
  <2> QED
    BY <2>1, <2>6, <2>7
<1> QED
  BY <1>2, <1>8, <1>9, AfterRead, Zenon

-----------------------------------------------------------------------------
(* The claim of a name, for a worker or for the sweep.                     *)
LEMMA ClaimContinues ==
  ASSUME BucketInv, NEW p \in Procs, NEW l, l = proc[p], NEW x \in Locals, Reads(p, x),
         l.pc \in ClaimSteps, x.pc \in ClaimSteps,
         x.op = l.op, x.m = l.m, x.name = l.name, x.rec = l.rec,
         x.todo = l.todo, x.held = l.held, x.settled = l.settled,
         x.m \in x.fresh => l.m \in l.fresh,
         x.pc = "claimCheck" /\ x.name \in x.fresh => names[x.name] = x.holder,
         x.pc = "claimTake" /\ x.name \in x.fresh => x.name \notin solid
  PROVE  BucketInv'
<1>1. l \in Locals /\ Belongs(p, l) /\ Knows(recs, names, solid, l)
  BY Own, Zenon
<1>2. l.pc \notin NamePass /\ x.pc \notin NamePass
  BY Zenon DEF ClaimSteps, NamePass
<1>3. Belongs(p, x)
  BY <1>1, <1>2, Zenon DEF Belongs, ClaimSteps, MoveSteps
<1>4. Knows(recs, names, solid, x)
  <2>1. Claiming(x) => Claiming(l)
    BY Zenon DEF Claiming
  <2> QED
    BY <1>1, <2>1, ZenonT(60) DEF Knows, ClaimSteps, MoveSteps
<1>5. CASE l.op # "sweep"
  <2>1. Continues(proc[p], x)
    BY <1>5, Zenon DEF Continues, Claiming
  <2> QED
    BY <1>3, <1>4, <2>1, ReadContinues, Zenon
<1>6. CASE l.op = "sweep"
  <2>1. Resumes(recs, names, l, recs, names, x)
    BY <1>2, <1>6, SameRound, Zenon
  <2> QED
    BY <1>3, <1>4, <2>1, ReadSweeps, Zenon
<1> QED
  BY <1>5, <1>6

(* With its name claimed a registration ends and a rename goes on to the   *)
(* old name,                                                               *)
LEMMA ClaimedFits ==
  ASSUME NEW p, NEW l \in Locals, Belongs(p, l), l.rec # Nil, l.pc \in ClaimSteps,
         l.op \in {"register", "approve"}, NEW x, x = Claimed(l)
  PROVE  x \in Locals /\ Plain(x) /\ Belongs(p, x)
<1>1. CASE l.op = "register"
  <2>1. x = IdleWorker
    BY <1>1, Zenon DEF Claimed
  <2> QED
    BY <2>1, IdleFits, Zenon
<1>2. CASE l.op = "approve"
  <2>1. x = [IdleWorker EXCEPT !.op = l.op, !.pc = "release", !.m = l.m, !.old = {l.rec.name} \ {NoName}]
    BY <1>2, Zenon DEF Claimed
  <2>2. l.m \in Machines /\ {l.rec.name} \ {NoName} \in SUBSET RackNames
    <3>1. l.rec \in Records /\ l.m \in Machines
      BY LocalFields, Zenon DEF Belongs
    <3> QED
      BY <3>1, RecordFields
  <2>3. x \in Locals
    BY <1>2, <2>1, <2>2, IdleFits, ZenonT(60) DEF Locals
  <2>4. x.op = "approve" /\ x.pc = "release" /\ x.m = l.m /\ x.rec = Nil
    BY <1>2, <2>1, ZenonT(60) DEF IdleWorker
  <2>5. Plain(x)
    BY <2>4, Zenon DEF Plain
  <2>6. Belongs(p, x)
    BY <1>2, <2>2, <2>4, Zenon DEF Belongs, ClaimSteps, MoveSteps, NamePass
  <2> QED
    BY <2>3, <2>5, <2>6
<1> QED
  BY <1>1, <1>2

(* and the sweep to the next record.                                       *)
LEMMA ClaimedSweepFits ==
  ASSUME NEW p, NEW l \in Locals, Belongs(p, l), l.pc \in ClaimSteps, l.op = "sweep",
         NEW x, x = Claimed(l)
  PROVE  /\ x \in Locals /\ x.op = "sweep" /\ x.todo = l.todo /\ x.held = l.held
         /\ x.settled = l.settled /\ l.pc \notin NamePass /\ x.pc \notin NamePass
         /\ Belongs(p, x) /\ \A R, N, S : Knows(R, N, S, x)
<1>1. x = [l EXCEPT !.pc = "release", !.old = l.held[l.m]]
  BY Zenon DEF Claimed
<1>2. l.held[l.m] \in SUBSET RackNames
  <2>1. l.m \in Machines /\ l.held \in [Machines -> SUBSET RackNames]
    BY LocalFields, Zenon DEF Belongs
  <2> QED
    BY <2>1
<1>3. /\ x \in Locals /\ x.op = l.op /\ x.pc = "release" /\ x.m = l.m
      /\ x.todo = l.todo /\ x.held = l.held /\ x.settled = l.settled
  BY <1>1, <1>2, ZenonT(60) DEF Locals
<1>4. l.pc \notin NamePass /\ x.pc \notin NamePass
  BY <1>3, Zenon DEF ClaimSteps, NamePass
<1>5. Belongs(p, x)
  BY <1>3, <1>4, Zenon DEF Belongs, ClaimSteps, MoveSteps
<1>6. \A R, N, S : Knows(R, N, S, x)
  BY <1>3, Zenon DEF Knows, Claiming, ClaimSteps, MoveSteps
<1> QED
  BY <1>3, <1>4, <1>5, <1>6, Zenon

(* It succeeds,                                                            *)
LEMMA ClaimedKeeps ==
  ASSUME BucketInv, NEW p \in Procs, proc[p].pc \in ClaimSteps,
         \/ WritesName(p, proc[p].name, proc[p].m, Claimed(proc[p]))
         \/ Reads(p, Claimed(proc[p]))
  PROVE  BucketInv'
<1>0. PICK l : l = proc[p]
  BY Zenon
<1>1. PICK x : x = Claimed(l)
  BY Zenon
<1>2. l \in Locals /\ Belongs(p, l) /\ Knows(recs, names, solid, l) /\ l.pc \in ClaimSteps
  BY <1>0, Own, Zenon
<1>3. /\ l.op \in {"register", "approve", "sweep"} /\ l.m \in Machines /\ l.name \in RackNames
      /\ l.rec # Nil
  BY <1>2, Zenon DEF Belongs, Knows
<1>4. CASE l.op # "sweep"
  <2>1. x \in Locals /\ Plain(x) /\ Belongs(p, x)
    BY <1>1, <1>2, <1>3, <1>4, ClaimedFits, Zenon
  <2>2. Quiet(x) /\ \A R, N, S : Knows(R, N, S, x)
    BY <2>1, PlainIsQuiet, Zenon
  <2>3. Claiming(l)
    BY <1>2, <1>4, Zenon DEF Claiming
  <2>4. CASE WritesName(p, l.name, l.m, x)
    BY <1>0, <1>3, <2>1, <2>2, <2>3, <2>4, NameQuiet, Zenon
  <2>5. CASE Reads(p, x)
    BY <2>1, <2>5, ReadPlain, Zenon
  <2> QED
    BY <1>0, <1>1, <2>4, <2>5, Zenon
<1>5. CASE l.op = "sweep"
  <2>1. /\ x \in Locals /\ x.op = "sweep" /\ x.todo = l.todo /\ x.held = l.held
        /\ x.settled = l.settled /\ l.pc \notin NamePass /\ x.pc \notin NamePass
        /\ Belongs(p, x) /\ \A R, N, S : Knows(R, N, S, x)
    BY <1>1, <1>2, <1>5, ClaimedSweepFits, Zenon
  <2>2. l.todo \subseteq Machines \ {l.m}
    BY <1>2, <1>5, <2>1, Zenon DEF Belongs
  <2>3. CASE WritesName(p, l.name, l.m, x)
    <3>1. \A i \in l.todo : \A c \in RackNames : names'[c] = i => names[c] = i
      BY <1>3, <2>2, <2>3, Own DEF WritesName
    <3>2. Resumes(recs, names, l, recs, names', x)
      BY <1>5, <2>1, <3>1, SameRound, Zenon
    <3> QED
      BY <1>0, <1>3, <2>1, <2>3, <3>2, NameSweeps, Zenon
  <2>4. CASE Reads(p, x)
    <3>1. Resumes(recs, names, l, recs, names, x)
      BY <1>5, <2>1, SameRound, Zenon
    <3> QED
      BY <1>0, <2>1, <2>4, <3>1, ReadSweeps, Zenon
  <2> QED
    BY <1>0, <1>1, <2>3, <2>4, Zenon
<1> QED
  BY <1>4, <1>5

(* or it does not.                                                         *)
LEMMA NotClaimedKeeps ==
  ASSUME BucketInv, NEW p \in Procs, proc[p].pc \in ClaimSteps,
         NEW why \in {"conflict", "taken"}, Reads(p, NotClaimed(proc[p], why))
  PROVE  BucketInv'
<1>0. PICK l : l = proc[p]
  BY Zenon
<1>1. l \in Locals /\ Belongs(p, l) /\ Knows(recs, names, solid, l) /\ l.pc \in ClaimSteps
  BY <1>0, Own, Zenon
<1>2. l.op \in {"register", "approve", "sweep"} /\ l.m \in Machines
  BY <1>1, Zenon DEF Belongs
<1>3. CASE l.op # "sweep"
  <2>1. PICK x : x = [l EXCEPT !.pc = "undo", !.err = why]
    BY Zenon
  <2>2. Reads(p, x)
    BY <1>0, <1>3, <2>1, Zenon DEF NotClaimed
  <2>3. /\ x \in Locals /\ x.op = l.op /\ x.pc = "undo" /\ x.m = l.m /\ x.name = l.name
        /\ x.rec = l.rec /\ x.fresh = l.fresh
    BY <1>1, <2>1, ZenonT(60) DEF Locals
  <2>4. Belongs(p, x)
    BY <1>1, <1>2, <1>3, <2>3, Zenon DEF Belongs, ClaimSteps, MoveSteps, NamePass
  <2>5. Knows(recs, names, solid, x)
    BY <1>1, <1>2, <1>3, <2>3, Zenon DEF Knows, Claiming, ClaimSteps, MoveSteps
  <2>6. Continues(proc[p], x)
    BY <1>0, <1>1, <1>3, <2>3, Zenon DEF Continues, Claiming, ClaimSteps, MoveSteps
  <2> QED
    BY <2>2, <2>3, <2>4, <2>5, <2>6, ReadContinues, Zenon
<1>4. CASE l.op = "sweep" /\ why = "taken"
  <2>1. PICK x : x = [l EXCEPT !.pc = "rollback"]
    BY Zenon
  <2>2. Reads(p, x)
    BY <1>0, <1>4, <2>1, Zenon DEF NotClaimed
  <2>3. /\ x \in Locals /\ x.op = l.op /\ x.pc = "rollback" /\ x.m = l.m /\ x.rec = l.rec
        /\ x.fresh = l.fresh /\ x.todo = l.todo /\ x.held = l.held /\ x.settled = l.settled
    BY <1>1, <2>1, ZenonT(60) DEF Locals
  <2>4. l.pc \notin NamePass /\ x.pc \notin NamePass
    BY <1>1, <2>3, Zenon DEF ClaimSteps, NamePass
  <2>5. Belongs(p, x)
    BY <1>1, <1>2, <1>4, <2>3, <2>4, Zenon DEF Belongs, ClaimSteps, MoveSteps
  <2>6. Knows(recs, names, solid, x)
    BY <1>1, <1>4, <2>3, Zenon DEF Knows, Claiming, ClaimSteps, MoveSteps
  <2>7. Resumes(recs, names, l, recs, names, x)
    BY <1>4, <2>3, <2>4, SameRound, Zenon
  <2> QED
    BY <1>0, <2>2, <2>3, <2>5, <2>6, <2>7, ReadSweeps, Zenon
<1>5. CASE l.op = "sweep" /\ why # "taken"
  <2>1. Reads(p, IdleWorker)
    BY <1>0, <1>5, Zenon DEF NotClaimed
  <2> QED
    BY <2>1, ReadIdle, Zenon
<1> QED
  BY <1>3, <1>4, <1>5

(* claimName creates the key for the record that carries the name.         *)
LEMMA ClaimCreatesKeeps ==
  ASSUME BucketInv, NEW p \in Procs, ClaimCreates(p)
  PROVE  BucketInv'
<1>1. PICK l : l = proc[p]
  BY Zenon
<1>2. l \in Locals /\ Belongs(p, l) /\ Knows(recs, names, solid, l) /\ l.pc = "claim"
  BY <1>1, Own, Zenon DEF ClaimCreates
<1>3. l.m \in Machines /\ l.name \in RackNames /\ l.fresh \subseteq Machines \cup RackNames /\ l.pc \in ClaimSteps
  BY <1>2, LocalFields, Zenon DEF Belongs, ClaimSteps
<1>4. CASE names[l.name] = Nil
  BY <1>1, <1>3, <1>4, ClaimedKeeps, Zenon DEF ClaimCreates
<1>5. CASE names[l.name] # Nil
  <2>1. PICK x : x = [l EXCEPT !.pc = "claimGet"]
    BY Zenon
  <2>2. Reads(p, x)
    BY <1>1, <1>5, <2>1, Zenon DEF ClaimCreates
  <2>3. /\ x \in Locals /\ x.op = l.op /\ x.pc = "claimGet" /\ x.m = l.m /\ x.name = l.name /\ x.rec = l.rec
        /\ x.todo = l.todo /\ x.held = l.held /\ x.settled = l.settled /\ x.fresh = l.fresh
    BY <1>2, <2>1, ZenonT(60) DEF Locals
  <2>5. x.pc \in ClaimSteps
    BY <2>3, Zenon DEF ClaimSteps
  <2> QED
    BY <1>1, <1>3, <1>5, <2>2, <2>3, <2>5, ClaimContinues, Zenon
<1> QED
  BY <1>4, <1>5

(* It reads the key that exists,                                           *)
LEMMA ClaimGetsKeeps ==
  ASSUME BucketInv, NEW p \in Procs, ClaimGets(p)
  PROVE  BucketInv'
<1>1. PICK l : l = proc[p]
  BY Zenon
<1>2. l \in Locals /\ Belongs(p, l) /\ Knows(recs, names, solid, l) /\ l.pc = "claimGet"
  BY <1>1, Own, Zenon DEF ClaimGets
<1>3. l.m \in Machines /\ l.name \in RackNames /\ l.fresh \subseteq Machines \cup RackNames /\ l.pc \in ClaimSteps
  BY <1>2, LocalFields, Zenon DEF Belongs, ClaimSteps
<1>4. names[l.name] \in Machines \cup {Nil}
  BY <1>3, Own, Zenon
<1>5. CASE names[l.name] = Nil
  <2>1. Reads(p, NotClaimed(proc[p], "conflict"))
    BY <1>1, <1>3, <1>5, NameIsNoMachine, Zenon DEF ClaimGets
  <2> QED
    BY <1>1, <1>3, <2>1, NotClaimedKeeps, Zenon
<1>6. CASE names[l.name] = l.m
  <2>1. Reads(p, Claimed(proc[p]))
    BY <1>1, <1>3, <1>6, NameIsNoMachine, Zenon DEF ClaimGets
  <2> QED
    BY <1>1, <1>3, <2>1, ClaimedKeeps, Zenon
<1>7. CASE names[l.name] # Nil /\ names[l.name] # l.m
  <2>1. PICK x : x = [l EXCEPT !.pc = "claimCheck", !.holder = names[l.name], !.fresh = @ \cup {l.name}]
    BY Zenon
  <2>2. Reads(p, x)
    BY <1>1, <1>7, <2>1, Zenon DEF ClaimGets
  <2>3. /\ x \in Locals /\ x.op = l.op /\ x.pc = "claimCheck" /\ x.m = l.m /\ x.name = l.name /\ x.rec = l.rec
        /\ x.todo = l.todo /\ x.held = l.held /\ x.settled = l.settled /\ x.fresh = l.fresh \cup {l.name}
        /\ x.holder = names[l.name]
    <3>1. l.fresh \cup {l.name} \in SUBSET (Machines \cup RackNames)
      BY <1>3
    <3> QED
      BY <1>2, <1>4, <2>1, <3>1, ZenonT(60) DEF Locals
  <2>4. x.m \in x.fresh => l.m \in l.fresh
    BY <1>3, <2>3, NameIsNoMachine, Zenon
  <2>5. x.pc \in ClaimSteps
    BY <2>3, Zenon DEF ClaimSteps
  <2> QED
    BY <1>1, <1>3, <1>7, <2>2, <2>3, <2>5, <2>4, ClaimContinues, Zenon
<1> QED
  BY <1>5, <1>6, <1>7

(* looks whether the record of the holder carries the name,                *)
LEMMA ClaimChecksKeeps ==
  ASSUME BucketInv, NEW p \in Procs, ClaimChecks(p)
  PROVE  BucketInv'
<1>1. PICK l : l = proc[p]
  BY Zenon
<1>2. l \in Locals /\ Belongs(p, l) /\ Knows(recs, names, solid, l) /\ l.pc = "claimCheck"
  BY <1>1, Own, Zenon DEF ClaimChecks
<1>3. l.m \in Machines /\ l.name \in RackNames /\ l.fresh \subseteq Machines \cup RackNames /\ l.pc \in ClaimSteps
  BY <1>2, LocalFields, Zenon DEF Belongs, ClaimSteps
<1>4. CASE Carries(l.holder, l.name)
  <2>1. Reads(p, NotClaimed(proc[p], "taken"))
    BY <1>1, <1>4, Zenon DEF ClaimChecks
  <2> QED
    BY <1>1, <1>3, <2>1, NotClaimedKeeps, Zenon
<1>5. CASE ~Carries(l.holder, l.name)
  <2>1. PICK x : x = [l EXCEPT !.pc = "claimTake"]
    BY Zenon
  <2>2. Reads(p, x)
    BY <1>1, <1>5, <2>1, Zenon DEF ClaimChecks
  <2>3. /\ x \in Locals /\ x.op = l.op /\ x.pc = "claimTake" /\ x.m = l.m /\ x.name = l.name /\ x.rec = l.rec
        /\ x.todo = l.todo /\ x.held = l.held /\ x.settled = l.settled /\ x.fresh = l.fresh
    BY <1>2, <2>1, ZenonT(60) DEF Locals
  <2>4. l.name \in l.fresh => l.name \notin solid
    <3>1. l.name \in l.fresh => names[l.name] = l.holder
      BY <1>2, Zenon DEF Knows
    <3>2. Carried(recs, names, solid)
      BY Zenon DEF BucketInv
    <3> QED
      BY <1>5, <3>1, <3>2, Zenon DEF Carried, Carries
  <2>5. x.pc \in ClaimSteps
    BY <2>3, Zenon DEF ClaimSteps
  <2> QED
    BY <1>1, <1>3, <1>5, <2>2, <2>3, <2>5, <2>4, ClaimContinues, Zenon
<1> QED
  BY <1>4, <1>5

(* and takes over the key of one that does not.                            *)
LEMMA ClaimTakesKeeps ==
  ASSUME BucketInv, NEW p \in Procs, ClaimTakes(p)
  PROVE  BucketInv'
<1>1. PICK l : l = proc[p]
  BY Zenon
<1>2. l \in Locals /\ Belongs(p, l) /\ Knows(recs, names, solid, l) /\ l.pc = "claimTake"
  BY <1>1, Own, Zenon DEF ClaimTakes
<1>3. l.m \in Machines /\ l.name \in RackNames /\ l.fresh \subseteq Machines \cup RackNames /\ l.pc \in ClaimSteps
  BY <1>2, LocalFields, Zenon DEF Belongs, ClaimSteps
<1>4. CASE l.name \in l.fresh
  BY <1>1, <1>3, <1>4, ClaimedKeeps, Zenon DEF ClaimTakes
<1>5. CASE l.name \notin l.fresh
  <2>1. Reads(p, NotClaimed(proc[p], "conflict"))
    BY <1>1, <1>5, Zenon DEF ClaimTakes
  <2> QED
    BY <1>1, <1>3, <2>1, NotClaimedKeeps, Zenon
<1> QED
  BY <1>4, <1>5

(* The release of a name.                                                  *)
LEMMA ReleaseGetsKeeps ==
  ASSUME BucketInv, NEW p \in Procs, ReleaseGets(p)
  PROVE  BucketInv'
<1>1. PICK l : l = proc[p]
  BY Zenon
<1>2. l \in Locals /\ Belongs(p, l) /\ Knows(recs, names, solid, l) /\ l.pc = "release"
  BY <1>1, Own, Zenon DEF ReleaseGets
<1>3. /\ l.m \in Machines /\ l.op \in {"approve", "remove", "sweep"} /\ l.old \subseteq RackNames
      /\ l.pc \notin NamePass
  BY <1>2, LocalFields, Zenon DEF Belongs, NamePass
<1>4. CASE Reads(p, AfterRelease(l)) /\ l.op # "sweep"
  <2>1. Reads(p, IdleWorker)
    BY <1>4, Zenon DEF AfterRelease
  <2> QED
    BY <2>1, ReadIdle, Zenon
<1>5. CASE Reads(p, AfterRelease(l)) /\ l.op = "sweep"
  <2>1. PICK x : x = NextRecord(l)
    BY Zenon
  <2>2. Reads(p, x)
    BY <1>5, <2>1, Zenon DEF AfterRelease
  <2>3. /\ x \in Locals /\ x.op = "sweep" /\ x.pc = "records"
        /\ x.todo = l.todo /\ x.held = l.held /\ x.settled = l.settled
        /\ Belongs(p, x) /\ \A R, N, S : Knows(R, N, S, x)
    BY <1>2, <1>3, <1>5, <2>1, NextRecordFits, ZenonT(60)
  <2>4. x.pc \notin NamePass
    BY <2>3, Zenon DEF NamePass
  <2>5. Resumes(recs, names, l, recs, names, x)
    BY <1>3, <1>5, <2>3, <2>4, SameRound, Zenon
  <2> QED
    BY <1>1, <2>2, <2>3, <2>5, ReadSweeps, Zenon
<1>6. ASSUME NEW n \in l.old, names[n] = l.m,
             Reads(p, [l EXCEPT !.pc = "releaseDelete", !.name = n, !.fresh = {n}])
      PROVE  BucketInv'
  <2>1. PICK x : x = [l EXCEPT !.pc = "releaseDelete", !.name = n, !.fresh = {n}]
    BY Zenon
  <2>2. Reads(p, x)
    BY <1>6, <2>1, Zenon
  <2>3. n \in RackNames /\ n # l.m
    BY <1>3, NameIsNoMachine, Zenon
  <2>4. /\ x \in Locals /\ x.op = l.op /\ x.pc = "releaseDelete" /\ x.m = l.m /\ x.name = n
        /\ x.fresh = {n} /\ x.todo = l.todo /\ x.held = l.held /\ x.settled = l.settled
    BY <1>2, <2>1, <2>3, ZenonT(60) DEF Locals
  <2>5. x.pc \notin NamePass
    BY <2>4, Zenon DEF NamePass
  <2>6. Belongs(p, x)
    BY <1>2, <1>3, <2>3, <2>4, <2>5, Zenon DEF Belongs, ClaimSteps, MoveSteps
  <2>7. Knows(recs, names, solid, x)
    BY <1>3, <1>6, <2>4, Zenon DEF Knows, Claiming, ClaimSteps, MoveSteps
  <2>8. CASE l.op # "sweep"
    <3>1. Quiet(x)
      BY <2>3, <2>4, <2>8, Zenon DEF Quiet, Claiming, Restores, ClaimSteps, MoveSteps
    <3> QED
      BY <2>2, <2>4, <2>6, <2>7, <3>1, ReadQuiet, Zenon
  <2>9. CASE l.op = "sweep"
    <3>1. Resumes(recs, names, l, recs, names, x)
      BY <1>3, <2>4, <2>5, <2>9, SameRound, Zenon
    <3> QED
      BY <1>1, <2>2, <2>4, <2>6, <2>7, <3>1, ReadSweeps, Zenon
  <2> QED
    BY <2>8, <2>9
<1>7. ASSUME NEW n \in l.old, Reads(p, [l EXCEPT !.old = @ \ {n}])
      PROVE  BucketInv'
  <2>1. PICK x : x = [l EXCEPT !.old = @ \ {n}]
    BY Zenon
  <2>2. Reads(p, x)
    BY <1>7, <2>1, Zenon
  <2>3. /\ x \in Locals /\ x.op = l.op /\ x.pc = l.pc /\ x.m = l.m /\ x.name = l.name /\ x.rec = l.rec
        /\ x.fresh = l.fresh /\ x.todo = l.todo /\ x.held = l.held /\ x.settled = l.settled
    <3>1. l.old \ {n} \in SUBSET RackNames
      BY <1>3
    <3> QED
      BY <1>2, <2>1, <3>1, ZenonT(60) DEF Locals
  <2>4. Belongs(p, x)
    BY <1>2, <1>3, <2>3, Zenon DEF Belongs, ClaimSteps, MoveSteps
  <2>5. Knows(recs, names, solid, x)
    BY <1>2, <2>3, Zenon DEF Knows, Claiming, ClaimSteps, MoveSteps
  <2>6. CASE l.op # "sweep"
    <3>1. Continues(proc[p], x)
      BY <1>1, <2>3, <2>6, Zenon DEF Continues, Claiming
    <3> QED
      BY <2>2, <2>3, <2>4, <2>5, <3>1, ReadContinues, Zenon
  <2>7. CASE l.op = "sweep"
    <3>1. Resumes(recs, names, l, recs, names, x)
      BY <1>3, <2>3, <2>7, SameRound, Zenon
    <3> QED
      BY <1>1, <2>2, <2>3, <2>4, <2>5, <3>1, ReadSweeps, Zenon
  <2> QED
    BY <2>6, <2>7
<1> QED
  BY <1>1, <1>4, <1>5, <1>6, <1>7, Zenon DEF ReleaseGets

(* releaseName deletes the key while it points at the machine.             *)
LEMMA ReleaseDeletesKeeps ==
  ASSUME BucketInv, NEW p \in Procs, ReleaseDeletes(p)
  PROVE  BucketInv'
<1>1. PICK l : l = proc[p]
  BY Zenon
<1>2. l \in Locals /\ Belongs(p, l) /\ Knows(recs, names, solid, l) /\ l.pc = "releaseDelete"
  BY <1>1, Own, Zenon DEF ReleaseDeletes
<1>3. /\ l.m \in Machines /\ l.op \in {"approve", "remove", "sweep"} /\ l.old \subseteq RackNames
      /\ l.name \in RackNames /\ l.pc \notin NamePass
  BY <1>2, LocalFields, Zenon DEF Belongs, NamePass
<1>4. PICK x : x = [l EXCEPT !.pc = "release", !.old = @ \ {l.name}, !.fresh = {}]
  BY Zenon
<1>5. /\ x \in Locals /\ x.op = l.op /\ x.pc = "release" /\ x.m = l.m /\ x.name = l.name
      /\ x.fresh = {} /\ x.todo = l.todo /\ x.held = l.held /\ x.settled = l.settled
  <2>1. l.old \ {l.name} \in SUBSET RackNames
    BY <1>3
  <2> QED
    BY <1>2, <1>4, <2>1, ZenonT(60) DEF Locals
<1>6. x.pc \notin NamePass
  BY <1>5, Zenon DEF NamePass
<1>7. Belongs(p, x)
  BY <1>2, <1>3, <1>5, <1>6, Zenon DEF Belongs, ClaimSteps, MoveSteps
<1>8. \A R, N, S : Knows(R, N, S, x)
  BY <1>5, Zenon DEF Knows, Claiming, ClaimSteps, MoveSteps
<1>9. l.op # "sweep" => Quiet(x)
  BY <1>5, Zenon DEF Quiet, Claiming, Restores, ClaimSteps, MoveSteps
<1>10. CASE l.name \in l.fresh
  <2>1. WritesName(p, l.name, Nil, x)
    BY <1>1, <1>4, <1>10, Zenon DEF ReleaseDeletes
  <2>2. CASE l.op # "sweep"
    BY <1>3, <1>5, <1>7, <1>8, <1>9, <2>1, <2>2, NameQuiet, Zenon
  <2>3. CASE l.op = "sweep"
    <3>1. l.todo \subseteq Machines
      BY <1>2, <1>3, <2>3, Zenon DEF Belongs
    <3>2. \A i \in l.todo : \A c \in RackNames : names'[c] = i => names[c] = i
      BY <1>3, <2>1, <3>1, Own, RegistryAssumption DEF WritesName
    <3>3. Resumes(recs, names, l, recs, names', x)
      BY <1>3, <1>5, <1>6, <2>3, <3>2, SameRound, Zenon
    <3> QED
      BY <1>1, <1>3, <1>5, <1>7, <1>8, <2>1, <3>3, NameSweeps, Zenon
  <2> QED
    BY <2>2, <2>3
<1>11. CASE l.name \notin l.fresh
  <2>1. Reads(p, x)
    BY <1>1, <1>4, <1>11, Zenon DEF ReleaseDeletes
  <2>2. CASE l.op # "sweep"
    BY <1>5, <1>7, <1>8, <1>9, <2>1, <2>2, ReadQuiet, Zenon
  <2>3. CASE l.op = "sweep"
    <3>1. Resumes(recs, names, l, recs, names, x)
      BY <1>3, <1>5, <1>6, <2>3, SameRound, Zenon
    <3> QED
      BY <1>1, <1>5, <1>7, <1>8, <2>1, <3>1, ReadSweeps, Zenon
  <2> QED
    BY <2>2, <2>3
<1> QED
  BY <1>10, <1>11

-----------------------------------------------------------------------------
(* A record grows old only when nobody is at work on it, so that whoever   *)
(* has its revision has read it, or is not about to use it.                *)
LEMMA AgesKeeps ==
  ASSUME BucketInv, NEW m \in Machines, Ages(m)
  PROVE  BucketInv'
<1>1. /\ recs \in [Machines -> Records \cup {Nil}] /\ recs[m] \in Records /\ ~recs[m].aged
      /\ names' = names /\ solid' = solid /\ proc' = proc
  BY Zenon DEF BucketInv, BucketTypes, Ages, Present
<1>2. PICK r : r = [recs[m] EXCEPT !.aged = TRUE]
  BY Zenon
<1>3. r \in Records /\ r.name = recs[m].name /\ r # Nil
  <2>1. r \in Records /\ r.name = recs[m].name
    BY <1>1, <1>2, Zenon DEF Records
  <2> QED
    BY <2>1, RecordFields, Zenon
<1>4. recs' = [recs EXCEPT ![m] = r]
  BY <1>1, <1>2, Zenon DEF Ages
<1>5. /\ recs' \in [Machines -> Records \cup {Nil}] /\ recs'[m] = r
      /\ \A i \in Machines : i # m => recs'[i] = recs[i]
  BY <1>1, <1>3, <1>4
<1>6. \A i \in Machines : (recs'[i] = Nil <=> recs[i] = Nil) /\ (recs[i] # Nil => recs'[i].name = recs[i].name)
  BY <1>1, <1>3, <1>5, RecordFields, Zenon
<1>7. BucketTypes'
  BY <1>1, <1>5, Zenon DEF BucketInv, BucketTypes
<1>8. Carried(recs', names', solid')
  <2>1. \A n \in solid : names[n] \in Machines \cup {Nil}
    BY Zenon DEF BucketInv, BucketTypes
  <2> QED
    BY <1>1, <1>6, <2>1, Zenon DEF BucketInv, Carried
<1>9. ASSUME NEW q \in Procs, NEW i \in Machines, NEW c, Tracks(recs, names, proc[q], i, c)
      PROVE  Tracks(recs', names, proc[q], i, c)
  BY <1>6, <1>9, Zenon DEF Tracks
<1>10. ASSUME NEW q \in Procs
       PROVE  /\ Belongs(q, proc'[q]) /\ Knows(recs', names', solid', proc'[q])
              /\ Swept(recs', names', proc'[q])
  <2>1. PICK l : l = proc[q]
    BY Zenon
  <2>2. /\ l \in Locals /\ Belongs(q, l) /\ Knows(recs, names, solid, l) /\ Swept(recs, names, l)
        /\ proc'[q] = l
    BY <1>1, <2>1, Own, Zenon
  <2>3. q \in Workers => l.m # m
    BY <2>1, Zenon DEF Ages, WorksOn
  <2>4. q \in Sweepers /\ l.op = "sweep" => m \in l.settled
    BY <2>1, Zenon DEF Ages
  <2>5. l.m \in Machines \cup {Nil}
    BY <2>2, LocalFields, Zenon
  <2>6. Knows(recs', names, solid, l)
    <3>1. CASE l.op = "idle"
      BY <2>2, <3>1, IdleFits, Zenon DEF Belongs, Knows, Claiming, ClaimSteps, MoveSteps
    <3>2. CASE l.op \notin {"idle", "sweep"}
      <4>1. q \in Workers
        BY <2>2, <3>2, Zenon DEF Belongs
      <4>2. l.m \in Machines => recs'[l.m] = recs[l.m]
        BY <1>5, <2>3, <4>1, Zenon
      <4>3. l.op \in {"register", "status", "approve"} \/ Claiming(l) => l.m \in Machines
        BY <2>2, Zenon DEF Belongs, Claiming, ClaimSteps, MoveSteps
      <4> QED
        BY <2>2, <3>2, <4>2, <4>3, Zenon DEF Knows
    <3>3. CASE l.op = "sweep"
      <4>1. l.pc \in ClaimSteps \cup {"drop", "rollback"} => l.m \in Machines
        BY <2>2, Zenon DEF Belongs
      <4>2. l.m \in Machines /\ recs[l.m].aged => recs'[l.m] = recs[l.m]
        BY <1>1, <1>5, Zenon
      <4> QED
        BY <2>2, <3>3, <4>1, <4>2, Zenon DEF Knows, Claiming
    <3> QED
      BY <3>1, <3>2, <3>3, Zenon
  <2>7. Swept(recs', names, l)
    <3> SUFFICES ASSUME NEW i \in Machines, recs'[i] # Nil, recs'[i].name \in RackNames,
                        recs'[i].aged \/ i \in l.settled
                 PROVE  Tracks(recs', names, l, i, recs'[i].name)
      BY Zenon DEF Swept
    <3>1. recs[i] # Nil /\ recs[i].name = recs'[i].name
      BY <1>6, Zenon
    <3>2. CASE recs[i].aged \/ i \in l.settled
      <4>1. Tracks(recs, names, l, i, recs[i].name)
        BY <2>2, <3>1, <3>2, Zenon DEF Swept
      <4> QED
        BY <1>9, <2>1, <3>1, <4>1, Zenon
    <3>3. CASE i = m /\ m \notin l.settled
      <4>1. l.op # "sweep"
        BY <2>2, <2>4, <3>3, Zenon DEF Belongs
      <4> QED
        BY <4>1, Zenon DEF Tracks, Pending
    <3> QED
      BY <1>5, <3>2, <3>3, Zenon
  <2> QED
    BY <1>1, <2>2, <2>6, <2>7, Zenon
<1>11. ASSUME NEW q1 \in Procs, NEW q2 \in Procs, q1 # q2
       PROVE  Apart(recs', names', proc'[q1], proc'[q2])
  <2>1. PICK l, k : l = proc[q1] /\ k = proc[q2]
    BY Zenon
  <2>2. k \in Locals /\ Belongs(q2, k) /\ Apart(recs, names, l, k) /\ proc'[q1] = l /\ proc'[q2] = k
    BY <1>1, <1>11, <2>1, Own, Zenon DEF BucketInv
  <2>3. Renaming(k) => k.m \in Machines
    BY <2>2, Zenon DEF Renaming, Restores, Belongs
  <2>4. Apart(recs', names, l, k)
    BY <1>9, <2>1, <2>2, <2>3, Zenon DEF Apart
  <2> QED
    BY <1>1, <2>2, <2>4, Zenon
<1> QED
  BY <1>7, <1>8, <1>10, <1>11, Zenon DEF BucketInv

-----------------------------------------------------------------------------
(* The invariant, and that the secrets are of the bound.                   *)
RegistryInv == BucketInv /\ issued \subseteq Secrets /\ answered \subseteq Secrets

(* The invariant holds at the start,                                       *)
LEMMA RegistryStart ==
  ASSUME RegistryInit
  PROVE  RegistryInv
<1>1. /\ names \in [RackNames -> Machines \cup {Nil}] /\ proc = [p \in Procs |-> IdleWorker]
      /\ \A n1, n2 \in RackNames : names[n1] = names[n2] /\ names[n1] # Nil => n1 = n2
      /\ issued = {recs[m].secret : m \in {x \in Machines : recs[x] # Nil}} /\ answered = issued
      /\ solid = {n \in RackNames : names[n] # Nil /\ recs[names[n]] # Nil}
  BY Zenon DEF RegistryInit
<1>2. PICK s \in [Machines -> Secrets], live \in SUBSET {names[n] : n \in RackNames} :
        /\ \A x, y \in Machines : s[x] = s[y] => x = y
        /\ recs = [m \in Machines |->
             IF m \in live
             THEN [name |-> CHOOSE n \in RackNames : names[n] = m, status |-> "active",
                   secret |-> s[m], aged |-> TRUE]
             ELSE Nil]
  BY Zenon DEF RegistryInit
<1>3. ASSUME NEW m \in Machines, recs[m] # Nil
      PROVE  /\ recs[m] \in Records /\ recs[m].name \in RackNames /\ names[recs[m].name] = m
             /\ recs[m].secret \in Secrets
  <2>1. m \in live
    BY <1>2, <1>3, Zenon
  <2>2. PICK n : n = CHOOSE x \in RackNames : names[x] = m
    BY Zenon
  <2>3. n \in RackNames /\ names[n] = m
    <3>1. \E x \in RackNames : names[x] = m
      BY <2>1, Zenon
    <3> QED
      BY <2>2, <3>1, Zenon
  <2>4. recs[m] = [name |-> n, status |-> "active", secret |-> s[m], aged |-> TRUE]
    BY <1>2, <2>1, <2>2, Zenon
  <2>5. s[m] \in Secrets /\ "active" \in RecordStatuses
    BY <1>2 DEF RecordStatuses
  <2>6. PICK v : v = [name |-> n, status |-> "active", secret |-> s[m], aged |-> TRUE]
    BY Zenon
  <2>7. v.name = n /\ v.secret = s[m] /\ v \in Records
    BY <2>3, <2>5, <2>6, Zenon DEF Records
  <2> QED
    BY <2>3, <2>4, <2>5, <2>6, <2>7, Zenon
<1>4. recs \in [Machines -> Records \cup {Nil}]
  <2>1. recs = [m \in Machines |-> recs[m]]
    BY <1>2, Zenon
  <2> QED
    BY <1>3, <2>1, Zenon
<1>5. proc \in [Procs -> Locals] /\ \A p \in Procs : proc[p] = IdleWorker
  BY <1>1, IdleFits, Zenon
<1>6. BucketTypes
  BY <1>1, <1>4, <1>5, Zenon DEF BucketTypes
<1>7. Carried(recs, names, solid)
  BY <1>1, <1>3, RegistryAssumption, Zenon DEF Carried
<1>8. Quiet(IdleWorker) /\ Knows(recs, names, solid, IdleWorker)
  BY IdleFits, PlainIsQuiet, Zenon
<1>9. Swept(recs, names, IdleWorker) /\ Apart(recs, names, IdleWorker, IdleWorker)
  BY <1>8, QuietIsApart, Zenon
<1>10. BucketInv
  BY <1>5, <1>6, <1>7, <1>8, <1>9, IdleFits, Zenon DEF BucketInv
<1>11. issued \subseteq Secrets
  BY <1>1, <1>3, Zenon
<1> QED
  BY <1>1, <1>10, <1>11, Zenon DEF RegistryInv

(* A process keeps the invariant with its next call.                       *)
LEMMA ProceedsKeeps ==
  ASSUME BucketInv, issued \subseteq Secrets, NEW p \in Procs, Proceeds(p)
  PROVE  BucketInv'
<1>1. CASE RegisterStep(p)
  BY <1>1, RegisterGetsKeeps, RegisterResolvesKeeps, RegisterReadsHolderKeeps, RegisterCreatesKeeps,
     AdoptGetsKeeps, AdoptCopiesKeeps, AdoptReadsNameKeeps, AdoptMovesNameKeeps, AdoptDropsOldKeeps,
     Zenon DEF RegisterStep
<1>2. CASE ApproveStep(p)
  BY <1>2, ApproveGetsKeeps, ApproveResolvesKeeps, ApproveReadsHolderKeeps, ApproveUpdatesKeeps,
     Zenon DEF ApproveStep
<1>3. CASE RemoveStep(p)
  BY <1>3, RemoveResolvesKeeps, RemoveReadsHolderKeeps, RemoveGetsKeeps, RemoveDeletesKeeps,
     Zenon DEF RemoveStep
<1>4. CASE NameStep(p)
  BY <1>4, ClaimCreatesKeeps, ClaimGetsKeeps, ClaimChecksKeeps, ClaimTakesKeeps, UndoesKeeps,
     ReleaseGetsKeeps, ReleaseDeletesKeeps, Zenon DEF NameStep
<1>5. CASE SweepStep(p)
  BY <1>5, SweepGetsNameKeeps, SweepReadsRecordKeeps, SweepDeletesNameKeeps, SweepListsKeeps,
     SweepGetsRecordKeeps, SweepDropsKeeps, SweepRollsBackKeeps, SweepEndsKeeps, Zenon DEF SweepStep
<1>6. CASE StatusGets(p) \/ Updates(p)
  BY <1>6, StatusGetsKeeps, UpdatesKeeps, Zenon
<1> QED
  BY <1>1, <1>2, <1>3, <1>4, <1>5, <1>6, Zenon DEF Proceeds

(* The secrets that are given out are those of records.                    *)
LEMMA SecretsKept ==
  ASSUME BucketInv, issued \subseteq Secrets, answered \subseteq Secrets, NEW p \in Procs, Proceeds(p)
  PROVE  issued' \subseteq Secrets /\ answered' \subseteq Secrets
<1>1. CASE RegisterCreates(p)
  <2>1. CASE UNCHANGED given
    BY <2>1, Zenon DEF given
  <2>2. CASE /\ issued # Secrets
             /\ \E s : /\ s = CHOOSE x \in Secrets \ issued : TRUE
                       /\ issued' = issued \cup {s} /\ (answered' = answered \cup {s} \/ answered' = answered)
    <3>1. PICK s : /\ s = CHOOSE x \in Secrets \ issued : TRUE
                   /\ issued' = issued \cup {s} /\ (answered' = answered \cup {s} \/ answered' = answered)
      BY <2>2, Zenon
    <3>2. \E x : x \in Secrets \ issued
      BY <2>2
    <3>3. s \in Secrets
      BY <3>1, <3>2, Zenon
    <3> QED
      BY <3>1, <3>3, Zenon
  <2> QED
    BY <1>1, <2>1, <2>2, Zenon DEF RegisterCreates
<1>2. CASE ClaimCreates(p) \/ ClaimGets(p) \/ ClaimTakes(p)
  <2>1. proc[p].rec \in Records
    <3>1. proc[p].pc \in ClaimSteps
      BY <1>2, Zenon DEF ClaimCreates, ClaimGets, ClaimTakes, ClaimSteps
    <3> QED
      BY <3>1, Own, LocalFields, Zenon DEF Knows
  <2>2. proc[p].rec.secret \in Secrets
    BY <2>1, RecordFields, Zenon
  <2>3. issued' = issued /\ (Answers(proc[p]) \/ answered' = answered)
    BY <1>2, Zenon DEF ClaimCreates, ClaimGets, ClaimTakes
  <2> QED
    BY <2>2, <2>3, Zenon DEF Answers
<1>3. CASE UNCHANGED given
  BY <1>3, Zenon DEF given
<1>4. RegisterStep(p) => RegisterCreates(p) \/ UNCHANGED given
  BY Zenon DEF RegisterStep, RegisterGets, RegisterResolves, RegisterReadsHolder, AdoptGets, AdoptCopies,
     AdoptReadsName, AdoptMovesName, AdoptDropsOld, given
<1>5. ApproveStep(p) \/ RemoveStep(p) \/ StatusGets(p) \/ Updates(p) => UNCHANGED given
  BY Zenon DEF ApproveStep, ApproveGets, ApproveResolves, ApproveReadsHolder, ApproveUpdates, RemoveStep,
     RemoveResolves, RemoveReadsHolder, RemoveGets, RemoveDeletes, StatusGets, Updates, given
<1>6. NameStep(p) => ClaimCreates(p) \/ ClaimGets(p) \/ ClaimTakes(p) \/ UNCHANGED given
  BY Zenon DEF NameStep, ClaimChecks, Undoes, ReleaseGets, ReleaseDeletes, given
<1>7. SweepStep(p) => UNCHANGED given
  BY Zenon DEF SweepStep, SweepGetsName, SweepReadsRecord, SweepDeletesName, SweepLists,
     SweepGetsRecord, SweepDrops, SweepRollsBack, SweepEnds, given
<1> QED
  BY <1>1, <1>2, <1>3, <1>4, <1>5, <1>6, <1>7, Zenon DEF Proceeds

(* and every call of every process keeps it.                               *)
LEMMA RegistryStep ==
  ASSUME RegistryInv, [RegistryNext]_regVars
  PROVE  RegistryInv'
<1>1. ASSUME NEW p \in Procs,
             BeginRegister(p) \/ BeginApprove(p) \/ BeginRemove(p) \/ BeginStatus(p)
      PROVE  RegistryInv'
  <2>1. issued' = issued /\ answered' = answered
    BY <1>1, Zenon DEF BeginRegister, BeginApprove, BeginRemove, BeginStatus, given
  <2> QED
    BY <1>1, <2>1, BeginKeeps, Zenon DEF RegistryInv
<1>2. ASSUME NEW p \in Procs, BeginSweep(p) \/ RegistryCrash(p)
      PROVE  RegistryInv'
  <2>1. issued' = issued /\ answered' = answered
    BY <1>2, Zenon DEF BeginSweep, RegistryCrash, given
  <2> QED
    BY <1>2, <2>1, BeginSweepKeeps, SweepEndsKeeps, Zenon DEF RegistryInv
<1>3. ASSUME NEW p \in Procs, Proceeds(p)
      PROVE  RegistryInv'
  BY <1>3, ProceedsKeeps, SecretsKept, Zenon DEF RegistryInv
<1>4. ASSUME NEW m \in Machines, Ages(m)
      PROVE  RegistryInv'
  <2>1. issued' = issued /\ answered' = answered
    BY <1>4, Zenon DEF Ages, given
  <2> QED
    BY <1>4, <2>1, AgesKeeps, Zenon DEF RegistryInv
<1>5. CASE UNCHANGED regVars
  <2>1. /\ recs' = recs /\ names' = names /\ solid' = solid /\ proc' = proc
        /\ issued' = issued /\ answered' = answered
    BY <1>5, Zenon DEF regVars
  <2>2. BucketInv'
    BY <2>1, Zenon DEF RegistryInv, BucketInv, BucketTypes
  <2> QED
    BY <2>1, <2>2, Zenon DEF RegistryInv
<1> QED
  BY <1>1, <1>2, <1>3, <1>4, <1>5, Zenon DEF RegistryNext

-----------------------------------------------------------------------------
(* Who may end the hold of machine m on its name.                          *)
MayEnd(p, m) ==
  \/ /\ proc[p].m = m
     /\ proc[p].op \in {"approve", "remove"} \/ proc[p].pc \in {"undo", "releaseDelete"}
  \/ /\ p \in Workers /\ proc[p].holder = m
     /\ proc[p].pc \in {"moveUpdate", "dropOld"}
     /\ proc[p].secret = proc[p].rec.secret

NamesHeld ==
  \A n \in solid :
    \/ names'[n] = names[n] /\ n \in solid'
    \/ \E p \in Procs : proc'[p] # proc[p] /\ MayEnd(p, names[n])

(* A call that leaves the name keys alone takes no name away.              *)
LEMMA UnwrittenHeld ==
  ASSUME names' = names, solid' = solid
  PROVE  NamesHeld
BY Zenon DEF NamesHeld

(* A write of a record takes names only from its machine: none if the      *)
(* record was not there, keeps its name, or did not have it.               *)
LEMMA RecordHeld ==
  ASSUME BucketInv, NEW p \in Procs, NEW m \in Machines, NEW r, NEW next, WritesRecord(p, m, r, next),
         \/ recs[m] = Nil
         \/ r # Nil /\ r.name = recs[m].name
         \/ names[recs[m].name] # m
         \/ next # proc[p] /\ MayEnd(p, m)
  PROVE  NamesHeld
<1>1. names' = names /\ solid' = {n \in solid : names[n] = m => r # Nil /\ r.name = n}
  BY Zenon DEF WritesRecord
<1>2. proc'[p] = next
  BY Zenon DEF WritesRecord, WithoutRevision
<1>3. ASSUME NEW n \in solid, names[n] = m
      PROVE  recs[m] # Nil /\ recs[m].name = n
  BY <1>3, Zenon DEF BucketInv, Carried
<1> SUFFICES ASSUME NEW n \in solid
             PROVE  \/ names'[n] = names[n] /\ n \in solid'
                    \/ \E q \in Procs : proc'[q] # proc[q] /\ MayEnd(q, names[n])
  BY Zenon DEF NamesHeld
<1>4. CASE names[n] # m
  BY <1>1, <1>4, Zenon
<1>5. CASE names[n] = m
  BY <1>1, <1>2, <1>3, <1>5, Zenon
<1> QED
  BY <1>4, <1>5

(* One that writes a key takes none away if the key was of no record that  *)
(* carries the name, or if the call may end the hold.                      *)
LEMMA NameHeld ==
  ASSUME BucketInv, NEW p \in Procs, NEW n \in RackNames, NEW v, NEW next, WritesName(p, n, v, next),
         n \notin solid \/ (next # proc[p] /\ MayEnd(p, names[n]))
  PROVE  NamesHeld
<1>1. proc'[p] = next
  BY Zenon DEF WritesName, WithoutRevision
<1>2. ASSUME NEW c \in solid, c # n
      PROVE  names'[c] = names[c] /\ c \in solid'
  <2>1. c \in RackNames /\ names \in [RackNames -> Machines \cup {Nil}]
    BY Zenon DEF BucketInv, BucketTypes
  <2>2. names'[c] = names[c]
    BY <1>2, <2>1 DEF WritesName
  <2>3. c \in solid'
    BY <1>2, Zenon DEF WritesName
  <2> QED
    BY <2>2, <2>3
<1> QED
  BY <1>1, <1>2, Zenon DEF NamesHeld

(* No call of a registration takes a name away, but for an adoption with   *)
(* the secret of the holder,                                               *)
LEMMA RegisterHeld ==
  ASSUME BucketInv, NEW p \in Procs, RegisterStep(p) \/ Updates(p)
  PROVE  NamesHeld
<1>1. PICK l : l = proc[p]
  BY Zenon
<1>2. l \in Locals /\ Belongs(p, l) /\ Knows(recs, names, solid, l) /\ Carried(recs, names, solid)
  BY <1>1, Own, Zenon DEF BucketInv
<1>3. CASE \E x : Reads(p, x)
  BY <1>3, UnwrittenHeld, Zenon DEF Reads
<1>4. CASE \E r, x : WritesRecord(p, l.m, r, x) /\ recs[l.m] = Nil /\ l.m \in Machines
  BY <1>4, RecordHeld, Zenon
<1>5. CASE Updates(p) /\ l.m \in l.fresh
  <2>1. l.m \in Machines /\ l.rec # Nil /\ recs[l.m].name = l.rec.name /\ WritesRecord(p, l.m, l.rec, IdleWorker)
    BY <1>1, <1>2, <1>5, Zenon DEF Updates, Belongs, Knows
  <2> QED
    BY <2>1, RecordHeld, Zenon
<1>6. CASE AdoptMovesName(p) /\ \E x : WritesName(p, l.name, l.m, x)
  <2>1. PICK x : x = [l EXCEPT !.pc = "dropOld"]
    BY Zenon
  <2>2. /\ l.name \in RackNames /\ p \in Workers /\ l.op = "register" /\ l.pc \in {"moveCreate", "moveUpdate"}
        /\ l.secret = l.rec.secret /\ l.holder \in Machines
    BY <1>1, <1>2, <1>6, Zenon DEF AdoptMovesName, Belongs, Knows, MoveSteps
  <2>3. x.pc = "dropOld"
    BY <1>2, <2>1, ZenonT(60) DEF Locals
  <2>4. x # l
    BY <2>2, <2>3, Zenon
  <2>5. CASE l.pc = "moveCreate" /\ names[l.name] = Nil
    <3>1. WritesName(p, l.name, l.m, x) /\ l.name \notin solid
      BY <1>1, <1>2, <1>6, <2>1, <2>5, Zenon DEF AdoptMovesName, Carried
    <3> QED
      BY <2>2, <3>1, NameHeld, Zenon
  <2>6. CASE l.pc = "moveUpdate" /\ l.name \in l.fresh
    <3>1. WritesName(p, l.name, l.m, x)
      BY <1>1, <1>6, <2>1, <2>6, Zenon DEF AdoptMovesName
    <3>2. names[l.name] = l.holder
      BY <1>2, <2>6, Zenon DEF Knows
    <3>3. MayEnd(p, names[l.name])
      BY <1>1, <2>2, <2>6, <3>2, Zenon DEF MayEnd
    <3> QED
      BY <1>1, <2>2, <2>4, <3>1, <3>3, NameHeld, Zenon
  <2>7. CASE ~(l.pc = "moveCreate" /\ names[l.name] = Nil) /\ ~(l.pc = "moveUpdate" /\ l.name \in l.fresh)
    <3>1. \E y : Reads(p, y)
      BY <1>1, <1>6, <2>7, Zenon DEF AdoptMovesName
    <3> QED
      BY <1>3, <3>1
  <2> QED
    BY <2>5, <2>6, <2>7
<1>7. CASE AdoptDropsOld(p) /\ l.holder \in l.fresh
  <2>1. /\ l.op = "register" /\ l.pc = "dropOld" /\ p \in Workers /\ l.secret = l.rec.secret
        /\ WritesRecord(p, l.holder, Nil, IdleWorker)
    BY <1>1, <1>2, <1>7, Zenon DEF AdoptDropsOld, At, Belongs, Knows
  <2>2. l.holder \in Machines
    <3>1. l.holder \in Machines \cup {Nil} /\ l.fresh \subseteq Machines \cup RackNames
      BY <1>2, LocalFields, Zenon
    <3> QED
      BY <1>7, <3>1, RegistryAssumption
  <2>3. MayEnd(p, l.holder)
    BY <1>1, <2>1, Zenon DEF MayEnd
  <2>4. IdleWorker # l
    BY <2>1, IdleFits, Zenon
  <2> QED
    BY <1>1, <2>1, <2>2, <2>3, <2>4, RecordHeld, Zenon
<1>8. CASE RegisterGets(p) \/ RegisterResolves(p) \/ RegisterReadsHolder(p) \/ AdoptGets(p) \/ AdoptReadsName(p)
  <2>1. \E x : Reads(p, x)
    BY <1>8, Zenon DEF RegisterGets, RegisterResolves, RegisterReadsHolder, AdoptGets, AdoptReadsName
  <2> QED
    BY <1>3, <2>1
<1>9. CASE RegisterCreates(p) \/ AdoptCopies(p)
  <2>1. l.op = "register"
    BY <1>1, <1>9, Zenon DEF RegisterCreates, AdoptCopies, At
  <2>2. l.m \in Machines
    BY <1>2, <2>1, Zenon DEF Belongs
  <2>3. (\E x : Reads(p, x)) \/ \E r, x : WritesRecord(p, l.m, r, x) /\ recs[l.m] = Nil
    BY <1>1, <1>9, Zenon DEF RegisterCreates, AdoptCopies
  <2> QED
    BY <1>3, <1>4, <2>2, <2>3, Zenon
<1>10. CASE Updates(p) /\ l.m \notin l.fresh
  <2>1. \E x : Reads(p, x)
    BY <1>1, <1>10, Zenon DEF Updates
  <2> QED
    BY <1>3, <2>1
<1>11. CASE AdoptMovesName(p) /\ ~\E x : WritesName(p, l.name, l.m, x)
  <2>1. \E x : Reads(p, x)
    BY <1>1, <1>11, Zenon DEF AdoptMovesName
  <2> QED
    BY <1>3, <2>1
<1>12. CASE AdoptDropsOld(p) /\ l.holder \notin l.fresh
  <2>1. \E x : Reads(p, x)
    BY <1>1, <1>12, Zenon DEF AdoptDropsOld
  <2> QED
    BY <1>3, <2>1
<1> QED
  BY <1>5, <1>6, <1>7, <1>8, <1>9, <1>10, <1>11, <1>12, Zenon DEF RegisterStep

(* none of an approval, a removal or a change of status,                   *)
LEMMA ApproveRemoveHeld ==
  ASSUME BucketInv, NEW p \in Procs, ApproveStep(p) \/ RemoveStep(p) \/ StatusGets(p)
  PROVE  NamesHeld
<1>1. PICK l : l = proc[p]
  BY Zenon
<1>2. l \in Locals /\ Belongs(p, l)
  BY <1>1, Own, Zenon
<1>3. CASE \E x : Reads(p, x)
  BY <1>3, UnwrittenHeld, Zenon DEF Reads
<1>4. ASSUME NEW r, NEW x, WritesRecord(p, l.m, r, x), x # l, l.op \in {"approve", "remove"}
      PROVE  NamesHeld
  <2>1. l.m \in Machines
    BY <1>2, <1>4, Zenon DEF Belongs
  <2>2. MayEnd(p, l.m)
    BY <1>1, <1>4, Zenon DEF MayEnd
  <2> QED
    BY <1>1, <1>4, <2>1, <2>2, RecordHeld, Zenon
<1>5. CASE ApproveUpdates(p)
  <2>1. l.op = "approve" /\ l.pc = "update"
    BY <1>1, <1>5, Zenon DEF ApproveUpdates, At
  <2>2. PICK y : y = [l EXCEPT !.pc = "claim"]
    BY Zenon
  <2>3. y.pc = "claim"
    BY <1>2, <2>2, ZenonT(60) DEF Locals
  <2>4. y # l /\ IdleWorker # l
    BY <2>1, <2>3, IdleFits, Zenon
  <2>5. (\E x : Reads(p, x)) \/ (\E r : WritesRecord(p, l.m, r, IdleWorker)) \/ (\E r : WritesRecord(p, l.m, r, y))
    BY <1>1, <1>5, <2>2, Zenon DEF ApproveUpdates
  <2> QED
    BY <1>3, <1>4, <2>1, <2>4, <2>5, Zenon
<1>6. CASE RemoveDeletes(p)
  <2>1. l.op = "remove" /\ l.pc = "delete"
    BY <1>1, <1>6, Zenon DEF RemoveDeletes, At
  <2>2. PICK y : y = [l EXCEPT !.pc = "release", !.fresh = {}]
    BY Zenon
  <2>3. y.pc = "release"
    BY <1>2, <2>2, ZenonT(60) DEF Locals
  <2>4. y # l
    BY <2>1, <2>3, Zenon
  <2>5. (\E x : Reads(p, x)) \/ WritesRecord(p, l.m, Nil, y)
    BY <1>1, <1>6, <2>2, Zenon DEF RemoveDeletes
  <2> QED
    BY <1>3, <1>4, <2>1, <2>4, <2>5, Zenon
<1>7. CASE ~ApproveUpdates(p) /\ ~RemoveDeletes(p)
  <2>1. \E x : Reads(p, x)
    BY <1>7, Zenon DEF ApproveStep, ApproveGets, ApproveResolves, ApproveReadsHolder,
       RemoveStep, RemoveResolves, RemoveReadsHolder, RemoveGets, StatusGets
  <2> QED
    BY <1>3, <2>1
<1> QED
  BY <1>5, <1>6, <1>7

(* none that claims, releases or rolls back a name,                        *)
LEMMA NameStepHeld ==
  ASSUME BucketInv, NEW p \in Procs, NameStep(p)
  PROVE  NamesHeld
<1>1. PICK l : l = proc[p]
  BY Zenon
<1>2. l \in Locals /\ Belongs(p, l) /\ Knows(recs, names, solid, l) /\ Carried(recs, names, solid)
  BY <1>1, Own, Zenon DEF BucketInv
<1>3. CASE \E x : Reads(p, x)
  BY <1>3, UnwrittenHeld, Zenon DEF Reads
<1>4. CASE ClaimCreates(p) /\ names[l.name] = Nil
  <2>1. l.pc = "claim" /\ WritesName(p, l.name, l.m, Claimed(l))
    BY <1>1, <1>4, Zenon DEF ClaimCreates
  <2>2. l.name \in RackNames /\ l.name \notin solid
    BY <1>2, <1>4, <2>1, Zenon DEF Belongs, ClaimSteps, Carried
  <2> QED
    BY <2>1, <2>2, NameHeld, Zenon
<1>5. CASE ClaimTakes(p) /\ l.name \in l.fresh
  <2>1. l.pc = "claimTake" /\ WritesName(p, l.name, l.m, Claimed(l))
    BY <1>1, <1>5, Zenon DEF ClaimTakes
  <2>2. l.name \in RackNames /\ l.name \notin solid
    BY <1>2, <1>5, <2>1, Zenon DEF Belongs, ClaimSteps, Knows
  <2> QED
    BY <2>1, <2>2, NameHeld, Zenon
<1>6. CASE Undoes(p) /\ l.m \in l.fresh
  <2>1. PICK x : x = IF l.err = "conflict" THEN Again(l) ELSE IdleWorker
    BY Zenon
  <2>2. l.pc = "undo" /\ \E r : WritesRecord(p, l.m, r, x)
    BY <1>1, <1>6, <2>1, Zenon DEF Undoes
  <2>3. l.op \in {"register", "approve"}
    BY <1>2, <2>2, Zenon DEF Belongs
  <2>4. l.m \in Machines /\ MayEnd(p, l.m)
    BY <1>1, <1>2, <2>2, <2>3, Zenon DEF Belongs, MayEnd
  <2>5. x # l
    <3>1. Plain(x)
      BY <1>2, <2>1, <2>3, AgainFits, IdleFits, Zenon
    <3> QED
      BY <2>2, <3>1, Zenon DEF Plain
  <2> QED
    BY <1>1, <2>2, <2>4, <2>5, RecordHeld, Zenon
<1>7. CASE ReleaseDeletes(p) /\ l.name \in l.fresh
  <2>1. PICK x : x = [l EXCEPT !.pc = "release", !.old = @ \ {l.name}, !.fresh = {}]
    BY Zenon
  <2>2. l.pc = "releaseDelete" /\ WritesName(p, l.name, Nil, x)
    BY <1>1, <1>7, <2>1, Zenon DEF ReleaseDeletes
  <2>3. l.name \in RackNames /\ names[l.name] = l.m
    BY <1>2, <1>7, <2>2, Zenon DEF Belongs, Knows
  <2>4. MayEnd(p, names[l.name])
    BY <1>1, <2>2, <2>3, Zenon DEF MayEnd
  <2>5. x.pc = "release"
    BY <1>2, <2>1, ZenonT(60) DEF Locals
  <2>6. x # l
    BY <2>2, <2>5, Zenon
  <2> QED
    BY <1>1, <2>2, <2>3, <2>4, <2>6, NameHeld, Zenon
<1>8. CASE /\ ~(ClaimCreates(p) /\ names[l.name] = Nil) /\ ~(ClaimTakes(p) /\ l.name \in l.fresh)
           /\ ~(Undoes(p) /\ l.m \in l.fresh) /\ ~(ReleaseDeletes(p) /\ l.name \in l.fresh)
  <2>1. ClaimCreates(p) \/ ClaimTakes(p) => \E x : Reads(p, x)
    BY <1>1, <1>8, Zenon DEF ClaimCreates, ClaimTakes
  <2>2. ClaimGets(p) \/ ClaimChecks(p) \/ ReleaseGets(p) => \E x : Reads(p, x)
    BY Zenon DEF ClaimGets, ClaimChecks, ReleaseGets
  <2>3. Undoes(p) \/ ReleaseDeletes(p) => \E x : Reads(p, x)
    BY <1>1, <1>8, Zenon DEF Undoes, ReleaseDeletes
  <2> QED
    BY <1>3, <2>1, <2>2, <2>3, Zenon DEF NameStep
<1> QED
  BY <1>4, <1>5, <1>6, <1>7, <1>8

(* and none of the sweep,                                                  *)
LEMMA SweepStepHeld ==
  ASSUME BucketInv, NEW p \in Procs, SweepStep(p)
  PROVE  NamesHeld
<1>1. PICK l : l = proc[p]
  BY Zenon
<1>2. l \in Locals /\ Belongs(p, l) /\ Knows(recs, names, solid, l)
  BY <1>1, Own, Zenon
<1>3. CASE \E x : Reads(p, x)
  BY <1>3, UnwrittenHeld, Zenon DEF Reads
<1>4. CASE SweepDeletesName(p) /\ l.name \in l.fresh
  <2>1. l.pc = "nameDelete" /\ \E x : WritesName(p, l.name, Nil, x)
    BY <1>1, <1>4, Zenon DEF SweepDeletesName, At
  <2>2. l.name \in RackNames /\ l.name \notin solid
    BY <1>2, <1>4, <2>1, Zenon DEF Belongs, Knows
  <2> QED
    BY <2>1, <2>2, NameHeld, Zenon
<1>5. CASE (SweepDrops(p) \/ SweepRollsBack(p)) /\ l.m \in l.fresh
  <2>1. l.op = "sweep" /\ l.pc \in {"drop", "rollback"} /\ \E r, x : WritesRecord(p, l.m, r, x)
    BY <1>1, <1>5, Zenon DEF SweepDrops, SweepRollsBack, At
  <2>2. l.m \in Machines /\ names[recs[l.m].name] # l.m
    BY <1>2, <1>5, <2>1, Zenon DEF Belongs, Knows
  <2> QED
    BY <2>1, <2>2, RecordHeld, Zenon
<1>6. CASE /\ ~(SweepDeletesName(p) /\ l.name \in l.fresh)
           /\ ~((SweepDrops(p) \/ SweepRollsBack(p)) /\ l.m \in l.fresh)
  <2>1. SweepDeletesName(p) \/ SweepDrops(p) \/ SweepRollsBack(p) => \E x : Reads(p, x)
    BY <1>1, <1>6, Zenon DEF SweepDeletesName, SweepDrops, SweepRollsBack
  <2>2. SweepGetsName(p) \/ SweepReadsRecord(p) \/ SweepLists(p) => \E x : Reads(p, x)
    BY Zenon DEF SweepGetsName, SweepReadsRecord, SweepLists
  <2>3. SweepGetsRecord(p) \/ SweepEnds(p) => \E x : Reads(p, x)
    BY Zenon DEF SweepGetsRecord, SweepEnds
  <2> QED
    BY <1>3, <2>1, <2>2, <2>3, Zenon DEF SweepStep
<1> QED
  BY <1>4, <1>5, <1>6

(* so no step takes a name away.                                           *)
LEMMA StepHolds ==
  ASSUME RegistryInv, [RegistryNext]_regVars
  PROVE  NamesHeld
<1>1. BucketInv
  BY Zenon DEF RegistryInv
<1>2. ASSUME NEW p \in Procs, Proceeds(p)
      PROVE  NamesHeld
  BY <1>1, <1>2, RegisterHeld, ApproveRemoveHeld, NameStepHeld, SweepStepHeld, Zenon DEF Proceeds
<1>3. ASSUME NEW p \in Procs, \/ BeginRegister(p) \/ BeginApprove(p) \/ BeginRemove(p)
                              \/ BeginStatus(p) \/ BeginSweep(p) \/ RegistryCrash(p)
      PROVE  NamesHeld
  <2>1. \E x : Reads(p, x)
    BY <1>3, Zenon DEF BeginRegister, BeginApprove, BeginRemove, BeginStatus, BeginSweep, RegistryCrash
  <2> QED
    BY <2>1, UnwrittenHeld, Zenon DEF Reads
<1>4. ASSUME NEW m \in Machines, Ages(m)
      PROVE  NamesHeld
  BY <1>4, UnwrittenHeld, Zenon DEF Ages
<1>5. CASE UNCHANGED regVars
  BY <1>5, UnwrittenHeld, Zenon DEF regVars
<1> QED
  BY <1>2, <1>3, <1>4, <1>5, Zenon DEF RegistryNext

(* Whatever handlers and the sweep do at once and wherever they are cut    *)
(* short, a Rack loses its name only to an approval, a removal, an undo or *)
(* a release of its own, or to an adoption that presented the secret it    *)
(* read: never to the claim of another Rack, nor to a sweep that takes it  *)
(* for unfinished (store.go, sweep.go).                                    *)
THEOREM NamesAreKept == RegistrySpec => NameKept
<1>1. RegistryInit => RegistryInv
  BY RegistryStart
<1>2. RegistryInv /\ [RegistryNext]_regVars => RegistryInv'
  BY RegistryStep
<1>3. RegistryInv /\ [RegistryNext]_regVars =>
        [\A n \in solid :
           LET m == names[n]
           IN  \/ names'[n] = m /\ n \in solid'
               \/ \E p \in Procs :
                    /\ proc'[p] # proc[p] /\ proc[p].m = m
                    /\ proc[p].op \in {"approve", "remove"} \/ proc[p].pc \in {"undo", "releaseDelete"}
               \/ \E p \in Workers :
                    /\ proc'[p] # proc[p] /\ proc[p].holder = m
                    /\ proc[p].pc \in {"moveUpdate", "dropOld"}
                    /\ proc[p].secret = proc[p].rec.secret]_regVars
  <2> SUFFICES ASSUME NamesHeld, NEW n \in solid
               PROVE  LET m == names[n]
                      IN  \/ names'[n] = m /\ n \in solid'
                          \/ \E p \in Procs :
                               /\ proc'[p] # proc[p] /\ proc[p].m = m
                               /\ proc[p].op \in {"approve", "remove"} \/ proc[p].pc \in {"undo", "releaseDelete"}
                          \/ \E p \in Workers :
                               /\ proc'[p] # proc[p] /\ proc[p].holder = m
                               /\ proc[p].pc \in {"moveUpdate", "dropOld"}
                               /\ proc[p].secret = proc[p].rec.secret
    BY StepHolds, Zenon
  <2> QED
    BY Zenon DEF NamesHeld, MayEnd
<1> QED
  BY <1>1, <1>2, <1>3, PTL DEF RegistrySpec, NameKept

=============================================================================
