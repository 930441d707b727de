----------------------------- MODULE OutboxProofs -----------------------------
(* The outbox loses nothing silently and keeps the order of a subject, for    *)
(* every set of emissions, every cap and every number of failures.            *)
EXTENDS Outbox, FiniteSetTheorems, SequenceTheorems, WellFoundedInduction, TLAPS

(* i is an earlier emission of j's gear on j's subject.                    *)
Earlier(i, j) == i < j /\ GearOf[i] = GearOf[j] /\ SubjectOf[i] = SubjectOf[j]

NoRepeat(q) == \A i, j \in 1..Len(q) : q[i] = q[j] => i = j

(* The counters against the queue.                                         *)
Accounts ==
  /\ parked = Range(queue) \cup drained \cup dropped
  /\ drained \cap dropped = {}
  /\ (drained \cup dropped) \cap Range(queue) = {}
  /\ NoRepeat(queue)

(* What is parked has been through parkIfHeld or park, and what went       *)
(* through those, or was accepted, is parked or on the bus.                *)
Settled == \A i \in parked : pc[i] \in {"kick", "retry", "done"}
Kept ==
  /\ \A i \in Items : pc[i] \in {"accepted", "kick", "retry", "done"} => OnBus(i) \/ i \in parked
  /\ \A i \in drained : OnBus(i)

(* A gear's emissions on a subject take turns.                             *)
InTurn ==
  /\ \A i, j \in Items : Earlier(i, j) /\ pc[j] # "new" => pc[i] \in {"done", "failed"}
  /\ \A j \in Items : OnBus(j) => pc[j] # "new"

(* With subject order an emission goes to the bus only when none of its    *)
(* predecessors is queued, and the queue has them in their order.          *)
Clear ==
  Ordered => \A i, j \in Items : Earlier(i, j) /\ pc[j] = "publish" => i \notin Range(queue)
InLine ==
  Ordered => \A m, n \in 1..Len(queue) : Earlier(queue[m], queue[n]) => m < n

(* A drain handles the head of its pass.  A queued predecessor of an item  *)
(* of the pass comes before it there, or its subject is held back.         *)
Handles(d) == d \in {"attempt", "send", "sent", "rejected"}
Drains ==
  /\ Range(pass) \subseteq parked
  /\ Handles(drain) => pass # <<>>
  /\ drain = "sent" => OnBus(Head(pass))
  /\ drain = "rejected" => Head(pass) \in Invalid
HeldBack ==
  Ordered =>
    /\ Handles(drain) => SubjectOf[Head(pass)] \notin held
    /\ \A n \in 1..Len(pass) : \A i \in Range(queue) :
         Earlier(i, pass[n]) => SubjectOf[i] \in held \/ \E m \in 1..n - 1 : pass[m] = i

(***************************************************************************)
(* The inductive invariant of the outbox.                                  *)
(***************************************************************************)
Ledger == Accounts /\ Settled /\ Kept /\ InTurn /\ Clear /\ InLine /\ SubjectOrder
OutboxInv == TypeOK /\ Ledger /\ Drains /\ HeldBack

-----------------------------------------------------------------------------
(* What a list holds when an item is appended.                             *)
LEMMA AppendKeeps ==
  ASSUME NEW S, NEW q \in Seq(S), NEW x \in S
  PROVE  Append(q, x) \in Seq(S) /\ Range(Append(q, x)) = Range(q) \cup {x}
<1>1. /\ Append(q, x) \in Seq(S) /\ DOMAIN Append(q, x) = 1..Len(q) + 1
      /\ DOMAIN q = 1..Len(q) /\ Len(q) \in Nat /\ Len(Append(q, x)) = Len(q) + 1
      /\ \A k \in 1..Len(q) : Append(q, x)[k] = q[k]
      /\ Append(q, x)[Len(q) + 1] = x
  OBVIOUS
<1>2. 1..Len(q) + 1 = (1..Len(q)) \cup {Len(q) + 1}
  BY <1>1
<1>3. ASSUME NEW y \in Range(Append(q, x)) PROVE y \in Range(q) \cup {x}
  BY <1>1, <1>2, <1>3, Zenon DEF Range
<1>4. ASSUME NEW y \in Range(q) PROVE y \in Range(Append(q, x))
  BY <1>1, <1>2, <1>4, Zenon DEF Range
<1>5. x \in Range(Append(q, x))
  BY <1>1, <1>2, Zenon DEF Range
<1> QED
  BY <1>1, <1>3, <1>4, <1>5, Zenon

(* What it holds when the first one leaves.                                *)
LEMMA TailKeeps ==
  ASSUME NEW S, NEW q \in Seq(S), q # <<>>
  PROVE  /\ Tail(q) \in Seq(S) /\ Head(q) \in S /\ Head(q) = q[1] /\ Len(q) \in Nat \ {0}
         /\ Len(Tail(q)) = Len(q) - 1 /\ \A k \in 1..Len(q) - 1 : Tail(q)[k] = q[k + 1]
         /\ Range(Tail(q)) \subseteq Range(q) /\ Head(q) \in Range(q)
<1>1. /\ Tail(q) \in Seq(S) /\ DOMAIN Tail(q) = 1..Len(q) - 1 /\ Head(q) = q[1]
      /\ DOMAIN q = 1..Len(q) /\ Len(q) \in Nat \ {0} /\ Head(q) \in S
      /\ \A k \in 1..Len(q) - 1 : Tail(q)[k] = q[k + 1]
      /\ Len(Tail(q)) = Len(q) - 1
  OBVIOUS
<1>2. 1 \in DOMAIN q /\ \A k \in 1..Len(q) - 1 : k + 1 \in DOMAIN q
  BY <1>1
<1>3. ASSUME NEW y \in Range(Tail(q)) PROVE y \in Range(q)
  <2>1. PICK k \in 1..Len(q) - 1 : y = Tail(q)[k]
    BY <1>1, <1>3, Zenon DEF Range
  <2>2. k + 1 \in DOMAIN q /\ y = q[k + 1]
    BY <1>1, <1>2, <2>1, Zenon
  <2> QED
    BY <2>2, Zenon DEF Range
<1>4. Head(q) \in Range(q)
  BY <1>1, <1>2, Zenon DEF Range
<1> QED
  BY <1>1, <1>3, <1>4, Zenon

(* What it holds when the nth one is taken out; the others keep their      *)
(* order.                                                                  *)
LEMMA WithoutKeeps ==
  ASSUME NEW S, NEW q \in Seq(S), NoRepeat(q), NEW n \in 1..Len(q)
  PROVE  /\ Without(q, n) \in Seq(S) /\ Len(Without(q, n)) = Len(q) - 1 /\ Len(q) \in Nat
         /\ \A k \in 1..Len(q) - 1 :
              Without(q, n)[k] = (IF k < n THEN q[k] ELSE q[k + 1])
         /\ NoRepeat(Without(q, n))
         /\ Range(Without(q, n)) = Range(q) \ {q[n]} /\ q[n] \in Range(q)
<1> DEFINE w == Without(q, n)
<1>1. DOMAIN q = 1..Len(q) /\ Len(q) \in Nat /\ \A k \in 1..Len(q) : q[k] \in S
  OBVIOUS
<1>2. w = [k \in 1..Len(q) - 1 |-> q[IF k < n THEN k ELSE k + 1]]
  BY Zenon DEF Without
<1> HIDE DEF w
<1>3. Len(q) - 1 \in Nat /\ \A k \in 1..Len(q) - 1 : q[IF k < n THEN k ELSE k + 1] \in S
  BY <1>1
<1>4. w \in Seq(S)
  <2>1. w \in [1..Len(q) - 1 -> S]
    BY <1>2, <1>3
  <2> QED
    BY <1>3, <2>1
<1>5. /\ Len(w) = Len(q) - 1 /\ DOMAIN w = 1..Len(q) - 1
      /\ \A k \in 1..Len(q) - 1 : w[k] = IF k < n THEN q[k] ELSE q[k + 1]
  BY <1>1, <1>2, <1>3, <1>4
<1>6. NoRepeat(w)
  BY <1>1, <1>5 DEF NoRepeat
<1>7. ASSUME NEW y \in Range(q), y # q[n] PROVE y \in Range(w)
  <2>1. PICK i \in 1..Len(q) : q[i] = y
    BY <1>1, Zenon DEF Range
  <2>2. i < n \/ i > n
    BY <1>7, <2>1
  <2>3. \E j \in 1..Len(q) - 1 : w[j] = y
    <3>1. CASE i < n
      BY <1>1, <1>5, <2>1, <3>1
    <3>2. CASE i > n
      <4>1. i - 1 \in 1..Len(q) - 1 /\ ~(i - 1 < n) /\ (i - 1) + 1 = i
        BY <1>1, <3>2
      <4> QED
        BY <1>5, <2>1, <4>1, Zenon
    <3> QED
      BY <2>2, <3>1, <3>2
  <2> QED
    BY <1>5, <2>3, Zenon DEF Range
<1>8. ASSUME NEW y \in Range(w) PROVE y \in Range(q) /\ y # q[n]
  <2>1. PICK k \in 1..Len(q) - 1 : w[k] = y
    BY <1>5, Zenon DEF Range
  <2>2. PICK i \in 1..Len(q) : q[i] = y /\ i # n
    BY <1>1, <1>5, <2>1
  <2> QED
    BY <1>1, <2>2, Zenon DEF Range, NoRepeat
<1>9. q[n] \in Range(q)
  BY <1>1, Zenon DEF Range
<1> QED
  BY <1>1, <1>4, <1>5, <1>6, <1>7, <1>8, <1>9, Zenon DEF w

(* A list without repetitions has as many items as places.                 *)
LEMMA CountOfList ==
  ASSUME NEW S, NEW q \in Seq(S), NoRepeat(q)
  PROVE  Len(q) = Cardinality(Range(q))
<1>1. q \in [1..Len(q) -> Range(q)] /\ Len(q) \in Nat
  BY DEF Range
<1>2. q \in Bijection(1..Len(q), Range(q))
  <2>1. DOMAIN q = 1..Len(q)
    OBVIOUS
  <2>2. q \in Injection(1..Len(q), Range(q))
    BY <1>1, <2>1, Zenon DEF NoRepeat, Injection, IsInjective
  <2>3. \A y \in Range(q) : \E k \in 1..Len(q) : q[k] = y
    BY <2>1, Zenon DEF Range
  <2> QED
    BY <1>1, <2>2, <2>3, Zenon DEF Bijection, Surjection
<1> QED
  BY <1>1, <1>2, FS_CountingElements, Zenon DEF ExistsBijection

(* A set of places has a first one.                                        *)
LEMMA FirstOf ==
  ASSUME NEW I, I \subseteq Nat, I # {}
  PROVE  Min(I) \in I /\ \A k \in I : Min(I) <= k
<1>1. PICK x \in I : \A y \in I : ~ (<<y, x>> \in OpToRel(<, Nat))
  BY NatLessThanWellFounded, WFMin, Zenon
<1>2. ASSUME NEW y \in I PROVE x <= y
  <2>1. ~ (<<y, x>> \in {ss \in Nat \X Nat : ss[1] < ss[2]})
    BY <1>1, Zenon DEF OpToRel
  <2>2. y \in Nat /\ x \in Nat
    OBVIOUS
  <2> QED
    BY <2>1, <2>2
<1> QED
  BY <1>2, Zenon DEF Min

(* parkLocked evicts an item of the queue, an event if there is one.       *)
LEMMA VictimIsQueued ==
  ASSUME queue \in Seq(Items), queue # <<>>
  PROVE  /\ Victim \in 1..Len(queue)
         /\ (\E n \in 1..Len(queue) : IsEvent(queue[n])) => IsEvent(queue[Victim])
<1> DEFINE I == {n \in 1..Len(queue) : IsEvent(queue[n])}
<1>1. Len(queue) \in Nat \ {0} /\ I \subseteq Nat /\ 0 \notin I
  OBVIOUS
<1>2. Victim = IF I = {} THEN 1 ELSE Min(I)
  BY Zenon DEF Victim
<1>3. CASE I = {}
  BY <1>1, <1>2, <1>3
<1>4. CASE I # {}
  <2>1. Min(I) \in I
    BY <1>1, <1>4, FirstOf, Zenon
  <2>2. Victim = Min(I)
    BY <1>2, <1>4, Zenon
  <2> QED
    BY <2>1, <2>2
<1> QED
  BY <1>3, <1>4

-----------------------------------------------------------------------------
(* The bus takes an emission whose predecessors it has, or which are lost  *)
(* to it.                                                                  *)
LogGrows ==
  \/ log' = log
  \/ \E j \in Items :
       /\ log' = Append(log, j) /\ pc[j] # "new"
       /\ Ordered => \A i \in Items : Earlier(i, j) => OnBus(i) \/ i \in dropped \/ pc[i] = "failed"

(* What is on the bus stays there, in its order.                           *)
LEMMA LogKeeps ==
  ASSUME OutboxInv, LogGrows,
         \A j \in Items : pc[j] = "failed" => pc'[j] = "failed",
         \A j \in Items : j \in dropped => j \in dropped'
  PROVE  /\ log' \in Seq(Items) /\ \A i : OnBus(i) => OnBus(i)'
         /\ \A j \in Items : OnBus(j)' => OnBus(j) \/ pc[j] # "new"
         /\ SubjectOrder'
<1>1. log \in Seq(Items)
  BY DEF OutboxInv, TypeOK
<1>2. SubjectOrder
  BY DEF OutboxInv, Ledger
<1>3. CASE log' = log
  <2>1. \A i : OnBus(i)' <=> OnBus(i)
    BY <1>3, Zenon DEF OnBus
  <2> QED
    BY <1>1, <1>2, <1>3, <2>1, Zenon DEF SubjectOrder
<1>4. ASSUME NEW k \in Items, log' = Append(log, k), pc[k] # "new",
             Ordered => \A i \in Items : Earlier(i, k) => OnBus(i) \/ i \in dropped \/ pc[i] = "failed"
      PROVE  /\ log' \in Seq(Items) /\ \A i : OnBus(i) => OnBus(i)'
             /\ \A j \in Items : OnBus(j)' => OnBus(j) \/ pc[j] # "new"
             /\ SubjectOrder'
  <2>1. /\ log' \in Seq(Items) /\ Len(log') = Len(log) + 1 /\ Len(log) \in Nat
        /\ \A n \in 1..Len(log) : log'[n] = log[n]
        /\ log'[Len(log) + 1] = k
        /\ Range(log') = Range(log) \cup {k}
    <3> DEFINE new == Append(log, k)
    <3>1. /\ new \in Seq(Items) /\ Len(new) = Len(log) + 1 /\ Len(log) \in Nat
          /\ \A n \in 1..Len(log) : new[n] = log[n]
          /\ new[Len(log) + 1] = k
      BY <1>1
    <3>2. Range(new) = Range(log) \cup {k}
      BY <1>1, AppendKeeps
    <3>3. log' = new
      BY <1>4, Zenon
    <3> HIDE DEF new
    <3> QED
      BY <3>1, <3>2, <3>3, Zenon
  <2>2. DOMAIN log = 1..Len(log) /\ DOMAIN log' = 1..Len(log') /\ \A n \in 1..Len(log) : n < Len(log) + 1
    BY <1>1, <2>1
  <2>3. (\A n \in DOMAIN log : n \in DOMAIN log') /\ Len(log) + 1 \in DOMAIN log'
    BY <2>1, <2>2
  <2>4. \A i : OnBus(i)' <=> OnBus(i) \/ i = k
    BY <2>1, Zenon DEF OnBus
  <2>5. ASSUME Ordered, NEW i \in Items, NEW j \in Items, Earlier(i, j), OnBus(j)'
        PROVE  \/ \E m, n \in DOMAIN log' : m < n /\ log'[m] = i /\ log'[n] = j
               \/ i \in dropped' \/ pc'[i] = "failed"
    <3>1. CASE OnBus(j)
      <4>1. \/ \E m, n \in DOMAIN log : m < n /\ log[m] = i /\ log[n] = j
            \/ i \in dropped \/ pc[i] = "failed"
        BY <1>2, <2>5, <3>1, Zenon DEF SubjectOrder, Earlier
      <4>2. \A n \in DOMAIN log : n \in DOMAIN log' /\ log'[n] = log[n]
        BY <2>1, <2>2, <2>3, Zenon
      <4> QED
        BY <4>1, <4>2, Zenon
    <3>2. CASE j = k
      <4>1. OnBus(i) \/ i \in dropped \/ pc[i] = "failed"
        BY <1>4, <2>5, <3>2, Zenon
      <4>2. ASSUME OnBus(i) PROVE \E m, n \in DOMAIN log' : m < n /\ log'[m] = i /\ log'[n] = j
        <5>1. PICK m \in DOMAIN log : log[m] = i
          BY <4>2, Zenon DEF OnBus, Range
        <5>2. m < Len(log) + 1 /\ log'[m] = i /\ m \in DOMAIN log'
          BY <2>1, <2>2, <2>3, <5>1, Zenon
        <5> QED
          BY <2>1, <2>3, <3>2, <5>2, Zenon
      <4> QED
        BY <4>1, <4>2, Zenon
    <3> QED
      BY <2>4, <2>5, <3>1, <3>2, Zenon
  <2>6. SubjectOrder'
    BY <2>5, Zenon DEF SubjectOrder, Earlier
  <2> QED
    BY <1>4, <2>1, <2>4, <2>6, Zenon
<1> QED
  BY <1>3, <1>4, Zenon DEF LogGrows

(* A step that leaves the queue alone.  No emission is reopened, none is   *)
(* reported as sent that is not kept, and one begins when its turn comes.  *)
LEMMA LedgerGoes ==
  ASSUME OutboxInv, LogGrows, UNCHANGED <<queue, counts>>,
         \A j \in Items : pc[j] \in {"done", "failed"} => pc'[j] = pc[j],
         \A j \in Items : pc[j] # "new" => pc'[j] # "new",
         \A j \in parked : pc'[j] \in {"kick", "retry", "done"},
         \A j \in Items : pc'[j] \in {"accepted", "kick", "retry", "done"} =>
                           OnBus(j) \/ OnBus(j)' \/ j \in parked,
         \A i, j \in Items : Earlier(i, j) /\ pc'[j] # "new" => pc[i] \in {"done", "failed"},
         Ordered => \A i, j \in Items : Earlier(i, j) /\ pc'[j] = "publish" => i \notin Range(queue)
  PROVE  Ledger' /\ (\A i : OnBus(i) => OnBus(i)') /\ log' \in Seq(Items)
<1>1. parked' = parked /\ drained' = drained /\ dropped' = dropped /\ queue' = queue
  BY Zenon DEF counts
<1>2. Accounts' /\ InLine'
  BY <1>1, Zenon DEF OutboxInv, Ledger, Accounts, InLine, Earlier
<1>3. Settled'
  BY <1>1, Zenon DEF Settled
<1>4. Clear'
  BY <1>1, Zenon DEF Clear, Earlier
<1>5. /\ log' \in Seq(Items) /\ \A i : OnBus(i) => OnBus(i)'
      /\ \A j \in Items : OnBus(j)' => OnBus(j) \/ pc[j] # "new"
      /\ SubjectOrder'
  <2>1. /\ \A j \in Items : pc[j] = "failed" => pc'[j] = "failed"
        /\ \A j \in Items : j \in dropped => j \in dropped'
    BY <1>1, Zenon
  <2> QED
    BY <2>1, LogKeeps, Zenon
<1>6. Kept'
  BY <1>1, <1>5, Zenon DEF OutboxInv, Ledger, Kept
<1>7. InTurn'
  <2>1. \A i, j \in Items : Earlier(i, j) /\ pc'[j] # "new" => pc'[i] \in {"done", "failed"}
    BY Zenon
  <2>2. \A j \in Items : OnBus(j)' => pc'[j] # "new"
    BY <1>5, Zenon DEF OutboxInv, Ledger, InTurn
  <2> QED
    BY <2>1, <2>2, Zenon DEF InTurn, Earlier
<1> QED
  BY <1>2, <1>3, <1>4, <1>5, <1>6, <1>7 DEF Ledger

(* One emission goes on.                                                   *)
Moves(i, l) ==
  /\ pc' = [pc EXCEPT ![i] = l] /\ l \in EmitPCs \ {"new"} /\ pc[i] \notin {"done", "failed"}
  /\ i \in parked => l \in {"kick", "retry", "done"}
  /\ l \in {"accepted", "kick", "retry", "done"} => OnBus(i) \/ OnBus(i)' \/ i \in parked
  /\ pc[i] = "new" => \A j \in Items : Earlier(j, i) => pc[j] \in {"done", "failed"}
  /\ Ordered /\ l = "publish" => \A j \in Items : Earlier(j, i) => j \notin Range(queue)

(* The ledger when it does.                                                *)
LEMMA LedgerMoves ==
  ASSUME OutboxInv, LogGrows, UNCHANGED <<queue, counts>>, NEW i \in Items, NEW l, Moves(i, l)
  PROVE  /\ Ledger' /\ (\A j : OnBus(j) => OnBus(j)') /\ log' \in Seq(Items)
         /\ pc' \in [Items -> EmitPCs]
<1>1. /\ l \in EmitPCs /\ l # "new" /\ pc[i] \notin {"done", "failed"}
      /\ pc \in [Items -> EmitPCs] /\ pc' = [pc EXCEPT ![i] = l]
  BY Zenon DEF Moves, OutboxInv, TypeOK
<1>2. pc' \in [Items -> EmitPCs] /\ pc'[i] = l /\ \A j \in Items : j # i => pc'[j] = pc[j]
  BY <1>1, Zenon
<1>3. \A j \in Items : pc[j] \in {"done", "failed"} => pc'[j] = pc[j]
  BY <1>1, <1>2, Zenon
<1>4. \A j \in Items : pc[j] # "new" => pc'[j] # "new"
  BY <1>1, <1>2, Zenon
<1>5. \A j \in parked : pc'[j] \in {"kick", "retry", "done"}
  <2>1. parked \subseteq Items
    BY Zenon DEF OutboxInv, TypeOK
  <2> QED
    BY <1>2, <2>1, Zenon DEF Moves, OutboxInv, Ledger, Settled
<1>6. \A j \in Items : pc'[j] \in {"accepted", "kick", "retry", "done"} =>
                         OnBus(j) \/ OnBus(j)' \/ j \in parked
  BY <1>2, Zenon DEF Moves, OutboxInv, Ledger, Kept
<1>7. \A h, j \in Items : Earlier(h, j) /\ pc'[j] # "new" => pc[h] \in {"done", "failed"}
  BY <1>2, Zenon DEF Moves, OutboxInv, Ledger, InTurn
<1>8. Ordered => \A h, j \in Items : Earlier(h, j) /\ pc'[j] = "publish" => h \notin Range(queue)
  BY <1>2, Zenon DEF Moves, OutboxInv, Ledger, Clear
<1> QED
  BY <1>2, <1>3, <1>4, <1>5, <1>6, <1>7, <1>8, LedgerGoes, Zenon

(* Emissions that wait are woken, or not.                                  *)
Wakes ==
  /\ pc' \in [Items -> EmitPCs]
  /\ \A j \in Items : pc'[j] = pc[j] \/ (pc[j] = "waiting" /\ pc'[j] = "moved")

(* signalMovedLocked does no more than that.                               *)
LEMMA WakesBy ==
  ASSUME OutboxInv, SignalMoved \/ UNCHANGED pc
  PROVE  Wakes
<1>1. pc \in [Items -> EmitPCs] /\ "moved" \in EmitPCs
  BY DEF OutboxInv, TypeOK, EmitPCs
<1>2. CASE SignalMoved
  <2>1. pc' = [i \in Items |-> IF pc[i] = "waiting" THEN "moved" ELSE pc[i]]
    BY <1>2 DEF SignalMoved
  <2>2. \A j \in Items : pc'[j] = IF pc[j] = "waiting" THEN "moved" ELSE pc[j]
    BY <2>1, Zenon
  <2>3. pc' \in [Items -> EmitPCs]
    BY <1>1, <2>1
  <2> QED
    BY <2>2, <2>3, Zenon DEF Wakes
<1>3. CASE UNCHANGED pc
  BY <1>1, <1>3, Zenon DEF Wakes
<1> QED
  BY <1>2, <1>3

(* The ledger when it happens.                                             *)
LEMMA LedgerWakes ==
  ASSUME OutboxInv, LogGrows, UNCHANGED <<queue, counts>>, Wakes
  PROVE  Ledger' /\ (\A j : OnBus(j) => OnBus(j)') /\ log' \in Seq(Items)
<1>1. \A j \in Items : pc'[j] = pc[j] \/ (pc[j] = "waiting" /\ pc'[j] = "moved")
  BY Zenon DEF Wakes
<1>2. \A j \in Items : pc[j] \in {"done", "failed"} => pc'[j] = pc[j]
  BY <1>1, Zenon
<1>3. \A j \in Items : pc[j] # "new" => pc'[j] # "new"
  BY <1>1, Zenon
<1>4. \A j \in parked : pc'[j] \in {"kick", "retry", "done"}
  <2>1. parked \subseteq Items
    BY Zenon DEF OutboxInv, TypeOK
  <2> QED
    BY <1>1, <2>1, Zenon DEF OutboxInv, Ledger, Settled
<1>5. \A j \in Items : pc'[j] \in {"accepted", "kick", "retry", "done"} =>
                         OnBus(j) \/ OnBus(j)' \/ j \in parked
  BY <1>1, Zenon DEF OutboxInv, Ledger, Kept
<1>6. \A h, j \in Items : Earlier(h, j) /\ pc'[j] # "new" => pc[h] \in {"done", "failed"}
  BY <1>1, Zenon DEF OutboxInv, Ledger, InTurn
<1>7. Ordered => \A h, j \in Items : Earlier(h, j) /\ pc'[j] = "publish" => h \notin Range(queue)
  BY <1>1, Zenon DEF OutboxInv, Ledger, Clear
<1> QED
  BY <1>2, <1>3, <1>4, <1>5, <1>6, <1>7, LedgerGoes, Zenon

(* i is parked behind q, what the cap leaves of the queue.                 *)
Parks(i, q, l) ==
  /\ q \in Seq(Items) /\ NoRepeat(q) /\ Range(q) \subseteq Range(queue)
  /\ Ordered => \A m, n \in 1..Len(q) : Earlier(q[m], q[n]) => m < n
  /\ queue' = Append(q, i) /\ parked' = parked \cup {i}
  /\ dropped' = dropped \cup (Range(queue) \ Range(q)) /\ drained' = drained
  /\ pc[i] \in {"check", "park"} /\ pc' = [pc EXCEPT ![i] = l] /\ l \in {"kick", "retry", "done"}

(* The ledger when it is.                                                  *)
LEMMA LedgerParks ==
  ASSUME OutboxInv, NEW i \in Items, NEW q, NEW l, Parks(i, q, l), log' = log
  PROVE  Ledger' /\ pc' \in [Items -> EmitPCs]
<1>1. /\ parked' = parked \cup {i} /\ drained' = drained
      /\ dropped' = dropped \cup (Range(queue) \ Range(q))
      /\ q \in Seq(Items) /\ queue' = Append(q, i) /\ Range(q) \subseteq Range(queue)
      /\ pc[i] \in {"check", "park"} /\ l \in {"kick", "retry", "done"}
  BY Zenon DEF Parks
<1>2. /\ parked = Range(queue) \cup drained \cup dropped /\ drained \cap dropped = {}
      /\ (drained \cup dropped) \cap Range(queue) = {}
  BY Zenon DEF OutboxInv, Ledger, Accounts
<1>3. i \notin parked
  BY <1>1 DEF OutboxInv, Ledger, Settled
<1>4. queue' \in Seq(Items) /\ Range(queue') = Range(q) \cup {i}
  BY <1>1, AppendKeeps
<1>5. /\ Len(q) \in Nat /\ Len(queue') = Len(q) + 1 /\ queue'[Len(q) + 1] = i
      /\ \A n \in 1..Len(q) : queue'[n] = q[n]
  BY <1>1
<1>6. \A n \in 1..Len(q) : q[n] \in Range(q)
  <2>1. DOMAIN q = 1..Len(q)
    BY <1>1, LenProperties, Zenon
  <2> QED
    BY <2>1, Zenon DEF Range
<1>7. pc \in [Items -> EmitPCs] /\ l \in EmitPCs /\ pc' = [pc EXCEPT ![i] = l]
  <2>1. l \in EmitPCs
    BY <1>1 DEF EmitPCs
  <2> QED
    BY <2>1, Zenon DEF OutboxInv, TypeOK, Parks
<1>8. pc' \in [Items -> EmitPCs] /\ pc'[i] = l /\ \A j \in Items : j # i => pc'[j] = pc[j]
  BY <1>7, Zenon
<1>9. Accounts'
  <2>1. /\ parked' = Range(queue') \cup drained' \cup dropped' /\ drained' \cap dropped' = {}
        /\ (drained' \cup dropped') \cap Range(queue') = {}
    BY <1>1, <1>2, <1>3, <1>4
  <2>2. NoRepeat(queue')
    <3>1. \A m, n \in 1..Len(q) : q[m] = q[n] => m = n
      BY Zenon DEF Parks, NoRepeat
    <3>2. i \notin Range(q)
      BY <1>1, <1>2, <1>3
    <3>3. \A m, n \in 1..Len(q) + 1 : queue'[m] = queue'[n] => m = n
      BY <1>5, <1>6, <3>1, <3>2
    <3> QED
      BY <1>5, <3>3 DEF NoRepeat
  <2> QED
    BY <2>1, <2>2 DEF Accounts
<1>10. Settled'
  <2>1. parked \subseteq Items
    BY Zenon DEF OutboxInv, TypeOK
  <2> QED
    BY <1>1, <1>8, <2>1, Zenon DEF OutboxInv, Ledger, Settled
<1>11. \A j : OnBus(j)' <=> OnBus(j)
  BY Zenon DEF OnBus
<1>12. Kept'
  BY <1>1, <1>8, <1>11, Zenon DEF OutboxInv, Ledger, Kept
<1>13. InTurn'
  BY <1>1, <1>8, <1>11, Zenon DEF OutboxInv, Ledger, InTurn, Earlier
<1>14. ASSUME NEW j \in Items, pc[j] # "new", j # i PROVE ~Earlier(i, j)
  BY <1>1, <1>14 DEF OutboxInv, Ledger, InTurn
<1>15. Clear'
  <2>1. ASSUME Ordered, NEW h \in Items, NEW j \in Items, Earlier(h, j), pc'[j] = "publish"
        PROVE  h \notin Range(queue')
    <3>1. j # i /\ pc[j] = "publish"
      BY <1>1, <1>8, <2>1, Zenon
    <3>2. h \notin Range(queue)
      BY <2>1, <3>1, Zenon DEF OutboxInv, Ledger, Clear
    <3>3. h # i
      BY <1>14, <2>1, <3>1, Zenon
    <3> QED
      BY <1>1, <1>4, <3>2, <3>3, Zenon
  <2> QED
    BY <2>1, Zenon DEF Clear, Earlier
<1>16. InLine'
  <2>1. ASSUME Ordered, NEW m \in 1..Len(q) + 1, NEW n \in 1..Len(q) + 1,
               Earlier(queue'[m], queue'[n])
        PROVE  m < n
    <3>1. CASE m \in 1..Len(q) /\ n \in 1..Len(q)
      BY <1>5, <2>1, <3>1, Zenon DEF Parks
    <3>2. CASE m \in 1..Len(q) /\ n = Len(q) + 1
      BY <1>5, <3>2
    <3>3. CASE m = Len(q) + 1 /\ n \in 1..Len(q)
      <4>1. Earlier(i, q[n]) /\ q[n] \in parked
        BY <1>1, <1>2, <1>5, <1>6, <2>1, <3>3, Zenon
      <4>2. q[n] \in Items /\ pc[q[n]] # "new" /\ q[n] # i
        BY <1>3, <4>1 DEF OutboxInv, TypeOK, Ledger, Settled
      <4> QED
        BY <1>14, <4>1, <4>2, Zenon
    <3>4. CASE m = Len(q) + 1 /\ n = Len(q) + 1
      <4>1. Earlier(i, i) /\ i \in Nat
        BY <1>5, <2>1, <3>4, OutboxAssumption
      <4> QED
        BY <4>1 DEF Earlier
    <3> QED
      BY <1>5, <3>1, <3>2, <3>3, <3>4
  <2> QED
    BY <1>5, <2>1, Zenon DEF InLine, Earlier
<1>17. SubjectOrder'
  <2>1. \A j \in Items : pc[j] = "failed" => pc'[j] = "failed"
    BY <1>1, <1>8
  <2>2. \A j \in Items : j \in dropped => j \in dropped'
    BY <1>1
  <2> QED
    BY <2>1, <2>2, LogKeeps, Zenon DEF LogGrows
<1> QED
  BY <1>8, <1>9, <1>10, <1>12, <1>13, <1>15, <1>16, <1>17 DEF Ledger

(* A part of the queue keeps its line.                                     *)
LEMMA WithoutInLine ==
  ASSUME OutboxInv, NEW n \in 1..Len(queue)
  PROVE  /\ Without(queue, n) \in Seq(Items) /\ NoRepeat(Without(queue, n))
         /\ Range(Without(queue, n)) = Range(queue) \ {queue[n]} /\ queue[n] \in Range(queue)
         /\ Len(Without(queue, n)) = Len(queue) - 1
         /\ Ordered => \A k, m \in 1..Len(Without(queue, n)) :
                         Earlier(Without(queue, n)[k], Without(queue, n)[m]) => k < m
<1> DEFINE w == Without(queue, n)
<1>1. queue \in Seq(Items) /\ NoRepeat(queue)
  BY Zenon DEF OutboxInv, TypeOK, Ledger, Accounts
<1>2. /\ w \in Seq(Items) /\ Len(w) = Len(queue) - 1 /\ Len(queue) \in Nat
      /\ NoRepeat(w) /\ Range(w) = Range(queue) \ {queue[n]} /\ queue[n] \in Range(queue)
      /\ \A k \in 1..Len(queue) - 1 : w[k] = (IF k < n THEN queue[k] ELSE queue[k + 1])
  BY <1>1, WithoutKeeps
<1> HIDE DEF w
<1>3. ASSUME Ordered, NEW k \in 1..Len(w), NEW m \in 1..Len(w), Earlier(w[k], w[m])
      PROVE  k < m
  <2> DEFINE a == IF k < n THEN k ELSE k + 1
             b == IF m < n THEN m ELSE m + 1
  <2>1. a \in 1..Len(queue) /\ b \in 1..Len(queue) /\ (a < b => k < m)
    BY <1>2
  <2>2. w[k] = queue[a] /\ w[m] = queue[b]
    BY <1>2
  <2> HIDE DEF a, b
  <2>3. a < b
    BY <1>3, <2>1, <2>2, Zenon DEF OutboxInv, Ledger, InLine
  <2> QED
    BY <2>1, <2>3
<1> QED
  BY <1>2, <1>3, Zenon DEF w

(* remove takes out an item that the bus has taken or rejected.            *)
Removes(n) ==
  /\ queue' = Without(queue, n) /\ parked' = parked
  /\ \/ drained' = drained \cup {queue[n]} /\ dropped' = dropped /\ OnBus(queue[n])
     \/ dropped' = dropped \cup {queue[n]} /\ drained' = drained

(* The ledger when it has.                                                 *)
LEMMA LedgerRemoves ==
  ASSUME OutboxInv, NEW n \in 1..Len(queue), Removes(n), Wakes, log' = log
  PROVE  Ledger' /\ queue' \in Seq(Items) /\ Range(queue') = Range(queue) \ {queue[n]}
                 /\ Len(queue') = Len(queue) - 1
<1> DEFINE w == Without(queue, n)
<1>1. /\ w \in Seq(Items) /\ NoRepeat(w)
      /\ Range(w) = Range(queue) \ {queue[n]} /\ queue[n] \in Range(queue)
      /\ Len(w) = Len(queue) - 1
      /\ Ordered => \A k, m \in 1..Len(w) : Earlier(w[k], w[m]) => k < m
  BY WithoutInLine, Zenon
<1>2. /\ queue' = w /\ parked' = parked
      /\ \/ drained' = drained \cup {queue[n]} /\ dropped' = dropped /\ OnBus(queue[n])
         \/ dropped' = dropped \cup {queue[n]} /\ drained' = drained
  BY Zenon DEF Removes
<1> HIDE DEF w
<1>3. /\ parked = Range(queue) \cup drained \cup dropped /\ drained \cap dropped = {}
      /\ (drained \cup dropped) \cap Range(queue) = {}
  BY Zenon DEF OutboxInv, Ledger, Accounts
<1>4. Accounts'
  <2>1. /\ parked' = Range(queue') \cup drained' \cup dropped' /\ drained' \cap dropped' = {}
        /\ (drained' \cup dropped') \cap Range(queue') = {}
    BY <1>1, <1>2, <1>3
  <2> QED
    BY <1>1, <1>2, <2>1, Zenon DEF Accounts
<1>5. \A j \in Items : pc'[j] = pc[j] \/ (pc[j] = "waiting" /\ pc'[j] = "moved")
  BY Zenon DEF Wakes
<1>6. \A j : OnBus(j)' <=> OnBus(j)
  BY Zenon DEF OnBus
<1>7. Settled'
  <2>1. parked \subseteq Items
    BY Zenon DEF OutboxInv, TypeOK
  <2> QED
    BY <1>2, <1>5, <2>1, Zenon DEF OutboxInv, Ledger, Settled
<1>8. Kept'
  <2>1. \A i \in Items : pc'[i] \in {"accepted", "kick", "retry", "done"} => OnBus(i) \/ i \in parked
    BY <1>5, Zenon DEF OutboxInv, Ledger, Kept
  <2>2. \A i \in drained' : OnBus(i)
    BY <1>2, Zenon DEF OutboxInv, Ledger, Kept
  <2> QED
    BY <1>2, <1>6, <2>1, <2>2, Zenon DEF Kept
<1>9. InTurn'
  BY <1>5, <1>6, Zenon DEF OutboxInv, Ledger, InTurn, Earlier
<1>10. Clear'
  BY <1>1, <1>2, <1>5, Zenon DEF OutboxInv, Ledger, Clear, Earlier
<1>11. InLine'
  BY <1>1, <1>2, Zenon DEF InLine, Earlier
<1>12. SubjectOrder'
  <2>1. \A j \in Items : pc[j] = "failed" => pc'[j] = "failed"
    BY <1>5, Zenon
  <2>2. \A j \in Items : j \in dropped => j \in dropped'
    BY <1>2, Zenon
  <2> QED
    BY <2>1, <2>2, LogKeeps, Zenon DEF LogGrows
<1> QED
  BY <1>1, <1>2, <1>4, <1>7, <1>8, <1>9, <1>10, <1>11, <1>12, Zenon DEF Ledger

-----------------------------------------------------------------------------
(* A step that is not the drain's: what joins the queue is no predecessor  *)
(* of an item of the pass.                                                 *)
LEMMA DrainStays ==
  ASSUME OutboxInv, UNCHANGED <<pass, held>>, drain' = drain \/ ~Handles(drain'),
         parked \subseteq parked', \A j : OnBus(j) => OnBus(j)',
         \A i \in Range(queue') : i \in Range(queue) \/ (i \in Items /\ pc[i] \in {"check", "park"})
  PROVE  Drains' /\ HeldBack'
<1>1. pass' = pass /\ held' = held
  BY Zenon
<1>2. Drains'
  BY <1>1, Zenon DEF OutboxInv, Drains, Handles, OnBus
<1>3. ASSUME Ordered, NEW n \in 1..Len(pass), NEW i \in Range(queue'), Earlier(i, pass[n])
      PROVE  SubjectOf[i] \in held \/ \E m \in 1..n - 1 : pass[m] = i
  <2>1. CASE i \in Range(queue)
    BY <1>3, <2>1, Zenon DEF OutboxInv, HeldBack
  <2>2. CASE i \in Items /\ pc[i] \in {"check", "park"}
    <3>1. pass \in Seq(Items) /\ DOMAIN pass = 1..Len(pass)
      BY LenProperties, Zenon DEF OutboxInv, TypeOK
    <3>2. pass[n] \in Items /\ pass[n] \in parked
      BY <3>1, Zenon DEF Range, OutboxInv, Drains, TypeOK
    <3>3. pc[pass[n]] # "new"
      BY <3>2 DEF OutboxInv, Ledger, Settled
    <3> QED
      BY <1>3, <2>2, <3>2, <3>3 DEF OutboxInv, Ledger, InTurn
  <2> QED
    BY <2>1, <2>2, Zenon
<1>4. HeldBack'
  <2>1. Ordered /\ Handles(drain') => SubjectOf[Head(pass')] \notin held'
    BY <1>1, Zenon DEF OutboxInv, HeldBack
  <2>2. Ordered => \A n \in 1..Len(pass') : \A i \in Range(queue') :
          Earlier(i, pass'[n]) => SubjectOf[i] \in held' \/ \E m \in 1..n - 1 : pass'[m] = i
    BY <1>1, <1>3, Zenon
  <2> QED
    BY <2>1, <2>2, Zenon DEF HeldBack, Handles, Earlier
<1> QED
  BY <1>2, <1>4

(* The drain stops, or has no pass yet.                                    *)
LEMMA DrainStops ==
  ASSUME pass' = <<>>, ~Handles(drain')
  PROVE  Drains' /\ HeldBack'
<1>1. Range(pass') = {} /\ Len(pass') = 0
  BY DEF Range
<1>2. Drains'
  BY <1>1, Zenon DEF Drains, Handles
<1>3. HeldBack'
  <2>1. \A n \in 1..Len(pass') : FALSE
    BY <1>1
  <2> QED
    BY <2>1, Zenon DEF HeldBack, Handles
<1> QED
  BY <1>2, <1>3

(* It is through with the head of its pass, which is no longer queued or   *)
(* holds its subject back.                                                 *)
LEMMA DrainGoesOn ==
  ASSUME OutboxInv, pass # <<>>, pass' = Tail(pass), drain' = "next", held \subseteq held',
         parked' = parked, Range(queue') \subseteq Range(queue),
         Head(pass) \notin Range(queue') \/ SubjectOf[Head(pass)] \in held'
  PROVE  Drains' /\ HeldBack' /\ pass' \in Seq(Items)
<1> DEFINE p == pass
<1>1. pass \in Seq(Items)
  BY Zenon DEF OutboxInv, TypeOK
<1>2. /\ Tail(p) \in Seq(Items) /\ Head(p) = p[1] /\ Len(p) \in Nat \ {0}
      /\ Len(Tail(p)) = Len(p) - 1 /\ \A k \in 1..Len(p) - 1 : Tail(p)[k] = p[k + 1]
      /\ Range(Tail(p)) \subseteq Range(p)
  BY <1>1, TailKeeps
<1>3. /\ Len(pass') = Len(p) - 1 /\ \A k \in 1..Len(p) - 1 : pass'[k] = p[k + 1]
  BY <1>2, Zenon
<1>4. Drains'
  BY <1>2, Zenon DEF OutboxInv, Drains, Handles
<1>5. ASSUME Ordered, NEW n \in 1..Len(p) - 1, NEW i \in Range(queue'), Earlier(i, pass'[n])
      PROVE  SubjectOf[i] \in held' \/ \E m \in 1..n - 1 : pass'[m] = i
  <2>1. n + 1 \in 1..Len(p) /\ (n + 1) - 1 = n
    BY <1>2
  <2>2. Earlier(i, p[n + 1]) /\ i \in Range(queue)
    BY <1>5, <1>3, Zenon
  <2>3. SubjectOf[i] \in held \/ \E m \in 1..n : p[m] = i
    BY <1>5, <2>1, <2>2 DEF OutboxInv, HeldBack
  <2>4. ASSUME NEW m \in 1..n, p[m] = i, SubjectOf[i] \notin held'
        PROVE  \E k \in 1..n - 1 : pass'[k] = i
    <3>1. m # 1
      BY <1>2, <1>5, <2>4
    <3>2. m - 1 \in 1..n - 1 /\ m - 1 \in 1..Len(p) - 1 /\ (m - 1) + 1 = m
      BY <1>2, <3>1
    <3>3. pass'[m - 1] = i
      BY <1>3, <2>4, <3>2, Zenon
    <3> QED
      BY <3>2, <3>3, Zenon
  <2> QED
    BY <2>3, <2>4, Zenon
<1>6. HeldBack'
  <2>1. 1..Len(pass') = 1..Len(p) - 1
    BY <1>3
  <2>2. Ordered => \A n \in 1..Len(pass') : \A i \in Range(queue') :
          Earlier(i, pass'[n]) => SubjectOf[i] \in held' \/ \E m \in 1..n - 1 : pass'[m] = i
    BY <1>5, <2>1, Zenon
  <2>3. ~Handles(drain')
    BY DEF Handles
  <2> QED
    BY <2>2, <2>3, Zenon DEF HeldBack, Handles, Earlier
<1> QED
  BY <1>2, <1>4, <1>6, Zenon

-----------------------------------------------------------------------------
(* The part of the type invariant that no other conjunct speaks of.        *)
Typed ==
  /\ bus \in {"none", "down", "up"} /\ faults \in 0..MaxFaults
  /\ draining \in BOOLEAN /\ again \in BOOLEAN /\ busState \in {"unknown", "up", "down"}
  /\ drain \in DrainPCs /\ attempt \in 0..Retries /\ forwarded \in BOOLEAN
  /\ drainCtx \in {"background", "shutdown", "expired"}
  /\ retrying \in BOOLEAN /\ loop \in {"off", "ticking", "kick", "ending"}
  /\ shutdown \in {"no", "closing", "draining", "returned"}
  /\ owed \subseteq Items

(* A step of an emission that only touches the queue.                      *)
LEMMA TypedStays ==
  ASSUME OutboxInv, UNCHANGED <<Others, draining, again, busState>>
  PROVE  Typed' /\ UNCHANGED <<log, drain, pass, held>>
<1>1. Typed
  BY Zenon DEF OutboxInv, TypeOK, Typed
<1>2. /\ bus' = bus /\ log' = log /\ faults' = faults /\ drain' = drain /\ pass' = pass
      /\ attempt' = attempt /\ forwarded' = forwarded /\ held' = held /\ drainCtx' = drainCtx
      /\ retrying' = retrying /\ loop' = loop /\ shutdown' = shutdown /\ owed' = owed
      /\ draining' = draining /\ again' = again /\ busState' = busState
  BY Zenon DEF Others, busVars, drainVars, loopVars
<1> QED
  BY <1>1, <1>2 DEF Typed

(* One emission goes on and the drain is left alone, or begins.            *)
LEMMA MovesInv ==
  ASSUME OutboxInv, NEW i \in Items, NEW l, Moves(i, l), LogGrows, UNCHANGED <<queue, counts>>,
         Typed', UNCHANGED <<pass, held>>, drain' = drain \/ ~Handles(drain')
  PROVE  OutboxInv'
<1>1. /\ Ledger' /\ (\A j : OnBus(j) => OnBus(j)') /\ log' \in Seq(Items)
      /\ pc' \in [Items -> EmitPCs]
  BY LedgerMoves, Zenon
<1>2. /\ queue' = queue /\ parked' = parked /\ drained' = drained /\ dropped' = dropped
      /\ pass' = pass /\ held' = held
  BY Zenon DEF counts
<1>3. Drains' /\ HeldBack'
  <2>1. parked \subseteq parked' /\ \A j \in Range(queue') : j \in Range(queue)
    BY <1>2, Zenon
  <2> QED
    BY <1>1, <2>1, DrainStays, Zenon
<1>4. TypeOK'
  BY <1>1, <1>2, Zenon DEF OutboxInv, TypeOK, Typed
<1> QED
  BY <1>1, <1>3, <1>4, Zenon DEF OutboxInv

(* No emission goes on, though some are woken.                             *)
LEMMA WakesInv ==
  ASSUME OutboxInv, Wakes, LogGrows, UNCHANGED <<queue, counts>>,
         Typed', UNCHANGED <<pass, held>>, drain' = drain \/ ~Handles(drain')
  PROVE  OutboxInv'
<1>1. /\ Ledger' /\ (\A j : OnBus(j) => OnBus(j)') /\ log' \in Seq(Items)
  BY LedgerWakes, Zenon
<1>2. /\ queue' = queue /\ parked' = parked /\ drained' = drained /\ dropped' = dropped
      /\ pass' = pass /\ held' = held
  BY Zenon DEF counts
<1>3. Drains' /\ HeldBack'
  <2>1. parked \subseteq parked' /\ \A j \in Range(queue') : j \in Range(queue)
    BY <1>2, Zenon
  <2> QED
    BY <1>1, <2>1, DrainStays, Zenon
<1>4. TypeOK'
  BY <1>1, <1>2, Zenon DEF OutboxInv, TypeOK, Typed, Wakes
<1> QED
  BY <1>1, <1>3, <1>4, Zenon DEF OutboxInv

(* parkLocked and parkEventLocked park behind what the cap leaves.         *)
LEMMA ParkedBehind ==
  ASSUME OutboxInv, NEW i \in Items, NEW l \in {"kick", "retry", "done"},
         pc[i] \in {"check", "park"}, parkLocked(i) \/ parkEventLocked(i), Goto(i, l)
  PROVE  /\ \E q : Parks(i, q, l)
         /\ Len(queue') <= Cap
         /\ \A j \in dropped' \ dropped : \/ IsEvent(j)
                                          \/ \A n \in 1..Len(queue) : ~IsEvent(queue[n])
<1>1. queue \in Seq(Items) /\ NoRepeat(queue) /\ Cap \in Nat \ {0} /\ Len(queue) \in Nat
  BY OutboxAssumption DEF OutboxInv, TypeOK, Ledger, Accounts
<1>2. pc' = [pc EXCEPT ![i] = l]
  BY Zenon DEF Goto
<1>3. CASE Len(queue) < Cap
  <2>1. /\ queue' = Append(queue, i) /\ parked' = parked \cup {i}
        /\ dropped' = dropped /\ drained' = drained
    BY <1>1, <1>3 DEF parkLocked, parkEventLocked
  <2>2. dropped' = dropped \cup (Range(queue) \ Range(queue)) /\ dropped' \ dropped = {}
    BY <2>1
  <2>3. Parks(i, queue, l)
    BY <1>1, <1>2, <2>1, <2>2, Zenon DEF Parks, OutboxInv, Ledger, InLine
  <2>4. Len(queue') <= Cap
    BY <1>1, <1>3, <2>1
  <2> QED
    BY <2>2, <2>3, <2>4, Zenon
<1>4. CASE Len(queue) >= Cap
  <2> DEFINE v == Victim
             w == Without(queue, v)
  <2>1. /\ queue' = Append(w, i) /\ parked' = parked \cup {i}
        /\ dropped' = dropped \cup {queue[v]} /\ drained' = drained
    BY <1>1, <1>4 DEF parkLocked, parkEventLocked
  <2>2. queue # <<>>
    BY <1>1, <1>4
  <2>3. v \in 1..Len(queue) /\ ((\E n \in 1..Len(queue) : IsEvent(queue[n])) => IsEvent(queue[v]))
    BY <1>1, <2>2, VictimIsQueued, Zenon
  <2> HIDE DEF v
  <2>4. /\ w \in Seq(Items) /\ NoRepeat(w)
        /\ Range(w) = Range(queue) \ {queue[v]} /\ queue[v] \in Range(queue)
        /\ Len(w) = Len(queue) - 1
        /\ Ordered => \A k, m \in 1..Len(w) : Earlier(w[k], w[m]) => k < m
    BY <2>3, WithoutInLine, Zenon
  <2> HIDE DEF w
  <2>5. dropped' = dropped \cup (Range(queue) \ Range(w)) /\ Range(w) \subseteq Range(queue)
    BY <2>1, <2>4
  <2>6. Parks(i, w, l)
    BY <1>2, <2>1, <2>4, <2>5, Zenon DEF Parks
  <2>7. Len(queue') <= Cap
    <3>1. Len(queue') = Len(queue)
      BY <1>1, <2>1, <2>4
    <3> QED
      BY <3>1 DEF OutboxInv, TypeOK
  <2> QED
    BY <2>1, <2>3, <2>6, <2>7, Zenon
<1> QED
  BY <1>1, <1>3, <1>4

(* An emission is parked.                                                  *)
LEMMA ParksInv ==
  ASSUME OutboxInv, NEW i \in Items, NEW l \in {"kick", "retry", "done"},
         pc[i] \in {"check", "park"}, parkLocked(i) \/ parkEventLocked(i), Goto(i, l),
         UNCHANGED <<Others, draining, again, busState>>
  PROVE  OutboxInv'
<1>1. PICK q : Parks(i, q, l)
  BY ParkedBehind, Zenon
<1>2. Len(queue') <= Cap
  BY ParkedBehind, Zenon
<1>3. Typed' /\ log' = log /\ drain' = drain /\ pass' = pass /\ held' = held
  BY TypedStays, Zenon
<1>4. Ledger' /\ pc' \in [Items -> EmitPCs]
  BY <1>1, <1>3, LedgerParks, Zenon
<1>5. /\ q \in Seq(Items) /\ Range(q) \subseteq Range(queue)
      /\ queue' = Append(q, i) /\ parked' = parked \cup {i}
      /\ dropped' = dropped \cup (Range(queue) \ Range(q)) /\ drained' = drained
  BY <1>1, Zenon DEF Parks
<1>6. queue' \in Seq(Items) /\ Range(queue') = Range(q) \cup {i}
  BY <1>5, AppendKeeps
<1>7. Range(queue) \subseteq parked /\ parked \subseteq Items /\ dropped \subseteq Items
  BY Zenon DEF OutboxInv, TypeOK, Ledger, Accounts
<1>8. parked' \subseteq Items /\ dropped' \subseteq Items
  BY <1>5, <1>7
<1>9. Drains' /\ HeldBack'
  <2>1. \A j : OnBus(j) => OnBus(j)'
    BY <1>3, Zenon DEF OnBus
  <2>2. \A j \in Range(queue') : j \in Range(queue) \/ (j \in Items /\ pc[j] \in {"check", "park"})
    BY <1>5, <1>6, Zenon
  <2>3. parked \subseteq parked'
    BY <1>5
  <2> QED
    BY <1>3, <2>1, <2>2, <2>3, DrainStays, Zenon
<1>10. TypeOK'
  BY <1>2, <1>3, <1>4, <1>5, <1>6, <1>8, Zenon DEF OutboxInv, TypeOK, Typed
<1> QED
  BY <1>4, <1>9, <1>10, Zenon DEF OutboxInv

(* The steps of an emission.                                               *)
LEMMA WaitInv ==
  ASSUME OutboxInv, NEW i \in Items, EmitBegin(i) \/ EmitMoved(i) \/ EmitWaitedLong(i)
  PROVE  OutboxInv'
<1>1. /\ UNCHANGED <<Others, queue, counts, draining, again, busState>>
      /\ pc[i] \in {"new", "waiting", "moved"}
  BY DEF EmitBegin, EmitMoved, EmitWaitedLong
<1>2. PICK l \in {"waiting", "check"} : pc' = [pc EXCEPT ![i] = l]
  BY Zenon DEF EmitBegin, EmitMoved, EmitWaitedLong, Goto
<1>3. pc[i] = "new" => \A j \in Items : Earlier(j, i) => pc[j] \in {"done", "failed"}
  BY DEF EmitBegin, EmitMoved, EmitWaitedLong, Earlier
<1>4. i \notin parked
  BY <1>1 DEF OutboxInv, Ledger, Settled
<1>5. Moves(i, l)
  <2>1. l \in EmitPCs \ {"new"} /\ pc[i] \notin {"done", "failed"}
    BY <1>1 DEF EmitPCs
  <2> QED
    BY <1>2, <1>3, <1>4, <2>1, Zenon DEF Moves
<1>6. LogGrows /\ UNCHANGED <<queue, counts>> /\ UNCHANGED <<pass, held>> /\ drain' = drain
  BY <1>1, TypedStays, Zenon DEF LogGrows
<1>7. Typed'
  BY <1>1, TypedStays, Zenon
<1> QED
  BY <1>5, <1>6, <1>7, MovesInv, Zenon

(* parkIfHeld and parkEventIfHeld.                                         *)
LEMMA ParkIfHeldInv ==
  ASSUME OutboxInv, NEW i \in Items, ParkIfHeld(i)
  PROVE  OutboxInv'
<1>1. UNCHANGED <<Others, draining, again, busState>> /\ pc[i] = "check"
  BY Zenon DEF ParkIfHeld
<1>2. CASE (parkLocked(i) \/ parkEventLocked(i)) /\ Goto(i, "kick")
  <2>1. "kick" \in {"kick", "retry", "done"} /\ pc[i] \in {"check", "park"}
    BY <1>1, Zenon
  <2> QED
    BY <1>1, <1>2, <2>1, ParksInv, Zenon
<1>3. ASSUME NEW l \in {"publish", "refused"}, Goto(i, l), UNCHANGED <<queue, counts>>,
             l = "publish" => ~(Ordered /\ HoldsSubject(SubjectOf[i]))
      PROVE  OutboxInv'
  <2>1. i \notin parked
    BY <1>1 DEF OutboxInv, Ledger, Settled
  <2>2. ASSUME Ordered, l = "publish", NEW j \in Items, Earlier(j, i) PROVE j \notin Range(queue)
    <3>1. DOMAIN queue = 1..Len(queue)
      BY LenProperties, Zenon DEF OutboxInv, TypeOK
    <3> QED
      BY <1>3, <2>2, <3>1, Zenon DEF HoldsSubject, Earlier, Range
  <2>3. Moves(i, l)
    <3>1. l \in EmitPCs \ {"new"} /\ pc[i] \notin {"done", "failed"} /\ pc[i] # "new"
          /\ l \notin {"accepted", "kick", "retry", "done"}
      BY <1>1 DEF EmitPCs
    <3> QED
      BY <1>3, <2>1, <2>2, <3>1, Zenon DEF Moves, Goto
  <2>4. LogGrows /\ UNCHANGED <<pass, held>> /\ drain' = drain
    BY <1>1, TypedStays, Zenon DEF LogGrows
  <2>5. Typed'
    BY <1>1, TypedStays, Zenon
  <2> QED
    BY <1>3, <2>3, <2>4, <2>5, MovesInv, Zenon
<1> QED
  BY <1>2, <1>3, Zenon DEF ParkIfHeld

(* A publish: what the bus takes is at the end of its log.                 *)
LEMMA PublishAnswers ==
  ASSUME OutboxInv, NEW i \in Items, NEW answer, Publish(i, answer)
  PROVE  /\ faults' \in 0..MaxFaults /\ owed' \subseteq Items
         /\ log' = log \/ log' = Append(log, i)
         /\ answer = "nil" => OnBus(i)'
         /\ answer = "ErrInvalidMessage" => i \in Invalid /\ log' = log
<1>1. faults \in 0..MaxFaults /\ owed \subseteq Items /\ log \in Seq(Items) /\ MaxFaults \in Nat
  BY OutboxAssumption, Zenon DEF OutboxInv, TypeOK
<1>2. /\ faults' = faults \/ (faults < MaxFaults /\ faults' = faults + 1)
      /\ owed' = owed \/ owed' = {}
      /\ log' = log \/ Accept(i)
      /\ answer = "nil" => Accept(i)
      /\ answer = "ErrInvalidMessage" => i \in Invalid /\ log' = log
  BY Zenon DEF Publish
<1>3. faults' \in 0..MaxFaults /\ owed' \subseteq Items
  BY <1>1, <1>2
<1>4. log' = log \/ log' = Append(log, i)
  BY <1>2, Zenon DEF Accept
<1>5. ASSUME answer = "nil" PROVE OnBus(i)'
  <2>1. CASE OnBus(i)
    BY <1>2, <1>5, <2>1, Zenon DEF Accept, OnBus
  <2>2. CASE ~OnBus(i)
    <3>1. log' = Append(log, i)
      BY <1>2, <1>5, <2>2, Zenon DEF Accept
    <3>2. Range(log') = Range(log) \cup {i}
      BY <1>1, <3>1, AppendKeeps
    <3> QED
      BY <3>2 DEF OnBus
  <2> QED
    BY <2>1, <2>2, Zenon
<1> QED
  BY <1>2, <1>3, <1>4, <1>5, Zenon

(* The live publish: a clear subject has no queued predecessor.            *)
LEMMA EmitPublishInv ==
  ASSUME OutboxInv, NEW i \in Items, EmitPublish(i)
  PROVE  OutboxInv'
<1>1. /\ pc[i] = "publish"
      /\ UNCHANGED <<bus, queue, counts, draining, again, busState, drainVars, loopVars, shutdown>>
  BY Zenon DEF EmitPublish
<1>2. PICK answer \in {"nil", "error", "ErrInvalidMessage"}, l \in {"accepted", "failed", "park"} :
        Publish(i, answer) /\ pc' = [pc EXCEPT ![i] = l] /\ (l = "accepted" => answer = "nil")
  BY Zenon DEF EmitPublish, Goto
<1>3. /\ faults' \in 0..MaxFaults /\ owed' \subseteq Items
      /\ log' = log \/ log' = Append(log, i)
      /\ answer = "nil" => OnBus(i)'
  BY <1>2, PublishAnswers, Zenon
<1>4. i \notin parked
  BY <1>1 DEF OutboxInv, Ledger, Settled
<1>5. ASSUME Ordered, NEW h \in Items, Earlier(h, i)
      PROVE  OnBus(h) \/ h \in dropped \/ pc[h] = "failed"
  <2>1. pc[h] \in {"done", "failed"}
    BY <1>1, <1>5 DEF OutboxInv, Ledger, InTurn
  <2>2. h \notin Range(queue)
    BY <1>1, <1>5, Zenon DEF OutboxInv, Ledger, Clear
  <2>3. pc[h] = "done" => OnBus(h) \/ h \in parked
    BY Zenon DEF OutboxInv, Ledger, Kept
  <2>4. h \in parked => OnBus(h) \/ h \in dropped
    BY <2>2, Zenon DEF OutboxInv, Ledger, Accounts, Kept
  <2> QED
    BY <2>1, <2>3, <2>4, Zenon
<1>6. LogGrows
  <2>1. pc[i] # "new"
    BY <1>1
  <2> QED
    BY <1>3, <1>5, <2>1, Zenon DEF LogGrows
<1>7. Moves(i, l)
  <2>1. /\ l \in EmitPCs \ {"new"} /\ pc[i] \notin {"done", "failed"} /\ pc[i] # "new"
        /\ l # "publish" /\ (l \in {"accepted", "kick", "retry", "done"} => l = "accepted")
    BY <1>1 DEF EmitPCs
  <2> QED
    BY <1>2, <1>3, <1>4, <2>1, Zenon DEF Moves
<1>8. UNCHANGED <<queue, counts>> /\ UNCHANGED <<pass, held>> /\ drain' = drain
  BY <1>1, Zenon DEF drainVars
<1>9. Typed'
  <2>1. /\ bus' = bus /\ drain' = drain /\ attempt' = attempt /\ forwarded' = forwarded
        /\ drainCtx' = drainCtx /\ retrying' = retrying /\ loop' = loop /\ shutdown' = shutdown
        /\ draining' = draining /\ again' = again /\ busState' = busState
    BY <1>1, Zenon DEF drainVars, loopVars
  <2>2. Typed
    BY Zenon DEF OutboxInv, TypeOK, Typed
  <2> QED
    BY <1>3, <2>1, <2>2 DEF Typed
<1> QED
  BY <1>6, <1>7, <1>8, <1>9, MovesInv, Zenon

(* A refused emission is parked, or fails at a full outbox.                *)
LEMMA ParkInv ==
  ASSUME OutboxInv, NEW i \in Items, Park(i)
  PROVE  OutboxInv'
<1>1. UNCHANGED <<Others, draining, again, busState>> /\ pc[i] = "park"
  BY Zenon DEF Park
<1>2. ASSUME NEW l \in {"retry", "done"}, parkLocked(i) \/ parkEventLocked(i), Goto(i, l)
      PROVE  OutboxInv'
  <2>1. l \in {"kick", "retry", "done"} /\ pc[i] \in {"check", "park"}
    BY <1>1, Zenon
  <2> QED
    BY <1>1, <1>2, <2>1, ParksInv, Zenon
<1>3. CASE Goto(i, "failed") /\ UNCHANGED <<queue, counts>>
  <2>1. i \notin parked
    BY <1>1 DEF OutboxInv, Ledger, Settled
  <2>2. Moves(i, "failed")
    <3>1. "failed" \in EmitPCs \ {"new"} /\ pc[i] \notin {"done", "failed"} /\ pc[i] # "new"
      BY <1>1 DEF EmitPCs
    <3> QED
      BY <1>3, <2>1, <3>1, Zenon DEF Moves, Goto
  <2>3. LogGrows /\ UNCHANGED <<pass, held>> /\ drain' = drain /\ Typed'
    BY <1>1, TypedStays, Zenon DEF LogGrows
  <2> QED
    BY <1>3, <2>2, <2>3, MovesInv, Zenon
<1> QED
  BY <1>2, <1>3, Zenon DEF Park

(* An accepted emission looks at the queue.                                *)
LEMMA EmitAcceptedInv ==
  ASSUME OutboxInv, NEW i \in Items, EmitAccepted(i)
  PROVE  OutboxInv'
<1>1. /\ pc[i] = "accepted"
      /\ UNCHANGED <<Others, queue, counts, draining, again, busState>>
  BY Zenon DEF EmitAccepted
<1>2. PICK l \in {"done", "kick"} : pc' = [pc EXCEPT ![i] = l]
  BY Zenon DEF EmitAccepted, Goto
<1>3. OnBus(i) \/ i \in parked
  BY <1>1 DEF OutboxInv, Ledger, Kept
<1>4. Moves(i, l)
  <2>1. /\ l \in EmitPCs \ {"new"} /\ pc[i] \notin {"done", "failed"} /\ pc[i] # "new"
        /\ l # "publish" /\ l \in {"kick", "retry", "done"}
    BY <1>1 DEF EmitPCs
  <2> QED
    BY <1>2, <1>3, <2>1, Zenon DEF Moves
<1>5. LogGrows /\ UNCHANGED <<queue, counts>> /\ UNCHANGED <<pass, held>> /\ drain' = drain /\ Typed'
  BY <1>1, TypedStays, Zenon DEF LogGrows
<1> QED
  BY <1>4, <1>5, MovesInv, Zenon

(* beginDrain starts a drain or leaves the running one alone.              *)
LEMMA BeginDrainTyped ==
  ASSUME OutboxInv, NEW ctx \in {"background", "shutdown"}, beginDrain(ctx)
  PROVE  /\ draining' \in BOOLEAN /\ again' \in BOOLEAN /\ busState' \in {"unknown", "up", "down"}
         /\ drain' \in DrainPCs /\ (drain' = drain \/ ~Handles(drain'))
         /\ pass' = pass /\ held' = held /\ attempt' = attempt /\ forwarded' = forwarded
         /\ drainCtx' \in {"background", "shutdown", "expired"}
<1>1. Typed
  BY Zenon DEF OutboxInv, TypeOK, Typed
<1>2. CASE draining /\ again' = TRUE /\ UNCHANGED <<draining, busState, drainVars>>
  BY <1>1, <1>2, Zenon DEF Typed, drainVars
<1>3. CASE /\ draining' = TRUE /\ busState' = "unknown" /\ drain' = "pass" /\ drainCtx' = ctx
           /\ UNCHANGED <<again, pass, attempt, forwarded, held>>
  <2>1. "pass" \in DrainPCs /\ ~Handles("pass")
    BY DEF DrainPCs, Handles
  <2> QED
    BY <1>1, <1>3, <2>1, Zenon DEF Typed
<1> QED
  BY <1>2, <1>3, Zenon DEF beginDrain

(* kickDrain at the end of an emission.                                    *)
LEMMA KickInv ==
  ASSUME OutboxInv, NEW i \in Items, Kick(i)
  PROVE  OutboxInv'
<1>1. /\ pc[i] \in {"kick", "refused"} /\ beginDrain("background")
      /\ UNCHANGED <<busVars, queue, counts, loopVars, shutdown, owed>>
      /\ pc' = [pc EXCEPT ![i] = IF pc[i] = "kick" THEN "done" ELSE "failed"]
  BY Zenon DEF Kick, Goto
<1>2. PICK l : /\ l \in {"done", "failed"} /\ pc' = [pc EXCEPT ![i] = l]
               /\ (pc[i] = "kick" /\ l = "done") \/ (pc[i] = "refused" /\ l = "failed")
  BY <1>1, Zenon
<1>3. pc[i] = "kick" => OnBus(i) \/ i \in parked
  BY DEF OutboxInv, Ledger, Kept
<1>4. pc[i] = "refused" => i \notin parked
  BY DEF OutboxInv, Ledger, Settled
<1>5. Moves(i, l)
  <2>1. /\ l \in EmitPCs \ {"new"} /\ pc[i] \notin {"done", "failed"} /\ pc[i] # "new"
        /\ l # "publish"
    BY <1>1, <1>2 DEF EmitPCs
  <2>2. i \in parked => l \in {"kick", "retry", "done"}
    BY <1>2, <1>4, Zenon
  <2>3. l \in {"accepted", "kick", "retry", "done"} => OnBus(i) \/ i \in parked
    BY <1>2, <1>3
  <2> QED
    BY <1>2, <2>1, <2>2, <2>3, Zenon DEF Moves
<1>6. /\ draining' \in BOOLEAN /\ again' \in BOOLEAN /\ busState' \in {"unknown", "up", "down"}
      /\ drain' \in DrainPCs /\ (drain' = drain \/ ~Handles(drain'))
      /\ pass' = pass /\ held' = held /\ attempt' = attempt /\ forwarded' = forwarded
      /\ drainCtx' \in {"background", "shutdown", "expired"}
  BY <1>1, BeginDrainTyped, Zenon
<1>7. /\ bus' = bus /\ log' = log /\ faults' = faults /\ retrying' = retrying /\ loop' = loop
      /\ shutdown' = shutdown /\ owed' = owed /\ UNCHANGED <<queue, counts>>
  BY <1>1, Zenon DEF busVars, loopVars
<1>8. Typed'
  <2>1. Typed
    BY Zenon DEF OutboxInv, TypeOK, Typed
  <2> QED
    BY <1>6, <1>7, <2>1, Zenon DEF Typed
<1>9. LogGrows /\ UNCHANGED <<pass, held>>
  BY <1>6, <1>7, Zenon DEF LogGrows
<1> QED
  BY <1>5, <1>6, <1>7, <1>8, <1>9, MovesInv, Zenon

(* The retry loop is started, or runs already.                             *)
LEMMA RetryParkedEventsInv ==
  ASSUME OutboxInv, NEW i \in Items, RetryParkedEvents(i)
  PROVE  OutboxInv'
<1>1. /\ pc[i] = "retry" /\ pc' = [pc EXCEPT ![i] = "done"]
      /\ UNCHANGED <<busVars, queue, counts, draining, again, busState, drainVars, shutdown, owed>>
      /\ UNCHANGED loopVars \/ (retrying' = TRUE /\ loop' = "ticking")
  BY Zenon DEF RetryParkedEvents, Goto
<1>2. OnBus(i) \/ i \in parked
  BY <1>1 DEF OutboxInv, Ledger, Kept
<1>3. Moves(i, "done")
  <2>1. /\ "done" \in EmitPCs \ {"new"} /\ pc[i] \notin {"done", "failed"} /\ pc[i] # "new"
    BY <1>1 DEF EmitPCs
  <2> QED
    BY <1>1, <1>2, <2>1, Zenon DEF Moves
<1>4. /\ bus' = bus /\ log' = log /\ faults' = faults /\ drain' = drain /\ pass' = pass
      /\ attempt' = attempt /\ forwarded' = forwarded /\ held' = held /\ drainCtx' = drainCtx
      /\ shutdown' = shutdown /\ owed' = owed
      /\ draining' = draining /\ again' = again /\ busState' = busState
  BY <1>1, Zenon DEF busVars, drainVars
<1>5. Typed'
  <2>1. Typed
    BY Zenon DEF OutboxInv, TypeOK, Typed
  <2>2. retrying' \in BOOLEAN /\ loop' \in {"off", "ticking", "kick", "ending"}
    BY <1>1, <2>1, Zenon DEF Typed, loopVars
  <2> QED
    BY <1>4, <2>1, <2>2 DEF Typed
<1>6. LogGrows /\ UNCHANGED <<queue, counts>> /\ UNCHANGED <<pass, held>>
  BY <1>1, <1>4, Zenon DEF LogGrows
<1> QED
  BY <1>3, <1>4, <1>5, <1>6, MovesInv, Zenon

-----------------------------------------------------------------------------
(* A step of the drain that leaves the queue alone.                        *)
LEMMA PassInv ==
  ASSUME OutboxInv, SignalMoved \/ UNCHANGED pc, LogGrows, UNCHANGED <<queue, counts>>, Typed',
         Drains', HeldBack', pass' \in Seq(Items), held' \subseteq {SubjectOf[i] : i \in Items}
  PROVE  OutboxInv'
<1>1. Wakes
  BY WakesBy, Zenon
<1>2. Ledger' /\ log' \in Seq(Items)
  BY <1>1, LedgerWakes, Zenon
<1>3. TypeOK'
  <2>1. queue' = queue /\ parked' = parked /\ drained' = drained /\ dropped' = dropped
    BY Zenon DEF counts
  <2> QED
    BY <1>1, <1>2, <2>1, Zenon DEF OutboxInv, TypeOK, Typed, Wakes
<1> QED
  BY <1>2, <1>3, Zenon DEF OutboxInv

(* The drain ends and forgets its pass.                                    *)
LEMMA StopDrainInv ==
  ASSUME OutboxInv, StopDrain, UNCHANGED <<busVars, queue, counts, loopVars, shutdown, owed>>
  PROVE  OutboxInv'
<1>1. /\ draining' = FALSE /\ busState' = "unknown" /\ again' = FALSE /\ drain' = "idle"
      /\ pass' = <<>> /\ attempt' = 0 /\ forwarded' = FALSE /\ held' = {}
      /\ drainCtx' = "background" /\ SignalMoved
  BY Zenon DEF StopDrain
<1>2. /\ bus' = bus /\ log' = log /\ faults' = faults /\ retrying' = retrying /\ loop' = loop
      /\ shutdown' = shutdown /\ owed' = owed /\ UNCHANGED <<queue, counts>>
  BY Zenon DEF busVars, loopVars
<1>3. Typed'
  <2>1. Typed
    BY Zenon DEF OutboxInv, TypeOK, Typed
  <2>2. "idle" \in DrainPCs /\ 0 \in 0..Retries
    BY OutboxAssumption DEF DrainPCs
  <2> QED
    BY <1>1, <1>2, <2>1, <2>2, Zenon DEF Typed
<1>4. Drains' /\ HeldBack'
  <2>1. ~Handles(drain')
    BY <1>1 DEF Handles
  <2> QED
    BY <1>1, <2>1, DrainStops, Zenon
<1>5. pass' \in Seq(Items) /\ held' \subseteq {SubjectOf[i] : i \in Items}
  BY <1>1
<1>6. LogGrows
  BY <1>2, Zenon DEF LogGrows
<1> QED
  BY <1>1, <1>2, <1>3, <1>4, <1>5, <1>6, PassInv, Zenon

(* The drain handles the head of its pass, whose subject is not held back. *)
LEMMA DrainTurns ==
  ASSUME OutboxInv, pass # <<>>, pass' = pass, held' = held, queue' = queue, parked' = parked,
         Ordered => SubjectOf[Head(pass)] \notin held,
         drain' = "sent" => Head(pass) \in Range(log'),
         drain' = "rejected" => Head(pass) \in Invalid
  PROVE  Drains' /\ HeldBack'
<1>1. Drains'
  BY Zenon DEF OutboxInv, Drains, OnBus
<1>2. HeldBack'
  <2>1. Ordered => \A n \in 1..Len(pass) : \A i \in Range(queue) :
          Earlier(i, pass[n]) => SubjectOf[i] \in held \/ \E m \in 1..n - 1 : pass[m] = i
    BY Zenon DEF OutboxInv, HeldBack
  <2>2. Ordered => \A n \in 1..Len(pass') : \A i \in Range(queue') :
          Earlier(i, pass'[n]) => SubjectOf[i] \in held' \/ \E m \in 1..n - 1 : pass'[m] = i
    BY <2>1, Zenon
  <2>3. Ordered => SubjectOf[Head(pass')] \notin held'
    BY Zenon
  <2> QED
    BY <2>2, <2>3, Zenon DEF HeldBack, Earlier
<1> QED
  BY <1>1, <1>2

(* A snapshot has the queue in its line, with nothing held back.           *)
LEMMA DrainPassInv ==
  ASSUME OutboxInv, DrainPass
  PROVE  OutboxInv'
<1>1. UNCHANGED <<busVars, queue, counts, loopVars, shutdown, owed>>
  BY Zenon DEF DrainPass
<1>2. CASE StopDrain
  BY <1>1, <1>2, StopDrainInv, Zenon
<1>3. CASE /\ pass' = queue /\ drain' = "next" /\ forwarded' = FALSE /\ held' = {}
           /\ UNCHANGED <<draining, again, busState, attempt, drainCtx, pc>>
  <2>1. /\ bus' = bus /\ log' = log /\ faults' = faults /\ retrying' = retrying /\ loop' = loop
        /\ shutdown' = shutdown /\ owed' = owed /\ queue' = queue /\ UNCHANGED <<queue, counts>>
        /\ parked' = parked
    BY <1>1, Zenon DEF busVars, loopVars, counts
  <2>2. Typed'
    <3>1. Typed
      BY Zenon DEF OutboxInv, TypeOK, Typed
    <3>2. "next" \in DrainPCs
      BY DEF DrainPCs
    <3> QED
      BY <1>3, <2>1, <3>1, <3>2, ZenonT(60) DEF Typed
  <2>3. ~Handles(drain')
    BY <1>3 DEF Handles
  <2>4. Drains'
    BY <1>3, <2>1, <2>3, Zenon DEF OutboxInv, Ledger, Accounts, Drains, Handles
  <2>5. ASSUME Ordered, NEW n \in 1..Len(queue), NEW i \in Range(queue), Earlier(i, queue[n])
        PROVE  \E m \in 1..n - 1 : queue[m] = i
    <3>1. queue \in Seq(Items) /\ DOMAIN queue = 1..Len(queue) /\ Len(queue) \in Nat
      BY LenProperties, Zenon DEF OutboxInv, TypeOK
    <3>2. PICK m \in 1..Len(queue) : queue[m] = i
      BY <3>1, Zenon DEF Range
    <3>3. m < n
      BY <2>5, <3>2, Zenon DEF OutboxInv, Ledger, InLine
    <3>4. m \in 1..n - 1
      BY <3>1, <3>3
    <3> QED
      BY <3>2, <3>4, Zenon
  <2>6. HeldBack'
    <3>1. Ordered => \A n \in 1..Len(pass') : \A i \in Range(queue') :
            Earlier(i, pass'[n]) => \E m \in 1..n - 1 : pass'[m] = i
      BY <1>3, <2>1, <2>5, Zenon
    <3> QED
      BY <2>3, <3>1, Zenon DEF HeldBack, Handles, Earlier
  <2>7. pass' \in Seq(Items) /\ held' \subseteq {SubjectOf[i] : i \in Items}
    BY <1>3 DEF OutboxInv, TypeOK
  <2>8. LogGrows
    BY <2>1, Zenon DEF LogGrows
  <2> QED
    BY <1>3, <2>1, <2>2, <2>4, <2>6, <2>7, <2>8, PassInv, Zenon
<1> QED
  BY <1>2, <1>3, Zenon DEF DrainPass

(* An item is skipped when its subject is held back.                       *)
LEMMA DrainNextInv ==
  ASSUME OutboxInv, DrainNext
  PROVE  OutboxInv'
<1>1. UNCHANGED <<busVars, queue, counts, loopVars, shutdown, owed>> /\ pass # <<>>
  BY Zenon DEF DrainNext
<1>2. CASE StopDrain
  BY <1>1, <1>2, StopDrainInv, Zenon
<1>3. CASE /\ \/ Ordered /\ SubjectOf[Head(pass)] \in held /\ NextInPass
              \/ /\ ~(Ordered /\ SubjectOf[Head(pass)] \in held)
                 /\ drain' = "attempt" /\ UNCHANGED <<pass, attempt, drainCtx>>
           /\ UNCHANGED <<draining, again, busState, forwarded, held, pc>>
  <2>1. /\ bus' = bus /\ log' = log /\ faults' = faults /\ retrying' = retrying /\ loop' = loop
        /\ shutdown' = shutdown /\ owed' = owed /\ queue' = queue /\ UNCHANGED <<queue, counts>>
        /\ parked' = parked
    BY <1>1, Zenon DEF busVars, loopVars, counts
  <2>2. /\ drain' \in {"next", "attempt"} /\ attempt' \in {0, attempt} /\ drainCtx' = drainCtx
        /\ draining' = draining /\ again' = again /\ busState' = busState
        /\ forwarded' = forwarded /\ held' = held /\ UNCHANGED pc
    BY <1>3, Zenon DEF NextInPass
  <2>3. Typed'
    <3>1. Typed
      BY Zenon DEF OutboxInv, TypeOK, Typed
    <3>2. drain' \in DrainPCs /\ attempt' \in 0..Retries
      BY <2>2, <3>1, OutboxAssumption DEF DrainPCs, Typed
    <3> QED
      BY <2>1, <2>2, <3>1, <3>2 DEF Typed
  <2>4. Drains' /\ HeldBack' /\ pass' \in Seq(Items)
    <3>1. CASE SubjectOf[Head(pass)] \in held /\ NextInPass
      <4>1. pass' = Tail(pass) /\ drain' = "next"
        BY <3>1, Zenon DEF NextInPass
      <4> QED
        BY <1>1, <2>1, <2>2, <3>1, <4>1, DrainGoesOn, Zenon
    <3>2. CASE ~(Ordered /\ SubjectOf[Head(pass)] \in held) /\ drain' = "attempt" /\ pass' = pass
      <4>1. drain' # "sent" /\ drain' # "rejected"
        BY <3>2
      <4>2. Drains' /\ HeldBack'
        BY <1>1, <2>1, <2>2, <3>2, <4>1, DrainTurns, Zenon
      <4> QED
        BY <3>2, <4>2, Zenon DEF OutboxInv, TypeOK
    <3> QED
      BY <1>3, <3>1, <3>2, Zenon
  <2>5. held' \subseteq {SubjectOf[i] : i \in Items}
    BY <2>2, Zenon DEF OutboxInv, TypeOK
  <2>6. LogGrows
    BY <2>1, Zenon DEF LogGrows
  <2> QED
    BY <2>1, <2>2, <2>3, <2>4, <2>5, <2>6, PassInv, Zenon
<1> QED
  BY <1>2, <1>3, Zenon DEF DrainNext

(* The end of a pass.                                                      *)
LEMMA DrainEndPassInv ==
  ASSUME OutboxInv, DrainEndPass
  PROVE  OutboxInv'
<1>1. UNCHANGED <<busVars, queue, counts, loopVars, shutdown, owed>>
  BY Zenon DEF DrainEndPass
<1>2. CASE StopDrain
  BY <1>1, <1>2, StopDrainInv, Zenon
<1>3. CASE /\ drain' = "pass" /\ again' = (again /\ forwarded)
           /\ UNCHANGED <<draining, busState, pass, attempt, forwarded, held, drainCtx, pc>>
  <2>1. /\ bus' = bus /\ log' = log /\ faults' = faults /\ retrying' = retrying /\ loop' = loop
        /\ shutdown' = shutdown /\ owed' = owed /\ UNCHANGED <<queue, counts>>
    BY <1>1, Zenon DEF busVars, loopVars
  <2>2. Typed'
    <3>1. Typed
      BY Zenon DEF OutboxInv, TypeOK, Typed
    <3>2. drain' \in DrainPCs
      BY <1>3 DEF DrainPCs
    <3>3. again' \in BOOLEAN
      BY <1>3, Zenon
    <3> QED
      BY <1>3, <2>1, <3>1, <3>2, <3>3 DEF Typed
  <2>3. ~Handles(drain')
    BY <1>3 DEF Handles
  <2>4. LogGrows
    BY <2>1, Zenon DEF LogGrows
  <2>5. Wakes
    BY <1>3, WakesBy, Zenon
  <2> QED
    BY <1>3, <2>1, <2>2, <2>3, <2>4, <2>5, WakesInv, Zenon
<1> QED
  BY <1>2, <1>3, Zenon DEF DrainEndPass

(* An item that the cap evicted is passed over.                            *)
LEMMA DrainAttemptInv ==
  ASSUME OutboxInv, DrainAttempt
  PROVE  OutboxInv'
<1>1. /\ drain = "attempt"
      /\ UNCHANGED <<busVars, queue, counts, draining, again, busState, forwarded, pc,
                     loopVars, shutdown, owed>>
  BY Zenon DEF DrainAttempt
<1>2. Handles(drain) /\ Handles("send")
  BY <1>1 DEF Handles
<1>3. pass # <<>> /\ pass \in Seq(Items) /\ Head(pass) \in Items
  <2>1. pass # <<>> /\ pass \in Seq(Items)
    BY <1>2, Zenon DEF OutboxInv, Drains, TypeOK
  <2> QED
    BY <2>1, TailKeeps
<1>4. /\ bus' = bus /\ log' = log /\ faults' = faults /\ retrying' = retrying /\ loop' = loop
      /\ shutdown' = shutdown /\ owed' = owed /\ queue' = queue /\ UNCHANGED <<queue, counts>>
      /\ parked' = parked /\ draining' = draining /\ again' = again /\ busState' = busState
      /\ forwarded' = forwarded /\ UNCHANGED pc
  BY <1>1, Zenon DEF busVars, loopVars, counts
<1>5. /\ drain' \in {"next", "send"} /\ attempt' \in {0, attempt} /\ drainCtx' = drainCtx
      /\ held' = held \/ held' = held \cup {SubjectOf[Head(pass)]}
  BY Zenon DEF DrainAttempt, NextInPass
<1>6. Typed'
  <2>1. Typed
    BY Zenon DEF OutboxInv, TypeOK, Typed
  <2>2. drain' \in DrainPCs /\ attempt' \in 0..Retries
    BY <1>5, <2>1, OutboxAssumption DEF DrainPCs, Typed
  <2> QED
    BY <1>4, <1>5, <2>1, <2>2 DEF Typed
<1>7. Drains' /\ HeldBack' /\ pass' \in Seq(Items)
  <2>1. CASE /\ NextInPass
             /\ \/ held' = held \cup {SubjectOf[Head(pass)]}
                \/ Head(pass) \notin Range(queue) /\ held' = held
    <3>1. pass' = Tail(pass) /\ drain' = "next"
      BY <2>1, Zenon DEF NextInPass
    <3>2. held \subseteq held' /\ (Head(pass) \notin Range(queue') \/ SubjectOf[Head(pass)] \in held')
      BY <1>4, <2>1
    <3> QED
      BY <1>3, <1>4, <3>1, <3>2, DrainGoesOn, Zenon
  <2>2. CASE drain' = "send" /\ UNCHANGED <<pass, held>>
    <3>1. drain' # "sent" /\ drain' # "rejected"
      BY <2>2
    <3>2. Ordered => SubjectOf[Head(pass)] \notin held
      BY <1>2, Zenon DEF OutboxInv, HeldBack
    <3>3. Drains' /\ HeldBack'
      BY <1>3, <1>4, <2>2, <3>1, <3>2, DrainTurns, Zenon
    <3> QED
      BY <1>3, <2>2, <3>3, Zenon
  <2> QED
    BY <2>1, <2>2, Zenon DEF DrainAttempt
<1>8. held' \subseteq {SubjectOf[i] : i \in Items}
  <2>1. held \subseteq {SubjectOf[i] : i \in Items}
    BY Zenon DEF OutboxInv, TypeOK
  <2> QED
    BY <1>3, <1>5, <2>1
<1>9. LogGrows
  BY <1>4, Zenon DEF LogGrows
<1> QED
  BY <1>4, <1>6, <1>7, <1>8, <1>9, PassInv, Zenon

(* The attempt: no predecessor of the head of the pass is queued, unless   *)
(* its subject is held back.                                               *)
LEMMA HeadIsNext ==
  ASSUME OutboxInv, Handles(drain)
  PROVE  /\ pass # <<>> /\ pass \in Seq(Items) /\ Head(pass) \in Items
         /\ Head(pass) \in parked /\ pc[Head(pass)] # "new"
         /\ Ordered => SubjectOf[Head(pass)] \notin held
         /\ Ordered => \A h \in Items : Earlier(h, Head(pass)) =>
                         OnBus(h) \/ h \in dropped \/ pc[h] = "failed"
<1> DEFINE it == Head(pass)
<1>1. pass # <<>> /\ pass \in Seq(Items) /\ Range(pass) \subseteq parked
  BY Zenon DEF OutboxInv, Drains, TypeOK
<1>2. it \in Items /\ it \in Range(pass) /\ it = pass[1] /\ Len(pass) \in Nat \ {0}
  BY <1>1, TailKeeps
<1> HIDE DEF it
<1>3. it \in parked /\ pc[it] # "new"
  BY <1>1, <1>2 DEF OutboxInv, Ledger, Settled
<1>4. Ordered => SubjectOf[it] \notin held
  BY Zenon DEF OutboxInv, HeldBack, it
<1>5. ASSUME Ordered, NEW h \in Items, Earlier(h, it)
      PROVE  OnBus(h) \/ h \in dropped \/ pc[h] = "failed"
  <2>1. pc[h] \in {"done", "failed"}
    BY <1>2, <1>3, <1>5, Zenon DEF OutboxInv, Ledger, InTurn
  <2>2. h \notin Range(queue)
    <3>1. SUFFICES ASSUME h \in Range(queue) PROVE FALSE
      BY Zenon
    <3>2. 1 \in 1..Len(pass) /\ \A m \in 1..1 - 1 : FALSE
      BY <1>2
    <3>3. SubjectOf[h] \in held \/ \E m \in 1..1 - 1 : pass[m] = h
      BY <1>2, <1>5, <3>1, <3>2, Zenon DEF OutboxInv, HeldBack
    <3> QED
      BY <1>4, <1>5, <3>2, <3>3, Zenon DEF Earlier
  <2>3. pc[h] = "done" => OnBus(h) \/ h \in parked
    BY Zenon DEF OutboxInv, Ledger, Kept
  <2>4. h \in parked => OnBus(h) \/ h \in dropped
    BY <2>2, Zenon DEF OutboxInv, Ledger, Accounts, Kept
  <2> QED
    BY <2>1, <2>3, <2>4, Zenon
<1> QED
  BY <1>1, <1>2, <1>3, <1>4, <1>5, Zenon DEF it

(* The attempt keeps the order, and a failed one holds the subject back.   *)
LEMMA DrainSendInv ==
  ASSUME OutboxInv, DrainSend
  PROVE  OutboxInv'
<1> DEFINE it == Head(pass)
<1>1. /\ drain = "send"
      /\ SignalMoved \/ UNCHANGED pc
      /\ UNCHANGED <<bus, queue, counts, draining, again, forwarded, drainCtx, loopVars, shutdown>>
  BY Zenon DEF DrainSend
<1>2. Handles(drain)
  BY <1>1 DEF Handles
<1>3. /\ pass # <<>> /\ pass \in Seq(Items) /\ it \in Items /\ pc[it] # "new"
      /\ Ordered => SubjectOf[it] \notin held
      /\ Ordered => \A h \in Items : Earlier(h, it) => OnBus(h) \/ h \in dropped \/ pc[h] = "failed"
  BY <1>2, HeadIsNext, Zenon
<1>4. PICK answer \in {"nil", "error", "ErrInvalidMessage"} :
        /\ Publish(it, answer) \/ (answer = "error" /\ UNCHANGED <<log, faults, owed>>)
        /\ busState' \in {"down", "up"}
        /\ \/ answer = "nil" /\ drain' = "sent" /\ UNCHANGED <<pass, attempt, held>>
           \/ answer = "ErrInvalidMessage" /\ drain' = "rejected" /\ UNCHANGED <<pass, attempt, held>>
           \/ /\ answer = "error" /\ attempt < Retries
              /\ drain' = "attempt" /\ attempt' = attempt + 1 /\ UNCHANGED <<pass, held>>
           \/ /\ answer = "error" /\ held' = held \cup {SubjectOf[it]}
              /\ drain' = "next" /\ pass' = Tail(pass) /\ attempt' = 0
  BY Zenon DEF DrainSend
<1> HIDE DEF it
<1>5. Typed
  BY Zenon DEF OutboxInv, TypeOK, Typed
<1>6. /\ faults' \in 0..MaxFaults /\ owed' \subseteq Items
      /\ log' = log \/ log' = Append(log, it)
      /\ answer = "nil" => it \in Range(log')
      /\ answer = "ErrInvalidMessage" => it \in Invalid
  <2>1. CASE Publish(it, answer)
    BY <1>3, <2>1, PublishAnswers, Zenon DEF OnBus
  <2>2. CASE answer = "error" /\ UNCHANGED <<log, faults, owed>>
    BY <1>5, <2>2 DEF Typed
  <2> QED
    BY <1>4, <2>1, <2>2, Zenon
<1>7. LogGrows
  BY <1>3, <1>6, Zenon DEF LogGrows
<1>8. /\ bus' = bus /\ draining' = draining /\ again' = again /\ forwarded' = forwarded
      /\ drainCtx' = drainCtx /\ retrying' = retrying /\ loop' = loop /\ shutdown' = shutdown
      /\ queue' = queue /\ parked' = parked /\ UNCHANGED <<queue, counts>>
  BY <1>1, Zenon DEF loopVars, counts
<1>9. Typed'
  <2>1. drain' \in DrainPCs /\ attempt' \in 0..Retries /\ busState' \in {"unknown", "up", "down"}
    BY <1>4, <1>5, OutboxAssumption DEF DrainPCs, Typed
  <2> QED
    BY <1>5, <1>6, <1>8, <2>1 DEF Typed
<1>10. Drains' /\ HeldBack' /\ pass' \in Seq(Items) /\ held' \subseteq {SubjectOf[i] : i \in Items}
  <2>1. held \subseteq {SubjectOf[i] : i \in Items}
    BY Zenon DEF OutboxInv, TypeOK
  <2>2. CASE /\ pass' = pass /\ held' = held /\ (drain' = "sent" => answer = "nil")
             /\ (drain' = "rejected" => answer = "ErrInvalidMessage")
    <3>1. Drains' /\ HeldBack'
      BY <1>3, <1>6, <1>8, <2>2, DrainTurns, Zenon DEF it
    <3> QED
      BY <1>3, <2>1, <2>2, <3>1, Zenon
  <2>3. CASE held' = held \cup {SubjectOf[it]} /\ drain' = "next" /\ pass' = Tail(pass)
    <3>1. held \subseteq held' /\ SubjectOf[it] \in held' /\ held' \subseteq {SubjectOf[i] : i \in Items}
      BY <1>3, <2>1, <2>3
    <3>2. Drains' /\ HeldBack' /\ pass' \in Seq(Items)
      BY <1>3, <1>8, <2>3, <3>1, DrainGoesOn, Zenon DEF it
    <3> QED
      BY <3>1, <3>2
  <2>4. \/ /\ pass' = pass /\ held' = held /\ (drain' = "sent" => answer = "nil")
           /\ (drain' = "rejected" => answer = "ErrInvalidMessage")
        \/ held' = held \cup {SubjectOf[it]} /\ drain' = "next" /\ pass' = Tail(pass)
    BY <1>4
  <2> QED
    BY <2>2, <2>3, <2>4, Zenon
<1> QED
  BY <1>1, <1>7, <1>8, <1>9, <1>10, PassInv, Zenon

(* remove counts an item that is still queued, once.                       *)
LEMMA DrainRemoveInv ==
  ASSUME OutboxInv, DrainRemove
  PROVE  OutboxInv'
<1> DEFINE it == Head(pass)
<1>1. /\ drain \in {"sent", "rejected"} /\ forwarded' = TRUE
      /\ drain' = "next" /\ pass' = Tail(pass) /\ attempt' = 0 /\ drainCtx' = drainCtx
      /\ UNCHANGED <<busVars, parked, draining, again, busState, held, loopVars, shutdown, owed>>
      /\ \/ /\ \E n \in 1..Len(queue) : queue[n] = it /\ queue' = Without(queue, n)
            /\ \/ drain = "sent" /\ drained' = drained \cup {it} /\ UNCHANGED dropped
               \/ drain = "rejected" /\ dropped' = dropped \cup {it} /\ UNCHANGED drained
            /\ SignalMoved
         \/ it \notin Range(queue) /\ UNCHANGED <<queue, drained, dropped, pc>>
  BY Zenon DEF DrainRemove, NextInPass
<1>2. Handles(drain)
  BY <1>1 DEF Handles
<1>3. pass # <<>> /\ it \in Items /\ (drain = "sent" => OnBus(it))
  BY <1>2, HeadIsNext, Zenon DEF OutboxInv, Drains
<1> HIDE DEF it
<1>4. /\ bus' = bus /\ log' = log /\ faults' = faults /\ retrying' = retrying /\ loop' = loop
      /\ shutdown' = shutdown /\ owed' = owed /\ parked' = parked /\ draining' = draining
      /\ again' = again /\ busState' = busState /\ held' = held
  BY <1>1, Zenon DEF busVars, loopVars
<1>5. Typed'
  <2>1. Typed
    BY Zenon DEF OutboxInv, TypeOK, Typed
  <2>2. drain' \in DrainPCs /\ attempt' \in 0..Retries /\ forwarded' \in BOOLEAN
    BY <1>1, OutboxAssumption DEF DrainPCs
  <2> QED
    BY <1>1, <1>4, <2>1, <2>2, ZenonT(60) DEF Typed
<1>6. held' \subseteq {SubjectOf[i] : i \in Items} /\ held \subseteq held'
  BY <1>4, Zenon DEF OutboxInv, TypeOK
<1>7. CASE it \notin Range(queue) /\ UNCHANGED <<queue, drained, dropped, pc>>
  <2>1. UNCHANGED <<queue, counts>> /\ UNCHANGED pc /\ queue' = queue
    BY <1>4, <1>7, Zenon DEF counts
  <2>2. Drains' /\ HeldBack' /\ pass' \in Seq(Items)
    BY <1>1, <1>3, <1>4, <1>6, <1>7, <2>1, DrainGoesOn, Zenon DEF it
  <2>3. LogGrows
    BY <1>4, Zenon DEF LogGrows
  <2> QED
    BY <1>5, <1>6, <2>1, <2>2, <2>3, PassInv, Zenon
<1>8. ASSUME NEW n \in 1..Len(queue), queue[n] = it, queue' = Without(queue, n), SignalMoved,
             \/ drain = "sent" /\ drained' = drained \cup {it} /\ UNCHANGED dropped
             \/ dropped' = dropped \cup {it} /\ UNCHANGED drained
      PROVE  OutboxInv'
  <2>1. Removes(n)
    BY <1>3, <1>4, <1>8, Zenon DEF Removes
  <2>2. Wakes
    BY <1>8, WakesBy, Zenon
  <2>3. /\ Ledger' /\ queue' \in Seq(Items) /\ Range(queue') = Range(queue) \ {queue[n]}
        /\ Len(queue') = Len(queue) - 1
    BY <1>4, <2>1, <2>2, LedgerRemoves, Zenon
  <2>4. Drains' /\ HeldBack' /\ pass' \in Seq(Items)
    <3>1. Range(queue') \subseteq Range(queue) /\ it \notin Range(queue')
      BY <1>8, <2>3
    <3> QED
      BY <1>1, <1>3, <1>4, <1>6, <3>1, DrainGoesOn, Zenon DEF it
  <2>5. drained' \subseteq Items /\ dropped' \subseteq Items /\ Len(queue') <= Cap
    <3>1. /\ drained \subseteq Items /\ dropped \subseteq Items /\ Len(queue) <= Cap
          /\ Len(queue) \in Nat /\ Cap \in Nat
      BY OutboxAssumption DEF OutboxInv, TypeOK
    <3> QED
      BY <1>3, <1>8, <2>3, <3>1
  <2>6. parked' \subseteq Items /\ log' \in Seq(Items) /\ pc' \in [Items -> EmitPCs]
    BY <1>4, <2>2, Zenon DEF OutboxInv, TypeOK, Wakes
  <2>7. TypeOK'
    BY <1>5, <1>6, <2>3, <2>4, <2>5, <2>6, Zenon DEF TypeOK, Typed
  <2> QED
    BY <2>3, <2>4, <2>7, Zenon DEF OutboxInv
<1> QED
  BY <1>1, <1>7, <1>8, Zenon

-----------------------------------------------------------------------------
(* A step of the retry loop, of the bus or of Shutdown touches neither the *)
(* queue nor an emission.                                                  *)
LEMMA AroundInv ==
  ASSUME OutboxInv, Typed', UNCHANGED <<log, queue, counts, pc, pass, held>>,
         drain' = drain \/ ~Handles(drain')
  PROVE  OutboxInv'
<1>1. LogGrows /\ UNCHANGED pc /\ UNCHANGED <<queue, counts>> /\ UNCHANGED <<pass, held>>
  BY Zenon DEF LogGrows
<1>2. Wakes
  BY <1>1, WakesBy, Zenon
<1> QED
  BY <1>1, <1>2, WakesInv, Zenon

(* kickDrain from elsewhere.                                               *)
LEMMA KickedInv ==
  ASSUME OutboxInv, NEW ctx \in {"background", "shutdown"}, beginDrain(ctx),
         UNCHANGED <<log, faults, queue, counts, pc>>,
         bus' \in {"none", "down", "up"}, owed' \subseteq Items, retrying' \in BOOLEAN,
         loop' \in {"off", "ticking", "kick", "ending"},
         shutdown' \in {"no", "closing", "draining", "returned"}
  PROVE  OutboxInv'
<1>1. /\ draining' \in BOOLEAN /\ again' \in BOOLEAN /\ busState' \in {"unknown", "up", "down"}
      /\ drain' \in DrainPCs /\ (drain' = drain \/ ~Handles(drain'))
      /\ pass' = pass /\ held' = held /\ attempt' = attempt /\ forwarded' = forwarded
      /\ drainCtx' \in {"background", "shutdown", "expired"}
  BY BeginDrainTyped, Zenon
<1>2. faults' \in 0..MaxFaults /\ attempt' \in 0..Retries /\ forwarded' \in BOOLEAN
  BY <1>1, Zenon DEF OutboxInv, TypeOK
<1>3. Typed'
  BY <1>1, <1>2, Zenon DEF Typed
<1> QED
  BY <1>1, <1>3, AroundInv, Zenon

(* The loop that retries events.                                           *)
LEMMA LoopStepInv ==
  ASSUME OutboxInv, LoopStep
  PROVE  OutboxInv'
<1>1. Typed
  BY Zenon DEF OutboxInv, TypeOK, Typed
<1>2. CASE LoopKick
  <2>1. /\ beginDrain("background") /\ loop' = "ticking"
        /\ UNCHANGED <<log, faults, queue, counts, pc>> /\ bus' = bus /\ owed' = owed
        /\ retrying' = retrying /\ shutdown' = shutdown
    BY <1>2, Zenon DEF LoopKick, busVars
  <2>2. /\ bus' \in {"none", "down", "up"} /\ owed' \subseteq Items /\ retrying' \in BOOLEAN
        /\ loop' \in {"off", "ticking", "kick", "ending"}
        /\ shutdown' \in {"no", "closing", "draining", "returned"}
    BY <1>1, <2>1, Zenon DEF Typed
  <2> QED
    BY <2>1, <2>2, KickedInv, Zenon
<1>3. CASE LoopTick \/ LoopEnd
  <2>1. /\ bus' = bus /\ log' = log /\ faults' = faults /\ drain' = drain /\ attempt' = attempt
        /\ forwarded' = forwarded /\ drainCtx' = drainCtx /\ shutdown' = shutdown /\ owed' = owed
        /\ draining' = draining /\ again' = again /\ busState' = busState
        /\ UNCHANGED <<log, queue, counts, pc, pass, held>>
    BY <1>3, Zenon DEF LoopTick, LoopEnd, busVars, drainVars
  <2>2. (retrying' = retrying \/ retrying' = FALSE) /\ loop' \in {"off", "kick", "ending"}
    BY <1>3, Zenon DEF LoopTick, LoopEnd
  <2>3. retrying' \in BOOLEAN /\ loop' \in {"off", "ticking", "kick", "ending"}
    BY <1>1, <2>2, Zenon DEF Typed
  <2>4. Typed'
    BY <1>1, <2>1, <2>3 DEF Typed
  <2> QED
    BY <2>1, <2>4, AroundInv, Zenon
<1> QED
  BY <1>2, <1>3, Zenon DEF LoopStep

(* The bus, and SetBus.                                                    *)
LEMMA BusStepInv ==
  ASSUME OutboxInv, BusStep
  PROVE  OutboxInv'
<1>1. Typed
  BY Zenon DEF OutboxInv, TypeOK, Typed
<1>2. CASE SetBus
  <2>1. /\ beginDrain("background") /\ bus' = "up" /\ owed' = Range(queue)
        /\ UNCHANGED <<log, faults, queue, counts, pc>>
        /\ retrying' = retrying /\ loop' = loop /\ shutdown' = shutdown
    BY <1>2, Zenon DEF SetBus, loopVars
  <2>2. Range(queue) \subseteq Items
    BY Zenon DEF OutboxInv, TypeOK, Ledger, Accounts
  <2>3. /\ bus' \in {"none", "down", "up"} /\ owed' \subseteq Items /\ retrying' \in BOOLEAN
        /\ loop' \in {"off", "ticking", "kick", "ending"}
        /\ shutdown' \in {"no", "closing", "draining", "returned"}
    BY <1>1, <2>1, <2>2, Zenon DEF Typed
  <2> QED
    BY <2>1, <2>3, KickedInv, Zenon
<1>3. CASE BusDown \/ BusReconnects
  <2>1. /\ drain' = drain /\ attempt' = attempt /\ forwarded' = forwarded /\ drainCtx' = drainCtx
        /\ retrying' = retrying /\ loop' = loop /\ shutdown' = shutdown
        /\ draining' = draining /\ again' = again /\ busState' = busState
        /\ UNCHANGED <<log, queue, counts, pc, pass, held>>
    BY <1>3, Zenon DEF BusDown, BusReconnects, drainVars, loopVars
  <2>2. /\ bus' \in {"down", "up"} /\ (owed' = owed \/ owed' = {})
        /\ faults' = faults \/ (faults < MaxFaults /\ faults' = faults + 1)
    BY <1>3, Zenon DEF BusDown, BusReconnects
  <2>3. bus' \in {"none", "down", "up"} /\ owed' \subseteq Items /\ faults' \in 0..MaxFaults
    <3>1. faults \in 0..MaxFaults /\ owed \subseteq Items /\ MaxFaults \in Nat
      BY <1>1, OutboxAssumption, Zenon DEF Typed
    <3> QED
      BY <2>2, <3>1
  <2>4. Typed'
    BY <1>1, <2>1, <2>3 DEF Typed
  <2> QED
    BY <2>1, <2>4, AroundInv, Zenon
<1> QED
  BY <1>2, <1>3, Zenon DEF BusStep

(* Shutdown and its drain.                                                 *)
LEMMA ShutdownStepInv ==
  ASSUME OutboxInv, ShutdownStep
  PROVE  OutboxInv'
<1>1. Typed
  BY Zenon DEF OutboxInv, TypeOK, Typed
<1>2. CASE /\ beginDrain("shutdown") /\ shutdown' = (IF draining THEN "returned" ELSE "draining")
           /\ UNCHANGED <<busVars, queue, counts, pc, loopVars, owed>>
  <2>1. /\ UNCHANGED <<log, faults, queue, counts, pc>> /\ bus' = bus /\ owed' = owed
        /\ retrying' = retrying /\ loop' = loop /\ shutdown' \in {"returned", "draining"}
    BY <1>2, Zenon DEF busVars, loopVars
  <2>2. /\ bus' \in {"none", "down", "up"} /\ owed' \subseteq Items /\ retrying' \in BOOLEAN
        /\ loop' \in {"off", "ticking", "kick", "ending"}
        /\ shutdown' \in {"no", "closing", "draining", "returned"}
    BY <1>1, <2>1, Zenon DEF Typed
  <2> QED
    BY <1>2, <2>1, <2>2, KickedInv, Zenon
<1>3. CASE /\ shutdown' \in {"closing", "returned"} \/ (shutdown' = shutdown /\ drainCtx' = "expired")
           /\ drainCtx' \in {drainCtx, "expired"}
           /\ UNCHANGED <<busVars, queue, counts, draining, again, busState, drain, pass, attempt,
                          forwarded, held, pc, loopVars, owed>>
  <2>1. /\ bus' = bus /\ faults' = faults /\ drain' = drain /\ attempt' = attempt
        /\ forwarded' = forwarded /\ owed' = owed /\ retrying' = retrying /\ loop' = loop
        /\ draining' = draining /\ again' = again /\ busState' = busState
        /\ UNCHANGED <<log, queue, counts, pc, pass, held>>
    BY <1>3, Zenon DEF busVars, loopVars
  <2>2. /\ shutdown' \in {"no", "closing", "draining", "returned"}
        /\ drainCtx' \in {"background", "shutdown", "expired"}
    BY <1>1, <1>3, Zenon DEF Typed
  <2>3. Typed'
    BY <1>1, <2>1, <2>2 DEF Typed
  <2> QED
    BY <2>1, <2>3, AroundInv, Zenon
<1> QED
  BY <1>2, <1>3, Zenon DEF ShutdownStep, Shutdown, ShutdownDrain, ShutdownTimeout,
                           ShutdownReturn, drainVars

-----------------------------------------------------------------------------
(* An empty outbox is in order.                                            *)
LEMMA InitInv == Init => OutboxInv
<1> SUFFICES ASSUME Init PROVE OutboxInv
  OBVIOUS
<1>1. /\ log = <<>> /\ queue = <<>> /\ pass = <<>> /\ parked = {} /\ drained = {} /\ dropped = {}
      /\ held = {} /\ drain = "idle" /\ pc = [i \in Items |-> "new"]
  BY Zenon DEF Init
<1>2. Typed
  <2>1. 0 \in 0..MaxFaults /\ 0 \in 0..Retries
    BY OutboxAssumption
  <2>2. "idle" \in DrainPCs
    BY DEF DrainPCs
  <2> QED
    BY <2>1, <2>2, Zenon DEF Init, Typed
<1>3. /\ Range(log) = {} /\ Range(queue) = {} /\ Range(pass) = {} /\ Len(queue) = 0 /\ Len(pass) = 0
      /\ \A n \in 1..0 : FALSE
  BY <1>1 DEF Range
<1>4. \A i \in Items : pc[i] = "new"
  BY <1>1, Zenon
<1>5. TypeOK
  <2>1. Len(queue) <= Cap /\ "new" \in EmitPCs /\ log \in Seq(Items) /\ queue \in Seq(Items)
        /\ pass \in Seq(Items)
    BY <1>1, <1>3, OutboxAssumption DEF EmitPCs
  <2>2. pc \in [Items -> EmitPCs]
    BY <1>1, <2>1
  <2>3. /\ parked \subseteq Items /\ drained \subseteq Items /\ dropped \subseteq Items
        /\ held \subseteq {SubjectOf[i] : i \in Items}
    BY <1>1
  <2> QED
    BY <1>2, <2>1, <2>2, <2>3, Zenon DEF TypeOK, Typed
<1>6. Accounts
  BY <1>1, <1>3 DEF Accounts, NoRepeat
<1>7. Settled /\ Kept /\ InTurn
  <2>1. "new" \notin {"accepted", "kick", "retry", "done"}
    OBVIOUS
  <2> QED
    BY <1>1, <1>3, <1>4, <2>1, Zenon DEF Settled, Kept, InTurn, OnBus
<1>8. Clear /\ InLine /\ SubjectOrder
  BY <1>3, Zenon DEF Clear, InLine, SubjectOrder, OnBus
<1>9. Drains /\ HeldBack
  <2>1. ~Handles(drain) /\ drain # "sent" /\ drain # "rejected"
    BY <1>1 DEF Handles
  <2> QED
    BY <1>3, <2>1, Zenon DEF Drains, HeldBack
<1> QED
  BY <1>5, <1>6, <1>7, <1>8, <1>9, Zenon DEF OutboxInv, Ledger

(* Every step keeps the invariant.                                         *)
LEMMA NextInv == OutboxInv /\ [Next]_vars => OutboxInv'
<1> SUFFICES ASSUME OutboxInv, [Next]_vars PROVE OutboxInv'
  OBVIOUS
<1>1. ASSUME NEW i \in Items, Emission(i) \/ EmitWaitedLong(i) PROVE OutboxInv'
  <2>1. CASE EmitBegin(i) \/ EmitMoved(i) \/ EmitWaitedLong(i)
    BY <2>1, WaitInv, Zenon
  <2>2. CASE ParkIfHeld(i)
    BY <2>2, ParkIfHeldInv, Zenon
  <2>3. CASE EmitPublish(i)
    BY <2>3, EmitPublishInv, Zenon
  <2>4. CASE Park(i)
    BY <2>4, ParkInv, Zenon
  <2>5. CASE EmitAccepted(i)
    BY <2>5, EmitAcceptedInv, Zenon
  <2>6. CASE Kick(i)
    BY <2>6, KickInv, Zenon
  <2>7. CASE RetryParkedEvents(i)
    BY <2>7, RetryParkedEventsInv, Zenon
  <2> QED
    BY <1>1, <2>1, <2>2, <2>3, <2>4, <2>5, <2>6, <2>7, Zenon DEF Emission
<1>2. CASE DrainStep
  BY <1>2, DrainPassInv, DrainNextInv, DrainEndPassInv, DrainAttemptInv, DrainSendInv,
     DrainRemoveInv, Zenon DEF DrainStep
<1>3. CASE LoopStep
  BY <1>3, LoopStepInv, Zenon
<1>4. CASE BusStep
  BY <1>4, BusStepInv, Zenon
<1>5. CASE ShutdownStep
  BY <1>5, ShutdownStepInv, Zenon
<1>6. CASE UNCHANGED vars
  <2>1. /\ UNCHANGED <<Others, draining, again, busState>>
        /\ UNCHANGED <<log, queue, counts, pc, pass, held>> /\ drain' = drain
    BY <1>6, Zenon DEF vars, Others, busVars, drainVars, loopVars
  <2> QED
    BY <2>1, TypedStays, AroundInv, Zenon
<1> QED
  BY <1>1, <1>2, <1>3, <1>4, <1>5, <1>6, Zenon DEF Next

(* So it holds throughout.                                                 *)
LEMMA OutboxInvariant == Spec => []OutboxInv
BY InitInv, NextInv, PTL DEF Spec

-----------------------------------------------------------------------------
(* What parking an emission drops: a message only when no event is left.   *)
LEMMA ParkingYields ==
  ASSUME OutboxInv, NEW i \in Items, NEW l \in {"kick", "retry", "done"}, Goto(i, l),
         pc[i] \in {"check", "park"}, (parkLocked(i) /\ ~IsEvent(i)) \/ parkEventLocked(i)
  PROVE  \A j \in (dropped' \ dropped) \ (Events \cup Invalid) :
           \A n \in 1..Len(queue') : ~IsEvent(queue'[n])
<1>1. CASE parkEventLocked(i)
  BY <1>1 DEF parkEventLocked
<1>2. CASE parkLocked(i) /\ ~IsEvent(i)
  <2> SUFFICES ASSUME NEW j \in (dropped' \ dropped) \ (Events \cup Invalid),
                      NEW n \in 1..Len(queue')
               PROVE  ~IsEvent(queue'[n])
    OBVIOUS
  <2>1. j \in dropped' \ dropped /\ ~IsEvent(j)
    BY DEF IsEvent
  <2>2. \A k \in 1..Len(queue) : ~IsEvent(queue[k])
    BY <1>2, <2>1, ParkedBehind, Zenon
  <2>3. PICK q : Parks(i, q, l)
    BY <1>2, ParkedBehind, Zenon
  <2>4. q \in Seq(Items) /\ queue' = Append(q, i) /\ Range(q) \subseteq Range(queue)
    BY <2>3, Zenon DEF Parks
  <2>5. queue' \in Seq(Items) /\ Range(queue') = Range(q) \cup {i}
    BY <2>4, AppendKeeps
  <2>6. queue'[n] \in Range(queue')
    <3>1. DOMAIN queue' = 1..Len(queue')
      BY <2>5, LenProperties, Zenon
    <3> QED
      BY <3>1, Zenon DEF Range
  <2>7. CASE queue'[n] = i
    BY <1>2, <2>7, Zenon
  <2>8. CASE queue'[n] \in Range(queue)
    <3>1. DOMAIN queue = 1..Len(queue)
      BY LenProperties, Zenon DEF OutboxInv, TypeOK
    <3> QED
      BY <2>2, <2>8, <3>1, Zenon DEF Range
  <2> QED
    BY <2>4, <2>5, <2>6, <2>7, <2>8, Zenon
<1> QED
  BY <1>1, <1>2, Zenon

(* So does every step.                                                     *)
LEMMA StepYields ==
  ASSUME OutboxInv, [Next]_vars
  PROVE  \A j \in (dropped' \ dropped) \ (Events \cup Invalid) :
           \A n \in 1..Len(queue') : ~IsEvent(queue'[n])
<1> DEFINE Yields == \A j \in (dropped' \ dropped) \ (Events \cup Invalid) :
                       \A n \in 1..Len(queue') : ~IsEvent(queue'[n])
<1>1. CASE dropped' = dropped
  BY <1>1
<1>2. ASSUME NEW i \in Items, NEW l \in {"kick", "retry", "done"}, Goto(i, l),
             pc[i] \in {"check", "park"}, (parkLocked(i) /\ ~IsEvent(i)) \/ parkEventLocked(i)
      PROVE  Yields
  BY <1>2, ParkingYields, Zenon
<1>3. ASSUME drain = "rejected", dropped' = dropped \cup {Head(pass)} PROVE Yields
  <2>1. Head(pass) \in Invalid
    BY <1>3, Zenon DEF OutboxInv, Drains
  <2> QED
    BY <1>3, <2>1
<1> HIDE DEF Yields
<1>4. ASSUME NEW i \in Items, Emission(i) \/ EmitWaitedLong(i) PROVE Yields
  <2>1. CASE ParkIfHeld(i)
    <3>1. \/ dropped' = dropped
          \/ /\ (parkLocked(i) /\ ~IsEvent(i)) \/ parkEventLocked(i)
             /\ Goto(i, "kick") /\ pc[i] = "check"
      BY <2>1, Zenon DEF ParkIfHeld, counts
    <3> QED
      BY <1>1, <1>2, <3>1, Zenon DEF Yields
  <2>2. CASE Park(i)
    <3>1. \/ dropped' = dropped
          \/ /\ (parkLocked(i) /\ ~IsEvent(i)) \/ parkEventLocked(i)
             /\ Goto(i, "done") \/ Goto(i, "retry")
             /\ pc[i] = "park"
      BY <2>2, Zenon DEF Park, counts
    <3> QED
      BY <1>1, <1>2, <3>1, Zenon DEF Yields
  <2>3. CASE \/ EmitBegin(i) \/ EmitMoved(i) \/ EmitWaitedLong(i) \/ EmitPublish(i)
             \/ EmitAccepted(i) \/ Kick(i) \/ RetryParkedEvents(i)
    <3>1. dropped' = dropped
      BY <2>3, Zenon DEF EmitBegin, EmitMoved, EmitWaitedLong, EmitPublish, EmitAccepted, Kick,
                         RetryParkedEvents, counts
    <3> QED
      BY <1>1, <3>1, Zenon DEF Yields
  <2> QED
    BY <1>4, <2>1, <2>2, <2>3, Zenon DEF Emission
<1>5. CASE DrainStep
  <2>1. CASE DrainRemove
    <3>1. dropped' = dropped \/ (drain = "rejected" /\ dropped' = dropped \cup {Head(pass)})
      BY <2>1, Zenon DEF DrainRemove
    <3> QED
      BY <1>1, <1>3, <3>1, Zenon DEF Yields
  <2>2. CASE DrainPass \/ DrainNext \/ DrainEndPass \/ DrainAttempt \/ DrainSend
    <3>1. dropped' = dropped
      BY <2>2, Zenon DEF DrainPass, DrainNext, DrainEndPass, DrainAttempt, DrainSend, counts
    <3> QED
      BY <1>1, <3>1, Zenon DEF Yields
  <2> QED
    BY <1>5, <2>1, <2>2, Zenon DEF DrainStep
<1>6. CASE LoopStep \/ BusStep \/ ShutdownStep \/ UNCHANGED vars
  <2>1. dropped' = dropped
    BY <1>6, Zenon DEF LoopStep, LoopTick, LoopKick, LoopEnd, BusStep, SetBus, BusDown,
                       BusReconnects, ShutdownStep, Shutdown, ShutdownDrain, ShutdownTimeout,
                       ShutdownReturn, vars, counts
  <2> QED
    BY <1>1, <2>1, Zenon DEF Yields
<1> QED
  BY <1>4, <1>5, <1>6, Zenon DEF Next, Yields

(***************************************************************************)
(* Nothing vanishes in the outbox, whatever the cap, the retries and the   *)
(* failures of the bus: what was parked is queued, forwarded or counted as *)
(* dropped, once; what was reported as sent is kept or counted; and the    *)
(* cap takes events before it takes traffic.                               *)
(***************************************************************************)
THEOREM OutboxIsAccounted == Spec => OutboxAccounted
<1>1. OutboxInv => TypeOK /\ ParkedAccounted /\ AcceptedIsKept
  <2> SUFFICES ASSUME OutboxInv PROVE TypeOK /\ ParkedAccounted /\ AcceptedIsKept
    OBVIOUS
  <2>1. queue \in Seq(Items) /\ NoRepeat(queue)
    BY Zenon DEF OutboxInv, TypeOK, Ledger, Accounts
  <2>2. Len(queue) = Cardinality(Range(queue))
    BY <2>1, CountOfList, Zenon
  <2>3. ParkedAccounted
    BY <2>2, Zenon DEF OutboxInv, Ledger, Accounts, ParkedAccounted
  <2>4. \A i \in Items : pc[i] = "done" => OnBus(i) \/ i \in Range(queue) \cup dropped
    BY Zenon DEF OutboxInv, Ledger, Accounts, Kept
  <2>5. AcceptedIsKept
    BY <2>4, Zenon DEF OutboxInv, Ledger, Kept, AcceptedIsKept
  <2> QED
    BY <2>3, <2>5, Zenon DEF OutboxInv
<1>2. OutboxInv /\ [Next]_vars =>
        [\A i \in (dropped' \ dropped) \ (Events \cup Invalid) :
           \A n \in 1..Len(queue') : ~IsEvent(queue'[n])]_vars
  BY StepYields, Zenon
<1> QED
  BY <1>1, <1>2, OutboxInvariant, PTL DEF Spec, OutboxAccounted, EventsYield

(***************************************************************************)
(* With rack.outbox_order "subject" a gear's emissions on a subject reach  *)
(* the bus in the order of their emission, but for those counted as        *)
(* dropped or reported as failed.                                          *)
(***************************************************************************)
THEOREM SubjectsKeepOrder == Spec => []SubjectOrder
<1>1. OutboxInv => SubjectOrder
  BY Zenon DEF OutboxInv, Ledger
<1> QED
  BY <1>1, OutboxInvariant, PTL
===============================================================================
