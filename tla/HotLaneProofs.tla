----------------------------- MODULE HotLaneProofs -----------------------------
(* The hot lane counts, orders and hands out what it carries, for every number *)
(* of sources and subscriptions, every wiring, queue size and number of        *)
(* messages.                                                                   *)
EXTENDS HotLane, FiniteSetTheorems, SequenceTheorems, TLAPS

(* What a source emitted as its nth message.                               *)
Own(e, n) == [from |-> e, no |-> n, hops |-> 0]

(* Among messages as the sources emitted them: q has those of one source   *)
(* in order, and those of A come before those of B.                        *)
InOrder(a, b) == a.from = b.from /\ a.hops = 0 /\ b.hops = 0 => a.no < b.no
Sorted(q) == \A i, j \in 1..Len(q) : i < j => InOrder(q[i], q[j])
Before(A, B) == \A a \in A, b \in B : InOrder(a, b)
NoRepeat(q) == \A i, j \in 1..Len(q) : q[i] = q[j] => i = j

(* What is on its way to s: with its goroutine, and at the sources.        *)
InHand(s) == IF run[s] = "handle" THEN {item[s]} ELSE {}
Coming(s) == {msg[e] : e \in {d \in Sources : pub[d] # "idle" /\ s \in ToSet(targets[d])}}

(* pending, and the sets it counts.                                        *)
Books == IsFiniteSet(Queued) /\ IsFiniteSet(Handling) /\ IsFiniteSet(Sending) /\ PendingExact

(* A publish under way has a target and a message: the last one of the     *)
(* source, or one that a handler forwards.                                 *)
Publishes ==
  /\ \A p \in Publishers : NoRepeat(targets[p])
  /\ \A p \in Publishers : pub[p] # "idle" => targets[p] # <<>> /\ msg[p] \in Msgs
  /\ \A e \in Sources : pub[e] # "idle" => msg[e] = Own(e, emitted[e])
  /\ \A s \in Subs : pub[s] # "idle" => msg[s].hops > 0

(* A goroutine has a message while it handles one, and has received it     *)
(* once the handler is called.                                             *)
Handles ==
  \A s \in Subs :
    IF s \in Handling
    THEN /\ item[s] \in Msgs
         /\ run[s] # "handle" /\ item[s].hops = 0 => item[s] \in ToSet(received[s])
    ELSE item[s] = None

(* A subscription is listed once, until Unsubscribe takes it out.          *)
Listed ==
  /\ \A j \in Subjects : NoRepeat(subs[j])
  /\ \A s \in Subs : unsub[s] \in {"no", "closed"} => s \in ToSet(subs[LaneSubjectOf[s]])

(* The way of a message through s keeps the order of the sources.          *)
Chain(s) ==
  /\ Sorted(received[s]) /\ Sorted(laneQueue[s])
  /\ Before(ToSet(received[s]), InHand(s) \cup ToSet(laneQueue[s]) \cup Coming(s))
  /\ Before(InHand(s), ToSet(laneQueue[s]) \cup Coming(s))
  /\ Before(ToSet(laneQueue[s]), Coming(s))
  /\ \A m \in ToSet(received[s]) : m.hops = 0
  /\ \A m \in ToSet(received[s]) \cup InHand(s) \cup ToSet(laneQueue[s]) :
       m.hops = 0 => m.no <= emitted[m.from]

(* s was sent m, or refused it.                                            *)
Served(s, m) ==
  <<s, m>> \in refused \/ m \in ToSet(laneQueue[s]) \cup ToSet(received[s]) \cup {item[s]}

(* Every message of e is served at s or is about to be.                    *)
Fanout ==
  \A e \in Sources, s \in Subs : LaneSubjectOf[s] = LaneSubjectOf[e] /\ unsub[s] = "no" =>
    \A n \in 1..emitted[e] :
      \/ Served(s, Own(e, n))
      \/ pub[e] # "idle" /\ n = emitted[e] /\ s \in ToSet(targets[e])

(***************************************************************************)
(* The inductive invariant of the lane.                                    *)
(***************************************************************************)
LaneInv ==
  LaneTypeOK /\ Books /\ Publishes /\ Handles /\ Listed /\ (\A s \in Subs : Chain(s)) /\ Fanout

-----------------------------------------------------------------------------
(* What a queue holds when a message comes.                                *)
LEMMA ToSetAppend ==
  ASSUME NEW S, NEW q \in Seq(S), NEW m \in S
  PROVE  Append(q, m) \in Seq(S) /\ ToSet(Append(q, m)) = ToSet(q) \cup {m}
<1>1. /\ Append(q, m) \in Seq(S) /\ DOMAIN Append(q, m) = 1..Len(q) + 1
      /\ DOMAIN q = 1..Len(q) /\ Len(q) \in Nat
      /\ \A i \in 1..Len(q) : Append(q, m)[i] = q[i]
      /\ Append(q, m)[Len(q) + 1] = m
  OBVIOUS
<1>2. 1..Len(q) + 1 = (1..Len(q)) \cup {Len(q) + 1}
  BY <1>1
<1>3. ASSUME NEW x \in ToSet(Append(q, m)) PROVE x \in ToSet(q) \cup {m}
  BY <1>1, <1>2, <1>3, Zenon DEF ToSet
<1>4. ASSUME NEW x \in ToSet(q) PROVE x \in ToSet(Append(q, m))
  BY <1>1, <1>2, <1>4, Zenon DEF ToSet
<1>5. m \in ToSet(Append(q, m))
  BY <1>1, <1>2, Zenon DEF ToSet
<1> QED
  BY <1>1, <1>3, <1>4, <1>5, Zenon

(* What it holds when the first one is taken.                              *)
LEMMA ToSetTail ==
  ASSUME NEW S, NEW q \in Seq(S), q # <<>>
  PROVE  /\ Tail(q) \in Seq(S) /\ Head(q) \in S /\ (Len(q) = 1 <=> Tail(q) = <<>>)
         /\ ToSet(q) = ToSet(Tail(q)) \cup {Head(q)}
<1>1. /\ Tail(q) \in Seq(S) /\ DOMAIN Tail(q) = 1..Len(q) - 1 /\ Head(q) = q[1]
      /\ DOMAIN q = 1..Len(q) /\ Len(q) \in Nat /\ Len(q) > 0 /\ Head(q) \in S
      /\ \A i \in 1..Len(q) - 1 : Tail(q)[i] = q[i + 1]
      /\ Len(Tail(q)) = Len(q) - 1
  OBVIOUS
<1>2. ASSUME NEW x \in ToSet(q) PROVE x \in ToSet(Tail(q)) \cup {Head(q)}
  <2>1. PICK i \in 1..Len(q) : x = q[i]
    BY <1>1, <1>2, Zenon DEF ToSet
  <2>2. i = 1 \/ (i - 1 \in 1..Len(q) - 1 /\ (i - 1) + 1 = i)
    BY <1>1
  <2>3. CASE i = 1
    BY <1>1, <2>1, <2>3
  <2>4. CASE i - 1 \in 1..Len(q) - 1 /\ (i - 1) + 1 = i
    <3>1. Tail(q)[i - 1] = x /\ i - 1 \in DOMAIN Tail(q)
      BY <1>1, <2>1, <2>4
    <3> QED
      BY <3>1, Zenon DEF ToSet
  <2> QED
    BY <2>2, <2>3, <2>4
<1>3. ASSUME NEW x \in ToSet(Tail(q)) PROVE x \in ToSet(q)
  <2>1. PICK i \in 1..Len(q) - 1 : x = Tail(q)[i]
    BY <1>1, <1>3, Zenon DEF ToSet
  <2>2. x = q[i + 1] /\ i + 1 \in DOMAIN q
    BY <1>1, <2>1
  <2> QED
    BY <2>2, Zenon DEF ToSet
<1>4. Head(q) \in ToSet(q)
  <2>1. 1 \in DOMAIN q
    BY <1>1
  <2> QED
    BY <1>1, <2>1, Zenon DEF ToSet
<1>5. Len(q) = 1 <=> Tail(q) = <<>>
  <2>1. Tail(q) = <<>> <=> Len(Tail(q)) = 0
    BY <1>1, EmptySeq, Zenon
  <2> QED
    BY <1>1, <2>1
<1> QED
  BY <1>1, <1>2, <1>3, <1>4, <1>5, Zenon

(* A message behind all of a sorted queue, and the rest of one.            *)
LEMMA SortedAppend ==
  ASSUME NEW q \in Seq(Msgs), NEW m \in Msgs, Sorted(q), Before(ToSet(q), {m})
  PROVE  Sorted(Append(q, m))
<1>1. /\ Len(Append(q, m)) = Len(q) + 1 /\ Len(q) \in Nat /\ DOMAIN q = 1..Len(q)
      /\ \A i \in 1..Len(q) : Append(q, m)[i] = q[i]
      /\ Append(q, m)[Len(q) + 1] = m
  OBVIOUS
<1> SUFFICES ASSUME NEW i \in 1..Len(q) + 1, NEW j \in 1..Len(q) + 1, i < j
             PROVE  InOrder(Append(q, m)[i], Append(q, m)[j])
  BY <1>1 DEF Sorted
<1>2. i \in 1..Len(q) /\ Append(q, m)[i] = q[i]
  BY <1>1
<1>3. CASE j \in 1..Len(q)
  BY <1>1, <1>2, <1>3 DEF Sorted
<1>4. CASE j = Len(q) + 1
  <2>1. q[i] \in ToSet(q) /\ Append(q, m)[j] = m
    BY <1>1, <1>2, <1>4, Zenon DEF ToSet
  <2> QED
    BY <1>2, <2>1, Zenon DEF Before
<1> QED
  BY <1>1, <1>3, <1>4

(* The rest of a sorted queue is sorted.                                   *)
LEMMA SortedTail ==
  ASSUME NEW q \in Seq(Msgs), q # <<>>, Sorted(q)
  PROVE  Sorted(Tail(q)) /\ Before({Head(q)}, ToSet(Tail(q)))
<1>1. /\ Len(Tail(q)) = Len(q) - 1 /\ Len(q) \in Nat /\ Len(q) > 0 /\ Head(q) = q[1]
      /\ DOMAIN Tail(q) = 1..Len(q) - 1
      /\ \A i \in 1..Len(q) - 1 : Tail(q)[i] = q[i + 1]
  OBVIOUS
<1>2. Sorted(Tail(q))
  <2> SUFFICES ASSUME NEW i \in 1..Len(q) - 1, NEW j \in 1..Len(q) - 1, i < j
               PROVE  InOrder(Tail(q)[i], Tail(q)[j])
    BY <1>1 DEF Sorted
  <2>1. i + 1 \in 1..Len(q) /\ j + 1 \in 1..Len(q) /\ i + 1 < j + 1
    BY <1>1
  <2> QED
    BY <1>1, <2>1 DEF Sorted
<1>3. ASSUME NEW b \in ToSet(Tail(q)) PROVE InOrder(Head(q), b)
  <2>1. PICK i \in 1..Len(q) - 1 : b = Tail(q)[i]
    BY <1>1, <1>3, Zenon DEF ToSet
  <2>2. b = q[i + 1] /\ i + 1 \in 1..Len(q) /\ 1 \in 1..Len(q) /\ 1 < i + 1
    BY <1>1, <2>1
  <2> QED
    BY <1>1, <2>2 DEF Sorted
<1> QED
  BY <1>2, <1>3, Zenon DEF Before

(* The rest of a list without repetition does not have its head again.     *)
LEMMA NoRepeatTail ==
  ASSUME NEW S, NEW q \in Seq(S), q # <<>>, NoRepeat(q)
  PROVE  NoRepeat(Tail(q)) /\ Head(q) \notin ToSet(Tail(q))
<1>1. /\ Len(Tail(q)) = Len(q) - 1 /\ Len(q) \in Nat /\ Len(q) > 0 /\ Head(q) = q[1]
      /\ DOMAIN Tail(q) = 1..Len(q) - 1
      /\ \A i \in 1..Len(q) - 1 : Tail(q)[i] = q[i + 1]
  OBVIOUS
<1>2. NoRepeat(Tail(q))
  <2> SUFFICES ASSUME NEW i \in 1..Len(q) - 1, NEW j \in 1..Len(q) - 1, Tail(q)[i] = Tail(q)[j]
               PROVE  i = j
    BY <1>1 DEF NoRepeat
  <2>1. i + 1 \in 1..Len(q) /\ j + 1 \in 1..Len(q) /\ q[i + 1] = q[j + 1]
    BY <1>1
  <2>2. i + 1 = j + 1
    BY <2>1 DEF NoRepeat
  <2> QED
    BY <2>2
<1>3. ASSUME Head(q) \in ToSet(Tail(q)) PROVE FALSE
  <2>1. PICK i \in 1..Len(q) - 1 : Head(q) = Tail(q)[i]
    BY <1>1, <1>3, Zenon DEF ToSet
  <2>2. q[1] = q[i + 1] /\ i + 1 \in 1..Len(q) /\ 1 \in 1..Len(q)
    BY <1>1, <2>1
  <2>3. 1 = i + 1
    BY <2>2 DEF NoRepeat
  <2> QED
    BY <2>3
<1> QED
  BY <1>2, <1>3

(* What Unsubscribe keeps of a list.                                       *)
LEMMA WithoutKeeps ==
  ASSUME NEW S, NEW q \in Seq(S), NoRepeat(q), NEW x \in ToSet(q)
  PROVE  /\ Without(q, x) \in Seq(S) /\ NoRepeat(Without(q, x))
         /\ \A y \in ToSet(q) : y # x => y \in ToSet(Without(q, x))
<1> DEFINE k == CHOOSE i \in DOMAIN q : q[i] = x
           w == Without(q, x)
<1>1. DOMAIN q = 1..Len(q) /\ Len(q) \in Nat /\ \A i \in 1..Len(q) : q[i] \in S
  OBVIOUS
<1>2. k \in 1..Len(q) /\ q[k] = x
  <2>1. \E i \in DOMAIN q : q[i] = x
    BY Zenon DEF ToSet
  <2>2. k \in DOMAIN q /\ q[k] = x
    BY <2>1, Zenon
  <2> HIDE DEF k
  <2> QED
    BY <1>1, <2>2
<1> HIDE DEF k
<1>3. w = [i \in 1..Len(q) - 1 |-> q[IF i < k THEN i ELSE i + 1]]
  BY Zenon DEF Without, k
<1> HIDE DEF w
<1>4. Len(q) - 1 \in Nat /\ \A i \in 1..Len(q) - 1 : q[IF i < k THEN i ELSE i + 1] \in S
  BY <1>1, <1>2
<1>5. w \in Seq(S)
  <2>1. w \in [1..Len(q) - 1 -> S]
    BY <1>3, <1>4
  <2> QED
    BY <1>4, <2>1
<1>6. /\ Len(w) = Len(q) - 1 /\ DOMAIN w = 1..Len(q) - 1
      /\ \A i \in 1..Len(q) - 1 : w[i] = IF i < k THEN q[i] ELSE q[i + 1]
  BY <1>1, <1>2, <1>3, <1>4, <1>5
<1>7. NoRepeat(w)
  BY <1>1, <1>2, <1>6 DEF NoRepeat
<1>8. ASSUME NEW y \in ToSet(q), y # x PROVE y \in ToSet(w)
  <2>1. PICK i \in 1..Len(q) : q[i] = y
    BY <1>1, Zenon DEF ToSet
  <2>2. i # k
    BY <1>2, <1>8, <2>1
  <2>3. \E j \in 1..Len(q) - 1 : w[j] = y
    <3>1. CASE i < k
      BY <1>1, <1>2, <1>6, <2>1, <3>1
    <3>2. CASE i > k
      <4>1. i - 1 \in 1..Len(q) - 1 /\ ~(i - 1 < k) /\ (i - 1) + 1 = i
        BY <1>1, <1>2, <3>2
      <4> QED
        BY <1>6, <2>1, <4>1
    <3> QED
      BY <1>2, <2>2, <3>1, <3>2
  <2> QED
    BY <1>6, <2>3, Zenon DEF ToSet
<1> QED
  BY <1>5, <1>7, <1>8 DEF w

(* The list the lane begins with: every element of the set, once.          *)
LEMMA ListOfSet ==
  ASSUME NEW S, IsFiniteSet(S)
  PROVE  SetToSeq(S) \in Seq(S) /\ NoRepeat(SetToSeq(S)) /\ ToSet(SetToSeq(S)) = S
<1> DEFINE n == Cardinality(S)
           f == SetToSeq(S)
<1>1. n \in Nat /\ \E g \in [1..n -> S] : IsInjective(g)
  BY FS_CardinalityType, Zenon DEF ExistsBijection, Bijection, Injection
<1>2. f \in [1..n -> S] /\ IsInjective(f)
  BY <1>1, Zenon DEF SetToSeq
<1>3. IsFiniteSet(1..n) /\ Cardinality(1..n) = n
  BY <1>1, FS_Interval
<1> HIDE DEF f, n
<1>4. f \in Injection(1..n, S)
  BY <1>2, Zenon DEF Injection
<1>5. f \in Surjection(1..n, S)
  BY <1>3, <1>4, FS_Injection, Zenon DEF n
<1>6. f \in Seq(S) /\ Len(f) = n /\ DOMAIN f = 1..n
  BY <1>1, <1>2
<1>7. NoRepeat(f)
  BY <1>2, <1>6, Zenon DEF NoRepeat, IsInjective
<1>8. ToSet(f) = S
  BY <1>2, <1>5, <1>6, Zenon DEF ToSet, Surjection
<1> QED
  BY <1>6, <1>7, <1>8, Zenon DEF f

(* A queue grows by one, and shrinks by one.                               *)
LEMMA QueueGrows ==
  ASSUME laneQueue \in [Subs -> Seq(Msgs)], IsFiniteSet(Queued), NEW s \in Subs, NEW m \in Msgs,
         laneQueue' = [laneQueue EXCEPT ![s] = Append(laneQueue[s], m)]
  PROVE  IsFiniteSet(Queued') /\ Cardinality(Queued') = Cardinality(Queued) + 1
<1> DEFINE x == <<s, Len(laneQueue[s]) + 1>>
<1>1. /\ Len(laneQueue[s]) \in Nat /\ DOMAIN laneQueue[s] = 1..Len(laneQueue[s])
      /\ DOMAIN laneQueue'[s] = 1..Len(laneQueue[s]) + 1
  OBVIOUS
<1>2. /\ Len(laneQueue[s]) + 1 \notin DOMAIN laneQueue[s]
      /\ DOMAIN laneQueue'[s] = DOMAIN laneQueue[s] \cup {Len(laneQueue[s]) + 1}
  BY <1>1
<1>3. \A t \in Subs : t # s => laneQueue'[t] = laneQueue[t]
  OBVIOUS
<1>4. x \notin Queued
  BY <1>2 DEF Queued
<1>5. Queued' = Queued \cup {x}
  <2>1. ASSUME NEW y \in Queued' PROVE y \in Queued \cup {x}
    BY <1>2, <1>3, <2>1 DEF Queued
  <2>2. ASSUME NEW y \in Queued \cup {x} PROVE y \in Queued'
    BY <1>2, <1>3, <2>2 DEF Queued
  <2> QED
    BY <2>1, <2>2, Zenon
<1> HIDE DEF x
<1> QED
  BY <1>4, <1>5, FS_AddElement

(* And one fewer when a message leaves.                                    *)
LEMMA QueueShrinks ==
  ASSUME laneQueue \in [Subs -> Seq(Msgs)], IsFiniteSet(Queued), NEW s \in Subs,
         laneQueue[s] # <<>>,
         laneQueue' = [laneQueue EXCEPT ![s] = Tail(laneQueue[s])]
  PROVE  IsFiniteSet(Queued') /\ Cardinality(Queued') = Cardinality(Queued) - 1
<1> DEFINE x == <<s, Len(laneQueue[s])>>
<1>1. /\ Len(laneQueue[s]) \in Nat /\ DOMAIN laneQueue[s] = 1..Len(laneQueue[s])
      /\ Len(laneQueue[s]) > 0 /\ DOMAIN laneQueue'[s] = 1..Len(laneQueue[s]) - 1
  OBVIOUS
<1>2. /\ Len(laneQueue[s]) \in DOMAIN laneQueue[s]
      /\ DOMAIN laneQueue'[s] = DOMAIN laneQueue[s] \ {Len(laneQueue[s])}
  BY <1>1
<1>3. \A t \in Subs : t # s => laneQueue'[t] = laneQueue[t]
  OBVIOUS
<1>4. x \in Queued
  BY <1>2 DEF Queued
<1>5. Queued' = Queued \ {x}
  <2>1. ASSUME NEW y \in Queued' PROVE y \in Queued \ {x}
    BY <1>2, <1>3, <2>1 DEF Queued
  <2>2. ASSUME NEW y \in Queued \ {x} PROVE y \in Queued'
    BY <1>2, <1>3, <2>2 DEF Queued
  <2> QED
    BY <2>1, <2>2, Zenon
<1> HIDE DEF x
<1> QED
  BY <1>4, <1>5, FS_RemoveElement

-----------------------------------------------------------------------------
(* The way through s keeps its order when something leaves it.             *)
LEMMA ChainShrinks ==
  ASSUME NEW s \in Subs, Chain(s), received'[s] = received[s], emitted' = emitted,
         Sorted(laneQueue'[s]), ToSet(laneQueue'[s]) \subseteq ToSet(laneQueue[s]),
         InHand(s)' \subseteq InHand(s), Coming(s)' \subseteq Coming(s)
  PROVE  Chain(s)'
BY Zenon DEF Chain, Before

(* Every open subscription stays served when what it has stays with it,    *)
(* and what comes to it still comes or has come.                           *)
LEMMA FanoutStays ==
  ASSUME Fanout, emitted' = emitted, \A s \in Subs : unsub'[s] = "no" => unsub[s] = "no",
         \A e \in Sources, s \in Subs : \A n \in 1..emitted[e] :
           unsub'[s] = "no" /\ Served(s, Own(e, n)) => Served(s, Own(e, n))',
         \A e \in Sources, s \in Subs :
           unsub'[s] = "no" /\ pub[e] # "idle" /\ s \in ToSet(targets[e]) =>
             \/ pub'[e] # "idle" /\ s \in ToSet(targets'[e])
             \/ Served(s, Own(e, emitted[e]))'
  PROVE  Fanout'
<1> SUFFICES ASSUME NEW e \in Sources, NEW s \in Subs, NEW n \in 1..emitted'[e],
                    LaneSubjectOf[s] = LaneSubjectOf[e], unsub'[s] = "no"
             PROVE  \/ Served(s, Own(e, n))'
                    \/ pub'[e] # "idle" /\ n = emitted'[e] /\ s \in ToSet(targets'[e])
  BY Zenon DEF Fanout
<1>1. n \in 1..emitted[e]
  OBVIOUS
<1>2. \/ Served(s, Own(e, n))
      \/ pub[e] # "idle" /\ n = emitted[e] /\ s \in ToSet(targets[e])
  BY <1>1, Zenon DEF Fanout
<1> QED
  BY <1>1, <1>2, Zenon

(* The same, when no publish and nothing a subscription has is touched.    *)
LEMMA WaysStay ==
  ASSUME LaneInv, UNCHANGED <<laneQueue, received, item, emitted, refused, pub, targets, msg>>,
         \A s \in Subs : unsub'[s] = "no" => unsub[s] = "no",
         \A s \in Subs : run'[s] = "handle" => run[s] = "handle"
  PROVE  (\A s \in Subs : Chain(s)') /\ Fanout' /\ Publishes'
<1>1. ASSUME NEW s \in Subs PROVE Chain(s)'
  <2>1. Coming(s)' = Coming(s)
    BY Zenon DEF Coming
  <2>2. InHand(s)' \subseteq InHand(s)
    BY Zenon DEF InHand
  <2>3. Chain(s) /\ Sorted(laneQueue[s])
    BY Zenon DEF LaneInv, Chain
  <2> QED
    BY <2>1, <2>2, <2>3, ChainShrinks, Zenon
<1>2. \A s \in Subs : \A x : Served(s, x)' <=> Served(s, x)
  BY Zenon DEF Served
<1>3. Fanout'
  <2>1. Fanout
    BY Zenon DEF LaneInv
  <2> QED
    BY <1>2, <2>1, FanoutStays, Zenon
<1>4. Publishes'
  BY Zenon DEF LaneInv, Publishes
<1> QED
  BY <1>1, <1>3, <1>4

(* What the lane counts is a number.                                       *)
LEMMA CountIsNat ==
  ASSUME NEW Q, NEW H, NEW S, IsFiniteSet(Q), IsFiniteSet(H), IsFiniteSet(S)
  PROVE  /\ Cardinality(Q) \in Nat /\ Cardinality(H) \in Nat /\ Cardinality(S) \in Nat
         /\ Cardinality(Q) + Cardinality(H) + Cardinality(S) \in Nat
<1>1. Cardinality(Q) \in Nat /\ Cardinality(H) \in Nat /\ Cardinality(S) \in Nat
  BY FS_CardinalityType, Zenon
<1> QED
  BY <1>1

-----------------------------------------------------------------------------
(* A source begins to publish.                                             *)
LEMMA EmitInv ==
  ASSUME LaneInv, NEW e \in Sources, Emit(e)
  PROVE  LaneInv'
<1> DEFINE list == subs[LaneSubjectOf[e]]
           m == Own(e, emitted[e] + 1)
           go == IF list = <<>> THEN "idle" ELSE "count"
<1>1. /\ pub[e] = "idle" /\ emitted[e] < MaxMsgs
      /\ emitted' = [emitted EXCEPT ![e] = emitted[e] + 1]
      /\ targets' = [targets EXCEPT ![e] = list]
      /\ msg' = [msg EXCEPT ![e] = IF list = <<>> THEN None ELSE m]
      /\ pub' = [pub EXCEPT ![e] = go]
      /\ UNCHANGED <<subs, laneQueue, closed, pending, run, item, received, refused, unsub, quiesce>>
  BY Zenon DEF Emit, LanePublish, Own, subVars
<1>2. /\ e \in Publishers /\ LaneSubjectOf[e] \in Subjects /\ emitted[e] \in 0..MaxMsgs
      /\ list \in Seq(Subs) /\ NoRepeat(list)
  BY Zenon DEF LaneInv, LaneTypeOK, Listed, Publishers, Subjects
<1>3. /\ emitted[e] \in Nat /\ emitted[e] + 1 \in 1..MaxMsgs /\ emitted[e] + 1 \in 0..MaxMsgs
      /\ 0 \in 0..MaxHops
  BY <1>1, <1>2, HotLaneAssumption
<1>4. m \in Msgs
  BY <1>3, Zenon DEF Msgs, Own
<1>5. LaneTypeOK'
  <2>1. /\ emitted' \in [Sources -> 0..MaxMsgs] /\ targets' \in [Publishers -> Seq(Subs)]
        /\ msg' \in [Publishers -> Msgs \cup {None}]
        /\ pub' \in [Publishers -> PublishPCs]
    BY <1>1, <1>2, <1>3, <1>4 DEF LaneInv, LaneTypeOK, PublishPCs
  <2> QED
    BY <1>1, <2>1, Zenon DEF LaneInv, LaneTypeOK
<1>6. Books'
  <2>1. Queued' = Queued /\ Handling' = Handling
    BY <1>1, Zenon DEF Queued, Handling
  <2>2. Sending' = Sending
    BY <1>1, <1>2 DEF Sending, LaneInv, LaneTypeOK
  <2> QED
    BY <1>1, <2>1, <2>2, Zenon DEF LaneInv, Books, PendingExact
<1>7. e \notin Subs
  BY HotLaneAssumption
<1>8. Publishes'
  <2>1. /\ targets'[e] = list /\ pub'[e] = go
        /\ pub'[e] # "idle" => list # <<>> /\ msg'[e] = m /\ emitted'[e] = emitted[e] + 1
    BY <1>1, <1>2 DEF LaneInv, LaneTypeOK
  <2>2. \A p \in Publishers : p # e => /\ targets'[p] = targets[p] /\ pub'[p] = pub[p]
                                       /\ msg'[p] = msg[p]
    BY <1>1 DEF LaneInv, LaneTypeOK
  <2>3. \A d \in Sources : d # e => emitted'[d] = emitted[d]
    BY <1>1 DEF LaneInv, LaneTypeOK
  <2> QED
    BY <1>2, <1>4, <1>7, <2>1, <2>2, <2>3, Zenon DEF LaneInv, Publishes, Publishers
<1>9. Handles' /\ Listed'
  BY <1>1, Zenon DEF LaneInv, Handles, Listed, Handling
<1>10. ASSUME NEW s \in Subs PROVE Chain(s)'
  <2>1. InHand(s)' = InHand(s)
    BY <1>1, Zenon DEF InHand
  <2>2. ASSUME NEW x \in Coming(s)' PROVE x \in Coming(s) \/ x = m
    <3>1. PICK d \in Sources : x = msg'[d] /\ pub'[d] # "idle" /\ s \in ToSet(targets'[d])
      BY <2>2, Zenon DEF Coming
    <3>2. CASE d = e
      BY <1>1, <1>2, <3>1, <3>2 DEF LaneInv, LaneTypeOK
    <3>3. CASE d # e
      <4>1. msg'[d] = msg[d] /\ pub'[d] = pub[d] /\ targets'[d] = targets[d]
        BY <1>1, <3>3 DEF LaneInv, LaneTypeOK, Publishers
      <4> QED
        BY <3>1, <4>1, Zenon DEF Coming
    <3> QED
      BY <3>2, <3>3
  <2>3. Chain(s)
    BY Zenon DEF LaneInv
  <2>4. ASSUME NEW a \in ToSet(received[s]) \cup InHand(s) \cup ToSet(laneQueue[s])
        PROVE  /\ InOrder(a, m)
               /\ a.hops = 0 => a.no <= emitted'[a.from]
    <3>1. a \in Msgs
      <4>1. received[s] \in Seq(Msgs) /\ laneQueue[s] \in Seq(Msgs)
        BY DEF LaneInv, LaneTypeOK
      <4>2. InHand(s) \subseteq Msgs
        BY Zenon DEF LaneInv, Handles, InHand, Handling
      <4>3. ToSet(received[s]) \subseteq Msgs /\ ToSet(laneQueue[s]) \subseteq Msgs
        BY <4>1 DEF ToSet
      <4> QED
        BY <4>2, <4>3
    <3>2. a.from \in Sources /\ a.no \in Nat /\ emitted[a.from] \in Nat
      BY <3>1 DEF Msgs, LaneInv, LaneTypeOK
    <3>3. a.hops = 0 => a.no <= emitted[a.from]
      BY <2>3, Zenon DEF Chain
    <3>4. emitted'[a.from] = IF a.from = e THEN emitted[e] + 1 ELSE emitted[a.from]
      BY <1>1, <3>2 DEF LaneInv, LaneTypeOK
    <3>5. m.from = e /\ m.no = emitted[e] + 1
      BY Zenon DEF Own
    <3> HIDE DEF m
    <3> QED
      BY <1>3, <3>2, <3>3, <3>4, <3>5 DEF InOrder
  <2>5. received'[s] = received[s] /\ laneQueue'[s] = laneQueue[s]
    BY <1>1
  <2> HIDE DEF m
  <2> QED
    BY <2>1, <2>2, <2>3, <2>4, <2>5, Zenon DEF Chain, Before
<1>11. Fanout'
  <2> SUFFICES ASSUME NEW d \in Sources, NEW s \in Subs, NEW n \in 1..emitted'[d],
                      LaneSubjectOf[s] = LaneSubjectOf[d], unsub'[s] = "no"
               PROVE  \/ Served(s, Own(d, n))'
                      \/ pub'[d] # "idle" /\ n = emitted'[d] /\ s \in ToSet(targets'[d])
    BY Zenon DEF Fanout
  <2>1. Served(s, Own(d, n))' <=> Served(s, Own(d, n))
    BY <1>1, Zenon DEF Served
  <2>2. unsub[s] = "no"
    BY <1>1
  <2>3. n \in 1..emitted[d] => \/ Served(s, Own(d, n))
                               \/ pub[d] # "idle" /\ n = emitted[d] /\ s \in ToSet(targets[d])
    BY <2>2, Zenon DEF LaneInv, Fanout
  <2>4. CASE d = e
    <3>1. s \in ToSet(list)
      BY <2>2, <2>4, Zenon DEF LaneInv, Listed
    <3>2. list # <<>>
      BY <3>1 DEF ToSet
    <3>3. pub'[e] = "count" /\ targets'[e] = list /\ emitted'[e] = emitted[e] + 1
      BY <1>1, <1>2, <3>2 DEF LaneInv, LaneTypeOK
    <3>4. n \in 1..emitted[e] \/ n = emitted'[e]
      BY <1>3, <2>4, <3>3
    <3> QED
      BY <1>1, <2>1, <2>3, <2>4, <3>1, <3>3, <3>4
  <2>5. CASE d # e
    <3>1. pub'[d] = pub[d] /\ targets'[d] = targets[d] /\ emitted'[d] = emitted[d]
      BY <1>1, <2>5 DEF LaneInv, LaneTypeOK, Publishers
    <3> QED
      BY <2>1, <2>3, <3>1
  <2> QED
    BY <2>4, <2>5
<1> QED
  BY <1>5, <1>6, <1>8, <1>9, <1>10, <1>11 DEF LaneInv

(* The head of targets has been tried: the publish goes on with the rest.  *)
LEMMA NextTargetGoesOn ==
  ASSUME LaneInv, NEW p \in Publishers, pub[p] \in {"try", "blocked"}, NextTarget(p),
         emitted' = emitted
  PROVE  /\ targets' \in [Publishers -> Seq(Subs)] /\ pub' \in [Publishers -> PublishPCs]
         /\ msg' \in [Publishers -> Msgs \cup {None}]
         /\ Head(targets[p]) \in Subs /\ msg[p] \in Msgs
         /\ Publishes'
         /\ p \in Sending /\ Sending' = Sending \ {p}
         /\ \A s \in Subs : Coming(s)' \subseteq Coming(s)
         /\ \A s \in Subs : p \in Sources /\ s = Head(targets[p]) =>
                             \A x \in Coming(s)' : x.from # p
         /\ \A e \in Sources, s \in Subs :
              pub[e] # "idle" /\ s \in ToSet(targets[e]) =>
                \/ e = p /\ s = Head(targets[p])
                \/ pub'[e] # "idle" /\ s \in ToSet(targets'[e])
<1> DEFINE q == targets[p]
           last == Len(q) = 1
<1>1. /\ targets' = [targets EXCEPT ![p] = Tail(q)]
      /\ pub' = [pub EXCEPT ![p] = IF last THEN "idle" ELSE "count"]
      /\ msg' = [msg EXCEPT ![p] = IF last THEN None ELSE msg[p]]
  BY Zenon DEF NextTarget
<1>2. /\ q \in Seq(Subs) /\ q # <<>> /\ NoRepeat(q) /\ msg[p] \in Msgs
  BY DEF LaneInv, LaneTypeOK, Publishes
<1>3. /\ Tail(q) \in Seq(Subs) /\ Head(q) \in Subs /\ ToSet(q) = ToSet(Tail(q)) \cup {Head(q)}
      /\ NoRepeat(Tail(q)) /\ Head(q) \notin ToSet(Tail(q))
  BY <1>2, ToSetTail, NoRepeatTail, Zenon
<1>4. last <=> Tail(q) = <<>>
  BY <1>2, ToSetTail, Zenon
<1>5. /\ targets'[p] = Tail(q) /\ pub'[p] = (IF last THEN "idle" ELSE "count")
      /\ ~last => msg'[p] = msg[p]
  BY <1>1 DEF LaneInv, LaneTypeOK
<1>6. \A o \in Publishers : o # p => /\ targets'[o] = targets[o] /\ pub'[o] = pub[o]
                                     /\ msg'[o] = msg[o]
  BY <1>1 DEF LaneInv, LaneTypeOK
<1>7. /\ targets' \in [Publishers -> Seq(Subs)] /\ pub' \in [Publishers -> PublishPCs]
      /\ msg' \in [Publishers -> Msgs \cup {None}]
  BY <1>1, <1>2, <1>3 DEF LaneInv, LaneTypeOK, PublishPCs
<1>8. Publishes'
  <2>1. ASSUME NEW o \in Publishers
        PROVE  /\ NoRepeat(targets'[o])
               /\ pub'[o] # "idle" => /\ targets'[o] # <<>> /\ msg'[o] \in Msgs
                                      /\ msg'[o] = msg[o] /\ pub[o] # "idle"
    <3>1. CASE o = p
      BY <1>2, <1>3, <1>4, <1>5, <3>1, Zenon
    <3>2. CASE o # p
      BY <1>6, <3>2 DEF LaneInv, Publishes
    <3> QED
      BY <3>1, <3>2
  <2> QED
    BY <2>1, Zenon DEF LaneInv, Publishes, Publishers
<1>9. p \in Sending /\ Sending' = Sending \ {p}
  BY <1>5, <1>6 DEF Sending
<1>10. ASSUME NEW s \in Subs, NEW x \in Coming(s)'
       PROVE  /\ x \in Coming(s)
              /\ p \in Sources /\ s = Head(q) => x.from # p
  <2>1. PICK d \in Sources : x = msg'[d] /\ pub'[d] # "idle" /\ s \in ToSet(targets'[d])
    BY <1>10, Zenon DEF Coming
  <2>2. d \in Publishers
    BY Zenon DEF Publishers
  <2>3. msg'[d] = msg[d] /\ pub[d] # "idle" /\ s \in ToSet(targets[d])
    <3>1. CASE d = p
      BY <1>3, <1>5, <2>1, <3>1
    <3>2. CASE d # p
      BY <1>6, <2>1, <2>2, <3>2
    <3> QED
      BY <3>1, <3>2
  <2>4. x.from = d
    <3>1. msg[d] = Own(d, emitted[d])
      BY <2>3, Zenon DEF LaneInv, Publishes
    <3>2. Own(d, emitted[d]).from = d
      BY DEF Own
    <3> QED
      BY <2>1, <2>3, <3>1, <3>2, Zenon
  <2>5. s = Head(q) => d # p
    BY <1>3, <1>5, <2>1
  <2> QED
    BY <2>1, <2>3, <2>4, <2>5, Zenon DEF Coming
<1>11. ASSUME NEW e \in Sources, NEW s \in Subs, pub[e] # "idle", s \in ToSet(targets[e]),
              ~(e = p /\ s = Head(q))
       PROVE  pub'[e] # "idle" /\ s \in ToSet(targets'[e])
  <2>1. e \in Publishers
    BY Zenon DEF Publishers
  <2>2. CASE e # p
    BY <1>6, <1>11, <2>1, <2>2
  <2>3. CASE e = p
    <3>1. s \in ToSet(Tail(q))
      BY <1>3, <1>11, <2>3
    <3>2. Tail(q) # <<>>
      BY <3>1 DEF ToSet
    <3> QED
      BY <1>4, <1>5, <2>3, <3>1, <3>2
  <2> QED
    BY <2>2, <2>3
<1>12. \A s \in Subs : Coming(s)' \subseteq Coming(s)
  BY <1>10, Zenon
<1>13. \A s \in Subs : p \in Sources /\ s = Head(q) => \A x \in Coming(s)' : x.from # p
  BY <1>10, Zenon
<1>14. \A e \in Sources, s \in Subs :
         pub[e] # "idle" /\ s \in ToSet(targets[e]) =>
           (e = p /\ s = Head(q)) \/ (pub'[e] # "idle" /\ s \in ToSet(targets'[e]))
  BY <1>11, Zenon
<1> QED
  BY <1>2, <1>3, <1>7, <1>8, <1>9, <1>12, <1>13, <1>14, Zenon

(* enqueue counts the message, or finds the queue full.                    *)
LEMMA EnqueueWaitsInv ==
  ASSUME LaneInv, NEW p \in Publishers, EnqueueCount(p) \/ EnqueueBlocks(p)
  PROVE  LaneInv'
<1>1. /\ UNCHANGED <<subs, laneQueue, closed, run, item, received, targets, msg, emitted, refused,
                     unsub, quiesce>>
      /\ \/ pub[p] = "count" /\ pending' = pending + 1 /\ pub' = [pub EXCEPT ![p] = "try"]
         \/ pub[p] = "try" /\ pending' = pending /\ pub' = [pub EXCEPT ![p] = "blocked"]
  BY Zenon DEF EnqueueCount, EnqueueBlocks, subVars
<1>2. /\ pub' \in [Publishers -> PublishPCs]
      /\ \A o \in Publishers : pub'[o] = "idle" <=> pub[o] = "idle"
  BY <1>1, Zenon DEF LaneInv, LaneTypeOK, PublishPCs
<1>3. Books'
  <2>1. Queued' = Queued /\ Handling' = Handling
    BY <1>1, Zenon DEF Queued, Handling
  <2>2. CASE pub[p] = "count" /\ pending' = pending + 1 /\ pub' = [pub EXCEPT ![p] = "try"]
    <3>1. p \notin Sending /\ Sending' = Sending \cup {p}
      BY <2>2 DEF Sending, LaneInv, LaneTypeOK
    <3>2. IsFiniteSet(Sending') /\ Cardinality(Sending') = Cardinality(Sending) + 1
      BY <3>1, FS_AddElement DEF LaneInv, Books
    <3>3. Books
      BY DEF LaneInv
    <3> QED
      BY <2>1, <2>2, <3>2, <3>3, CountIsNat DEF Books, PendingExact
  <2>3. CASE pub[p] = "try" /\ pending' = pending /\ pub' = [pub EXCEPT ![p] = "blocked"]
    <3>1. Sending' = Sending
      BY <2>3 DEF Sending, LaneInv, LaneTypeOK
    <3> QED
      BY <2>1, <2>3, <3>1, Zenon DEF LaneInv, Books, PendingExact
  <2> QED
    BY <1>1, <2>2, <2>3
<1>4. pending' \in Nat
  BY <1>3, CountIsNat, Zenon DEF Books, PendingExact
<1>5. LaneTypeOK'
  BY <1>1, <1>2, <1>4, Zenon DEF LaneInv, LaneTypeOK
<1>6. Publishes' /\ Handles' /\ Listed'
  BY <1>1, <1>2, Zenon DEF LaneInv, Publishes, Handles, Listed, Handling, Publishers
<1>7. \A s \in Subs : Coming(s)' = Coming(s)
  BY <1>1, <1>2, Zenon DEF Coming, Publishers
<1>8. \A s \in Subs : Chain(s)'
  BY <1>1, <1>7, Zenon DEF LaneInv, Chain, InHand
<1>9. Fanout'
  <2>1. \A s \in Subs : \A x : Served(s, x)' <=> Served(s, x)
    BY <1>1, Zenon DEF Served
  <2> QED
    BY <1>1, <1>2, <2>1, FanoutStays, Zenon DEF LaneInv, Publishers
<1> QED
  BY <1>3, <1>5, <1>6, <1>8, <1>9 DEF LaneInv

(* What s holds of messages, as the types of the lane have it.             *)
LEMMA WayMsgs ==
  ASSUME LaneInv, NEW s \in Subs
  PROVE  /\ received[s] \in Seq(Msgs) /\ laneQueue[s] \in Seq(Msgs)
         /\ ToSet(received[s]) \subseteq Msgs /\ ToSet(laneQueue[s]) \subseteq Msgs
         /\ InHand(s) \subseteq Msgs
<1>1. received[s] \in Seq(Msgs) /\ laneQueue[s] \in Seq(Msgs)
  BY DEF LaneInv, LaneTypeOK
<1>2. InHand(s) \subseteq Msgs
  BY Zenon DEF LaneInv, Handles, InHand, Handling
<1>3. ToSet(received[s]) \subseteq Msgs /\ ToSet(laneQueue[s]) \subseteq Msgs
  BY <1>1 DEF ToSet
<1> QED
  BY <1>1, <1>2, <1>3

(* A message goes into the queue of the next target.                       *)
LEMMA EnqueueSendInv ==
  ASSUME LaneInv, NEW p \in Publishers, EnqueueSend(p)
  PROVE  LaneInv'
<1> DEFINE t == Head(targets[p])
           m == msg[p]
<1>1. /\ pub[p] \in {"try", "blocked"} /\ Len(laneQueue[t]) < QueueSize
      /\ laneQueue' = [laneQueue EXCEPT ![t] = Append(laneQueue[t], m)]
      /\ NextTarget(p)
      /\ UNCHANGED <<subs, closed, pending, run, item, received, emitted, refused, unsub, quiesce>>
  BY Zenon DEF EnqueueSend, subVars
<1>2. /\ targets' \in [Publishers -> Seq(Subs)] /\ pub' \in [Publishers -> PublishPCs]
      /\ msg' \in [Publishers -> Msgs \cup {None}]
      /\ t \in Subs /\ m \in Msgs /\ Publishes'
      /\ p \in Sending /\ Sending' = Sending \ {p}
      /\ \A s \in Subs : Coming(s)' \subseteq Coming(s)
      /\ \A s \in Subs : p \in Sources /\ s = t => \A x \in Coming(s)' : x.from # p
      /\ \A e \in Sources, s \in Subs :
           pub[e] # "idle" /\ s \in ToSet(targets[e]) =>
             (e = p /\ s = t) \/ (pub'[e] # "idle" /\ s \in ToSet(targets'[e]))
  BY <1>1, NextTargetGoesOn, Zenon
<1> PICK u \in Subs : u = t
  BY <1>2, Zenon
<1> PICK w \in Msgs : w = m
  BY <1>2, Zenon
<1> HIDE DEF t, m
<1>3. /\ laneQueue[u] \in Seq(Msgs) /\ laneQueue'[u] = Append(laneQueue[u], w)
      /\ laneQueue'[u] \in Seq(Msgs) /\ Len(laneQueue'[u]) <= QueueSize
      /\ \A s \in Subs : s # u => laneQueue'[s] = laneQueue[s]
      /\ laneQueue' \in [Subs -> Seq(Msgs)]
  BY <1>1, HotLaneAssumption DEF LaneInv, LaneTypeOK
<1>4. ToSet(laneQueue'[u]) = ToSet(laneQueue[u]) \cup {w}
  BY <1>3, ToSetAppend
<1>5. Books'
  <2>1. IsFiniteSet(Queued') /\ Cardinality(Queued') = Cardinality(Queued) + 1
    BY <1>1, QueueGrows, Zenon DEF LaneInv, LaneTypeOK, Books
  <2>2. IsFiniteSet(Sending') /\ Cardinality(Sending') = Cardinality(Sending) - 1
    BY <1>2, FS_RemoveElement DEF LaneInv, Books
  <2>3. Handling' = Handling /\ pending' = pending
    BY <1>1, Zenon DEF Handling
  <2>4. Books
    BY DEF LaneInv
  <2> QED
    BY <2>1, <2>2, <2>3, <2>4, CountIsNat DEF Books, PendingExact
<1>6. LaneTypeOK'
  <2>1. \A s \in Subs : Len(laneQueue'[s]) <= QueueSize
    BY <1>3, Zenon DEF LaneInv, LaneTypeOK
  <2> QED
    BY <1>1, <1>2, <1>3, <2>1, Zenon DEF LaneInv, LaneTypeOK
<1>7. Handles' /\ Listed'
  BY <1>1, Zenon DEF LaneInv, Handles, Listed, Handling
<1>8. ASSUME NEW s \in Subs PROVE Chain(s)'
  <2>1. InHand(s)' = InHand(s) /\ received'[s] = received[s] /\ emitted' = emitted
    BY <1>1, Zenon DEF InHand
  <2>2. Chain(s) /\ Coming(s)' \subseteq Coming(s)
    BY <1>2, Zenon DEF LaneInv
  <2>3. CASE s # u
    BY <1>3, <2>1, <2>2, <2>3, ChainShrinks, Zenon DEF Chain
  <2>4. CASE s = u
    <3>1. /\ Before(ToSet(received[s]) \cup InHand(s) \cup ToSet(laneQueue[s]), {w})
          /\ Before({w}, Coming(s)')
          /\ w.hops = 0 => w.no <= emitted[w.from]
      <4>1. CASE p \in Sources
        <5>1. w = Own(p, emitted[p]) /\ w \in Coming(s)
          <6>1. pub[p] # "idle"
            BY <1>1
          <6>2. targets[p] # <<>> /\ targets[p] \in Seq(Subs)
            BY <6>1 DEF LaneInv, LaneTypeOK, Publishes
          <6>3. s \in ToSet(targets[p])
            BY <2>4, <6>2, ToSetTail, Zenon DEF t
          <6> QED
            BY <4>1, <6>1, <6>3, Zenon DEF LaneInv, Publishes, Coming, m
        <5>2. Before(ToSet(received[s]) \cup InHand(s) \cup ToSet(laneQueue[s]), {w})
          BY <2>2, <5>1, Zenon DEF Chain, Before
        <5>3. w.from = p /\ w.no = emitted[p]
          BY <5>1 DEF Own
        <5>4. Before({w}, Coming(s)')
          BY <1>2, <2>4, <4>1, <5>3, Zenon DEF Before, InOrder
        <5>5. w.no <= emitted[w.from]
          BY <4>1, <5>3 DEF LaneInv, LaneTypeOK
        <5> QED
          BY <5>2, <5>4, <5>5
      <4>2. CASE p \in Subs
        <5>1. w.hops > 0 /\ w.hops \in Nat
          BY <1>1, <4>2 DEF LaneInv, Publishes, m, Msgs
        <5>2. w.hops # 0
          BY <5>1
        <5> QED
          BY <5>2, Zenon DEF Before, InOrder
      <4> QED
        BY <4>1, <4>2 DEF Publishers
    <3>2. Sorted(laneQueue'[s])
      <4>1. Before(ToSet(laneQueue[s]), {w})
        BY <3>1, Zenon DEF Before
      <4> QED
        BY <1>3, <2>2, <2>4, <4>1, SortedAppend, Zenon DEF Chain
    <3>3. ToSet(laneQueue'[s]) = ToSet(laneQueue[s]) \cup {w}
      BY <1>4, <2>4
    <3>4. /\ Before(ToSet(received[s]), InHand(s) \cup ToSet(laneQueue'[s]) \cup Coming(s)')
          /\ Before(InHand(s), ToSet(laneQueue'[s]) \cup Coming(s)')
          /\ Before(ToSet(laneQueue'[s]), Coming(s)')
      BY <2>2, <3>1, <3>3, Zenon DEF Chain, Before
    <3>5. \A x \in ToSet(received[s]) \cup InHand(s) \cup ToSet(laneQueue'[s]) :
            x.hops = 0 => x.no <= emitted[x.from]
      BY <2>2, <3>1, <3>3, Zenon DEF Chain
    <3> QED
      BY <2>1, <2>2, <3>2, <3>4, <3>5, Zenon DEF Chain
  <2> QED
    BY <2>3, <2>4
<1>9. Fanout'
  <2>1. \A s \in Subs : \A x : Served(s, x) => Served(s, x)'
    BY <1>1, <1>3, <1>4, Zenon DEF Served
  <2>2. p \in Sources => Served(u, Own(p, emitted[p]))'
    BY <1>1, <1>4, Zenon DEF Served, LaneInv, Publishes, m
  <2> QED
    BY <1>1, <1>2, <2>1, <2>2, FanoutStays, Zenon DEF LaneInv
<1> QED
  BY <1>2, <1>5, <1>6, <1>7, <1>8, <1>9 DEF LaneInv

(* The wait ends without a send: the subscription has refused the message. *)
LEMMA EnqueueFailsInv ==
  ASSUME LaneInv, NEW p \in Publishers, EnqueueFails(p)
  PROVE  LaneInv'
<1> DEFINE t == Head(targets[p])
           m == msg[p]
<1>1. /\ pub[p] = "blocked" /\ pending' = pending - 1 /\ refused' = refused \cup {<<t, m>>}
      /\ NextTarget(p)
      /\ UNCHANGED <<subs, laneQueue, closed, run, item, received, emitted, unsub, quiesce>>
  BY Zenon DEF EnqueueFails, subVars
<1>2. /\ targets' \in [Publishers -> Seq(Subs)] /\ pub' \in [Publishers -> PublishPCs]
      /\ msg' \in [Publishers -> Msgs \cup {None}]
      /\ t \in Subs /\ m \in Msgs /\ Publishes'
      /\ p \in Sending /\ Sending' = Sending \ {p}
      /\ \A s \in Subs : Coming(s)' \subseteq Coming(s)
      /\ \A e \in Sources, s \in Subs :
           pub[e] # "idle" /\ s \in ToSet(targets[e]) =>
             (e = p /\ s = t) \/ (pub'[e] # "idle" /\ s \in ToSet(targets'[e]))
  <2>1. pub[p] \in {"try", "blocked"}
    BY <1>1
  <2> QED
    BY <1>1, <2>1, NextTargetGoesOn, Zenon
<1> HIDE DEF t, m
<1>3. Books'
  <2>1. IsFiniteSet(Sending') /\ Cardinality(Sending') = Cardinality(Sending) - 1
    BY <1>2, FS_RemoveElement DEF LaneInv, Books
  <2>2. Handling' = Handling /\ Queued' = Queued
    BY <1>1, Zenon DEF Handling, Queued
  <2>3. Books
    BY DEF LaneInv
  <2> QED
    BY <1>1, <2>1, <2>2, <2>3, CountIsNat DEF Books, PendingExact
<1>4. pending' \in Nat
  BY <1>3, CountIsNat, Zenon DEF Books, PendingExact
<1>5. LaneTypeOK'
  <2>1. refused' \subseteq Subs \X Msgs
    BY <1>1, <1>2 DEF LaneInv, LaneTypeOK
  <2> QED
    BY <1>1, <1>2, <1>4, <2>1, Zenon DEF LaneInv, LaneTypeOK
<1>6. Handles' /\ Listed'
  BY <1>1, Zenon DEF LaneInv, Handles, Listed, Handling
<1>7. ASSUME NEW s \in Subs PROVE Chain(s)'
  <2>1. InHand(s)' = InHand(s)
    BY <1>1, Zenon DEF InHand
  <2>2. Chain(s) /\ Sorted(laneQueue[s])
    BY Zenon DEF LaneInv, Chain
  <2> QED
    BY <1>1, <1>2, <2>1, <2>2, ChainShrinks, Zenon
<1>8. Fanout'
  <2>1. \A s \in Subs : \A x : Served(s, x) => Served(s, x)'
    BY <1>1, Zenon DEF Served
  <2>2. \A s \in Subs : p \in Sources /\ s = t => Served(s, Own(p, emitted[p]))'
    <3>1. p \in Sources => m = Own(p, emitted[p])
      BY <1>1, Zenon DEF LaneInv, Publishes, m
    <3>2. <<t, m>> \in refused'
      BY <1>1
    <3> QED
      BY <1>1, <3>1, <3>2, Zenon DEF Served
  <2> QED
    BY <1>1, <1>2, <2>1, <2>2, FanoutStays, Zenon DEF LaneInv
<1> QED
  BY <1>2, <1>3, <1>5, <1>6, <1>7, <1>8 DEF LaneInv

(* The goroutine of a subscription takes the first message of its queue.   *)
LEMMA RunTakesInv ==
  ASSUME LaneInv, NEW s \in Subs, RunTakes(s)
  PROVE  LaneInv'
<1> DEFINE q == laneQueue[s]
<1>1. /\ run[s] = "select" /\ q # <<>>
      /\ item' = [item EXCEPT ![s] = Head(q)] /\ laneQueue' = [laneQueue EXCEPT ![s] = Tail(q)]
      /\ run' = [run EXCEPT ![s] = "handle"]
      /\ UNCHANGED <<subs, closed, pending, received, pub, targets, msg, emitted, refused, unsub,
                     quiesce>>
  BY Zenon DEF RunTakes, publisherVars
<1>2. q \in Seq(Msgs) /\ Len(q) \in Nat /\ Len(q) <= QueueSize
  BY DEF LaneInv, LaneTypeOK
<1>3. /\ Tail(q) \in Seq(Msgs) /\ Head(q) \in Msgs /\ Len(Tail(q)) <= QueueSize
  BY <1>1, <1>2, HotLaneAssumption
<1>4. ToSet(q) = ToSet(Tail(q)) \cup {Head(q)}
  BY <1>1, <1>2, ToSetTail, Zenon
<1>5. /\ laneQueue'[s] = Tail(q) /\ item'[s] = Head(q) /\ run'[s] = "handle"
      /\ \A t \in Subs : t # s => /\ laneQueue'[t] = laneQueue[t] /\ item'[t] = item[t]
                                  /\ run'[t] = run[t]
      /\ laneQueue' \in [Subs -> Seq(Msgs)] /\ item' \in [Subs -> Msgs \cup {None}]
      /\ run' \in [Subs -> RunPCs]
  BY <1>1, <1>3 DEF LaneInv, LaneTypeOK, RunPCs
<1>6. Books'
  <2>1. IsFiniteSet(Queued') /\ Cardinality(Queued') = Cardinality(Queued) - 1
    BY <1>1, QueueShrinks, Zenon DEF LaneInv, LaneTypeOK, Books
  <2>2. s \notin Handling /\ Handling' = Handling \cup {s}
    BY <1>1, <1>5 DEF Handling
  <2>3. IsFiniteSet(Handling') /\ Cardinality(Handling') = Cardinality(Handling) + 1
    BY <2>2, FS_AddElement DEF LaneInv, Books
  <2>4. Books /\ Sending' = Sending /\ pending' = pending
    BY <1>1, Zenon DEF LaneInv, Sending
  <2> QED
    BY <2>1, <2>3, <2>4, CountIsNat DEF Books, PendingExact
<1>7. LaneTypeOK'
  <2>1. \A t \in Subs : Len(laneQueue'[t]) <= QueueSize
    BY <1>3, <1>5, Zenon DEF LaneInv, LaneTypeOK
  <2> QED
    BY <1>1, <1>5, <2>1, Zenon DEF LaneInv, LaneTypeOK
<1>8. Publishes' /\ Listed'
  BY <1>1, Zenon DEF LaneInv, Publishes, Listed
<1>9. Handles'
  <2>1. s \in Handling' /\ \A t \in Subs : t # s => (t \in Handling' <=> t \in Handling)
    BY <1>5 DEF Handling
  <2> QED
    BY <1>1, <1>3, <1>5, <2>1, Zenon DEF LaneInv, Handles
<1>10. ASSUME NEW t \in Subs PROVE Chain(t)'
  <2>1. Coming(t)' = Coming(t)
    BY <1>1, Zenon DEF Coming
  <2>2. Chain(t)
    BY Zenon DEF LaneInv
  <2>3. CASE t # s
    <3>1. InHand(t)' = InHand(t)
      BY <1>5, <2>3, Zenon DEF InHand
    <3> QED
      BY <1>1, <1>5, <2>1, <2>2, <2>3, <3>1, ChainShrinks, Zenon DEF Chain
  <2>4. CASE t = s
    <3>1. InHand(t)' = {Head(q)} /\ received'[t] = received[t] /\ emitted' = emitted
      BY <1>1, <1>5, <2>4, Zenon DEF InHand
    <3>2. Sorted(Tail(q)) /\ Before({Head(q)}, ToSet(Tail(q)))
      BY <1>1, <1>2, <2>2, <2>4, SortedTail, Zenon DEF Chain
    <3>3. laneQueue'[t] = Tail(q) /\ q = laneQueue[t]
      BY <1>5, <2>4
    <3> HIDE DEF q
    <3>4. /\ Before(ToSet(received[t]), {Head(q)} \cup ToSet(Tail(q)) \cup Coming(t))
          /\ Before({Head(q)}, ToSet(Tail(q)) \cup Coming(t))
          /\ Before(ToSet(Tail(q)), Coming(t))
      BY <1>4, <2>2, <3>2, <3>3, Zenon DEF Chain, Before
    <3>5. \A x \in ToSet(received[t]) \cup {Head(q)} \cup ToSet(Tail(q)) :
            x.hops = 0 => x.no <= emitted[x.from]
      BY <1>4, <2>2, <3>3, Zenon DEF Chain
    <3> QED
      BY <2>1, <2>2, <3>1, <3>2, <3>3, <3>4, <3>5, Zenon DEF Chain
  <2> QED
    BY <2>3, <2>4
<1>11. Fanout'
  <2>1. ASSUME NEW e \in Sources, NEW t \in Subs, NEW n \in 1..emitted[e], Served(t, Own(e, n))
        PROVE  Served(t, Own(e, n))'
    <3>1. CASE t # s
      BY <1>1, <1>5, <2>1, <3>1, Zenon DEF Served
    <3>2. CASE t = s
      <4>1. item[s] = None
        BY <1>1 DEF LaneInv, Handles, Handling
      <4>2. n \in 1..MaxMsgs /\ 0 \in 0..MaxHops
        BY HotLaneAssumption DEF LaneInv, LaneTypeOK
      <4>3. Own(e, n) \in Msgs
        BY <4>2, Zenon DEF Own, Msgs
      <4>4. Own(e, n) # None
        BY <4>3, HotLaneAssumption, Zenon
      <4> QED
        BY <1>1, <1>4, <1>5, <2>1, <3>2, <4>1, <4>4, Zenon DEF Served
    <3> QED
      BY <3>1, <3>2
  <2> QED
    BY <1>1, <2>1, FanoutStays, Zenon DEF LaneInv
<1> QED
  BY <1>6, <1>7, <1>8, <1>9, <1>10, <1>11 DEF LaneInv

(* deliver calls the handler: the message is received, and may be          *)
(* published again with one more hop.                                      *)
LEMMA DeliverInv ==
  ASSUME LaneInv, NEW s \in Subs, Deliver(s)
  PROVE  LaneInv'
<1> DEFINE i == item[s]
           on == [i EXCEPT !.hops = i.hops + 1]
           list == subs[Forwards[s]]
<1>1. /\ run[s] = "handle"
      /\ received' = [received EXCEPT ![s] = IF i.hops = 0 THEN Append(received[s], i) ELSE received[s]]
      /\ run' \in {[run EXCEPT ![s] = "forward"], [run EXCEPT ![s] = "handled"]}
      /\ UNCHANGED <<subs, laneQueue, closed, pending, item, emitted, refused, unsub, quiesce>>
      /\ \/ UNCHANGED <<pub, targets, msg>>
         \/ /\ Forwards[s] # None /\ i.hops < MaxHops /\ pub[s] = "idle"
            /\ targets' = [targets EXCEPT ![s] = list]
            /\ msg' = [msg EXCEPT ![s] = IF list = <<>> THEN None ELSE on]
            /\ pub' = [pub EXCEPT ![s] = IF list = <<>> THEN "idle" ELSE "count"]
  BY Zenon DEF Deliver, LanePublish
<1>2. i \in Msgs /\ i.hops \in 0..MaxHops /\ s \in Publishers /\ s \notin Sources /\ s \in Handling
  BY <1>1, HotLaneAssumption DEF LaneInv, Handles, Handling, Msgs, Publishers
<1>3. /\ targets' \in [Publishers -> Seq(Subs)] /\ pub' \in [Publishers -> PublishPCs]
      /\ msg' \in [Publishers -> Msgs \cup {None}]
      /\ \A o \in Publishers : o # s => /\ targets'[o] = targets[o] /\ pub'[o] = pub[o]
                                        /\ msg'[o] = msg[o]
      /\ NoRepeat(targets'[s])
      /\ pub'[s] # "idle" => targets'[s] # <<>> /\ msg'[s] \in Msgs /\ msg'[s].hops > 0
      /\ Sending' = Sending
  <2>1. CASE UNCHANGED <<pub, targets, msg>>
    BY <1>2, <2>1, Zenon DEF LaneInv, LaneTypeOK, Publishes, Sending
  <2>2. CASE /\ Forwards[s] # None /\ i.hops < MaxHops /\ pub[s] = "idle"
             /\ targets' = [targets EXCEPT ![s] = list]
             /\ msg' = [msg EXCEPT ![s] = IF list = <<>> THEN None ELSE on]
             /\ pub' = [pub EXCEPT ![s] = IF list = <<>> THEN "idle" ELSE "count"]
    <3>1. Forwards[s] \in Subjects
      BY <2>2, Zenon DEF Subjects
    <3>2. list \in Seq(Subs) /\ NoRepeat(list)
      BY <3>1, Zenon DEF LaneInv, LaneTypeOK, Listed
    <3>3. i.hops + 1 \in 0..MaxHops /\ i.hops + 1 > 0
      BY <1>2, <2>2, HotLaneAssumption
    <3>4. on \in Msgs /\ on.hops = i.hops + 1
      BY <1>2, <3>3 DEF Msgs
    <3> HIDE DEF on, list
    <3>5. /\ targets' \in [Publishers -> Seq(Subs)] /\ pub' \in [Publishers -> PublishPCs]
          /\ msg' \in [Publishers -> Msgs \cup {None}]
          /\ \A o \in Publishers : o # s => /\ targets'[o] = targets[o] /\ pub'[o] = pub[o]
                                            /\ msg'[o] = msg[o]
          /\ targets'[s] = list /\ pub'[s] \in {"idle", "count"}
          /\ pub'[s] # "idle" => list # <<>> /\ msg'[s] = on
      BY <1>2, <2>2, <3>2, <3>4 DEF LaneInv, LaneTypeOK, PublishPCs
    <3>6. Sending' = Sending
      BY <2>2, <3>5 DEF Sending
    <3> QED
      BY <3>2, <3>3, <3>4, <3>5, <3>6
  <2> QED
    BY <1>1, <2>1, <2>2
<1> HIDE DEF i
<1>4. /\ run' \in [Subs -> RunPCs] /\ run'[s] \in {"forward", "handled"}
      /\ \A t \in Subs : t # s => run'[t] = run[t] /\ received'[t] = received[t]
      /\ received'[s] = IF i.hops = 0 THEN Append(received[s], i) ELSE received[s]
      /\ received' \in [Subs -> Seq(Msgs)] /\ received[s] \in Seq(Msgs)
  <2> DEFINE r == IF i.hops = 0 THEN Append(received[s], i) ELSE received[s]
  <2>1. received[s] \in Seq(Msgs) /\ received \in [Subs -> Seq(Msgs)]
    BY DEF LaneInv, LaneTypeOK
  <2>2. r \in Seq(Msgs)
    BY <1>2, <2>1, AppendProperties, Zenon
  <2>3. received' = [received EXCEPT ![s] = r]
    BY <1>1, Zenon
  <2> HIDE DEF r
  <2>4. /\ \A t \in Subs : t # s => received'[t] = received[t]
        /\ received'[s] = r /\ received' \in [Subs -> Seq(Msgs)]
    BY <2>1, <2>2, <2>3
  <2>5. /\ run' \in [Subs -> RunPCs] /\ run'[s] \in {"forward", "handled"}
        /\ \A t \in Subs : t # s => run'[t] = run[t]
    BY <1>1, Zenon DEF LaneInv, LaneTypeOK, RunPCs
  <2> QED
    BY <2>1, <2>4, <2>5 DEF r
<1>5. Handling' = Handling
  BY <1>1, <1>4 DEF Handling
<1>6. Books'
  <2>1. laneQueue' = laneQueue /\ pending' = pending
    BY <1>1, Zenon
  <2>2. Queued' = Queued
    BY <2>1, Zenon DEF Queued
  <2> QED
    BY <1>3, <1>5, <2>1, <2>2, Zenon DEF LaneInv, Books, PendingExact
<1>7. LaneTypeOK'
  BY <1>1, <1>3, <1>4, Zenon DEF LaneInv, LaneTypeOK
<1>8. Publishes' /\ Listed'
  BY <1>1, <1>2, <1>3, Zenon DEF LaneInv, Publishes, Listed, Publishers
<1>9. ToSet(received'[s]) = IF i.hops = 0 THEN ToSet(received[s]) \cup {i} ELSE ToSet(received[s])
  <2>1. received[s] \in Seq(Msgs) /\ i \in Msgs
    BY <1>2, <1>4
  <2>2. ToSet(Append(received[s], i)) = ToSet(received[s]) \cup {i}
    BY <2>1, ToSetAppend
  <2> QED
    BY <1>4, <2>2, Zenon
<1>10. Handles'
  BY <1>1, <1>2, <1>4, <1>5, <1>9, ZenonT(60) DEF LaneInv, Handles, i
<1>11. ASSUME NEW t \in Subs PROVE Chain(t)'
  <2>1. Coming(t)' = Coming(t)
    BY <1>2, <1>3, Zenon DEF Coming, Publishers, LaneInv
  <2>2. Chain(t) /\ laneQueue'[t] = laneQueue[t] /\ emitted' = emitted
    BY <1>1, Zenon DEF LaneInv
  <2>3. CASE t # s
    <3>1. InHand(t)' = InHand(t)
      BY <1>1, <1>4, <2>3, Zenon DEF InHand
    <3> QED
      BY <1>4, <2>1, <2>2, <2>3, <3>1, ChainShrinks, Zenon DEF Chain
  <2>4. CASE t = s
    <3>1. InHand(t)' = {} /\ InHand(t) = {i}
      BY <1>1, <1>4, <2>4 DEF InHand, i
    <3>2. CASE i.hops # 0
      BY <1>4, <2>1, <2>2, <2>4, <3>1, <3>2, ChainShrinks, Zenon DEF Chain
    <3>3. CASE i.hops = 0
      <4>1. Before(ToSet(received[t]), {i})
        BY <2>2, <3>1, Zenon DEF Chain, Before
      <4>2. Sorted(received'[t])
        BY <1>2, <1>4, <2>2, <2>4, <3>3, <4>1, SortedAppend, Zenon DEF Chain
      <4>3. ToSet(received'[t]) = ToSet(received[t]) \cup {i}
        BY <1>9, <2>4, <3>3
      <4>4. Before(ToSet(received'[t]), ToSet(laneQueue[t]) \cup Coming(t))
        BY <2>2, <3>1, <4>3, Zenon DEF Chain, Before
      <4>5. /\ \A x \in ToSet(received'[t]) : x.hops = 0
            /\ \A x \in ToSet(received'[t]) \cup ToSet(laneQueue[t]) :
                 x.hops = 0 => x.no <= emitted[x.from]
        BY <2>2, <3>1, <3>3, <4>3, Zenon DEF Chain
      <4>6. Before(InHand(t)', ToSet(laneQueue[t]) \cup Coming(t))
        BY <3>1, Zenon DEF Before
      <4> QED
        BY <2>1, <2>2, <3>1, <4>2, <4>4, <4>5, <4>6, Zenon DEF Chain, Before
    <3> QED
      BY <3>2, <3>3
  <2> QED
    BY <2>3, <2>4
<1>12. Fanout'
  <2>1. \A t \in Subs : ToSet(received[t]) \subseteq ToSet(received'[t])
    BY <1>4, <1>9, Zenon
  <2>2. \A t \in Subs : \A x : Served(t, x) => Served(t, x)'
    BY <1>1, <2>1, Zenon DEF Served
  <2>3. \A e \in Sources : pub'[e] = pub[e] /\ targets'[e] = targets[e]
    BY <1>2, <1>3, Zenon DEF Publishers
  <2> QED
    BY <1>1, <2>2, <2>3, FanoutStays, Zenon DEF LaneInv
<1> QED
  BY <1>6, <1>7, <1>8, <1>10, <1>11, <1>12 DEF LaneInv

(* The handler returns, the goroutine takes note of it or stops.           *)
LEMMA RunGoesOnInv ==
  ASSUME LaneInv, NEW s \in Subs, HandlerReturns(s) \/ RunDone(s) \/ RunStops(s)
  PROVE  LaneInv'
<1>1. UNCHANGED <<subs, laneQueue, closed, received, pub, targets, msg, emitted, refused, unsub, quiesce>>
  BY Zenon DEF HandlerReturns, RunDone, RunStops, publisherVars
<1>2. \/ /\ run[s] = "forward" /\ run' = [run EXCEPT ![s] = "handled"]
         /\ item' = item /\ pending' = pending
      \/ /\ run[s] = "select" /\ run' = [run EXCEPT ![s] = "stopped"]
         /\ item' = item /\ pending' = pending
      \/ /\ run[s] = "handled" /\ run' = [run EXCEPT ![s] = "select"]
         /\ item' = [item EXCEPT ![s] = None] /\ pending' = pending - 1
  BY Zenon DEF HandlerReturns, RunDone, RunStops
<1>3. /\ run' \in [Subs -> RunPCs] /\ item' \in [Subs -> Msgs \cup {None}]
      /\ \A t \in Subs : t # s => run'[t] = run[t] /\ item'[t] = item[t]
      /\ run'[s] # "handle"
  BY <1>2, Zenon DEF LaneInv, LaneTypeOK, RunPCs
<1>4. /\ Queued' = Queued /\ Sending' = Sending
  BY <1>1, Zenon DEF Queued, Sending
<1>5. Books' /\ Handles'
  <2>1. CASE /\ run[s] = "forward" /\ run' = [run EXCEPT ![s] = "handled"]
             /\ item' = item /\ pending' = pending
    <3>1. Handling' = Handling /\ run'[s] = "handled"
      BY <1>3, <2>1 DEF Handling, LaneInv, LaneTypeOK
    <3>2. Books'
      BY <1>4, <2>1, <3>1, Zenon DEF LaneInv, Books, PendingExact
    <3>3. run[s] # "handle"
      BY <2>1
    <3>4. Handles'
      BY <1>1, <1>3, <2>1, <3>1, <3>3, Zenon DEF LaneInv, Handles
    <3> QED
      BY <3>2, <3>4
  <2>2. CASE /\ run[s] = "select" /\ run' = [run EXCEPT ![s] = "stopped"]
             /\ item' = item /\ pending' = pending
    <3>1. Handling' = Handling
      BY <1>3, <2>2 DEF Handling, LaneInv, LaneTypeOK
    <3>2. s \notin Handling
      BY <2>2 DEF Handling
    <3>3. Books'
      BY <1>4, <2>2, <3>1, Zenon DEF LaneInv, Books, PendingExact
    <3>4. Handles'
      BY <1>1, <1>3, <2>2, <3>1, <3>2, Zenon DEF LaneInv, Handles
    <3> QED
      BY <3>3, <3>4
  <2>3. CASE /\ run[s] = "handled" /\ run' = [run EXCEPT ![s] = "select"]
             /\ item' = [item EXCEPT ![s] = None] /\ pending' = pending - 1
    <3>1. s \in Handling /\ Handling' = Handling \ {s} /\ item'[s] = None
      BY <1>3, <2>3 DEF Handling, LaneInv, LaneTypeOK
    <3>2. IsFiniteSet(Handling') /\ Cardinality(Handling') = Cardinality(Handling) - 1
      BY <3>1, FS_RemoveElement DEF LaneInv, Books
    <3>3. Books
      BY DEF LaneInv
    <3>4. Books'
      BY <1>4, <2>3, <3>2, <3>3, CountIsNat DEF Books, PendingExact
    <3>5. Handles'
      BY <1>1, <1>3, <3>1, Zenon DEF LaneInv, Handles
    <3> QED
      BY <3>4, <3>5
  <2> QED
    BY <1>2, <2>1, <2>2, <2>3
<1>6. LaneTypeOK'
  <2>1. pending' \in Nat
    BY <1>5, CountIsNat, Zenon DEF Books, PendingExact
  <2> QED
    BY <1>1, <1>3, <2>1, Zenon DEF LaneInv, LaneTypeOK
<1>7. Publishes' /\ Listed'
  BY <1>1, Zenon DEF LaneInv, Publishes, Listed
<1>8. ASSUME NEW t \in Subs PROVE Chain(t)'
  <2>1. Coming(t)' = Coming(t)
    BY <1>1, Zenon DEF Coming
  <2>2. InHand(t)' \subseteq InHand(t)
    BY <1>3, Zenon DEF InHand
  <2>3. Chain(t) /\ Sorted(laneQueue[t])
    BY Zenon DEF LaneInv, Chain
  <2> QED
    BY <1>1, <2>1, <2>2, <2>3, ChainShrinks, Zenon
<1>9. Fanout'
  <2>1. ASSUME NEW e \in Sources, NEW t \in Subs, NEW n \in 1..emitted[e], Served(t, Own(e, n))
        PROVE  Served(t, Own(e, n))'
    <3>1. CASE item'[t] = item[t]
      BY <1>1, <2>1, <3>1, Zenon DEF Served
    <3>2. CASE t = s /\ run[s] = "handled"
      <4>1. s \in Handling /\ run[s] # "handle"
        BY <3>2 DEF Handling
      <4>2. Own(e, n).hops = 0
        BY DEF Own
      <4>3. item[s] = Own(e, n) => Own(e, n) \in ToSet(received[s])
        BY <4>1, <4>2, Zenon DEF LaneInv, Handles
      <4> QED
        BY <1>1, <2>1, <3>2, <4>3, Zenon DEF Served
    <3> QED
      BY <1>2, <1>3, <3>1, <3>2, Zenon
  <2> QED
    BY <1>1, <2>1, FanoutStays, Zenon DEF LaneInv
<1> QED
  BY <1>5, <1>6, <1>7, <1>8, <1>9 DEF LaneInv

(* Unsubscribe closes the subscription, takes it out of the lane and       *)
(* waits; quiesce polls.  No message is touched.                           *)
LEMMA UnsubscribeInv ==
  ASSUME LaneInv, NEW s \in Subs, Unsubscribe(s) \/ UnsubRemoves(s) \/ UnsubWaited(s)
  PROVE  LaneInv'
<1> DEFINE j == LaneSubjectOf[s]
<1>1. /\ UNCHANGED <<laneQueue, pending, run, item, received, pub, targets, msg, emitted, refused,
                     quiesce>>
      /\ \/ unsub[s] = "no" /\ unsub' = [unsub EXCEPT ![s] = "closed"] /\ subs' = subs
         \/ /\ unsub[s] = "closed" /\ unsub' = [unsub EXCEPT ![s] = "waiting"]
            /\ subs' = [subs EXCEPT ![j] = Without(subs[j], s)]
         \/ unsub[s] = "waiting" /\ unsub' = [unsub EXCEPT ![s] = "clearing"] /\ subs' = subs
      /\ closed' \subseteq closed \cup {s}
  BY Zenon DEF Unsubscribe, UnsubRemoves, UnsubWaited, subVars, publisherVars
<1>2. /\ unsub' \in [Subs -> UnsubPCs] /\ unsub'[s] # "no"
      /\ \A t \in Subs : t # s => unsub'[t] = unsub[t]
  BY <1>1, Zenon DEF LaneInv, LaneTypeOK, UnsubPCs
<1>3. j \in Subjects
  BY Zenon DEF Subjects, Publishers
<1>4. subs' \in [Subjects -> Seq(Subs)] /\ Listed'
  <2>1. CASE unsub[s] # "closed" /\ subs' = subs
    <3>1. unsub'[s] \in {"no", "closed"} => unsub[s] \in {"no", "closed"}
      BY <1>1, <2>1 DEF LaneInv, LaneTypeOK
    <3> QED
      BY <1>2, <2>1, <3>1, Zenon DEF LaneInv, LaneTypeOK, Listed
  <2>2. CASE /\ unsub[s] = "closed" /\ unsub' = [unsub EXCEPT ![s] = "waiting"]
             /\ subs' = [subs EXCEPT ![j] = Without(subs[j], s)]
    <3>1. subs[j] \in Seq(Subs) /\ NoRepeat(subs[j]) /\ s \in ToSet(subs[j])
      BY <1>3, <2>2 DEF LaneInv, LaneTypeOK, Listed
    <3>2. /\ Without(subs[j], s) \in Seq(Subs) /\ NoRepeat(Without(subs[j], s))
          /\ \A y \in ToSet(subs[j]) : y # s => y \in ToSet(Without(subs[j], s))
      BY <3>1, WithoutKeeps, Zenon
    <3>3. /\ subs' \in [Subjects -> Seq(Subs)] /\ subs'[j] = Without(subs[j], s)
          /\ \A k \in Subjects : k # j => subs'[k] = subs[k]
          /\ unsub'[s] = "waiting"
      BY <1>3, <2>2, <3>2, Zenon DEF LaneInv, LaneTypeOK
    <3>4. \A k \in Subjects : NoRepeat(subs'[k])
      BY <3>2, <3>3, Zenon DEF LaneInv, Listed
    <3>5. ASSUME NEW t \in Subs, unsub'[t] \in {"no", "closed"}
          PROVE  t \in ToSet(subs'[LaneSubjectOf[t]])
      <4>1. t # s
        BY <3>3, <3>5
      <4>2. t \in ToSet(subs[LaneSubjectOf[t]])
        BY <1>2, <3>5, <4>1, Zenon DEF LaneInv, Listed
      <4>3. LaneSubjectOf[t] \in Subjects
        BY Zenon DEF Subjects, Publishers
      <4> QED
        BY <3>2, <3>3, <4>1, <4>2, <4>3, Zenon
    <3> QED
      BY <3>3, <3>4, <3>5, Zenon DEF Listed
  <2> QED
    BY <1>1, <2>1, <2>2, Zenon
<1>5. LaneTypeOK'
  <2>1. closed' \subseteq Subs
    BY <1>1, Zenon DEF LaneInv, LaneTypeOK
  <2> QED
    BY <1>1, <1>2, <1>4, <2>1, Zenon DEF LaneInv, LaneTypeOK
<1>6. Queued' = Queued /\ Handling' = Handling /\ Sending' = Sending
  <2>1. laneQueue' = laneQueue /\ run' = run /\ pub' = pub
    BY <1>1, Zenon
  <2> QED
    BY <2>1, Zenon DEF Queued, Handling, Sending
<1>7. Books' /\ Handles'
  BY <1>1, <1>6, Zenon DEF LaneInv, Books, PendingExact, Handles
<1>8. (\A t \in Subs : Chain(t)') /\ Fanout' /\ Publishes'
  <2>1. UNCHANGED <<laneQueue, received, item, emitted, refused, pub, targets, msg>> /\ run' = run
    BY <1>1, Zenon
  <2> QED
    BY <1>2, <2>1, WaysStay, Zenon
<1> QED
  BY <1>4, <1>5, <1>7, <1>8 DEF LaneInv

(* It drops what is still queued.                                          *)
LEMMA UnsubClearsInv ==
  ASSUME LaneInv, NEW s \in Subs, UnsubClears(s)
  PROVE  LaneInv'
<1> DEFINE q == laneQueue[s]
<1>1. /\ unsub[s] = "clearing"
      /\ UNCHANGED <<subs, closed, run, item, received, pub, targets, msg, emitted, refused, quiesce>>
      /\ \/ /\ q # <<>> /\ laneQueue' = [laneQueue EXCEPT ![s] = Tail(q)]
            /\ pending' = pending - 1 /\ unsub' = unsub
         \/ unsub' = [unsub EXCEPT ![s] = "returned"] /\ UNCHANGED <<laneQueue, pending>>
  BY Zenon DEF UnsubClears, subVars, publisherVars
<1>2. Handling' = Handling /\ Sending' = Sending
  BY <1>1, Zenon DEF Handling, Sending
<1>3. CASE unsub' = [unsub EXCEPT ![s] = "returned"] /\ UNCHANGED <<laneQueue, pending>>
  <2>1. /\ unsub' \in [Subs -> UnsubPCs]
        /\ \A t \in Subs : unsub'[t] \in {"no", "closed"} => unsub'[t] = unsub[t]
        /\ \A t \in Subs : unsub'[t] = "no" => unsub[t] = "no"
    BY <1>3, Zenon DEF LaneInv, LaneTypeOK, UnsubPCs
  <2>2. Queued' = Queued
    BY <1>3, Zenon DEF Queued
  <2>3. LaneTypeOK' /\ Listed'
    BY <1>1, <1>3, <2>1, Zenon DEF LaneInv, LaneTypeOK, Listed
  <2>4. Books' /\ Handles'
    BY <1>1, <1>2, <1>3, <2>2, Zenon DEF LaneInv, Books, PendingExact, Handles
  <2>5. (\A t \in Subs : Chain(t)') /\ Fanout' /\ Publishes'
    BY <1>1, <1>3, <2>1, WaysStay, Zenon
  <2> QED
    BY <2>3, <2>4, <2>5 DEF LaneInv
<1>4. CASE /\ q # <<>> /\ laneQueue' = [laneQueue EXCEPT ![s] = Tail(q)]
           /\ pending' = pending - 1 /\ unsub' = unsub
  <2>1. q \in Seq(Msgs) /\ Len(q) \in Nat /\ Len(q) <= QueueSize
    BY DEF LaneInv, LaneTypeOK
  <2>2. Tail(q) \in Seq(Msgs) /\ Len(Tail(q)) <= QueueSize
    BY <1>4, <2>1, HotLaneAssumption
  <2>3. ToSet(Tail(q)) \subseteq ToSet(q)
    BY <1>4, <2>1, ToSetTail, Zenon
  <2>4. /\ laneQueue'[s] = Tail(q) /\ laneQueue' \in [Subs -> Seq(Msgs)]
        /\ \A t \in Subs : t # s => laneQueue'[t] = laneQueue[t]
    BY <1>4, <2>2 DEF LaneInv, LaneTypeOK
  <2>5. Books'
    <3>1. IsFiniteSet(Queued') /\ Cardinality(Queued') = Cardinality(Queued) - 1
      BY <1>4, QueueShrinks, Zenon DEF LaneInv, LaneTypeOK, Books
    <3>2. Books
      BY DEF LaneInv
    <3>3. pending' = pending - 1
      BY <1>4, Zenon
    <3> QED
      BY <1>2, <3>1, <3>2, <3>3, CountIsNat DEF Books, PendingExact
  <2>6. LaneTypeOK'
    <3>1. pending' \in Nat
      BY <2>5, CountIsNat, Zenon DEF Books, PendingExact
    <3>2. \A t \in Subs : Len(laneQueue'[t]) <= QueueSize
      BY <2>2, <2>4, Zenon DEF LaneInv, LaneTypeOK
    <3> QED
      BY <1>1, <1>4, <2>4, <3>1, <3>2, Zenon DEF LaneInv, LaneTypeOK
  <2>7. Publishes' /\ Handles' /\ Listed'
    BY <1>1, <1>2, <1>4, Zenon DEF LaneInv, Publishes, Handles, Listed
  <2>8. ASSUME NEW t \in Subs PROVE Chain(t)'
    <3>1. Coming(t)' = Coming(t) /\ InHand(t)' = InHand(t)
      BY <1>1, Zenon DEF Coming, InHand
    <3>2. Chain(t)
      BY Zenon DEF LaneInv
    <3>3. Sorted(laneQueue'[t]) /\ ToSet(laneQueue'[t]) \subseteq ToSet(laneQueue[t])
      <4>1. CASE t = s
        <5>1. Sorted(q)
          BY <3>2, <4>1, Zenon DEF Chain
        <5>2. Sorted(Tail(q))
          BY <1>4, <2>1, <5>1, SortedTail, Zenon
        <5> QED
          BY <2>3, <2>4, <4>1, <5>2, Zenon
      <4>2. CASE t # s
        BY <2>4, <3>2, <4>2, Zenon DEF Chain
      <4> QED
        BY <4>1, <4>2
    <3> QED
      BY <1>1, <3>1, <3>2, <3>3, ChainShrinks, Zenon
  <2>9. Fanout'
    <3>1. ASSUME NEW t \in Subs, unsub'[t] = "no" PROVE \A x : Served(t, x) => Served(t, x)'
      <4>1. t # s
        BY <1>1, <1>4, <3>1
      <4> QED
        BY <1>1, <2>4, <4>1, Zenon DEF Served
    <3> QED
      BY <1>1, <1>4, <3>1, FanoutStays, Zenon DEF LaneInv
  <2> QED
    BY <2>5, <2>6, <2>7, <2>8, <2>9 DEF LaneInv
<1> QED
  BY <1>1, <1>3, <1>4

(* Polling changes nothing but the poll.                                   *)
LEMMA QuiesceInv ==
  ASSUME LaneInv, QuiesceBegins \/ QuiesceNil \/ QuiesceInterrupted \/ UNCHANGED laneVars
  PROVE  LaneInv'
<1>1. /\ UNCHANGED <<subs, laneQueue, closed, pending, run, item, received, pub, targets, msg, emitted,
                     refused, unsub>>
      /\ quiesce' \in {quiesce, "polling", "nil", "interrupted"}
  BY Zenon DEF QuiesceBegins, QuiesceNil, QuiesceInterrupted, subVars, publisherVars, laneVars
<1>2. LaneTypeOK'
  <2>1. quiesce' \in {"no", "polling", "nil", "interrupted"}
    BY <1>1, Zenon DEF LaneInv, LaneTypeOK
  <2> QED
    BY <1>1, <2>1, Zenon DEF LaneInv, LaneTypeOK
<1>3. Queued' = Queued /\ Handling' = Handling /\ Sending' = Sending
  BY <1>1, Zenon DEF Queued, Handling, Sending
<1>4. Books' /\ Handles' /\ Listed'
  BY <1>1, <1>3, Zenon DEF LaneInv, Books, PendingExact, Handles, Listed
<1>5. (\A t \in Subs : Chain(t)') /\ Fanout' /\ Publishes'
  BY <1>1, WaysStay, Zenon
<1> QED
  BY <1>2, <1>4, <1>5 DEF LaneInv

(* An empty lane is exact.                                                 *)
LEMMA LaneInitInv ==
  ASSUME LaneInit
  PROVE  LaneInv
<1>1. ASSUME NEW j \in Subjects
      PROVE  /\ subs[j] \in Seq(Subs) /\ NoRepeat(subs[j])
             /\ ToSet(subs[j]) = {s \in Subs : LaneSubjectOf[s] = j}
  <2> DEFINE S == {s \in Subs : LaneSubjectOf[s] = j}
  <2>1. S \in SUBSET Subs /\ subs[j] = SetToSeq(S)
    BY DEF LaneInit
  <2>2. IsFiniteSet(S)
    BY <2>1, FS_Subset, HotLaneAssumption, Zenon
  <2>3. SetToSeq(S) \in Seq(S) /\ NoRepeat(SetToSeq(S)) /\ ToSet(SetToSeq(S)) = S
    BY <2>2, ListOfSet, Zenon
  <2>4. SetToSeq(S) \in Seq(Subs)
    BY <2>1, <2>3, SeqMonotonic, Zenon
  <2> QED
    BY <2>1, <2>3, <2>4, Zenon
<1>2. ToSet(<<>>) = {} /\ <<>> \in Seq(Msgs) /\ <<>> \in Seq(Subs) /\ Len(<<>>) = 0
  BY DEF ToSet
<1>3. NoRepeat(<<>>) /\ Sorted(<<>>)
  BY DEF NoRepeat, Sorted
<1>4. LaneTypeOK
  <2>1. subs \in [Subjects -> Seq(Subs)]
    BY <1>1 DEF LaneInit
  <2>2. 0 \in 0..MaxMsgs /\ 0 <= QueueSize
    BY HotLaneAssumption
  <2> QED
    BY <1>2, <2>1, <2>2 DEF LaneInit, LaneTypeOK, RunPCs, PublishPCs, UnsubPCs
<1>5. Queued = {} /\ Handling = {} /\ Sending = {}
  BY DEF LaneInit, Queued, Handling, Sending
<1>6. Books
  <2>1. IsFiniteSet({}) /\ Cardinality({}) = 0 /\ pending = 0
    BY FS_EmptySet DEF LaneInit
  <2> QED
    BY <1>5, <2>1 DEF Books, PendingExact
<1>7. Publishes
  <2>1. \A p \in Publishers : targets[p] = <<>> /\ pub[p] = "idle"
    BY DEF LaneInit
  <2> QED
    BY <1>3, <2>1, Zenon DEF Publishes, Publishers
<1>8. Handles
  BY <1>5 DEF LaneInit, Handles
<1>9. Listed
  <2>1. \A s \in Subs : LaneSubjectOf[s] \in Subjects
    BY Zenon DEF Subjects, Publishers
  <2> QED
    BY <1>1, <2>1, Zenon DEF Listed
<1>10. ASSUME NEW s \in Subs PROVE Chain(s)
  <2>1. received[s] = <<>> /\ laneQueue[s] = <<>> /\ run[s] = "select"
    BY DEF LaneInit
  <2>2. InHand(s) = {}
    BY <2>1 DEF InHand
  <2> QED
    BY <1>2, <1>3, <2>1, <2>2, Zenon DEF Chain, Before
<1>11. Fanout
  <2>1. \A e \in Sources : emitted[e] = 0
    BY DEF LaneInit
  <2>2. \A n \in 1..0 : FALSE
    OBVIOUS
  <2> QED
    BY <2>1, <2>2, Zenon DEF Fanout
<1> QED
  BY <1>4, <1>6, <1>7, <1>8, <1>9, <1>10, <1>11 DEF LaneInv

(* So the invariant holds throughout.                                      *)
LEMMA LaneInvariance == LaneSpec => []LaneInv
<1>1. LaneInit => LaneInv
  BY LaneInitInv
<1>2. LaneInv /\ [LaneNext]_laneVars => LaneInv'
  <2> SUFFICES ASSUME LaneInv, [LaneNext]_laneVars PROVE LaneInv'
    OBVIOUS
  <2>1. ASSUME NEW p \in Publishers, EnqueueStep(p) PROVE LaneInv'
    BY <2>1, EnqueueWaitsInv, EnqueueSendInv, EnqueueFailsInv, Zenon DEF EnqueueStep
  <2>2. ASSUME NEW s \in Subs, RunStep(s) PROVE LaneInv'
    BY <2>2, RunTakesInv, DeliverInv, RunGoesOnInv, Zenon DEF RunStep
  <2>3. ASSUME NEW s \in Subs, UnsubStep(s) PROVE LaneInv'
    BY <2>3, UnsubscribeInv, UnsubClearsInv, Zenon DEF UnsubStep
  <2> QED
    BY <2>1, <2>2, <2>3, EmitInv, QuiesceInv, Zenon DEF LaneNext
<1> QED
  BY <1>1, <1>2, PTL DEF LaneSpec

(***************************************************************************)
(* The lane is exact: pending counts what is under way, each subscription  *)
(* handles what a source emits once and in order, and none that is open is *)
(* left out, however publishes, handlers and Unsubscribe interleave.       *)
(***************************************************************************)
THEOREM LaneIsExact == LaneSpec => []LaneExact
<1>1. LaneInv => LaneExact
  <2> SUFFICES ASSUME LaneInv PROVE LaneExact
    OBVIOUS
  <2>1. InOrderOnce
    <3> SUFFICES ASSUME NEW s \in Subs, NEW i \in 1..Len(received[s]), NEW j \in 1..Len(received[s]),
                        i < j, received[s][i].from = received[s][j].from
                 PROVE  received[s][i].no < received[s][j].no
      BY DEF InOrderOnce
    <3>1. DOMAIN received[s] = 1..Len(received[s])
      BY WayMsgs, LenProperties, Zenon
    <3>2. received[s][i] \in ToSet(received[s]) /\ received[s][j] \in ToSet(received[s])
      BY <3>1, Zenon DEF ToSet
    <3>3. received[s][i].hops = 0 /\ received[s][j].hops = 0
      BY <3>2, Zenon DEF LaneInv, Chain
    <3> QED
      BY <3>3, Zenon DEF LaneInv, Chain, Sorted, InOrder
  <2>2. FanoutComplete
    BY Zenon DEF LaneInv, Fanout, FanoutComplete, Served, Own
  <2> QED
    BY <2>1, <2>2 DEF LaneInv, LaneExact, Books
<1> QED
  BY <1>1, LaneInvariance, PTL

(***************************************************************************)
(* "quiesce waits until nothing is queued and no handler is running": when *)
(* it returns nil that is so.                                              *)
(***************************************************************************)
THEOREM NilMeansQuiet == LaneSpec => QuiesceIsQuiet
<1>1. LaneInv /\ [LaneNext]_laneVars =>
        [quiesce = "polling" /\ quiesce' = "nil" =>
           Handling = {} /\ \A s \in Subs : laneQueue[s] = <<>>]_laneVars
  <2> SUFFICES ASSUME LaneInv, LaneNext, quiesce = "polling", quiesce' = "nil"
               PROVE  Handling = {} /\ \A s \in Subs : laneQueue[s] = <<>>
    BY Zenon
  <2>1. pending <= 0
    <3>1. quiesce' # quiesce
      OBVIOUS
    <3>2. QuiesceBegins \/ QuiesceNil \/ QuiesceInterrupted
      BY <3>1, Zenon
         DEF LaneNext, Emit, EnqueueStep, EnqueueCount, EnqueueSend, EnqueueBlocks, EnqueueFails, RunStep,
             RunTakes, Deliver, HandlerReturns, RunDone, RunStops, UnsubStep, Unsubscribe, UnsubRemoves,
             UnsubWaited, UnsubClears
    <3> QED
      BY <3>2 DEF QuiesceBegins, QuiesceNil, QuiesceInterrupted
  <2>2. /\ IsFiniteSet(Queued) /\ IsFiniteSet(Handling) /\ IsFiniteSet(Sending)
        /\ pending = Cardinality(Queued) + Cardinality(Handling) + Cardinality(Sending)
    BY Zenon DEF LaneInv, Books, PendingExact
  <2>3. Cardinality(Queued) = 0 /\ Cardinality(Handling) = 0
    BY <2>1, <2>2, CountIsNat
  <2>4. Queued = {} /\ Handling = {}
    BY <2>2, <2>3, FS_EmptySet, Zenon
  <2>5. ASSUME NEW s \in Subs PROVE laneQueue[s] = <<>>
    <3> DEFINE q == laneQueue[s]
    <3>1. ASSUME NEW i \in DOMAIN q PROVE FALSE
      <4>1. <<s, i>> \in {s} \X DOMAIN q
        OBVIOUS
      <4> QED
        BY <2>4, <4>1, Zenon DEF Queued
    <3>2. q \in Seq(Msgs)
      BY WayMsgs, Zenon
    <3> HIDE DEF q
    <3>3. q = <<>>
      <4>1. DOMAIN q = 1..Len(q) /\ Len(q) \in Nat
        BY <3>2, LenProperties
      <4>2. Len(q) = 0
        BY <3>1, <4>1
      <4> QED
        BY <3>2, <4>2, EmptySeq
    <3> QED
      BY <3>3 DEF q
  <2> QED
    BY <2>4, <2>5
<1> QED
  BY <1>1, LaneInvariance, PTL DEF LaneSpec, QuiesceIsQuiet
================================================================================
