-------------------------- MODULE TrainsLapProofs --------------------------
(***************************************************************************)
(* The two laps of a train: while no link repeats a message, an issuer has *)
(* one train on the ring, and no process runs more than one clock ahead of *)
(* another, for every ring size, number of trains, mode and bound.         *)
(***************************************************************************)
EXTENDS TrainsRingProofs

(* The core *)

\* Handled for a union and a difference.
LEMMA KeysOfUnion == \A S, T : KeysOf(S \cup T) = KeysOf(S) \cup KeysOf(T)
  BY DEF KeysOf

\* drain_parked leaves nothing it could deliver, and loses no key.
LEMMA DrainLap ==
  ASSUME NEW n \in Node
  PROVE  LET m == DrainParked(n).node IN
         /\ m.frozen = n.frozen
         /\ Handled(m) = Handled(n)
         /\ Drained(m) = {}
  <1> DEFINE D == Drained(n)
             m == FinishParked(n, D)
  <1>1. D \subseteq n.parked /\ D \in SUBSET Train
    BY DEF Drained, Node
  <1>2. DrainParked(n).node = m
    BY DEF DrainParked
  <1>3. /\ m.done = n.done \cup KeysOf(D) /\ m.parked = n.parked \ D
        /\ m.seen = n.seen /\ m.crashed = n.crashed /\ m.frozen = n.frozen
    BY <1>1, FinishType
  <1> HIDE DEF D, m
  <1>4. Handled(m) = Handled(n)
    BY <1>1, <1>3 DEF Handled, KeysOf
  <1>5. ASSUME NEW t \in Drained(m) PROVE FALSE
    <2>1. /\ t \in n.parked /\ t \notin D /\ ~n.frozen
          /\ SeenClocksAdvancedEnough(m, KeyOf(t))
          /\ PriorKnownIn(m, KeyOf(t), Handled(n))
      BY <1>3, <1>4 DEF Drained, Handled
    <2>2. SeenClocksAdvancedEnough(n, KeyOf(t)) /\ PriorKnownIn(n, KeyOf(t), Handled(n))
      BY <1>3, <2>1 DEF SeenClocksAdvancedEnough, PriorKnownIn
    <2> QED
      BY <2>1, <2>2 DEF D, Drained, Handled
  <1> QED
    BY <1>2, <1>3, <1>4, <1>5

\* try_deliver: a train that is ready ends up delivered or parked; nothing else
\* becomes handled.
LEMMA TryDeliverLap ==
  ASSUME NEW n \in Node, NEW t \in Train
  PROVE  LET m == TryDeliver(n, t).node IN
         /\ m.frozen = n.frozen
         /\ Handled(n) \subseteq Handled(m)
         /\ Handled(m) \subseteq Handled(n) \cup {KeyOf(t)}
         /\ ~n.frozen /\ ReadyToDeliver(n, t.acks) => KeyOf(t) \in Handled(m)
         /\ Mode = "CausalOrder" => Handled(m) = Handled(n)
  <1> DEFINE m == TryDeliver(n, t).node
  <1>0. Mode = "CausalOrder" => ~ReadyToDeliver(n, t.acks)
    BY DEF ReadyToDeliver
  <1>1. CASE n.frozen \/ ~ReadyToDeliver(n, t.acks) \/ KeyOf(t) \in n.done
    <2>1. m = n
      BY <1>1 DEF TryDeliver
    <2> QED
      BY <1>1, <2>1 DEF Handled
  <1>2. CASE /\ ~(n.frozen \/ ~ReadyToDeliver(n, t.acks) \/ KeyOf(t) \in n.done)
             /\ IsDeliverable(n, KeyOf(t))
    <2>1. m = RecordDelivered(n, t)
      BY <1>2 DEF TryDeliver
    <2>2. m.done = n.done \cup {KeyOf(t)} /\ m.parked = n.parked /\ m.frozen = n.frozen
      BY <2>1, RecordType
    <2> QED
      BY <1>0, <1>2, <2>2 DEF Handled, KeysOf
  <1>3. CASE /\ ~(n.frozen \/ ~ReadyToDeliver(n, t.acks) \/ KeyOf(t) \in n.done)
             /\ ~IsDeliverable(n, KeyOf(t)) /\ KeyOf(t) \in KeysOf(n.parked)
    <2>1. m = n
      BY <1>3 DEF TryDeliver
    <2> QED
      BY <1>0, <1>3, <2>1 DEF Handled
  <1>4. CASE /\ ~(n.frozen \/ ~ReadyToDeliver(n, t.acks) \/ KeyOf(t) \in n.done)
             /\ ~IsDeliverable(n, KeyOf(t)) /\ KeyOf(t) \notin KeysOf(n.parked)
    <2>1. m = [n EXCEPT !.parked = @ \cup {t}]
      BY <1>4 DEF TryDeliver
    <2>2. m.done = n.done /\ m.parked = n.parked \cup {t} /\ m.frozen = n.frozen
      BY <2>1 DEF Node
    <2> QED
      BY <1>0, <1>4, <2>2 DEF Handled, KeysOf
  <1> QED
    BY <1>1, <1>2, <1>3, <1>4

\* What a step at n that ends in drain_parked leaves, t being the train it tried
\* to deliver.
LapKept(n, t, m) ==
    /\ m.frozen = n.frozen /\ m.crashed = n.crashed /\ m.nextIssue = n.nextIssue
    /\ Handled(n) \subseteq Handled(m)
    /\ Handled(m) \subseteq Handled(n) \cup {KeyOf(t)}
    /\ Mode = "CausalOrder" => Handled(m) = Handled(n)
    /\ m.parked \subseteq n.parked \cup {t}
    /\ \A k \in m.done \ n.done : SeenClocksAdvancedEnough(m, k)
    /\ Drained(m) = {}

\* try_deliver followed by drain_parked takes that step.
LEMMA TryDeliverThenDrainLap ==
  ASSUME NEW n \in Node, NEW t \in Train
  PROVE  LET m == TryDeliverThenDrain(n, t).node IN
         /\ LapKept(n, t, m)
         /\ m.seen = n.seen
         /\ ~n.frozen /\ ReadyToDeliver(n, t.acks) => KeyOf(t) \in Handled(m)
  <1> DEFINE a == TryDeliver(n, t).node
             m == TryDeliverThenDrain(n, t).node
             dl == TryDeliverThenDrain(n, t).deliver
  <1>1. a \in Node
    BY TryDeliverEffect
  <1>2. m = DrainParked(a).node
    BY DEF TryDeliverThenDrain
  <1>3. /\ a.frozen = n.frozen
        /\ Handled(n) \subseteq Handled(a)
        /\ Handled(a) \subseteq Handled(n) \cup {KeyOf(t)}
        /\ ~n.frozen /\ ReadyToDeliver(n, t.acks) => KeyOf(t) \in Handled(a)
        /\ Mode = "CausalOrder" => Handled(a) = Handled(n)
    BY TryDeliverLap
  <1> HIDE DEF a
  <1>4. m.frozen = a.frozen /\ Handled(m) = Handled(a) /\ Drained(m) = {}
    BY <1>1, <1>2, DrainLap
  <1>5. Kept(n, m) /\ DeliveryEffect(n, Candidates(n, t), m, dl)
    BY TryDeliverThenDrainEffect
  <1> HIDE DEF m, dl
  <1>6. m.parked \subseteq n.parked \cup {t}
    BY <1>5 DEF DeliveryEffect, Candidates
  <1>7. m.seen = n.seen /\ m.crashed = n.crashed /\ m.nextIssue = n.nextIssue
    BY <1>5 DEF Kept
  <1>8. \A k \in m.done \ n.done : SeenClocksAdvancedEnough(n, k)
    BY <1>5 DEF DeliveryEffect, KeysOf
  <1>9. \A k \in m.done \ n.done : SeenClocksAdvancedEnough(m, k)
    BY <1>7, <1>8 DEF SeenClocksAdvancedEnough
  <1>10. LapKept(n, t, m)
    BY <1>3, <1>4, <1>6, <1>7, <1>9 DEF LapKept
  <1> QED
    BY <1>3, <1>4, <1>7, <1>10 DEF m

-----------------------------------------------------------------------------
(* What handle_train does to a train's lap, case by case. *)

LapPasses(p, n, t, r) ==
    /\ LapKept(n, t, r.node)
    /\ r.forward = {t}
    /\ IF t.issuer = p
         THEN r.node.seen = [n.seen EXCEPT ![p] = IF t.clock > @ THEN t.clock ELSE @]
         ELSE r.node.seen = n.seen /\ n.seen[t.issuer] >= t.clock
    /\ ~n.frozen /\ ReadyToDeliver(n, t.acks) => KeyOf(t) \in Handled(r.node)

LapLoads(p, n, t, r) ==
    /\ LapKept(n, t, r.node)
    /\ t.issuer # p /\ n.seen[t.issuer] < t.clock
    /\ \E x : r.forward = {x} /\ x.issuer = t.issuer /\ x.clock = t.clock
              /\ x.acks = t.acks \cup {p}
    /\ r.node.seen = [n.seen EXCEPT ![t.issuer] = t.clock]
    /\ r.node.parked \subseteq n.parked /\ Handled(r.node) = Handled(n)

LapRecycles(p, n, t, r) ==
    /\ t.issuer = p /\ KeyOf(t) \in n.done
    /\ r.forward = {NewTrain(p, n)}
    /\ r.node.done = n.done /\ r.node.parked = n.parked
    /\ r.node.crashed = n.crashed /\ r.node.frozen = n.frozen
    /\ r.node.nextIssue = n.nextIssue + 1
    /\ r.node.seen = [n.seen EXCEPT ![p] = IF t.clock > @ THEN t.clock ELSE @]

\* handle_foreign_train, second lap.
LEMMA ReplayLap ==
  ASSUME NEW p \in Proc, NEW n \in Node, NEW t \in Train, t.issuer # p, IsReplay(n, t)
  PROVE  LapPasses(p, n, t, HandleReplay(n, t))
  <1> DEFINE n1 == [n EXCEPT !.broadcastSeen = @ \cup t.payloads]
             m == TryDeliverThenDrain(n1, t).node
             r == HandleReplay(n, t)
  <1>1. /\ n1 \in Node /\ n1.seen = n.seen /\ n1.done = n.done /\ n1.parked = n.parked
        /\ n1.frozen = n.frozen /\ n1.crashed = n.crashed /\ n1.nextIssue = n.nextIssue
    BY DEF Node, Train
  <1>2. r.node = m /\ r.forward = {t}
    BY DEF HandleReplay, Result
  <1> HIDE DEF n1, r
  <1>3. /\ LapKept(n1, t, m) /\ m.seen = n1.seen
        /\ ~n1.frozen /\ ReadyToDeliver(n1, t.acks) => KeyOf(t) \in Handled(m)
    BY <1>1, TryDeliverThenDrainLap
  <1> HIDE DEF m
  <1>4. Handled(n1) = Handled(n) /\ (ReadyToDeliver(n1, t.acks) <=> ReadyToDeliver(n, t.acks))
    BY <1>1 DEF Handled, ReadyToDeliver
  <1>5. LapKept(n, t, m)
    BY <1>1, <1>3, <1>4 DEF LapKept
  <1>6. n.seen[t.issuer] >= t.clock
    BY DEF IsReplay
  <1> QED
    BY <1>1, <1>2, <1>3, <1>4, <1>5, <1>6 DEF LapPasses, r

\* handle_foreign_train, first lap.
LEMMA FirstLapLap ==
  ASSUME NEW p \in Proc, NEW n \in Node, NEW t \in Train,
         t.issuer # p, t.clock >= 1, ~IsReplay(n, t)
  PROVE  LapLoads(p, n, t, HandleFirstLap(p, n, t))
  <1> DEFINE r == HandleFirstLap(p, n, t)
             t1 == [t EXCEPT !.payloads = @ \cup n.pending, !.acks = @ \cup {p}]
             n0 == CheckAndUpdate(n, t.issuer, t.clock)
             n1 == [n0 EXCEPT !.broadcastSeen = @ \cup t1.payloads, !.pending = {}]
             m == DrainParked(n1).node
  <1>1. t1 \in Train /\ t1.issuer = t.issuer /\ t1.clock = t.clock /\ t1.acks = t.acks \cup {p}
    BY DEF Train, Node
  <1>2. n.seen[t.issuer] < t.clock /\ t.issuer \in Proc /\ t.clock \in Nat /\ n.seen \in [Proc -> Nat]
    BY DEF IsReplay, Node, Train
  <1>3. /\ n0 \in Node /\ n0.done = n.done /\ n0.parked = n.parked /\ n0.crashed = n.crashed
        /\ n0.nextIssue = n.nextIssue
        /\ n0.seen = [n.seen EXCEPT ![t.issuer] = t.clock]
    BY <1>2, CheckAndUpdateEffect
  <1>4. n0.frozen = n.frozen
    BY DEF CheckAndUpdate, Node
  <1>r. r.node = m /\ r.forward = {t1}
    BY DEF HandleFirstLap, Result
  <1>t. t1.payloads \in SUBSET Payload
    BY <1>1 DEF Train
  <1> HIDE DEF t1, n0, r
  <1>5. /\ n1 \in Node /\ n1.done = n0.done /\ n1.parked = n0.parked /\ n1.crashed = n0.crashed
        /\ n1.nextIssue = n0.nextIssue /\ n1.seen = n0.seen /\ n1.frozen = n0.frozen
    BY <1>t, <1>3 DEF Node
  <1> HIDE DEF n1
  <1>6. Kept(n1, m) /\ DeliveryEffect(n1, n1.parked, m, NonEmpty(DrainParked(n1).deliver))
    BY <1>5, DrainEffect
  <1>7. m.frozen = n1.frozen /\ Handled(m) = Handled(n1) /\ Drained(m) = {}
    BY <1>5, DrainLap
  <1> HIDE DEF m
  <1>8. m.parked \subseteq n1.parked /\ \A k \in m.done \ n1.done : SeenClocksAdvancedEnough(n1, k)
    BY <1>6 DEF DeliveryEffect, KeysOf
  <1>9. m.seen = n1.seen /\ m.crashed = n1.crashed /\ m.nextIssue = n1.nextIssue
    BY <1>6 DEF Kept
  <1>10. \A k \in m.done \ n.done : SeenClocksAdvancedEnough(m, k)
    BY <1>3, <1>5, <1>8, <1>9 DEF SeenClocksAdvancedEnough
  <1>11. Handled(m) = Handled(n)
    BY <1>3, <1>5, <1>7 DEF Handled
  <1>12. LapKept(n, t, m)
    BY <1>3, <1>4, <1>5, <1>7, <1>8, <1>9, <1>10, <1>11 DEF LapKept
  <1> QED
    BY <1>1, <1>2, <1>3, <1>5, <1>8, <1>9, <1>11, <1>12, <1>r DEF LapLoads, r

\* handle_returning_train.
LEMMA ReturningLap ==
  ASSUME NEW p \in Proc, NEW n \in Node, NEW t \in Train, t.issuer = p
  PROVE  \/ LapPasses(p, n, t, HandleReturningTrain(p, n, t))
         \/ LapRecycles(p, n, t, HandleReturningTrain(p, n, t))
  <1> DEFINE r == HandleReturningTrain(p, n, t)
             n1 == CheckAndUpdate(n, p, t.clock)
             m == TryDeliverThenDrain(n1, t).node
  <1>0. t.clock \in Nat
    BY DEF Train
  <1>1. /\ n1 \in Node /\ n1.done = n.done /\ n1.parked = n.parked /\ n1.crashed = n.crashed
        /\ n1.nextIssue = n.nextIssue /\ n1.pending = n.pending
        /\ n1.seen = [n.seen EXCEPT ![p] = IF t.clock > @ THEN t.clock ELSE @]
    BY <1>0, CheckAndUpdateEffect
  <1>2. n1.frozen = n.frozen
    BY DEF CheckAndUpdate, Node
  <1>r. IF KeyOf(t) \in n.done
          THEN r.node = AfterIssue(n1) /\ r.forward = {NewTrain(p, n1)}
          ELSE r.node = m /\ r.forward = {t}
    BY DEF HandleReturningTrain, Result
  <1> HIDE DEF n1, r
  <1>3. CASE KeyOf(t) \in n.done
    <2>1. NewTrain(p, n1) = NewTrain(p, n)
      BY <1>1 DEF NewTrain
    <2>2. AfterIssue(n1).frozen = n1.frozen
      BY <1>1 DEF AfterIssue, Node
    <2>3. LapRecycles(p, n, t, r)
      BY <1>1, <1>2, <1>3, <1>r, <2>1, <2>2, IssueEffect DEF LapRecycles
    <2> QED
      BY <2>3 DEF r
  <1>4. CASE KeyOf(t) \notin n.done
    <2>1. /\ LapKept(n1, t, m) /\ m.seen = n1.seen
          /\ ~n1.frozen /\ ReadyToDeliver(n1, t.acks) => KeyOf(t) \in Handled(m)
      BY <1>1, TryDeliverThenDrainLap
    <2> HIDE DEF m
    <2>2. Handled(n1) = Handled(n) /\ (ReadyToDeliver(n1, t.acks) <=> ReadyToDeliver(n, t.acks))
      BY <1>1 DEF Handled, ReadyToDeliver
    <2>3. LapKept(n, t, m)
      BY <1>1, <1>2, <2>1, <2>2 DEF LapKept
    <2>4. LapPasses(p, n, t, r)
      BY <1>1, <1>2, <1>4, <1>r, <2>1, <2>2, <2>3 DEF LapPasses
    <2> QED
      BY <2>4 DEF r
  <1> QED
    BY <1>3, <1>4

\* handle_train.
LEMMA HandleTrainLap ==
  ASSUME NEW p \in Proc, NEW n \in Node, NEW t \in Train, t.clock >= 1
  PROVE  LET r == HandleTrain(p, n, t) IN
         \/ Absorbs(n, r) \/ LapPasses(p, n, t, r)
         \/ LapLoads(p, n, t, r) \/ LapRecycles(p, n, t, r)
  <1> DEFINE r == HandleTrain(p, n, t)
  <1>1. CASE t.clock <= n.floor[t.issuer]
    BY <1>1 DEF HandleTrain, Result, Absorbs
  <1>2. CASE ~(t.clock <= n.floor[t.issuer]) /\ t.issuer = p
    <2>1. r = HandleReturningTrain(p, n, t)
      BY <1>2 DEF HandleTrain
    <2> QED
      BY <1>2, <2>1, ReturningLap
  <1>3. CASE ~(t.clock <= n.floor[t.issuer]) /\ t.issuer # p /\ IsReplay(n, t)
    <2>1. r = HandleReplay(n, t)
      BY <1>3 DEF HandleTrain
    <2> QED
      BY <1>3, <2>1, ReplayLap
  <1>4. CASE ~(t.clock <= n.floor[t.issuer]) /\ t.issuer # p /\ ~IsReplay(n, t)
    <2>1. r = HandleFirstLap(p, n, t)
      BY <1>4 DEF HandleTrain
    <2> QED
      BY <1>4, <2>1, FirstLapLap
  <1> QED
    BY <1>1, <1>2, <1>3, <1>4

-----------------------------------------------------------------------------
(* The ring *)

\* The processes a train has passed: the issuer when it leaves it, one more at
\* every hop, all when it comes back.
LEMMA PassedHops ==
  ASSUME NEW i \in Proc, NEW d \in Proc
  PROVE  /\ Passed(i, i) = Proc
         /\ Passed(i, Succ(i)) = {i}
         /\ d # i => Passed(i, Succ(d)) \subseteq Passed(i, d) \cup {d}
  <1>1. RingSize \in Nat /\ RingSize >= 2 /\ \A q \in Proc : q \in Nat /\ q < RingSize
    BY RingAssumption DEF Proc
  <1>2. \A q \in Proc : Succ(q) = IF q = RingSize - 1 THEN 0 ELSE q + 1
    BY <1>1 DEF Succ, Proc
  <1>3. Passed(i, i) = Proc
    BY <1>1 DEF Passed
  <1>4. Passed(i, Succ(i)) = {i}
    BY <1>1, <1>2 DEF Passed
  <1>5. d # i => Passed(i, Succ(d)) \subseteq Passed(i, d) \cup {d}
    BY <1>1, <1>2 DEF Passed
  <1> QED
    BY <1>3, <1>4, <1>5

\* What LapInv says of a node does not depend on the other fields.
LapSame(n, m) ==
    /\ m.seen = n.seen /\ m.done = n.done /\ m.parked = n.parked
    /\ m.crashed = n.crashed /\ m.frozen = n.frozen

\* Two such nodes handled, and can drain, the same.
LEMMA LapSameDrained ==
  ASSUME NEW n, NEW m, LapSame(n, m)
  PROVE  Handled(m) = Handled(n) /\ Drained(m) = Drained(n)
  <1>1. Handled(m) = Handled(n)
    BY DEF LapSame, Handled
  <1>2. Drained(m) = Drained(n)
    BY DEF LapSame, Drained, SeenClocksAdvancedEnough, PriorKnownIn
  <1> QED
    BY <1>1, <1>2

\* A node the step leaves alone, while others may issue.
LEMMA OtherNodeLap ==
  ASSUME TypeOK, TypeOK', NEW q \in Proc, NodeLap(q), LapSame(node[q], node'[q]),
         node'[q].nextIssue = node[q].nextIssue, status'[q] = "boot" => status[q] = "boot",
         \A x \in Proc : node'[x].nextIssue >= node[x].nextIssue
  PROVE  NodeLap(q)'
  <1>1. \A x \in Proc : node'[x].nextIssue \in Nat /\ node[x].nextIssue \in Nat
    BY DEF TypeOK, Node
  <1>2. node[q].seen \in [Proc -> Nat]
    BY DEF TypeOK, Node
  <1>3. Handled(node'[q]) = Handled(node[q]) /\ Drained(node'[q]) = Drained(node[q])
    BY LapSameDrained
  <1>4. \A x \in Proc : node'[q].seen[x] < node'[x].nextIssue
    BY <1>1, <1>2 DEF NodeLap, LapSame
  <1> QED
    BY <1>3, <1>4 DEF NodeLap, LapSame

\* A train the step leaves alone, on the same link.
LEMMA OtherTrainLap ==
  ASSUME NEW d, NEW t, TrainLap(d, t), t.issuer \in Proc,
         node'[t.issuer].nextIssue = node[t.issuer].nextIssue,
         \A q \in Proc : node'[q].seen[t.issuer] = node[q].seen[t.issuer],
         \A q \in Proc : Handled(node[q]) \subseteq Handled(node'[q]),
         KeyOf(t) \in Handled(node'[t.issuer]) => KeyOf(t) \in Handled(node[t.issuer])
  PROVE  TrainLap(d, t)'
  <1>1. Passed(t.issuer, d) \subseteq Proc
    BY DEF Passed
  <1> QED
    BY <1>1 DEF TrainLap

\* A step that changes nothing LapInv looks at, but for trains that are lost.
LEMMA LapUnchanged ==
  ASSUME TrainsInv, TypeOK', LapInv,
         \A q \in Proc : /\ LapSame(node[q], node'[q])
                         /\ node'[q].nextIssue = node[q].nextIssue
                         /\ status'[q] = "boot" => status[q] = "boot",
         net' \subseteq net, faults'.dup = 0 => faults.dup = 0
  PROVE  LapInv'
  <1>1. \A x \in Proc : node'[x].nextIssue >= node[x].nextIssue
    BY DEF TrainsInv, TypeOK, Node
  <1>2. ASSUME NEW q \in Proc PROVE NodeLap(q)'
    BY <1>1, OtherNodeLap DEF LapInv, TrainsInv
  <1>3. \A q \in Proc : Handled(node'[q]) = Handled(node[q])
    BY LapSameDrained
  <1>4. ASSUME faults'.dup = 0
        PROVE  /\ OneTrainPerIssuer'
               /\ \A m \in net' : TrainLap(m[1], m[2])'
               /\ \A i \in Issuer : IssueLap(i)'
    <2>1. OneTrainPerIssuer'
      BY <1>4 DEF LapInv, OneTrainPerIssuer
    <2>2. ASSUME NEW m \in net' PROVE TrainLap(m[1], m[2])'
      <3>1. m \in net /\ m[2].issuer \in Proc
        BY DEF TrainsInv, TypeOK, Messages, Train
      <3>2. TrainLap(m[1], m[2])
        BY <1>4, <3>1 DEF LapInv
      <3>3. PICK d, t : d = m[1] /\ t = m[2]
        OBVIOUS
      <3>4. TrainLap(d, t)'
        BY <1>3, <3>1, <3>2, <3>3, OtherTrainLap DEF LapSame
      <3> QED
        BY <3>3, <3>4
    <2>3. ASSUME NEW i \in Issuer PROVE IssueLap(i)'
      <3>1. IssueLap(i) /\ i \in Proc
        BY <1>4, IssuerIsProc DEF LapInv
      <3> QED
        BY <1>3, <3>1 DEF IssueLap
    <2> QED
      BY <2>1, <2>2, <2>3
  <1> QED
    BY <1>2, <1>4 DEF LapInv

\* What a step that issues p's next train does.
Issues(p, rest) ==
    /\ LapSame(node[p], node'[p])
    /\ node'[p].nextIssue = node[p].nextIssue + 1
    /\ \A q \in Proc \ {p} : node'[q] = node[q]
    /\ rest \subseteq net
    /\ net' = rest \cup {<<Succ(p), NewTrain(p, node[p])>>}

\* The issuer itself, whatever the links do.
LEMMA IssueNodeLap ==
  ASSUME TrainsInv, TypeOK', LapInv, NEW p \in Proc, NEW rest, Issues(p, rest),
         status'[p] # "boot"
  PROVE  NodeLap(p)'
  <1>1. LapSame(node[p], node'[p]) /\ NodeLap(p)
    BY DEF Issues, LapInv
  <1>n. \A x \in Proc : node[x] \in Node /\ node'[x] \in Node
    BY DEF TrainsInv, TypeOK
  <1>2. \A x \in Proc : /\ node[x].nextIssue \in Nat /\ node'[x].nextIssue >= node[x].nextIssue
                        /\ node'[x].nextIssue \in Nat
    BY <1>n DEF Issues, Node
  <1>3. \A x \in Proc : node[p].seen[x] < node[x].nextIssue /\ node[p].seen[x] \in Nat
    BY <1>1, <1>n DEF NodeLap, Node
  <1>4. \A x \in Proc : node'[p].seen[x] < node'[x].nextIssue
    BY <1>1, <1>2, <1>3 DEF LapSame
  <1>5. /\ node'[p].seen = node[p].seen /\ node'[p].done = node[p].done
        /\ node'[p].parked = node[p].parked /\ node'[p].frozen = node[p].frozen
        /\ Handled(node'[p]) = Handled(node[p]) /\ Drained(node'[p]) = Drained(node[p])
    BY <1>1, LapSameDrained DEF LapSame
  <1> QED
    BY <1>1, <1>4, <1>5 DEF NodeLap

\* Issuing: p has no other train on the ring, and the key before is handled.
LEMMA IssueLapStep ==
  ASSUME TrainsInv, TypeOK', LapInv, NEW p \in Issuer, NEW rest, Issues(p, rest),
         faults' = faults, status'[p] # "boot",
         \A q \in Proc \ {p} : status'[q] = status[q],
         faults.dup = 0 => \A m \in rest : m[2].issuer # p,
         faults.dup = 0 => \/ node[p].nextIssue = 1
                           \/ \A q \in Proc : <<node[p].nextIssue - 1, p>> \in Handled(node[q])
  PROVE  LapInv'
  <1>1. p \in Proc /\ node[p] \in Node /\ \A q \in Proc : node[q].nextIssue \in Nat
    BY IssuerIsProc DEF TrainsInv, TypeOK, Node
  <1>2. \A q \in Proc : /\ LapSame(node[q], node'[q]) /\ node'[q].nextIssue >= node[q].nextIssue
    BY <1>1 DEF Issues, LapSame
  <1>3. \A q \in Proc : Handled(node'[q]) = Handled(node[q]) /\ Drained(node'[q]) = Drained(node[q])
    BY <1>2, LapSameDrained
  <1>4. \A q \in Proc : NodeLap(q) /\ node[q].seen \in [Proc -> Nat]
    BY DEF LapInv, TrainsInv, TypeOK, Node
  <1>5. ASSUME NEW q \in Proc PROVE NodeLap(q)'
    <2>1. CASE q # p
      BY <1>2, <1>4, <2>1, OtherNodeLap DEF Issues, TrainsInv
    <2>2. CASE q = p
      BY <1>1, <2>2, IssueNodeLap
    <2> QED
      BY <2>1, <2>2
  <1>6a. PICK x : x = NewTrain(p, node[p])
    OBVIOUS
  <1>6. x.issuer = p /\ x.clock = node[p].nextIssue /\ x.acks = {p} /\ KeyOf(x) = <<node[p].nextIssue, p>>
    BY <1>6a DEF NewTrain, KeyOf
  \* Nobody has seen or handled the new key.
  <1>7. \A q \in Proc : ~(node'[q].seen[p] >= x.clock)
    BY <1>1, <1>2, <1>4, <1>6 DEF NodeLap, LapSame
  <1>8. KeyOf(x) \notin Handled(node'[p])
    <2>1. ASSUME KeyOf(x) \in node[p].done PROVE FALSE
      <3>1. KeyOf(x)[1] = x.clock
        BY DEF KeyOf
      <3>2. node[p].seen[p] >= x.clock
        BY <1>1, <1>4, <2>1, <3>1 DEF NodeLap
      <3> QED
        BY <1>1, <1>2, <1>7, <3>2 DEF LapSame
    <2>2. ASSUME NEW u \in node[p].parked, KeyOf(u) = KeyOf(x) PROVE FALSE
      <3>1. u.issuer = p /\ u.clock = x.clock
        BY <1>6, <2>2 DEF KeyOf
      <3>2. node[p].seen[p] >= x.clock
        BY <1>1, <1>4, <3>1 DEF NodeLap
      <3> QED
        BY <1>1, <1>2, <1>7, <3>2 DEF LapSame
    <2> QED
      BY <1>1, <1>3, <2>1, <2>2 DEF Handled, KeysOf
  <1>9. ASSUME faults'.dup = 0
        PROVE  /\ OneTrainPerIssuer'
               /\ \A m \in net' : TrainLap(m[1], m[2])'
               /\ \A i \in Issuer : IssueLap(i)'
    <2>1. /\ OneTrainPerIssuer /\ \A m \in net : TrainLap(m[1], m[2])
          /\ \A i \in Issuer : IssueLap(i)
          /\ \A m \in rest : m[2].issuer # p
      BY <1>9 DEF LapInv
    <2>2. net' = rest \cup {<<Succ(p), x>>} /\ rest \subseteq net
      BY <1>6a DEF Issues
    <2>3. OneTrainPerIssuer'
      BY <1>6, <2>1, <2>2 DEF OneTrainPerIssuer
    <2>4. TrainLap(Succ(p), x)'
      <3>1. Passed(p, Succ(p)) = {p}
        BY <1>1, PassedHops
      <3>2. node'[p].nextIssue - 1 = node[p].nextIssue
        BY <1>1 DEF Issues
      <3> QED
        BY <1>6, <1>7, <1>8, <3>1, <3>2 DEF TrainLap
    <2>5. ASSUME NEW m \in rest PROVE TrainLap(m[1], m[2])'
      <3>1. m \in net /\ m[2].issuer \in Proc \ {p}
        BY <2>1, <2>2 DEF TrainsInv, TypeOK, Messages, Train
      <3>2. PICK d, t : d = m[1] /\ t = m[2]
        OBVIOUS
      <3>3. TrainLap(d, t) /\ t.issuer \in Proc \ {p}
        BY <2>1, <3>1, <3>2
      <3>4. TrainLap(d, t)'
        BY <1>2, <1>3, <3>3, OtherTrainLap DEF LapSame, Issues
      <3> QED
        BY <3>2, <3>4
    <2>6. \A m \in net' : TrainLap(m[1], m[2])'
      BY <2>2, <2>4, <2>5
    <2>7. ASSUME NEW i \in Issuer, NEW c \in 1..(node'[i].nextIssue - 2), NEW q \in Proc
          PROVE  <<c, i>> \in Handled(node'[q])
      <3>1. i \in Proc
        BY IssuerIsProc
      <3>2. CASE c \in 1..(node[i].nextIssue - 2)
        BY <1>3, <2>1, <3>2 DEF IssueLap
      <3>3. CASE c \notin 1..(node[i].nextIssue - 2)
        <4>1. i = p
          BY <2>7, <3>1, <3>3 DEF Issues
        <4>2. node'[p].nextIssue = node[p].nextIssue + 1
          BY DEF Issues
        <4>3. c = node[p].nextIssue - 1 /\ c >= 1
          BY <1>1, <2>7, <3>3, <4>1, <4>2
        <4>4. node[p].nextIssue # 1
          BY <1>1, <4>3
        <4> QED
          BY <1>3, <1>9, <4>1, <4>3, <4>4
      <3> QED
        BY <3>2, <3>3
    <2>8. \A i \in Issuer : IssueLap(i)'
      BY <2>7 DEF IssueLap
    <2> QED
      BY <2>3, <2>6, <2>8
  <1> QED
    BY <1>5, <1>9 DEF LapInv

\* What a step that moves the train t one hop, as x, does.
Moves(p, t, x) ==
    /\ LapKept(node[p], t, node'[p])
    /\ \A j \in Proc \ {t.issuer} : node'[p].seen[j] = node[p].seen[j]
    /\ \/ node'[p].seen[t.issuer] = node[p].seen[t.issuer]
       \/ node'[p].seen[t.issuer] = t.clock /\ t.clock > node[p].seen[t.issuer]
    /\ node'[p].seen[t.issuer] >= t.clock
    /\ x.issuer = t.issuer /\ x.clock = t.clock
    /\ \A q \in Proc \ {p} : node'[q] = node[q]
    /\ status' = status /\ status[p] # "boot"
    /\ faults'.dup = 0 => /\ faults.dup = 0
                          /\ net' = (net \ {<<p, t>>}) \cup {<<Succ(p), x>>}

\* The node that moves it.
LEMMA MoveNodeLap ==
  ASSUME TrainsInv, TypeOK', LapInv, NEW p \in Proc, NEW t, <<p, t>> \in net, NEW x, Moves(p, t, x)
  PROVE  NodeLap(p)'
  <1>1. t \in Train /\ TrainInv(t) /\ node[p] \in Node
    BY HandleType
  <1>2. /\ t.issuer \in Issuer /\ t.issuer \in Proc /\ t.clock \in Nat
        /\ t.clock < node[t.issuer].nextIssue
    BY <1>1 DEF TrainInv, Train
  <1>3. /\ node[p].seen \in [Proc -> Nat] /\ node'[p].seen \in [Proc -> Nat]
        /\ \A q \in Proc : node[q].nextIssue \in Nat
    BY DEF TrainsInv, TypeOK, Node
  <1>4. NodeLap(p) /\ node[p].crashed = {}
    BY DEF LapInv, TrainsInv, NodeInv
  <1>5. \A q \in Proc : node'[p].seen[q] >= node[p].seen[q]
    BY <1>2, <1>3 DEF Moves
  <1>6. \A q \in Proc : node'[q].nextIssue = node[q].nextIssue
    BY DEF Moves, LapKept
  <1>7. ASSUME NEW q \in Proc
        PROVE  /\ node'[p].seen[q] < node'[q].nextIssue
               /\ q \notin Issuer => node'[p].seen[q] = 0
    BY <1>2, <1>3, <1>4, <1>6 DEF Moves, NodeLap
  <1>8. ASSUME NEW k \in node'[p].done, NEW i \in Issuer PROVE node'[p].seen[i] >= k[1]
    <2>1. CASE k \in node[p].done
      <3>1. i \in Proc /\ node[p].seen[i] >= k[1] /\ k[1] \in Nat
        BY <1>1, <1>4, <2>1, IssuerIsProc DEF NodeLap, Node, Key
      <3> QED
        BY <1>3, <1>5, <3>1
    <2>2. CASE k \notin node[p].done
      BY <1>4, <2>2 DEF Moves, LapKept, SeenClocksAdvancedEnough
    <2> QED
      BY <2>1, <2>2
  <1>9. ASSUME NEW u \in node'[p].parked PROVE node'[p].seen[u.issuer] >= u.clock
    <2>1. CASE u \in node[p].parked
      <3>1. u.issuer \in Proc /\ u.clock \in Nat /\ node[p].seen[u.issuer] >= u.clock
        BY <1>1, <1>4, <2>1 DEF NodeLap, Node, Train
      <3> QED
        BY <1>3, <1>5, <3>1
    <2>2. CASE u = t
      BY <2>2 DEF Moves
    <2> QED
      BY <2>1, <2>2 DEF Moves, LapKept
  <1>10. status'[p] # "boot"
    BY DEF Moves
  <1>11. ~node'[p].frozen /\ Drained(node'[p]) = {}
    BY <1>4 DEF NodeLap, Moves, LapKept
  <1>12. Mode = "CausalOrder" => Handled(node'[p]) = {}
    BY <1>4 DEF NodeLap, Moves, LapKept
  <1> QED
    BY <1>7, <1>8, <1>9, <1>10, <1>11, <1>12 DEF NodeLap

\* The whole invariant, if x is right about its lap.
LEMMA MoveLapStep ==
  ASSUME TrainsInv, TypeOK', LapInv, NEW p \in Proc, NEW t, <<p, t>> \in net, NEW x, Moves(p, t, x),
         faults'.dup = 0 => TrainLap(Succ(p), x)'
  PROVE  LapInv'
  <1>1. t \in Train /\ TrainInv(t) /\ t.issuer \in Proc
    BY HandleType DEF Train
  <1>2. \A q \in Proc : node'[q].nextIssue = node[q].nextIssue /\ node[q].nextIssue \in Nat
    BY DEF Moves, LapKept, TrainsInv, TypeOK, Node
  <1>3. ASSUME NEW q \in Proc PROVE NodeLap(q)'
    <2>1. CASE q = p
      BY <2>1, MoveNodeLap
    <2>2. CASE q # p
      <3>1. LapSame(node[q], node'[q]) /\ status'[q] = status[q]
        BY <2>2 DEF Moves, LapSame
      <3>2. \A y \in Proc : node'[y].nextIssue >= node[y].nextIssue
        BY <1>2
      <3> QED
        BY <1>2, <3>1, <3>2, OtherNodeLap DEF LapInv, TrainsInv
    <2> QED
      BY <2>1, <2>2
  <1>4. \A q \in Proc : Handled(node[q]) \subseteq Handled(node'[q])
    BY DEF Moves, LapKept
  <1>5. ASSUME faults'.dup = 0
        PROVE  /\ OneTrainPerIssuer'
               /\ \A m \in net' : TrainLap(m[1], m[2])'
               /\ \A i \in Issuer : IssueLap(i)'
    <2>1. /\ OneTrainPerIssuer /\ \A m \in net : TrainLap(m[1], m[2])
          /\ \A i \in Issuer : IssueLap(i)
          /\ net' = (net \ {<<p, t>>}) \cup {<<Succ(p), x>>}
      BY <1>5 DEF LapInv, Moves
    <2>2. x.issuer = t.issuer
      BY DEF Moves
    <2>3. ASSUME NEW m \in net, m # <<p, t>> PROVE m[2].issuer # t.issuer
      BY <2>1, <2>3 DEF OneTrainPerIssuer
    <2>4. OneTrainPerIssuer'
      BY <2>1, <2>2, <2>3 DEF OneTrainPerIssuer
    <2>5. ASSUME NEW m \in net, m # <<p, t>> PROVE TrainLap(m[1], m[2])'
      <3>1. PICK d, u : d = m[1] /\ u = m[2]
        OBVIOUS
      <3>2. TrainLap(d, u) /\ u.issuer \in Proc /\ u.issuer # t.issuer
        BY <2>1, <2>3, <2>5, <3>1 DEF TrainsInv, TypeOK, Messages, Train
      <3>3. \A q \in Proc : node'[q].seen[u.issuer] = node[q].seen[u.issuer]
        BY <3>2 DEF Moves
      <3>4. KeyOf(u) # KeyOf(t)
        BY <3>2 DEF KeyOf
      <3>5. \A q \in Proc : KeyOf(u) \in Handled(node'[q]) => KeyOf(u) \in Handled(node[q])
        BY <3>4 DEF Moves, LapKept
      <3>6. TrainLap(d, u)'
        BY <1>2, <1>4, <3>2, <3>3, <3>5, OtherTrainLap
      <3> QED
        BY <3>1, <3>6
    <2>6. \A m \in net' : TrainLap(m[1], m[2])'
      <3>1. <<Succ(p), x>>[1] = Succ(p) /\ <<Succ(p), x>>[2] = x
        OBVIOUS
      <3> QED
        BY <1>5, <2>1, <2>5, <3>1
    <2>7. ASSUME NEW i \in Issuer PROVE IssueLap(i)'
      <3>1. i \in Proc /\ IssueLap(i)
        BY <2>1, IssuerIsProc
      <3> QED
        BY <1>2, <1>4, <3>1 DEF IssueLap
    <2> QED
      BY <2>4, <2>6, <2>7
  <1> QED
    BY <1>3, <1>5 DEF LapInv

\* Passing the train on, in its second lap or at its issuer.
LEMMA PassLapStep ==
  ASSUME TrainsInv, TypeOK', LapInv, NEW p \in Proc, NEW t, <<p, t>> \in net, Moves(p, t, t),
         faults'.dup = 0,
         p # t.issuer => node[p].seen[t.issuer] >= t.clock /\ node'[p].seen = node[p].seen,
         ReadyToDeliver(node[p], t.acks) => KeyOf(t) \in Handled(node'[p])
  PROVE  TrainLap(Succ(p), t)'
  <1>1. t \in Train /\ TrainInv(t) /\ t.issuer \in Proc
    BY HandleType DEF Train
  <1>2. PICK i : i = t.issuer
    OBVIOUS
  <1>3. TrainLap(p, t)
    <2>1. faults.dup = 0
      BY DEF Moves
    <2> QED
      BY <2>1, <<p, t>>[1] = p, <<p, t>>[2] = t DEF LapInv
  <1>4. node'[i].nextIssue = node[i].nextIssue
    BY <1>1, <1>2 DEF Moves, LapKept
  <1>5. Passed(i, Succ(p)) \subseteq t.acks
    <2>1. CASE p = i
      BY <1>1, <1>2, <2>1, PassedHops DEF TrainInv
    <2>2. CASE p # i
      <3>1. p \in t.acks
        BY <1>2, <1>3, <2>2 DEF TrainLap
      <3>2. Passed(i, Succ(p)) \subseteq Passed(i, p) \cup {p}
        BY <1>1, <1>2, <2>2, PassedHops
      <3> QED
        BY <1>2, <1>3, <3>1, <3>2 DEF TrainLap
    <2> QED
      BY <2>1, <2>2
  <1>6. \A q \in Proc \ {i} : node'[q].seen[i] >= t.clock => q \in t.acks
    BY <1>2, <1>3 DEF TrainLap, Moves
  <1>7. ASSUME KeyOf(t) \in Handled(node'[i])
        PROVE  t.acks = Proc /\ \A q \in Passed(i, Succ(p)) : KeyOf(t) \in Handled(node'[q])
    <2>1. CASE p = i
      <3>1. Passed(i, i) = Proc /\ Passed(i, Succ(i)) = {i}
        BY <1>1, <1>2, PassedHops
      <3>2. t.acks = Proc
        BY <1>1, <1>2, <1>3, <2>1, <3>1 DEF TrainLap, Train
      <3> QED
        BY <1>7, <2>1, <3>1, <3>2
    <2>2. CASE p # i
      <3>1. node'[i] = node[i]
        BY <1>1, <1>2, <2>2 DEF Moves
      <3>2. t.acks = Proc /\ \A q \in Passed(i, p) : KeyOf(t) \in Handled(node[q])
        BY <1>2, <1>3, <1>7, <3>1 DEF TrainLap
      <3>3. Mode # "CausalOrder"
        BY <1>1, <1>2, <1>7, <3>1 DEF LapInv, NodeLap
      <3>4. node[p].crashed = {}
        BY DEF TrainsInv, NodeInv
      <3>5. ReadyToDeliver(node[p], t.acks)
        BY <3>2, <3>3, <3>4, ModeAssumption DEF ReadyToDeliver
      <3>6. KeyOf(t) \in Handled(node'[p])
        BY <3>5
      <3>7. Passed(i, Succ(p)) \subseteq Passed(i, p) \cup {p} /\ Passed(i, p) \subseteq Proc
        BY <1>1, <1>2, <2>2, PassedHops DEF Passed
      <3>8. \A q \in Proc : Handled(node[q]) \subseteq Handled(node'[q])
        BY DEF Moves, LapKept
      <3> QED
        BY <3>2, <3>6, <3>7, <3>8
    <2> QED
      BY <2>1, <2>2
  <1> QED
    BY <1>2, <1>3, <1>4, <1>5, <1>6, <1>7 DEF TrainLap

\* Loading it in its first lap.
LEMMA LoadLapStep ==
  ASSUME TrainsInv, TypeOK', LapInv, NEW p \in Proc, NEW t, <<p, t>> \in net, NEW x, Moves(p, t, x),
         faults'.dup = 0, p # t.issuer, node[p].seen[t.issuer] < t.clock,
         x.acks = t.acks \cup {p}
  PROVE  TrainLap(Succ(p), x)'
  <1>1. t \in Train /\ TrainInv(t) /\ t.issuer \in Proc /\ x.issuer = t.issuer /\ x.clock = t.clock
    BY HandleType DEF Train, Moves
  <1>2. TrainLap(p, t)
    <2>1. faults.dup = 0
      BY DEF Moves
    <2> QED
      BY <2>1, <<p, t>>[1] = p, <<p, t>>[2] = t DEF LapInv
  <1>3. node'[t.issuer] = node[t.issuer]
    BY <1>1 DEF Moves
  <1>4. Passed(t.issuer, Succ(p)) \subseteq x.acks
    <2>1. Passed(t.issuer, Succ(p)) \subseteq Passed(t.issuer, p) \cup {p}
      BY <1>1, PassedHops
    <2> QED
      BY <1>2, <2>1 DEF TrainLap
  <1>5. \A q \in Proc \ {t.issuer} : node'[q].seen[t.issuer] >= t.clock => q \in x.acks
    BY <1>2 DEF TrainLap, Moves
  <1>6. KeyOf(t) \notin Handled(node[t.issuer])
    <2>1. ASSUME KeyOf(t) \in Handled(node[t.issuer]) PROVE FALSE
      <3>1. p \in t.acks
        BY <1>2, <2>1 DEF TrainLap
      <3>2. node[p].seen[t.issuer] >= t.clock
        BY <1>1, <3>1 DEF TrainInv
      <3> QED
        <4>1. node[p] \in Node
          BY DEF TrainsInv, TypeOK
        <4> QED
          BY <1>1, <3>2, <4>1 DEF Node, Train
    <2> QED
      BY <2>1
  <1>7. KeyOf(x) = KeyOf(t)
    BY <1>1 DEF KeyOf
  <1> QED
    BY <1>1, <1>2, <1>3, <1>4, <1>5, <1>6, <1>7 DEF TrainLap

\* Receiving a train, whether or not a copy of it is still on the link.
LEMMA HandleLapStep ==
  ASSUME TrainsInv, TypeOK', LapInv, NEW p \in Proc, NEW t, <<p, t>> \in net,
         NEW rest, rest \subseteq net, Handle(p, t, rest),
         \/ rest = net \ {<<p, t>>} /\ faults' = faults
         \/ faults'.dup # 0 /\ faults'.dup = faults.dup + 1
  PROVE  LapInv'
  <1>1. PICK r : r = HandleTrain(p, node[p], t)
    OBVIOUS
  <1>2. /\ t \in Train /\ TrainInv(t) /\ node[p] \in Node /\ r.node \in Node
        /\ t.issuer \in Proc /\ t.clock \in Nat /\ t.clock >= 1
    BY <1>1, HandleType DEF TrainInv, Train
  <1>3. /\ node'[p] = r.node /\ \A q \in Proc \ {p} : node'[q] = node[q]
        /\ net' = rest \cup {<<Succ(p), u>> : u \in r.forward}
        /\ status' = status /\ status[p] = "up"
    BY <1>1 DEF Handle, TrainsInv, TypeOK
  <1>4. /\ node[p].seen \in [Proc -> Nat] /\ node[p].nextIssue \in Nat /\ NodeLap(p)
    BY DEF TrainsInv, TypeOK, Node, LapInv
  <1>5. \/ Absorbs(node[p], r) \/ LapPasses(p, node[p], t, r)
        \/ LapLoads(p, node[p], t, r) \/ LapRecycles(p, node[p], t, r)
    BY <1>1, <1>2, HandleTrainLap
  <1>6. CASE Absorbs(node[p], r)
    <2>1. \A q \in Proc : node'[q] = node[q]
      BY <1>3, <1>6 DEF Absorbs
    <2>2. net' \subseteq net
      BY <1>3, <1>6 DEF Absorbs
    <2>3. \A q \in Proc : /\ LapSame(node[q], node'[q])
                          /\ node'[q].nextIssue = node[q].nextIssue
                          /\ status'[q] = status[q]
      BY <1>3, <2>1 DEF LapSame
    <2> QED
      BY <2>2, <2>3, LapUnchanged
  <1>7. CASE LapPasses(p, node[p], t, r)
    <2>1. LapKept(node[p], t, node'[p]) /\ r.forward = {t}
      BY <1>3, <1>7 DEF LapPasses
    <2>2. /\ \A j \in Proc \ {t.issuer} : node'[p].seen[j] = node[p].seen[j]
          /\ \/ node'[p].seen[t.issuer] = node[p].seen[t.issuer]
             \/ node'[p].seen[t.issuer] = t.clock /\ t.clock > node[p].seen[t.issuer]
          /\ node'[p].seen[t.issuer] >= t.clock
      BY <1>2, <1>3, <1>4, <1>7 DEF LapPasses
    <2>3. faults'.dup = 0 => /\ faults.dup = 0
                             /\ net' = (net \ {<<p, t>>}) \cup {<<Succ(p), t>>}
      BY <1>3, <2>1
    <2>4. Moves(p, t, t)
      BY <1>3, <2>1, <2>2, <2>3 DEF Moves
    <2>5. p # t.issuer => node[p].seen[t.issuer] >= t.clock /\ node'[p].seen = node[p].seen
      BY <1>3, <1>7 DEF LapPasses
    <2>6. ReadyToDeliver(node[p], t.acks) => KeyOf(t) \in Handled(node'[p])
      BY <1>3, <1>4, <1>7 DEF LapPasses, NodeLap
    <2>7. faults'.dup = 0 => TrainLap(Succ(p), t)'
      BY <2>4, <2>5, <2>6, PassLapStep
    <2> QED
      BY <2>4, <2>7, MoveLapStep
  <1>8. CASE LapLoads(p, node[p], t, r)
    <2>1. LapKept(node[p], t, node'[p]) /\ t.issuer # p /\ node[p].seen[t.issuer] < t.clock
      BY <1>3, <1>8 DEF LapLoads
    <2>2. PICK x : r.forward = {x} /\ x.issuer = t.issuer /\ x.clock = t.clock
                   /\ x.acks = t.acks \cup {p}
      BY <1>8 DEF LapLoads
    <2>3. /\ \A j \in Proc \ {t.issuer} : node'[p].seen[j] = node[p].seen[j]
          /\ node'[p].seen[t.issuer] = t.clock
      BY <1>2, <1>3, <1>4, <1>8 DEF LapLoads
    <2>4. t.clock > node[p].seen[t.issuer] /\ t.clock >= t.clock
      BY <1>2, <1>4, <2>1
    <2>5. faults'.dup = 0 => /\ faults.dup = 0
                             /\ net' = (net \ {<<p, t>>}) \cup {<<Succ(p), x>>}
      BY <1>3, <2>2
    <2>6. Moves(p, t, x)
      BY <1>3, <2>1, <2>2, <2>3, <2>4, <2>5 DEF Moves
    <2>7. faults'.dup = 0 => TrainLap(Succ(p), x)'
      BY <2>1, <2>2, <2>6, LoadLapStep
    <2> QED
      BY <2>6, <2>7, MoveLapStep
  <1>9. CASE LapRecycles(p, node[p], t, r)
    <2>1. t.issuer = p /\ p \in Issuer /\ KeyOf(t) \in node[p].done /\ r.forward = {NewTrain(p, node[p])}
      BY <1>2, <1>9 DEF LapRecycles, TrainInv
    <2>2. node[p].seen[p] >= t.clock
      BY <1>4, <2>1 DEF NodeLap, KeyOf
    <2>3. node'[p].seen = node[p].seen
      BY <1>2, <1>3, <1>4, <1>9, <2>2 DEF LapRecycles
    <2>4. Issues(p, rest)
      BY <1>3, <1>9, <2>1, <2>3 DEF LapRecycles, LapSame, Issues
    <2>5. CASE rest = net \ {<<p, t>>} /\ faults' = faults
      <3>1. ASSUME faults.dup = 0
            PROVE  /\ \A m \in rest : m[2].issuer # p
                   /\ \A q \in Proc : <<node[p].nextIssue - 1, p>> \in Handled(node[q])
        <4>1. OneTrainPerIssuer /\ TrainLap(p, t)
          BY <3>1, <<p, t>>[1] = p, <<p, t>>[2] = t DEF LapInv
        <4>2. \A m \in rest : m[2].issuer # p
          BY <2>1, <2>5, <4>1 DEF OneTrainPerIssuer
        <4>3. KeyOf(t) \in Handled(node[p]) /\ KeyOf(t) = <<node[p].nextIssue - 1, p>>
          BY <2>1, <4>1 DEF Handled, TrainLap, KeyOf
        <4>4. Passed(p, p) = Proc
          BY PassedHops
        <4> QED
          BY <2>1, <4>1, <4>2, <4>3, <4>4 DEF TrainLap
      <3> QED
        BY <1>3, <2>1, <2>4, <2>5, <3>1, IssueLapStep
    <2>6. CASE faults'.dup # 0 /\ faults'.dup = faults.dup + 1
      <3>1. \A q \in Proc : node'[q].nextIssue >= node[q].nextIssue
        <4>1. \A q \in Proc : node[q].nextIssue \in Nat
          BY DEF TrainsInv, TypeOK, Node
        <4>2. /\ node'[p].nextIssue = node[p].nextIssue + 1
              /\ \A q \in Proc \ {p} : node'[q].nextIssue = node[q].nextIssue
          BY <2>4 DEF Issues
        <4> QED
          BY <4>1, <4>2
      <3>2. ASSUME NEW q \in Proc \ {p} PROVE NodeLap(q)'
        <4>1. LapSame(node[q], node'[q]) /\ node'[q].nextIssue = node[q].nextIssue
          BY <1>3 DEF LapSame
        <4> QED
          BY <1>3, <3>1, <4>1, OtherNodeLap DEF LapInv, TrainsInv
      <3>3. NodeLap(p)'
        BY <1>3, <2>1, <2>4, IssueNodeLap
      <3> QED
        BY <2>6, <3>2, <3>3 DEF LapInv
    <2> QED
      BY <2>5, <2>6
  <1> QED
    BY <1>5, <1>6, <1>7, <1>8, <1>9

-----------------------------------------------------------------------------
\* Nothing is on the ring before the processes start.
LEMMA InitLapInv == Init => LapInv
  <1> SUFFICES ASSUME Init PROVE LapInv
    OBVIOUS
  <1>1. ASSUME NEW p \in Proc PROVE NodeLap(p)
    <2>1. node[p] = NewNode /\ \A q \in Proc : node[q].nextIssue = 1
      BY DEF Init, NewNode
    <2>2. /\ NewNode.seen = [q \in Proc |-> 0] /\ NewNode.done = {} /\ NewNode.parked = {}
          /\ NewNode.frozen = FALSE
      BY DEF NewNode
    <2>3. Handled(NewNode) = {} /\ Drained(NewNode) = {}
      BY <2>2 DEF Handled, Drained, KeysOf
    <2> QED
      BY <2>1, <2>2, <2>3 DEF NodeLap
  <1>2. net = {} /\ \A i \in Issuer : node[i].nextIssue = 1
    BY IssuerIsProc DEF Init, NewNode
  <1>3. OneTrainPerIssuer /\ \A m \in net : TrainLap(m[1], m[2])
    BY <1>2 DEF OneTrainPerIssuer
  <1>4. \A i \in Issuer : IssueLap(i)
    BY <1>2 DEF IssueLap
  <1> QED
    BY <1>1, <1>3, <1>4 DEF LapInv

\* Every step preserves the invariant.
LEMMA NextLapInv == TrainsInv /\ LapInv /\ [Next]_vars => LapInv'
  <1> SUFFICES ASSUME TrainsInv, LapInv, [Next]_vars PROVE LapInv'
    OBVIOUS
  <1>0. TypeOK' /\ TypeOK
    BY TypeStep DEF TrainsInv
  <1>1. ASSUME NEW p \in Proc, BootIssuer(p) PROVE LapInv'
    <2>1. node[p] \in Node /\ status[p] = "boot" /\ node[p].nextIssue = 1
      BY <1>0, <1>1 DEF BootIssuer, TypeOK, LapInv, NodeLap
    <2>2. AfterIssue(node[p]).frozen = node[p].frozen
      BY <2>1 DEF AfterIssue, Node
    <2>3. node'[p] = AfterIssue(node[p]) /\ \A q \in Proc \ {p} : node'[q] = node[q]
      BY <1>0, <1>1 DEF BootIssuer, TypeOK
    <2>4. LapSame(node[p], node'[p]) /\ node'[p].nextIssue = node[p].nextIssue + 1
      BY <2>1, <2>2, <2>3, IssueEffect DEF LapSame
    <2>5. PICK rest : rest = net
      OBVIOUS
    <2>6. Issues(p, rest)
      BY <1>1, <2>3, <2>4, <2>5 DEF BootIssuer, Issues
    <2>7. ASSUME NEW m \in rest PROVE m[2].issuer # p
      <3>1. m[2] \in Trains /\ m[2] \in Train
        BY <1>0, <2>5, InTrains, TrainsType
      <3>2. TrainInv(m[2])
        BY <3>1 DEF TrainsInv
      <3> QED
        BY <2>1, <3>1, <3>2 DEF TrainInv, Train
    <2>8. /\ p \in Issuer /\ faults' = faults /\ status'[p] # "boot"
          /\ \A q \in Proc \ {p} : status'[q] = status[q]
      BY <1>0, <1>1 DEF BootIssuer, TypeOK
    <2> QED
      BY <1>0, <2>1, <2>6, <2>7, <2>8, IssueLapStep
  <1>2. ASSUME NEW p \in Proc, BootOther(p) PROVE LapInv'
    <2>1. \A q \in Proc : /\ LapSame(node[q], node'[q])
                          /\ node'[q].nextIssue = node[q].nextIssue
                          /\ status'[q] = "boot" => status[q] = "boot"
      BY <1>0, <1>2 DEF BootOther, LapSame, TypeOK
    <2>2. net' = net /\ faults' = faults
      BY <1>2 DEF BootOther
    <2> QED
      BY <1>0, <2>1, <2>2, LapUnchanged
  <1>3. ASSUME NEW p \in Proc, Broadcast(p) PROVE LapInv'
    <2>1. node[p] \in Node /\ node'[p] = HandleBroadcast(p, node[p])
      BY <1>0, <1>3 DEF Broadcast, TypeOK
    <2>2. HandleBroadcast(p, node[p]).frozen = node[p].frozen
      BY <2>1 DEF HandleBroadcast, Node
    <2>3. LapSame(node[p], node'[p]) /\ node'[p].nextIssue = node[p].nextIssue
      BY <2>1, <2>2, BroadcastEffect DEF LapSame
    <2>4. \A q \in Proc \ {p} : node'[q] = node[q]
      BY <1>0, <1>3 DEF Broadcast, TypeOK
    <2>5. net' = net /\ faults' = faults /\ status' = status
      BY <1>3 DEF Broadcast
    <2>6. \A q \in Proc : /\ LapSame(node[q], node'[q])
                          /\ node'[q].nextIssue = node[q].nextIssue
      BY <2>3, <2>4 DEF LapSame
    <2> QED
      BY <1>0, <2>5, <2>6, LapUnchanged
  <1>4. ASSUME NEW p \in Proc, Crash(p) PROVE LapInv'
    <2>1. \A q \in Proc : /\ LapSame(node[q], node'[q])
                          /\ node'[q].nextIssue = node[q].nextIssue
                          /\ status'[q] = "boot" => status[q] = "boot"
      BY <1>0, <1>4 DEF Crash, LapSame, TypeOK
    <2>2. net' = net /\ faults' = faults
      BY <1>4 DEF Crash
    <2> QED
      BY <1>0, <2>1, <2>2, LapUnchanged
  <1>5. ASSUME NEW m \in net, Lose(m) PROVE LapInv'
    <2>1. \A q \in Proc : /\ LapSame(node[q], node'[q])
                          /\ node'[q].nextIssue = node[q].nextIssue
                          /\ status'[q] = status[q]
      BY <1>5 DEF Lose, LapSame
    <2>2. net' \subseteq net /\ faults'.dup = faults.dup
      BY <1>0, <1>5 DEF Lose, TypeOK
    <2> QED
      BY <1>0, <2>1, <2>2, LapUnchanged
  <1>6. ASSUME NEW m \in net, Receive(m[1], m[2]) \/ ReceiveAndRetransmit(m[1], m[2])
        PROVE  LapInv'
    <2>1. PICK p, t : p = m[1] /\ t = m[2]
      OBVIOUS
    <2>m. net \subseteq Messages
      BY <1>0 DEF TypeOK
    <2>2. p \in Proc /\ <<p, t>> \in net
      BY <2>1, <2>m DEF Messages
    <2>3. CASE Receive(m[1], m[2])
      <3>1. PICK rest : rest = net \ {<<p, t>>}
        OBVIOUS
      <3>2. Handle(p, t, rest) /\ faults' = faults /\ rest \subseteq net
        BY <2>1, <2>3, <3>1 DEF Receive
      <3> QED
        BY <1>0, <2>2, <3>1, <3>2, HandleLapStep
    <2>4. CASE ReceiveAndRetransmit(m[1], m[2])
      <3>1. PICK rest : rest = net
        OBVIOUS
      <3>2. Handle(p, t, rest) /\ rest \subseteq net
        BY <2>1, <2>4, <3>1 DEF ReceiveAndRetransmit
      <3>3. faults'.dup # 0 /\ faults'.dup = faults.dup + 1
        BY <1>0, <2>4, BoundsAssumption DEF ReceiveAndRetransmit, TypeOK
      <3> QED
        BY <1>0, <2>2, <3>2, <3>3, HandleLapStep
    <2> QED
      BY <1>6, <2>3, <2>4
  <1>7. CASE UNCHANGED vars
    <2>1. \A q \in Proc : /\ LapSame(node[q], node'[q])
                          /\ node'[q].nextIssue = node[q].nextIssue
                          /\ status'[q] = status[q]
      BY <1>7 DEF vars, LapSame
    <2>2. net' = net /\ faults' = faults
      BY <1>7 DEF vars
    <2> QED
      BY <1>0, <2>1, <2>2, LapUnchanged
  <1> QED
    BY <1>1, <1>2, <1>3, <1>4, <1>5, <1>6, <1>7 DEF Next

\* LapInvariant: a process never sees an unissued clock and never leaves parked
\* what drain_parked could deliver; without repeated messages, a clock is issued
\* only after the one before was handled everywhere.
THEOREM LapInvariant == Spec => []LapInv
  BY InitLapInv, NextLapInv, TrainsInvariant, PTL DEF Spec

\* SingleTrain: without repeated messages handle_returning_train never puts a
\* second train of the same issuer on the ring.
THEOREM SingleTrain == Spec => [](faults.dup = 0 => OneTrainPerIssuer)
  <1>1. LapInv => (faults.dup = 0 => OneTrainPerIssuer)
    BY DEF LapInv
  <1> QED
    BY <1>1, LapInvariant, PTL

\* BoundedLag: without repeated messages no process finishes a key before every
\* process has finished all keys of smaller clocks.
THEOREM BoundedLag == Spec => [](faults.dup = 0 => DeliveryLag)
  <1>1. ASSUME TrainsInv, LapInv, faults.dup = 0,
               NEW p \in Proc, NEW q \in Proc, NEW k \in node[p].done,
               NEW j \in (1..(k[1] - 1)) \X Issuer
        PROVE  j \in node[q].done
    <2>1. NodeLap(p) /\ NodeLap(q) /\ \A i \in Issuer : IssueLap(i)
      BY <1>1 DEF LapInv
    <2>2. /\ \A x \in Proc : node[x].nextIssue \in Nat
          /\ node[p].seen \in [Proc -> Nat] /\ node[q].seen \in [Proc -> Nat]
          /\ k[1] \in Nat /\ node[q].crashed = {}
      <3>1. (\A x \in Proc : node[x] \in Node) /\ NodeInv(q)
        BY <1>1 DEF TrainsInv, TypeOK
      <3> QED
        BY <3>1 DEF Node, Key, NodeInv
    <2>3. j[1] \in Nat /\ j[1] >= 1 /\ j[1] <= k[1] - 1 /\ j[2] \in Issuer /\ j = <<j[1], j[2]>>
      BY <2>2
    \* All clocks below k's are handled by q.
    <2>4. ASSUME NEW i \in Issuer, NEW c \in 1..(k[1] - 1) PROVE <<c, i>> \in Handled(node[q])
      <3>1. i \in Proc /\ node[p].seen[i] >= k[1] /\ node[p].seen[i] < node[i].nextIssue
        BY <2>1, IssuerIsProc DEF NodeLap
      <3>2. c \in 1..(node[i].nextIssue - 2)
        BY <2>2, <3>1
      <3> QED
        BY <2>1, <3>2 DEF IssueLap
    <2>5. ASSUME NEW i \in Issuer PROVE node[q].seen[i] >= j[1]
      <3>1. <<j[1], i>> \in Handled(node[q])
        BY <2>2, <2>3, <2>4
      <3>2. CASE <<j[1], i>> \in node[q].done
        BY <2>1, <3>2 DEF NodeLap
      <3>3. CASE <<j[1], i>> \in KeysOf(node[q].parked)
        BY <2>1, <3>3 DEF NodeLap, KeysOf, KeyOf
      <3> QED
        BY <3>1, <3>2, <3>3 DEF Handled
    \* So a train with key j could not have stayed parked.
    <2>6. ASSUME NEW t \in node[q].parked, KeyOf(t) = j PROVE FALSE
      <3>1. SeenClocksAdvancedEnough(node[q], KeyOf(t))
        BY <2>2, <2>5, <2>6 DEF SeenClocksAdvancedEnough
      <3>2. ASSUME NEW x \in Proc, NEW c \in 1..node[q].seen[x], Less(<<c, x>>, KeyOf(t))
            PROVE  <<c, x>> \in Handled(node[q])
        <4>1. c <= j[1] /\ c \in Nat /\ c >= 1
          BY <2>2, <2>3, <2>6, <3>2 DEF Less
        <4>2. x \in Issuer
          BY <2>1, <2>2, <3>2 DEF NodeLap
        <4>3. c \in 1..(k[1] - 1)
          BY <2>2, <2>3, <4>1
        <4> QED
          BY <2>4, <4>2, <4>3
      <3>3. PriorKnownIn(node[q], KeyOf(t), node[q].done \cup KeysOf(node[q].parked))
        BY <3>2 DEF PriorKnownIn, Handled
      <3>4. t \in Drained(node[q])
        BY <2>1, <3>1, <3>3 DEF Drained, NodeLap
      <3> QED
        BY <2>1, <3>4 DEF NodeLap
    <2>7. j \in Handled(node[q])
      BY <2>2, <2>3, <2>4
    <2> QED
      BY <2>6, <2>7 DEF Handled, KeysOf
  <1>2. TrainsInv /\ LapInv => (faults.dup = 0 => DeliveryLag)
    BY <1>1 DEF DeliveryLag
  <1> QED
    BY <1>2, TrainsInvariant, LapInvariant, PTL
=============================================================================
