-------------------------- MODULE TrainsCoreProofs --------------------------
(***************************************************************************)
(* Lemmas about the handlers of TrainsCore: the type of what they return,  *)
(* and what a delivery may do to a node.                                   *)
(***************************************************************************)
EXTENDS TrainsCore, SequenceTheorems, FiniteSetTheorems, WellFoundedInduction, TLAPS

\* A non-empty set of naturals has a least element.
LEMMA LeastNat ==
    ASSUME NEW S \in SUBSET Nat, S # {}
    PROVE  \E m \in S : \A k \in S : m <= k
  <1> DEFINE R == OpToRel(<, Nat)
  <1>1. IsWellFoundedOn(R, Nat)
    BY NatLessThanWellFounded
  <1>2. \A x, y \in Nat : <<x, y>> \in R <=> x < y
    BY DEF OpToRel
  <1> HIDE DEF R
  <1>3. PICK m \in S : \A y \in S : ~(<<y, m>> \in R)
    BY <1>1, WFMin
  <1>4. \A k \in S : m <= k
    <2> SUFFICES ASSUME NEW k \in S PROVE m <= k
      OBVIOUS
    <2>1. m \in Nat /\ k \in Nat /\ ~(k < m)
      BY <1>2, <1>3
    <2> QED
      BY <2>1
  <1> QED
    BY <1>4

\* A finite non-empty set has a minimal element under a strict order R.
LEMMA MinimalElement ==
  ASSUME NEW S, IsFiniteSet(S), S # {}, NEW R,
         \A x \in S : <<x, x>> \notin R,
         \A x, y, z \in S : <<x, y>> \in R /\ <<y, z>> \in R => <<x, z>> \in R
  PROVE  \E m \in S : \A x \in S : <<x, m>> \notin R
  <1> DEFINE below == [x \in S |-> {y \in S : <<y, x>> \in R}]
             size == [x \in S |-> Cardinality(below[x])]
             N == {size[x] : x \in S}
  <1>1. \A x \in S : below[x] \in SUBSET S /\ \A y : y \in below[x] <=> y \in S /\ <<y, x>> \in R
    OBVIOUS
  <1> HIDE DEF below
  <1>2. \A x \in S : IsFiniteSet(below[x]) /\ Cardinality(below[x]) \in Nat
    BY <1>1, FS_Subset, FS_CardinalityType
  <1>3. \A x \in S : size[x] = Cardinality(below[x]) /\ size[x] \in Nat
    BY <1>2
  <1> HIDE DEF size
  <1>4. PICK m \in S : \A x \in S : size[m] <= size[x]
    <2>1. N \in SUBSET Nat /\ N # {}
      BY <1>3
    <2>2. PICK c \in N : \A k \in N : c <= k
      <3> HIDE DEF N
      <3> QED
        BY <2>1, LeastNat
    <2> QED
      BY <2>2
  <1>5. ASSUME NEW x \in S, <<x, m>> \in R PROVE FALSE
    <2>1. below[x] \in SUBSET below[m] /\ x \in below[m] /\ x \notin below[x]
      BY <1>1, <1>5
    <2>2. Cardinality(below[m]) <= Cardinality(below[x])
      BY <1>3, <1>4
    <2>3. /\ Cardinality(below[x]) <= Cardinality(below[m])
          /\ Cardinality(below[m]) = Cardinality(below[x]) => below[m] = below[x]
      BY <1>2, <2>1, FS_Subset
    <2> QED
      BY <1>2, <2>1, <2>2, <2>3
  <1> QED
    BY <1>5

\* The image of a finite set under a function is finite.
LEMMA FiniteImage ==
  ASSUME NEW f, IsFiniteSet(DOMAIN f), f = [x \in DOMAIN f |-> f[x]]
  PROVE  IsFiniteSet({f[x] : x \in DOMAIN f})
  <1>1. f \in Surjection(DOMAIN f, {f[x] : x \in DOMAIN f})
    BY DEF Surjection
  <1> QED
    BY <1>1, FS_Surjection

-----------------------------------------------------------------------------

\* An issuer is a process.
LEMMA IssuerIsProc == Issuer \subseteq Proc
  BY RingAssumption, TrainAssumption DEF Issuer, Proc

\* Less is a strict total order on keys.
LEMMA LessIrreflexive == \A k \in Key : ~Less(k, k)
  BY DEF Key, Less, Proc

\* Less composes.
LEMMA LessTransitive ==
  \A i, j, k \in Key : Less(i, j) /\ Less(j, k) => Less(i, k)
  BY DEF Key, Less, Proc

\* Less decides between any two keys.
LEMMA LessTotal ==
  \A j, k \in Key : Less(j, k) \/ j = k \/ Less(k, j)
  BY DEF Key, Less, Proc

\* A new process starts well-typed (TrainsNode::new).
LEMMA NewNodeType == NewNode \in Node
  BY DEF NewNode, Node, Train, CacheEntry

\* KeyOf and KeysOf yield keys.
LEMMA KeyType == \A t \in Train : KeyOf(t) \in Key
  BY DEF Train, KeyOf, Key

\* Of parked trains one has the least key.
LEMMA LeastTrain ==
  ASSUME NEW P \in SUBSET Train, IsFiniteSet(P), P # {}
  PROVE  \E t \in P : \A u \in P : ~Less(KeyOf(u), KeyOf(t))
  <1> DEFINE R == {tu \in P \X P : Less(KeyOf(tu[1]), KeyOf(tu[2]))}
  <1>1. \A t \in P : KeyOf(t) \in Key
    BY KeyType
  <1>2. \A t, u \in P : <<t, u>> \in R <=> Less(KeyOf(t), KeyOf(u))
    OBVIOUS
  <1> HIDE DEF R
  <1>3. \A x \in P : <<x, x>> \notin R
    BY <1>1, <1>2, LessIrreflexive
  <1>4. \A x, y, z \in P : <<x, y>> \in R /\ <<y, z>> \in R => <<x, z>> \in R
    BY <1>1, <1>2, LessTransitive
  <1>5. PICK m \in P : \A u \in P : <<u, m>> \notin R
    BY <1>3, <1>4, MinimalElement
  <1> QED
    BY <1>2, <1>5

\* Finishing parked trains keeps a node well-typed and touches only done, parked
\* and the retransmission cache.
LEMMA FinishType ==
  ASSUME NEW n \in Node, NEW T \in SUBSET Train
  PROVE  LET r == FinishParked(n, T) IN
         /\ r \in Node
         /\ r.done = n.done \cup KeysOf(T)
         /\ r.parked = n.parked \ T
         /\ r.seen = n.seen /\ r.crashed = n.crashed /\ r.nextIssue = n.nextIssue
         /\ r.nextSeq = n.nextSeq /\ r.pending = n.pending
         /\ r.frozen = n.frozen /\ r.floor = n.floor
  <1> DEFINE r == FinishParked(n, T)
  <1>1. CacheDelivered(n.cache, Entries(T)) \in SUBSET CacheEntry
    BY KeyType DEF CacheDelivered, Entries, Node, CacheEntry, Train
  <1>2. KeysOf(T) \in SUBSET Key
    BY KeyType DEF KeysOf
  <1> QED
    BY <1>1, <1>2 DEF FinishParked, Node

\* The same for record_delivered, which leaves parked alone.
LEMMA RecordType ==
  ASSUME NEW n \in Node, NEW t \in Train
  PROVE  LET r == RecordDelivered(n, t) IN
         /\ r \in Node
         /\ r.done = n.done \cup {KeyOf(t)}
         /\ r.parked = n.parked /\ r.broadcastSeen = n.broadcastSeen
         /\ r.seen = n.seen /\ r.crashed = n.crashed /\ r.nextIssue = n.nextIssue
         /\ r.nextSeq = n.nextSeq /\ r.pending = n.pending
         /\ r.frozen = n.frozen /\ r.floor = n.floor
  <1>1. CacheDelivered(n.cache, Entries({t})) \in SUBSET CacheEntry
    BY KeyType DEF CacheDelivered, Entries, Node, CacheEntry, Train
  <1>2. {KeyOf(t)} \in SUBSET Key
    BY KeyType
  <1> QED
    BY <1>1, <1>2 DEF RecordDelivered, Node

-----------------------------------------------------------------------------
\* r is n but for done, parked, broadcastSeen and cache.
Kept(n, r) ==
    /\ r.seen = n.seen /\ r.crashed = n.crashed
    /\ r.nextIssue = n.nextIssue /\ r.nextSeq = n.nextSeq /\ r.pending = n.pending

\* From n to r some trains D of S were finished, those with payloads handed to
\* the application (dl); D passed the ordering conditions on n's clocks.
DeliveryEffect(n, S, r, dl) ==
    \E D \in SUBSET S :
        /\ r.done = n.done \cup KeysOf(D)
        /\ dl = NonEmpty(D)
        /\ r.parked \subseteq S
        /\ \A d \in D : /\ SeenClocksAdvancedEnough(n, KeyOf(d))
                        /\ PriorKnownIn(n, KeyOf(d), r.done)

\* The trains try_deliver(t) may deliver or park, with those already parked.
Candidates(n, t) == n.parked \cup {u \in {t} : ReadyToDeliver(n, u.acks)}

\* The trains drain_parked removes are a prefix of parked: a smaller parked key
\* of a drained train is drained too.
LEMMA DrainedClosed ==
  ASSUME NEW n \in Node, NEW t \in Drained(n), NEW u \in n.parked,
         Less(KeyOf(u), KeyOf(t))
  PROVE  u \in Drained(n)
  <1>0. t \in Train /\ u \in Train
    BY DEF Drained, Node
  <1>1. KeyOf(u)[1] <= KeyOf(t)[1] /\ KeyOf(u) \in Key /\ KeyOf(t) \in Key
    BY <1>0, KeyType DEF Less, Key
  <1>2. SeenClocksAdvancedEnough(n, KeyOf(u))
    BY <1>1, IssuerIsProc DEF Drained, SeenClocksAdvancedEnough, Node, Key
  <1>3. PriorKnownIn(n, KeyOf(u), n.done \cup KeysOf(n.parked))
    <2> SUFFICES ASSUME NEW q \in Proc, NEW c \in 1..n.seen[q], Less(<<c, q>>, KeyOf(u))
                 PROVE  <<c, q>> \in n.done \cup KeysOf(n.parked)
      BY DEF PriorKnownIn
    <2>1. <<c, q>> \in Key
      BY DEF Key, Node
    <2>2. Less(<<c, q>>, KeyOf(t))
      BY <2>1, <1>1, LessTransitive
    <2> QED
      BY <2>2 DEF Drained, PriorKnownIn
  <1> QED
    BY <1>2, <1>3 DEF Drained

\* drain_parked finishes some parked trains, in an order-closed way.
LEMMA DrainEffect ==
  ASSUME NEW n \in Node
  PROVE  LET d == DrainParked(n) IN
         /\ d.node \in Node
         /\ Kept(n, d.node)
         /\ DeliveryEffect(n, n.parked, d.node, NonEmpty(d.deliver))
  <1> DEFINE D == Drained(n)
  <1> DEFINE d == DrainParked(n)
  <1>1. D \in SUBSET n.parked /\ D \in SUBSET Train
    BY DEF Drained, Node
  <1>2. d.node = FinishParked(n, D) /\ d.deliver = D
    BY DEF DrainParked
  <1>3. d.node \in Node /\ Kept(n, d.node)
    BY <1>1, <1>2, FinishType DEF Kept
  <1>4. d.node.done = n.done \cup KeysOf(D) /\ d.node.parked \subseteq n.parked
    BY <1>1, <1>2, FinishType
  <1>5. ASSUME NEW t \in D
        PROVE  SeenClocksAdvancedEnough(n, KeyOf(t)) /\ PriorKnownIn(n, KeyOf(t), d.node.done)
    <2>1. SeenClocksAdvancedEnough(n, KeyOf(t))
      BY DEF Drained
    <2>2. SUFFICES ASSUME NEW q \in Proc, NEW c \in 1..n.seen[q], Less(<<c, q>>, KeyOf(t))
                   PROVE  <<c, q>> \in d.node.done
      BY <2>1 DEF PriorKnownIn
    <2>3. <<c, q>> \in n.done \cup KeysOf(n.parked)
      BY <2>2 DEF Drained, PriorKnownIn
    <2>4. CASE <<c, q>> \in n.done
      BY <2>4, <1>4
    <2>5. CASE <<c, q>> \in KeysOf(n.parked)
      <3>1. PICK u \in n.parked : KeyOf(u) = <<c, q>>
        BY <2>5 DEF KeysOf
      <3>2. u \in D
        BY <2>2, <3>1, DrainedClosed
      <3> QED
        BY <3>1, <3>2, <1>4 DEF KeysOf
    <2> QED
      BY <2>3, <2>4, <2>5
  <1>6. DeliveryEffect(n, n.parked, d.node, NonEmpty(d.deliver))
    BY <1>1, <1>2, <1>4, <1>5 DEF DeliveryEffect
  <1> QED
    BY <1>3, <1>6

\* try_deliver, before the drain: as above, with t as a further candidate.
LEMMA TryDeliverEffect ==
  ASSUME NEW n \in Node, NEW t \in Train
  PROVE  LET d == TryDeliver(n, t) IN
         /\ d.node \in Node
         /\ Kept(n, d.node)
         /\ DeliveryEffect(n, Candidates(n, t), d.node, NonEmpty(d.deliver))
  <1> DEFINE d == TryDeliver(n, t)
  <1> DEFINE S == Candidates(n, t)
  <1>0. n.parked \subseteq S /\ KeysOf({}) = {} /\ KeysOf({t}) = {KeyOf(t)}
    BY DEF Candidates, KeysOf
  <1>1. CASE d.node = n /\ d.deliver = {}
    <2>1. DeliveryEffect(n, S, n, NonEmpty({}))
      BY <1>0, {} \in SUBSET S DEF DeliveryEffect
    <2> QED
      BY <1>1, <2>1 DEF Kept
  <1>2. CASE /\ d.node = RecordDelivered(n, t) /\ d.deliver = {t}
             /\ ReadyToDeliver(n, t.acks) /\ IsDeliverable(n, KeyOf(t))
    <2>1. /\ d.node \in Node /\ Kept(n, d.node)
          /\ d.node.done = n.done \cup KeysOf({t}) /\ d.node.parked \subseteq S
      <3>1. LET m == RecordDelivered(n, t) IN
            m \in Node /\ Kept(n, m) /\ m.done = n.done \cup {KeyOf(t)} /\ m.parked = n.parked
        BY RecordType DEF Kept
      <3> HIDE DEF d, S
      <3> QED
        BY <1>0, <1>2, <3>1
    <2>2. {t} \in SUBSET S
      BY <1>2 DEF Candidates
    <2>3. SeenClocksAdvancedEnough(n, KeyOf(t)) /\ PriorKnownIn(n, KeyOf(t), d.node.done)
      BY <1>2, <2>1 DEF IsDeliverable, PriorKnownIn
    <2> QED
      BY <1>2, <2>1, <2>2, <2>3 DEF DeliveryEffect
  <1>3. CASE /\ d.node = [n EXCEPT !.parked = @ \cup {t}] /\ d.deliver = {}
             /\ ReadyToDeliver(n, t.acks)
    <2>1. d.node \in Node /\ Kept(n, d.node) /\ d.node.done = n.done
      BY <1>3 DEF Kept, Node
    <2>2. d.node.parked \subseteq S
      BY <1>3 DEF Candidates, Node
    <2>3. DeliveryEffect(n, S, d.node, NonEmpty({}))
      BY <1>0, <2>1, <2>2, {} \in SUBSET S DEF DeliveryEffect
    <2> QED
      BY <1>3, <2>1, <2>3
  <1> QED
    BY <1>1, <1>2, <1>3 DEF TryDeliver

\* try_deliver and then drain_parked.
LEMMA TryDeliverThenDrainEffect ==
  ASSUME NEW n \in Node, NEW t \in Train
  PROVE  LET d == TryDeliverThenDrain(n, t) IN
         /\ d.node \in Node
         /\ Kept(n, d.node)
         /\ DeliveryEffect(n, Candidates(n, t), d.node, d.deliver)
  <1> DEFINE S == Candidates(n, t)
  <1> DEFINE a == TryDeliver(n, t)
  <1> DEFINE b == DrainParked(a.node)
  <1> DEFINE d == TryDeliverThenDrain(n, t)
  <1>1. a.node \in Node /\ Kept(n, a.node) /\ DeliveryEffect(n, S, a.node, NonEmpty(a.deliver))
    BY TryDeliverEffect
  <1> HIDE DEF a
  <1>2. /\ b.node \in Node /\ Kept(a.node, b.node)
        /\ DeliveryEffect(a.node, a.node.parked, b.node, NonEmpty(b.deliver))
    BY <1>1, DrainEffect
  <1>3. d.node = b.node /\ d.deliver = NonEmpty(a.deliver) \cup NonEmpty(b.deliver)
    BY DEF TryDeliverThenDrain, NonEmpty, a
  <1> HIDE DEF b, d
  <1>4. PICK A \in SUBSET S :
           /\ a.node.done = n.done \cup KeysOf(A)
           /\ NonEmpty(a.deliver) = NonEmpty(A)
           /\ a.node.parked \subseteq S
           /\ \A x \in A : /\ SeenClocksAdvancedEnough(n, KeyOf(x))
                           /\ PriorKnownIn(n, KeyOf(x), a.node.done)
    BY <1>1 DEF DeliveryEffect
  <1>5. PICK B \in SUBSET a.node.parked :
           /\ b.node.done = a.node.done \cup KeysOf(B)
           /\ NonEmpty(b.deliver) = NonEmpty(B)
           /\ b.node.parked \subseteq a.node.parked
           /\ \A x \in B : /\ SeenClocksAdvancedEnough(a.node, KeyOf(x))
                           /\ PriorKnownIn(a.node, KeyOf(x), b.node.done)
    BY <1>2 DEF DeliveryEffect
  <1>6. A \cup B \in SUBSET S /\ b.node.parked \subseteq S
    BY <1>4, <1>5
  <1>7. KeysOf(A \cup B) = KeysOf(A) \cup KeysOf(B) /\ NonEmpty(A \cup B) = NonEmpty(A) \cup NonEmpty(B)
    BY DEF KeysOf, NonEmpty
  <1>8. b.node.done = n.done \cup KeysOf(A \cup B) /\ d.deliver = NonEmpty(A \cup B)
    BY <1>3, <1>4, <1>5, <1>7
  <1>9. ASSUME NEW x \in A \cup B
        PROVE  SeenClocksAdvancedEnough(n, KeyOf(x)) /\ PriorKnownIn(n, KeyOf(x), b.node.done)
    <2>1. CASE x \in A
      BY <2>1, <1>4, <1>5 DEF PriorKnownIn
    <2>2. CASE x \in B
      BY <2>2, <1>1, <1>5 DEF Kept, PriorKnownIn, SeenClocksAdvancedEnough
    <2> QED
      BY <2>1, <2>2
  <1>10. DeliveryEffect(n, S, b.node, d.deliver)
    BY <1>6, <1>8, <1>9 DEF DeliveryEffect
  <1> QED
    BY <1>1, <1>2, <1>3, <1>10 DEF Kept, d

-----------------------------------------------------------------------------
(* What handle_train may do, case by case. *)

\* The train is passed on as it came; its payloads and those parked may be
\* delivered, on clocks that may have grown.
Passes(n, t, r) ==
    /\ r.forward = {t}
    /\ r.node.crashed = n.crashed /\ r.node.nextIssue = n.nextIssue
    /\ r.node.nextSeq = n.nextSeq /\ r.node.pending = n.pending
    /\ \A q \in Proc : r.node.seen[q] >= n.seen[q]
    /\ \E n1 \in Node : /\ n1.seen = r.node.seen /\ n1.done = n.done
                        /\ n1.parked = n.parked /\ n1.crashed = n.crashed
                        /\ DeliveryEffect(n1, Candidates(n1, t), r.node, r.deliver)

\* First lap: the process acks the train and loads all it has pending.
Loads(p, n, t, r) ==
    /\ t.issuer # p /\ n.seen[t.issuer] < t.clock
    /\ r.forward = {[t EXCEPT !.payloads = @ \cup n.pending, !.acks = @ \cup {p}]}
    /\ r.node.crashed = n.crashed /\ r.node.nextIssue = n.nextIssue
    /\ r.node.nextSeq = n.nextSeq /\ r.node.pending = {}
    /\ r.node.seen = [n.seen EXCEPT ![t.issuer] = t.clock]
    /\ \E n1 \in Node : /\ n1.seen = r.node.seen /\ n1.done = n.done
                        /\ n1.parked = n.parked /\ n1.crashed = n.crashed
                        /\ DeliveryEffect(n1, n1.parked, r.node, r.deliver)

\* Second lap's return: the issuer starts the next train.
Recycles(p, n, t, r) ==
    /\ r.forward = {NewTrain(p, n)}
    /\ r.deliver = {}
    /\ r.node.done = n.done /\ r.node.parked = n.parked
    /\ r.node.crashed = n.crashed /\ r.node.nextIssue = n.nextIssue + 1
    /\ r.node.nextSeq = n.nextSeq /\ r.node.pending = {}
    /\ \A q \in Proc : r.node.seen[q] >= n.seen[q]

Absorbs(n, r) == r.node = n /\ r.forward = {} /\ r.deliver = {}

\* check_and_update only raises the clock of one issuer.
LEMMA CheckAndUpdateEffect ==
  ASSUME NEW n \in Node, NEW q \in Proc, NEW c \in Nat
  PROVE  LET m == CheckAndUpdate(n, q, c) IN
         /\ m \in Node
         /\ m.done = n.done /\ m.parked = n.parked /\ m.crashed = n.crashed
         /\ m.nextIssue = n.nextIssue /\ m.nextSeq = n.nextSeq /\ m.pending = n.pending
         /\ m.seen = [n.seen EXCEPT ![q] = IF c > @ THEN c ELSE @]
         /\ \A x \in Proc : m.seen[x] >= n.seen[x]
  <1>1. [n.seen EXCEPT ![q] = IF c > @ THEN c ELSE @] \in [Proc -> Nat]
    BY DEF Node
  <1>2. \A x \in Proc : [n.seen EXCEPT ![q] = IF c > @ THEN c ELSE @][x] >= n.seen[x]
    BY DEF Node
  <1>3. CheckAndUpdate(n, q, c) = [n EXCEPT !.seen = [n.seen EXCEPT ![q] = IF c > @ THEN c ELSE @]]
    BY DEF CheckAndUpdate, Node
  <1> QED
    BY <1>1, <1>2, <1>3 DEF Node

\* issue_new_train: a well-typed train and a well-typed node.
LEMMA IssueEffect ==
  ASSUME NEW p \in Proc, NEW n \in Node
  PROVE  /\ NewTrain(p, n) \in Train
         /\ AfterIssue(n) \in Node
         /\ AfterIssue(n).done = n.done /\ AfterIssue(n).parked = n.parked
         /\ AfterIssue(n).crashed = n.crashed /\ AfterIssue(n).seen = n.seen
         /\ AfterIssue(n).nextIssue = n.nextIssue + 1
         /\ AfterIssue(n).nextSeq = n.nextSeq /\ AfterIssue(n).pending = {}
  <1>1. NewTrain(p, n) \in Train
    BY DEF NewTrain, Node, Train
  <1>2. n.nextIssue + 1 \in Nat /\ n.broadcastSeen \cup n.pending \in SUBSET Payload
    BY DEF Node
  <1>3. AfterIssue(n) \in Node
    BY <1>2 DEF AfterIssue, Node
  <1>4. /\ AfterIssue(n).done = n.done /\ AfterIssue(n).parked = n.parked
        /\ AfterIssue(n).crashed = n.crashed /\ AfterIssue(n).seen = n.seen
        /\ AfterIssue(n).nextIssue = n.nextIssue + 1
        /\ AfterIssue(n).nextSeq = n.nextSeq /\ AfterIssue(n).pending = {}
    BY DEF AfterIssue, Node
  <1> QED
    BY <1>1, <1>3, <1>4

\* handle_replay passes the train on and may deliver it.
LEMMA ReplayEffect ==
  ASSUME NEW n \in Node, NEW t \in Train
  PROVE  LET r == HandleReplay(n, t) IN
         r.node \in Node /\ r.deliver \subseteq Train /\ Passes(n, t, r)
  <1> DEFINE n1 == [n EXCEPT !.broadcastSeen = @ \cup t.payloads]
  <1> DEFINE d == TryDeliverThenDrain(n1, t)
  <1> DEFINE r == HandleReplay(n, t)
  <1>1. /\ n1 \in Node /\ n1.seen = n.seen /\ n1.done = n.done /\ n1.parked = n.parked
        /\ Kept(n, n1)
    BY DEF Node, Train, Kept
  <1>2. r.node = d.node /\ r.forward = {t} /\ r.deliver = d.deliver
    BY DEF HandleReplay, Result
  <1> HIDE DEF n1, r
  <1>3. d.node \in Node /\ Kept(n1, d.node) /\ DeliveryEffect(n1, Candidates(n1, t), d.node, d.deliver)
    BY <1>1, TryDeliverThenDrainEffect
  <1>4. d.deliver \subseteq Train
    BY <1>1, <1>3 DEF DeliveryEffect, Candidates, NonEmpty, Node
  <1>5. \A q \in Proc : d.node.seen[q] >= n.seen[q]
    BY <1>1, <1>3 DEF Kept, Node
  <1> HIDE DEF d
  <1>6. Passes(n, t, r)
    BY <1>1, <1>2, <1>3, <1>5 DEF Passes, Kept
  <1> QED
    BY <1>2, <1>3, <1>4, <1>6 DEF r

\* handle_first_lap passes the train on, acknowledged by the process.
LEMMA FirstLapEffect ==
  ASSUME NEW p \in Proc, NEW n \in Node, NEW t \in Train,
         t.issuer # p, t.clock >= 1, ~IsReplay(n, t)
  PROVE  LET r == HandleFirstLap(p, n, t) IN
         /\ r.node \in Node /\ r.deliver \subseteq Train /\ r.forward \subseteq Train
         /\ Loads(p, n, t, r)
  <1> DEFINE r == HandleFirstLap(p, n, t)
  <1> DEFINE t1 == [t EXCEPT !.payloads = @ \cup n.pending, !.acks = @ \cup {p}]
  <1> DEFINE n0 == CheckAndUpdate(n, t.issuer, t.clock)
  <1> DEFINE n1 == [n0 EXCEPT !.broadcastSeen = @ \cup t1.payloads, !.pending = {}]
  <1> DEFINE d == DrainParked(n1)
  <1>1. t1 \in Train
    BY DEF Train, Node
  <1>2. n.seen[t.issuer] < t.clock /\ t.issuer \in Proc /\ t.clock \in Nat /\ n.seen \in [Proc -> Nat]
    BY DEF IsReplay, Node, Train
  <1>3. /\ n0 \in Node /\ n0.done = n.done /\ n0.parked = n.parked /\ n0.crashed = n.crashed
        /\ n0.nextIssue = n.nextIssue /\ n0.nextSeq = n.nextSeq
        /\ n0.seen = [n.seen EXCEPT ![t.issuer] = t.clock]
    BY <1>2, CheckAndUpdateEffect
  <1>r. r.node = d.node /\ r.forward = {t1} /\ r.deliver = NonEmpty(d.deliver)
    BY DEF HandleFirstLap, Result
  <1>t. t1.payloads \in SUBSET Payload
    BY <1>1 DEF Train
  <1> HIDE DEF t1, n0, r
  <1>4. /\ n1 \in Node /\ n1.done = n0.done /\ n1.parked = n0.parked /\ n1.crashed = n0.crashed
        /\ n1.nextIssue = n0.nextIssue /\ n1.nextSeq = n0.nextSeq
        /\ n1.seen = n0.seen /\ n1.pending = {}
    BY <1>t, <1>3 DEF Node
  <1> HIDE DEF n1
  <1>5. d.node \in Node /\ Kept(n1, d.node) /\ DeliveryEffect(n1, n1.parked, d.node, NonEmpty(d.deliver))
    BY <1>4, DrainEffect
  <1>6. NonEmpty(d.deliver) \subseteq Train
    BY <1>4, <1>5 DEF DeliveryEffect, NonEmpty, Node
  <1> HIDE DEF d
  <1>7. Loads(p, n, t, r)
    BY <1>2, <1>3, <1>4, <1>5, <1>r DEF Loads, Kept, t1
  <1> QED
    BY <1>1, <1>5, <1>6, <1>7, <1>r DEF r

\* handle_returning_train keeps the train or recycles its token.
LEMMA ReturningEffect ==
  ASSUME NEW p \in Proc, NEW n \in Node, NEW t \in Train
  PROVE  LET r == HandleReturningTrain(p, n, t) IN
         /\ r.node \in Node /\ r.deliver \subseteq Train /\ r.forward \subseteq Train
         /\ Passes(n, t, r) \/ Recycles(p, n, t, r)
  <1> DEFINE r == HandleReturningTrain(p, n, t)
  <1> DEFINE n1 == CheckAndUpdate(n, p, t.clock)
  <1> DEFINE d == TryDeliverThenDrain(n1, t)
  <1>0. t.clock \in Nat
    BY DEF Train
  <1>1. /\ n1 \in Node /\ n1.done = n.done /\ n1.parked = n.parked /\ n1.crashed = n.crashed
        /\ n1.nextIssue = n.nextIssue /\ n1.nextSeq = n.nextSeq /\ n1.pending = n.pending
        /\ \A x \in Proc : n1.seen[x] >= n.seen[x]
    BY <1>0, CheckAndUpdateEffect
  <1>r. IF KeyOf(t) \in n.done
          THEN r.node = AfterIssue(n1) /\ r.forward = {NewTrain(p, n1)} /\ r.deliver = {}
          ELSE r.node = d.node /\ r.forward = {t} /\ r.deliver = d.deliver
    BY DEF HandleReturningTrain, Result
  <1> HIDE DEF n1, r
  <1>2. CASE KeyOf(t) \in n.done
    <2>1. NewTrain(p, n1) = NewTrain(p, n)
      BY <1>1 DEF NewTrain
    <2>2. Recycles(p, n, t, r)
      BY <1>1, <1>2, <1>r, <2>1, IssueEffect DEF Recycles
    <2> QED
      BY <1>1, <1>2, <1>r, <2>2, IssueEffect DEF r
  <1>3. CASE KeyOf(t) \notin n.done
    <2>1. d.node \in Node /\ Kept(n1, d.node) /\ DeliveryEffect(n1, Candidates(n1, t), d.node, d.deliver)
      BY <1>1, TryDeliverThenDrainEffect
    <2>2. d.deliver \subseteq Train
      BY <1>1, <2>1 DEF DeliveryEffect, Candidates, NonEmpty, Node
    <2> HIDE DEF d
    <2>3. Passes(n, t, r)
      BY <1>1, <1>3, <1>r, <2>1 DEF Passes, Kept
    <2> QED
      BY <1>3, <1>r, <2>1, <2>2, <2>3 DEF r
  <1> QED
    BY <1>2, <1>3

\* handle_train does one of the four things above.
LEMMA HandleTrainEffect ==
  ASSUME NEW p \in Proc, NEW n \in Node, NEW t \in Train, t.clock >= 1
  PROVE  LET r == HandleTrain(p, n, t) IN
         /\ r.node \in Node /\ r.deliver \subseteq Train /\ r.forward \subseteq Train
         /\ \/ Absorbs(n, r)
            \/ Passes(n, t, r)
            \/ Loads(p, n, t, r)
            \/ t.issuer = p /\ Recycles(p, n, t, r)
  <1> DEFINE r == HandleTrain(p, n, t)
  <1>1. CASE t.clock <= n.floor[t.issuer]
    <2>1. r = Result(n, {}, {}, {})
      BY <1>1 DEF HandleTrain
    <2> QED
      BY <2>1 DEF Result, Absorbs
  <1>2. CASE ~(t.clock <= n.floor[t.issuer]) /\ t.issuer = p
    <2>1. r = HandleReturningTrain(p, n, t)
      BY <1>2 DEF HandleTrain
    <2> QED
      BY <1>2, <2>1, ReturningEffect
  <1>3. CASE ~(t.clock <= n.floor[t.issuer]) /\ t.issuer # p /\ IsReplay(n, t)
    <2>1. r = HandleReplay(n, t)
      BY <1>3 DEF HandleTrain
    <2>2. r.node \in Node /\ r.deliver \subseteq Train /\ Passes(n, t, r)
      BY <2>1, ReplayEffect
    <2> QED
      BY <2>2 DEF Passes
  <1>4. CASE ~(t.clock <= n.floor[t.issuer]) /\ t.issuer # p /\ ~IsReplay(n, t)
    <2>1. r = HandleFirstLap(p, n, t)
      BY <1>4 DEF HandleTrain
    <2> QED
      BY <1>4, <2>1, FirstLapEffect
  <1> QED
    BY <1>1, <1>2, <1>3, <1>4

-----------------------------------------------------------------------------
(* The order in which entries are handed to the application. *)

OneEntryPerKey(E) == \A e, f \in E : e.key = f.key => e = f

\* The entries of a finite set with distinct keys are numbered by their places.
LEMMA Places ==
  ASSUME NEW E \in SUBSET CacheEntry, IsFiniteSet(E), OneEntryPerKey(E)
  PROVE  /\ Cardinality(E) \in Nat
         /\ \A e \in E : Cardinality(Before(E, e)) \in 0..(Cardinality(E) - 1)
         /\ \A e, f \in E : Cardinality(Before(E, e)) = Cardinality(Before(E, f)) => e = f
         /\ \A i \in 1..Cardinality(E) : \E e \in E : Cardinality(Before(E, e)) = i - 1
  <1>1. \A e \in E : e.key \in Key
    BY DEF CacheEntry
  <1>2. Cardinality(E) \in Nat
    BY FS_CardinalityType
  <1>3. ASSUME NEW e \in E
        PROVE  /\ IsFiniteSet(Before(E, e)) /\ Cardinality(Before(E, e)) \in Nat
               /\ Cardinality(Before(E, e)) < Cardinality(E)
    <2>1. Before(E, e) \in SUBSET E /\ e \notin Before(E, e)
      BY <1>1, LessIrreflexive DEF Before
    <2>2. /\ IsFiniteSet(Before(E, e)) /\ Cardinality(Before(E, e)) <= Cardinality(E)
          /\ Cardinality(E) # Cardinality(Before(E, e))
      BY <2>1, FS_Subset
    <2>3. Cardinality(Before(E, e)) \in Nat
      BY <2>2, FS_CardinalityType
    <2> QED
      BY <1>2, <2>2, <2>3
  <1>4. ASSUME NEW e \in E, NEW f \in E, Less(e.key, f.key)
        PROVE  Cardinality(Before(E, e)) # Cardinality(Before(E, f))
    <2>1. Before(E, e) \in SUBSET Before(E, f)
      BY <1>1, <1>4, LessTransitive DEF Before
    <2>2. e \in Before(E, f) /\ e \notin Before(E, e)
      BY <1>1, <1>4, LessIrreflexive DEF Before
    <2> QED
      BY <1>3, <2>1, <2>2, FS_Subset
  <1>5. \A e, f \in E : Cardinality(Before(E, e)) = Cardinality(Before(E, f)) => e = f
    BY <1>1, <1>4, LessTotal DEF OneEntryPerKey
  <1> DEFINE n == Cardinality(E)
             rank == [e \in E |-> Cardinality(Before(E, e))]
  <1>6. IsFiniteSet(0..(n - 1)) /\ Cardinality(0..(n - 1)) = n
    <2>1. PICK z \in Int, l \in Int : z = 0 /\ l = n - 1
      BY <1>2
    <2>2. IsFiniteSet(z..l) /\ Cardinality(z..l) = IF z > l THEN 0 ELSE l - z + 1
      BY FS_Interval
    <2> QED
      BY <1>2, <2>1, <2>2
  <1>7. \A e \in E : rank[e] \in 0..(n - 1)
    BY <1>2, <1>3
  <1>8. rank \in Injection(E, 0..(n - 1))
    BY <1>5, <1>7 DEF Injection, IsInjective
  <1>9. rank \in Surjection(E, 0..(n - 1))
    BY <1>6, <1>8, FS_Injection
  <1>10. \A j \in 0..(n - 1) : \E e \in E : rank[e] = j
    BY <1>9 DEF Surjection
  <1>11. ASSUME NEW i \in 1..n
         PROVE  \E e \in E : Cardinality(Before(E, e)) = i - 1
    <2>1. i - 1 \in 0..(n - 1)
      BY <1>2
    <2> QED
      BY <1>10, <2>1
  <1> QED
    BY <1>2, <1>5, <1>7, <1>11

\* InKeyOrder lists every entry once, in its place.
LEMMA KeyOrder ==
  ASSUME NEW E \in SUBSET CacheEntry, IsFiniteSet(E), OneEntryPerKey(E)
  PROVE  /\ Cardinality(E) \in Nat
         /\ InKeyOrder(E) \in Seq(CacheEntry) /\ Len(InKeyOrder(E)) = Cardinality(E)
         /\ \A i \in 1..Cardinality(E) :
               /\ InKeyOrder(E)[i] \in E /\ Cardinality(Before(E, InKeyOrder(E)[i])) = i - 1
         /\ \A i, j \in 1..Cardinality(E) :
               i # j => /\ InKeyOrder(E)[i] # InKeyOrder(E)[j]
                        /\ InKeyOrder(E)[i].key # InKeyOrder(E)[j].key
  <1>1. Cardinality(E) \in Nat
    BY Places
  <1>2. \A i \in 1..Cardinality(E) :
           InKeyOrder(E)[i] \in E /\ Cardinality(Before(E, InKeyOrder(E)[i])) = i - 1
    <2> SUFFICES ASSUME NEW i \in 1..Cardinality(E)
                 PROVE  InKeyOrder(E)[i] \in E /\ Cardinality(Before(E, InKeyOrder(E)[i])) = i - 1
      OBVIOUS
    <2>1. \E e \in E : Cardinality(Before(E, e)) = i - 1
      BY Places
    <2>2. InKeyOrder(E)[i] = CHOOSE e \in E : Cardinality(Before(E, e)) = i - 1
      BY DEF InKeyOrder
    <2> QED
      BY <2>1, <2>2
  <1>3. InKeyOrder(E) \in [1..Cardinality(E) -> CacheEntry]
    <2>1. InKeyOrder(E) = [i \in 1..Cardinality(E) |-> InKeyOrder(E)[i]]
      BY DEF InKeyOrder
    <2> QED
      BY <1>2, <2>1
  <1>4. InKeyOrder(E) \in Seq(CacheEntry) /\ Len(InKeyOrder(E)) = Cardinality(E)
    BY <1>1, <1>3
  <1>5. ASSUME NEW i \in 1..Cardinality(E), NEW j \in 1..Cardinality(E), i # j
        PROVE  InKeyOrder(E)[i] # InKeyOrder(E)[j]
    <2>1. i - 1 # j - 1
      BY <1>1, <1>5
    <2> QED
      BY <1>2, <2>1
  <1> QED
    BY <1>1, <1>2, <1>4, <1>5 DEF OneEntryPerKey

-----------------------------------------------------------------------------
(* Logs *)

DistinctKeys(T) == \A t, u \in T : KeyOf(t) = KeyOf(u) => t = u

\* The entries of trains with distinct keys.
LEMMA EntriesOf ==
  ASSUME NEW T \in SUBSET Train, IsFiniteSet(T), DistinctKeys(T)
  PROVE  /\ Entries(T) \in SUBSET CacheEntry /\ IsFiniteSet(Entries(T))
         /\ OneEntryPerKey(Entries(T)) /\ Cardinality(Entries(T)) = Cardinality(T)
  <1> DEFINE f == [t \in T |-> [key |-> KeyOf(t), payloads |-> t.payloads]]
  <1>1. \A t \in T : KeyOf(t) \in Key /\ t.payloads \in SUBSET Payload
    BY KeyType DEF Train
  <1>2. Entries(T) \in SUBSET CacheEntry
    BY <1>1 DEF Entries, CacheEntry
  <1>3. OneEntryPerKey(Entries(T))
    BY DEF OneEntryPerKey, Entries, DistinctKeys
  <1>4. f \in Bijection(T, Entries(T))
    BY DEF Bijection, Injection, Surjection, IsInjective, Entries, DistinctKeys
  <1> HIDE DEF f
  <1>5. PICK g, E : g = f /\ E = Entries(T)
    OBVIOUS
  <1>6. IsFiniteSet(E) /\ Cardinality(T) = Cardinality(E)
    BY <1>4, <1>5, FS_Bijection DEF ExistsBijection
  <1> QED
    BY <1>2, <1>3, <1>5, <1>6

\* A log has one entry for each train.
LEMMA LogOfSet ==
  ASSUME NEW T \in SUBSET Train, IsFiniteSet(T), DistinctKeys(T)
  PROVE  /\ LogOf(T) \in Seq(SUBSET Payload) /\ Len(LogOf(T)) = Cardinality(T)
         /\ Cardinality(T) \in Nat
         /\ \A i \in 1..Cardinality(T) : LogOf(T)[i] = InKeyOrder(Entries(T))[i].payloads
  <1> DEFINE s == InKeyOrder(Entries(T))
  <1>1. /\ s \in Seq(CacheEntry) /\ Len(s) = Cardinality(T) /\ Cardinality(T) \in Nat
    BY EntriesOf, KeyOrder
  <1>2. LogOf(T) = [i \in DOMAIN s |-> s[i].payloads]
    BY DEF LogOf
  <1> HIDE DEF s
  <1>3. DOMAIN s = 1..Cardinality(T) /\ \A i \in 1..Cardinality(T) : s[i] \in CacheEntry
    BY <1>1
  <1>4. LogOf(T) \in [1..Cardinality(T) -> SUBSET Payload]
    BY <1>2, <1>3 DEF CacheEntry
  <1>5. LogOf(T) \in Seq(SUBSET Payload) /\ Len(LogOf(T)) = Cardinality(T)
    BY <1>1, <1>4
  <1>6. \A i \in 1..Cardinality(T) : LogOf(T)[i] = s[i].payloads
    BY <1>2, <1>3
  <1> QED
    BY <1>1, <1>5, <1>6 DEF s

\* If A is delivered before the rest of B, the log of A is a prefix.
LEMMA LogOfPrefix ==
  ASSUME NEW A \in SUBSET Train, NEW B \in SUBSET Train, IsFiniteSet(B), DistinctKeys(B),
         A \subseteq B, \A t \in A, u \in B \ A : Less(KeyOf(t), KeyOf(u))
  PROVE  /\ Len(LogOf(A)) <= Len(LogOf(B))
         /\ \A i \in 1..Len(LogOf(A)) : LogOf(A)[i] = LogOf(B)[i]
         /\ A # B => Len(LogOf(A)) < Len(LogOf(B))
  <1>1. A \in SUBSET B /\ DistinctKeys(A)
    BY DEF DistinctKeys
  <1>2. /\ IsFiniteSet(A) /\ Cardinality(A) <= Cardinality(B)
        /\ A # B => Cardinality(A) # Cardinality(B)
    BY <1>1, FS_Subset
  <1>3. PICK D, E : D = Entries(A) /\ E = Entries(B)
    OBVIOUS
  <1>4. /\ D \in SUBSET CacheEntry /\ IsFiniteSet(D) /\ OneEntryPerKey(D)
        /\ Cardinality(D) = Cardinality(A)
        /\ E \in SUBSET CacheEntry /\ IsFiniteSet(E) /\ OneEntryPerKey(E)
        /\ Cardinality(E) = Cardinality(B)
    BY <1>1, <1>2, <1>3, EntriesOf
  <1>5. D \subseteq E /\ \A e \in D : \A f \in E \ D : Less(e.key, f.key)
    BY <1>1, <1>3 DEF Entries
  <1>6. ASSUME NEW e \in D PROVE Before(D, e) = Before(E, e)
    <2>1. \A f \in E : f.key \in Key
      BY <1>4 DEF CacheEntry
    <2>2. \A f \in E \ D : ~Less(f.key, e.key)
      BY <1>5, <2>1, LessTransitive, LessIrreflexive
    <2> QED
      BY <1>5, <2>2 DEF Before
  <1>7. /\ Cardinality(A) \in Nat /\ Cardinality(B) \in Nat
        /\ Len(LogOf(A)) = Cardinality(A) /\ Len(LogOf(B)) = Cardinality(B)
    BY <1>1, <1>2, LogOfSet
  <1>8. ASSUME NEW i \in 1..Cardinality(A) PROVE LogOf(A)[i] = LogOf(B)[i]
    <2>1. i \in 1..Cardinality(B)
      BY <1>2, <1>7
    <2>2. InKeyOrder(D)[i] \in D /\ Cardinality(Before(D, InKeyOrder(D)[i])) = i - 1
      BY <1>4, KeyOrder
    <2>3. InKeyOrder(E)[i] \in E /\ Cardinality(Before(E, InKeyOrder(E)[i])) = i - 1
      BY <1>4, <2>1, KeyOrder
    <2>4. Cardinality(Before(E, InKeyOrder(D)[i])) = i - 1 /\ InKeyOrder(D)[i] \in E
      BY <1>5, <1>6, <2>2
    <2>5. InKeyOrder(D)[i] = InKeyOrder(E)[i]
      BY <1>4, <2>3, <2>4, Places
    <2> QED
      BY <1>1, <1>2, <1>3, <2>1, <2>5, LogOfSet
  <1> QED
    BY <1>2, <1>7, <1>8

\* Two logs make one if all keys of the first are smaller.
LEMMA LogOfUnion ==
  ASSUME NEW A \in SUBSET Train, NEW B \in SUBSET Train, IsFiniteSet(A), IsFiniteSet(B),
         DistinctKeys(A), DistinctKeys(B), \A t \in A, u \in B : Less(KeyOf(t), KeyOf(u))
  PROVE  /\ IsFiniteSet(A \cup B) /\ DistinctKeys(A \cup B)
         /\ LogOf(A \cup B) = LogOf(A) \o LogOf(B)
  <1>1. \A t \in A \cup B : KeyOf(t) \in Key
    BY KeyType
  <1>2. A \cap B = {}
    BY <1>1, LessIrreflexive
  <1>3. IsFiniteSet(A \cup B)
    BY FS_Union
  <1>4. DistinctKeys(A \cup B)
    BY <1>1, LessIrreflexive DEF DistinctKeys
  <1>5. PICK D, E, F : D = Entries(A) /\ E = Entries(B) /\ F = Entries(A \cup B)
    OBVIOUS
  <1>6. /\ D \in SUBSET CacheEntry /\ IsFiniteSet(D) /\ OneEntryPerKey(D)
        /\ Cardinality(D) = Cardinality(A)
        /\ E \in SUBSET CacheEntry /\ IsFiniteSet(E) /\ OneEntryPerKey(E)
        /\ Cardinality(E) = Cardinality(B)
        /\ F \in SUBSET CacheEntry /\ IsFiniteSet(F) /\ OneEntryPerKey(F)
        /\ Cardinality(F) = Cardinality(A \cup B)
    BY <1>3, <1>4, <1>5, EntriesOf
  <1>7. PICK a \in Nat, b \in Nat : a = Cardinality(A) /\ b = Cardinality(B)
    BY FS_CardinalityType
  <1>8. F = D \cup E /\ D \cap E = {} /\ \A e \in D, f \in E : Less(e.key, f.key)
    <2>1. F = D \cup E
      BY <1>5 DEF Entries
    <2>2. \A e \in D, f \in E : Less(e.key, f.key)
      BY <1>5 DEF Entries
    <2>3. \A e \in D \cup E : e.key \in Key
      BY <1>6 DEF CacheEntry
    <2> QED
      BY <2>1, <2>2, <2>3, LessIrreflexive
  <1>9. Cardinality(F) = a + b
    <2>1. Cardinality(D \cap E) = 0
      BY <1>8, FS_EmptySet
    <2>2. Cardinality(D \cup E) = Cardinality(D) + Cardinality(E) - Cardinality(D \cap E)
      BY <1>6, FS_Union
    <2> QED
      BY <1>6, <1>7, <1>8, <2>1, <2>2
  <1>10. /\ LogOf(A) \in Seq(SUBSET Payload) /\ Len(LogOf(A)) = a
         /\ LogOf(B) \in Seq(SUBSET Payload) /\ Len(LogOf(B)) = b
         /\ LogOf(A \cup B) \in Seq(SUBSET Payload) /\ Len(LogOf(A \cup B)) = a + b
    <2>1. A \cup B \in SUBSET Train
      OBVIOUS
    <2> QED
      BY <1>3, <1>4, <1>6, <1>7, <1>9, <2>1, LogOfSet
  <1>11. ASSUME NEW i \in 1..a PROVE LogOf(A \cup B)[i] = LogOf(A)[i]
    <2>1. A \cup B \in SUBSET Train /\ A \subseteq A \cup B
          /\ \A t \in A, u \in (A \cup B) \ A : Less(KeyOf(t), KeyOf(u))
      OBVIOUS
    <2>2. \A j \in 1..Len(LogOf(A)) : LogOf(A)[j] = LogOf(A \cup B)[j]
      BY <1>3, <1>4, <2>1, LogOfPrefix
    <2> QED
      BY <1>10, <2>2
  <1>12. ASSUME NEW i \in 1..b PROVE LogOf(A \cup B)[a + i] = LogOf(B)[i]
    <2>1. PICK e : e = InKeyOrder(E)[i]
      OBVIOUS
    <2>2. e \in E /\ Cardinality(Before(E, e)) = i - 1
      BY <1>6, <1>7, <2>1, KeyOrder
    <2>3. Before(F, e) = D \cup Before(E, e) /\ D \cap Before(E, e) = {}
      BY <1>8, <2>2 DEF Before
    <2>4. IsFiniteSet(Before(E, e))
      <3>1. Before(E, e) \in SUBSET E
        BY DEF Before
      <3> QED
        BY <1>6, <3>1, FS_Subset
    <2>5. Cardinality(Before(F, e)) = (a + i) - 1
      <3>1. PICK B2 : B2 = Before(E, e)
        OBVIOUS
      <3>2. Cardinality(D \cap B2) = 0
        BY <2>3, <3>1, FS_EmptySet
      <3>3. Cardinality(D \cup B2) = Cardinality(D) + Cardinality(B2) - Cardinality(D \cap B2)
        BY <1>6, <2>4, <3>1, FS_Union
      <3>4. Cardinality(D \cup B2) = a + (i - 1)
        BY <1>6, <1>7, <2>2, <3>1, <3>2, <3>3
      <3> QED
        BY <2>3, <3>1, <3>4
    <2>6. PICK k \in Nat : k = a + i
      OBVIOUS
    <2>7. k \in 1..Cardinality(F) /\ e \in F /\ Cardinality(Before(F, e)) = k - 1
      BY <1>8, <1>9, <2>2, <2>5, <2>6
    <2>8. InKeyOrder(F)[k] \in F /\ Cardinality(Before(F, InKeyOrder(F)[k])) = k - 1
      BY <1>6, <2>7, KeyOrder
    <2>9. InKeyOrder(F)[k] = e
      BY <1>6, <2>7, <2>8, Places
    <2>10. LogOf(A \cup B)[k] = InKeyOrder(F)[k].payloads
      <3>1. A \cup B \in SUBSET Train /\ k \in 1..Cardinality(A \cup B)
        BY <1>6, <2>7
      <3> QED
        BY <1>3, <1>4, <1>5, <3>1, LogOfSet
    <2>11. LogOf(B)[i] = e.payloads
      BY <1>5, <1>7, <2>1, LogOfSet
    <2> QED
      BY <2>6, <2>9, <2>10, <2>11
  <1>13. LogOf(A \cup B) = LogOf(A) \o LogOf(B)
    <2>1. PICK s, t, u : s = LogOf(A) /\ t = LogOf(B) /\ u = LogOf(A \cup B)
      OBVIOUS
    <2>2. /\ s \in Seq(SUBSET Payload) /\ Len(s) = a /\ t \in Seq(SUBSET Payload) /\ Len(t) = b
          /\ u \in Seq(SUBSET Payload) /\ Len(u) = a + b
      BY <1>10, <2>1
    <2>3. \A i \in 1..(a + b) : u[i] = IF i <= a THEN s[i] ELSE t[i - a]
      <3> SUFFICES ASSUME NEW i \in 1..(a + b) PROVE u[i] = IF i <= a THEN s[i] ELSE t[i - a]
        OBVIOUS
      <3>1. CASE i <= a
        <4>1. i \in 1..a
          BY <3>1
        <4> QED
          BY <1>11, <2>1, <3>1, <4>1
      <3>2. CASE ~(i <= a)
        <4>1. PICK j \in 1..b : i = a + j /\ i - a = j
          BY <3>2
        <4> QED
          BY <1>12, <2>1, <3>2, <4>1
      <3> QED
        BY <3>1, <3>2
    <2>4. s \o t \in Seq(SUBSET Payload) /\ Len(s \o t) = a + b
          /\ \A i \in 1..(a + b) : (s \o t)[i] = IF i <= a THEN s[i] ELSE t[i - a]
      BY <2>2
    <2>5. u = s \o t
      <3>1. PICK v : v = s \o t
        OBVIOUS
      <3>2. v \in Seq(SUBSET Payload) /\ Len(v) = Len(u) /\ \A i \in 1..Len(u) : u[i] = v[i]
        BY <2>2, <2>3, <2>4, <3>1
      <3> QED
        BY <2>2, <3>1, <3>2, SeqEqual
    <2> QED
      BY <2>1, <2>5
  <1> QED
    BY <1>3, <1>4, <1>13

\* The log of one train, and of none.
LEMMA LogOfOne ==
  ASSUME NEW t \in Train
  PROVE  LogOf({t}) = <<t.payloads>> /\ LogOf({}) = <<>>
  <1>1. {t} \in SUBSET Train /\ IsFiniteSet({t}) /\ Cardinality({t}) = 1 /\ DistinctKeys({t})
    BY FS_Singleton DEF DistinctKeys
  <1>2. /\ LogOf({t}) \in Seq(SUBSET Payload) /\ Len(LogOf({t})) = 1
        /\ LogOf({t})[1] = InKeyOrder(Entries({t}))[1].payloads
    <2>1. 1 \in 1..Cardinality({t})
      BY <1>1
    <2> QED
      BY <1>1, <2>1, LogOfSet
  <1>3. InKeyOrder(Entries({t}))[1] \in Entries({t})
    <2>1. 1 \in 1..Cardinality(Entries({t}))
      BY <1>1, EntriesOf
    <2> QED
      BY <1>1, <2>1, EntriesOf, KeyOrder
  <1>4. LogOf({t})[1] = t.payloads
    BY <1>2, <1>3 DEF Entries
  <1>5. PICK l : l = LogOf({t})
    OBVIOUS
  <1>6. l = <<t.payloads>>
    BY <1>2, <1>4, <1>5
  <1>7. PICK e : e = {}
    OBVIOUS
  <1>8. e \in SUBSET Train /\ IsFiniteSet(e) /\ DistinctKeys(e) /\ Cardinality(e) = 0
    BY <1>7, FS_EmptySet DEF DistinctKeys
  <1>9. LogOf(e) \in Seq(SUBSET Payload) /\ Len(LogOf(e)) = 0
    BY <1>8, LogOfSet
  <1>10. LogOf(e) = <<>>
    BY <1>9
  <1> QED
    BY <1>5, <1>6, <1>7, <1>10

-----------------------------------------------------------------------------
(* What the handlers deliver: each key once. *)

\* From n to m the trains of D are finished, and none of them was before.
Releases(n, m, D) ==
    /\ m \in Node /\ Tidy(m) /\ Drained(m) = {}
    /\ m.floor = n.floor /\ m.frozen = n.frozen
    /\ D \in SUBSET Train /\ IsFiniteSet(D)
    /\ \A t, u \in D : KeyOf(t) = KeyOf(u) => t = u
    /\ m.done = n.done \cup KeysOf(D) /\ KeysOf(D) \cap n.done = {}

\* drain_parked leaves nothing it could deliver.
LEMMA DrainReleases ==
  ASSUME NEW n \in Node, Tidy(n)
  PROVE  LET d == DrainParked(n) IN
         Releases(n, d.node, d.deliver) /\ d.deliver \subseteq n.parked /\ Kept(n, d.node)
  <1> DEFINE D == Drained(n)
             m == FinishParked(n, D)
  <1>1. D \in SUBSET n.parked /\ D \in SUBSET Train
    BY DEF Drained, Node
  <1>2. DrainParked(n).node = m /\ DrainParked(n).deliver = D
    BY DEF DrainParked
  <1>3. /\ m \in Node /\ m.done = n.done \cup KeysOf(D) /\ m.parked = n.parked \ D
        /\ m.seen = n.seen /\ m.crashed = n.crashed /\ m.frozen = n.frozen /\ m.floor = n.floor
        /\ Kept(n, m)
    BY <1>1, FinishType DEF Kept
  <1>4. KeysOf(m.parked) \cup m.done = KeysOf(n.parked) \cup n.done
    BY <1>1, <1>3 DEF KeysOf
  <1>5. ASSUME NEW t \in Drained(m) PROVE FALSE
    <2>1. /\ t \in n.parked /\ t \notin D /\ ~n.frozen
          /\ SeenClocksAdvancedEnough(m, KeyOf(t))
          /\ PriorKnownIn(m, KeyOf(t), n.done \cup KeysOf(n.parked))
      <3> HIDE DEF D, m
      <3>1. m.done \cup KeysOf(m.parked) = n.done \cup KeysOf(n.parked)
        BY <1>4
      <3> QED
        BY <1>3, <3>1 DEF Drained
    <2>2. /\ SeenClocksAdvancedEnough(n, KeyOf(t))
          /\ PriorKnownIn(n, KeyOf(t), n.done \cup KeysOf(n.parked))
      <3> HIDE DEF D, m
      <3> QED
        BY <1>3, <2>1 DEF SeenClocksAdvancedEnough, PriorKnownIn
    <2> QED
      BY <2>1, <2>2 DEF Drained
  <1> HIDE DEF D, m
  <1>6. IsFiniteSet(D) /\ IsFiniteSet(m.parked)
    <2>1. PICK P, Q : P = n.parked /\ Q = m.parked
      OBVIOUS
    <2>2. IsFiniteSet(P) /\ D \in SUBSET P /\ Q \in SUBSET P
      BY <1>1, <1>3, <2>1 DEF Tidy
    <2> QED
      BY <2>1, <2>2, FS_Subset
  <1>7. KeysOf(D) \cap n.done = {} /\ \A t, u \in D : KeyOf(t) = KeyOf(u) => t = u
    BY <1>1 DEF Tidy, KeysOf
  <1>8. \A t, u \in m.parked : KeyOf(t) = KeyOf(u) => t = u
    BY <1>3 DEF Tidy
  <1>9. KeysOf(m.parked) \cap m.done = {}
    <2> SUFFICES ASSUME NEW t \in n.parked \ D, KeyOf(t) \in n.done \cup KeysOf(D) PROVE FALSE
      BY <1>3 DEF KeysOf
    <2>1. KeyOf(t) \notin n.done
      BY DEF Tidy, KeysOf
    <2>2. PICK u \in D : KeyOf(u) = KeyOf(t)
      BY <2>1 DEF KeysOf
    <2> QED
      BY <1>1, <2>2 DEF Tidy
  <1>10. \A k \in m.done \cup KeysOf(m.parked) : k[1] <= m.seen[k[2]]
    BY <1>3, <1>4 DEF Tidy
  <1>11. Tidy(m)
    BY <1>6, <1>8, <1>9, <1>10 DEF Tidy
  <1> QED
    BY <1>1, <1>2, <1>3, <1>5, <1>6, <1>7, <1>11 DEF Releases

\* A parked train is not deliverable: try_deliver never finishes a key that has a
\* second copy in parked.
LEMMA ParkedNotDeliverable ==
  ASSUME NEW n \in Node, Tidy(n), Drained(n) = {}, ~n.frozen, NEW u \in n.parked
  PROVE  ~IsDeliverable(n, KeyOf(u))
  <1> SUFFICES ASSUME IsDeliverable(n, KeyOf(u)) PROVE FALSE
    OBVIOUS
  <1>1. SeenClocksAdvancedEnough(n, KeyOf(u)) /\ PriorKnownIn(n, KeyOf(u), n.done)
    BY DEF IsDeliverable
  <1>2. PriorKnownIn(n, KeyOf(u), n.done \cup KeysOf(n.parked))
    BY <1>1 DEF PriorKnownIn
  <1>3. u \in Drained(n)
    BY <1>1, <1>2 DEF Drained
  <1> QED
    BY <1>3

\* try_deliver leaves a tidy node; it delivers or parks a train at most once.
LEMMA TryDeliverTidy ==
  ASSUME NEW n \in Node, Tidy(n), NEW t \in Train, t.clock <= n.seen[t.issuer],
         KeyOf(t) \in KeysOf(n.parked) => Drained(n) = {}
  PROVE  LET a == TryDeliver(n, t) IN
         /\ a.node \in Node /\ Tidy(a.node) /\ Kept(n, a.node)
         /\ a.node.floor = n.floor /\ a.node.frozen = n.frozen
         /\ a.deliver \in {{}, {t}} /\ a.node.done = n.done \cup KeysOf(a.deliver)
         /\ KeysOf(a.deliver) \cap n.done = {}
  <1> DEFINE a == TryDeliver(n, t)
  <1>1. /\ a.node \in Node /\ Tidy(a.node) /\ Kept(n, a.node)
        /\ a.node.floor = n.floor /\ a.node.frozen = n.frozen
        /\ a.deliver \in {{}, {t}} /\ a.node.done = n.done \cup KeysOf(a.deliver)
        /\ KeysOf(a.deliver) \cap n.done = {}
    <2>0. KeysOf({}) = {} /\ KeysOf({t}) = {KeyOf(t)}
      BY DEF KeysOf
    <2>1. CASE a.node = n /\ a.deliver = {}
      BY <2>0, <2>1 DEF Kept
    <2>2. CASE /\ a.node = RecordDelivered(n, t) /\ a.deliver = {t}
               /\ ~n.frozen /\ KeyOf(t) \notin n.done /\ IsDeliverable(n, KeyOf(t))
      <3>1. /\ a.node \in Node /\ Kept(n, a.node)
            /\ a.node.floor = n.floor /\ a.node.frozen = n.frozen /\ a.node.seen = n.seen
            /\ a.node.done = n.done \cup {KeyOf(t)} /\ a.node.parked = n.parked
        <4>1. LET m == RecordDelivered(n, t) IN
              /\ m \in Node /\ Kept(n, m)
              /\ m.floor = n.floor /\ m.frozen = n.frozen /\ m.seen = n.seen
              /\ m.done = n.done \cup {KeyOf(t)} /\ m.parked = n.parked
          BY RecordType DEF Kept
        <4> HIDE DEF a
        <4> QED
          BY <2>2, <4>1
      <3>2. KeyOf(t) \notin KeysOf(n.parked)
        BY <2>2, ParkedNotDeliverable DEF KeysOf
      <3> HIDE DEF a
      <3>3. a.node.parked = n.parked
        BY <3>1
      <3>4. Tidy(a.node)
        <4>1. KeysOf(a.node.parked) \cap a.node.done = {}
          BY <3>1, <3>2, <3>3 DEF Tidy
        <4>2. \A k \in a.node.done \cup KeysOf(a.node.parked) : k[1] <= a.node.seen[k[2]]
          <5>1. KeyOf(t)[1] <= n.seen[KeyOf(t)[2]]
            BY DEF KeyOf
          <5>2. \A k \in n.done \cup KeysOf(n.parked) : k[1] <= n.seen[k[2]]
            BY DEF Tidy
          <5> QED
            BY <3>1, <3>3, <5>1, <5>2
        <4> QED
          BY <3>3, <4>1, <4>2 DEF Tidy
      <3> QED
        BY <2>0, <2>2, <3>1, <3>4
    <2>3. CASE /\ a.node = [n EXCEPT !.parked = @ \cup {t}] /\ a.deliver = {}
               /\ KeyOf(t) \notin n.done /\ KeyOf(t) \notin KeysOf(n.parked)
      <3>1. /\ a.node \in Node /\ Kept(n, a.node)
            /\ a.node.floor = n.floor /\ a.node.frozen = n.frozen /\ a.node.seen = n.seen
            /\ a.node.done = n.done /\ a.node.parked = n.parked \cup {t}
        BY <2>3 DEF Kept, Node
      <3> HIDE DEF a
      <3>2. IsFiniteSet(a.node.parked)
        <4>1. PICK P : P = n.parked
          OBVIOUS
        <4>2. IsFiniteSet(P \cup {t})
          BY <4>1, FS_AddElement DEF Tidy
        <4> QED
          BY <3>1, <4>1, <4>2
      <3>3. \A x, y \in a.node.parked : KeyOf(x) = KeyOf(y) => x = y
        BY <2>3, <3>1 DEF Tidy, KeysOf
      <3>4. KeysOf(a.node.parked) = KeysOf(n.parked) \cup {KeyOf(t)}
        BY <3>1 DEF KeysOf
      <3>5. KeysOf(a.node.parked) \cap a.node.done = {}
        BY <2>3, <3>1, <3>4 DEF Tidy
      <3>6. \A k \in a.node.done \cup KeysOf(a.node.parked) : k[1] <= a.node.seen[k[2]]
        BY <3>1, <3>4 DEF Tidy, KeyOf
      <3> QED
        BY <2>0, <2>3, <3>1, <3>2, <3>3, <3>5, <3>6 DEF Tidy
    <2> QED
      BY <2>1, <2>2, <2>3 DEF TryDeliver
  <1> QED
    BY <1>1

\* try_deliver and drain_parked together.
LEMMA TryDeliverReleases ==
  ASSUME NEW n \in Node, Tidy(n), NEW t \in Train, t.clock <= n.seen[t.issuer],
         KeyOf(t) \in KeysOf(n.parked) => Drained(n) = {}
  PROVE  LET d == TryDeliverThenDrain(n, t) IN
         \E D : Releases(n, d.node, D) /\ d.deliver = NonEmpty(D) /\ Kept(n, d.node)
  <1> DEFINE a == TryDeliver(n, t)
             b == DrainParked(a.node)
             d == TryDeliverThenDrain(n, t)
             D == a.deliver \cup b.deliver
  <1>1. d.node = b.node /\ d.deliver = NonEmpty(D)
    BY DEF TryDeliverThenDrain
  <1>2. /\ a.node \in Node /\ Tidy(a.node) /\ Kept(n, a.node)
        /\ a.node.floor = n.floor /\ a.node.frozen = n.frozen
        /\ a.deliver \in {{}, {t}} /\ a.node.done = n.done \cup KeysOf(a.deliver)
        /\ KeysOf(a.deliver) \cap n.done = {}
    BY TryDeliverTidy
  <1> HIDE DEF a
  <1>3. /\ Releases(a.node, b.node, b.deliver) /\ b.deliver \subseteq a.node.parked
        /\ Kept(a.node, b.node)
    BY <1>2, DrainReleases
  <1> HIDE DEF b, d
  <1>4. KeysOf(D) = KeysOf(a.deliver) \cup KeysOf(b.deliver)
    BY DEF KeysOf
  <1>5. /\ b.node.done = a.node.done \cup KeysOf(b.deliver)
        /\ KeysOf(b.deliver) \cap a.node.done = {}
        /\ b.node \in Node /\ Tidy(b.node) /\ Drained(b.node) = {}
        /\ b.node.floor = n.floor /\ b.node.frozen = n.frozen
        /\ b.deliver \in SUBSET Train /\ IsFiniteSet(b.deliver)
        /\ \A x, y \in b.deliver : KeyOf(x) = KeyOf(y) => x = y
    BY <1>2, <1>3 DEF Releases
  <1>6. b.node.done = n.done \cup KeysOf(D) /\ KeysOf(D) \cap n.done = {}
    BY <1>2, <1>4, <1>5
  <1>7. IsFiniteSet(D) /\ D \in SUBSET Train
    <2>1. PICK B : B = b.deliver
      OBVIOUS
    <2>2. IsFiniteSet(B) /\ IsFiniteSet(B \cup {t})
      BY <1>5, <2>1, FS_AddElement
    <2>3. D = B \/ D = B \cup {t}
      BY <1>2, <2>1
    <2> QED
      BY <1>2, <1>5, <2>1, <2>2, <2>3
  <1>8. \A x, y \in D : KeyOf(x) = KeyOf(y) => x = y
    BY <1>2, <1>5 DEF KeysOf
  <1>9. Kept(n, b.node)
    BY <1>2, <1>3 DEF Kept
  <1>10. Releases(n, d.node, D)
    BY <1>1, <1>5, <1>6, <1>7, <1>8 DEF Releases
  <1> QED
    BY <1>1, <1>9, <1>10 DEF d

\* n and m differ in nothing that tidiness depends on, but m may have seen more.
Watches(n, m) ==
    /\ m \in Node /\ m.parked = n.parked /\ m.done = n.done
    /\ m.crashed = n.crashed /\ m.floor = n.floor /\ m.frozen = n.frozen
    /\ \A q \in Proc : m.seen[q] >= n.seen[q]

\* Seeing more leaves a node tidy, and seeing the same leaves nothing to drain.
LEMMA WatchesTidy ==
  ASSUME NEW n \in Node, Tidy(n), NEW m, Watches(n, m)
  PROVE  /\ Tidy(m)
         /\ m.seen = n.seen => Drained(m) = Drained(n)
         /\ \A r, D : Releases(m, r, D) => Releases(n, r, D)
  <1>1. \A k \in n.done \cup KeysOf(n.parked) : k \in Key /\ k[1] \in Nat /\ k[2] \in Proc
    BY KeyType DEF KeysOf, Node, Key
  <1>2. \A q \in Proc : n.seen[q] \in Nat /\ m.seen[q] \in Nat /\ m.seen[q] >= n.seen[q]
    BY DEF Watches, Node
  <1>3. \A k \in n.done \cup KeysOf(n.parked) : k[1] <= m.seen[k[2]]
    <2> SUFFICES ASSUME NEW k \in n.done \cup KeysOf(n.parked) PROVE k[1] <= m.seen[k[2]]
      OBVIOUS
    <2>1. k[1] <= n.seen[k[2]]
      BY DEF Tidy
    <2> QED
      BY <1>1, <1>2, <2>1
  <1>4. Tidy(m)
    BY <1>3 DEF Tidy, Watches
  <1>5. m.seen = n.seen => Drained(m) = Drained(n)
    BY DEF Watches, Drained, SeenClocksAdvancedEnough, PriorKnownIn
  <1>6. \A r, D : Releases(m, r, D) => Releases(n, r, D)
    BY DEF Watches, Releases
  <1> QED
    BY <1>4, <1>5, <1>6

\* Nothing is delivered.
LEMMA ReleasesNothing ==
  ASSUME NEW n \in Node, Tidy(n), Drained(n) = {}
  PROVE  Releases(n, n, {}) /\ NonEmpty({}) = {}
  BY FS_EmptySet DEF Releases, KeysOf, NonEmpty

\* check_and_update.
LEMMA UpdateWatches ==
  ASSUME NEW n \in Node, NEW q \in Proc, NEW c \in Nat
  PROVE  LET m == CheckAndUpdate(n, q, c) IN
         /\ Watches(n, m) /\ m.nextIssue = n.nextIssue /\ m.pending = n.pending
         /\ c <= m.seen[q]
         /\ c <= n.seen[q] => m.seen = n.seen
         /\ \A x \in Proc : m.seen[x] = n.seen[x] \/ (x = q /\ m.seen[x] = c)
  <1> DEFINE m == CheckAndUpdate(n, q, c)
  <1>1. /\ m \in Node /\ m.done = n.done /\ m.parked = n.parked /\ m.crashed = n.crashed
        /\ m.nextIssue = n.nextIssue /\ m.pending = n.pending
        /\ m.seen = [n.seen EXCEPT ![q] = IF c > @ THEN c ELSE @]
        /\ \A x \in Proc : m.seen[x] >= n.seen[x]
    BY CheckAndUpdateEffect
  <1>2. m.floor = n.floor /\ m.frozen = n.frozen
    BY DEF CheckAndUpdate, Node
  <1> HIDE DEF m
  <1>3. n.seen \in [Proc -> Nat]
    BY DEF Node
  <1>4. \A x \in Proc : m.seen[x] = n.seen[x] \/ (x = q /\ m.seen[x] = c)
    BY <1>1, <1>3
  <1>5. c <= n.seen[q] => m.seen = n.seen
    BY <1>1, <1>3
  <1>6. c <= m.seen[q]
    BY <1>1, <1>3
  <1> QED
    BY <1>1, <1>2, <1>4, <1>5, <1>6 DEF Watches, m

\* What a handler does to the clocks: it may learn the train's, or issue its own.
Advances(p, n, t, r) ==
    /\ \A q \in Proc : r.node.seen[q] = n.seen[q] \/ (q = t.issuer /\ r.node.seen[q] = t.clock)
    /\ \/ /\ r.node.nextIssue = n.nextIssue
          /\ r.forward = {} \/ \E x \in Train : KeyOf(x) = KeyOf(t) /\ r.forward = {x}
       \/ /\ r.node.nextIssue = n.nextIssue + 1
          /\ \E x \in Train : KeyOf(x) = <<n.nextIssue, p>> /\ r.forward = {x}

\* handle_returning_train
LEMMA ReturningReleases ==
  ASSUME NEW n \in Node, Tidy(n), Drained(n) = {}, NEW t \in Train, t.issuer \in Proc
  PROVE  LET r == HandleReturningTrain(t.issuer, n, t) IN
         /\ \E D : Releases(n, r.node, D) /\ r.deliver = NonEmpty(D)
         /\ Advances(t.issuer, n, t, r)
  <1> DEFINE p == t.issuer
             n1 == CheckAndUpdate(n, p, t.clock)
             d == TryDeliverThenDrain(n1, t)
             r == HandleReturningTrain(p, n, t)
  <1>0. t.clock \in Nat /\ KeyOf(t)[1] = t.clock /\ KeyOf(t)[2] = p
    BY DEF Train, KeyOf
  <1>1. /\ Watches(n, n1) /\ n1.nextIssue = n.nextIssue /\ n1.pending = n.pending
        /\ t.clock <= n1.seen[p]
        /\ t.clock <= n.seen[p] => n1.seen = n.seen
        /\ \A x \in Proc : n1.seen[x] = n.seen[x] \/ (x = p /\ n1.seen[x] = t.clock)
    BY <1>0, UpdateWatches
  <1>2. IF KeyOf(t) \in n.done
          THEN r.node = AfterIssue(n1) /\ r.forward = {NewTrain(p, n1)} /\ r.deliver = {}
          ELSE r.node = d.node /\ r.forward = {t} /\ r.deliver = d.deliver
    BY DEF HandleReturningTrain, Result
  <1> HIDE DEF n1, r
  <1>3. /\ n1 \in Node /\ Tidy(n1)
        /\ t.clock <= n.seen[p] => Drained(n1) = {}
        /\ \A m, D : Releases(n1, m, D) => Releases(n, m, D)
    BY <1>1, WatchesTidy DEF Watches
  <1>4. KeyOf(t) \in n.done \cup KeysOf(n.parked) => t.clock <= n.seen[p]
    BY <1>0 DEF Tidy
  <1>5. CASE KeyOf(t) \in n.done
    <2>1. Drained(n1) = {}
      BY <1>3, <1>4, <1>5
    <2>2. /\ NewTrain(p, n1) \in Train /\ AfterIssue(n1) \in Node
          /\ AfterIssue(n1).done = n1.done /\ AfterIssue(n1).parked = n1.parked
          /\ AfterIssue(n1).crashed = n1.crashed /\ AfterIssue(n1).seen = n1.seen
          /\ AfterIssue(n1).nextIssue = n1.nextIssue + 1
      BY <1>3, IssueEffect
    <2>3. AfterIssue(n1).floor = n1.floor /\ AfterIssue(n1).frozen = n1.frozen
      BY <1>3 DEF AfterIssue, Node
    <2>4. Watches(n1, AfterIssue(n1))
      BY <1>3, <2>2, <2>3 DEF Watches, Node
    <2>5. Tidy(AfterIssue(n1)) /\ Drained(AfterIssue(n1)) = {}
      BY <1>3, <2>1, <2>2, <2>4, WatchesTidy
    <2>6. Releases(n, AfterIssue(n1), {}) /\ NonEmpty({}) = {}
      <3>1. Releases(AfterIssue(n1), AfterIssue(n1), {}) /\ NonEmpty({}) = {}
        BY <2>2, <2>5, ReleasesNothing
      <3> QED
        BY <1>3, <2>4, <3>1, WatchesTidy
    <2>7. KeyOf(NewTrain(p, n1)) = <<n.nextIssue, p>>
      BY <1>1 DEF NewTrain, KeyOf
    <2>8. Advances(p, n, t, r)
      BY <1>1, <1>2, <1>5, <2>2, <2>7 DEF Advances
    <2> QED
      BY <1>2, <1>5, <2>6, <2>8 DEF r
  <1>6. CASE KeyOf(t) \notin n.done
    <2>1. KeyOf(t) \in KeysOf(n1.parked) => Drained(n1) = {}
      BY <1>1, <1>3, <1>4 DEF Watches
    <2>2. PICK D : Releases(n1, d.node, D) /\ d.deliver = NonEmpty(D) /\ Kept(n1, d.node)
      BY <1>1, <1>3, <2>1, TryDeliverReleases
    <2> HIDE DEF d
    <2>3. Advances(p, n, t, r)
      BY <1>1, <1>2, <1>6, <2>2 DEF Advances, Kept
    <2> QED
      BY <1>2, <1>3, <1>6, <2>2, <2>3 DEF r
  <1> QED
    BY <1>5, <1>6

\* handle_foreign_train, both laps.
LEMMA ForeignReleases ==
  ASSUME NEW p \in Proc, NEW n \in Node, Tidy(n), Drained(n) = {}, NEW t \in Train, t.clock >= 1
  PROVE  LET r == IF IsReplay(n, t) THEN HandleReplay(n, t) ELSE HandleFirstLap(p, n, t) IN
         /\ \E D : Releases(n, r.node, D) /\ r.deliver = NonEmpty(D)
         /\ Advances(p, n, t, r)
  <1>0. /\ t.clock \in Nat /\ t.issuer \in Proc /\ t.payloads \in SUBSET Payload
        /\ KeyOf(t)[1] = t.clock /\ KeyOf(t)[2] = t.issuer
    BY DEF Train, KeyOf
  <1>1. ASSUME IsReplay(n, t)
        PROVE  LET r == HandleReplay(n, t) IN
               /\ \E D : Releases(n, r.node, D) /\ r.deliver = NonEmpty(D)
               /\ Advances(p, n, t, r)
    <2> DEFINE n1 == [n EXCEPT !.broadcastSeen = @ \cup t.payloads]
               d == TryDeliverThenDrain(n1, t)
               r == HandleReplay(n, t)
    <2>1. /\ Watches(n, n1) /\ n1.seen = n.seen /\ n1.nextIssue = n.nextIssue
      BY <1>0 DEF Watches, Node
    <2>2. r.node = d.node /\ r.forward = {t} /\ r.deliver = d.deliver
      BY DEF HandleReplay, Result
    <2> HIDE DEF n1, r
    <2>3. /\ n1 \in Node /\ Tidy(n1) /\ Drained(n1) = {}
          /\ \A m, D : Releases(n1, m, D) => Releases(n, m, D)
      BY <2>1, WatchesTidy DEF Watches
    <2>4. t.clock <= n1.seen[t.issuer]
      BY <1>0, <1>1, <2>1 DEF IsReplay, Node
    <2>5. PICK D : Releases(n1, d.node, D) /\ d.deliver = NonEmpty(D) /\ Kept(n1, d.node)
      BY <2>3, <2>4, TryDeliverReleases
    <2> HIDE DEF d
    <2>6. Advances(p, n, t, r)
      BY <2>1, <2>2, <2>5 DEF Advances, Kept
    <2> QED
      BY <2>2, <2>3, <2>5, <2>6 DEF r
  <1>2. ASSUME ~IsReplay(n, t)
        PROVE  LET r == HandleFirstLap(p, n, t) IN
               /\ \E D : Releases(n, r.node, D) /\ r.deliver = NonEmpty(D)
               /\ Advances(p, n, t, r)
    <2> DEFINE r == HandleFirstLap(p, n, t)
               t1 == [t EXCEPT !.payloads = @ \cup n.pending, !.acks = @ \cup {p}]
               n0 == CheckAndUpdate(n, t.issuer, t.clock)
               n1 == [n0 EXCEPT !.broadcastSeen = @ \cup t1.payloads, !.pending = {}]
               d == DrainParked(n1)
    <2>1. t1 \in Train /\ KeyOf(t1) = KeyOf(t)
      BY DEF Train, Node, KeyOf
    <2>2. /\ Watches(n, n0) /\ n0.nextIssue = n.nextIssue
          /\ \A x \in Proc : n0.seen[x] = n.seen[x] \/ (x = t.issuer /\ n0.seen[x] = t.clock)
      BY <1>0, UpdateWatches
    <2>3. r.node = d.node /\ r.forward = {t1} /\ r.deliver = NonEmpty(d.deliver)
      BY DEF HandleFirstLap, Result
    <2>4. t1.payloads \in SUBSET Payload
      BY <2>1 DEF Train
    <2> HIDE DEF t1, n0, r
    <2>5. /\ n1 \in Node /\ n1.done = n0.done /\ n1.parked = n0.parked /\ n1.crashed = n0.crashed
          /\ n1.nextIssue = n0.nextIssue /\ n1.seen = n0.seen
          /\ n1.floor = n0.floor /\ n1.frozen = n0.frozen
      BY <2>2, <2>4 DEF Watches, Node
    <2> HIDE DEF n1
    <2>6. Watches(n, n1)
      BY <2>2, <2>5 DEF Watches
    <2>7. Tidy(n1) /\ \A m, D : Releases(n1, m, D) => Releases(n, m, D)
      BY <2>6, WatchesTidy
    <2>8. Releases(n1, d.node, d.deliver) /\ Kept(n1, d.node)
      BY <2>5, <2>7, DrainReleases
    <2> HIDE DEF d
    <2>9. Advances(p, n, t, r)
      BY <2>1, <2>2, <2>3, <2>5, <2>8 DEF Advances, Kept
    <2> QED
      BY <2>3, <2>7, <2>8, <2>9 DEF r
  <1> QED
    BY <1>1, <1>2

\* handle_train: whatever the train, a key is delivered once and clocks are learnt
\* from the train only.
LEMMA HandleReleases ==
  ASSUME NEW p \in Proc, NEW n \in Node, Tidy(n), Drained(n) = {}, NEW t \in Train, t.clock >= 1
  PROVE  LET r == HandleTrain(p, n, t) IN
         /\ \E D : Releases(n, r.node, D) /\ r.deliver = NonEmpty(D)
         /\ Advances(p, n, t, r)
  <1> DEFINE r == HandleTrain(p, n, t)
             f == IF IsReplay(n, t) THEN HandleReplay(n, t) ELSE HandleFirstLap(p, n, t)
  <1>1. CASE t.clock <= n.floor[t.issuer]
    <2>1. r.node = n /\ r.forward = {} /\ r.deliver = {}
      BY <1>1 DEF HandleTrain, Result
    <2> HIDE DEF r
    <2>2. Advances(p, n, t, r)
      BY <2>1 DEF Advances
    <2> QED
      BY <2>1, <2>2, ReleasesNothing DEF r
  <1>2. CASE ~(t.clock <= n.floor[t.issuer]) /\ t.issuer = p
    <2>1. r = HandleReturningTrain(p, n, t)
      BY <1>2 DEF HandleTrain
    <2> QED
      BY <1>2, <2>1, ReturningReleases
  <1>3. CASE ~(t.clock <= n.floor[t.issuer]) /\ t.issuer # p
    <2>1. r = f
      BY <1>3 DEF HandleTrain
    <2>2. (\E D : Releases(n, f.node, D) /\ f.deliver = NonEmpty(D)) /\ Advances(p, n, t, f)
      BY ForeignReleases
    <2> HIDE DEF f, r
    <2>3. (\E D : Releases(n, r.node, D) /\ r.deliver = NonEmpty(D)) /\ Advances(p, n, t, r)
      BY <2>1, <2>2
    <2> QED
      BY <2>3 DEF r
  <1> QED
    BY <1>1, <1>2, <1>3
=============================================================================
