------------------------- MODULE DifferentialProofs -------------------------
(***************************************************************************)
(* The core behind the adapter and the reference implementation give the   *)
(* same answers, for every ring size, number of trains, bound and history: *)
(* the reference is at all times the core without cache, fence and freeze. *)
(***************************************************************************)
EXTENDS Differential, TrainsCoreProofs

(* The loop of the reference's drain_parked *)

\* g holds the states of k rounds from r.
IsRun(r, g, k) ==
    /\ g = [i \in 0..k |-> g[i]]
    /\ g[0] = r
    /\ \A i \in 1..k : g[i] = RefRound(g[i - 1])

\* The rounds exist: a least number without them would have a predecessor with.
LEMMA RunExists == ASSUME NEW r, NEW K \in Nat PROVE \E g : IsRun(r, g, K)
  <1> DEFINE S == {k \in Nat : ~\E g : IsRun(r, g, k)}
  <1> SUFFICES ASSUME S # {} PROVE FALSE
    OBVIOUS
  <1>1. S \in SUBSET Nat
    OBVIOUS
  <1>2. \A k \in Nat : k \in S <=> ~\E g : IsRun(r, g, k)
    OBVIOUS
  <1> HIDE DEF S
  <1>3. PICK m \in S : \A k \in S : m <= k
    BY <1>1, LeastNat
  <1>4. m \in Nat /\ ~\E g : IsRun(r, g, m)
    BY <1>1, <1>2
  <1>5. CASE m = 0
    <2>1. IsRun(r, [i \in 0..0 |-> r], 0)
      BY DEF IsRun
    <2> QED
      BY <1>4, <1>5, <2>1
  <1>6. CASE m # 0
    <2>1. PICK k \in Nat : m = k + 1 /\ k = m - 1
      BY <1>4, <1>6
    <2>2. PICK g : IsRun(r, g, k)
      BY <1>2, <1>3, <2>1
    <2> DEFINE h == [i \in 0..m |-> IF i = m THEN RefRound(g[k]) ELSE g[i]]
    <2>3. h = [i \in 0..m |-> h[i]] /\ h[0] = r
      BY <2>1, <2>2 DEF IsRun
    <2>4. ASSUME NEW i \in 1..m PROVE h[i] = RefRound(h[i - 1])
      <3>1. CASE i = m
        <4>1. h[i] = RefRound(g[k]) /\ h[i - 1] = g[k]
          BY <2>1, <3>1
        <4> QED
          BY <4>1
      <3>2. CASE i # m
        <4>1. h[i] = g[i] /\ h[i - 1] = g[i - 1] /\ i \in 1..k
          BY <2>1, <3>2
        <4> QED
          BY <2>2, <4>1 DEF IsRun
      <3> QED
        BY <3>1, <3>2
    <2>5. IsRun(r, h, m)
      <3> HIDE DEF h
      <3> QED
        BY <2>3, <2>4 DEF IsRun
    <2> QED
      BY <1>4, <2>5
  <1> QED
    BY <1>5, <1>6

\* drain_parked is the last of the rounds.
LEMMA DrainIsRun ==
  ASSUME NEW r, NEW K \in Nat, Cardinality(r.parked) = K
  PROVE  \E g : IsRun(r, g, K) /\ RefDrainParked(r) = g[K]
  <1> DEFINE F(g) == [i \in 0..K |-> IF i = 0 THEN r ELSE RefRound(g[i - 1])]
  <1>1. PICK g : IsRun(r, g, K)
    BY RunExists
  <1>2. g = F(g)
    <2>1. \A i \in 0..K : g[i] = IF i = 0 THEN r ELSE RefRound(g[i - 1])
      <3> SUFFICES ASSUME NEW i \in 0..K PROVE g[i] = IF i = 0 THEN r ELSE RefRound(g[i - 1])
        OBVIOUS
      <3>1. CASE i = 0
        BY <1>1, <3>1 DEF IsRun
      <3>2. CASE i # 0
        <4>1. i \in 1..K
          BY <3>2
        <4> QED
          BY <1>1, <3>2, <4>1 DEF IsRun
      <3> QED
        BY <3>1, <3>2
    <2>2. g = [i \in 0..K |-> g[i]]
      BY <1>1 DEF IsRun
    <2> QED
      BY <2>1, <2>2
  <1>3. PICK f : f = CHOOSE h : h = F(h)
    OBVIOUS
  <1>4. f = F(f)
    BY <1>2, <1>3
  <1>5. RefDrainParked(r) = f[K]
    BY <1>3 DEF RefDrainParked
  <1>6. IsRun(r, f, K)
    BY <1>4 DEF IsRun
  <1> QED
    BY <1>5, <1>6

-----------------------------------------------------------------------------
(* The core seen as a reference node *)

\* A reference node, field by field.
RefOf(c, i, q, p, k, l, h, b) ==
    [seenClk |-> c, issClk |-> i, nextSeq |-> q, pending |-> p,
     doneKeys |-> k, delivered |-> l, parked |-> h, broadcastSeen |-> b]

\* The reference with the state of n and the deliveries d.
AsReference(n, d) ==
    RefOf(n.seen, n.nextIssue, n.nextSeq, n.pending, n.done, d, n.parked, n.broadcastSeen)

\* A core that never took part in a view change.
Plain(n) ==
    /\ n \in Node /\ Tidy(n)
    /\ n.crashed = {} /\ ~n.frozen /\ n.floor = [q \in Proc |-> 0]

\* The two forms of is_deliverable agree.
LEMMA SameDeliverable ==
  ASSUME NEW n \in Node, n.crashed = {}, NEW d, NEW k \in Key
  PROVE  RefDeliverable(AsReference(n, d), k) <=> IsDeliverable(n, k)
  <1>1. k[1] \in Nat /\ \A q \in Proc : n.seen[q] \in Nat
    BY DEF Node, Key
  <1>2. /\ AsReference(n, d).seenClk = n.seen /\ AsReference(n, d).doneKeys = n.done
        /\ AsReference(n, d).parked = n.parked
    BY DEF AsReference, RefOf
  <1>3. \A q \in Issuer \ n.crashed : q \in Proc
    BY IssuerIsProc
  <1>4. (\E q \in Issuer : n.seen[q] < k[1]) <=> ~SeenClocksAdvancedEnough(n, k)
    BY <1>1, IssuerIsProc DEF SeenClocksAdvancedEnough
  <1>5. (\E q \in Proc : \E c \in 1..n.seen[q] : Less(<<c, q>>, k) /\ <<c, q>> \notin n.done)
           <=> ~PriorKnownIn(n, k, n.done)
    BY DEF PriorKnownIn
  <1> QED
    BY <1>2, <1>4, <1>5 DEF RefDeliverable, IsDeliverable

\* Delivering nothing leaves the log.
LEMMA NoDelivery ==
  ASSUME NEW d \in Seq(SUBSET Payload) PROVE d \o LogOf({}) = d
  <1>1. 0 \in Proc
    BY RingAssumption DEF Proc
  <1>2. PICK t : t \in Train
    <2>1. [issuer |-> 0, clock |-> 0, payloads |-> {}, acks |-> {}] \in Train
      BY <1>1 DEF Train
    <2> QED
      BY <2>1
  <1>3. LogOf({}) = <<>>
    BY <1>2, LogOfOne
  <1> QED
    BY <1>3, ConcatEmptySeq

\* Delivering one more train, the greatest, appends its payloads to the log.
LEMMA LogOfNext ==
  ASSUME NEW D \in SUBSET Train, IsFiniteSet(D), DistinctKeys(D), NEW t \in Train,
         \A u \in D : Less(KeyOf(u), KeyOf(t)), NEW d \in Seq(SUBSET Payload)
  PROVE  /\ d \o LogOf(NonEmpty(D)) \in Seq(SUBSET Payload)
         /\ d \o LogOf(NonEmpty(D \cup {t})) = IF t.payloads = {}
                                                 THEN d \o LogOf(NonEmpty(D))
                                                 ELSE Append(d \o LogOf(NonEmpty(D)), t.payloads)
  <1>1. PICK A : A = NonEmpty(D)
    OBVIOUS
  <1>2. A \in SUBSET Train /\ A \in SUBSET D /\ DistinctKeys(A)
    BY <1>1 DEF NonEmpty, DistinctKeys
  <1>3. IsFiniteSet(A)
    BY <1>2, FS_Subset
  <1>4. LogOf(A) \in Seq(SUBSET Payload)
    BY <1>2, <1>3, LogOfSet
  <1>5. d \o LogOf(A) \in Seq(SUBSET Payload)
    BY <1>4
  <1>6. CASE t.payloads = {}
    <2>1. NonEmpty(D \cup {t}) = A
      BY <1>1, <1>6 DEF NonEmpty
    <2> QED
      BY <1>1, <1>5, <1>6, <2>1
  <1>7. CASE t.payloads # {}
    <2>1. NonEmpty(D \cup {t}) = A \cup {t}
      BY <1>1, <1>7 DEF NonEmpty
    <2>2. /\ {t} \in SUBSET Train /\ IsFiniteSet({t}) /\ DistinctKeys({t})
          /\ \A u \in A, x \in {t} : Less(KeyOf(u), KeyOf(x))
      BY <1>2, FS_Singleton DEF DistinctKeys
    <2>3. LogOf(A \cup {t}) = LogOf(A) \o LogOf({t})
      BY <1>2, <1>3, <2>2, LogOfUnion
    <2>4. LogOf({t}) = <<t.payloads>> /\ t.payloads \in SUBSET Payload
      BY LogOfOne DEF Train
    <2>5. PICK s, e : s = LogOf(A) /\ e = t.payloads
      OBVIOUS
    <2>6. s \in Seq(SUBSET Payload) /\ e \in SUBSET Payload /\ <<e>> \in Seq(SUBSET Payload)
      BY <1>4, <2>4, <2>5
    <2>7. d \o (s \o <<e>>) = (d \o s) \o <<e>>
      BY <2>6, ConcatAssociative
    <2>8. Append(d \o s, e) = (d \o s) \o <<e>>
      <3>1. PICK v : v = d \o s
        OBVIOUS
      <3>2. v \in Seq(SUBSET Payload)
        BY <2>6, <3>1
      <3>3. Append(v, e) = v \o <<e>>
        BY <2>6, <3>2, AppendIsConcat
      <3> QED
        BY <3>1, <3>3
    <2> QED
      BY <1>1, <1>5, <1>7, <2>1, <2>3, <2>4, <2>5, <2>7, <2>8
  <1> QED
    BY <1>6, <1>7

\* The reference after it has taken D from the parked trains of n.
Part(n, d, D) == AsReference(FinishParked(n, D), d \o LogOf(NonEmpty(D)))

\* What a drain has taken so far: the smallest of what it can take.
Segment(n, D) ==
    D \subseteq Drained(n) /\ \A t \in D : \A u \in n.parked \ D : Less(KeyOf(t), KeyOf(u))

\* What is known of a node after D.
LEMMA PartIs ==
  ASSUME NEW n, Plain(n), NEW D, Segment(n, D)
  PROVE  LET m == FinishParked(n, D) IN
         /\ D \in SUBSET Train /\ IsFiniteSet(D) /\ DistinctKeys(D) /\ D \subseteq n.parked
         /\ m \in Node /\ m.crashed = {} /\ m.seen = n.seen
         /\ m.parked = n.parked \ D /\ m.done = n.done \cup KeysOf(D)
         /\ m.nextIssue = n.nextIssue /\ m.nextSeq = n.nextSeq /\ m.pending = n.pending
         /\ m.broadcastSeen = n.broadcastSeen
  <1>1. D \in SUBSET n.parked /\ n.parked \in SUBSET Train /\ n \in Node /\ n.crashed = {}
    BY DEF Segment, Drained, Plain, Node
  <1>2. IsFiniteSet(D)
    BY <1>1, FS_Subset DEF Plain, Tidy
  <1>3. DistinctKeys(D)
    BY <1>1 DEF DistinctKeys, Plain, Tidy
  <1>4. D \in SUBSET Train
    BY <1>1
  <1>5. FinishParked(n, D).broadcastSeen = n.broadcastSeen
    BY <1>1 DEF FinishParked, Node
  <1> QED
    BY <1>1, <1>2, <1>3, <1>4, <1>5, FinishType

\* One round of the loop takes the next train, or there is none left to take.
LEMMA RoundStep ==
  ASSUME NEW n, Plain(n), NEW d \in Seq(SUBSET Payload), NEW D, Segment(n, D)
  PROVE  \/ D = Drained(n) /\ RefRound(Part(n, d, D)) = Part(n, d, D)
         \/ \E t \in Drained(n) \ D :
               Segment(n, D \cup {t}) /\ RefRound(Part(n, d, D)) = Part(n, d, D \cup {t})
  <1>1. PICK m : m = FinishParked(n, D)
    OBVIOUS
  <1>2. /\ D \in SUBSET Train /\ IsFiniteSet(D) /\ DistinctKeys(D) /\ D \subseteq n.parked
        /\ m \in Node /\ m.crashed = {} /\ m.seen = n.seen
        /\ m.parked = n.parked \ D /\ m.done = n.done \cup KeysOf(D)
        /\ m.nextIssue = n.nextIssue /\ m.nextSeq = n.nextSeq /\ m.pending = n.pending
        /\ m.broadcastSeen = n.broadcastSeen
    BY <1>1, PartIs
  <1>3. PICK e : e = d \o LogOf(NonEmpty(D))
    OBVIOUS
  <1>4. PICK r : r = AsReference(m, e)
    OBVIOUS
  <1>5. Part(n, d, D) = r
    BY <1>1, <1>3, <1>4 DEF Part
  <1>6. r.parked = m.parked /\ r.doneKeys = m.done /\ r.delivered = e
    BY <1>4 DEF AsReference, RefOf
  <1>7. /\ n \in Node /\ n.crashed = {} /\ ~n.frozen /\ n.parked \in SUBSET Train
        /\ \A x \in n.parked : KeyOf(x) \in Key
        /\ IsFiniteSet(n.parked) /\ DistinctKeys(n.parked) /\ Drained(n) \subseteq n.parked
    BY KeyType DEF Plain, Tidy, Node, DistinctKeys, Drained
  <1>8. CASE m.parked = {}
    <2>1. D = Drained(n)
      BY <1>2, <1>7, <1>8 DEF Segment
    <2> QED
      BY <1>5, <1>6, <1>8, <2>1 DEF RefRound
  <1>9. ASSUME m.parked # {}
        PROVE  \/ D = Drained(n) /\ RefRound(r) = r
               \/ \E t \in Drained(n) \ D : Segment(n, D \cup {t}) /\ RefRound(r) = Part(n, d, D \cup {t})
    <2>1. PICK t : t = RefLeast(r)
      OBVIOUS
    <2>2. t \in m.parked /\ \A u \in m.parked : ~Less(KeyOf(u), KeyOf(t))
      <3>1. m.parked \in SUBSET Train /\ m.parked \in SUBSET n.parked
        BY <1>2, <1>7
      <3>2. IsFiniteSet(m.parked)
        BY <1>7, <3>1, FS_Subset
      <3>3. \E x \in m.parked : \A u \in m.parked : ~Less(KeyOf(u), KeyOf(x))
        BY <1>9, <3>1, <3>2, LeastTrain
      <3> QED
        BY <1>6, <2>1, <3>3 DEF RefLeast
    <2>3. t \in n.parked \ D /\ t \in Train /\ KeyOf(t) \in Key
      BY <1>2, <1>7, <2>2
    <2>4. RefDeliverable(r, KeyOf(t)) <=> IsDeliverable(m, KeyOf(t))
      BY <1>2, <1>4, <2>3, SameDeliverable
    <2>5. ASSUME ~IsDeliverable(m, KeyOf(t)), NEW x \in Drained(n) \ D PROVE FALSE
      <3>1. x \in m.parked /\ KeyOf(x) \in Key
        BY <1>2, <1>7
      <3>2. t \in Drained(n)
        <4>1. CASE KeyOf(t) = KeyOf(x)
          BY <1>7, <2>3, <2>5, <4>1 DEF DistinctKeys
        <4>2. CASE Less(KeyOf(t), KeyOf(x))
          BY <1>7, <2>3, <2>5, <4>2, DrainedClosed
        <4> QED
          BY <2>2, <2>3, <3>1, <4>1, <4>2, LessTotal
      <3>3. SeenClocksAdvancedEnough(m, KeyOf(t))
        BY <1>2, <1>7, <3>2 DEF Drained, SeenClocksAdvancedEnough
      <3>4. ASSUME NEW q \in Proc, NEW c \in 1..m.seen[q], Less(<<c, q>>, KeyOf(t))
            PROVE  <<c, q>> \in m.done
        <4>1. <<c, q>> \in n.done \cup KeysOf(n.parked)
          BY <1>2, <3>2, <3>4 DEF Drained, PriorKnownIn
        <4>2. CASE <<c, q>> \in n.done
          BY <1>2, <4>2
        <4>3. CASE <<c, q>> \in KeysOf(n.parked)
          <5>1. PICK w \in n.parked : <<c, q>> = KeyOf(w)
            BY <4>3 DEF KeysOf
          <5>2. w \in D
            BY <1>2, <2>2, <3>4, <5>1
          <5> QED
            BY <1>2, <5>1, <5>2 DEF KeysOf
        <4> QED
          BY <4>1, <4>2, <4>3
      <3>5. IsDeliverable(m, KeyOf(t))
        BY <2>2, <3>3, <3>4 DEF IsDeliverable, PriorKnownIn
      <3> QED
        BY <2>5, <3>5
    <2>6. CASE ~IsDeliverable(m, KeyOf(t))
      <3>1. D = Drained(n)
        BY <2>5, <2>6 DEF Segment
      <3>2. RefRound(r) = r
        BY <2>1, <2>4, <2>6 DEF RefRound
      <3> QED
        BY <3>1, <3>2
    <2>7. CASE IsDeliverable(m, KeyOf(t))
      <3>1. t \in Drained(n)
        <4>1. SeenClocksAdvancedEnough(n, KeyOf(t))
          BY <1>2, <1>7, <2>7 DEF IsDeliverable, SeenClocksAdvancedEnough
        <4>2. PriorKnownIn(n, KeyOf(t), n.done \cup KeysOf(n.parked))
          BY <1>2, <2>7 DEF IsDeliverable, PriorKnownIn, KeysOf
        <4> QED
          BY <1>7, <2>3, <4>1, <4>2 DEF Drained
      <3>2. \A u \in n.parked \ (D \cup {t}) : Less(KeyOf(t), KeyOf(u))
        <4> SUFFICES ASSUME NEW u \in n.parked \ (D \cup {t}) PROVE Less(KeyOf(t), KeyOf(u))
          OBVIOUS
        <4>1. u \in m.parked /\ KeyOf(u) \in Key /\ KeyOf(u) # KeyOf(t)
          BY <1>2, <1>7, <2>3 DEF DistinctKeys
        <4> QED
          BY <2>2, <2>3, <4>1, LessTotal
      <3>3. Segment(n, D \cup {t})
        BY <3>1, <3>2 DEF Segment
      <3>4. RefRound(r) = RefDeliver([r EXCEPT !.parked = @ \ {t}], t)
        BY <1>6, <1>9, <2>1, <2>4, <2>7 DEF RefRound
      <3>5. PICK f : f = d \o LogOf(NonEmpty(D \cup {t}))
        OBVIOUS
      <3>6. f = IF t.payloads = {} THEN e ELSE Append(e, t.payloads)
        BY <1>2, <1>3, <2>3, <3>5, LogOfNext DEF Segment
      <3>7. PICK b : b = FinishParked(n, D \cup {t})
        OBVIOUS
      <3>8. /\ b.seen = n.seen /\ b.parked = n.parked \ (D \cup {t})
            /\ b.done = n.done \cup KeysOf(D \cup {t})
            /\ b.nextIssue = n.nextIssue /\ b.nextSeq = n.nextSeq /\ b.pending = n.pending
            /\ b.broadcastSeen = n.broadcastSeen
        <4>1. PICK B : B = D \cup {t}
          OBVIOUS
        <4>2. Segment(n, B) /\ b = FinishParked(n, B)
          BY <3>3, <3>7, <4>1
        <4>3. /\ b.seen = n.seen /\ b.parked = n.parked \ B /\ b.done = n.done \cup KeysOf(B)
              /\ b.nextIssue = n.nextIssue /\ b.nextSeq = n.nextSeq /\ b.pending = n.pending
              /\ b.broadcastSeen = n.broadcastSeen
          BY <4>2, PartIs
        <4> QED
          BY <4>1, <4>3
      <3>9. /\ m.done \cup {KeyOf(t)} = b.done /\ m.parked \ {t} = b.parked
        <4>1. KeysOf(D \cup {t}) = KeysOf(D) \cup {KeyOf(t)}
          BY DEF KeysOf
        <4>2. (n.done \cup KeysOf(D)) \cup {KeyOf(t)} = n.done \cup (KeysOf(D) \cup {KeyOf(t)})
          OBVIOUS
        <4>3. (n.parked \ D) \ {t} = n.parked \ (D \cup {t})
          OBVIOUS
        <4> QED
          BY <1>2, <3>8, <4>1, <4>2, <4>3
      <3>10. RefDeliver([r EXCEPT !.parked = @ \ {t}], t) = AsReference(b, f)
        <4>0. PICK x, y : x = m.parked \ {t} /\ x = b.parked /\ y = b.done
          BY <3>9
        <4>1. PICK s : s = [r EXCEPT !.parked = x]
          OBVIOUS
        <4>2. s = [seenClk |-> n.seen, issClk |-> n.nextIssue, nextSeq |-> n.nextSeq,
                   pending |-> n.pending, doneKeys |-> m.done, delivered |-> e,
                   parked |-> x, broadcastSeen |-> n.broadcastSeen]
          BY <1>2, <1>4, <4>1 DEF AsReference, RefOf
        <4>3. [r EXCEPT !.parked = @ \ {t}] = s
          BY <1>6, <4>0, <4>1
        <4>4. RefDeliver(s, t) = [s EXCEPT !.doneKeys = y, !.delivered = f]
          <5>1. s.doneKeys \cup {KeyOf(t)} = y /\ s.delivered = e
            BY <3>9, <4>0, <4>2
          <5> QED
            BY <3>6, <5>1 DEF RefDeliver
        <4>5. [s EXCEPT !.doneKeys = y, !.delivered = f] =
                 [seenClk |-> n.seen, issClk |-> n.nextIssue, nextSeq |-> n.nextSeq,
                  pending |-> n.pending, doneKeys |-> y, delivered |-> f,
                  parked |-> x, broadcastSeen |-> n.broadcastSeen]
          <5>1. PICK u : u = [s EXCEPT !.doneKeys = y]
            OBVIOUS
          <5>2. u = [seenClk |-> n.seen, issClk |-> n.nextIssue, nextSeq |-> n.nextSeq,
                     pending |-> n.pending, doneKeys |-> y, delivered |-> e,
                     parked |-> x, broadcastSeen |-> n.broadcastSeen]
            BY <4>2, <5>1
          <5>3. [u EXCEPT !.delivered = f] =
                    [seenClk |-> n.seen, issClk |-> n.nextIssue, nextSeq |-> n.nextSeq,
                     pending |-> n.pending, doneKeys |-> y, delivered |-> f,
                     parked |-> x, broadcastSeen |-> n.broadcastSeen]
            BY <5>2
          <5>4. [s EXCEPT !.doneKeys = y, !.delivered = f]
                   = [[s EXCEPT !.doneKeys = y] EXCEPT !.delivered = f]
            OBVIOUS
          <5> QED
            BY <5>1, <5>3, <5>4
        <4>6. /\ b.seen = n.seen /\ b.nextIssue = n.nextIssue /\ b.nextSeq = n.nextSeq
              /\ b.pending = n.pending /\ b.broadcastSeen = n.broadcastSeen
          BY <3>8
        <4>7. AsReference(b, f) =
                 [seenClk |-> n.seen, issClk |-> n.nextIssue, nextSeq |-> n.nextSeq,
                  pending |-> n.pending, doneKeys |-> y, delivered |-> f,
                  parked |-> x, broadcastSeen |-> n.broadcastSeen]
          BY <4>0, <4>6 DEF AsReference, RefOf
        <4> QED
          BY <4>3, <4>4, <4>5, <4>7
      <3>11. Part(n, d, D \cup {t}) = AsReference(b, f)
        BY <3>5, <3>7 DEF Part
      <3> QED
        BY <2>3, <3>1, <3>3, <3>4, <3>10, <3>11
    <2> QED
      BY <2>6, <2>7
  <1> QED
    BY <1>5, <1>8, <1>9

\* The loop takes what the closed form says, in key order.
LEMMA DrainMirrors ==
  ASSUME NEW n, Plain(n), NEW d \in Seq(SUBSET Payload)
  PROVE  RefDrainParked(AsReference(n, d)) = Part(n, d, Drained(n))
  <1> DEFINE r == AsReference(n, d)
  <1>1. IsFiniteSet(n.parked) /\ n.parked \in SUBSET Train /\ Drained(n) \in SUBSET n.parked
    BY DEF Plain, Tidy, Node, Drained
  <1>2. PICK K \in Nat : K = Cardinality(n.parked)
    BY <1>1, FS_CardinalityType
  <1>3. r.parked = n.parked
    BY DEF AsReference, RefOf
  <1>4. PICK g : IsRun(r, g, K) /\ RefDrainParked(r) = g[K]
    BY <1>2, <1>3, DrainIsRun
  <1> DEFINE Reached(i, D) ==
        Segment(n, D) /\ g[i] = Part(n, d, D) /\ (D = Drained(n) \/ Cardinality(D) = i)
  <1> DEFINE S == {i \in 0..K : ~\E D : Reached(i, D)}
  <1>5. Reached(0, {})
    <2>1. Segment(n, {}) /\ Cardinality({}) = 0
      BY FS_EmptySet DEF Segment
    <2>2. NonEmpty({}) = {} /\ KeysOf({}) = {}
      BY DEF NonEmpty, KeysOf
    <2>3. d \o LogOf({}) = d
      BY NoDelivery
    <2>4. PICK m, E : E = {} /\ m = FinishParked(n, E)
      OBVIOUS
    <2>5. /\ m.seen = n.seen /\ m.parked = n.parked \ E /\ m.done = n.done \cup KeysOf(E)
          /\ m.nextIssue = n.nextIssue /\ m.nextSeq = n.nextSeq /\ m.pending = n.pending
          /\ m.broadcastSeen = n.broadcastSeen
      <3>1. Segment(n, E)
        BY <2>1, <2>4
      <3>2. m = FinishParked(n, E)
        BY <2>4
      <3> QED
        BY <3>1, <3>2, PartIs
    <2>6. m.parked = n.parked /\ m.done = n.done
      BY <2>2, <2>4, <2>5
    <2>7. AsReference(m, d) = r
      BY <2>5, <2>6 DEF AsReference, RefOf
    <2>8. Part(n, d, {}) = r
      <3>1. Part(n, d, E) = AsReference(m, d \o LogOf(NonEmpty(E)))
        BY <2>4 DEF Part
      <3>2. d \o LogOf(NonEmpty(E)) = d
        BY <2>2, <2>3, <2>4
      <3> HIDE DEF r
      <3> QED
        BY <2>4, <2>7, <3>1, <3>2
    <2> QED
      BY <1>4, <2>1, <2>8 DEF IsRun
  <1>6. ASSUME NEW i \in 1..K, NEW D, Reached(i - 1, D) PROVE \E E : Reached(i, E)
    <2>1. g[i] = RefRound(Part(n, d, D)) /\ i \in Nat
      BY <1>4, <1>6 DEF IsRun
    <2>2. CASE D = Drained(n) /\ RefRound(Part(n, d, D)) = Part(n, d, D)
      <3>1. Reached(i, D)
        BY <1>6, <2>1, <2>2
      <3> QED
        BY <3>1
    <2>3. CASE \E t \in Drained(n) \ D :
                  Segment(n, D \cup {t}) /\ RefRound(Part(n, d, D)) = Part(n, d, D \cup {t})
      <3>1. PICK t \in Drained(n) \ D :
               Segment(n, D \cup {t}) /\ RefRound(Part(n, d, D)) = Part(n, d, D \cup {t})
        BY <2>3
      <3>2. D # Drained(n) /\ Cardinality(D) = i - 1 /\ IsFiniteSet(D)
        BY <1>6, <3>1, PartIs
      <3>3. Cardinality(D \cup {t}) = i
        <4>1. Cardinality(D \cup {t}) = Cardinality(D) + 1
          BY <3>1, <3>2, FS_AddElement
        <4> QED
          BY <2>1, <3>2, <4>1
      <3>4. Reached(i, D \cup {t})
        BY <2>1, <3>1, <3>3
      <3> QED
        BY <3>4
    <2>4. Segment(n, D)
      BY <1>6
    <2>5. \/ D = Drained(n) /\ RefRound(Part(n, d, D)) = Part(n, d, D)
          \/ \E t \in Drained(n) \ D :
                Segment(n, D \cup {t}) /\ RefRound(Part(n, d, D)) = Part(n, d, D \cup {t})
      BY <2>4, RoundStep
    <2> QED
      BY <2>2, <2>3, <2>5
  <1>7. S \in SUBSET Nat /\ \A i \in 0..K : i \in S <=> ~\E D : Reached(i, D)
    OBVIOUS
  <1>8. S \subseteq 0..K
    OBVIOUS
  <1> HIDE DEF S, Reached
  <1>9. S = {}
    <2> SUFFICES ASSUME S # {} PROVE FALSE
      OBVIOUS
    <2>1. PICK m \in S : \A i \in S : m <= i
      BY <1>7, LeastNat
    <2>2. m \in 0..K /\ ~\E D : Reached(m, D)
      BY <1>7, <1>8
    <2>3. m # 0
      BY <1>5, <2>2
    <2>4. m \in 1..K /\ m - 1 \in 0..K /\ ~(m <= m - 1)
      BY <2>2, <2>3
    <2>5. PICK D : Reached(m - 1, D)
      BY <1>7, <2>1, <2>4
    <2> QED
      BY <1>6, <2>2, <2>4, <2>5
  <1>10. PICK D : Reached(K, D)
    BY <1>7, <1>9
  <1>11. D = Drained(n)
    <2>1. D \in SUBSET n.parked /\ (D = Drained(n) \/ Cardinality(D) = Cardinality(n.parked))
      BY <1>1, <1>2, <1>10 DEF Reached, Segment
    <2>2. CASE Cardinality(D) = Cardinality(n.parked)
      <3>1. D = n.parked
        BY <1>1, <2>1, <2>2, FS_Subset
      <3> QED
        BY <1>1, <1>10, <3>1 DEF Reached, Segment
    <2> QED
      BY <2>1, <2>2
  <1> QED
    BY <1>4, <1>10, <1>11 DEF Reached

\* drain_parked of the reference is that of the core.
LEMMA DrainAgrees ==
  ASSUME NEW n, Plain(n), NEW d \in Seq(SUBSET Payload)
  PROVE  RefDrainParked(AsReference(n, d)) =
            AsReference(DrainParked(n).node, d \o LogOf(NonEmpty(DrainParked(n).deliver)))
  <1>1. DrainParked(n).node = FinishParked(n, Drained(n)) /\ DrainParked(n).deliver = Drained(n)
    BY DEF DrainParked
  <1> QED
    BY <1>1, DrainMirrors DEF Part

\* try_deliver, where the core does not deliver t at once.
LEMMA TryKeeps ==
  ASSUME NEW n, Plain(n), NEW t \in Train, NEW d \in Seq(SUBSET Payload),
         t.clock <= n.seen[t.issuer], KeyOf(t) \in KeysOf(n.parked) => Drained(n) = {},
         TryDeliver(n, t).deliver = {},
         RefTryDeliver(AsReference(n, d), t) = AsReference(TryDeliver(n, t).node, d)
  PROVE  LET x == TryDeliverThenDrain(n, t) IN
         RefDrainParked(RefTryDeliver(AsReference(n, d), t)) = AsReference(x.node, d \o LogOf(x.deliver))
  <1>1. PICK m : m = TryDeliver(n, t).node
    OBVIOUS
  <1>2. Plain(m)
    BY <1>1, TryDeliverTidy DEF Plain, Kept
  <1>3. PICK b : b = DrainParked(m)
    OBVIOUS
  <1>4. {} \cup b.deliver = b.deliver
    OBVIOUS
  <1>5. TryDeliverThenDrain(n, t) = [node |-> b.node, deliver |-> NonEmpty(b.deliver)]
    BY <1>1, <1>3, <1>4 DEF TryDeliverThenDrain
  <1>6. RefDrainParked(AsReference(m, d)) = AsReference(b.node, d \o LogOf(NonEmpty(b.deliver)))
    BY <1>2, <1>3, DrainAgrees
  <1>7. PICK x : x = TryDeliverThenDrain(n, t)
    OBVIOUS
  <1>8. x.node = b.node /\ x.deliver = NonEmpty(b.deliver)
    BY <1>5, <1>7
  <1> QED
    BY <1>1, <1>6, <1>7, <1>8

\* try_deliver, where the core delivers t and then drains.
LEMMA TryDelivers ==
  ASSUME NEW n, Plain(n), NEW t \in Train, NEW d \in Seq(SUBSET Payload),
         t.clock <= n.seen[t.issuer], KeyOf(t) \in KeysOf(n.parked) => Drained(n) = {},
         IsDeliverable(n, KeyOf(t)),
         TryDeliver(n, t) = [node |-> RecordDelivered(n, t), deliver |-> {t}]
  PROVE  LET x == TryDeliverThenDrain(n, t) IN
         RefDrainParked(RefDeliver(AsReference(n, d), t)) = AsReference(x.node, d \o LogOf(x.deliver))
  <1>1. PICK T, m : T = {t} /\ m = RecordDelivered(n, t)
    OBVIOUS
  <1>2. TryDeliver(n, t).node = m /\ TryDeliver(n, t).deliver = T
    BY <1>1
  <1>3. Plain(m)
    BY <1>2, TryDeliverTidy DEF Plain, Kept
  <1>4. KeyOf(t) \in Key /\ T \in SUBSET Train
    BY <1>1, KeyType
  <1>5. /\ m.done = n.done \cup {KeyOf(t)} /\ m.parked = n.parked
        /\ m.seen = n.seen /\ m.nextIssue = n.nextIssue /\ m.nextSeq = n.nextSeq
        /\ m.pending = n.pending
    BY <1>1, RecordType DEF Plain
  <1>6. m.broadcastSeen = n.broadcastSeen
    BY <1>1, RecordType DEF Plain
  <1>7. KeyOf(t) \notin KeysOf(n.parked)
    BY ParkedNotDeliverable DEF KeysOf, Plain
  <1>8. m.parked = n.parked /\ m.done = n.done \cup {KeyOf(t)}
    BY <1>5
  <1>9. PICK e : e = d \o LogOf(NonEmpty(T))
    OBVIOUS
  <1>10. e \in Seq(SUBSET Payload) /\ e = IF t.payloads = {} THEN d ELSE Append(d, t.payloads)
    <2>1. PICK O : O = {}
      OBVIOUS
    <2>2. O \in SUBSET Train /\ IsFiniteSet(O) /\ DistinctKeys(O) /\ NonEmpty(O) = O /\ O \cup {t} = T
      BY <1>1, <2>1, FS_EmptySet DEF DistinctKeys, NonEmpty
    <2>3. d \o LogOf(O) = d
      <3>1. LogOf(O) = <<>>
        BY <2>1, LogOfOne
      <3> QED
        BY <3>1, ConcatEmptySeq
    <2>4. \A u \in O : Less(KeyOf(u), KeyOf(t))
      BY <2>1
    <2>5. /\ d \o LogOf(NonEmpty(O)) \in Seq(SUBSET Payload)
          /\ d \o LogOf(NonEmpty(O \cup {t})) = IF t.payloads = {}
                                                 THEN d \o LogOf(NonEmpty(O))
                                                 ELSE Append(d \o LogOf(NonEmpty(O)), t.payloads)
      BY <2>2, <2>4, LogOfNext
    <2>6. e = IF t.payloads = {} THEN d ELSE Append(d, t.payloads)
      BY <1>9, <2>2, <2>3, <2>5
    <2>7. t.payloads \in SUBSET Payload
      BY DEF Train
    <2> QED
      BY <2>6, <2>7
  <1>11. RefDeliver(AsReference(n, d), t) = AsReference(m, e)
    <2>1. PICK s, y : s = AsReference(n, d) /\ y = m.done
      OBVIOUS
    <2>2. s.doneKeys \cup {KeyOf(t)} = y /\ s.delivered = d
      BY <1>8, <2>1 DEF AsReference, RefOf
    <2>3. RefDeliver(s, t) = [s EXCEPT !.doneKeys = y, !.delivered = e]
      BY <1>10, <2>2 DEF RefDeliver
    <2>4. PICK u : u = [s EXCEPT !.doneKeys = y]
      OBVIOUS
    <2>5. u = [seenClk |-> n.seen, issClk |-> n.nextIssue, nextSeq |-> n.nextSeq,
               pending |-> n.pending, doneKeys |-> y, delivered |-> d,
               parked |-> n.parked, broadcastSeen |-> n.broadcastSeen]
      BY <2>1, <2>4 DEF AsReference, RefOf
    <2>6. [u EXCEPT !.delivered = e] =
              [seenClk |-> n.seen, issClk |-> n.nextIssue, nextSeq |-> n.nextSeq,
               pending |-> n.pending, doneKeys |-> y, delivered |-> e,
               parked |-> n.parked, broadcastSeen |-> n.broadcastSeen]
      BY <2>5
    <2>7. [s EXCEPT !.doneKeys = y, !.delivered = e] = [[s EXCEPT !.doneKeys = y] EXCEPT !.delivered = e]
      OBVIOUS
    <2>8. m.parked = n.parked
      BY <1>8
    <2>9. AsReference(m, e) =
              [seenClk |-> n.seen, issClk |-> n.nextIssue, nextSeq |-> n.nextSeq,
               pending |-> n.pending, doneKeys |-> y, delivered |-> e,
               parked |-> n.parked, broadcastSeen |-> n.broadcastSeen]
      BY <1>5, <1>6, <2>1, <2>8 DEF AsReference, RefOf
    <2> QED
      BY <2>1, <2>3, <2>4, <2>6, <2>7, <2>9
  <1>12. PICK b : b = DrainParked(m)
    OBVIOUS
  <1>13. RefDrainParked(AsReference(m, e)) = AsReference(b.node, e \o LogOf(NonEmpty(b.deliver)))
    BY <1>3, <1>10, <1>12, DrainAgrees
  <1>14. e \o LogOf(NonEmpty(b.deliver)) = d \o LogOf(NonEmpty(T \cup b.deliver))
    <2>1. /\ b.deliver \subseteq m.parked /\ b.deliver \in SUBSET Train
          /\ IsFiniteSet(b.deliver) /\ DistinctKeys(b.deliver)
      BY <1>3, <1>12, DrainReleases DEF Releases, Plain, DistinctKeys
    <2>2. PICK A, B : A = NonEmpty(T) /\ B = NonEmpty(b.deliver)
      OBVIOUS
    <2>3. /\ A \in SUBSET T /\ B \in SUBSET b.deliver /\ NonEmpty(T \cup b.deliver) = A \cup B
      BY <2>2 DEF NonEmpty
    <2>4. IsFiniteSet(T)
      BY <1>1, FS_Singleton
    <2>5. /\ IsFiniteSet(A) /\ IsFiniteSet(B) /\ A \in SUBSET Train /\ B \in SUBSET Train
          /\ DistinctKeys(A) /\ DistinctKeys(B)
      <3>1. IsFiniteSet(A)
        BY <2>3, <2>4, FS_Subset
      <3>2. IsFiniteSet(B)
        <4>1. PICK F : F = b.deliver
          OBVIOUS
        <4> QED
          BY <2>1, <2>3, <4>1, FS_Subset
      <3> QED
        BY <1>1, <1>4, <2>1, <2>3, <3>1, <3>2 DEF DistinctKeys
    <2>6. ASSUME NEW x \in A, NEW u \in B PROVE Less(KeyOf(x), KeyOf(u))
      <3>1. x = t /\ u \in n.parked /\ u \in Train
        BY <1>1, <1>8, <2>1, <2>3
      <3>2. KeyOf(u) \in Key /\ KeyOf(u) # KeyOf(t) /\ ~Less(KeyOf(u), KeyOf(t))
        BY <1>7, <3>1, KeyType DEF IsDeliverable, KeysOf
      <3> QED
        BY <1>4, <3>1, <3>2, LessTotal
    <2>7. LogOf(A \cup B) = LogOf(A) \o LogOf(B)
      BY <2>5, <2>6, LogOfUnion
    <2>8. LogOf(A) \in Seq(SUBSET Payload) /\ LogOf(B) \in Seq(SUBSET Payload)
      BY <2>5, LogOfSet
    <2>9. d \o (LogOf(A) \o LogOf(B)) = (d \o LogOf(A)) \o LogOf(B)
      <3>1. PICK s, v : s = LogOf(A) /\ v = LogOf(B)
        OBVIOUS
      <3>2. d \o (s \o v) = (d \o s) \o v
        BY <2>8, <3>1, ConcatAssociative
      <3> QED
        BY <3>1, <3>2
    <2> QED
      BY <1>9, <2>2, <2>3, <2>7, <2>9
  <1>15. PICK x : x = TryDeliverThenDrain(n, t)
    OBVIOUS
  <1>16. x.node = b.node /\ x.deliver = NonEmpty(T \cup b.deliver)
    BY <1>2, <1>12, <1>15 DEF TryDeliverThenDrain
  <1> QED
    BY <1>11, <1>13, <1>14, <1>15, <1>16

\* try_deliver followed by drain_parked.
LEMMA TryAgrees ==
  ASSUME NEW n, Plain(n), NEW t \in Train, NEW d \in Seq(SUBSET Payload),
         t.clock <= n.seen[t.issuer], KeyOf(t) \in KeysOf(n.parked) => Drained(n) = {}
  PROVE  LET x == TryDeliverThenDrain(n, t) IN
         RefDrainParked(RefTryDeliver(AsReference(n, d), t)) = AsReference(x.node, d \o LogOf(x.deliver))
  <1>1. PICK s, x : s = AsReference(n, d) /\ x = TryDeliverThenDrain(n, t)
    OBVIOUS
  <1>2. s.doneKeys = n.done /\ s.parked = n.parked /\ ~n.frozen /\ n \in Node /\ n.crashed = {}
    BY <1>1 DEF AsReference, RefOf, Plain
  <1>3. RefReady(t) <=> ReadyToDeliver(n, t.acks)
    BY HarnessMode DEF RefReady, ReadyToDeliver
  <1>4. RefDeliverable(s, KeyOf(t)) <=> IsDeliverable(n, KeyOf(t))
    BY <1>1, <1>2, KeyType, SameDeliverable
  <1>5. (\E u \in s.parked : KeyOf(u) = KeyOf(t)) <=> KeyOf(t) \in KeysOf(n.parked)
    BY <1>2 DEF KeysOf
  <1>6. ASSUME TryDeliver(n, t) = [node |-> n, deliver |-> {}], RefTryDeliver(s, t) = s
        PROVE  RefDrainParked(RefTryDeliver(s, t)) = AsReference(x.node, d \o LogOf(x.deliver))
    <2>1. TryDeliver(n, t).node = n /\ TryDeliver(n, t).deliver = {}
      BY <1>6
    <2>2. RefTryDeliver(AsReference(n, d), t) = AsReference(TryDeliver(n, t).node, d)
      BY <1>1, <1>6, <2>1
    <2> QED
      BY <1>1, <2>1, <2>2, TryKeeps
  <1>7. CASE ~RefReady(t) \/ KeyOf(t) \in n.done
    <2>1. RefTryDeliver(s, t) = s
      BY <1>2, <1>7 DEF RefTryDeliver
    <2>2. TryDeliver(n, t) = [node |-> n, deliver |-> {}]
      BY <1>3, <1>7 DEF TryDeliver
    <2>3. RefDrainParked(RefTryDeliver(s, t)) = AsReference(x.node, d \o LogOf(x.deliver))
      BY <1>6, <2>1, <2>2
    <2> QED
      BY <1>1, <2>3
  <1>8. CASE RefReady(t) /\ KeyOf(t) \notin n.done /\ IsDeliverable(n, KeyOf(t))
    <2>1. RefTryDeliver(s, t) = RefDeliver(s, t)
      BY <1>2, <1>4, <1>8 DEF RefTryDeliver
    <2>2. TryDeliver(n, t) = [node |-> RecordDelivered(n, t), deliver |-> {t}]
      BY <1>2, <1>3, <1>8 DEF TryDeliver
    <2>3. RefDrainParked(RefTryDeliver(s, t)) = AsReference(x.node, d \o LogOf(x.deliver))
      BY <1>1, <1>8, <2>1, <2>2, TryDelivers
    <2> QED
      BY <1>1, <2>3
  <1>9. CASE /\ RefReady(t) /\ KeyOf(t) \notin n.done /\ ~IsDeliverable(n, KeyOf(t))
             /\ KeyOf(t) \in KeysOf(n.parked)
    <2>1. RefTryDeliver(s, t) = s
      BY <1>2, <1>4, <1>5, <1>9 DEF RefTryDeliver
    <2>2. TryDeliver(n, t) = [node |-> n, deliver |-> {}]
      BY <1>2, <1>3, <1>9 DEF TryDeliver
    <2>3. RefDrainParked(RefTryDeliver(s, t)) = AsReference(x.node, d \o LogOf(x.deliver))
      BY <1>6, <2>1, <2>2
    <2> QED
      BY <1>1, <2>3
  <1>10. CASE /\ RefReady(t) /\ KeyOf(t) \notin n.done /\ ~IsDeliverable(n, KeyOf(t))
              /\ KeyOf(t) \notin KeysOf(n.parked)
    <2>1. PICK m : m = [n EXCEPT !.parked = @ \cup {t}]
      OBVIOUS
    <2>2. RefTryDeliver(s, t) = [s EXCEPT !.parked = @ \cup {t}]
      BY <1>2, <1>4, <1>5, <1>10 DEF RefTryDeliver
    <2>3. TryDeliver(n, t).node = m /\ TryDeliver(n, t).deliver = {}
      BY <1>2, <1>3, <1>10, <2>1 DEF TryDeliver
    <2>4. /\ m.seen = n.seen /\ m.nextIssue = n.nextIssue /\ m.nextSeq = n.nextSeq
          /\ m.pending = n.pending /\ m.done = n.done /\ m.parked = n.parked \cup {t}
          /\ m.broadcastSeen = n.broadcastSeen
      BY <1>2, <2>1 DEF Node
    <2>5. [s EXCEPT !.parked = @ \cup {t}] = AsReference(m, d)
      <3>1. PICK P : P = n.parked \cup {t}
        OBVIOUS
      <3>2. [s EXCEPT !.parked = @ \cup {t}] = [s EXCEPT !.parked = P]
        BY <1>2, <3>1
      <3>3. m.parked = P
        BY <2>4, <3>1
      <3>4. [s EXCEPT !.parked = P] = RefOf(n.seen, n.nextIssue, n.nextSeq, n.pending, n.done, d,
                                            P, n.broadcastSeen)
        BY <1>1 DEF AsReference, RefOf
      <3> QED
        BY <2>4, <3>2, <3>3, <3>4 DEF AsReference
    <2>6. RefTryDeliver(AsReference(n, d), t) = AsReference(TryDeliver(n, t).node, d)
      BY <1>1, <2>2, <2>3, <2>5
    <2>7. RefDrainParked(RefTryDeliver(s, t)) = AsReference(x.node, d \o LogOf(x.deliver))
      BY <1>1, <2>3, <2>6, TryKeeps
    <2> QED
      BY <1>1, <2>7
  <1> QED
    BY <1>7, <1>8, <1>9, <1>10

-----------------------------------------------------------------------------
(* The handlers *)

\* check_and_update: the reference stores the larger clock in place.
LEMMA UpdateAgrees ==
  ASSUME NEW n, Plain(n), NEW d, NEW q \in Proc, NEW c \in Nat, NEW s, s = AsReference(n, d)
  PROVE  /\ Plain(CheckAndUpdate(n, q, c))
         /\ [s EXCEPT !.seenClk[q] = IF c > @ THEN c ELSE @] = AsReference(CheckAndUpdate(n, q, c), d)
  <1>1. PICK m, v : /\ m = CheckAndUpdate(n, q, c)
                    /\ v = [n.seen EXCEPT ![q] = IF c > @ THEN c ELSE @]
    OBVIOUS
  <1>2. n \in Node /\ Tidy(n)
    BY DEF Plain
  <1>3. Plain(m)
    <2>1. Watches(n, m)
      BY <1>1, <1>2, UpdateWatches
    <2>2. Tidy(m)
      BY <1>2, <2>1, WatchesTidy
    <2> QED
      BY <2>1, <2>2 DEF Watches, Plain
  <1>4. /\ m.seen = v /\ m.done = n.done /\ m.parked = n.parked /\ m.nextIssue = n.nextIssue
        /\ m.nextSeq = n.nextSeq /\ m.pending = n.pending
    BY <1>1, <1>2, CheckAndUpdateEffect
  <1>5. m.broadcastSeen = n.broadcastSeen
    BY <1>1, <1>2 DEF CheckAndUpdate, Node
  <1>6. s.seenClk = n.seen
    BY DEF AsReference, RefOf
  <1>7. [s EXCEPT !.seenClk[q] = IF c > @ THEN c ELSE @] = [s EXCEPT !.seenClk = v]
    BY <1>1, <1>6
  <1>8. [s EXCEPT !.seenClk = v] = RefOf(v, n.nextIssue, n.nextSeq, n.pending, n.done, d, n.parked,
                                         n.broadcastSeen)
    BY DEF AsReference, RefOf
  <1> QED
    BY <1>1, <1>3, <1>4, <1>5, <1>7, <1>8 DEF AsReference

\* issue_new_train
LEMMA IssueAgrees ==
  ASSUME NEW n \in Node, NEW p \in Proc, NEW d
  PROVE  RefIssue(p, AsReference(n, d)) = RefStep(AsReference(AfterIssue(n), d), {NewTrain(p, n)}, {})
  <1>1. PICK m, s, i, b, e : /\ m = AfterIssue(n) /\ s = AsReference(n, d) /\ i = n.nextIssue + 1
                             /\ b = n.broadcastSeen \cup n.pending /\ e = {}
    OBVIOUS
  <1>2. /\ m.seen = n.seen /\ m.done = n.done /\ m.parked = n.parked /\ m.nextIssue = i
        /\ m.nextSeq = n.nextSeq /\ m.pending = e
    BY <1>1, IssueEffect
  <1>3. m.broadcastSeen = b
    BY <1>1 DEF AfterIssue, Node
  <1>4. s.issClk = n.nextIssue /\ s.pending = n.pending /\ s.broadcastSeen = n.broadcastSeen
    BY <1>1 DEF AsReference, RefOf
  <1>5. RefIssue(p, s) = RefStep([[[s EXCEPT !.issClk = i] EXCEPT !.broadcastSeen = b] EXCEPT !.pending = e],
                                 {NewTrain(p, n)}, {})
    BY <1>1, <1>4 DEF RefIssue, NewTrain
  <1>6. PICK u : u = [s EXCEPT !.issClk = i]
    OBVIOUS
  <1>7. u = RefOf(n.seen, i, n.nextSeq, n.pending, n.done, d, n.parked, n.broadcastSeen)
    BY <1>1, <1>6 DEF AsReference, RefOf
  <1>8. PICK v : v = [u EXCEPT !.broadcastSeen = b]
    OBVIOUS
  <1>9. v = RefOf(n.seen, i, n.nextSeq, n.pending, n.done, d, n.parked, b)
    BY <1>7, <1>8 DEF RefOf
  <1>10. [v EXCEPT !.pending = e] = RefOf(n.seen, i, n.nextSeq, e, n.done, d, n.parked, b)
    BY <1>9 DEF RefOf
  <1>11. AsReference(m, d) = RefOf(n.seen, i, n.nextSeq, e, n.done, d, n.parked, b)
    BY <1>2, <1>3 DEF AsReference
  <1> QED
    BY <1>1, <1>5, <1>6, <1>8, <1>10, <1>11

\* app_broadcast
LEMMA BroadcastAgrees ==
  ASSUME NEW n \in Node, NEW p \in Proc, NEW d
  PROVE  AppBroadcast(p, AsReference(n, d)) = AsReference(HandleBroadcast(p, n), d)
  <1>1. PICK s, m : s = AsReference(n, d) /\ m = <<p, n.nextSeq>>
    OBVIOUS
  <1>2. s.nextSeq = n.nextSeq /\ s.pending = n.pending /\ s.broadcastSeen = n.broadcastSeen
    BY <1>1 DEF AsReference, RefOf
  <1>3. CASE m \in n.broadcastSeen
    BY <1>1, <1>2, <1>3 DEF AppBroadcast, HandleBroadcast
  <1>4. CASE m \notin n.broadcastSeen
    <2>1. PICK b, e, i : b = n.broadcastSeen \cup {m} /\ e = n.pending \cup {m} /\ i = n.nextSeq + 1
      OBVIOUS
    <2>2. AppBroadcast(p, s) = [[[s EXCEPT !.broadcastSeen = b] EXCEPT !.pending = e] EXCEPT !.nextSeq = i]
      BY <1>1, <1>2, <1>4, <2>1 DEF AppBroadcast
    <2>3. PICK u : u = [s EXCEPT !.broadcastSeen = b]
      OBVIOUS
    <2>4. u = RefOf(n.seen, n.nextIssue, n.nextSeq, n.pending, n.done, d, n.parked, b)
      BY <1>1, <2>3 DEF AsReference, RefOf
    <2>5. PICK v : v = [u EXCEPT !.pending = e]
      OBVIOUS
    <2>6. v = RefOf(n.seen, n.nextIssue, n.nextSeq, e, n.done, d, n.parked, b)
      BY <2>4, <2>5 DEF RefOf
    <2>7. [v EXCEPT !.nextSeq = i] = RefOf(n.seen, n.nextIssue, i, e, n.done, d, n.parked, b)
      BY <2>6 DEF RefOf
    <2>8. PICK h : h = HandleBroadcast(p, n)
      OBVIOUS
    <2>9. /\ h.seen = n.seen /\ h.done = n.done /\ h.parked = n.parked /\ h.nextIssue = n.nextIssue
          /\ h.nextSeq = i /\ h.pending = e /\ h.broadcastSeen = b
      BY <1>1, <1>4, <2>1, <2>8 DEF HandleBroadcast, Node
    <2>10. AsReference(h, d) = RefOf(n.seen, n.nextIssue, i, e, n.done, d, n.parked, b)
      BY <2>9 DEF AsReference
    <2> QED
      BY <1>1, <2>2, <2>3, <2>5, <2>7, <2>8, <2>10
  <1> QED
    BY <1>3, <1>4

\* The step of the reference that answers the core's result r.
Answer(r, d) == RefStep(AsReference(r.node, d \o LogOf(r.deliver)), r.forward, r.suspect)

\* handle_returning
LEMMA ReturningAgrees ==
  ASSUME NEW n, Plain(n), Drained(n) = {}, NEW t \in Train, t.issuer \in Proc,
         NEW d \in Seq(SUBSET Payload)
  PROVE  HandleReturning(t.issuer, AsReference(n, d), t)
            = Answer(HandleReturningTrain(t.issuer, n, t), d)
  <1>1. PICK p, s, m : p = t.issuer /\ s = AsReference(n, d) /\ m = CheckAndUpdate(n, p, t.clock)
    OBVIOUS
  <1>2. n \in Node /\ Tidy(n) /\ t.clock \in Nat /\ p \in Proc /\ KeyOf(t) = <<t.clock, p>>
    BY <1>1 DEF Plain, Train, KeyOf
  <1>3. Plain(m) /\ [s EXCEPT !.seenClk[p] = IF t.clock > @ THEN t.clock ELSE @] = AsReference(m, d)
    <2>1. PICK c : c = t.clock
      OBVIOUS
    <2>2. m = CheckAndUpdate(n, p, c) /\ c \in Nat
      BY <1>1, <1>2, <2>1
    <2>3. /\ Plain(CheckAndUpdate(n, p, c))
          /\ [s EXCEPT !.seenClk[p] = IF c > @ THEN c ELSE @] = AsReference(CheckAndUpdate(n, p, c), d)
      <3>1. p \in Proc /\ c \in Nat /\ s = AsReference(n, d)
        BY <1>1, <1>2, <2>2
      <3> QED
        BY <3>1, UpdateAgrees, Zenon
    <2> QED
      BY <2>1, <2>2, <2>3
  <1>4. s.doneKeys = n.done
    BY <1>1 DEF AsReference, RefOf
  <1>5. CASE KeyOf(t) \in n.done
    <2>1. HandleReturning(p, s, t) = RefIssue(p, AsReference(m, d))
      BY <1>3, <1>4, <1>5 DEF HandleReturning
    <2>2. RefIssue(p, AsReference(m, d)) = RefStep(AsReference(AfterIssue(m), d), {NewTrain(p, m)}, {})
      BY <1>2, <1>3, IssueAgrees DEF Plain
    <2>3. PICK r : r = HandleReturningTrain(p, n, t)
      OBVIOUS
    <2>4. r.node = AfterIssue(m) /\ r.forward = {NewTrain(p, m)} /\ r.deliver = {} /\ r.suspect = {}
      BY <1>1, <1>5, <2>3 DEF HandleReturningTrain, Result
    <2>5. Answer(r, d) = RefStep(AsReference(AfterIssue(m), d), {NewTrain(p, m)}, {})
      BY <2>4, NoDelivery DEF Answer
    <2> QED
      BY <1>1, <2>1, <2>2, <2>3, <2>5
  <1>6. CASE KeyOf(t) \notin n.done
    <2>1. HandleReturning(p, s, t) = RefStep(RefDrainParked(RefTryDeliver(AsReference(m, d), t)), {t}, {})
      BY <1>3, <1>4, <1>6 DEF HandleReturning
    <2>2. PICK x : x = TryDeliverThenDrain(m, t)
      OBVIOUS
    <2>3. t.clock <= m.seen[t.issuer] /\ (KeyOf(t) \in KeysOf(m.parked) => Drained(m) = {})
      <3>1. /\ Watches(n, m) /\ t.clock <= m.seen[p] /\ (t.clock <= n.seen[p] => m.seen = n.seen)
        BY <1>1, <1>2, UpdateWatches
      <3>2. m.seen = n.seen => Drained(m) = {}
        BY <1>2, <3>1, WatchesTidy
      <3>3. KeyOf(t) \in KeysOf(m.parked) => t.clock <= n.seen[p]
        BY <1>2, <3>1 DEF Watches, Tidy
      <3> QED
        BY <1>1, <3>1, <3>2, <3>3
    <2>4. RefDrainParked(RefTryDeliver(AsReference(m, d), t)) = AsReference(x.node, d \o LogOf(x.deliver))
      BY <1>3, <2>2, <2>3, TryAgrees
    <2>5. PICK r : r = HandleReturningTrain(p, n, t)
      OBVIOUS
    <2>6. r.node = x.node /\ r.forward = {t} /\ r.deliver = x.deliver /\ r.suspect = {}
      BY <1>1, <1>6, <2>2, <2>5 DEF HandleReturningTrain, Result
    <2>7. Answer(r, d) = RefStep(AsReference(x.node, d \o LogOf(x.deliver)), {t}, {})
      BY <2>6 DEF Answer
    <2> QED
      BY <1>1, <2>1, <2>4, <2>5, <2>7
  <1> QED
    BY <1>5, <1>6

\* handle_foreign, a key seen before
LEMMA ReplayAgrees ==
  ASSUME NEW n, Plain(n), Drained(n) = {}, NEW t \in Train, NEW p \in Proc, IsReplay(n, t),
         NEW d \in Seq(SUBSET Payload)
  PROVE  HandleForeign(p, AsReference(n, d), t) = Answer(HandleReplay(n, t), d)
  <1>0. PICK s : s = AsReference(n, d)
    OBVIOUS
  <1>1. PICK b, m : /\ b = n.broadcastSeen \cup t.payloads
                    /\ m = [n EXCEPT !.broadcastSeen = @ \cup t.payloads]
    OBVIOUS
  <1>2. n \in Node /\ Tidy(n) /\ t.payloads \in SUBSET Payload /\ t.clock \in Nat /\ t.issuer \in Proc
    BY DEF Plain, Train
  <1>3. /\ m \in Node /\ m.seen = n.seen /\ m.done = n.done /\ m.parked = n.parked
        /\ m.nextIssue = n.nextIssue /\ m.nextSeq = n.nextSeq /\ m.pending = n.pending
        /\ m.crashed = n.crashed /\ m.floor = n.floor /\ m.frozen = n.frozen /\ m.broadcastSeen = b
    BY <1>1, <1>2 DEF Node
  <1>4. Plain(m) /\ Drained(m) = {}
    <2>1. Watches(n, m)
      BY <1>2, <1>3 DEF Watches, Node
    <2>2. Tidy(m) /\ Drained(m) = {}
      BY <1>2, <1>3, <2>1, WatchesTidy
    <2> QED
      BY <1>3, <2>2 DEF Plain
  <1>5. s.seenClk = n.seen /\ s.broadcastSeen = n.broadcastSeen
    BY <1>0 DEF AsReference, RefOf
  <1>6. [s EXCEPT !.broadcastSeen = @ \cup t.payloads] = AsReference(m, d)
    <2>1. [s EXCEPT !.broadcastSeen = @ \cup t.payloads] = [s EXCEPT !.broadcastSeen = b]
      BY <1>1, <1>5
    <2>2. [s EXCEPT !.broadcastSeen = b] = RefOf(n.seen, n.nextIssue, n.nextSeq, n.pending, n.done, d,
                                                 n.parked, b)
      BY <1>0 DEF AsReference, RefOf
    <2> QED
      BY <1>3, <2>1, <2>2 DEF AsReference
  <1>7. s.seenClk[t.issuer] >= t.clock /\ s.seenClk[t.issuer] > 0
    BY <1>5 DEF IsReplay
  <1>8. HandleForeign(p, s, t) = RefStep(RefDrainParked(RefTryDeliver(AsReference(m, d), t)), {t}, {})
    BY <1>6, <1>7 DEF HandleForeign
  <1>9. PICK x : x = TryDeliverThenDrain(m, t)
    OBVIOUS
  <1>10. t.clock <= m.seen[t.issuer]
    BY <1>2, <1>3 DEF IsReplay, Node
  <1>11. RefDrainParked(RefTryDeliver(AsReference(m, d), t)) = AsReference(x.node, d \o LogOf(x.deliver))
    BY <1>4, <1>9, <1>10, TryAgrees
  <1>12. PICK r : r = HandleReplay(n, t)
    OBVIOUS
  <1>13. r.node = x.node /\ r.forward = {t} /\ r.deliver = x.deliver /\ r.suspect = {}
    BY <1>1, <1>9, <1>12 DEF HandleReplay, Result
  <1>14. Answer(r, d) = RefStep(AsReference(x.node, d \o LogOf(x.deliver)), {t}, {})
    BY <1>13 DEF Answer
  <1> QED
    BY <1>0, <1>8, <1>11, <1>12, <1>14

\* handle_foreign, first sight of a key
LEMMA FirstLapAgrees ==
  ASSUME NEW n, Plain(n), NEW t \in Train, t.clock >= 1, NEW p \in Proc, ~IsReplay(n, t),
         NEW d \in Seq(SUBSET Payload)
  PROVE  HandleForeign(p, AsReference(n, d), t) = Answer(HandleFirstLap(p, n, t), d)
  <1>1. PICK s, q, c : s = AsReference(n, d) /\ q = t.issuer /\ c = t.clock
    OBVIOUS
  <1>2. /\ n \in Node /\ Tidy(n) /\ t.payloads \in SUBSET Payload /\ c \in Nat /\ q \in Proc
        /\ n.seen \in [Proc -> Nat] /\ n.pending \in SUBSET Payload /\ n.broadcastSeen \in SUBSET Payload
    BY <1>1 DEF Plain, Train, Node
  <1>3. n.seen[q] < c
    BY <1>1, <1>2 DEF IsReplay
  <1>4. /\ s.seenClk = n.seen /\ s.broadcastSeen = n.broadcastSeen /\ s.pending = n.pending
    BY <1>1 DEF AsReference, RefOf
  <1>5. PICK m0, t1, m : /\ m0 = CheckAndUpdate(n, q, c)
                         /\ t1 = [t EXCEPT !.payloads = @ \cup n.pending, !.acks = @ \cup {p}]
                         /\ m = [m0 EXCEPT !.broadcastSeen = @ \cup t1.payloads, !.pending = {}]
    OBVIOUS
  <1>6. PICK v, b, b1, e : /\ v = [n.seen EXCEPT ![q] = c] /\ b = n.broadcastSeen \cup t.payloads
                           /\ b1 = b \cup n.pending /\ e = {}
    OBVIOUS
  <1>7. /\ m0 \in Node /\ m0.seen = v /\ m0.done = n.done /\ m0.parked = n.parked
        /\ m0.nextIssue = n.nextIssue /\ m0.nextSeq = n.nextSeq /\ m0.pending = n.pending
        /\ m0.broadcastSeen = n.broadcastSeen
    <2>1. /\ m0 \in Node /\ m0.done = n.done /\ m0.parked = n.parked
          /\ m0.nextIssue = n.nextIssue /\ m0.nextSeq = n.nextSeq /\ m0.pending = n.pending
          /\ m0.seen = [n.seen EXCEPT ![q] = IF c > @ THEN c ELSE @]
      BY <1>2, <1>5, CheckAndUpdateEffect
    <2>2. m0.broadcastSeen = n.broadcastSeen
      BY <1>2, <1>5 DEF CheckAndUpdate, Node
    <2>3. [n.seen EXCEPT ![q] = IF c > @ THEN c ELSE @] = v
      BY <1>2, <1>3, <1>6
    <2> QED
      BY <2>1, <2>2, <2>3
  <1>8. t1.payloads = t.payloads \cup n.pending
    BY <1>5 DEF Train
  <1>9. /\ m \in Node /\ m.seen = v /\ m.done = n.done /\ m.parked = n.parked
        /\ m.nextIssue = n.nextIssue /\ m.nextSeq = n.nextSeq /\ m.pending = e
        /\ m.broadcastSeen = b1 /\ m.crashed = m0.crashed /\ m.floor = m0.floor /\ m.frozen = m0.frozen
    <2>1. m0.broadcastSeen \cup t1.payloads = b1 /\ b1 \in SUBSET Payload
      BY <1>2, <1>6, <1>7, <1>8
    <2>2. m = [m0 EXCEPT !.broadcastSeen = b1, !.pending = e]
      BY <1>5, <1>6, <2>1
    <2>3. /\ m \in Node /\ m.seen = m0.seen /\ m.done = m0.done /\ m.parked = m0.parked
          /\ m.nextIssue = m0.nextIssue /\ m.nextSeq = m0.nextSeq /\ m.pending = e
          /\ m.broadcastSeen = b1 /\ m.crashed = m0.crashed /\ m.floor = m0.floor /\ m.frozen = m0.frozen
      BY <1>6, <1>7, <2>1, <2>2 DEF Node
    <2> QED
      BY <1>7, <2>3
  <1>10. Plain(m)
    <2>1. Plain(m0)
      BY <1>2, <1>5, UpdateAgrees
    <2>2. Tidy(m)
      BY <1>7, <1>9, <2>1 DEF Plain, Tidy
    <2> QED
      BY <1>9, <2>1, <2>2 DEF Plain
  <1>11. ~(s.seenClk[t.issuer] >= t.clock /\ s.seenClk[t.issuer] > 0)
    BY <1>4 DEF IsReplay
  <1>12. PICK known : known = [s EXCEPT !.broadcastSeen = @ \cup t.payloads]
    OBVIOUS
  <1>13. known = RefOf(n.seen, n.nextIssue, n.nextSeq, n.pending, n.done, d, n.parked, b)
    <2>1. known = [s EXCEPT !.broadcastSeen = b]
      BY <1>4, <1>6, <1>12
    <2> QED
      BY <1>1, <2>1 DEF AsReference, RefOf
  <1>14. [known EXCEPT !.seenClk[t.issuer] = t.clock, !.broadcastSeen = @ \cup s.pending, !.pending = {}]
            = AsReference(m, d)
    <2>1. known.seenClk = n.seen /\ known.broadcastSeen = b
      BY <1>13 DEF RefOf
    <2>2. [known EXCEPT !.seenClk[t.issuer] = t.clock, !.broadcastSeen = @ \cup s.pending, !.pending = {}]
            = [[[known EXCEPT !.seenClk = v] EXCEPT !.broadcastSeen = b1] EXCEPT !.pending = e]
      BY <1>1, <1>4, <1>6, <2>1
    <2>3. PICK u : u = [known EXCEPT !.seenClk = v]
      OBVIOUS
    <2>4. u = RefOf(v, n.nextIssue, n.nextSeq, n.pending, n.done, d, n.parked, b)
      BY <1>13, <2>3 DEF RefOf
    <2>5. PICK w : w = [u EXCEPT !.broadcastSeen = b1]
      OBVIOUS
    <2>6. w = RefOf(v, n.nextIssue, n.nextSeq, n.pending, n.done, d, n.parked, b1)
      BY <2>4, <2>5 DEF RefOf
    <2>7. [w EXCEPT !.pending = e] = RefOf(v, n.nextIssue, n.nextSeq, e, n.done, d, n.parked, b1)
      BY <2>6 DEF RefOf
    <2>8. AsReference(m, d) = RefOf(v, n.nextIssue, n.nextSeq, e, n.done, d, n.parked, b1)
      BY <1>9 DEF AsReference
    <2> QED
      BY <2>2, <2>3, <2>5, <2>7, <2>8
  <1>15. PICK x : x = DrainParked(m)
    OBVIOUS
  <1>16. RefDrainParked(AsReference(m, d)) = AsReference(x.node, d \o LogOf(NonEmpty(x.deliver)))
    BY <1>10, <1>15, DrainAgrees
  <1>17. PICK g : g = IF IsGap(n, t.issuer, t.clock) THEN {t.issuer} ELSE {}
    OBVIOUS
  <1>18. g = IF RefGap(s, t) THEN {t.issuer} ELSE {}
    BY <1>4, <1>17 DEF IsGap, RefGap
  <1>19. t1 = [t EXCEPT !.payloads = @ \cup s.pending, !.acks = @ \cup {p}]
    BY <1>4, <1>5
  <1>20. HandleForeign(p, s, t) = RefStep(RefDrainParked(AsReference(m, d)), {t1}, g)
    BY <1>11, <1>12, <1>14, <1>18, <1>19 DEF HandleForeign
  <1>21. PICK r : r = HandleFirstLap(p, n, t)
    OBVIOUS
  <1>22. r.node = x.node /\ r.forward = {t1} /\ r.deliver = NonEmpty(x.deliver) /\ r.suspect = g
    BY <1>1, <1>5, <1>15, <1>17, <1>21 DEF HandleFirstLap, Result
  <1>23. Answer(r, d) = RefStep(AsReference(x.node, d \o LogOf(NonEmpty(x.deliver))), {t1}, g)
    BY <1>22 DEF Answer
  <1> QED
    BY <1>1, <1>16, <1>20, <1>21, <1>23

-----------------------------------------------------------------------------
(* The envelopes *)

\* A step forwards at most one train and suspects at most one process.
AtMostOne(S) == S = {} \/ \E x : S = {x}

\* Such a set as a sequence.
LEMMA SmallSeq ==
  ASSUME NEW S, AtMostOne(S)
  PROVE  \E k \in Nat : DOMAIN SetToSeq(S) = 1..k /\ {SetToSeq(S)[i] : i \in 1..k} = S
  <1>1. PICK f : f = SetToSeq(S)
    OBVIOUS
  <1>2. CASE S = {}
    <2>1. Cardinality(S) = 0 /\ 1..0 = {}
      BY <1>2, FS_EmptySet
    <2>2. PICK g : g = [i \in 1..Cardinality(S) |-> i]
      OBVIOUS
    <2>3. g \in [1..Cardinality(S) -> S] /\ IsInjective(g)
      BY <2>1, <2>2 DEF IsInjective
    <2>4. f \in [1..Cardinality(S) -> S]
      BY <1>1, <2>3 DEF SetToSeq
    <2>5. DOMAIN f = 1..0 /\ {f[i] : i \in 1..0} = S
      BY <1>2, <2>1, <2>4
    <2> QED
      BY <1>1, <2>5
  <1>3. CASE \E x : S = {x}
    <2>1. PICK x : S = {x}
      BY <1>3
    <2>2. Cardinality(S) = 1 /\ 1..1 = {1}
      BY <2>1, FS_Singleton
    <2>3. PICK g : g = [i \in 1..Cardinality(S) |-> x]
      OBVIOUS
    <2>4. g \in [1..Cardinality(S) -> S] /\ IsInjective(g)
      BY <2>1, <2>2, <2>3 DEF IsInjective
    <2>5. f \in [1..Cardinality(S) -> S]
      BY <1>1, <2>4 DEF SetToSeq
    <2>6. f \in [{1} -> {x}]
      BY <2>1, <2>2, <2>5
    <2>7. DOMAIN f = 1..1 /\ {f[i] : i \in 1..1} = S
      BY <2>1, <2>2, <2>6
    <2> QED
      BY <1>1, <2>7
  <1> QED
    BY <1>2, <1>3 DEF AtMostOne

\* Three sequences one after the other.
LEMMA ThreeParts ==
  ASSUME NEW a \in Nat, NEW b \in Nat, NEW c \in Nat,
         NEW A, A = [i \in 1..a |-> A[i]], NEW B, B = [i \in 1..b |-> B[i]],
         NEW C, C = [i \in 1..c |-> C[i]]
  PROVE  LET o == A \o B \o C IN
         /\ DOMAIN o = 1..(a + b + c)
         /\ \A i \in 1..a : o[i] = A[i]
         /\ \A i \in 1..b : o[a + i] = B[i]
         /\ \A i \in 1..c : o[a + b + i] = C[i]
  <1>1. PICK X : X = {A[i] : i \in 1..a} \cup {B[i] : i \in 1..b} \cup {C[i] : i \in 1..c}
    OBVIOUS
  <1>2. (\A i \in 1..a : A[i] \in X) /\ (\A i \in 1..b : B[i] \in X) /\ (\A i \in 1..c : C[i] \in X)
    BY <1>1
  <1>3. A \in [1..a -> X] /\ B \in [1..b -> X] /\ C \in [1..c -> X]
    BY <1>2
  <1>4. A \in Seq(X) /\ B \in Seq(X) /\ C \in Seq(X)
    BY <1>3, SeqDef
  <1>5. Len(A) = a /\ Len(B) = b /\ Len(C) = c
    <2>1. DOMAIN A = 1..a /\ DOMAIN B = 1..b /\ DOMAIN C = 1..c
      BY <1>3
    <2> QED
      BY <1>4, <2>1, LenProperties
  <1>6. PICK u : u = A \o B
    OBVIOUS
  <1>7. /\ u \in Seq(X) /\ Len(u) = a + b
        /\ \A i \in 1..(a + b) : u[i] = IF i <= a THEN A[i] ELSE B[i - a]
    BY <1>4, <1>5, <1>6, ConcatProperties
  <1>8. PICK o : o = u \o C
    OBVIOUS
  <1>9. /\ o \in Seq(X) /\ Len(o) = (a + b) + c
        /\ \A i \in 1..((a + b) + c) : o[i] = IF i <= a + b THEN u[i] ELSE C[i - (a + b)]
    BY <1>4, <1>5, <1>7, <1>8, ConcatProperties
  <1>10. DOMAIN o = 1..(a + b + c)
    BY <1>9, LenProperties
  <1>11. ASSUME NEW i \in 1..a PROVE o[i] = A[i]
    <2>1. i \in 1..(a + b) /\ i \in 1..((a + b) + c) /\ i <= a + b /\ i <= a
      OBVIOUS
    <2> QED
      BY <1>7, <1>9, <2>1
  <1>12. ASSUME NEW i \in 1..b PROVE o[a + i] = B[i]
    <2>1. a + i \in 1..(a + b) /\ a + i \in 1..((a + b) + c) /\ a + i <= a + b /\ ~(a + i <= a)
          /\ (a + i) - a = i
      OBVIOUS
    <2> QED
      BY <1>7, <1>9, <2>1
  <1>13. ASSUME NEW i \in 1..c PROVE o[a + b + i] = C[i]
    <2>1. a + b + i \in 1..((a + b) + c) /\ ~(a + b + i <= a + b) /\ (a + b + i) - (a + b) = i
      OBVIOUS
    <2> QED
      BY <1>9, <2>1
  <1> QED
    BY <1>6, <1>8, <1>10, <1>11, <1>12, <1>13

\* What stands at the last c places of an outbox is delivered in that order.
LEMMA DeliveredIs ==
  ASSUME NEW o, NEW z \in Nat, NEW L \in Seq(SUBSET Payload),
         OfKind(o, "Deliver") = (z + 1)..(z + Len(L)),
         \A i \in 1..Len(L) : o[z + i].data[1] = L[i]
  PROVE  Delivered(o) = L
  <1>1. PICK c \in Nat : c = Len(L)
    OBVIOUS
  <1>2. PICK P : P = OfKind(o, "Deliver")
    OBVIOUS
  <1>3. P = (z + 1)..(z + c)
    BY <1>1, <1>2
  <1>4. Cardinality(P) = c
    <2>1. PICK l \in Int, h \in Int : l = z + 1 /\ h = z + c
      OBVIOUS
    <2>2. Cardinality(l..h) = IF l > h THEN 0 ELSE h - l + 1
      BY FS_Interval
    <2>3. (IF l > h THEN 0 ELSE h - l + 1) = c
      BY <2>1
    <2> QED
      BY <1>3, <2>1, <2>2, <2>3
  <1>5. ASSUME NEW j \in P PROVE Cardinality({k \in P : k < j}) = j - (z + 1)
    <2>1. PICK l \in Int, h \in Int : l = z + 1 /\ h = j - 1
      BY <1>3
    <2>2. {k \in P : k < j} = l..h
      BY <1>3, <2>1
    <2>3. Cardinality(l..h) = IF l > h THEN 0 ELSE h - l + 1
      BY FS_Interval
    <2>4. (IF l > h THEN 0 ELSE h - l + 1) = j - (z + 1)
      BY <1>3, <2>1
    <2> QED
      BY <2>2, <2>3, <2>4
  <1>6. ASSUME NEW i \in 1..c
        PROVE  (CHOOSE j \in P : Cardinality({k \in P : k < j}) = i - 1) = z + i
    <2>1. z + i \in P /\ Cardinality({k \in P : k < z + i}) = i - 1
      <3>1. PICK j : j = z + i
        OBVIOUS
      <3>2. j \in P
        BY <1>3, <3>1
      <3>3. Cardinality({k \in P : k < j}) = j - (z + 1)
        BY <1>5, <3>2
      <3>4. j - (z + 1) = i - 1
        BY <3>1
      <3> QED
        BY <3>1, <3>2, <3>3, <3>4
    <2>2. \A j \in P : Cardinality({k \in P : k < j}) = i - 1 => j = z + i
      <3> SUFFICES ASSUME NEW j \in P, Cardinality({k \in P : k < j}) = i - 1 PROVE j = z + i
        OBVIOUS
      <3>1. j - (z + 1) = i - 1
        BY <1>5
      <3>2. j \in Int
        BY <1>3
      <3> QED
        BY <3>1, <3>2
    <2> QED
      BY <2>1, <2>2
  <1>7. Delivered(o) = [i \in 1..c |->
            o[CHOOSE j \in P : Cardinality({k \in P : k < j}) = i - 1].data[1]]
    BY <1>2, <1>4 DEF Delivered
  <1>8. \A i \in 1..c : o[CHOOSE j \in P : Cardinality({k \in P : k < j}) = i - 1].data[1] = L[i]
    BY <1>1, <1>6
  <1>9. Delivered(o) = [i \in 1..c |-> L[i]]
    BY <1>7, <1>8
  <1>10. L = [i \in 1..c |-> L[i]]
    BY <1>1
  <1> QED
    BY <1>9, <1>10

\* The data at the places J are the elements of T.
LEMMA DataIs ==
  ASSUME NEW o, NEW J, NEW T, NEW I,
         \A k \in J : \E i \in I : o[k].data[1] = T[i],
         \A i \in I : \E k \in J : o[k].data[1] = T[i]
  PROVE  {o[k].data[1] : k \in J} = {T[i] : i \in I}
  <1>1. ASSUME NEW x \in {o[k].data[1] : k \in J} PROVE x \in {T[i] : i \in I}
    <2>1. PICK k \in J : x = o[k].data[1]
      OBVIOUS
    <2>2. PICK i \in I : o[k].data[1] = T[i]
      OBVIOUS
    <2> QED
      BY <2>1, <2>2
  <1>2. ASSUME NEW x \in {T[i] : i \in I} PROVE x \in {o[k].data[1] : k \in J}
    <2>1. PICK i \in I : x = T[i]
      OBVIOUS
    <2>2. PICK k \in J : o[k].data[1] = T[i]
      OBVIOUS
    <2> QED
      BY <2>1, <2>2
  <1> QED
    BY <1>1, <1>2

\* The outbox of a step: the buckets, and the order of the deliveries.
LEMMA OutboxIs ==
  ASSUME NEW r, AtMostOne(r.forward), AtMostOne(r.suspect), NEW L \in Seq(SUBSET Payload),
         LogOf(r.deliver) = L
  PROVE  /\ NormalOutbox(Outbox(r)) = StepOutputs(r.forward, ToSet(L), r.suspect)
         /\ Delivered(Outbox(r)) = L
  <1>1. PICK V, T : V = SetToSeq(r.suspect) /\ T = SetToSeq(r.forward)
    OBVIOUS
  <1>2. PICK a \in Nat : DOMAIN V = 1..a /\ {V[i] : i \in 1..a} = r.suspect
    BY <1>1, SmallSeq
  <1>3. PICK b \in Nat : DOMAIN T = 1..b /\ {T[i] : i \in 1..b} = r.forward
    BY <1>1, SmallSeq
  <1>4. PICK c \in Nat : c = Len(L) /\ DOMAIN L = 1..c
    OBVIOUS
  <1>5. PICK A, B, C : /\ A = [i \in 1..a |-> DeclareCrashEnv(V[i])]
                       /\ B = [i \in 1..b |-> ForwardTrainEnv(T[i])]
                       /\ C = [i \in 1..c |-> DeliverEnv(L[i])]
    OBVIOUS
  <1>6. PICK o : o = A \o B \o C
    OBVIOUS
  <1>7. Outbox(r) = o
    BY <1>1, <1>2, <1>3, <1>4, <1>5, <1>6 DEF Outbox, DeliverSeq
  <1>8. /\ \A i \in 1..a : A[i].kind = "DeclareCrash" /\ A[i].from = {V[i]}
        /\ \A i \in 1..b : B[i].kind = "ForwardTrain" /\ B[i].data[1] = T[i]
        /\ \A i \in 1..c : C[i].kind = "Deliver" /\ C[i].data[1] = L[i]
    BY <1>5 DEF DeclareCrashEnv, ForwardTrainEnv, DeliverEnv, Envelope
  <1>9. /\ DOMAIN o = 1..(a + b + c)
        /\ \A i \in 1..a : o[i] = A[i]
        /\ \A i \in 1..b : o[a + i] = B[i]
        /\ \A i \in 1..c : o[a + b + i] = C[i]
    <2>1. A = [i \in 1..a |-> A[i]] /\ B = [i \in 1..b |-> B[i]] /\ C = [i \in 1..c |-> C[i]]
      BY <1>5
    <2> QED
      BY <1>6, <2>1, ThreeParts
  <1>10. /\ \A i \in 1..a : o[i].kind = "DeclareCrash" /\ o[i].from = {V[i]}
         /\ \A i \in 1..b : o[a + i].kind = "ForwardTrain" /\ o[a + i].data[1] = T[i]
         /\ \A i \in 1..c : o[a + b + i].kind = "Deliver" /\ o[a + b + i].data[1] = L[i]
    <2>1. ASSUME NEW i \in 1..a PROVE o[i].kind = "DeclareCrash" /\ o[i].from = {V[i]}
      <3>1. o[i] = A[i]
        BY <1>9
      <3> QED
        BY <1>8, <3>1
    <2>2. ASSUME NEW i \in 1..b PROVE o[a + i].kind = "ForwardTrain" /\ o[a + i].data[1] = T[i]
      <3>1. o[a + i] = B[i]
        BY <1>9
      <3> QED
        BY <1>8, <3>1
    <2>3. ASSUME NEW i \in 1..c PROVE o[a + b + i].kind = "Deliver" /\ o[a + b + i].data[1] = L[i]
      <3>1. o[a + b + i] = C[i]
        BY <1>9
      <3> QED
        BY <1>8, <3>1
    <2> QED
      BY <2>1, <2>2, <2>3
  <1>11. \A k \in 1..(a + b + c) : \/ k \in 1..a
                                   \/ k \in (a + 1)..(a + b) /\ k - a \in 1..b /\ k = a + (k - a)
                                   \/ /\ k \in (a + b + 1)..(a + b + c) /\ k - (a + b) \in 1..c
                                      /\ k = a + b + (k - (a + b))
    OBVIOUS
  <1>12. /\ \A k \in 1..a : o[k].kind = "DeclareCrash"
         /\ \A k \in (a + 1)..(a + b) : o[k].kind = "ForwardTrain"
         /\ \A k \in (a + b + 1)..(a + b + c) : o[k].kind = "Deliver"
    <2>1. ASSUME NEW k \in (a + 1)..(a + b) PROVE o[k].kind = "ForwardTrain"
      <3>1. PICK i \in 1..b : k = a + i
        <4>1. k - a \in 1..b /\ k = a + (k - a)
          OBVIOUS
        <4> QED
          BY <4>1
      <3> QED
        BY <1>10, <3>1
    <2>2. ASSUME NEW k \in (a + b + 1)..(a + b + c) PROVE o[k].kind = "Deliver"
      <3>1. PICK i \in 1..c : k = a + b + i
        <4>1. k - (a + b) \in 1..c /\ k = a + b + (k - (a + b))
          OBVIOUS
        <4> QED
          BY <4>1
      <3> QED
        BY <1>10, <3>1
    <2> QED
      BY <1>10, <2>1, <2>2
  <1>13. 1..a \subseteq 1..(a + b + c) /\ (a + 1)..(a + b) \subseteq 1..(a + b + c)
         /\ (a + b + 1)..(a + b + c) \subseteq 1..(a + b + c)
    OBVIOUS
  <1>14. /\ OfKind(o, "DeclareCrash") = 1..a
         /\ OfKind(o, "ForwardTrain") = (a + 1)..(a + b)
         /\ OfKind(o, "Deliver") = (a + b + 1)..(a + b + c)
    <2>1. PICK D, I, J, K : /\ D = 1..(a + b + c) /\ I = 1..a
                            /\ J = (a + 1)..(a + b) /\ K = (a + b + 1)..(a + b + c)
      OBVIOUS
    <2>2. D = DOMAIN o /\ D = I \cup J \cup K
      BY <1>9, <1>11, <1>13, <2>1
    <2>3. /\ \A k \in I : o[k].kind = "DeclareCrash"
          /\ \A k \in J : o[k].kind = "ForwardTrain"
          /\ \A k \in K : o[k].kind = "Deliver"
      BY <1>12, <2>1
    <2>4. OfKind(o, "DeclareCrash") = I /\ OfKind(o, "ForwardTrain") = J /\ OfKind(o, "Deliver") = K
      BY <2>2, <2>3 DEF OfKind
    <2> QED
      BY <2>1, <2>4
  <1>15. Delivered(o) = L
    <2>1. PICK z \in Nat : z = a + b
      OBVIOUS
    <2>2. OfKind(o, "Deliver") = (z + 1)..(z + Len(L)) /\ \A i \in 1..Len(L) : o[z + i].data[1] = L[i]
      BY <1>4, <1>10, <1>14, <2>1
    <2> QED
      BY <2>2, DeliveredIs
  <1>16. {o[k].data[1] : k \in (a + 1)..(a + b)} = r.forward
    <2>1. ASSUME NEW k \in (a + 1)..(a + b) PROVE \E i \in 1..b : o[k].data[1] = T[i]
      <3>1. PICK i \in 1..b : k = a + i
        <4>1. k - a \in 1..b /\ k = a + (k - a)
          OBVIOUS
        <4> QED
          BY <4>1
      <3> QED
        BY <1>10, <3>1
    <2>2. \A i \in 1..b : a + i \in (a + 1)..(a + b)
      OBVIOUS
    <2>3. \A i \in 1..b : \E k \in (a + 1)..(a + b) : o[k].data[1] = T[i]
      BY <1>10, <2>2
    <2>4. PICK I, J : I = 1..b /\ J = (a + 1)..(a + b)
      OBVIOUS
    <2>5. {o[k].data[1] : k \in J} = {T[i] : i \in I}
      <3>1. /\ \A k \in J : \E i \in I : o[k].data[1] = T[i]
            /\ \A i \in I : \E k \in J : o[k].data[1] = T[i]
        BY <2>1, <2>3, <2>4
      <3> QED
        BY <3>1, DataIs
    <2> QED
      BY <1>3, <2>4, <2>5
  <1>17. {o[k].data[1] : k \in (a + b + 1)..(a + b + c)} = ToSet(L)
    <2>1. ASSUME NEW k \in (a + b + 1)..(a + b + c) PROVE \E i \in 1..c : o[k].data[1] = L[i]
      <3>1. PICK i \in 1..c : k = a + b + i
        <4>1. k - (a + b) \in 1..c /\ k = a + b + (k - (a + b))
          OBVIOUS
        <4> QED
          BY <4>1
      <3> QED
        BY <1>10, <3>1
    <2>2. \A i \in 1..c : a + b + i \in (a + b + 1)..(a + b + c)
      OBVIOUS
    <2>3. \A i \in 1..c : \E k \in (a + b + 1)..(a + b + c) : o[k].data[1] = L[i]
      BY <1>10, <2>2
    <2>4. PICK I, J : I = 1..c /\ J = (a + b + 1)..(a + b + c)
      OBVIOUS
    <2>5. {o[k].data[1] : k \in J} = {L[i] : i \in I}
      <3>1. /\ \A k \in J : \E i \in I : o[k].data[1] = L[i]
            /\ \A i \in I : \E k \in J : o[k].data[1] = L[i]
        BY <2>1, <2>3, <2>4
      <3> QED
        BY <3>1, DataIs
    <2>6. ToSet(L) = {L[i] : i \in I}
      BY <1>4, <2>4 DEF ToSet
    <2> QED
      BY <2>4, <2>5, <2>6
  <1>18. UNION {o[k].from : k \in 1..a} = r.suspect
    <2>1. \A k \in 1..a : o[k].from = {V[k]}
      BY <1>10
    <2>2. PICK F : F = {o[k].from : k \in 1..a}
      OBVIOUS
    <2>3. F = {{V[k]} : k \in 1..a}
      BY <2>1, <2>2
    <2>4. \A x : x \in UNION F <=> \E k \in 1..a : x = V[k]
      BY <2>3, Zenon
    <2>5. \A x : x \in r.suspect <=> \E k \in 1..a : x = V[k]
      BY <1>2
    <2> QED
      BY <2>2, <2>4, <2>5
  <1>19. NormalOutbox(o) = StepOutputs(r.forward, ToSet(L), r.suspect)
    BY <1>14, <1>16, <1>17, <1>18 DEF NormalOutbox
  <1> QED
    BY <1>7, <1>15, <1>19

\* The buckets of the reference's answer.
LEMMA NormalRefIs ==
  ASSUME NEW n, NEW d \in Seq(SUBSET Payload), NEW r, NEW L \in Seq(SUBSET Payload),
         LogOf(r.deliver) = L
  PROVE  NormalRef(AsReference(n, d), Answer(r, d)) = StepOutputs(r.forward, ToSet(L), r.suspect)
  <1>1. PICK s, a, e : s = AsReference(n, d) /\ a = Answer(r, d) /\ e = d \o L
    OBVIOUS
  <1>2. s.delivered = d
    BY <1>1 DEF AsReference, RefOf
  <1>3. a.ref.delivered = e /\ a.forward = r.forward /\ a.suspect = r.suspect
    BY <1>1 DEF Answer, RefStep, AsReference, RefOf
  <1>4. SubSeq(e, Len(d) + 1, Len(e)) = L
    <2>1. /\ e \in Seq(SUBSET Payload) /\ Len(e) = Len(d) + Len(L)
          /\ \A i \in 1..(Len(d) + Len(L)) : e[i] = IF i <= Len(d) THEN d[i] ELSE L[i - Len(d)]
      BY <1>1, ConcatProperties
    <2>2. PICK x \in Nat, y \in Nat : x = Len(d) /\ y = Len(L)
      OBVIOUS
    <2>3. PICK l \in Int, h \in Int : l = x + 1 /\ h = x + y
      OBVIOUS
    <2>4. \A i \in l..h : e[i] \in SUBSET Payload
      <3> SUFFICES ASSUME NEW i \in l..h PROVE e[i] \in SUBSET Payload
        OBVIOUS
      <3>1. i \in 1..Len(e)
        BY <2>1, <2>2, <2>3
      <3> QED
        BY <2>1, <3>1, ElementOfSeq
    <2>5. PICK u : u = SubSeq(e, l, h)
      OBVIOUS
    <2>6. /\ u \in Seq(SUBSET Payload) /\ Len(u) = (IF l <= h THEN h - l + 1 ELSE 0)
          /\ \A i \in 1..(h - l + 1) : u[i] = e[l + i - 1]
      BY <2>4, <2>5, SubSeqProperties
    <2>7. Len(u) = y /\ h - l + 1 = y
      BY <2>3, <2>6
    <2>8. ASSUME NEW i \in 1..y PROVE u[i] = L[i]
      <3>1. u[i] = e[l + i - 1] /\ l + i - 1 = x + i
        BY <2>3, <2>6, <2>7
      <3>2. x + i \in 1..(x + y) /\ ~(x + i <= x) /\ (x + i) - x = i
        OBVIOUS
      <3>3. e[x + i] = L[i]
        BY <2>1, <2>2, <3>2
      <3> QED
        BY <3>1, <3>3
    <2>9. u = L
      BY <2>2, <2>6, <2>7, <2>8, SeqEqual
    <2> QED
      BY <2>1, <2>2, <2>3, <2>5, <2>9
  <1>5. NormalRef(s, a) = StepOutputs(r.forward, ToSet(L), r.suspect)
    BY <1>2, <1>3, <1>4 DEF NormalRef
  <1> QED
    BY <1>1, <1>5

-----------------------------------------------------------------------------
(* The invariant *)

\* A result after which the two can go on.
Sound(r) ==
    /\ Plain(r.node) /\ Drained(r.node) = {}
    /\ r.deliver \in SUBSET Train /\ IsFiniteSet(r.deliver) /\ DistinctKeys(r.deliver)
    /\ AtMostOne(r.forward) /\ AtMostOne(r.suspect)

\* Nothing happens but a change of what is pending or issued.
LEMMA QuietSound ==
  ASSUME NEW n, Plain(n), Drained(n) = {}, NEW m, Watches(n, m), m.seen = n.seen
  PROVE  Plain(m) /\ Drained(m) = {} /\ Sound(Result(m, {}, {}, {}))
  <1>1. n \in Node /\ Tidy(n)
    BY DEF Plain
  <1>2. Tidy(m) /\ Drained(m) = {}
    BY <1>1, WatchesTidy
  <1>3. Plain(m)
    BY <1>2 DEF Watches, Plain
  <1>4. PICK e : e = {}
    OBVIOUS
  <1>5. e \in SUBSET Train /\ IsFiniteSet(e) /\ DistinctKeys(e) /\ AtMostOne(e)
    BY <1>4, FS_EmptySet DEF DistinctKeys, AtMostOne
  <1>6. PICK r : r = Result(m, e, e, e)
    OBVIOUS
  <1>7. r.node = m /\ r.deliver = e /\ r.forward = e /\ r.suspect = e
    BY <1>6 DEF Result
  <1>8. Sound(r)
    BY <1>2, <1>3, <1>5, <1>7 DEF Sound
  <1> QED
    BY <1>2, <1>3, <1>4, <1>6, <1>8

\* handle_train
LEMMA HandleSound ==
  ASSUME NEW p \in Proc, NEW n, Plain(n), Drained(n) = {}, NEW t \in Train, t.clock >= 1
  PROVE  Sound(HandleTrain(p, n, t))
  <1>1. n \in Node /\ Tidy(n)
    BY DEF Plain
  <1>2. PICK r : r = HandleTrain(p, n, t)
    OBVIOUS
  <1>3. PICK D : Releases(n, r.node, D) /\ r.deliver = NonEmpty(D) /\ Advances(p, n, t, r)
    BY <1>1, <1>2, HandleReleases
  <1>4. r.node.crashed = n.crashed
    <2>1. \/ Absorbs(n, r)
          \/ Passes(n, t, r)
          \/ Loads(p, n, t, r)
          \/ t.issuer = p /\ Recycles(p, n, t, r)
      BY <1>1, <1>2, HandleTrainEffect
    <2> QED
      BY <2>1 DEF Absorbs, Passes, Loads, Recycles
  <1>5. Plain(r.node) /\ Drained(r.node) = {}
    BY <1>3, <1>4 DEF Releases, Plain
  <1>6. r.deliver \in SUBSET D /\ r.deliver \in SUBSET Train /\ DistinctKeys(r.deliver)
    BY <1>3 DEF Releases, NonEmpty, DistinctKeys
  <1>7. IsFiniteSet(r.deliver)
    <2>1. PICK E : E = r.deliver
      OBVIOUS
    <2>2. E \in SUBSET D /\ IsFiniteSet(D)
      BY <1>3, <1>6, <2>1 DEF Releases
    <2> QED
      BY <2>1, <2>2, FS_Subset
  <1>8. AtMostOne(r.forward)
    BY <1>3 DEF Advances, AtMostOne
  <1>9. r.suspect = {} \/ r.suspect = {t.issuer}
    BY <1>2 DEF HandleTrain, HandleReturningTrain, HandleReplay, HandleFirstLap, Result
  <1>10. AtMostOne(r.suspect)
    BY <1>9 DEF AtMostOne
  <1> QED
    BY <1>2, <1>5, <1>6, <1>7, <1>8, <1>10 DEF Sound

\* The reference answers handle_train.
LEMMA HandleAgrees ==
  ASSUME NEW p \in Proc, NEW n, Plain(n), Drained(n) = {}, NEW t \in Train, t.clock >= 1,
         NEW d \in Seq(SUBSET Payload)
  PROVE  RefHandleTrain(p, AsReference(n, d), t) = Answer(HandleTrain(p, n, t), d)
  <1>1. t.issuer \in Proc /\ t.clock \in Nat
    BY DEF Train
  <1>2. n.floor[t.issuer] = 0
    BY <1>1 DEF Plain
  <1>3. ~(t.clock <= n.floor[t.issuer])
    BY <1>1, <1>2
  <1>4. CASE t.issuer = p
    <2>1. HandleTrain(p, n, t) = HandleReturningTrain(p, n, t)
      BY <1>3, <1>4 DEF HandleTrain
    <2>2. RefHandleTrain(p, AsReference(n, d), t) = HandleReturning(p, AsReference(n, d), t)
      BY <1>4 DEF RefHandleTrain
    <2> QED
      BY <1>4, <2>1, <2>2, ReturningAgrees
  <1>5. CASE t.issuer # p /\ IsReplay(n, t)
    <2>1. HandleTrain(p, n, t) = HandleReplay(n, t)
      BY <1>3, <1>5 DEF HandleTrain
    <2>2. RefHandleTrain(p, AsReference(n, d), t) = HandleForeign(p, AsReference(n, d), t)
      BY <1>5 DEF RefHandleTrain
    <2> QED
      BY <1>5, <2>1, <2>2, ReplayAgrees
  <1>6. CASE t.issuer # p /\ ~IsReplay(n, t)
    <2>1. HandleTrain(p, n, t) = HandleFirstLap(p, n, t)
      BY <1>3, <1>6 DEF HandleTrain
    <2>2. RefHandleTrain(p, AsReference(n, d), t) = HandleForeign(p, AsReference(n, d), t)
      BY <1>6 DEF RefHandleTrain
    <2> QED
      BY <1>6, <2>1, <2>2, FirstLapAgrees
  <1> QED
    BY <1>4, <1>5, <1>6

\* The reference is the core as a reference node, with the log of the envelopes.
Mirrors ==
    /\ me \in Proc
    /\ Plain(core) /\ Drained(core) = {}
    /\ log \in Seq(SUBSET Payload)
    /\ ref = AsReference(core, log)
    /\ outs.core = outs.ref

\* A round of the harness, once its result and its answer are known.
LEMMA StepMirrors ==
  ASSUME Mirrors, NEW r, Sound(r), NEW env, NEW s, Step(env, s),
         s = Answer(r, log),
         Feed(me, core, env).node = r.node,
         \/ Feed(me, core, env).outbox = Outbox(r)
         \/ Feed(me, core, env).outbox = <<>> /\ r.forward = {} /\ r.deliver = {} /\ r.suspect = {}
  PROVE  Mirrors'
  <1>1. PICK L : L = LogOf(r.deliver)
    OBVIOUS
  <1>2. L \in Seq(SUBSET Payload)
    <2>1. PICK D : D = r.deliver
      OBVIOUS
    <2>2. D \in SUBSET Train /\ IsFiniteSet(D) /\ DistinctKeys(D)
      BY <2>1 DEF Sound
    <2> QED
      BY <1>1, <2>1, <2>2, LogOfSet
  <1>3. PICK o : o = Feed(me, core, env).outbox
    OBVIOUS
  <1>4. NormalOutbox(o) = StepOutputs(r.forward, ToSet(L), r.suspect) /\ Delivered(o) = L
    <2>1. CASE o = Outbox(r)
      BY <1>1, <1>2, <2>1, OutboxIs DEF Sound
    <2>2. CASE o = <<>> /\ r.forward = {} /\ r.deliver = {} /\ r.suspect = {}
      <3>1. L = <<>>
        <4>1. <<>> \o L = <<>>
          <5>1. PICK v : v = <<>>
            OBVIOUS
          <5>2. v \in Seq(SUBSET Payload)
            BY <5>1
          <5>3. v \o LogOf({}) = v
            BY <5>2, NoDelivery
          <5> QED
            BY <1>1, <2>2, <5>1, <5>3
        <4>2. <<>> \o L = L
          BY <1>2, ConcatEmptySeq
        <4> QED
          BY <4>1, <4>2
      <3>2. \A kind : OfKind(o, kind) = {}
        BY <2>2 DEF OfKind
      <3>3. ToSet(L) = {}
        BY <3>1 DEF ToSet
      <3>4. NormalOutbox(o) = StepOutputs({}, {}, {})
        BY <3>2 DEF NormalOutbox
      <3>5. Delivered(o) = L
        <4>1. PICK z \in Nat : z = 0
          OBVIOUS
        <4>2. (z + 1)..(z + Len(L)) = {} /\ 1..Len(L) = {}
          BY <3>1, <4>1
        <4>3. /\ OfKind(o, "Deliver") = (z + 1)..(z + Len(L))
              /\ \A i \in 1..Len(L) : o[z + i].data[1] = L[i]
          BY <3>2, <4>2
        <4> QED
          BY <1>2, <4>3, DeliveredIs
      <3> QED
        BY <2>2, <3>3, <3>4, <3>5
    <2> QED
      BY <1>3, <2>1, <2>2
  <1>5. NormalRef(ref, s) = StepOutputs(r.forward, ToSet(L), r.suspect)
    <2>1. PICK n, d : n = core /\ d = log
      OBVIOUS
    <2>2. NormalRef(AsReference(n, d), Answer(r, d)) = StepOutputs(r.forward, ToSet(L), r.suspect)
      BY <1>1, <1>2, <2>1, NormalRefIs DEF Mirrors
    <2> QED
      BY <2>1, <2>2 DEF Mirrors
  <1>6. /\ core' = r.node /\ ref' = s.ref /\ log' = log \o L /\ me' = me
        /\ outs' = [core |-> NormalOutbox(o), ref |-> NormalRef(ref, s)]
    BY <1>3, <1>4 DEF Step
  <1>7. s.ref = AsReference(r.node, log \o L)
    BY <1>1 DEF Answer, RefStep
  <1>8. log' \in Seq(SUBSET Payload)
    BY <1>2, <1>6 DEF Mirrors
  <1>9. ref' = AsReference(core', log')
    BY <1>6, <1>7
  <1>10. outs'.core = outs'.ref
    BY <1>4, <1>5, <1>6
  <1>11. Plain(core') /\ Drained(core') = {}
    BY <1>6 DEF Sound
  <1> QED
    BY <1>6, <1>8, <1>9, <1>10, <1>11 DEF Mirrors

\* A step in which the core delivers nothing and forwards nothing.
LEMMA QuietAnswer ==
  ASSUME NEW m, NEW d \in Seq(SUBSET Payload), NEW r, r = Result(m, {}, {}, {})
  PROVE  /\ Answer(r, d) = RefStep(AsReference(m, d), {}, {})
         /\ r.node = m /\ r.forward = {} /\ r.deliver = {} /\ r.suspect = {}
  <1>1. r.node = m /\ r.forward = {} /\ r.deliver = {} /\ r.suspect = {}
    BY DEF Result
  <1>2. d \o LogOf({}) = d
    BY NoDelivery
  <1> QED
    BY <1>1, <1>2 DEF Answer

\* Both nodes start alike.
LEMMA InitMirrors == Init => Mirrors
  <1> SUFFICES ASSUME Init PROVE Mirrors
    OBVIOUS
  <1>1. me \in Proc /\ log = <<>> /\ log \in Seq(SUBSET Payload)
    BY DEF Init
  <1>2. PICK n : n = NewNode
    OBVIOUS
  <1>3. n \in Node
    BY <1>2, NewNodeType
  <1>4. Plain(n) /\ Drained(n) = {}
    <2>1. /\ n.parked = {} /\ n.done = {} /\ n.crashed = {} /\ n.frozen = FALSE
          /\ n.floor = [q \in Proc |-> 0]
      BY <1>2 DEF NewNode
    <2>2. Tidy(n)
      BY <2>1, FS_EmptySet DEF Tidy, KeysOf
    <2> QED
      BY <1>3, <2>1, <2>2 DEF Plain, Drained
  <1>5. NewReference = AsReference(n, <<>>)
    BY <1>2 DEF NewReference, AsReference, RefOf, NewNode
  <1>6. CASE me \in Issuer
    <2>1. PICK p, m, x : p = me /\ m = AfterIssue(n) /\ x = NewTrain(p, n)
      OBVIOUS
    <2>2. PICK s : s = RefIssue(p, NewReference)
      OBVIOUS
    <2>3. s = RefStep(AsReference(m, <<>>), {x}, {})
      BY <1>1, <1>3, <1>5, <2>1, <2>2, IssueAgrees
    <2>4. s.ref = AsReference(m, <<>>) /\ s.forward = {x} /\ s.suspect = {}
      BY <2>3 DEF RefStep
    <2>5. Plain(m) /\ Drained(m) = {}
      <3>1. /\ m \in Node /\ m.done = n.done /\ m.parked = n.parked /\ m.crashed = n.crashed
            /\ m.seen = n.seen
        BY <1>1, <1>3, <2>1, IssueEffect
      <3>2. m.floor = n.floor /\ m.frozen = n.frozen
        BY <1>3, <2>1 DEF AfterIssue, Node
      <3>3. Watches(n, m)
        BY <1>3, <3>1, <3>2 DEF Watches, Node
      <3> QED
        BY <1>4, <3>1, <3>3, QuietSound
    <2>6. PICK o : o = <<ForwardTrainEnv(x)>>
      OBVIOUS
    <2>7. /\ core = m /\ ref = s.ref
          /\ outs = [core |-> NormalOutbox(o), ref |-> NormalRef(NewReference, s)]
      BY <1>2, <1>6, <2>1, <2>2, <2>6 DEF Init, IssueInitial
    <2>8. NormalOutbox(o) = StepOutputs({x}, {}, {})
      <3>1. DOMAIN o = {1} /\ o[1].kind = "ForwardTrain" /\ o[1].data[1] = x
        BY <2>6 DEF ForwardTrainEnv, Envelope
      <3>2. /\ OfKind(o, "ForwardTrain") = {1} /\ OfKind(o, "Deliver") = {}
            /\ OfKind(o, "DeclareCrash") = {}
        BY <3>1 DEF OfKind
      <3>3. /\ {o[i].data[1] : i \in {1}} = {x}
        BY <3>1
      <3> QED
        BY <3>2, <3>3 DEF NormalOutbox
    <2>9. NormalRef(NewReference, s) = StepOutputs({x}, {}, {})
      <3>1. NewReference.delivered = <<>> /\ s.ref.delivered = <<>>
        BY <2>4 DEF NewReference, AsReference, RefOf
      <3>2. SubSeq(<<>>, Len(<<>>) + 1, Len(<<>>)) = <<>>
        OBVIOUS
      <3>3. ToSet(<<>>) = {}
        BY DEF ToSet
      <3> QED
        BY <2>4, <3>1, <3>2, <3>3 DEF NormalRef
    <2>10. outs.core = outs.ref
      BY <2>7, <2>8, <2>9
    <2> QED
      BY <1>1, <2>4, <2>5, <2>7, <2>10 DEF Mirrors
  <1>7. CASE me \notin Issuer
    <2>1. core = n /\ ref = NewReference /\ outs.core = outs.ref
      BY <1>2, <1>7 DEF Init
    <2> QED
      BY <1>1, <1>4, <1>5, <2>1 DEF Mirrors
  <1> QED
    BY <1>6, <1>7

\* Every round of the harness keeps them alike.
LEMMA NextMirrors == Mirrors /\ [Next]_vars => Mirrors'
  <1> SUFFICES ASSUME Mirrors, [Next]_vars PROVE Mirrors'
    OBVIOUS
  <1>1. PICK p, n, d : p = me /\ n = core /\ d = log
    OBVIOUS
  <1>2. /\ p \in Proc /\ Plain(n) /\ Drained(n) = {} /\ d \in Seq(SUBSET Payload)
        /\ ref = AsReference(n, d) /\ n \in Node
    BY <1>1 DEF Mirrors, Plain
  <1>3. PICK still : still = Result(n, {}, {}, {})
    OBVIOUS
  <1>4. /\ Sound(still) /\ Answer(still, d) = RefStep(ref, {}, {})
        /\ still.node = n /\ still.forward = {} /\ still.deliver = {} /\ still.suspect = {}
    <2>1. Watches(n, n)
      BY <1>2 DEF Watches, Node
    <2>2. Sound(still)
      BY <1>2, <1>3, <2>1, QuietSound
    <2> QED
      BY <1>2, <1>3, <2>2, QuietAnswer
  <1>5. CASE Broadcast
    <2>1. PICK h, x, env, r : /\ h = HandleBroadcast(p, n) /\ x = <<p, n.nextSeq>>
                              /\ env = AppBroadcastEnv(x) /\ r = Result(h, {}, {}, {})
      OBVIOUS
    <2>2. Watches(n, h) /\ h.seen = n.seen
      <3>1. x \in Payload
        BY <1>2, <2>1 DEF Payload, Node
      <3>2. CASE x \in n.broadcastSeen
        <4>1. h = n
          BY <2>1, <3>2 DEF HandleBroadcast
        <4> QED
          BY <1>2, <4>1 DEF Watches, Node
      <3>3. CASE x \notin n.broadcastSeen
        <4>1. h = [n EXCEPT !.broadcastSeen = @ \cup {x}, !.pending = @ \cup {x}, !.nextSeq = @ + 1]
          BY <2>1, <3>3 DEF HandleBroadcast
        <4>2. /\ n.broadcastSeen \cup {x} \in SUBSET Payload /\ n.pending \cup {x} \in SUBSET Payload
              /\ n.nextSeq + 1 \in Nat
          BY <1>2, <3>1 DEF Node
        <4>3. /\ h \in Node /\ h.parked = n.parked /\ h.done = n.done /\ h.crashed = n.crashed
              /\ h.floor = n.floor /\ h.frozen = n.frozen /\ h.seen = n.seen
          BY <1>2, <4>1, <4>2 DEF Node
        <4> QED
          BY <1>2, <4>3 DEF Watches, Node
      <3> QED
        BY <3>2, <3>3
    <2>3. Sound(r)
      BY <1>2, <2>1, <2>2, QuietSound
    <2>4. Answer(r, d) = RefStep(AppBroadcast(p, ref), {}, {}) /\ r.node = h
      <3>1. AppBroadcast(p, ref) = AsReference(h, d)
        BY <1>2, <2>1, BroadcastAgrees
      <3> QED
        BY <1>2, <2>1, <3>1, QuietAnswer
    <2>5. Feed(p, n, env).node = r.node /\ Feed(p, n, env).outbox = Outbox(r)
      <3>1. env.kind = "AppBroadcast" /\ env.data # <<>>
        BY <2>1 DEF AppBroadcastEnv, Envelope
      <3>2. StepOf(p, n, env) = r
        BY <2>1, <3>1 DEF StepOf
      <3>3. env.kind \in InputKind /\ Parses(env)
        BY <3>1 DEF InputKind, Parses
      <3> QED
        BY <3>2, <3>3 DEF Feed
    <2>6. Step(env, RefStep(AppBroadcast(p, ref), {}, {}))
      BY <1>1, <1>5, <2>1 DEF Broadcast
    <2>7. PICK s : s = Answer(r, d)
      OBVIOUS
    <2>8. Step(env, s)
      BY <2>4, <2>6, <2>7
    <2> QED
      BY <1>1, <2>3, <2>5, <2>7, <2>8, StepMirrors
  <1>6. ASSUME NEW t \in Trains, Receive(t) PROVE Mirrors'
    <2>1. t \in Train /\ t.clock >= 1
      <3>1. /\ t.issuer \in Issuer /\ t.clock \in 1..MaxClock /\ t.acks \in AckSets
            /\ t.payloads \in {{}} \cup {{m} : m \in (Loaders \X {0}) \ core.pending}
            /\ t = [issuer |-> t.issuer, clock |-> t.clock, payloads |-> t.payloads, acks |-> t.acks]
        BY DEF Trains
      <3>2. t.issuer \in Proc /\ t.clock \in Nat /\ t.clock >= 1 /\ t.acks \in SUBSET Proc
        BY <3>1, IssuerIsProc, DifferentialBounds
      <3>3. t.payloads \in SUBSET Payload
        BY <3>1, DifferentialBounds DEF Payload
      <3> QED
        BY <3>1, <3>2, <3>3 DEF Train
    <2>2. PICK env, r : env = TrainArrivedEnv(t) /\ r = HandleTrain(p, n, t)
      OBVIOUS
    <2>3. Sound(r)
      BY <1>2, <2>1, <2>2, HandleSound
    <2>4. RefHandleTrain(p, ref, t) = Answer(r, d)
      BY <1>2, <2>1, <2>2, HandleAgrees
    <2>5. Feed(p, n, env).node = r.node /\ Feed(p, n, env).outbox = Outbox(r)
      <3>1. env.kind = "TrainArrived" /\ env.data # <<>> /\ env.data[1] = t
        BY <2>2 DEF TrainArrivedEnv, Envelope
      <3>2. StepOf(p, n, env) = r
        BY <2>2, <3>1 DEF StepOf
      <3>3. env.kind \in InputKind /\ Parses(env)
        BY <3>1 DEF InputKind, Parses
      <3> QED
        BY <3>2, <3>3 DEF Feed
    <2>6. Step(env, RefHandleTrain(p, ref, t))
      BY <1>1, <1>6, <2>2 DEF Receive
    <2>7. PICK s : s = Answer(r, d)
      OBVIOUS
    <2>8. Step(env, s)
      BY <2>4, <2>6, <2>7
    <2> QED
      BY <1>1, <2>3, <2>5, <2>7, <2>8, StepMirrors
  <1>7. CASE Tick
    <2>1. PICK env : env = TickEnv
      OBVIOUS
    <2>2. Feed(p, n, env).node = still.node /\ Feed(p, n, env).outbox = Outbox(still)
      <3>1. env.kind = "Tick"
        BY <2>1 DEF TickEnv, Envelope
      <3>2. StepOf(p, n, env) = still
        BY <1>3, <3>1 DEF StepOf
      <3>3. env.kind \in InputKind /\ Parses(env)
        BY <3>1 DEF InputKind, Parses
      <3> QED
        BY <3>2, <3>3 DEF Feed
    <2>3. PICK s : s = Answer(still, d)
      OBVIOUS
    <2>4. Step(env, s)
      BY <1>4, <1>7, <2>1, <2>3 DEF Tick
    <2> QED
      BY <1>1, <1>4, <2>2, <2>3, <2>4, StepMirrors
  <1>8. ASSUME NEW kind \in OutputKind \cup {"AppBroadcast", "TrainArrived"}, Refused(kind)
        PROVE  Mirrors'
    <2>1. PICK env : env = Envelope(kind, {}, <<>>)
      OBVIOUS
    <2>2. env.kind = kind /\ env.data = <<>>
      BY <2>1 DEF Envelope
    <2>3. env.kind \notin InputKind \/ ~Parses(env)
      BY <2>2 DEF InputKind, OutputKind, Parses
    <2>4. Feed(p, n, env).node = still.node /\ Feed(p, n, env).outbox = <<>>
      BY <1>4, <2>3 DEF Feed
    <2>5. PICK s : s = Answer(still, d)
      OBVIOUS
    <2>6. Step(env, s)
      BY <1>4, <1>8, <2>1, <2>5 DEF Refused
    <2> QED
      BY <1>1, <1>4, <2>4, <2>5, <2>6, StepMirrors
  <1>9. CASE UNCHANGED vars
    BY <1>9 DEF Mirrors, vars
  <1> QED
    BY <1>5, <1>6, <1>7, <1>8, <1>9 DEF Next

\* The invariant: the core behind the adapter and the reference go on mirroring
\* each other, for every ring size, number of trains, bound and input.
THEOREM MirrorInvariant == Spec => []Mirrors
  BY InitMirrors, NextMirrors, PTL DEF Spec

\* SameState: on every history, the two agree on clocks, finished keys, parked
\* trains, pending payloads, issue clock, sequence number and known ids.
THEOREM StatesAgree == Spec => []SameState
  <1>1. Mirrors => SameState
    BY DEF Mirrors, SameState, AsReference, RefOf
  <1> QED
    BY <1>1, MirrorInvariant, PTL

\* SameLog: the core's drain and the reference's loop deliver the same payload
\* sets in the same order, also within a step.
THEOREM LogsAgree == Spec => []SameLog
  <1>1. Mirrors => SameLog
    BY DEF Mirrors, SameLog, AsReference, RefOf
  <1> QED
    BY <1>1, MirrorInvariant, PTL

\* SameOutputs: every step gives the same trains, deliveries and suspects.
THEOREM OutputsAgree == Spec => []SameOutputs
  <1>1. Mirrors => SameOutputs
    BY DEF Mirrors, SameOutputs
  <1> QED
    BY <1>1, MirrorInvariant, PTL
=============================================================================
