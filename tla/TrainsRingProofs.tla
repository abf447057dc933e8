-------------------------- MODULE TrainsRingProofs --------------------------
(***************************************************************************)
(* Safety of the static ring for every ring size, number of trains, mode,  *)
(* bound and fault budget: RingInv is inductive, and implies consistent,   *)
(* duplicate-free, ordered delivery.  The last part proves that the ring   *)
(* implements the abstract total-order broadcast.                          *)
(***************************************************************************)
EXTENDS TrainsRingRefinement, TrainsCoreProofs

\* The successor is a process.
LEMMA SuccType == \A p \in Proc : Succ(p) \in Proc
  BY RingAssumption DEF Succ, Proc

\* What it means to be one of the Trains.
LEMMA InTrains ==
  \A t : t \in Trains <=> \/ \E m \in net : t = m[2]
                          \/ \E p \in Proc : t \in node[p].parked \/ t \in delivered[p]
  BY DEF Trains

\* The same in the next state.
LEMMA InTrainsNext ==
  \A t : t \in Trains' <=> \/ \E m \in net' : t = m[2]
                           \/ \E p \in Proc : t \in node'[p].parked \/ t \in delivered'[p]
  BY DEF Trains

\* Trains are of type Train.
LEMMA TrainsType == TypeOK => Trains \subseteq Train
  BY InTrains DEF TypeOK, Messages, Node

-----------------------------------------------------------------------------
\* handle_broadcast: the new payload gets a fresh sequence number.
LEMMA BroadcastEffect ==
  ASSUME NEW p \in Proc, NEW n \in Node
  PROVE  LET r == HandleBroadcast(p, n) IN
         /\ r \in Node
         /\ r.seen = n.seen /\ r.done = n.done /\ r.parked = n.parked
         /\ r.crashed = n.crashed /\ r.nextIssue = n.nextIssue
         /\ r.nextSeq >= n.nextSeq
         /\ \A m \in r.pending : \/ m \in n.pending
                                 \/ m = <<p, n.nextSeq>> /\ r.nextSeq = n.nextSeq + 1
  <1> DEFINE m == <<p, n.nextSeq>>
  <1> DEFINE r == HandleBroadcast(p, n)
  <1>1. m \in Payload /\ n.nextSeq + 1 \in Nat
    BY DEF Payload, Node
  <1>2. CASE m \in n.broadcastSeen
    BY <1>2 DEF HandleBroadcast, Node
  <1>3. CASE m \notin n.broadcastSeen
    <2>1. r = [n EXCEPT !.broadcastSeen = @ \cup {m}, !.pending = @ \cup {m}, !.nextSeq = @ + 1]
      BY <1>3 DEF HandleBroadcast
    <2> HIDE DEF m, r
    <2>2. /\ r.seen = n.seen /\ r.done = n.done /\ r.parked = n.parked
          /\ r.crashed = n.crashed /\ r.nextIssue = n.nextIssue
          /\ r.nextSeq = n.nextSeq + 1 /\ r.pending = n.pending \cup {m}
      BY <2>1 DEF Node
    <2>3. r \in Node
      BY <1>1, <2>1 DEF Node
    <2>4. n.nextSeq + 1 >= n.nextSeq
      BY DEF Node
    <2> QED
      BY <2>2, <2>3, <2>4 DEF r, m
  <1> QED
    BY <1>2, <1>3

\* The facts about a handled train that the type proof and the invariant use.
LEMMA HandleType ==
  ASSUME TrainsInv, NEW p \in Proc, NEW t, <<p, t>> \in net
  PROVE  /\ t \in Train /\ t \in Trains /\ TrainInv(t)
         /\ node[p] \in Node
         /\ HandleTrain(p, node[p], t).node \in Node
         /\ HandleTrain(p, node[p], t).deliver \subseteq Train
         /\ HandleTrain(p, node[p], t).forward \subseteq Train
  <1>1. t \in Trains
    BY <<p, t>>[2] = t, InTrains
  <1>2. t \in Train /\ TrainInv(t) /\ node[p] \in Node
    BY <1>1, TrainsType DEF TrainsInv, TypeOK
  <1>3. t.clock >= 1
    BY <1>2 DEF TrainInv
  <1> QED
    BY <1>1, <1>2, <1>3, HandleTrainEffect

\* Two fully acked trains with the same key are the same train.
LEMMA FullTrainUnique ==
  ASSUME TrainsInv, NEW t \in Trains, NEW u \in Trains,
         t.acks = Proc, u.acks = Proc, KeyOf(t) = KeyOf(u)
  PROVE  t = u
  <1>1. t \in Train /\ u \in Train
    BY TrainsType DEF TrainsInv
  <1>2. \A m \in t.payloads \cup u.payloads : m[1] \in Proc
    BY <1>1 DEF Train, Payload
  <1>3. LoadInv(t, u) /\ LoadInv(u, t)
    BY DEF TrainsInv
  <1>4. t.payloads = u.payloads
    BY <1>2, <1>3 DEF LoadInv
  <1>5. t.clock = u.clock /\ t.issuer = u.issuer
    BY DEF KeyOf
  <1> QED
    BY <1>1, <1>4, <1>5 DEF Train

\* Fully acked trains of the ring have distinct keys, and there are finitely many:
\* no issuer has issued more.
LEMMA FullTrains ==
  ASSUME TrainsInv, NEW S, S \subseteq Trains, \A t \in S : t.acks = Proc
  PROVE  S \in SUBSET Train /\ IsFiniteSet(S) /\ DistinctKeys(S)
  <1>1. S \in SUBSET Train
    BY TrainsType DEF TrainsInv
  <1>3. DistinctKeys(S)
    BY FullTrainUnique DEF DistinctKeys
  <1> DEFINE f == [i \in Proc |-> (0..node[i].nextIssue) \X {i}]
             K == UNION {f[i] : i \in Proc}
  <1>4. IsFiniteSet(K)
    <2>1. ASSUME NEW i \in Proc PROVE IsFiniteSet(f[i])
      <3>1. PICK n \in Int : n = node[i].nextIssue
        BY DEF TrainsInv, TypeOK, Node
      <3>2. PICK z \in Int : z = 0
        OBVIOUS
      <3>3. IsFiniteSet(z..n)
        BY FS_Interval
      <3>4. IsFiniteSet({i})
        BY FS_Singleton
      <3>5. IsFiniteSet((z..n) \X {i})
        BY <3>3, <3>4, FS_Product
      <3> QED
        BY <3>1, <3>2, <3>5
    <2>2. PICK g : g = f
      OBVIOUS
    <2>3. DOMAIN g = Proc /\ g = [i \in DOMAIN g |-> g[i]]
      BY <2>2
    <2>4. IsFiniteSet(Proc)
      <3>1. PICK z \in Int, l \in Int : z = 0 /\ l = RingSize - 1
        BY RingAssumption
      <3>2. IsFiniteSet(z..l)
        BY FS_Interval
      <3> QED
        BY <3>1, <3>2 DEF Proc
    <2>5. IsFiniteSet({g[i] : i \in DOMAIN g})
      BY <2>3, <2>4, FiniteImage
    <2> HIDE DEF f
    <2>6. IsFiniteSet({f[i] : i \in Proc})
      BY <2>2, <2>3, <2>5
    <2> QED
      BY <2>1, <2>6, FS_UNION
  <1>5. \A t \in S : KeyOf(t) \in K
    <2> SUFFICES ASSUME NEW t \in S PROVE KeyOf(t) \in f[t.issuer] /\ t.issuer \in Proc
      OBVIOUS
    <2>1. TrainInv(t) /\ t \in Train
      BY <1>1 DEF TrainsInv
    <2>2. t.issuer \in Proc /\ t.clock \in Nat /\ node[t.issuer].nextIssue \in Nat
      BY <2>1 DEF Train, TrainsInv, TypeOK, Node
    <2>3. t.clock \in 0..node[t.issuer].nextIssue
      BY <2>1, <2>2 DEF TrainInv
    <2> QED
      BY <2>2, <2>3 DEF KeyOf
  <1> HIDE DEF K
  <1> DEFINE h == [t \in S |-> KeyOf(t)]
  <1>6. h \in Injection(S, K)
    BY <1>3, <1>5 DEF Injection, IsInjective, DistinctKeys
  <1>7. PICK H, J : H = K /\ J = h
    OBVIOUS
  <1>8. IsFiniteSet(S)
    BY <1>4, <1>6, <1>7, FS_Injection
  <1> QED
    BY <1>1, <1>3, <1>8

\* What a handled train delivers is fully acked, and was parked or on the link.
LEMMA HandleFull ==
  ASSUME TrainsInv, NEW p \in Proc, NEW t, <<p, t>> \in net
  PROVE  LET D == HandleTrain(p, node[p], t).deliver IN
         /\ D \subseteq Trains /\ \A u \in D : u.acks = Proc
         /\ D \in SUBSET Train /\ IsFiniteSet(D) /\ DistinctKeys(D)
  <1>1. PICK r : r = HandleTrain(p, node[p], t)
    OBVIOUS
  <1>2. t \in Train /\ t \in Trains /\ TrainInv(t) /\ node[p] \in Node /\ NodeInv(p)
    BY HandleType DEF TrainsInv
  <1>3. \/ Absorbs(node[p], r) \/ Passes(node[p], t, r) \/ Loads(p, node[p], t, r)
        \/ t.issuer = p /\ Recycles(p, node[p], t, r)
    BY <1>1, <1>2, HandleTrainEffect DEF TrainInv
  <1>4. node[p].crashed = {} /\ node[p].parked \subseteq Trains /\ \A u \in node[p].parked : u.acks = Proc
    BY <1>2, InTrains DEF NodeInv
  <1>5. ASSUME NEW n1 \in Node, NEW S, DeliveryEffect(n1, S, r.node, r.deliver)
        PROVE  r.deliver \subseteq S
    BY <1>5 DEF DeliveryEffect, NonEmpty
  <1>6. r.deliver \subseteq Trains /\ \A u \in r.deliver : u.acks = Proc
    <2>1. CASE Absorbs(node[p], r) \/ Recycles(p, node[p], t, r)
      BY <2>1 DEF Absorbs, Recycles
    <2>2. CASE Passes(node[p], t, r)
      <3>1. PICK n1 \in Node : /\ n1.parked = node[p].parked /\ n1.crashed = node[p].crashed
                               /\ DeliveryEffect(n1, Candidates(n1, t), r.node, r.deliver)
        BY <2>2 DEF Passes
      <3>2. r.deliver \subseteq Candidates(n1, t)
        BY <1>5, <3>1
      <3>3. ReadyToDeliver(n1, t.acks) => t.acks = Proc
        BY <1>2, <1>4, <3>1 DEF ReadyToDeliver, Train
      <3> QED
        BY <1>2, <1>4, <3>1, <3>2, <3>3 DEF Candidates
    <2>3. CASE Loads(p, node[p], t, r)
      <3>1. PICK n1 \in Node : /\ n1.parked = node[p].parked
                               /\ DeliveryEffect(n1, n1.parked, r.node, r.deliver)
        BY <2>3 DEF Loads
      <3>2. r.deliver \subseteq n1.parked
        BY <1>5, <3>1
      <3> QED
        BY <1>4, <3>1, <3>2
    <2> QED
      BY <1>3, <2>1, <2>2, <2>3
  <1>7. PICK D : D = r.deliver
    OBVIOUS
  <1>8. D \in SUBSET Train /\ IsFiniteSet(D) /\ DistinctKeys(D)
    BY <1>6, <1>7, FullTrains
  <1> QED
    BY <1>1, <1>6, <1>7, <1>8

\* Every step keeps the variables in their types.
LEMMA TypeStep ==
  ASSUME TrainsInv, [Next]_vars
  PROVE  TypeOK'
  <1> USE DEF TrainsInv
  <1>1. ASSUME NEW p \in Proc, BootIssuer(p) PROVE TypeOK'
    <2>1. node[p] \in Node
      BY DEF TypeOK
    <2>2. AfterIssue(node[p]) \in Node /\ <<Succ(p), NewTrain(p, node[p])>> \in Messages
      BY <2>1, IssueEffect, SuccType DEF Messages
    <2> QED
      BY <1>1, <2>2 DEF BootIssuer, TypeOK
  <1>2. ASSUME NEW p \in Proc, BootOther(p) PROVE TypeOK'
    BY <1>2 DEF BootOther, TypeOK
  <1>3. ASSUME NEW p \in Proc, Broadcast(p) PROVE TypeOK'
    <2>1. HandleBroadcast(p, node[p]) \in Node
      BY BroadcastEffect DEF TypeOK
    <2> QED
      BY <1>3, <2>1 DEF Broadcast, TypeOK
  <1>4. ASSUME NEW p \in Proc, Crash(p) PROVE TypeOK'
    BY <1>4 DEF Crash, TypeOK
  <1>5. ASSUME NEW m \in net, Lose(m) PROVE TypeOK'
    BY <1>5, BoundsAssumption DEF Lose, TypeOK
  <1>6. ASSUME NEW m \in net, Receive(m[1], m[2]) \/ ReceiveAndRetransmit(m[1], m[2])
        PROVE  TypeOK'
    <2> DEFINE p == m[1]
    <2> DEFINE t == m[2]
    <2> DEFINE r == HandleTrain(p, node[p], t)
    <2>1. p \in Proc /\ m = <<p, t>>
      BY DEF TypeOK, Messages
    <2>2. r.node \in Node /\ r.deliver \subseteq Train /\ r.forward \subseteq Train
      BY <2>1, HandleType
    <2>l. LogOf(r.deliver) \in Seq(SUBSET Payload)
      BY <2>1, HandleFull, LogOfSet
    <2>3. {<<Succ(p), u>> : u \in r.forward} \subseteq Messages
      BY <2>1, <2>2, SuccType DEF Messages
    <2> HIDE DEF r
    <2>4. ASSUME NEW rest \in SUBSET net, Handle(p, t, rest)
          PROVE  /\ node' \in [Proc -> Node]
                 /\ status' \in [Proc -> {"boot", "up", "crashed"}]
                 /\ net' \in SUBSET Messages
                 /\ delivered' \in [Proc -> SUBSET Train]
                 /\ log' \in [Proc -> Seq(SUBSET Payload)]
      <3>1. log' = [log EXCEPT ![p] = @ \o LogOf(r.deliver)]
        BY <2>4 DEF Handle, r
      <3>2. log \in [Proc -> Seq(SUBSET Payload)]
        BY DEF TypeOK
      <3>3. log[p] \o LogOf(r.deliver) \in Seq(SUBSET Payload)
        BY <2>1, <2>l, <3>2
      <3>4. log' \in [Proc -> Seq(SUBSET Payload)]
        BY <2>1, <3>1, <3>2, <3>3
      <3> QED
        BY <2>1, <2>2, <2>3, <2>4, <3>4 DEF Handle, TypeOK, r
    <2>5. CASE Receive(m[1], m[2])
      BY <2>4, <2>5 DEF Receive, TypeOK
    <2>6. CASE ReceiveAndRetransmit(m[1], m[2])
      <3>1. faults' \in [lost : 0..MaxLost, dup : 0..MaxDup]
        BY <2>6, BoundsAssumption DEF ReceiveAndRetransmit, TypeOK
      <3> QED
        BY <2>4, <2>6, <3>1 DEF ReceiveAndRetransmit, TypeOK
    <2> QED
      BY <1>6, <2>5, <2>6
  <1>7. CASE UNCHANGED vars
    BY <1>7 DEF vars, TypeOK
  <1> QED
    BY <1>1, <1>2, <1>3, <1>4, <1>5, <1>6, <1>7 DEF Next

-----------------------------------------------------------------------------
(* Counters only grow, and what becomes pending is new. *)

Grows(q) ==
    /\ node'[q].nextIssue >= node[q].nextIssue
    /\ node'[q].nextSeq >= node[q].nextSeq
    /\ \A i \in Proc : node'[q].seen[i] >= node[q].seen[i]
    /\ \A m \in node'[q].pending : m \in node[q].pending \/ m[2] >= node[q].nextSeq

\* A train that was on the ring keeps its invariant.
LEMMA TrainInvKept ==
  ASSUME TypeOK, TypeOK', \A q \in Proc : Grows(q), NEW t \in Train, TrainInv(t)
  PROVE  TrainInv(t)'
  <1>1. t.issuer \in Proc /\ t.clock \in Nat /\ t.acks \subseteq Proc /\ t.payloads \subseteq Payload
    BY DEF Train
  <1>2. \A q \in Proc : node[q] \in Node /\ node'[q] \in Node
    BY DEF TypeOK
  <1>3. \A q \in Proc : /\ node[q].nextIssue \in Nat /\ node'[q].nextIssue \in Nat
                        /\ node[q].nextSeq \in Nat /\ node'[q].nextSeq \in Nat
                        /\ node[q].seen \in [Proc -> Nat] /\ node'[q].seen \in [Proc -> Nat]
    BY <1>2 DEF Node
  <1>4. t.clock < node'[t.issuer].nextIssue
    BY <1>1, <1>3 DEF TrainInv, Grows
  <1>5. \A a \in t.acks : a # t.issuer => node'[a].seen[t.issuer] >= t.clock
    BY <1>1, <1>3 DEF TrainInv, Grows
  <1>6. ASSUME NEW m \in t.payloads
        PROVE  m[1] \in t.acks /\ m[2] < node'[m[1]].nextSeq /\ m \notin node'[m[1]].pending
    <2>1. m[1] \in Proc /\ m[2] \in Nat
      BY <1>1 DEF Payload
    <2> QED
      BY <1>3, <2>1 DEF TrainInv, Grows
  <1> QED
    BY <1>4, <1>5, <1>6 DEF TrainInv

\* A step of p that delivers in the sense of DeliveryEffect, leaves the other
\* processes alone and puts no fully acked train with a finished key on the
\* ring, preserves what is known of the processes.
LEMMA NodesKept ==
  ASSUME TrainsInv, TypeOK', NEW p \in Proc, NEW n1 \in Node, NEW S, NEW dl,
         \A q \in Proc : Grows(q),
         n1.seen = node'[p].seen, n1.done = node[p].done, n1.crashed = node[p].crashed,
         node'[p].crashed = node[p].crashed,
         S \subseteq Trains, \A s \in S : s.acks = Proc,
         DeliveryEffect(n1, S, node'[p], dl),
         delivered'[p] = delivered[p] \cup dl,
         \A q \in Proc \ {p} : node'[q] = node[q] /\ delivered'[q] = delivered[q],
         \A m \in node'[p].pending : m[1] = p /\ m[2] < node'[p].nextSeq,
         \A t \in Trains' : \/ t \in Trains \/ t.acks # Proc
                            \/ \A q \in Proc : KeyOf(t) \notin node'[q].done
  PROVE  \A q \in Proc : NodeInv(q)' /\ DoneInv(q)'
  <1>1. PICK D \in SUBSET S :
           /\ node'[p].done = node[p].done \cup KeysOf(D)
           /\ dl = NonEmpty(D)
           /\ node'[p].parked \subseteq S
           /\ \A d \in D : /\ SeenClocksAdvancedEnough(n1, KeyOf(d))
                           /\ PriorKnownIn(n1, KeyOf(d), node'[p].done)
    BY DEF DeliveryEffect
  <1>2. /\ \A q \in Proc : node[q] \in Node /\ node'[q] \in Node
        /\ Trains \subseteq Train
    BY TrainsType DEF TrainsInv, TypeOK
  <1>3. \A q \in Proc : NodeInv(q) /\ DoneInv(q)
    BY DEF TrainsInv
  <1>4. \A q \in Proc : node'[q].done \subseteq Key /\ node[q].done \subseteq Key
    BY <1>2 DEF Node
  <1>5. \A q \in Proc : NodeInv(q)'
    <2>1. ASSUME NEW q \in Proc \ {p} PROVE NodeInv(q)'
      BY <1>3, <2>1 DEF NodeInv
    <2>2. \A t \in delivered'[p] : t.acks = Proc /\ t.payloads # {} /\ KeyOf(t) \in node'[p].done
      BY <1>1, <1>3 DEF NodeInv, NonEmpty, KeysOf
    <2>3. \A t \in node'[p].parked : t.acks = Proc
      BY <1>1
    <2>4. node'[p].nextIssue >= 1
      BY <1>2, <1>3 DEF NodeInv, Grows, Node
    <2>5. NodeInv(p)'
      BY <1>3, <2>2, <2>3, <2>4 DEF NodeInv
    <2> QED
      BY <2>1, <2>5
  \* The finished keys: old ones, or those of D.
  <1>6. ASSUME NEW q \in Proc, NEW k \in node'[q].done
        PROVE  /\ k[1] >= 1 /\ k[2] \in Issuer
               /\ \A a \in Proc : a # k[2] => node'[a].seen[k[2]] >= k[1]
    <2>0. k \in Key /\ k[1] \in Nat /\ k[2] \in Proc
      BY <1>4 DEF Key
    <2>1. CASE k \in node[q].done
      <3>1. /\ k[1] >= 1 /\ k[2] \in Issuer
            /\ \A a \in Proc : a # k[2] => node[a].seen[k[2]] >= k[1]
        BY <1>3, <2>1 DEF DoneInv
      <3> QED
        BY <3>1, <2>0, <1>2 DEF Grows, Node
    <2>2. CASE k \notin node[q].done
      <3>1. PICK d \in D : k = KeyOf(d)
        BY <1>1, <2>2 DEF KeysOf
      <3>2. d \in Trains /\ d \in Train /\ d.acks = Proc
        BY <1>1, <1>2
      <3>3. TrainInv(d) /\ k[1] = d.clock /\ k[2] = d.issuer
        BY <3>1, <3>2 DEF TrainsInv, KeyOf
      <3>4. \A a \in Proc : a # k[2] => node[a].seen[k[2]] >= k[1]
        BY <3>2, <3>3 DEF TrainInv
      <3>5. k[1] >= 1 /\ k[2] \in Issuer
        BY <3>3 DEF TrainInv
      <3> QED
        BY <3>4, <3>5, <2>0, <1>2 DEF Grows, Node
    <2> QED
      BY <2>1, <2>2
  <1>7. ASSUME NEW q \in Proc, NEW k \in node'[q].done,
               NEW j \in (1..k[1]) \X Issuer, Less(j, k)
        PROVE  j \in node'[q].done
    <2>1. CASE k \in node[q].done
      <3>1. j \in node[q].done
        BY <1>3, <1>7, <2>1 DEF DoneInv
      <3> QED
        BY <3>1, <1>1
    <2>2. CASE k \notin node[q].done
      <3>1. PICK d \in D : q = p /\ k = KeyOf(d)
        BY <1>1, <2>2 DEF KeysOf
      <3>2. k[1] \in Nat /\ n1.crashed = {}
        BY <1>3, <1>4 DEF Key, NodeInv
      <3>3. j[2] \in Issuer /\ j[1] \in 1..k[1] /\ j = <<j[1], j[2]>>
        OBVIOUS
      <3>4. n1.seen[j[2]] >= k[1] /\ n1.seen[j[2]] \in Nat
        BY <1>1, <3>1, <3>2, <3>3, IssuerIsProc DEF SeenClocksAdvancedEnough, Node
      <3>5. j[1] \in 1..n1.seen[j[2]] /\ j[2] \in Proc
        BY <3>2, <3>3, <3>4, IssuerIsProc
      <3> QED
        BY <1>1, <1>7, <3>1, <3>3, <3>5 DEF PriorKnownIn
    <2> QED
      BY <2>1, <2>2
  <1>8. ASSUME NEW q \in Proc, NEW k \in node'[q].done, NEW t \in Trains',
               t.acks = Proc, KeyOf(t) = k, t.payloads # {}
        PROVE  t \in delivered'[q]
    <2>1. t \in Trains
      BY <1>8
    <2>2. CASE k \in node[q].done
      <3>1. t \in delivered[q]
        BY <1>3, <1>8, <2>1, <2>2 DEF DoneInv
      <3> QED
        BY <3>1
    <2>3. CASE k \notin node[q].done
      <3>1. PICK d \in D : q = p /\ k = KeyOf(d)
        BY <1>1, <2>3 DEF KeysOf
      <3>2. d \in Trains /\ d.acks = Proc
        BY <1>1
      <3>3. t = d
        BY <1>8, <2>1, <3>1, <3>2, FullTrainUnique
      <3> QED
        BY <1>1, <1>8, <3>1, <3>3 DEF NonEmpty
    <2> QED
      BY <2>2, <2>3
  <1>9. \A q \in Proc : DoneInv(q)'
    BY <1>6, <1>7, <1>8 DEF DoneInv
  <1> QED
    BY <1>5, <1>9

-----------------------------------------------------------------------------
\* The invariant holds initially.
LEMMA InitTrainsInv == Init => TrainsInv
  <1> SUFFICES ASSUME Init PROVE TrainsInv
    OBVIOUS
  <1>1. \A p \in Proc : /\ node[p] = NewNode /\ delivered[p] = {}
    BY DEF Init
  <1>2. Trains = {}
    BY <1>1 DEF Trains, Init, NewNode
  <1>3. TypeOK
    BY NewNodeType, BoundsAssumption DEF Init, TypeOK, Messages
  <1>4. \A p \in Proc : NodeInv(p) /\ DoneInv(p)
    BY <1>1 DEF NodeInv, DoneInv, NewNode
  <1> QED
    BY <1>2, <1>3, <1>4 DEF TrainsInv

\* A step that changes no node and no log, and puts no new train on the ring.
LEMMA InvUnchanged ==
  ASSUME TrainsInv, TypeOK', UNCHANGED <<node, delivered>>, net' \subseteq net
  PROVE  TrainsInv'
  <1>1. Trains' \subseteq Trains
    BY DEF Trains
  <1>2. \A t \in Trains' : TrainInv(t)'
    BY <1>1 DEF TrainsInv, TrainInv
  <1>3. \A t, u \in Trains' : LoadInv(t, u)'
    BY <1>1 DEF TrainsInv, LoadInv
  <1>4. \A p \in Proc : NodeInv(p)' /\ DoneInv(p)'
    BY <1>1 DEF TrainsInv, NodeInv, DoneInv
  <1> QED
    BY <1>2, <1>3, <1>4 DEF TrainsInv

\* A step that adds no train keeps the invariant on trains.
LEMMA NoNewTrain ==
  ASSUME TrainsInv, TypeOK', \A q \in Proc : Grows(q), Trains' \subseteq Trains
  PROVE  /\ \A t \in Trains' : TrainInv(t)'
         /\ \A t, u \in Trains' : LoadInv(t, u)'
  <1>1. \A t \in Trains : t \in Train /\ TrainInv(t)
    BY TrainsType DEF TrainsInv
  <1>2. \A t \in Trains' : TrainInv(t)'
    BY <1>1, TrainInvKept DEF TrainsInv
  <1>3. \A t, u \in Trains' : LoadInv(t, u)'
    BY DEF TrainsInv, LoadInv
  <1> QED
    BY <1>2, <1>3

\* A step that adds one train x whose payloads are new but for those of a train
\* with the same key and fewer acks.
LEMMA OneNewTrain ==
  ASSUME TrainsInv, TypeOK', \A q \in Proc : Grows(q), NEW x \in Train,
         Trains' \subseteq Trains \cup {x},
         TrainInv(x)', \A u \in Trains : LoadInv(x, u) /\ LoadInv(u, x)
  PROVE  /\ \A t \in Trains' : TrainInv(t)'
         /\ \A t, u \in Trains' : LoadInv(t, u)'
  <1>1. \A t \in Trains : t \in Train /\ TrainInv(t)
    BY TrainsType DEF TrainsInv
  <1>2. \A t \in Trains' : TrainInv(t)'
    BY <1>1, TrainInvKept DEF TrainsInv
  <1>3. LoadInv(x, x)
    BY DEF LoadInv
  <1>4. \A t, u \in Trains' : LoadInv(t, u)
    BY <1>3 DEF TrainsInv
  <1>5. \A t, u \in Trains' : LoadInv(t, u)'
    BY <1>4 DEF LoadInv
  <1> QED
    BY <1>2, <1>5

\* Issuing a train (start-up and recycling) preserves the invariant: the key
\* is new, and what was pending is on no other train.
LEMMA IssueStep ==
  ASSUME TrainsInv, TypeOK', NEW p \in Proc, p \in Issuer,
         node'[p].done = node[p].done, node'[p].parked = node[p].parked,
         node'[p].crashed = node[p].crashed, node'[p].nextSeq = node[p].nextSeq,
         node'[p].nextIssue = node[p].nextIssue + 1, node'[p].pending = {},
         \A q \in Proc : node'[p].seen[q] >= node[p].seen[q],
         \A q \in Proc \ {p} : node'[q] = node[q],
         delivered' = delivered,
         net' \subseteq net \cup {<<Succ(p), NewTrain(p, node[p])>>}
  PROVE  TrainsInv'
  <1>0. PICK x : x = NewTrain(p, node[p])
    OBVIOUS
  <1>1. \A q \in Proc : node[q] \in Node /\ node'[q] \in Node
    BY DEF TrainsInv, TypeOK
  <1>2. x \in Train
    BY <1>0, <1>1, IssueEffect
  <1>3. \A q \in Proc : Grows(q)
    BY <1>1 DEF Grows, Node
  <1>4. NodeInv(p)
    BY DEF TrainsInv
  <1>5. /\ x.issuer = p /\ x.clock = node[p].nextIssue /\ x.payloads = node[p].pending
        /\ x.acks = {p} /\ KeyOf(x) = <<node[p].nextIssue, p>>
    BY <1>0 DEF NewTrain, KeyOf
  <1>6. Trains' \subseteq Trains \cup {x}
    <2> SUFFICES ASSUME NEW t \in Trains' PROVE t \in Trains \/ t = x
      OBVIOUS
    <2>1. CASE \E m \in net' : t = m[2]
      BY <1>0, <2>1, InTrains
    <2>2. CASE \E q \in Proc : t \in node'[q].parked \/ t \in delivered'[q]
      BY <2>2, InTrains
    <2> QED
      BY <2>1, <2>2, InTrainsNext
  <1>7. TrainInv(x)'
    <2>1. x.clock >= 1 /\ x.clock < node'[p].nextIssue
      BY <1>1, <1>4, <1>5 DEF NodeInv, Node
    <2> QED
      BY <1>4, <1>5, <2>1 DEF NodeInv, TrainInv
  <1>8. ASSUME NEW u \in Trains PROVE LoadInv(x, u) /\ LoadInv(u, x)
    <2>1. TrainInv(u) /\ u \in Train
      BY TrainsType DEF TrainsInv
    <2>2. KeyOf(x) # KeyOf(u)
      BY <1>1, <1>5, <2>1 DEF TrainInv, KeyOf, Train, Node
    <2>3. x.payloads \cap u.payloads = {}
      BY <1>4, <1>5, <2>1 DEF NodeInv, TrainInv
    <2> QED
      BY <2>2, <2>3 DEF LoadInv
  <1>9. (\A t \in Trains' : TrainInv(t)') /\ (\A t, u \in Trains' : LoadInv(t, u)')
    BY <1>2, <1>3, <1>6, <1>7, <1>8, OneNewTrain
  <1>10. x.acks # Proc
    BY <1>5, RingAssumption DEF Proc
  <1>11. PICK n1, S : n1 = node'[p] /\ S = node[p].parked
    OBVIOUS
  <1>12. DeliveryEffect(n1, S, node'[p], {})
    BY <1>11, {} \in SUBSET node[p].parked DEF DeliveryEffect, KeysOf, NonEmpty
  <1>13. S \subseteq Trains /\ \A s \in S : s.acks = Proc
    BY <1>4, <1>11, InTrains DEF NodeInv
  <1>14. n1 \in Node /\ n1.seen = node'[p].seen /\ n1.done = node[p].done /\ n1.crashed = node[p].crashed
    BY <1>1, <1>11
  <1>15. \A t \in Trains' : t \in Trains \/ t.acks # Proc
    BY <1>6, <1>10
  <1>16. \A m \in node'[p].pending : m[1] = p /\ m[2] < node'[p].nextSeq
    OBVIOUS
  <1>17. delivered'[p] = delivered[p] \cup {} /\ \A q \in Proc \ {p} : delivered'[q] = delivered[q]
    OBVIOUS
  <1>18. \A q \in Proc : NodeInv(q)' /\ DoneInv(q)'
    BY <1>3, <1>12, <1>13, <1>14, <1>15, <1>16, <1>17, NodesKept
  <1> QED
    BY <1>9, <1>18 DEF TrainsInv

\* Accepting a broadcast preserves the invariant: its sequence number is new.
LEMMA BroadcastStep ==
  ASSUME TrainsInv, TypeOK', NEW p \in Proc, Broadcast(p)
  PROVE  TrainsInv'
  <1>1. PICK r : r = HandleBroadcast(p, node[p])
    OBVIOUS
  <1>2. \A q \in Proc : node[q] \in Node /\ node'[q] \in Node
    BY DEF TrainsInv, TypeOK
  <1>3. /\ node'[p] = r
        /\ \A q \in Proc \ {p} : node'[q] = node[q] /\ delivered'[q] = delivered[q]
        /\ delivered' = delivered /\ net' = net
    BY <1>1 DEF Broadcast, TrainsInv, TypeOK
  <1>4. /\ r \in Node
        /\ r.seen = node[p].seen /\ r.done = node[p].done /\ r.parked = node[p].parked
        /\ r.crashed = node[p].crashed /\ r.nextIssue = node[p].nextIssue
        /\ r.nextSeq >= node[p].nextSeq
        /\ \A m \in r.pending : \/ m \in node[p].pending
                                \/ m = <<p, node[p].nextSeq>> /\ r.nextSeq = node[p].nextSeq + 1
    BY <1>1, <1>2, BroadcastEffect
  <1>5. NodeInv(p)
    BY DEF TrainsInv
  <1>6. \A q \in Proc : Grows(q)
    BY <1>2, <1>3, <1>4 DEF Grows, Node
  <1>7. \A m \in node'[p].pending : m[1] = p /\ m[2] < node'[p].nextSeq
    <2> SUFFICES ASSUME NEW m \in r.pending PROVE m[1] = p /\ m[2] < r.nextSeq
      BY <1>3
    <2>1. m \in Payload /\ r.nextSeq \in Nat /\ node[p].nextSeq \in Nat
      BY <1>2, <1>4 DEF Node
    <2> QED
      BY <1>4, <1>5, <2>1 DEF NodeInv, Payload
  <1>8. Trains' \subseteq Trains
    <2>1. \A q \in Proc : node'[q].parked = node[q].parked
      BY <1>3, <1>4
    <2> QED
      BY <1>3, <2>1, InTrains, InTrainsNext
  <1>9. (\A t \in Trains' : TrainInv(t)') /\ (\A t, u \in Trains' : LoadInv(t, u)')
    BY <1>6, <1>8, NoNewTrain
  <1>10. PICK S : S = node[p].parked
    OBVIOUS
  <1>11. DeliveryEffect(r, S, node'[p], {})
    BY <1>3, <1>4, <1>10, {} \in SUBSET node[p].parked DEF DeliveryEffect, KeysOf, NonEmpty
  <1>12. S \subseteq Trains /\ \A s \in S : s.acks = Proc
    BY <1>5, <1>10, InTrains DEF NodeInv
  <1>13. r.seen = node'[p].seen /\ node'[p].crashed = node[p].crashed /\ delivered'[p] = delivered[p] \cup {}
    BY <1>3, <1>4
  <1>14. \A q \in Proc : NodeInv(q)' /\ DoneInv(q)'
    BY <1>3, <1>4, <1>6, <1>7, <1>8, <1>11, <1>12, <1>13, NodesKept
  <1> QED
    BY <1>9, <1>14 DEF TrainsInv

\* What a step of handle_train at p does to the variables.
Steps(p, r) ==
    /\ node' = [node EXCEPT ![p] = r.node]
    /\ delivered' = [delivered EXCEPT ![p] = @ \cup r.deliver]
    /\ net' \subseteq net \cup {<<Succ(p), u>> : u \in r.forward}

\* A train passed on unchanged, with the deliveries it causes.
LEMMA PassStep ==
  ASSUME TrainsInv, TypeOK', NEW p \in Proc, NEW t, <<p, t>> \in net,
         NEW r, r.node \in Node, Steps(p, r), Passes(node[p], t, r)
  PROVE  TrainsInv'
  <1>1. \A q \in Proc : node[q] \in Node /\ node'[q] \in Node
    BY DEF TrainsInv, TypeOK
  <1>2. /\ node'[p] = r.node /\ delivered'[p] = delivered[p] \cup r.deliver
        /\ \A q \in Proc \ {p} : node'[q] = node[q] /\ delivered'[q] = delivered[q]
        /\ net' \subseteq net \cup {<<Succ(p), t>>}
    BY DEF Steps, Passes, TrainsInv, TypeOK
  <1>3. t \in Trains /\ t \in Train /\ NodeInv(p)
    BY HandleType DEF TrainsInv
  <1>4. PICK n1 \in Node : /\ n1.seen = r.node.seen /\ n1.done = node[p].done
                           /\ n1.parked = node[p].parked /\ n1.crashed = node[p].crashed
                           /\ DeliveryEffect(n1, Candidates(n1, t), r.node, r.deliver)
    BY DEF Passes
  <1> DEFINE S == Candidates(n1, t)
  <1>5. \A s \in S : s.acks = Proc
    <2>1. n1.crashed = {} /\ \A s \in n1.parked : s.acks = Proc
      BY <1>3, <1>4 DEF NodeInv
    <2>2. ReadyToDeliver(n1, t.acks) => t.acks = Proc
      BY <1>3, <2>1 DEF ReadyToDeliver, Train
    <2> QED
      BY <2>1, <2>2 DEF Candidates
  <1>6. S \subseteq Trains
    BY <1>3, <1>4, InTrains DEF Candidates
  <1>7. \A q \in Proc : Grows(q)
    BY <1>1, <1>2 DEF Grows, Passes, Node
  <1>8. r.deliver \subseteq S /\ r.node.parked \subseteq S
    BY <1>4 DEF DeliveryEffect, NonEmpty
  <1>9. Trains' \subseteq Trains
    <2> SUFFICES ASSUME NEW u \in Trains' PROVE u \in Trains
      OBVIOUS
    <2>1. CASE \E m \in net' : u = m[2]
      BY <1>2, <1>3, <2>1, InTrains
    <2>2. CASE \E q \in Proc : u \in node'[q].parked \/ u \in delivered'[q]
      BY <1>2, <1>6, <1>8, <2>2, InTrains
    <2> QED
      BY <2>1, <2>2, InTrainsNext
  <1>10. (\A u \in Trains' : TrainInv(u)') /\ (\A u, v \in Trains' : LoadInv(u, v)')
    BY <1>7, <1>9, NoNewTrain
  <1>11. \A m \in node'[p].pending : m[1] = p /\ m[2] < node'[p].nextSeq
    BY <1>2, <1>3 DEF NodeInv, Passes
  <1>12. n1.seen = node'[p].seen /\ node'[p].crashed = node[p].crashed
         /\ DeliveryEffect(n1, S, node'[p], r.deliver)
    BY <1>2, <1>4 DEF Passes
  <1> HIDE DEF S
  <1>13. \A q \in Proc : NodeInv(q)' /\ DoneInv(q)'
    BY <1>2, <1>4, <1>5, <1>6, <1>7, <1>9, <1>11, <1>12, NodesKept
  <1> QED
    BY <1>10, <1>13 DEF TrainsInv

\* First lap: the ack and the loaded payloads go on the train together.
LEMMA LoadStep ==
  ASSUME TrainsInv, TypeOK', NEW p \in Proc, NEW t, <<p, t>> \in net,
         NEW r, r.node \in Node, Steps(p, r), Loads(p, node[p], t, r)
  PROVE  TrainsInv'
  <1>1. \A q \in Proc : node[q] \in Node /\ node'[q] \in Node
    BY DEF TrainsInv, TypeOK
  <1>2. t \in Trains /\ t \in Train /\ NodeInv(p) /\ TrainInv(t)
    BY HandleType DEF TrainsInv
  <1>3. PICK x : x = [t EXCEPT !.payloads = @ \cup node[p].pending, !.acks = @ \cup {p}]
    OBVIOUS
  <1>4. /\ x \in Train /\ x.issuer = t.issuer /\ x.clock = t.clock
        /\ x.payloads = t.payloads \cup node[p].pending /\ x.acks = t.acks \cup {p}
        /\ KeyOf(x) = KeyOf(t)
    BY <1>1, <1>2, <1>3 DEF Train, Node, KeyOf
  <1>5. /\ node'[p] = r.node /\ delivered'[p] = delivered[p] \cup r.deliver
        /\ \A q \in Proc \ {p} : node'[q] = node[q] /\ delivered'[q] = delivered[q]
        /\ net' \subseteq net \cup {<<Succ(p), x>>}
    BY <1>3 DEF Steps, Loads, TrainsInv, TypeOK
  <1>6. t.issuer # p /\ node[p].seen[t.issuer] < t.clock
    BY DEF Loads
  <1>7. PICK n1 \in Node : /\ n1.seen = r.node.seen /\ n1.done = node[p].done
                           /\ n1.parked = node[p].parked /\ n1.crashed = node[p].crashed
                           /\ DeliveryEffect(n1, n1.parked, r.node, r.deliver)
    BY DEF Loads
  <1>8. n1.parked \subseteq Trains /\ \A s \in n1.parked : s.acks = Proc
    BY <1>2, <1>7, InTrains DEF NodeInv
  <1>9. \A q \in Proc : Grows(q)
    <2>1. \A i \in Proc : r.node.seen[i] >= node[p].seen[i]
      BY <1>1, <1>2, <1>6 DEF Loads, Node, Train
    <2>2. /\ r.node.nextIssue = node[p].nextIssue /\ r.node.nextSeq = node[p].nextSeq
          /\ r.node.pending = {}
      BY DEF Loads
    <2>3. \A q \in Proc : /\ node[q].nextIssue \in Nat /\ node[q].nextSeq \in Nat
                          /\ node[q].seen \in [Proc -> Nat]
      BY <1>1 DEF Node
    <2>4. Grows(p)
      BY <1>5, <2>1, <2>2, <2>3 DEF Grows
    <2>5. \A q \in Proc \ {p} : Grows(q)
      BY <1>5, <2>3 DEF Grows
    <2> QED
      BY <2>4, <2>5
  <1>10. r.deliver \subseteq n1.parked /\ r.node.parked \subseteq n1.parked
    BY <1>7 DEF DeliveryEffect, NonEmpty
  <1>11. Trains' \subseteq Trains \cup {x}
    <2> SUFFICES ASSUME NEW u \in Trains' PROVE u \in Trains \/ u = x
      OBVIOUS
    <2>1. CASE \E m \in net' : u = m[2]
      BY <1>5, <2>1, InTrains
    <2>2. CASE \E q \in Proc : u \in node'[q].parked \/ u \in delivered'[q]
      BY <1>5, <1>8, <1>10, <2>2, InTrains
    <2> QED
      BY <2>1, <2>2, InTrainsNext
  \* No other train with this key has p's ack: p sees the key for the first time.
  <1>12. ASSUME NEW u \in Trains, KeyOf(u) = KeyOf(t) PROVE p \notin u.acks
    <2>1. TrainInv(u) /\ u.issuer = t.issuer /\ u.clock = t.clock
      BY <1>12 DEF TrainsInv, KeyOf
    <2>2. node[p].seen[t.issuer] \in Nat /\ t.clock \in Nat
      BY <1>1, <1>2 DEF Node, Train
    <2> QED
      BY <1>6, <2>1, <2>2 DEF TrainInv
  <1>13. TrainInv(x)'
    <2>1. TrainInv(t)'
      BY <1>2, <1>9, TrainInvKept DEF TrainsInv
    <2>2. node'[p].seen[t.issuer] >= t.clock
      BY <1>1, <1>2, <1>5 DEF Loads, Node, Train
    <2>3. \A m \in node[p].pending : /\ m[1] = p /\ m[2] < node'[p].nextSeq
                                     /\ m \notin node'[p].pending
      BY <1>2, <1>5 DEF NodeInv, Loads
    <2> QED
      BY <1>4, <2>1, <2>2, <2>3 DEF TrainInv
  <1>14. ASSUME NEW u \in Trains PROVE LoadInv(x, u) /\ LoadInv(u, x)
    <2>1. LoadInv(t, u) /\ LoadInv(u, t) /\ TrainInv(u)
      BY <1>2 DEF TrainsInv
    <2>2. CASE KeyOf(u) = KeyOf(t)
      <3>1. p \notin u.acks
        BY <1>12, <2>2
      <3>2. \A m \in node[p].pending : m[1] = p
        BY <1>2 DEF NodeInv
      <3>3. \A m \in u.payloads : m[1] \in u.acks
        BY <2>1 DEF TrainInv
      <3> QED
        BY <1>4, <2>1, <2>2, <3>1, <3>2, <3>3 DEF LoadInv
    <2>3. CASE KeyOf(u) # KeyOf(t)
      <3>1. node[p].pending \cap u.payloads = {}
        BY <1>2, <2>1 DEF NodeInv, TrainInv
      <3> QED
        BY <1>4, <2>1, <2>3, <3>1 DEF LoadInv
    <2> QED
      BY <2>2, <2>3
  <1>15. (\A u \in Trains' : TrainInv(u)') /\ (\A u, v \in Trains' : LoadInv(u, v)')
    BY <1>4, <1>9, <1>11, <1>13, <1>14, OneNewTrain
  <1>16. ASSUME NEW q \in Proc PROVE KeyOf(x) \notin node'[q].done
    <2>1. ASSUME KeyOf(t) \in node[q].done PROVE FALSE
      <3>1. node[p].seen[t.issuer] >= t.clock
        BY <1>6, <2>1 DEF TrainsInv, DoneInv, KeyOf
      <3> QED
        BY <1>1, <1>2, <1>6, <3>1 DEF Node, Train
    <2>2. ASSUME KeyOf(t) \in KeysOf(n1.parked) PROVE FALSE
      <3>1. PICK d \in n1.parked : KeyOf(d) = KeyOf(t)
        BY <2>2 DEF KeysOf
      <3> QED
        BY <1>8, <1>12, <3>1
    <2>3. node'[q].done \subseteq node[q].done \cup KeysOf(n1.parked)
      BY <1>5, <1>7 DEF DeliveryEffect, KeysOf
    <2> QED
      BY <1>4, <2>1, <2>2, <2>3
  <1>17. \A u \in Trains' : u \in Trains \/ \A q \in Proc : KeyOf(u) \notin node'[q].done
    BY <1>11, <1>16
  <1>18. /\ n1.seen = node'[p].seen /\ node'[p].crashed = node[p].crashed
         /\ DeliveryEffect(n1, n1.parked, node'[p], r.deliver)
         /\ \A m \in node'[p].pending : m[1] = p /\ m[2] < node'[p].nextSeq
    BY <1>5, <1>7 DEF Loads
  <1>19. PICK S : S = n1.parked
    OBVIOUS
  <1>20. S \subseteq Trains /\ (\A s \in S : s.acks = Proc) /\ DeliveryEffect(n1, S, node'[p], r.deliver)
    BY <1>8, <1>18, <1>19
  <1>21. \A q \in Proc : NodeInv(q)' /\ DoneInv(q)'
    BY <1>5, <1>7, <1>9, <1>17, <1>18, <1>20, NodesKept
  <1> QED
    BY <1>15, <1>21 DEF TrainsInv

\* Receiving a train, whether or not a copy of it is still on the link.
LEMMA HandleStep ==
  ASSUME TrainsInv, TypeOK', NEW p \in Proc, NEW t, <<p, t>> \in net,
         NEW rest, rest \subseteq net, Handle(p, t, rest)
  PROVE  TrainsInv'
  <1>1. PICK r : r = HandleTrain(p, node[p], t)
    OBVIOUS
  <1>2. t \in Train /\ TrainInv(t) /\ node[p] \in Node /\ r.node \in Node
    BY <1>1, HandleType
  <1>3. Steps(p, r)
    BY <1>1 DEF Handle, Steps
  <1>4. \/ Absorbs(node[p], r) \/ Passes(node[p], t, r) \/ Loads(p, node[p], t, r)
        \/ t.issuer = p /\ Recycles(p, node[p], t, r)
    BY <1>1, <1>2, HandleTrainEffect DEF TrainInv
  <1>5. CASE Absorbs(node[p], r)
    <2>1. node' = node /\ delivered' = delivered /\ net' \subseteq net
      BY <1>3, <1>5 DEF Absorbs, Steps, TrainsInv, TypeOK
    <2> QED
      BY <2>1, InvUnchanged
  <1>6. CASE Passes(node[p], t, r)
    BY <1>2, <1>3, <1>6, PassStep
  <1>7. CASE Loads(p, node[p], t, r)
    BY <1>2, <1>3, <1>7, LoadStep
  <1>8. CASE t.issuer = p /\ Recycles(p, node[p], t, r)
    <2>1. p \in Issuer
      BY <1>2, <1>8 DEF TrainInv
    <2>2. /\ node'[p] = r.node /\ delivered' = delivered
          /\ \A q \in Proc \ {p} : node'[q] = node[q]
          /\ net' \subseteq net \cup {<<Succ(p), NewTrain(p, node[p])>>}
      BY <1>3, <1>8 DEF Steps, Recycles, TrainsInv, TypeOK
    <2>3. /\ node'[p].done = node[p].done /\ node'[p].parked = node[p].parked
          /\ node'[p].crashed = node[p].crashed /\ node'[p].nextSeq = node[p].nextSeq
          /\ node'[p].nextIssue = node[p].nextIssue + 1 /\ node'[p].pending = {}
          /\ \A q \in Proc : node'[p].seen[q] >= node[p].seen[q]
      BY <1>8, <2>2 DEF Recycles
    <2> QED
      BY <2>1, <2>2, <2>3, IssueStep
  <1> QED
    BY <1>4, <1>5, <1>6, <1>7, <1>8

\* Every step preserves this part of the invariant.
LEMMA NextTrainsInv == TrainsInv /\ [Next]_vars => TrainsInv'
  <1> SUFFICES ASSUME TrainsInv, [Next]_vars PROVE TrainsInv'
    OBVIOUS
  <1>0. TypeOK'
    BY TypeStep
  <1>1. ASSUME NEW p \in Proc, BootIssuer(p) PROVE TrainsInv'
    <2>1. node[p] \in Node
      BY DEF TrainsInv, TypeOK
    <2>2. /\ node'[p] = AfterIssue(node[p]) /\ delivered' = delivered
          /\ \A q \in Proc \ {p} : node'[q] = node[q]
          /\ net' \subseteq net \cup {<<Succ(p), NewTrain(p, node[p])>>} /\ p \in Issuer
      BY <1>1 DEF BootIssuer, TrainsInv, TypeOK
    <2>3. /\ node'[p].done = node[p].done /\ node'[p].parked = node[p].parked
          /\ node'[p].crashed = node[p].crashed /\ node'[p].nextSeq = node[p].nextSeq
          /\ node'[p].nextIssue = node[p].nextIssue + 1 /\ node'[p].pending = {}
          /\ node'[p].seen = node[p].seen
      BY <2>1, <2>2, IssueEffect
    <2>4. \A q \in Proc : node'[p].seen[q] >= node[p].seen[q]
      BY <2>1, <2>3 DEF Node
    <2> QED
      BY <1>0, <2>2, <2>3, <2>4, IssueStep
  <1>2. ASSUME NEW p \in Proc, BootOther(p) PROVE TrainsInv'
    BY <1>0, <1>2, InvUnchanged DEF BootOther
  <1>3. ASSUME NEW p \in Proc, Broadcast(p) PROVE TrainsInv'
    BY <1>0, <1>3, BroadcastStep
  <1>4. ASSUME NEW p \in Proc, Crash(p) PROVE TrainsInv'
    BY <1>0, <1>4, InvUnchanged DEF Crash
  <1>5. ASSUME NEW m \in net, Lose(m) PROVE TrainsInv'
    BY <1>0, <1>5, InvUnchanged DEF Lose
  <1>6. ASSUME NEW m \in net, Receive(m[1], m[2]) \/ ReceiveAndRetransmit(m[1], m[2])
        PROVE  TrainsInv'
    <2>1. PICK p, t, rest : /\ p = m[1] /\ t = m[2] /\ rest \subseteq net
                            /\ Handle(p, t, rest)
      BY <1>6 DEF Receive, ReceiveAndRetransmit
    <2>2. p \in Proc /\ <<p, t>> \in net
      BY <2>1 DEF TrainsInv, TypeOK, Messages
    <2> QED
      BY <1>0, <2>1, <2>2, HandleStep
  <1>7. CASE UNCHANGED vars
    BY <1>0, <1>7, InvUnchanged DEF vars
  <1> QED
    BY <1>1, <1>2, <1>3, <1>4, <1>5, <1>6, <1>7 DEF Next

\* TrainsInvariant: what is known of trains and finished keys holds in every
\* reachable state of the static ring, whatever links lose, repeat or reorder and
\* whoever crashes.
THEOREM TrainsInvariant == Spec => []TrainsInv
  <1>1. Init => TrainsInv
    BY InitTrainsInv
  <1>2. TrainsInv /\ [Next]_vars => TrainsInv'
    BY NextTrainsInv
  <1> QED
    BY <1>1, <1>2, PTL DEF Spec

\* TypeCorrect: every variable keeps its type.
THEOREM TypeCorrect == Spec => []TypeOK
  <1>1. TrainsInv => TypeOK
    BY DEF TrainsInv
  <1> QED
    BY <1>1, TrainsInvariant, PTL

\* OrderedDelivery: whatever a step finishes comes after all the process had
\* finished before (DeliveryInKeyOrder).
THEOREM OrderedDelivery == Spec => DeliveryInKeyOrder
  <1>1. ASSUME TrainsInv, TrainsInv', [Next]_vars
        PROVE  [\A p \in Proc : \A k \in node'[p].done \ node[p].done :
                   \A j \in node[p].done : Less(j, k)]_vars
    <2> SUFFICES ASSUME NEW p \in Proc, NEW k \in node'[p].done \ node[p].done,
                        NEW j \in node[p].done
                 PROVE  Less(j, k)
      OBVIOUS
    <2>1. j \in Key /\ k \in Key
      BY <1>1 DEF TrainsInv, TypeOK, Node
    <2>2. k[1] >= 1 /\ k[2] \in Issuer
      BY <1>1 DEF TrainsInv, DoneInv
    <2>3. DoneInv(p)
      BY <1>1 DEF TrainsInv
    <2>4. CASE Less(k, j)
      <3>1. k \in (1..j[1]) \X Issuer
        BY <2>1, <2>2, <2>4 DEF Less, Key
      <3> QED
        BY <2>3, <2>4, <3>1 DEF DoneInv
    <2> QED
      BY <2>1, <2>4, LessTotal
  <1> QED
    BY <1>1, TrainsInvariant, PTL DEF Spec, DeliveryInKeyOrder

-----------------------------------------------------------------------------
(* The logs: every train once, in key order. *)

\* A precedes the rest of B in key order.
InitialPart(A, B) ==
    /\ A \subseteq B
    /\ \A t \in A : \A u \in B \ A : Less(KeyOf(t), KeyOf(u))

\* What a process has delivered is finite, and no two trains have the same key.
LogSets ==
    \A p \in Proc : /\ delivered[p] \in SUBSET Train
                    /\ IsFiniteSet(delivered[p]) /\ DistinctKeys(delivered[p])

\* Delivered trains are fully acked.
LEMMA FiniteLogs == TrainsInv => LogSets
  <1> SUFFICES ASSUME TrainsInv, NEW p \in Proc
               PROVE  /\ delivered[p] \in SUBSET Train
                      /\ IsFiniteSet(delivered[p]) /\ DistinctKeys(delivered[p])
    BY DEF LogSets
  <1>1. PICK S : S = delivered[p]
    OBVIOUS
  <1>2. S \subseteq Trains /\ \A t \in S : t.acks = Proc
    BY <1>1, InTrains DEF TrainsInv, NodeInv
  <1> QED
    BY <1>1, <1>2, FullTrains

\* What a step delivers comes after what was delivered.
LEMMA LogGrows ==
  ASSUME TrainsInv, TrainsInv', NEW p \in Proc, delivered[p] \subseteq delivered'[p],
         delivered'[p] \subseteq Trains
  PROVE  InitialPart(delivered[p], delivered'[p])
  <1> SUFFICES ASSUME NEW t \in delivered[p], NEW u \in delivered'[p] \ delivered[p]
               PROVE  Less(KeyOf(t), KeyOf(u))
    BY DEF InitialPart
  <1>1. /\ KeyOf(t) \in node[p].done
        /\ KeyOf(u) \in node'[p].done /\ u.acks = Proc /\ u.payloads # {}
    BY DEF TrainsInv, NodeInv
  <1>2. KeyOf(u) \notin node[p].done
    BY <1>1 DEF TrainsInv, DoneInv
  <1>3. KeyOf(t) \in Key /\ KeyOf(u) \in Key
    BY <1>1 DEF TrainsInv, TypeOK, Node
  <1>4. KeyOf(u)[1] >= 1 /\ KeyOf(u)[2] \in Issuer
    BY <1>1 DEF TrainsInv, DoneInv
  <1>5. CASE Less(KeyOf(u), KeyOf(t))
    <2>1. KeyOf(u) \in (1..KeyOf(t)[1]) \X Issuer
      BY <1>3, <1>4, <1>5 DEF Less, Key
    <2> QED
      BY <1>1, <1>2, <1>5, <2>1 DEF TrainsInv, DoneInv
  <1> QED
    BY <1>1, <1>2, <1>3, <1>5, LessTotal

\* What a handled train changes: the log and the trains behind it grow together,
\* and the sequence numbers stay.
LEMMA HandleDelivers ==
  ASSUME TrainsInv, NEW p \in Proc, NEW t, <<p, t>> \in net,
         NEW rest, Handle(p, t, rest)
  PROVE  \E r : /\ r = HandleTrain(p, node[p], t)
                /\ node'[p] = r.node
                /\ \A q \in Proc : node'[q].nextSeq = node[q].nextSeq
                /\ \A q \in Proc \ {p} : /\ node'[q] = node[q] /\ log'[q] = log[q]
                                         /\ delivered'[q] = delivered[q]
                /\ log'[p] = log[p] \o LogOf(r.deliver)
                /\ delivered'[p] = delivered[p] \cup r.deliver
                /\ r.deliver \in SUBSET Train /\ IsFiniteSet(r.deliver) /\ DistinctKeys(r.deliver)
                /\ r.deliver \subseteq Trains
  <1>1. PICK r : r = HandleTrain(p, node[p], t)
    OBVIOUS
  <1>2. t \in Train /\ TrainInv(t) /\ node[p] \in Node
    BY HandleType
  <1>3. /\ node' = [node EXCEPT ![p] = r.node]
        /\ log' = [log EXCEPT ![p] = @ \o LogOf(r.deliver)]
        /\ delivered' = [delivered EXCEPT ![p] = @ \cup r.deliver]
    BY <1>1 DEF Handle
  <1>4. /\ node'[p] = r.node /\ log'[p] = log[p] \o LogOf(r.deliver)
        /\ delivered'[p] = delivered[p] \cup r.deliver
        /\ \A q \in Proc \ {p} : /\ node'[q] = node[q] /\ log'[q] = log[q]
                                 /\ delivered'[q] = delivered[q]
    BY <1>3 DEF TrainsInv, TypeOK
  <1>5. r.node.nextSeq = node[p].nextSeq
    <2>1. \/ Absorbs(node[p], r) \/ Passes(node[p], t, r) \/ Loads(p, node[p], t, r)
          \/ t.issuer = p /\ Recycles(p, node[p], t, r)
      BY <1>1, <1>2, HandleTrainEffect DEF TrainInv
    <2> QED
      BY <2>1 DEF Absorbs, Passes, Loads, Recycles
  <1>6. /\ r.deliver \in SUBSET Train /\ IsFiniteSet(r.deliver) /\ DistinctKeys(r.deliver)
        /\ r.deliver \subseteq Trains
    BY <1>1, HandleFull
  <1> QED
    BY <1>1, <1>4, <1>5, <1>6

\* A process whose log and parked trains a step leaves alone.
LEMMA LogKept ==
  ASSUME NEW q \in Proc, LogInv(q), log'[q] = log[q], delivered'[q] = delivered[q],
         node'[q].seen = node[q].seen, node'[q].done = node[q].done,
         node'[q].parked = node[q].parked, node'[q].crashed = node[q].crashed,
         node'[q].frozen = node[q].frozen
  PROVE  LogInv(q)'
  <1>1. PICK n, m : n = node[q] /\ m = node'[q]
    OBVIOUS
  <1>2. Tidy(n) => Tidy(m)
    BY <1>1 DEF Tidy
  <1>3. Drained(m) = Drained(n)
    BY <1>1 DEF Drained, SeenClocksAdvancedEnough, PriorKnownIn
  <1> QED
    BY <1>1, <1>2, <1>3 DEF LogInv

\* A handled train: none of the keys it delivers was finished, so all of them come
\* after what the log holds.
LEMMA HandleLog ==
  ASSUME TrainsInv, TrainsInv', \A q \in Proc : LogInv(q),
         NEW p \in Proc, NEW t, <<p, t>> \in net, NEW rest, Handle(p, t, rest)
  PROVE  \A q \in Proc : LogInv(q)'
  <1>1. PICK r : /\ r = HandleTrain(p, node[p], t)
                 /\ node'[p] = r.node
                 /\ \A q \in Proc \ {p} : /\ node'[q] = node[q] /\ log'[q] = log[q]
                                          /\ delivered'[q] = delivered[q]
                 /\ log'[p] = log[p] \o LogOf(r.deliver)
                 /\ delivered'[p] = delivered[p] \cup r.deliver
                 /\ r.deliver \in SUBSET Train /\ IsFiniteSet(r.deliver)
                 /\ DistinctKeys(r.deliver) /\ r.deliver \subseteq Trains
    BY HandleDelivers
  <1>2. /\ t \in Train /\ t.clock >= 1 /\ node[p] \in Node
        /\ Tidy(node[p]) /\ Drained(node[p]) = {} /\ log[p] = LogOf(delivered[p])
    BY HandleType DEF TrainInv, LogInv
  <1>3. PICK D : Releases(node[p], r.node, D) /\ r.deliver = NonEmpty(D)
    BY <1>1, <1>2, HandleReleases
  <1>4. Tidy(node'[p]) /\ Drained(node'[p]) = {}
    BY <1>1, <1>3 DEF Releases
  <1>5. PICK A, B : A = delivered[p] /\ B = r.deliver
    OBVIOUS
  <1>6. /\ A \in SUBSET Train /\ IsFiniteSet(A) /\ DistinctKeys(A)
        /\ B \in SUBSET Train /\ IsFiniteSet(B) /\ DistinctKeys(B)
    BY <1>1, <1>5, FiniteLogs DEF LogSets
  <1>7. A \subseteq A \cup B /\ A \cup B \subseteq Trains
    BY <1>1, <1>5, InTrains
  <1>8. A \cap B = {}
    <2>1. \A u \in B : KeyOf(u) \notin node[p].done
      BY <1>3, <1>5 DEF Releases, KeysOf, NonEmpty
    <2>2. \A u \in A : KeyOf(u) \in node[p].done
      BY <1>5 DEF TrainsInv, NodeInv
    <2> QED
      BY <2>1, <2>2
  <1>9. InitialPart(A, A \cup B)
    BY <1>1, <1>5, <1>7, LogGrows
  <1>10. \A x \in A, u \in B : Less(KeyOf(x), KeyOf(u))
    BY <1>8, <1>9 DEF InitialPart
  <1>11. LogOf(A \cup B) = LogOf(A) \o LogOf(B)
    BY <1>6, <1>10, LogOfUnion
  <1>12. log'[p] = LogOf(delivered'[p])
    BY <1>1, <1>2, <1>5, <1>11
  <1>13. LogInv(p)'
    BY <1>4, <1>12 DEF LogInv
  <1>14. ASSUME NEW q \in Proc \ {p} PROVE LogInv(q)'
    BY <1>1, <1>14, LogKept
  <1> QED
    BY <1>13, <1>14

\* Every step keeps the logs in order.
LEMMA NextLog ==
  ASSUME TrainsInv, TrainsInv', \A q \in Proc : LogInv(q), [Next]_vars
  PROVE  \A q \in Proc : LogInv(q)'
  <1>1. ASSUME log' = log, delivered' = delivered,
               \A q \in Proc : /\ node'[q].seen = node[q].seen /\ node'[q].done = node[q].done
                               /\ node'[q].parked = node[q].parked
                               /\ node'[q].crashed = node[q].crashed
                               /\ node'[q].frozen = node[q].frozen
        PROVE  \A q \in Proc : LogInv(q)'
    BY <1>1, LogKept
  <1>2. ASSUME NEW p \in Proc, BootIssuer(p) PROVE \A q \in Proc : LogInv(q)'
    <2>1. log' = log /\ delivered' = delivered /\ node' = [node EXCEPT ![p] = AfterIssue(node[p])]
      BY <1>2 DEF BootIssuer
    <2>2. \A q \in Proc : node[q] \in Node
      BY DEF TrainsInv, TypeOK
    <2>3. \A q \in Proc : node'[q] = IF q = p THEN AfterIssue(node[p]) ELSE node[q]
      BY <2>1 DEF TrainsInv, TypeOK
    <2> QED
      BY <1>1, <2>1, <2>2, <2>3 DEF AfterIssue, Node
  <1>3. ASSUME NEW p \in Proc, Broadcast(p) PROVE \A q \in Proc : LogInv(q)'
    <2>1. log' = log /\ delivered' = delivered /\ node' = [node EXCEPT ![p] = HandleBroadcast(p, node[p])]
      BY <1>3 DEF Broadcast
    <2>2. \A q \in Proc : node[q] \in Node
      BY DEF TrainsInv, TypeOK
    <2>3. \A q \in Proc : node'[q] = IF q = p THEN HandleBroadcast(p, node[p]) ELSE node[q]
      BY <2>1 DEF TrainsInv, TypeOK
    <2>4. PICK n : n = node[p]
      OBVIOUS
    <2>5. LET m == HandleBroadcast(p, n) IN
          /\ m.seen = n.seen /\ m.done = n.done /\ m.parked = n.parked
          /\ m.crashed = n.crashed /\ m.frozen = n.frozen
      BY <2>2, <2>4 DEF HandleBroadcast, Node
    <2> QED
      BY <1>1, <2>1, <2>3, <2>4, <2>5
  <1>4. ASSUME NEW p \in Proc, BootOther(p) \/ Crash(p) PROVE \A q \in Proc : LogInv(q)'
    BY <1>1, <1>4 DEF BootOther, Crash
  <1>5. ASSUME NEW m \in net, Lose(m) PROVE \A q \in Proc : LogInv(q)'
    BY <1>1, <1>5 DEF Lose
  <1>6. ASSUME NEW m \in net, Receive(m[1], m[2]) \/ ReceiveAndRetransmit(m[1], m[2])
        PROVE  \A q \in Proc : LogInv(q)'
    <2>1. PICK p \in Proc, t \in Train : m = <<p, t>>
      BY <1>6 DEF TrainsInv, TypeOK, Messages
    <2>2. PICK rest : Handle(p, t, rest)
      BY <1>6, <2>1 DEF Receive, ReceiveAndRetransmit
    <2> QED
      BY <1>6, <2>1, <2>2, HandleLog
  <1>7. CASE UNCHANGED vars
    BY <1>1, <1>7 DEF vars
  <1> QED
    BY <1>2, <1>3, <1>4, <1>5, <1>6, <1>7 DEF Next

\* Logs are empty at first.
LEMMA InitLog == Init => \A p \in Proc : LogInv(p)
  <1> SUFFICES ASSUME Init, NEW p \in Proc PROVE LogInv(p)
    OBVIOUS
  <1>1. log[p] = <<>> /\ delivered[p] = {} /\ node[p] = NewNode
    BY DEF Init
  <1>2. LogOf({}) = <<>>
    <2>1. Entries({}) = {} /\ Cardinality({}) = 0
      BY FS_EmptySet DEF Entries
    <2>2. InKeyOrder({}) = <<>>
      BY <2>1 DEF InKeyOrder
    <2>3. DOMAIN InKeyOrder({}) = {}
      BY <2>2
    <2>4. LogOf({}) = [i \in {} |-> InKeyOrder({})[i].payloads]
      BY <2>1, <2>3 DEF LogOf
    <2> QED
      BY <2>4
  <1>3. Tidy(NewNode) /\ Drained(NewNode) = {}
    BY FS_EmptySet DEF Tidy, Drained, NewNode, KeysOf
  <1> QED
    BY <1>1, <1>2, <1>3 DEF LogInv

\* RingInvariant: the inductive invariant holds in every reachable state: every
\* log is the payloads of the trains delivered so far, each once, in key order.
THEOREM RingInvariant == Spec => []RingInv
  <1>1. Init => \A p \in Proc : LogInv(p)
    BY InitLog
  <1>2. TrainsInv /\ TrainsInv' /\ (\A p \in Proc : LogInv(p)) /\ [Next]_vars
        => (\A p \in Proc : LogInv(p))'
    BY NextLog
  <1> QED
    BY <1>1, <1>2, TrainsInvariant, PTL DEF Spec, RingInv

\* The finished keys of two processes are comparable: both are an initial
\* segment of the same total order.
LEMMA DoneComparable ==
  ASSUME TrainsInv, NEW p \in Proc, NEW q \in Proc
  PROVE  node[p].done \subseteq node[q].done \/ node[q].done \subseteq node[p].done
  <1>1. \A x \in Proc : DoneInv(x) /\ node[x].done \subseteq Key
    BY DEF TrainsInv, TypeOK, Node
  <1>2. ASSUME NEW j \in node[p].done, j \notin node[q].done,
               NEW k \in node[q].done, k \notin node[p].done
        PROVE  FALSE
    <2>1. j \in Key /\ k \in Key
      BY <1>1
    <2>2. j[1] >= 1 /\ j[2] \in Issuer /\ k[1] >= 1 /\ k[2] \in Issuer
      BY <1>1 DEF DoneInv
    <2>3. CASE Less(j, k)
      <3>1. j \in (1..k[1]) \X Issuer
        BY <2>1, <2>2, <2>3 DEF Less, Key
      <3> QED
        BY <1>1, <1>2, <2>3, <3>1 DEF DoneInv
    <2>4. CASE Less(k, j)
      <3>1. k \in (1..j[1]) \X Issuer
        BY <2>1, <2>2, <2>4 DEF Less, Key
      <3> QED
        BY <1>1, <1>2, <2>4, <3>1 DEF DoneInv
    <2>5. CASE j = k
      BY <1>2, <2>5
    <2> QED
      BY <2>1, <2>3, <2>4, <2>5, LessTotal
  <1> QED
    BY <1>2

\* Of two processes, the one that finished fewer keys delivered a prefix.
LEMMA PrefixOfComparable ==
  ASSUME TrainsInv, NEW p \in Proc, NEW q \in Proc, node[p].done \subseteq node[q].done
  PROVE  InitialPart(delivered[p], delivered[q])
  <1>1. \A x \in Proc : DoneInv(x) /\ NodeInv(x) /\ node[x].done \subseteq Key
    BY DEF TrainsInv, TypeOK, Node
  <1>2. \A x \in Proc : delivered[x] \subseteq Trains
    BY InTrains
  <1>3. delivered[p] \subseteq delivered[q]
    BY <1>1, <1>2 DEF NodeInv, DoneInv
  <1>4. ASSUME NEW t \in delivered[p], NEW u \in delivered[q] \ delivered[p]
        PROVE  Less(KeyOf(t), KeyOf(u))
    <2>1. KeyOf(t) \in node[p].done /\ KeyOf(u) \in node[q].done
      BY <1>1 DEF NodeInv
    <2>2. KeyOf(u) \notin node[p].done
      BY <1>1, <1>2 DEF NodeInv, DoneInv
    <2>3. KeyOf(t) \in Key /\ KeyOf(u) \in Key
      BY <1>1, <2>1
    <2>4. KeyOf(u)[1] >= 1 /\ KeyOf(u)[2] \in Issuer
      BY <1>1, <2>1 DEF DoneInv
    <2>5. CASE Less(KeyOf(u), KeyOf(t))
      <3>1. KeyOf(u) \in (1..KeyOf(t)[1]) \X Issuer
        BY <2>3, <2>4, <2>5 DEF Less, Key
      <3> QED
        BY <1>1, <2>1, <2>2, <2>5, <3>1 DEF DoneInv
    <2>6. CASE KeyOf(u) = KeyOf(t)
      BY <2>1, <2>2, <2>6
    <2> QED
      BY <2>3, <2>5, <2>6, LessTotal
  <1> QED
    BY <1>3, <1>4 DEF InitialPart

\* One log a prefix of the other.
LEMMA PrefixOfLogs ==
  ASSUME NEW A \in SUBSET Train, NEW B \in SUBSET Train, IsFiniteSet(B), DistinctKeys(B),
         InitialPart(A, B)
  PROVE  IsLogPrefix(LogOf(A), LogOf(B))
  BY LogOfPrefix DEF InitialPart, IsLogPrefix

\* LogsNeverDiverge: of any two processes, crashed ones included, one has
\* received a prefix of what the other has (ConsistentDelivery).
THEOREM LogsNeverDiverge == Spec => []ConsistentDelivery
  <1>1. ASSUME RingInv, NEW p \in Proc, NEW q \in Proc, node[p].done \subseteq node[q].done
        PROVE  IsLogPrefix(log[p], log[q])
    <2>1. TrainsInv /\ LogSets /\ log[p] = LogOf(delivered[p]) /\ log[q] = LogOf(delivered[q])
      BY <1>1, FiniteLogs DEF RingInv, LogInv
    <2>2. PICK A, B : A = delivered[p] /\ B = delivered[q]
      OBVIOUS
    <2>3. /\ A \in SUBSET Train /\ B \in SUBSET Train /\ IsFiniteSet(B) /\ DistinctKeys(B)
          /\ InitialPart(A, B)
      BY <1>1, <2>1, <2>2, PrefixOfComparable DEF LogSets
    <2> QED
      BY <2>1, <2>2, <2>3, PrefixOfLogs
  <1>2. ASSUME RingInv PROVE ConsistentDelivery
    BY <1>1, <1>2, DoneComparable DEF ConsistentDelivery, RingInv
  <1> QED
    BY <1>2, RingInvariant, PTL

\* DeliveredOnce: no payload is in two places of a process's log, however often
\* trains pass again, are repeated or overtake each other, and none is in it that
\* nobody broadcast (NoDuplicateDelivery).
THEOREM DeliveredOnce == Spec => []NoDuplicateDelivery
  <1>1. ASSUME RingInv, NEW p \in Proc
        PROVE  \A i \in 1..Len(log[p]) :
                  /\ log[p][i] # {}
                  /\ \A m \in log[p][i] : m[2] < node[m[1]].nextSeq
                  /\ \A j \in 1..(i - 1) : log[p][i] \cap log[p][j] = {}
    <2>1. PICK D : D = delivered[p]
      OBVIOUS
    <2>2. /\ TrainsInv /\ NodeInv(p) /\ log[p] = LogOf(D)
          /\ D \in SUBSET Train /\ IsFiniteSet(D) /\ DistinctKeys(D) /\ D \subseteq Trains
      BY <1>1, <2>1, FiniteLogs, InTrains DEF RingInv, LogInv, TrainsInv, LogSets
    <2>3. /\ Len(log[p]) = Cardinality(D) /\ Cardinality(D) \in Nat
          /\ \A i \in 1..Cardinality(D) : log[p][i] = InKeyOrder(Entries(D))[i].payloads
      BY <2>2, LogOfSet
    <2>4. ASSUME NEW i \in 1..Cardinality(D)
          PROVE  \E t \in D : /\ InKeyOrder(Entries(D))[i] = [key |-> KeyOf(t), payloads |-> t.payloads]
                              /\ log[p][i] = t.payloads
      <3>1. InKeyOrder(Entries(D))[i] \in Entries(D)
        BY <2>2, EntriesOf, KeyOrder
      <3>2. PICK t \in D : InKeyOrder(Entries(D))[i] = [key |-> KeyOf(t), payloads |-> t.payloads]
        BY <3>1 DEF Entries
      <3>3. InKeyOrder(Entries(D))[i].payloads = t.payloads
        BY <3>2
      <3> QED
        BY <2>3, <3>2, <3>3
    <2>5. ASSUME NEW t \in D
          PROVE  t.payloads # {} /\ \A m \in t.payloads : m[2] < node[m[1]].nextSeq
      <3>1. TrainInv(t)
        BY <2>2 DEF TrainsInv
      <3> QED
        BY <2>1, <2>2, <3>1 DEF NodeInv, TrainInv
    <2>6. ASSUME NEW i \in 1..Cardinality(D), NEW j \in 1..(i - 1)
          PROVE  log[p][i] \cap log[p][j] = {}
      <3>1. j \in 1..Cardinality(D) /\ j # i
        BY <2>3
      <3>2. InKeyOrder(Entries(D))[i].key # InKeyOrder(Entries(D))[j].key
        BY <2>2, <3>1, EntriesOf, KeyOrder
      <3>3. PICK t \in D, u \in D :
               /\ InKeyOrder(Entries(D))[i] = [key |-> KeyOf(t), payloads |-> t.payloads]
               /\ log[p][i] = t.payloads
               /\ InKeyOrder(Entries(D))[j] = [key |-> KeyOf(u), payloads |-> u.payloads]
               /\ log[p][j] = u.payloads
        BY <2>4, <3>1
      <3>4. KeyOf(t) # KeyOf(u)
        BY <3>2, <3>3
      <3>5. t.payloads \cap u.payloads = {}
        BY <2>2, <3>4 DEF TrainsInv, LoadInv
      <3> QED
        BY <3>3, <3>5
    <2> QED
      BY <2>3, <2>4, <2>5, <2>6
  <1>2. RingInv => NoDuplicateDelivery
    BY <1>1 DEF NoDuplicateDelivery
  <1> QED
    BY <1>2, RingInvariant, PTL

-----------------------------------------------------------------------------
(* The ring implements the abstract broadcast. *)

\* The initial states correspond.
LEMMA InitRefines == Init => Abstract!Init
  <1> SUFFICES ASSUME Init PROVE Abstract!Init
    OBVIOUS
  <1>1. \A p \in Proc : node[p].nextSeq = 0
    BY DEF Init, NewNode
  <1>2. SentBar = {}
    BY <1>1 DEF SentBar
  <1> QED
    BY <1>2 DEF Init, Abstract!Init

\* A step that neither broadcasts nor delivers is none of the abstract one's.
LEMMA BarsUnchanged ==
  ASSUME log' = log, \A q \in Proc : node'[q].nextSeq = node[q].nextSeq
  PROVE  UNCHANGED <<SentBar, log>>
  BY DEF SentBar

\* handle_broadcast sends a new message or none.
LEMMA BroadcastRefines ==
  ASSUME TrainsInv, NEW p \in Proc, Broadcast(p)
  PROVE  [Abstract!Next]_<<SentBar, log>>
  <1>1. /\ node'[p] = HandleBroadcast(p, node[p]) /\ log' = log
        /\ \A q \in Proc \ {p} : node'[q] = node[q]
    BY DEF Broadcast, TrainsInv, TypeOK
  <1>2. node[p].nextSeq \in 0..(MaxSeq - 1) /\ p \in Senders
    BY BoundsAssumption DEF Broadcast, TrainsInv, TypeOK, Node
  <1>3. log' = log
    BY <1>1
  <1>4. CASE <<p, node[p].nextSeq>> \in node[p].broadcastSeen
    <2>1. node'[p] = node[p]
      BY <1>1, <1>4 DEF HandleBroadcast
    <2> QED
      BY <1>1, <2>1, BarsUnchanged
  <1>5. CASE <<p, node[p].nextSeq>> \notin node[p].broadcastSeen
    <2>1. node'[p].nextSeq = node[p].nextSeq + 1
      BY <1>1, <1>5 DEF HandleBroadcast, TrainsInv, TypeOK, Node
    <2>2. \A m : m \in SentBar <=> \E q \in Proc : \E s \in 0..(node[q].nextSeq - 1) : m = <<q, s>>
      BY DEF SentBar
    <2>3. \A m : m \in SentBar' <=> \E q \in Proc : \E s \in 0..(node'[q].nextSeq - 1) : m = <<q, s>>
      BY DEF SentBar
    <2>4. \A q \in Proc : node[q].nextSeq \in Nat
      BY DEF TrainsInv, TypeOK, Node
    <2>5. PICK m : m = <<p, node[p].nextSeq>>
      OBVIOUS
    <2>6. m \in Senders \X (0..(MaxSeq - 1)) /\ m \notin SentBar
      BY <1>2, <2>2, <2>4, <2>5
    <2>7. ASSUME NEW x PROVE x \in SentBar' <=> x \in SentBar \cup {m}
      <3>1. x \in SentBar' => x \in SentBar \cup {m}
        <4> SUFFICES ASSUME NEW q \in Proc, NEW s \in 0..(node'[q].nextSeq - 1), x = <<q, s>>
                     PROVE  x \in SentBar \cup {m}
          BY <2>3
        <4>1. CASE q # p
          BY <1>1, <2>2, <4>1
        <4>2. CASE q = p
          <5>1. s \in 0..(node[p].nextSeq - 1) \/ s = node[p].nextSeq
            BY <2>1, <2>4, <4>2
          <5> QED
            BY <2>2, <2>5, <4>2, <5>1
        <4> QED
          BY <4>1, <4>2
      <3>2. x \in SentBar => x \in SentBar'
        <4> SUFFICES ASSUME NEW q \in Proc, NEW s \in 0..(node[q].nextSeq - 1), x = <<q, s>>
                     PROVE  x \in SentBar'
          BY <2>2
        <4>1. s \in 0..(node'[q].nextSeq - 1)
          BY <1>1, <2>1, <2>4
        <4> QED
          BY <2>3, <4>1
      <3>3. m \in SentBar'
        <4>1. node[p].nextSeq \in 0..(node'[p].nextSeq - 1)
          BY <2>1, <2>4
        <4> QED
          BY <2>3, <2>5, <4>1
      <3> QED
        BY <3>1, <3>2, <3>3
    <2>8. SentBar' = SentBar \cup {m}
      BY <2>7
    <2> QED
      BY <1>3, <2>6, <2>8 DEF Abstract!Next, Abstract!Broadcast
  <1> QED
    BY <1>4, <1>5

\* What the application of a process received is well-formed in the abstract sense.
LEMMA WellFormedLog ==
  ASSUME TypeOK, NoDuplicateDelivery, NEW p \in Proc
  PROVE  Abstract!WellFormed(log[p])
  <1>1. log[p] \in Seq(SUBSET Payload)
    BY DEF TypeOK
  <1>2. ASSUME NEW i \in 1..Len(log[p]), NEW m \in log[p][i] PROVE m \in SentBar
    <2>1. m \in Payload
      BY <1>1
    <2>2. m[2] < node[m[1]].nextSeq
      BY DEF NoDuplicateDelivery
    <2>3. PICK q \in Proc, s \in Nat : m = <<q, s>>
      BY <2>1 DEF Payload
    <2>4. node[q].nextSeq \in Nat
      BY DEF TypeOK, Node
    <2>5. s \in 0..(node[q].nextSeq - 1)
      BY <2>2, <2>3, <2>4
    <2> QED
      BY <2>3, <2>5 DEF SentBar
  <1> QED
    BY <1>2 DEF NoDuplicateDelivery, Abstract!WellFormed

LogsWellFormed == \A p \in Proc : Abstract!WellFormed(log[p])

\* A train that is handled delivers a batch of one log or more, or nothing.
LEMMA HandleRefines ==
  ASSUME TrainsInv, TypeOK', LogsWellFormed', ConsistentDelivery',
         NEW p \in Proc, NEW t, <<p, t>> \in net,
         NEW rest, Handle(p, t, rest)
  PROVE  [Abstract!Next]_<<SentBar, log>>
  <1>1. PICK r : /\ \A q \in Proc : node'[q].nextSeq = node[q].nextSeq
                 /\ \A q \in Proc \ {p} : log'[q] = log[q]
                 /\ log'[p] = log[p] \o LogOf(r.deliver)
                 /\ r.deliver \in SUBSET Train /\ IsFiniteSet(r.deliver) /\ DistinctKeys(r.deliver)
    BY HandleDelivers
  <1>2. PICK s, d : s = log[p] /\ d = LogOf(r.deliver)
    OBVIOUS
  <1>3. s \in Seq(SUBSET Payload) /\ d \in Seq(SUBSET Payload) /\ log'[p] = s \o d
    BY <1>1, <1>2, LogOfSet DEF TrainsInv, TypeOK
  <1>4. /\ log = [q \in Proc |-> log[q]] /\ log' = [q \in Proc |-> log'[q]]
    BY DEF TrainsInv, TypeOK
  <1>5. CASE d = <<>>
    <2>1. s \o d = s
      BY <1>3, <1>5
    <2>2. log' = log
      BY <1>1, <1>2, <1>3, <1>4, <2>1
    <2> QED
      BY <1>1, <2>2, BarsUnchanged
  <1>6. CASE d # <<>>
    <2>1. /\ Len(s \o d) = Len(s) + Len(d) /\ Len(d) > 0 /\ Len(s) \in Nat
          /\ \A i \in 1..Len(s) : (s \o d)[i] = s[i]
      BY <1>3, <1>6
    <2>2. Len(log'[p]) > Len(log[p]) /\ Abstract!IsPrefix(log[p], log'[p])
      <3>1. PICK v : v = log'[p]
        OBVIOUS
      <3>2. v = s \o d /\ Len(d) \in Nat
        BY <1>3, <3>1
      <3>3. Len(v) > Len(s) /\ Len(s) <= Len(v) /\ \A i \in 1..Len(s) : s[i] = v[i]
        BY <2>1, <3>2
      <3>4. Abstract!IsPrefix(s, v)
        BY <3>3 DEF Abstract!IsPrefix
      <3> QED
        BY <1>2, <3>1, <3>3, <3>4
    <2>3. log' = [log EXCEPT ![p] = log'[p]]
      <3>1. PICK L, M : L = log /\ M = log'
        OBVIOUS
      <3>2. DOMAIN L = Proc /\ L = [q \in Proc |-> L[q]] /\ M = [q \in Proc |-> M[q]]
        BY <1>4, <3>1
      <3>3. M = [L EXCEPT ![p] = M[p]]
        BY <1>1, <3>1, <3>2
      <3> QED
        BY <3>1, <3>3
    <2>4. SentBar' = SentBar
      BY <1>1 DEF SentBar
    <2>5. Abstract!WellFormed(log'[p])
      <3>1. Abstract!WellFormed(log[p])'
        BY DEF LogsWellFormed
      <3> QED
        BY <2>4, <3>1 DEF Abstract!WellFormed
    <2>6. ASSUME NEW q \in Proc PROVE Abstract!Comparable(log'[p], log[q])
      <3>1. CASE q = p
        BY <2>2, <3>1 DEF Abstract!Comparable
      <3>2. CASE q # p
        <4>1. PICK x, y : x = log'[p] /\ y = log'[q]
          OBVIOUS
        <4>2. IsLogPrefix(x, y) \/ IsLogPrefix(y, x)
          BY <4>1 DEF ConsistentDelivery
        <4>3. Abstract!IsPrefix(x, y) \/ Abstract!IsPrefix(y, x)
          BY <4>2 DEF IsLogPrefix, Abstract!IsPrefix
        <4>4. Abstract!Comparable(x, y) /\ y = log[q]
          BY <1>1, <3>2, <4>1, <4>3 DEF Abstract!Comparable
        <4> QED
          BY <4>1, <4>4
      <3> QED
        BY <3>1, <3>2
    <2>7. Abstract!Deliver(p)
      BY <2>2, <2>3, <2>4, <2>5, <2>6 DEF Abstract!Deliver
    <2> QED
      BY <2>7 DEF Abstract!Next
  <1> QED
    BY <1>5, <1>6

\* Every step of the ring is a step of the abstract broadcast or none.
LEMMA NextRefines ==
  ASSUME TrainsInv, TypeOK', LogsWellFormed', ConsistentDelivery', [Next]_vars
  PROVE  [Abstract!Next]_<<SentBar, log>>
  <1>1. CASE UNCHANGED vars
    BY <1>1, BarsUnchanged DEF vars
  <1>2. ASSUME NEW p \in Proc, BootIssuer(p) \/ BootOther(p) \/ Crash(p)
        PROVE  [Abstract!Next]_<<SentBar, log>>
    <2>1. log' = log
      BY <1>2 DEF BootIssuer, BootOther, Crash
    <2>2. \A q \in Proc : node'[q].nextSeq = node[q].nextSeq
      <3>1. CASE BootIssuer(p)
        BY <3>1 DEF BootIssuer, AfterIssue, TrainsInv, TypeOK, Node
      <3>2. CASE BootOther(p) \/ Crash(p)
        BY <3>2 DEF BootOther, Crash
      <3> QED
        BY <1>2, <3>1, <3>2
    <2> QED
      BY <2>1, <2>2, BarsUnchanged
  <1>3. ASSUME NEW p \in Proc, Broadcast(p) PROVE [Abstract!Next]_<<SentBar, log>>
    BY <1>3, BroadcastRefines
  <1>4. ASSUME NEW m \in net, Lose(m) PROVE [Abstract!Next]_<<SentBar, log>>
    BY <1>4, BarsUnchanged DEF Lose
  <1>5. ASSUME NEW m \in net, Receive(m[1], m[2]) \/ ReceiveAndRetransmit(m[1], m[2])
        PROVE  [Abstract!Next]_<<SentBar, log>>
    <2>1. PICK p \in Proc, t \in Train : m = <<p, t>>
      BY <1>5 DEF TrainsInv, TypeOK, Messages
    <2>2. PICK rest : Handle(p, t, rest)
      BY <1>5, <2>1 DEF Receive, ReceiveAndRetransmit
    <2> QED
      BY <1>5, <2>1, <2>2, HandleRefines
  <1> QED
    BY <1>1, <1>2, <1>3, <1>4, <1>5 DEF Next

\* The ring implements TotalOrderBroadcast: whatever the number of processes and
\* trains, and whatever links lose, repeat or reorder, an application receives only
\* what the abstract broadcast allows: in one order, and each message once.
THEOREM RingRefinesBroadcast == Spec => ImplementsTotalOrderBroadcast
  <1>1. Init => Abstract!Init
    BY InitRefines
  <1>2. TypeOK /\ NoDuplicateDelivery => LogsWellFormed
    BY WellFormedLog DEF LogsWellFormed
  <1>3. TrainsInv /\ TypeOK' /\ LogsWellFormed' /\ ConsistentDelivery' /\ [Next]_vars
        => [Abstract!Next]_<<SentBar, log>>
    BY NextRefines
  <1> QED
    BY <1>1, <1>2, <1>3, TypeCorrect, TrainsInvariant, LogsNeverDiverge, DeliveredOnce, PTL
       DEF Spec, ImplementsTotalOrderBroadcast, Abstract!Spec
=============================================================================
