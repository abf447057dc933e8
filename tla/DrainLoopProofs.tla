-------------------------- MODULE DrainLoopProofs --------------------------
(***************************************************************************)
(* The loop of drain_parked delivers what the closed form Drained says,    *)
(* for any number of parked trains, and the retransmission cache that it   *)
(* fills train by train is the one CacheDelivered computes at once.        *)
(***************************************************************************)
EXTENDS DrainLoop, TrainsCoreProofs

(* cache_delivered *)

Above(e, A) == {f \in A : Less(e.key, f.key)}

\* The entries that evicting the least key leaves.
Top(A) == {e \in A : Cardinality(Above(e, A)) < CacheCap}

\* Evicting early evicts nothing that would have stayed.
LEMMA TopOfTop ==
  ASSUME NEW A \in SUBSET CacheEntry, NEW B \in SUBSET CacheEntry,
         IsFiniteSet(A), IsFiniteSet(B)
  PROVE  Top(Top(A) \cup B) = Top(A \cup B)
  <1> DEFINE A1 == Top(A)
             U == A1 \cup B
             V == A \cup B
  <1>1. A1 \subseteq A /\ U \subseteq V
    BY DEF Top
  <1>2. IsFiniteSet(V)
    BY FS_Union
  <1>3. V \subseteq CacheEntry /\ \A e \in V : e.key \in Key
    BY DEF CacheEntry
  <1> HIDE DEF A1, U, V
  <1>4. \A e, S : S \in SUBSET V => /\ IsFiniteSet(Above(e, S))
                                    /\ Cardinality(Above(e, S)) \in Nat
    <2> SUFFICES ASSUME NEW e, NEW S \in SUBSET V
                 PROVE  IsFiniteSet(Above(e, S)) /\ Cardinality(Above(e, S)) \in Nat
      OBVIOUS
    <2>1. Above(e, S) \in SUBSET V
      BY DEF Above
    <2> QED
      BY <1>2, <2>1, FS_Subset, FS_CardinalityType
  <1>5. \A e, d, S, T : S \in SUBSET V /\ T \in SUBSET V /\ Above(d, S) \subseteq Above(e, T)
                           => Cardinality(Above(d, S)) <= Cardinality(Above(e, T))
    BY <1>4, FS_Subset
  <1>6. CacheCap \in Nat
    BY CacheAssumption
  <1>7. A \in SUBSET V /\ U \in SUBSET V /\ V \in SUBSET V
    BY <1>1 DEF V
  <1>8. ASSUME NEW e \in Top(V) PROVE e \in Top(U)
    <2>1. e \in V /\ Cardinality(Above(e, V)) < CacheCap
      BY DEF Top
    <2>2. Above(e, A) \subseteq Above(e, V) /\ Above(e, U) \subseteq Above(e, V)
      BY <1>7 DEF Above
    <2>3. /\ Cardinality(Above(e, A)) <= Cardinality(Above(e, V))
          /\ Cardinality(Above(e, U)) <= Cardinality(Above(e, V))
      BY <1>5, <1>7, <2>2
    <2>4. Cardinality(Above(e, A)) < CacheCap /\ Cardinality(Above(e, U)) < CacheCap
      BY <1>4, <1>6, <1>7, <2>1, <2>3
    <2>5. e \in U
      BY <2>1, <2>4 DEF U, V, A1, Top
    <2> QED
      BY <2>4, <2>5 DEF Top
  <1>9. ASSUME NEW e \in Top(U), e \notin Top(V) PROVE FALSE
    <2>1. e \in U /\ e \in V /\ Cardinality(Above(e, U)) < CacheCap /\ ~(Cardinality(Above(e, V)) < CacheCap)
      BY <1>7, <1>9 DEF Top
    <2> DEFINE Z == {f \in A \ A1 : Less(e.key, f.key)}
               R == {xy \in Z \X Z : Less(xy[2].key, xy[1].key)}
    <2>2. Z # {}
      <3>1. Above(e, U) # Above(e, V)
        BY <2>1
      <3> QED
        BY <1>1, <3>1 DEF Above, U, V
    <2>3. IsFiniteSet(Z) /\ Z \subseteq A /\ Z \subseteq V
      BY <1>7, FS_Subset
    <2>4. \A x, y \in Z : <<x, y>> \in R <=> Less(y.key, x.key)
      OBVIOUS
    <2>5. \A x \in Z : x.key \in Key
      BY <1>3, <2>3
    <2>6. PICK m \in Z : \A x \in Z : <<x, m>> \notin R
      <3> HIDE DEF Z, R
      <3>1. \A x \in Z : <<x, x>> \notin R
        BY <2>4, <2>5, LessIrreflexive
      <3>2. \A x, y, z \in Z : <<x, y>> \in R /\ <<y, z>> \in R => <<x, z>> \in R
        BY <2>4, <2>5, LessTransitive
      <3> QED
        BY <2>2, <2>3, <3>1, <3>2, MinimalElement
    <2>7. m \in A /\ m \notin A1 /\ Less(e.key, m.key) /\ m.key \in Key /\ e.key \in Key
      BY <1>3, <2>1, <2>5
    <2>8. Above(m, A) \subseteq Above(e, U)
      <3> SUFFICES ASSUME NEW g \in A, Less(m.key, g.key) PROVE g \in U /\ Less(e.key, g.key)
        BY DEF Above
      <3>1. g.key \in Key
        BY <1>3, <1>7
      <3>2. Less(e.key, g.key)
        BY <2>7, <3>1, LessTransitive
      <3>3. g \in A1
        BY <2>4, <2>6, <3>2
      <3> QED
        BY <3>2, <3>3 DEF U
    <2>9. Cardinality(Above(m, A)) <= Cardinality(Above(e, U))
      BY <1>5, <1>7, <2>8
    <2>10. Cardinality(Above(m, A)) < CacheCap
      BY <1>4, <1>6, <1>7, <2>1, <2>9
    <2> QED
      BY <2>7, <2>10 DEF A1, Top
  <1>10. Top(U) = Top(V)
    BY <1>8, <1>9
  <1> QED
    BY <1>10 DEF U, V, A1

\* cache_delivered for E and then for F is cache_delivered for both.
LEMMA CacheTwice ==
  ASSUME NEW C \in SUBSET CacheEntry, NEW E \in SUBSET CacheEntry, NEW F \in SUBSET CacheEntry,
         IsFiniteSet(C), IsFiniteSet(E), IsFiniteSet(F)
  PROVE  CacheDelivered(CacheDelivered(C, E), F) = CacheDelivered(C, E \cup F)
  <1> DEFINE E1 == {e \in E : e.payloads # {}}
             F1 == {e \in F : e.payloads # {}}
  <1>1. \A c, G : CacheDelivered(c, G) = Top(c \cup {e \in G : e.payloads # {}})
    BY DEF CacheDelivered, Top, Above
  <1>2. IsFiniteSet(E1) /\ IsFiniteSet(F1)
    BY FS_Subset
  <1>3. IsFiniteSet(C \cup E1) /\ C \cup E1 \in SUBSET CacheEntry /\ F1 \in SUBSET CacheEntry
    BY <1>2, FS_Union
  <1>4. Top(Top(C \cup E1) \cup F1) = Top((C \cup E1) \cup F1)
    BY <1>2, <1>3, TopOfTop
  <1>5. {e \in E \cup F : e.payloads # {}} = E1 \cup F1
    OBVIOUS
  <1> HIDE DEF E1, F1
  <1>6. (C \cup E1) \cup F1 = C \cup (E1 \cup F1)
    OBVIOUS
  <1> QED
    BY <1>1, <1>4, <1>5, <1>6 DEF E1, F1

\* The entries of finitely many trains.
LEMMA FiniteEntries ==
  ASSUME NEW S \in SUBSET Train, IsFiniteSet(S)
  PROVE  IsFiniteSet(Entries(S)) /\ Entries(S) \in SUBSET CacheEntry
  <1>1. PICK f : f = [t \in S |-> [key |-> KeyOf(t), payloads |-> t.payloads]]
    OBVIOUS
  <1>2. DOMAIN f = S /\ f = [t \in DOMAIN f |-> f[t]]
    BY <1>1
  <1>3. Entries(S) = {f[t] : t \in DOMAIN f}
    BY <1>1 DEF Entries
  <1>4. IsFiniteSet(Entries(S))
    BY <1>2, <1>3, FiniteImage
  <1>5. Entries(S) \in SUBSET CacheEntry
    BY KeyType DEF Entries, CacheEntry, Train
  <1> QED
    BY <1>4, <1>5

\* Delivering T and then U is delivering both.
LEMMA RecordTwice ==
  ASSUME NEW n \in Node, NEW T \in SUBSET Train, NEW U \in SUBSET Train,
         IsFiniteSet(n.cache), IsFiniteSet(T), IsFiniteSet(U)
  PROVE  FinishParked(FinishParked(n, T), U) = FinishParked(n, T \cup U)
  <1> DEFINE a == FinishParked(n, T)
  <1>1. Entries(T) \cup Entries(U) = Entries(T \cup U) /\ KeysOf(T) \cup KeysOf(U) = KeysOf(T \cup U)
    BY DEF Entries, KeysOf
  <1>2. \A S \in SUBSET Train : IsFiniteSet(S) =>
           IsFiniteSet(Entries(S)) /\ Entries(S) \in SUBSET CacheEntry
    BY FiniteEntries
  <1>3. CacheDelivered(CacheDelivered(n.cache, Entries(T)), Entries(U))
           = CacheDelivered(n.cache, Entries(T \cup U))
    <2>1. n.cache \in SUBSET CacheEntry
      BY DEF Node
    <2>2. /\ IsFiniteSet(Entries(T)) /\ Entries(T) \in SUBSET CacheEntry
          /\ IsFiniteSet(Entries(U)) /\ Entries(U) \in SUBSET CacheEntry
      BY <1>2
    <2>3. CacheDelivered(CacheDelivered(n.cache, Entries(T)), Entries(U))
             = CacheDelivered(n.cache, Entries(T) \cup Entries(U))
      BY <2>1, <2>2, CacheTwice
    <2> QED
      BY <1>1, <2>3
  <1>4. a \in Node /\ a.done = n.done \cup KeysOf(T) /\ a.parked = n.parked \ T
    BY FinishType
  <1>5. a.cache = CacheDelivered(n.cache, Entries(T))
    BY DEF FinishParked, Node
  <1>6. (n.done \cup KeysOf(T)) \cup KeysOf(U) = n.done \cup KeysOf(T \cup U)
    BY <1>1
  <1>7. (n.parked \ T) \ U = n.parked \ (T \cup U)
    OBVIOUS
  <1>8. a = [n EXCEPT !.done = n.done \cup KeysOf(T), !.parked = n.parked \ T,
                      !.cache = CacheDelivered(n.cache, Entries(T))]
    BY DEF FinishParked
  <1> HIDE DEF a
  <1>9. FinishParked(a, U) = [a EXCEPT !.done = a.done \cup KeysOf(U), !.parked = a.parked \ U,
                                          !.cache = CacheDelivered(a.cache, Entries(U))]
    BY DEF FinishParked
  <1>10. FinishParked(a, U) = [a EXCEPT !.done = n.done \cup KeysOf(T \cup U),
                                           !.parked = n.parked \ (T \cup U),
                                           !.cache = CacheDelivered(n.cache, Entries(T \cup U))]
    BY <1>3, <1>4, <1>5, <1>6, <1>7, <1>9
  <1>11. FinishParked(n, T \cup U) = [n EXCEPT !.done = n.done \cup KeysOf(T \cup U),
                                           !.parked = n.parked \ (T \cup U),
                                           !.cache = CacheDelivered(n.cache, Entries(T \cup U))]
    BY DEF FinishParked
  <1>12. FinishParked(a, U) = FinishParked(n, T \cup U)
    BY <1>8, <1>10, <1>11 DEF Node
  <1> QED
    BY <1>12 DEF a

-----------------------------------------------------------------------------
(* The loop *)

\* The loop always finds a least parked key.
LEMMA LeastParkedIs ==
  ASSUME NEW n \in Node, IsFiniteSet(n.parked), n.parked # {}
  PROVE  /\ LeastParked(n) \in n.parked
         /\ \A u \in n.parked : ~Less(KeyOf(u), KeyOf(LeastParked(n)))
  <1>1. \E t \in n.parked : \A u \in n.parked : ~Less(KeyOf(u), KeyOf(t))
    BY LeastTrain DEF Node
  <1> QED
    BY <1>1 DEF LeastParked

\* Delivering nothing.
LEMMA RecordNothing ==
  ASSUME NEW n \in Node, CacheDelivered(n.cache, {}) = n.cache
  PROVE  FinishParked(n, {}) = n
  <1>1. KeysOf({}) = {} /\ Entries({}) = {}
    BY DEF KeysOf, Entries
  <1>2. CacheDelivered(n.cache, Entries({})) = n.cache
    BY <1>1
  <1>3. n.done \cup {} = n.done /\ n.parked \ {} = n.parked
    OBVIOUS
  <1>4. FinishParked(n, {}) = [n EXCEPT !.done = n.done, !.parked = n.parked, !.cache = n.cache]
    BY <1>1, <1>2, <1>3 DEF FinishParked
  <1> QED
    BY <1>4 DEF Node

\* Finitely many full trains, one per key.
LEMMA FullTrainsOf ==
  ASSUME NEW K \in SUBSET ((1..MaxSeen) \X Issuer)
  PROVE  /\ K \in SUBSET Key /\ FullTrains(K) \in SUBSET Train
         /\ IsFiniteSet(FullTrains(K)) /\ KeysOf(FullTrains(K)) = K
         /\ \A t, u \in FullTrains(K) : KeyOf(t) = KeyOf(u) => t = u
  <1>1. K \in SUBSET Key
    BY SeenAssumption, IssuerIsProc DEF Key
  <1>2. \A k \in K : FullTrain(k) \in Train /\ KeyOf(FullTrain(k)) = k
    <2> SUFFICES ASSUME NEW k \in K PROVE FullTrain(k) \in Train /\ KeyOf(FullTrain(k)) = k
      OBVIOUS
    <2>1. k[1] \in Nat /\ k[2] \in Proc /\ k = <<k[1], k[2]>>
      BY <1>1 DEF Key
    <2> QED
      BY <2>1 DEF FullTrain, Train, KeyOf, Payload
  <1>3. IsFiniteSet(1..MaxSeen) /\ IsFiniteSet(Issuer)
    <2>1. MaxSeen \in Int /\ NumTrains - 1 \in Int
      BY SeenAssumption, TrainAssumption, RingAssumption
    <2>2. \A a, b \in Int : IsFiniteSet(a..b)
      BY FS_Interval
    <2>3. PICK first \in Int, last \in Int : first = 0 /\ last = NumTrains - 1
      BY <2>1
    <2>4. IsFiniteSet(first..last)
      BY <2>2
    <2> QED
      BY <2>1, <2>2, <2>3, <2>4 DEF Issuer
  <1>4. IsFiniteSet(K)
    BY <1>3, FS_Product, FS_Subset
  <1>5. PICK g : g = [k \in K |-> FullTrain(k)]
    OBVIOUS
  <1>6. /\ DOMAIN g = K /\ g = [k \in DOMAIN g |-> g[k]]
        /\ FullTrains(K) = {g[k] : k \in DOMAIN g}
    BY <1>5 DEF FullTrains
  <1>7. IsFiniteSet(FullTrains(K))
    BY <1>4, <1>6, FiniteImage
  <1>8. FullTrains(K) \in SUBSET Train
    BY <1>2 DEF FullTrains
  <1>9. KeysOf(FullTrains(K)) = K
    BY <1>2 DEF KeysOf, FullTrains
  <1>10. \A t, u \in FullTrains(K) : KeyOf(t) = KeyOf(u) => t = u
    BY <1>2 DEF FullTrains
  <1> QED
    BY <1>1, <1>7, <1>8, <1>9, <1>10

\* Finitely many trains are parked, one per key, and the cache is within its cap.
LEMMA InitStart ==
  ASSUME NEW s \in [Issuer -> 0..MaxSeen], NEW D \in SUBSET KnownKeys(s), NEW W \in SUBSET D,
         NEW P \in SUBSET (KnownKeys(s) \ D), NEW X \in SUBSET Proc, NEW f \in BOOLEAN,
         start = StartNode(s, D, W, P, X, f)
  PROVE  StartInv
  <1>1. KnownKeys(s) \subseteq (1..MaxSeen) \X Issuer
    BY DEF KnownKeys
  <1>2. /\ D \in SUBSET ((1..MaxSeen) \X Issuer) /\ P \in SUBSET ((1..MaxSeen) \X Issuer)
        /\ W \in SUBSET ((1..MaxSeen) \X Issuer) /\ P \cap D = {}
    BY <1>1
  <1>3. PICK T, C, E : /\ T = FullTrains(P) /\ E = Entries(FullTrains(W))
                       /\ C = CacheDelivered({}, E)
    OBVIOUS
  <1>4. /\ T \in SUBSET Train /\ IsFiniteSet(T) /\ KeysOf(T) = P
        /\ \A t, u \in T : KeyOf(t) = KeyOf(u) => t = u
    BY <1>2, <1>3, FullTrainsOf
  <1>5. E \in SUBSET CacheEntry /\ IsFiniteSet(E)
    BY <1>2, <1>3, FullTrainsOf, FiniteEntries
  <1>6. C \in SUBSET E /\ C \in SUBSET CacheEntry /\ IsFiniteSet(C)
    <2>1. C \in SUBSET E
      BY <1>3 DEF CacheDelivered
    <2> QED
      BY <1>5, <2>1, FS_Subset
  <1>7. CacheDelivered(C, {}) = C
    <2>1. {} \in SUBSET CacheEntry /\ IsFiniteSet({}) /\ E \cup {} = E
      BY FS_EmptySet
    <2>2. CacheDelivered(CacheDelivered({}, E), {}) = CacheDelivered({}, E \cup {})
      BY <1>5, <2>1, CacheTwice
    <2> QED
      BY <1>3, <2>1, <2>2
  <1>8. [q \in Proc |-> IF q \in Issuer THEN s[q] ELSE 0] \in [Proc -> Nat]
    BY SeenAssumption
  <1>9. /\ start.done = D /\ start.parked = T /\ start.cache = C
    BY <1>3 DEF StartNode, NewNode
  <1>10. start \in Node
    <2>1. D \in SUBSET Key
      BY <1>2, FullTrainsOf
    <2> QED
      BY <1>3, <1>4, <1>6, <1>8, <2>1, NewNodeType DEF StartNode, Node
  <1> QED
    BY <1>2, <1>4, <1>6, <1>7, <1>9, <1>10 DEF StartInv

(* Before the first pass nothing is taken, and the loop is where it started. *)
LEMMA InitLoopInv == Init => LoopInv
  <1> SUFFICES ASSUME Init PROVE LoopInv
    OBVIOUS
  <1>1. StartInv
    <2>1. PICK s \in [Issuer -> 0..MaxSeen] : \E D \in SUBSET KnownKeys(s) :
             \E W \in SUBSET D, P \in SUBSET (KnownKeys(s) \ D), X \in SUBSET Proc, f \in BOOLEAN :
               start = StartNode(s, D, W, P, X, f)
      BY Zenon DEF Init
    <2>2. PICK D \in SUBSET KnownKeys(s) :
             \E W \in SUBSET D, P \in SUBSET (KnownKeys(s) \ D), X \in SUBSET Proc, f \in BOOLEAN :
               start = StartNode(s, D, W, P, X, f)
      BY <2>1, Zenon
    <2>3. PICK W \in SUBSET D, P \in SUBSET (KnownKeys(s) \ D), X \in SUBSET Proc, f \in BOOLEAN :
             start = StartNode(s, D, W, P, X, f)
      BY <2>2, Zenon
    <2> QED
      BY <2>3, InitStart, Zenon
  <1>2. cur = start /\ out = <<>> /\ running = TRUE
    BY DEF Init
  <1>3. Taken = {}
    BY <1>2 DEF Taken
  <1>4. cur = FinishParked(start, Taken)
    BY <1>1, <1>2, <1>3, RecordNothing DEF StartInv
  <1>5. out \in Seq(Key) /\ Len(out) = 0
    BY <1>2
  <1>6. {out[i] : i \in 1..Len(out)} = KeysOf(Taken)
    BY <1>3, <1>5 DEF KeysOf
  <1> QED
    BY <1>1, <1>2, <1>3, <1>4, <1>5, <1>6 DEF LoopInv

\* What the loop has not changed.
LEMMA CurIs ==
  ASSUME LoopInv
  PROVE  /\ start \in Node /\ cur \in Node /\ Taken \in SUBSET Train
         /\ cur.done = start.done \cup KeysOf(Taken)
         /\ cur.parked \subseteq start.parked /\ IsFiniteSet(cur.parked) /\ IsFiniteSet(Taken)
         /\ cur.seen = start.seen /\ cur.crashed = start.crashed /\ cur.frozen = start.frozen
         /\ Taken \subseteq start.parked
  <1>1. start \in Node /\ Taken \subseteq start.parked /\ Taken \in SUBSET Train
    BY DEF LoopInv, StartInv, Taken, Node
  <1>2. cur = FinishParked(start, Taken)
    BY DEF LoopInv
  <1> DEFINE D == Taken
  <1> HIDE DEF D
  <1>3. /\ FinishParked(start, D) \in Node
        /\ FinishParked(start, D).done = start.done \cup KeysOf(D)
        /\ FinishParked(start, D).parked = start.parked \ D
        /\ FinishParked(start, D).seen = start.seen
        /\ FinishParked(start, D).crashed = start.crashed
        /\ FinishParked(start, D).frozen = start.frozen
    BY <1>1, FinishType DEF D
  <1>4. cur.parked \subseteq start.parked
    BY <1>2, <1>3 DEF D
  <1>5. IsFiniteSet(cur.parked) /\ IsFiniteSet(Taken)
    BY <1>1, <1>4, FS_Subset DEF LoopInv, StartInv
  <1> QED
    BY <1>1, <1>2, <1>3, <1>4, <1>5 DEF D

\* A turn of the loop takes the least key, which Drained holds too.
LEMMA IterateKeeps == ASSUME LoopInv, Iterate PROVE LoopInv'
  <1>0. /\ start \in Node /\ cur \in Node /\ Taken \in SUBSET Train
        /\ cur.done = start.done \cup KeysOf(Taken)
        /\ cur.parked \subseteq start.parked /\ IsFiniteSet(cur.parked) /\ IsFiniteSet(Taken)
        /\ cur.seen = start.seen /\ cur.crashed = start.crashed /\ cur.frozen = start.frozen
        /\ Taken \subseteq start.parked
    BY CurIs
  <1>1. PICK t : t = LeastParked(cur)
    OBVIOUS
  <1>2. /\ ~cur.frozen /\ cur.parked # {} /\ IsDeliverable(cur, KeyOf(t))
        /\ cur' = FinishParked(cur, {t}) /\ out' = Append(out, KeyOf(t))
        /\ start' = start /\ running' = running /\ running
    BY <1>1 DEF Iterate
  <1>3. t \in cur.parked /\ \A u \in cur.parked : ~Less(KeyOf(u), KeyOf(t))
    BY <1>0, <1>1, <1>2, LeastParkedIs
  <1>4. t \in start.parked /\ t \in Train /\ KeyOf(t) \in Key
    BY <1>0, <1>3, KeyType DEF Node
  <1>5. t \in Drained(start)
    <2>1. SeenClocksAdvancedEnough(start, KeyOf(t))
      BY <1>0, <1>2 DEF IsDeliverable, SeenClocksAdvancedEnough
    <2>2. PriorKnownIn(cur, KeyOf(t), cur.done)
      BY <1>2 DEF IsDeliverable
    <2>3. cur.done \subseteq start.done \cup KeysOf(start.parked)
      BY <1>0 DEF KeysOf
    <2>4. PriorKnownIn(start, KeyOf(t), start.done \cup KeysOf(start.parked))
      BY <1>0, <2>2, <2>3 DEF PriorKnownIn
    <2> QED
      BY <1>0, <1>2, <1>4, <2>1, <2>4 DEF Drained
  <1>6. PICK D : D = Taken
    OBVIOUS
  <1>7. cur'.parked = cur.parked \ {t}
    BY <1>0, <1>2, <1>4, FinishType
  <1>8. Taken' = D \cup {t}
    BY <1>0, <1>2, <1>3, <1>4, <1>6, <1>7 DEF Taken
  <1>9. cur' = FinishParked(start', Taken')
    <2>1. IsFiniteSet({t}) /\ {t} \in SUBSET Train
      BY <1>4, FS_Singleton
    <2>2. IsFiniteSet(start.cache)
      BY DEF LoopInv, StartInv
    <2>3. FinishParked(FinishParked(start, D), {t}) = FinishParked(start, D \cup {t})
      BY <1>0, <1>6, <2>1, <2>2, RecordTwice
    <2> QED
      BY <1>2, <1>6, <1>8, <2>3 DEF LoopInv
  <1>10. Taken' \subseteq Drained(start')
    BY <1>2, <1>5, <1>6, <1>8 DEF LoopInv
  <1>11. ASSUME NEW x \in Taken', NEW u \in cur'.parked PROVE Less(KeyOf(x), KeyOf(u))
    <2>1. u \in cur.parked /\ u # t /\ u \in start.parked /\ KeyOf(u) \in Key
      BY <1>0, <1>7, KeyType DEF Node
    <2>2. CASE x \in D
      BY <1>6, <2>1, <2>2 DEF LoopInv
    <2>3. CASE x = t
      <3>1. KeyOf(u) # KeyOf(t)
        BY <1>4, <2>1 DEF LoopInv, StartInv
      <3> QED
        BY <1>3, <1>4, <2>1, <2>3, <3>1, LessTotal
    <2> QED
      BY <1>8, <2>2, <2>3
  <1>12. /\ out \in Seq(Key) /\ {out[i] : i \in 1..Len(out)} = KeysOf(D)
         /\ \A i, j \in 1..Len(out) : i < j => Less(out[i], out[j])
    BY <1>6 DEF LoopInv
  <1>13. /\ out' \in Seq(Key) /\ Len(out') = Len(out) + 1 /\ Len(out) \in Nat
         /\ \A i \in 1..Len(out) : out'[i] = out[i]
         /\ out'[Len(out) + 1] = KeyOf(t)
    BY <1>2, <1>4, <1>12
  <1>14. {out'[i] : i \in 1..Len(out')} = KeysOf(Taken')
    <2>1. KeysOf(Taken') = KeysOf(D) \cup {KeyOf(t)}
      BY <1>8 DEF KeysOf
    <2>2. {out'[i] : i \in 1..(Len(out) + 1)} = {out[i] : i \in 1..Len(out)} \cup {KeyOf(t)}
      BY <1>13
    <2> QED
      BY <1>12, <1>13, <2>1, <2>2
  <1>15. ASSUME NEW i \in 1..Len(out'), NEW j \in 1..Len(out'), i < j PROVE Less(out'[i], out'[j])
    <2>1. CASE j \in 1..Len(out)
      BY <1>12, <1>13, <1>15, <2>1
    <2>2. CASE j \notin 1..Len(out)
      <3>1. i \in 1..Len(out) /\ out'[j] = KeyOf(t) /\ out'[i] = out[i]
        BY <1>13, <1>15, <2>2
      <3>2. out[i] \in KeysOf(D)
        BY <1>12, <3>1
      <3>3. PICK x \in D : out[i] = KeyOf(x)
        BY <3>2 DEF KeysOf
      <3>4. Less(KeyOf(x), KeyOf(t))
        BY <1>3, <1>6 DEF LoopInv
      <3> QED
        BY <3>1, <3>3, <3>4
    <2> QED
      BY <2>1, <2>2
  <1>16. StartInv'
    BY <1>2 DEF LoopInv, StartInv
  <1>17. running' \in BOOLEAN /\ (running' \/ cur'.parked \cap Drained(start') = {})
    BY <1>2 DEF LoopInv
  <1> QED
    BY <1>9, <1>10, <1>11, <1>13, <1>14, <1>15, <1>16, <1>17 DEF LoopInv

\* The loop breaks only when nothing is left to deliver.
LEMMA StopKeeps == ASSUME LoopInv, Stop PROVE LoopInv'
  <1>0. /\ start \in Node /\ cur \in Node
        /\ cur.done = start.done \cup KeysOf(Taken)
        /\ cur.parked \subseteq start.parked /\ IsFiniteSet(cur.parked)
        /\ cur.seen = start.seen /\ cur.crashed = start.crashed /\ cur.frozen = start.frozen
    BY CurIs
  <1>1. running' = FALSE /\ start' = start /\ cur' = cur /\ out' = out
    BY DEF Stop
  <1>2. ASSUME NEW u \in cur.parked, u \in Drained(start) PROVE FALSE
    <2>1. ~cur.frozen /\ cur.parked # {}
      BY <1>0, <1>2 DEF Drained
    <2>2. PICK t : t = LeastParked(cur)
      OBVIOUS
    <2>3. ~IsDeliverable(cur, KeyOf(t))
      BY <2>1, <2>2 DEF Stop
    <2>4. t \in cur.parked /\ \A x \in cur.parked : ~Less(KeyOf(x), KeyOf(t))
      BY <1>0, <2>1, <2>2, LeastParkedIs
    <2>5. t \in start.parked /\ u \in start.parked /\ KeyOf(t) \in Key /\ KeyOf(u) \in Key
      BY <1>0, <1>2, <2>4, KeyType DEF Node
    <2>6. t \in Drained(start)
      <3>1. CASE KeyOf(t) = KeyOf(u)
        BY <1>2, <2>5, <3>1 DEF LoopInv, StartInv
      <3>2. CASE Less(KeyOf(t), KeyOf(u))
        BY <1>0, <1>2, <2>5, <3>2, DrainedClosed
      <3> QED
        BY <1>2, <2>4, <2>5, <3>1, <3>2, LessTotal
    <2>7. SeenClocksAdvancedEnough(cur, KeyOf(t))
      BY <1>0, <2>6 DEF Drained, SeenClocksAdvancedEnough
    <2>8. ASSUME NEW q \in Proc, NEW c \in 1..cur.seen[q], Less(<<c, q>>, KeyOf(t))
          PROVE  <<c, q>> \in cur.done
      <3>1. <<c, q>> \in start.done \cup KeysOf(start.parked)
        BY <1>0, <2>6, <2>8 DEF Drained, PriorKnownIn
      <3>2. CASE <<c, q>> \in start.done
        BY <1>0, <3>2
      <3>3. CASE <<c, q>> \in KeysOf(start.parked)
        <4>1. PICK w \in start.parked : <<c, q>> = KeyOf(w)
          BY <3>3 DEF KeysOf
        <4>2. w \notin cur.parked
          BY <2>4, <2>8, <4>1
        <4>3. w \in Taken
          BY <4>1, <4>2 DEF Taken
        <4> QED
          BY <1>0, <4>1, <4>3 DEF KeysOf
      <3> QED
        BY <3>1, <3>2, <3>3
    <2>9. IsDeliverable(cur, KeyOf(t))
      BY <2>4, <2>7, <2>8 DEF IsDeliverable, PriorKnownIn
    <2> QED
      BY <2>3, <2>9
  <1>3. cur.parked \cap Drained(start) = {}
    BY <1>2
  <1>4. Taken' = Taken
    BY <1>1 DEF Taken
  <1>5. StartInv'
    BY <1>1 DEF LoopInv, StartInv
  <1> QED
    BY <1>1, <1>3, <1>4, <1>5 DEF LoopInv

\* LoopInvariant: at every turn drain_parked has delivered an initial segment of
\* what the closed form names, with the state record_delivered would have left.
THEOREM LoopInvariant == Spec => []LoopInv
  <1>1. ASSUME LoopInv, UNCHANGED vars PROVE LoopInv'
    <2>1. start' = start /\ cur' = cur /\ out' = out /\ running' = running
      BY <1>1 DEF vars
    <2>2. StartInv' /\ Taken' = Taken
      BY <1>1, <2>1 DEF LoopInv, StartInv, Taken
    <2> QED
      BY <1>1, <2>1, <2>2 DEF LoopInv
  <1>2. LoopInv /\ [Next]_vars => LoopInv'
    BY <1>1, IterateKeeps, StopKeeps DEF Next
  <1> QED
    BY <1>2, InitLoopInv, PTL DEF Spec

\* LoopEqualsDrain: when drain_parked returns, it has delivered the trains of
\* Drained, in key order, and left the node of DrainParked, cache included.
THEOREM LoopEqualsDrain == Spec => []LoopIsDrained
  <1>1. ASSUME LoopInv, ~running PROVE LoopIsDrained
    <2>1. Taken = Drained(start)
      <3>1. Drained(start) \subseteq start.parked
        BY DEF Drained
      <3> QED
        BY <1>1, <3>1 DEF LoopInv, Taken
    <2>2. DrainParked(start).node = FinishParked(start, Taken) /\ DrainParked(start).deliver = Taken
      BY <2>1 DEF DrainParked
    <2> QED
      BY <1>1, <2>2 DEF LoopInv, LoopIsDrained
  <1>2. LoopInv => LoopIsDrained
    <2>1. CASE running
      BY <2>1 DEF LoopIsDrained
    <2> QED
      BY <1>1, <2>1
  <1> QED
    BY <1>2, LoopInvariant, PTL
=============================================================================
