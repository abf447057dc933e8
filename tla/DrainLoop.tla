----------------------------- MODULE DrainLoop -----------------------------
(***************************************************************************)
(* drain_parked as the loop it is in node.rs, one iteration per step, from *)
(* every combination of seen clocks, finished and parked keys, cached      *)
(* payloads, excluded processes and freeze with small clocks.  TrainsCore  *)
(* says in one formula which trains the loop delivers (Drained); this      *)
(* module checks that.                                                     *)
(***************************************************************************)
EXTENDS TrainsCore, Sequences

CONSTANT MaxSeen    \* bound: clocks seen

ASSUME SeenAssumption == MaxSeen \in Nat

VARIABLES start,    \* the node when drain_parked is called
          cur,      \* the node in the loop
          out,      \* the keys delivered so far, in order
          running

vars == <<start, cur, out, running>>

KnownKeys(seen) == {k \in (1..MaxSeen) \X Issuer : k[1] <= seen[k[2]]}

\* A train as it is parked: full.
FullTrain(k) == [issuer |-> k[2], clock |-> k[1], payloads |-> {<<k[2], k[1]>>}, acks |-> Proc]

FullTrains(K) == {FullTrain(k) : k \in K}

\* A node with seen clocks s, finished keys D, of which W had payloads, parked
\* keys P and excluded processes X.
StartNode(s, D, W, P, X, f) ==
    [NewNode EXCEPT
        !.seen    = [q \in Proc |-> IF q \in Issuer THEN s[q] ELSE 0],
        !.done    = D,
        !.parked  = FullTrains(P),
        !.cache   = CacheDelivered({}, Entries(FullTrains(W))),
        !.crashed = X,
        !.frozen  = f]

\* A view change leaves gaps in the finished keys and excludes processes, so D and
\* X are free.
Init ==
    /\ \E s \in [Issuer -> 0..MaxSeen] :
       \E D \in SUBSET KnownKeys(s) :
       \E W \in SUBSET D, P \in SUBSET (KnownKeys(s) \ D), X \in SUBSET Proc, f \in BOOLEAN :
          start = StartNode(s, D, W, P, X, f)
    /\ cur = start
    /\ out = <<>>
    /\ running = TRUE

LeastParked(n) ==
    CHOOSE t \in n.parked : \A u \in n.parked : ~Less(KeyOf(u), KeyOf(t))

\* One turn of the loop.
Iterate ==
    /\ running
    /\ ~cur.frozen
    /\ cur.parked # {}
    /\ IsDeliverable(cur, KeyOf(LeastParked(cur)))
    /\ cur' = FinishParked(cur, {LeastParked(cur)})
    /\ out' = Append(out, KeyOf(LeastParked(cur)))
    /\ UNCHANGED <<start, running>>

\* The early return and the two breaks.
Stop ==
    /\ running
    /\ \/ cur.frozen
       \/ cur.parked = {}
       \/ cur.parked # {} /\ ~IsDeliverable(cur, KeyOf(LeastParked(cur)))
    /\ running' = FALSE
    /\ UNCHANGED <<start, cur, out>>

Next == Iterate \/ Stop

Spec == Init /\ [][Next]_vars

\* LoopIsDrained: when the loop ends it has delivered exactly Drained(start),
\* in key order, and left the node DrainParked describes: the closed form the
\* ring models use loses nothing of the loop.
LoopIsDrained ==
    ~running =>
        /\ cur = DrainParked(start).node
        /\ {out[i] : i \in 1..Len(out)} = KeysOf(DrainParked(start).deliver)
        /\ \A i, j \in 1..Len(out) : i < j => Less(out[i], out[j])

\* The trains the loop has taken from parked.
Taken == start.parked \ cur.parked

\* Trains are parked under distinct keys that are not finished yet, and the cache
\* is within its cap.
StartInv ==
    /\ start \in Node /\ IsFiniteSet(start.parked) /\ IsFiniteSet(start.cache)
    /\ CacheDelivered(start.cache, {}) = start.cache
    /\ KeysOf(start.parked) \cap start.done = {}
    /\ \A t, u \in start.parked : KeyOf(t) = KeyOf(u) => t = u

\* LoopInv: the loop has delivered a part of Drained(start), smallest keys first,
\* as record_delivered would have at once; it ends with nothing of it left.
LoopInv ==
    /\ StartInv
    /\ cur = FinishParked(start, Taken)
    /\ Taken \subseteq Drained(start)
    /\ \A t \in Taken, u \in cur.parked : Less(KeyOf(t), KeyOf(u))
    /\ out \in Seq(Key)
    /\ {out[i] : i \in 1..Len(out)} = KeysOf(Taken)
    /\ \A i, j \in 1..Len(out) : i < j => Less(out[i], out[j])
    /\ running \in BOOLEAN
    /\ running \/ cur.parked \cap Drained(start) = {}
=============================================================================
