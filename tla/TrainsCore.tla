----------------------------- MODULE TrainsCore -----------------------------
(***************************************************************************)
(* The sans-IO state machine of crates/trains-core: one ring member        *)
(* (struct TrainsNode) and the functions Input -> (state, outputs) that    *)
(* the drivers call.  The module has no variables: every handler is an     *)
(* operator from a node state to a step result, so that the static ring    *)
(* and the reconfigurable ring compose the same code.                      *)
(*                                                                         *)
(* Data abstraction.  A payload is its identity <<sender, seq>>: no        *)
(* decision looks at the bytes.  A train's payload vector is the set of    *)
(* its payloads: sort_payloads makes what is delivered a function of the   *)
(* set.  ack_bits and crashed_bits are sets of processes.  Clocks are      *)
(* u64 and saturate; the instances stay far below the limit.               *)
(***************************************************************************)
EXTENDS Integers, FiniteSets

CONSTANTS
    RingSize,   \* RING_SIZE: number of processes
    NumTrains,  \* NUM_TRAINS: processes 0..NumTrains-1 issue a train each
    Mode,       \* DeliveryMode
    CacheCap    \* DELIVERED_CACHE_CAP

ASSUME RingAssumption  == RingSize \in Nat \ {0, 1}
ASSUME TrainAssumption == NumTrains \in 1..RingSize
ASSUME ModeAssumption  == Mode \in {"UniformTotalOrder", "TotalOrder", "CausalOrder"}
ASSUME CacheAssumption == CacheCap \in Nat

Proc    == 0..(RingSize - 1)
Issuer  == 0..(NumTrains - 1)
Payload == Proc \X Nat          \* <<sender, seq>>
Key     == Nat \X Proc          \* ClockKey: <<clock, issuer>>

Train == [issuer : Proc, clock : Nat, payloads : SUBSET Payload, acks : SUBSET Proc]

KeyOf(t) == <<t.clock, t.issuer>>

\* ClockKey's derived order: clock first, then issuer.
Less(j, k) == j[1] < k[1] \/ (j[1] = k[1] /\ j[2] < k[2])

KeysOf(T) == {KeyOf(t) : t \in T}

-----------------------------------------------------------------------------
(* State of one process. *)

\* delivered_cache: what a node can retransmit for a key it delivered.
CacheEntry == [key : Key, payloads : SUBSET Payload]

Node == [seen          : [Proc -> Nat],   \* clock_state
         done          : SUBSET Key,      \* delivery.done_keys
         crashed       : SUBSET Proc,     \* delivery.crashed_bits
         nextIssue     : Nat,             \* next_issue_clock
         nextSeq       : Nat,
         pending       : SUBSET Payload,
         parked        : SUBSET Train,
         broadcastSeen : SUBSET Payload,
         cache         : SUBSET CacheEntry,
         floor         : [Proc -> Nat],   \* view_floor
         frozen        : BOOLEAN]

\* TrainsNode::new
NewNode == [seen          |-> [q \in Proc |-> 0],
            done          |-> {},
            crashed       |-> {},
            nextIssue     |-> 1,
            nextSeq       |-> 0,
            pending       |-> {},
            parked        |-> {},
            broadcastSeen |-> {},
            cache         |-> {},
            floor         |-> [q \in Proc |-> 0],
            frozen        |-> FALSE]

\* What a call of step() yields: the new state, the trains of ForwardTrain,
\* the trains whose payloads Deliver carries (in key order: the drain takes
\* the least parked key first) and the suspects of DeclareCrash.
Result(n, forward, deliver, suspect) ==
    [node |-> n, forward |-> forward, deliver |-> deliver, suspect |-> suspect]

-----------------------------------------------------------------------------
(* clock.rs *)

\* ClockState::check_and_update: only a larger clock is stored.
CheckAndUpdate(n, q, c) ==
    [n EXCEPT !.seen[q] = IF c > @ THEN c ELSE @]

IsGap(n, q, c) == c > n.seen[q] + 1

-----------------------------------------------------------------------------
(* delivery.rs *)

\* DeliveryState::ready_to_deliver
ReadyToDeliver(n, acks) ==
    \/ Mode = "UniformTotalOrder" /\ acks = Proc
    \/ Mode = "TotalOrder" /\ Proc \ n.crashed \subseteq acks

-----------------------------------------------------------------------------
(* Ordering conditions of node.rs *)

\* Mutant: issuers never heard of do not block.
GateSkipsUnheard(n, k) ==
    \A q \in Issuer \ n.crashed : n.seen[q] = 0 \/ n.seen[q] >= k[1]

\* Mutant: one clock less is enough.
GateOneClockEarly(n, k) ==
    \A q \in Issuer \ n.crashed : n.seen[q] >= k[1] - 1

\* Mutant: the others must be one clock ahead.
GateOneClockLate(n, k) ==
    \A q \in Issuer \ n.crashed : n.seen[q] > k[1]

\* seen_clocks_advanced_enough
SeenClocksAdvancedEnough(n, k) ==
    \A q \in Issuer \ n.crashed : n.seen[q] >= k[1]

\* Mutant: the range excludes the last clock seen.
PriorKnownExclusive(n, k, S) ==
    \A q \in Proc : \A c \in 1..(n.seen[q] - 1) : Less(<<c, q>>, k) => <<c, q>> \in S

\* Every key this node knows to exist below k is in S.
PriorKnownIn(n, k, S) ==
    \A q \in Proc : \A c \in 1..n.seen[q] : Less(<<c, q>>, k) => <<c, q>> \in S

\* is_deliverable
IsDeliverable(n, k) ==
    /\ \A t \in n.parked : ~Less(KeyOf(t), k)
    /\ PriorKnownIn(n, k, n.done)
    /\ SeenClocksAdvancedEnough(n, k)

\* What is left of trains once delivered.
Entries(T) == {[key |-> KeyOf(t), payloads |-> t.payloads] : t \in T}

\* The entries of E with smaller keys; their number is the place of e in key order.
Before(E, e) == {f \in E : Less(f.key, e.key)}

\* The entries of E as Output::Deliver hands them over: in key order.
InKeyOrder(E) ==
    [i \in 1..Cardinality(E) |-> CHOOSE e \in E : Cardinality(Before(E, e)) = i - 1]

\* The payloads of the trains of T, train by train.
LogOf(T) == LET s == InKeyOrder(Entries(T)) IN [i \in DOMAIN s |-> s[i].payloads]

\* cache_delivered, for all of E: after the evictions the CacheCap largest
\* keys are left.
CacheDelivered(cache, E) ==
    LET all == cache \cup {e \in E : e.payloads # {}}
    IN  {e \in all : Cardinality({f \in all : Less(e.key, f.key)}) < CacheCap}

\* record_delivered and cache_delivered for a train that was not parked.
RecordDelivered(n, t) ==
    [n EXCEPT !.done  = @ \cup {KeyOf(t)},
              !.cache = CacheDelivered(@, Entries({t}))]

\* The same for trains T taken from parked.
FinishParked(n, T) ==
    [n EXCEPT !.done   = @ \cup KeysOf(T),
              !.parked = @ \ T,
              !.cache  = CacheDelivered(@, Entries(T))]

\* Mutant: a key that is done is delivered again when its train comes round.
TryDeliverAgain(n, t) ==
    IF n.frozen \/ ~ReadyToDeliver(n, t.acks)
      THEN [node |-> n, deliver |-> {}]
    ELSE IF IsDeliverable(n, KeyOf(t))
      THEN [node |-> RecordDelivered(n, t), deliver |-> {t}]
    ELSE IF KeyOf(t) \in KeysOf(n.parked)
      THEN [node |-> n, deliver |-> {}]
    ELSE [node |-> [n EXCEPT !.parked = @ \cup {t}], deliver |-> {}]

\* try_deliver: the state after it and the trains it delivers ({} or {t}).  A copy
\* of t in parked would stay there; there is none (see Tidy).
TryDeliver(n, t) ==
    IF n.frozen \/ ~ReadyToDeliver(n, t.acks) \/ KeyOf(t) \in n.done
      THEN [node |-> n, deliver |-> {}]
    ELSE IF IsDeliverable(n, KeyOf(t))
      THEN [node |-> RecordDelivered(n, t), deliver |-> {t}]
    ELSE IF KeyOf(t) \in KeysOf(n.parked)
      THEN [node |-> n, deliver |-> {}]
    ELSE [node |-> [n EXCEPT !.parked = @ \cup {t}], deliver |-> {}]

\* Mutant: keys delivered by the same drain do not count as done.
DrainedAgainstDone(n) ==
    {t \in n.parked :
        /\ ~n.frozen
        /\ SeenClocksAdvancedEnough(n, KeyOf(t))
        /\ PriorKnownIn(n, KeyOf(t), n.done)}

\* What the loop of drain_parked removes.  The loop delivers the least parked
\* key while it is deliverable; nothing it does changes seen, and each key it
\* delivers joins done, so it stops at the first parked key that fails the
\* gate or has a known smaller key neither done nor parked.  Both conditions
\* are closed under smaller parked keys: these trains are a prefix of parked.
Drained(n) ==
    {t \in n.parked :
        /\ ~n.frozen
        /\ SeenClocksAdvancedEnough(n, KeyOf(t))
        /\ PriorKnownIn(n, KeyOf(t), n.done \cup KeysOf(n.parked))}

\* drain_parked
DrainParked(n) == [node |-> FinishParked(n, Drained(n)), deliver |-> Drained(n)]

\* Output::Deliver is emitted for non-empty trains only.
NonEmpty(T) == {t \in T : t.payloads # {}}

\* try_deliver followed by drain_parked, as both train handlers do.  The union
\* counts a train once: try_deliver and the drain of one step never deliver the
\* same train, because a train that is parked when the step begins is not yet
\* deliverable (ParkedNotDeliverable in TrainsCoreProofs).
TryDeliverThenDrain(n, t) ==
    LET tried   == TryDeliver(n, t)
        drained == DrainParked(tried.node)
    IN  [node    |-> drained.node,
         deliver |-> NonEmpty(tried.deliver \cup drained.deliver)]

-----------------------------------------------------------------------------
(* Handlers of node.rs.  p is the process that runs them. *)

\* handle_broadcast
HandleBroadcast(p, n) ==
    LET m == <<p, n.nextSeq>> IN
    IF m \in n.broadcastSeen
      THEN n
      ELSE [n EXCEPT !.broadcastSeen = @ \cup {m},
                     !.pending       = @ \cup {m},
                     !.nextSeq       = @ + 1]

\* The train issue_new_train builds, and the state it leaves.  Also
\* issue_initial_train and reissue_train.
NewTrain(p, n) ==
    [issuer |-> p, clock |-> n.nextIssue, payloads |-> n.pending, acks |-> {p}]

\* Mutant: the clock is not advanced.
AfterIssueSameClock(n) ==
    [n EXCEPT !.broadcastSeen = @ \cup n.pending,
              !.pending       = {}]

AfterIssue(n) ==
    [n EXCEPT !.nextIssue     = @ + 1,
              !.broadcastSeen = @ \cup n.pending,
              !.pending       = {}]

\* handle_foreign_train, lap 1: first sight of the key.
HandleFirstLap(p, n, t) ==
    LET t1 == [t EXCEPT !.payloads = @ \cup n.pending, !.acks = @ \cup {p}]
        n1 == [CheckAndUpdate(n, t.issuer, t.clock) EXCEPT
                  !.broadcastSeen = @ \cup t1.payloads,
                  !.pending       = {}]
        d  == DrainParked(n1)
    IN  Result(d.node, {t1}, NonEmpty(d.deliver),
               IF IsGap(n, t.issuer, t.clock) THEN {t.issuer} ELSE {})

\* handle_foreign_train, lap 2: a key this node saw before.
HandleReplay(n, t) ==
    LET d == TryDeliverThenDrain([n EXCEPT !.broadcastSeen = @ \cup t.payloads], t)
    IN  Result(d.node, {t}, d.deliver, {})

\* Mutant: the second lap is taken for the first.
ReplayOnlyBelow(n, t) == n.seen[t.issuer] > t.clock /\ n.seen[t.issuer] > 0

\* handle_foreign_train: is_replay
IsReplay(n, t) == n.seen[t.issuer] >= t.clock /\ n.seen[t.issuer] > 0

\* Mutant: no early return after recycling, the old train goes round again.
ReturningForwardsBoth(p, n, t) ==
    LET n1 == CheckAndUpdate(n, p, t.clock)
        d  == TryDeliverThenDrain(n1, t)
    IN  IF KeyOf(t) \in n.done
          THEN Result(AfterIssue(n1), {t, NewTrain(p, n1)}, {}, {})
          ELSE Result(d.node, {t}, d.deliver, {})

\* Mutant: recycles as soon as the issuer itself has delivered.
ReturningRecyclesAtOnce(p, n, t) ==
    LET n1 == CheckAndUpdate(n, p, t.clock)
        d  == TryDeliverThenDrain(n1, t)
    IN  IF KeyOf(t) \in d.node.done
          THEN Result(AfterIssue(d.node), {NewTrain(p, d.node)}, d.deliver, {})
          ELSE Result(d.node, {t}, d.deliver, {})

\* handle_returning_train
HandleReturningTrain(p, n, t) ==
    LET n1 == CheckAndUpdate(n, p, t.clock)
        d  == TryDeliverThenDrain(n1, t)
    IN  IF KeyOf(t) \in n.done
          THEN Result(AfterIssue(n1), {NewTrain(p, n1)}, {}, {})
          ELSE Result(d.node, {t}, d.deliver, {})

\* handle_train
HandleTrain(p, n, t) ==
    IF t.clock <= n.floor[t.issuer] THEN Result(n, {}, {}, {})
    ELSE IF t.issuer = p            THEN HandleReturningTrain(p, n, t)
    ELSE IF IsReplay(n, t)          THEN HandleReplay(n, t)
    ELSE HandleFirstLap(p, n, t)

-----------------------------------------------------------------------------
\* What every handler maintains: trains are parked in one copy and not after they
\* are finished, and their clocks count as seen.  As drain_parked ends every step
\* (Drained(n) = {}), try_deliver never finishes a key that is parked.
Tidy(n) ==
    /\ IsFiniteSet(n.parked)
    /\ \A t, u \in n.parked : KeyOf(t) = KeyOf(u) => t = u
    /\ KeysOf(n.parked) \cap n.done = {}
    /\ \A k \in n.done \cup KeysOf(n.parked) : k[1] <= n.seen[k[2]]
=============================================================================
