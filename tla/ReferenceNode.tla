--------------------------- MODULE ReferenceNode ----------------------------
(***************************************************************************)
(* verification/reference: the implementation that the differential tests  *)
(* compare trains-core with.  It has no fence, freeze, crashed set and     *)
(* retransmission cache, keeps its own delivery log, and drains its parked *)
(* trains with a plain loop.  Operators on a reference node r, written     *)
(* independently of TrainsCore except for keys, trains and their order.    *)
(***************************************************************************)
EXTENDS TrainsCore, Sequences

\* ReferenceNode::new
NewReference == [seenClk       |-> [q \in Proc |-> 0],
                 issClk        |-> 1,
                 nextSeq       |-> 0,
                 pending       |-> {},
                 doneKeys      |-> {},
                 delivered     |-> <<>>,    \* one payload set per Deliver
                 parked        |-> {},
                 broadcastSeen |-> {}]

\* A reference node and what its step forwards and suspects.
RefStep(r, forward, suspect) == [ref |-> r, forward |-> forward, suspect |-> suspect]

\* app_broadcast
AppBroadcast(p, r) ==
    LET m == <<p, r.nextSeq>> IN
    IF m \in r.broadcastSeen
      THEN r
      ELSE [r EXCEPT !.broadcastSeen = @ \cup {m},
                     !.pending       = @ \cup {m},
                     !.nextSeq       = @ + 1]

\* is_deliverable, with its three blocking conditions
RefDeliverable(r, k) ==
    ~ \/ \E t \in r.parked : Less(KeyOf(t), k)
      \/ \E q \in Proc : \E c \in 1..r.seenClk[q] : Less(<<c, q>>, k) /\ <<c, q>> \notin r.doneKeys
      \/ \E q \in Issuer : r.seenClk[q] < k[1]

\* A key is done; its payloads, if any, are delivered.
RefDeliver(r, t) ==
    [r EXCEPT !.doneKeys  = @ \cup {KeyOf(t)},
              !.delivered = IF t.payloads = {} THEN @ ELSE Append(@, t.payloads)]

\* ready_to_deliver: every ack, in every mode
RefReady(t) == t.acks = Proc

\* try_deliver
RefTryDeliver(r, t) ==
    IF ~RefReady(t) \/ KeyOf(t) \in r.doneKeys THEN r
    ELSE IF RefDeliverable(r, KeyOf(t)) THEN RefDeliver(r, t)
    ELSE IF \E u \in r.parked : KeyOf(u) = KeyOf(t) THEN r
    ELSE [r EXCEPT !.parked = @ \cup {t}]

\* Mutant: one round of the loop.
RefDrainOnce(r) ==
    IF \E t \in r.parked : RefDeliverable(r, KeyOf(t))
      THEN LET t == CHOOSE t \in r.parked : RefDeliverable(r, KeyOf(t))
           IN  RefDeliver([r EXCEPT !.parked = @ \ {t}], t)
      ELSE r

\* The parked train with the least key.
RefLeast(r) == CHOOSE t \in r.parked : \A u \in r.parked : ~Less(KeyOf(u), KeyOf(t))

\* One round of the loop of drain_parked, or nothing once it has ended.
RefRound(r) ==
    IF r.parked = {} \/ ~RefDeliverable(r, KeyOf(RefLeast(r)))
      THEN r
      ELSE RefDeliver([r EXCEPT !.parked = @ \ {RefLeast(r)}], RefLeast(r))

\* drain_parked: rounds[i] is the state after i rounds.
RefDrainParked(r) ==
    LET rounds[i \in 0..Cardinality(r.parked)] ==
            IF i = 0 THEN r ELSE RefRound(rounds[i - 1])
    IN  rounds[Cardinality(r.parked)]

\* issue_new_train, also issue_initial_train
RefIssue(p, r) ==
    RefStep([r EXCEPT !.issClk        = @ + 1,
                      !.broadcastSeen = @ \cup r.pending,
                      !.pending       = {}],
            {[issuer |-> p, clock |-> r.issClk, payloads |-> r.pending, acks |-> {p}]},
            {})

\* The gap of handle_foreign.
RefGap(r, t) == t.clock > r.seenClk[t.issuer] + 1

\* handle_foreign
HandleForeign(p, r, t) ==
    LET prev   == r.seenClk[t.issuer]
        loaded == [t EXCEPT !.payloads = @ \cup r.pending, !.acks = @ \cup {p}]
        known  == [r EXCEPT !.broadcastSeen = @ \cup t.payloads]
    IN  IF prev >= t.clock /\ prev > 0
          THEN RefStep(RefDrainParked(RefTryDeliver(known, t)), {t}, {})
          ELSE RefStep(RefDrainParked([known EXCEPT
                           !.seenClk[t.issuer] = t.clock,
                           !.broadcastSeen     = @ \cup r.pending,
                           !.pending           = {}]),
                       {loaded},
                       IF RefGap(r, t) THEN {t.issuer} ELSE {})

\* handle_returning
HandleReturning(p, r, t) ==
    LET s == [r EXCEPT !.seenClk[p] = IF t.clock > @ THEN t.clock ELSE @]
    IN  IF KeyOf(t) \in r.doneKeys
          THEN RefIssue(p, s)
          ELSE RefStep(RefDrainParked(RefTryDeliver(s, t)), {t}, {})

\* handle_train
RefHandleTrain(p, r, t) ==
    IF t.issuer = p THEN HandleReturning(p, r, t) ELSE HandleForeign(p, r, t)
=============================================================================
