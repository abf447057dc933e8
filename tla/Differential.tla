---------------------------- MODULE Differential ----------------------------
(***************************************************************************)
(* verification/drt: the same inputs for the core and for the reference    *)
(* implementation, step by step, and their outputs compared.  Two things   *)
(* go beyond the harness.  The core is called through the AO adapter, so   *)
(* that the translation of inputs and outputs is compared too; and the     *)
(* node also gets its own trains back, which the harness filters out, so   *)
(* that delivery at the issuer and recycling are compared.  Trains are     *)
(* otherwise arbitrary, as in the harness: clocks jump and go back, acks   *)
(* are complete from the start, partial or empty.                          *)
(***************************************************************************)
EXTENDS ReferenceNode, AoAdapter

CONSTANTS
    MaxClock,   \* bound: clocks of the trains fed
    MaxIssue,   \* bound: trains the node issues itself
    MaxSeq,     \* bound: broadcasts
    Loaders,    \* bound: the senders of payloads on the trains fed
    AckSets     \* bound: the acks on the trains fed

ASSUME DifferentialBounds ==
    /\ MaxClock \in Nat /\ MaxIssue \in Nat /\ MaxSeq \in Nat
    /\ Loaders \subseteq Proc /\ AckSets \subseteq SUBSET Proc

\* run_drt builds both nodes with this mode.
ASSUME HarnessMode == Mode = "UniformTotalOrder"

VARIABLES
    me,         \* the process under test
    core,       \* prod, behind the adapter
    ref,        \* refn
    log,        \* the payload sets of the Deliver envelopes, in order
    outs        \* what the last step gave, [core, ref]

vars == <<me, core, ref, log, outs>>

\* StepOutputs::from: three buckets, each without order.
StepOutputs(forwarded, delivered, crashDecls) ==
    [forwarded |-> forwarded, delivered |-> delivered, crashDecls |-> crashDecls]

\* The places of the envelopes of a kind.
OfKind(outbox, kind) == {i \in DOMAIN outbox : outbox[i].kind = kind}

\* The buckets of the adapter's envelopes.
NormalOutbox(outbox) ==
    StepOutputs({outbox[i].data[1] : i \in OfKind(outbox, "ForwardTrain")},
                {outbox[i].data[1] : i \in OfKind(outbox, "Deliver")},
                UNION {outbox[i].from : i \in OfKind(outbox, "DeclareCrash")})

\* What the Deliver envelopes carry, in their order.
Delivered(outbox) ==
    LET P == OfKind(outbox, "Deliver")
    IN  [i \in 1..Cardinality(P) |->
            outbox[CHOOSE j \in P : Cardinality({k \in P : k < j}) = i - 1].data[1]]

\* The buckets of a step of the reference from r.
NormalRef(r, s) ==
    StepOutputs(s.forward,
                ToSet(SubSeq(s.ref.delivered, Len(r.delivered) + 1, Len(s.ref.delivered))),
                s.suspect)

\* run_drt up to its loop: an issuer sends its first train.
Init ==
    /\ me \in Proc
    /\ log = <<>>
    /\ IF me \in Issuer
         THEN \E i \in {IssueInitial(me, NewNode)}, s \in {RefIssue(me, NewReference)} :
                 /\ core = i.node
                 /\ ref = s.ref
                 /\ outs = [core |-> NormalOutbox(i.outbox), ref |-> NormalRef(NewReference, s)]
         ELSE /\ core = NewNode
              /\ ref = NewReference
              /\ outs = [core |-> StepOutputs({}, {}, {}), ref |-> StepOutputs({}, {}, {})]

\* One round of run_drt's loop: env for the core, s the step of the reference.
Step(env, s) ==
    \E f \in {Feed(me, core, env)} :
        /\ core' = f.node
        /\ ref' = s.ref
        /\ log' = log \o Delivered(f.outbox)
        /\ outs' = [core |-> NormalOutbox(f.outbox), ref |-> NormalRef(ref, s)]
        /\ UNCHANGED me

Broadcast ==
    /\ core.nextSeq < MaxSeq
    /\ Step(AppBroadcastEnv(<<me, core.nextSeq>>), RefStep(AppBroadcast(me, ref), {}, {}))

\* arb_train, with the node's own trains.  A payload that is still pending is
\* on no train.
Trains ==
    {t \in [issuer : Issuer, clock : 1..MaxClock, acks : AckSets,
            payloads : {{}} \cup {{m} : m \in (Loaders \X {0}) \ core.pending}] :
        t.issuer = me => t.clock < core.nextIssue}

Receive(t) ==
    /\ core.nextIssue <= MaxIssue \/ t.issuer # me \/ KeyOf(t) \notin core.done
    /\ Step(TrainArrivedEnv(t), RefHandleTrain(me, ref, t))

Tick == Step(TickEnv, RefStep(ref, {}, {}))

\* Envelopes the adapter refuses: outbox kinds, and bodies that do not parse.
\* The reference sees nothing of them.
Refused(kind) ==
    Step(Envelope(kind, {}, <<>>), RefStep(ref, {}, {}))

Next ==
    \/ Broadcast
    \/ \E t \in Trains : Receive(t)
    \/ Tick
    \/ \E kind \in OutputKind \cup {"AppBroadcast", "TrainArrived"} : Refused(kind)

Spec == Init /\ [][Next]_vars

-----------------------------------------------------------------------------
(* Properties *)

\* SameOutputs: "Any divergence is a bug" (drt): on every input, after every
\* history, the core behind the adapter and the reference forward the same
\* trains, deliver the same payloads and suspect the same processes.
SameOutputs == outs.core = outs.ref

\* SameLog: the two deliver in the same order, also within a step, where the
\* harness sorts before it compares: the reference's loop and the core's drain
\* release several parked trains at once.
SameLog == log = ref.delivered

\* SameState: the two agree on all the state they share, so that they go on
\* agreeing: in particular on what is parked and which ids were seen.
SameState ==
    /\ core.seen = ref.seenClk
    /\ core.done = ref.doneKeys
    /\ core.parked = ref.parked
    /\ core.pending = ref.pending
    /\ core.nextIssue = ref.issClk
    /\ core.nextSeq = ref.nextSeq
    /\ core.broadcastSeen = ref.broadcastSeen
=============================================================================
