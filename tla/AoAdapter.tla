----------------------------- MODULE AoAdapter ------------------------------
(***************************************************************************)
(* crates/trains-ao: the core behind envelopes.  The host feeds an inbox   *)
(* envelope and gets outbox envelopes or an error.  The JSON body of an    *)
(* envelope is <<>> when it is null or does not parse as what the kind     *)
(* asks for, and <<x>> when it is the encoding of x.                       *)
(***************************************************************************)
EXTENDS TrainsCore, SequencesExt

InputKind  == {"AppBroadcast", "TrainArrived", "Tick"}
OutputKind == {"ForwardTrain", "Deliver", "DeclareCrash"}

Envelope(kind, from, data) == [kind |-> kind, from |-> from, data |-> data]

\* The constructors.  from is the issuer of a train, not the sender.
AppBroadcastEnv(m)   == Envelope("AppBroadcast", {}, <<m>>)
TrainArrivedEnv(t)   == Envelope("TrainArrived", {t.issuer}, <<t>>)
TickEnv              == Envelope("Tick", {}, <<>>)
ForwardTrainEnv(t)   == Envelope("ForwardTrain", {t.issuer}, <<t>>)
DeliverEnv(payloads) == Envelope("Deliver", {}, <<payloads>>)
DeclareCrashEnv(v)   == Envelope("DeclareCrash", {v}, <<>>)

\* as_app_broadcast_bytes, as_train: is there something to extract?
Parses(env) == env.kind = "Tick" \/ env.data # <<>>

\* TrainsNode::step on the input of an envelope; Tick does nothing.
StepOf(p, n, env) ==
    CASE env.kind = "AppBroadcast" -> Result(HandleBroadcast(p, n), {}, {}, {})
      [] env.kind = "TrainArrived" -> HandleTrain(p, n, env.data[1])
      [] env.kind = "Tick"         -> Result(n, {}, {}, {})

\* Mutant: the greatest parked key first.
DeliverSeqDescending(T) == Reverse(LogOf(T))

\* The order in which try_deliver and the drain emit Deliver.
DeliverSeq(T) == LogOf(T)

\* Mutant: the adapter only passes trains and deliveries on.
OutboxWithoutCrash(r) ==
    LET trains == SetToSeq(r.forward)
        delivs == DeliverSeq(r.deliver)
    IN  [i \in DOMAIN trains |-> ForwardTrainEnv(trains[i])]
        \o [i \in DOMAIN delivs |-> DeliverEnv(delivs[i])]

\* The outputs as envelopes, by kind.  Where a Deliver stands relative to the
\* ForwardTrain of the same step is left out.
Outbox(r) ==
    LET trains == SetToSeq(r.forward)
        delivs == DeliverSeq(r.deliver)
        victims == SetToSeq(r.suspect)
    IN  [i \in DOMAIN victims |-> DeclareCrashEnv(victims[i])]
        \o [i \in DOMAIN trains |-> ForwardTrainEnv(trains[i])]
        \o [i \in DOMAIN delivs |-> DeliverEnv(delivs[i])]

\* issue_initial
IssueInitial(p, n) ==
    [node |-> AfterIssue(n), outbox |-> <<ForwardTrainEnv(NewTrain(p, n))>>]

\* feed
Feed(p, n, env) ==
    IF env.kind \notin InputKind
      THEN [node |-> n, outbox |-> <<>>, error |-> "NotAnInputKind"]
    ELSE IF ~Parses(env)
      THEN [node |-> n, outbox |-> <<>>, error |-> "BadPayload"]
    ELSE LET r == StepOf(p, n, env)
         IN  [node |-> r.node, outbox |-> Outbox(r), error |-> "none"]
=============================================================================
