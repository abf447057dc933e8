----------------------------- MODULE TrainsTrace ----------------------------
(***************************************************************************)
(* The ring of ring.rs with --trace: every node task emits a record after  *)
(* it has dispatched the outputs of a step, unless the step is filtered    *)
(* out as uninteresting, and trace_validate.rs walks the file.             *)
(*                                                                         *)
(* Between dispatch and record other tasks run: the successor may handle   *)
(* the train, and write its record, before the step that sent it is        *)
(* recorded.  A task that is aborted there loses the record.  The channel  *)
(* to the writer keeps order, so the validator inspects a record when it   *)
(* is emitted.  The ring runs in one program over loopback: connections    *)
(* neither repeat nor lose trains.                                         *)
(***************************************************************************)
EXTENDS TrainsRing, SequencesExt

VARIABLES
    unsent,     \* unsent[p]: the record of p's last step, until it is emitted
    validator   \* the variables of trace_validate's main

traceVars == <<vars, unsent, validator>>

TraceInit ==
    /\ Init
    /\ unsent = [p \in Proc |-> <<>>]
    /\ validator = [broadcast  |-> {},
                    logs       |-> [p \in Proc |-> <<>>],
                    prevSeen   |-> [p \in Proc |-> [q \in Proc |-> 0]],
                    violations |-> {}]

-----------------------------------------------------------------------------
(* The recorder *)

\* The payloads of a log one by one: Deliver sorts a batch by sender and seq.
DeliveredSeq(s) == FlattenSeq([i \in 1..Len(s) |-> SetToSortSeq(s[i], Less)])

\* TraceRecord with TraceAction, TraceOutput and NodeState: arrived and
\* forwarded are the payloads of the train summaries.
Record(p, n, arrived, forwarded, out, all) ==
    [node |-> p, arrived |-> arrived, forwarded |-> forwarded, out |-> out,
     seen |-> n.seen, deliveredLen |-> Len(DeliveredSeq(all))]

\* Mutant: the inbound train does not count.
InterestingOutputsOnly(t, r) == r.deliver # {} \/ r.suspect # {}

\* Mutant: a step that delivers does not count.
InterestingInboundOnly(t, r) == t.payloads # {} \/ r.suspect # {}

\* outs_contain_delivery_or_crash, or the inbound train carries payloads.
Interesting(t, r) == t.payloads # {} \/ r.deliver # {} \/ r.suspect # {}

TraceBroadcast(p) ==
    /\ unsent[p] = <<>>
    /\ Broadcast(p)
    /\ unsent' = [unsent EXCEPT ![p] =
                    <<Record(p, node'[p], {}, {}, <<>>, log[p])>>]
    /\ UNCHANGED validator

TraceReceive(p, t) ==
    /\ unsent[p] = <<>>
    /\ Receive(p, t)
    /\ \E r \in {HandleTrain(p, node[p], t)} :
          unsent' = [unsent EXCEPT ![p] =
              IF Interesting(t, r)
                THEN <<Record(p, r.node, t.payloads,
                              UNION {u.payloads : u \in r.forward},
                              DeliveredSeq(LogOf(r.deliver)), log'[p])>>
                ELSE <<>>]
    /\ UNCHANGED validator

TraceCrash(p) ==
    /\ Crash(p)
    /\ unsent' = [unsent EXCEPT ![p] = <<>>]
    /\ UNCHANGED validator

-----------------------------------------------------------------------------
(* The validator *)

IsMutualPrefix(a, b) == IsPrefix(a, b) \/ IsPrefix(b, a)

\* The checks of main's loop that rec fails, logs being the logs after it.
\* TypeOK looks at lengths and ranges that a Record has by its shape.
Violated(v, rec, logs) ==
    {c \in {"ClockMonotonicity", "NoSpuriousDelivery", "DeliveredLen",
            "TrainIntegrity", "ConsistentDelivery"} :
        CASE c = "ClockMonotonicity" ->
                \E q \in Proc : rec.seen[q] < v.prevSeen[rec.node][q]
          [] c = "NoSpuriousDelivery" ->
                ~(ToSet(rec.out) \subseteq v.broadcast \cup rec.arrived)
          [] c = "DeliveredLen" -> Len(logs[rec.node]) # rec.deliveredLen
          [] c = "TrainIntegrity" -> \E m \in rec.forwarded : m[1] \notin Proc
          [] c = "ConsistentDelivery" ->
                rec.out # <<>> /\ \E p, q \in Proc : ~IsMutualPrefix(logs[p], logs[q])}

\* One turn of the loop.
Inspect(v, rec) ==
    LET logs == [v.logs EXCEPT ![rec.node] = @ \o rec.out] IN
    [broadcast  |-> v.broadcast \cup rec.arrived \cup rec.forwarded \cup ToSet(rec.out),
     logs       |-> logs,
     prevSeen   |-> [v.prevSeen EXCEPT ![rec.node] = rec.seen],
     violations |-> v.violations \cup Violated(v, rec, logs)]

\* run_one_node up to its loop: the initial train is recorded before it is sent.
TraceBoot(p) ==
    /\ BootIssuer(p) \/ BootOther(p)
    /\ validator' = IF p \in Issuer
                      THEN Inspect(validator, Record(p, node'[p], {}, {}, <<>>, <<>>))
                      ELSE validator
    /\ UNCHANGED unsent

\* emit_trace, trace_writer_task and the validator's turn for the record.
Emit(p) ==
    /\ status[p] = "up"
    /\ unsent[p] # <<>>
    /\ validator' = Inspect(validator, unsent[p][1])
    /\ unsent' = [unsent EXCEPT ![p] = <<>>]
    /\ UNCHANGED vars

TraceNext ==
    \/ \E p \in Proc : TraceBoot(p) \/ TraceBroadcast(p) \/ TraceCrash(p) \/ Emit(p)
    \/ \E m \in net : TraceReceive(m[1], m[2])

TraceSpec == TraceInit /\ [][TraceNext]_traceVars

-----------------------------------------------------------------------------
(* Properties *)

\* NoFalseAlarm: the validator accepts every run of the ring, although most
\* steps are not in the file, records of different nodes are written in another
\* order than the steps happened, and a payload's broadcast is not visible in
\* the record of the broadcast: a payload is in some earlier record of a node
\* that delivers it.
NoFalseAlarm == validator.violations = {}

\* LogsReconstructed: what the validator judges is what happened: as soon as a
\* node has no record under way, the log the validator accumulated for it is
\* the log of the node.  A delivery that the filter drops would escape
\* ConsistentDelivery.
LogsReconstructed ==
    \A p \in Proc : status[p] = "up" /\ unsent[p] = <<>>
                        => validator.logs[p] = DeliveredSeq(log[p])
=============================================================================
