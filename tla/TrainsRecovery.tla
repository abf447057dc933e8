--------------------------- MODULE TrainsRecovery ---------------------------
(***************************************************************************)
(* View-change recovery of crates/trains-core: what a survivor reports,    *)
(* how the reports are merged into one plan (recovery.rs), and how a node  *)
(* applies it (node.rs, apply_recovery).  Like TrainsCore the module has   *)
(* no variables.                                                           *)
(*                                                                         *)
(* A plan's actions map a key to the payloads to deliver; the empty set is *)
(* RecoveryAction::Skip, since compute_recovery_plan never emits           *)
(* Deliver([]).                                                            *)
(***************************************************************************)
EXTENDS TrainsCore, FiniteSetsExt

\* confirm_crash: the live set shrinks, and what it unblocks is drained.
\* parked holds trains that were fully acked when they were parked, so the
\* drain does not look at acks again.
ConfirmCrash(n, victim) == DrainParked([n EXCEPT !.crashed = @ \cup {victim}])

\* readmit_node: the member's ack counts again.
ReadmitNode(n, p) == [n EXCEPT !.crashed = @ \ {p}]

-----------------------------------------------------------------------------
(* State transfer of the protocol state *)

\* export_state
ExportState(n) == [seen          |-> n.seen,
                   done          |-> n.done,
                   crashed       |-> n.crashed,
                   floor         |-> n.floor,
                   broadcastSeen |-> n.broadcastSeen]

\* Mutant: done_keys is left empty.
ImportForgetsDone(p, n, snap) ==
    [n EXCEPT !.seen          = snap.seen,
              !.crashed       = snap.crashed,
              !.floor         = snap.floor,
              !.broadcastSeen = snap.broadcastSeen,
              !.nextIssue = Max({snap.seen[p], snap.floor[p]}) + 1]

\* import_state into the core n of process p: next_seq is left alone.
ImportState(p, n, snap) ==
    [n EXCEPT !.seen          = snap.seen,
              !.done          = snap.done,
              !.crashed       = snap.crashed,
              !.floor         = snap.floor,
              !.broadcastSeen = snap.broadcastSeen,
              !.nextIssue = Max({snap.seen[p], snap.floor[p]}) + 1,
              !.frozen  = FALSE,
              !.pending = {},
              !.parked  = {},
              !.cache   = {}]

-----------------------------------------------------------------------------
(* recovery_report *)

\* RecoveryReport, RecoveryAction and RecoveryPlan
Report == [seen : [Proc -> Nat], issued : [Proc -> Nat], done : SUBSET Key,
           have : SUBSET CacheEntry]

IsPlan(plan) ==
    /\ DOMAIN plan.actions \subseteq Key
    /\ \A k \in DOMAIN plan.actions : plan.actions[k] \subseteq Payload
    /\ plan.boundary \in [Proc -> Nat]

\* Mutant: only undelivered payloads are offered.
ReportWithoutCache(p, n) ==
    [seen   |-> n.seen,
     issued |-> [q \in Proc |-> IF q = p THEN n.nextIssue - 1 ELSE 0],
     done   |-> n.done,
     have   |-> Entries(NonEmpty(n.parked))]

\* delivered_cache wins over parked for a key in both.
RecoveryReport(p, n) ==
    LET cached == {e.key : e \in n.cache}
    IN  [seen   |-> n.seen,
         issued |-> [q \in Proc |-> IF q = p THEN n.nextIssue - 1 ELSE 0],
         done   |-> n.done,
         have   |-> n.cache \cup
                    {e \in Entries(NonEmpty(n.parked)) : e.key \notin cached}]

-----------------------------------------------------------------------------
(* compute_recovery_plan; R is the set of reports. *)

\* Mutant: the first clock that was not issued.
BoundaryPastEnd(R) ==
    [q \in Proc |-> Max({r.seen[q] : r \in R} \cup {r.issued[q] : r \in R} \cup {0}) + 1]

Boundary(R) ==
    [q \in Proc |-> Max({r.seen[q] : r \in R} \cup {r.issued[q] : r \in R} \cup {0})]

\* The payloads some report has for a key.
Offered(R, k) == UNION {e.payloads : e \in {f \in UNION {r.have : r \in R} : f.key = k}}

ComputeRecoveryPlan(R) ==
    LET b == Boundary(R)
        gaps == {k \in UNION {(1..b[q]) \X {q} : q \in Proc} :
                    \E r \in R : k \notin r.done}
    IN  [actions |-> [k \in gaps |-> Offered(R, k)], boundary |-> b]

-----------------------------------------------------------------------------
(* apply_recovery *)

\* Mutant: also for keys this node has finished.
RecoveredAgain(n, plan) ==
    {[key |-> k, payloads |-> plan.actions[k]] : k \in DOMAIN plan.actions}

\* The loop over the plan's actions: the entries it delivers or skips.
Recovered(n, plan) ==
    {[key |-> k, payloads |-> plan.actions[k]] : k \in DOMAIN plan.actions \ n.done}

\* What the loop and the installation of the view change, but for parked.
AdvanceView(p, n, plan) ==
    LET keys == DOMAIN plan.actions
        new  == Recovered(n, plan)
    IN  [n EXCEPT
            !.seen   = [q \in Proc |-> Max({@[q]} \cup {k[1] : k \in {j \in keys : j[2] = q}})],
            !.done   = @ \cup keys,
            !.broadcastSeen = @ \cup UNION {e.payloads : e \in new},
            !.cache  = CacheDelivered(@, new),
            !.floor  = [q \in Proc |-> Max({@[q], plan.boundary[q]})],
            !.nextIssue = Max({@, plan.boundary[p] + 1}),
            !.frozen = FALSE]

\* apply_recovery up to its final drain: parked copies of recovered trains go.
InstallPlan(p, n, plan) ==
    [AdvanceView(p, n, plan) EXCEPT
        !.parked = {t \in @ : KeyOf(t) \notin DOMAIN plan.actions}]

\* The recovered keys are delivered in key order, then the drained ones.
ApplyRecovery(p, n, plan) ==
    LET d == DrainParked(InstallPlan(p, n, plan))
    IN  [node      |-> d.node,
         recovered |-> {e \in Recovered(n, plan) : e.payloads # {}},
         drained   |-> Entries(NonEmpty(d.deliver))]
=============================================================================
