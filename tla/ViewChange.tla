----------------------------- MODULE ViewChange -----------------------------
(***************************************************************************)
(* crates/trains-recovery/src/view_change.rs: one process's part in the    *)
(* exclusion of a crashed member and in the re-admission of one that came  *)
(* back.  A Gather token collects a report from every member of the new    *)
(* view; the coordinator merges them and an Install token carries the plan *)
(* round.  A handler yields the new state, the tokens to send and the      *)
(* plans to apply (at most one of each).                                   *)
(***************************************************************************)
EXTENDS TrainsRecovery, Sequences

\* ViewChange::new
NewViewChange == [installed |-> 0, dead |-> {}]

VcResult(v, apply, send) == [vc |-> v, apply |-> apply, send |-> send]

\* Dropped or already known: no action.
NoAction(v) == VcResult(v, <<>>, <<>>)

Gather(view, coord, victim, reports) ==
    [type |-> "Gather", view |-> view, coord |-> coord, victim |-> victim,
     reports |-> reports]

Install(view, coord, victim, plan) ==
    [type |-> "Install", view |-> view, coord |-> coord, victim |-> victim,
     plan |-> plan]

Alive(v) == Proc \ v.dead

\* coordinator: the lowest survivor.
Coordinator(p, v) == IF Alive(v) = {} THEN p ELSE Min(Alive(v))

\* on_confirm; report is taken after the freeze.
OnConfirm(p, v, victim, report) ==
    LET w == [v EXCEPT !.dead = @ \cup {victim}] IN
    IF victim \in v.dead
      THEN NoAction(v)
      ELSE VcResult(w, <<>>, <<Gather(v.installed + 1, Coordinator(p, w), victim,
                                     {<<p, report>>})>>)

\* on_gather past its fence.
AnswerGather(p, v, msg, report) ==
    LET w    == [v EXCEPT !.dead = @ \cup {msg.victim}]
        reps == IF \E r \in msg.reports : r[1] = p
                  THEN msg.reports ELSE msg.reports \cup {<<p, report>>}
        plan == ComputeRecoveryPlan({r[2] : r \in reps})
    IN  IF p = msg.coord /\ Alive(w) \subseteq {r[1] : r \in reps}
          THEN VcResult([w EXCEPT !.installed = msg.view], <<plan>>,
                        <<Install(msg.view, msg.coord, msg.victim, plan)>>)
          ELSE VcResult(w, <<>>, <<[msg EXCEPT !.reports = reps]>>)

\* on_gather
OnGather(p, v, msg, report) ==
    IF msg.view <= v.installed THEN NoAction(v) ELSE AnswerGather(p, v, msg, report)

\* on_install
OnInstall(v, msg) ==
    IF msg.view <= v.installed
      THEN NoAction(v)
      ELSE VcResult([installed |-> msg.view, dead |-> v.dead \cup {msg.victim}],
                    <<msg.plan>>, <<msg>>)

-----------------------------------------------------------------------------
(* Re-admission: the membership grows. *)

ReAdmitGather(view, coord, rejoiner, reports) ==
    [type |-> "ReAdmitGather", view |-> view, coord |-> coord, rejoiner |-> rejoiner,
     reports |-> reports]

ReAdmitInstall(view, coord, rejoiner, plan) ==
    [type |-> "ReAdmitInstall", view |-> view, coord |-> coord, rejoiner |-> rejoiner,
     plan |-> plan, source |-> coord]

\* Mutant: the view the survivors are in is not adopted.
AdoptDeadOnly(installed, dead) == [installed |-> 0, dead |-> dead]

\* adopt_view
AdoptView(installed, dead) == [installed |-> installed, dead |-> dead]

\* on_request_readmit
OnRequestReadmit(p, v, report) ==
    VcResult(v, <<>>, <<ReAdmitGather(v.installed + 1, Coordinator(p, v), p, {<<p, report>>})>>)

\* Mutant: the coordinator does not wait for the report of every survivor.
OnReadmitGatherEarly(p, v, msg, report) ==
    LET reps == msg.reports \cup {<<p, report>>}
        plan == ComputeRecoveryPlan({r[2] : r \in reps})
    IN  IF msg.view <= v.installed THEN NoAction(v)
        ELSE IF p = msg.coord
          THEN VcResult([installed |-> msg.view, dead |-> v.dead \ {msg.rejoiner}], <<plan>>,
                        <<ReAdmitInstall(msg.view, msg.coord, msg.rejoiner, plan)>>)
          ELSE VcResult(v, <<>>, <<[msg EXCEPT !.reports = reps]>>)

\* on_readmit_gather: the new view is Alive(v) and the rejoiner.
OnReadmitGather(p, v, msg, report) ==
    LET reps == IF \E r \in msg.reports : r[1] = p
                  THEN msg.reports ELSE msg.reports \cup {<<p, report>>}
        plan == ComputeRecoveryPlan({r[2] : r \in reps})
    IN  IF msg.view <= v.installed THEN NoAction(v)
        ELSE IF p = msg.coord /\ Alive(v) \cup {msg.rejoiner} \subseteq {r[1] : r \in reps}
          THEN VcResult([installed |-> msg.view, dead |-> v.dead \ {msg.rejoiner}], <<plan>>,
                        <<ReAdmitInstall(msg.view, msg.coord, msg.rejoiner, plan)>>)
          ELSE VcResult(v, <<>>, <<[msg EXCEPT !.reports = reps]>>)

\* Mutant: the rejoiner stays in dead.
OnReadmitInstallKeeps(v, msg) ==
    IF msg.view <= v.installed
      THEN NoAction(v)
      ELSE VcResult([v EXCEPT !.installed = msg.view], <<msg.plan>>, <<msg>>)

\* on_readmit_install
OnReadmitInstall(v, msg) ==
    IF msg.view <= v.installed
      THEN NoAction(v)
      ELSE VcResult([installed |-> msg.view, dead |-> v.dead \ {msg.rejoiner}],
                    <<msg.plan>>, <<msg>>)
=============================================================================
