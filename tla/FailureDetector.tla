-------------------------- MODULE FailureDetector ---------------------------
(***************************************************************************)
(* crates/trains-recovery/src/failure_detector.rs: strikes per process     *)
(* against a threshold, cleared by a sign of life; confirmation is final.  *)
(***************************************************************************)
EXTENDS Naturals

CONSTANTS
    StrikeThreshold,    \* STRIKE_THRESHOLD
    DisconnectWeight    \* DISCONNECT_WEIGHT

ASSUME DetectorAssumption ==
    StrikeThreshold \in Nat \ {0} /\ DisconnectWeight \in Nat

\* FailureDetector::new over the processes P.
NewDetector(P) == [strikes |-> [q \in P |-> 0], confirmed |-> {}]

\* add_strikes: at the threshold the victim is confirmed and its strikes go.
AddStrikes(d, victim, w) ==
    IF victim \in d.confirmed THEN d
    ELSE IF d.strikes[victim] + w >= StrikeThreshold
      THEN [strikes   |-> [d.strikes EXCEPT ![victim] = 0],
            confirmed |-> d.confirmed \cup {victim}]
      ELSE [d EXCEPT !.strikes[victim] = @ + w]

\* Mutant: a hint weighs as much as a disconnect.
HintAsDisconnect(d, victim) == AddStrikes(d, victim, DisconnectWeight)

RecordGapHint(d, victim) == AddStrikes(d, victim, 1)
RecordDisconnect(d, victim) == AddStrikes(d, victim, DisconnectWeight)

\* Did this call newly confirm the victim?
NewlyConfirmed(d, e, victim) == victim \in e.confirmed \ d.confirmed

\* note_alive
NoteAlive(d, p) ==
    IF p \in d.confirmed THEN d ELSE [d EXCEPT !.strikes[p] = 0]
=============================================================================
