------------------------ MODULE TrainsRingRefinement ------------------------
(***************************************************************************)
(* The static ring implements TotalOrderBroadcast: the abstract log of a   *)
(* process is the sequence of batches its application received.  A batch   *)
(* delivered a second time, or in another order than elsewhere, is no step *)
(* of the abstract specification.                                          *)
(***************************************************************************)
EXTENDS TrainsRing

\* The messages of the abstract broadcast that were sent.
SentBar == UNION {{<<p, s>> : s \in 0..(node[p].nextSeq - 1)} : p \in Proc}

Abstract == INSTANCE TotalOrderBroadcast WITH
    Member  <- Proc,
    Message <- Senders \X (0..(MaxSeq - 1)),
    sent    <- SentBar,
    log     <- log

\* ImplementsTotalOrderBroadcast: every step of the ring, with its losses,
\* repetitions and crashes, is a step of the abstract broadcast or none.
ImplementsTotalOrderBroadcast == Abstract!Spec
=============================================================================
