---------------------------- MODULE TrainsRejoin ----------------------------
(***************************************************************************)
(* The reconfiguring ring with re-admission: a process that crashed and    *)
(* was excluded comes back with a fresh core, fetches the state of a       *)
(* survivor, imports it and asks for re-admission.                         *)
(*                                                                         *)
(* The core calls (export_state, import_state, readmit_node) and the       *)
(* ReAdmit handlers are the repository's; the driver that calls them is    *)
(* the replication proxy, which is not part of it (the node binary ignores *)
(* ReAdmit tokens).  It is modelled from the driver contract of            *)
(* view_change.rs and wire.rs: a re-admit token is handled like an exclude *)
(* token, freeze, membership of the core and retarget first, then a        *)
(* report taken after the freeze; the rejoiner installs the application    *)
(* log that belongs to the snapshot, adopts the view, freezes and requests *)
(* its re-admission.                                                       *)
(***************************************************************************)
EXTENDS TrainsReconfig

CONSTANT RejoinerSends  \* may the application of a rejoined process broadcast?

ASSUME RejoinAssumption == RejoinerSends \in BOOLEAN

VARIABLES phase,    \* phase[p]: "first" life, "fetched" or "second" life
          seed      \* seed[p]: what a restarted p fetched, before it is promoted

rejoinVars == <<vars, phase, seed>>

RejoinInit ==
    /\ Init
    /\ phase = [p \in Proc |-> "first"]
    /\ seed = [p \in Proc |-> <<>>]

-----------------------------------------------------------------------------
(* The proxy's driver *)

\* What a survivor serves: protocol state, application log and view, in one
\* turn of its event loop.
Served(s) == [snap |-> ExportState(node[s]), log |-> log[s], vc |-> driver[s].vc]

\* The mirror of exclude.
Readmit(p, n, d, r) ==
    IF r \notin d.dead
      THEN [node |-> n, driver |-> d]
      ELSE [node   |-> ReadmitNode([n EXCEPT !.frozen = TRUE], r),
            driver |-> [d EXCEPT !.dead = @ \ {r}, !.succ = NextAlive(p, d.dead \ {r})]]

\* handle_vc for the ReAdmit tokens.
OnReadmitToken(p, msg) ==
    LET x == Readmit(p, node[p], driver[p], msg.rejoiner)
        v == x.driver.vc
    IN  Execute(p, x.node, x.driver,
                IF msg.type = "ReAdmitGather"
                  THEN OnReadmitGather(p, v, msg, RecoveryReport(p, x.node))
                  ELSE OnReadmitInstall(v, msg))

\* The core of a rejoiner.
Rejoined(p, snap) == [ReadmitNode(ImportState(p, NewNode, snap), p) EXCEPT !.frozen = TRUE]

-----------------------------------------------------------------------------
(* Actions *)

\* The exclusion of p is over: its tokens are gone and every survivor has
\* installed it.  A restart takes longer than a token's lap.
Settled(p) ==
    \A q \in up : /\ p \in driver[q].vc.dead
                  /\ ~node[q].frozen
                  /\ \A r \in Proc : tokens[r][q] = <<>>

\* The restarted process fetches from a survivor.
Fetch(p, s) ==
    /\ p \notin up
    /\ s \in up
    /\ phase[p] = "first"
    /\ Settled(p)
    /\ phase' = [phase EXCEPT ![p] = "fetched"]
    /\ seed' = [seed EXCEPT ![p] = <<Served(s)>>]
    /\ UNCHANGED vars

\* It imports what it fetched, however long ago, and requests re-admission.
\* Nothing of its earlier connections is left.
Promote(p) ==
    /\ phase[p] = "fetched"
    /\ \E n \in {Rejoined(p, seed[p][1].snap)},
          v \in {AdoptView(seed[p][1].vc.installed, seed[p][1].vc.dead)} :
       \E d \in {[dead |-> v.dead \ {p}, succ |-> NextAlive(p, v.dead),
                  detector |-> NewDetector(Proc), vc |-> v]} :
          /\ node' = [node EXCEPT ![p] = n]
          /\ driver' = [driver EXCEPT ![p] = d]
          /\ trains' = [q \in Proc |-> [r \in Proc |-> IF p \in {q, r} THEN <<>> ELSE trains[q][r]]]
          /\ tokens' = [q \in Proc |-> [r \in Proc |->
                          IF <<q, r>> = <<p, d.succ>>
                            THEN OnRequestReadmit(p, v, RecoveryReport(p, n)).send
                          ELSE IF p \in {q, r} THEN <<>> ELSE tokens[q][r]]]
    /\ up' = up \cup {p}
    /\ log' = [log EXCEPT ![p] = seed[p][1].log]
    /\ phase' = [phase EXCEPT ![p] = "second"]
    /\ seed' = [seed EXCEPT ![p] = <<>>]
    /\ UNCHANGED lost

IsReadmit(msg) == msg.type \in {"ReAdmitGather", "ReAdmitInstall"}

ReceiveReadmit(p, src) ==
    /\ p \in up
    /\ tokens[src][p] # <<>>
    /\ IsReadmit(Head(tokens[src][p]))
    /\ \E o \in {OnReadmitToken(p, Head(tokens[src][p]))} :
          Become(p, o, trains, [tokens EXCEPT ![src][p] = Tail(@)])
    /\ UNCHANGED <<up, lost, phase, seed>>

ReceiveExclude(p, src) ==
    /\ tokens[src][p] # <<>>
    /\ ~IsReadmit(Head(tokens[src][p]))
    /\ ReceiveToken(p, src)
    /\ UNCHANGED <<phase, seed>>

\* Nobody crashes while a process is coming back.
CrashOnce(p) ==
    /\ \A q \in Proc : phase[q] = "first"
    /\ Crash(p)
    /\ UNCHANGED <<phase, seed>>

BroadcastRejoin(p) ==
    /\ RejoinerSends \/ phase[p] = "first"
    /\ Broadcast(p)
    /\ UNCHANGED <<phase, seed>>

RejoinNext ==
    \E p \in Proc :
        \/ Promote(p)
        \/ CrashOnce(p)
        \/ BroadcastRejoin(p)
        \/ Unreachable(p) /\ UNCHANGED <<phase, seed>>
        \/ \E q \in Proc :
              \/ Fetch(p, q) \/ ReceiveReadmit(p, q) \/ ReceiveExclude(p, q)
              \/ ReceiveTrain(p, q) /\ UNCHANGED <<phase, seed>>

RejoinSpec == RejoinInit /\ [][RejoinNext]_rejoinVars

-----------------------------------------------------------------------------
(* Properties *)

\* ClocksNotReused: no process has seen, finished or parked a clock that an issuer
\* will still use: a restarted issuer forgets its clocks, and import_state must
\* lift them above every train of its earlier life that anybody may remember.
ClocksNotReused ==
    \A p \in {r \in up \cap Issuer : ~node[r].frozen}, q \in up :
        /\ node[q].seen[p] < node[p].nextIssue
        /\ \A k \in node[q].done : k[2] = p => k[1] < node[p].nextIssue

\* SameViewSameMembers: live processes that are through with a view change, and in
\* the same view, agree on whose acks they need and whom the ring bypasses, also
\* when a re-admission removes the member that an exclusion added.
SameViewSameMembers ==
    \A p, q \in {r \in up : ~node[r].frozen} :
        driver[p].vc.installed = driver[q].vc.installed
            => /\ node[p].crashed = node[q].crashed
               /\ driver[p].dead = driver[q].dead
               /\ driver[p].vc.dead = driver[q].vc.dead

\* FreshSequence: "Should never happen with monotonic next_seq" (handle_broadcast):
\* the id of the next broadcast was never used, so no broadcast is dropped.
FreshSequence ==
    \A p \in up : <<p, node[p].nextSeq>> \notin node[p].broadcastSeen
=============================================================================
