--------------------------- MODULE TrainsReconfig ---------------------------
(***************************************************************************)
(* The ring in reconfiguration mode: the event loop of trains-cli node.rs  *)
(* (run, process_outs, handle_vc, exclude, execute) around the core, the   *)
(* failure detector and the view-change state machine of each process.     *)
(*                                                                         *)
(* Links.  A process writes trains and tokens to one connection; its mux   *)
(* and the reader's select! may reorder the two kinds, each kind stays in  *)
(* order.  trains[p][q] and tokens[p][q] are what p sent to q and q has    *)
(* not yet handled.  A crash loses what was not yet written.  After        *)
(* retarget_successor what the connector still held (a suffix) goes to the *)
(* new successor; what it had written stays with the old one, and is lost  *)
(* if that one has crashed.                                                *)
(*                                                                         *)
(* The initial state is the one after start-up: every process is up and    *)
(* every issuer has sent its first train.                                  *)
(***************************************************************************)
EXTENDS ViewChange, FailureDetector, SequencesExt

CONSTANTS
    MaxClock,   \* bound: no train is recycled above this clock
    Senders,    \* bound: the processes whose application broadcasts
    MaxSeq,     \* bound: broadcasts of one process
    Victims,    \* bound: the processes that may crash
    MaxCrash,   \* bound: crashes
    MaxLost,    \* bound: tokens lost when a connection is reset
    LateTrains  \* may what a crashed process wrote outlive its detection?

ASSUME ReconfigBounds ==
    /\ Senders \subseteq Proc /\ Victims \subseteq Proc
    /\ MaxClock \in Nat /\ MaxSeq \in Nat /\ MaxCrash \in Nat /\ MaxLost \in Nat
    /\ LateTrains \in BOOLEAN

\* Both are 3 in node.rs: a single hint confirms nobody, a disconnect does.
ASSUME DriverDetector ==
    StrikeThreshold >= 2 /\ DisconnectWeight >= StrikeThreshold

VARIABLES
    node,      \* node[p]: the core
    driver,    \* driver[p]: dead, succ, the detector and the ViewChange of run()
    up,        \* the processes that have not crashed
    trains,    \* trains[p][q], tokens[p][q]: sent by p to q, in order, not
    tokens,    \* yet handled
    log,       \* log[p]: the sequence of entries p delivered
    lost       \* number of tokens lost

vars == <<node, driver, up, trains, tokens, log, lost>>

\* How far next_alive walks.
Hop(me, dead) ==
    Min({k \in 1..RingSize : (me + k) % RingSize \notin dead \/ k = RingSize})

\* Mutant: the search for a successor does not wrap.
NextAliveNoWrap(me, dead) == me + Hop(me, dead)

\* next_alive
NextAlive(me, dead) == (me + Hop(me, dead)) % RingSize

NewDriver(p) == [dead     |-> {},
                 succ     |-> NextAlive(p, {}),
                 detector |-> NewDetector(Proc),
                 vc       |-> NewViewChange]

Init ==
    /\ node = [p \in Proc |-> IF p \in Issuer THEN AfterIssue(NewNode) ELSE NewNode]
    /\ driver = [p \in Proc |-> NewDriver(p)]
    /\ up = Proc
    /\ trains = [p \in Proc |-> [q \in Proc |-> IF p \in Issuer /\ q = NextAlive(p, {})
                                                 THEN <<NewTrain(p, NewNode)>> ELSE <<>>]]
    /\ tokens = [p \in Proc |-> [q \in Proc |-> <<>>]]
    /\ log = [p \in Proc |-> <<>>]
    /\ lost = 0

-----------------------------------------------------------------------------
(* The driver's calls. *)

\* exclude past its early return: freeze, confirm_crash (whose outputs are
\* dropped), retarget.
ExcludeNow(p, n, d, victim) ==
    LET dead == d.dead \cup {victim} IN
    [node   |-> ConfirmCrash([n EXCEPT !.frozen = TRUE], victim).node,
     driver |-> [d EXCEPT !.dead = dead, !.succ = NextAlive(p, dead)]]

\* exclude
Exclude(p, n, d, victim) ==
    IF victim \in d.dead THEN [node |-> n, driver |-> d] ELSE ExcludeNow(p, n, d, victim)

\* What a branch of the event loop leaves: core, driver, trains and tokens to
\* send, entries delivered.
Outcome(n, d, forward, send, deliver) ==
    [node |-> n, driver |-> d, forward |-> forward, send |-> send, deliver |-> deliver]

\* execute: a plan is applied and the issuer's train reissued; tokens are sent.
Execute(p, n, d, r) ==
    LET e == [d EXCEPT !.vc = r.vc] IN
    IF r.apply = <<>>
      THEN Outcome(n, e, <<>>, r.send, <<>>)
      ELSE LET a == ApplyRecovery(p, n, r.apply[1])
               entries == InKeyOrder(a.recovered) \o InKeyOrder(a.drained)
           IN  IF p \in Issuer
                 THEN Outcome(AfterIssue(a.node), e, <<NewTrain(p, a.node)>>, r.send, entries)
                 ELSE Outcome(a.node, e, <<>>, r.send, entries)

\* The detector's verdict moves from d.detector to det; a newly confirmed
\* victim is excluded and a view change begun.
OnEvidence(p, n, d, det, victim) ==
    LET e == [d EXCEPT !.detector = det]
        x == Exclude(p, n, e, victim)
    IN  IF NewlyConfirmed(d.detector, det, victim)
          THEN Execute(p, x.node, x.driver,
                       OnConfirm(p, x.driver.vc, victim, RecoveryReport(p, x.node)))
          ELSE Outcome(n, e, <<>>, <<>>, <<>>)

\* Input::TrainReceived and process_outs.  DeclareCrash precedes ForwardTrain
\* in the outputs; it names the train's issuer.
OnTrain(p, t) ==
    LET d == [driver[p] EXCEPT !.detector = NoteAlive(@, t.issuer)]
        r == HandleTrain(p, node[p], t)
        o == OnEvidence(p, r.node, d, RecordGapHint(d.detector, t.issuer), t.issuer)
        f == SetToSeq(r.forward)
        e == InKeyOrder(Entries(r.deliver))
    IN  IF r.suspect = {}
          THEN Outcome(r.node, d, f, <<>>, e)
          ELSE [o EXCEPT !.forward = @ \o f, !.deliver = @ \o e]

\* handle_vc: the victim is excluded before the state machine sees the token.
OnToken(p, msg) ==
    LET x == Exclude(p, node[p], driver[p], msg.victim)
        v == x.driver.vc
    IN  Execute(p, x.node, x.driver,
                IF msg.type = "Gather"
                  THEN OnGather(p, v, msg, RecoveryReport(p, x.node))
                  ELSE OnInstall(v, msg))

-----------------------------------------------------------------------------
(* Actions *)

\* The links after p appended msgs, and moved from the successor old to new if
\* they differ: of links[p][old] all but the first written messages move along.
Sent(links, p, old, new, written, msgs) ==
    IF old = new
      THEN [links EXCEPT ![p][new] = @ \o msgs]
      ELSE [links EXCEPT
              ![p][old] = IF old \in up THEN SubSeq(@, 1, written) ELSE <<>>,
              ![p][new] = @ \o SubSeq(links[p][old], written + 1, Len(links[p][old])) \o msgs]

\* p becomes o and sends what o says, after it has read from ts or ms.
Become(p, o, ts, ms) ==
    LET old == driver[p].succ
        new == o.driver.succ
    IN  /\ node' = [node EXCEPT ![p] = o.node]
        /\ driver' = [driver EXCEPT ![p] = o.driver]
        /\ log' = [log EXCEPT ![p] = @ \o o.deliver]
        /\ \E i \in 0..Len(ts[p][old]), j \in 0..Len(ms[p][old]) :
              /\ old = new => i = 0 /\ j = 0
              /\ trains' = Sent(ts, p, old, new, i, o.forward)
              /\ tokens' = Sent(ms, p, old, new, j, o.send)

\* Input::LocalBroadcast
Broadcast(p) ==
    /\ p \in Senders \cap up
    /\ node[p].nextSeq < MaxSeq
    /\ node' = [node EXCEPT ![p] = HandleBroadcast(p, node[p])]
    /\ UNCHANGED <<driver, up, trains, tokens, log, lost>>

ReceiveTrain(p, src) ==
    /\ p \in up
    /\ trains[src][p] # <<>>
    /\ \E o \in {OnTrain(p, Head(trains[src][p]))} :
          /\ o.node.nextIssue \in {node[p].nextIssue} \cup (1..(MaxClock + 1))
          /\ Become(p, o, [trains EXCEPT ![src][p] = Tail(@)], tokens)
    /\ UNCHANGED <<up, lost>>

ReceiveToken(p, src) ==
    /\ p \in up
    /\ tokens[src][p] # <<>>
    /\ \E o \in {OnToken(p, Head(tokens[src][p]))} :
          Become(p, o, trains, [tokens EXCEPT ![src][p] = Tail(@)])
    /\ UNCHANGED <<up, lost>>

\* The connector reports its successor unreachable, after five failed connects
\* with growing backoff.  Unless LateTrains, what the dead successor had written
\* is read within that time.
Unreachable(p) ==
    /\ p \in up
    /\ driver[p].succ \notin up \cup driver[p].dead
    /\ \E v \in {driver[p].succ}, d \in {driver[p]} :
          /\ LateTrains \/ \A q \in up : trains[v][q] \o tokens[v][q] = <<>>
          /\ Become(p, OnEvidence(p, node[p], d, RecordDisconnect(d.detector, v), v),
                    trains, tokens)
    /\ UNCHANGED <<up, lost>>

\* A process stops; what it had not written is lost.
Crash(p) ==
    /\ p \in up \cap Victims
    /\ Cardinality(Proc \ up) < MaxCrash
    /\ up' = up \ {p}
    /\ \E s \in {driver[p].succ} : \E i \in 0..Len(trains[p][s]), j \in 0..Len(tokens[p][s]) :
          /\ trains' = [trains EXCEPT ![p][s] = SubSeq(@, 1, i)]
          /\ tokens' = [tokens EXCEPT ![p][s] = SubSeq(@, 1, j)]
    /\ UNCHANGED <<node, driver, log, lost>>

\* A connection is reset after a token was written and before it was read.
LoseToken(p, q) ==
    /\ lost < MaxLost
    /\ tokens[p][q] # <<>>
    /\ tokens' = [tokens EXCEPT ![p][q] = Tail(@)]
    /\ lost' = lost + 1
    /\ UNCHANGED <<node, driver, up, trains, log>>

Next ==
    \E p \in Proc :
        \/ Broadcast(p) \/ Unreachable(p) \/ Crash(p)
        \/ \E q \in Proc : ReceiveTrain(p, q) \/ ReceiveToken(p, q) \/ LoseToken(p, q)

Spec == Init /\ [][Next]_vars

-----------------------------------------------------------------------------
(* Properties *)

\* TypeOK: states keep their shape; in particular next_alive names a process and
\* a strike count stays below the threshold that clears it.
TypeOK ==
    /\ node \in [Proc -> Node]
    /\ up \subseteq Proc
    /\ lost \in 0..MaxLost
    /\ log \in [Proc -> Seq(CacheEntry)]
    /\ \A p \in Proc :
          /\ driver[p].dead \subseteq Proc
          /\ driver[p].succ \in Proc
          /\ driver[p].detector.strikes \in [Proc -> 0..(StrikeThreshold - 1)]
          /\ driver[p].vc.installed \in Nat
          /\ \A q \in Proc : trains[p][q] \in Seq(Train)
          /\ \A q \in Proc : \A msg \in ToSet(tokens[p][q]) :
                \/ msg.type = "Gather" /\ msg.reports \in SUBSET (Proc \X Report)
                \/ msg.type = "Install" /\ IsPlan(msg.plan)

\* Of the processes of S, one that has finished a key another delivered has
\* delivered the same payloads for it.
SameContent(S) ==
    \A p, q \in S : \A e \in ToSet(log[p]) :
        e.key \in node[q].done => e \in ToSet(log[q])

\* SurvivorAgreement: live processes deliver the same payloads in the same
\* order, before, during and after a view change, whatever the victim was
\* holding and whatever tokens get lost: what apply_recovery delivers from the
\* merged reports is what the peers delivered on their own.
SurvivorAgreement ==
    /\ SameContent(up)
    /\ \A p, q \in up : IsPrefix(log[p], log[q]) \/ IsPrefix(log[q], log[p])

\* LogOrdered: the application of every process sees ascending keys and no
\* payload twice, although recovery inserts keys, reissues trains and leaves
\* trains of the old view on the links.
LogOrdered ==
    \A p \in Proc : \A i, j \in 1..Len(log[p]) :
        i < j => /\ Less(log[p][i].key, log[p][j].key)
                 /\ log[p][i].payloads \cap log[p][j].payloads = {}

\* SameViewSameFloor: live processes that installed the same view fence the
\* same trains, although overlapping exclusions start rounds with equal
\* view_ids: on_gather and on_install admit one plan per view.
SameViewSameFloor ==
    \A p, q \in up : driver[p].vc.installed = driver[q].vc.installed
                        => node[p].floor = node[q].floor

\* FrozenHasCause: as long as no token is lost, a process whose delivery is
\* frozen waits for something: a token is on its way to a live process, or a
\* crash is yet to be detected.  "Set during a view change between the report
\* snapshot and apply_recovery": nothing else ends the freeze.
FrozenHasCause ==
    lost = 0 =>
    \A p \in up : node[p].frozen =>
        \/ \E q \in Proc, r \in up : tokens[q][r] # <<>>
        \/ \E q \in up : driver[q].succ \notin up

\* OnlyCrashedExcluded: no live process excludes a live one.  A view change itself
\* makes clocks jump, and the gap hints this causes must not add up: note_alive
\* clears the issuer's strikes before each hint, so hints alone confirm nobody.
OnlyCrashedExcluded ==
    \A p \in up : /\ driver[p].dead \cap up = {}
                 /\ \A q \in Proc : driver[p].detector.strikes[q] <= 1

\* NoKeyTwice: a process hands a train to its application at most once, and only
\* while it marks it as finished: whether try_deliver, drain_parked or
\* apply_recovery gets to a key first, the other two find it done or not parked.
NoKeyTwice ==
    \A p \in Proc : \A i, j \in 1..Len(log[p]) :
        /\ log[p][i].key \in node[p].done
        /\ log[p][i].key = log[p][j].key => i = j

\* NextTrainIsNew: no process has seen, finished or fenced a clock that its issuer
\* has yet to use.  Otherwise a train reissued after a view change would be taken
\* for a replay, or be absorbed by view_floor, and its issuer would wait forever.
NextTrainIsNew ==
    \A p, q \in Proc :
        /\ node[p].seen[q] < node[q].nextIssue
        /\ node[p].floor[q] < node[q].nextIssue
        /\ \A k \in node[p].done : k[2] = q => k[1] < node[q].nextIssue

\* The shape of a driver, and the messages on a set of links.
Driver == [dead     : SUBSET Proc, succ : Proc,
           detector : [strikes : [Proc -> Nat], confirmed : SUBSET Proc],
           vc       : [installed : Nat, dead : SUBSET Proc]]

Carried(links) == UNION {ToSet(links[p][q]) : p \in Proc, q \in Proc}

\* ExclusionInv: why this holds.  A process is excluded on a report of its
\* predecessor's connector, and after that on the tokens of that exclusion: every
\* token names a crashed victim, and no strike count stays above one.
ExclusionInv ==
    /\ up \subseteq Proc
    /\ driver \in [Proc -> Driver]
    /\ trains \in [Proc -> [Proc -> Seq(Carried(trains))]]
    /\ tokens \in [Proc -> [Proc -> Seq(Carried(tokens))]]
    /\ \A t \in Carried(trains) : "issuer" \in DOMAIN t /\ t.issuer \in Proc
    /\ \A msg \in Carried(tokens) : /\ {"victim", "view"} \subseteq DOMAIN msg
                                    /\ msg.victim \in Proc \ up /\ msg.view \in Nat
    /\ \A p \in Proc : /\ driver[p].dead \cap up = {}
                       /\ \A q \in Proc : driver[p].detector.strikes[q] <= 1

(* Why NoKeyTwice and NextTrainIsNew hold. *)

\* Clocks that stay below next, the clocks the issuers use next; messages of
\* which this is true.
Below(clocks, next) == \A q \in Proc : clocks[q] < next[q]

IssuedTrain(t, next) == t \in Train /\ t.clock >= 1 /\ t.clock < next[t.issuer]

IssuedReports(R, next) ==
    /\ IsFiniteSet(R) /\ R \subseteq Proc \X Report
    /\ \A r \in R : Below(r[2].seen, next) /\ Below(r[2].issued, next)

IssuedPlan(plan, next) ==
    /\ IsPlan(plan) /\ IsFiniteSet(DOMAIN plan.actions)
    /\ Below(plan.boundary, next)
    /\ \A k \in DOMAIN plan.actions : k[1] <= plan.boundary[k[2]]

IssuedToken(msg, next) ==
    \/ /\ msg.type = "Gather"
       /\ msg = Gather(msg.view, msg.coord, msg.victim, msg.reports)
       /\ IssuedReports(msg.reports, next)
    \/ /\ msg.type = "Install"
       /\ msg = Install(msg.view, msg.coord, msg.victim, msg.plan)
       /\ IssuedPlan(msg.plan, next)

NextIssue == [q \in Proc |-> node[q].nextIssue]

\* RecoveryInv: the cores are tidy, the log holds finished keys, each once, and no
\* clock in a core or a message is one that its issuer has yet to use.
RecoveryInv ==
    /\ node \in [Proc -> Node]
    /\ log \in [Proc -> Seq(CacheEntry)]
    /\ lost \in 0..MaxLost
    /\ \A p \in Proc : /\ Tidy(node[p]) /\ Drained(node[p]) = {}
                       /\ Below(node[p].seen, NextIssue)
                       /\ Below(node[p].floor, NextIssue)
    /\ NoKeyTwice
    /\ \A t \in Carried(trains) : IssuedTrain(t, NextIssue)
    /\ \A msg \in Carried(tokens) : IssuedToken(msg, NextIssue)

\* The trains on links that lead to a live process.
InFlight == UNION {ToSet(trains[p][q]) : p \in Proc, q \in up}

\* NoStrandedKey: recovery "closes those gaps" (recovery.rs).  Once every live
\* process knows of every crash and none is frozen, a key a live process has
\* seen is finished there, parked, or still on a train: otherwise is_deliverable
\* blocks every later key.
NoStrandedKey ==
    (\A p \in up : ~node[p].frozen /\ Proc \ up \subseteq driver[p].dead)
    => \A p \in up, q \in Proc : \A c \in 1..node[p].seen[q] :
          <<c, q>> \in node[p].done \cup KeysOf(node[p].parked \cup InFlight)
=============================================================================
