----------------------------- MODULE TrainsRing -----------------------------
(***************************************************************************)
(* The ring without reconfiguration: RingSize processes, each a driver     *)
(* loop (trains-cli node.rs and ring.rs) around a trains-core node, and    *)
(* the trains-net links between neighbours.                                *)
(*                                                                         *)
(* A link is a set of trains in any order: connector_loop retains a        *)
(* message whose write failed and writes it again on a new connection, so  *)
(* the successor may read it twice and, with the old connection's reader   *)
(* still queueing, out of order; a message written to a socket that is     *)
(* reset afterwards is lost.  adversarial.rs drives the core with such     *)
(* schedules too.                                                          *)
(***************************************************************************)
EXTENDS TrainsCore, Sequences

CONSTANTS
    MaxClock,   \* bound: no train is issued above this clock
    Senders,    \* bound: the processes whose application broadcasts
    MaxSeq,     \* bound: broadcasts of one process
    MaxLost,    \* bound: trains lost on a link
    MaxDup,     \* bound: trains written twice
    MaxCrash    \* bound: crashed processes

ASSUME BoundsAssumption ==
    /\ Senders \subseteq Proc
    /\ MaxClock \in Nat /\ MaxSeq \in Nat
    /\ MaxLost \in Nat /\ MaxDup \in Nat /\ MaxCrash \in Nat

VARIABLES
    node,       \* node[p]: the core of process p
    status,     \* status[p]: "boot", "up" or "crashed"
    net,        \* trains on the links, as <<destination, train>>
    log,        \* log[p]: what p's application received, Deliver by Deliver
    delivered,  \* delivered[p]: the trains behind log[p] (a history variable)
    faults      \* how many trains were lost and written twice

vars == <<node, status, net, log, delivered, faults>>

\* Mutant: the ring does not close.
SuccWithoutWrap(p) == p + 1

Succ(p) == (p + 1) % RingSize

Messages == Proc \X Train

\* TypeOK: handlers keep the shape of a node, trains stay on links between
\* processes of the ring, budgets are kept.
TypeOK ==
    /\ node \in [Proc -> Node]
    /\ status \in [Proc -> {"boot", "up", "crashed"}]
    /\ net \in SUBSET Messages
    /\ log \in [Proc -> Seq(SUBSET Payload)]
    /\ delivered \in [Proc -> SUBSET Train]
    /\ faults \in [lost : 0..MaxLost, dup : 0..MaxDup]

Init ==
    /\ node = [p \in Proc |-> NewNode]
    /\ status = [p \in Proc |-> "boot"]
    /\ net = {}
    /\ log = [p \in Proc |-> <<>>]
    /\ delivered = [p \in Proc |-> {}]
    /\ faults = [lost |-> 0, dup |-> 0]

-----------------------------------------------------------------------------
\* run / run_one_node up to the event loop: a process that owns a train slot
\* issues its initial train.
BootIssuer(p) ==
    /\ p \in Issuer
    /\ status[p] = "boot"
    /\ node[p].nextIssue <= MaxClock
    /\ status' = [status EXCEPT ![p] = "up"]
    /\ node' = [node EXCEPT ![p] = AfterIssue(node[p])]
    /\ net' = net \cup {<<Succ(p), NewTrain(p, node[p])>>}
    /\ UNCHANGED <<log, delivered, faults>>

BootOther(p) ==
    /\ p \notin Issuer
    /\ status[p] = "boot"
    /\ status' = [status EXCEPT ![p] = "up"]
    /\ UNCHANGED <<node, net, log, delivered, faults>>

\* Input::LocalBroadcast
Broadcast(p) ==
    /\ p \in Senders
    /\ status[p] = "up"
    /\ node[p].nextSeq < MaxSeq
    /\ node' = [node EXCEPT ![p] = HandleBroadcast(p, node[p])]
    /\ UNCHANGED <<status, net, log, delivered, faults>>

\* Input::TrainReceived, with the dispatch of its outputs.  DeclareCrash is
\* only logged: without reconfiguration a driver acts on it at the third
\* strike, and the strikes are cleared by every train of the same issuer.
Handle(p, t, rest) ==
    \E r \in {HandleTrain(p, node[p], t)} :
    /\ status[p] = "up"
    /\ r.node.nextIssue <= MaxClock + 1
    /\ node' = [node EXCEPT ![p] = r.node]
    /\ net' = rest \cup {<<Succ(p), u>> : u \in r.forward}
    /\ log' = [log EXCEPT ![p] = @ \o LogOf(r.deliver)]
    /\ delivered' = [delivered EXCEPT ![p] = @ \cup r.deliver]
    /\ UNCHANGED status

Receive(p, t) ==
    /\ <<p, t>> \in net
    /\ Handle(p, t, net \ {<<p, t>>})
    /\ UNCHANGED faults

\* The train is read, and a copy of it is still to be read.
ReceiveAndRetransmit(p, t) ==
    /\ <<p, t>> \in net
    /\ faults.dup < MaxDup
    /\ Handle(p, t, net)
    /\ faults' = [faults EXCEPT !.dup = @ + 1]

Lose(m) ==
    /\ faults.lost < MaxLost
    /\ net' = net \ {m}
    /\ faults' = [faults EXCEPT !.lost = @ + 1]
    /\ UNCHANGED <<node, status, log, delivered>>

Crash(p) ==
    /\ status[p] = "up"
    /\ Cardinality({q \in Proc : status[q] = "crashed"}) < MaxCrash
    /\ status' = [status EXCEPT ![p] = "crashed"]
    /\ UNCHANGED <<node, net, log, delivered, faults>>

Next ==
    \/ \E p \in Proc : BootIssuer(p) \/ BootOther(p) \/ Broadcast(p) \/ Crash(p)
    \/ \E m \in net : Receive(m[1], m[2]) \/ ReceiveAndRetransmit(m[1], m[2]) \/ Lose(m)

Spec == Init /\ [][Next]_vars

\* Every process starts, serves its inbox in the order of arrival (so that no
\* issuer's train starves another's), and a retained message is written until
\* it is read: what the event loop and connector_loop do as long as nothing
\* crashes and no connection is reset.
Fairness ==
    \A p \in Proc :
        /\ WF_vars(BootIssuer(p) \/ BootOther(p))
        /\ \A q \in Issuer :
              WF_vars(\E m \in net : m[1] = p /\ m[2].issuer = q /\ Receive(p, m[2]))

FairSpec == Spec /\ Fairness

-----------------------------------------------------------------------------
(* Properties *)

IsLogPrefix(s, t) == Len(s) <= Len(t) /\ \A i \in 1..Len(s) : s[i] = t[i]

\* ConsistentDelivery: the logs of two processes, crashed ones included, never
\* diverge: one is a prefix of the other, batch by batch.  try_deliver and
\* drain_parked decide locally, on clocks only, so this is what the gate, the
\* two laps and the full-ack condition are for.
ConsistentDelivery ==
    \A p, q \in Proc : IsLogPrefix(log[p], log[q]) \/ IsLogPrefix(log[q], log[p])

\* DeliveryInKeyOrder: what a step delivers comes after everything the process
\* delivered or skipped before, so a train handled late (from parked, or a
\* replay) is never inserted behind the application's back.
DeliveryInKeyOrder ==
    [][\A p \in Proc : \A k \in node'[p].done \ node[p].done :
          \A j \in node[p].done : Less(j, k)]_vars

\* NoDuplicateDelivery: no payload is in two places of a process's log, and only
\* payloads that were broadcast are in it, although every train passes a second
\* time after it was delivered and links may repeat and reorder trains: the
\* done_keys check of try_deliver stops what was delivered directly, parked or
\* drained before.
NoDuplicateDelivery ==
    \A p \in Proc : \A i \in 1..Len(log[p]) :
        /\ log[p][i] # {}
        /\ \A m \in log[p][i] : m[2] < node[m[1]].nextSeq
        /\ \A j \in 1..(i - 1) : log[p][i] \cap log[p][j] = {}

\* OneTrainPerIssuer: while links do not repeat messages, an issuer never has
\* two trains on the ring: it recycles only on the second lap's return.
OneTrainPerIssuer ==
    \A m, w \in net : m[2].issuer = w[2].issuer => m = w

\* DeliveryLag: a process that has finished a key knows that every process has
\* finished all keys of smaller clocks: the second lap bounds how far one
\* process may run ahead of another, and so how many trains can be parked.
DeliveryLag ==
    \A p, q \in Proc : \A k \in node[p].done : \A j \in (1..(k[1] - 1)) \X Issuer :
        j \in node[q].done

\* BroadcastDelivered: a payload accepted by handle_broadcast while a train is
\* still due to pass (a clock below the bound) is delivered by every process,
\* unless a train is lost or a process crashes.
BroadcastDelivered ==
    \A p \in Senders : \A s \in 0..(MaxSeq - 1) :
        (/\ <<p, s>> \in node[p].pending
         /\ \E q \in Issuer \ {p} : node[p].seen[q] < MaxClock)
        ~> \/ \A q \in Proc : \E i \in 1..Len(log[q]) : <<p, s>> \in log[q][i]
           \/ faults.lost > 0
           \/ \E q \in Proc : status[q] = "crashed"

-----------------------------------------------------------------------------
(***************************************************************************)
(* The inductive invariant behind the safety properties.  Its heart: the   *)
(* acks of a train determine its payloads.  A process acks a key once (its *)
(* seen clock closes the first lap) and loads its payloads in the same     *)
(* step, so two fully acked copies of a key carry the same payloads,       *)
(* however often and in whatever order links hand them over.               *)
(***************************************************************************)
Trains == {m[2] : m \in net} \cup UNION {node[p].parked \cup delivered[p] : p \in Proc}

TrainInv(t) ==
    /\ t.clock >= 1
    /\ t.issuer \in Issuer
    /\ t.issuer \in t.acks
    /\ t.clock < node[t.issuer].nextIssue
    /\ \A a \in t.acks : a # t.issuer => node[a].seen[t.issuer] >= t.clock
    /\ \A m \in t.payloads : /\ m[1] \in t.acks
                             /\ m[2] < node[m[1]].nextSeq
                             /\ m \notin node[m[1]].pending

LoadInv(t, u) ==
    /\ KeyOf(t) = KeyOf(u) => \A m \in t.payloads : m[1] \in u.acks => m \in u.payloads
    /\ KeyOf(t) # KeyOf(u) => t.payloads \cap u.payloads = {}

NodeInv(p) ==
    /\ node[p].crashed = {}
    /\ node[p].nextIssue >= 1
    /\ \A m \in node[p].pending : m[1] = p /\ m[2] < node[p].nextSeq
    /\ \A t \in node[p].parked : t.acks = Proc
    /\ \A t \in delivered[p] : /\ t.acks = Proc /\ t.payloads # {}
                               /\ KeyOf(t) \in node[p].done

DoneInv(p) ==
    \A k \in node[p].done :
        /\ k[1] >= 1
        /\ k[2] \in Issuer
        /\ \A j \in (1..k[1]) \X Issuer : Less(j, k) => j \in node[p].done
        /\ \A a \in Proc : a # k[2] => node[a].seen[k[2]] >= k[1]
        /\ \A t \in Trains : t.acks = Proc /\ KeyOf(t) = k /\ t.payloads # {}
                                => t \in delivered[p]

\* TrainsInv: what is known of trains and of the keys processes have finished.
TrainsInv ==
    /\ TypeOK
    /\ \A t \in Trains : TrainInv(t)
    /\ \A t, u \in Trains : LoadInv(t, u)
    /\ \A p \in Proc : NodeInv(p) /\ DoneInv(p)

\* The application received every train of delivered[p] once, in key order; and
\* why it stays so: nothing finished is parked, nothing parked is deliverable.
LogInv(p) ==
    /\ log[p] = LogOf(delivered[p])
    /\ Tidy(node[p])
    /\ Drained(node[p]) = {}

\* RingInv: the conjunction; it implies ConsistentDelivery and
\* NoDuplicateDelivery and is preserved by every step, faults included.
RingInv == TrainsInv /\ \A p \in Proc : LogInv(p)

-----------------------------------------------------------------------------
(***************************************************************************)
(* The inductive invariant behind OneTrainPerIssuer and DeliveryLag: what  *)
(* a train tells of its first and second lap, as long as no link repeats a *)
(* message.                                                                *)
(***************************************************************************)

\* The keys a process has delivered, or parked until their turn comes.
Handled(n) == n.done \cup KeysOf(n.parked)

\* The processes that a train of issuer i on its way to d has left behind in
\* this lap, i included; all of them when it comes back to i.
Passed(i, d) == {q \in Proc : IF d > i THEN i <= q /\ q < d ELSE i <= q \/ q < d}

\* A train carries the acks of the processes it has passed.  Once its issuer has
\* handled it, it is fully acked, and those it passes handle it too.
TrainLap(d, t) ==
    /\ t.clock = node[t.issuer].nextIssue - 1
    /\ Passed(t.issuer, d) \subseteq t.acks
    /\ \A q \in Proc \ {t.issuer} : node[q].seen[t.issuer] >= t.clock => q \in t.acks
    /\ KeyOf(t) \in Handled(node[t.issuer])
          => /\ t.acks = Proc
             /\ \A q \in Passed(t.issuer, d) : KeyOf(t) \in Handled(node[q])

\* An issuer that has issued a clock has had the one before handled everywhere.
IssueLap(i) ==
    \A c \in 1..(node[i].nextIssue - 2), q \in Proc : <<c, i>> \in Handled(node[q])

\* A process has seen no clock that was not issued, has passed the gate for what
\* it finished, and has nothing parked that drain_parked could deliver.
NodeLap(p) ==
    /\ status[p] = "boot" => node[p].nextIssue = 1
    /\ ~node[p].frozen
    /\ Mode = "CausalOrder" => Handled(node[p]) = {}
    /\ \A q \in Proc : /\ node[p].seen[q] < node[q].nextIssue
                       /\ q \notin Issuer => node[p].seen[q] = 0
    /\ \A k \in node[p].done : \A i \in Issuer : node[p].seen[i] >= k[1]
    /\ \A t \in node[p].parked : node[p].seen[t.issuer] >= t.clock
    /\ Drained(node[p]) = {}

\* LapInv: a key that is issued ends the lap of the one before it, at every
\* process; what a process has parked waits for a train that is still to come.
LapInv ==
    /\ \A p \in Proc : NodeLap(p)
    /\ faults.dup = 0 => /\ OneTrainPerIssuer
                         /\ \A m \in net : TrainLap(m[1], m[2])
                         /\ \A i \in Issuer : IssueLap(i)
=============================================================================
