--------------------------- MODULE StateTransfer ----------------------------
(***************************************************************************)
(* trains-net snapshot.rs: a standby fetches what it missed from the       *)
(* survivors, one request per connection, and polls with a rising index.   *)
(*                                                                         *)
(* The survivors deliver the same sequence of effects 1, 2, 3, ... (what   *)
(* SurvivorAgreement of TrainsReconfig shows), each at its own pace, and   *)
(* retain the last LogCap of them.  The owner of the request channel and   *)
(* the standby's application are outside the repository; they are modelled *)
(* from the module's contract.  On the wire a blob is a number: a snapshot *)
(* is the index it covers, 0 the empty blob; a frame is its effect.        *)
(***************************************************************************)
EXTENDS Integers, Sequences, FiniteSets

CONSTANTS
    Survivors,
    LogCap,         \* effects a survivor retains
    MaxTailFrames,  \* MAX_TAIL_FRAMES
    MaxHead,        \* bound: effects delivered
    MaxReset        \* bound: connections reset

ASSUME TransferAssumption ==
    /\ LogCap \in Nat /\ MaxHead \in Nat /\ MaxReset \in Nat
    /\ MaxTailFrames \in Nat /\ LogCap <= MaxTailFrames

VARIABLES
    head,       \* head[s]: how many effects s has delivered
    up,         \* the survivors that run
    requests,   \* requests[s]: the channel from the handlers to the owner; each
                \* [have, live]: does the connection of the handler still stand?
    wire,       \* the rest of the response on the standby's connection
    standby,    \* fetch_state: [phase, server, snapshot, left, tail]
    applied,    \* the effects the standby's state contains, in order
    resets

vars == <<head, up, requests, wire, standby, applied, resets>>

Effects(i, j) == [k \in 1..(j - i + 1) |-> i + k - 1]

Idle == [phase |-> "idle", server |-> {}, snapshot |-> 0, left |-> 0, tail |-> <<>>]

Init ==
    /\ head = [s \in Survivors |-> 0]
    /\ up = Survivors
    /\ requests = [s \in Survivors |-> <<>>]
    /\ wire = <<>>
    /\ standby = Idle
    /\ applied = <<>>
    /\ resets = 0

-----------------------------------------------------------------------------
(* The survivor *)

\* A train is delivered to the application of s.
Deliver(s) ==
    /\ s \in up
    /\ head[s] < MaxHead
    /\ head' = [head EXCEPT ![s] = @ + 1]
    /\ UNCHANGED <<up, requests, wire, standby, applied, resets>>

\* The effects s has evicted from its log.
LowWater(s) == IF head[s] > LogCap THEN head[s] - LogCap ELSE 0

\* What the owner may answer: the tail alone if it reaches back to have,
\* otherwise a snapshot and the tail after it.
Transfers(s, have) ==
    IF have >= LowWater(s)
      THEN {[snapshot |-> 0, tail |-> Effects(have + 1, head[s])]}
      ELSE {[snapshot |-> i, tail |-> Effects(i + 1, head[s])] : i \in LowWater(s)..head[s]}

\* handle_one from the reply on: snapshot, count, frames.
Response(t) == <<t.snapshot, Len(t.tail)>> \o t.tail

\* The owner serves the oldest request.  A handler whose connection broke
\* meanwhile writes in vain.
Serve(s) ==
    /\ s \in up
    /\ requests[s] # <<>>
    /\ \E t \in Transfers(s, Head(requests[s]).have) :
          wire' = IF Head(requests[s]).live THEN Response(t) ELSE wire
    /\ requests' = [requests EXCEPT ![s] = Tail(@)]
    /\ UNCHANGED <<head, up, standby, applied, resets>>

-----------------------------------------------------------------------------
(* The standby: fetch_state *)

\* Mutant: every poll asks for everything.
HaveNothing == 0

\* The index a poll sends.
Have == Len(applied)

\* SnapshotRequest
NewRequest(have) == [have |-> have, live |-> TRUE]

\* Connect, handshake and request; the handler reads it and queues it.
Request(s) ==
    /\ standby.phase = "idle"
    /\ s \in up
    /\ standby' = [Idle EXCEPT !.phase = "snapshot", !.server = {s}]
    /\ requests' = [requests EXCEPT ![s] = Append(@, NewRequest(Have))]
    /\ UNCHANGED <<head, up, wire, applied, resets>>

ReadSnapshot ==
    /\ standby.phase = "snapshot"
    /\ wire # <<>>
    /\ standby' = [standby EXCEPT !.phase = "count", !.snapshot = Head(wire)]
    /\ wire' = Tail(wire)
    /\ UNCHANGED <<head, up, requests, applied, resets>>

\* The connection ends with an error for the standby.
GiveUp ==
    /\ standby' = Idle
    /\ wire' = <<>>
    /\ requests' = [s \in Survivors |-> [i \in DOMAIN requests[s] |->
                       [requests[s][i] EXCEPT !.live = FALSE]]]

\* Mutant: the cap itself is refused.
FitsBelowCap(n) == n < MaxTailFrames

FitsCap(n) == n <= MaxTailFrames

ReadCount ==
    /\ standby.phase = "count"
    /\ wire # <<>>
    /\ IF FitsCap(Head(wire))
         THEN /\ standby' = [standby EXCEPT !.phase = "tail", !.left = Head(wire)]
              /\ wire' = Tail(wire)
              /\ UNCHANGED requests
         ELSE GiveUp
    /\ UNCHANGED <<head, up, applied, resets>>

ReadFrame ==
    /\ standby.phase = "tail"
    /\ standby.left > 0
    /\ wire # <<>>
    /\ standby' = [standby EXCEPT !.left = @ - 1, !.tail = Append(@, Head(wire))]
    /\ wire' = Tail(wire)
    /\ UNCHANGED <<head, up, requests, applied, resets>>

\* Mutant: an empty blob is taken for a snapshot of the empty state.
InstallAlways(snapshot) == Effects(1, snapshot)

\* "A snap_len of 0 means no snapshot."
Installed(snapshot) == IF snapshot = 0 THEN applied ELSE Effects(1, snapshot)

\* fetch_state returns; the application installs the snapshot and applies the tail.
Complete ==
    /\ standby.phase = "tail"
    /\ standby.left = 0
    /\ applied' = Installed(standby.snapshot) \o standby.tail
    /\ standby' = Idle
    /\ UNCHANGED <<head, up, requests, wire, resets>>

-----------------------------------------------------------------------------
(* Faults *)

\* The standby's connection breaks; what was not read is lost.
Reset ==
    /\ resets < MaxReset
    /\ standby.phase # "idle"
    /\ resets' = resets + 1
    /\ GiveUp
    /\ UNCHANGED <<head, up, applied>>

\* A survivor crashes, with the connection if it serves the standby.
Crash(s) ==
    /\ s \in up
    /\ Cardinality(up) > 1
    /\ up' = up \ {s}
    /\ IF s \in standby.server THEN GiveUp ELSE UNCHANGED <<standby, wire, requests>>
    /\ UNCHANGED <<head, applied, resets>>

Read == ReadSnapshot \/ ReadCount \/ ReadFrame \/ Complete

Next ==
    \/ Read
    \/ Reset
    \/ \E s \in Survivors : Deliver(s) \/ Serve(s) \/ Request(s) \/ Crash(s)

\* The tasks run whenever they can, and the standby polls every survivor again
\* and again.  Nothing makes a survivor deliver, a connection break or a
\* process crash.
Fairness ==
    /\ WF_vars(Read)
    /\ \A s \in Survivors : WF_vars(Serve(s)) /\ SF_vars(Request(s))

Spec == Init /\ [][Next]_vars /\ Fairness

-----------------------------------------------------------------------------
(* Properties *)

\* AppliedIsPrefix: the standby's state is a prefix of the common history,
\* nothing missing and nothing twice, although snapshots replace what it had,
\* survivors evict, crash and lag behind each other, and responses break off.
AppliedIsPrefix == applied = Effects(1, Len(applied))

\* NeverBack: a poll never undoes effects, also one of a survivor that has
\* delivered less than the standby has applied.
NeverBack == [][Len(applied') >= Len(applied)]_vars

\* TransferInv: why both hold.  At most one request can still be answered, and
\* only before anything of a response was read, so a response continues what the
\* standby had when it asked: from its snapshot or, without one, from applied.
Base(snapshot) == IF snapshot = 0 THEN Len(applied) ELSE snapshot

NotBelow(snapshot) == snapshot \in Nat /\ Base(snapshot) >= Len(applied)

LiveInv ==
    \A s \in Survivors : \A i \in 1..Len(requests[s]) : requests[s][i].live =>
        /\ standby.phase = "snapshot" /\ wire = <<>>
        /\ requests[s][i].have = Len(applied)
        /\ \A t \in Survivors : \A j \in 1..Len(requests[t]) :
              requests[t][j].live => t = s /\ j = i

ResponseInv ==
    /\ standby.phase = "idle" => wire = <<>>
    /\ standby.phase = "snapshot" /\ wire # <<>> =>
          /\ Len(wire) >= 2 /\ NotBelow(wire[1]) /\ wire[2] = Len(wire) - 2
          /\ \A k \in 3..Len(wire) : wire[k] = Base(wire[1]) + k - 2
    /\ standby.phase = "count" =>
          /\ Len(wire) >= 1 /\ NotBelow(standby.snapshot) /\ wire[1] = Len(wire) - 1
          /\ \A k \in 2..Len(wire) : wire[k] = Base(standby.snapshot) + k - 1
    /\ standby.phase = "tail" =>
          /\ Len(wire) = standby.left /\ NotBelow(standby.snapshot)
          /\ \A k \in 1..Len(standby.tail) : standby.tail[k] = Base(standby.snapshot) + k
          /\ \A k \in 1..Len(wire) :
                wire[k] = Base(standby.snapshot) + Len(standby.tail) + k

TransferInv ==
    /\ head \in [Survivors -> Nat]
    /\ requests \in [Survivors -> Seq([have : Nat, live : BOOLEAN])]
    /\ wire \in Seq(Nat) /\ applied \in Seq(Nat)
    /\ standby \in [phase : {"idle", "snapshot", "count", "tail"}, server : SUBSET Survivors,
                    snapshot : Nat, left : Nat, tail : Seq(Nat)]
    /\ standby.phase # "tail" => standby.tail = <<>>
    /\ LiveInv
    /\ ResponseInv
    /\ \A k \in 1..Len(applied) : applied[k] = k

\* CatchesUp: whatever a survivor that does not crash has delivered, the standby
\* applies in the end: lost responses are asked for again, requests of broken
\* connections do not block the owner's queue, and a tail as long as the cap on
\* frames gets through.
CatchesUp ==
    \A s \in Survivors, i \in 1..MaxHead :
        head[s] >= i ~> (s \notin up \/ Len(applied) >= i)
=============================================================================
