--------------------------- MODULE ConnectorLoop ----------------------------
(***************************************************************************)
(* connector_loop of crates/trains-net/src/transport.rs: the task that     *)
(* writes a process's outgoing messages to its successor, reconnects,      *)
(* retains the message it could not write, follows retargets and reports   *)
(* an unreachable successor.  The phases are the points where it awaits.   *)
(*                                                                         *)
(* Messages are numbered in the order of wire_rx; 0 is None.  got[a] is    *)
(* what was written to the process at a over connections that were open.   *)
(* A write may fail after its bytes arrived, and may succeed into the      *)
(* socket buffer of a connection that is already broken.  What the process *)
(* at a makes of it is not modelled: bytes may be lost with a later reset, *)
(* and the reader tasks of two connections may hand over out of order.     *)
(* Backoff times are left out: only the order of steps matters.            *)
(***************************************************************************)
EXTENDS Naturals, FiniteSets, Sequences

CONSTANTS
    Addr,                 \* successor addresses
    FirstAddr,            \* initial_addr
    UnreachableFailures,  \* UNREACHABLE_FAILURES
    MaxMsgs,              \* bound: messages sent
    MaxResets,            \* bound: connections reset while both ends live
    Mortal                \* bound: the addresses whose process may die

ASSUME ConnectorAssumption ==
    /\ FirstAddr \in Addr /\ Mortal \subseteq Addr
    /\ UnreachableFailures \in Nat \ {0}
    /\ MaxMsgs \in Nat /\ MaxResets \in Nat

None == 0

VARIABLES
    phase,      \* where the task awaits: "acquire", "connect", "handshake", "write", "stream", "backoff"
    msg,        \* msg_opt of this iteration; None in a probe
    pending,    \* the retained message
    force,      \* force_reconnect
    streak,     \* fail_streak
    notified, addr,
    taken,      \* messages received from wire_rx
    sent,       \* messages put into wire_rx
    want,       \* the last address given to retarget_successor
    peer,       \* peer[a]: is the process at a listening?
    conn,       \* the connection to addr: "none", "open" or "broken"
    got,        \* got[a]: the messages written to the process at a, in order
    vanished,   \* messages accepted by the socket of a broken connection
    reported,   \* addresses reported on unreachable_tx
    resets

loop == <<phase, msg, pending, force, streak, notified, addr, taken>>
env  == <<sent, want, peer, resets>>
vars == <<loop, env, conn, got, vanished, reported>>

Init ==
    /\ phase = "acquire" /\ msg = None /\ pending = None /\ force = FALSE
    /\ streak = 0 /\ notified = FALSE /\ addr = FirstAddr
    /\ taken = 0 /\ sent = 0 /\ want = FirstAddr
    /\ peer = [a \in Addr |-> TRUE]
    /\ conn = "none" /\ got = [a \in Addr |-> <<>>] /\ vanished = {}
    /\ reported = {} /\ resets = 0

Goto(p) == phase = p[1] /\ phase' = p[2]

-----------------------------------------------------------------------------
(* Acquire a message. *)

Probe ==
    /\ Goto(<<"acquire", "connect">>)
    /\ force
    /\ force' = FALSE /\ msg' = None
    /\ UNCHANGED <<pending, streak, notified, addr, taken, env, conn, got, vanished, reported>>

TakeRetained ==
    /\ Goto(<<"acquire", "connect">>)
    /\ ~force /\ pending # None
    /\ msg' = pending /\ pending' = None
    /\ UNCHANGED <<force, streak, notified, addr, taken, env, conn, got, vanished, reported>>

\* Mutant: a fresh message may overtake the retained one.
TakeNextFirst ==
    /\ Goto(<<"acquire", "connect">>)
    /\ ~force /\ taken < sent
    /\ taken' = taken + 1 /\ msg' = taken + 1
    /\ UNCHANGED <<pending, force, streak, notified, addr, env, conn, got, vanished, reported>>

TakeNext ==
    /\ Goto(<<"acquire", "connect">>)
    /\ ~force /\ pending = None /\ taken < sent
    /\ taken' = taken + 1 /\ msg' = taken + 1
    /\ UNCHANGED <<pending, force, streak, notified, addr, env, conn, got, vanished, reported>>

\* retarget_rx, in the three places that listen to it.
Retarget ==
    /\ \/ phase = "acquire" /\ ~force /\ pending = None
       \/ phase \in {"backoff", "stream"}
    /\ want # addr
    /\ addr' = want /\ streak' = 0 /\ notified' = FALSE
    /\ phase' = "acquire" /\ conn' = "none"
    /\ UNCHANGED <<msg, pending, force, taken, env, got, vanished, reported>>

-----------------------------------------------------------------------------
(* Connect and handshake. *)

ConnectOk ==
    /\ Goto(<<"connect", "handshake">>)
    /\ peer[addr]
    /\ streak' = 0 /\ notified' = FALSE /\ conn' = "open"
    /\ UNCHANGED <<msg, pending, force, addr, taken, env, got, vanished, reported>>

\* Mutant: a failed probe is not repeated.
ConnectFailOnce ==
    /\ Goto(<<"connect", "backoff">>)
    /\ ~peer[addr]
    /\ pending' = IF msg # None THEN msg ELSE pending
    /\ streak' = IF streak < UnreachableFailures THEN streak + 1 ELSE streak
    /\ notified' = (notified \/ streak' >= UnreachableFailures)
    /\ reported' = IF notified' THEN reported \cup {addr} ELSE reported
    /\ UNCHANGED <<msg, force, addr, taken, env, conn, got, vanished>>

\* streak is capped: past the threshold its value changes nothing.
ConnectFail ==
    /\ Goto(<<"connect", "backoff">>)
    /\ ~peer[addr]
    /\ pending' = IF msg # None THEN msg ELSE pending
    /\ force' = (force \/ msg = None)
    /\ streak' = IF streak < UnreachableFailures THEN streak + 1 ELSE streak
    /\ notified' = (notified \/ streak' >= UnreachableFailures)
    /\ reported' = IF notified' THEN reported \cup {addr} ELSE reported
    /\ UNCHANGED <<msg, addr, taken, env, conn, got, vanished>>

Slept ==
    /\ Goto(<<"backoff", "acquire">>)
    /\ UNCHANGED <<msg, pending, force, streak, notified, addr, taken, env, conn, got,
                   vanished, reported>>

HandshakeOk ==
    /\ Goto(<<"handshake", "write">>)
    /\ conn = "open"
    /\ UNCHANGED <<msg, pending, force, streak, notified, addr, taken, env, conn, got,
                   vanished, reported>>

\* Mutant: the message of a failed handshake is forgotten.
HandshakeFailDrops ==
    /\ Goto(<<"handshake", "acquire">>)
    /\ conn = "broken"
    /\ conn' = "none"
    /\ UNCHANGED <<msg, pending, force, streak, notified, addr, taken, env, got, vanished,
                   reported>>

HandshakeFail ==
    /\ Goto(<<"handshake", "acquire">>)
    /\ conn = "broken"
    /\ pending' = IF msg # None THEN msg ELSE pending
    /\ conn' = "none"
    /\ UNCHANGED <<msg, force, streak, notified, addr, taken, env, got, vanished, reported>>

-----------------------------------------------------------------------------
(* Write. *)

\* write_msg returns Ok: the bytes go to the peer, or into the buffer of a
\* broken connection.
Written(m) ==
    IF conn = "open"
      THEN got' = [got EXCEPT ![addr] = Append(@, m)] /\ UNCHANGED vanished
      ELSE vanished' = vanished \cup {m} /\ UNCHANGED got

\* write_msg fails: m is retained, its bytes may have arrived.
WriteFailed(m) ==
    /\ conn = "broken"
    /\ pending' = m /\ conn' = "none" /\ phase' = "acquire"
    /\ \/ UNCHANGED got
       \/ peer[addr] /\ got' = [got EXCEPT ![addr] = Append(@, m)]
    /\ UNCHANGED vanished

WriteFirst ==
    /\ Goto(<<"write", "stream">>)
    /\ IF msg = None THEN UNCHANGED <<got, vanished>> ELSE Written(msg)
    /\ UNCHANGED <<msg, pending, force, streak, notified, addr, taken, env, conn, reported>>

WriteFirstFailed ==
    /\ phase = "write" /\ msg # None
    /\ WriteFailed(msg)
    /\ UNCHANGED <<msg, force, streak, notified, addr, taken, env, reported>>

StreamNext ==
    /\ phase = "stream" /\ taken < sent
    /\ taken' = taken + 1
    /\ Written(taken + 1)
    /\ UNCHANGED <<phase, msg, pending, force, streak, notified, addr, env, conn, reported>>

StreamFailed ==
    /\ phase = "stream" /\ taken < sent
    /\ taken' = taken + 1
    /\ WriteFailed(taken + 1)
    /\ UNCHANGED <<msg, force, streak, notified, addr, env, reported>>

\* The reader task saw the connection close.
PeerClosed ==
    /\ Goto(<<"stream", "acquire">>)
    /\ conn = "broken"
    /\ force' = TRUE /\ conn' = "none"
    /\ UNCHANGED <<msg, pending, streak, notified, addr, taken, env, got, vanished, reported>>

-----------------------------------------------------------------------------
(* Environment: the driver, the network and the processes at the addresses. *)

Send ==
    /\ sent < MaxMsgs
    /\ sent' = sent + 1
    /\ UNCHANGED <<loop, want, peer, resets, conn, got, vanished, reported>>

RetargetSuccessor(a) ==
    /\ want = FirstAddr /\ a # want
    /\ want' = a
    /\ UNCHANGED <<loop, sent, peer, resets, conn, got, vanished, reported>>

Break == conn' = IF conn = "open" THEN "broken" ELSE conn

Reset ==
    /\ conn = "open" /\ resets < MaxResets
    /\ resets' = resets + 1
    /\ Break
    /\ UNCHANGED <<loop, sent, want, peer, got, vanished, reported>>

Die(a) ==
    /\ a \in Mortal /\ peer[a]
    /\ peer' = [peer EXCEPT ![a] = FALSE]
    /\ IF a = addr THEN Break ELSE UNCHANGED conn
    /\ UNCHANGED <<loop, sent, want, resets, got, vanished, reported>>

Step ==
    \/ Probe \/ TakeRetained \/ TakeNext \/ Retarget
    \/ ConnectOk \/ ConnectFail \/ Slept \/ HandshakeOk \/ HandshakeFail
    \/ WriteFirst \/ WriteFirstFailed \/ StreamNext \/ StreamFailed \/ PeerClosed

Next ==
    \/ Step
    \/ Send \/ Reset
    \/ \E a \in Addr : RetargetSuccessor(a) \/ Die(a)

Spec == Init /\ [][Next]_vars

\* The task runs whenever it can, and its select! does not starve the close
\* signal of the reader.
FairSpec == Spec /\ WF_vars(Step) /\ WF_vars(PeerClosed)

-----------------------------------------------------------------------------
(* Properties *)

\* WrittenInOrder: no older message is written to a process after a newer one,
\* and a repeated one only right after itself: the retained message goes out
\* before anything fresh, through every failure, probe and retarget.
WrittenInOrder ==
    \A a \in Addr : \A i, j \in 1..Len(got[a]) : i < j => got[a][i] <= got[a][j]

\* NothingDropped: a message taken from wire_rx is still held, was written to some
\* successor, or was accepted by the socket of a broken connection: no retry
\* path forgets or overwrites the one retained message.
NothingDropped ==
    \A m \in 1..taken :
        \/ m \in {pending} \cup vanished
        \/ m = msg /\ phase \in {"connect", "handshake", "write"}
        \/ \E a \in Addr : \E i \in 1..Len(got[a]) : got[a][i] = m

\* ConnectorInv: why both hold on every retry path.  Only the message taken
\* last is ever held, in one place at a time: retained between two attempts
\* (and then no probe is due), or as msg during an attempt.  So what is written
\* is never older than what was written to any process before.
ConnectorInv ==
    /\ phase \in {"acquire", "connect", "handshake", "write", "stream", "backoff"}
    /\ taken \in Nat /\ msg \in Nat /\ pending \in {None, taken} /\ force \in BOOLEAN
    /\ addr \in Addr /\ want \in Addr
    /\ got \in [Addr -> Seq(Nat)] /\ vanished \in SUBSET Nat
    /\ pending # None => phase \in {"acquire", "backoff"} /\ ~force
    /\ phase \in {"connect", "handshake", "write"} => msg \in {None, taken}
    /\ phase \in {"connect", "handshake", "write", "stream"} => ~force
    /\ \A a \in Addr : \A i \in 1..Len(got[a]) : got[a][i] <= taken
    /\ WrittenInOrder
    /\ NothingDropped

\* The process at the other end of the connection has died.
PeerDied(a) == addr = a /\ conn = "broken" /\ ~peer[a]

\* DeadPeerReported: "an idle connector still observes a dead peer" (PR-RD-9):
\* when the process at the other end of the first connection dies, it is
\* reported unreachable unless a retarget comes first.
DeadPeerReported ==
    \A a \in Addr : (PeerDied(a) /\ resets = 0) ~> (a \in reported \/ addr # a)
=============================================================================
