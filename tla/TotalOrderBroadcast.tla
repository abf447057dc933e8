------------------------ MODULE TotalOrderBroadcast ------------------------
(***************************************************************************)
(* What the ring promises its application, without trains, clocks or acks: *)
(* every member appends batches of messages to a log, a message is         *)
(* appended at most once and only after it was broadcast, and at all times *)
(* one of two logs is a prefix of the other.                               *)
(***************************************************************************)
EXTENDS Naturals, Sequences

CONSTANTS Member, Message

VARIABLES sent,   \* the messages broadcast so far
          log     \* log[p]: the batches p delivered, in order

IsPrefix(s, t) == Len(s) <= Len(t) /\ \A i \in 1..Len(s) : s[i] = t[i]

Comparable(s, t) == IsPrefix(s, t) \/ IsPrefix(t, s)

\* No message in two places of a log, no empty batch, nothing unsent.
WellFormed(s) ==
    \A i \in 1..Len(s) : /\ s[i] # {} /\ s[i] \subseteq sent
                         /\ \A j \in 1..(i - 1) : s[i] \cap s[j] = {}

Init ==
    /\ sent = {}
    /\ log = [p \in Member |-> <<>>]

Broadcast ==
    /\ \E m \in Message \ sent : sent' = sent \cup {m}
    /\ UNCHANGED log

\* One member's log grows by one or more batches.
Deliver(p) ==
    /\ Len(log'[p]) > Len(log[p])
    /\ log' = [log EXCEPT ![p] = log'[p]]
    /\ IsPrefix(log[p], log'[p])
    /\ WellFormed(log'[p])
    /\ \A q \in Member : Comparable(log'[p], log[q])
    /\ UNCHANGED sent

Next == Broadcast \/ \E p \in Member : Deliver(p)

Spec == Init /\ [][Next]_<<sent, log>>
=============================================================================
