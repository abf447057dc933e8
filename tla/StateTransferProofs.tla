------------------------ MODULE StateTransferProofs -------------------------
(***************************************************************************)
(* Proofs about the state transfer: for any number of survivors, any log   *)
(* capacity and any run of resets and crashes, the standby's state is a    *)
(* prefix of the common history and never shrinks.                         *)
(***************************************************************************)
EXTENDS StateTransfer, TLAPS

\* A run of effects, as a sequence.
LEMMA EffectsSeq ==
    ASSUME NEW i \in Nat, NEW j \in Nat
    PROVE  /\ Effects(i + 1, j) \in Seq(Nat)
           /\ Len(Effects(i + 1, j)) = IF j > i THEN j - i ELSE 0
           /\ \A k \in 1..Len(Effects(i + 1, j)) : Effects(i + 1, j)[k] = i + k
  <1> DEFINE n == IF j > i THEN j - i ELSE 0
             e == [k \in 1..n |-> i + k]
  <1>1. n \in Nat /\ 1..(j - (i + 1) + 1) = 1..n
    OBVIOUS
  <1>2. e \in Seq(Nat) /\ Len(e) = n
    <2> HIDE DEF n
    <2>1. e \in [1..n -> Nat]
      BY <1>1
    <2> QED
      BY <1>1, <2>1
  <1>3. Effects(i + 1, j) = e
    BY <1>1 DEF Effects
  <1> QED
    BY <1>2, <1>3

\* The layout of a response: two numbers, then the frames.
LEMMA ResponseSeq ==
    ASSUME NEW a \in Nat, NEW n \in Nat, NEW e \in Seq(Nat), NEW w, w = <<a, n>> \o e
    PROVE  /\ w \in Seq(Nat) /\ Len(w) = Len(e) + 2
           /\ w[1] = a /\ w[2] = n
           /\ \A k \in 3..Len(w) : w[k] = e[k - 2]
  <1>1. <<a, n>> \in Seq(Nat) /\ Len(<<a, n>>) = 2
    OBVIOUS
  <1> QED
    BY <1>1

\* The response w continues the state with index have.
Continues(w, have) ==
    /\ w \in Seq(Nat) /\ Len(w) >= 2 /\ w[2] = Len(w) - 2
    /\ w[1] \in Nat /\ (w[1] = 0 \/ w[1] >= have)
    /\ \A k \in 3..Len(w) : w[k] = (IF w[1] = 0 THEN have ELSE w[1]) + k - 2

\* What the owner answers a request with: a tail that continues the index asked
\* for, or a later snapshot and a tail that continues it.
LEMMA TransferContinues ==
    ASSUME head \in [Survivors -> Nat], NEW s \in Survivors,
           NEW have \in Nat, NEW t \in Transfers(s, have)
    PROVE  Continues(Response(t), have)
  <1> DEFINE w == Response(t)
             i == IF t.snapshot = 0 THEN have ELSE t.snapshot
  <1>1. head[s] \in Nat /\ LowWater(s) \in Nat
    BY TransferAssumption DEF LowWater
  <1>2. /\ t.snapshot \in Nat /\ (t.snapshot = 0 \/ t.snapshot >= have)
        /\ i \in Nat /\ t.tail = Effects(i + 1, head[s])
    <2>1. CASE have >= LowWater(s)
      BY <2>1 DEF Transfers
    <2>2. CASE ~(have >= LowWater(s))
      <3>1. PICK j \in LowWater(s)..head[s] :
                    t = [snapshot |-> j, tail |-> Effects(j + 1, head[s])]
        BY <2>2 DEF Transfers
      <3>2. j \in Nat /\ j > have /\ j # 0
        BY <1>1, <2>2
      <3> QED
        BY <3>1, <3>2
    <2> QED
      BY <2>1, <2>2
  <1>3. /\ t.tail \in Seq(Nat) /\ Len(t.tail) \in Nat
        /\ \A k \in 1..Len(t.tail) : t.tail[k] = i + k
    <2> HIDE DEF i
    <2>1. /\ Effects(i + 1, head[s]) \in Seq(Nat)
          /\ \A k \in 1..Len(Effects(i + 1, head[s])) : Effects(i + 1, head[s])[k] = i + k
      BY <1>1, <1>2, EffectsSeq
    <2> QED
      BY <1>2, <2>1
  <1> HIDE DEF w
  <1>4. /\ w \in Seq(Nat) /\ Len(w) = Len(t.tail) + 2
        /\ w[1] = t.snapshot /\ w[2] = Len(t.tail)
        /\ \A k \in 3..Len(w) : w[k] = t.tail[k - 2]
    <2>1. w = <<t.snapshot, Len(t.tail)>> \o t.tail
      BY DEF Response, w
    <2> QED
      BY <1>2, <1>3, <2>1, ResponseSeq
  <1>5. \A k \in 3..Len(w) : k - 2 \in 1..Len(t.tail)
    BY <1>3, <1>4
  <1>6. \A k \in 3..Len(w) : w[k] = i + k - 2
    <2> HIDE DEF i
    <2> QED
      BY <1>2, <1>3, <1>4, <1>5
  <1>7. i = IF w[1] = 0 THEN have ELSE w[1]
    BY <1>4
  <1>8. Continues(w, have)
    BY <1>2, <1>3, <1>4, <1>6, <1>7 DEF Continues
  <1> QED
    BY <1>8 DEF w

\* Nothing asked for, nothing under way.
LEMMA InitTransfer == Init => TransferInv
  <1> SUFFICES ASSUME Init PROVE TransferInv
    OBVIOUS
  <1>1. \A s \in Survivors : Len(requests[s]) = 0
    BY DEF Init
  <1>2. LiveInv
    BY <1>1 DEF LiveInv
  <1>3. ResponseInv
    BY DEF Init, Idle, ResponseInv
  <1>4. /\ head \in [Survivors -> Nat]
        /\ requests \in [Survivors -> Seq([have : Nat, live : BOOLEAN])]
        /\ wire \in Seq(Nat) /\ applied \in Seq(Nat)
        /\ \A k \in 1..Len(applied) : applied[k] = k
    BY DEF Init
  <1>5. /\ standby \in [phase : {"idle", "snapshot", "count", "tail"},
                        server : SUBSET Survivors, snapshot : Nat, left : Nat,
                        tail : Seq(Nat)]
        /\ standby.phase # "tail" => standby.tail = <<>>
    BY DEF Init, Idle
  <1> QED
    BY <1>2, <1>3, <1>4, <1>5 DEF TransferInv

-----------------------------------------------------------------------------
\* The head of a non-empty sequence and the rest of it.
LEMMA TailSeq ==
    ASSUME NEW S, NEW w \in Seq(S), w # <<>>
    PROVE  /\ Head(w) = w[1] /\ Head(w) \in S /\ Tail(w) \in Seq(S)
           /\ Len(w) \in Nat /\ Len(w) >= 1 /\ Len(Tail(w)) = Len(w) - 1
           /\ \A k \in 1..Len(Tail(w)) : Tail(w)[k] = w[k + 1] /\ k + 1 \in 1..Len(w)
  OBVIOUS

\* The elements of a sequence.
LEMMA SeqElements ==
    ASSUME NEW S, NEW w \in Seq(S)
    PROVE  \A i \in 1..Len(w) : w[i] \in S
  OBVIOUS

\* A function on 1..n is a sequence of length n.
LEMMA FunctionIsSeq ==
    ASSUME NEW S, NEW n \in Nat, NEW w \in [1..n -> S]
    PROVE  w \in Seq(S) /\ Len(w) = n
  OBVIOUS

\* After a broken connection nothing is under way and no request can be answered.
LEMMA GiveUpKeeps ==
    ASSUME TransferInv, GiveUp, UNCHANGED <<head, applied>>
    PROVE  TransferInv'
  <1>1. /\ standby' = Idle /\ wire' = <<>> /\ head' = head /\ applied' = applied
        /\ requests' = [s \in Survivors |-> [i \in DOMAIN requests[s] |->
                           [requests[s][i] EXCEPT !.live = FALSE]]]
    BY DEF GiveUp
  <1>2. ASSUME NEW s \in Survivors
        PROVE  /\ requests'[s] \in Seq([have : Nat, live : BOOLEAN])
               /\ \A i \in 1..Len(requests'[s]) : ~requests'[s][i].live
    <2> DEFINE r == requests[s]
    <2>1. r \in Seq([have : Nat, live : BOOLEAN]) /\ DOMAIN r = 1..Len(r) /\ Len(r) \in Nat
      BY DEF TransferInv
    <2>2. \A i \in 1..Len(r) : r[i] \in [have : Nat, live : BOOLEAN]
      BY <2>1, SeqElements
    <2>3. requests'[s] = [i \in 1..Len(r) |-> [r[i] EXCEPT !.live = FALSE]]
      BY <1>1, <2>1
    <2> HIDE DEF r
    <2>4. requests'[s] \in [1..Len(r) -> [have : Nat, live : BOOLEAN]]
      BY <2>2, <2>3
    <2>5. requests'[s] \in Seq([have : Nat, live : BOOLEAN]) /\ Len(requests'[s]) = Len(r)
      <3>1. PICK n \in Nat : n = Len(r)
        BY <2>1
      <3>2. PICK w : w = requests'[s]
        OBVIOUS
      <3> DEFINE T == [have : Nat, live : BOOLEAN]
      <3> HIDE DEF T
      <3>3. w \in [1..n -> T]
        BY <2>4, <3>1, <3>2 DEF T
      <3>4. w \in Seq(T) /\ Len(w) = n
        BY <3>3, FunctionIsSeq
      <3> QED
        BY <3>1, <3>2, <3>4 DEF T
    <2>6. ASSUME NEW i \in 1..Len(r)
          PROVE  ~requests'[s][i].live
      <3>1. requests'[s][i] = [r[i] EXCEPT !.live = FALSE]
        BY <2>3
      <3>2. requests'[s][i].live = FALSE
        BY <2>2, <3>1
      <3> QED
        BY <3>2
    <2> QED
      BY <2>5, <2>6
  <1>3. requests' \in [Survivors -> Seq([have : Nat, live : BOOLEAN])]
    <2>1. requests' = [s \in Survivors |-> requests'[s]]
      BY <1>1
    <2> QED
      BY <1>2, <2>1
  <1>4. LiveInv'
    BY <1>2 DEF LiveInv
  <1>5. ResponseInv'
    BY <1>1 DEF ResponseInv, Idle
  <1>6. /\ standby' \in [phase : {"idle", "snapshot", "count", "tail"},
                         server : SUBSET Survivors, snapshot : Nat, left : Nat,
                         tail : Seq(Nat)]
        /\ standby'.phase # "tail" => standby'.tail = <<>>
    BY <1>1 DEF Idle
  <1> QED
    BY <1>1, <1>3, <1>4, <1>5, <1>6 DEF TransferInv

\* While the requests, the wire and the standby stay as they are, nothing of
\* TransferInv can change but the survivors' progress.
LEMMA QuietKeeps ==
    ASSUME TransferInv, head' \in [Survivors -> Nat],
           UNCHANGED <<requests, wire, standby, applied>>
    PROVE  TransferInv'
  <1>1. LiveInv' /\ ResponseInv'
    BY DEF TransferInv, LiveInv, ResponseInv, NotBelow, Base
  <1> QED
    BY <1>1 DEF TransferInv

\* What the application has after installing the snapshot of a response.
LEMMA InstalledRun ==
    ASSUME TransferInv
    PROVE  LET sn == standby.snapshot
               u  == Installed(sn)
           IN  /\ Base(sn) \in Nat /\ u \in Seq(Nat) /\ Len(u) = Base(sn)
               /\ \A k \in 1..Len(u) : u[k] = k
  <1>1. standby.snapshot \in Nat /\ applied \in Seq(Nat) /\ Len(applied) \in Nat
        /\ \A k \in 1..Len(applied) : applied[k] = k
    BY DEF TransferInv
  <1>2. CASE standby.snapshot = 0
    BY <1>1, <1>2 DEF Installed, Base
  <1>3. CASE standby.snapshot # 0
    <2> DEFINE e == Effects(0 + 1, standby.snapshot)
    <2>1. /\ e \in Seq(Nat)
          /\ Len(e) = IF standby.snapshot > 0 THEN standby.snapshot - 0 ELSE 0
          /\ \A k \in 1..Len(e) : e[k] = 0 + k
      BY <1>1, EffectsSeq
    <2>2. Len(e) = standby.snapshot /\ \A k \in 1..Len(e) : e[k] = k
      <3> HIDE DEF e
      <3> QED
        BY <1>1, <1>3, <2>1
    <2>3. Installed(standby.snapshot) = e
      BY <1>3 DEF Installed
    <2> QED
      BY <1>1, <1>3, <2>1, <2>2, <2>3 DEF Base
  <1> QED
    BY <1>2, <1>3

(* The length of a concatenation. *)
LEMMA ConcatLength ==
    ASSUME NEW u \in Seq(Nat), NEW t \in Seq(Nat), NEW w, w = u \o t
    PROVE  Len(w) = Len(u) + Len(t)
  OBVIOUS

\* Two consecutive runs of effects make one.
LEMMA ConcatRuns ==
    ASSUME NEW u \in Seq(Nat), NEW t \in Seq(Nat),
           \A k \in 1..Len(u) : u[k] = k,
           \A k \in 1..Len(t) : t[k] = Len(u) + k,
           NEW w, w = u \o t
    PROVE  /\ w \in Seq(Nat) /\ Len(w) = Len(u) + Len(t)
           /\ \A k \in 1..Len(w) : w[k] = k
  <1>1. /\ w \in Seq(Nat) /\ Len(w) = Len(u) + Len(t) /\ Len(u) \in Nat /\ Len(t) \in Nat
    OBVIOUS
  <1>2. ASSUME NEW k \in 1..Len(w) PROVE w[k] = k
    <2>1. CASE k <= Len(u)
      BY <1>1, <2>1
    <2>2. CASE ~(k <= Len(u))
      <3>1. w[k] = t[k - Len(u)] /\ k - Len(u) \in 1..Len(t)
        BY <1>1, <2>2
      <3> QED
        BY <1>1, <3>1
    <2> QED
      BY <2>1, <2>2
  <1> QED
    BY <1>1, <1>2

-----------------------------------------------------------------------------
\* Every step preserves TransferInv.
LEMMA StepTransfer == TransferInv /\ [Next]_vars => TransferInv'
  <1> SUFFICES ASSUME TransferInv, [Next]_vars PROVE TransferInv'
    OBVIOUS
  <1>0. /\ head \in [Survivors -> Nat]
        /\ requests \in [Survivors -> Seq([have : Nat, live : BOOLEAN])]
        /\ wire \in Seq(Nat) /\ applied \in Seq(Nat)
        /\ standby \in [phase : {"idle", "snapshot", "count", "tail"},
                        server : SUBSET Survivors, snapshot : Nat, left : Nat,
                        tail : Seq(Nat)]
        /\ standby.phase # "tail" => standby.tail = <<>>
        /\ LiveInv /\ ResponseInv
        /\ \A k \in 1..Len(applied) : applied[k] = k
        /\ Len(applied) \in Nat
    BY DEF TransferInv
  <1>1. ASSUME NEW s \in Survivors, Deliver(s)
        PROVE  TransferInv'
    <2>1. head' \in [Survivors -> Nat]
      BY <1>0, <1>1 DEF Deliver
    <2> QED
      BY <1>1, <2>1, QuietKeeps DEF Deliver
  <1>2. ASSUME NEW s \in Survivors, Crash(s)
        PROVE  TransferInv'
    <2>1. CASE s \in standby.server
      BY <1>2, <2>1, GiveUpKeeps DEF Crash
    <2>2. CASE s \notin standby.server
      BY <1>0, <1>2, <2>2, QuietKeeps DEF Crash
    <2> QED
      BY <2>1, <2>2
  <1>3. CASE Reset
    BY <1>3, GiveUpKeeps DEF Reset
  <1>4. CASE ReadSnapshot
    <2>1. /\ standby.phase = "snapshot" /\ wire # <<>>
          /\ standby' = [standby EXCEPT !.phase = "count", !.snapshot = Head(wire)]
          /\ wire' = Tail(wire) /\ head' = head /\ requests' = requests
          /\ applied' = applied
      BY <1>4 DEF ReadSnapshot
    <2>2. /\ Len(wire) >= 2 /\ NotBelow(wire[1]) /\ wire[2] = Len(wire) - 2
          /\ \A k \in 3..Len(wire) : wire[k] = Base(wire[1]) + k - 2
      BY <1>0, <2>1 DEF ResponseInv
    <2>3. /\ Head(wire) = wire[1] /\ wire' \in Seq(Nat) /\ Len(wire') = Len(wire) - 1
          /\ \A k \in 1..Len(wire') : wire'[k] = wire[k + 1] /\ k + 1 \in 1..Len(wire)
          /\ Len(wire) \in Nat
      BY <1>0, <2>1, TailSeq
    <2>4. /\ standby'.phase = "count" /\ standby'.snapshot = wire[1]
          /\ standby'.tail = standby.tail
      BY <1>0, <2>1, <2>3
    <2>5. ResponseInv'
      <3>1. wire'[1] = Len(wire') - 1 /\ Len(wire') >= 1
        BY <2>2, <2>3
      <3>2. \A k \in 2..Len(wire') : wire'[k] = Base(wire[1]) + k - 1
        <4> SUFFICES ASSUME NEW k \in 2..Len(wire')
                     PROVE  wire'[k] = Base(wire[1]) + k - 1
          OBVIOUS
        <4>1. wire'[k] = wire[k + 1] /\ k + 1 \in 3..Len(wire)
          BY <2>3
        <4>2. Base(wire[1]) \in Nat
          BY <1>0, <2>2 DEF NotBelow, Base
        <4> QED
          BY <2>2, <4>1, <4>2
      <3> QED
        BY <2>1, <2>2, <2>4, <3>1, <3>2 DEF ResponseInv, NotBelow, Base
    <2>6. LiveInv'
      BY <1>0, <2>1 DEF LiveInv
    <2>7. standby' \in [phase : {"idle", "snapshot", "count", "tail"},
                        server : SUBSET Survivors, snapshot : Nat, left : Nat,
                        tail : Seq(Nat)]
      BY <1>0, <2>1, <2>2, <2>3 DEF NotBelow
    <2> QED
      BY <1>0, <2>1, <2>3, <2>4, <2>5, <2>6, <2>7 DEF TransferInv
  <1>5. CASE ReadCount /\ ~FitsCap(Head(wire))
    BY <1>5, GiveUpKeeps DEF ReadCount
  <1>6. CASE ReadCount /\ FitsCap(Head(wire))
    <2>1. /\ standby.phase = "count" /\ wire # <<>>
          /\ standby' = [standby EXCEPT !.phase = "tail", !.left = Head(wire)]
          /\ wire' = Tail(wire) /\ head' = head /\ requests' = requests
          /\ applied' = applied
      BY <1>6 DEF ReadCount
    <2>2. /\ Len(wire) >= 1 /\ NotBelow(standby.snapshot) /\ wire[1] = Len(wire) - 1
          /\ \A k \in 2..Len(wire) : wire[k] = Base(standby.snapshot) + k - 1
      BY <1>0, <2>1 DEF ResponseInv
    <2>3. /\ Head(wire) = wire[1] /\ wire' \in Seq(Nat) /\ Len(wire') = Len(wire) - 1
          /\ \A k \in 1..Len(wire') : wire'[k] = wire[k + 1] /\ k + 1 \in 1..Len(wire)
          /\ Len(wire) \in Nat
      BY <1>0, <2>1, TailSeq
    <2>4. /\ standby'.phase = "tail" /\ standby'.snapshot = standby.snapshot
          /\ standby'.tail = <<>> /\ standby'.left = Len(wire')
      BY <1>0, <2>1, <2>2, <2>3
    <2>5. ResponseInv'
      <3>1. \A k \in 1..Len(wire') : wire'[k] = Base(standby.snapshot) + k
        <4> SUFFICES ASSUME NEW k \in 1..Len(wire')
                     PROVE  wire'[k] = Base(standby.snapshot) + k
          OBVIOUS
        <4>1. wire'[k] = wire[k + 1] /\ k + 1 \in 2..Len(wire)
          BY <2>3
        <4>2. Base(standby.snapshot) \in Nat
          BY <1>0, <2>2 DEF NotBelow, Base
        <4> QED
          BY <2>2, <4>1, <4>2
      <3>2. Len(standby'.tail) = 0
        BY <2>4
      <3>3. /\ Base(standby.snapshot)' = Base(standby.snapshot)
            /\ NotBelow(standby.snapshot)' /\ Base(standby.snapshot) \in Nat
        BY <1>0, <2>1, <2>2, <2>4 DEF NotBelow, Base
      <3> QED
        BY <2>4, <3>1, <3>2, <3>3 DEF ResponseInv
    <2>6. LiveInv'
      BY <1>0, <2>1 DEF LiveInv
    <2>7. standby' \in [phase : {"idle", "snapshot", "count", "tail"},
                        server : SUBSET Survivors, snapshot : Nat, left : Nat,
                        tail : Seq(Nat)]
      <3>1. Head(wire) \in Nat
        BY <2>2, <2>3
      <3> QED
        BY <1>0, <2>1, <3>1
    <2> QED
      BY <1>0, <2>1, <2>3, <2>4, <2>5, <2>6, <2>7 DEF TransferInv
  <1>7. CASE ReadFrame
    <2>1. /\ standby.phase = "tail" /\ standby.left > 0 /\ wire # <<>>
          /\ standby' = [standby EXCEPT !.left = @ - 1, !.tail = Append(@, Head(wire))]
          /\ wire' = Tail(wire) /\ head' = head /\ requests' = requests
          /\ applied' = applied
      BY <1>7 DEF ReadFrame
    <2> DEFINE b == Base(standby.snapshot)
               t == standby.tail
    <2>2. /\ Len(wire) = standby.left /\ NotBelow(standby.snapshot)
          /\ \A k \in 1..Len(t) : t[k] = b + k
          /\ \A k \in 1..Len(wire) : wire[k] = b + Len(t) + k
      BY <1>0, <2>1 DEF ResponseInv
    <2>3. /\ Head(wire) = wire[1] /\ wire' \in Seq(Nat) /\ Len(wire') = Len(wire) - 1
          /\ \A k \in 1..Len(wire') : wire'[k] = wire[k + 1] /\ k + 1 \in 1..Len(wire)
          /\ Len(wire) \in Nat /\ 1 \in 1..Len(wire) /\ Head(wire) \in Nat
      BY <1>0, <2>1, TailSeq
    <2>4. /\ standby'.phase = "tail" /\ standby'.snapshot = standby.snapshot
          /\ standby'.tail = Append(t, Head(wire)) /\ standby'.left = standby.left - 1
      BY <1>0, <2>1
    <2>5. /\ t \in Seq(Nat) /\ Len(t) \in Nat /\ standby'.tail \in Seq(Nat)
          /\ Len(standby'.tail) = Len(t) + 1
          /\ standby'.tail[Len(t) + 1] = Head(wire)
          /\ \A k \in 1..Len(t) : standby'.tail[k] = t[k]
      BY <1>0, <2>3, <2>4
    <2>6. b \in Nat
      BY <1>0, <2>2 DEF NotBelow, Base
    <2>7. Base(standby.snapshot)' = b
      BY <2>1, <2>4 DEF Base
    <2>8. ResponseInv'
      <3> HIDE DEF b, t
      <3>1. \A k \in 1..Len(standby'.tail) : standby'.tail[k] = b + k
        <4> SUFFICES ASSUME NEW k \in 1..Len(standby'.tail)
                     PROVE  standby'.tail[k] = b + k
          OBVIOUS
        <4>1. CASE k \in 1..Len(t)
          BY <2>2, <2>5, <4>1
        <4>2. CASE k = Len(t) + 1
          BY <2>2, <2>3, <2>5, <2>6, <4>2
        <4> QED
          BY <2>5, <4>1, <4>2
      <3>2. \A k \in 1..Len(wire') : wire'[k] = b + Len(standby'.tail) + k
        BY <2>2, <2>3, <2>5, <2>6
      <3>3. NotBelow(standby.snapshot)'
        BY <2>1, <2>2, <2>4 DEF NotBelow, Base
      <3> QED
        BY <2>2, <2>3, <2>4, <2>7, <3>1, <3>2, <3>3 DEF ResponseInv
    <2>9. LiveInv'
      BY <1>0, <2>1 DEF LiveInv
    <2>10. standby' \in [phase : {"idle", "snapshot", "count", "tail"},
                         server : SUBSET Survivors, snapshot : Nat, left : Nat,
                         tail : Seq(Nat)]
      <3>1. standby.left - 1 \in Nat /\ Append(t, Head(wire)) \in Seq(Nat)
        BY <1>0, <2>1, <2>4, <2>5
      <3> QED
        BY <1>0, <2>1, <3>1
    <2> QED
      BY <1>0, <2>1, <2>3, <2>4, <2>8, <2>9, <2>10 DEF TransferInv
  <1>8. CASE Complete
    <2>1. /\ standby.phase = "tail" /\ standby.left = 0
          /\ applied' = Installed(standby.snapshot) \o standby.tail
          /\ standby' = Idle /\ head' = head /\ requests' = requests /\ wire' = wire
      BY <1>8 DEF Complete
    <2> DEFINE b == Base(standby.snapshot)
               t == standby.tail
               u == Installed(standby.snapshot)
    <2>2. /\ Len(wire) = 0 /\ NotBelow(standby.snapshot)
          /\ \A k \in 1..Len(t) : t[k] = b + k
      BY <1>0, <2>1 DEF ResponseInv
    <2>3. b \in Nat /\ u \in Seq(Nat) /\ Len(u) = b /\ \A k \in 1..Len(u) : u[k] = k
      BY <1>0, InstalledRun
    <2>4. t \in Seq(Nat)
      BY <1>0
    <2>5. /\ applied' \in Seq(Nat) /\ Len(applied') = b + Len(t)
          /\ \A k \in 1..Len(applied') : applied'[k] = k
      <3>1. applied' = u \o t
        BY <2>1
      <3> HIDE DEF b, t, u
      <3>2. \A k \in 1..Len(t) : t[k] = Len(u) + k
        BY <2>2, <2>3
      <3> QED
        BY <2>3, <2>4, <3>1, <3>2, ConcatRuns
    <2>6. wire = <<>>
      BY <1>0, <2>2
    <2>7. LiveInv'
      BY <1>0, <2>1 DEF LiveInv
    <2>8. ResponseInv'
      BY <2>1, <2>6 DEF ResponseInv, Idle
    <2>9. /\ standby' \in [phase : {"idle", "snapshot", "count", "tail"},
                           server : SUBSET Survivors, snapshot : Nat, left : Nat,
                           tail : Seq(Nat)]
          /\ standby'.phase # "tail" => standby'.tail = <<>>
      BY <2>1 DEF Idle
    <2> QED
      BY <1>0, <2>1, <2>5, <2>7, <2>8, <2>9 DEF TransferInv
  <1>9. ASSUME NEW s \in Survivors, Request(s)
        PROVE  TransferInv'
    <2>1. /\ standby.phase = "idle"
          /\ standby' = [Idle EXCEPT !.phase = "snapshot", !.server = {s}]
          /\ requests' = [requests EXCEPT ![s] =
                             Append(@, [have |-> Len(applied), live |-> TRUE])]
          /\ head' = head /\ wire' = wire /\ applied' = applied
      BY <1>9 DEF Request, NewRequest, Have
    <2>2. wire = <<>> /\ \A t \in Survivors : \A j \in 1..Len(requests[t]) : ~requests[t][j].live
      BY <1>0, <2>1 DEF LiveInv, ResponseInv
    <2> DEFINE r == requests[s]
               x == [have |-> Len(applied), live |-> TRUE]
    <2>3. /\ requests' \in [Survivors -> Seq([have : Nat, live : BOOLEAN])]
          /\ requests'[s] = Append(r, x) /\ r \in Seq([have : Nat, live : BOOLEAN])
          /\ \A t \in Survivors : t # s => requests'[t] = requests[t]
      <3>1. x \in [have : Nat, live : BOOLEAN]
        BY <1>0
      <3> HIDE DEF x
      <3>2. Append(r, x) \in Seq([have : Nat, live : BOOLEAN])
        BY <1>0, <3>1
      <3> QED
        BY <1>0, <2>1, <3>2 DEF x
    <2>4. /\ Len(requests'[s]) = Len(r) + 1 /\ Len(r) \in Nat
          /\ requests'[s][Len(r) + 1] = x
          /\ \A i \in 1..Len(r) : requests'[s][i] = r[i]
      BY <2>3
    <2>5. ASSUME NEW t \in Survivors, NEW j \in 1..Len(requests'[t]), requests'[t][j].live
          PROVE  t = s /\ j = Len(r) + 1
      <3>1. t = s
        BY <2>2, <2>3, <2>5
      <3>2. j \notin 1..Len(r)
        BY <2>2, <2>4, <2>5, <3>1
      <3> QED
        BY <2>4, <3>1, <3>2
    <2>6. standby'.phase = "snapshot" /\ standby'.tail = <<>>
      BY <2>1 DEF Idle
    <2>7. LiveInv'
      BY <2>1, <2>2, <2>4, <2>5, <2>6 DEF LiveInv
    <2>8. ResponseInv'
      BY <2>1, <2>2, <2>6 DEF ResponseInv
    <2>9. standby' \in [phase : {"idle", "snapshot", "count", "tail"},
                        server : SUBSET Survivors, snapshot : Nat, left : Nat,
                        tail : Seq(Nat)]
      <3>1. standby' = [phase |-> "snapshot", server |-> {s}, snapshot |-> 0, left |-> 0,
                        tail |-> <<>>]
        BY <2>1 DEF Idle
      <3>2. {s} \in SUBSET Survivors /\ <<>> \in Seq(Nat)
        OBVIOUS
      <3> QED
        BY <3>1, <3>2
    <2> QED
      BY <1>0, <2>1, <2>3, <2>6, <2>7, <2>8, <2>9 DEF TransferInv
  <1>10. ASSUME NEW s \in Survivors, Serve(s)
         PROVE  TransferInv'
    <2> DEFINE r == requests[s]
    <2>1. /\ r # <<>>
          /\ requests' = [requests EXCEPT ![s] = Tail(@)]
          /\ head' = head /\ standby' = standby /\ applied' = applied
      BY <1>10 DEF Serve
    <2>2. PICK t \in Transfers(s, Head(r).have) :
                wire' = IF Head(r).live THEN Response(t) ELSE wire
      BY <1>10 DEF Serve
    <2>3. /\ Head(r) = r[1] /\ Head(r) \in [have : Nat, live : BOOLEAN]
          /\ Tail(r) \in Seq([have : Nat, live : BOOLEAN])
          /\ Len(r) \in Nat /\ Len(r) >= 1
          /\ \A k \in 1..Len(Tail(r)) : Tail(r)[k] = r[k + 1] /\ k + 1 \in 1..Len(r)
          /\ Len(Tail(r)) = Len(r) - 1
      BY <1>0, <2>1, TailSeq
    <2>4. /\ requests' \in [Survivors -> Seq([have : Nat, live : BOOLEAN])]
          /\ requests'[s] = Tail(r)
          /\ \A q \in Survivors : q # s => requests'[q] = requests[q]
      BY <1>0, <2>1, <2>3
    <2>5. ASSUME NEW q \in Survivors, NEW j \in 1..Len(requests'[q]), requests'[q][j].live
          PROVE  /\ ~r[1].live
                 /\ standby.phase = "snapshot" /\ wire = <<>>
                 /\ requests'[q][j].have = Len(applied)
                 /\ \A c \in Survivors : \A i \in 1..Len(requests'[c]) :
                       requests'[c][i].live => c = q /\ i = j
      <3>1. PICK d \in 1..Len(requests[q]) :
                  /\ requests'[q][j] = requests[q][d]
                  /\ q = s => d = j + 1
                  /\ q # s => d = j
        BY <2>3, <2>4, <2>5
      <3>2. /\ standby.phase = "snapshot" /\ wire = <<>>
            /\ requests[q][d].have = Len(applied)
            /\ \A c \in Survivors : \A i \in 1..Len(requests[c]) :
                   requests[c][i].live => c = q /\ i = d
        BY <1>0, <2>5, <3>1 DEF LiveInv
      <3>3. ~r[1].live
        <4> SUFFICES ASSUME r[1].live PROVE FALSE
          OBVIOUS
        <4>1. 1 \in 1..Len(requests[s]) /\ requests[s][1].live
          BY <2>3
        <4>2. s = q /\ 1 = d
          BY <3>2, <4>1
        <4>3. d = j + 1 /\ j >= 1
          BY <2>3, <2>4, <3>1, <4>2
        <4> QED
          BY <4>2, <4>3
      <3>4. ASSUME NEW c \in Survivors, NEW i \in 1..Len(requests'[c]), requests'[c][i].live
            PROVE  c = q /\ i = j
        <4>1. CASE c = s
          <5>1. i + 1 \in 1..Len(requests[c]) /\ requests[c][i + 1].live
            BY <2>3, <2>4, <3>4, <4>1
          <5> QED
            BY <2>3, <2>4, <3>1, <3>2, <4>1, <5>1
        <4>2. CASE c # s
          BY <2>4, <3>1, <3>2, <3>4, <4>2
        <4> QED
          BY <4>1, <4>2
      <3> QED
        BY <3>1, <3>2, <3>3, <3>4
    <2>6. CASE ~r[1].live
      <3>1. wire' = wire
        BY <2>2, <2>3, <2>6
      <3>2. LiveInv'
        <4> SUFFICES ASSUME NEW q \in Survivors, NEW j \in 1..Len(requests'[q]),
                            requests'[q][j].live
                     PROVE  /\ standby'.phase = "snapshot" /\ wire' = <<>>
                            /\ requests'[q][j].have = Len(applied')
                            /\ \A c \in Survivors : \A i \in 1..Len(requests'[c]) :
                                  requests'[c][i].live => c = q /\ i = j
          BY DEF LiveInv
        <4> QED
          BY <2>1, <2>5, <3>1
      <3>3. ResponseInv'
        BY <1>0, <2>1, <3>1 DEF ResponseInv, NotBelow, Base
      <3> QED
        BY <1>0, <2>1, <2>4, <3>1, <3>2, <3>3 DEF TransferInv
    <2>7. CASE r[1].live
      <3>1. /\ standby.phase = "snapshot" /\ r[1].have = Len(applied)
        BY <1>0, <2>3, <2>7 DEF LiveInv
      <3>2. wire' = Response(t)
        BY <2>2, <2>3, <2>7
      <3>3. /\ wire' \in Seq(Nat) /\ Len(wire') >= 2 /\ wire'[2] = Len(wire') - 2
            /\ wire'[1] \in Nat /\ (wire'[1] = 0 \/ wire'[1] >= Len(applied))
            /\ \A k \in 3..Len(wire') :
                  wire'[k] = (IF wire'[1] = 0 THEN Len(applied) ELSE wire'[1]) + k - 2
        <4>1. PICK have \in Nat : have = Len(applied)
          BY <1>0
        <4>2. t \in Transfers(s, have)
          BY <2>3, <3>1, <4>1
        <4>3. Continues(Response(t), have)
          BY <1>0, <4>2, TransferContinues
        <4> QED
          BY <3>2, <4>1, <4>3 DEF Continues
      <3>4. LiveInv'
        <4> SUFFICES ASSUME NEW q \in Survivors, NEW j \in 1..Len(requests'[q]),
                            requests'[q][j].live
                     PROVE  FALSE
          BY DEF LiveInv
        <4> QED
          BY <2>5, <2>7
      <3>5. ResponseInv'
        <4>1. Base(wire[1])' = IF wire'[1] = 0 THEN Len(applied) ELSE wire'[1]
          BY <2>1 DEF Base
        <4>2. NotBelow(wire[1])'
          BY <1>0, <2>1, <3>3, <4>1 DEF NotBelow
        <4>3. standby'.phase = "snapshot"
          BY <2>1, <3>1
        <4>4. \A k \in 3..Len(wire') : wire'[k] = Base(wire[1])' + k - 2
          BY <3>3, <4>1
        <4> QED
          BY <3>3, <4>2, <4>3, <4>4 DEF ResponseInv
      <3> QED
        BY <1>0, <2>1, <2>4, <3>3, <3>4, <3>5 DEF TransferInv
    <2> QED
      BY <2>6, <2>7
  <1>11. CASE UNCHANGED vars
    BY <1>0, <1>11, QuietKeeps DEF vars
  <1> QED
    BY <1>1, <1>2, <1>3, <1>4, <1>5, <1>6, <1>7, <1>8, <1>9, <1>10, <1>11 DEF Next, Read

-----------------------------------------------------------------------------
\* Whatever breaks, a response continues what the standby had when it asked.
THEOREM TransferInvariant == Spec => []TransferInv
  BY InitTransfer, StepTransfer, PTL DEF Spec

\* The standby's state is a prefix of the common history: fetch_state never
\* hands its application a gap, a repeated effect or one out of order.
THEOREM AppliedPrefix == Spec => []AppliedIsPrefix
  <1>1. TransferInv => AppliedIsPrefix
    <2> SUFFICES ASSUME TransferInv PROVE applied = Effects(1, Len(applied))
      BY DEF AppliedIsPrefix
    <2>1. /\ applied \in Seq(Nat) /\ Len(applied) \in Nat
          /\ \A k \in 1..Len(applied) : applied[k] = k
      BY DEF TransferInv
    <2>2. applied = [k \in 1..Len(applied) |-> applied[k]]
      BY <2>1
    <2>3. Effects(1, Len(applied)) = [k \in 1..Len(applied) |-> k]
      BY <2>1 DEF Effects
    <2> QED
      BY <2>1, <2>2, <2>3
  <1> QED
    BY <1>1, TransferInvariant, PTL

\* No poll takes effects away, not even one answered by a survivor that lags
\* behind the standby, or with a snapshot.
THEOREM TransferNeverBack == Spec => NeverBack
  <1>1. ASSUME TransferInv, [Next]_vars
        PROVE  [Len(applied') >= Len(applied)]_vars
    <2>0. applied \in Seq(Nat) /\ Len(applied) \in Nat
      BY <1>1 DEF TransferInv
    <2>1. CASE Complete
      <3> DEFINE t == standby.tail
                 u == Installed(standby.snapshot)
      <3>1. NotBelow(standby.snapshot) /\ t \in Seq(Nat)
        BY <1>1, <2>1 DEF Complete, TransferInv, ResponseInv
      <3>2. u \in Seq(Nat) /\ Len(u) = Base(standby.snapshot)
        BY <1>1, InstalledRun
      <3>3. applied' = u \o t
        BY <2>1 DEF Complete
      <3>4. Len(u) >= Len(applied) /\ Len(u) \in Nat /\ Len(t) \in Nat
        BY <3>1, <3>2 DEF NotBelow
      <3> HIDE DEF t, u
      <3>5. Len(applied') = Len(u) + Len(t)
        BY <3>1, <3>2, <3>3, ConcatLength
      <3> QED
        BY <2>0, <3>4, <3>5
    <2>2. CASE applied' = applied
      BY <2>0, <2>2
    <2>3. Next => Complete \/ applied' = applied
      BY DEF Next, Read, Reset, Deliver, Serve, Request, Crash, ReadSnapshot, ReadCount,
             ReadFrame
    <2> QED
      BY <1>1, <2>1, <2>2, <2>3
  <1> QED
    BY <1>1, TransferInvariant, PTL DEF Spec, NeverBack
=============================================================================
