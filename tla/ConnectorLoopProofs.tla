------------------------ MODULE ConnectorLoopProofs -------------------------
(***************************************************************************)
(* Proofs about connector_loop: for any number of addresses, messages,     *)
(* resets and deaths, messages are written in the order they were taken    *)
(* and none is forgotten on a retry path.                                  *)
(***************************************************************************)
EXTENDS ConnectorLoop, TLAPS

\* What writing message m to address a adds to got: what was written stays, m is
\* written, and the order holds if nothing newer was written before.
LEMMA AppendGot ==
    ASSUME NEW G \in [Addr -> Seq(Nat)], NEW a \in Addr, NEW m \in Nat,
           NEW H, H = [G EXCEPT ![a] = Append(@, m)]
    PROVE  /\ H \in [Addr -> Seq(Nat)]
           /\ Len(H[a]) = Len(G[a]) + 1 /\ Len(G[a]) \in Nat
           /\ H[a][Len(G[a]) + 1] = m
           /\ \A i \in 1..Len(G[a]) : H[a][i] = G[a][i] /\ G[a][i] \in Nat
           /\ \A b \in Addr : b # a => H[b] = G[b]
  OBVIOUS

\* Writing m keeps the logs ordered and bounded when nothing newer was written.
LEMMA AppendOrdered ==
    ASSUME NEW G \in [Addr -> Seq(Nat)], NEW a \in Addr, NEW m \in Nat,
           \A b \in Addr : \A i \in 1..Len(G[b]) : G[b][i] <= m,
           \A b \in Addr : \A i, j \in 1..Len(G[b]) : i < j => G[b][i] <= G[b][j],
           NEW H, H = [G EXCEPT ![a] = Append(@, m)]
    PROVE  /\ \A b \in Addr : \A i \in 1..Len(H[b]) : H[b][i] <= m
           /\ \A b \in Addr : \A i, j \in 1..Len(H[b]) : i < j => H[b][i] <= H[b][j]
  <1>1. /\ H \in [Addr -> Seq(Nat)]
        /\ Len(H[a]) = Len(G[a]) + 1 /\ Len(G[a]) \in Nat
        /\ H[a][Len(G[a]) + 1] = m
        /\ \A i \in 1..Len(G[a]) : H[a][i] = G[a][i] /\ G[a][i] \in Nat
        /\ \A b \in Addr : b # a => H[b] = G[b]
    BY AppendGot
  <1>2. \A i \in 1..Len(H[a]) : i \in 1..Len(G[a]) \/ i = Len(G[a]) + 1
    BY <1>1
  <1>3. \A i \in 1..Len(H[a]) : H[a][i] <= m
    BY <1>1, <1>2
  <1>4. \A i, j \in 1..Len(H[a]) : i < j => H[a][i] <= H[a][j]
    <2> SUFFICES ASSUME NEW i \in 1..Len(H[a]), NEW j \in 1..Len(H[a]), i < j
                 PROVE  H[a][i] <= H[a][j]
      OBVIOUS
    <2>1. i \in 1..Len(G[a])
      BY <1>1, <1>2
    <2>2. CASE j \in 1..Len(G[a])
      BY <1>1, <2>1, <2>2
    <2>3. CASE j = Len(G[a]) + 1
      BY <1>1, <2>1, <2>3
    <2> QED
      BY <1>2, <2>2, <2>3
  <1> QED
    BY <1>1, <1>3, <1>4

\* Everything written before is still there, and so is m.
LEMMA AppendKeeps ==
    ASSUME NEW G \in [Addr -> Seq(Nat)], NEW a \in Addr, NEW m \in Nat,
           NEW H, H = [G EXCEPT ![a] = Append(@, m)]
    PROVE  /\ \A k : (\E b \in Addr : \E i \in 1..Len(G[b]) : G[b][i] = k)
                        => \E b \in Addr : \E i \in 1..Len(H[b]) : H[b][i] = k
           /\ \E b \in Addr : \E i \in 1..Len(H[b]) : H[b][i] = m
  <1>1. /\ Len(H[a]) = Len(G[a]) + 1 /\ Len(G[a]) \in Nat
        /\ H[a][Len(G[a]) + 1] = m
        /\ \A i \in 1..Len(G[a]) : H[a][i] = G[a][i] /\ G[a][i] \in Nat
        /\ \A b \in Addr : b # a => H[b] = G[b]
    BY AppendGot
  <1>2. ASSUME NEW k, NEW b \in Addr, NEW i \in 1..Len(G[b]), G[b][i] = k
        PROVE  \E c \in Addr : \E j \in 1..Len(H[c]) : H[c][j] = k
    <2>1. i \in 1..Len(H[b]) /\ H[b][i] = k
      BY <1>1, <1>2
    <2> QED
      BY <2>1
  <1>3. Len(G[a]) + 1 \in 1..Len(H[a])
    BY <1>1
  <1> QED
    BY <1>1, <1>2, <1>3

-----------------------------------------------------------------------------
\* A connector that has taken nothing.
LEMMA InitConnector == Init => ConnectorInv
  <1> SUFFICES ASSUME Init PROVE ConnectorInv
    OBVIOUS
  <1> USE ConnectorAssumption DEF Init, None
  <1>1. got \in [Addr -> Seq(Nat)] /\ \A a \in Addr : Len(got[a]) = 0
    OBVIOUS
  <1>2. WrittenInOrder
    BY <1>1 DEF WrittenInOrder
  <1>3. NothingDropped
    BY DEF NothingDropped
  <1>4. force \in BOOLEAN
    OBVIOUS
  <1>5. \A a \in Addr : \A i \in 1..Len(got[a]) : got[a][i] <= taken
    BY <1>1
  <1>6. /\ taken \in Nat /\ msg \in Nat /\ pending = None
        /\ addr \in Addr /\ want \in Addr /\ vanished \in SUBSET Nat
    OBVIOUS
  <1> QED
    BY <1>1, <1>2, <1>3, <1>4, <1>5, <1>6 DEF ConnectorInv

\* Writing the held message m = taken' succeeds or fails: the logs stay
\* ordered and m is accounted for, whatever the connection does.
LEMMA WrittenKeeps ==
    ASSUME ConnectorInv, NEW m \in Nat, m = taken', taken' \in {taken, taken + 1},
           Written(m) \/ WriteFailed(m)
    PROVE  /\ got' \in [Addr -> Seq(Nat)] /\ vanished' \in SUBSET Nat
           /\ \A b \in Addr : \A i \in 1..Len(got'[b]) : got'[b][i] <= taken'
           /\ WrittenInOrder'
           /\ vanished \subseteq vanished'
           /\ \A k : (\E b \in Addr : \E i \in 1..Len(got[b]) : got[b][i] = k)
                        => \E b \in Addr : \E i \in 1..Len(got'[b]) : got'[b][i] = k
           /\ Written(m) => \/ m \in vanished'
                            \/ \E b \in Addr : \E i \in 1..Len(got'[b]) : got'[b][i] = m
  <1>0. /\ taken \in Nat /\ addr \in Addr /\ got \in [Addr -> Seq(Nat)]
        /\ vanished \in SUBSET Nat
        /\ \A a \in Addr : \A i \in 1..Len(got[a]) : got[a][i] <= taken /\ got[a][i] \in Nat
        /\ \A b \in Addr : \A i, j \in 1..Len(got[b]) : i < j => got[b][i] <= got[b][j]
    BY DEF ConnectorInv, WrittenInOrder
  <1>1. \A a \in Addr : \A i \in 1..Len(got[a]) : got[a][i] <= m
    BY <1>0
  <1>2. CASE got' = [got EXCEPT ![addr] = Append(@, m)]
    <2>1. got' \in [Addr -> Seq(Nat)]
      BY <1>0, <1>2, AppendGot
    <2>2. /\ \A b \in Addr : \A i \in 1..Len(got'[b]) : got'[b][i] <= m
          /\ \A b \in Addr : \A i, j \in 1..Len(got'[b]) : i < j => got'[b][i] <= got'[b][j]
      BY <1>0, <1>1, <1>2, AppendOrdered
    <2>3. /\ \A k : (\E b \in Addr : \E i \in 1..Len(got[b]) : got[b][i] = k)
                        => \E b \in Addr : \E i \in 1..Len(got'[b]) : got'[b][i] = k
          /\ \E b \in Addr : \E i \in 1..Len(got'[b]) : got'[b][i] = m
      BY <1>0, <1>2, AppendKeeps
    <2>4. vanished' = vanished \/ vanished' = vanished \cup {m}
      BY DEF Written, WriteFailed
    <2>5. WrittenInOrder'
      BY <2>2 DEF WrittenInOrder
    <2> QED
      BY <1>0, <2>1, <2>2, <2>3, <2>4, <2>5
  <1>3. CASE got' = got
    <2>1. WrittenInOrder'
      BY <1>3 DEF WrittenInOrder, ConnectorInv
    <2>2. \A b \in Addr : \A i \in 1..Len(got'[b]) : got'[b][i] <= taken'
      BY <1>1, <1>3
    <2>3. CASE Written(m) /\ conn # "open"
      <3>1. vanished' = vanished \cup {m}
        BY <2>3 DEF Written
      <3> QED
        BY <1>0, <1>3, <2>1, <2>2, <3>1
    <2>4. CASE Written(m) /\ conn = "open"
      <3>1. got' = [got EXCEPT ![addr] = Append(@, m)]
        BY <2>4 DEF Written
      <3> QED
        BY <1>2, <3>1
    <2>5. CASE ~Written(m)
      <3>1. vanished' = vanished
        BY <2>5 DEF WriteFailed
      <3> QED
        BY <1>0, <1>3, <2>1, <2>2, <2>5, <3>1
    <2> QED
      BY <2>3, <2>4, <2>5
  <1> QED
    BY <1>2, <1>3 DEF Written, WriteFailed

\* So a write, successful or not, keeps what ConnectorInv says of the logs: it
\* writes the only message held, that of the attempt or the next of wire_rx.
LEMMA WriteAccounts ==
    ASSUME ConnectorInv, NEW m \in Nat, m = taken',
           \/ phase = "write" /\ m = msg /\ taken' = taken
           \/ phase = "stream" /\ taken' = taken + 1,
           Written(m) \/ WriteFailed(m)
    PROVE  /\ got' \in [Addr -> Seq(Nat)] /\ vanished' \in SUBSET Nat
           /\ \A b \in Addr : \A i \in 1..Len(got'[b]) : got'[b][i] <= taken'
           /\ WrittenInOrder'
           /\ NothingDropped'
  <1>0. taken \in Nat /\ pending = None
    BY DEF ConnectorInv
  <1>1. /\ got' \in [Addr -> Seq(Nat)] /\ vanished' \in SUBSET Nat
        /\ \A b \in Addr : \A i \in 1..Len(got'[b]) : got'[b][i] <= taken'
        /\ WrittenInOrder'
        /\ vanished \subseteq vanished'
        /\ \A k : (\E b \in Addr : \E i \in 1..Len(got[b]) : got[b][i] = k)
                     => \E b \in Addr : \E i \in 1..Len(got'[b]) : got'[b][i] = k
        /\ Written(m) => \/ m \in vanished'
                         \/ \E b \in Addr : \E i \in 1..Len(got'[b]) : got'[b][i] = m
    BY <1>0, WrittenKeeps
  <1>2. WriteFailed(m) => m = pending'
    BY DEF WriteFailed
  <1>3. ASSUME NEW k \in 1..taken', k # m
        PROVE  \/ k \in vanished'
               \/ \E b \in Addr : \E i \in 1..Len(got'[b]) : got'[b][i] = k
    <2>1. k \in 1..taken /\ k # pending
      BY <1>0, <1>3 DEF None
    <2>2. ~(k = msg /\ phase \in {"connect", "handshake", "write"})
      BY <1>3
    <2> QED
      BY <1>1, <2>1, <2>2 DEF NothingDropped, ConnectorInv
  <1>4. NothingDropped'
    BY <1>1, <1>2, <1>3 DEF NothingDropped
  <1> QED
    BY <1>1, <1>4

-----------------------------------------------------------------------------
\* A step that takes nothing from wire_rx and writes nothing keeps the logs.
LEMMA SameLogs ==
    ASSUME ConnectorInv, got' = got, vanished' = vanished, taken' \in {taken, taken + 1}
    PROVE  /\ got' \in [Addr -> Seq(Nat)] /\ vanished' \in SUBSET Nat /\ taken' \in Nat
           /\ \A a \in Addr : \A i \in 1..Len(got'[a]) : got'[a][i] <= taken'
           /\ WrittenInOrder'
  <1>1. /\ taken \in Nat /\ got \in [Addr -> Seq(Nat)]
        /\ \A a \in Addr : \A i \in 1..Len(got[a]) : got[a][i] <= taken /\ got[a][i] \in Nat
    BY DEF ConnectorInv
  <1>2. WrittenInOrder'
    BY DEF ConnectorInv, WrittenInOrder
  <1> QED
    BY <1>1, <1>2 DEF ConnectorInv

\* The state of the loop: what ConnectorInv says apart from the logs.
LoopInv ==
    /\ phase \in {"acquire", "connect", "handshake", "write", "stream", "backoff"}
    /\ msg \in Nat /\ pending \in {None, taken} /\ force \in BOOLEAN
    /\ addr \in Addr /\ want \in Addr
    /\ pending # None => phase \in {"acquire", "backoff"} /\ ~force
    /\ phase \in {"connect", "handshake", "write"} => msg \in {None, taken}
    /\ phase \in {"connect", "handshake", "write", "stream"} => ~force

\* Every step of the task, the network and the peers preserves ConnectorInv.
LEMMA StepConnector == ConnectorInv /\ [Next]_vars => ConnectorInv'
  <1> SUFFICES ASSUME ConnectorInv, [Next]_vars PROVE ConnectorInv'
    OBVIOUS
  <1> USE DEF None, Goto
  <1>0. LoopInv /\ taken \in Nat
    BY DEF ConnectorInv, LoopInv
  <1>1. CASE Probe
    <2>1. got' = got /\ vanished' = vanished /\ taken' \in {taken, taken + 1}
      BY <1>1 DEF Probe
    <2>2. NothingDropped'
      BY <1>1, <2>1 DEF Probe, NothingDropped, ConnectorInv
    <2>3. LoopInv'
      BY <1>0, <1>1 DEF Probe, LoopInv, env
    <2> QED
      BY <2>1, <2>2, <2>3, SameLogs DEF ConnectorInv, LoopInv
  <1>2. CASE TakeRetained
    <2>1. got' = got /\ vanished' = vanished /\ taken' \in {taken, taken + 1}
      BY <1>2 DEF TakeRetained
    <2>2. NothingDropped'
      BY <1>2, <2>1 DEF TakeRetained, NothingDropped, ConnectorInv
    <2>3. LoopInv'
      BY <1>0, <1>2 DEF TakeRetained, LoopInv, env
    <2> QED
      BY <2>1, <2>2, <2>3, SameLogs DEF ConnectorInv, LoopInv
  <1>3. CASE TakeNext
    <2>1. got' = got /\ vanished' = vanished /\ taken' \in {taken, taken + 1}
      BY <1>3 DEF TakeNext
    <2>2. NothingDropped'
      BY <1>3, <2>1 DEF TakeNext, NothingDropped, ConnectorInv
    <2>3. LoopInv'
      BY <1>0, <1>3 DEF TakeNext, LoopInv, env
    <2> QED
      BY <2>1, <2>2, <2>3, SameLogs DEF ConnectorInv, LoopInv
  <1>4. CASE Retarget
    <2>1. got' = got /\ vanished' = vanished /\ taken' \in {taken, taken + 1}
      BY <1>4 DEF Retarget
    <2>2. NothingDropped'
      BY <1>4, <2>1 DEF Retarget, NothingDropped, ConnectorInv
    <2>3. LoopInv'
      BY <1>0, <1>4 DEF Retarget, LoopInv, env
    <2> QED
      BY <2>1, <2>2, <2>3, SameLogs DEF ConnectorInv, LoopInv
  <1>5. CASE ConnectOk
    <2>1. got' = got /\ vanished' = vanished /\ taken' \in {taken, taken + 1}
      BY <1>5 DEF ConnectOk
    <2>2. NothingDropped'
      BY <1>5, <2>1 DEF ConnectOk, NothingDropped, ConnectorInv
    <2>3. LoopInv'
      BY <1>0, <1>5 DEF ConnectOk, LoopInv, env
    <2> QED
      BY <2>1, <2>2, <2>3, SameLogs DEF ConnectorInv, LoopInv
  <1>6. CASE ConnectFail
    <2>1. got' = got /\ vanished' = vanished /\ taken' \in {taken, taken + 1}
      BY <1>6 DEF ConnectFail
    <2>2. NothingDropped'
      BY <1>6, <2>1 DEF ConnectFail, NothingDropped, ConnectorInv
    <2>3. LoopInv'
      BY <1>0, <1>6 DEF ConnectFail, LoopInv, env
    <2> QED
      BY <2>1, <2>2, <2>3, SameLogs DEF ConnectorInv, LoopInv
  <1>7. CASE Slept
    <2>1. got' = got /\ vanished' = vanished /\ taken' \in {taken, taken + 1}
      BY <1>7 DEF Slept
    <2>2. NothingDropped'
      BY <1>7, <2>1 DEF Slept, NothingDropped, ConnectorInv
    <2>3. LoopInv'
      BY <1>0, <1>7 DEF Slept, LoopInv, env
    <2> QED
      BY <2>1, <2>2, <2>3, SameLogs DEF ConnectorInv, LoopInv
  <1>8. CASE HandshakeOk
    <2>1. got' = got /\ vanished' = vanished /\ taken' \in {taken, taken + 1}
      BY <1>8 DEF HandshakeOk
    <2>2. NothingDropped'
      BY <1>8, <2>1 DEF HandshakeOk, NothingDropped, ConnectorInv
    <2>3. LoopInv'
      BY <1>0, <1>8 DEF HandshakeOk, LoopInv, env
    <2> QED
      BY <2>1, <2>2, <2>3, SameLogs DEF ConnectorInv, LoopInv
  <1>9. CASE HandshakeFail
    <2>1. got' = got /\ vanished' = vanished /\ taken' \in {taken, taken + 1}
      BY <1>9 DEF HandshakeFail
    <2>2. NothingDropped'
      BY <1>9, <2>1 DEF HandshakeFail, NothingDropped, ConnectorInv
    <2>3. LoopInv'
      BY <1>0, <1>9 DEF HandshakeFail, LoopInv, env
    <2> QED
      BY <2>1, <2>2, <2>3, SameLogs DEF ConnectorInv, LoopInv
  <1>10. CASE PeerClosed
    <2>1. got' = got /\ vanished' = vanished /\ taken' \in {taken, taken + 1}
      BY <1>10 DEF PeerClosed
    <2>2. NothingDropped'
      BY <1>10, <2>1 DEF PeerClosed, NothingDropped, ConnectorInv
    <2>3. LoopInv'
      BY <1>0, <1>10 DEF PeerClosed, LoopInv, env
    <2> QED
      BY <2>1, <2>2, <2>3, SameLogs DEF ConnectorInv, LoopInv
  <1>11. CASE WriteFirst /\ msg = None
    <2>1. got' = got /\ vanished' = vanished /\ taken' = taken
      BY <1>11 DEF WriteFirst
    <2>2. NothingDropped'
      BY <1>11, <2>1 DEF WriteFirst, NothingDropped, ConnectorInv
    <2>3. LoopInv'
      BY <1>0, <1>11 DEF WriteFirst, LoopInv, env
    <2> QED
      BY <2>1, <2>2, <2>3, SameLogs DEF ConnectorInv, LoopInv
  <1>12. CASE WriteFirst /\ msg # None
    <2>1. Written(msg) /\ taken' = taken /\ msg = taken' /\ msg \in Nat
      BY <1>0, <1>12 DEF WriteFirst, LoopInv
    <2>2. LoopInv'
      BY <1>0, <1>12, <2>1 DEF WriteFirst, LoopInv, env
    <2>3. phase = "write"
      BY <1>12 DEF WriteFirst
    <2> QED
      BY <1>0, <2>1, <2>2, <2>3, WriteAccounts DEF ConnectorInv, LoopInv
  <1>13. CASE WriteFirstFailed
    <2>1. WriteFailed(msg) /\ taken' = taken /\ msg = taken' /\ msg \in Nat
      BY <1>0, <1>13 DEF WriteFirstFailed, LoopInv
    <2>2. LoopInv'
      BY <1>0, <1>13, <2>1 DEF WriteFirstFailed, LoopInv, env, WriteFailed
    <2>3. phase = "write"
      BY <1>13 DEF WriteFirstFailed
    <2> QED
      BY <1>0, <2>1, <2>2, <2>3, WriteAccounts DEF ConnectorInv, LoopInv
  <1>14. CASE StreamNext
    <2>1. Written(taken + 1) /\ taken' = taken + 1 /\ taken + 1 = taken' /\ taken + 1 \in Nat
      BY <1>0, <1>14 DEF StreamNext, LoopInv
    <2>2. LoopInv'
      BY <1>0, <1>14, <2>1 DEF StreamNext, LoopInv, env
    <2>3. phase = "stream"
      BY <1>14 DEF StreamNext
    <2> QED
      BY <1>0, <2>1, <2>2, <2>3, WriteAccounts DEF ConnectorInv, LoopInv
  <1>15. CASE StreamFailed
    <2>1. WriteFailed(taken + 1) /\ taken' = taken + 1 /\ taken + 1 = taken' /\ taken + 1 \in Nat
      BY <1>0, <1>15 DEF StreamFailed, LoopInv
    <2>2. LoopInv'
      BY <1>0, <1>15, <2>1 DEF StreamFailed, LoopInv, env, WriteFailed
    <2>3. phase = "stream"
      BY <1>15 DEF StreamFailed
    <2> QED
      BY <1>0, <2>1, <2>2, <2>3, WriteAccounts DEF ConnectorInv, LoopInv
  <1>16. CASE Send
    <2>1. /\ got' = got /\ vanished' = vanished /\ UNCHANGED loop
          /\ want' \in Addr
      BY <1>0, <1>16 DEF Send, LoopInv
    <2>2. NothingDropped' /\ LoopInv'
      BY <1>0, <2>1 DEF NothingDropped, ConnectorInv, LoopInv, loop
    <2> QED
      BY <1>0, <2>1, <2>2, SameLogs DEF ConnectorInv, LoopInv, loop
  <1>17. CASE Reset
    <2>1. /\ got' = got /\ vanished' = vanished /\ UNCHANGED loop
          /\ want' \in Addr
      BY <1>0, <1>17 DEF Reset, LoopInv
    <2>2. NothingDropped' /\ LoopInv'
      BY <1>0, <2>1 DEF NothingDropped, ConnectorInv, LoopInv, loop
    <2> QED
      BY <1>0, <2>1, <2>2, SameLogs DEF ConnectorInv, LoopInv, loop
  <1>18. CASE \E a \in Addr : RetargetSuccessor(a)
    <2>1. /\ got' = got /\ vanished' = vanished /\ UNCHANGED loop
          /\ want' \in Addr
      BY <1>0, <1>18 DEF RetargetSuccessor, LoopInv
    <2>2. NothingDropped' /\ LoopInv'
      BY <1>0, <2>1 DEF NothingDropped, ConnectorInv, LoopInv, loop
    <2> QED
      BY <1>0, <2>1, <2>2, SameLogs DEF ConnectorInv, LoopInv, loop
  <1>19. CASE \E a \in Addr : Die(a)
    <2>1. /\ got' = got /\ vanished' = vanished /\ UNCHANGED loop
          /\ want' \in Addr
      BY <1>0, <1>19 DEF Die, LoopInv
    <2>2. NothingDropped' /\ LoopInv'
      BY <1>0, <2>1 DEF NothingDropped, ConnectorInv, LoopInv, loop
    <2> QED
      BY <1>0, <2>1, <2>2, SameLogs DEF ConnectorInv, LoopInv, loop
  <1>20. CASE UNCHANGED vars
    <2>1. /\ got' = got /\ vanished' = vanished /\ UNCHANGED loop
          /\ want' \in Addr
      BY <1>0, <1>20 DEF vars, env, LoopInv
    <2>2. NothingDropped' /\ LoopInv'
      BY <1>0, <2>1 DEF NothingDropped, ConnectorInv, LoopInv, loop
    <2> QED
      BY <1>0, <2>1, <2>2, SameLogs DEF ConnectorInv, LoopInv, loop
  <1> QED
    BY <1>1, <1>2, <1>3, <1>4, <1>5, <1>6, <1>7, <1>8, <1>9, <1>10, <1>11, <1>12, <1>13, <1>14, <1>15, <1>16, <1>17, <1>18, <1>19, <1>20
    DEF Next, Step

\* The held message is accounted for in every reachable state.
THEOREM ConnectorInvariant == Spec => []ConnectorInv
  BY InitConnector, StepConnector, PTL DEF Spec

\* Messages are written to a successor in the order of the outbox: through every
\* failed connect, handshake and write, reset and retarget, connector_loop writes
\* the retained message before a fresh one.
THEOREM OrderOnTheWire == Spec => []WrittenInOrder
  <1>1. ConnectorInv => WrittenInOrder
    BY DEF ConnectorInv
  <1> QED
    BY <1>1, ConnectorInvariant, PTL

\* No retry path of connector_loop forgets or overwrites the message it holds.
THEOREM RetainedNotLost == Spec => []NothingDropped
  <1>1. ConnectorInv => NothingDropped
    BY DEF ConnectorInv
  <1> QED
    BY <1>1, ConnectorInvariant, PTL
=============================================================================
