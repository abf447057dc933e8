------------------------ MODULE TrainsReconfigProofs ------------------------
(***************************************************************************)
(* Proofs about the reconfiguring ring, for any ring, any number of        *)
(* crashes, lost tokens and overlapping exclusions.                        *)
(*                                                                         *)
(* 1. No live process is excluded.  Nothing is needed of the cores:        *)
(*    exclusion depends on the detectors, the victims of the tokens and    *)
(*    the retargeted links only.                                           *)
(* 2. Recovery hands no key to an application twice and fences no clock    *)
(*    that its issuer has yet to use.  Each branch of the event loop is    *)
(*    Sound: it finishes new keys only, and the trains, reports and plans  *)
(*    it sends speak of issued clocks if those it got did.                 *)
(***************************************************************************)
EXTENDS TrainsReconfig, TrainsCoreProofs

(* next_alive and the links *)

\* next_alive names a process of the ring, whoever is dead.
LEMMA NextAliveIsProc == ASSUME NEW p \in Proc, NEW dead PROVE NextAlive(p, dead) \in Proc
  <1> DEFINE S == {k \in 1..RingSize : (p + k) % RingSize \notin dead \/ k = RingSize}
  <1>1. RingSize \in S /\ S \subseteq Nat
    BY RingAssumption
  <1>2. \E m \in S : \A k \in S : m <= k
    <2> HIDE DEF S
    <2> QED
      BY <1>1, LeastNat
  <1>3. Hop(p, dead) = Min(S)
    BY DEF Hop
  <1>4. Min(S) \in S
    <2> HIDE DEF S
    <2> QED
      BY <1>2 DEF Min
  <1>5. Hop(p, dead) \in Nat
    BY <1>1, <1>3, <1>4
  <1> QED
    BY <1>5, RingAssumption DEF NextAlive, Proc

\* The messages on the links are sequences over what they carry.
LEMMA CarriedType ==
    ASSUME NEW links, NEW T, links \in [Proc -> [Proc -> Seq(T)]]
    PROVE  /\ Carried(links) \subseteq T
           /\ links \in [Proc -> [Proc -> Seq(Carried(links))]]
  <1>1. ASSUME NEW p \in Proc, NEW q \in Proc
        PROVE  /\ ToSet(links[p][q]) \subseteq T
               /\ links[p][q] \in Seq(ToSet(links[p][q]))
               /\ ToSet(links[p][q]) \subseteq Carried(links)
    <2>1. links[p][q] \in Seq(T)
      OBVIOUS
    <2> DEFINE s == links[p][q]
    <2> HIDE DEF s
    <2>2. s \in Seq(T) /\ DOMAIN s = 1..Len(s) /\ Len(s) \in Nat /\ \A i \in 1..Len(s) : s[i] \in T
      BY <2>1 DEF s
    <2>3. ToSet(s) \subseteq T /\ \A i \in 1..Len(s) : s[i] \in ToSet(s)
      BY <2>2 DEF ToSet
    <2>4. s \in Seq(ToSet(s))
      BY <2>2, <2>3, SeqDef, ElementOfSeq
    <2> QED
      BY <2>3, <2>4 DEF Carried, s
  <1>2. Carried(links) \subseteq T
    BY <1>1 DEF Carried
  <1>3. ASSUME NEW p \in Proc, NEW q \in Proc
        PROVE  links[p][q] \in Seq(Carried(links))
    BY <1>1, <1>3
  <1> QED
    BY <1>2, <1>3

\* Cutting a sequence at i leaves sequences over the same set.
LEMMA CutSeq ==
    ASSUME NEW T, NEW s \in Seq(T), NEW i \in 0..Len(s)
    PROVE  SubSeq(s, 1, i) \in Seq(T) /\ SubSeq(s, i + 1, Len(s)) \in Seq(T)
  <1>1. Len(s) \in Nat /\ \A k \in 1..Len(s) : s[k] \in T
    OBVIOUS
  <1>2. SubSeq(s, 1, i) \in Seq(T)
    BY <1>1, SubSeqProperties
  <1>3. \A k \in (i + 1)..Len(s) : s[k] \in T
    BY <1>1
  <1>4. i + 1 \in Int /\ Len(s) \in Int
    BY <1>1
  <1>5. SubSeq(s, i + 1, Len(s)) \in Seq(T)
    BY <1>3, <1>4, SubSeqProperties
  <1> QED
    BY <1>2, <1>5

\* Writing and retargeting put nothing on the links but what was there and
\* what is sent.
LEMMA SentType ==
    ASSUME NEW links, NEW T, links \in [Proc -> [Proc -> Seq(T)]], NEW p \in Proc,
           NEW old \in Proc, NEW new \in Proc, NEW i \in 0..Len(links[p][old]),
           NEW msgs \in Seq(T)
    PROVE  Sent(links, p, old, new, i, msgs) \in [Proc -> [Proc -> Seq(T)]]
  <1>1. /\ links[p] \in [Proc -> Seq(T)]
        /\ links[p][old] \in Seq(T) /\ links[p][new] \in Seq(T)
    OBVIOUS
  <1>2. CASE old = new
    <2>1. links[p][new] \o msgs \in Seq(T)
      BY <1>1
    <2> QED
      BY <1>2, <2>1 DEF Sent
  <1>3. CASE old # new
    <2> DEFINE a == IF old \in up THEN SubSeq(links[p][old], 1, i) ELSE <<>>
               c == SubSeq(links[p][old], i + 1, Len(links[p][old]))
               b == links[p][new] \o c \o msgs
    <2>1. a \in Seq(T) /\ c \in Seq(T)
      <3>1. i \in 0..Len(links[p][old])
        OBVIOUS
      <3>2. SubSeq(links[p][old], 1, i) \in Seq(T) /\ c \in Seq(T)
        BY ONLY <1>1, <3>1, CutSeq
      <3> QED
        BY <3>2, EmptySeq
    <2>2. b \in Seq(T)
      <3> HIDE DEF c
      <3> QED
        BY <1>1, <2>1
    <2>3. Sent(links, p, old, new, i, msgs) = [links EXCEPT ![p][old] = a, ![p][new] = b]
      BY <1>3 DEF Sent
    <2> HIDE DEF a, b
    <2> DEFINE row == [links[p] EXCEPT ![old] = a, ![new] = b]
    <2>4. row \in [Proc -> Seq(T)]
      BY <1>1, <2>1, <2>2
    <2>5. Sent(links, p, old, new, i, msgs) = [links EXCEPT ![p] = row]
      BY <1>3, <2>3
    <2> HIDE DEF row
    <2> QED
      BY <2>4, <2>5
  <1> QED
    BY <1>2, <1>3

-----------------------------------------------------------------------------
(* The failure detector *)

Detector == [strikes : [Proc -> Nat], confirmed : SUBSET Proc]

FewStrikes(d) == d \in Detector /\ \A q \in Proc : d.strikes[q] <= 1

\* note_alive and then a hint: one strike, and nobody is confirmed.
LEMMA HintConfirmsNobody ==
    ASSUME NEW d, FewStrikes(d), NEW v \in Proc
    PROVE  LET a == NoteAlive(d, v)
               h == RecordGapHint(a, v)
           IN  FewStrikes(a) /\ FewStrikes(h) /\ ~NewlyConfirmed(a, h, v)
  <1> DEFINE a == NoteAlive(d, v)
             h == RecordGapHint(a, v)
  <1>1. CASE v \in d.confirmed
    BY <1>1 DEF NoteAlive, RecordGapHint, AddStrikes, NewlyConfirmed
  <1>2. CASE v \notin d.confirmed
    <2>0. d \in [strikes : [Proc -> Nat], confirmed : SUBSET Proc] /\ \A q \in Proc : d.strikes[q] <= 1
      BY DEF FewStrikes, Detector
    <2>1. /\ a = [d EXCEPT !.strikes[v] = 0] /\ a \in Detector /\ a.strikes[v] = 0
          /\ a.confirmed = d.confirmed
          /\ \A q \in Proc : a.strikes[q] <= 1
      BY <1>2, <2>0 DEF NoteAlive, Detector
    <2> HIDE DEF a
    <2>2. h = [a EXCEPT !.strikes[v] = @ + 1]
      BY <1>2, <2>1, DriverDetector, DetectorAssumption DEF RecordGapHint, AddStrikes
    <2> HIDE DEF h
    <2>3. /\ h.strikes = [a.strikes EXCEPT ![v] = a.strikes[v] + 1]
          /\ h.confirmed = a.confirmed
          /\ h = [strikes |-> h.strikes, confirmed |-> h.confirmed]
      BY <2>1, <2>2 DEF Detector
    <2>4. a.strikes \in [Proc -> Nat] /\ a.confirmed \in SUBSET Proc
      BY <2>1 DEF Detector
    <2>5. h.strikes \in [Proc -> Nat] /\ \A q \in Proc : h.strikes[q] <= 1
      BY <2>1, <2>3, <2>4
    <2>6. h \in Detector
      BY <2>3, <2>4, <2>5 DEF Detector
    <2> QED
      BY <2>1, <2>3, <2>5, <2>6 DEF FewStrikes, NewlyConfirmed, a, h
  <1> QED
    BY <1>1, <1>2

\* A disconnect confirms at once, so its strikes go.
LEMMA DisconnectClears ==
    ASSUME NEW d, FewStrikes(d), NEW v \in Proc
    PROVE  FewStrikes(RecordDisconnect(d, v))
  <1>1. CASE v \in d.confirmed
    BY <1>1 DEF RecordDisconnect, AddStrikes
  <1>2. CASE v \notin d.confirmed
    <2>1. d.strikes \in [Proc -> Nat] /\ d.confirmed \subseteq Proc
      BY DEF FewStrikes, Detector
    <2>2. d.strikes[v] + DisconnectWeight >= StrikeThreshold
      BY <2>1, DriverDetector, DetectorAssumption
    <2>3. RecordDisconnect(d, v) = [strikes   |-> [d.strikes EXCEPT ![v] = 0],
                                    confirmed |-> d.confirmed \cup {v}]
      BY <1>2, <2>2 DEF RecordDisconnect, AddStrikes
    <2> QED
      BY <2>1, <2>3 DEF FewStrikes, Detector
  <1> QED
    BY <1>1, <1>2

-----------------------------------------------------------------------------
(* What a branch of the event loop yields; U is the set of live processes. *)

View == [installed : Nat, dead : SUBSET Proc]

RingTrain(t) == "issuer" \in DOMAIN t /\ t.issuer \in Proc

ForCrashed(msg, U) ==
    /\ {"victim", "view"} \subseteq DOMAIN msg
    /\ msg.victim \in Proc \ U /\ msg.view \in Nat

OneTrain(f) == f = <<>> \/ \E x : RingTrain(x) /\ f = <<x>>
OneToken(s, U) == s = <<>> \/ \E x : ForCrashed(x, U) /\ s = <<x>>

\* The view change of a crashed victim is announced with its name.
LEMMA ConfirmKeeps ==
    ASSUME NEW p, NEW v \in View, NEW U, NEW victim \in Proc \ U, NEW report
    PROVE  LET r == OnConfirm(p, v, victim, report)
           IN  r.vc \in View /\ OneToken(r.send, U) /\ r.apply = <<>>
  <1> DEFINE w == [v EXCEPT !.dead = @ \cup {victim}]
             g == Gather(v.installed + 1, Coordinator(p, w), victim, {<<p, report>>})
             r == OnConfirm(p, v, victim, report)
  <1>1. CASE victim \in v.dead
    <2>1. r = [vc |-> v, apply |-> <<>>, send |-> <<>>]
      BY <1>1 DEF OnConfirm, NoAction, VcResult
    <2> QED
      BY <2>1 DEF OneToken
  <1>2. CASE victim \notin v.dead
    <2>1. r = [vc |-> w, apply |-> <<>>, send |-> <<g>>]
      BY <1>2 DEF OnConfirm, VcResult
    <2>2. w \in View
      BY DEF View
    <2>3. ForCrashed(g, U)
      BY DEF ForCrashed, Gather, View
    <2> HIDE DEF g, w
    <2> QED
      BY <2>1, <2>2, <2>3 DEF OneToken
  <1> QED
    BY <1>1, <1>2

\* A token that is passed on, and the Install that answers it, name the same
\* victim.
LEMMA GatherKeeps ==
    ASSUME NEW p, NEW v \in View, NEW U, NEW msg, ForCrashed(msg, U), NEW report
    PROVE  LET r == OnGather(p, v, msg, report)
           IN  r.vc \in View /\ OneToken(r.send, U)
  <1> DEFINE r    == OnGather(p, v, msg, report)
             w    == [v EXCEPT !.dead = @ \cup {msg.victim}]
             reps == IF \E x \in msg.reports : x[1] = p
                       THEN msg.reports ELSE msg.reports \cup {<<p, report>>}
             plan == ComputeRecoveryPlan({x[2] : x \in reps})
             i    == Install(msg.view, msg.coord, msg.victim, plan)
             g    == [msg EXCEPT !.reports = reps]
  <1>1. w \in View /\ [w EXCEPT !.installed = msg.view] \in View
    BY DEF View, ForCrashed
  <1>2. ForCrashed(i, U)
    BY DEF ForCrashed, Install
  <1>3. ForCrashed(g, U)
    <2> HIDE DEF reps
    <2> QED
      BY DEF ForCrashed
  <1>4. \/ r = [vc |-> v, apply |-> <<>>, send |-> <<>>]
        \/ r = [vc |-> [w EXCEPT !.installed = msg.view], apply |-> <<plan>>, send |-> <<i>>]
        \/ r = [vc |-> w, apply |-> <<>>, send |-> <<g>>]
    BY DEF OnGather, AnswerGather, NoAction, VcResult
  <1> HIDE DEF r, w, i, g, plan, reps
  <1>5. r.vc \in View /\ OneToken(r.send, U)
    BY <1>1, <1>2, <1>3, <1>4 DEF OneToken
  <1> QED
    BY <1>5 DEF r

\* on_install: the token it passes on is the one it got.
LEMMA InstallKeeps ==
    ASSUME NEW v \in View, NEW U, NEW msg, ForCrashed(msg, U)
    PROVE  LET r == OnInstall(v, msg)
           IN  r.vc \in View /\ OneToken(r.send, U)
  <1> DEFINE r == OnInstall(v, msg)
             w == [installed |-> msg.view, dead |-> v.dead \cup {msg.victim}]
  <1>1. w \in View
    BY DEF View, ForCrashed
  <1>2. \/ r = [vc |-> v, apply |-> <<>>, send |-> <<>>]
        \/ r = [vc |-> w, apply |-> <<msg.plan>>, send |-> <<msg>>]
    BY DEF OnInstall, NoAction, VcResult
  <1> HIDE DEF r, w
  <1>3. r.vc \in View /\ OneToken(r.send, U)
    BY <1>1, <1>2 DEF OneToken
  <1> QED
    BY <1>3 DEF r

\* exclude adds the victim to dead and changes nothing else that matters here.
LEMMA ExcludeKeeps ==
    ASSUME NEW p \in Proc, NEW n, NEW d \in Driver, NEW victim \in Proc
    PROVE  LET e == Exclude(p, n, d, victim).driver
           IN  /\ e \in Driver /\ e.dead = d.dead \cup {victim}
               /\ e.detector = d.detector /\ e.vc = d.vc
  <1> DEFINE dead == d.dead \cup {victim}
             e    == Exclude(p, n, d, victim).driver
             s    == NextAlive(p, dead)
  <1>1. s \in Proc
    BY NextAliveIsProc
  <1>2. CASE victim \in d.dead
    BY <1>2 DEF Exclude
  <1>3. CASE victim \notin d.dead
    <2>1. e = [d EXCEPT !.dead = dead, !.succ = s]
      BY <1>3 DEF Exclude, ExcludeNow
    <2> HIDE DEF e, s
    <2>2. /\ e \in Driver /\ e.dead = dead
          /\ e.detector = d.detector /\ e.vc = d.vc
      BY <1>1, <2>1 DEF Driver
    <2> QED
      BY <2>2 DEF e
  <1> QED
    BY <1>2, <1>3

\* execute keeps the driver but for its view, and sends a train of its own at most.
LEMMA ExecuteKeeps ==
    ASSUME NEW p \in Proc, NEW n, NEW d \in Driver, NEW r, r.vc \in View
    PROVE  LET o == Execute(p, n, d, r)
           IN  /\ o.driver \in Driver
               /\ o.driver.dead = d.dead /\ o.driver.detector = d.detector
               /\ OneTrain(o.forward) /\ o.send = r.send
  <1> DEFINE o == Execute(p, n, d, r)
             e == [d EXCEPT !.vc = r.vc]
  <1>1. e \in Driver /\ e.dead = d.dead /\ e.detector = d.detector
    BY DEF Driver, View
  <1>2. o.driver = e /\ o.send = r.send
    BY DEF Execute, Outcome
  <1>3. o.forward = <<>> \/ \E m : o.forward = <<NewTrain(p, m)>>
    BY DEF Execute, Outcome
  <1>4. \A m : RingTrain(NewTrain(p, m))
    BY DEF RingTrain, NewTrain
  <1>5. OneTrain(o.forward)
    BY <1>3, <1>4 DEF OneTrain
  <1> QED
    BY <1>1, <1>2, <1>5

\* A handler forwards one train at most.
LEMMA ForwardsOne ==
    ASSUME NEW p \in Proc, NEW n, NEW t, RingTrain(t)
    PROVE  LET f == HandleTrain(p, n, t).forward
           IN  f = {} \/ \E x : RingTrain(x) /\ f = {x}
  <1>1. \A a, b : RingTrain([t EXCEPT !.payloads = a, !.acks = b])
    BY DEF RingTrain
  <1>2. \A m : RingTrain(NewTrain(p, m))
    BY DEF RingTrain, NewTrain
  <1>3. HandleReplay(n, t).forward = {t}
    BY DEF HandleReplay, Result
  <1>4. \E x : RingTrain(x) /\ HandleFirstLap(p, n, t).forward = {x}
    BY <1>1 DEF HandleFirstLap, Result
  <1>5. \E x : RingTrain(x) /\ HandleReturningTrain(p, n, t).forward = {x}
    BY <1>2 DEF HandleReturningTrain, Result
  <1>6. Result(n, {}, {}, {}).forward = {}
    BY DEF Result
  <1> QED
    BY <1>3, <1>4, <1>5, <1>6 DEF HandleTrain

\* SetToSeq of at most one element.
LEMMA SetToSeqOne == SetToSeq({}) = <<>> /\ \A x : SetToSeq({x}) = <<x>>
  <1>1. SetToSeq({}) = <<>>
    <2>1. Cardinality({}) = 0
      BY FS_EmptySet
    <2>2. <<>> \in [1..0 -> {}] /\ \A f \in [1..0 -> {}] : f = <<>>
      OBVIOUS
    <2>3. IsInjective(<<>>)
      BY DEF IsInjective
    <2>4. SetToSeq({}) \in [1..0 -> {}]
      BY <2>1, <2>2, <2>3 DEF SetToSeq
    <2> QED
      BY <2>2, <2>4
  <1>2. ASSUME NEW x PROVE SetToSeq({x}) = <<x>>
    <2>1. Cardinality({x}) = 1
      BY FS_Singleton
    <2>2. \A f \in [1..1 -> {x}] : f = <<x>>
      OBVIOUS
    <2>3. <<x>> \in [1..1 -> {x}] /\ IsInjective(<<x>>)
      BY DEF IsInjective
    <2>4. SetToSeq({x}) \in [1..1 -> {x}]
      BY <2>1, <2>3 DEF SetToSeq
    <2> QED
      BY <2>2, <2>4
  <1> QED
    BY <1>1, <1>2

-----------------------------------------------------------------------------
\* The result o of a branch of the event loop excludes crashed processes only.
Careful(o, U) ==
    /\ o.driver \in Driver /\ o.driver.dead \cap U = {}
    /\ FewStrikes(o.driver.detector)
    /\ OneTrain(o.forward) /\ OneToken(o.send, U)

\* A train: a sign of life of its issuer and at most one hint against it.
LEMMA TrainIsCareful ==
    ASSUME ExclusionInv, NEW p \in Proc, NEW t, RingTrain(t)
    PROVE  Careful(OnTrain(p, t), up)
  <1> DEFINE a == NoteAlive(driver[p].detector, t.issuer)
             d == [driver[p] EXCEPT !.detector = a]
             r == HandleTrain(p, node[p], t)
             h == RecordGapHint(a, t.issuer)
             e == [d EXCEPT !.detector = h]
             f == SetToSeq(r.forward)
             x == InKeyOrder(Entries(r.deliver))
             o == OnEvidence(p, r.node, d, RecordGapHint(d.detector, t.issuer), t.issuer)
  <1>1. driver[p] \in Driver /\ driver[p].dead \cap up = {} /\ FewStrikes(driver[p].detector)
    BY DEF ExclusionInv, FewStrikes, Driver, Detector
  <1>2. FewStrikes(a) /\ FewStrikes(h) /\ ~NewlyConfirmed(a, h, t.issuer)
    BY <1>1, HintConfirmsNobody DEF RingTrain
  <1>3. r.forward = {} \/ \E y : RingTrain(y) /\ r.forward = {y}
    BY ForwardsOne
  <1> HIDE DEF r
  <1>4. OneTrain(f)
    BY <1>3, SetToSeqOne DEF OneTrain
  <1> HIDE DEF a, h, f, x
  <1>5. /\ d \in Driver /\ d.dead = driver[p].dead /\ d.detector = a
        /\ e \in Driver /\ e.dead = driver[p].dead /\ e.detector = h
    BY <1>1, <1>2 DEF Driver, FewStrikes, Detector
  <1> HIDE DEF d, e
  <1>6. OneToken(<<>>, up)
    BY DEF OneToken
  <1>7. CASE r.suspect = {}
    <2>1. OnTrain(p, t) = [node |-> r.node, driver |-> d, forward |-> f, send |-> <<>>,
                           deliver |-> x]
      BY <1>7 DEF OnTrain, Outcome, a, d, r, f, x
    <2> QED
      BY <1>1, <1>2, <1>4, <1>5, <1>6, <2>1 DEF Careful
  <1>8. CASE r.suspect # {}
    <2>1. o = [node |-> r.node, driver |-> e, forward |-> <<>>, send |-> <<>>,
               deliver |-> <<>>]
      BY <1>2, <1>5 DEF OnEvidence, Outcome, e, h
    <2>2. OnTrain(p, t) = [o EXCEPT !.forward = @ \o f, !.deliver = @ \o x]
      BY <1>8 DEF OnTrain, a, d, r, f, x
    <2>3. <<>> \o f = f
      BY <1>4 DEF OneTrain
    <2>4. /\ OnTrain(p, t).driver = e /\ OnTrain(p, t).forward = f
          /\ OnTrain(p, t).send = <<>>
      BY <2>1, <2>2, <2>3
    <2> QED
      BY <1>1, <1>2, <1>4, <1>5, <1>6, <2>4 DEF Careful
  <1> QED
    BY <1>7, <1>8

\* A token about a crashed process.
LEMMA TokenIsCareful ==
    ASSUME ExclusionInv, NEW p \in Proc, NEW msg, ForCrashed(msg, up)
    PROVE  Careful(OnToken(p, msg), up)
  <1> DEFINE x == Exclude(p, node[p], driver[p], msg.victim)
             v == x.driver.vc
             report == RecoveryReport(p, x.node)
             r == IF msg.type = "Gather" THEN OnGather(p, v, msg, report)
                                         ELSE OnInstall(v, msg)
             o == Execute(p, x.node, x.driver, r)
  <1>1. driver[p] \in Driver /\ driver[p].dead \cap up = {} /\ FewStrikes(driver[p].detector)
    BY DEF ExclusionInv, FewStrikes, Driver, Detector
  <1>2. /\ x.driver \in Driver /\ x.driver.dead = driver[p].dead \cup {msg.victim}
        /\ x.driver.detector = driver[p].detector
    BY <1>1, ExcludeKeeps DEF ForCrashed
  <1>3. OnToken(p, msg) = o
    BY DEF OnToken
  <1> HIDE DEF x
  <1>4. v \in View
    BY <1>2 DEF Driver, View
  <1> HIDE DEF v, report
  <1>5. r.vc \in View /\ OneToken(r.send, up)
    BY <1>4, GatherKeeps, InstallKeeps
  <1> HIDE DEF r
  <1>6. /\ o.driver \in Driver /\ o.driver.dead = x.driver.dead
        /\ o.driver.detector = x.driver.detector
        /\ OneTrain(o.forward) /\ o.send = r.send
    BY <1>2, <1>5, ExecuteKeeps
  <1> HIDE DEF o
  <1>7. x.driver.dead \cap up = {}
    BY <1>1, <1>2 DEF ForCrashed
  <1>8. Careful(o, up)
    BY <1>1, <1>2, <1>5, <1>6, <1>7 DEF Careful
  <1> QED
    BY <1>3, <1>8

\* A disconnect from a process that has crashed.
LEMMA DisconnectIsCareful ==
    ASSUME ExclusionInv, NEW p \in Proc, NEW victim \in Proc \ up
    PROVE  Careful(OnEvidence(p, node[p], driver[p],
                              RecordDisconnect(driver[p].detector, victim), victim), up)
  <1> DEFINE det == RecordDisconnect(driver[p].detector, victim)
             e == [driver[p] EXCEPT !.detector = det]
             x == Exclude(p, node[p], e, victim)
             r == OnConfirm(p, x.driver.vc, victim, RecoveryReport(p, x.node))
             o == Execute(p, x.node, x.driver, r)
             y == OnEvidence(p, node[p], driver[p], det, victim)
  <1>1. driver[p] \in Driver /\ driver[p].dead \cap up = {} /\ FewStrikes(driver[p].detector)
    BY DEF ExclusionInv, FewStrikes, Driver, Detector
  <1>2. FewStrikes(det)
    BY <1>1, DisconnectClears
  <1>3. y = IF NewlyConfirmed(driver[p].detector, det, victim) THEN o
            ELSE [node |-> node[p], driver |-> e, forward |-> <<>>, send |-> <<>>,
                  deliver |-> <<>>]
    BY DEF OnEvidence, Outcome
  <1> HIDE DEF det, y
  <1>4. e \in Driver /\ e.dead = driver[p].dead /\ e.detector = det
    BY <1>1, <1>2 DEF Driver, FewStrikes, Detector
  <1> HIDE DEF e
  <1>5. /\ x.driver \in Driver /\ x.driver.dead = driver[p].dead \cup {victim}
        /\ x.driver.detector = det
    BY <1>4, ExcludeKeeps
  <1> HIDE DEF x
  <1>6. x.driver.vc \in View
    BY <1>5 DEF Driver, View
  <1>7. r.vc \in View /\ OneToken(r.send, up)
    BY <1>6, ConfirmKeeps
  <1> HIDE DEF r
  <1>8. /\ o.driver \in Driver /\ o.driver.dead = x.driver.dead
        /\ o.driver.detector = x.driver.detector
        /\ OneTrain(o.forward) /\ o.send = r.send
    BY <1>5, <1>7, ExecuteKeeps
  <1> HIDE DEF o
  <1>9. Careful(o, up)
    BY <1>1, <1>2, <1>5, <1>7, <1>8 DEF Careful
  <1>10. OneTrain(<<>>) /\ OneToken(<<>>, up)
    BY DEF OneTrain, OneToken
  <1>11. Careful(y, up)
    BY <1>1, <1>2, <1>3, <1>4, <1>9, <1>10 DEF Careful
  <1> QED
    BY <1>11 DEF y, det

-----------------------------------------------------------------------------
\* The links carry good messages only: the form in which the steps use it.
LinksGood(ts, ms, U) ==
    \E T, M : /\ ts \in [Proc -> [Proc -> Seq(T)]] /\ \A t \in T : RingTrain(t)
              /\ ms \in [Proc -> [Proc -> Seq(M)]] /\ \A m \in M : ForCrashed(m, U)

\* The sets can be taken to be what the links carry.
LEMMA LinksGoodCarried ==
    ASSUME NEW ts, NEW ms, NEW U
    PROVE  LinksGood(ts, ms, U) <=>
               /\ ts \in [Proc -> [Proc -> Seq(Carried(ts))]]
               /\ \A t \in Carried(ts) : RingTrain(t)
               /\ ms \in [Proc -> [Proc -> Seq(Carried(ms))]]
               /\ \A m \in Carried(ms) : ForCrashed(m, U)
  <1>1. ASSUME LinksGood(ts, ms, U)
        PROVE  /\ ts \in [Proc -> [Proc -> Seq(Carried(ts))]]
               /\ \A t \in Carried(ts) : RingTrain(t)
               /\ ms \in [Proc -> [Proc -> Seq(Carried(ms))]]
               /\ \A m \in Carried(ms) : ForCrashed(m, U)
    <2>1. PICK T, M : /\ ts \in [Proc -> [Proc -> Seq(T)]] /\ \A t \in T : RingTrain(t)
                      /\ ms \in [Proc -> [Proc -> Seq(M)]] /\ \A m \in M : ForCrashed(m, U)
      BY <1>1 DEF LinksGood
    <2>2. Carried(ts) \subseteq T /\ ts \in [Proc -> [Proc -> Seq(Carried(ts))]]
      BY <2>1, CarriedType
    <2>3. Carried(ms) \subseteq M /\ ms \in [Proc -> [Proc -> Seq(Carried(ms))]]
      BY <2>1, CarriedType
    <2> QED
      BY <2>1, <2>2, <2>3
  <1> QED
    BY <1>1 DEF LinksGood

\* The invariant in that form, and after a step.
LEMMA ExclusionForm ==
    ExclusionInv <=> /\ up \subseteq Proc
                     /\ driver \in [Proc -> Driver]
                     /\ LinksGood(trains, tokens, up)
                     /\ \A p \in Proc : /\ driver[p].dead \cap up = {}
                                        /\ FewStrikes(driver[p].detector)
  <1>1. LinksGood(trains, tokens, up) <=>
               /\ trains \in [Proc -> [Proc -> Seq(Carried(trains))]]
               /\ \A t \in Carried(trains) : RingTrain(t)
               /\ tokens \in [Proc -> [Proc -> Seq(Carried(tokens))]]
               /\ \A m \in Carried(tokens) : ForCrashed(m, up)
    BY LinksGoodCarried
  <1>2. driver \in [Proc -> Driver] => \A p \in Proc : driver[p].detector \in Detector
    BY DEF Driver, Detector
  <1> QED
    BY <1>1, <1>2 DEF ExclusionInv, RingTrain, ForCrashed, FewStrikes

\* The other way round, for the next state.
LEMMA ExclusionFormNext ==
    ASSUME up' \subseteq Proc, driver' \in [Proc -> Driver], LinksGood(trains', tokens', up'),
           \A p \in Proc : driver'[p].dead \cap up' = {} /\ FewStrikes(driver'[p].detector)
    PROVE  ExclusionInv'
  <1>1. /\ trains' \in [Proc -> [Proc -> Seq(Carried(trains'))]]
        /\ \A t \in Carried(trains') : RingTrain(t)
        /\ tokens' \in [Proc -> [Proc -> Seq(Carried(tokens'))]]
        /\ \A m \in Carried(tokens') : ForCrashed(m, up')
    BY LinksGoodCarried
  <1>2. \A q \in Proc : driver'[q].detector \in Detector
    BY DEF Driver, Detector
  <1> QED
    BY <1>1, <1>2 DEF ExclusionInv, RingTrain, ForCrashed, FewStrikes

\* Taking or cutting messages of one link, and sending at most one of each kind.
LEMMA DropsGood ==
    ASSUME NEW ts, NEW ms, NEW U, LinksGood(ts, ms, U), NEW p \in Proc, NEW q \in Proc
    PROVE  /\ ts[p][q] # <<>> => /\ RingTrain(Head(ts[p][q]))
                                 /\ LinksGood([ts EXCEPT ![p][q] = Tail(@)], ms, U)
           /\ ms[p][q] # <<>> => /\ ForCrashed(Head(ms[p][q]), U)
                                 /\ LinksGood(ts, [ms EXCEPT ![p][q] = Tail(@)], U)
           /\ \A i \in 0..Len(ts[p][q]), j \in 0..Len(ms[p][q]) :
                 LinksGood([ts EXCEPT ![p][q] = SubSeq(@, 1, i)],
                           [ms EXCEPT ![p][q] = SubSeq(@, 1, j)], U)
  <1>1. PICK T, M : /\ ts \in [Proc -> [Proc -> Seq(T)]] /\ \A t \in T : RingTrain(t)
                    /\ ms \in [Proc -> [Proc -> Seq(M)]] /\ \A m \in M : ForCrashed(m, U)
    BY DEF LinksGood
  <1>2. ts[p][q] \in Seq(T) /\ ms[p][q] \in Seq(M)
    BY <1>1
  <1>3. ASSUME ts[p][q] # <<>>
        PROVE  RingTrain(Head(ts[p][q])) /\ LinksGood([ts EXCEPT ![p][q] = Tail(@)], ms, U)
    <2>1. Head(ts[p][q]) \in T /\ Tail(ts[p][q]) \in Seq(T)
      BY <1>2, <1>3
    <2>2. [ts EXCEPT ![p][q] = Tail(@)] \in [Proc -> [Proc -> Seq(T)]]
      BY <1>1, <2>1
    <2> QED
      BY <1>1, <2>1, <2>2 DEF LinksGood
  <1>4. ASSUME ms[p][q] # <<>>
        PROVE  ForCrashed(Head(ms[p][q]), U) /\ LinksGood(ts, [ms EXCEPT ![p][q] = Tail(@)], U)
    <2>1. Head(ms[p][q]) \in M /\ Tail(ms[p][q]) \in Seq(M)
      BY <1>2, <1>4
    <2>2. [ms EXCEPT ![p][q] = Tail(@)] \in [Proc -> [Proc -> Seq(M)]]
      BY <1>1, <2>1
    <2> QED
      BY <1>1, <2>1, <2>2 DEF LinksGood
  <1>5. ASSUME NEW i \in 0..Len(ts[p][q]), NEW j \in 0..Len(ms[p][q])
        PROVE  LinksGood([ts EXCEPT ![p][q] = SubSeq(@, 1, i)],
                         [ms EXCEPT ![p][q] = SubSeq(@, 1, j)], U)
    <2>1. SubSeq(ts[p][q], 1, i) \in Seq(T) /\ SubSeq(ms[p][q], 1, j) \in Seq(M)
      BY <1>2, CutSeq
    <2>2. /\ [ts EXCEPT ![p][q] = SubSeq(@, 1, i)] \in [Proc -> [Proc -> Seq(T)]]
          /\ [ms EXCEPT ![p][q] = SubSeq(@, 1, j)] \in [Proc -> [Proc -> Seq(M)]]
      BY <1>1, <2>1
    <2> QED
      BY <1>1, <2>2 DEF LinksGood
  <1> QED
    BY <1>3, <1>4, <1>5

\* A process that becomes o, having read from ts or ms.
LEMMA BecomeKeeps ==
    ASSUME ExclusionInv, NEW p \in Proc, NEW o, Careful(o, up), NEW ts, NEW ms,
           LinksGood(ts, ms, up), Become(p, o, ts, ms), up' = up
    PROVE  ExclusionInv'
  <1>1. /\ up \subseteq Proc /\ driver \in [Proc -> Driver]
        /\ \A q \in Proc : driver[q].dead \cap up = {} /\ FewStrikes(driver[q].detector)
    BY ExclusionForm
  <1>2. PICK T, M : /\ ts \in [Proc -> [Proc -> Seq(T)]] /\ \A t \in T : RingTrain(t)
                    /\ ms \in [Proc -> [Proc -> Seq(M)]] /\ \A m \in M : ForCrashed(m, up)
    BY DEF LinksGood
  <1>3. PICK T2 : T \subseteq T2 /\ (\A t \in T2 : RingTrain(t)) /\ o.forward \in Seq(T2)
    <2>1. CASE o.forward = <<>>
      <3>1. T \subseteq T /\ (\A t \in T : RingTrain(t)) /\ o.forward \in Seq(T)
        BY <1>2, <2>1
      <3> QED
        BY <3>1
    <2>2. ASSUME NEW x, RingTrain(x), o.forward = <<x>>
          PROVE  \E S : T \subseteq S /\ (\A t \in S : RingTrain(t)) /\ o.forward \in Seq(S)
      <3>1. /\ T \subseteq T \cup {x} /\ \A t \in T \cup {x} : RingTrain(t)
            /\ o.forward \in Seq(T \cup {x})
        BY <1>2, <2>2
      <3> QED
        BY <3>1
    <2> QED
      BY <2>1, <2>2 DEF Careful, OneTrain
  <1>4. PICK M2 : M \subseteq M2 /\ (\A m \in M2 : ForCrashed(m, up)) /\ o.send \in Seq(M2)
    <2>1. CASE o.send = <<>>
      <3>1. M \subseteq M /\ (\A m \in M : ForCrashed(m, up)) /\ o.send \in Seq(M)
        BY <1>2, <2>1
      <3> QED
        BY <3>1
    <2>2. ASSUME NEW x, ForCrashed(x, up), o.send = <<x>>
          PROVE  \E S : M \subseteq S /\ (\A m \in S : ForCrashed(m, up)) /\ o.send \in Seq(S)
      <3>1. /\ M \subseteq M \cup {x} /\ \A m \in M \cup {x} : ForCrashed(m, up)
            /\ o.send \in Seq(M \cup {x})
        BY <1>2, <2>2
      <3> QED
        BY <3>1
    <2> QED
      BY <2>1, <2>2 DEF Careful, OneToken
  <1>5. ts \in [Proc -> [Proc -> Seq(T2)]] /\ ms \in [Proc -> [Proc -> Seq(M2)]]
    <2>1. Seq(T) \subseteq Seq(T2) /\ Seq(M) \subseteq Seq(M2)
      BY <1>3, <1>4, SeqMonotonic
    <2> QED
      BY <1>2, <2>1
  <1>6. driver[p].succ \in Proc /\ o.driver.succ \in Proc
    BY <1>1 DEF Careful, Driver
  <1>7. PICK i \in 0..Len(ts[p][driver[p].succ]), j \in 0..Len(ms[p][driver[p].succ]) :
            /\ trains' = Sent(ts, p, driver[p].succ, o.driver.succ, i, o.forward)
            /\ tokens' = Sent(ms, p, driver[p].succ, o.driver.succ, j, o.send)
    BY DEF Become
  <1>8. trains' \in [Proc -> [Proc -> Seq(T2)]]
    BY <1>3, <1>5, <1>6, <1>7, SentType
  <1>9. tokens' \in [Proc -> [Proc -> Seq(M2)]]
    BY <1>4, <1>5, <1>6, <1>7, SentType
  <1>10. LinksGood(trains', tokens', up')
    BY <1>3, <1>4, <1>8, <1>9 DEF LinksGood
  <1>11. driver' = [driver EXCEPT ![p] = o.driver]
    BY DEF Become
  <1>12. /\ driver' \in [Proc -> Driver]
         /\ \A q \in Proc : driver'[q].dead \cap up' = {} /\ FewStrikes(driver'[q].detector)
    BY <1>1, <1>11 DEF Careful
  <1> QED
    BY <1>1, <1>10, <1>12, ExclusionFormNext

-----------------------------------------------------------------------------
(* The invariant *)

\* After start-up nobody is dead, no strike is counted, no token is on its way.
LEMMA InitExclusion == Init => ExclusionInv
  <1> SUFFICES ASSUME Init PROVE ExclusionInv
    OBVIOUS
  <1> DEFINE T == {NewTrain(p, NewNode) : p \in Proc}
  <1>1. up = Proc
    BY DEF Init
  <1>2. \A p \in Proc : driver[p] = NewDriver(p)
    BY DEF Init
  <1>3. \A p \in Proc : NewDriver(p) \in Driver /\ NewDriver(p).dead = {}
                        /\ FewStrikes(NewDriver(p).detector)
    <2>1. \A p \in Proc : NextAlive(p, {}) \in Proc
      BY NextAliveIsProc
    <2> QED
      BY <2>1 DEF NewDriver, Driver, NewDetector, NewViewChange, FewStrikes, Detector
  <1>4. driver \in [Proc -> Driver]
    BY <1>3 DEF Init
  <1>5. \A t \in T : RingTrain(t)
    BY DEF NewTrain, RingTrain
  <1>6. trains \in [Proc -> [Proc -> Seq(T)]]
    <2>1. \A p \in Proc : <<NewTrain(p, NewNode)>> \in Seq(T) /\ <<>> \in Seq(T)
      <3> HIDE DEF T
      <3>1. \A p \in Proc : NewTrain(p, NewNode) \in T
        BY DEF T
      <3> QED
        BY <3>1
    <2> QED
      BY <2>1 DEF Init
  <1> DEFINE M == {}
  <1>7. tokens \in [Proc -> [Proc -> Seq(M)]] /\ \A m \in M : ForCrashed(m, up)
    BY EmptySeq DEF Init
  <1>8. LinksGood(trains, tokens, up)
    <2> HIDE DEF T, M
    <2> QED
      BY <1>5, <1>6, <1>7 DEF LinksGood
  <1> QED
    BY <1>1, <1>2, <1>3, <1>4, <1>8, ExclusionForm

\* Every step keeps it; a crash only adds to the processes that may be excluded.
LEMMA StepExclusion == ExclusionInv /\ [Next]_vars => ExclusionInv'
  <1> SUFFICES ASSUME ExclusionInv, [Next]_vars PROVE ExclusionInv'
    OBVIOUS
  <1>0. /\ up \subseteq Proc /\ driver \in [Proc -> Driver]
        /\ LinksGood(trains, tokens, up)
        /\ \A q \in Proc : driver[q].dead \cap up = {} /\ FewStrikes(driver[q].detector)
    BY ExclusionForm
  <1>1. ASSUME NEW p \in Proc, Broadcast(p) PROVE ExclusionInv'
    <2>1. UNCHANGED <<driver, up, trains, tokens>>
      BY <1>1 DEF Broadcast
    <2> QED
      BY <1>0, <2>1, ExclusionFormNext
  <1>2. ASSUME NEW p \in Proc, NEW q \in Proc, ReceiveTrain(p, q) PROVE ExclusionInv'
    <2>1. /\ trains[q][p] # <<>> /\ up' = up
          /\ Become(p, OnTrain(p, Head(trains[q][p])), [trains EXCEPT ![q][p] = Tail(@)], tokens)
      BY <1>2 DEF ReceiveTrain
    <2>2. /\ RingTrain(Head(trains[q][p]))
          /\ LinksGood([trains EXCEPT ![q][p] = Tail(@)], tokens, up)
      BY <1>0, <2>1, DropsGood
    <2>3. Careful(OnTrain(p, Head(trains[q][p])), up)
      BY <2>2, TrainIsCareful
    <2> QED
      BY <2>1, <2>2, <2>3, BecomeKeeps
  <1>3. ASSUME NEW p \in Proc, NEW q \in Proc, ReceiveToken(p, q) PROVE ExclusionInv'
    <2>1. /\ tokens[q][p] # <<>> /\ up' = up
          /\ Become(p, OnToken(p, Head(tokens[q][p])), trains, [tokens EXCEPT ![q][p] = Tail(@)])
      BY <1>3 DEF ReceiveToken
    <2>2. /\ ForCrashed(Head(tokens[q][p]), up)
          /\ LinksGood(trains, [tokens EXCEPT ![q][p] = Tail(@)], up)
      BY <1>0, <2>1, DropsGood
    <2>3. Careful(OnToken(p, Head(tokens[q][p])), up)
      BY <2>2, TokenIsCareful
    <2> QED
      BY <2>1, <2>2, <2>3, BecomeKeeps
  <1>4. ASSUME NEW p \in Proc, Unreachable(p) PROVE ExclusionInv'
    <2> DEFINE v == driver[p].succ
               o == OnEvidence(p, node[p], driver[p], RecordDisconnect(driver[p].detector, v), v)
    <2>1. v \notin up /\ Become(p, o, trains, tokens) /\ up' = up
      BY <1>4 DEF Unreachable
    <2>2. v \in Proc \ up
      BY <1>0, <2>1 DEF Driver
    <2>3. Careful(o, up)
      BY <2>2, DisconnectIsCareful
    <2> QED
      BY <1>0, <2>1, <2>3, BecomeKeeps
  <1>5. ASSUME NEW p \in Proc, Crash(p) PROVE ExclusionInv'
    <2>1. driver[p].succ \in Proc /\ up' \subseteq up /\ driver' = driver
      BY <1>0, <1>5 DEF Crash, Driver
    <2>2. LinksGood(trains', tokens', up)
      <3>1. PICK i \in 0..Len(trains[p][driver[p].succ]), j \in 0..Len(tokens[p][driver[p].succ]) :
               /\ trains' = [trains EXCEPT ![p][driver[p].succ] = SubSeq(@, 1, i)]
               /\ tokens' = [tokens EXCEPT ![p][driver[p].succ] = SubSeq(@, 1, j)]
        BY <1>5 DEF Crash
      <3> QED
        BY <1>0, <2>1, <3>1, DropsGood
    <2>3. LinksGood(trains', tokens', up')
      <3>1. \A m : ForCrashed(m, up) => ForCrashed(m, up')
        BY <2>1 DEF ForCrashed
      <3> QED
        BY <2>2, <3>1 DEF LinksGood
    <2> QED
      BY <1>0, <2>1, <2>3, ExclusionFormNext
  <1>6. ASSUME NEW p \in Proc, NEW q \in Proc, LoseToken(p, q) PROVE ExclusionInv'
    <2>1. /\ tokens[p][q] # <<>> /\ tokens' = [tokens EXCEPT ![p][q] = Tail(@)]
          /\ UNCHANGED <<driver, up, trains>>
      BY <1>6 DEF LoseToken
    <2>2. LinksGood(trains, [tokens EXCEPT ![p][q] = Tail(@)], up)
      BY <1>0, <2>1, DropsGood
    <2> QED
      BY <1>0, <2>1, <2>2, ExclusionFormNext
  <1>7. CASE UNCHANGED vars
    <2>1. UNCHANGED <<driver, up, trains, tokens>>
      BY <1>7 DEF vars
    <2> QED
      BY <1>0, <2>1, ExclusionFormNext
  <1> QED
    BY <1>1, <1>2, <1>3, <1>4, <1>5, <1>6, <1>7 DEF Next

\* ExclusionInvariant: in every reachable state every token on a link of node.rs
\* names a crashed victim and no failure detector holds two strikes.
THEOREM ExclusionInvariant == Spec => []ExclusionInv
  BY InitExclusion, StepExclusion, PTL DEF Spec

\* NoLiveExcluded: whatever crashes, is lost and overlaps, exclude of node.rs is
\* never called with a live process, and gap hints never add up to a verdict.
THEOREM NoLiveExcluded == Spec => []OnlyCrashedExcluded
  <1>1. ExclusionInv => OnlyCrashedExcluded
    BY DEF ExclusionInv, OnlyCrashedExcluded
  <1> QED
    BY ExclusionInvariant, <1>1, PTL

-----------------------------------------------------------------------------
(* Recovery: reports, plans and their application. *)

\* A finite set of naturals has a greatest element.
LEMMA MaxNat ==
    ASSUME NEW S \in SUBSET Nat, IsFiniteSet(S), S # {}
    PROVE  Max(S) \in S /\ \A x \in S : x <= Max(S)
  <1> DEFINE R == {z \in S \X S : z[1] > z[2]}
  <1>1. \A x, y \in S : <<x, y>> \in R <=> x > y
    OBVIOUS
  <1> HIDE DEF R
  <1>2. \A x \in S : <<x, x>> \notin R
    BY <1>1
  <1>3. \A x, y, z \in S : <<x, y>> \in R /\ <<y, z>> \in R => <<x, z>> \in R
    BY <1>1
  <1>4. PICK m \in S : \A x \in S : <<x, m>> \notin R
    BY <1>2, <1>3, MinimalElement
  <1>5. ASSUME NEW x \in S PROVE m >= x
    <2>1. x \in Nat /\ m \in Nat /\ ~(x > m)
      BY <1>1, <1>4
    <2> QED
      BY <2>1
  <1>6. Max(S) \in S /\ \A x \in S : Max(S) >= x
    BY <1>5 DEF Max
  <1> QED
    BY <1>6

\* The greater of two naturals.
LEMMA MaxTwo ==
    ASSUME NEW a \in Nat, NEW b \in Nat
    PROVE  Max({a, b}) \in {a, b} /\ a <= Max({a, b}) /\ b <= Max({a, b})
  <1>1. PICK S : S = {a, b}
    OBVIOUS
  <1>2. IsFiniteSet({a}) /\ IsFiniteSet({a} \cup {b})
    BY FS_Singleton, FS_AddElement
  <1>3. {a} \cup {b} = S
    BY <1>1
  <1>4. Max(S) \in S /\ \A x \in S : x <= Max(S)
    BY <1>1, <1>2, <1>3, MaxNat
  <1> QED
    BY <1>1, <1>4

\* The values of an expression over a finite set, as a function.
LEMMA FiniteValues ==
    ASSUME NEW S, IsFiniteSet(S), NEW f, DOMAIN f = S, f = [x \in S |-> f[x]]
    PROVE  IsFiniteSet({f[x] : x \in S})
  BY FiniteImage

\* The boundary of finitely many reports is the greatest clock one of them knows.
LEMMA BoundaryIssued ==
    ASSUME NEW R \in SUBSET Report, IsFiniteSet(R), NEW next \in [Proc -> Nat],
           \A q \in Proc : next[q] >= 1,
           \A r \in R : Below(r.seen, next) /\ Below(r.issued, next)
    PROVE  Boundary(R) \in [Proc -> Nat] /\ Below(Boundary(R), next)
  <1>1. ASSUME NEW q \in Proc
        PROVE  LET S == {r.seen[q] : r \in R} \cup {r.issued[q] : r \in R} \cup {0}
               IN  Max(S) \in Nat /\ Max(S) < next[q]
    <2> DEFINE f == [r \in R |-> r.seen[q]]
               g == [r \in R |-> r.issued[q]]
               S == {r.seen[q] : r \in R} \cup {r.issued[q] : r \in R} \cup {0}
    <2>1. \A r \in R : /\ r.seen[q] \in Nat /\ r.issued[q] \in Nat
                       /\ r.seen[q] < next[q] /\ r.issued[q] < next[q]
      BY DEF Report, Below
    <2>2. IsFiniteSet({f[r] : r \in R}) /\ IsFiniteSet({g[r] : r \in R})
      <3>1. PICK ff, gg : ff = f /\ gg = g
        OBVIOUS
      <3>2. /\ DOMAIN ff = R /\ ff = [r \in R |-> ff[r]]
            /\ DOMAIN gg = R /\ gg = [r \in R |-> gg[r]]
        BY <3>1
      <3>3. IsFiniteSet({ff[r] : r \in R}) /\ IsFiniteSet({gg[r] : r \in R})
        BY <3>2, FiniteValues
      <3> QED
        BY <3>1, <3>3
    <2>3. S = {f[r] : r \in R} \cup {g[r] : r \in R} \cup {0}
      OBVIOUS
    <2>4. IsFiniteSet(S)
      <3> HIDE DEF f, g, S
      <3>1. IsFiniteSet({f[r] : r \in R} \cup {g[r] : r \in R})
        BY <2>2, FS_Union
      <3> QED
        BY <2>3, <3>1, FS_AddElement
    <2>5. S \in SUBSET Nat /\ 0 \in S /\ \A c \in S : c < next[q]
      BY <2>1
    <2> HIDE DEF S
    <2>6. Max(S) \in S
      BY <2>4, <2>5, MaxNat
    <2> QED
      BY <2>5, <2>6 DEF S
  <1> QED
    BY <1>1 DEF Boundary, Below

\* compute_recovery_plan fences issued clocks only and has finitely many actions.
LEMMA PlanIssued ==
    ASSUME NEW R \in SUBSET Report, IsFiniteSet(R), NEW next \in [Proc -> Nat],
           \A q \in Proc : next[q] >= 1,
           \A r \in R : Below(r.seen, next) /\ Below(r.issued, next)
    PROVE  IssuedPlan(ComputeRecoveryPlan(R), next)
  <1> DEFINE b == Boundary(R)
             f == [q \in Proc |-> (1..b[q]) \X {q}]
             K == UNION {(1..b[q]) \X {q} : q \in Proc}
             gaps == {k \in K : \E r \in R : k \notin r.done}
             plan == ComputeRecoveryPlan(R)
  <1>1. b \in [Proc -> Nat] /\ Below(b, next)
    BY BoundaryIssued
  <1>2. plan = [actions |-> [k \in gaps |-> Offered(R, k)], boundary |-> b]
    BY DEF ComputeRecoveryPlan
  <1> HIDE DEF b, plan
  <1>3. \A k \in K : k \in Key /\ k[1] <= b[k[2]]
    BY <1>1 DEF Key
  <1>4. IsFiniteSet(K)
    <2>1. \A q \in Proc : IsFiniteSet(f[q])
      <3> SUFFICES ASSUME NEW q \in Proc PROVE IsFiniteSet(f[q])
        OBVIOUS
      <3>1. PICK o \in Int, l \in Int : o = 1 /\ l = b[q]
        BY <1>1
      <3>2. IsFiniteSet(o..l) /\ IsFiniteSet({q})
        BY FS_Interval, FS_Singleton
      <3>3. IsFiniteSet((o..l) \X {q})
        BY <3>2, FS_Product
      <3> QED
        BY <3>1, <3>3
    <2>2. PICK g : g = f
      OBVIOUS
    <2>3. DOMAIN g = Proc /\ g = [q \in Proc |-> g[q]]
      BY <2>2
    <2>4. IsFiniteSet(Proc)
      <3>1. PICK z \in Int, l \in Int : z = 0 /\ l = RingSize - 1
        BY RingAssumption
      <3>2. IsFiniteSet(z..l)
        BY FS_Interval
      <3> QED
        BY <3>1, <3>2 DEF Proc
    <2>5. IsFiniteSet({g[q] : q \in Proc})
      BY <2>3, <2>4, FiniteValues
    <2>6. K = UNION {f[q] : q \in Proc}
      OBVIOUS
    <2> HIDE DEF f, K
    <2>7. IsFiniteSet({f[q] : q \in Proc})
      BY <2>2, <2>5
    <2> QED
      BY <2>1, <2>6, <2>7, FS_UNION
  <1> HIDE DEF K
  <1>5. gaps \in SUBSET K
    OBVIOUS
  <1> HIDE DEF gaps
  <1>6. IsFiniteSet(gaps)
    BY <1>4, <1>5, FS_Subset
  <1>7. \A k : Offered(R, k) \subseteq Payload
    BY DEF Offered, Report, CacheEntry
  <1>8. /\ DOMAIN plan.actions = gaps /\ plan.boundary = b
        /\ \A k \in gaps : plan.actions[k] \subseteq Payload
    BY <1>2, <1>7
  <1>9. IsPlan(plan)
    BY <1>1, <1>3, <1>5, <1>8 DEF IsPlan
  <1>10. IssuedPlan(plan, next)
    BY <1>1, <1>3, <1>5, <1>6, <1>8, <1>9 DEF IssuedPlan
  <1> QED
    BY <1>10 DEF plan

\* A report speaks of issued clocks if its process has seen such clocks only.
LEMMA ReportIssued ==
    ASSUME NEW p \in Proc, NEW n \in Node, NEW next \in [Proc -> Nat], Below(n.seen, next),
           n.nextIssue = next[p]
    PROVE  LET r == RecoveryReport(p, n)
           IN  r \in Report /\ Below(r.seen, next) /\ Below(r.issued, next)
  <1> DEFINE r == RecoveryReport(p, n)
             have == n.cache \cup {e \in Entries(NonEmpty(n.parked)) :
                                      e.key \notin {x.key : x \in n.cache}}
             issued == [q \in Proc |-> IF q = p THEN n.nextIssue - 1 ELSE 0]
  <1>1. n.seen \in [Proc -> Nat] /\ n.done \in SUBSET Key /\ n.nextIssue \in Nat
        /\ n.parked \in SUBSET Train /\ n.cache \in SUBSET CacheEntry
    BY DEF Node
  <1>2. r = [seen |-> n.seen, issued |-> issued, done |-> n.done, have |-> have]
    BY DEF RecoveryReport
  <1>3. have \in SUBSET CacheEntry
    BY <1>1, KeyType DEF Entries, NonEmpty, CacheEntry, Train
  <1>4. \A q \in Proc : next[q] \in Nat /\ next[q] >= 1
    BY <1>1 DEF Below
  <1>5. issued \in [Proc -> Nat] /\ Below(issued, next)
    BY <1>1, <1>4 DEF Below
  <1> HIDE DEF have, issued, r
  <1>6. r \in Report
    BY <1>1, <1>2, <1>3, <1>5 DEF Report
  <1> QED
    BY <1>2, <1>5, <1>6 DEF r

\* From n to m the entries of s are handed to the application: keys that were not
\* finished, each once.
HandsOver(n, m, s) ==
    /\ s \in Seq(CacheEntry) /\ n.done \subseteq m.done
    /\ \A i \in 1..Len(s) : s[i].key \in m.done /\ s[i].key \notin n.done
    /\ \A i, j \in 1..Len(s) : s[i].key = s[j].key => i = j

\* Two handovers in a row.
LEMMA HandsOverBoth ==
    ASSUME NEW n, NEW m, NEW k, NEW s, NEW u, HandsOver(n, m, s), HandsOver(m, k, u)
    PROVE  HandsOver(n, k, s \o u)
  <1>1. s \in Seq(CacheEntry) /\ u \in Seq(CacheEntry) /\ n.done \subseteq m.done /\ m.done \subseteq k.done
    BY DEF HandsOver
  <1>2. Len(s) \in Nat /\ Len(u) \in Nat /\ s \o u \in Seq(CacheEntry)
    BY <1>1
  <1>3. Len(s \o u) = Len(s) + Len(u)
    BY <1>1
  <1>4. ASSUME NEW i \in 1..(Len(s) + Len(u))
        PROVE  \/ i \in 1..Len(s) /\ (s \o u)[i] = s[i]
               \/ i - Len(s) \in 1..Len(u) /\ (s \o u)[i] = u[i - Len(s)]
    BY <1>1, <1>2
  <1>5. \A i \in 1..Len(s) : s[i].key \in m.done /\ s[i].key \notin n.done
    BY DEF HandsOver
  <1>6. \A i \in 1..Len(u) : u[i].key \in k.done /\ u[i].key \notin m.done
    BY DEF HandsOver
  <1>7. \A i \in 1..(Len(s) + Len(u)) : (s \o u)[i].key \in k.done /\ (s \o u)[i].key \notin n.done
    BY <1>1, <1>4, <1>5, <1>6
  <1>8. ASSUME NEW i \in 1..(Len(s) + Len(u)), NEW j \in 1..(Len(s) + Len(u)),
               (s \o u)[i].key = (s \o u)[j].key
        PROVE  i = j
    <2>1. CASE i \in 1..Len(s) /\ (s \o u)[i] = s[i] /\ j \in 1..Len(s) /\ (s \o u)[j] = s[j]
      BY <1>8, <2>1 DEF HandsOver
    <2>2. CASE /\ i - Len(s) \in 1..Len(u) /\ (s \o u)[i] = u[i - Len(s)]
               /\ j - Len(s) \in 1..Len(u) /\ (s \o u)[j] = u[j - Len(s)]
      <3>1. i - Len(s) = j - Len(s)
        BY <1>8, <2>2 DEF HandsOver
      <3> QED
        BY <1>2, <3>1
    <2> QED
      BY <1>4, <1>5, <1>6, <1>8, <2>1, <2>2
  <1> QED
    BY <1>1, <1>2, <1>3, <1>7, <1>8 DEF HandsOver

\* Nothing is handed over.
LEMMA HandsOverNothing ==
    ASSUME NEW n, NEW m, n.done \subseteq m.done
    PROVE  HandsOver(n, m, <<>>)
  BY DEF HandsOver

\* A set of entries in key order.
LEMMA HandsOverSet ==
    ASSUME NEW n, NEW m, n.done \subseteq m.done,
           NEW E \in SUBSET CacheEntry, IsFiniteSet(E), OneEntryPerKey(E),
           \A e \in E : e.key \in m.done /\ e.key \notin n.done
    PROVE  HandsOver(n, m, InKeyOrder(E))
  <1> DEFINE s == InKeyOrder(E)
             c == Cardinality(E)
  <1>1. /\ c \in Nat /\ s \in Seq(CacheEntry) /\ Len(s) = c
        /\ \A i \in 1..c : s[i] \in E
        /\ \A i, j \in 1..c : i # j => s[i].key # s[j].key
    BY KeyOrder
  <1> HIDE DEF s, c
  <1>2. HandsOver(n, m, s)
    BY <1>1 DEF HandsOver
  <1> QED
    BY <1>2 DEF s

\* The entries of the trains a handler releases.
LEMMA HandsOverReleased ==
    ASSUME NEW n, NEW m, NEW D, Releases(n, m, D)
    PROVE  HandsOver(n, m, InKeyOrder(Entries(NonEmpty(D))))
  <1> DEFINE N == NonEmpty(D)
             f == [t \in N |-> [key |-> KeyOf(t), payloads |-> t.payloads]]
             E == Entries(N)
  <1>1. /\ D \in SUBSET Train /\ IsFiniteSet(D) /\ \A t, u \in D : KeyOf(t) = KeyOf(u) => t = u
        /\ m.done = n.done \cup KeysOf(D) /\ KeysOf(D) \cap n.done = {}
    BY DEF Releases
  <1>2. N \in SUBSET D /\ N \in SUBSET Train
    BY <1>1 DEF NonEmpty
  <1> HIDE DEF N
  <1>3. IsFiniteSet(N)
    BY <1>1, <1>2, FS_Subset
  <1>4. E = {f[t] : t \in N}
    BY DEF Entries
  <1>5. IsFiniteSet(E)
    <2>1. PICK g : g = f
      OBVIOUS
    <2>2. DOMAIN g = N /\ g = [t \in N |-> g[t]]
      BY <2>1
    <2>3. IsFiniteSet({g[t] : t \in N})
      BY <1>3, <2>2, FiniteValues
    <2> QED
      BY <1>4, <2>1, <2>3
  <1>6. E \in SUBSET CacheEntry /\ OneEntryPerKey(E)
    BY <1>1, <1>2, KeyType DEF Entries, CacheEntry, OneEntryPerKey, Train
  <1>7. \A e \in E : e.key \in m.done /\ e.key \notin n.done
    BY <1>1, <1>2 DEF Entries, KeysOf
  <1> HIDE DEF E
  <1>8. HandsOver(n, m, InKeyOrder(E))
    BY <1>1, <1>5, <1>6, <1>7, HandsOverSet
  <1> QED
    BY <1>8 DEF E, N

\* Clocks of n that their issuers have used, with next for the clocks they use next.
IssuedClocks(p, n, next) ==
    n.nextIssue = next[p] /\ Below(n.seen, next) /\ Below(n.floor, next)

\* apply_recovery up to its final drain.
LEMMA InstallTidy ==
    ASSUME NEW p \in Proc, NEW n \in Node, Tidy(n), NEW next \in [Proc -> Nat],
           IssuedClocks(p, n, next), NEW plan, IssuedPlan(plan, next)
    PROVE  LET m == InstallPlan(p, n, plan) IN
           /\ m \in Node /\ Tidy(m) /\ IssuedClocks(p, m, next)
           /\ m.done = n.done \cup DOMAIN plan.actions
  <1> DEFINE keys == DOMAIN plan.actions
             seen == [q \in Proc |-> Max({n.seen[q]} \cup {k[1] : k \in {j \in keys : j[2] = q}})]
             floor == [q \in Proc |-> Max({n.floor[q], plan.boundary[q]})]
             issue == Max({n.nextIssue, plan.boundary[p] + 1})
             parked == {t \in n.parked : KeyOf(t) \notin keys}
             new == Recovered(n, plan)
             bs == n.broadcastSeen \cup UNION {e.payloads : e \in new}
             cache == CacheDelivered(n.cache, new)
             m == InstallPlan(p, n, plan)
  <1>1. /\ keys \in SUBSET Key /\ IsFiniteSet(keys)
        /\ \A k \in keys : plan.actions[k] \subseteq Payload
        /\ plan.boundary \in [Proc -> Nat] /\ Below(plan.boundary, next)
        /\ \A k \in keys : k[1] <= plan.boundary[k[2]]
    BY DEF IssuedPlan, IsPlan
  <1>2. n.seen \in [Proc -> Nat] /\ n.floor \in [Proc -> Nat] /\ n.nextIssue \in Nat
        /\ n.done \in SUBSET Key /\ n.parked \in SUBSET Train
        /\ n.broadcastSeen \in SUBSET Payload /\ n.cache \in SUBSET CacheEntry
    BY DEF Node
  <1>3. m = [n EXCEPT !.seen = seen, !.done = n.done \cup keys, !.broadcastSeen = bs,
                      !.cache = cache, !.floor = floor, !.nextIssue = issue, !.frozen = FALSE,
                      !.parked = parked]
    BY DEF InstallPlan, AdvanceView, Node
  <1> HIDE DEF keys
  <1>4. ASSUME NEW q \in Proc
        PROVE  /\ seen[q] \in Nat /\ seen[q] >= n.seen[q] /\ seen[q] < next[q]
               /\ \A k \in keys : k[2] = q => k[1] <= seen[q]
    <2> DEFINE Q == {j \in keys : j[2] = q}
               f == [k \in Q |-> k[1]]
               S == {n.seen[q]} \cup {k[1] : k \in Q}
    <2>1. IsFiniteSet(Q)
      BY <1>1, FS_Subset
    <2>2. IsFiniteSet({f[k] : k \in Q})
      <3> HIDE DEF Q
      <3>1. PICK g : g = f
        OBVIOUS
      <3>2. DOMAIN g = Q /\ g = [k \in Q |-> g[k]]
        BY <3>1
      <3>3. IsFiniteSet({g[k] : k \in Q})
        BY <2>1, <3>2, FiniteValues
      <3> QED
        BY <3>1, <3>3
    <2>3. S = {f[k] : k \in Q} \cup {n.seen[q]}
      OBVIOUS
    <2>4. IsFiniteSet(S)
      <3> HIDE DEF S, f, Q
      <3> QED
        BY <2>2, <2>3, FS_AddElement
    <2>5. /\ n.seen[q] \in Nat /\ next[q] \in Nat /\ plan.boundary[q] \in Nat
          /\ n.seen[q] < next[q] /\ plan.boundary[q] < next[q]
      BY <1>1, <1>2 DEF IssuedClocks, Below
    <2>6. \A k \in Q : k[1] \in Nat /\ k[1] <= plan.boundary[q]
      BY <1>1 DEF Key
    <2>7. S \in SUBSET Nat /\ n.seen[q] \in S /\ \A c \in S : c < next[q]
      BY <2>5, <2>6
    <2>8. \A k \in keys : k[2] = q => k[1] \in S
      OBVIOUS
    <2>9. seen[q] = Max(S)
      OBVIOUS
    <2> HIDE DEF S, seen
    <2>10. Max(S) \in S /\ \A c \in S : c <= Max(S)
      BY <2>4, <2>7, MaxNat
    <2> QED
      BY <2>7, <2>8, <2>9, <2>10
  <1>5. ASSUME NEW q \in Proc
        PROVE  floor[q] \in Nat /\ floor[q] < next[q]
    <2>1. /\ n.floor[q] \in Nat /\ plan.boundary[q] \in Nat
          /\ n.floor[q] < next[q] /\ plan.boundary[q] < next[q]
      BY <1>1, <1>2 DEF IssuedClocks, Below
    <2>2. PICK a \in Nat, b \in Nat : a = n.floor[q] /\ b = plan.boundary[q]
      BY <2>1
    <2>3. Max({a, b}) \in {a, b}
      BY MaxTwo
    <2> QED
      BY <2>1, <2>2, <2>3
  <1>6. issue = n.nextIssue
    <2>1. plan.boundary[p] \in Nat /\ plan.boundary[p] < n.nextIssue
      BY <1>1, <1>2 DEF IssuedClocks, Below
    <2>2. PICK a \in Nat, b \in Nat : a = n.nextIssue /\ b = plan.boundary[p] + 1 /\ b <= a
      BY <1>2, <2>1
    <2>3. Max({a, b}) \in {a, b} /\ a <= Max({a, b}) /\ b <= Max({a, b})
      BY MaxTwo
    <2>4. Max({a, b}) = a
      BY <2>2, <2>3
    <2> QED
      BY <2>2, <2>4
  <1>7. seen \in [Proc -> Nat] /\ floor \in [Proc -> Nat]
    BY <1>4, <1>5
  <1>8. new \in SUBSET CacheEntry
    BY <1>1 DEF Recovered, CacheEntry, keys
  <1> HIDE DEF new
  <1>9. bs \in SUBSET Payload /\ cache \in SUBSET CacheEntry
    BY <1>2, <1>8 DEF CacheDelivered, CacheEntry
  <1>10. parked \in SUBSET n.parked /\ \A t \in parked : KeyOf(t) \notin keys
    OBVIOUS
  <1> HIDE DEF seen, floor, issue, parked, bs, cache, m
  <1>11. /\ m \in Node /\ m.seen = seen /\ m.done = n.done \cup keys
         /\ m.floor = floor /\ m.nextIssue = issue /\ m.parked = parked
    BY <1>1, <1>2, <1>3, <1>6, <1>7, <1>9, <1>10 DEF Node
  <1>12. IssuedClocks(p, m, next)
    BY <1>4, <1>5, <1>6, <1>11 DEF IssuedClocks, Below
  <1>13. IsFiniteSet(m.parked)
    <2>1. PICK P, Q : P = n.parked /\ Q = m.parked
      OBVIOUS
    <2> QED
      BY <1>10, <1>11, <2>1, FS_Subset DEF Tidy
  <1>14. /\ \A t, u \in m.parked : KeyOf(t) = KeyOf(u) => t = u
         /\ KeysOf(m.parked) \cap m.done = {}
    BY <1>10, <1>11 DEF Tidy, KeysOf
  <1>15. ASSUME NEW k \in m.done \cup KeysOf(m.parked) PROVE k[1] <= m.seen[k[2]]
    <2>1. k \in Key /\ k[1] \in Nat /\ k[2] \in Proc
      BY <1>1, <1>2, <1>10, <1>11, KeyType DEF Key, KeysOf
    <2>2. CASE k \in keys
      BY <1>4, <1>11, <2>1, <2>2
    <2>3. CASE k \notin keys
      <3>1. k \in n.done \cup KeysOf(n.parked)
        BY <1>10, <1>11, <2>3 DEF KeysOf
      <3>2. k[1] <= n.seen[k[2]]
        BY <3>1 DEF Tidy
      <3>3. n.seen[k[2]] \in Nat /\ seen[k[2]] \in Nat /\ seen[k[2]] >= n.seen[k[2]]
        BY <1>2, <1>4, <2>1
      <3> QED
        BY <1>11, <2>1, <3>2, <3>3
    <2> QED
      BY <2>2, <2>3
  <1>16. Tidy(m)
    BY <1>13, <1>14, <1>15 DEF Tidy
  <1> QED
    BY <1>11, <1>12, <1>16 DEF m, keys

\* A core between two events.
Ready(p, n, next) ==
    n \in Node /\ Tidy(n) /\ Drained(n) = {} /\ IssuedClocks(p, n, next)

\* apply_recovery: the recovered entries, then the drained ones, each key once.
LEMMA RecoveryReady ==
    ASSUME NEW p \in Proc, NEW n, NEW next \in [Proc -> Nat], Ready(p, n, next),
           NEW plan, IssuedPlan(plan, next)
    PROVE  LET a == ApplyRecovery(p, n, plan) IN
           /\ Ready(p, a.node, next)
           /\ HandsOver(n, a.node, InKeyOrder(a.recovered) \o InKeyOrder(a.drained))
  <1> DEFINE m == InstallPlan(p, n, plan)
             d == DrainParked(m)
             keys == DOMAIN plan.actions \ n.done
             f == [k \in keys |-> [key |-> k, payloads |-> plan.actions[k]]]
             R == {e \in Recovered(n, plan) : e.payloads # {}}
             a == ApplyRecovery(p, n, plan)
  <1>0. n \in Node /\ Tidy(n) /\ IssuedClocks(p, n, next)
    BY DEF Ready
  <1>1. /\ m \in Node /\ Tidy(m) /\ IssuedClocks(p, m, next)
        /\ m.done = n.done \cup DOMAIN plan.actions
    BY <1>0, InstallTidy
  <1>2. a.node = d.node /\ a.recovered = R /\ a.drained = Entries(NonEmpty(d.deliver))
    BY DEF ApplyRecovery
  <1> HIDE DEF m, a
  <1>3. Releases(m, d.node, d.deliver) /\ Kept(m, d.node)
    BY <1>1, DrainReleases
  <1> HIDE DEF d
  <1>4. Ready(p, d.node, next)
    BY <1>1, <1>3 DEF Releases, Kept, Ready, IssuedClocks
  <1>5. HandsOver(m, d.node, InKeyOrder(Entries(NonEmpty(d.deliver))))
    BY <1>3, HandsOverReleased
  <1>6. DOMAIN plan.actions \subseteq Key /\ IsFiniteSet(DOMAIN plan.actions)
        /\ \A k \in DOMAIN plan.actions : plan.actions[k] \subseteq Payload
    BY DEF IssuedPlan, IsPlan
  <1>7. R \in SUBSET CacheEntry /\ OneEntryPerKey(R)
        /\ \A e \in R : e.key \in m.done /\ e.key \notin n.done
    BY <1>1, <1>6 DEF Recovered, CacheEntry, OneEntryPerKey
  <1>8. IsFiniteSet(R)
    <2>1. R \subseteq {f[k] : k \in keys}
      BY DEF Recovered
    <2>2. IsFiniteSet(keys)
      <3>1. PICK A : A = DOMAIN plan.actions
        OBVIOUS
      <3>2. IsFiniteSet(A) /\ keys \in SUBSET A
        BY <1>6, <3>1
      <3> QED
        BY <3>2, FS_Subset
    <2> HIDE DEF keys, R
    <2>3. PICK g : g = f
      OBVIOUS
    <2>4. DOMAIN g = keys /\ g = [k \in keys |-> g[k]]
      BY <2>3
    <2>5. IsFiniteSet({g[k] : k \in keys})
      BY <2>2, <2>4, FiniteValues
    <2>6. R \in SUBSET {g[k] : k \in keys}
      BY <2>1, <2>3
    <2> QED
      BY <2>5, <2>6, FS_Subset
  <1> HIDE DEF R
  <1>9. HandsOver(n, m, InKeyOrder(R))
    BY <1>1, <1>7, <1>8, HandsOverSet
  <1>10. HandsOver(n, d.node, InKeyOrder(R) \o InKeyOrder(Entries(NonEmpty(d.deliver))))
    BY <1>5, <1>9, HandsOverBoth
  <1> QED
    BY <1>2, <1>4, <1>10 DEF a

\* exclude freezes the core, so confirm_crash drains nothing: no output is lost
\* although node.rs drops what it returns.
LEMMA ExcludeReady ==
    ASSUME NEW p \in Proc, NEW n, NEW next, Ready(p, n, next), NEW d, NEW victim \in Proc
    PROVE  LET m == Exclude(p, n, d, victim).node
           IN  Ready(p, m, next) /\ m.done = n.done
  <1> DEFINE m == Exclude(p, n, d, victim).node
             f == [[n EXCEPT !.frozen = TRUE] EXCEPT !.crashed = @ \cup {victim}]
             r == DrainParked(f)
  <1>0. n \in Node /\ Tidy(n) /\ IssuedClocks(p, n, next)
    BY DEF Ready
  <1>1. CASE victim \in d.dead
    BY <1>1 DEF Exclude
  <1>2. CASE victim \notin d.dead
    <2>1. m = r.node
      BY <1>2 DEF Exclude, ExcludeNow, ConfirmCrash
    <2>2. /\ f \in Node /\ f.frozen = TRUE /\ f.seen = n.seen /\ f.floor = n.floor
          /\ f.nextIssue = n.nextIssue /\ f.done = n.done /\ f.parked = n.parked
      BY <1>0 DEF Node
    <2> HIDE DEF f, m
    <2>3. Tidy(f) /\ Drained(f) = {}
      BY <1>0, <2>2 DEF Tidy, Drained
    <2>4. Releases(f, r.node, r.deliver) /\ Kept(f, r.node) /\ r.deliver = {}
      BY <2>2, <2>3, DrainReleases DEF DrainParked
    <2> HIDE DEF r
    <2>5. KeysOf({}) = {}
      BY DEF KeysOf
    <2>6. Ready(p, r.node, next) /\ r.node.done = n.done
      BY <1>0, <2>2, <2>4, <2>5 DEF Releases, Kept, Ready, IssuedClocks
    <2> QED
      BY <2>1, <2>6 DEF m
  <1> QED
    BY <1>1, <1>2

\* Clocks that issuers go on to use only grow, and what was issued stays so.
Grows(next, more) ==
    /\ next \in [Proc -> Nat] /\ more \in [Proc -> Nat]
    /\ \A q \in Proc : next[q] <= more[q]

LEMMA IssuedGrows ==
    ASSUME NEW next, NEW more, Grows(next, more)
    PROVE  /\ \A c \in [Proc -> Nat] : Below(c, next) => Below(c, more)
           /\ \A t : IssuedTrain(t, next) => IssuedTrain(t, more)
           /\ \A msg : IssuedToken(msg, next) => IssuedToken(msg, more)
  <1>1. ASSUME NEW c \in [Proc -> Nat], Below(c, next) PROVE Below(c, more)
    <2>1. ASSUME NEW q \in Proc PROVE c[q] < more[q]
      <3>1. c[q] \in Nat /\ next[q] \in Nat /\ more[q] \in Nat /\ c[q] < next[q] /\ next[q] <= more[q]
        BY <1>1 DEF Below, Grows
      <3> QED
        BY <3>1
    <2> QED
      BY <2>1 DEF Below
  <1>2. ASSUME NEW t, IssuedTrain(t, next) PROVE IssuedTrain(t, more)
    <2>1. /\ t \in Train /\ t.clock \in Nat /\ t.issuer \in Proc /\ t.clock >= 1
          /\ t.clock < next[t.issuer]
      BY <1>2 DEF IssuedTrain, Train
    <2>2. /\ next[t.issuer] \in Nat /\ more[t.issuer] \in Nat
          /\ next[t.issuer] <= more[t.issuer]
      BY <2>1 DEF Grows
    <2>3. t.clock < more[t.issuer]
      BY <2>1, <2>2
    <2> QED
      BY <2>1, <2>3 DEF IssuedTrain
  <1>3. ASSUME NEW R, IssuedReports(R, next) PROVE IssuedReports(R, more)
    <2>1. ASSUME NEW r \in R PROVE Below(r[2].seen, more) /\ Below(r[2].issued, more)
      <3>1. r[2].seen \in [Proc -> Nat] /\ r[2].issued \in [Proc -> Nat]
        BY <1>3 DEF IssuedReports, Report
      <3>2. Below(r[2].seen, next) /\ Below(r[2].issued, next)
        BY <1>3 DEF IssuedReports
      <3> QED
        BY <1>1, <3>1, <3>2
    <2> QED
      BY <1>3, <2>1 DEF IssuedReports
  <1>4. ASSUME NEW plan, IssuedPlan(plan, next) PROVE IssuedPlan(plan, more)
    BY <1>1, <1>4 DEF IssuedPlan, IsPlan
  <1>5. ASSUME NEW msg, IssuedToken(msg, next) PROVE IssuedToken(msg, more)
    BY <1>3, <1>4, <1>5 DEF IssuedToken
  <1> QED
    BY <1>1, <1>2, <1>5

\* The clocks after a branch of the event loop of p leaves its core as n.
Bumped(p, n, next) == [next EXCEPT ![p] = n.nextIssue]

\* reissue_train and the recycling of a train.
LEMMA IssueReady ==
    ASSUME NEW p \in Proc, NEW n, NEW next \in [Proc -> Nat], Ready(p, n, next)
    PROVE  LET m == AfterIssue(n) IN
           /\ m.done = n.done /\ m.nextIssue = n.nextIssue + 1
           /\ Ready(p, m, Bumped(p, m, next))
           /\ IssuedTrain(NewTrain(p, n), Bumped(p, m, next))
  <1> DEFINE m == AfterIssue(n)
             more == Bumped(p, m, next)
  <1>0. n \in Node /\ Tidy(n) /\ Drained(n) = {} /\ IssuedClocks(p, n, next)
    BY DEF Ready
  <1>1. /\ NewTrain(p, n) \in Train /\ m \in Node
        /\ m.done = n.done /\ m.parked = n.parked /\ m.crashed = n.crashed /\ m.seen = n.seen
        /\ m.nextIssue = n.nextIssue + 1
    BY <1>0, IssueEffect
  <1>2. m.floor = n.floor /\ m.frozen = n.frozen
    BY <1>0 DEF AfterIssue, Node
  <1>3. NewTrain(p, n).issuer = p /\ NewTrain(p, n).clock = n.nextIssue
    BY DEF NewTrain
  <1> HIDE DEF m
  <1>4. n.nextIssue \in Nat /\ n.nextIssue = next[p] /\ n.seen \in [Proc -> Nat]
        /\ n.floor \in [Proc -> Nat] /\ Below(n.seen, next) /\ Below(n.floor, next)
    BY <1>0 DEF IssuedClocks, Node
  <1>5. n.nextIssue >= 1
    <2>1. n.seen[p] \in Nat /\ n.seen[p] < n.nextIssue
      BY <1>4 DEF Below
    <2> QED
      BY <1>4, <2>1
  <1>6. more \in [Proc -> Nat] /\ more[p] = n.nextIssue + 1 /\ \A q \in Proc : next[q] <= more[q]
    BY <1>1, <1>4 DEF Bumped
  <1> HIDE DEF more
  <1>7. Grows(next, more)
    BY <1>6 DEF Grows
  <1>8. Below(n.seen, more) /\ Below(n.floor, more)
    BY <1>4, <1>7, IssuedGrows
  <1>9. Watches(n, m)
    BY <1>1, <1>2, <1>4 DEF Watches
  <1>10. Tidy(m) /\ Drained(m) = {}
    BY <1>0, <1>1, <1>9, WatchesTidy
  <1>11. Ready(p, m, more)
    BY <1>1, <1>2, <1>6, <1>8, <1>10 DEF Ready, IssuedClocks
  <1>12. IssuedTrain(NewTrain(p, n), more)
    BY <1>1, <1>3, <1>4, <1>5, <1>6 DEF IssuedTrain
  <1> QED
    BY <1>1, <1>11, <1>12 DEF m, more

-----------------------------------------------------------------------------
(* The view change passes on what was issued. *)

OneIssued(f, next) == f = <<>> \/ \E x : IssuedTrain(x, next) /\ f = <<x>>
OneSound(s, next) == s = <<>> \/ \E x : IssuedToken(x, next) /\ s = <<x>>
OnePlan(s, next) == s = <<>> \/ \E x : IssuedPlan(x, next) /\ s = <<x>>

SoundVc(r, next) == OnePlan(r.apply, next) /\ OneSound(r.send, next)

\* Reports with one more are still such reports.
LEMMA ReportsGrow ==
    ASSUME NEW R, NEW next, IssuedReports(R, next), NEW p \in Proc, NEW report \in Report,
           Below(report.seen, next), Below(report.issued, next)
    PROVE  IssuedReports(R \cup {<<p, report>>}, next)
  <1> DEFINE x == <<p, report>>
  <1>1. IsFiniteSet(R) /\ R \subseteq Proc \X Report
    BY DEF IssuedReports
  <1>2. IsFiniteSet(R \cup {x})
    BY <1>1, FS_AddElement
  <1>3. R \cup {x} \subseteq Proc \X Report
    BY <1>1
  <1>4. \A r \in R \cup {x} : Below(r[2].seen, next) /\ Below(r[2].issued, next)
    BY DEF IssuedReports
  <1> QED
    BY <1>2, <1>3, <1>4 DEF IssuedReports

\* on_confirm
LEMMA ConfirmSound ==
    ASSUME NEW p \in Proc, NEW v, NEW victim, NEW report \in Report, NEW next,
           Below(report.seen, next), Below(report.issued, next)
    PROVE  SoundVc(OnConfirm(p, v, victim, report), next)
  <1> DEFINE w == [v EXCEPT !.dead = @ \cup {victim}]
             R == {<<p, report>>}
             g == Gather(v.installed + 1, Coordinator(p, w), victim, R)
             r == OnConfirm(p, v, victim, report)
  <1>1. IssuedReports(R, next)
    <2>1. IssuedReports({}, next)
      BY FS_EmptySet DEF IssuedReports
    <2>2. IssuedReports({} \cup {<<p, report>>}, next)
      BY <2>1, ReportsGrow
    <2> QED
      BY <2>2
  <1> HIDE DEF R
  <1>2. IssuedToken(g, next)
    BY <1>1 DEF IssuedToken, Gather
  <1>3. r.apply = <<>> /\ (r.send = <<>> \/ r.send = <<g>>)
    BY DEF OnConfirm, NoAction, VcResult, R
  <1> HIDE DEF g, r
  <1>4. SoundVc(r, next)
    BY <1>2, <1>3 DEF SoundVc, OnePlan, OneSound
  <1> QED
    BY <1>4 DEF r

\* on_gather: the plan merges reports that the token carries.
LEMMA GatherSound ==
    ASSUME NEW p \in Proc, NEW v, NEW msg, NEW report \in Report, NEW next \in [Proc -> Nat],
           \A q \in Proc : next[q] >= 1,
           Below(report.seen, next), Below(report.issued, next),
           IssuedToken(msg, next), msg.type = "Gather"
    PROVE  SoundVc(OnGather(p, v, msg, report), next)
  <1> DEFINE r    == OnGather(p, v, msg, report)
             w    == [v EXCEPT !.dead = @ \cup {msg.victim}]
             reps == IF \E x \in msg.reports : x[1] = p
                       THEN msg.reports ELSE msg.reports \cup {<<p, report>>}
             R    == {x[2] : x \in reps}
             plan == ComputeRecoveryPlan(R)
             i    == Install(msg.view, msg.coord, msg.victim, plan)
             g    == [msg EXCEPT !.reports = reps]
  <1>1. /\ msg = Gather(msg.view, msg.coord, msg.victim, msg.reports)
        /\ IssuedReports(msg.reports, next)
    BY DEF IssuedToken
  <1>2. IssuedReports(reps, next)
    BY <1>1, ReportsGrow
  <1>3. \/ r = [vc |-> v, apply |-> <<>>, send |-> <<>>]
        \/ r = [vc |-> [w EXCEPT !.installed = msg.view], apply |-> <<plan>>, send |-> <<i>>]
        \/ r = [vc |-> w, apply |-> <<>>, send |-> <<g>>]
    BY DEF OnGather, AnswerGather, NoAction, VcResult
  <1> HIDE DEF reps, r, w
  <1>4. g = Gather(msg.view, msg.coord, msg.victim, reps)
    BY <1>1 DEF Gather
  <1>5. IssuedToken(g, next)
    BY <1>2, <1>4 DEF IssuedToken, Gather
  <1>6. IsFiniteSet(R)
    <2> DEFINE f == [x \in reps |-> x[2]]
    <2>1. IsFiniteSet(reps)
      BY <1>2 DEF IssuedReports
    <2>2. PICK h : h = f
      OBVIOUS
    <2>3. DOMAIN h = reps /\ h = [x \in reps |-> h[x]]
      BY <2>2
    <2>4. IsFiniteSet({h[x] : x \in reps})
      BY <2>1, <2>3, FiniteValues
    <2>5. R = {f[x] : x \in reps}
      OBVIOUS
    <2> QED
      BY <2>2, <2>4, <2>5
  <1>7. R \in SUBSET Report /\ \A x \in R : Below(x.seen, next) /\ Below(x.issued, next)
    BY <1>2 DEF IssuedReports
  <1> HIDE DEF R
  <1>8. IssuedPlan(plan, next)
    BY <1>6, <1>7, PlanIssued
  <1> HIDE DEF plan
  <1>9. IssuedToken(i, next)
    BY <1>8 DEF IssuedToken, Install
  <1> HIDE DEF i, g
  <1>10. SoundVc(r, next)
    BY <1>3, <1>5, <1>8, <1>9 DEF SoundVc, OnePlan, OneSound
  <1> QED
    BY <1>10 DEF r

\* on_install
LEMMA InstallSound ==
    ASSUME NEW v, NEW msg, NEW next, IssuedToken(msg, next), msg.type # "Gather"
    PROVE  SoundVc(OnInstall(v, msg), next)
  <1> DEFINE r == OnInstall(v, msg)
  <1>1. IssuedPlan(msg.plan, next)
    BY DEF IssuedToken
  <1>2. \/ r.apply = <<>> /\ r.send = <<>>
        \/ r.apply = <<msg.plan>> /\ r.send = <<msg>>
    BY DEF OnInstall, NoAction, VcResult
  <1> HIDE DEF r
  <1>3. SoundVc(r, next)
    BY <1>1, <1>2 DEF SoundVc, OnePlan, OneSound
  <1> QED
    BY <1>3 DEF r

-----------------------------------------------------------------------------
(* What a branch of the event loop leaves of the core n of p. *)

Sound(p, n, o, next) ==
    /\ Ready(p, o.node, Bumped(p, o.node, next)) /\ Grows(next, Bumped(p, o.node, next))
    /\ HandsOver(n, o.node, o.deliver)
    /\ OneIssued(o.forward, Bumped(p, o.node, next))
    /\ OneSound(o.send, Bumped(p, o.node, next))

\* Tokens and clocks of a core that issues nothing.
LEMMA NothingIssued ==
    ASSUME NEW p \in Proc, NEW n, NEW next \in [Proc -> Nat], Ready(p, n, next)
    PROVE  Bumped(p, n, next) = next /\ Grows(next, next)
  BY DEF Ready, IssuedClocks, Bumped, Grows

\* execute, on a core with the finished keys of n.
LEMMA ExecuteSound ==
    ASSUME NEW p \in Proc, NEW n, NEW m, NEW next \in [Proc -> Nat], Ready(p, m, next),
           m.done = n.done, NEW d, NEW r, SoundVc(r, next)
    PROVE  Sound(p, n, Execute(p, m, d, r), next)
  <1> DEFINE o == Execute(p, m, d, r)
             e == [d EXCEPT !.vc = r.vc]
  <1>0. Grows(next, next)
    BY NothingIssued
  <1>1. CASE r.apply = <<>>
    <2>1. o.node = m /\ o.forward = <<>> /\ o.send = r.send /\ o.deliver = <<>>
      BY <1>1 DEF Execute, Outcome
    <2> HIDE DEF o
    <2>2. HandsOver(n, m, <<>>)
      BY HandsOverNothing
    <2>3. Bumped(p, m, next) = next
      BY NothingIssued
    <2>4. Sound(p, n, o, next)
      BY <1>0, <2>1, <2>2, <2>3 DEF Sound, OneIssued, SoundVc
    <2> QED
      BY <2>4 DEF o
  <1>2. ASSUME NEW plan, IssuedPlan(plan, next), r.apply = <<plan>>
        PROVE  Sound(p, n, o, next)
    <2> DEFINE a == ApplyRecovery(p, m, plan)
               s == InKeyOrder(a.recovered) \o InKeyOrder(a.drained)
    <2>1. Ready(p, a.node, next) /\ HandsOver(m, a.node, s)
      BY <1>2, RecoveryReady
    <2>2. /\ r.apply # <<>> /\ r.apply[1] = plan
      BY <1>2
    <2>3. IF p \in Issuer
            THEN /\ o.node = AfterIssue(a.node) /\ o.forward = <<NewTrain(p, a.node)>>
                 /\ o.send = r.send /\ o.deliver = s
            ELSE o.node = a.node /\ o.forward = <<>> /\ o.send = r.send /\ o.deliver = s
      BY <2>2 DEF Execute, Outcome
    <2> HIDE DEF a, s, o
    <2>4. HandsOver(n, a.node, s)
      BY <2>1 DEF HandsOver
    <2>5. CASE p \notin Issuer
      <3>1. Bumped(p, a.node, next) = next
        BY <2>1, NothingIssued
      <3> QED
        BY <1>0, <2>1, <2>3, <2>4, <2>5, <3>1 DEF Sound, OneIssued, SoundVc
    <2>6. CASE p \in Issuer
      <3> DEFINE k == AfterIssue(a.node)
                 more == Bumped(p, k, next)
      <3>1. /\ k.done = a.node.done /\ k.nextIssue = a.node.nextIssue + 1
            /\ Ready(p, k, more) /\ IssuedTrain(NewTrain(p, a.node), more)
        BY <2>1, IssueReady
      <3>2. a.node.nextIssue \in Nat /\ a.node.nextIssue = next[p]
        BY <2>1 DEF Ready, IssuedClocks, Node
      <3> HIDE DEF k
      <3>3. Grows(next, more)
        BY <3>1, <3>2 DEF Grows, Bumped
      <3>4. HandsOver(n, k, s)
        BY <2>4, <3>1 DEF HandsOver
      <3>5. OneSound(r.send, more)
        BY <3>3, IssuedGrows DEF SoundVc, OneSound
      <3>6. OneIssued(<<NewTrain(p, a.node)>>, more)
        BY <3>1 DEF OneIssued
      <3> HIDE DEF more
      <3>7. o.node = k /\ Bumped(p, o.node, next) = more
        BY <2>3, <2>6 DEF k, more
      <3> QED
        BY <2>3, <2>6, <3>1, <3>3, <3>4, <3>5, <3>6, <3>7 DEF Sound
    <2> QED
      BY <2>5, <2>6
  <1> QED
    BY <1>1, <1>2 DEF SoundVc, OnePlan

\* What process_outs makes of a train, hint or no hint.
LEMMA TrainOutcome ==
    ASSUME ExclusionInv, NEW p \in Proc, NEW t \in Train
    PROVE  LET r == HandleTrain(p, node[p], t)
               o == OnTrain(p, t)
               e == InKeyOrder(Entries(r.deliver))
           IN  /\ o.node = r.node /\ o.send = <<>>
               /\ o.forward = SetToSeq(r.forward) \/ o.forward = <<>> \o SetToSeq(r.forward)
               /\ o.deliver = e \/ o.deliver = <<>> \o e
  <1> DEFINE a == NoteAlive(driver[p].detector, t.issuer)
             d == [driver[p] EXCEPT !.detector = a]
             r == HandleTrain(p, node[p], t)
             h == RecordGapHint(a, t.issuer)
             f == SetToSeq(r.forward)
             x == InKeyOrder(Entries(r.deliver))
             o == OnEvidence(p, r.node, d, RecordGapHint(d.detector, t.issuer), t.issuer)
  <1>0. t.issuer \in Proc
    BY DEF Train
  <1>1. driver[p] \in Driver /\ FewStrikes(driver[p].detector)
    BY DEF ExclusionInv, FewStrikes, Driver, Detector
  <1>2. ~NewlyConfirmed(a, h, t.issuer)
    BY <1>0, <1>1, HintConfirmsNobody
  <1> HIDE DEF r
  <1>3. CASE r.suspect = {}
    <2>1. OnTrain(p, t) = [node |-> r.node, driver |-> d, forward |-> f, send |-> <<>>,
                           deliver |-> x]
      BY <1>3 DEF OnTrain, Outcome, r
    <2> HIDE DEF f, x, d
    <2> QED
      BY <2>1 DEF r, f, x
  <1>4. CASE r.suspect # {}
    <2>1. d.detector = a
      BY <1>1 DEF Driver
    <2>2. OnTrain(p, t) = [o EXCEPT !.forward = @ \o f, !.deliver = @ \o x]
      BY <1>4 DEF OnTrain, r
    <2> HIDE DEF a, h, f, x
    <2>3. /\ o.node = r.node /\ o.forward = <<>> /\ o.send = <<>> /\ o.deliver = <<>>
          /\ \E e : o = [node |-> r.node, driver |-> e, forward |-> <<>>, send |-> <<>>,
                         deliver |-> <<>>]
      BY <1>2, <2>1 DEF OnEvidence, Outcome, h
    <2> HIDE DEF o
    <2>4. /\ OnTrain(p, t).node = r.node /\ OnTrain(p, t).send = <<>>
          /\ OnTrain(p, t).forward = <<>> \o f /\ OnTrain(p, t).deliver = <<>> \o x
      BY <2>2, <2>3
    <2> QED
      BY <2>4 DEF r, f, x
  <1> QED
    BY <1>3, <1>4

\* A train.
LEMMA TrainSound ==
    ASSUME ExclusionInv, NEW p \in Proc, NEW next \in [Proc -> Nat], Ready(p, node[p], next),
           NEW t, IssuedTrain(t, next)
    PROVE  Sound(p, node[p], OnTrain(p, t), next)
  <1> DEFINE n == node[p]
             r == HandleTrain(p, n, t)
             m == r.node
             f == SetToSeq(r.forward)
             e == InKeyOrder(Entries(r.deliver))
             more == Bumped(p, m, next)
             o == OnTrain(p, t)
  <1>0. /\ n \in Node /\ Tidy(n) /\ Drained(n) = {} /\ IssuedClocks(p, n, next)
        /\ t \in Train /\ t.clock >= 1 /\ t.clock \in Nat /\ t.issuer \in Proc
        /\ t.clock < next[t.issuer]
    BY DEF Ready, IssuedTrain, Train
  <1>1. /\ \E D : Releases(n, m, D) /\ r.deliver = NonEmpty(D)
        /\ Advances(p, n, t, r)
    BY <1>0, HandleReleases
  <1>2. /\ o.node = m /\ o.send = <<>> /\ (o.forward = f \/ o.forward = <<>> \o f)
        /\ o.deliver = e \/ o.deliver = <<>> \o e
    BY <1>0, TrainOutcome
  <1> HIDE DEF r, o, n
  <1>3. PICK D : Releases(n, m, D) /\ r.deliver = NonEmpty(D)
    BY <1>1
  <1>4. HandsOver(n, m, e)
    BY <1>3, HandsOverReleased
  <1> HIDE DEF m, e
  <1>5. o.deliver = e
    <2>1. e \in Seq(CacheEntry)
      BY <1>4 DEF HandsOver
    <2> QED
      BY <1>2, <2>1
  <1>6. /\ n.seen \in [Proc -> Nat] /\ n.nextIssue \in Nat /\ n.nextIssue = next[p]
        /\ n.floor \in [Proc -> Nat] /\ m \in Node /\ m.floor = n.floor
        /\ Tidy(m) /\ Drained(m) = {} /\ m.nextIssue \in Nat
    BY <1>0, <1>3 DEF Node, IssuedClocks, Releases
  <1>7. m.nextIssue = n.nextIssue \/ m.nextIssue = n.nextIssue + 1
    BY <1>1 DEF Advances, m
  <1>8. more \in [Proc -> Nat] /\ more[p] = m.nextIssue /\ Grows(next, more)
    <2>1. more \in [Proc -> Nat] /\ more[p] = m.nextIssue /\ \A q \in Proc : next[q] <= more[q]
      BY <1>6, <1>7 DEF Bumped
    <2> QED
      BY <2>1 DEF Grows
  <1> HIDE DEF more
  <1>9. Below(m.seen, next)
    <2>1. ASSUME NEW q \in Proc PROVE m.seen[q] < next[q]
      <3>1. m.seen[q] = n.seen[q] \/ (q = t.issuer /\ m.seen[q] = t.clock)
        BY <1>1 DEF Advances, m
      <3>2. n.seen[q] < next[q]
        BY <1>0 DEF IssuedClocks, Below
      <3> QED
        BY <1>0, <3>1, <3>2
    <2> QED
      BY <2>1 DEF Below
  <1>10. Below(m.floor, next) /\ m.seen \in [Proc -> Nat]
    BY <1>0, <1>6 DEF IssuedClocks, Node
  <1>11. Below(m.seen, more) /\ Below(m.floor, more)
    BY <1>6, <1>8, <1>9, <1>10, IssuedGrows
  <1>12. Ready(p, m, more)
    BY <1>6, <1>8, <1>11 DEF Ready, IssuedClocks
  <1>13. OneIssued(f, more) /\ f = <<>> \o f
    <2>1. CASE r.forward = {}
      <3>1. f = <<>>
        BY <2>1, SetToSeqOne
      <3> QED
        BY <3>1 DEF OneIssued
    <2>2. ASSUME NEW x \in Train, r.forward = {x}, IssuedTrain(x, more)
          PROVE  OneIssued(f, more) /\ f = <<>> \o f
      <3>1. f = <<x>>
        BY <2>2, SetToSeqOne
      <3> HIDE DEF f
      <3>2. f = <<>> \o f
        BY <3>1
      <3> QED
        BY <2>2, <3>1, <3>2 DEF OneIssued
    <2>3. ASSUME NEW x \in Train, r.forward = {x}, KeyOf(x) = KeyOf(t)
          PROVE  OneIssued(f, more) /\ f = <<>> \o f
      <3>1. IssuedTrain(x, next)
        BY <1>0, <2>3 DEF IssuedTrain, KeyOf
      <3>2. IssuedTrain(x, more)
        BY <1>8, <3>1, IssuedGrows
      <3> QED
        BY <2>2, <2>3, <3>2
    <2>4. ASSUME m.nextIssue = n.nextIssue + 1, NEW x \in Train, r.forward = {x},
                 KeyOf(x) = <<n.nextIssue, p>>
          PROVE  OneIssued(f, more) /\ f = <<>> \o f
      <3>1. x.clock = n.nextIssue /\ x.issuer = p
        BY <2>4 DEF KeyOf
      <3>2. n.nextIssue >= 1
        <4>1. n.seen[p] \in Nat /\ n.seen[p] < n.nextIssue
          BY <1>0, <1>6 DEF IssuedClocks, Below
        <4> QED
          BY <1>6, <4>1
      <3>3. x.clock < more[x.issuer] /\ x.clock >= 1
        BY <1>6, <1>8, <2>4, <3>1, <3>2
      <3>4. IssuedTrain(x, more)
        BY <2>4, <3>3 DEF IssuedTrain
      <3> QED
        BY <2>2, <2>4, <3>4
    <2> QED
      BY <1>1, <2>1, <2>3, <2>4 DEF Advances, m
  <1> HIDE DEF f
  <1>14. Sound(p, n, o, next)
    BY <1>2, <1>4, <1>5, <1>8, <1>12, <1>13 DEF Sound, OneSound, more
  <1> QED
    BY <1>14 DEF n, o

\* A token.
LEMMA TokenSound ==
    ASSUME NEW p \in Proc, NEW next \in [Proc -> Nat], Ready(p, node[p], next),
           NEW msg, IssuedToken(msg, next), msg.victim \in Proc,
           \A q \in Proc : next[q] >= 1
    PROVE  Sound(p, node[p], OnToken(p, msg), next)
  <1> DEFINE x == Exclude(p, node[p], driver[p], msg.victim)
             v == x.driver.vc
             report == RecoveryReport(p, x.node)
             r == IF msg.type = "Gather" THEN OnGather(p, v, msg, report)
                                         ELSE OnInstall(v, msg)
  <1>1. Ready(p, x.node, next) /\ x.node.done = node[p].done
    BY ExcludeReady
  <1>2. OnToken(p, msg) = Execute(p, x.node, x.driver, r)
    BY DEF OnToken
  <1> HIDE DEF x
  <1>3. report \in Report /\ Below(report.seen, next) /\ Below(report.issued, next)
    BY <1>1, ReportIssued DEF Ready, IssuedClocks
  <1> HIDE DEF v, report
  <1>4. SoundVc(r, next)
    BY <1>3, GatherSound, InstallSound
  <1> HIDE DEF r
  <1> QED
    BY <1>1, <1>2, <1>4, ExecuteSound

\* A disconnect.
LEMMA DisconnectSound ==
    ASSUME NEW p \in Proc, NEW next \in [Proc -> Nat], Ready(p, node[p], next),
           NEW victim \in Proc, NEW det
    PROVE  Sound(p, node[p], OnEvidence(p, node[p], driver[p], det, victim), next)
  <1> DEFINE e == [driver[p] EXCEPT !.detector = det]
             x == Exclude(p, node[p], e, victim)
             report == RecoveryReport(p, x.node)
             r == OnConfirm(p, x.driver.vc, victim, report)
             y == OnEvidence(p, node[p], driver[p], det, victim)
  <1>1. Ready(p, x.node, next) /\ x.node.done = node[p].done
    BY ExcludeReady
  <1>2. \/ y = Execute(p, x.node, x.driver, r)
        \/ /\ y.node = node[p] /\ y.forward = <<>> /\ y.send = <<>> /\ y.deliver = <<>>
    BY DEF OnEvidence, Outcome
  <1> HIDE DEF x, y
  <1>3. report \in Report /\ Below(report.seen, next) /\ Below(report.issued, next)
    BY <1>1, ReportIssued DEF Ready, IssuedClocks
  <1> HIDE DEF report
  <1>4. SoundVc(r, next)
    BY <1>3, ConfirmSound
  <1> HIDE DEF r
  <1>5. Sound(p, node[p], Execute(p, x.node, x.driver, r), next)
    BY <1>1, <1>4, ExecuteSound
  <1>6. ASSUME y.node = node[p], y.forward = <<>>, y.send = <<>>, y.deliver = <<>>
        PROVE  Sound(p, node[p], y, next)
    <2>1. HandsOver(node[p], node[p], <<>>)
      BY HandsOverNothing
    <2>2. Bumped(p, node[p], next) = next /\ Grows(next, next)
      BY NothingIssued
    <2> QED
      BY <1>6, <2>1, <2>2 DEF Sound, OneIssued, OneSound
  <1>7. Sound(p, node[p], y, next)
    BY <1>2, <1>5, <1>6
  <1> QED
    BY <1>7 DEF y

-----------------------------------------------------------------------------
(* The invariant of the recovering ring *)

\* What the invariant says of one process and of the clocks.
LEMMA RecoveryForm ==
    ASSUME RecoveryInv
    PROVE  /\ NextIssue \in [Proc -> Nat] /\ \A q \in Proc : NextIssue[q] >= 1
           /\ \A p \in Proc : Ready(p, node[p], NextIssue)
           /\ \A q \in Proc : NextIssue[q] = node[q].nextIssue
  <1>1. node \in [Proc -> Node] /\ \A q \in Proc : node[q].nextIssue \in Nat
    BY DEF RecoveryInv, Node
  <1>2. NextIssue \in [Proc -> Nat] /\ \A q \in Proc : NextIssue[q] = node[q].nextIssue
    BY <1>1 DEF NextIssue
  <1>3. \A p \in Proc : Ready(p, node[p], NextIssue)
    BY <1>1, <1>2 DEF RecoveryInv, Ready, IssuedClocks
  <1>4. ASSUME NEW q \in Proc PROVE NextIssue[q] >= 1
    <2>1. node[q].seen[q] \in Nat /\ node[q].seen[q] < NextIssue[q] /\ NextIssue[q] \in Nat
      BY <1>1, <1>2 DEF RecoveryInv, Below, Node
    <2> QED
      BY <2>1
  <1> QED
    BY <1>2, <1>3, <1>4

\* A log of finished keys, each once; it stays one as it grows by a handover.
Finished(n, l) ==
    /\ l \in Seq(CacheEntry)
    /\ \A i, j \in 1..Len(l) : l[i].key \in n.done /\ (l[i].key = l[j].key => i = j)

LEMMA LogGrows ==
    ASSUME NEW n, NEW m, NEW l, NEW s, Finished(n, l), HandsOver(n, m, s)
    PROVE  Finished(m, l \o s)
  <1> DEFINE none == [done |-> {}]
  <1>1. HandsOver(none, n, l)
    BY DEF HandsOver, Finished
  <1>2. HandsOver(none, m, l \o s)
    <2> HIDE DEF none
    <2> QED
      BY <1>1, HandsOverBoth
  <1> QED
    BY <1>2 DEF HandsOver, Finished

\* A step in which p goes from its core to m and hands s to its application.
LEMMA KeepsRecovery ==
    ASSUME RecoveryInv, NEW p \in Proc, NEW m, NEW s,
           Ready(p, m, Bumped(p, m, NextIssue)), Grows(NextIssue, Bumped(p, m, NextIssue)),
           HandsOver(node[p], m, s),
           node' = [node EXCEPT ![p] = m], log' = [log EXCEPT ![p] = @ \o s],
           lost' \in 0..MaxLost, NEW T, NEW M,
           trains' \in [Proc -> [Proc -> Seq(T)]], tokens' \in [Proc -> [Proc -> Seq(M)]],
           \A t \in T : IssuedTrain(t, Bumped(p, m, NextIssue)),
           \A x \in M : IssuedToken(x, Bumped(p, m, NextIssue))
    PROVE  RecoveryInv'
  <1> DEFINE more == Bumped(p, m, NextIssue)
  <1>1. /\ NextIssue \in [Proc -> Nat] /\ \A q \in Proc : NextIssue[q] = node[q].nextIssue
        /\ \A q \in Proc : Ready(q, node[q], NextIssue)
    BY RecoveryForm
  <1>2. node \in [Proc -> Node] /\ log \in [Proc -> Seq(CacheEntry)] /\ m \in Node
    BY DEF RecoveryInv, Ready
  <1>3. node' \in [Proc -> Node] /\ node'[p] = m /\ \A q \in Proc \ {p} : node'[q] = node[q]
    BY <1>2
  <1>4. NextIssue' = more
    <2>1. NextIssue' = [q \in Proc |-> node'[q].nextIssue]
      BY DEF NextIssue
    <2>2. \A q \in Proc : more[q] = node'[q].nextIssue
      BY <1>1, <1>2, <1>3 DEF Bumped
    <2>3. more = [q \in Proc |-> more[q]]
      BY <1>1 DEF Bumped
    <2> HIDE DEF more
    <2> QED
      BY <2>1, <2>2, <2>3
  <1> HIDE DEF more
  <1>5. Ready(p, m, more) /\ Grows(NextIssue, more)
    BY DEF more
  <1>6. ASSUME NEW q \in Proc
        PROVE  /\ Tidy(node'[q]) /\ Drained(node'[q]) = {}
               /\ Below(node'[q].seen, more) /\ Below(node'[q].floor, more)
    <2>1. CASE q = p
      BY <1>3, <1>5, <2>1 DEF Ready, IssuedClocks
    <2>2. CASE q # p
      <3>1. node'[q] = node[q] /\ Ready(q, node[q], NextIssue)
        BY <1>1, <1>3, <2>2
      <3>2. /\ node[q].seen \in [Proc -> Nat] /\ node[q].floor \in [Proc -> Nat]
            /\ Below(node[q].seen, NextIssue) /\ Below(node[q].floor, NextIssue)
        BY <3>1 DEF Ready, IssuedClocks, Node
      <3>3. Below(node[q].seen, more) /\ Below(node[q].floor, more)
        BY <1>5, <3>2, IssuedGrows
      <3> QED
        BY <3>1, <3>3 DEF Ready
    <2> QED
      BY <2>1, <2>2
  <1>7. \A q \in Proc : Finished(node[q], log[q])
    BY <1>2 DEF RecoveryInv, NoKeyTwice, Finished
  <1>8. Finished(m, log[p] \o s)
    BY <1>7, LogGrows
  <1>9. /\ log' \in [Proc -> Seq(CacheEntry)]
        /\ log'[p] = log[p] \o s /\ \A q \in Proc \ {p} : log'[q] = log[q]
    BY <1>2, <1>8 DEF Finished
  <1>10. NoKeyTwice'
    <2>1. \A q \in Proc : Finished(node'[q], log'[q])
      BY <1>3, <1>7, <1>8, <1>9
    <2> QED
      BY <2>1 DEF NoKeyTwice, Finished
  <1>11. Carried(trains') \subseteq T /\ Carried(tokens') \subseteq M
    BY CarriedType
  <1>12. /\ \A t \in Carried(trains') : IssuedTrain(t, more)
         /\ \A x \in Carried(tokens') : IssuedToken(x, more)
    BY <1>11 DEF more
  <1> QED
    BY <1>3, <1>4, <1>6, <1>9, <1>10, <1>12 DEF RecoveryInv

\* Taking or cutting messages of one link.
LEMMA DropsTyped ==
    ASSUME NEW T, NEW links \in [Proc -> [Proc -> Seq(T)]], NEW p \in Proc, NEW q \in Proc
    PROVE  /\ links[p][q] # <<>> =>
                 /\ Head(links[p][q]) \in T
                 /\ [links EXCEPT ![p][q] = Tail(@)] \in [Proc -> [Proc -> Seq(T)]]
           /\ \A i \in 0..Len(links[p][q]) :
                 [links EXCEPT ![p][q] = SubSeq(@, 1, i)] \in [Proc -> [Proc -> Seq(T)]]
  <1>1. links[p][q] \in Seq(T)
    OBVIOUS
  <1>2. ASSUME links[p][q] # <<>>
        PROVE  /\ Head(links[p][q]) \in T
               /\ [links EXCEPT ![p][q] = Tail(@)] \in [Proc -> [Proc -> Seq(T)]]
    <2>1. Head(links[p][q]) \in T /\ Tail(links[p][q]) \in Seq(T)
      BY <1>1, <1>2
    <2> QED
      BY <2>1
  <1>3. ASSUME NEW i \in 0..Len(links[p][q])
        PROVE  [links EXCEPT ![p][q] = SubSeq(@, 1, i)] \in [Proc -> [Proc -> Seq(T)]]
    <2>1. SubSeq(links[p][q], 1, i) \in Seq(T)
      BY <1>1, CutSeq
    <2> QED
      BY <2>1
  <1> QED
    BY <1>2, <1>3

\* A process that becomes o, having read from ts or ms.
LEMMA BecomeRecovers ==
    ASSUME ExclusionInv, RecoveryInv, NEW p \in Proc, NEW o, Sound(p, node[p], o, NextIssue),
           o.driver.succ \in Proc, NEW ts, NEW ms, NEW T, NEW M,
           ts \in [Proc -> [Proc -> Seq(T)]], ms \in [Proc -> [Proc -> Seq(M)]],
           \A t \in T : IssuedTrain(t, NextIssue), \A x \in M : IssuedToken(x, NextIssue),
           Become(p, o, ts, ms), lost' = lost
    PROVE  RecoveryInv'
  <1> DEFINE more == Bumped(p, o.node, NextIssue)
  <1>1. /\ Ready(p, o.node, more) /\ Grows(NextIssue, more)
        /\ HandsOver(node[p], o.node, o.deliver)
        /\ OneIssued(o.forward, more) /\ OneSound(o.send, more)
    BY DEF Sound
  <1>2. /\ \A t \in T : IssuedTrain(t, more)
        /\ \A x \in M : IssuedToken(x, more)
    <2> HIDE DEF more
    <2> QED
      BY <1>1, IssuedGrows
  <1> HIDE DEF more
  <1>3. PICK T2 : T \subseteq T2 /\ (\A t \in T2 : IssuedTrain(t, more)) /\ o.forward \in Seq(T2)
    <2>1. CASE o.forward = <<>>
      <3>1. T \subseteq T /\ (\A t \in T : IssuedTrain(t, more)) /\ o.forward \in Seq(T)
        BY <1>2, <2>1
      <3> QED
        BY <3>1
    <2>2. ASSUME NEW x, IssuedTrain(x, more), o.forward = <<x>>
          PROVE  \E S : T \subseteq S /\ (\A t \in S : IssuedTrain(t, more)) /\ o.forward \in Seq(S)
      <3>1. /\ T \subseteq T \cup {x} /\ \A t \in T \cup {x} : IssuedTrain(t, more)
            /\ o.forward \in Seq(T \cup {x})
        BY <1>2, <2>2
      <3> QED
        BY <3>1
    <2> QED
      BY <1>1, <2>1, <2>2 DEF OneIssued
  <1>4. PICK M2 : M \subseteq M2 /\ (\A m \in M2 : IssuedToken(m, more)) /\ o.send \in Seq(M2)
    <2>1. CASE o.send = <<>>
      <3>1. M \subseteq M /\ (\A m \in M : IssuedToken(m, more)) /\ o.send \in Seq(M)
        BY <1>2, <2>1
      <3> QED
        BY <3>1
    <2>2. ASSUME NEW x, IssuedToken(x, more), o.send = <<x>>
          PROVE  \E S : M \subseteq S /\ (\A m \in S : IssuedToken(m, more)) /\ o.send \in Seq(S)
      <3>1. /\ M \subseteq M \cup {x} /\ \A m \in M \cup {x} : IssuedToken(m, more)
            /\ o.send \in Seq(M \cup {x})
        BY <1>2, <2>2
      <3> QED
        BY <3>1
    <2> QED
      BY <1>1, <2>1, <2>2 DEF OneSound
  <1>5. ts \in [Proc -> [Proc -> Seq(T2)]] /\ ms \in [Proc -> [Proc -> Seq(M2)]]
    <2>1. Seq(T) \subseteq Seq(T2) /\ Seq(M) \subseteq Seq(M2)
      BY <1>3, <1>4, SeqMonotonic
    <2> QED
      BY <2>1
  <1>6. driver[p].succ \in Proc
    BY DEF ExclusionInv, Driver
  <1>7. PICK i \in 0..Len(ts[p][driver[p].succ]), j \in 0..Len(ms[p][driver[p].succ]) :
            /\ trains' = Sent(ts, p, driver[p].succ, o.driver.succ, i, o.forward)
            /\ tokens' = Sent(ms, p, driver[p].succ, o.driver.succ, j, o.send)
    BY DEF Become
  <1>8. trains' \in [Proc -> [Proc -> Seq(T2)]]
    BY <1>3, <1>5, <1>6, <1>7, SentType
  <1>9. tokens' \in [Proc -> [Proc -> Seq(M2)]]
    BY <1>4, <1>5, <1>6, <1>7, SentType
  <1>10. node' = [node EXCEPT ![p] = o.node] /\ log' = [log EXCEPT ![p] = @ \o o.deliver]
    BY DEF Become
  <1>11. lost' \in 0..MaxLost
    BY DEF RecoveryInv
  <1> QED
    BY <1>1, <1>3, <1>4, <1>8, <1>9, <1>10, <1>11, KeepsRecovery DEF more

\* After start-up nothing is seen or finished; the first trains carry clock 1.
LEMMA InitRecovery == Init => RecoveryInv
  <1> SUFFICES ASSUME Init PROVE RecoveryInv
    OBVIOUS
  <1> DEFINE T == {NewTrain(p, NewNode) : p \in Issuer}
             m == AfterIssue(NewNode)
  <1>1. NewNode \in Node /\ NewNode.nextIssue = 1 /\ NewNode.pending = {}
    BY NewNodeType DEF NewNode
  <1>2. /\ m \in Node /\ m.nextIssue = 2 /\ m.seen = NewNode.seen /\ m.done = NewNode.done
        /\ m.parked = NewNode.parked /\ m.floor = NewNode.floor
    <2>1. m.floor = NewNode.floor
      BY DEF AfterIssue, NewNode
    <2> QED
      BY <1>1, <2>1, IssueEffect, RingAssumption DEF Proc
  <1>3. /\ NewNode.done = {} /\ NewNode.parked = {}
        /\ NewNode.seen = [q \in Proc |-> 0] /\ NewNode.floor = [q \in Proc |-> 0]
    BY DEF NewNode
  <1> HIDE DEF m
  <1>4. ASSUME NEW p \in Proc
        PROVE  /\ node[p] \in Node /\ node[p].done = {} /\ node[p].parked = {}
               /\ node[p].seen = [q \in Proc |-> 0] /\ node[p].floor = [q \in Proc |-> 0]
               /\ node[p].nextIssue \in {1, 2} /\ (p \in Issuer => node[p].nextIssue = 2)
    <2>1. node[p] = IF p \in Issuer THEN m ELSE NewNode
      BY DEF Init, m
    <2> QED
      BY <1>1, <1>2, <1>3, <2>1
  <1>5. node \in [Proc -> Node]
    <2>1. node = [p \in Proc |-> node[p]]
      BY DEF Init
    <2> QED
      BY <1>4, <2>1
  <1>6. \A p \in Proc : Tidy(node[p]) /\ Drained(node[p]) = {}
    BY <1>4, FS_EmptySet DEF Tidy, Drained, KeysOf
  <1>7. /\ \A q \in Proc : NextIssue[q] \in {1, 2}
        /\ \A q \in Issuer : NextIssue[q] = 2
    BY <1>4, IssuerIsProc DEF NextIssue
  <1>8. \A p \in Proc : Below(node[p].seen, NextIssue) /\ Below(node[p].floor, NextIssue)
    BY <1>4, <1>7 DEF Below
  <1>9. log \in [Proc -> Seq(CacheEntry)] /\ NoKeyTwice
    BY EmptySeq DEF Init, NoKeyTwice
  <1>10. lost \in 0..MaxLost
    BY ReconfigBounds DEF Init
  <1>11. trains \in [Proc -> [Proc -> Seq(T)]]
    <2>1. \A p \in Issuer : <<NewTrain(p, NewNode)>> \in Seq(T) /\ <<>> \in Seq(T)
      <3> HIDE DEF T
      <3>1. \A p \in Issuer : NewTrain(p, NewNode) \in T
        BY DEF T
      <3> QED
        BY <3>1
    <2>2. <<>> \in Seq(T)
      BY EmptySeq
    <2> HIDE DEF T
    <2> QED
      BY <2>1, <2>2 DEF Init
  <1>12. ASSUME NEW t \in T PROVE IssuedTrain(t, NextIssue)
    <2>1. PICK p \in Issuer : t = NewTrain(p, NewNode)
      BY <1>12
    <2>2. t \in Train /\ t.clock = 1 /\ t.issuer = p
      <3>1. p \in Proc
        BY IssuerIsProc
      <3>2. NewTrain(p, NewNode) \in Train
        BY <1>1, <3>1, IssueEffect
      <3> QED
        BY <1>1, <2>1, <3>2 DEF NewTrain
    <2> QED
      BY <1>7, <2>2 DEF IssuedTrain
  <1> DEFINE M == {}
  <1>13. tokens \in [Proc -> [Proc -> Seq(M)]]
    BY EmptySeq DEF Init
  <1> HIDE DEF T, M
  <1>14. Carried(trains) \subseteq T /\ Carried(tokens) \subseteq M
    BY <1>11, <1>13, CarriedType
  <1> QED
    BY <1>5, <1>6, <1>8, <1>9, <1>10, <1>12, <1>14 DEF RecoveryInv, M

\* handle_broadcast touches no key and no clock.
LEMMA BroadcastReady ==
    ASSUME NEW p \in Proc, NEW n, NEW next, Ready(p, n, next)
    PROVE  LET m == HandleBroadcast(p, n) IN Ready(p, m, next) /\ m.done = n.done
  <1> DEFINE m == HandleBroadcast(p, n)
  <1>0. n \in Node /\ Tidy(n) /\ Drained(n) = {} /\ IssuedClocks(p, n, next)
    BY DEF Ready
  <1>1. <<p, n.nextSeq>> \in Payload /\ n.nextSeq + 1 \in Nat /\ n.seen \in [Proc -> Nat]
    BY <1>0 DEF Node, Payload
  <1>2. /\ m \in Node /\ m.seen = n.seen /\ m.floor = n.floor /\ m.nextIssue = n.nextIssue
        /\ m.done = n.done /\ m.parked = n.parked /\ m.crashed = n.crashed /\ m.frozen = n.frozen
    BY <1>0, <1>1 DEF HandleBroadcast, Node
  <1> HIDE DEF m
  <1>3. Watches(n, m)
    BY <1>1, <1>2 DEF Watches
  <1>4. Tidy(m) /\ Drained(m) = {}
    BY <1>0, <1>2, <1>3, WatchesTidy
  <1>5. Ready(p, m, next)
    BY <1>0, <1>2, <1>4 DEF Ready, IssuedClocks
  <1> QED
    BY <1>2, <1>5 DEF m

\* Every step keeps the invariant.
LEMMA StepRecovery == ExclusionInv /\ RecoveryInv /\ [Next]_vars => RecoveryInv'
  <1> SUFFICES ASSUME ExclusionInv, RecoveryInv, [Next]_vars PROVE RecoveryInv'
    OBVIOUS
  <1> DEFINE T == Carried(trains)
             M == Carried(tokens)
  <1>0. /\ NextIssue \in [Proc -> Nat] /\ \A q \in Proc : NextIssue[q] >= 1
        /\ \A p \in Proc : Ready(p, node[p], NextIssue)
    BY RecoveryForm
  <1>1. /\ trains \in [Proc -> [Proc -> Seq(T)]] /\ tokens \in [Proc -> [Proc -> Seq(M)]]
        /\ \A t \in T : IssuedTrain(t, NextIssue) /\ RingTrain(t)
        /\ \A x \in M : IssuedToken(x, NextIssue) /\ ForCrashed(x, up)
        /\ lost \in 0..MaxLost
    BY DEF ExclusionInv, RecoveryInv, RingTrain, ForCrashed
  <1> HIDE DEF T, M
  <1>i. (\A t \in T : IssuedTrain(t, NextIssue)) /\ (\A x \in M : IssuedToken(x, NextIssue))
    BY <1>1
  <1>2. ASSUME NEW p \in Proc, NEW m, Ready(p, m, NextIssue), m.done = node[p].done,
               node' = [node EXCEPT ![p] = m], log' = log, lost' \in 0..MaxLost,
               trains' \in [Proc -> [Proc -> Seq(T)]], tokens' \in [Proc -> [Proc -> Seq(M)]]
        PROVE  RecoveryInv'
    <2>1. Bumped(p, m, NextIssue) = NextIssue /\ Grows(NextIssue, NextIssue)
      BY <1>0, <1>2, NothingIssued
    <2>2. HandsOver(node[p], m, <<>>)
      BY <1>2, HandsOverNothing
    <2>3. log' = [log EXCEPT ![p] = @ \o <<>>]
      <3>1. log \in [Proc -> Seq(CacheEntry)]
        BY DEF RecoveryInv
      <3>2. log[p] \o <<>> = log[p]
        BY <3>1
      <3> QED
        BY <1>2, <3>1, <3>2
    <2> DEFINE more == Bumped(p, m, NextIssue)
    <2>4. /\ Ready(p, m, more) /\ Grows(NextIssue, more)
          /\ \A t \in T : IssuedTrain(t, more)
          /\ \A x \in M : IssuedToken(x, more)
      BY <1>1, <1>2, <2>1
    <2> QED
      BY <1>2, <2>2, <2>3, <2>4, KeepsRecovery
  <1>3. ASSUME NEW p \in Proc, Broadcast(p) PROVE RecoveryInv'
    <2>1. /\ node' = [node EXCEPT ![p] = HandleBroadcast(p, node[p])]
          /\ UNCHANGED <<trains, tokens, log, lost>>
      BY <1>3 DEF Broadcast
    <2>2. Ready(p, HandleBroadcast(p, node[p]), NextIssue)
          /\ HandleBroadcast(p, node[p]).done = node[p].done
      BY <1>0, BroadcastReady
    <2> QED
      BY <1>1, <1>2, <2>1, <2>2
  <1>4. ASSUME NEW p \in Proc, NEW q \in Proc, ReceiveTrain(p, q) PROVE RecoveryInv'
    <2> DEFINE t == Head(trains[q][p])
    <2>1. /\ trains[q][p] # <<>> /\ lost' = lost
          /\ Become(p, OnTrain(p, t), [trains EXCEPT ![q][p] = Tail(@)], tokens)
      BY <1>4 DEF ReceiveTrain
    <2>2. t \in T /\ [trains EXCEPT ![q][p] = Tail(@)] \in [Proc -> [Proc -> Seq(T)]]
      BY <1>1, <2>1, DropsTyped
    <2>3. RingTrain(t) /\ IssuedTrain(t, NextIssue)
      BY <1>1, <2>2
    <2> HIDE DEF t
    <2>4. Careful(OnTrain(p, t), up)
      BY <2>3, TrainIsCareful
    <2>5. Sound(p, node[p], OnTrain(p, t), NextIssue)
      BY <1>0, <2>3, TrainSound
    <2>6. OnTrain(p, t).driver.succ \in Proc
      BY <2>4 DEF Careful, Driver
    <2> QED
      BY <1>1, <1>i, <2>1, <2>2, <2>5, <2>6, BecomeRecovers
  <1>5. ASSUME NEW p \in Proc, NEW q \in Proc, ReceiveToken(p, q) PROVE RecoveryInv'
    <2> DEFINE x == Head(tokens[q][p])
    <2>1. /\ tokens[q][p] # <<>> /\ lost' = lost
          /\ Become(p, OnToken(p, x), trains, [tokens EXCEPT ![q][p] = Tail(@)])
      BY <1>5 DEF ReceiveToken
    <2>2. x \in M /\ [tokens EXCEPT ![q][p] = Tail(@)] \in [Proc -> [Proc -> Seq(M)]]
      BY <1>1, <2>1, DropsTyped
    <2>3. ForCrashed(x, up) /\ IssuedToken(x, NextIssue)
      BY <1>1, <2>2
    <2> HIDE DEF x
    <2>4. Careful(OnToken(p, x), up)
      BY <2>3, TokenIsCareful
    <2>5. Sound(p, node[p], OnToken(p, x), NextIssue)
      BY <1>0, <2>3, TokenSound DEF ForCrashed
    <2>6. OnToken(p, x).driver.succ \in Proc
      BY <2>4 DEF Careful, Driver
    <2>7. PICK ms : ms = [tokens EXCEPT ![q][p] = Tail(@)]
      OBVIOUS
    <2>8. /\ Become(p, OnToken(p, x), trains, ms) /\ lost' = lost
          /\ trains \in [Proc -> [Proc -> Seq(T)]] /\ ms \in [Proc -> [Proc -> Seq(M)]]
      BY <1>1, <2>1, <2>2, <2>7
    <2> QED
      BY <1>i, <2>5, <2>6, <2>8, BecomeRecovers
  <1>6. ASSUME NEW p \in Proc, Unreachable(p) PROVE RecoveryInv'
    <2> DEFINE v == driver[p].succ
               det == RecordDisconnect(driver[p].detector, v)
               o == OnEvidence(p, node[p], driver[p], det, v)
    <2>1. v \notin up /\ Become(p, o, trains, tokens) /\ lost' = lost
      BY <1>6 DEF Unreachable
    <2>2. v \in Proc \ up
      BY <2>1 DEF ExclusionInv, Driver
    <2>3. Careful(o, up)
      BY <2>2, DisconnectIsCareful
    <2> HIDE DEF det, v
    <2>4. Sound(p, node[p], o, NextIssue)
      BY <1>0, <2>2, DisconnectSound
    <2> HIDE DEF o
    <2>5. o.driver.succ \in Proc
      BY <2>3 DEF Careful, Driver
    <2> QED
      BY <1>1, <2>1, <2>4, <2>5, BecomeRecovers
  <1>7. ASSUME NEW p \in Proc, UNCHANGED <<node, log>>, lost' \in 0..MaxLost,
               trains' \in [Proc -> [Proc -> Seq(T)]], tokens' \in [Proc -> [Proc -> Seq(M)]]
        PROVE  RecoveryInv'
    <2>1. node \in [Proc -> Node]
      BY DEF RecoveryInv
    <2>2. node' = [node EXCEPT ![p] = node[p]]
      BY <1>7, <2>1
    <2> QED
      BY <1>0, <1>2, <1>7, <2>2
  <1>8. ASSUME NEW p \in Proc, Crash(p) PROVE RecoveryInv'
    <2>1. driver[p].succ \in Proc /\ UNCHANGED <<node, log, lost>>
      BY <1>8 DEF Crash, ExclusionInv, Driver
    <2>2. PICK i \in 0..Len(trains[p][driver[p].succ]), j \in 0..Len(tokens[p][driver[p].succ]) :
             /\ trains' = [trains EXCEPT ![p][driver[p].succ] = SubSeq(@, 1, i)]
             /\ tokens' = [tokens EXCEPT ![p][driver[p].succ] = SubSeq(@, 1, j)]
      BY <1>8 DEF Crash
    <2>3. trains' \in [Proc -> [Proc -> Seq(T)]] /\ tokens' \in [Proc -> [Proc -> Seq(M)]]
      BY <1>1, <2>1, <2>2, DropsTyped
    <2> QED
      BY <1>1, <1>7, <2>1, <2>3
  <1>9. ASSUME NEW p \in Proc, NEW q \in Proc, LoseToken(p, q) PROVE RecoveryInv'
    <2>1. /\ tokens[p][q] # <<>> /\ tokens' = [tokens EXCEPT ![p][q] = Tail(@)]
          /\ UNCHANGED <<node, log, trains>> /\ lost < MaxLost /\ lost' = lost + 1
      BY <1>9 DEF LoseToken
    <2>2. tokens' \in [Proc -> [Proc -> Seq(M)]]
      BY <1>1, <2>1, DropsTyped
    <2>3. lost' \in 0..MaxLost
      BY <1>1, <2>1, ReconfigBounds
    <2> QED
      BY <1>1, <1>7, <2>1, <2>2, <2>3
  <1>10. CASE UNCHANGED vars
    <2>1. UNCHANGED <<node, log, trains, tokens, lost>>
      BY <1>10 DEF vars
    <2>2. 0 \in Proc
      BY RingAssumption DEF Proc
    <2> QED
      BY <1>1, <1>7, <2>1, <2>2
  <1> QED
    BY <1>3, <1>4, <1>5, <1>6, <1>8, <1>9, <1>10 DEF Next

\* RecoveryInvariant: for any ring, any crashes, lost tokens and overlapping view
\* changes, no clock in a core, a report, a plan or a train is one that its issuer
\* has yet to use, and no core finishes a key twice.
THEOREM RecoveryInvariant == Spec => []RecoveryInv
  BY InitExclusion, StepExclusion, InitRecovery, StepRecovery, PTL DEF Spec

\* DeliveredOnce: try_deliver, drain_parked and apply_recovery between them hand a
\* key to the application of node.rs at most once, through any view changes.
THEOREM DeliveredOnce == Spec => []NoKeyTwice
  <1>1. RecoveryInv => NoKeyTwice
    BY DEF RecoveryInv
  <1> QED
    BY RecoveryInvariant, <1>1, PTL

\* ReissueIsNew: the train that execute() reissues after a view change carries a
\* clock above everything seen, finished or fenced by view_floor anywhere.
THEOREM ReissueIsNew == Spec => []NextTrainIsNew
  <1>1. ASSUME RecoveryInv PROVE NextTrainIsNew
    <2> SUFFICES ASSUME NEW p \in Proc, NEW q \in Proc
                 PROVE  /\ node[p].seen[q] < node[q].nextIssue
                        /\ node[p].floor[q] < node[q].nextIssue
                        /\ \A k \in node[p].done : k[2] = q => k[1] < node[q].nextIssue
      BY DEF NextTrainIsNew
    <2>1. /\ node[p] \in Node /\ node[q] \in Node /\ Tidy(node[p])
          /\ Below(node[p].seen, NextIssue) /\ Below(node[p].floor, NextIssue)
          /\ NextIssue[q] = node[q].nextIssue
      BY <1>1 DEF RecoveryInv, NextIssue
    <2>2. node[p].seen[q] < node[q].nextIssue /\ node[p].floor[q] < node[q].nextIssue
      BY <2>1 DEF Below
    <2>3. ASSUME NEW k \in node[p].done, k[2] = q PROVE k[1] < node[q].nextIssue
      <3>1. k[1] <= node[p].seen[q]
        BY <2>1, <2>3 DEF Tidy
      <3>2. k[1] \in Nat /\ node[p].seen[q] \in Nat /\ node[q].nextIssue \in Nat
        BY <2>1, <2>3 DEF Node, Key
      <3> QED
        BY <2>2, <3>1, <3>2
    <2> QED
      BY <2>2, <2>3
  <1> QED
    BY RecoveryInvariant, <1>1, PTL

\* ReconfigTypeCorrect: cores, drivers, tokens and plans keep their shape; next_alive
\* names a process and a strike count stays below the threshold.
THEOREM ReconfigTypeCorrect == Spec => []TypeOK
  <1>1. ASSUME ExclusionInv, RecoveryInv PROVE TypeOK
    <2>1. /\ node \in [Proc -> Node] /\ log \in [Proc -> Seq(CacheEntry)]
          /\ lost \in 0..MaxLost /\ up \subseteq Proc
      BY <1>1 DEF RecoveryInv, ExclusionInv
    <2>2. ASSUME NEW p \in Proc
          PROVE  /\ driver[p].dead \subseteq Proc /\ driver[p].succ \in Proc
                 /\ driver[p].detector.strikes \in [Proc -> 0..(StrikeThreshold - 1)]
                 /\ driver[p].vc.installed \in Nat
      <3>1. driver[p] \in Driver /\ \A q \in Proc : driver[p].detector.strikes[q] <= 1
        BY <1>1 DEF ExclusionInv
      <3>2. driver[p].detector.strikes \in [Proc -> Nat]
        BY <3>1 DEF Driver
      <3>3. driver[p].detector.strikes \in [Proc -> 0..(StrikeThreshold - 1)]
        BY <3>1, <3>2, DriverDetector, DetectorAssumption
      <3> QED
        BY <3>1, <3>3 DEF Driver
    <2>3. ASSUME NEW p \in Proc, NEW q \in Proc PROVE trains[p][q] \in Seq(Train)
      <3>1. trains[p][q] \in Seq(Carried(trains))
        BY <1>1 DEF ExclusionInv
      <3>2. Carried(trains) \subseteq Train
        BY <1>1 DEF RecoveryInv, IssuedTrain
      <3> QED
        BY <3>1, <3>2, SeqMonotonic
    <2>4. ASSUME NEW p \in Proc, NEW q \in Proc, NEW msg \in ToSet(tokens[p][q])
          PROVE  \/ msg.type = "Gather" /\ msg.reports \in SUBSET (Proc \X Report)
                 \/ msg.type = "Install" /\ IsPlan(msg.plan)
      <3>1. msg \in Carried(tokens)
        BY <2>4 DEF Carried
      <3>2. IssuedToken(msg, NextIssue)
        BY <1>1, <3>1 DEF RecoveryInv
      <3> QED
        BY <3>2 DEF IssuedToken, IssuedReports, IssuedPlan
    <2> QED
      BY <2>1, <2>2, <2>3, <2>4 DEF TypeOK
  <1> QED
    BY ExclusionInvariant, RecoveryInvariant, <1>1, PTL
=============================================================================
