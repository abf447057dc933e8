# TRAINS: TLA+ models, model checking and proofs

This directory holds a verification development of the TRAINS ring: a uniform
total-order broadcast in which *trains* (tokens that carry payloads and acks)
circulate on a ring of processes.  The modules are translated from the Rust
source; `PROJECT.json` maps every definition to the lines it models.

## 1. The system

| part | code | state | operations |
|---|---|---|---|
| core node | `crates/trains-core/src/node.rs`, `delivery.rs`, `clock.rs`, `types.rs` | seen clocks, done keys, parked trains, pending payloads, issue clock, sequence number, cache of delivered payloads, view floor, freeze, crashed mask | `step(LocalBroadcast / TrainReceived / Tick)`, `confirm_crash`, `recovery_report`, `apply_recovery`, `reissue_train`, `export_state`, `import_state`, `readmit_node` |
| recovery plan | `crates/trains-core/src/recovery.rs` | none (pure) | `compute_recovery_plan` |
| view change | `crates/trains-recovery/src/view_change.rs` | installed view, dead set | `on_confirm`, `on_gather`, `on_install`, the re-admission handlers |
| failure detector | `crates/trains-recovery/src/failure_detector.rs` | strikes, confirmed set | `record_gap_hint`, `record_disconnect`, `note_alive` |
| drivers | `crates/trains-cli/src/node.rs`, `ring.rs` | dead set, successor, the four parts above | event loop over stdin, trains, tokens, unreachable reports; `exclude`, `execute` |
| ring transport | `crates/trains-net/src/transport.rs` | queues, one retained message, failure streak | listener, mux, `connector_loop`, `retarget_successor` |
| state transfer | `crates/trains-net/src/snapshot.rs` | request channel, one response per connection | `fetch_state`, `serve_snapshots`, `handle_one` |
| adapter | `crates/trains-ao` | one core | `issue_initial`, `feed` an envelope |
| trace recorder and validator | `ring.rs`, `trains-core/src/trace.rs`, `trains-cli/src/bin/trace_validate.rs` | reconstructed logs, last seen clocks, known payloads | emit a record; check a record |
| reference and differential test | `verification/reference`, `verification/drt` | the state of the core without view changes | `step`; compare the outputs of both |
| codec, TLS, QUIC, CLI, benches | `trains-net`, `trains-cli/src/main.rs`, `bench` | - | see "Not modelled" |

How they interact.  A driver owns one core and calls it from a single
`tokio::select!` loop, so a process handles one event at a time; all concurrency
is between processes and between a process and its own transport tasks.  Trains
and view-change tokens leave through two queues that the mux merges into one
connection; the reader of the successor splits them again.  The connector
reports an unreachable successor to the driver, which feeds the detector; a
confirmed crash freezes the core, retargets the connector and starts a Gather
token.  The coordinator merges the reports into a plan; the Install token
carries it round, each survivor applies it and each issuer reissues its train.
A process that comes back fetches a snapshot and a tail of effects from a
survivor, imports the protocol state, adopts the view and sends a ReAdmitGather,
which runs like an exclusion with a growing membership.

What is hard here: the laps of several trains interleave with parking and
draining; links repeat, reorder or lose messages when connections are reset;
processes crash between two steps; exclusions overlap; a frozen process goes on
forwarding; a restarted process has forgotten its clocks and ids; detection of a
dead peer depends on an idle task being woken.  The list, line by line and with the properties aimed at it, is `hazards` in
`PROJECT.json`.

What makes each part correct:

* core on the static ring: logs never diverge, keys ascend, no payload twice,
  bounded lag, everything broadcast is delivered;
* recovery: survivors deliver the same payloads in the same order, whatever
  each of them had when the view changed;
* view change: one plan per view, one membership per view, nobody stays frozen
  for ever, no live process is excluded;
* rejoin: a restarted process reuses no clock and no id, and its log agrees;
* state transfer: a standby has a prefix of the history and catches up;
* adapter and reference: the same answers as the core to every input;
* trace validator: no false alarm, and it judges the real logs;
* transport: written in order, nothing held is forgotten, a dead successor is reported.

## 2. Modules

```
TrainsCore ──┬── TrainsRing ── TrainsRingRefinement ──> TotalOrderBroadcast
             ├── DrainLoop
             └── TrainsRecovery ── ViewChange ──┐
                               FailureDetector ─┴── TrainsReconfig ── TrainsRejoin
TrainsRing ── TrainsTrace
TrainsCore ── AoAdapter ──┬── Differential
TrainsCore ── ReferenceNode ─┘
ConnectorLoop        StateTransfer

TrainsCoreProofs ──┬── TrainsRingProofs ── TrainsLapProofs  (TrainsRing, TrainsRingRefinement)
                   ├── DrainLoopProofs                      (DrainLoop)
                   ├── DifferentialProofs                   (Differential)
                   └── TrainsReconfigProofs                 (TrainsReconfig)
ConnectorLoopProofs  StateTransferProofs
```

* **TrainsCore** - the core as operators on a record `n \in Node` (no
  variables): one operator per handler (`HandleBroadcast`, `HandleFirstLap`,
  `HandleReplay`, `HandleReturningTrain`, `HandleTrain`), with the delivery
  condition (`ReadyToDeliver`, `IsDeliverable`, the seen-clock gate), parking,
  cache and fence.  Payloads are `<<sender, seq>>`: the code tells them apart by
  nothing else.  A train's payloads are a set since they are sorted before
  delivery.  `DrainParked` states the result of `drain_parked` in one formula;
* **DrainLoop** - that loop, one iteration per step, against the formula.
* **TrainsRing** - the ring without reconfiguration.  A link is a set of trains,
  so they may be handled in any order; repetition and loss are actions.  `log[p]`
  is the sequence of batches p has handed to its application, one per
  `Output::Deliver`: a train delivered twice would be in it twice.  `delivered` is
  a history variable, the trains behind the log.
* **TotalOrderBroadcast**, **TrainsRingRefinement** - the promise to the
  application and the mapping: the abstract log is `log`, so handing a batch over twice is
  no step of the abstract specification.
* **TrainsRecovery** - `recovery_report`, `compute_recovery_plan`,
  `confirm_crash`, `apply_recovery`.  A plan maps keys to payload sets; the
  empty set is `Skip` (`Deliver([])` is never emitted).
* **FailureDetector**, **ViewChange** - the two state machines, as operators.
* **TrainsReconfig** - the node binary with `--peer-addr`: one action per branch
  of the event loop, each with everything it calls (detector, exclusion, report,
  plan, reissue), plus crash, loss of a token and the retarget's effect on what
  was already sent.
* **ConnectorLoop** - `connector_loop`, one phase per await point, with an
  environment that sends, retargets, resets connections and kills peers.
* **TrainsRejoin** - `TrainsReconfig` with a process that crashes, is excluded
  and comes back: it fetches the state of a survivor (`Fetch`), imports it and
  requests re-admission (`Promote`), and the ReAdmit tokens go round
  (`ReceiveReadmit`).  The core calls and the handlers are the repository's; the
  driver is the replication proxy outside it, marked external in the map and
  modelled from the contract in `view_change.rs` and `wire.rs`.
* **StateTransfer** - `snapshot.rs`: request, owner's queue, framed response read
  piece by piece, resets and crashes.
* **ReferenceNode** - the reference implementation, written from its own source
  and sharing with `TrainsCore` only constants and key order.
* **AoAdapter** - envelopes in, envelopes out, refusals included.
* **Differential** - the lock-step comparison of `verification/drt`, with the core
  behind the adapter, and with two things the harness leaves out: the node's own
  trains, and the order of deliveries within a step.
* **TrainsTrace** - `TrainsRing` with the recorder of `ring.rs` and the validator:
  a record is emitted some time after its step, or never.

`Mutant:` comments mark operators that are not part of the model: each is a
plausible mistake in the definition after it, listed in `PROJECT.json`, and
breaks the property named there.

## 3. Model-checking runs

| run | bounds | checks | states |
|---|---|---|---|
| `ring_faults` | 3 processes, 2 trains, clocks to 2, 2 senders, 1 repeated train, 1 crash | `RingInv`, `LapInv`, `ConsistentDelivery`, `NoDuplicateDelivery`, `DeliveryInKeyOrder`, `ImplementsTotalOrderBroadcast` | 478,892 |
| `ring_progress` | same, 1 lost train instead of the other faults | `TypeOK`, `OneTrainPerIssuer`, `DeliveryLag`, `BroadcastDelivered` | 9,193 |
| `drain_loop` | 2 trains, clocks to 3: any seen clocks, finished (gaps included), parked and cached keys, excluded processes, frozen or not | `LoopIsDrained` | 239,672 |
| `reconfig_safety` | 3 processes, 2 trains, clocks to 3, any one crashes, 1 token lost | `TypeOK`, `OnlyCrashedExcluded`, `ExclusionInv`, `RecoveryInv`, `NoKeyTwice`, `NextTrainIsNew`, `SurvivorAgreement`, `LogOrdered`, `FrozenHasCause` | 842,055 |
| `reconfig_overlap` | 4 processes, 1 train, any two crash | `SameViewSameFloor`, `SurvivorAgreement` | 723,752 |
| `connector` | 3 messages, 2 resets, the first peer may die, a retarget | `WrittenInOrder`, `NothingDropped`, `ConnectorInv`, `DeadPeerReported` | 25,125 |
| `rejoin` | 3 processes, 2 trains, any one crashes and returns | `ClocksNotReused`, `SurvivorAgreement`, `LogOrdered`, `FrozenHasCause`, `SameViewSameMembers` | 459,941 |
| `state_transfer` | 2 survivors (one may crash), 4 effects, logs and tails of 2, 2 resets | `AppliedIsPrefix`, `TransferInv`, `NeverBack`, `CatchesUp` | 73,650 |
| `differential` | each of 3 processes, any train with clocks to 2, partial or full acks, 0 or 1 payload | `SameOutputs`, `SameLog`, `SameState` | 69,299 |
| `trace` | as `ring_faults`, a crash and no repetition | `NoFalseAlarm`, `LogsReconstructed` | 190,167 |

Why these bounds.  Three processes are the least with an issuer, a process
between two others and one that issues nothing; two trains are the least for
which the gate and parking matter.  Clock 2 lets trains be recycled, clock 3
lets a reissued train be recycled after a view change.  Four processes and two
crashes are the least in which two exclusions overlap with different detectors
and with the coordinator among the victims.
The connector needs three messages to hold one, be overtaken by one and have one
queued.  In `rejoin` an issuer numbers past `MaxClock` through the two plans, so
both view changes meet parked, finished and lost keys at `MaxClock` 1 (with 2 the
run takes 3,748,528 states and passes too).  In `state_transfer` four effects
against a log of two make a survivor evict while a standby polls, and the tail
of two is exactly the cap of frames.  `CacheCap` is 1 on the static
ring (eviction happens, and nothing reads the cache) and 2 in the reconfiguration
runs, which carry at most two non-empty trains and so never evict: see *Cache*
below for what happens when they do.  The bounds on clocks and broadcasts are guards; the runs switch off
deadlock checking because a ring halts at these bounds, after a loss, or at a
crash.

Fairness.  `ring_progress`: a process serves its inbox in order of arrival, so
no issuer's train starves another's (weak fairness per process and issuer), and
a retained message is written until it is read.  `BroadcastDelivered` promises
nothing after a loss or a crash: the code itself states that a lost train halts
the ring.  `connector`: the task runs whenever it can (tokio
polls ready tasks), and `select!`, which picks a ready branch at random, does
not starve the reader's close signal.  `state_transfer`: tasks and owner run
whenever they can (weak), and the standby polls each survivor again and again,
also one that is up only now and then ready (strong fairness of `Request`, which
another poll disables).  There is
no fairness in the reconfiguration runs; that a view change cannot get stuck is
stated there as the invariant `FrozenHasCause`.

### Disagreements between the code and what is said of it

Each run below checks one sentence of a comment and shows a behaviour of the
code that contradicts it (`findings` in `PROJECT.json` has the quotations).

| run | behaviour |
|---|---|
| `reconfig_stranded` | a process waiting for Install sees both laps of a train the coordinator reissued.  Frozen, it neither delivers nor parks it; the key blocks that process for good. |
| `rejoin_broadcast` | a rejoined process has `next_seq` 0 and the survivors' `broadcast_seen`, which holds its own old ids: `handle_broadcast` drops its broadcasts. `docs/WHITEPAPER-rejoin-and-readmission-2026-06-16.md` (section 7) reports the symptom and suspects the seen clocks. |

Observations without a run of their own:

* *Late trains.*  With `LateTrains = TRUE` a train of the victim that no survivor
  had seen arrives after the install, above the boundary, and `LogOrdered` fails.
* *Skip and the victim.*  An issuer delivers on the lap-1 return and crashes; the
  survivors skip that key.  They agree among themselves, not with the victim.
* *Second trains.*  An issuer that is frozen and has reported recycles its train:
  the clock is above the boundary, and the reissue makes a second train.
* *Overlapping rounds.*  Two exclusions may use the same view id; the second
  Gather freezes a process and is then dropped as stale, so `FrozenHasCause` is
  checked with one crash.
* *Cache.*  An evicted payload becomes a `Skip` at whoever lacks it, so
  `DELIVERED_CACHE_CAP` (1024) must cover the keys by which processes can differ.
  On the static ring `DeliveryLag` bounds them, one clock per train: with one
  train, one crash and a cache of 1, `SurvivorAgreement` holds although entries
  are evicted (331,909 states); with two trains and a cache of 1 it fails.  It is no
  bound for a process that is frozen: with one train, two exclusions, three
  broadcasts of one sender and a cache of 2, `SurvivorAgreement` fails too.  The Install of the first view is lost with the crash
  of a process; the next one stays frozen and misses three keys while the
  coordinator, released, goes on.  "Recovery only ever reads keys near the current
  clock" (`node.rs`, at the constant) does not hold for such a process.
* *Probe.*  A probe whose TLS handshake fails is not repeated; a peer that dies
  then is not reported by an idle connector.  `DeadPeerReported` excludes it.
* *Own ids.*  `handle_returning_train` does not record the payloads of a train in
  `broadcast_seen`, so the snapshot of an issuer may lack ids that others have
  seen; a process that rejoins from it may use them a second time.
* `import_state` and the plan of the re-admission both lift the issue clock of a
  rejoiner; either alone would keep `ClocksNotReused`.
* `handle_returning_train` says of the second return that "every node has now
  delivered" the key: an issuer may recycle while another process has the train
  parked; what does hold is `DeliveryLag`.
* `transport.rs` says that view-change frames "are also retransmitted at the
  protocol level": nothing sends a token twice, so `FrozenHasCause` is stated for
  behaviours without a lost token.
* `trace_validate` announces six invariants; the one on unique issuers is not
  checked, which a comment at that place says.  With a mutated delivery gate in
  the core, `NoFalseAlarm` fails: the validator does notice such a bug.
* `fetch_snapshot` keeps the blob and drops the tail, also when the blob is empty
  because the tail suffices.
* In mode `CausalOrder` the core never delivers while the reference delivers on
  full acks; `Differential` compares them in `UniformTotalOrder`, as the harness
  does.

The passing reconfiguration runs include these behaviours except where a bound
says otherwise: `reconfig_safety` and `reconfig_overlap` contain stranded keys,
second trains, lost tokens and dropped rounds, and show that they cost progress
and, as long as nothing missed is evicted from the caches, never agreement.  Only
`LateTrains = TRUE` breaks order.

### Modelling assumptions

* Static ring: without reconfiguration a driver acts on `DeclareCrash` only at
  the third strike, and every train of an issuer clears its strikes just before
  its hint is recorded, so hints are logged and nothing else.
* `TrainsReconfig` starts after start-up; only crashed processes are reported
  unreachable; a train is lost only with a crash or a retarget.  `LateTrains =
  FALSE` assumes that what a dead process had written is read while its
  predecessor goes through five failed connects with growing backoff.
* What a process sent to a successor that crashed and did not get read is lost up
  to some point; the rest, still in the connector's queue, goes to the next
  successor.  Trains and tokens each stay in order, relative order is free.
* `ConnectorLoop`: a write to a broken connection may succeed (into a buffer),
  fail before or fail after the bytes arrived.  Its properties are about what is
  written and in which order.  Reading is not modelled: written bytes may be lost
  with a later reset, and the reader tasks of an old and a new connection may hand
  over out of order (`TrainsRing` allows any order).  A failed connect to a live
  peer, backoff durations and the shutdown on a closed outbox are left out.
* `TrainsRejoin`: a process returns after its exclusion is over (`Settled`: a
  restart takes longer than a token's lap), once, and nobody crashes while it
  does; nothing of its earlier connections survives.  `rejoin` keeps the rejoiner
  from broadcasting, `rejoin_broadcast` does not.
* `StateTransfer`: survivors deliver the same sequence (what `SurvivorAgreement`
  is about); the owner answers with the tail if it reaches back far enough and
  otherwise with a snapshot and the tail after it; retained logs fit
  `MAX_TAIL_FRAMES`, as its comment says.  The caps on bytes (`TooLarge`,
  `FrameTooLarge`) are left out, so `CatchesUp` is about the cap on frames only.
* `Differential`: trains have issuers that issue, and a pending payload is on no
  train.  The run feeds trains with all acks and with those of two processes of
  three (empty ones are handled alike); the proofs allow any (`AckSets`).  Which envelope of a step comes first is left out across kinds.
* `TrainsTrace`: one program over loopback, so no train is repeated or lost.
* `TryDeliverThenDrain` joins what `try_deliver` and `drain_parked` deliver in a
  step as sets.  A train delivered by both would be counted once; that cannot
  happen, since nothing deliverable is parked when a step begins (part of `RingInv`
  and `RecoveryInv`; `ParkedNotDeliverable` in `TrainsCoreProofs`).
* `Tick` does nothing in the code and has an action only where it is compared.

## 4. Proofs

The eight `*Proofs` modules are checked by TLAPS to the last leaf.  The theorems
hold for every value of the constants, from these assumptions only:

* `TrainsCore`: `RingSize` at least 2 and `NumTrains` in `1..RingSize` (what
  `trains-core/build.rs` asserts), a known mode, `CacheCap` a natural;
* `TrainsRing`, `TrainsReconfig`, `DrainLoop`: bounds are naturals, `Senders` and
  `Victims` are processes;
* `HarnessMode` in `Differential`: the mode is `UniformTotalOrder`, with which
  `run_drt` builds both nodes (the reference waits for all acks in every mode, the
  core does not); `Loaders` are processes, `AckSets` sets of them;
* `DriverDetector` in `TrainsReconfig`: one hint confirms nobody and one
  disconnect confirms (both constants are 3 in `trains-cli/src/node.rs`);
* `ConnectorLoop`: `UnreachableFailures` is positive; `StateTransfer`: the
  retained log fits `MAX_TAIL_FRAMES`.

| module | theorem | states |
|---|---|---|
| `TrainsRingProofs` | `TypeCorrect` | `Spec => []TypeOK` |
| | `RingInvariant` | `Spec => []RingInv` |
| | `LogsNeverDiverge` | `Spec => []ConsistentDelivery` |
| | `DeliveredOnce` | `Spec => []NoDuplicateDelivery` |
| | `OrderedDelivery` | `Spec => DeliveryInKeyOrder` |
| | `RingRefinesBroadcast` | `Spec => ImplementsTotalOrderBroadcast` |
| `TrainsLapProofs` | `LapInvariant` | `Spec => []LapInv` |
| | `SingleTrain` | `Spec => [](faults.dup = 0 => OneTrainPerIssuer)` |
| | `BoundedLag` | `Spec => [](faults.dup = 0 => DeliveryLag)` |
| `DrainLoopProofs` | `LoopInvariant` | `Spec => []LoopInv` |
| | `LoopEqualsDrain` | `Spec => []LoopIsDrained` |
| `DifferentialProofs` | `MirrorInvariant` | `Spec => []Mirrors` |
| | `StatesAgree` | `Spec => []SameState` |
| | `LogsAgree` | `Spec => []SameLog` |
| | `OutputsAgree` | `Spec => []SameOutputs` |
| `TrainsReconfigProofs` | `ExclusionInvariant` | `Spec => []ExclusionInv` |
| | `NoLiveExcluded` | `Spec => []OnlyCrashedExcluded` |
| | `RecoveryInvariant` | `Spec => []RecoveryInv` |
| | `DeliveredOnce` | `Spec => []NoKeyTwice` |
| | `ReissueIsNew` | `Spec => []NextTrainIsNew` |
| | `ReconfigTypeCorrect` | `Spec => []TypeOK` |
| `ConnectorLoopProofs` | `ConnectorInvariant` | `Spec => []ConnectorInv` |
| | `OrderOnTheWire` | `Spec => []WrittenInOrder` |
| | `RetainedNotLost` | `Spec => []NothingDropped` |
| `StateTransferProofs` | `TransferInvariant` | `Spec => []TransferInv` |
| | `AppliedPrefix` | `Spec => []AppliedIsPrefix` |
| | `TransferNeverBack` | `Spec => NeverBack` |

The inductive invariants `RingInv`, `LapInv`, `ExclusionInv`, `RecoveryInv`,
`ConnectorInv` and `TransferInv` are also invariants of the runs of their components.

**Agreement on the static ring.**  `ConsistentDelivery` is not inductive: it says
nothing of trains on the links, from which later deliveries come.  `RingInv` is
`TrainsInv`, about trains and cores, and `LogInv`, about the log.  `TrainsInv` adds
three facts.  (a) *Acks determine payloads* (`TrainInv`, `LoadInv`): a process
acks a key once, because its seen clock then makes every later copy a replay, and
loads its pending payloads in the same step; so copies of a key that have been
acked by everybody carry the same payloads, in whatever order links hand them
over.  (b) *Done keys are an initial segment* (`DoneInv`): a key becomes done only
when every issuer's seen clock has reached its clock and all smaller known keys
are done, hence all smaller keys are.  Two initial segments of one order are
comparable.  (c) *Done means delivered* (`DoneInv`): every full train of a done
key that carries payloads was delivered.  (a) to (c) give comparable logs with
equal contents.  `TrainsCoreProofs` states the effect of each handler once
(`HandleTrainEffect` and the lemmas under it); `TrainsRingProofs` shows that a
step passes a train on (`PassStep`), loads one (`LoadStep`), issues one
(`IssueStep`) or broadcasts (`BroadcastStep`), and that each preserves `TrainsInv`.

**At most once.**  The log is a sequence, and nothing in a handler looks at it: that a
batch is appended once must come from the core.  `LogInv` says that `log[p]` is the
delivered trains in key order, each at one place.  For a step to keep it, what the step
delivers must be new and come after everything in the log.  It is new because
`try_deliver` refuses a key that is done and because a parked train is not done
(`Tidy`); the two deliver nothing in common because nothing deliverable is parked
before the step (`Drained(node[p]) = {}`); it comes after because done keys are an
initial segment.  Then the new batches are the log of the new trains, and by
`LogOfUnion` the longer log is that of the union (`HandleLog`).  With distinct trains
carrying disjoint payloads (`TrainsInv`), no payload is in two places (`DeliveredOnce`).

**Refinement.**  The abstract log of a process is its `log`.  `LogInv` ties it to
`LogOf(delivered[p])`, for which `InKeyOrder` puts an entry at the place given by the
number of smaller entries, not by sorting step by step, so its properties follow from
cardinalities instead of an induction over a sequence.  `LogOfPrefix`: if all keys of a
set are below all keys of another, the log of the first is a prefix of the log of the
union.  A step of a handler appends the batches of new trains to one log (`HandleLog`,
`HandleRefines`), with `RingInv` any two logs are comparable after the step too
(`LogSets`: two delivered sets, one contained in the other, with only larger keys in
the difference), and everything else a ring does, crashes and repeated trains included,
leaves log and sent messages alone.

**Laps.**  That a process is never more than one clock ahead is what bounds the
parked trains and the cache a recovery needs.  It rests on two laps: the first
collects the acks, the second tells everybody that they are complete, and only
then does the issuer recycle.  `LapInv` says where in this the ring is.  `TrainLap`
reads it off the train: the processes between the issuer and the train's position
have acked it, and if its issuer has handled it they have too, so a train that
returns a second time was handled everywhere.  `IssueLap` keeps that fact for the
earlier clocks.  Handled means done or parked; `NodeLap` closes the gap: what is
parked and not done waits for a clock that has not been seen
(`Drained(node[p]) = {}`), and a process that has finished a key of clock c has
seen clock c of every issuer, so clock c - 1 of each was handled everywhere and
nothing parked below c waits.  A repeated train breaks the lap count (two copies
return, the issuer recycles early), hence `faults.dup = 0`.

**The drain loop.**  `drain_parked` takes the least parked train while it is
deliverable, from any state a core may be in (`Init` of `DrainLoop` leaves gaps in the
done keys, exclusions and the cache free); the other modules use the closed form
`Drained`, the parked trains that are deliverable once all smaller parked ones are.
`LoopInv` says that the loop is always at a downward closed part of `Drained(start)`;
when the least train is not deliverable, no train of `Drained(start)` is left.  That a least one
exists is an induction over a finite set, done in `TrainsCoreProofs` by taking the
image of the set under clocks and ids and the least natural of that
(`LeastNat`, `MinimalElement`): `LeastNat` follows from the well-foundedness of
`<` on the naturals, which needs no induction schema.

**Core and reference.**  `SameState` alone is not inductive: it says nothing of the
parts the reference lacks, and the log must be known to decide what a step delivers.
`Mirrors` adds that the core is plain (nothing crashed, frozen or fenced: the harness
makes no view change), tidy and has nothing left to drain, and that the reference is
`AsReference(core, log)`, the core without cache, fence and freeze and with the log of
the envelopes.  The centre is `DrainMirrors`: the reference's loop, a recursive function
of rounds, ends where the core's closed form does.  The rounds are shown to exist by
taking the least number without them (`RunExists`); `RoundStep` shows that each takes
the next train of `Drained`, or that none is left; since it takes one train per round,
`Cardinality(parked)` rounds are enough.  `LogOfUnion` turns "smaller keys first" into
concatenation of logs, so the order within a step agrees too.  Above it there is one
lemma per handler (`TryAgrees`, `ReturningAgrees`, `ReplayAgrees`, `FirstLapAgrees`,
`IssueAgrees`, `BroadcastAgrees`) and one for the adapter (`OutboxIs`: the three
buckets and the order of the `Deliver` envelopes are those of the core's result).

**Exclusion.**  A driver excludes on three grounds: an unreachable report, enough
gap hints, and a token naming a victim.  The first is about crashed processes by
assumption (section 3).  `ExclusionInv` covers the other two: every token on a
link names a victim that has crashed, however often it is passed on, answered or
dropped, and a strike count never exceeds one, because each train of an issuer
clears its strikes before its own clock jump may record one.

**Recovery.**  A key reaches the application on three ways: `try_deliver`,
`drain_parked` and `apply_recovery`.  That it does so once (`NoKeyTwice`) needs
`Tidy`: what is parked is not done, each key is parked in one copy, and both lie
within the seen clocks; `apply_recovery` must keep this although it finishes keys
that are parked and lifts the seen clocks to its boundary.  That an issuer's next
train is new to everybody (`NextTrainIsNew`) cannot be proved from the cores alone:
the plan is computed from reports that were taken earlier, by other processes, and
have travelled.  `RecoveryInv` therefore bounds every clock that a train, a report
or a plan on a link mentions by the clocks the issuers have used so far
(`IssuedTrain`, `IssuedToken`); that bound only grows (`IssuedGrows`), so a message
that satisfied it when it was sent does when it is read.  The proof follows the event
loop: for each core call, that its result is tidy and bounded (`RecoveryReady`,
`ExcludeReady`, `IssueReady`); for each answer of the view-change machine, that the
token it sends is (`ConfirmSound`, `GatherSound`, `InstallSound`); for each branch of
the loop, that the two give the invariant (`TrainSound`, `TokenSound`,
`DisconnectSound`).  Nothing is assumed of the number of crashes, of overlapping
rounds or of `LateTrains`.  `ReconfigTypeCorrect` follows from the two inductive
invariants.

**Connector.**  On every retry path at most one message is held: retained in
`pending` between two attempts, or in `msg` during one, and it is always the one
taken last.  So what is written next is not older than anything written to a peer,
and no branch of `connector_loop` can take a new message over it.

**State transfer.**  Requests of broken connections stay in the owner's queue and
are answered into the void; `LiveInv` says that at most one request can still
reach the standby and that nothing was applied since it was sent.  `ResponseInv`
describes a response at each point at which the standby may have stopped reading:
what is read and what is still on the wire continue the standby's state without a
gap.  Installing it therefore leaves a prefix, and never a shorter one.

Only model-checked, and why:

* liveness (`BroadcastDelivered`, `DeadPeerReported`, `CatchesUp`): fairness and
  ENABLED are outside the prover;
* `LogsReconstructed`, `NoFalseAlarm`: they are stated over sequences of single payloads
  obtained by flattening and sorting, whose defining property needs induction over
  data;
* `LogOrdered`: false with `LateTrains = TRUE`, and with `FALSE` it rests on what a
  dead process has left on its links;
* `SurvivorAgreement`, `FrozenHasCause`, `SameViewSameFloor`, `ClocksNotReused`
  and `SameViewSameMembers`: their inductive invariants must relate every report
  in a token to the state its sender had and has by now, across rounds that
  overlap; `RecoveryInv` does this for clocks only.

## 5. Not modelled

* Byte codec, TLS configuration and the QUIC transport: encoding and I/O without
  protocol state.  `as_app_broadcast_bytes` truncates numbers above 255; payload
  bytes are abstracted here.
* Command line, benchmarks and deployment.
* `fetch_snapshot` (called only by a test), size caps on blobs other than the frame count.
* Listener and mux of the transport as tasks: only their effect on messages.
* False suspicion: what an excluded live process and the others do.
* A second crash of a re-admitted process, which a kept detector never confirms
  again, and a crash during a re-admission.

## 6. Plan

The modules above cover the code with protocol state.  What is left is proof:

1. `SameViewSameFloor`: one plan per view, from the coordinators an overlapping
   round can have; then `SurvivorAgreement` for one exclusion at a time, with an
   invariant that ties each report to the done keys of its sender.
2. `TrainsRejoin`: `RecoveryInv` for re-admissions, and `ClocksNotReused` from it.
