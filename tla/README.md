# A TLA+ model of the backtest engine

The backtest engine takes a request, queues a run, lets a worker replay market data
against a compiled strategy and publishes the result exactly once. This directory models
that path from end to end: the intake of the request, the durable life of the run across
processes that crash, retry and race, the replay and its account, the evidence the result
is made of, and its publication. TLC checks the models on small instances, and TLAPS proves
the central guarantees of the concurrent parts, and of the account, for every instance.

Paths below are relative to `src/src/backtest_engine/` unless they begin with `src/`. "The
SQL" is `src/db/migration-contributions/fixtures/central-migration/V20260902000002__backtest_narrow_runtime_attempt_writes.sql.fixture`.

## The system

| Part | State | Operations | Module |
|---|---|---|---|
| Request intake and dispatch (`backtest_request_intake.py`, `request_dispatch.py`) | receipts, the lane's queue | receive, test, claim a receipt, publish a job, settle, dead-letter | `RequestIntake` |
| Release intake, lifecycle service, HTTP surface (`release_intake.py`, `lifecycle.py`, `api.py`) | the run row, applied events in memory | accept, ingest a result event, cancel, delete | `RunLifecycle` |
| Fenced attempt functions (the SQL), execution-key store, repositories, recovery | `backtest.runs`, `backtest.run_attempts` | claim, heartbeat, close, publish, recover | `RunAttempts` |
| Queue worker, job handler (`worker.py`, `wiring.py`) | message in hand, heartbeat thread | receive, execute, acknowledge, return, dead-letter | `BacktestWorker` |
| Lane scheduler (`worker.py`) | slots, cursor, back-off | poll, submit, reap, stop, drain | `LaneScheduler` |
| Attempt coordinator (`attempt_coordinator.py`) | attempts of one delivery in memory | acquire, heartbeat, fail, complete, cancel | `AttemptCoordinator` |
| Replay orchestrator, plan runtime (`orchestrator.py`, `basic_runtime.py`, `wiring.py`) | cursor, gates, positions' history | assemble, settle, evaluate, place, publish | `Replay` |
| Market data, event clock, calendar | sessions, events, skip intervals | read rows, order events, assess coverage | `MarketData` |
| Execution model (`execution_model.py`) | cash, lots, orders, ledger | seed, submit, cancel, advance, process a bar | `ExecutionModel` |
| Result snapshot, performance, details, monthly judgment | pure functions of the records | build, verify, reassemble | `Evidence` |
| Terminal publication, object store, registration (`wiring.py`, `object_store/`, `persistence/`) | objects, their rows, the run row | upload, register, verify, commit, compensate | `Publication` |

`PROJECT.json` lists every part with its sources, and every definition with the lines it
translates.

Workers, recovery, servers and publishers meet in three places: the run's rows, where row
locks and leases serialize them; the queues, which deliver at least once; and the object
store, where nothing serializes them but what the rows say. The hard behaviours follow: a
lease that expires while its holder is alive, a heartbeat that renews a lease somebody has
just read as expired, a cancellation that commits while a result is being published, a
process that dies between two of the three, an answer that is lost after its effect was
applied. A replay is sequential, and hard for another reason: bars of several resolutions
overlap, rows are missing, orders are filled in parts and every amount is rounded, and what
is published must still add up.

## Modules

    RequestOutcomes  <-- implemented by --  RequestIntake
    RunAttempts      <-- extended and implemented by --  BacktestWorker
    ExecutionModel   <-- Evidence <-- MarketData <-- Replay       (each extends the former)
    RunLifecycle, Publication, LaneScheduler, AttemptCoordinator  (components of their own)

`*Proofs` modules hold the theorems about the module they extend, `MC*` the instances for
TLC. Operators called "Defective variant" state plausible mistakes; they are used to see
that each property can fail, and no specification uses them.

**RunAttempts.** `run` and `attempts` are the rows. A lease is the number of ticks until
`claim_expires_at`. A transaction that holds the run row `FOR UPDATE` is one action. Two
things are not atomic in the code and are not atomic here. A fenced statement reads
`clock_timestamp()` before it waits for its row, so `Enter` records that a statement has
seen a live lease and `Fresh` lets it succeed later. A recovery pass reads the attempt and
acts afterwards; `RecoverSelect` and `RecoverCandidate` are two steps, and a heartbeat,
which takes only the attempt row, may come between them. An attempt's number stands for
its id and token, which are fresh for each attempt. `entered` forgets which statement
waits, so it admits more than the code does; that is safe for the properties checked.
A claim that is refused because its clock reading is too old changes nothing and has no
action.

**BacktestWorker.** A worker is a program counter and the delivery in its hands. Each
database transaction, each result event and each queue effect is a step, and a crash may
come between any two. A result event may be applied although its answer is lost. The replay
is abstract here and may end in every way the orchestrator can. An old receipt handle may or
may not still work. `BACKTEST_MAX_RECEIVE_COUNT` sets the limit of workers and of recovery,
so one constant stands for both; so does `Lease` for the lease and the visibility timeout.

**AttemptCoordinator.** Each method holds the lock and is one action. Callers read the
clock before they get the lock, so a call carries any time, and the code's own checks decide.

**LaneScheduler.** `poll_once` is one step for each receive, because jobs end, messages
arrive and a stop is requested between them. Reaping is one step: a future that completes
during the iteration can be taken to complete just after it. `SchedulerAssumption` is
weaker than the constructor's checks, which also bound the global limit by the lanes' sum.

**RequestIntake and RequestOutcomes.** A request is a record of facts: what each test of the
envelope, the document, the Outbox row and the stored run finds. The tests, their order and
the answer each gives are kept. Several consumers of one lane share the queue and the
receipts; a claim may lapse while its holder works, and a receipt transition does not compare
tokens. `RequestOutcomes` says what all this promises, without queues, receipts or retries:
a request is admitted once and while no rival has been, a job follows an admission, and a
request leaves the queue only with something to show for it.

**RunLifecycle.** One idempotency key, hence one run row. `accept` resolves the plan and
validates the release with it (`Validate`), resolves every input, the plan once more if it
was not there (`Refuse`, `NotYet`, `Accept`), commits the row and then publishes; `ingest_result` reads the run, compares the event with the set in this server's
memory and with the transition table, and then writes; `request_cancellation` reads and then
locks. Servers do not share the set, and a restart empties it. The result events are those
that workers may post, in two payloads; a release may have a defect that any of the stages
finds.

**ExecutionModel.** Money and quantities are integer numbers of quanta and prices are money
per share, so every rounding of the code is there (`RoundHalfEven` for `quantize_money`,
floors for quantities). The refusals at submission, reservations with their buffer, the
participation cap, the trigger memory of stop-limit orders, the reference of trailing stops,
the expiries and the double-entry ledger are modelled. A loop of the code is a recursive
function (`Loop`) or a fold, and a total is a sum over a function, so that the proofs can
reason about them. `_consume_fifo` stops when nothing is left to take; here the remaining
lots pass through unchanged. `_record_fill` changes cash and lots before it builds the
transaction; when that raises, `acct.raised` is set, what was changed stays changed and the
account is used no more.

**Evidence.** The builders of what is published, as operators on the records, the ledger and
the marks: the ledger rebuilt from the fills in an order that has to be found again, the
equity curve, return, drawdown and win rate, the weekly detail objects and their
verification, and the monthly counters. A content address is the content. Record ids are
content-derived and sort anyhow; `replay` tries three orders of them.

**MarketData.** Sessions, the BAR_CLOSED event of a delivered row, the look-back each
condition and each feature needs, the clock that a flow reading only positions takes from
the flows that share its instruments, the requirements of a plan, the assessment of the
delivery and the bars visible at an instant. Time is a number of ticks and every boundary is
a tick.

**Replay.** The orchestrator's loop over the instants of the event stream: heartbeat, settle
the bars that close, publish the positions, evaluate every flow and instrument, place the
candidates. The bars of an instant are settled one after the other until one raises, which
ends the attempt as the worker's HANDLER_ERROR. The step loop, the execution policy (every
cycle, once, wait), schedules, positions' counters and peaks, and sizing are modelled.
`ExecutionGate` says whether the plan's catalog has an execution policy at all. What a condition computes from
prices is a nondeterministic verdict wherever the bars it looks back on are visible.

**Publication.** The publisher holds the run row from its first statement to its commit and
meanwhile uploads and registers objects in short transactions of their own. The bytes of the
result snapshot are the same for every attempt (object 0); a detail part names its manifest,
so each attempt has its own (object a). Every call may fail before or after its effect; a
commit whose answer is lost may still be resolved by the server later (`conn = "pending"`).
A write to S3 whose answer is lost is retried within `put`, which then finds its own bytes
and takes them for somebody else's (`PutRetried`; `retried` remembers it for the properties).
Cleanup reads what was left (`Scan`) and then acts on it (`Sweep`), and anything may happen
in between. The store is versioned (S3) or names the content (local).

## What TLC checks

| Run | Instance (distinct states) | Shows |
|---|---|---|
| `run_attempts` | lease 2, dispatch timeout 2, 3 claims, budget 2 (2,957) | one open attempt; one publication, serialized with cancellation; recovery's reading stays valid; evidence is frozen; terminal is final; no live lease is evicted |
| `workers` | 2 workers, 2 attempts, 1 crash (316,857) | queue and run agree; a success is published; claims are exclusive; the workers implement `RunAttempts` |
| `settle` | 1 worker, 3 deliveries and claims, 2 crashes (76,832) | the run becomes terminal and its message leaves |
| `coordinator` | 2 attempts, time 0..5 (81,735) | state is history; completion is bounded; cancellation outranks limits |
| `lanes` | 3 lanes, one slot each, 2 in all | both budgets hold; no lane starves; a stop drains |
| `account` | 2 instruments, 2 orders of 15 kinds, 3 of 9 bars, 2 seeds (281,962) | the ledger explains cash, positions and fees; commitments are covered; orders add up; fills respect their orders; capacity is shared |
| `intake` | 2 consumers, 2 messages in 27 deliveries, 2 receives, 2 faults (660,767) | jobs only for authorized requests; COMPLETED is published and final; intake implements `RequestOutcomes`; the queue drains |
| `lifecycle` | 2 consumers, 2 releases, 2 servers, 2 posts, 1 fault (2,632,341) | one job; no release lost; nothing overwritten; answers are true |
| `publication` | 3 attempts, 3 tries, 3 faults, both stores (1,183,272) | official parts are stored; compensation is owned; uploads are accounted for; reports are true |
| `replay` | 3 sessions, 2 instruments, 5 flows, 1 feature, 1 missing row, 2 signals, 1 error (76,271) | what is published is accepted and true; no fill from the past; positions' history is exact |
| `unfenced_compensation`, `once_per_position` | as `publication`; 2 sessions, 3 flows | the two disagreements below |

The bounds let the interesting cases happen. Three claims give an attempt, a successor and
a successor beyond recovery's budget. A lease of two has a state in which it has been
renewed, one in which it is old and one in which it is over. Two workers and two
deliveries are enough for a stale worker and its successor; the delivery after them is the
one over the limit. Five ticks cover a timeout and a lease after it. Two slots for three
lanes make the global budget the scarce one. Two requests are the smallest set with a
rival, and every test of intake has a request that fails it alone. Two servers have
different memories. Three attempts publish, take over and supersede; three faults exhaust
the tries of a cleanup. Two orders share a bar, a position and a balance; overlapping bars,
an incomplete one, one with the volume of half a share, prices at which fees round and a
price at which a fill is worth nothing are among the nine. Three sessions give a carried order, a week that turns and a month that
turns; volumes are small at the open, so orders are filled in parts by fine bars and by the
daily one; one bar opens at a price at which a small fill raises. No run turns
`ExecutionGate` off, which only takes guards away.

`settle` has one worker, for the size of the state space: the deliveries of its message
follow one another, and a stale worker that races its successor is left to `workers`, which
checks safety only. `MCRunLifecycle` starts either with the releases in the queue or with the run accepted:
acceptance only reads the content of a row that exists. The theorems below do not split.
Workers, consumers, releases and servers run the same code and are symmetric where only
safety is checked. Deadlock is not checked where the modelled part really ends: a terminal
run refuses every call of its coordinator, a drained queue has nothing to do, a published
replay is over, and the bounded account has used its orders and bars.

**Fairness.** Time passes, an idle worker polls, and the recovery loop runs. A worker's own
step is strongly fair, because row locks queue up and a replay is bounded by its
coordinator; so is recovery's action, because its passes do not all fail. A delete that
works is strongly fair: not every receipt is stale by the time it is used. In the scheduler
the thread runs, jobs end, and a queue that has a message does not fail or hide it at
every receive. In intake a consumer that has work goes on with it (weak fairness), and a
message whose visibility timeout is over becomes visible. Heartbeats, crashes, faults,
cancellations and stops are under no obligation.

### Disagreements between the code and its documentation

Two runs expect a violation; `PROJECT.json` quotes the lines.

* `unfenced_compensation`: bytes whose registration failed are deleted without a lock
  (`wiring.py:1738`, `persistence/repositories.py:1353`). An attempt whose lease expired
  between upload and registration can so delete the result object its successor has
  reconciled by hash, registered and made official.
* `once_per_position`: a held instrument without a bar at an instant is missing from the
  published positions, `_retire_closed_position_gates` (`basic_runtime.py:1653`) takes that
  for a closed position, and a flow that executes once executes again.

Seven more configurations, kept beside the runs, reproduce smaller ones:

| Configuration, property | What happens |
|---|---|
| `MCRunAttemptsDeletion`, `DeletionHidesTerminal` | `close_run_attempt` (the SQL, 257) turns a success into a cancellation without looking at `deletion_requested_at`: the run ends CANCELLED and visible, against `lifecycle.py:1065` |
| `MCBacktestWorkerCancelled`, `CancelledNotDeadLettered` | a redelivery of a cancelled run is judged by its newest attempt (`worker.py:746`), which may be FAILED, and goes to the dead-letter queue |
| `MCBacktestWorkerLate`, `LateCompletionFenced` | an expired worker that finishes as FAILED finds its attempt already FAILED, which the SQL (244) accepts; `finish` (`wiring.py:966`) then fails the run its successor is working on |
| `MCAttemptCoordinatorRetried`, `CancellationNeverRetried` | a retryable failure after a cancellation request leads to WAITING and another attempt (`attempt_coordinator.py:488`, against 380) |
| `MCRunLifecyclePlan`, `PlanWasCompared` | a plan that appears between the two times `accept` resolves it (`lifecycle.py:799`, 846) is pinned without having been compared with the request, against 788 |
| `MCLaneSchedulerStop`, `NoReceiveAfterStop` | a stop during the poll loop does not end it (`worker.py:885`, against 876) |
| `MCExecutionModelCapacity`, `FillsFitBuyingPower` | a fill capped by buying power is sized with a fee rounded per share and pays one rounded on the whole (`execution_model.py:1209`), so it can cost more than the buying power it was capped by; `CommitmentsCovered` bounds how far that takes the cash below zero |

Reading the code for the model also showed, without a run of its own:

* A position sold out and bought again within one bar keeps its old `openedAt`.
* A condition that waits for its bar to close yields CONDITION_NOT_MET, so a policy that
  asks for the condition to be met anew is rearmed at finer instants in between.
* A held instrument without a completed bar of the reference resolution raises and ends the
  replay as PLAN_REPLAY_FAILED, at a place marked as not reachable (`basic_runtime.py:1152`).
* `ResultSnapshotValidationError` and `PerformanceCalculationError` are not permanent, so a
  deterministic failure is retried until its budget is spent.
* A write that succeeded and was answered with a failure is reconciled by the retry within
  `put` (`object_store/s3.py:285`) as if another attempt had made it. Cleanup then leaves the
  bytes alone, also when they have no row, and reports a clean end. If the write was a
  detail part's, a lost commit that lands after `_already_completed_publication` has looked
  is not noticed either: no candidate of the cleanup batch is referenced, so the attempt
  deletes the result snapshot it owns and reports its error, although the run is now
  COMPLETED with its result. With several parts this takes a retried write of each.
* A run whose acceptance was committed and whose job was not published stays QUEUED without
  a message; a redelivered release publishes nothing for it, and recovery's dispatch timeout
  ends it (`lifecycle.py:808`, `recovery.py:226`).
* A bar that starts inside a skip interval and ends outside may fill an order; the
  gate looks at the instant of the fill only.

## What is proved

TLAPS checks these for every value of the constants that the named assumption allows.

* `BacktestWorkerProofs`, first part, from `ConstantsAssumption` alone: every property of
  `run_attempts`. The invariant `IInv` adds one fact to the invariants, `RowShape`: an open
  attempt has no reason and a closed one no lease. The parts need each other. A success
  stays the newest attempt because a claim looks at the newest attempt only and
  `OnlyLatestRunning` says the others are closed. `TerminalIsFinal` needs
  `RecoveryReadStable`, since a recovery pass acts on what it read.
* `BacktestWorkerProofs`, second part, from `WorkersAssumption`: every property of
  `workers`, for any number of workers, deliveries and crashes, the refinement of
  `RunAttempts` included, so the theorems above hold of the workers. `WInv` adds to `IInv`
  what the rows decide (`RowsDecide`: the newest attempt and the run agree), a budget
  (attempts and the deliveries that may still claim stay within the receive count), what
  each worker knows at each point of its program (`WorkerOK`), that an open attempt has one
  holder, and that a message is gone only when the run is settled. The budget is needed
  because the refinement maps a claim to a claim of `RunAttempts`, which is bounded.
* `RequestIntakeProofs`, from `IntakeAssumption` and `SequenceAssumption`: `CompletedIsPublished`,
  `PublishedIsAuthorized` and the refinement of `RequestOutcomes`. A settled receipt may
  belong to a lapsed claim; that it tells of a published job rests on what a consumer has
  itself done before it settles, not on the token, and that COMPLETED stays rests on the
  guard of `_transition`, which leaves a receipt alone that is no longer being processed.
* `RunLifecycleProofs`, from `LifecycleAssumption`: every property of `lifecycle`, for any number of consumers,
  releases, servers and faults. Only the consumer whose insert won is about to publish;
  a server's applied terminal events are the row's status.
* `PublicationProofs`, from `PublicationAssumption`: `OfficialDetailsStored`,
  `CompensationOwned` and `ReportsAreTrue`, on both stores. A part belongs to one attempt,
  and no plan of another names it. While a commit is pending or the part is official
  (`Bound`), the bytes and the row are as the publisher left them (`Kept`), so a scan can
  only plan to ask the gate (`batch`), and the gate refuses: the run row is not free, or a
  manifest refers to the part.
  `UploadsAccounted` has an inductive invariant of its own (`Accounts`). The detail part
  of an attempt is its own affair (`PartOK`). The result snapshot is shared by all attempts,
  and who answers for one that no row names changes from step to step: who made it and has
  not registered it yet, who made it and can no longer commit, whose cleanup will delete it or refuse,
  or who has stopped uncleanly (`Handles`). While the row names another version, who made
  the snapshot may also hold the run row or have committed (`Holds`); then no cleanup gets to
  remove that row, because the gate asks for a free run row and the newest attempt. Bytes
  that a retried write left behind are excepted from both invariants, as the code leaves
  them alone.
* `SchedulingProofs`, first part, from `PolicyAssumption`: every property of `coordinator`.
  `CompletionBounded` is not inductive, since `complete` does not look at the timeout. The
  invariant adds that no lease reaches beyond the timeout by a whole lease (`RowOK`). Second
  part, from `SchedulerAssumption`: `SlotsBounded` of `lanes`, together with the finiteness
  and the type of the futures that it counts.
* `ExecutionModelProofs`, from `ExecutionAssumption`, which says what the constructors of
  policies, requests and bars and `seed_long_position` demand. `AccountLemmas` has the
  invariant, the lemmas on the operators and the calls that touch no fill, `FillLemmas` one
  fill from its price to its record, and `ExecutionModelProofs` the loop over the orders of
  a bar and the theorems: every property of `account`,
  for all rates, limits, requests, bars and seeds, and any number of orders, lots and
  fills. The invariant `IInv` (`AccountOK`) relates reservations, lots, fills, ledger and
  limits of the account. It holds of every turn of the loop over the orders, with the
  capacity that is left, and not only between calls. Its lemmas bound what each rounding
  loses: the basis given up with a lot's parts adds up to the lot's basis, a quantity
  floored to a cap keeps within the cap, and the fee on a whole fill exceeds the sum of its
  rounded unit fees by less than half a quantum per share and a little more. So `cash >= 0`
  is not a theorem, and `CommitmentsCovered` states the bound instead. `LedgerExplains` has
  no condition: a fill can raise only when it is worth nothing, so what it changed before it
  raised does not show in the two equations. `OnlyDustRaises` says when that happens. If the
  least fill is worth more than half a money quantum (`NoDust`, which the code does not
  demand and the instance of `account` does not satisfy), no fill that `process_bar` decides
  on raises. After a fill that raised the reservations are stale and only the equations, the
  orders and the limits are claimed.

Sums and folds need induction over data. The library's induction theorems take an operator
as a parameter, which the provers cannot instantiate, so `AccountLemmas` proves an
induction principle over sets of numbers (`Induction`) and gives it the set of the numbers
for which a statement holds. Every proof module makes Zenon the default backend: most steps
are first-order, and a step that needs arithmetic or records cites `SMT`, or `ONLY` the facts
it computes with. The account's modules hide the names they do not use.

Only model-checked: liveness (`settle`, `NoStarvation`, `StopCompletes`, `QueueDrains`),
which the prover does not handle; and the properties of `replay`, whose evidence is rebuilt
by sorting and folding over whole records.

## What is not modelled

* The scale-down controller: it reads counts and writes a task count, and what the write
  does to a running task is decided by the platform.
* Several runs in one lane: recovery's lane-position query has one answer here.
* The arithmetic of indicators, Sharpe and volatility (square roots); only the errors they
  raise are there. The 28 digits of Python's decimal context and the range of
  `numeric(24,8)` are not modelled.
* Loading and validating plan documents and Parquet partitions, key and path syntax,
  serialised bytes, hashes, multipart transfers and the other client retries: conversions and I/O
  without a protocol of their own.
* Read-only queries and the shape of their answers, configuration, table declarations and
  start-up checks.
* Unfenced attempt methods and in-memory stores, which the deployed engine does not reach,
  and a message that does not parse, which changes nothing but the dead-letter queue.
