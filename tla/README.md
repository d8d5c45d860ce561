# CONCLAVE in TLA+

CONCLAVE takes a review request, asks up to three model reviewers (A, B, C) for
assessments in a fixed protocol, compares them deterministically, and returns one
immutable result with an audit trail from which the decision can be recomputed.
The code is small; what is hard about it is that several processes drive the
same database rows: workers with leases, API calls, operators, event
dispatchers. This directory models those rows and the processes that write them.

All paths below are relative to `src/src/conclave/`.

## 1. Inventory

| Part | State it keeps | Operations | What makes it correct |
|---|---|---|---|
| **Work queue** `ledger/repository.py`, `scheduling/worker.py`, `runtime/processes.py` | `scheduler_work_items`: status, claimed_by, lease_expires_at, attempts, max_attempts, available_at | enqueue, claim, complete, fail, extend, retry dead letter, cancel; `run_once` and the process loop | claims lapse, leases are exclusive, late reports change nothing, final work stays final, every item settles |
| **State machine** `orchestration/state_machine.py` | none; transition tables | validate a transition, a recovery | used by the orchestrator and replayed by the verifier |
| **Automatic review** `orchestration/service.py`, `ledger/repository.py` | session state and its events, `reviewer_invocations`, provider attempts, comparison events, `review_results` | `run()`: load, branch, invoke, compare, derive, adjudicate, record, return; `recover_cross_review` | outputs are write-once, reviewers are assigned only when called for, a resumed run reaches the same outcome, a failed cross review can be recovered, a review settles |
| **Routing and packs** `packs/`, `orchestration/result_builder.py` | none | validate and qualify a request, normalize and validate an output, materiality, compare, merge, judge, build the result | the decision is a function of request and outputs; what two reviewers merge to is valid and bolder than neither; unfit evidence never leads to an optimization; a completed panel has a result |
| **Decision verifier** `auditing/verification.py` | none; reads the ledger | `verify_session` | accepts what the orchestrator produces |
| **Event stream and outbox** `ledger/repository.py`, `events/publishing.py` | `audit_events`, `event_streams`, `event_subscriptions`, `event_deliveries` | append, register, backfill, claim, complete, fail, `dispatch_once` | order inside a stream, nothing skipped, nothing lost |
| **Reviewer runtime** `reviewers/runtime.py` and adapters | attempts of one call | retry loop with attempt guard, budgets, HTTP | attempts numbered and recorded |
| **Intake** `intake.py` | session, snapshot, validation event | bind the pack, create, validate, snapshot, divert stale evidence | one document per session however many accepts race; a repetition gets it out of intake |
| **Scheduler and plans** `scheduling/service.py`, `plans/` | plan revisions, occurrences, process rows | add revision, register occurrence, tick (process loop or API) | a tick that returns has left its work; the revision in force decides; racing ticks do not all die |
| **Feedback and evaluation** `feedback/`, `evaluation/` | feedback, evaluation candidate, their events | record, evaluate, record the candidate | rows, events and state agree for the verifier at every instant; evaluation follows |
| **Phase 8 pilot boundary** `pilot/phase8_safety.py` | reservations, budgets, case usage, revocation (a locked file) | activate, reserve, settle, complete case, complete batch, revoke | no budget is exceeded, after a revocation a process makes at most one more request, a lost process blocks the batch until reconciled |
| Runtime processes, HTTP API | process rows; none | loops over tick, `run_once`, `dispatch_once`; one call per route | the loops and calls are the actors of the modules above |
| Contracts, prompts, configuration, pilot reports | text, wiring | | see section 8 |

Interactions. The scheduler enqueues; a worker claims, runs intake and then
`run()`; the HTTP API calls intake and `run()` directly, without a claim. So a
work-item lease does **not** make a session exclusive: `run()` may be executed by
the lease holder, by a worker whose lease has run out while a provider was slow
(nothing in `run_once` extends the lease), and by API requests at once. They
coordinate only through ledger transactions: `SELECT ... FOR UPDATE` on a row
that exists, unique constraints on rows that do not. Every ledger transaction
appends audit events in the same transaction; dispatchers deliver them later.

What is hard here: look-up-then-insert pairs in read-committed transactions;
steps that belong together and are two transactions; a frozen `now` that is used
long after it was read; reports that arrive after the lease ended; documents
rebuilt on resume that must equal the recorded ones. `PROJECT.json` lists these
hazards by line with the properties that cover each.

## 2. Modules

| Module | Models |
|---|---|
| `WorkQueue` | every method on a work item, workers inside `run_once`, operator, clock, crashes |
| `ReviewStates` | the transition tables |
| `ReviewRoute` | the questions a session asks its task pack, as constants on opaque assessments |
| `ReviewContract` | abstract specification: what an automatic review promises its caller |
| `Orchestrator` | `run()` and all ledger methods it calls on one snapshotted session; several runners, crashes, operator recovery |
| `AuditVerifier` | `verify_session` as a predicate on the ledger of `Orchestrator` |
| `EventDelivery` | event streams, one subscriber's delivery rows, dispatchers |
| `Phase8Safety` | the pilot's safety boundary, the retry loop of the reviewer runtime it guards, and `run_case`; several processes |
| `Scheduler` | plan revisions, `tick`, scheduler processes, operator ticks, occurrences registered at intake, crashes |
| `ReviewSession` | one session around its review: `accept` before it, feedback and evaluation after it; several callers and submitters, lost calls |
| `ChimeraPack`, `CerberusPack` | the decisions of the marketing and the venture pack as operators |
| `PanelDecision` | one review from request to result status with the packs' own decisions; reviewers answer anything |
| `WorkQueueProofs`, `OrchestratorProofs`, `EventDeliveryProofs`, `Phase8SafetyProofs`, `SchedulerProofs`, `ReviewSessionProofs`, `PanelDecisionProofs`, `AuditVerifierProofs` | theorems |
| `MCWorkQueue`, `MCOrchestrator`, `MCEventDelivery`, `MCPhase8Safety`, `MCScheduler`, `MCReviewSession`, `MCPanelDecision` | instances for TLC |

### WorkQueue

One variable per column. A repository method is one transaction on a locked row,
so it is one action. Per worker: `pc` (idle, running, failing), `job`, `started`
(the instant `run_once` was given, passed to claim, complete and fail alike) and
`retryable` (what the exception handler decided). `CompleteRefused` is the path
on which `complete_work_item` raises inside the `try` block and is then reported
as a retryable failure of the run. `ExtendLease` is offered by the repository and
called by nobody in `src/`; it is included because it can only make a lease
longer, which is the harder case for the expiry test. `Enqueue` does nothing for
a known occurrence, as the code. What a run does inside is its outcome.

### Orchestrator

The ledger of one session: `state` and the list of states it went through
(`trace`), per invocation `status`, `payload` and the number of recorded attempts,
the number of comparison events per stage, and the result document. The six
invocations `a, b, cross_a, cross_b, c, judge` are the (slot, stage, round)
triples `run()` uses. A runner is a call of `run()`: `pc` names the ledger
transaction or provider call it is about to make, the other variables are its
Python locals. `record_invocation`, `record_comparison` and `record_result` look
a row up and insert it if it is missing; under read committed two runners
interleave between the two, so each is two steps. An insert that meets a unique
constraint raises (`InsertInvocationRefused`, `InsertResultRefused`); the
comparison event has no such constraint (`AppendComparison`). A transaction that
locks an existing row is one step. `Review` is the provider call: an output that
passes the contract, one that breaks it, exhaustion with attempts, or an
exception without any. `RecordAttemptsRefused` is the attempt-number conflict
that the `except Exception` of `_invoke` handles as a provider failure.
`_derive_outcome` and `build_review_result` are functions of the ledger
(`DerivedPath`, `FinalAssessment`, `BuiltDocument`); the document keeps path,
final assessment, status, the invocations and their attempt telemetry, because
the telemetry is the only part another runner can still change.

Assessments are opaque: whether one is material, whether a pair requires cross
review, what a pair merges to and whether it may resolve by itself are constants,
so every property holds of whatever a pack decides within the instance. A request is
the facts that route it (`RequestFacts`): what set the review off, whether it is
material, whether the session's hash falls below the plan's sample rate, and which
triggers of reviewer B the plan revision enables. Hashes,
wording, prompts and costs are left out. A session enters the model as
snapshotted; the states before belong to intake, the states after
`result_returned` to feedback. Which of `run()`'s errors dead-letter the work
item is WorkQueue's matter: here a runner may begin again whenever it is idle.
The limit of 24 iterations of the loop is not counted: every iteration that does
not end the call makes a transition, and no legal path makes more than ten.

### ReviewContract and the refinement

`ReviewContract` knows opinions, a phase and a decision. The mapping is
`opinions <- payload`, `phase` from `state`, `decision` from the result document
without its telemetry. A step of the contract is: an opinion that is called for
is given, once; the decision is taken when nothing more is called for, and it is
the stated function of the opinions; it is returned; the review fails while an
opinion is missing; a missing cross review is reopened. `ImplementsContract` says
that runners, crashes, conflicts and recoveries never show a caller anything else.

### AuditVerifier

`VerifySession` follows `verify_session` of a session without feedback: legal
trace with recoveries removed, expected state prefix of the published path, the
number and completion of invocations, the route recomputed from the outputs, the
published assessment, and one comparison event per round. It extends
`Orchestrator` and is checked against what `Orchestrator` can produce. Where the code
shares a rule with the orchestrator (`compare`, `merge`) the model does; where the
verifier has its own, so has the model. That is so for the panel: `ExpansionRequired`
is `_verify_a_only_expansion`, which samples a session whenever no trigger fired,
`ExpandsToB` is `_should_invoke_b`, which samples it only if nothing is material. The
sessions on which the two differ are `SampleDisputed`. The order of `result_recorded`
and the return in the event stream is no state of its own: the result is written
before the transition to `result_returned`, and `VerifySession` refuses a session
without one. The loop that
removes recoveries is a recursive function, `KeptStates(states)[n]`: what is kept of
the first `n` states. The code looks ahead from a failed cross review, the function
back from a recovery; no state is both, so they keep the same.

### EventDelivery

Streams commit in order because `_persist_event` locks the `event_streams` row
before it takes ids; streams are independent of each other. A delivery row comes
into being only by the backfill that precedes each claim and each listing, so an
event may be older than its subscriber. Time is relative: `wait` (until
available), `held` (since the claim of a row), `age` (since the claim of a
dispatcher), each saturating where the code can no longer tell a difference;
this makes the state space finite without bounding the clock. `Publish` stands for the
publishers of `events/publishing.py` (no-op, logging, in memory) and for whatever a
deployment puts behind their protocol: it may process the event and return, raise
having processed it, or raise without. The model has one
active subscriber that selects all `Events`; subscribers share no rows.

### Phase8Safety

Two files are shared by the processes of the pilot: the runtime state and the
revocation record, each read and rewritten under its own lock. A transaction on
one file is one action; the check of the revocation record before it is another,
because a revocation may come in between. A process is in `run_case`: the
orchestrator inside it asks for any stage of the case (`Review`), the retry loop
of `ProviderRegistryRuntime` runs with the boundary as its attempt guard
(`Guard`, `ReserveAttempt`, `Invoke`, `Answer`, `Settle`, `Recheck`), and every
`_violate` of the boundary ends in `Violate`, which writes the revocation before
it raises. `Raise` keeps a peculiarity of the loop: the settlement of a success
is inside its `try` block, so a refusal is caught by `except Exception` and the
attempt is reported again as invalid output. `Unwind` is the exception handler
of `run_case`; it reads the state and closes the case in a later transaction.
`Stop` ends or loses a process anywhere. A process that completed its batch
detaches its provider and is idle afterwards.

Attempts, tokens and cost are one vector of three meters, with the caps of the
route, the batch and the pilot as constants; floating-point tolerances are left
out. The budgets are of *reported* usage: a failed attempt is settled with zero
tokens and cost, whatever the provider charges for it. The frozen artifacts,
their hashes and the comparison of a call with the manifest are a
nondeterministic refusal (`CallDiffers`), unsound telemetry likewise. The revocation
record is read before the reservation and not again before the request, so a request
may leave a process after another process has revoked (section 3).
Reconciliation of a lost attempt is a manual act without code, so a lost
reservation blocks for good.

### Scheduler

The tables are sets of rows; `occurrences` holds the rows under the scheduler's
digest, `registered` those under an id a caller chose, because both fall under the
same unique constraint on the schedule and only the former can be found by id. A
tick fixes `at`, lists the revisions once (`listed`, the number it saw) and then
goes plan by plan: look the occurrence up, insert it, look the work item up,
insert it, each a step. A refused insert raises out of `tick`: `SchedulerDies`
for a process, because `SchedulerProcess.run` has no handler and its `finally`
block only marks the row stopped; `OperatorReturns` for an API call. A process
waits `Interval` from the end of its tick. `basis` and `fate` are history, read by
properties only. `effective_revision`, `is_due` and `slots_due` are operators over
integer instants. `OccurrenceId` takes an instant for its text: the code hashes
`due_at.isoformat()`, so this assumes that all ticks write instants with one UTC
offset, as `SchedulerProcess` does. A caller of `/scheduler/tick` may use another; the
same instant then gets another id and is refused by the unique constraint on the
schedule, as a row of `registered` is.

### ReviewSession

Requests that agree in caller, occurrence, evidence version and plan revision meet
in one session; the model is of one such identity, so a document is its
idempotency key, pack, content and eligibility. `accept` is a series of
transactions, one step each, and two where a row is looked up and then inserted.
`seen` is the state accept read when it created or found the session and branches
on later. The review between is `BeginReview`, `ReturnResult`, `FailReview`,
`Recover` and, since a late runner may still report, `RecordAttempts`; its detail
is `Orchestrator`. A submission records feedback, then evaluates, then records the
candidate. A candidate holds what it was computed from: the result, the feedback
and the telemetry of the invocations at that time. Registration of the occurrence
by accept is `RegisterOccurrence` of `Scheduler`.

### ChimeraPack, CerberusPack and PanelDecision

The packs are pure, so they are operators: acceptance and eligibility of a request,
normalization and validation of an output, materiality, distances, hard triggers,
merge, judgment, result contract. Fractions become integers: a distance of 1.0 is
`Unit`, weights and tolerances are hundredths. Lists in which only membership
matters are sets; action lists stay sequences because the code turns them into
dicts in which the last entry wins (`LastOf`). `PanelDecision` runs them in the order of
`run()`: intake, A, route, B, compare, cross review, compare, C, judge, result. A
reviewer may answer anything in `Drafts`, valid or not. The plan is one that asks for B
on any materiality; plans that do not are `Orchestrator`'s. `ResultAccepted` is the
part of the result contract that looks at the decision. Its correlation checks
(`contracts/validation.py` 148-151) and the order of reviewer C's timestamps (179-197,
`packs/cerberus/pack.py` 241-254) are left out: the builder copies what the former
compare, and the latter holds of stages run one after the other under a clock that
does not go back.

`Orchestrator` and `PanelDecision` cut the same path in two ways. The former has
every interleaving and takes a pack's answers as constants; the latter has one
runner and the packs' answers. What the former assumes of a pack, that its answers
depend on request and outputs alone, holds of the latter by being operators of them.

## 3. Runs

| Run | Instance | Shows |
|---|---|---|
| `queue` | 2 items, 2 workers, 1 crash, 1 manual retry, clock 0..2, lease 1 | types, `LeaseProtects`, `FrozenClockNeverExpires`, `OnlyHolderOrOperatorEndsClaim`, `FinalStatusIsFinal`, `EveryItemSettles` |
| `review_one` | 1 runner, 1 crash, 1 recovery, requests and plans of every kind, all answers over 3 assessments | `DerivationSucceeds`, `ResolutionReproducible`, `ReturnedReviewVerifies`, `ImplementsContract`, `ReviewSettles` |
| `review_two` | 2 runners, 1 recovery | `AssignedOnlyWhenCalledFor`, `CrossReviewRecoverable`, `AttemptNumbersHaveNoGap`, `ReturnedDecisionVerifies`, `RecordsAreImmutable`, `ImplementsContract` |
| `review_stranded` | 1 runner, 1 crash | **violated**: `EveryReviewSettles` |
| `review_ledger` | 2 runners | **violated**: `CompletedResultHasVerifiedLedger` |
| `outbox` | 3 events in 2 streams, 2 dispatchers, 1 crash, 2 publisher failures, 2 outrun leases | types, `HandledInOrder`, `DeliveredWasHandled`, `OneClaimPerStream`, `LateReportsChangeNothing`, `EveryEventDelivered` |
| `pilot` | 2 processes, a canary of one case with two stages and one control, a second gate of one case, 2 attempts per call | `BudgetsHold`, `EveryCallIsAccounted`, `CallsAreSerial`, `AtMostOneLateCall`, `LostAttemptBlocks`, `GateTwoFollowsValidCanary` |
| `scheduler` | 1 scheduler process and 1 operator on 2 plans, 4 revisions to add in any order, 1 registration, 1 crash, instants 0..1 | `CompletedTickLeavesWork`, `OneOfTheRacersReturns`, `ScheduledByTheRevisionInForce` |
| `scheduler_missed` | 1 process, never lost, polling every 2 instants | **violated**: `DueWorkIsScheduled` |
| `session` | 2 callers (repetition, changed content, changed key), 2 submitters, 1 lost call, 1 recovery | `EvidenceIsPinned`, `FeedbackVerifies`, `RequestLeavesIntake`, `FeedbackIsEvaluated` |
| `session_ineligible` | 1 caller with stale evidence | **violated**: `StaleEvidenceIsNotReviewed` |
| `packs` | 12 marketing and 7 venture requests, 43 and 96 answers, both rounds, all judgments | `FinalIsValid`, `MergeIsCautious`, `IneligibleEvidenceNeverOptimizes`, `CompletedPanelReturns` |

Every property of a passing run has a mutant in `PROJECT.json`: a definition
changed as a plausible bug would change it, under which TLC finds the property
violated. The mutants stand next to the definitions they change.

### Where the code and its documents disagree

* `review_stranded`: `fail_invocation` and the transition to the failed state are
  two transactions. Lost between them, a session keeps a resumable state over a
  failed invocation: `run()` refuses it and `recover_cross_review` refuses it.
* `review_ledger`: two runners append the comparison event of one stage twice; the
  review is returned, and its verification then fails on the number of events.
* `scheduler_missed`: a slot is due only when the instant read from the clock is an
  exact multiple of the cadence after the anchor. A process polls with whatever its
  clock shows after the interval, to the microsecond, and never looks back: a due
  instant between two polls gets no occurrence and no work, with nobody lost.
* `session_ineligible`: accept moves a session with stale evidence to
  `snapshotted` and, in a later transaction, to `stale_or_ineligible_evidence`. A
  `run()` between the two, or after a loss between them, reviews it.

* `review_one`: orchestrator and verifier have different rules for the audit sample
  (`orchestration/service.py:1263`, `auditing/verification.py:566`). Under a plan that
  disables a materiality trigger and has a positive sample rate, a sampled session with
  a material request, or a material recommendation, is returned on A's opinion alone
  and `verify_session` refuses it for good. One undisturbed runner suffices.
  `ReturnedReviewVerifies` and `ReturnedDecisionVerifies` say that the verifier refuses
  these sessions (`SampleDisputed`) and no others; both runs have such requests, and on
  the instance of `review_one` they refute `CompletedResultHasVerifiedLedger` too.
* `pilot`: `audit/CHANGELOG.md:108-109` promises that hard violations "block all later
  provider access". The record is read before the reservation and not again before the
  request: after `Guard` and `ReserveAttempt`, another process's `Revoke` does not stop
  `Invoke`. `RevocationBlocksAccess` (`Phase8Safety`) is the promise as written, and is
  refuted on the instance of the run; `AtMostOneLateCall` is what the code keeps, one
  request per process.

What still holds in these cases is what the passing runs state: outputs, results
and snapshots stay write-once, the decision verifies but for the disputed samples, the
contract is never broken, and a tick
that does hit the instant leaves its work.

Three more statements of the documents are kept beside the models without a run;
the code refutes each on the instance named.

* `AttemptsWithinBudget` (`WorkQueue`; 1 item, 1 worker, `MaxAttempts` 1, 1 crash):
  a claim is counted against `max_attempts` only when a live worker reports a
  failure. A worker lost inside every claim is never dead-lettered, and its item is
  claimed before all younger ones.
* `OnlyProvidersFailCrossReviews` (`AuditVerifier`; the instance of `review_two`):
  two runners number their provider attempts alike; the second one's ledger conflict
  is handled as a provider failure and fails the invocation although the provider
  answered.
* `RecordedResultCanBeReturned` (`AuditVerifier`; the instance of `review_two` with
  one crash and no recovery): the result document carries attempt telemetry, and attempts are
  accepted for an invocation that is already completed. If they arrive between
  `record_result` and a crash before the last transition, no later run rebuilds the
  recorded document.

Observations, not contradicted by a document in so many words:

* The same telemetry enters the evaluation candidate. Feedback submitted again after
  a late runner reported gets a conflict from the immutable candidate although the
  feedback is identical (`CandidateRefused`); nothing recorded changes.
* A caller may register an occurrence under its own id for a schedule the scheduler
  will reach. Every tick of that instant then fails on the unique constraint and
  ends its process; plans with greater ids get no work from it. This is why
  `OneOfTheRacersReturns` excepts such instants.
* An output may raise and lower one target in the same list. Validation accepts it,
  the comparison sees the last of the two, and two reviewers who list both in the
  same order agree.
* A negative magnitude passes the change limit, which bounds from above, and is the
  smaller of two in a merge. The runs enumerate magnitudes that are not negative.

## 4. Bounds

* *Clock (WorkQueue).* The clock stops at `MaxClock`, two leases after the start:
  a lease can be outrun, the item taken over, that lease outrun as well, and both
  late reports still come. For liveness the bound means that leases are outrun
  finitely often; an item that waits for an instant beyond the
  last tick and that nobody works on is excused by `PastHorizon`.
* *Faults.* `MaxCrashes`, `MaxRecoveries`, `MaxManualRetries`, `MaxFailures`,
  `MaxOverruns` bound the environment, in guards. One crash reaches every
  step since it may come between any two; more crashes repeat it from states
  already explored with `Begin`.
* *Assessments.* Three suffice to have a conflicting pair, an agreeing pair that
  merges to one of its members, and material as well as immaterial ones.
* *Requests.* `AllRequests`, of `review_one`, has each trigger of reviewer B alone,
  enabled and not, and the sample with and without something material: nine that
  differ in the route or in the verifier's verdict on it. With two runners,
  `FewRequests` is the routine request, which A's answer alone sends down either
  branch, and a disputed sample; `FewAnswers` keeps two answers wherever two runners
  could get different ones and the second must be refused. `review_ledger` has the
  routine request only, so that its violation is that of the two events.
* *Attempts.* A call reports one attempt. Zero (fixtures) never collides and more
  than one collides exactly when the first does, as `first[r]` decides both.
* *Pilot.* Caps are as small as lets the canary succeed and the second gate run:
  two attempts for two stages, so that a retry exhausts the batch. An attempt
  reports nothing, half of its cost reservation, or more than all of it.
  `MayExpire` and `MayRunLate` say which approval may expire and which case may
  exceed its time: the canary's. `Numbers` = {1}: processes ask with the same
  first attempt number, so their reservation ids collide.
* *Scheduler.* Two instants and one crash: both plans fall due at instant 1, the
  back-dated edit is in force at instant 0, and the pause names another deployment:
  it is plan 1's only revision or none of it. Ticks of one instant race as process,
  operator and late operator; more tickers repeat the race of two for a row.
  `scheduler_missed` needs five instants so that an interval can pass one by.
* *Session.* Two callers meet at every look-up-then-insert pair; documents are a
  repetition, the same key with other (stale) content, and another key. Candidates
  differ by one attempt of telemetry (`MaxAttempts` 1), which suffices to make a
  repeated evaluation differ from the recorded one. One lost call comes between any
  two steps.
* *Packs.* Requests sit on both sides of each threshold (age, volume, deviation,
  words), answers on both sides of each tolerance and rule: 13 action lists with three
  sets of side conditions, and claims that are missing, empty or unknown. Magnitudes
  and hours are such that every distance is a multiple of 1/`Unit`. The runs say
  nothing about rounding of floating-point sums at the tolerance itself.
* *Symmetry* permutes runners and pilot processes, in safety runs only.

Deadlock is checked in `packs`, where a review that has ended stutters and any other
stage must have a step. Elsewhere it is not: a session with a result, an empty queue,
a delivered outbox and a revoked pilot are ends the system really reaches.

## 5. Fairness

* WorkQueue: time passes; an idle worker process polls (`WorkerProcess.run` loops
  over `run_once` with a sleep); a run ends, since provider calls carry timeouts;
  the exception handler runs. Crashes, cancellation and manual retries are unfair.
* Orchestrator: a live runner takes its next step; `run()` is called again until
  the session settles. The code justifies the latter for retryable errors (the
  work item is retried) and leaves it to the API client or the operator once the
  item is dead-lettered; the liveness results are therefore statements about a
  session that somebody keeps running. They say that running it is enough, which
  `review_stranded` shows to be false after one particular crash.
* EventDelivery: time passes and somebody keeps calling `dispatch_once`; the code
  has the method and no loop of its own. Publishers fail, dispatchers are lost
  and leases are outrun finitely often.
* Scheduler (`scheduler_missed` only): a started process goes on with its loop and
  time passes. Nobody has to start or stop a process, edit a plan or call the API.
* ReviewSession: a call that is not lost goes on, and callers and submitters repeat
  theirs. Workers do so for retryable errors; for API clients it is the documented
  use of the idempotency key. Nothing is assumed of the review between.

## 6. Proofs

For all sets of items, workers, events, dispatchers, callers, submitters, tickers,
runners and pilot processes, every stream assignment, all plans, cases, documents and
reviewers' answers, and every lease, delay, cap and bound on faults, from the named
assumptions `WorkQueueConstants`, `EventDeliveryConstants`, `SessionConstants`,
`SchedulerConstants`, `ReviewRouteConstants`, `OrchestratorConstants`,
`Phase8Constants` and `PanelConstants`. They give the constants their types, keep the
absent value apart from the present ones, and state what the code's own checks
establish before the modelled part begins: a control case is no eligible case, a
reservation is of one attempt, an answer has the fields of its pydantic model.

Every inductive invariant was checked by TLC as an invariant of an instance before it
was proved. In each proof module the initial states come first, then what a step
writes and leaves alone, then one lemma or case per action.

**WorkQueue.** `LeaseProtects` and `FrozenClockNeverExpires` speak of a worker's
memory and a row at once, so they are not inductive: nothing in them says where
the row's lease came from. The invariant `IInv` adds what a busy worker knows:
that its start is not in the future and that, as long as the row is still
claimed by it, the row's lease reaches at least `started + LeaseSeconds`; that
an overtaken worker's lease has run out or its item was cancelled; and
`ClaimCanLapse`, without which a row could be claimed with no end of lease.
From it: `TypeCorrect`, `ClaimsLapse`, `LeaseIsExclusive`, `ExpiryTestIsVacuous`,
and the action properties `LateWorkersAreHarmless`, `FinalWorkStaysFinal`.

**EventDelivery.** `HandledInOrder` fails to be inductive because a dispatcher
that lost its claim may still publish. What makes that harmless is that an event
once claimed had all its predecessors delivered, and delivered is for ever. The
invariant: streams commit in order, rows exist only for committed events, every
row that is or was claimed has nothing undelivered before it (`ClaimsAreCleared`),
so does the event in the hand of every dispatcher, late or not (`DispatcherInv`),
and what is delivered was handled. The backfill is where it could break: a row
created late for an early event. `BackfillType` and the commit order exclude it.
From it: `TypeCorrect`, `SubscriberSeesStreamOrder`, `NothingIsSkipped`,
`StreamsAreSerial`, `LateDispatchersAreHarmless`.

**ReviewSession.** Nothing locks a session between the transactions of accept, so
`EvidenceIsPinned` needs what a call knows at each step (`Knows`): that the session
has its key and pack, that the snapshot is its document, that the validation is
there. Each of these survives the steps of all other calls because the rows of
intake are written once (`RowsOnlyGrow`), and conversely. `FeedbackVerifies` needs
that no event comes before its row (`EventsFollowRows`), and from the evidence part
that a session is created only before any snapshot, so that creation cannot reset a
later state. From it: `TypeCorrect`, `RacingIntakePinsEvidence`,
`FeedbackStaysVerifiable`, `IntakeRowsAreWrittenOnce`.

**Scheduler.** Two invariants. `Owes`, in `IInv`: what was due under the revisions a
ticker has listed is in `work` or still on its own list. A racer can only add to
`work`, and a plan edit appends, so the revisions listed stay the first ones of the
table. Which revision is effective does not matter to this argument; it gives
`ReturnedTickLeftItsWork`. `RInv` is about the race and the revision in force. A
ticker that loses an insert raises out of `tick`, so `OneOfTheRacersReturns` needs
somebody who cannot lose. It is the one that is furthest ahead (`Leads`): what is
recorded at its instant is of plans it is done with, but for the row it is recording
itself. Whoever refuses another has written a row that one had not, and so is ahead of
it; the proof follows the lead from one ticker to the next at each insert (`RaceOK`).
Only a registration by a caller can stand in its way, hence the exception in the
property. `TodoOK` and `TablesOK` say that what is on a list or in the table is what
the revision in force schedules (`InForce`), among those listed; that
`effective_revision` finds one needs a greatest revision number, hence `Bounded`.
From it: `SomeRacerReturns`, `RecordedByTheRevisionInForce`, `TypeCorrect`.

**Orchestrator.** No lock spans two transactions of `run()`, so a runner acts on what
it read some time ago. The argument is that it may: the route is a function of the
outputs recorded so far, and a recorded output never changes. `CalledFor` (the outputs
before an invocation are there and call for it), `Ready` (and the comparisons that
decided so are recorded), `Finished` (nothing more is called for) and `Knows` (what it
takes to be in a state, or on the way to it) are stable when the ledger only grows
(`Grows`), which all steps of all runners make it do. The invariant says what every
row, the state, the result and every runner at each of its steps knows, in these
terms. The invocations form a chain, each called for by those before it, so at most
one exists without being completed. From that, at most one failure is under way
(`Failures`): a failed session has exactly one failed invocation, which is what
`recover_cross_review` insists on. From the invariant: `TypeCorrect`,
`AssignedOnlyOnCall`, `DerivationAlwaysSucceeds`, `ResolutionAlwaysReproducible`,
`CrossReviewAlwaysRecoverable`, `AttemptsWithoutGap`, and the action property
`RecordsStayImmutable`.

`RefinesContract` is the refinement. A completed invocation is an opinion given, and it
was called for by `RunnerOK`; the transition of a session to a failed state is the
contract's failure, and an opinion is missing then by `Failures`; the insertion of the
result is its decision, and the document inserted is the stated function of the
opinions by `CarriesBuilt`; recovery reopens. Every other step is a stutter.

**AuditVerifier.** The invariant of `Orchestrator` says what is in the ledger, and
with it the verifier's clauses on invocations, route and published assessment follow
for any number of runners (`InvocationsOfPath`, `RouteOfPath`). The clause on the state
trace is about the past and needs four more parts, together `VInv`. `Placed`: nobody is
ahead of the session, an invocation exists or is about to only once the session has
reached it; so the state from which adjudication is entered tells the path that
`_derive_outcome` will read off the invocations (`PathBefore`), although runner and
session may be several steps apart. `Audited`: the transitions audited are legal and
lead to the state. `Traced`: without its recoveries, the trace is the way to the
present state (`Way`), and from adjudication on what the verifier expects of the path.
`Compared`: no comparison event precedes its outputs. `Traced` needs what the loop does
when the trace grows: the state is appended, or a recovery takes the failure before it
back (`KeptAppend`). That is a fact about a recursive function on sequences of any
length; it is proved from the least index at which it would fail (`LeastOf`), which
takes a set of numbers and no predicate. `RulesPart`
compares the two expansion rules: on an A-only path the orchestrator's own was not
met, so the verifier's is met exactly if the sample is disputed. From it:
`AuditTrailHolds` and `ReturnedDecisionAlwaysVerifies`, an equivalence: a returned
decision is accepted if and only if it is not `SampleDisputed`.

Comparison events are different: the event is looked up and appended in two
transactions, and `review_ledger` shows a session that got two. What holds is
`ComparisonEventsBounded`, a stage has at most as many events as there are runners: with
those about to append (`Appenders`) counted in, the sum stays within the number of
runners, because a runner decides to append only while there is none. Hence
`ReturnedReviewAlwaysVerifies`, which is stated for at most one runner: that is the
premise under which the property holds and the run `review_one` checks it. It too is an
equivalence with the absence of a disputed sample.

`review_stranded` shows a session that no further run can settle, after a runner was lost
between `fail_invocation` and the failed state. `StrandedOnlyAfterLoss` says that this
is the only way: while an invocation is failed and not followed up, the session is
where the invocation was called for (`Placed`, and `Knows` of every later state would
need its output), so the transition to the failed state is legal whenever its runner
takes it (`FailingProceeds`), whatever the other runners did in between.

**Phase8Safety.** None of the pilot's promises is inductive. `BudgetsHold` counts the
pending reservation, but a settlement adds what its process remembers: `Serial` says
that up to the revocation a process that may settle is alone and holds the pending
reservation, and `LocalInv` that what it settles is of one attempt. The accounting
needs the requests not yet made: `Covered` counts them with the processes that have
passed the last check, because between reservation and request the process may be
lost, revoked or overtaken. `LateInv` says who may still let a request slip after a
revocation, and that such a process has let none slip yet. `CanaryInv` remembers
what made the canary complete until the second gate asks. The loop's peculiarity of
settling a success twice (`Raise`) is why `AttemptInHand` speaks of a success beyond
its settlement. From it: `TypeCorrect`, `BudgetsAlwaysHold`, `EveryCallAccounted`,
`CallsStaySerial`, `OneLateCall`, and the action properties `LostBlocks`,
`GateTwoAfterCanary`.

**PanelDecision.** A reviewer's output is validated when it arrives; the merge of two is
not, and the result check only looks at part of it. `MarketingMergeValid` and
`VentureMerge` show that no check is missing. Within tolerance the sets compared have
distance 0; by counting, they are equal (`NoDistance`), so the two lists have the same
action keys and the merged list, built from the first, has for each action the smaller
magnitude and confidence of the two (`Tempered`), and no rule of the pack can be
broken by less. That an entry found by key exists, though the last of several wins, is
`ByKeyFinds`. The invariant `PInv` carries soundness through the rounds. From it:
`FinalAlwaysValid`, `MergeAlwaysCautious`, `UnfitEvidenceNeverOptimizes`,
`PanelAlwaysReturns`, for every document and every answer, so beyond the magnitudes
and lists the run enumerates.

**Only model-checked.** Liveness (`EveryItemSettles`, `ReviewSettles`,
`EveryEventDelivered`, `RequestLeavesIntake`, `FeedbackIsEvaluated`): it needs
fairness, which is outside the prover's reach. Every other property of a passing run
is also a theorem. The four violation runs are counterexamples and have nothing to
prove.

## 7. Plan

1. *(done)* `WorkQueue`, `ReviewStates`, `ReviewRoute`, `ReviewContract`,
   `Orchestrator`, `AuditVerifier`, `EventDelivery`, `Phase8Safety`; proofs of the
   two queues.
2. *(done)* `Scheduler`, `ReviewSession` (intake, feedback, evaluation), the two packs
   and `PanelDecision`.
3. *(done)* Proofs of `ReviewSession`, `Scheduler`, `Phase8Safety`, `Orchestrator`
   with the refinement, `PanelDecision` and `AuditVerifier`: every safety property of a
   passing run.
4. The explicit path selector `run_fixture_path` as a second driver of the ledger of
   `Orchestrator`, and queue and review composed.

## 8. Not modelled

* `run_fixture_path` of the orchestrator (on the plan): it drives the same ledger
  methods from recorded outputs along a path it is told.
* HTTP adapters and API authentication (I/O); which route calls what is reflected in
  the actors of the models.
* Prompts, contract text and JSON-schema validation: documents of the models satisfy
  their schemas. Hashes are identities of what they are computed from.
* Process heartbeats, `stale_processes` and metrics: read by people, never by a
  decision of the code.
* What an evaluation computes, and the directional metrics over candidates: a
  candidate is what it was computed from.
* Configuration, command line, and the reports and artifacts of the pilots; of the
  pilot runners, `run_case` only.
* Stream paging (`list_events` returns 100 events by default): sessions within the
  bounds have fewer events.
