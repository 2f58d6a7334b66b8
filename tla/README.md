# A verification project for the IGA scheduler backend

TLA+ models of the scheduler's core: the run queue in Postgres and everything that
works on it, the scheduling of job instances, job definitions and their artifacts,
the calls of jobs through the IGA proxy, the local backend's queue, and the scripts
that provision and tear down the stores. TLC checks the models on small instances;
TLAPS proves every safety property these runs check, of the run queue, of scheduling,
of definitions and pinned runs, of the calls of jobs, of the local queue and of the
deployment scripts, for every number of workers, runs, schedulers, callers, uploads,
ticks, instances, requests, tokens, operators and indices.
Source paths below are relative to `src/` of this repository's tree
(`src/services/...` is `src/src/services/...` in `PROJECT.json`).

## 1. The system

A *definition* (document in Elasticsearch) names a zip artifact in a bucket. An
*instance* (row of `job_instances`) pins a version of a definition and has a cron
schedule. Cloud Scheduler calls *tick* every minute, which inserts a *run* (row of
`job_runs`) for every due instance. *Workers* claim runs by polling the table, run
the code in a child process and record the outcome. The child reaches the IGA
platform through a *proxy* in the scheduler. *Operators* retry, cancel and redrive
runs; a *sweeper* in every scheduler process ends runs that are in flight too long.
Processes share nothing but the stores.

| Component | State it keeps | Operations | What makes it correct |
|---|---|---|---|
| Run table, `stores/runStore.js` | `job_runs` rows; row locks of open claims | claimNextQueued, markSucceeded, markFailed, markCancelled, transition, touchHeartbeat, createRun, stale lists | outcome belongs to the current attempt; ended runs stay as they are |
| Pull worker, `workers/*`, `services/workerRunService.js`, `services/jobRuntimeExecutor.js` | active executions, child registry by run id, stopped flag | poll, execute, heartbeat, SIGTERM, drain, exit, crash | one holder per run; concurrency cap; queue drains |
| Stale sweeper, `services/staleRunSweeper.js` | list of the sweep under way | list and mark, twice | every run in flight ends; fresh claims are spared |
| Run control, `services/runControlService.js` | calls between read and write | retry, cancel, redrive | answers are true; retries fence off old attempts |
| Instances, `stores/instanceStore.js`, `services/jobInstanceService.js` | `job_instances` rows; calls between read and write | create, patch, pause, resume, delete | next fire time fits the schedule |
| Tick, `services/schedulerTickService.js` | open transaction: locked batch, savepoints | claim batch, insert run and advance, roll back, commit | every fire time gets one run, those of an outage too; due instances fire |
| Definitions, `services/jobDefinitionService.js` | document, bucket objects, requests under way | upload, patch, delete | versions identify code; artifacts on record stay |
| From definition to code, `workerRunService.js` 399-459 | snapshot in a run | build metadata, verify artifact | a run executes the version its instance pins |
| IGA proxy, `services/runtimeIgaProxyService.js`, `iga/*` | cached token, refresh in flight, requests | admit, send, refresh, invalidate and retry, time out | at most one effect per request; old attempts kept out; all requests end |
| Job SDK and broker route, `sdk/scheduler-sdk.js`, `routes/internalRuntimeIga.js`, `middleware/internalAuth.js` | calls, posts under way | execute, fetch a token, post, post again after a 401, give up | at most one effect per call; every call comes back |
| Local backend, `backends/local/*`, `services/runDispatcher.js`, `app.local.js` | `job_runs` in SQLite, the pass under way, failed passes | list, claim, execute one by one, back off, stop, restart | the same contract as the queue in Postgres; queued runs are served |
| Retry classification, `services/retryClassifier.js` | none | classify an error | a failed run is written off only for what its own last attempt found wrong |
| Configuration, `config/*`, `clients/pgClient.js`, `main.js` | environment | validate, pick a backend | what the preflight accepts starts |
| Deployment scripts, `../scripts/bootstrap.js`, `../scripts/prod/*.js` | indices, migrations, `bootstrap-manifest.json` | preflight, bootstrap, teardown | re-runs converge; what was there before survives |

What is hard: every operation on the stores is a read followed some time later by a
write; claims and ticks are transactions with `SKIP LOCKED`; workers die and are
replaced; children of lost attempts live on; commits take effect and their answers
get lost; sweeps work from lists that age; two layers retry the same call; scripts die
between two creations and are run again. `PROJECT.json` lists these hazards line
by line with the properties that cover them.

## 2. Modules

| Module | Models |
|---|---|
| `RunStore` | the table, one operator per statement |
| `PullWorker` | poll loop, executions, heartbeat, drain, crash |
| `StaleSweeper` | the sweeper of each scheduler process |
| `RunControl` | retry, cancel, redrive, enqueueing |
| `RunLifecycle` | composition of the four, properties, fairness, refinement |
| `RunContract` | abstract specification of the run queue |
| `RunLifecycleProofs`, `RunSafetyProofs`, `RunContractProofs` | type correctness; inductive invariant, safety and the concurrency cap; refinement |
| `InstanceStore`, `SchedulerTick`, `InstanceControl` | instances, tick, API edits |
| `Scheduling`, `SchedulingProofs` | composition with the clock; its proofs |
| `TokenManager`, `IgaProxy` | token cache; proxy over it and over `RunContract` |
| `JobDefinitions`, `PinnedRuns` | uploads, patches, deletes; instances, snapshots and execution |
| `PinnedRunsProofs` | inductive invariant and safety of definitions and pinned runs |
| `JobClient` | a call of the job SDK, through the broker route, composed with `IgaProxy` |
| `JobClientProofs` | inductive invariant and safety of the calls and of the proxy under them |
| `RetryClassifier` | the classification, and the errors a claimed run can end with |
| `LocalRuns` | the local queue, its dispatcher and its process; refines `RunContract` |
| `LocalRunsProofs` | inductive invariant, safety and refinement of the local queue; the classification and the delay |
| `DeployConfig` | what preflight, scripts and services make of an environment |
| `Deployment` | both bootstrap scripts and the teardown, run by several operators |
| `DeploymentProofs` | inductive invariant and safety of the scripts |
| `MC*` | symmetry sets, schedules, requests and environments for TLC |

Definitions named "Plausible bug" are not used by the specifications. Each is a
wrong variant of the definition after it, which the property it is paired with in
`PROJECT.json` must catch.

### Run queue

A run id is its rank in `created_at` order. A dispatch id (a UUID in the code) is a
number of a per-run counter: ids never repeat and only ids of one run are compared.
`result` and `error.by` hold the dispatch id of the attempt that wrote them, so that
"whose outcome is it" can be asked; the code stores no such thing. `started_at` is
NULL, recent or old, with `Age` for the passage of the sweeper's threshold.
Each autocommitted UPDATE is a step. `claimNextQueued` is `BeginClaim` (the locking
SELECT), then commit, lost commit or rollback; the uncommitted updates are invisible
to others, and only an UPDATE whose WHERE matches a locked QUEUED row waits for the lock.

A worker's execution (`execs`) goes through fetch, preparation, child, recording;
every await is a point where it can fail, be killed or be cut off by a crash. A crash or
an exit takes the worker's executions with it, since the container goes; the ghosts are
executions on a live worker whose run was swept and claimed again while they still run.
What is folded: redrive's read and insert, and heartbeat's touch and kill, are one
step each (CANCELLING never returns to RUNNING, and redrive reads an ended run);
refused and idempotent calls change nothing and are no steps; a poll still waiting
for a connection when `stop()` is called is part of `PollBegin`; the drain timer's
exit is a case of `Crash`. Left out: `heartbeat_at`, the cancel bookkeeping columns,
status texts and parameters, which no decision of these components reads.
Production configures no `runtimeLauncher` (`app.js`), so `cancelRuntimeExecution`
returns at once; `dispatchRun`, `completeRun` and `claimRun` belong to the push path.

### Scheduling

A schedule is a set of fire times, `NextFire` the least one after a time. `enabled`
is left out, as it always equals `state = "ACTIVE"`. The auxiliary field `since` is the
fire time computed when the schedule was last set: fire times between `since` and
`next` must all have had their run. A tick is `TickBegin` (BEGIN and locking SELECT),
`TickItem` or `TickItemError` per instance (savepoint), `TickCommit` or `TickAbort`; a
cron expression that does not parse and a failing snapshot are item errors. The read
of a patch and its computation of the next fire time are one step, its write, which
waits for a row lock, another. Dry runs and refused calls are no steps.

### Definitions and pinned runs

One `definitionId`; an artifact is its digest. An upload is split at `getDefinition`,
`save`, `getMetadata` and `es.index`/`es.create`, each of which may throw, the last
also after it took effect; the process may die in between. The bucket is external:
it keeps generations that are not live, as `terraform/storage.tf` configures, until its
lifecycle rule removes them: `Prune` may delete a generation at any time once there are
`NewerVersions` (5 in the file) newer ones of the same object, that is, later saves of the
same zip. `Download` gives the content of one generation, or nothing when it is gone.
`PinnedRuns` keeps of an instance its state and version, and of a run its snapshot and
what its attempts executed; the tick's read of the definition and its insert are one step,
because only the moment of the read matters. Instances are edited by `Editors`, who read
first and write later; a create over a deleted instance makes it anew at the definition's
present version (`ON CONFLICT ... WHERE state = 'DELETED'` in `instanceStore.js`).
`released` is a history variable.

### IGA proxy

Runs behave as `RunContract`, which the run queue is proved to implement. Tokens are
numbered in the order of issue, and the endpoint issues a new one for every refresh.
`expiring` is the process's view (within the refresh skew), `rejected` the platform's;
the two are independent. A refresh resolves, clears `inFlightRefresh` and is stored by
all its waiters in one step: the promise reactions of one settlement are taken to run
without another request's code in between. Refused admissions are no steps, and
audit events, whose failures are swallowed, are left out.

### Calls of jobs

`JobClient` puts `BrokerIgaClient` in front of the proxy. A call is one `execute`; its
first and second post are two requests of `IgaProxy`, so that the SDK's retry and the
proxy's retry multiply. The middleware answers 401 to any exception of the token
verification, so a 401 is possible for every post and the OIDC token is not kept; the
proxy's own errors never become a 401 (`globalErrorHandler` takes a status the errors
of `IgaClient` do not carry). Posts and answers may be lost, and a call that has given
up leaves its request with the proxy. The other requests of the proxy come from jobs
of which nothing more is said. The Python SDK's client posts once and is not modelled.

### Local backend

One process; SQLite calls are synchronous and no other request runs between the
read and the write of a control call, so each is one step. A pass of the dispatcher
is `BeginPass` or `PassFails`, `Take` and `Succeed`/`FailRun` per run, `EndPass`; in
between, operators cancel, retry and edit the definition, and the process is told to
stop or dies. There are no dispatch ids; `token` is a history variable that counts
claims and retries, and the refinement says the local queue behaves as if it had them.
Errors are those of `RetryClassifier`, flag, code and status as they are raised; a row
keeps of its error the step that raised it (`Cause`), the advice and the attempt it is
from. What only unpacking finds wrong with a zip (`safeZipExtract.js`) has no code of the
classifier's lists and is a cause of its own. `app.local.js` takes the polling interval
unchecked, so every process draws one from `Intervals`, below or above the fixed
maximum; `delay` is the argument of `setTimeout`, and 0 stands for all the values Node
takes as 1 ms. The count of failed passes saturates at `MaxFailures`, where the delay has
reached its maximum.

### Deployment

Each call of a script to Elasticsearch, the migration runner or the manifest is a step
which may fail and after which the script may be killed. Migrations are a prefix of the
files, the runner (external) takes a lock, and a failed call of it may have done part
of its work. An environment keeps which variables are set and, of values, only what
the code compares. `origin` is what existed before the first script ran; `calm` is an
auxiliary flag after which stores answer and only `bootstrap-prod.js` is started, so
that convergence can be asked of every state the earlier scripts can leave.
The probes of the preflight are answers of the services; their temporary writes are
undone by the preflight itself and are not kept. Shell scripts, which call gcloud and
terraform, are left out.

## 3. Runs

| Run | Expect | Bounds | Shows |
|---|---|---|---|
| `GhostAttempts` | pass | 2 workers, 2 schedulers, 1 operator, 1 run, 3 dispatch ids, concurrency 2 | `TypeOK`, `OutcomeIsCurrent`, `OneHolderPerRun`, `InFlightHasStart`, `ClaimsAreExclusive`, `OutcomesAreFinal`, `SweepSparesFreshClaims`, `ImplementsContract` |
| `QueueDrains` | pass | 1 worker, 1 scheduler, 1 operator, 2 runs, 1 slot; fairness of the sweeper, and in `QueuedIsTaken` of the workers | `ConcurrencyCap`, `InFlightEnds`, `QueuedIsTaken` |
| `DueInstances` | pass | 2 instances, 2 schedules, batch 1, 2 ticks, 1 caller with 3 edits, times 0 to 2; fairness | `TypeOK`, `SlotsFireOnce`, `NextFitsSchedule`, `TicksAreExclusive`, `DueInstanceFires` |
| `JobCalls` | pass | 1 call of two posts and 1 other request, 1 run, 2 dispatch ids, 2 tokens; fairness | `JobClientTypeOK`, `CarriedOutOnce`, `CallCarriedOutOnce`, `RetryHasNewerToken`, `AttemptsActInOrder`, `RequestsEnd`, `CallsEnd` |
| `ApprovedCode` | pass | 2 digests, 2 callers, 2 generations of which one newer allows a prune, 1 instance, 1 editor, 1 run | `TypeOK`, `ArtifactsStayApproved`, `RunsExecuteTheirVersion`, `VersionNeverResets` |
| `LocalRuns` | pass | 2 runs of 2 attempts, batch 2, intervals 1 and 5, maximum 3, 3 failed passes; fairness | `TypeOK`, `AdviceIsSound`, `BackoffIsKept`, `LocalImplementsContract`, `QueuedIsServed` |
| `Deployment` | pass | 2 operators, 2 indices of which 1 exists, 1 migration applied or not, 8 environments; fairness | `TypeOK`, `PreexistingIndicesSurvive`, `PreflightIsEnough`, `RerunsConverge` |
| `KillWithoutCancelled` | violation | 1 worker, 1 operator, 1 scheduler, 1 run | a killed run stays CANCELLING until the sweeper takes it |
| `OutageReplay` | violation | 1 instance, 1 tick, 1 caller with 1 edit, times 0 to 3 | two fire times missed in an outage both get a run |
| `DrainAbandons` | violation | 1 worker, 1 run | executions begun after `drain()` took its list |
| `CodeSwap` | violation | 2 digests, 2 callers, 3 generations, prune after 5 newer ones, 1 run | one version, two artifacts |
| `TeardownRerun` | violation | 1 operator, 2 indices, 2 migrations of which 1 was applied | migrations that were there before are rolled back |

Why the bounds are enough for the cases the properties are about. A ghost needs two
claims of a run, and a third dispatch id lets a stale retry or a stale sweep item meet
a still later attempt. Rows of different runs interact only through the batch of a
claim and the slots of a worker, for which `QueueDrains` has two runs and one slot.
Two ticks over a batch of one out of two instances give overlap and starvation; a
caller who keeps what he read across a tick and a commit gives the stale write. With
three instants two fire times of a schedule can go by before a tick comes, so that
advancing from the slot and advancing from the clock differ, and a skipped fire time
shows (the mutant of `SlotsFireOnce` is that advance). Stale
writes over stale writes (two callers) and longer schedules are covered by the
theorems of `SchedulingProofs`, which bound neither. Two tokens allow a refused and a
fresh one; two posts and a request of another job share the cache. In `LocalRuns` three
failed passes take the delay from the interval over the threshold to the maximum, and
two runs give a pass in which one fails and the other gets through; of its intervals
one is below and one above the maximum. The environments
of `Deployment` are complete ones (Cloud SQL; a key from a command line flag), one for
each place where the scripts and the services ask for different variables, one with a
value that is refused, and local mode. In `ApprovedCode`
two generations are two uploads, of the same or of different artifacts, and the rule that
prunes after one newer generation takes the first away when they are the same; what
five do is `ArtifactsApproved`, for every `NewerVersions`. `CodeSwap` needs a third
generation, and takes the rule as it is configured. All these bounds are on exploration only; the
theorems of section 5 hold whatever they are: the constants named `Max...` that bound a
counter are arbitrary naturals there.

Deadlock checking is on in every run except `DueInstances` and `OutageReplay`: there clock
and edits are bounded, and when both are used up and nothing is due, the system waits.

## 4. Fairness

* Sweeper (`SweptSpec`): time passes (weak fairness of `Age`); the interval timer keeps
  firing, and a listing or a mark that is tried again and again does not fail every
  time (strong fairness, because each sweep is a new try). Nothing is assumed of
  workers or operators.
* Workers (`WorkedSpec`, and the premise of `QueuedIsTaken`): Cloud Run replaces a dead worker of the
  fixed pool; a child ends, as it is killed at its timeout; a draining worker exits;
  a poll does not fail every time it is tried.
* Scheduling (`TickFairness`): Cloud Scheduler keeps calling (some tick begins, weak
  fairness) and a tick under way goes on (weak fairness of each); strong fairness per
  instance: its item, and the commit of what was done for it, do not fail every time,
  whichever of the overlapping ticks gets there.
  `DueInstanceFires` assumes in its statement that edits stop, because a caller
  that writes old rows back for ever can occupy every batch.
* Proxy (`Fairness` of `IgaProxy`): timers fire and promises settle; the platform, the
  network and the token endpoint owe nothing.
* Job (`JobFairness`): the SDK's own timeouts; the broker owes nothing.
* Local backend (`FairSpec` of `LocalRuns`): a timer that is set fires, a child ends or
  is killed, a stopped process exits and a process that is down is started again.
  Strong fairness of `BeginPass` and `Take`: the list query does not fail, and the
  process is not killed, each and every time a run has come to its turn.
* Deployment (`FairSpec` of `Deployment`): an operator whose script died runs it
  again, and a script that runs goes on. `RerunsConverge` supposes `calm`.

## 5. Proofs

All by TLAPS, for all values of the constants that satisfy the named assumptions:
bounds are naturals; a schedule is a set of naturals that has a least fire time after
every instant; the local batch and the threshold of failed passes are not zero; the
lifecycle rule asks for one newer generation at least; "none" is no digest; there is a
run for the proxy to speak of and a schedule to choose. Nothing is assumed of the polling interval.

* `TypeCorrect`: `Spec => []TypeOK` of the run queue, action by action.
* `Invariance` (`RunSafetyProofs`): `IInv` is inductive. None of the safety properties
  is inductive alone: that an outcome is current needs to know that an execution's
  dispatch id is one the run had at some time (`ExecsHold`), that ids are not drawn
  twice (`MintsMatch`, `ExecsDistinct`) and what a row in each state looks like
  (`RowsSound`); that sweeps spare fresh claims needs what an old list still says of a
  row that has moved on (`SweepsSound`). The proof first shows that every step of every
  process changes a row in one of nine ways (`Moves`), then that each way keeps a row
  sound and keeps what others remember about it, which rests on dispatch ids growing.
  From it: `OutcomesAreCurrent`, `OneHolder`, `ExclusiveClaims`, `StartIsRecorded`, and
  the action properties `FinalOutcomes` and `SweepsSpareFreshClaims`.
* `CapHolds` (`RunSafetyProofs`): `ConcurrencyCap`, by counting. Cardinalities mean
  something for finite sets only, so the invariant (`Capped`) also says that the
  executions are finitely many. LIMIT returns at most `limit` rows
  (`OldestCount`), a poll asks for its free slots only, and a commit turns each lock
  into one execution, while every other step removes executions or replaces one by one.
* `QueueImplementsContract`: the queue with all its processes implements `RunContract`
  under the mapping of `RunLifecycle` (state, dispatch id, attempt that wrote the outcome).
* `SchedulingInvariance` (`SchedulingProofs`): `SInv` is inductive. The point is that a
  row in the hands of a caller, however old, agrees with the runs inserted so far
  (`EditsFit`), because runs are never removed and the next fire time is recomputed with
  every new schedule. From it: `SchedulingTypes`, `EverySlotOnce`, `NextAlwaysFits`,
  `ExclusiveTicks`.
* `PinnedInvariance` (`PinnedRunsProofs`): `PInv` is inductive. It gives every variable
  a set of values narrower than its type: artifacts whose generation has the digest
  recorded with it (`Kept`), documents whose code was released under their version
  (`Documents`), uploads about to write what they saved (`Requests`), runs whose
  attempts executed what was released as their version (`Pinned`). These sets depend
  on the saves made so far and on `released`, which only grow, so that what a stale
  document, an old snapshot or a request of any age says stays true. What the lifecycle
  rule has taken away is among the generations with enough later saves of the same
  content (`Overtaken`), a set that only grows too. From it: `PinnedTypes`,
  `ArtifactsApproved` (an artifact on record never turns into other code, and can be
  downloaded until `NewerVersions` later saves of the same zip exist), `VersionsExecuted`,
  and the action property `NoVersionReset`.
* `SerialUploadsKeepCode`: when definition requests come one at a time (there is one
  caller), all runs of a version execute the same code: `PinnedCodeNeverChanges`, which
  the run `CodeSwap` refutes for two callers. It speaks of versions, not of instances: an
  instance that was deleted and created again is pinned to a newer version and runs that
  version's code. Ticks, edits of instances in any order, re-creation, pruning, failures
  and deaths do not change what a version stands for; overlapping uploads do.
* `JobInvariance` (`JobClientProofs`): `JInv` is inductive for `JobSpec`. At most one
  effect per request needs that a request has at most one message on its way and sends
  the second only after the first was refused (`MessagesFit`); at most one effect per
  call needs that a call posts again only when its first post was turned away before
  it reached the proxy (`PostsFit`); the order of the attempts rests on dispatch ids
  that only grow and on no request being ahead of its run (`RunsFit`). Of the runs the
  proof uses only what `RunContract` says, which the real queue implements. From it: `JobTypes`,
  `RequestsOnce`, `NewerToken`, `CallsOnce`, and the action property `AttemptsInOrder`.
* `LocalInvariance` (`LocalRunsProofs`): `LInv` is inductive. Without dispatch ids in the
  table, what keeps an old attempt from writing a new one's outcome is that the one
  execution under way is always the latest claim of its run (`ExecFits`); `RowsFit` says
  what a row in each state looks like and what advice its error carries, `DelayFits`
  that the delay is the one computed for a number of failed passes. Every step moves
  at most one run (`RunStep`). Intervals below and above the maximum are two cases: below
  it the delay lies between the two and grows with every failure, above it the delay is
  the one or the other. That the growth never turns back is a fact about a recursive
  function, shown with a least counterexample. From it: `LocalTypes`, `AdviceSound`, the
  action property `BackoffKept`,
  and `LocalQueueImplementsContract`: the local queue implements `RunContract` too, so
  what a client may rely on is the same for both backends.
* `DeploymentInvariance` (`DeploymentProofs`): `DInv` is inductive. That indices survive
  needs that whatever is on record as created, in a running script or in a manifest of
  any age, was not there before the first script (`RecordsFit`), and that a delete
  under way is one of a recorded index (`DeletesFit`); deaths and overlaps only lose
  records. That a preflight is enough is `ChecksFit` with two lemmas which compare the
  lists of variables of `preflight.js`, `pgClient.js`, `config/index.js` and
  `productionValidation.js` for every environment. From it: `DeploymentTypes`,
  `IndicesSurvive`, `PreflightEnough`.

Model-checked only: liveness (`InFlightEnds`, `QueuedIsTaken`, `DueInstanceFires`,
`RequestsEnd`, `CallsEnd`, `QueuedIsServed`, `RerunsConverge`), since temporal reasoning
with fairness and ENABLED is out of the prover's reach.

## 6. Where code and documents differ

Runs that TLC refutes, with the quotations in `PROJECT.json`:

1. `KillWithoutCancelled`: after the heartbeat loop kills a child, `markFailed` does not
   match the CANCELLING row, and nothing else moves it before the sweeper's threshold.
2. `OutageReplay`: COR-6 in `docs/bug-log.md` says that a backlog is not replayed
   occurrence by occurrence; a tick advances from the slot it fires, not from the clock,
   so after an outage each tick inserts the run of one more overtaken fire time until
   the instance has caught up. `SlotsFireOnce` says the same as a promise.
3. `DrainAbandons`: a poll in the database when SIGTERM arrives starts executions which
   `drain()` does not wait for.
4. `CodeSwap`: concurrent uploads write the same version with different code.
5. `TeardownRerun`: `bootstrap-prod.js` takes any error of its query of `pgmigrations` for
   a missing table, so its manifest claims migrations that were applied long before,
   and `teardown.js` rolls back as many as the manifest names. A teardown that failed
   after its rollback and is run again with the manifest it kept, and two bootstraps
   that overlap, have the same effect.

Observations without a run of their own:

* A run whose worker is alive but slow is swept (`started_at` does not move with
  heartbeats; COR-5 accepts this); retried onto the same worker it has two live
  children, though ADR 0015 says the registry holds one. The first child's exit removes
  the second's registry entry, so that it can no longer be cancelled.
* `retryRun` takes the attempt number from its read. A retry held up across another
  retry and failure gives the run a number it already had; fencing is unaffected.
* `cancelRun` of a queued run ignores the result of its conditional UPDATE and answers
  CANCELLED also when a worker claimed the run after the read, so that it goes on.
* A patch or resume that read an instance before its deletion brings it back, and a
  schedule patch of an overdue instance drops the fire time that was due.
* `deleteDefinition` checks for active instances before it writes; an instance
  created or resumed in between is left with a deleted definition (ADR 0012).
* A failed upload of an artifact that is already on record deletes its live object;
  downloads by generation still work while the bucket keeps old generations. Five later
  saves of the same zip, successful or not, let the lifecycle rule remove a generation
  that runs or the definition still name.
* An instance that is deleted and created again under its id is pinned to the version the
  definition has then.
* Damage that only unpacking finds in an approved zip is raised without a code and so
  called retryable, though every attempt unpacks the same zip. A polling interval above
  60000 ms makes the local dispatcher poll faster, not slower, once passes fail.
* In the local backend a run that was RUNNING when the process died stays RUNNING, and
  one cancelled while it executed stays CANCELLING: no sweeper is started there. A local
  definition that is deleted and created again has version 1 again, so runs queued
  before execute the new code. With `WORKER_REQUIRE_RUNTIME_ISOLATION` unset every
  local run fails, and is not called retryable.
* `DirectIgaClient` cannot be reached: the executor hands the child none of the
  variables it asks for. The Python client posts to the broker's root and returns the
  whole envelope where the JavaScript client returns `result`.
* A second `bootstrap-prod.js`, or one that failed before its manifest was written, loses
  the list of what was created; a crash in the middle of the write leaves a manifest that
  does not parse. `getSchedulerIndexDefinitions()` is called without the index names
  of the environment.
* The preflight writes and deletes probe objects, also with `--dry-run`, where the README
  says nothing is written. It does not look at `WORKER_RUNTIME_ISOLATION` or at the
  worker's `WORKER_REQUIRE_RUNTIME_ISOLATION`, and only warns of a missing
  `DB_ALLOW_DIRECT`: the exceptions in `PreflightIsEnough`.

## 7. Not modelled, and the plan

Not modelled: byte-level zip checks and extraction (`utils/zip*.js`, `safeZipExtract.js`:
pure functions of bytes, of which the errors they raise are in `RetryClassifier`), HTTP plumbing and public authentication (I/O and libraries),
the shell scripts, the examples, Secret Manager references (a check of a string and one
call), the isolated runtime's `dispatchRun` and `completeRun` (nothing starts that path
any more), the local instance table (the production one without concurrent ticks).

Left of the plan:

1. What the refuted runs still leave true, as `SerialUploadsKeepCode` does for
   `CodeSwap`: conditions under which a cancel's answer holds, a drain abandons nothing
   and a teardown spares migrations.
2. Parameter values and secret references as operators against a reference definition.

Built so far, in this order: run queue with its contract and proofs; scheduling and its
proofs; IGA proxy; definitions and pinned runs; local backend; deployment and its proofs;
job calls and their proofs; the proofs of pinned runs, of the local queue and of the
concurrency cap.
