---------------------------- MODULE RunLifecycle ----------------------------
(***************************************************************************)
(* The run queue as a whole: the job_runs table shared by the worker pool, *)
(* the sweepers of the scheduler processes and the operators' calls.       *)
(***************************************************************************)
EXTENDS PullWorker, StaleSweeper, RunControl

vars == <<storeVars, workerVars, sweepVars, callVars>>

Init == StoreInit /\ WorkerInit /\ SweepInit /\ ControlInit

WorkerStep == WorkerNext /\ UNCHANGED <<sweepVars, callVars>>
SweeperStep == SweeperNext /\ UNCHANGED <<workerVars, callVars>>
ControlStep == ControlNext /\ UNCHANGED <<workerVars, sweepVars>>
ClockStep == (\E r \in Runs : Age(r)) /\ UNCHANGED <<workerVars, sweepVars, callVars>>

Next == WorkerStep \/ SweeperStep \/ ControlStep \/ ClockStep

Spec == Init /\ [][Next]_vars

-----------------------------------------------------------------------------
(* Safety *)

\* The columns of job_runs, the memory of the workers and sweepers and the calls
\* in flight hold values of their types: every write of the code stays within the
\* states and dispatch ids the other components know how to handle.
TypeOK == StoreTypeOK /\ WorkerTypeOK /\ SweepTypeOK /\ ControlTypeOK

\* Every completion write is fenced on the dispatch id minted at claim time, so
\* the outcome a row shows is the outcome of its current attempt, whatever
\* ghosts of earlier attempts, sweeps and lost answers are still under way
\* (markSucceeded, markFailed, retryRun).
OutcomeIsCurrent ==
  \A r \in Runs :
    LET row == runs[r] IN
    /\ row.state = "SUCCEEDED" =>
         row.result = row.dispatchId /\ row.result # NoDispatch /\ row.error = NoError
    /\ row.state = "FAILED" =>
         row.error.by = row.dispatchId /\ row.error.by # NoDispatch
    /\ row.state # "SUCCEEDED" => row.result = NoDispatch
    /\ row.state \in {"QUEUED", "RUNNING", "CANCELLING"} => row.error = NoError

Current(e) == e.dispatch = runs[e.run].dispatchId

\* Workers claim disjoint sets with no coordination (claimNextQueued): no two
\* executions hold the run's dispatch id, an execution that does not hold it
\* was superseded by a later mint, and none is live for a run that waits.
OneHolderPerRun ==
  /\ \A e, f \in execs : e.run = f.run /\ Current(e) /\ Current(f) => e = f
  /\ \A e \in execs : ~Current(e) => e.dispatch < runs[e.run].dispatchId
  /\ \A e \in execs : Current(e) => runs[e.run].state \notin {"ABSENT", "QUEUED"}

\* A claim transaction locks QUEUED rows nobody else has locked, which is what
\* lets claimNextQueued ignore the row counts of its UPDATEs.
ClaimsAreExclusive ==
  /\ \A w \in Workers : \A r \in txn[w] : runs[r].state = "QUEUED"
  /\ \A v, w \in Workers : v # w => txn[v] \cap txn[w] = {}

\* The sweeper finds a run by its started_at, and a NULL is never found: every
\* run in flight has one (claimNextQueued, listStaleRunningIds).
InFlightHasStart ==
  \A r \in Runs :
    runs[r].state \in {"RUNNING", "CANCELLING"} => runs[r].startedAt # "NULL"

\* pollOnce never takes more than the worker's concurrency: what runs and what
\* the open claim may add stay within WORKER_MAX_CONCURRENCY.
ConcurrencyCap ==
  \A w \in Workers :
    Cardinality(ExecsOf(w)) + Cardinality(txn[w]) <= MaxConcurrency

-----------------------------------------------------------------------------
(* Action properties *)

\* What a finished run shows is final: SUCCEEDED and CANCELLED rows never
\* change, FAILED only by a retry that gives a new dispatch id, and a run under
\* cancellation ends CANCELLED, never SUCCEEDED or FAILED.
FinalStep(old, new) ==
  /\ old.state \in {"SUCCEEDED", "CANCELLED"} => new = old
  /\ old.state = "FAILED" =>
       new = old \/ (new.state = "QUEUED" /\ new.dispatchId > old.dispatchId)
  /\ old.state = "CANCELLING" => new.state \in {"CANCELLING", "CANCELLED"}

OutcomesAreFinal == [][\A r \in Runs : FinalStep(runs[r], runs'[r])]_vars

\* A sweep works from a list that may be out of date when an item's turn comes.
\* It never hits an attempt claimed since: what it fails or cancels is old at
\* that moment (listStaleRunningIds, the fence of markFailed).
SweepHits(old, new, code) == old.error.code # code /\ new.error.code = code

SweepSparesFreshClaims ==
  [][\A r \in Runs, code \in {"STALE_RUNNING", "STALE_CANCELLING"} :
       SweepHits(runs[r], runs'[r], code) => runs[r].startedAt = "old"]_vars

-----------------------------------------------------------------------------
(* Liveness *)

SweepMarkRun(s, r) == \E i \in sweep[s].todo : i.run = r /\ SweepMark(s, i)

\* The clock runs, each scheduler's interval timer keeps firing, and a query or
\* write that keeps being tried does not fail every time.
SweeperFairness ==
  /\ \A r \in Runs : WF_vars(Age(r) /\ UNCHANGED <<workerVars, sweepVars, callVars>>)
  /\ \A s \in Schedulers :
       /\ SF_vars(SweepRunning(s) /\ UNCHANGED <<workerVars, callVars>>)
       /\ SF_vars(SweepCancelling(s) /\ UNCHANGED <<workerVars, callVars>>)
       /\ \A r \in Runs : SF_vars(SweepMarkRun(s, r) /\ UNCHANGED <<workerVars, callVars>>)

ExecuteRun(w, r) == \E e \in ExecsOf(w) : e.run = r /\ Execute(e)

\* The pool replaces a dead worker, an execution goes on to its end (the child
\* is killed at its timeout), a worker that is told to stop does stop, and a
\* poll that keeps being tried does not fail every time.
WorkerFairness ==
  \A w \in Workers :
    /\ WF_vars(Restart(w) /\ UNCHANGED <<sweepVars, callVars>>)
    /\ WF_vars(DrainBegin(w) /\ UNCHANGED <<sweepVars, callVars>>)
    /\ WF_vars(ProcessExit(w) /\ UNCHANGED <<sweepVars, callVars>>)
    /\ SF_vars(PollBegin(w) /\ UNCHANGED <<sweepVars, callVars>>)
    /\ SF_vars(PollCommit(w) /\ UNCHANGED <<sweepVars, callVars>>)
    /\ \A r \in Runs : WF_vars(ExecuteRun(w, r) /\ UNCHANGED <<sweepVars, callVars>>)

SweptSpec == Spec /\ SweeperFairness
WorkedSpec == Spec /\ WorkerFairness

\* No run stays in flight for ever, even when every worker dies or loses the
\* answer to its claim: the sweeper ends it.  A cancelled one ends CANCELLED.
InFlightEnds ==
  \A r \in Runs :
    /\ runs[r].state = "RUNNING" ~> runs[r].state # "RUNNING"
    /\ runs[r].state = "CANCELLING" ~> runs[r].state = "CANCELLED"

\* If the workers, too, keep going, a queued run is eventually claimed (or
\* cancelled), whatever polls are rolled back and whatever workers crash or are
\* replaced meanwhile.
QueuedIsTaken ==
  WorkerFairness => \A r \in Runs : runs[r].state = "QUEUED" ~> runs[r].state # "QUEUED"

-----------------------------------------------------------------------------
(* Refinement *)

ContractOutcome(row) ==
  CASE row.state = "SUCCEEDED" -> row.result
    [] row.state = "FAILED" -> row.error.by
    [] OTHER -> 0

Contract == INSTANCE RunContract WITH
  Run <- Runs,
  state <- [r \in Runs |-> runs[r].state],
  token <- [r \in Runs |-> runs[r].dispatchId],
  outcome <- [r \in Runs |-> ContractOutcome(runs[r])]

\* The queue with all its processes implements the contract of RunContract.
ImplementsContract == Contract!ContractSpec

-----------------------------------------------------------------------------
(* Statements of the documentation that the code departs from *)

\* docs/architecture.md, docs/adr/0015: once the heartbeat loop of a worker that
\* stays up has signalled the child of a cancelled run, the run becomes
\* CANCELLED without waiting for the sweeper.
ChildKilled(w, r) ==
  \E e \in ExecsOf(w) : e.run = r /\ e.phase = "killed" /\ Current(e)

KilledRunIsCancelled ==
  \A w \in Workers, r \in Runs :
    ChildKilled(w, r) ~> (runs[r].state = "CANCELLED" \/ mode[w] # "up")

\* src/workers/pollLoop.js "Stops claiming immediately", docs/adr/0019: a worker
\* that drains in time finishes what it has claimed.
DrainAbandonsNothing ==
  [][\A w \in Workers :
       mode[w] = "draining" /\ mode'[w] = "exited" => ExecsOf(w) = {}]_vars
=============================================================================
