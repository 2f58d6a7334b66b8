------------------------------ MODULE LocalRuns ------------------------------
(***************************************************************************)
(* The run queue of the local backend (APP_MODE=local): one process, one    *)
(* SQLite file (src/src/backends/local), and the dispatcher that executes   *)
(* queued runs one after the other (src/src/services/runDispatcher.js,      *)
(* executeRunLocally of workerRunService.js).                               *)
(*                                                                         *)
(* SQLite calls are synchronous and an await of one yields to no other      *)
(* request, so a control call is one step.  The process gives way to others *)
(* only on its timer, while the zip is read and while the child runs.       *)
(*                                                                         *)
(* Unlike Postgres' claimNextQueued the local claim mints no dispatch id    *)
(* and completion writes are not fenced.  `token' is a history variable     *)
(* that counts what a dispatch id would have told apart.                    *)
(***************************************************************************)
EXTENDS RetryClassifier, FiniteSets

CONSTANTS Runs,          \* run ids, 1..n in created_at order
          BatchSize,     \* DISPATCH_POLL_BATCH_SIZE
          Intervals,     \* values of DISPATCH_POLL_INTERVAL_MS
          MaxBackoffMs,
          BackoffThreshold,
          MaxAttempts,   \* bound: attempts of one run
          MaxFailures    \* bound: where the count of failed passes saturates

\* Nothing relates the interval an operator sets to the maximum, which is fixed.
ASSUME LocalAssumption ==
  /\ Runs \subseteq Nat \ {0}
  /\ BatchSize \in Nat \ {0}
  /\ Intervals \subseteq Nat
  /\ MaxBackoffMs \in Nat
  /\ BackoffThreshold \in Nat \ {0}
  /\ MaxAttempts \in Nat
  /\ MaxFailures \in Nat

VARIABLES runs,       \* the rows of job_runs
          token,      \* history: per run, its claims and retries so far
          definition, \* the definition the runs refer to
          phase,      \* the dispatcher and its process
          stopping,   \* SIGTERM was received
          list,       \* the run ids the current pass still has to try
          exec,       \* the execution under way: a set of at most one record
          any,        \* the current pass: did a run get through, was there one
          consecutiveFailures,
          intervalMs, \* the interval of the current process
          delay       \* the delay the timer was last set to

vars == <<runs, token, definition, phase, stopping, list, exec, any,
          consecutiveFailures, intervalMs, delay>>

passVars == <<phase, stopping, list, exec, any, consecutiveFailures, intervalMs, delay>>

NoError == [cause |-> "NULL", advice |-> "NULL", by |-> 0]

NoRow == [state |-> "ABSENT", attempt |-> 0, result |-> 0, error |-> NoError]

Init ==
  /\ runs = [r \in Runs |-> NoRow]
  /\ token = [r \in Runs |-> 0]
  /\ definition = [state |-> "ABSENT", enabled |-> FALSE]
  /\ phase = "timer"
  /\ stopping = FALSE
  /\ list = {}
  /\ exec = {}
  /\ any = [success |-> FALSE, listed |-> FALSE]
  /\ consecutiveFailures = 0
  /\ intervalMs \in Intervals /\ delay = intervalMs

-----------------------------------------------------------------------------
(* Requests the process serves *)

Up == phase # "down"

\* The scheduler tick, or redriveRun, which copies a finished run to a new id.
createRun(r) ==
  /\ Up
  /\ runs[r].state = "ABSENT" /\ \A q \in Runs : q < r => runs[q].state # "ABSENT"
  /\ runs' = [runs EXCEPT ![r] = [NoRow EXCEPT !.state = "QUEUED", !.attempt = 1]]
  /\ UNCHANGED <<token, definition, passVars>>

\* No runtimeLauncher is configured: a running run's child is left alone.
cancelRun(r) ==
  /\ Up
  /\ runs' = [runs EXCEPT ![r] =
       CASE @.state = "QUEUED" -> [@ EXCEPT !.state = "CANCELLED",
              !.error = [cause |-> "RUN_CANCELLED", advice |-> "NULL", by |-> 0]]
         [] @.state = "RUNNING" -> [@ EXCEPT !.state = "CANCELLING"]
         [] OTHER -> @]
  /\ UNCHANGED <<token, definition, passVars>>

\* Plausible bug: the error of the failed attempt stays with the queued run.
retryRunKeepsError(r) ==
  /\ Up
  /\ runs[r].state = "FAILED" /\ runs[r].attempt < MaxAttempts
  /\ runs' = [runs EXCEPT ![r].state = "QUEUED", ![r].attempt = @ + 1]
  /\ token' = [token EXCEPT ![r] = @ + 1]
  /\ UNCHANGED <<definition, passVars>>

\* The conditional UPDATE puts the same row back into the queue.
retryRun(r) ==
  /\ Up
  /\ runs[r].state = "FAILED" /\ runs[r].attempt < MaxAttempts
  /\ runs' = [runs EXCEPT ![r].state = "QUEUED", ![r].attempt = @ + 1, ![r].error = NoError]
  /\ token' = [token EXCEPT ![r] = @ + 1]
  /\ UNCHANGED <<definition, passVars>>

createDefinition ==
  /\ Up /\ definition.state # "ACTIVE"
  /\ definition' = [state |-> "ACTIVE", enabled |-> TRUE]
  /\ UNCHANGED <<runs, token, passVars>>

\* A deleted definition can still be patched: enabled, and yet not active.
patchDefinition(enabled) ==
  /\ Up /\ definition.state # "ABSENT"
  /\ definition' = [definition EXCEPT !.enabled = enabled]
  /\ UNCHANGED <<runs, token, passVars>>

\* Instances that refer to the definition are not looked at.
deleteDefinition ==
  /\ Up /\ definition.state # "ABSENT"
  /\ definition' = [state |-> "DELETED", enabled |-> FALSE]
  /\ UNCHANGED <<runs, token, passVars>>

-----------------------------------------------------------------------------
(* The dispatcher's pass *)

Queued == {r \in Runs : runs[r].state = "QUEUED"}

\* Plausible bug: only runs in their first attempt are listed.
listFirstAttempts ==
  {r \in Queued : runs[r].attempt = 1 /\ Cardinality({q \in Queued : q < r}) < BatchSize}

\* SELECT ... WHERE state='QUEUED' ORDER BY created_at LIMIT batchSize.
listQueuedRunIds == {r \in Queued : Cardinality({q \in Queued : q < r}) < BatchSize}

\* Math.pow(2, n).
Pow2[n \in Nat] == IF n = 0 THEN 1 ELSE 2 * Pow2[n - 1]

\* Plausible bug: the doubling has no end.
backoffMsUncapped(failures) ==
  IF failures < BackoffThreshold THEN intervalMs
  ELSE intervalMs * Pow2[failures - BackoffThreshold]

\* From the threshold on every failed pass doubles the delay, up to the maximum,
\* which cuts an interval above it too.
backoffMs(failures) ==
  IF failures < BackoffThreshold THEN intervalMs
  ELSE LET ms == intervalMs * Pow2[failures - BackoffThreshold]
       IN  IF ms < MaxBackoffMs THEN ms ELSE MaxBackoffMs

OneMore(failures) == IF failures < MaxFailures THEN failures + 1 ELSE failures

\* The finally block: the timer is set again unless stop() has cleared it.
Reschedule(failures) ==
  /\ consecutiveFailures' = failures /\ UNCHANGED intervalMs
  /\ IF stopping THEN phase' = "stopped" /\ UNCHANGED delay
     ELSE phase' = "timer" /\ delay' = backoffMs(failures)

BeginPass ==
  /\ phase = "timer"
  /\ phase' = "pass"
  /\ list' = listQueuedRunIds
  /\ any' = [success |-> FALSE, listed |-> Queued # {}]
  /\ UNCHANGED <<runs, token, definition, stopping, exec, consecutiveFailures, intervalMs, delay>>

\* The list query throws.
PassFails ==
  /\ phase = "timer"
  /\ Reschedule(OneMore(consecutiveFailures))
  /\ UNCHANGED <<runs, token, definition, stopping, list, exec, any>>

\* The definition is read in the turn that claims the run.  A local definition
\* always has version 1 and an artifact, so only two of the checks can fail.
buildExecutionMetadata ==
  CASE definition.state = "ABSENT" -> "DEFINITION_NOT_FOUND"
    [] definition.state = "DELETED" \/ ~definition.enabled -> "DEFINITION_NOT_ACTIVE"
    [] OTHER -> "ok"

\* Plausible bug: the UPDATE of a claim does not ask for state QUEUED.
claimRunUnguarded(row) == [row EXCEPT !.state = "RUNNING"]

\* UPDATE ... WHERE state='QUEUED'.
claimRun(row) ==
  IF row.state = "QUEUED" THEN [row EXCEPT !.state = "RUNNING"] ELSE row

\* executeRun of the oldest run still listed.  One that is no longer queued is skipped,
\* which counts as a success of the pass.
Take ==
  \E r \in list :
    /\ phase = "pass" /\ exec = {} /\ \A q \in list : r <= q
    /\ list' = list \ {r}
    /\ runs' = [runs EXCEPT ![r] = claimRun(@)]
    /\ IF runs[r].state = "QUEUED"
       THEN /\ token' = [token EXCEPT ![r] = @ + 1]
            /\ exec' = {[run |-> r, token |-> token[r] + 1, metadata |-> buildExecutionMetadata]}
            /\ UNCHANGED any
       ELSE /\ any' = [any EXCEPT !.success = TRUE]
            /\ UNCHANGED <<token, exec>>
    /\ UNCHANGED <<definition, phase, stopping, consecutiveFailures, intervalMs, delay>>

markSucceeded(row, by) ==
  IF row.state = "RUNNING"
  THEN [row EXCEPT !.state = "SUCCEEDED", !.result = by, !.error = NoError] ELSE row

markFailed(row, by, e) ==
  IF row.state = "RUNNING"
  THEN [row EXCEPT !.state = "FAILED",
                   !.error = [cause |-> Cause(e), advice |-> classifyWorkerError(e), by |-> by]]
  ELSE row

\* The job ran to its end, whether or not its row still says RUNNING.
Succeed ==
  \E x \in exec :
    /\ x.metadata = "ok"
    /\ runs' = [runs EXCEPT ![x.run] = markSucceeded(@, x.token)]
    /\ exec' = {}
    /\ any' = [any EXCEPT !.success = TRUE]
    /\ UNCHANGED <<token, definition, phase, stopping, list, consecutiveFailures, intervalMs, delay>>

\* The error is recorded and thrown again; the pass only logs it.
FailRun(e) ==
  \E x \in exec :
    /\ IF x.metadata = "ok" THEN e \notin DefinitionErrors ELSE e.code = x.metadata
    /\ runs' = [runs EXCEPT ![x.run] = markFailed(@, x.token, e)]
    /\ exec' = {}
    /\ UNCHANGED <<token, definition, phase, stopping, list, any, consecutiveFailures, intervalMs, delay>>

\* Plausible bug: a pass that found nothing counts as a success.
EndPassResets ==
  /\ phase = "pass" /\ exec = {} /\ list = {}
  /\ Reschedule(IF any.listed /\ ~any.success THEN OneMore(consecutiveFailures) ELSE 0)
  /\ UNCHANGED <<runs, token, definition, stopping, list, exec, any>>

\* An empty pass leaves the count of failed passes as it was.
EndPass ==
  /\ phase = "pass" /\ exec = {} /\ list = {}
  /\ Reschedule(CASE any.success -> 0
                  [] any.listed /\ ~any.success -> OneMore(consecutiveFailures)
                  [] OTHER -> consecutiveFailures)
  /\ UNCHANGED <<runs, token, definition, stopping, list, exec, any>>

-----------------------------------------------------------------------------
(* The process *)

\* stop() clears the timer; a pass under way goes on to the end of its list.
Sigterm ==
  /\ Up /\ ~stopping
  /\ stopping' = TRUE
  /\ phase' = IF phase = "timer" THEN "stopped" ELSE phase
  /\ UNCHANGED <<runs, token, definition, list, exec, any, consecutiveFailures, intervalMs, delay>>

\* The process exits (server.close has returned) or dies: its child dies with it
\* or its result is read by nobody, and the row stays as it is.
Exit ==
  /\ Up
  /\ phase' = "down"
  /\ list' = {} /\ exec' = {}
  /\ UNCHANGED <<runs, token, definition, stopping, any, consecutiveFailures, intervalMs, delay>>

\* The environment may have been changed since.
Start ==
  /\ phase = "down"
  /\ phase' = "timer"
  /\ stopping' = FALSE
  /\ any' = [success |-> FALSE, listed |-> FALSE]
  /\ consecutiveFailures' = 0
  /\ intervalMs' \in Intervals /\ delay' = intervalMs'
  /\ UNCHANGED <<runs, token, definition, list, exec>>

-----------------------------------------------------------------------------
Finish == Succeed \/ \E e \in WorkerErrors : FailRun(e)

Next ==
  \/ \E r \in Runs : createRun(r) \/ cancelRun(r) \/ retryRun(r)
  \/ createDefinition \/ deleteDefinition \/ \E b \in BOOLEAN : patchDefinition(b)
  \/ BeginPass \/ PassFails \/ Take \/ Finish \/ EndPass
  \/ Sigterm \/ Exit \/ Start

Spec == Init /\ [][Next]_vars

\* A timer that is set fires, a child ends (the executor kills it at its timeout),
\* a process that was told to stop exits and is started again; a list query that
\* keeps being tried, and a run that keeps being next, get their turn.
Fairness ==
  /\ SF_vars(BeginPass) /\ SF_vars(Take)
  /\ WF_vars(Finish) /\ WF_vars(EndPass)
  /\ WF_vars(phase = "stopped" /\ Exit) /\ WF_vars(Start)

FairSpec == Spec /\ Fairness

-----------------------------------------------------------------------------
\* The columns, the dispatcher's fields and the execution under way hold values
\* of their types, and a pass executes at most one run at a time.
TypeOK ==
  /\ runs \in [Runs -> [state : {"ABSENT", "QUEUED", "RUNNING", "CANCELLING", "SUCCEEDED",
                                 "FAILED", "CANCELLED"},
                        attempt : Nat, result : Nat,
                        error : [cause : {"NULL", "RUN_CANCELLED", "definition", "artifact",
                                          "extraction", "runtime", "passing"},
                                 advice : {"NULL", "RETRYABLE", "NON_RETRYABLE"},
                                 by : Nat]]]
  /\ token \in [Runs -> Nat]
  /\ definition \in [state : {"ABSENT", "ACTIVE", "DELETED"}, enabled : BOOLEAN]
  /\ phase \in {"timer", "pass", "stopped", "down"}
  /\ stopping \in BOOLEAN
  /\ list \subseteq Runs
  /\ any \in [success : BOOLEAN, listed : BOOLEAN]
  /\ consecutiveFailures \in 0..MaxFailures
  /\ intervalMs \in Intervals
  /\ delay \in {intervalMs, MaxBackoffMs} \cup intervalMs..MaxBackoffMs
  /\ exec \subseteq [run : Runs, token : Nat,
                     metadata : {"ok", "DEFINITION_NOT_FOUND", "DEFINITION_NOT_ACTIVE"}]
  /\ \A x, y \in exec : x = y
  /\ exec # {} => phase = "pass"

\* What a failed run tells its operator is told by the attempt that failed last,
\* never left over from one before it.  A run is written off exactly for what the
\* checks before the job found, or for its output: never for an error that may
\* pass, but not for an artifact that only unpacking finds damaged either, which
\* is called retryable although the next attempt unpacks the same zip.
AdviceIsSound ==
  \A r \in Runs :
    /\ runs[r].state = "FAILED" =>
         /\ runs[r].error.by = token[r]
         /\ (runs[r].error.advice = "NON_RETRYABLE")
              = (runs[r].error.cause \in {"definition", "artifact", "runtime"})
    /\ runs[r].state \in {"QUEUED", "RUNNING", "SUCCEEDED"} => runs[r].error = NoError

\* Failing passes slow the dispatcher down: the delay shrinks after a pass in which
\* some run got through, or in a new process, and otherwise only where the operator
\* asked for an interval above the maximum: then failing passes make the dispatcher
\* faster, down to the maximum and no further.
BackoffIsKept ==
  [][delay' < delay => \/ any.success
                       \/ phase = "down"
                       \/ intervalMs > MaxBackoffMs /\ delay' = MaxBackoffMs]_vars

\* A queued run is taken (or cancelled) in the end: whatever runs before it fail,
\* however far the dispatcher has backed off, and although the process may be
\* stopped or killed in the middle of a pass.
QueuedIsServed ==
  \A r \in Runs : runs[r].state = "QUEUED" ~> runs[r].state # "QUEUED"

Contract == INSTANCE RunContract WITH
  Run <- Runs,
  state <- [r \in Runs |-> runs[r].state],
  token <- token,
  outcome <- [r \in Runs |-> CASE runs[r].state = "SUCCEEDED" -> runs[r].result
                               [] runs[r].state = "FAILED" -> runs[r].error.by
                               [] OTHER -> 0]

\* Without dispatch ids and without fences the local queue still keeps the
\* contract the Postgres queue keeps: an outcome is recorded once, for the
\* attempt in force, because an execution never outlives its pass or its process.
LocalImplementsContract == Contract!ContractSpec
=============================================================================
