----------------------------- MODULE PullWorker -----------------------------
(***************************************************************************)
(* The worker processes: the poll loop that claims runs, the heartbeat     *)
(* loop that watches for cancellation (src/src/workers/pollLoop.js), the   *)
(* execution pipeline of a claimed run (workerRunService.js), the child    *)
(* process registry (jobRuntimeExecutor.js) and shutdown (workers/app.js,  *)
(* workerApp.js).                                                          *)
(*                                                                         *)
(* Each in-flight promise of activeExecutions is a record of execs:        *)
(*   fetch    executeClaimedRun awaits getRun                              *)
(*   prepare  metadata, artifact verification, secrets, extraction         *)
(*   run      the child process is alive                                   *)
(*   killed   the child process was signalled by cancel(runId)             *)
(*   succeed  the child exited with 0, markSucceeded is to be sent         *)
(*   fail     something threw, markFailed is to be sent                    *)
(*   settle   the outcome is written, the audit event is being sent        *)
(***************************************************************************)
EXTENDS RunStore

CONSTANT MaxConcurrency   \* WORKER_MAX_CONCURRENCY

ASSUME PullWorkerAssumption == MaxConcurrency \in Nat

VARIABLES mode,    \* life cycle of each worker process
          execs,   \* in-flight executions
          owned,   \* pollLoop's Map runId -> dispatchId, per worker
          active,  \* the executor's _activeByRunId, per worker
          drain    \* the executions drain() waits for, per worker

workerVars == <<mode, execs, owned, active, drain>>

Modes == {"up", "stopping", "draining", "exited", "crashed"}
Phases == {"fetch", "prepare", "run", "killed", "succeed", "fail", "settle"}

Exec == [run : Runs, dispatch : Nat, worker : Workers, phase : Phases]

NoOne == [r \in Runs |-> NoDispatch]

Alive(w) == mode[w] \in {"up", "stopping", "draining"}

ExecsOf(w) == {e \in execs : e.worker = w}

WorkerTypeOK ==
  /\ mode \in [Workers -> Modes]
  /\ execs \in SUBSET Exec
  /\ owned \in [Workers -> [Runs -> Nat]]
  /\ active \in [Workers -> [Runs -> Nat]]
  /\ drain \in [Workers -> SUBSET [run : Runs, dispatch : Nat]]

WorkerInit ==
  /\ mode = [w \in Workers |-> "up"]
  /\ execs = {}
  /\ owned = [w \in Workers |-> NoOne]
  /\ active = [w \in Workers |-> NoOne]
  /\ drain = [w \in Workers |-> {}]

-----------------------------------------------------------------------------
(* The poll loop *)

\* Plausible bug: the poll asks for a full batch whatever is in flight.
FreeSlotsIgnoringExecs(w) == MaxConcurrency

FreeSlots(w) == MaxConcurrency - Cardinality(ExecsOf(w))

\* pollOnce up to the SELECT of claimNextQueued.  Polls of one worker follow
\* one another, and none starts once stop() was called.
PollBegin(w) ==
  /\ mode[w] = "up"
  /\ FreeSlots(w) > 0
  /\ BeginClaim(w, FreeSlots(w))
  /\ UNCHANGED workerVars

\* The executions pollOnce starts: one per selected row.
ClaimedBy(w) ==
  {[run |-> r, dispatch |-> minted[r] + 1, worker |-> w, phase |-> "fetch"] :
     r \in txn[w]}

\* claimNextQueued returns; every claimed run is started and tracked.  stop()
\* does not reach a poll that is already waiting for the database.
PollCommit(w) ==
  /\ Alive(w)
  /\ CommitClaim(w)
  /\ execs' = execs \cup ClaimedBy(w)
  /\ owned' = [owned EXCEPT ![w] =
                 [r \in Runs |-> IF r \in txn[w] THEN minted[r] + 1 ELSE @[r]]]
  /\ UNCHANGED <<mode, active, drain>>

\* COMMIT took effect but its answer was lost: claimNextQueued throws and
\* pollOnce goes on as if nothing had been claimed.
PollCommitLost(w) ==
  /\ Alive(w)
  /\ CommitClaim(w)
  /\ UNCHANGED workerVars

\* A statement of the transaction failed.
PollRollback(w) ==
  /\ Alive(w)
  /\ txn[w] # {}
  /\ EndClaim(w)
  /\ UNCHANGED workerVars

-----------------------------------------------------------------------------
(* The execution of a claimed run *)

Advance(e, phase) == execs' = (execs \ {e}) \cup {[e EXCEPT !.phase = phase]}

\* Plausible bug: cleanup forgets activeExecutions, and the slot is never free again.
SettleKeepingSlot(e) ==
  /\ owned' = [owned EXCEPT ![e.worker] = [@ EXCEPT ![e.run] = NoDispatch]]
  /\ UNCHANGED execs

\* The promise settles: track()'s cleanup deletes the entry of the run id.
Settle(e) ==
  /\ execs' = execs \ {e}
  /\ owned' = [owned EXCEPT ![e.worker] = [@ EXCEPT ![e.run] = NoDispatch]]

\* executeClaimedRun's getRun; the run's state is not looked at.
FetchRun(e) ==
  /\ e.phase = "fetch"
  /\ Advance(e, "prepare")
  /\ UNCHANGED <<storeVars, mode, owned, active, drain>>

\* getRun throws outside the try block: nothing is written about the run.
FetchError(e) ==
  /\ e.phase = "fetch"
  /\ Settle(e)
  /\ UNCHANGED <<storeVars, mode, active, drain>>

\* Any step before the child is spawned throws.
PrepareError(e) ==
  /\ e.phase = "prepare"
  /\ Advance(e, "fail")
  /\ UNCHANGED <<storeVars, mode, owned, active, drain>>

\* _spawnEntrypoint registers the child under its run id.
Spawn(e) ==
  /\ e.phase = "prepare"
  /\ Advance(e, "run")
  /\ active' = [active EXCEPT ![e.worker] = [@ EXCEPT ![e.run] = e.dispatch]]
  /\ UNCHANGED <<storeVars, mode, owned, drain>>

\* "close" or "error" of the child: it exits by itself, at its timeout or by a
\* signal, and the registry entry of its run id goes.
ChildExit(e, outcome) ==
  /\ e.phase \in {"run", "killed"}
  /\ outcome \in {"succeed", "fail"}
  /\ Advance(e, outcome)
  /\ active' = [active EXCEPT ![e.worker] = [@ EXCEPT ![e.run] = NoDispatch]]
  /\ UNCHANGED <<storeVars, mode, owned, drain>>

RecordSuccess(e) ==
  /\ e.phase = "succeed"
  /\ markSucceeded(e.run, e.dispatch)
  /\ Advance(e, "settle")
  /\ UNCHANGED <<mode, owned, active, drain>>

\* markSucceeded throws, before or after the UPDATE took effect: the catch
\* block goes on to markFailed.
RecordSuccessError(e) ==
  /\ e.phase = "succeed"
  /\ \/ markSucceeded(e.run, e.dispatch)
     \/ UNCHANGED storeVars
  /\ Advance(e, "fail")
  /\ UNCHANGED <<mode, owned, active, drain>>

RecordFailure(e) ==
  /\ e.phase = "fail"
  /\ markFailed(e.run, e.dispatch, "WORKER")
  /\ Advance(e, "settle")
  /\ UNCHANGED <<mode, owned, active, drain>>

\* markFailed throws inside the catch block: the promise rejects at once.
RecordFailureError(e) ==
  /\ e.phase = "fail"
  /\ Settle(e)
  /\ UNCHANGED <<storeVars, mode, active, drain>>

\* The audit event is out (its errors are swallowed) and the promise settles.
Finish(e) ==
  /\ e.phase = "settle"
  /\ Settle(e)
  /\ UNCHANGED <<storeVars, mode, active, drain>>

-----------------------------------------------------------------------------
(* The heartbeat loop *)

\* heartbeatOnce for one owned run that turns out to be under cancellation:
\* cancel(runId) signals the child registered under the run id, if any.  A round
\* that is under way when stop() clears the timer goes on.
HeartbeatCancel(w, r) ==
  /\ Alive(w)
  /\ owned[w][r] # NoDispatch
  /\ touchHeartbeat(r, owned[w][r]) = "CANCELLING"
  /\ \E e \in ExecsOf(w) :
       /\ e.run = r
       /\ e.dispatch = active[w][r]
       /\ e.phase = "run"
       /\ Advance(e, "killed")
  /\ UNCHANGED <<storeVars, mode, owned, active, drain>>

-----------------------------------------------------------------------------
(* Process life cycle *)

\* SIGTERM: pollLoop.stop() clears the poll and the heartbeat timers.
Sigterm(w) ==
  /\ mode[w] = "up"
  /\ mode' = [mode EXCEPT ![w] = "stopping"]
  /\ UNCHANGED <<storeVars, execs, owned, active, drain>>

\* server.close() called back: drain() takes the executions in flight now.
DrainBegin(w) ==
  /\ mode[w] = "stopping"
  /\ mode' = [mode EXCEPT ![w] = "draining"]
  /\ drain' = [drain EXCEPT ![w] =
                 {[run |-> e.run, dispatch |-> e.dispatch] : e \in ExecsOf(w)}]
  /\ UNCHANGED <<storeVars, execs, owned, active>>

Drained(w) ==
  \A e \in ExecsOf(w) : [run |-> e.run, dispatch |-> e.dispatch] \notin drain[w]

\* The process ends and everything in its memory with it.
Vanish(w, to) ==
  /\ mode' = [mode EXCEPT ![w] = to]
  /\ execs' = execs \ ExecsOf(w)
  /\ owned' = [owned EXCEPT ![w] = NoOne]
  /\ active' = [active EXCEPT ![w] = NoOne]
  /\ drain' = [drain EXCEPT ![w] = {}]

\* drain() resolved, pool.end() saw the claim connection released, exit(0).
ProcessExit(w) ==
  /\ mode[w] = "draining"
  /\ Drained(w)
  /\ txn[w] = {}
  /\ Vanish(w, "exited")
  /\ UNCHANGED storeVars

\* The process dies, is killed by the platform, or exits at drain()'s timer;
\* its connection closes and an open claim transaction is rolled back.
Crash(w) ==
  /\ Alive(w)
  /\ Vanish(w, "crashed")
  /\ EndClaim(w)

\* The warm pool starts a new instance.
Restart(w) ==
  /\ ~Alive(w)
  /\ mode' = [mode EXCEPT ![w] = "up"]
  /\ UNCHANGED <<storeVars, execs, owned, active, drain>>

-----------------------------------------------------------------------------

Execute(e) ==
  \/ FetchRun(e)
  \/ FetchError(e)
  \/ PrepareError(e)
  \/ Spawn(e)
  \/ \E outcome \in {"succeed", "fail"} : ChildExit(e, outcome)
  \/ RecordSuccess(e)
  \/ RecordSuccessError(e)
  \/ RecordFailure(e)
  \/ RecordFailureError(e)
  \/ Finish(e)

WorkerNext ==
  \/ \E w \in Workers :
       \/ PollBegin(w)
       \/ PollCommit(w)
       \/ PollCommitLost(w)
       \/ PollRollback(w)
       \/ \E r \in Runs : HeartbeatCancel(w, r)
       \/ Sigterm(w)
       \/ DrainBegin(w)
       \/ ProcessExit(w)
       \/ Crash(w)
       \/ Restart(w)
  \/ \E e \in execs : Execute(e)
=============================================================================
