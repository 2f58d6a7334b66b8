-------------------------- MODULE RunLifecycleProofs --------------------------
(***************************************************************************)
(* Type correctness of the run queue, for any number of workers, runs,     *)
(* dispatch ids, operators and schedulers.  TypeOK is inductive once the   *)
(* calls in flight are known to name a run of the table and a state that   *)
(* cancelRun accepts: their writes then stay within the columns' types.    *)
(***************************************************************************)
EXTENDS RunLifecycle, TLAPS

\* A call between its read and its write names a row it has read.
CallsName == \A o \in Operators :
  /\ calls[o].op # "none" => calls[o].run \in Runs
  /\ calls[o].op = "cancel" => calls[o].seen \in {"QUEUED", "RUNNING"}

\* The inductive invariant of this module.
Types == TypeOK /\ CallsName

\* The empty table and processes with nothing in flight are well typed.
LEMMA InitTypes == Init => Types
  BY RunStoreAssumption
  DEF Init, StoreInit, WorkerInit, SweepInit, ControlInit, Types, TypeOK, StoreTypeOK,
      WorkerTypeOK, SweepTypeOK, ControlTypeOK, CallsName, NoRow, Row, NoError, Ages,
      ErrorCodes, RunStates, NoDispatch, Modes, NoOne, NoSweep, NoCall, Call

\* The UPDATE of claimNextQueued writes a row.
LEMMA ClaimRowType ==
  ASSUME NEW row \in Row, NEW d \in Nat PROVE ClaimRow(row, d) \in Row
  BY DEF ClaimRow, Row, Ages, RunStates

\* The completion writes leave a row.
LEMMA MarkRowType ==
  ASSUME NEW row \in Row, NEW d \in Nat, NEW code \in ErrorCodes
  PROVE  /\ MarkSucceededRow(row, d) \in Row
         /\ MarkFailedRow(row, d, code) \in Row
         /\ MarkCancelledRow(row, code) \in Row
  <1>1. NoError \in [code : ErrorCodes, by : Nat]
    BY DEF NoError, ErrorCodes, NoDispatch
  <1> HIDE DEF NoError
  <1>2. [code |-> code, by |-> d] \in [code : ErrorCodes, by : Nat]
    OBVIOUS
  <1>3. [code |-> code, by |-> NoDispatch] \in [code : ErrorCodes, by : Nat]
    BY DEF NoDispatch
  <1>4. MarkSucceededRow(row, d) \in Row
    BY <1>1 DEF MarkSucceededRow, Row, RunStates
  <1>5. MarkFailedRow(row, d, code) \in Row
    BY <1>2 DEF MarkFailedRow, Row, RunStates
  <1>6. MarkCancelledRow(row, code) \in Row
    BY <1>3 DEF MarkCancelledRow, Row, RunStates
  <1> QED BY <1>4, <1>5, <1>6

\* Every step of a worker keeps the types.
LEMMA WorkerTypes == Types /\ WorkerStep => Types'
  <1> USE DEF Types, TypeOK, StoreTypeOK, WorkerTypeOK, NoDispatch
  <1> SUFFICES ASSUME Types, WorkerNext, UNCHANGED <<sweepVars, callVars>>
               PROVE Types'
    BY DEF WorkerStep
  <1>0. SUFFICES StoreTypeOK' /\ WorkerTypeOK'
    BY DEF SweepTypeOK, ControlTypeOK, CallsName, sweepVars, callVars
  <1>1. ASSUME NEW w \in Workers, PollBegin(w) PROVE StoreTypeOK' /\ WorkerTypeOK'
    BY <1>1 DEF PollBegin, BeginClaim, Oldest, Claimable, workerVars
  <1>2. ASSUME NEW w \in Workers, CommitClaim(w) PROVE StoreTypeOK'
    BY <1>2, ClaimRowType DEF CommitClaim
  <1>3. ASSUME NEW w \in Workers, PollCommit(w) PROVE StoreTypeOK' /\ WorkerTypeOK'
    BY <1>3, <1>2 DEF PollCommit, ClaimedBy, Exec, Phases
  <1>4. ASSUME NEW w \in Workers, PollCommitLost(w) PROVE StoreTypeOK' /\ WorkerTypeOK'
    BY <1>4, <1>2 DEF PollCommitLost, workerVars
  <1>5. ASSUME NEW w \in Workers, PollRollback(w) PROVE StoreTypeOK' /\ WorkerTypeOK'
    BY <1>5 DEF PollRollback, EndClaim, workerVars
  <1>6. ASSUME NEW e \in execs, Execute(e) PROVE StoreTypeOK' /\ WorkerTypeOK'
    <2>0. e \in Exec
      OBVIOUS
    <2>1. ASSUME NEW p \in Phases, Advance(e, p) PROVE execs' \in SUBSET Exec
      BY <2>0, <2>1 DEF Advance, Exec
    <2>2. ASSUME Settle(e)
          PROVE execs' \in SUBSET Exec /\ owned' \in [Workers -> [Runs -> Nat]]
      BY <2>0, <2>2 DEF Settle, Exec
    <2>3. CASE FetchRun(e)
      BY <2>1, <2>3 DEF FetchRun, storeVars, Phases
    <2>4. CASE FetchError(e)
      BY <2>2, <2>4 DEF FetchError, storeVars
    <2>5. CASE PrepareError(e)
      BY <2>1, <2>5 DEF PrepareError, storeVars, Phases
    <2>6. CASE Spawn(e)
      BY <2>0, <2>1, <2>6 DEF Spawn, storeVars, Phases, Exec
    <2>7. ASSUME NEW outcome \in {"succeed", "fail"}, ChildExit(e, outcome)
          PROVE StoreTypeOK' /\ WorkerTypeOK'
      BY <2>0, <2>1, <2>7 DEF ChildExit, storeVars, Phases, Exec
    <2>8. ASSUME markSucceeded(e.run, e.dispatch) PROVE StoreTypeOK'
      BY <2>0, <2>8, MarkRowType DEF markSucceeded, Exec, ErrorCodes
    <2>9. CASE RecordSuccess(e)
      BY <2>1, <2>8, <2>9 DEF RecordSuccess, Phases
    <2>10. CASE RecordSuccessError(e)
      BY <2>1, <2>8, <2>10 DEF RecordSuccessError, Phases, storeVars
    <2>11. CASE RecordFailure(e)
      <3>1. StoreTypeOK'
        BY <2>0, <2>11, MarkRowType DEF RecordFailure, markFailed, ErrorCodes, Exec
      <3> QED BY <3>1, <2>1, <2>11 DEF RecordFailure, Phases
    <2>12. CASE RecordFailureError(e)
      BY <2>2, <2>12 DEF RecordFailureError, storeVars
    <2>13. CASE Finish(e)
      BY <2>2, <2>13 DEF Finish, storeVars
    <2> QED
      BY <1>6, <2>3, <2>4, <2>5, <2>6, <2>7, <2>9, <2>10, <2>11, <2>12, <2>13 DEF Execute
  <1>7. ASSUME NEW w \in Workers, NEW r \in Runs, HeartbeatCancel(w, r)
        PROVE StoreTypeOK' /\ WorkerTypeOK'
    BY <1>7 DEF HeartbeatCancel, Advance, ExecsOf, Exec, Phases, storeVars
  <1>8. ASSUME NEW w \in Workers, Sigterm(w) PROVE StoreTypeOK' /\ WorkerTypeOK'
    BY <1>8 DEF Sigterm, Modes, storeVars
  <1>9. ASSUME NEW w \in Workers, DrainBegin(w) PROVE StoreTypeOK' /\ WorkerTypeOK'
    BY <1>9 DEF DrainBegin, Modes, storeVars, ExecsOf, Exec
  <1>10. ASSUME NEW w \in Workers, NEW m \in Modes, Vanish(w, m) PROVE WorkerTypeOK'
    BY <1>10 DEF Vanish, Modes, NoOne, ExecsOf
  <1>11. ASSUME NEW w \in Workers, ProcessExit(w) PROVE StoreTypeOK' /\ WorkerTypeOK'
    BY <1>11, <1>10 DEF ProcessExit, Modes, storeVars
  <1>12. ASSUME NEW w \in Workers, Crash(w) PROVE StoreTypeOK' /\ WorkerTypeOK'
    BY <1>12, <1>10 DEF Crash, Modes, EndClaim
  <1>13. ASSUME NEW w \in Workers, Restart(w) PROVE StoreTypeOK' /\ WorkerTypeOK'
    BY <1>13 DEF Restart, Modes, storeVars
  <1> QED
    BY <1>1, <1>3, <1>4, <1>5, <1>6, <1>7, <1>8, <1>9, <1>11, <1>12, <1>13 DEF WorkerNext

\* Every step of a sweeper keeps the types: what it lists are items.
LEMMA SweeperTypes == Types /\ SweeperStep => Types'
  <1> USE DEF Types, TypeOK
  <1> SUFFICES ASSUME Types, NEW s \in Schedulers,
                      \/ SweepRunning(s)
                      \/ SweepRunningError(s)
                      \/ SweepCancelling(s)
                      \/ SweepCancellingError(s)
                      \/ \E i \in sweep[s].todo : SweepMark(s, i) \/ SweepMarkError(s, i)
                      \/ SweeperRestart(s),
                      UNCHANGED <<workerVars, callVars>>
               PROVE Types'
    BY DEF SweeperStep, SweeperNext
  <1>0. SUFFICES StoreTypeOK' /\ SweepTypeOK'
    BY DEF WorkerTypeOK, ControlTypeOK, CallsName, workerVars, callVars
  <1>1. ASSUME NEW half \in {"running", "cancelling"}, NEW todo \in SUBSET Item,
               List(s, half, todo)
        PROVE StoreTypeOK' /\ SweepTypeOK'
    BY <1>1 DEF List, SweepTypeOK, StoreTypeOK, storeVars
  <1>2. listStaleRunningIds \in SUBSET Item /\ listStaleCancellingIds \in SUBSET Item
    BY DEF listStaleRunningIds, listStaleCancellingIds, Item, StoreTypeOK, Row, NoDispatch
  <1>3. ASSUME NEW i, Done(s, i) PROVE SweepTypeOK'
    BY <1>3 DEF Done, SweepTypeOK
  <1>4. ASSUME NEW i \in sweep[s].todo, SweepMark(s, i) PROVE StoreTypeOK' /\ SweepTypeOK'
    <2>1. i \in Item
      BY DEF SweepTypeOK
    <2>2. CASE markFailed(i.run, i.dispatch, "STALE_RUNNING")
      <3>1. MarkFailedRow(runs[i.run], i.dispatch, "STALE_RUNNING") \in Row
        BY <2>1, MarkRowType DEF StoreTypeOK, Item, ErrorCodes
      <3> QED BY <1>3, <1>4, <2>1, <2>2, <3>1 DEF SweepMark, markFailed, StoreTypeOK, Item
    <2>3. CASE markCancelled(i.run, "STALE_CANCELLING")
      <3>1. MarkCancelledRow(runs[i.run], "STALE_CANCELLING") \in Row
        BY <2>1, MarkRowType DEF StoreTypeOK, Item, ErrorCodes
      <3> QED BY <1>3, <1>4, <2>1, <2>3, <3>1 DEF SweepMark, markCancelled, StoreTypeOK, Item
    <2> QED BY <1>4, <2>2, <2>3 DEF SweepMark
  <1>5. ASSUME NEW i \in sweep[s].todo, SweepMarkError(s, i)
        PROVE StoreTypeOK' /\ SweepTypeOK'
    BY <1>5, <1>3 DEF SweepMarkError, StoreTypeOK, storeVars
  <1>6. CASE SweeperRestart(s)
    BY <1>6 DEF SweeperRestart, StoreTypeOK, storeVars, SweepTypeOK, NoSweep
  <1> QED
    BY <1>1, <1>2, <1>4, <1>5, <1>6
    DEF SweepRunning, SweepRunningError, SweepCancelling, SweepCancellingError

\* retryRun writes a row.
LEMMA RetriedRowType ==
  ASSUME NEW row \in Row, NEW n \in Nat, NEW d \in Nat
  PROVE  RetriedRow(row, n, d) \in Row
  <1>1. NoError \in [code : ErrorCodes, by : Nat]
    BY DEF NoError, ErrorCodes, NoDispatch
  <1> QED BY <1>1 DEF RetriedRow, Row, RunStates, Ages

\* cancelRun writes a row, from either state it accepts.
LEMMA CancelledRowType ==
  ASSUME NEW row \in Row, NEW seen
  PROVE  CancelledRow(row, seen) \in Row
  <1>1. [code |-> "RUN_CANCELLED", by |-> NoDispatch] \in [code : ErrorCodes, by : Nat]
    BY DEF ErrorCodes, NoDispatch
  <1> QED BY <1>1 DEF CancelledRow, CancelTarget, Row, RunStates

\* createRun inserts a row.
LEMMA NewRowType ==
  ASSUME NEW d \in Nat
  PROVE  [NoRow EXCEPT !.state = "QUEUED", !.attempt = 1, !.dispatchId = d] \in Row
  BY DEF NoRow, Row, RunStates, Ages, NoError, ErrorCodes, NoDispatch

\* Every step of an operator's call keeps the types.
LEMMA ControlTypes == Types /\ ControlStep => Types'
  <1> USE DEF Types, TypeOK
  <1> SUFFICES ASSUME Types, ControlNext, UNCHANGED <<workerVars, sweepVars>>
               PROVE Types'
    BY DEF ControlStep
  <1> DEFINE Goal == StoreTypeOK' /\ ControlTypeOK' /\ CallsName'
  <1>0. SUFFICES Goal
    BY DEF WorkerTypeOK, SweepTypeOK, workerVars, sweepVars
  <1>1. ASSUME NEW o \in Operators, Return(o) PROVE ControlTypeOK' /\ CallsName'
    BY <1>1 DEF Return, NoCall, ControlTypeOK, CallsName, Call
  <1>2. ASSUME NEW o \in Operators, NEW r \in Runs, NEW op \in {"retry", "cancel"},
               ReadRun(o, op, r),
               op = "cancel" => runs[r].state \in {"QUEUED", "RUNNING"}
        PROVE ControlTypeOK' /\ CallsName'
    <2>1. runs[r].state \in RunStates \cup {"ABSENT"} /\ runs[r].attempt \in Nat /\ r \in Nat
      BY DEF StoreTypeOK, Row, Runs
    <2> DEFINE c == [op |-> op, run |-> r, seen |-> runs[r].state, attempt |-> runs[r].attempt]
    <2>2. c \in Call
      BY <2>1 DEF Call
    <2>3. calls' = [calls EXCEPT ![o] = c]
      BY <1>2 DEF ReadRun
    <2>4. c.op = op /\ c.run = r /\ c.seen = runs[r].state
      OBVIOUS
    <2> HIDE DEF c
    <2>5. ControlTypeOK'
      BY <2>2, <2>3 DEF ControlTypeOK
    <2> QED BY <1>2, <2>3, <2>4, <2>5 DEF ControlTypeOK, CallsName
  <1>3. ASSUME NEW o \in Operators, NEW r \in Runs, RetryRead(o, r) \/ CancelRead(o, r)
        PROVE Goal
    <2>1. StoreTypeOK'
      BY <1>3 DEF RetryRead, CancelRead, StoreTypeOK, storeVars
    <2> QED BY <1>2, <1>3, <2>1 DEF RetryRead, CancelRead
  <1>4. ASSUME NEW o \in Operators, RetryWrite(o) PROVE Goal
    <2>1. calls[o].run \in Runs /\ calls[o].attempt \in Nat
      <3>1. calls[o].op = "retry"
        BY <1>4 DEF RetryWrite
      <3>2. calls[o].run \in Runs
        BY <3>1 DEF CallsName
      <3> QED BY <3>2 DEF ControlTypeOK, Call
    <2>2. RetriedRow(runs[calls[o].run], calls[o].attempt + 1, minted[calls[o].run] + 1) \in Row
      <3>1. /\ runs[calls[o].run] \in Row
            /\ calls[o].attempt + 1 \in Nat
            /\ minted[calls[o].run] + 1 \in Nat
        BY <2>1 DEF StoreTypeOK
      <3> QED BY <3>1, RetriedRowType
    <2> QED BY <1>1, <1>4, <2>1, <2>2 DEF RetryWrite, transition, StoreTypeOK
  <1>5. ASSUME NEW o \in Operators, CancelWrite(o) PROVE Goal
    <2>1. calls[o].run \in Runs
      <3>1. calls[o].op = "cancel"
        BY <1>5 DEF CancelWrite
      <3> QED BY <3>1 DEF CallsName
    <2>2. CancelledRow(runs[calls[o].run], calls[o].seen) \in Row
      BY <2>1, CancelledRowType DEF StoreTypeOK
    <2> QED BY <1>1, <1>5, <2>1, <2>2 DEF CancelWrite, transition, StoreTypeOK
  <1>6. ASSUME NEW o \in Operators, CallError(o) PROVE Goal
    BY <1>1, <1>6 DEF CallError, StoreTypeOK, storeVars
  <1>7. ASSUME NEW new \in Runs, NEW d \in Nat, createRun(new, d), UNCHANGED calls PROVE Goal
    BY <1>7, NewRowType DEF createRun, StoreTypeOK, ControlTypeOK, CallsName
  <1>8. ASSUME NEW r \in Runs, NEW new \in Runs, Redrive(r, new) PROVE Goal
    BY <1>7, <1>8 DEF Redrive
  <1>9. ASSUME NEW new \in Runs, Enqueue(new) PROVE Goal
    BY <1>7, <1>9 DEF Enqueue, NoDispatch
  <1> QED
    BY <1>3, <1>4, <1>5, <1>6, <1>8, <1>9 DEF ControlNext

\* A claim that grows old keeps the types.
LEMMA ClockTypes == Types /\ ClockStep => Types'
  <1> SUFFICES ASSUME Types, NEW r \in Runs, Age(r),
                      UNCHANGED <<workerVars, sweepVars, callVars>>
               PROVE Types'
    BY DEF ClockStep
  <1>1. [runs[r] EXCEPT !.startedAt = "old"] \in Row
    BY DEF Types, TypeOK, StoreTypeOK, Row, Ages
  <1>2. runs' = [runs EXCEPT ![r] = [runs[r] EXCEPT !.startedAt = "old"]]
    BY DEF Age, Types, TypeOK, StoreTypeOK
  <1>3. StoreTypeOK'
    BY <1>1, <1>2 DEF Age, Types, TypeOK, StoreTypeOK
  <1> QED
    BY <1>3 DEF Types, TypeOK, WorkerTypeOK, SweepTypeOK, ControlTypeOK, CallsName,
                workerVars, sweepVars, callVars

\* So does a step that changes nothing.
LEMMA StutterTypes == Types /\ UNCHANGED vars => Types'
  BY DEF Types, TypeOK, StoreTypeOK, WorkerTypeOK, SweepTypeOK, ControlTypeOK, CallsName,
         vars, storeVars, workerVars, sweepVars, callVars

\* Types is inductive.
LEMMA StepTypes == Types /\ [Next]_vars => Types'
  BY WorkerTypes, SweeperTypes, ControlTypes, ClockTypes, StutterTypes DEF Next

\* The table, the workers' memory, the sweeps and the calls in flight hold
\* values of their types in every reachable state (src/src/stores/runStore.js and
\* the services that write through it).
THEOREM TypeCorrect == Spec => []TypeOK
  <1>1. Types => TypeOK
    BY DEF Types
  <1> QED BY InitTypes, StepTypes, <1>1, PTL DEF Spec
=============================================================================
