---------------------------- MODULE StaleSweeper ----------------------------
(***************************************************************************)
(* StaleRunSweeper (src/src/services/staleRunSweeper.js), one per          *)
(* scheduler process.  A sweep first fails the stale RUNNING rows, then    *)
(* cancels the stale CANCELLING ones; between a listing and each of its    *)
(* writes any other process may change the rows.  Sweeps of one process    *)
(* never overlap (_sweeping).                                              *)
(***************************************************************************)
EXTENDS RunStore

CONSTANT Schedulers   \* scheduler processes

VARIABLE sweep   \* per scheduler: the half of the sweep and its items to do

sweepVars == <<sweep>>

Item == [run : Runs, dispatch : Nat]

SweepTypeOK ==
  sweep \in [Schedulers -> [half : {"running", "cancelling"}, todo : SUBSET Item]]

\* A finished sweep is a cancelling half with nothing left.
NoSweep == [half |-> "cancelling", todo |-> {}]

SweepInit == sweep = [s \in Schedulers |-> NoSweep]

List(s, half, todo) ==
  /\ sweep' = [sweep EXCEPT ![s] = [half |-> half, todo |-> todo]]
  /\ UNCHANGED storeVars

\* The interval timer fires: list the stale RUNNING rows.
SweepRunning(s) ==
  /\ sweep[s] = NoSweep
  /\ List(s, "running", listStaleRunningIds)

\* The query throws: this half of the sweep is over.
SweepRunningError(s) ==
  /\ sweep[s] = NoSweep
  /\ List(s, "running", {})

SweepCancelling(s) ==
  /\ sweep[s] = [half |-> "running", todo |-> {}]
  /\ List(s, "cancelling", listStaleCancellingIds)

SweepCancellingError(s) ==
  /\ sweep[s] = [half |-> "running", todo |-> {}]
  /\ List(s, "cancelling", {})

Done(s, i) == sweep' = [sweep EXCEPT ![s].todo = @ \ {i}]

\* Plausible bug: the sweeper does not pass the dispatch id it listed.
SweepMarkUnfenced(s, i) ==
  /\ i \in sweep[s].todo
  /\ \/ sweep[s].half = "running" /\ markFailed(i.run, NoDispatch, "STALE_RUNNING")
     \/ sweep[s].half = "cancelling" /\ markCancelled(i.run, "STALE_CANCELLING")
  /\ Done(s, i)

\* One item: the fenced markFailed, or markCancelled.
SweepMark(s, i) ==
  /\ i \in sweep[s].todo
  /\ \/ sweep[s].half = "running" /\ markFailed(i.run, i.dispatch, "STALE_RUNNING")
     \/ sweep[s].half = "cancelling" /\ markCancelled(i.run, "STALE_CANCELLING")
  /\ Done(s, i)

\* The write throws: the item waits for the next sweep.
SweepMarkError(s, i) ==
  /\ i \in sweep[s].todo
  /\ Done(s, i)
  /\ UNCHANGED storeVars

\* The scheduler process restarts in the middle of a sweep.
SweeperRestart(s) ==
  /\ sweep[s] # NoSweep
  /\ sweep' = [sweep EXCEPT ![s] = NoSweep]
  /\ UNCHANGED storeVars

SweeperNext ==
  \E s \in Schedulers :
    \/ SweepRunning(s)
    \/ SweepRunningError(s)
    \/ SweepCancelling(s)
    \/ SweepCancellingError(s)
    \/ \E i \in sweep[s].todo : SweepMark(s, i) \/ SweepMarkError(s, i)
    \/ SweeperRestart(s)
=============================================================================
