------------------------------ MODULE RunStore ------------------------------
(***************************************************************************)
(* The Postgres table job_runs and the statements RunStore issues on it    *)
(* (src/src/stores/runStore.js).                                           *)
(*                                                                         *)
(* A run id is its rank in created_at order (1, 2, ...): every query sorts *)
(* by that rank or ignores it.  A dispatch id is a number drawn from a     *)
(* counter per run, because randomUUID() never repeats and the code        *)
(* compares dispatch ids of one run only; 0 is SQL NULL.                   *)
(*                                                                         *)
(* Every autocommitted UPDATE is one atomic step.  claimNextQueued is a    *)
(* transaction of several statements: its row locks are in txn.            *)
(***************************************************************************)
EXTENDS Integers, FiniteSets

CONSTANTS Workers,      \* worker processes (each has one claim connection)
          MaxRuns,      \* bound: rows the table can hold
          MaxDispatch   \* bound: dispatch ids one run can be given

ASSUME RunStoreAssumption ==
  /\ MaxRuns \in Nat
  /\ MaxDispatch \in Nat

VARIABLES runs,    \* the rows of job_runs
          minted,  \* per run, the last dispatch id drawn
          txn      \* per worker, the rows its open claim transaction locks

storeVars == <<runs, minted, txn>>

Runs == 1..MaxRuns
NoDispatch == 0

RunStates ==
  {"QUEUED", "RUNNING", "CANCELLING", "SUCCEEDED", "FAILED", "CANCELLED"}

\* started_at: NULL, or younger or older than the sweeper's threshold.
Ages == {"NULL", "recent", "old"}

ErrorCodes ==
  {"NULL", "WORKER", "STALE_RUNNING", "STALE_CANCELLING", "RUN_CANCELLED"}

\* error carries the dispatch id of the attempt it was written for, result the
\* dispatch id of the attempt whose output it holds.
Row == [state : RunStates \cup {"ABSENT"}, attempt : Nat, dispatchId : Nat,
        startedAt : Ages, result : Nat,
        error : [code : ErrorCodes, by : Nat]]

NoError == [code |-> "NULL", by |-> NoDispatch]

NoRow == [state |-> "ABSENT", attempt |-> 0, dispatchId |-> NoDispatch,
          startedAt |-> "NULL", result |-> NoDispatch, error |-> NoError]

StoreTypeOK ==
  /\ runs \in [Runs -> Row]
  /\ minted \in [Runs -> Nat]
  /\ txn \in [Workers -> SUBSET Runs]

StoreInit ==
  /\ runs = [r \in Runs |-> NoRow]
  /\ minted = [r \in Runs |-> 0]
  /\ txn = [w \in Workers |-> {}]

-----------------------------------------------------------------------------
(* Row locks and the claim transaction *)

Locked(r) == \E w \in Workers : r \in txn[w]

\* Plausible bug: SELECT without FOR UPDATE SKIP LOCKED.
ClaimableUnlocked == {r \in Runs : runs[r].state = "QUEUED"}

\* The rows SELECT ... WHERE state = 'QUEUED' FOR UPDATE SKIP LOCKED can take.
Claimable == {r \in Runs : runs[r].state = "QUEUED" /\ ~Locked(r)}

\* ORDER BY created_at LIMIT limit.
Oldest(S, limit) == {r \in S : Cardinality({q \in S : q < r}) < limit}

\* BEGIN; SELECT: the candidates stay locked until the transaction ends.
BeginClaim(w, limit) ==
  /\ txn[w] = {}
  /\ Oldest(Claimable, limit) # {}
  /\ txn' = [txn EXCEPT ![w] = Oldest(Claimable, limit)]
  /\ UNCHANGED <<runs, minted>>

\* Plausible bug: the claim does not mint a dispatch id of its own.
ClaimKeepingDispatch(row, d) ==
  IF row.state = "QUEUED"
  THEN [row EXCEPT !.state = "RUNNING", !.startedAt = "recent"]
  ELSE row

\* Plausible bug: started_at is not written by the claim.
ClaimWithoutStartedAt(row, d) ==
  IF row.state = "QUEUED"
  THEN [row EXCEPT !.state = "RUNNING", !.dispatchId = d]
  ELSE row

\* The UPDATE claimNextQueued issues for one candidate.
ClaimRow(row, d) ==
  IF row.state = "QUEUED"
  THEN [row EXCEPT !.state = "RUNNING", !.startedAt = "recent", !.dispatchId = d]
  ELSE row

\* The UPDATEs and COMMIT.  The row counts of the UPDATEs are not looked at:
\* whatever was selected is reported as claimed (ClaimedBy).
CommitClaim(w) ==
  /\ txn[w] # {}
  /\ runs' = [r \in Runs |-> IF r \in txn[w] THEN ClaimRow(runs[r], minted[r] + 1)
                                             ELSE runs[r]]
  /\ minted' = [r \in Runs |-> IF r \in txn[w] THEN minted[r] + 1 ELSE minted[r]]
  /\ txn' = [txn EXCEPT ![w] = {}]

\* ROLLBACK, or the connection's death.
EndClaim(w) ==
  /\ txn' = [txn EXCEPT ![w] = {}]
  /\ UNCHANGED <<runs, minted>>

-----------------------------------------------------------------------------
(* Fenced completion writes *)

\* "AND dispatch_id = $n", appended only when a dispatch id is passed.
Fenced(row, d) == d = NoDispatch \/ row.dispatchId = d

\* Plausible bug: the completion write is not fenced (COR-1 of docs/bug-log.md).
MarkSucceededUnfenced(row, d) ==
  IF row.state = "RUNNING"
  THEN [row EXCEPT !.state = "SUCCEEDED", !.result = d, !.error = NoError]
  ELSE row

\* Plausible bug: the state guard accepts a run under cancellation.
MarkSucceededAnyState(row, d) ==
  IF row.state \in {"RUNNING", "CANCELLING"} /\ Fenced(row, d)
  THEN [row EXCEPT !.state = "SUCCEEDED", !.result = d, !.error = NoError]
  ELSE row

MarkSucceededRow(row, d) ==
  IF row.state = "RUNNING" /\ Fenced(row, d)
  THEN [row EXCEPT !.state = "SUCCEEDED", !.result = d, !.error = NoError]
  ELSE row

MarkFailedRow(row, d, code) ==
  IF row.state = "RUNNING" /\ Fenced(row, d)
  THEN [row EXCEPT !.state = "FAILED", !.error = [code |-> code, by |-> d]]
  ELSE row

MarkCancelledRow(row, code) ==
  IF row.state = "CANCELLING"
  THEN [row EXCEPT !.state = "CANCELLED", !.error = [code |-> code, by |-> NoDispatch]]
  ELSE row

markSucceeded(r, d) ==
  /\ runs' = [runs EXCEPT ![r] = MarkSucceededRow(@, d)]
  /\ UNCHANGED <<minted, txn>>

markFailed(r, d, code) ==
  /\ runs' = [runs EXCEPT ![r] = MarkFailedRow(@, d, code)]
  /\ UNCHANGED <<minted, txn>>

markCancelled(r, code) ==
  /\ runs' = [runs EXCEPT ![r] = MarkCancelledRow(@, code)]
  /\ UNCHANGED <<minted, txn>>

\* What touchHeartbeat returns; heartbeat_at itself is never read by the code.
touchHeartbeat(r, d) ==
  IF runs[r].dispatchId = d /\ runs[r].state \in {"RUNNING", "CANCELLING"}
  THEN runs[r].state
  ELSE "NULL"

-----------------------------------------------------------------------------
(* The sweeper's queries *)

listStaleRunningIds ==
  {[run |-> r, dispatch |-> runs[r].dispatchId] :
     r \in {q \in Runs : runs[q].state = "RUNNING" /\ runs[q].startedAt = "old"}}

\* Plausible bug: only RUNNING rows are looked for.
listNoCancellingIds == {}

listStaleCancellingIds ==
  {[run |-> r, dispatch |-> NoDispatch] :
     r \in {q \in Runs : runs[q].state = "CANCELLING" /\ runs[q].startedAt = "old"}}

-----------------------------------------------------------------------------
(* Operator transitions and inserts *)

\* UPDATE ... WHERE state = ANY(from): a matching row that is locked makes the
\* statement wait, and the WHERE clause is evaluated again afterwards.
transition(r, from, set) ==
  /\ runs[r].state \in from => ~Locked(r)
  /\ runs' = [runs EXCEPT ![r] = IF @.state \in from THEN set ELSE @]
  /\ UNCHANGED txn

\* INSERT ... ON CONFLICT DO NOTHING of a run id the table does not hold: r is
\* the next rank in created_at order.
createRun(r, d) ==
  /\ runs[r].state = "ABSENT"
  /\ \A q \in Runs : q < r => runs[q].state # "ABSENT"
  /\ runs' = [runs EXCEPT ![r] = [NoRow EXCEPT !.state = "QUEUED", !.attempt = 1,
                                               !.dispatchId = d]]
  /\ minted' = [minted EXCEPT ![r] = d]
  /\ UNCHANGED txn

\* The clock: a claim gets older than the sweeper's threshold.
Age(r) ==
  /\ runs[r].state \in {"RUNNING", "CANCELLING"}
  /\ runs[r].startedAt = "recent"
  /\ runs' = [runs EXCEPT ![r].startedAt = "old"]
  /\ UNCHANGED <<minted, txn>>
=============================================================================
