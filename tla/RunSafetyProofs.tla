--------------------------- MODULE RunSafetyProofs ---------------------------
(***************************************************************************)
(* The inductive invariant of the run queue, and the safety properties of  *)
(* RunLifecycle that follow from it.  The argument goes row by row: every  *)
(* step of every process moves every row in one of nine ways (Moves), each *)
(* way preserves what a row says about itself (RowSound), and what         *)
(* executions, claim transactions and sweeps remember about a row stays    *)
(* true because dispatch ids only grow.  The last part counts what a       *)
(* worker has taken (ConcurrencyCap).                                      *)
(***************************************************************************)
EXTENDS RunLifecycleProofs, FiniteSetTheorems

\* What one row says about itself.
RowSound(row) ==
  /\ row.state = "ABSENT" => row = NoRow
  /\ row.state \in {"RUNNING", "CANCELLING", "SUCCEEDED", "FAILED"} => row.dispatchId > 0
  /\ row.state \in {"RUNNING", "CANCELLING"} => row.startedAt # "NULL"
  /\ row.state = "SUCCEEDED" => row.result = row.dispatchId /\ row.error = NoError
  /\ row.state = "FAILED" => row.error.by = row.dispatchId
  /\ row.state # "SUCCEEDED" => row.result = NoDispatch
  /\ row.state \in {"QUEUED", "RUNNING", "CANCELLING"} => row.error = NoError

\* Every row of the table does.
RowsSound == \A r \in Runs : RowSound(runs[r])

\* The last dispatch id drawn for a run is the one its row carries.
MintsMatch == \A r \in Runs : minted[r] = runs[r].dispatchId

\* An execution carries a dispatch id the run had at some time, and a run that
\* still has it is not waiting.
HoldsToken(e) ==
  /\ e.dispatch > 0
  /\ e.dispatch <= runs[e.run].dispatchId
  /\ Current(e) => runs[e.run].state \notin {"ABSENT", "QUEUED"}

\* Every execution in flight does.
ExecsHold == \A e \in execs : HoldsToken(e)

\* An execution is told from all others by its run and its dispatch id.
ExecsDistinct ==
  \A e, f \in execs : e.run = f.run /\ e.dispatch = f.dispatch => e = f

\* An item of a sweep names an attempt that was old when it was listed: either
\* the run has moved on or the attempt is still old.
ListedRunning(i) ==
  /\ i.dispatch > 0
  /\ i.dispatch <= runs[i.run].dispatchId
  /\ runs[i.run].state = "RUNNING" /\ runs[i.run].dispatchId = i.dispatch
       => runs[i.run].startedAt = "old"

\* What the cancelling half of a sweep may rely on in the same way.
ListedCancelling(i) ==
  /\ runs[i.run].state \in {"CANCELLING", "CANCELLED"}
  /\ runs[i.run].state = "CANCELLING" => runs[i.run].startedAt = "old"

\* Every item a sweep still has to do is one of the two.
SweepsSound ==
  \A s \in Schedulers : \A i \in sweep[s].todo :
    /\ sweep[s].half = "running" => ListedRunning(i)
    /\ sweep[s].half = "cancelling" => ListedCancelling(i)

\* The inductive invariant of the run queue.
IInv ==
  /\ Types
  /\ RowsSound
  /\ MintsMatch
  /\ ExecsHold
  /\ ExecsDistinct
  /\ ClaimsAreExclusive
  /\ SweepsSound

-----------------------------------------------------------------------------

\* The ways a step can change one row.
Moves(old, new) ==
  \/ new = old
  \/ old.state = "QUEUED" /\ new = ClaimRow(old, old.dispatchId + 1)
  \/ \E d \in Nat \ {0} : new = MarkSucceededRow(old, d)
  \/ \E d \in Nat \ {0}, code \in {"WORKER", "STALE_RUNNING"} :
       /\ new = MarkFailedRow(old, d, code)
       /\ code = "STALE_RUNNING" /\ old.state = "RUNNING" /\ old.dispatchId = d
            => old.startedAt = "old"
  \/ old.state = "CANCELLING" /\ old.startedAt = "old"
       /\ new = MarkCancelledRow(old, "STALE_CANCELLING")
  \/ old.state = "FAILED" /\ \E n \in Nat : new = RetriedRow(old, n, old.dispatchId + 1)
  \/ old.state \in {"QUEUED", "RUNNING"} /\ new = CancelledRow(old, old.state)
  \/ old.state = "ABSENT"
       /\ \E d \in {0, 1} :
            new = [NoRow EXCEPT !.state = "QUEUED", !.attempt = 1, !.dispatchId = d]
  \/ old.state \in {"RUNNING", "CANCELLING"} /\ old.startedAt = "recent"
       /\ new = [old EXCEPT !.startedAt = "old"]

\* Each way of changing a row leaves it sound.
LEMMA MoveSound ==
  ASSUME NEW old \in Row, NEW new, RowSound(old), Moves(old, new)
  PROVE  RowSound(new)
  <1> USE DEF RowSound, Row, NoDispatch
  <1>1. CASE new = old
    BY <1>1
  <1>2. CASE old.state = "QUEUED" /\ new = ClaimRow(old, old.dispatchId + 1)
    BY <1>2 DEF ClaimRow
  <1>3. ASSUME NEW d \in Nat \ {0}, new = MarkSucceededRow(old, d) PROVE RowSound(new)
    BY <1>3 DEF MarkSucceededRow, Fenced
  <1>4. ASSUME NEW d \in Nat \ {0}, NEW code \in {"WORKER", "STALE_RUNNING"},
               new = MarkFailedRow(old, d, code)
        PROVE RowSound(new)
    BY <1>4 DEF MarkFailedRow, Fenced
  <1>5. CASE old.state = "CANCELLING" /\ new = MarkCancelledRow(old, "STALE_CANCELLING")
    BY <1>5 DEF MarkCancelledRow
  <1>6. ASSUME old.state = "FAILED", NEW n \in Nat,
               new = RetriedRow(old, n, old.dispatchId + 1)
        PROVE RowSound(new)
    BY <1>6 DEF RetriedRow
  <1>7. CASE old.state \in {"QUEUED", "RUNNING"} /\ new = CancelledRow(old, old.state)
    BY <1>7 DEF CancelledRow, CancelTarget
  <1>8. ASSUME NEW d \in {0, 1},
               new = [NoRow EXCEPT !.state = "QUEUED", !.attempt = 1, !.dispatchId = d]
        PROVE RowSound(new)
    BY <1>8 DEF NoRow
  <1>9. CASE /\ old.state \in {"RUNNING", "CANCELLING"} /\ old.startedAt = "recent"
             /\ new = [old EXCEPT !.startedAt = "old"]
    BY <1>9
  <1> QED
    BY <1>1, <1>2, <1>3, <1>4, <1>5, <1>6, <1>7, <1>8, <1>9 DEF Moves

\* What a process may still rely on after others have moved the row.
MoveKeeps(old, new) ==
  /\ new.dispatchId \in Nat
  /\ new.dispatchId >= old.dispatchId
  /\ new.dispatchId = old.dispatchId /\ old.state \notin {"ABSENT", "QUEUED"}
       => new.state \notin {"ABSENT", "QUEUED"}
  /\ new.dispatchId = old.dispatchId /\ new.state = "RUNNING"
       => old.state = "RUNNING" /\ (old.startedAt = "old" => new.startedAt = "old")
  /\ old.state \in {"CANCELLING", "CANCELLED"}
       => /\ new.state \in {"CANCELLING", "CANCELLED"}
          /\ new.state = "CANCELLING" => /\ old.state = "CANCELLING"
                                         /\ old.startedAt = "old" => new.startedAt = "old"

\* Each way of changing a row keeps what other processes rely on.
LEMMA MoveFacts ==
  ASSUME NEW old \in Row, NEW new, RowSound(old), Moves(old, new)
  PROVE  /\ MoveKeeps(old, new)
         /\ FinalStep(old, new)
         /\ \A code \in {"STALE_RUNNING", "STALE_CANCELLING"} :
              SweepHits(old, new, code) => old.startedAt = "old"
  <1> DEFINE Goal == /\ MoveKeeps(old, new)
                     /\ FinalStep(old, new)
                     /\ \A code \in {"STALE_RUNNING", "STALE_CANCELLING"} :
                          SweepHits(old, new, code) => old.startedAt = "old"
  <1> USE DEF MoveKeeps, FinalStep, SweepHits, Row, NoDispatch
  <1>1. CASE new = old
    BY <1>1
  <1>2. CASE old.state = "QUEUED" /\ new = ClaimRow(old, old.dispatchId + 1)
    BY <1>2 DEF ClaimRow
  <1>3. ASSUME NEW d \in Nat \ {0}, new = MarkSucceededRow(old, d) PROVE Goal
    BY <1>3 DEF MarkSucceededRow, NoError
  <1>4. ASSUME NEW d \in Nat \ {0}, NEW code \in {"WORKER", "STALE_RUNNING"},
               new = MarkFailedRow(old, d, code),
               code = "STALE_RUNNING" /\ old.state = "RUNNING" /\ old.dispatchId = d
                 => old.startedAt = "old"
        PROVE Goal
    BY <1>4 DEF MarkFailedRow, Fenced
  <1>5. CASE old.state = "CANCELLING" /\ old.startedAt = "old"
               /\ new = MarkCancelledRow(old, "STALE_CANCELLING")
    BY <1>5 DEF MarkCancelledRow
  <1>6. ASSUME old.state = "FAILED", NEW n \in Nat,
               new = RetriedRow(old, n, old.dispatchId + 1)
        PROVE Goal
    BY <1>6 DEF RetriedRow, NoError
  <1>7. CASE old.state \in {"QUEUED", "RUNNING"} /\ new = CancelledRow(old, old.state)
    BY <1>7 DEF CancelledRow, CancelTarget
  <1>8. ASSUME old.state = "ABSENT", NEW d \in {0, 1},
               new = [NoRow EXCEPT !.state = "QUEUED", !.attempt = 1, !.dispatchId = d]
        PROVE Goal
    BY <1>8 DEF NoRow, NoError, RowSound
  <1>9. CASE /\ old.state \in {"RUNNING", "CANCELLING"} /\ old.startedAt = "recent"
             /\ new = [old EXCEPT !.startedAt = "old"]
    BY <1>9
  <1> QED
    BY <1>1, <1>2, <1>3, <1>4, <1>5, <1>6, <1>7, <1>8, <1>9 DEF Moves

-----------------------------------------------------------------------------

\* A step changes one row only, unless it commits the claim of several.
OneRowOrClaims ==
  \/ \E r \in Runs : \A q \in Runs : q # r => runs'[q] = runs[q]
  \/ \A r \in Runs :
       \/ runs'[r] = runs[r]
       \/ runs[r].state = "QUEUED" /\ runs'[r] = ClaimRow(runs[r], runs[r].dispatchId + 1)

\* What a step does to the table: it moves every row, keeps the ids drawn in
\* step with the rows, and leaves the claim transactions exclusive.
StoreStep ==
  /\ \A r \in Runs : Moves(runs[r], runs'[r])
  /\ OneRowOrClaims
  /\ MintsMatch'
  /\ ClaimsAreExclusive'

\* A step that leaves the table alone.
LEMMA StoreSame == IInv /\ UNCHANGED storeVars => StoreStep
  BY DEF IInv, storeVars, StoreStep, Moves, OneRowOrClaims, MintsMatch, ClaimsAreExclusive

\* A statement that touches one row which no claim transaction waits for.
LEMMA StoreOneRow ==
  ASSUME IInv, NEW r \in Runs, NEW new,
         runs' = [runs EXCEPT ![r] = new],
         Moves(runs[r], new),
         new.state = "QUEUED" \/ ~Locked(r) \/ runs[r].state # "QUEUED",
         minted' = [minted EXCEPT ![r] = new.dispatchId],
         UNCHANGED txn
  PROVE  StoreStep
  <1> USE DEF IInv, Types, TypeOK, StoreTypeOK
  <1>1. \A q \in Runs : Moves(runs[q], runs'[q])
    BY DEF Moves
  <1>2. MintsMatch'
    BY DEF MintsMatch
  <1>3. ClaimsAreExclusive'
    BY DEF ClaimsAreExclusive, Locked
  <1>4. OneRowOrClaims
    BY DEF OneRowOrClaims
  <1> QED BY <1>1, <1>2, <1>3, <1>4 DEF StoreStep

\* BEGIN; SELECT ... FOR UPDATE SKIP LOCKED keeps open claims disjoint.
LEMMA StoreBegin ==
  ASSUME IInv, NEW w \in Workers, NEW n, BeginClaim(w, n)
  PROVE  StoreStep
  <1> USE DEF IInv, Types, TypeOK, StoreTypeOK
  <1>1. Oldest(Claimable, n) \subseteq Claimable
    BY DEF Oldest
  <1>2. ClaimsAreExclusive'
    BY <1>1 DEF BeginClaim, Claimable, Locked, ClaimsAreExclusive
  <1> QED BY <1>2 DEF BeginClaim, StoreStep, Moves, OneRowOrClaims, MintsMatch

\* COMMIT moves every locked row from QUEUED to RUNNING with a new dispatch id.
LEMMA StoreCommit ==
  ASSUME IInv, NEW w \in Workers, CommitClaim(w)
  PROVE  StoreStep
  <1> USE DEF IInv, Types, TypeOK, StoreTypeOK
  <1>1. ASSUME NEW r \in Runs
        PROVE  /\ Moves(runs[r], runs'[r])
               /\ minted'[r] = runs'[r].dispatchId
               /\ \/ runs'[r] = runs[r]
                  \/ /\ runs[r].state = "QUEUED"
                     /\ runs'[r] = ClaimRow(runs[r], runs[r].dispatchId + 1)
    <2>1. CASE r \in txn[w]
      <3>1. runs[r].state = "QUEUED" /\ minted[r] = runs[r].dispatchId
        BY <2>1 DEF ClaimsAreExclusive, MintsMatch
      <3>2. runs'[r] = ClaimRow(runs[r], runs[r].dispatchId + 1)
        BY <2>1, <3>1 DEF CommitClaim
      <3>3. runs'[r].dispatchId = runs[r].dispatchId + 1
        BY <3>1, <3>2 DEF ClaimRow, Row
      <3> QED BY <2>1, <3>1, <3>2, <3>3 DEF CommitClaim, Moves
    <2>2. CASE r \notin txn[w]
      BY <2>2 DEF CommitClaim, Moves, MintsMatch
    <2> QED BY <2>1, <2>2
  <1>2. MintsMatch'
    BY <1>1 DEF MintsMatch
  <1>3. ClaimsAreExclusive'
    BY DEF ClaimsAreExclusive, CommitClaim
  <1>4. OneRowOrClaims
    BY <1>1 DEF OneRowOrClaims
  <1> QED BY <1>1, <1>2, <1>3, <1>4 DEF StoreStep

\* ROLLBACK only gives locks back.
LEMMA StoreEnd ==
  ASSUME IInv, NEW w \in Workers, EndClaim(w)
  PROVE  StoreStep
  BY DEF IInv, Types, TypeOK, StoreTypeOK, EndClaim, StoreStep, Moves, OneRowOrClaims,
         MintsMatch, ClaimsAreExclusive

\* markSucceeded by the holder of a dispatch id that was drawn.
LEMMA StoreSucceeded ==
  ASSUME IInv, NEW r \in Runs, NEW d \in Nat \ {0}, markSucceeded(r, d)
  PROVE  StoreStep
  <1> DEFINE new == MarkSucceededRow(runs[r], d)
  <1> USE DEF IInv, Types, TypeOK, StoreTypeOK
  <1>1. runs' = [runs EXCEPT ![r] = new] /\ UNCHANGED <<minted, txn>>
    BY DEF markSucceeded
  <1>2. new.dispatchId = runs[r].dispatchId /\ (runs[r].state = "QUEUED" => new.state = "QUEUED")
    BY DEF MarkSucceededRow, Row
  <1>3. minted' = [minted EXCEPT ![r] = new.dispatchId]
    BY <1>1, <1>2 DEF MintsMatch
  <1>4. Moves(runs[r], new)
    BY DEF Moves
  <1> HIDE DEF new
  <1> QED BY <1>1, <1>2, <1>3, <1>4, StoreOneRow

\* markFailed by the holder of a dispatch id, a worker or a sweeper.
LEMMA StoreFailed ==
  ASSUME IInv, NEW r \in Runs, NEW d \in Nat \ {0},
         NEW code \in {"WORKER", "STALE_RUNNING"}, markFailed(r, d, code),
         code = "STALE_RUNNING" /\ runs[r].state = "RUNNING" /\ runs[r].dispatchId = d
           => runs[r].startedAt = "old"
  PROVE  StoreStep
  <1> DEFINE new == MarkFailedRow(runs[r], d, code)
  <1> USE DEF IInv, Types, TypeOK, StoreTypeOK
  <1>1. runs' = [runs EXCEPT ![r] = new] /\ UNCHANGED <<minted, txn>>
    BY DEF markFailed
  <1>2. new.dispatchId = runs[r].dispatchId /\ (runs[r].state = "QUEUED" => new.state = "QUEUED")
    BY DEF MarkFailedRow, Row
  <1>3. minted' = [minted EXCEPT ![r] = new.dispatchId]
    BY <1>1, <1>2 DEF MintsMatch
  <1>4. Moves(runs[r], new)
    BY DEF Moves
  <1> HIDE DEF new
  <1> QED BY <1>1, <1>2, <1>3, <1>4, StoreOneRow

\* markCancelled by a sweeper.
LEMMA StoreCancelled ==
  ASSUME IInv, NEW r \in Runs, markCancelled(r, "STALE_CANCELLING"),
         runs[r].state = "CANCELLING" => runs[r].startedAt = "old"
  PROVE  StoreStep
  <1> DEFINE new == MarkCancelledRow(runs[r], "STALE_CANCELLING")
  <1> USE DEF IInv, Types, TypeOK, StoreTypeOK
  <1>1. runs' = [runs EXCEPT ![r] = new] /\ UNCHANGED <<minted, txn>>
    BY DEF markCancelled
  <1>2. new.dispatchId = runs[r].dispatchId /\ (runs[r].state = "QUEUED" => new.state = "QUEUED")
    BY DEF MarkCancelledRow, Row
  <1>3. minted' = [minted EXCEPT ![r] = new.dispatchId]
    BY <1>1, <1>2 DEF MintsMatch
  <1>4. Moves(runs[r], new)
    BY DEF Moves, MarkCancelledRow
  <1> HIDE DEF new
  <1> QED BY <1>1, <1>2, <1>3, <1>4, StoreOneRow

\* The UPDATE of retryRun, whether or not it still finds a FAILED row.
LEMMA StoreRetried ==
  ASSUME IInv, NEW o \in Operators, RetryWrite(o)
  PROVE  StoreStep
  <1> USE DEF IInv, Types, TypeOK, StoreTypeOK
  <1> DEFINE r == calls[o].run
             new == RetriedRow(runs[r], calls[o].attempt + 1, minted[r] + 1)
  <1>1. r \in Runs /\ calls[o].attempt + 1 \in Nat
    <2>1. calls[o].op = "retry"
      BY DEF RetryWrite
    <2>2. calls[o].run \in Runs
      BY <2>1 DEF CallsName
    <2> QED BY <2>2 DEF ControlTypeOK, Call
  <1>2. CASE runs[r].state = "FAILED"
    <2>1. /\ runs' = [runs EXCEPT ![r] = new]
          /\ minted' = [minted EXCEPT ![r] = minted[r] + 1]
          /\ UNCHANGED txn
      BY <1>1, <1>2 DEF RetryWrite, transition, RetryFrom
    <2>2. minted[r] = runs[r].dispatchId
      BY <1>1 DEF MintsMatch
    <2>3. new.state = "QUEUED" /\ new.dispatchId = minted[r] + 1
      BY <1>1 DEF RetriedRow, Row
    <2>4. Moves(runs[r], new)
      BY <1>1, <1>2, <2>2 DEF Moves
    <2> HIDE DEF new, r
    <2> QED BY <1>1, <2>1, <2>3, <2>4, StoreOneRow
  <1>3. CASE runs[r].state # "FAILED"
    <2>1. runs' = runs /\ minted' = minted /\ txn' = txn
      BY <1>1, <1>3 DEF RetryWrite, transition, RetryFrom
    <2> QED BY <2>1, StoreSame DEF storeVars
  <1> QED BY <1>2, <1>3

\* The UPDATE of cancelRun, whether or not it finds the state that was read.
LEMMA StoreCancelWritten ==
  ASSUME IInv, NEW o \in Operators, CancelWrite(o)
  PROVE  StoreStep
  <1> USE DEF IInv, Types, TypeOK, StoreTypeOK
  <1> DEFINE r == calls[o].run
             seen == calls[o].seen
             new == CancelledRow(runs[r], seen)
  <1>1. r \in Runs /\ seen \in {"QUEUED", "RUNNING"}
    <2>1. calls[o].op = "cancel"
      BY DEF CancelWrite
    <2> QED BY <2>1 DEF CallsName
  <1>2. CASE runs[r].state = seen
    <2>1. /\ runs' = [runs EXCEPT ![r] = new]
          /\ UNCHANGED <<minted, txn>>
          /\ ~Locked(r)
      BY <1>1, <1>2 DEF CancelWrite, transition, CancelFrom
    <2>2. new.dispatchId = runs[r].dispatchId
      BY <1>1 DEF CancelledRow, Row
    <2>3. minted' = [minted EXCEPT ![r] = new.dispatchId]
      BY <1>1, <2>1, <2>2 DEF MintsMatch
    <2>4. Moves(runs[r], new)
      BY <1>1, <1>2 DEF Moves
    <2> HIDE DEF new, r
    <2> QED BY <1>1, <2>1, <2>3, <2>4, StoreOneRow
  <1>3. CASE runs[r].state # seen
    <2>1. runs' = runs /\ minted' = minted /\ txn' = txn
      BY <1>1, <1>3 DEF CancelWrite, transition, CancelFrom
    <2> QED BY <2>1, StoreSame DEF storeVars
  <1> QED BY <1>2, <1>3

\* The INSERT of a new run.
LEMMA StoreCreated ==
  ASSUME IInv, NEW r \in Runs, NEW d \in {0, 1}, createRun(r, d)
  PROVE  StoreStep
  <1> USE DEF IInv, Types, TypeOK, StoreTypeOK
  <1> DEFINE new == [NoRow EXCEPT !.state = "QUEUED", !.attempt = 1, !.dispatchId = d]
  <1>1. /\ runs' = [runs EXCEPT ![r] = new]
        /\ minted' = [minted EXCEPT ![r] = d]
        /\ UNCHANGED txn
        /\ runs[r].state = "ABSENT"
    BY DEF createRun
  <1>2. new.dispatchId = d /\ new.state = "QUEUED"
    BY DEF NoRow
  <1>3. Moves(runs[r], new)
    BY <1>1 DEF Moves
  <1> HIDE DEF new
  <1> QED BY <1>1, <1>2, <1>3, StoreOneRow

\* The passing of the staleness threshold.
LEMMA StoreAged ==
  ASSUME IInv, NEW r \in Runs, Age(r)
  PROVE  StoreStep
  <1> USE DEF IInv, Types, TypeOK, StoreTypeOK
  <1> DEFINE new == [runs[r] EXCEPT !.startedAt = "old"]
  <1>1. /\ runs' = [runs EXCEPT ![r] = new]
        /\ UNCHANGED <<minted, txn>>
        /\ runs[r].state \in {"RUNNING", "CANCELLING"} /\ runs[r].startedAt = "recent"
    BY DEF Age
  <1>2. new.dispatchId = runs[r].dispatchId
    BY DEF Row
  <1>3. minted' = [minted EXCEPT ![r] = new.dispatchId]
    BY <1>1, <1>2 DEF MintsMatch
  <1>4. Moves(runs[r], new)
    BY <1>1 DEF Moves
  <1> HIDE DEF new
  <1> QED BY <1>1, <1>3, <1>4, StoreOneRow

-----------------------------------------------------------------------------

\* A step of the table leaves every row sound.
LEMMA RowsStaySound == IInv /\ StoreStep => RowsSound'
  BY MoveSound DEF IInv, StoreStep, RowsSound, Types, TypeOK, StoreTypeOK

\* A step of the table keeps, for every row, what others rely on.
LEMMA RowsKeep ==
  ASSUME IInv, StoreStep, NEW r \in Runs
  PROVE  runs[r] \in Row /\ MoveKeeps(runs[r], runs'[r])
  BY MoveFacts DEF IInv, StoreStep, RowsSound, Types, TypeOK, StoreTypeOK

\* An execution keeps what it holds while other processes move its run.
LEMMA HoldsOn ==
  ASSUME IInv, StoreStep, NEW e \in execs
  PROVE  HoldsToken(e)'
  <1>1. e.run \in Runs /\ e.dispatch \in Nat
    BY DEF IInv, Types, TypeOK, WorkerTypeOK, Exec
  <1>2. HoldsToken(e)
    BY DEF IInv, ExecsHold
  <1>3. runs[e.run].dispatchId \in Nat
    BY <1>1, RowsKeep DEF Row
  <1>4. MoveKeeps(runs[e.run], runs'[e.run])
    BY <1>1, RowsKeep
  <1> QED BY <1>1, <1>2, <1>3, <1>4 DEF HoldsToken, Current, MoveKeeps

\* An item of a sweep stays justified while other processes move its run.
LEMMA ItemsStayListed ==
  ASSUME IInv, StoreStep, NEW s \in Schedulers, NEW i \in sweep[s].todo
  PROVE  /\ sweep[s].half = "running" => ListedRunning(i)'
         /\ sweep[s].half = "cancelling" => ListedCancelling(i)'
  <1>1. i.run \in Runs /\ i.dispatch \in Nat
    BY DEF IInv, Types, TypeOK, SweepTypeOK, Item
  <1>2. /\ sweep[s].half = "running" => ListedRunning(i)
        /\ sweep[s].half = "cancelling" => ListedCancelling(i)
    BY DEF IInv, SweepsSound
  <1>3. runs[i.run].dispatchId \in Nat
    BY <1>1, RowsKeep DEF Row
  <1>4. MoveKeeps(runs[i.run], runs'[i.run])
    BY <1>1, RowsKeep
  <1> QED BY <1>1, <1>2, <1>3, <1>4 DEF ListedRunning, ListedCancelling, MoveKeeps

\* Executions that end take nothing from those that stay.
LEMMA ExecsFewer == IInv /\ StoreStep /\ execs' \subseteq execs => ExecsHold' /\ ExecsDistinct'
  BY HoldsOn DEF ExecsHold, ExecsDistinct, IInv

\* An execution that goes to its next phase keeps its run and dispatch id.
LEMMA ExecsAdvance ==
  ASSUME IInv, StoreStep, NEW e \in execs, NEW p, Advance(e, p)
  PROVE  ExecsHold' /\ ExecsDistinct'
  <1> DEFINE f == [e EXCEPT !.phase = p]
  <1>1. e \in Exec
    BY DEF IInv, Types, TypeOK, WorkerTypeOK
  <1>2. f.run = e.run /\ f.dispatch = e.dispatch
    BY <1>1 DEF Exec
  <1>3. execs' = (execs \ {e}) \cup {f}
    BY DEF Advance
  <1>4. HoldsToken(e)'
    BY HoldsOn
  <1> HIDE DEF f
  <1>5. HoldsToken(f)'
    BY <1>2, <1>4 DEF HoldsToken, Current
  <1>6. ExecsHold'
    BY <1>3, <1>5, HoldsOn DEF ExecsHold
  <1>7. ExecsDistinct'
    BY <1>2, <1>3 DEF ExecsDistinct, IInv
  <1> QED BY <1>6, <1>7

\* The executions a committed claim starts hold fresh dispatch ids.
LEMMA ExecsClaimed ==
  ASSUME IInv, StoreStep, NEW w \in Workers, CommitClaim(w),
         execs' = execs \cup ClaimedBy(w)
  PROVE  ExecsHold' /\ ExecsDistinct'
  <1>1. ASSUME NEW e \in ClaimedBy(w)
        PROVE  /\ e.run \in txn[w] /\ e.run \in Runs
               /\ e.dispatch = minted[e.run] + 1
               /\ e.worker = w /\ e.phase = "fetch"
               /\ e = [run |-> e.run, dispatch |-> minted[e.run] + 1, worker |-> w,
                       phase |-> "fetch"]
    BY DEF ClaimedBy, IInv, Types, TypeOK, StoreTypeOK
  <1>2. ASSUME NEW r \in Runs
        PROVE  minted[r] \in Nat /\ minted[r] = runs[r].dispatchId
    BY DEF IInv, Types, TypeOK, StoreTypeOK, MintsMatch
  <1>3. ASSUME NEW r \in txn[w], r \in Runs
        PROVE  runs'[r].state = "RUNNING" /\ runs'[r].dispatchId = minted[r] + 1
    <2>1. runs[r].state = "QUEUED" /\ runs[r] \in Row
      BY <1>3 DEF IInv, ClaimsAreExclusive, Types, TypeOK, StoreTypeOK
    <2>2. runs'[r] = ClaimRow(runs[r], minted[r] + 1)
      BY <1>3 DEF CommitClaim
    <2> QED BY <2>1, <2>2 DEF ClaimRow, Row
  <1>4. ASSUME NEW e \in ClaimedBy(w) PROVE HoldsToken(e)'
    BY <1>1, <1>2, <1>3 DEF HoldsToken, Current
  <1>5. ExecsHold'
    BY <1>4, HoldsOn DEF ExecsHold
  <1>6. ASSUME NEW e \in execs, NEW f \in ClaimedBy(w), e.run = f.run
        PROVE  e.dispatch # f.dispatch
    <2>1. e.run \in Runs /\ e.dispatch \in Nat /\ e.dispatch <= runs[e.run].dispatchId
      BY DEF IInv, Types, TypeOK, WorkerTypeOK, Exec, ExecsHold, HoldsToken
    <2> QED BY <1>1, <1>2, <1>6, <2>1
  <1>7. ASSUME NEW e \in ClaimedBy(w), NEW f \in ClaimedBy(w), e.run = f.run PROVE e = f
    BY <1>1, <1>7
  <1>8. ExecsDistinct'
    BY <1>6, <1>7 DEF ExecsDistinct, IInv
  <1> QED BY <1>5, <1>8

\* The sweeps' items stay justified when another process steps.
LEMMA SweepsUnmoved == IInv /\ StoreStep /\ UNCHANGED sweep => SweepsSound'
  <1> SUFFICES ASSUME IInv, StoreStep, sweep' = sweep,
                      NEW s \in Schedulers, NEW i \in sweep[s].todo
               PROVE  /\ sweep[s].half = "running" => ListedRunning(i)'
                      /\ sweep[s].half = "cancelling" => ListedCancelling(i)'
    BY DEF SweepsSound
  <1> QED BY ItemsStayListed

\* A sweep that has done an item keeps the justification of the others.
LEMMA SweepsFewer ==
  ASSUME IInv, StoreStep, NEW s \in Schedulers, NEW i, Done(s, i)
  PROVE  SweepsSound'
  <1> SUFFICES ASSUME NEW t \in Schedulers, NEW j \in sweep'[t].todo
               PROVE  /\ sweep'[t].half = "running" => ListedRunning(j)'
                      /\ sweep'[t].half = "cancelling" => ListedCancelling(j)'
    BY DEF SweepsSound
  <1>1. j \in sweep[t].todo /\ sweep'[t].half = sweep[t].half
    BY DEF Done, IInv, Types, TypeOK, SweepTypeOK
  <1> QED BY <1>1, ItemsStayListed

-----------------------------------------------------------------------------

\* The part of the invariant a step may disturb beyond the types.
Kept == StoreStep /\ ExecsHold' /\ ExecsDistinct' /\ SweepsSound'

\* One case per action of a worker.
LEMMA WorkerKeeps == IInv /\ WorkerStep => Kept
  <1> SUFFICES ASSUME IInv, WorkerNext, sweep' = sweep
               PROVE  StoreStep /\ ExecsHold' /\ ExecsDistinct'
    BY SweepsUnmoved DEF WorkerStep, Kept, sweepVars
  <1> DEFINE Goal == StoreStep /\ ExecsHold' /\ ExecsDistinct'
  <1>1. ASSUME NEW w \in Workers, PollBegin(w) PROVE Goal
    BY <1>1, StoreBegin, ExecsFewer DEF PollBegin, workerVars
  <1>2. ASSUME NEW w \in Workers, PollCommit(w) PROVE Goal
    BY <1>2, StoreCommit, ExecsClaimed DEF PollCommit
  <1>3. ASSUME NEW w \in Workers, PollCommitLost(w) PROVE Goal
    BY <1>3, StoreCommit, ExecsFewer DEF PollCommitLost, workerVars
  <1>4. ASSUME NEW w \in Workers, PollRollback(w) PROVE Goal
    BY <1>4, StoreEnd, ExecsFewer DEF PollRollback, workerVars
  <1>5. ASSUME NEW w \in Workers, NEW r \in Runs, HeartbeatCancel(w, r) PROVE Goal
    <2>1. PICK e \in ExecsOf(w) : Advance(e, "killed")
      BY <1>5 DEF HeartbeatCancel
    <2>2. e \in execs
      BY DEF ExecsOf
    <2>3. StoreStep
      BY <1>5, StoreSame DEF HeartbeatCancel
    <2> QED BY <2>1, <2>2, <2>3, ExecsAdvance
  <1>6. ASSUME NEW w \in Workers, Sigterm(w) \/ DrainBegin(w) \/ Restart(w) PROVE Goal
    BY <1>6, StoreSame, ExecsFewer DEF Sigterm, DrainBegin, Restart
  <1>7. ASSUME NEW w \in Workers, ProcessExit(w) PROVE Goal
    BY <1>7, StoreSame, ExecsFewer DEF ProcessExit, Vanish
  <1>8. ASSUME NEW w \in Workers, Crash(w) PROVE Goal
    BY <1>8, StoreEnd, ExecsFewer DEF Crash, Vanish
  <1>9. ASSUME NEW e \in execs, Execute(e) PROVE Goal
    <2>1. e.run \in Runs /\ e.dispatch \in Nat \ {0}
      BY DEF IInv, Types, TypeOK, WorkerTypeOK, Exec, ExecsHold, HoldsToken
    <2>2. CASE FetchRun(e) \/ PrepareError(e) \/ Spawn(e)
      BY <2>2, StoreSame, ExecsAdvance DEF FetchRun, PrepareError, Spawn
    <2>3. CASE \E outcome \in {"succeed", "fail"} : ChildExit(e, outcome)
      BY <2>3, StoreSame, ExecsAdvance DEF ChildExit
    <2>4. CASE FetchError(e) \/ RecordFailureError(e) \/ Finish(e)
      BY <2>4, StoreSame, ExecsFewer DEF FetchError, RecordFailureError, Finish, Settle
    <2>5. CASE RecordSuccess(e)
      BY <2>1, <2>5, StoreSucceeded, ExecsAdvance DEF RecordSuccess
    <2>6. CASE RecordSuccessError(e)
      <3>1. StoreStep
        BY <2>1, <2>6, StoreSucceeded, StoreSame DEF RecordSuccessError
      <3> QED BY <2>6, <3>1, ExecsAdvance DEF RecordSuccessError
    <2>7. CASE RecordFailure(e)
      <3>1. markFailed(e.run, e.dispatch, "WORKER")
        BY <2>7 DEF RecordFailure
      <3>2. StoreStep
        BY <2>1, <3>1, StoreFailed
      <3> QED BY <2>7, <3>2, ExecsAdvance DEF RecordFailure
    <2> QED BY <1>9, <2>2, <2>3, <2>4, <2>5, <2>6, <2>7 DEF Execute
  <1> QED
    BY <1>1, <1>2, <1>3, <1>4, <1>5, <1>6, <1>7, <1>8, <1>9 DEF WorkerNext

\* One case per action of a sweeper.
LEMMA SweeperKeeps == IInv /\ SweeperStep => Kept
  <1> SUFFICES ASSUME IInv, NEW s \in Schedulers,
                      \/ SweepRunning(s)
                      \/ SweepRunningError(s)
                      \/ SweepCancelling(s)
                      \/ SweepCancellingError(s)
                      \/ \E i \in sweep[s].todo : SweepMark(s, i) \/ SweepMarkError(s, i)
                      \/ SweeperRestart(s),
                      execs' = execs
               PROVE  StoreStep /\ SweepsSound'
    BY ExecsFewer DEF SweeperStep, SweeperNext, workerVars, Kept
  <1>1. ASSUME NEW half, NEW todo, List(s, half, todo),
               \A i \in todo : /\ half = "running" => ListedRunning(i)
                               /\ half = "cancelling" => ListedCancelling(i)
        PROVE  StoreStep /\ SweepsSound'
    <2>1. StoreStep
      BY <1>1, StoreSame DEF List
    <2>2. runs' = runs
      BY <1>1 DEF List, storeVars
    <2>3. sweep' = [sweep EXCEPT ![s] = [half |-> half, todo |-> todo]]
      BY <1>1 DEF List
    <2>4. ASSUME NEW t \in Schedulers, NEW i \in sweep'[t].todo
          PROVE  /\ sweep'[t].half = "running" => ListedRunning(i)'
                 /\ sweep'[t].half = "cancelling" => ListedCancelling(i)'
      <3>1. CASE t = s
        <4>1. sweep'[t].half = half /\ sweep'[t].todo = todo
          BY <2>3, <3>1 DEF IInv, Types, TypeOK, SweepTypeOK
        <4> QED BY <1>1, <2>2, <2>4, <4>1 DEF ListedRunning, ListedCancelling
      <3>2. CASE t # s
        <4>1. sweep'[t] = sweep[t]
          BY <2>3, <3>2 DEF IInv, Types, TypeOK, SweepTypeOK
        <4> QED BY <2>1, <2>4, <4>1, ItemsStayListed
      <3> QED BY <3>1, <3>2
    <2> QED BY <2>1, <2>4 DEF SweepsSound
  <1>2. ASSUME NEW i \in listStaleRunningIds PROVE ListedRunning(i)
    <2>1. PICK r \in Runs : /\ runs[r].state = "RUNNING" /\ runs[r].startedAt = "old"
                            /\ i = [run |-> r, dispatch |-> runs[r].dispatchId]
      BY <1>2 DEF listStaleRunningIds
    <2>2. runs[r].dispatchId \in Nat /\ runs[r].dispatchId > 0
      BY <2>1 DEF IInv, Types, TypeOK, StoreTypeOK, Row, RowsSound, RowSound
    <2> QED BY <2>1, <2>2 DEF ListedRunning
  <1>3. ASSUME NEW i \in listStaleCancellingIds PROVE ListedCancelling(i)
    BY <1>3 DEF listStaleCancellingIds, ListedCancelling
  <1>4. ASSUME NEW i \in sweep[s].todo, SweepMark(s, i) PROVE StoreStep /\ SweepsSound'
    <2>1. i.run \in Runs /\ i.dispatch \in Nat
      BY DEF IInv, Types, TypeOK, SweepTypeOK, Item
    <2>2. /\ sweep[s].half = "running" => ListedRunning(i)
          /\ sweep[s].half = "cancelling" => ListedCancelling(i)
      BY DEF IInv, SweepsSound
    <2>3. StoreStep
      <3>1. CASE sweep[s].half = "running" /\ markFailed(i.run, i.dispatch, "STALE_RUNNING")
        <4>1. i.dispatch \in Nat \ {0}
          BY <2>1, <2>2, <3>1 DEF ListedRunning
        <4>2. runs[i.run].state = "RUNNING" /\ runs[i.run].dispatchId = i.dispatch
                => runs[i.run].startedAt = "old"
          BY <2>2, <3>1 DEF ListedRunning
        <4> QED BY <2>1, <3>1, <4>1, <4>2, StoreFailed
      <3>2. CASE sweep[s].half = "cancelling" /\ markCancelled(i.run, "STALE_CANCELLING")
        BY <2>1, <2>2, <3>2, StoreCancelled DEF ListedCancelling
      <3> QED BY <1>4, <3>1, <3>2 DEF SweepMark
    <2> QED BY <1>4, <2>3, SweepsFewer DEF SweepMark
  <1>5. ASSUME NEW i \in sweep[s].todo, SweepMarkError(s, i) PROVE StoreStep /\ SweepsSound'
    BY <1>5, StoreSame, SweepsFewer DEF SweepMarkError
  <1>6. CASE SweeperRestart(s)
    <2>1. List(s, "cancelling", {})
      BY <1>6 DEF SweeperRestart, NoSweep, List
    <2> QED BY <2>1, <1>1
  <1>7. CASE SweepRunning(s)
    BY <1>7, <1>1, <1>2 DEF SweepRunning
  <1>8. CASE SweepCancelling(s)
    BY <1>8, <1>1, <1>3 DEF SweepCancelling
  <1>9. CASE SweepRunningError(s) \/ SweepCancellingError(s)
    BY <1>9, <1>1 DEF SweepRunningError, SweepCancellingError
  <1> QED
    BY <1>4, <1>5, <1>6, <1>7, <1>8, <1>9

\* One case per action of an operator's call.
LEMMA ControlKeeps == IInv /\ ControlStep => Kept
  <1> SUFFICES ASSUME IInv, ControlNext, execs' = execs, sweep' = sweep
               PROVE  StoreStep
    BY ExecsFewer, SweepsUnmoved DEF ControlStep, workerVars, sweepVars, Kept
  <1>1. ASSUME NEW o \in Operators, NEW r \in Runs, RetryRead(o, r) \/ CancelRead(o, r)
        PROVE  StoreStep
    BY <1>1, StoreSame DEF RetryRead, CancelRead
  <1>2. ASSUME NEW o \in Operators, CallError(o) PROVE StoreStep
    BY <1>2, StoreSame DEF CallError
  <1>3. ASSUME NEW r \in Runs, NEW new \in Runs, Redrive(r, new) PROVE StoreStep
    BY <1>3, StoreCreated DEF Redrive
  <1>4. ASSUME NEW new \in Runs, Enqueue(new) PROVE StoreStep
    BY <1>4, StoreCreated DEF Enqueue, NoDispatch
  <1> QED
    BY <1>1, <1>2, <1>3, <1>4, StoreRetried, StoreCancelWritten DEF ControlNext

\* The clock.
LEMMA ClockKeeps == IInv /\ ClockStep => Kept
  BY StoreAged, ExecsFewer, SweepsUnmoved DEF ClockStep, workerVars, sweepVars, Kept

\* All steps together.
LEMMA StepKeeps == IInv /\ [Next]_vars => Kept
  <1>1. IInv /\ UNCHANGED vars => Kept
    BY StoreSame, ExecsFewer, SweepsUnmoved DEF vars, workerVars, sweepVars, Kept
  <1> QED BY <1>1, WorkerKeeps, SweeperKeeps, ControlKeeps, ClockKeeps DEF Next

\* The invariant holds of the empty table.
LEMMA InitIInv == Init => IInv
  <1> SUFFICES ASSUME Init PROVE IInv
    OBVIOUS
  <1>1. RowSound(NoRow)
    BY DEF RowSound, NoRow
  <1>2. RowsSound
    BY <1>1 DEF Init, StoreInit, RowsSound
  <1>3. MintsMatch
    BY DEF Init, StoreInit, MintsMatch, NoRow, NoDispatch
  <1>4. ExecsHold /\ ExecsDistinct
    BY DEF Init, WorkerInit, ExecsHold, ExecsDistinct
  <1>5. ClaimsAreExclusive
    BY DEF Init, StoreInit, ClaimsAreExclusive
  <1>6. SweepsSound
    BY DEF Init, SweepInit, NoSweep, SweepsSound
  <1> QED BY InitTypes, <1>2, <1>3, <1>4, <1>5, <1>6 DEF IInv

\* The invariant is inductive.
LEMMA StepIInv == IInv /\ [Next]_vars => IInv'
  BY StepTypes, StepKeeps, RowsStaySound DEF IInv, Kept, StoreStep

-----------------------------------------------------------------------------

\* IInv is an inductive invariant of the run queue.
THEOREM Invariance == Spec => []IInv
  BY InitIInv, StepIInv, PTL DEF Spec

\* Whatever ghosts of earlier attempts are under way, the outcome a row shows is
\* that of its current attempt.
THEOREM OutcomesAreCurrent == Spec => []OutcomeIsCurrent
  <1>1. IInv => OutcomeIsCurrent
    BY DEF IInv, RowsSound, RowSound, OutcomeIsCurrent, NoDispatch
  <1> QED BY Invariance, <1>1, PTL

\* At most one execution, over all workers, holds a run's dispatch id.
THEOREM OneHolder == Spec => []OneHolderPerRun
  <1>1. IInv => OneHolderPerRun
    <2> SUFFICES ASSUME IInv PROVE OneHolderPerRun
      OBVIOUS
    <2>1. ASSUME NEW e \in execs
          PROVE  /\ e.dispatch \in Nat /\ runs[e.run].dispatchId \in Nat
                 /\ HoldsToken(e)
      BY DEF IInv, Types, TypeOK, WorkerTypeOK, StoreTypeOK, Exec, Row, ExecsHold
    <2>2. \A e, f \in execs : e.run = f.run /\ Current(e) /\ Current(f) => e = f
      BY DEF IInv, ExecsDistinct, Current
    <2> QED BY <2>1, <2>2 DEF OneHolderPerRun, HoldsToken, Current
  <1> QED BY Invariance, <1>1, PTL

\* Open claim transactions are disjoint and hold QUEUED rows only.
THEOREM ExclusiveClaims == Spec => []ClaimsAreExclusive
  <1>1. IInv => ClaimsAreExclusive
    BY DEF IInv
  <1> QED BY Invariance, <1>1, PTL

\* The sweeper can find every run in flight.
THEOREM StartIsRecorded == Spec => []InFlightHasStart
  <1>1. IInv => InFlightHasStart
    BY DEF IInv, RowsSound, RowSound, InFlightHasStart
  <1> QED BY Invariance, <1>1, PTL

\* No step changes what a finished run shows, except a retry.
THEOREM FinalOutcomes == Spec => OutcomesAreFinal
  <1>1. IInv /\ [Next]_vars => [\A r \in Runs : FinalStep(runs[r], runs'[r])]_vars
    <2> SUFFICES ASSUME IInv, [Next]_vars, NEW r \in Runs
                 PROVE  FinalStep(runs[r], runs'[r])
      OBVIOUS
    <2>1. runs[r] \in Row /\ RowSound(runs[r]) /\ Moves(runs[r], runs'[r])
      BY StepKeeps DEF Kept, StoreStep, IInv, RowsSound, Types, TypeOK, StoreTypeOK
    <2> QED BY <2>1, MoveFacts
  <1> QED BY Invariance, <1>1, PTL DEF Spec, OutcomesAreFinal

\* A sweep working from a list that is out of date never hits a fresh claim.
THEOREM SweepsSpareFreshClaims == Spec => SweepSparesFreshClaims
  <1>1. IInv /\ [Next]_vars
          => [\A r \in Runs, code \in {"STALE_RUNNING", "STALE_CANCELLING"} :
                SweepHits(runs[r], runs'[r], code) => runs[r].startedAt = "old"]_vars
    <2> SUFFICES ASSUME IInv, [Next]_vars, NEW r \in Runs,
                        NEW code \in {"STALE_RUNNING", "STALE_CANCELLING"},
                        SweepHits(runs[r], runs'[r], code)
                 PROVE  runs[r].startedAt = "old"
      OBVIOUS
    <2>1. runs[r] \in Row /\ RowSound(runs[r]) /\ Moves(runs[r], runs'[r])
      BY StepKeeps DEF Kept, StoreStep, IInv, RowsSound, Types, TypeOK, StoreTypeOK
    <2> QED BY <2>1, MoveFacts
  <1> QED BY Invariance, <1>1, PTL DEF Spec, SweepSparesFreshClaims

-----------------------------------------------------------------------------
(* How many runs a worker takes *)

\* The invariant behind ConcurrencyCap: only finite sets can be counted.
Capped == IsFiniteSet(execs) /\ ConcurrencyCap

LEMMA CapTypes ==
  ASSUME Types
  PROVE  /\ MaxConcurrency \in Nat
         /\ \A w \in Workers : /\ txn[w] \subseteq Runs
                               /\ IsFiniteSet(txn[w]) /\ Cardinality(txn[w]) \in Nat
  <1>1. IsFiniteSet(Runs)
    BY RunStoreAssumption, FS_Interval DEF Runs
  <1>2. ASSUME NEW w \in Workers PROVE txn[w] \subseteq Runs
    BY DEF Types, TypeOK, StoreTypeOK
  <1> QED BY <1>1, <1>2, FS_Subset, FS_CardinalityType, PullWorkerAssumption

LEMMA ExecsCount ==
  ASSUME IsFiniteSet(execs), NEW w
  PROVE  IsFiniteSet(ExecsOf(w)) /\ Cardinality(ExecsOf(w)) \in Nat
  <1>1. ExecsOf(w) \in SUBSET execs
    BY DEF ExecsOf
  <1> QED BY <1>1, FS_Subset, FS_CardinalityType

\* A set of run ids that is not empty has a last one.
LEMMA LastRun ==
  ASSUME NEW S, S \subseteq Runs, S # {}
  PROVE  \E m \in S : \A r \in S : r <= m
  <1> DEFINE Bounds == {b \in Nat : \A r \in S : r <= b}
  <1>1. MaxRuns \in Bounds /\ S \subseteq Nat
    BY RunStoreAssumption DEF Runs
  <1>2. PICK b \in Bounds : \A y \in Bounds : ~(<<y, b>> \in OpToRel(<, Nat))
    BY <1>1, NatLessThanWellFounded, WFMin
  <1>3. \A y \in Bounds : ~(y < b)
    BY <1>2 DEF OpToRel
  <1>4. b \in S
    <2>1. SUFFICES ASSUME b \notin S PROVE FALSE
      OBVIOUS
    <2>2. \A r \in S : r \in Nat /\ r < b
      BY <1>1, <2>1
    <2>3. b - 1 \in Bounds
      BY <2>2
    <2> QED BY <1>3, <2>3
  <1> QED BY <1>4

\* ORDER BY created_at LIMIT limit returns no more than limit rows.
LEMMA OldestCount ==
  ASSUME NEW S, S \subseteq Runs, NEW limit \in Nat
  PROVE  Cardinality(Oldest(S, limit)) <= limit
  <1> DEFINE O == Oldest(S, limit)
  <1>1. O \subseteq S /\ O \subseteq Runs
    BY DEF Oldest
  <1>2. IsFiniteSet(Runs)
    BY RunStoreAssumption, FS_Interval DEF Runs
  <1>3. IsFiniteSet(S) /\ IsFiniteSet(O) /\ Cardinality(O) \in Nat
    BY <1>1, <1>2, FS_Subset, FS_CardinalityType
  <1>4. CASE O = {}
    BY <1>4, FS_EmptySet
  <1>5. CASE O # {}
    <2>1. PICK m \in O : \A r \in O : r <= m
      BY <1>1, <1>5, LastRun
    <2> DEFINE Before == {q \in S : q < m}
    <2>2. IsFiniteSet(Before) /\ Cardinality(Before) \in Nat
      <3>1. Before \in SUBSET S
        OBVIOUS
      <3> QED BY <1>3, <3>1, FS_Subset, FS_CardinalityType
    <2>3. Cardinality(Before) < limit
      BY <2>1 DEF Oldest
    <2>4. O \ {m} \in SUBSET Before
      <3>1. ASSUME NEW r \in O, r # m PROVE r \in S /\ r < m
        BY <1>1, <2>1, <3>1 DEF Runs
      <3> QED BY <3>1
    <2>5. Cardinality(O \ {m}) = Cardinality(O) - 1
      BY <1>3, <2>1, FS_RemoveElement
    <2>6. Cardinality(O \ {m}) <= Cardinality(Before)
      BY <2>2, <2>4, FS_Subset
    <2> HIDE DEF O, Before
    <2> QED BY <1>3, <2>2, <2>3, <2>5, <2>6 DEF O
  <1> QED BY <1>4, <1>5

\* A step that adds neither executions nor locks.
LEMMA CapFewer ==
  ASSUME Types, Types', Capped, execs' \in SUBSET execs, \A w \in Workers : txn'[w] \subseteq txn[w]
  PROVE  Capped'
  <1>1. IsFiniteSet(execs')
    BY FS_Subset DEF Capped
  <1>2. ASSUME NEW w \in Workers
        PROVE  Cardinality(ExecsOf(w)') + Cardinality(txn'[w]) <= MaxConcurrency
    <2>1. ExecsOf(w)' \in SUBSET ExecsOf(w) /\ txn'[w] \in SUBSET txn[w]
      BY DEF ExecsOf
    <2>2. /\ IsFiniteSet(ExecsOf(w)) /\ Cardinality(ExecsOf(w)) \in Nat
          /\ IsFiniteSet(txn[w]) /\ Cardinality(txn[w]) \in Nat
          /\ MaxConcurrency \in Nat
      BY ExecsCount, CapTypes DEF Capped
    <2>3. /\ IsFiniteSet(ExecsOf(w)') /\ IsFiniteSet(txn'[w])
          /\ Cardinality(ExecsOf(w)') <= Cardinality(ExecsOf(w))
          /\ Cardinality(txn'[w]) <= Cardinality(txn[w])
      BY <2>1, <2>2, FS_Subset
    <2>4. Cardinality(ExecsOf(w)') \in Nat /\ Cardinality(txn'[w]) \in Nat
      BY <2>3, FS_CardinalityType
    <2>5. Cardinality(ExecsOf(w)) + Cardinality(txn[w]) <= MaxConcurrency
      BY DEF Capped, ConcurrencyCap
    <2> QED BY <2>2, <2>3, <2>4, <2>5
  <1> QED BY <1>1, <1>2 DEF Capped, ConcurrencyCap

\* An execution that goes on takes no second slot.
LEMMA CapAdvance ==
  ASSUME Types, Capped, NEW e \in execs, NEW phase, Advance(e, phase), UNCHANGED txn
  PROVE  Capped'
  <1> DEFINE f == [e EXCEPT !.phase = phase]
  <1>1. execs' = (execs \ {e}) \cup {f} /\ f.worker = e.worker
    BY DEF Advance, Types, TypeOK, WorkerTypeOK, Exec
  <1> HIDE DEF f
  <1>2. IsFiniteSet(execs')
    BY <1>1, FS_RemoveElement, FS_AddElement DEF Capped
  <1>3. ASSUME NEW w \in Workers
        PROVE  Cardinality(ExecsOf(w)') + Cardinality(txn'[w]) <= MaxConcurrency
    <2>1. /\ IsFiniteSet(ExecsOf(w)) /\ Cardinality(ExecsOf(w)) \in Nat
          /\ Cardinality(txn[w]) \in Nat
          /\ MaxConcurrency \in Nat
      BY ExecsCount, CapTypes DEF Capped
    <2>2. Cardinality(ExecsOf(w)) + Cardinality(txn[w]) <= MaxConcurrency
      BY DEF Capped, ConcurrencyCap
    <2>3. CASE e.worker # w
      <3>1. ExecsOf(w)' = ExecsOf(w)
        BY <1>1, <2>3 DEF ExecsOf
      <3> QED BY <2>2, <3>1
    <2>4. CASE e.worker = w
      <3>1. ExecsOf(w)' = (ExecsOf(w) \ {e}) \cup {f} /\ e \in ExecsOf(w)
        BY <1>1, <2>4 DEF ExecsOf
      <3>2. /\ IsFiniteSet(ExecsOf(w) \ {e})
            /\ Cardinality(ExecsOf(w) \ {e}) = Cardinality(ExecsOf(w)) - 1
        BY <2>1, <3>1, FS_RemoveElement
      <3>3. \/ Cardinality(ExecsOf(w)') = Cardinality(ExecsOf(w) \ {e})
            \/ Cardinality(ExecsOf(w)') = Cardinality(ExecsOf(w) \ {e}) + 1
        BY <3>1, <3>2, FS_AddElement
      <3> QED BY <2>1, <2>2, <3>2, <3>3
    <2> QED BY <2>3, <2>4
  <1> QED BY <1>2, <1>3 DEF Capped, ConcurrencyCap

\* A poll asks for no more rows than it has free slots.
LEMMA CapPoll ==
  ASSUME Types, Capped, NEW w \in Workers, PollBegin(w)
  PROVE  Capped'
  <1>1. /\ execs' = execs /\ txn' = [txn EXCEPT ![w] = Oldest(Claimable, FreeSlots(w))]
        /\ FreeSlots(w) > 0
    BY DEF PollBegin, BeginClaim, workerVars
  <1>2. ASSUME NEW v \in Workers
        PROVE  Cardinality(ExecsOf(v)) + Cardinality(txn'[v]) <= MaxConcurrency
    <2>1. CASE v # w
      BY <1>1, <2>1 DEF Capped, ConcurrencyCap, Types, TypeOK, StoreTypeOK
    <2>2. CASE v = w
      <3>1. txn'[v] = Oldest(Claimable, FreeSlots(w))
        BY <1>1, <2>2 DEF Types, TypeOK, StoreTypeOK
      <3>2. Cardinality(ExecsOf(w)) \in Nat /\ MaxConcurrency \in Nat
        BY ExecsCount, CapTypes DEF Capped
      <3>3. FreeSlots(w) \in Nat /\ FreeSlots(w) = MaxConcurrency - Cardinality(ExecsOf(w))
        BY <1>1, <3>2 DEF FreeSlots
      <3>4. Claimable \subseteq Runs
        BY DEF Claimable
      <3>5. Cardinality(Oldest(Claimable, FreeSlots(w))) <= FreeSlots(w)
        BY <3>3, <3>4, OldestCount
      <3>6. Cardinality(Oldest(Claimable, FreeSlots(w))) \in Nat
        <4>1. Oldest(Claimable, FreeSlots(w)) \in SUBSET Runs
          BY <3>4 DEF Oldest
        <4>2. IsFiniteSet(Runs)
          BY RunStoreAssumption, FS_Interval DEF Runs
        <4> QED BY <4>1, <4>2, FS_Subset, FS_CardinalityType
      <3> QED BY <2>2, <3>1, <3>2, <3>3, <3>5, <3>6
    <2> QED BY <2>1, <2>2
  <1>3. \A v : ExecsOf(v)' = ExecsOf(v)
    BY <1>1 DEF ExecsOf
  <1> QED BY <1>1, <1>2, <1>3 DEF Capped, ConcurrencyCap

\* A claim that is committed turns each lock into one execution.
LEMMA CapCommit ==
  ASSUME Types, Capped, NEW w \in Workers, PollCommit(w)
  PROVE  Capped'
  <1>1. execs' = execs \cup ClaimedBy(w) /\ txn' = [txn EXCEPT ![w] = {}]
    BY DEF PollCommit, CommitClaim
  <1>2. /\ IsFiniteSet(txn[w]) /\ Cardinality(txn[w]) \in Nat
        /\ IsFiniteSet(ExecsOf(w)) /\ Cardinality(ExecsOf(w)) \in Nat
        /\ MaxConcurrency \in Nat
        /\ Cardinality(ExecsOf(w)) + Cardinality(txn[w]) <= MaxConcurrency
    BY ExecsCount, CapTypes DEF Capped, ConcurrencyCap
  <1>3. IsFiniteSet(ClaimedBy(w)) /\ Cardinality(ClaimedBy(w)) <= Cardinality(txn[w])
    <2> DEFINE f == [r \in txn[w] |->
                       [run |-> r, dispatch |-> minted[r] + 1, worker |-> w, phase |-> "fetch"]]
    <2>1. f \in Surjection(txn[w], ClaimedBy(w))
      BY DEF Surjection, ClaimedBy
    <2> HIDE DEF f
    <2> QED BY <1>2, <2>1, FS_Surjection
  <1>4. Cardinality(ClaimedBy(w)) \in Nat
    BY <1>3, FS_CardinalityType
  <1>5. IsFiniteSet(execs')
    BY <1>1, <1>3, FS_Union DEF Capped
  <1>6. \A e \in ClaimedBy(w) : e.worker = w
    BY DEF ClaimedBy
  <1>7. ASSUME NEW v \in Workers
        PROVE  Cardinality(ExecsOf(v)') + Cardinality(txn'[v]) <= MaxConcurrency
    <2>1. CASE v # w
      <3>1. ExecsOf(v)' = ExecsOf(v) /\ txn'[v] = txn[v]
        BY <1>1, <1>6, <2>1 DEF ExecsOf, Types, TypeOK, StoreTypeOK
      <3> QED BY <3>1 DEF Capped, ConcurrencyCap
    <2>2. CASE v = w
      <3>1. ExecsOf(v)' = ExecsOf(w) \cup ClaimedBy(w) /\ txn'[v] = {}
        BY <1>1, <1>6, <2>2 DEF ExecsOf, Types, TypeOK, StoreTypeOK
      <3>2. /\ Cardinality(ExecsOf(w) \cup ClaimedBy(w))
               = Cardinality(ExecsOf(w)) + Cardinality(ClaimedBy(w))
                 - Cardinality(ExecsOf(w) \cap ClaimedBy(w))
        BY <1>2, <1>3, FS_Union
      <3>3. Cardinality(ExecsOf(w) \cap ClaimedBy(w)) \in Nat
        BY <1>2, FS_Intersection, FS_CardinalityType
      <3>4. Cardinality(txn'[v]) = 0
        BY <3>1, FS_EmptySet
      <3> QED BY <1>2, <1>3, <1>4, <3>1, <3>2, <3>3, <3>4
    <2> QED BY <2>1, <2>2
  <1> QED BY <1>5, <1>7 DEF Capped, ConcurrencyCap

\* The steps of the workers.
LEMMA WorkerCap == Types /\ Types' /\ Capped /\ WorkerNext => Capped'
  <1> SUFFICES ASSUME Types, Types', Capped, WorkerNext PROVE Capped'
    OBVIOUS
  <1>0. \A w \in Workers : txn[w] \in SUBSET Runs
    BY DEF Types, TypeOK, StoreTypeOK
  <1>1. ASSUME NEW w \in Workers, txn' = [txn EXCEPT ![w] = {}]
        PROVE  \A v \in Workers : txn'[v] \subseteq txn[v]
    BY <1>1 DEF Types, TypeOK, StoreTypeOK
  <1>2. ASSUME NEW w \in Workers, PollCommitLost(w) \/ PollRollback(w) \/ Crash(w) PROVE Capped'
    <2>1. execs' \in SUBSET execs /\ txn' = [txn EXCEPT ![w] = {}]
      BY <1>2 DEF PollCommitLost, CommitClaim, PollRollback, Crash, Vanish, EndClaim, workerVars
    <2> QED BY <1>1, <2>1, CapFewer
  <1>3. ASSUME NEW w \in Workers, Sigterm(w) \/ DrainBegin(w) \/ ProcessExit(w) \/ Restart(w)
        PROVE Capped'
    <2>1. execs' \in SUBSET execs /\ txn' = txn
      BY <1>3 DEF Sigterm, DrainBegin, ProcessExit, Vanish, Restart, storeVars
    <2> QED BY <2>1, CapFewer
  <1>4. ASSUME NEW w \in Workers, NEW r \in Runs, HeartbeatCancel(w, r) PROVE Capped'
    <2>1. PICK e \in ExecsOf(w) : Advance(e, "killed")
      BY <1>4 DEF HeartbeatCancel
    <2>2. e \in execs
      BY DEF ExecsOf
    <2>3. txn' = txn
      BY <1>4 DEF HeartbeatCancel, storeVars
    <2> QED BY <2>1, <2>2, <2>3, CapAdvance
  <1>5. ASSUME NEW e \in execs, Execute(e) PROVE Capped'
    <2>1. CASE FetchRun(e) \/ PrepareError(e) \/ Spawn(e)
      BY <2>1, CapAdvance DEF FetchRun, PrepareError, Spawn, storeVars
    <2>2. CASE \E outcome \in {"succeed", "fail"} : ChildExit(e, outcome)
      BY <2>2, CapAdvance DEF ChildExit, storeVars
    <2>3. CASE FetchError(e) \/ RecordFailureError(e) \/ Finish(e)
      BY <2>3, CapFewer DEF FetchError, RecordFailureError, Finish, Settle, storeVars
    <2>4. CASE RecordSuccess(e) \/ RecordSuccessError(e)
      BY <2>4, CapAdvance DEF RecordSuccess, RecordSuccessError, markSucceeded, storeVars
    <2>5. CASE RecordFailure(e)
      <3>1. Advance(e, "settle") /\ txn' = txn
        BY <2>5 DEF RecordFailure, markFailed
      <3> QED BY <3>1, CapAdvance
    <2> QED BY <1>5, <2>1, <2>2, <2>3, <2>4, <2>5 DEF Execute
  <1> QED BY <1>2, <1>3, <1>4, <1>5, CapPoll, CapCommit DEF WorkerNext

\* The other processes neither execute nor hold claim transactions.
LEMMA OthersCap ==
  ASSUME SweeperStep \/ ControlStep \/ ClockStep \/ UNCHANGED vars
  PROVE  execs' = execs /\ txn' = txn
  <1>1. CASE SweeperStep
    BY <1>1 DEF SweeperStep, SweeperNext, SweepRunning, SweepRunningError, SweepCancelling,
       SweepCancellingError, SweepMark, SweepMarkError, SweeperRestart, List, markFailed,
       markCancelled, storeVars, workerVars
  <1>2. CASE ControlStep
    BY <1>2 DEF ControlStep, ControlNext, RetryRead, CancelRead, RetryWrite, CancelWrite,
       CallError, Redrive, Enqueue, createRun, transition, storeVars, workerVars
  <1>3. CASE ClockStep \/ UNCHANGED vars
    BY <1>3 DEF ClockStep, Age, vars, storeVars, workerVars
  <1> QED BY <1>1, <1>2, <1>3

\* What a worker executes and what its open claim has locked stay within
\* WORKER_MAX_CONCURRENCY, whatever polls are answered late, lost or rolled back.
THEOREM CapHolds == Spec => []ConcurrencyCap
  <1>1. Init => Capped
    <2> SUFFICES ASSUME Init PROVE Capped
      OBVIOUS
    <2>1. execs = {} /\ \A w \in Workers : ExecsOf(w) = {} /\ txn[w] = {}
      BY DEF Init, StoreInit, WorkerInit, ExecsOf
    <2> QED BY <2>1, FS_EmptySet, PullWorkerAssumption DEF Capped, ConcurrencyCap
  <1>2. ASSUME Types, Capped, [Next]_vars PROVE Types' /\ Capped'
    <2>1. Types'
      BY <1>2, StepTypes
    <2>2. CASE WorkerStep
      BY <1>2, <2>1, <2>2, WorkerCap DEF WorkerStep
    <2>3. CASE SweeperStep \/ ControlStep \/ ClockStep \/ UNCHANGED vars
      BY <1>2, <2>1, <2>3, OthersCap, CapFewer
    <2> QED BY <1>2, <2>1, <2>2, <2>3 DEF Next
  <1>3. Capped => ConcurrencyCap
    BY DEF Capped
  <1> QED BY InitTypes, <1>1, <1>2, <1>3, PTL DEF Spec
=============================================================================
