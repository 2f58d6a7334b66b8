-------------------------- MODULE RunContractProofs --------------------------
(***************************************************************************)
(* The run queue implements RunContract: every step of every process is a  *)
(* step of the contract or leaves its three variables alone.               *)
(***************************************************************************)
EXTENDS RunSafetyProofs

\* What the contract lets one run do.
ContractMove(old, new) ==
  LET out(row) == ContractOutcome(row) IN
  \/ /\ new.state = old.state
     /\ new.dispatchId = old.dispatchId
     /\ out(new) = out(old)
  \/ /\ old.state = "ABSENT" /\ new.state = "QUEUED"
     /\ new.dispatchId \in Nat
     /\ out(new) = out(old)
  \/ /\ old.state = "QUEUED" /\ new.state = "RUNNING"
     /\ new.dispatchId > old.dispatchId
     /\ out(new) = out(old)
  \/ /\ old.state = "RUNNING" /\ new.state \in {"SUCCEEDED", "FAILED"}
     /\ new.dispatchId = old.dispatchId
     /\ out(new) = old.dispatchId
  \/ /\ \/ old.state = "QUEUED" /\ new.state = "CANCELLED"
        \/ old.state = "RUNNING" /\ new.state = "CANCELLING"
        \/ old.state = "CANCELLING" /\ new.state = "CANCELLED"
     /\ new.dispatchId = old.dispatchId
     /\ out(new) = out(old)
  \/ /\ old.state = "FAILED" /\ new.state = "QUEUED"
     /\ new.dispatchId > old.dispatchId
     /\ out(new) = 0

\* Each way of changing a row is a move of the contract or leaves it alone.
LEMMA MoveContract ==
  ASSUME NEW old \in Row, NEW new, RowSound(old), Moves(old, new)
  PROVE  ContractMove(old, new)
  <1> USE DEF ContractMove, ContractOutcome, Row, NoDispatch
  <1>1. CASE new = old
    BY <1>1
  <1>2. CASE old.state = "QUEUED" /\ new = ClaimRow(old, old.dispatchId + 1)
    BY <1>2 DEF ClaimRow
  <1>3. ASSUME NEW d \in Nat \ {0}, new = MarkSucceededRow(old, d) PROVE ContractMove(old, new)
    <2>1. CASE old.state = "RUNNING" /\ old.dispatchId = d
      BY <1>3, <2>1 DEF MarkSucceededRow, Fenced
    <2>2. CASE ~(old.state = "RUNNING" /\ old.dispatchId = d)
      BY <1>1, <1>3, <2>2 DEF MarkSucceededRow, Fenced
    <2> QED BY <2>1, <2>2
  <1>4. ASSUME NEW d \in Nat \ {0}, NEW code \in {"WORKER", "STALE_RUNNING"},
               new = MarkFailedRow(old, d, code)
        PROVE ContractMove(old, new)
    <2>1. CASE old.state = "RUNNING" /\ old.dispatchId = d
      BY <1>4, <2>1 DEF MarkFailedRow, Fenced
    <2>2. CASE ~(old.state = "RUNNING" /\ old.dispatchId = d)
      BY <1>1, <1>4, <2>2 DEF MarkFailedRow, Fenced
    <2> QED BY <2>1, <2>2
  <1>5. CASE old.state = "CANCELLING" /\ new = MarkCancelledRow(old, "STALE_CANCELLING")
    BY <1>5 DEF MarkCancelledRow
  <1>6. ASSUME old.state = "FAILED", NEW n \in Nat,
               new = RetriedRow(old, n, old.dispatchId + 1)
        PROVE ContractMove(old, new)
    BY <1>6 DEF RetriedRow
  <1>7. CASE old.state \in {"QUEUED", "RUNNING"} /\ new = CancelledRow(old, old.state)
    BY <1>7 DEF CancelledRow, CancelTarget
  <1>8. ASSUME old.state = "ABSENT", NEW d \in {0, 1},
               new = [NoRow EXCEPT !.state = "QUEUED", !.attempt = 1, !.dispatchId = d]
        PROVE ContractMove(old, new)
    BY <1>8 DEF NoRow
  <1>9. CASE /\ old.state \in {"RUNNING", "CANCELLING"}
             /\ new = [old EXCEPT !.startedAt = "old"]
    BY <1>9
  <1> QED
    BY <1>1, <1>2, <1>3, <1>4, <1>5, <1>6, <1>7, <1>8, <1>9 DEF Moves

-----------------------------------------------------------------------------

\* The three variables of the contract, and their values after the step.
S == [r \in Runs |-> runs[r].state]
T == [r \in Runs |-> runs[r].dispatchId]
O == [r \in Runs |-> ContractOutcome(runs[r])]

\* A step that changes one row is a step of the contract.
LEMMA OneRowContract ==
  ASSUME NEW r \in Runs, ContractMove(runs[r], runs'[r]),
         \A q \in Runs : q # r => runs'[q] = runs[q]
  PROVE  [Contract!ContractNext]_(Contract!cvars)
  <1> DEFINE old == runs[r]
             new == runs'[r]
  <1>1. /\ S' = [S EXCEPT ![r] = new.state]
        /\ T' = [T EXCEPT ![r] = new.dispatchId]
        /\ O' = [O EXCEPT ![r] = ContractOutcome(new)]
    BY DEF S, T, O
  <1>2. /\ S[r] = old.state /\ T[r] = old.dispatchId /\ O[r] = ContractOutcome(old)
        /\ T'[r] = new.dispatchId
    BY DEF S, T, O
  <1>3. CASE new.state = old.state /\ new.dispatchId = old.dispatchId
               /\ ContractOutcome(new) = ContractOutcome(old)
    <2>1. S' = S /\ T' = T /\ O' = O
      BY <1>1, <1>2, <1>3 DEF S, T, O
    <2> QED BY <2>1 DEF Contract!cvars, S, T, O
  <1>4. CASE /\ old.state = "ABSENT" /\ new.state = "QUEUED"
             /\ new.dispatchId \in Nat
             /\ ContractOutcome(new) = ContractOutcome(old)
    <2>1. O' = O
      BY <1>1, <1>2, <1>4 DEF O
    <2>2. Contract!Submit(r)
      BY <1>1, <1>2, <1>4, <2>1 DEF Contract!Submit, Contract!Move, S, T, O
    <2> QED BY <2>2 DEF Contract!ContractNext
  <1>5. CASE /\ old.state = "RUNNING" /\ new.state \in {"SUCCEEDED", "FAILED"}
             /\ new.dispatchId = old.dispatchId
             /\ ContractOutcome(new) = old.dispatchId
    <2>1. T' = T
      BY <1>1, <1>2, <1>5 DEF T
    <2>2. Contract!Complete(r)
      BY <1>1, <1>2, <1>5, <2>1 DEF Contract!Complete, Contract!Move, S, T, O
    <2> QED BY <2>2 DEF Contract!ContractNext
  <1>6. CASE /\ \/ old.state = "QUEUED" /\ new.state = "CANCELLED"
                \/ old.state = "RUNNING" /\ new.state = "CANCELLING"
                \/ old.state = "CANCELLING" /\ new.state = "CANCELLED"
             /\ new.dispatchId = old.dispatchId
             /\ ContractOutcome(new) = ContractOutcome(old)
    <2>1. T' = T /\ O' = O
      BY <1>1, <1>2, <1>6 DEF T, O
    <2>2. Contract!Cancel(r)
      BY <1>1, <1>2, <1>6, <2>1 DEF Contract!Cancel, Contract!Move, S, T, O
    <2> QED BY <2>2 DEF Contract!ContractNext
  <1>7. CASE /\ old.state = "FAILED" /\ new.state = "QUEUED"
             /\ new.dispatchId > old.dispatchId
             /\ ContractOutcome(new) = 0
    <2>1. Contract!Retry(r)
      BY <1>1, <1>2, <1>7 DEF Contract!Retry, Contract!Move, S, T, O
    <2> QED BY <2>1 DEF Contract!ContractNext
  <1>8. CASE /\ old.state = "QUEUED" /\ new.state = "RUNNING"
             /\ new.dispatchId > old.dispatchId
             /\ ContractOutcome(new) = ContractOutcome(old)
    <2>1. O' = O
      BY <1>1, <1>2, <1>8 DEF O
    <2>2. /\ S' = [q \in Runs |-> IF q \in {r} THEN "RUNNING" ELSE S[q]]
          /\ T' = [q \in Runs |-> IF q \in {r} THEN T'[q] ELSE T[q]]
      BY <1>1, <1>8 DEF S, T
    <2>3. Contract!Claim({r})
      BY <1>2, <1>8, <2>1, <2>2 DEF Contract!Claim, S, T, O
    <2> QED BY <2>3 DEF Contract!ContractNext
  <1> HIDE DEF old, new
  <1>9. ContractMove(old, new)
    BY DEF old, new
  <1> QED
    BY <1>3, <1>4, <1>5, <1>6, <1>7, <1>8, <1>9 DEF ContractMove

\* A committed claim of several rows is one Claim of the contract.
LEMMA ClaimsContract ==
  ASSUME IInv,
         \A r \in Runs :
           \/ runs'[r] = runs[r]
           \/ /\ runs[r].state = "QUEUED"
              /\ runs'[r] = ClaimRow(runs[r], runs[r].dispatchId + 1)
  PROVE  Contract!ContractNext
  <1>0. PICK C \in SUBSET Runs : \A r \in Runs : r \in C <=> runs'[r] # runs[r]
    <2>1. {r \in Runs : runs'[r] # runs[r]} \in SUBSET Runs
      OBVIOUS
    <2> QED BY <2>1
  <1>1. ASSUME NEW r \in C
        PROVE  /\ runs[r].state = "QUEUED" /\ runs'[r].state = "RUNNING"
               /\ runs'[r].dispatchId > runs[r].dispatchId
               /\ ContractOutcome(runs'[r]) = ContractOutcome(runs[r])
    <2>1. r \in Runs /\ runs[r] \in Row
      BY <1>1 DEF IInv, Types, TypeOK, StoreTypeOK
    <2>2. runs[r].state = "QUEUED" /\ runs'[r] = ClaimRow(runs[r], runs[r].dispatchId + 1)
      BY <1>0, <1>1, <2>1
    <2>3. runs'[r].state = "RUNNING" /\ runs'[r].dispatchId = runs[r].dispatchId + 1
      BY <2>1, <2>2 DEF ClaimRow, Row
    <2> QED BY <2>1, <2>2, <2>3 DEF Row, ContractOutcome
  <1>2. ASSUME NEW r \in Runs, r \notin C PROVE runs'[r] = runs[r]
    BY <1>0, <1>2
  <1>4. O' = O
    BY <1>1, <1>2 DEF O
  <1>5. /\ S' = [r \in Runs |-> IF r \in C THEN "RUNNING" ELSE S[r]]
        /\ T' = [r \in Runs |-> IF r \in C THEN T'[r] ELSE T[r]]
    BY <1>1, <1>2 DEF S, T
  <1>6. /\ \A r \in C : S[r] = "QUEUED"
        /\ \A r \in C : T'[r] > T[r]
    BY <1>1 DEF S, T
  <1>7. Contract!Claim(C)
    BY <1>4, <1>5, <1>6 DEF Contract!Claim, S, T, O
  <1> QED BY <1>7 DEF Contract!ContractNext

\* The queue with all its processes implements the contract of RunContract.
THEOREM QueueImplementsContract == Spec => ImplementsContract
  <1>1. Init => Contract!ContractInit
    BY DEF Init, StoreInit, Contract!ContractInit, NoRow, NoDispatch, ContractOutcome
  <1>2. IInv /\ [Next]_vars => [Contract!ContractNext]_(Contract!cvars)
    <2> SUFFICES ASSUME IInv, [Next]_vars PROVE [Contract!ContractNext]_(Contract!cvars)
      OBVIOUS
    <2>1. StoreStep
      BY StepKeeps DEF Kept
    <2>2. CASE \E r \in Runs : \A q \in Runs : q # r => runs'[q] = runs[q]
      <3>1. PICK r \in Runs : \A q \in Runs : q # r => runs'[q] = runs[q]
        BY <2>2
      <3>2. runs[r] \in Row /\ RowSound(runs[r]) /\ Moves(runs[r], runs'[r])
        BY <2>1 DEF StoreStep, IInv, RowsSound, Types, TypeOK, StoreTypeOK
      <3>3. ContractMove(runs[r], runs'[r])
        BY <3>2, MoveContract
      <3> QED BY <3>1, <3>3, OneRowContract
    <2>3. CASE \A r \in Runs :
                 \/ runs'[r] = runs[r]
                 \/ /\ runs[r].state = "QUEUED"
                    /\ runs'[r] = ClaimRow(runs[r], runs[r].dispatchId + 1)
      BY <2>3, ClaimsContract
    <2> QED BY <2>1, <2>2, <2>3 DEF StoreStep, OneRowOrClaims
  <1> QED BY <1>1, <1>2, Invariance, PTL DEF Spec, ImplementsContract, Contract!ContractSpec
=============================================================================
