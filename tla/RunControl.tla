----------------------------- MODULE RunControl -----------------------------
(***************************************************************************)
(* The control calls on a run (src/src/services/runControlService.js) and  *)
(* the inserts that enqueue one.  retryRun and cancelRun first read the    *)
(* row, decide on what they saw, and then issue a conditional UPDATE; a    *)
(* call between the two is a record of calls.  A call that is refused or   *)
(* answered from its read changes nothing and is not a step.  Production   *)
(* configures no runtimeLauncher (src/src/app.js), so cancelRun ends with  *)
(* its UPDATE.                                                             *)
(***************************************************************************)
EXTENDS RunStore

CONSTANT Operators   \* concurrent callers

VARIABLE calls   \* per operator, the call between its read and its write

callVars == <<calls>>

Call == [op : {"retry", "cancel", "none"}, run : Nat,
         seen : RunStates \cup {"ABSENT"}, attempt : Nat]

NoCall == [op |-> "none", run |-> 0, seen |-> "ABSENT", attempt |-> 0]

ControlTypeOK == calls \in [Operators -> Call]

ControlInit == calls = [o \in Operators |-> NoCall]

Return(o) == calls' = [calls EXCEPT ![o] = NoCall]

ReadRun(o, op, r) ==
  calls' = [calls EXCEPT ![o] = [op |-> op, run |-> r, seen |-> runs[r].state,
                                 attempt |-> runs[r].attempt]]

-----------------------------------------------------------------------------

RetryRead(o, r) ==
  /\ calls[o] = NoCall
  /\ runs[r].state = "FAILED"
  /\ ReadRun(o, "retry", r)
  /\ UNCHANGED storeVars

\* The columns retryRun sets; the attempt number comes from its read.
RetriedRow(row, attempt, d) ==
  [row EXCEPT !.state = "QUEUED", !.attempt = attempt, !.dispatchId = d,
              !.startedAt = "NULL", !.error = NoError]

RetryFrom == {"FAILED"}

\* The bound leaves the retried run the dispatch id of its next claim.
RetryWrite(o) ==
  LET r == calls[o].run
      applies == runs[r].state \in RetryFrom
  IN  /\ calls[o].op = "retry"
      /\ applies => minted[r] + 2 <= MaxDispatch
      /\ transition(r, RetryFrom,
                    RetriedRow(runs[r], calls[o].attempt + 1, minted[r] + 1))
      /\ minted' = [minted EXCEPT ![r] = IF applies THEN @ + 1 ELSE @]
      /\ Return(o)

CancelRead(o, r) ==
  /\ calls[o] = NoCall
  /\ runs[r].state \in {"QUEUED", "RUNNING"}
  /\ ReadRun(o, "cancel", r)
  /\ UNCHANGED storeVars

\* Plausible bug: the state is written in the spelling of the answer's status.
CancelTargetAsAnswered(seen) == IF seen = "RUNNING" THEN "cancelling" ELSE "cancelled"

\* The state cancelRun moves a run to from the one it saw.
CancelTarget(seen) == IF seen = "RUNNING" THEN "CANCELLING" ELSE "CANCELLED"

CancelledRow(row, seen) ==
  [row EXCEPT !.state = CancelTarget(seen),
              !.error = IF seen = "RUNNING" THEN @
                        ELSE [code |-> "RUN_CANCELLED", by |-> NoDispatch]]

\* Plausible bug: the guard accepts every state cancelRun may be called in.
CancelFromAny(seen) == {"QUEUED", "RUNNING", "CANCELLING"}

CancelFrom(seen) == {seen}

\* The answer, "cancelling" or "cancelled", depends on the read alone: whether
\* the UPDATE found its row is not looked at.
CancelWrite(o) ==
  LET r == calls[o].run
      seen == calls[o].seen
  IN  /\ calls[o].op = "cancel"
      /\ transition(r, CancelFrom(seen), CancelledRow(runs[r], seen))
      /\ UNCHANGED minted
      /\ Return(o)

\* The write throws before it takes effect.
CallError(o) ==
  /\ calls[o] # NoCall
  /\ Return(o)
  /\ UNCHANGED storeVars

-----------------------------------------------------------------------------

\* redriveRun copies a finished run into a new row.  What it copies never
\* changes once the run is finished, so read and insert are one step.
Redrive(r, new) ==
  /\ runs[r].state \in {"SUCCEEDED", "FAILED", "CANCELLED"}
  /\ createRun(new, 1)
  /\ UNCHANGED calls

\* The insert of a tick or of run-now: no dispatch id yet.
Enqueue(new) ==
  /\ createRun(new, NoDispatch)
  /\ UNCHANGED calls

ControlNext ==
  \/ \E o \in Operators :
       \/ \E r \in Runs : RetryRead(o, r) \/ CancelRead(o, r)
       \/ RetryWrite(o)
       \/ CancelWrite(o)
       \/ CallError(o)
  \/ \E r, new \in Runs : Redrive(r, new)
  \/ \E new \in Runs : Enqueue(new)
=============================================================================
