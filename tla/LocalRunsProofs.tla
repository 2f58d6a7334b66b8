--------------------------- MODULE LocalRunsProofs ---------------------------
(***************************************************************************)
(* Proofs about the local backend's run queue, for any number of runs and   *)
(* any settings of the dispatcher: its types and its back-off, the advice   *)
(* of failed runs, and that it implements RunContract.                      *)
(*                                                                         *)
(* There are no dispatch ids to fence off an old attempt.  What takes their *)
(* place is that the run of an execution under way is RUNNING or CANCELLING *)
(* and has not been claimed or retried since (ExecFits).                    *)
(***************************************************************************)
EXTENDS LocalRuns, WellFoundedInduction, TLAPS

-----------------------------------------------------------------------------
(* Doubling: what a recursive definition over the naturals computes is shown  *)
(* by looking at the least number for which it would not hold.                *)

LEMMA LeastNumber ==
  ASSUME NEW T, T \subseteq Nat, T # {}
  PROVE  \E x \in T : \A y \in T : x <= y
<1>1. PICK x \in T : \A y \in T : ~(<<y, x>> \in OpToRel(<, Nat))
  BY NatLessThanWellFounded, WFMin
<1>2. \A y \in T : ~(y < x)
  BY <1>1 DEF OpToRel
<1> QED BY <1>2

\* The first n powers of two.
Doubles(g, n) ==
  /\ g \in [0..n -> Nat]
  /\ g[0] = 1
  /\ \A k \in 1..n : g[k] = 2 * g[k - 1]

LEMMA DoublesExist == \A n \in Nat : \E g : Doubles(g, n)
<1> DEFINE Bad == {n \in Nat : ~\E g : Doubles(g, n)}
<1>1. SUFFICES ASSUME Bad # {} PROVE FALSE
  OBVIOUS
<1>2. PICK m \in Bad : \A y \in Bad : m <= y
  BY <1>1, LeastNumber
<1>3. m \in Nat
  OBVIOUS
<1>4. CASE m = 0
  <2>1. Doubles([k \in 0..0 |-> 1], 0)
    BY <1>3 DEF Doubles
  <2> QED BY <1>4, <2>1
<1>5. CASE m # 0
  <2>1. m - 1 \in Nat /\ m - 1 \notin Bad
    BY <1>2, <1>3, <1>5
  <2>2. PICK g : Doubles(g, m - 1)
    BY <2>1
  <2> DEFINE h == [k \in 0..m |-> IF k = m THEN 2 * g[m - 1] ELSE g[k]]
  <2>3. /\ \A k \in 0..(m - 1) : h[k] = g[k] /\ g[k] \in Nat
        /\ h[m] = 2 * g[m - 1]
    BY <1>3, <1>5, <2>2 DEF Doubles
  <2>4. h \in [0..m -> Nat]
    BY <1>3, <1>5, <2>1, <2>2 DEF Doubles
  <2> HIDE DEF h
  <2>5. h[0] = 1
    BY <1>3, <1>5, <2>2, <2>3 DEF Doubles
  <2>6. ASSUME NEW k \in 1..m PROVE h[k] = 2 * h[k - 1]
    <3>1. CASE k = m
      BY <1>3, <1>5, <2>3, <3>1
    <3>2. CASE k # m
      <4>1. k \in 1..(m - 1) /\ k \in 0..(m - 1) /\ k - 1 \in 0..(m - 1)
        BY <1>3, <3>2
      <4>2. g[k] = 2 * g[k - 1]
        BY <2>2, <4>1 DEF Doubles
      <4> QED BY <2>3, <4>1, <4>2
    <3> QED BY <3>1, <3>2
  <2>7. Doubles(h, m)
    BY <2>4, <2>5, <2>6 DEF Doubles
  <2> QED BY <2>7
<1> QED BY <1>4, <1>5

LEMMA DoublesAgree ==
  ASSUME NEW n \in Nat, NEW g, NEW h, Doubles(g, n), Doubles(h, n + 1)
  PROVE  g[n] = h[n]
<1> DEFINE Bad == {k \in 0..n : g[k] # h[k]}
<1>1. SUFFICES ASSUME Bad # {} PROVE FALSE
  OBVIOUS
<1>2. PICK m \in Bad : \A y \in Bad : m <= y
  <2>1. Bad \subseteq Nat
    OBVIOUS
  <2> HIDE DEF Bad
  <2> QED BY <1>1, <2>1, LeastNumber
<1>3. m \in 0..n /\ m # 0
  BY DEF Doubles
<1>4. m - 1 \in 0..n /\ m - 1 \notin Bad
  BY <1>2, <1>3
<1>5. g[m - 1] = h[m - 1] /\ g[m] = 2 * g[m - 1] /\ h[m] = 2 * h[m - 1]
  BY <1>3, <1>4 DEF Doubles
<1> QED BY <1>5

LEMMA Pow2Def ==
  Pow2 = [n \in Nat |-> IF n = 0 THEN 1 ELSE 2 * Pow2[n - 1]]
<1> DEFINE G(n) == CHOOSE g : Doubles(g, n)
           F == [n \in Nat |-> G(n)[n]]
<1>1. \A n \in Nat : Doubles(G(n), n)
  BY DoublesExist
<1> HIDE DEF G
<1>2. ASSUME NEW n \in Nat PROVE F[n] = IF n = 0 THEN 1 ELSE 2 * F[n - 1]
  <2>1. CASE n = 0
    BY <1>1, <2>1 DEF Doubles
  <2>2. CASE n # 0
    <3>1. n - 1 \in Nat /\ (n - 1) + 1 = n /\ n \in 1..n
      BY <2>2
    <3>2. Doubles(G(n - 1), n - 1) /\ Doubles(G(n), n)
      BY <1>1, <3>1
    <3>3. G(n - 1)[n - 1] = G(n)[n - 1]
      BY <3>1, <3>2, DoublesAgree
    <3>4. G(n)[n] = 2 * G(n)[n - 1]
      BY <3>1, <3>2 DEF Doubles
    <3> QED BY <2>2, <3>1, <3>3, <3>4
  <2> QED BY <2>1, <2>2
<1>3. F = [n \in Nat |-> IF n = 0 THEN 1 ELSE 2 * F[n - 1]]
  BY <1>2
<1> HIDE DEF F
<1>4. \E f : f = [n \in Nat |-> IF n = 0 THEN 1 ELSE 2 * f[n - 1]]
  BY <1>3
<1> QED BY <1>4 DEF Pow2

LEMMA Pow2Grows ==
  \A n \in Nat : Pow2[n] \in Nat /\ Pow2[n] >= 1 /\ Pow2[n + 1] = 2 * Pow2[n]
<1> DEFINE Bad == {n \in Nat : ~(Pow2[n] \in Nat /\ Pow2[n] >= 1)}
<1>1. \A n \in Nat : Pow2[n] = IF n = 0 THEN 1 ELSE 2 * Pow2[n - 1]
  <2> DEFINE R(f) == [n \in Nat |-> IF n = 0 THEN 1 ELSE 2 * f[n - 1]]
  <2>1. Pow2 = R(Pow2)
    BY Pow2Def
  <2>2. \A n \in Nat : R(Pow2)[n] = IF n = 0 THEN 1 ELSE 2 * Pow2[n - 1]
    OBVIOUS
  <2> HIDE DEF R
  <2> QED BY <2>1, <2>2
<1>2. Bad = {}
  <2>1. SUFFICES ASSUME Bad # {} PROVE FALSE
    OBVIOUS
  <2>2. PICK m \in Bad : \A y \in Bad : m <= y
    BY <2>1, LeastNumber
  <2>3. m # 0
    BY <1>1
  <2>4. m - 1 \in Nat /\ m - 1 \notin Bad
    BY <2>2, <2>3
  <2>5. Pow2[m] = 2 * Pow2[m - 1]
    BY <1>1, <2>3
  <2> QED BY <2>4, <2>5
<1>3. ASSUME NEW n \in Nat
      PROVE  Pow2[n] \in Nat /\ Pow2[n] >= 1 /\ Pow2[n + 1] = 2 * Pow2[n]
  <2>1. Pow2[n] \in Nat /\ Pow2[n] >= 1
    BY <1>2
  <2>2. Pow2[n + 1] = 2 * Pow2[n]
    BY <1>1
  <2> QED BY <2>1, <2>2
<1> QED BY <1>3

\* A multiple of the interval is no shorter than the interval.
LEMMA Multiple ==
  ASSUME NEW i \in Nat, NEW p \in Nat, p >= 1
  PROVE  i * p \in Nat /\ i * p >= i /\ i * (2 * p) = 2 * (i * p)
<1>1. p - 1 \in Nat /\ i * (p - 1) \in Nat
  OBVIOUS
<1>2. i * p = i * (p - 1) + i
  OBVIOUS
<1> QED BY <1>1, <1>2

-----------------------------------------------------------------------------
(* The delay *)

\* The delays a dispatcher may set its timer to.
Delays == {intervalMs, MaxBackoffMs} \cup intervalMs..MaxBackoffMs

LEMMA DelaysAreNumbers ==
  ASSUME intervalMs \in Intervals
  PROVE  intervalMs \in Nat /\ Delays \subseteq Nat
<1> QED BY LocalAssumption DEF Delays

\* An interval above the maximum is cut to the maximum at the threshold, where one
\* below it begins to grow.
LEMMA BackoffGrows ==
  ASSUME intervalMs \in Intervals, NEW f \in Nat
  PROVE  /\ backoffMs(f) \in Delays
         /\ \/ backoffMs(f + 1) >= backoffMs(f)
            \/ intervalMs > MaxBackoffMs /\ backoffMs(f + 1) = MaxBackoffMs
<1>1. intervalMs \in Nat /\ MaxBackoffMs \in Nat /\ BackoffThreshold \in Nat
  BY LocalAssumption
<1>2. ASSUME NEW n \in Nat, ~(n < BackoffThreshold)
      PROVE  /\ n - BackoffThreshold \in Nat
             /\ intervalMs * Pow2[n - BackoffThreshold] \in Nat
             /\ intervalMs * Pow2[n - BackoffThreshold] >= intervalMs
  <2>1. n - BackoffThreshold \in Nat
    BY <1>1, <1>2
  <2>2. Pow2[n - BackoffThreshold] \in Nat /\ Pow2[n - BackoffThreshold] >= 1
    BY <2>1, Pow2Grows
  <2> QED BY <1>1, <2>1, <2>2, Multiple
<1>3. backoffMs(f) \in Delays
  <2>1. CASE f < BackoffThreshold
    BY <2>1 DEF backoffMs, Delays
  <2>2. CASE ~(f < BackoffThreshold)
    <3> DEFINE ms == intervalMs * Pow2[f - BackoffThreshold]
    <3>1. ms \in Nat /\ ms >= intervalMs
      BY <1>2, <2>2
    <3>2. backoffMs(f) = IF ms < MaxBackoffMs THEN ms ELSE MaxBackoffMs
      BY <2>2 DEF backoffMs
    <3> HIDE DEF ms
    <3> QED BY <1>1, <3>1, <3>2 DEF Delays
  <2> QED BY <2>1, <2>2
<1>4. \/ backoffMs(f + 1) >= backoffMs(f)
      \/ intervalMs > MaxBackoffMs /\ backoffMs(f + 1) = MaxBackoffMs
  <2>1. CASE f + 1 < BackoffThreshold
    BY <1>1, <2>1 DEF backoffMs
  <2>2. CASE f < BackoffThreshold /\ ~(f + 1 < BackoffThreshold)
    <3> DEFINE ms == intervalMs * Pow2[(f + 1) - BackoffThreshold]
    <3>1. ms \in Nat /\ ms >= intervalMs
      BY <1>2, <2>2
    <3>2. /\ backoffMs(f + 1) = IF ms < MaxBackoffMs THEN ms ELSE MaxBackoffMs
          /\ backoffMs(f) = intervalMs
      BY <2>2 DEF backoffMs
    <3> HIDE DEF ms
    <3> QED BY <1>1, <3>1, <3>2
  <2>3. CASE ~(f < BackoffThreshold)
    <3> DEFINE n == f - BackoffThreshold
               ms == intervalMs * Pow2[n]
               more == intervalMs * Pow2[n + 1]
    <3>1. n \in Nat /\ (f + 1) - BackoffThreshold = n + 1 /\ ~(f + 1 < BackoffThreshold)
      BY <1>1, <2>3
    <3>2. ms \in Nat /\ more = 2 * ms
      <4>1. Pow2[n] \in Nat /\ Pow2[n] >= 1 /\ Pow2[n + 1] = 2 * Pow2[n]
        BY <3>1, Pow2Grows
      <4> QED BY <1>1, <4>1, Multiple
    <3>3. /\ backoffMs(f) = IF ms < MaxBackoffMs THEN ms ELSE MaxBackoffMs
          /\ backoffMs(f + 1) = IF more < MaxBackoffMs THEN more ELSE MaxBackoffMs
      BY <2>3, <3>1 DEF backoffMs
    <3> HIDE DEF ms, more
    <3> QED BY <1>1, <3>2, <3>3
  <2> QED BY <1>1, <2>1, <2>2, <2>3
<1> QED BY <1>3, <1>4

\* What one more failed pass does to the delay, with a count that saturates.
NoShorter(f, g) ==
  \/ backoffMs(g) >= backoffMs(f)
  \/ intervalMs > MaxBackoffMs /\ backoffMs(g) = MaxBackoffMs

LEMMA OneMoreGrows ==
  ASSUME intervalMs \in Intervals, NEW f \in 0..MaxFailures
  PROVE  OneMore(f) \in 0..MaxFailures /\ NoShorter(f, OneMore(f))
<1>1. f \in Nat /\ MaxFailures \in Nat
  BY LocalAssumption
<1>2. backoffMs(f) \in Int
  BY <1>1, BackoffGrows, DelaysAreNumbers
<1> QED BY <1>1, <1>2, BackoffGrows DEF OneMore, NoShorter

-----------------------------------------------------------------------------
(* The invariant *)

State == {"ABSENT", "QUEUED", "RUNNING", "CANCELLING", "SUCCEEDED", "FAILED", "CANCELLED"}

Causes == {"NULL", "RUN_CANCELLED", "definition", "artifact", "extraction", "runtime",
           "passing"}

Report == [cause : Causes, advice : {"NULL", "RETRYABLE", "NON_RETRYABLE"}, by : Nat]

Row == [state : State, attempt : Nat, result : Nat, error : Report]

Execution == [run : Runs, token : Nat,
              metadata : {"ok", "DEFINITION_NOT_FOUND", "DEFINITION_NOT_ACTIVE"}]

\* An error that was recorded with the advice its cause gets.
Advised(error) ==
  (error.advice = "NON_RETRYABLE") = (error.cause \in {"definition", "artifact", "runtime"})

\* What one row says, given how often its run was claimed and retried.
RowFits(row, t) ==
  /\ row.state = "SUCCEEDED" => row.result = t
  /\ row.state = "FAILED" =>
       row.error.by = t /\ Advised(row.error)
  /\ row.state \in {"QUEUED", "RUNNING", "CANCELLING", "SUCCEEDED"} => row.error = NoError

RowsFit == \A r \in Runs : RowFits(runs[r], token[r])

\* The run of an execution has been neither claimed nor retried since.
ExecFits ==
  \A x \in exec : /\ runs[x.run].state \in {"RUNNING", "CANCELLING"}
                  /\ x.token = token[x.run]

\* The delay is the one of the failed passes so far, except in a dispatcher that
\* was stopped.
DelayFits == phase \in {"timer", "pass"} => delay = backoffMs(consecutiveFailures)

LInv == TypeOK /\ RowsFit /\ ExecFits /\ DelayFits

-----------------------------------------------------------------------------
(* The classification of errors *)

LEMMA RaisedFields ==
  ASSUME NEW flag, NEW codes, NEW e
  PROVE  e \in Raised(flag, codes) => e.flag = flag /\ e.code \in codes /\ e.status = 0
<1> QED BY DEF Raised

\* The steps that raise an error, and the advice for each.
LEMMA ClassificationFits ==
  ASSUME NEW e \in WorkerErrors
  PROVE  /\ Cause(e) \in Causes
         /\ classifyWorkerError(e) \in {"RETRYABLE", "NON_RETRYABLE"}
         /\ (classifyWorkerError(e) = "NON_RETRYABLE")
              = (Cause(e) \in {"definition", "artifact", "runtime"})
<1>0. Cause(e) \in Causes
  BY DEF Cause, Causes
<1>1. ASSUME e \in PassingErrors \cup ExtractionErrors
      PROVE  /\ classifyWorkerError(e) = "RETRYABLE"
             /\ e \notin DefinitionErrors \cup ArtifactErrors \cup RuntimeErrors
  <2>1. /\ e.code \in {"none", "Z_DATA_ERROR", "ARTIFACT_DOWNLOAD_FAILED", "ENOSPC",
                       "RUNTIME_PROCESS_FAILED", "RUNTIME_PROCESS_TIMED_OUT",
                       "RUNTIME_PROCESS_EXITED_NON_ZERO"}
        /\ e.flag \in {"unset", "RETRYABLE"} /\ e.status = 0
    <3>1. CASE e \in PassingErrors
      BY <3>1, RaisedFields DEF PassingErrors
    <3>2. CASE e \in ExtractionErrors
      BY <3>2, RaisedFields DEF ExtractionErrors
    <3> QED BY <1>1, <3>1, <3>2
  <2>2. classifyWorkerError(e) = "RETRYABLE"
    BY <2>1 DEF classifyWorkerError, NON_RETRYABLE_CODES, NON_RETRYABLE_HTTP_STATUS_CODES
  <2>3. e \notin DefinitionErrors
    BY <2>1, RaisedFields DEF DefinitionErrors
  <2>4. e \notin ArtifactErrors
    BY <2>1, RaisedFields DEF ArtifactErrors
  <2>5. e \notin RuntimeErrors
    BY <2>1, RaisedFields DEF RuntimeErrors
  <2> QED BY <2>2, <2>3, <2>4, <2>5
<1>2. ASSUME e \in DefinitionErrors \cup ArtifactErrors \cup RuntimeErrors
      PROVE  classifyWorkerError(e) = "NON_RETRYABLE"
  <2>1. \/ /\ e.code \in {"RUN_DEFINITION_MISSING", "DEFINITION_NOT_FOUND",
                          "DEFINITION_NOT_ACTIVE", "DEFINITION_VERSION_MISMATCH",
                          "DEFINITION_ARTIFACT_MISSING", "ARTIFACT_URI_INVALID",
                          "ARTIFACT_SHA256_MISMATCH"}
           /\ e.flag = "unset"
        \/ e.flag = "NON_RETRYABLE"
    <3>1. CASE e \in DefinitionErrors
      BY <3>1, RaisedFields DEF DefinitionErrors
    <3>2. CASE e \in ArtifactErrors
      BY <3>2, RaisedFields DEF ArtifactErrors
    <3>3. CASE e \in RuntimeErrors
      BY <3>3, RaisedFields DEF RuntimeErrors
    <3> QED BY <1>2, <3>1, <3>2, <3>3
  <2> QED
    BY <2>1 DEF classifyWorkerError, NON_RETRYABLE_CODES
<1>3. CASE e \in PassingErrors \cup ExtractionErrors
  BY <1>0, <1>1, <1>3 DEF Cause
<1>4. CASE e \in DefinitionErrors \cup ArtifactErrors \cup RuntimeErrors
  <2>1. Cause(e) \in {"definition", "artifact", "runtime"}
    BY <1>1, <1>4 DEF Cause
  <2> QED BY <1>0, <1>2, <1>4, <2>1
<1> QED BY <1>3, <1>4 DEF WorkerErrors

-----------------------------------------------------------------------------
(* What a step does to one run: its row and the count of claims and retries. *)

Outcome(row) == CASE row.state = "SUCCEEDED" -> row.result
                  [] row.state = "FAILED" -> row.error.by
                  [] OTHER -> 0

RunMove(old, t, new, u) ==
  \/ new = old /\ u = t
  \/ old.state = "ABSENT" /\ new = [NoRow EXCEPT !.state = "QUEUED", !.attempt = 1] /\ u = t
  \/ /\ old.state = "QUEUED" /\ u = t
     /\ new = [old EXCEPT !.state = "CANCELLED",
                 !.error = [cause |-> "RUN_CANCELLED", advice |-> "NULL", by |-> 0]]
  \/ old.state = "RUNNING" /\ new = [old EXCEPT !.state = "CANCELLING"] /\ u = t
  \/ old.state = "FAILED" /\ u = t + 1
     /\ new = [old EXCEPT !.state = "QUEUED", !.attempt = old.attempt + 1, !.error = NoError]
  \/ old.state = "QUEUED" /\ new = [old EXCEPT !.state = "RUNNING"] /\ u = t + 1
  \/ old.state = "RUNNING" /\ u = t
     /\ new = [old EXCEPT !.state = "SUCCEEDED", !.result = t, !.error = NoError]
  \/ \E e \in WorkerErrors :
       /\ old.state = "RUNNING" /\ u = t
       /\ new = [old EXCEPT !.state = "FAILED",
                   !.error = [cause |-> Cause(e), advice |-> classifyWorkerError(e), by |-> t]]

\* What the contract lets a run do.
ContractMove(old, t, new, u) ==
  \/ new.state = old.state /\ u = t /\ Outcome(new) = Outcome(old)
  \/ /\ old.state = "ABSENT" /\ new.state = "QUEUED" /\ u = t
     /\ Outcome(new) = Outcome(old)
  \/ /\ old.state = "QUEUED" /\ new.state = "RUNNING" /\ u > t
     /\ Outcome(new) = Outcome(old)
  \/ /\ old.state = "RUNNING" /\ new.state \in {"SUCCEEDED", "FAILED"} /\ u = t
     /\ Outcome(new) = t
  \/ /\ \/ old.state = "QUEUED" /\ new.state = "CANCELLED"
        \/ old.state = "RUNNING" /\ new.state = "CANCELLING"
     /\ u = t /\ Outcome(new) = Outcome(old)
  \/ old.state = "FAILED" /\ new.state = "QUEUED" /\ u > t /\ Outcome(new) = 0

LEMMA MoveFits ==
  ASSUME NEW old \in Row, NEW t \in Nat, NEW new, NEW u, RunMove(old, t, new, u), RowFits(old, t)
  PROVE  new \in Row /\ u \in Nat /\ RowFits(new, u) /\ ContractMove(old, t, new, u)
<1> DEFINE Goal == new \in Row /\ u \in Nat /\ RowFits(new, u) /\ ContractMove(old, t, new, u)
<1> USE DEF Row, State
<1> DEFINE cancelled == [cause |-> "RUN_CANCELLED", advice |-> "NULL", by |-> 0]
<1>0. NoError \in Report /\ cancelled \in Report
  BY DEF NoError, Report, Causes
<1> HIDE DEF cancelled
<1>1. CASE new = old /\ u = t
  BY <1>1 DEF ContractMove
<1>2. CASE old.state = "ABSENT" /\ new = [NoRow EXCEPT !.state = "QUEUED", !.attempt = 1] /\ u = t
  <2>1. new \in Row /\ new.state = "QUEUED" /\ new.error = NoError
    BY <1>0, <1>2 DEF NoRow
  <2> QED BY <1>2, <2>1 DEF RowFits, ContractMove, Outcome
<1>3. CASE /\ old.state = "QUEUED" /\ u = t
           /\ new = [old EXCEPT !.state = "CANCELLED", !.error = cancelled]
  <2>1. new \in Row /\ new.state = "CANCELLED"
    BY <1>0, <1>3
  <2> QED BY <1>3, <2>1 DEF RowFits, ContractMove, Outcome
<1>4. CASE old.state = "RUNNING" /\ new = [old EXCEPT !.state = "CANCELLING"] /\ u = t
  <2>1. new \in Row /\ new.state = "CANCELLING" /\ new.error = old.error
    BY <1>4
  <2> QED BY <1>4, <2>1 DEF RowFits, ContractMove, Outcome
<1>5. CASE /\ old.state = "FAILED" /\ u = t + 1
           /\ new = [old EXCEPT !.state = "QUEUED", !.attempt = old.attempt + 1, !.error = NoError]
  <2>0. old.attempt + 1 \in Nat
    OBVIOUS
  <2>1. new \in Row /\ new.state = "QUEUED" /\ new.error = NoError
    BY <1>0, <1>5, <2>0
  <2> QED BY <1>5, <2>1 DEF RowFits, ContractMove, Outcome
<1>6. CASE old.state = "QUEUED" /\ new = [old EXCEPT !.state = "RUNNING"] /\ u = t + 1
  <2>1. new \in Row /\ new.state = "RUNNING" /\ new.error = old.error
    BY <1>6
  <2> QED BY <1>6, <2>1 DEF RowFits, ContractMove, Outcome
<1>7. CASE /\ old.state = "RUNNING" /\ u = t
           /\ new = [old EXCEPT !.state = "SUCCEEDED", !.result = t, !.error = NoError]
  <2>1. new \in Row /\ new.state = "SUCCEEDED" /\ new.error = NoError /\ new.result = t
    BY <1>0, <1>7
  <2> QED BY <1>7, <2>1 DEF RowFits, ContractMove, Outcome
<1>8. ASSUME NEW e \in WorkerErrors, old.state = "RUNNING", u = t,
             new = [old EXCEPT !.state = "FAILED",
                      !.error = [cause |-> Cause(e), advice |-> classifyWorkerError(e), by |-> t]]
      PROVE  Goal
  <2> DEFINE err == [cause |-> Cause(e), advice |-> classifyWorkerError(e), by |-> t]
  <2>0. /\ Cause(e) \in Causes
        /\ classifyWorkerError(e) \in {"RETRYABLE", "NON_RETRYABLE"}
        /\ (classifyWorkerError(e) = "NON_RETRYABLE")
             = (Cause(e) \in {"definition", "artifact", "runtime"})
    BY ClassificationFits
  <2>1. /\ err \in Report
        /\ err.cause = Cause(e) /\ err.by = t /\ err.advice = classifyWorkerError(e)
    BY <2>0 DEF Report
  <2>2. new = [old EXCEPT !.state = "FAILED", !.error = err]
    BY <1>8
  <2> HIDE DEF err
  <2>6. Advised(err)
    BY <2>0, <2>1 DEF Advised
  <2>3. new \in Row /\ new.state = "FAILED" /\ new.error = err
    BY <2>1, <2>2
  <2>4. RowFits(new, t)
    BY <2>1, <2>3, <2>6 DEF RowFits
  <2>5. ContractMove(old, t, new, u)
    BY <1>8, <2>1, <2>3 DEF ContractMove, Outcome
  <2> QED BY <1>8, <2>3, <2>4, <2>5
<1> QED BY <1>1, <1>2, <1>3, <1>4, <1>5, <1>6, <1>7, <1>8 DEF RunMove, cancelled

\* A step changes one run at most.
RunStep ==
  \/ UNCHANGED <<runs, token>>
  \/ \E r \in Runs : \E new, u :
       /\ RunMove(runs[r], token[r], new, u)
       /\ runs' = [runs EXCEPT ![r] = new]
       /\ token' = [token EXCEPT ![r] = u]

\* The rows, and what the dispatcher keeps in memory.
RowsTyped == runs \in [Runs -> Row] /\ token \in [Runs -> Nat]

PassTyped ==
  /\ definition \in [state : {"ABSENT", "ACTIVE", "DELETED"}, enabled : BOOLEAN]
  /\ phase \in {"timer", "pass", "stopped", "down"}
  /\ stopping \in BOOLEAN
  /\ list \subseteq Runs
  /\ any \in [success : BOOLEAN, listed : BOOLEAN]
  /\ consecutiveFailures \in 0..MaxFailures
  /\ intervalMs \in Intervals /\ delay \in Delays
  /\ exec \subseteq Execution
  /\ \A x, y \in exec : x = y
  /\ exec # {} => phase = "pass"

LEMMA TypeParts == TypeOK <=> RowsTyped /\ PassTyped
<1> QED BY DEF TypeOK, RowsTyped, PassTyped, Row, State, Report, Causes, Delays, Execution

\* The three variables of the contract.
S == [r \in Runs |-> runs[r].state]
O == [r \in Runs |-> Outcome(runs[r])]

LEMMA MoveContract ==
  ASSUME NEW r \in Runs, RowsTyped, NEW new, NEW u,
         ContractMove(runs[r], token[r], new, u),
         runs' = [runs EXCEPT ![r] = new],
         token' = [token EXCEPT ![r] = u], u \in Nat
  PROVE  [Contract!ContractNext]_(Contract!cvars)
<1> DEFINE old == runs[r]
           t == token[r]
<1>1. /\ S' = [S EXCEPT ![r] = new.state]
      /\ O' = [O EXCEPT ![r] = Outcome(new)]
  BY DEF S, O, RowsTyped
<1>2. /\ S[r] = old.state /\ O[r] = Outcome(old)
      /\ token'[r] = u /\ t \in Nat
  BY DEF S, O, RowsTyped
<1>3. /\ S = [q \in Runs |-> runs[q].state]
      /\ O = [q \in Runs |-> CASE runs[q].state = "SUCCEEDED" -> runs[q].result
                               [] runs[q].state = "FAILED" -> runs[q].error.by
                               [] OTHER -> 0]
  BY DEF S, O, Outcome
<1>4. /\ S' = [q \in Runs |-> runs'[q].state]
      /\ O' = [q \in Runs |-> CASE runs'[q].state = "SUCCEEDED" -> runs'[q].result
                                [] runs'[q].state = "FAILED" -> runs'[q].error.by
                                [] OTHER -> 0]
  BY DEF S, O, Outcome
<1>5. S \in [Runs -> {S[q] : q \in Runs}] /\ O \in [Runs -> {O[q] : q \in Runs}]
  BY DEF S, O
<1> HIDE DEF S, O, old, t
<1>6. CASE new.state = old.state /\ u = t /\ Outcome(new) = Outcome(old)
  <2>1. S' = S /\ token' = token /\ O' = O
    BY <1>1, <1>2, <1>5, <1>6 DEF RowsTyped, old, t
  <2> QED BY <1>3, <1>4, <2>1 DEF Contract!cvars
<1>7. CASE /\ old.state = "ABSENT" /\ new.state = "QUEUED" /\ u = t
           /\ Outcome(new) = Outcome(old)
  <2>1. O' = O
    BY <1>1, <1>2, <1>5, <1>7
  <2>2. Contract!Submit(r)
    BY <1>1, <1>2, <1>3, <1>4, <1>7, <2>1 DEF Contract!Submit, Contract!Move
  <2> QED BY <2>2 DEF Contract!ContractNext
<1>8. CASE /\ old.state = "QUEUED" /\ new.state = "RUNNING" /\ u > t
           /\ Outcome(new) = Outcome(old)
  <2>1. O' = O
    BY <1>1, <1>2, <1>5, <1>8
  <2>2. /\ S' = [q \in Runs |-> IF q \in {r} THEN "RUNNING" ELSE S[q]]
        /\ token' = [q \in Runs |-> IF q \in {r} THEN token'[q] ELSE token[q]]
    BY <1>1, <1>2, <1>5, <1>8 DEF RowsTyped
  <2>3. token'[r] > token[r]
    BY <1>2, <1>8 DEF t
  <2>4. Contract!Claim({r})
    BY <1>2, <1>3, <1>4, <1>8, <2>1, <2>2, <2>3 DEF Contract!Claim
  <2> QED BY <2>4 DEF Contract!ContractNext
<1>9. CASE /\ old.state = "RUNNING" /\ new.state \in {"SUCCEEDED", "FAILED"} /\ u = t
           /\ Outcome(new) = t
  <2>1. token' = token
    BY <1>9 DEF RowsTyped, t
  <2>2. Contract!Complete(r)
    BY <1>1, <1>2, <1>3, <1>4, <1>9, <2>1 DEF Contract!Complete, Contract!Move, t
  <2> QED BY <2>2 DEF Contract!ContractNext
<1>10. CASE /\ \/ old.state = "QUEUED" /\ new.state = "CANCELLED"
               \/ old.state = "RUNNING" /\ new.state = "CANCELLING"
            /\ u = t /\ Outcome(new) = Outcome(old)
  <2>1. token' = token /\ O' = O
    BY <1>1, <1>2, <1>5, <1>10 DEF RowsTyped, t
  <2>2. Contract!Cancel(r)
    BY <1>1, <1>2, <1>3, <1>4, <1>10, <2>1 DEF Contract!Cancel, Contract!Move
  <2> QED BY <2>2 DEF Contract!ContractNext
<1>11. CASE old.state = "FAILED" /\ new.state = "QUEUED" /\ u > t /\ Outcome(new) = 0
  <2>1. token'[r] > token[r]
    BY <1>2, <1>11 DEF t
  <2>2. Contract!Retry(r)
    BY <1>1, <1>2, <1>3, <1>4, <1>11, <2>1 DEF Contract!Retry, Contract!Move
  <2> QED BY <2>2 DEF Contract!ContractNext
<1>12. ContractMove(old, t, new, u)
  BY DEF old, t
<1> QED
  BY <1>6, <1>7, <1>8, <1>9, <1>10, <1>11, <1>12 DEF ContractMove

\* A step that moves one run keeps the rows sound and is a step of the contract.
LEMMA StepFits ==
  ASSUME RowsTyped, RowsFit, RunStep
  PROVE  RowsTyped' /\ RowsFit' /\ [Contract!ContractNext]_(Contract!cvars)
<1>1. CASE UNCHANGED <<runs, token>>
  BY <1>1 DEF RowsTyped, RowsFit, Contract!cvars
<1>2. ASSUME NEW r \in Runs, NEW new, NEW u, RunMove(runs[r], token[r], new, u),
             runs' = [runs EXCEPT ![r] = new], token' = [token EXCEPT ![r] = u]
      PROVE  RowsTyped' /\ RowsFit' /\ [Contract!ContractNext]_(Contract!cvars)
  <2>1. runs[r] \in Row /\ token[r] \in Nat /\ RowFits(runs[r], token[r])
    BY DEF RowsTyped, RowsFit
  <2>2. new \in Row /\ u \in Nat /\ RowFits(new, u) /\ ContractMove(runs[r], token[r], new, u)
    BY <1>2, <2>1, MoveFits
  <2>3. RowsTyped'
    BY <1>2, <2>2 DEF RowsTyped
  <2>4. RowsFit'
    BY <1>2, <2>2 DEF RowsTyped, RowsFit
  <2>5. [Contract!ContractNext]_(Contract!cvars)
    BY <1>2, <2>2, MoveContract
  <2> QED BY <2>3, <2>4, <2>5
<1> QED BY <1>1, <1>2 DEF RunStep

-----------------------------------------------------------------------------
(* Every step moves one run at most *)

\* Creating, cancelling and retrying a run.
LEMMA RequestMoves ==
  ASSUME RowsTyped, NEW r \in Runs, createRun(r) \/ cancelRun(r) \/ retryRun(r)
  PROVE  RunStep
<1> DEFINE old == runs[r]
<1>0. runs = [runs EXCEPT ![r] = old] /\ token = [token EXCEPT ![r] = token[r]]
  BY DEF RowsTyped
<1>1. CASE createRun(r)
  BY <1>0, <1>1 DEF createRun, RunStep, RunMove
<1>2. CASE cancelRun(r)
  <2>1. CASE old.state = "QUEUED"
    BY <1>0, <1>2, <2>1 DEF cancelRun, RunStep, RunMove
  <2>2. CASE old.state = "RUNNING"
    BY <1>0, <1>2, <2>2 DEF cancelRun, RunStep, RunMove
  <2>3. CASE old.state \notin {"QUEUED", "RUNNING"}
    BY <1>0, <1>2, <2>3 DEF cancelRun, RunStep
  <2> QED BY <2>1, <2>2, <2>3
<1>3. CASE retryRun(r)
  <2> DEFINE new == [old EXCEPT !.state = "QUEUED", !.attempt = old.attempt + 1, !.error = NoError]
  <2>1. runs' = [runs EXCEPT ![r] = new]
    BY <1>3 DEF retryRun, RowsTyped, Row
  <2>2. token' = [token EXCEPT ![r] = token[r] + 1]
    BY <1>3 DEF retryRun, RowsTyped
  <2>3. RunMove(old, token[r], new, token[r] + 1)
    BY <1>3 DEF retryRun, RunMove
  <2> HIDE DEF new
  <2> QED BY <2>1, <2>2, <2>3 DEF RunStep
<1> QED BY <1>1, <1>2, <1>3

\* Claiming a run, and recording how its execution ended.
LEMMA DispatchMoves ==
  ASSUME RowsTyped, PassTyped, ExecFits, Take \/ Finish
  PROVE  RunStep
<1>1. ASSUME Take PROVE RunStep
  <2>1. PICK r \in list :
          /\ runs' = [runs EXCEPT ![r] = claimRun(@)]
          /\ IF runs[r].state = "QUEUED" THEN token' = [token EXCEPT ![r] = @ + 1]
             ELSE UNCHANGED token
    BY <1>1 DEF Take
  <2>2. r \in Runs
    BY DEF PassTyped
  <2>3. CASE runs[r].state = "QUEUED"
    <3>1. runs' = [runs EXCEPT ![r] = [runs[r] EXCEPT !.state = "RUNNING"]]
      BY <2>1, <2>3 DEF claimRun
    <3>2. token' = [token EXCEPT ![r] = token[r] + 1]
      BY <2>1, <2>3
    <3> QED BY <2>2, <2>3, <3>1, <3>2 DEF RunStep, RunMove
  <2>4. CASE runs[r].state # "QUEUED"
    BY <2>1, <2>2, <2>4 DEF claimRun, RunStep, RowsTyped
  <2> QED BY <2>3, <2>4
<1>2. ASSUME Succeed PROVE RunStep
  <2>1. PICK x \in exec : runs' = [runs EXCEPT ![x.run] = markSucceeded(@, x.token)] /\ token' = token
    BY <1>2 DEF Succeed
  <2>2. x.run \in Runs /\ x.token = token[x.run]
    BY DEF PassTyped, Execution, ExecFits
  <2>3. token' = [token EXCEPT ![x.run] = token[x.run]]
    BY <2>1, <2>2 DEF RowsTyped
  <2>4. runs' = [runs EXCEPT ![x.run] = markSucceeded(runs[x.run], token[x.run])]
    BY <2>1, <2>2
  <2>5. CASE runs[x.run].state = "RUNNING"
    <3>1. RunMove(runs[x.run], token[x.run], markSucceeded(runs[x.run], token[x.run]), token[x.run])
      BY <2>5 DEF markSucceeded, RunMove
    <3> QED BY <2>2, <2>3, <2>4, <3>1 DEF RunStep
  <2>6. CASE runs[x.run].state # "RUNNING"
    BY <2>1, <2>2, <2>4, <2>6 DEF markSucceeded, RunStep, RowsTyped
  <2> QED BY <2>5, <2>6
<1>3. ASSUME NEW e \in WorkerErrors, FailRun(e) PROVE RunStep
  <2>1. PICK x \in exec : runs' = [runs EXCEPT ![x.run] = markFailed(@, x.token, e)] /\ token' = token
    BY <1>3 DEF FailRun
  <2>2. x.run \in Runs /\ x.token = token[x.run]
    BY DEF PassTyped, Execution, ExecFits
  <2>3. token' = [token EXCEPT ![x.run] = token[x.run]]
    BY <2>1, <2>2 DEF RowsTyped
  <2>4. runs' = [runs EXCEPT ![x.run] = markFailed(runs[x.run], token[x.run], e)]
    BY <2>1, <2>2
  <2>5. CASE runs[x.run].state = "RUNNING"
    <3>1. RunMove(runs[x.run], token[x.run], markFailed(runs[x.run], token[x.run], e), token[x.run])
      BY <2>5 DEF markFailed, RunMove
    <3> QED BY <2>2, <2>3, <2>4, <3>1 DEF RunStep
  <2>6. CASE runs[x.run].state # "RUNNING"
    BY <2>1, <2>2, <2>4, <2>6 DEF markFailed, RunStep, RowsTyped
  <2> QED BY <2>5, <2>6
<1> QED BY <1>1, <1>2, <1>3 DEF Finish

\* The steps that leave rows and executions alone, or end the process.
LEMMA OtherSteps ==
  ASSUME \/ createDefinition \/ deleteDefinition \/ \E b \in BOOLEAN : patchDefinition(b)
         \/ BeginPass \/ PassFails \/ EndPass \/ Sigterm \/ Exit \/ Start
  PROVE  UNCHANGED <<runs, token>> /\ (exec' = exec \/ exec' = {})
<1> QED BY DEF createDefinition, deleteDefinition, patchDefinition, passVars, BeginPass, PassFails,
               EndPass, Sigterm, Exit, Start

LEMMA NextMoves ==
  ASSUME RowsTyped, PassTyped, ExecFits, Next
  PROVE  RunStep
<1> QED BY RequestMoves, DispatchMoves, OtherSteps DEF Next, RunStep

-----------------------------------------------------------------------------
(* The execution under way *)

LEMMA NextExec ==
  ASSUME RowsTyped, PassTyped, ExecFits, Next
  PROVE  ExecFits'
<1>1. ASSUME NEW r \in Runs, createRun(r) \/ cancelRun(r) \/ retryRun(r) PROVE ExecFits'
  <2>1. exec' = exec /\ \A x \in exec : x.run \in Runs
    BY <1>1 DEF createRun, cancelRun, retryRun, passVars, PassTyped, Execution
  <2>2. \A q \in Runs : q # r => runs'[q] = runs[q] /\ token'[q] = token[q]
    BY <1>1 DEF createRun, cancelRun, retryRun, RowsTyped
  <2>3. CASE runs[r].state \notin {"RUNNING", "CANCELLING"}
    BY <2>1, <2>2, <2>3 DEF ExecFits
  <2>4. CASE runs[r].state \in {"RUNNING", "CANCELLING"}
    <3>1. cancelRun(r)
      BY <1>1, <2>4 DEF createRun, retryRun
    <3>2. token' = token
      BY <3>1 DEF cancelRun
    <3>3. runs'[r].state = "CANCELLING"
      <4>1. CASE runs[r].state = "RUNNING"
        <5>1. runs'[r] = [runs[r] EXCEPT !.state = "CANCELLING"]
          BY <3>1, <4>1 DEF cancelRun, RowsTyped
        <5>2. runs[r] \in Row
          BY DEF RowsTyped
        <5> QED BY <5>1, <5>2 DEF Row
      <4>2. CASE runs[r].state = "CANCELLING"
        BY <3>1, <4>2 DEF cancelRun, RowsTyped
      <4> QED BY <2>4, <4>1, <4>2
    <3> QED BY <2>1, <2>2, <3>2, <3>3 DEF ExecFits
  <2> QED BY <2>3, <2>4
<1>2. CASE Take
  <2>1. PICK r \in list :
          /\ exec = {}
          /\ runs' = [runs EXCEPT ![r] = claimRun(@)]
          /\ IF runs[r].state = "QUEUED"
             THEN /\ token' = [token EXCEPT ![r] = @ + 1]
                  /\ exec' = {[run |-> r, token |-> token[r] + 1, metadata |-> buildExecutionMetadata]}
             ELSE UNCHANGED <<token, exec>>
    BY <1>2 DEF Take
  <2>2. r \in Runs
    BY DEF PassTyped
  <2>3. CASE runs[r].state = "QUEUED"
    <3>1. runs'[r] = [runs[r] EXCEPT !.state = "RUNNING"] /\ runs[r] \in Row
      BY <2>1, <2>2, <2>3 DEF claimRun, RowsTyped
    <3>2. runs'[r].state = "RUNNING"
      BY <3>1 DEF Row
    <3>3. token'[r] = token[r] + 1
      BY <2>1, <2>2, <2>3 DEF RowsTyped
    <3>4. \A x \in exec' : x.run = r /\ x.token = token[r] + 1
      BY <2>1, <2>3
    <3> QED BY <3>2, <3>3, <3>4 DEF ExecFits
  <2>4. CASE runs[r].state # "QUEUED"
    BY <2>1, <2>4 DEF ExecFits
  <2> QED BY <2>3, <2>4
<1>3. CASE Finish
  BY <1>3 DEF Finish, Succeed, FailRun, ExecFits
<1>4. CASE UNCHANGED <<runs, token>> /\ (exec' = exec \/ exec' = {})
  BY <1>4 DEF ExecFits
<1> QED BY <1>1, <1>2, <1>3, <1>4, OtherSteps DEF Next

-----------------------------------------------------------------------------
(* The dispatcher *)

\* The end of a pass keeps the dispatcher's fields typed and the delay that of the
\* failed passes.
LEMMA RescheduleFits ==
  ASSUME PassTyped, NEW f \in 0..MaxFailures, Reschedule(f)
  PROVE  /\ consecutiveFailures' \in 0..MaxFailures
         /\ intervalMs' = intervalMs /\ delay' \in Delays'
         /\ phase' \in {"timer", "stopped"}
         /\ phase' = "timer" => delay' = backoffMs(consecutiveFailures)'
<1>1. f \in Nat
  BY LocalAssumption
<1>2. backoffMs(f) \in Delays
  BY <1>1, BackoffGrows DEF PassTyped
<1>3. intervalMs' = intervalMs /\ Delays' = Delays
  BY DEF Reschedule, Delays
<1>4. backoffMs(consecutiveFailures)' = backoffMs(f)
  BY <1>3 DEF Reschedule, backoffMs
<1> QED BY <1>2, <1>3, <1>4 DEF Reschedule, PassTyped

\* The count of failed passes after a pass.
FailuresAfter ==
  CASE any.success -> 0
    [] any.listed /\ ~any.success -> OneMore(consecutiveFailures)
    [] OTHER -> consecutiveFailures

LEMMA FailuresTyped ==
  ASSUME PassTyped
  PROVE  /\ FailuresAfter \in 0..MaxFailures
         /\ ~any.success => NoShorter(consecutiveFailures, FailuresAfter)
<1>1. /\ consecutiveFailures \in 0..MaxFailures /\ 0 \in 0..MaxFailures
      /\ any.success \in BOOLEAN /\ any.listed \in BOOLEAN
      /\ intervalMs \in Intervals
  BY LocalAssumption DEF PassTyped
<1>2. /\ OneMore(consecutiveFailures) \in 0..MaxFailures
      /\ NoShorter(consecutiveFailures, OneMore(consecutiveFailures))
  BY <1>1, OneMoreGrows
<1>3. backoffMs(consecutiveFailures) \in Int
  BY <1>1, BackoffGrows, DelaysAreNumbers, LocalAssumption
<1>4. CASE any.success
  BY <1>1, <1>4 DEF FailuresAfter
<1>5. CASE any.listed /\ ~any.success
  BY <1>2, <1>5 DEF FailuresAfter
<1>6. CASE ~any.listed /\ ~any.success
  <2>1. FailuresAfter = consecutiveFailures
    BY <1>6 DEF FailuresAfter
  <2> QED BY <1>1, <1>3, <2>1 DEF NoShorter
<1> QED BY <1>1, <1>4, <1>5, <1>6

\* A new process starts with the delay of no failed pass.
LEMMA FirstDelay == backoffMs(0) = intervalMs
<1>1. BackoffThreshold \in Nat /\ 0 < BackoffThreshold
  BY LocalAssumption
<1> QED BY <1>1 DEF backoffMs

\* The steps that set no timer.
LEMMA SameDelays ==
  UNCHANGED <<intervalMs, consecutiveFailures>> =>
    Delays' = Delays /\ backoffMs(consecutiveFailures)' = backoffMs(consecutiveFailures)
<1> QED BY DEF Delays, backoffMs

LEMMA NextPass ==
  ASSUME RowsTyped, PassTyped, DelayFits, Next
  PROVE  PassTyped' /\ DelayFits'
<1> USE DEF PassTyped, DelayFits
<1>1. ASSUME NEW r \in Runs, createRun(r) \/ cancelRun(r) \/ retryRun(r)
      PROVE  PassTyped' /\ DelayFits'
  BY <1>1, SameDelays DEF createRun, cancelRun, retryRun, passVars
<1>2. ASSUME createDefinition \/ deleteDefinition \/ \E b \in BOOLEAN : patchDefinition(b)
      PROVE  PassTyped' /\ DelayFits'
  <2>1. CASE createDefinition
    BY <2>1, SameDelays DEF createDefinition, passVars
  <2>2. CASE deleteDefinition
    BY <2>2, SameDelays DEF deleteDefinition, passVars
  <2>3. ASSUME NEW b \in BOOLEAN, patchDefinition(b)
        PROVE  PassTyped' /\ DelayFits'
    <3>1. definition' = [definition EXCEPT !.enabled = b]
      BY <2>3 DEF patchDefinition
    <3>2. definition' \in [state : {"ABSENT", "ACTIVE", "DELETED"}, enabled : BOOLEAN]
      BY <3>1
    <3> QED BY <2>3, <3>2, SameDelays DEF patchDefinition, passVars
  <2> QED BY <1>2, <2>1, <2>2, <2>3
<1>3. CASE BeginPass
  BY <1>3, SameDelays DEF BeginPass, listQueuedRunIds, Queued
<1>4. CASE PassFails
  <2>1. OneMore(consecutiveFailures) \in 0..MaxFailures
    BY OneMoreGrows
  <2>2. Reschedule(OneMore(consecutiveFailures))
    BY <1>4 DEF PassFails
  <2>3. exec = {}
    BY <1>4 DEF PassFails
  <2> QED BY <1>4, <2>1, <2>2, <2>3, RescheduleFits DEF PassFails
<1>5. CASE EndPass
  <2>1. FailuresAfter \in 0..MaxFailures
    BY FailuresTyped
  <2>2. Reschedule(FailuresAfter)
    BY <1>5 DEF EndPass, FailuresAfter
  <2> QED BY <1>5, <2>1, <2>2, RescheduleFits DEF EndPass
<1>6. CASE Take
  <2>1. PICK r \in list :
          /\ phase = "pass" /\ list' = list \ {r}
          /\ IF runs[r].state = "QUEUED"
             THEN /\ exec' = {[run |-> r, token |-> token[r] + 1, metadata |-> buildExecutionMetadata]}
                  /\ UNCHANGED any
             ELSE /\ any' = [any EXCEPT !.success = TRUE]
                  /\ UNCHANGED <<token, exec>>
          /\ UNCHANGED <<definition, phase, stopping, consecutiveFailures, intervalMs, delay>>
    BY <1>6 DEF Take
  <2>2. r \in Runs /\ token[r] + 1 \in Nat
    BY DEF RowsTyped
  <2>3. buildExecutionMetadata \in {"ok", "DEFINITION_NOT_FOUND", "DEFINITION_NOT_ACTIVE"}
    BY DEF buildExecutionMetadata
  <2>4. CASE runs[r].state = "QUEUED"
    BY <2>1, <2>2, <2>3, <2>4, SameDelays DEF Execution
  <2>5. CASE runs[r].state # "QUEUED"
    BY <2>1, <2>5, SameDelays
  <2> QED BY <2>4, <2>5
<1>7. CASE Finish
  BY <1>7, SameDelays DEF Finish, Succeed, FailRun
<1>8. CASE Sigterm
  BY <1>8, SameDelays DEF Sigterm, Up
<1>9. CASE Exit
  BY <1>9, SameDelays DEF Exit
<1>10. CASE Start
  <2>1. 0 \in 0..MaxFailures
    BY LocalAssumption
  <2>2. intervalMs' \in Intervals /\ delay' = intervalMs' /\ consecutiveFailures' = 0
    BY <1>10 DEF Start
  <2>3. delay' \in Delays'
    BY <2>2 DEF Delays
  <2>4. backoffMs(consecutiveFailures)' = intervalMs'
    <3>1. BackoffThreshold \in Nat /\ 0 < BackoffThreshold
      BY LocalAssumption
    <3> QED BY <2>2, <3>1 DEF backoffMs
  <2> QED BY <1>10, <2>1, <2>2, <2>3, <2>4 DEF Start
<1> QED BY <1>1, <1>2, <1>3, <1>4, <1>5, <1>6, <1>7, <1>8, <1>9, <1>10 DEF Next

-----------------------------------------------------------------------------
(* The results *)

LEMMA LInvInit == Init => LInv
<1> SUFFICES ASSUME Init PROVE LInv
  OBVIOUS
<1>1. NoError \in Report
  BY DEF NoError, Report, Causes
<1>2. RowsTyped
  BY <1>1 DEF Init, RowsTyped, NoRow, Row, State
<1>3. RowsFit /\ ExecFits
  BY DEF Init, RowsFit, RowFits, NoRow, ExecFits
<1>4. 0 \in 0..MaxFailures
  BY LocalAssumption
<1>5. PassTyped
  BY <1>4 DEF Init, PassTyped, Delays
<1>6. DelayFits
  BY FirstDelay DEF Init, DelayFits
<1> QED BY <1>2, <1>3, <1>5, <1>6, TypeParts DEF LInv

LEMMA LInvNext == LInv /\ [Next]_vars => LInv'
<1>1. ASSUME LInv, Next PROVE LInv'
  <2>1. RowsTyped /\ PassTyped
    BY <1>1, TypeParts DEF LInv
  <2>2. RunStep
    BY <1>1, <2>1, NextMoves DEF LInv
  <2>3. RowsTyped' /\ RowsFit'
    BY <1>1, <2>1, <2>2, StepFits DEF LInv
  <2>4. PassTyped' /\ DelayFits'
    BY <1>1, <2>1, NextPass DEF LInv
  <2>5. ExecFits'
    BY <1>1, <2>1, NextExec DEF LInv
  <2>6. TypeOK'
    <3>1. (TypeOK <=> RowsTyped /\ PassTyped)'
      BY TypeParts, PTL
    <3> QED BY <2>3, <2>4, <3>1
  <2> QED BY <2>3, <2>4, <2>5, <2>6 DEF LInv
<1>2. ASSUME LInv, UNCHANGED vars PROVE LInv'
  BY <1>2, SameDelays DEF vars, LInv, TypeOK, RowsFit, ExecFits, DelayFits
<1> QED BY <1>1, <1>2

\* The rows, the execution under way and the dispatcher's delay always fit each
\* other.
THEOREM LocalInvariance == Spec => []LInv
<1> QED BY LInvInit, LInvNext, PTL DEF Spec

\* The rows of job_runs and the fields of the dispatcher hold values of their
\* types, its delay lies between the interval and the maximum or is one of the two,
\* whichever is the greater, and a pass executes one run at a time.
THEOREM LocalTypes == Spec => []TypeOK
<1>1. LInv => TypeOK
  BY DEF LInv
<1> QED BY <1>1, LocalInvariance, PTL

\* A failed run of the local queue carries the advice of the attempt that failed
\* last: not to retry for what the checks before the job or its output showed,
\* to retry for every other error, damage found while unpacking the zip included.
THEOREM AdviceSound == Spec => []AdviceIsSound
<1>1. LInv => AdviceIsSound
  BY DEF LInv, RowsFit, RowFits, Advised, AdviceIsSound
<1> QED BY <1>1, LocalInvariance, PTL

\* The dispatcher's delay shrinks only after a pass in which some run got through,
\* in a new process, or from an interval above the maximum to the maximum.
THEOREM BackoffKept == Spec => BackoffIsKept
<1> DEFINE Excused == \/ any.success
                      \/ phase = "down"
                      \/ intervalMs > MaxBackoffMs /\ delay' = MaxBackoffMs
<1>1. ASSUME LInv, Next, delay' < delay PROVE Excused
  <2>1. PassTyped /\ DelayFits
    BY <1>1, TypeParts DEF LInv
  <2>2. /\ delay \in Int /\ delay' # delay
        /\ intervalMs \in Intervals /\ consecutiveFailures \in 0..MaxFailures
    BY <1>1, <2>1, DelaysAreNumbers DEF PassTyped
  <2>3. PassFails \/ EndPass \/ Start
    BY <1>1, <2>2 DEF Next, createRun, cancelRun, retryRun, createDefinition, deleteDefinition,
       patchDefinition, passVars, BeginPass, Take, Finish, Succeed, FailRun, Sigterm, Exit
  <2>4. CASE PassFails
    <3>1. phase = "timer" /\ delay' = backoffMs(OneMore(consecutiveFailures))
      BY <2>2, <2>4 DEF PassFails, Reschedule
    <3>2. delay = backoffMs(consecutiveFailures)
      BY <2>1, <3>1 DEF DelayFits
    <3>3. NoShorter(consecutiveFailures, OneMore(consecutiveFailures))
      BY <2>2, OneMoreGrows
    <3>4. delay' \in Int
      BY <2>2, <3>1, OneMoreGrows, BackoffGrows, DelaysAreNumbers, LocalAssumption
    <3> QED BY <1>1, <2>2, <3>1, <3>2, <3>3, <3>4 DEF NoShorter
  <2>5. CASE EndPass
    <3>1. phase = "pass" /\ delay' = backoffMs(FailuresAfter)
      BY <2>2, <2>5 DEF EndPass, Reschedule, FailuresAfter
    <3>2. delay = backoffMs(consecutiveFailures)
      BY <2>1, <3>1 DEF DelayFits
    <3>3. ~any.success => NoShorter(consecutiveFailures, FailuresAfter)
      BY <2>1, FailuresTyped
    <3>4. delay' \in Int
      BY <2>1, <2>2, <3>1, FailuresTyped, BackoffGrows, DelaysAreNumbers, LocalAssumption
    <3> QED BY <1>1, <2>2, <3>1, <3>2, <3>3, <3>4 DEF NoShorter
  <2>6. CASE Start
    BY <2>6 DEF Start
  <2> QED BY <2>3, <2>4, <2>5, <2>6
<1>2. LInv /\ [Next]_vars => [delay' < delay => Excused]_vars
  BY <1>1
<1> QED BY <1>2, LocalInvariance, PTL DEF Spec, BackoffIsKept

\* Without dispatch ids and without fences the local queue records an outcome once,
\* for the attempt in force: it implements the contract the Postgres queue keeps.
THEOREM LocalQueueImplementsContract == Spec => LocalImplementsContract
<1>1. Init => Contract!ContractInit
  BY DEF Init, NoRow, NoError, Contract!ContractInit
<1>2. ASSUME LInv, [Next]_vars PROVE [Contract!ContractNext]_(Contract!cvars)
  <2>1. RowsTyped /\ PassTyped
    BY <1>2, TypeParts DEF LInv
  <2>2. RunStep
    BY <1>2, <2>1, NextMoves DEF LInv, RunStep, vars
  <2> QED BY <1>2, <2>1, <2>2, StepFits DEF LInv
<1> QED
  BY <1>1, <1>2, LocalInvariance, PTL DEF Spec, LocalImplementsContract, Contract!ContractSpec
=============================================================================
