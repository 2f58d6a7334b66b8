----------------------------- MODULE Scheduling -----------------------------
(***************************************************************************)
(* Scheduling as a whole: concurrent ticks, the clock, and API calls that  *)
(* create, patch, pause, resume and delete instances meanwhile.            *)
(***************************************************************************)
EXTENDS InstanceControl

vars == <<instanceVars, tickVars, editVars>>

Init == InstanceInit /\ TickInit /\ InstanceControlInit

Next ==
  \/ ClockTick /\ UNCHANGED <<tickVars, editVars>>
  \/ TickNext /\ UNCHANGED editVars
  \/ InstanceControlNext

Spec == Init /\ [][Next]_vars

-----------------------------------------------------------------------------
(* Safety *)

\* The columns of job_instances, the ticks and the edits in flight hold values of
\* their types; in particular next_fire_at is never NULL, which no tick would find.
TypeOK == InstanceTypeOK /\ TickTypeOK /\ InstanceControlTypeOK

\* next_fire_at is advanced by ticks and recomputed or written back by patches,
\* and a stale write may undo a tick's advance.  Even so every fire time of the
\* schedule that next_fire_at has passed since it was last computed from the
\* clock has exactly one run, and no fire time ever has two (buildRunId,
\* createRunTx, the savepoints of tick).
Passed(row) == {s \in row.schedule : row.since <= s /\ s < row.next}

SlotsFireOnce ==
  /\ \A i \in Instances : \A s \in Passed(inst[i]) : s <= clock /\ fired[i][s] = 1
  /\ \A i \in Instances, s \in Times : fired[i][s] <= 1

\* schedule and next_fire_at are written by ticks and by racing patches, and
\* still belong together: an instance fires at times of its own schedule only
\* (patchInstance, advanceInstance).
NextFitsSchedule ==
  \A i \in Instances : inst[i].state # "ABSENT" => inst[i].next \in inst[i].schedule

\* Ticks work on disjoint sets of instances, and what a tick read of an instance
\* it locked is still so when it commits: ACTIVE, due, and about to get a later
\* fire time (claimDueInstances FOR UPDATE SKIP LOCKED).
TicksAreExclusive ==
  /\ \A p, q \in Ticks : p # q => tick[p].locked \cap tick[q].locked = {}
  /\ \A p \in Ticks : \A i \in tick[p].locked :
       inst[i].state = "ACTIVE" /\ inst[i].next <= clock

-----------------------------------------------------------------------------
(* Liveness *)

TickFrom(p) == TickNext /\ tick'[p] # tick[p]

\* Cloud Scheduler keeps calling, a tick that has begun ends, and ticks do not
\* fail on an instance, or fail to commit what they did for it, every time.  Which
\* of several overlapping ticks makes the progress is left open.
TickFairness ==
  /\ WF_vars((\E p \in Ticks : TickBegin(p)) /\ UNCHANGED editVars)
  /\ \A p \in Ticks : WF_vars(TickFrom(p) /\ UNCHANGED editVars)
  /\ \A i \in Instances :
       /\ SF_vars((\E p \in Ticks : TickItem(p, i)) /\ UNCHANGED editVars)
       /\ SF_vars((\E p \in Ticks : i \in tick[p].done /\ TickCommit(p))
                  /\ UNCHANGED editVars)

\* Once the API calls stop (a caller that keeps writing old rows back can hold
\* the whole batch for itself), every active instance that is due gets the run
\* of its fire time, however many more are due than a batch takes.
Quiet == \A c \in Callers : edits[c] = NoInstanceCall

DueInstanceFires ==
  <>[]Quiet =>
    \A i \in Instances, s \in Times :
      (inst[i].state = "ACTIVE" /\ inst[i].next = s /\ s <= clock)
        ~> (fired[i][s] = 1 \/ inst[i].state # "ACTIVE" \/ inst[i].next # s)

-----------------------------------------------------------------------------
(* A statement of the documentation that the code departs from *)

\* Fire time s of an active instance has gone by, and no tick is at work on it.
Missed(i, s) ==
  /\ inst[i].state = "ACTIVE" /\ ~TickLocked(i)
  /\ s \in inst[i].schedule /\ inst[i].next <= s /\ s < clock
  /\ fired[i][s] = 0

\* docs/bug-log.md, resolution of COR-6: "there is no occurrence-by-occurrence
\* backlog/replay loop that would produce a herd of runs after an outage".  Of two
\* fire times that went by while nobody ticked at most one gets a run.
NoBacklogReplay ==
  \A i \in Instances, s, u \in Times :
    s < u => [](Missed(i, s) /\ Missed(i, u) => [](fired[i][s] + fired[i][u] <= 1))
=============================================================================
