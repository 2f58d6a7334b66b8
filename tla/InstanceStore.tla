---------------------------- MODULE InstanceStore ----------------------------
(***************************************************************************)
(* The Postgres table job_instances (src/src/stores/instanceStore.js), the *)
(* run ids the tick has inserted into job_runs, and the wall clock.        *)
(*                                                                         *)
(* A schedule is the set of its fire times.  The column enabled is left    *)
(* out: every write of the code sets it to (state = 'ACTIVE').             *)
(***************************************************************************)
EXTENDS Integers, FiniteSets

CONSTANTS Instances,  \* instance ids
          Schedules,  \* cron schedules, as sets of fire times
          MaxTime     \* bound: the last instant of the clock

\* Every schedule has a next fire time at every instant of the clock.
ASSUME InstanceStoreAssumption ==
  /\ MaxTime \in Nat
  /\ Schedules \subseteq SUBSET Nat /\ Schedules # {}
  /\ \A schedule \in Schedules : \A t \in 0..MaxTime :
       \E s \in schedule : s > t /\ \A u \in schedule : u > t => s <= u

VARIABLES clock,   \* now
          inst,    \* the rows of job_instances
          fired    \* per instance and fire time, the runs inserted for it

instanceVars == <<clock, inst, fired>>

Times == 0..MaxTime
Never == -1   \* SQL NULL

\* since is auxiliary: the fire time next_fire_at was last computed to from the
\* clock, by a create, a resume or a change of schedule.
InstanceRow ==
  [state : {"ABSENT", "ACTIVE", "PAUSED", "DELETED"}, schedule : Schedules,
   next : Nat, last : Int, since : Nat]

NoInstance ==
  [state |-> "ABSENT", schedule |-> CHOOSE schedule \in Schedules : TRUE,
   next |-> 0, last |-> Never, since |-> 0]

\* computeNextFireAt: the first fire time after t.
NextFire(schedule, t) ==
  CHOOSE s \in schedule : s > t /\ \A u \in schedule : u > t => s <= u

InstanceTypeOK ==
  /\ clock \in Times
  /\ inst \in [Instances -> InstanceRow]
  /\ fired \in [Instances -> [Times -> Nat]]

InstanceInit ==
  /\ clock = 0
  /\ inst = [i \in Instances |-> NoInstance]
  /\ fired = [i \in Instances |-> [t \in Times |-> 0]]

\* createRunTx: the run id is instanceId:scheduledFireTime, the primary key,
\* and the insert does nothing on a conflict.
InsertRun(count) == IF count = 0 THEN 1 ELSE count

\* Plausible bug: next_fire_at is cleared when its run is inserted.
AdvanceToNever(row) == [row EXCEPT !.last = row.next, !.next = Never]

\* Plausible bug: the next fire time is computed from the clock, as by a patch.
AdvanceFromClock(row) ==
  [row EXCEPT !.last = row.next, !.next = NextFire(row.schedule, clock)]

\* advanceInstance, with the fire time that follows the one that is due.
AdvancedRow(row) ==
  [row EXCEPT !.last = row.next, !.next = NextFire(row.schedule, row.next)]

ClockTick ==
  /\ clock < MaxTime
  /\ clock' = clock + 1
  /\ UNCHANGED <<inst, fired>>
=============================================================================
