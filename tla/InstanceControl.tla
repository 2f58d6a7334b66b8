--------------------------- MODULE InstanceControl ---------------------------
(***************************************************************************)
(* JobInstanceService (src/src/services/jobInstanceService.js): create,    *)
(* patch (pause and resume are patches) and delete.  A patch reads the     *)
(* whole row, computes the new one and writes every column back without a  *)
(* condition, so what happens between read and write is overwritten; the   *)
(* write waits for a row a tick has locked.                                *)
(***************************************************************************)
EXTENDS SchedulerTick

CONSTANT Callers   \* concurrent API edits

VARIABLE edits   \* per caller, the write it is about to send

editVars == <<edits>>

NoInstanceCall == [op |-> "none"]

InstanceCall ==
  [op : {"create", "update"}, inst : Instances, row : InstanceRow] \cup {NoInstanceCall}

InstanceControlTypeOK == edits \in [Callers -> InstanceCall]

InstanceControlInit == edits = [c \in Callers |-> NoInstanceCall]

Prepare(c, op, i, row) ==
  /\ edits[c] = NoInstanceCall
  /\ edits' = [edits EXCEPT ![c] = [op |-> op, inst |-> i, row |-> row]]
  /\ UNCHANGED <<instanceVars, tickVars>>

\* The state that goes with enabled.
StateOf(enabled) == IF enabled THEN "ACTIVE" ELSE "PAUSED"

\* The row with its next fire time computed from the clock.
Rescheduled(row, schedule) ==
  [row EXCEPT !.schedule = schedule, !.next = NextFire(schedule, clock),
              !.since = NextFire(schedule, clock)]

\* createInstance up to the INSERT: the definition was found active.
CreateInstance(c, i, schedule, enabled) ==
  Prepare(c, "create", i,
          Rescheduled([inst[i] EXCEPT !.state = StateOf(enabled), !.last = Never], schedule))

\* Plausible bug: only a resume computes the next fire time again.
PatchKeepingNext(row, enabled, schedule) ==
  [row EXCEPT !.state = StateOf(enabled), !.schedule = schedule]

\* patchInstance with a new schedule, on a row that stays enabled or not.
PatchedSchedule(row, enabled, schedule) ==
  Rescheduled([row EXCEPT !.state = StateOf(enabled)], schedule)

PatchSchedule(c, i, enabled, schedule) ==
  /\ inst[i].state # "ABSENT"
  /\ Prepare(c, "update", i, PatchedSchedule(inst[i], enabled, schedule))

\* patchInstance that turns the instance on: resumeInstance.
ResumeInstance(c, i) ==
  /\ inst[i].state # "ABSENT"
  /\ Prepare(c, "update", i,
             Rescheduled([inst[i] EXCEPT !.state = "ACTIVE"], inst[i].schedule))

\* patchInstance of anything else: next_fire_at is written back as it was read.
\* pauseInstance, and a patch of the parameters alone.
PatchInstance(c, i, enabled) ==
  /\ inst[i].state # "ABSENT"
  /\ enabled => inst[i].state = "ACTIVE"
  /\ Prepare(c, "update", i, [inst[i] EXCEPT !.state = StateOf(enabled)])

DeleteInstance(c, i) ==
  /\ inst[i].state # "ABSENT"
  /\ Prepare(c, "update", i, [inst[i] EXCEPT !.state = "DELETED"])

\* INSERT ... ON CONFLICT DO UPDATE ... WHERE state = 'DELETED', or the
\* unconditional UPDATE of updateInstance.
WriteInstance(c) ==
  LET i == edits[c].inst IN
  /\ edits[c] # NoInstanceCall
  /\ ~TickLocked(i)
  /\ inst' = IF edits[c].op = "create" /\ inst[i].state \notin {"ABSENT", "DELETED"}
             THEN inst
             ELSE [inst EXCEPT ![i] = edits[c].row]
  /\ edits' = [edits EXCEPT ![c] = NoInstanceCall]
  /\ UNCHANGED <<clock, fired, tickVars>>

\* The statement throws, or the process dies first.
InstanceCallError(c) ==
  /\ edits[c] # NoInstanceCall
  /\ edits' = [edits EXCEPT ![c] = NoInstanceCall]
  /\ UNCHANGED <<instanceVars, tickVars>>

InstanceControlNext ==
  \E c \in Callers :
    \/ \E i \in Instances, schedule \in Schedules, enabled \in BOOLEAN :
         \/ CreateInstance(c, i, schedule, enabled)
         \/ PatchSchedule(c, i, enabled, schedule)
    \/ \E i \in Instances :
         \/ ResumeInstance(c, i)
         \/ \E enabled \in BOOLEAN : PatchInstance(c, i, enabled)
         \/ DeleteInstance(c, i)
    \/ WriteInstance(c)
    \/ InstanceCallError(c)
=============================================================================
