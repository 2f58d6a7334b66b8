----------------------------- MODULE MCScheduling -----------------------------
(* Schedules and the bound on API edits for the runs of Scheduling. *)
EXTENDS Scheduling, TLC

CONSTANT MaxEdits   \* bound: API edits ever begun

ASSUME MCSchedulingAssumption == MaxEdits \in Nat

VARIABLE begun   \* API edits begun so far

\* Every instant, and every other one; both have a fire time after the clock.
EveryInstant == 1..(MaxTime + 1)
EveryOther == {t \in 1..(MaxTime + 2) : t % 2 = 0}

TwoSchedules == {EveryInstant, EveryOther}
OneSchedule == {EveryInstant}

EditBegins == \E c \in Callers : edits[c] = NoInstanceCall /\ edits'[c] # NoInstanceCall

MCInit == Init /\ begun = 0

MCNext ==
  /\ Next
  /\ \/ EditBegins /\ begun < MaxEdits /\ begun' = begun + 1
     \/ ~EditBegins /\ UNCHANGED begun

MCSpec == MCInit /\ [][MCNext]_<<vars, begun>> /\ TickFairness
=============================================================================
