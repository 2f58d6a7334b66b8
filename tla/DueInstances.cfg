SPECIFICATION MCSpec
CONSTANTS
  Instances = {i1, i2}
  Schedules <- TwoSchedules
  MaxTime = 2
  Ticks = {p1, p2}
  BatchSize = 1
  Callers = {c1}
  MaxEdits = 3
CHECK_DEADLOCK FALSE
INVARIANTS TypeOK SlotsFireOnce NextFitsSchedule TicksAreExclusive
PROPERTIES DueInstanceFires
