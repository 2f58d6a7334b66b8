SPECIFICATION MCSpec
CONSTANTS
  Instances = {i1}
  Schedules <- OneSchedule
  MaxTime = 3
  Ticks = {p1}
  BatchSize = 1
  Callers = {c1}
  MaxEdits = 1
CHECK_DEADLOCK FALSE
PROPERTIES NoBacklogReplay
