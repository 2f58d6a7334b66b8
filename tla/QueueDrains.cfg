SPECIFICATION SweptSpec
CONSTANTS
  Workers = {w1}
  Operators = {o1}
  Schedulers = {s1}
  MaxRuns = 2
  MaxDispatch = 1
  MaxConcurrency = 1
INVARIANTS ConcurrencyCap
PROPERTIES InFlightEnds QueuedIsTaken
