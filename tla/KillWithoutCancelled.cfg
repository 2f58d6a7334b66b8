SPECIFICATION WorkedSpec
CONSTANTS
  Workers = {w1}
  Operators = {o1}
  Schedulers = {s1}
  MaxRuns = 1
  MaxDispatch = 1
  MaxConcurrency = 1
PROPERTIES KilledRunIsCancelled
