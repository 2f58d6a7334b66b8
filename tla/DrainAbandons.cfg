SPECIFICATION Spec
CONSTANTS
  Workers = {w1}
  Operators = {}
  Schedulers = {}
  MaxRuns = 1
  MaxDispatch = 1
  MaxConcurrency = 1
PROPERTIES DrainAbandonsNothing
