SPECIFICATION Spec
CONSTANTS
  Workers = {w1, w2}
  Operators = {o1}
  Schedulers = {s1, s2}
  MaxRuns = 1
  MaxDispatch = 3
  MaxConcurrency = 2
SYMMETRY Symmetry
INVARIANTS TypeOK OutcomeIsCurrent OneHolderPerRun InFlightHasStart ClaimsAreExclusive
PROPERTIES OutcomesAreFinal ImplementsContract SweepSparesFreshClaims
