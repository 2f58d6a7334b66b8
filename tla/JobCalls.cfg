SPECIFICATION JobFairSpec
CONSTANTS
  Run = {1}
  Calls = {"c1"}
  Requests <- MCRequests
  MaxTokens = 2
  MaxDispatch = 2
INVARIANTS JobClientTypeOK CarriedOutOnce CallCarriedOutOnce RetryHasNewerToken
PROPERTIES AttemptsActInOrder RequestsEnd CallsEnd
