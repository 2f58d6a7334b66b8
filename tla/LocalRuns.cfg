SPECIFICATION FairSpec
CONSTANTS
  Runs = {1, 2}
  BatchSize = 2
  Intervals = {1, 5}
  MaxBackoffMs = 3
  BackoffThreshold = 1
  MaxAttempts = 2
  MaxFailures = 3
INVARIANTS TypeOK AdviceIsSound
PROPERTIES LocalImplementsContract BackoffIsKept QueuedIsServed
