\* Expected violation: two active runs in one thread.
CONSTANTS
  NoAgent = NoAgent
  Runs = {r1, r2}
  Workers = {w1}
  Executors = {e1}
  ServerRuns = {r1}
  CapableRuns = {r1}
  SnapshotRuns = {r1}
  Kinds = {}
  ThreadOf <- OneThread
  KeyOf <- OwnKey
  Serves <- ServesAll
  MaxConcurrent <- OneAtATime
  Quota = 2
SPECIFICATION Spec
INVARIANT ThreadSerialized
CHECK_DEADLOCK FALSE
