\* A server run and an external run of one thread, with approvals.
CONSTANTS
  NoAgent = NoAgent
  Runs = {r1, r2}
  Workers = {w1}
  Executors = {e1}
  ServerRuns = {r1}
  CapableRuns = {r1}
  SnapshotRuns = {r2}
  Kinds = {"approval"}
  ThreadOf <- OneThread
  KeyOf <- OwnKey
  Serves <- ServesAll
  MaxConcurrent <- OneAtATime
  Quota = 2
SPECIFICATION Spec
INVARIANTS TypeOK LeaseMatchesState DispatchedOnce SerialUnlessOvertaken WaitsForOpenRequest
PROPERTIES LegalTransitions ImplementsPhases
CHECK_DEADLOCK FALSE
