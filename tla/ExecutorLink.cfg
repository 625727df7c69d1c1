\* One agent that reconnects over one connection, two runs.
CONSTANTS
  NoAgent = NoAgent
  NoConn = NoConn
  NoLease = NoLease
  Runs = {r1, r2}
  Workers = {}
  Executors = {e1}
  ServerRuns = {}
  CapableRuns = {}
  SnapshotRuns = {}
  Kinds = {}
  Conns = {c1}
  MaxInFlight = 1
  Outcomes = {"completed"}
  ThreadOf <- OwnKey
  KeyOf <- OwnKey
  Serves <- ServesAll
  MaxConcurrent <- OneAtATime
  ExecutorOf <- OneAgent
  Quota = 2
SPECIFICATION FairLinkSpec
INVARIANTS LinkTypeOK NoSecondLease ResultOfActiveLease
PROPERTY IdleExecutorServed
CHECK_DEADLOCK FALSE
