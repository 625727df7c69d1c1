\* Expected violation: the only worker waits for the answer it should expire.
CONSTANTS
  Scenes = {"worker"}
  Workers = {w1}
  Chunks = {1}
  StoreFaults = 0
  Versioned = {1}
  NoAgent = NoAgent
  NoLease = NoLease
  ServerId = ServerId
  NoWorker = NoWorker
  NoTime = NoTime
  NoEdit = NoEdit
  NoJob = NoJob
  NoManifest = NoManifest
SPECIFICATION Spec
PROPERTY RequestsExpire
CHECK_DEADLOCK FALSE
