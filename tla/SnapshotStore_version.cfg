\* Expected violation: a version is created while its snapshot is being deleted.
CONSTANTS
  Scenes = {"snapshots"}
  Workers = {w1}
  Chunks = {1, 2}
  StoreFaults = 0
  Versioned = {1, 2}
  NoAgent = NoAgent
  NoLease = NoLease
  ServerId = ServerId
  NoWorker = NoWorker
  NoTime = NoTime
  NoEdit = NoEdit
  NoJob = NoJob
  NoManifest = NoManifest
SPECIFICATION Spec
INVARIANT RetainedByVersion
CHECK_DEADLOCK FALSE
