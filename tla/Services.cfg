\* Two workers, one shared chunk, one fault of the object store.
CONSTANTS
  Scenes = {"worker", "log", "schedules", "snapshots"}
  Workers = {w1, w2}
  Chunks = {1}
  StoreFaults = 1
  Versioned = {1}
  NoAgent = NoAgent
  NoLease = NoLease
  ServerId = ServerId
  NoWorker = NoWorker
  NoTime = NoTime
  NoEdit = NoEdit
  NoJob = NoJob
  NoManifest = NoManifest
SPECIFICATION Spec
INVARIANTS TypeOK InDoubtIsUnsafe LogSound OccurrencesOnce SnapshotsSound
PROPERTY Served
CHECK_DEADLOCK FALSE
