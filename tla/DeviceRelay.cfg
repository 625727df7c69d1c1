\* Two model turns, the first may ask for an approval and the second for an input, a log that may exceed one batch, one lost connection.
CONSTANTS
  MaxSteps = 2
  Batch = 3
  Approvals = {1}
  MaxDrops = 1
  MaxFaults = 1
SPECIFICATION Spec
INVARIANTS TypeOK RelayedInOrder CompleteUnlessCut AliveUnlessAnswered RefusedOnlyIfWaiting
CHECK_DEADLOCK FALSE
PROPERTY EndReported
