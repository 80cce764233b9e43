CONSTANTS
  Keys = {k1}
  Submitters = {r1, r2}
  MayCancel = {r1}
  Capacity = 1
  MaxJobs = 2
  MaxGeneration = 4
  NoJob = NoJob
SPECIFICATION Spec
INVARIANTS
  IInv
  OneWorkerPerKey
  SenderNeverStale
  AcquisitionNotLost
PROPERTIES
  SubmittedJobCompletes
  ShutdownCompletes
  IdleKeysReclaimed
  ImplementsKeyedSerial
CHECK_DEADLOCK FALSE
