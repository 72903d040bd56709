SPECIFICATION IngestSpec
CONSTANTS
  r1 = r1
  r2 = r2
  e1 = e1
  Requests <- MCRequests
  Events <- MCEvents
  EventOf <- MCEventOf
  MaxBatch = 2
  Threshold = 1
  MaxForeign = 0
  MaxCrashes = 0
INVARIANT CommittedOnlyStored
CHECK_DEADLOCK FALSE
