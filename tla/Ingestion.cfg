SPECIFICATION IngestSpec
CONSTANTS
  r1 = r1
  r2 = r2
  e1 = e1
  Requests <- MCRequests
  Events <- MCEvents
  EventOf <- MCEventOf
  MaxBatch = 2
  Threshold = 1
  MaxForeign = 1
  MaxCrashes = 1
INVARIANTS
  StoredOnce
  DuplicateIsLogged
  LoggedOnce
PROPERTIES
  ImplementsAtLeastOnce
  EveryMessageLeaves
CHECK_DEADLOCK FALSE
