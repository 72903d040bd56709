SPECIFICATION ServiceSpec
CONSTANTS
  m1 = m1
  m2 = m2
  web = web
  alice = alice
  Initial = Initial
  Remediations <- MCRemediations
  Actions <- MCOneAction
  Resources <- MCResources
  People <- MCPeople
  Counts <- MCCounts
  NumTargets = 0
  MaxAnswers = 1
INVARIANTS ServiceNoUnauthorisedWrite AuditHidesNoFailure
PROPERTIES WritesAtMostOnce RollbackNeverConcurrent WriteRecorded
CHECK_DEADLOCK FALSE
