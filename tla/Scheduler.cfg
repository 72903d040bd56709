SPECIFICATION SchedSpec
CONSTANTS
  api1 = api1
  api2 = api2
  api3 = api3
  None = None
  Instances <- MCInstances
INVARIANTS ExclusiveWhileRenewed RenewedForAJob
PROPERTY JobGoesOn
