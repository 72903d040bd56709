SPECIFICATION EngineSpec
CONSTANTS
  a1 = a1
  a2 = a2
  a3 = a3
  Callers <- MCOneCaller
  Inputs <- MCAllInputs
  HourLimit = 1
  FailureThreshold = 2
  HalfOpenMaxCalls = 1
  MaxCancels = 1
INVARIANT HardDenyHolds
