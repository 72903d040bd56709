SPECIFICATION EngineSpec
CONSTANTS
  a1 = a1
  a2 = a2
  a3 = a3
  Callers <- MCCallers
  Inputs <- MCInputs
  HourLimit = 0
  FailureThreshold = 2
  HalfOpenMaxCalls = 1
  MaxCancels = 1
INVARIANTS ProbeBound SlotsAccounted ToleranceRestored FailClosed
PROPERTY RecoversWhenUp
