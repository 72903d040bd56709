SPECIFICATION HubSpec
CONSTANTS
  c1 = c1
  Conns <- MCConns
  Policies <- MCPolicies
  QueueMax = 2
  BufferMax = 3
  MaxEvents = 5
INVARIANTS InOrder NoSilentGap RetainedBeforeSent
PROPERTY NobodyWaitsForever
CHECK_DEADLOCK FALSE
