SPECIFICATION PipelineSpec
CONSTANTS
  a1 = a1
  p1 = p1
  p2 = p2
  o1 = o1
  Executions <- MCExecutions
  Revocable = {o1}
  Targets = {"web", "coredns"}
  Alerts = {a1}
  Approvals = {p1, p2}
  RunOf <- MCRunOf
  IndexLists <- MCIndexLists
  Orders = {o1}
  OrderRequests <- MCOrderRequests
  Hypotheses <- MCHypotheses
  Service <- MCService
  Protected = {}
  MaxCalls = 2
INVARIANTS WritesAuthorised ExecutedOnce StatusMatchesWork ReportsAgree
PROPERTY RunSettles
CHECK_DEADLOCK FALSE
