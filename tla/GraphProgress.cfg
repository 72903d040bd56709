SPECIFICATION Spec
CONSTANTS
  m1 = m1
  web = web
  alice = alice
  bob = bob
  Initial = Initial
  Remediations <- MCOneRemediation
  Actions <- MCAllActions
  Resources <- MCResources
  People <- MCTwoPeople
  NumTargets = 1
  MaxAnswers = 2
INVARIANT BaselineGated
PROPERTIES ImplementsSafeRemediation FailureRolledBack
CHECK_DEADLOCK FALSE
