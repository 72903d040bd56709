SPECIFICATION Spec
CONSTANTS
  r1 = r1
  r2 = r2
  alice = alice
  Requests <- MCRequests
  People <- MCOnePerson
  NumTargets = 1
  MaxAnswers = 2
INVARIANT DecisionBacked
PROPERTIES DecisionFinal AnswerHonoured AgentResumes
CHECK_DEADLOCK FALSE
