SPECIFICATION ServiceSpec
CONSTANTS
  t1 = t1
  t2 = t2
  k1 = k1
  NoTask = NoTask
  Tasks <- MCTasks
  Keys <- MCKeys
  KeyOf <- MCKeyOf
  MaxWorkers = 1
  MaxRetries = 2
INVARIANTS SlotsConserved NoneForgotten OneTaskPerKey DrainComplete
PROPERTIES EverythingEnds ImplementsWorkQueue
CHECK_DEADLOCK FALSE
