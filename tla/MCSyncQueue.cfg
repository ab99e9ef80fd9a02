SPECIFICATION FairSpec
CONSTANTS
  q1 = q1
  q2 = q2
  Scheduler = Scheduler
  Connector = Connector
  Requests <- TwoRequests
  MaxPolls = 3
CHECK_DEADLOCK FALSE
INVARIANTS
  SchedulerSurvives
PROPERTIES
  ImplementsPromise
  EveryCallAnswered
  ShutdownCompletes
