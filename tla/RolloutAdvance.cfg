SPECIFICATION FairSpec
CONSTANTS
  p1 = p1
  p2 = p2
  q1 = q1
  q2 = q2
  q3 = q3
  q4 = q4
  q5 = q5
  PoolSize = 3
  Ratios <- QuarterRatios
  Whole = 4
  Groups <- GroupsOfThree
  SuccessRatio = 3
  MinSample = 2
  Manual = {FALSE}
  TimeoutsHappen = FALSE
  Pollers = {p1, p2}
  Requests = {}
  Op <- NoRequests
  MaxFailures = 1
CHECK_DEADLOCK FALSE
INVARIANTS
  GateHolds
  CompletedCoversPool
PROPERTIES
  RunsToCompletion
