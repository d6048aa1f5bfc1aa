SPECIFICATION Spec
CONSTANTS
  p1 = p1
  p2 = p2
  q1 = q1
  q2 = q2
  q3 = q3
  q4 = q4
  q5 = q5
  PoolSize = 2
  Ratios <- Halves
  Whole = 4
  Groups <- NoGroups
  SuccessRatio = 3
  MinSample = 2
  Manual = {TRUE, FALSE}
  TimeoutsHappen = TRUE
  Pollers = {p1}
  Requests = {q1, q2, q3, q4, q5}
  Op <- EveryRequest
  MaxFailures = 0
CHECK_DEADLOCK FALSE
INVARIANTS
  StartedPhasesHaveJobs
  CompletedPhasesMetGate
  OneUpgradePerDevice
  OneLiveRollback
PROPERTIES
  Irreversible
