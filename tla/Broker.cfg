SPECIFICATION MCSpec
CONSTANTS
  d1 = d1
  d2 = d2
  c1 = c1
  c2 = c2
  c3 = c3
  report = report
  report2 = report2
  status1 = status1
  big = big
  other = other
  cmd = cmd
  Devices = {d1, d2}
  Conns = {c1, c2, c3}
  Owner <- OwnerSub
  NoConn = NoConn
  Topics = {cmd}
  Persistent = {d1}
  AuthLimit = 1
  AuthQueue = 1
  Msgs = {report, report2, status1, big, other}
  From <- FromSub
  Durable = {report, report2, big}
  Valid = {report, report2, other}
  Size <- SizeSub
  Cost <- CostSub
  MaxPacket = 3
  Burst = 1
  MaxTracked = 2
  Concurrency = 2
  Capacity = 2
  MaxBytes = 3
  MaxFaults = 1
CHECK_DEADLOCK FALSE
INVARIANTS
  QueueConsistent
  DurableBeforeAck
  RegistryTellsTruth
  NoFalseOffline
PROPERTIES
  ReportsRecorded
