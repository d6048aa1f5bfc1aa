SPECIFICATION MCFairSpec
CONSTANTS
  d1 = d1
  d2 = d2
  w1 = w1
  w2 = w2
  e1 = e1
  Devices = {d1}
  MaxSeq = 2
  Workers = {w1}
  Execs = {e1}
  ExecDevice <- OnD1
  Keys = {k1}
  Results = {ok}
  NoExec = NoExec
  NoKey = NoKey
  NoResult = NoResult
  NoCmd = NoCmd
  NoBroker = NoBroker
  MaxCrashes = 1
  MaxDrops = 1
CHECK_DEADLOCK FALSE
INVARIANTS
  OneRowPerKey
PROPERTIES
  KeepsPromise
  LeasesEnd
  CompletedUnlessLost
