SPECIFICATION FairSpec
CONSTANTS
  d1 = d1
  d2 = d2
  w1 = w1
  w2 = w2
  e1 = e1
  Devices = {d1}
  MaxSeq = 1
  Workers = {w1}
  Execs = {}
  ExecDevice <- NoneOnD1
  Keys = {}
  Results = {ok}
  NoExec = NoExec
  NoKey = NoKey
  NoResult = NoResult
  NoCmd = NoCmd
  NoBroker = NoBroker
  MaxCrashes = 0
  MaxDrops = 1
CHECK_DEADLOCK FALSE
PROPERTIES
  DeadlineReleasesQueue
