SPECIFICATION Spec
CONSTANTS
  d1 = d1
  d2 = d2
  w1 = w1
  w2 = w2
  e1 = e1
  Devices = {d1}
  MaxSeq = 2
  Workers = {w1, w2}
  Execs = {}
  ExecDevice <- NoneOnD1
  Keys = {}
  Results = {ok, err}
  NoExec = NoExec
  NoKey = NoKey
  NoResult = NoResult
  NoCmd = NoCmd
  NoBroker = NoBroker
  MaxCrashes = 1
  MaxDrops = 0
SYMMETRY Symmetry
CHECK_DEADLOCK FALSE
INVARIANTS
  TypeOK
  PublishedInOrder
  AcceptedWasPublished
  ChecksHold
PROPERTIES
  TerminalRowsFrozen
