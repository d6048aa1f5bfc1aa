SPECIFICATION MCSpec
CONSTANTS
  Managers = {m1, m2}
  Installations = {i1}
  Devices = {d1}
  Profiles = {p1, p2}
  Keys = {k}
  Builds = {b1, b2, b3}
  Versions = {v1, v2}
  Events = {1}
  Deployed = {b1, b2}
  Tokens = {1, 2}
  None = None
  MaxAttempts = 2
  BreakAt = 1
  MaxRunning = 1
  MaxFaults = 1
  MaxChanges = 2
  b1 = b1  b2 = b2  b3 = b3
  p1 = p1  p2 = p2  k = k  d1 = d1  v1 = v1  v2 = v2  i1 = i1
  VersionOf <- MCVersionOf
  Entities <- MCEntities
  Declared <- MCDeclared
  Source <- MCSource
INVARIANTS
  StatesReadable
  EffectsOnce
  AnsweredByItsBuild
PROPERTY EventsSettle
CHECK_DEADLOCK FALSE
