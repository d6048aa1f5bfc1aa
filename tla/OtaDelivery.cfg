SPECIFICATION FairSpec
CONSTANTS
  d1 = d1
  t1 = t1
  w1 = w1
  w2 = w2
  old = old
  new = new
  Targets = {t1}
  Devices = {d1}
  Releases = {old, new}
  DeviceOf <- OnD1
  ReleaseOf <- Upgrade
  Base = old
  Bindable = {new}
  Workers = {w1, w2}
  NoTarget = NoTarget
  NoBroker = NoBroker
  NoStat = NoStat
  MaxCrashes = 1
  MaxDrops = 1
CHECK_DEADLOCK FALSE
INVARIANTS
  DeliveredWasPublished
PROPERTIES
  KeepsTargetLife
  TargetsSettle
  InstalledIsConfirmed
