SPECIFICATION MCSpec
CONSTANTS
  b1 = b1
  b2 = b2
  i1 = i1
  i2 = i2
  u1 = u1
  Installations = {i1, i2}
  Devices = {d1}
  Profiles = {p1}
  Builds = {b1, b2}
  Executions = {x1, x2}
  Events = {e1}
  Reports = {"running", "completed"}
  MaxChanges = 2
  Uploads = {u1}
  Attempts = {a1, a2, a3}
  UploadOf <- OneUpload
  Size = 3
  MaxExpiries = 2
  None = None
SYMMETRY Interchangeable
CHECK_DEADLOCK FALSE
INVARIANTS
  ControlIsCurrent
  EndedByItsOwnSession
  ArtifactsWhole
