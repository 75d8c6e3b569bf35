SPECIFICATION Spec
CONSTANTS
  d1 = d1
  d2 = d2
  Devices = {d1, d2}
  NoRef = NoRef
  OwnContent = OwnContent
  NoTime = NoTime
  Times = {1, 2}
  Verbs = {"CREATE_FILE", "IDENTITY_RECORD"}
  MaxEvents = 3
  Garbled = {3}
  Forged = {2}
  NoCursor = NoCursor
INVARIANTS
  MissingParentIsPending
SYMMETRY DeviceSymmetry
CHECK_DEADLOCK FALSE
