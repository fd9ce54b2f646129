SPECIFICATION Spec
CONSTANTS
  d1 = d1
  d2 = d2
  t1 = t1
  t2 = t2
  NoVoter = NoVoter
  Device = {d1}
  Tab = {t1}
  DeviceOf <- OneTab
  Group = {A, B}
  Post = {p1, p2}
  Voter = {v1, v2}
  Forgotten = {}
SYMMETRY Identities
INVARIANTS
  OwnBallotsShown
CHECK_DEADLOCK FALSE
