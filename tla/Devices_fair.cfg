SPECIFICATION FairSpec
CONSTANTS
  d1 = d1
  d2 = d2
  t1 = t1
  t2 = t2
  NoVoter = NoVoter
  Device = {d1, d2}
  Tab = {t1, t2}
  DeviceOf <- TwoBrowsers
  Group = {A, B}
  Post = {p1, p2}
  Voter = {v1, v2}
  Forgotten = {old}
INVARIANTS
  DeviceIsOneVoter
  VoterIsOneDevice
PROPERTIES
  RecordedIsShown
CHECK_DEADLOCK FALSE
