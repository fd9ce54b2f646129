SPECIFICATION Spec
CONSTANTS
  None = None
  Nobody = Nobody
  Tournament = {t1, t2}
  Label = {A}
  Voter = {v1}
  Pairs <- ThreePairs
  Orderings <- OneOrdering
  Lag = 0
  Horizon = 3
SYMMETRY Identities
INVARIANTS
  HiddenUntilSuccessorCloses
CHECK_DEADLOCK FALSE
