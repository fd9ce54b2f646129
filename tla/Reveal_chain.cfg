SPECIFICATION Spec
CONSTANTS
  None = None
  Nobody = Nobody
  Tournament = {t1, t2, t3}
  Label = {A, B}
  Voter = {v1}
  Pairs <- ThreePairs
  Orderings <- OneOrdering
  Lag = 1
  Horizon = 2
SYMMETRY Identities
INVARIANTS
  NothingLeaks
  VoterIsShown
  PageTellsWhy
  FinalResultsAreExact
CHECK_DEADLOCK FALSE
