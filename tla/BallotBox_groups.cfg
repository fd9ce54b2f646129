SPECIFICATION FairSpec
CONSTANTS
  None = None
  p1 = p1
  p2 = p2
  p3 = p3
  p4 = p4
  p5 = p5
  p6 = p6
  p7 = p7
  Pair = {p1, p2, p3, p4, p5, p6, p7}
  Tournament = {t1, t2}
  Label = {"A", "B"}
  Voter = {v1}
  Request = {r1, r2}
  Organiser = {o1}
  Lineups <- Regrouped
  Submissions <- TwoSizes
  Horizon = 1
INVARIANTS
  WholeBallots
PROPERTIES
  ReplacementIsExact
  EventuallyAnswered
