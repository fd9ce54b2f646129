SPECIFICATION Spec
CONSTANTS
  None = None
  p1 = p1
  p2 = p2
  p3 = p3
  p4 = p4
  p5 = p5
  p6 = p6
  p7 = p7
  Pair = {p1, p2, p3}
  Tournament = {t1, t2, t3}
  Label = {"A"}
  Voter = {v1, v2}
  Request = {r1, r2}
  Organiser = {o1, o2}
  Lineups <- Reseeded
  Submissions <- TwoSubmissions
  Horizon = 1
SYMMETRY Identities
INVARIANTS
  IInv
  NoLostBallot
  NothingInvented
  ReceiptHonoured
  OneLiveEnd
PROPERTIES
  ImplementsLedger
  ImplementsLineage
