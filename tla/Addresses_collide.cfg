SPECIFICATION Spec
CONSTANTS
  None = None
  x = x
  y = y
  Letter = {x, y}
  Infix = Infix
  Hyphen = Hyphen
  Publisher = {a1}
  Organiser = {o1, o2}
  Tournament = {t1, t2, t3}
  Derived <- Full
  MaxSlug = 4
  MaxDepth = 2
  Horizon = 1
INVARIANTS
  NeverCollides
