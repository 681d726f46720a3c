SPECIFICATION Spec
CONSTANTS
  a1 = a1
  a2 = a2
  s1 = s1
  s2 = s2
  x1 = x1
  p1 = p1
  p2 = p2
  c1 = c1
  None = None
  Undefined = Undefined
  Assets = {a1, a2}
  Symbols = {s1, s2}
  Extras = {x1}
  Lists <- MCLists
  Posts = {p1, p2}
  Clients = {c1}
  Second = 2
  MaxPosts = 3
  MaxTime = 2
INVARIANTS TypeOK LastPostHolds
PROPERTIES NothingMissed
CHECK_DEADLOCK FALSE
SYMMETRY MCSymmetry
