SPECIFICATION Spec
CONSTANTS
  r1 = r1
  s1 = s1
  s2 = s2
  None = None
  Requests = {r1}
  Slots = {s1, s2}
  LastDay = 2
  MaxChain = 3
  MaxAttempts = 2
  Production = TRUE
PROPERTIES BackfillSeesHead
