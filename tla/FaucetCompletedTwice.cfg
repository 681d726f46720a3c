SPECIFICATION MCSpec
CONSTANTS
  Scenarios = {"next"}
  c1 = c1
  c2 = c2
  c3 = c3
  p1 = p1
  p2 = p2
  o1 = o1
  o2 = o2
  s1 = s1
  e1 = e1
  k1 = k1
  k2 = k2
  h1 = h1
  h2 = h2
  None = None
  Clients = {c1}
  Operators = {o1, o2}
  Readers = {}
  Processes = {p1, p2}
  ProcessOf <- MCProcessOf
  Emails = {}
  Keys = {k1}
  Hashes = {h1, h2}
  Limit = 2
  Window = 0
  Pool = 2
  MaxRows = 1
  MaxDay = 0
  MaxTries = 1
  MaxCount = 2
PROPERTIES CompletedOnce
CHECK_DEADLOCK FALSE
