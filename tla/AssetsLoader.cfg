SPECIFICATION FairSpec
CONSTANTS
  j1 = j1
  j2 = j2
  j3 = j3
  t1 = t1
  t2 = t2
  a1 = a1
  a2 = a2
  None = None
  Jobs = {j1, j2, j3}
  Txs = {t1, t2}
  Assets = {a1, a2}
  Ops <- MCOps
  MaxValue = 9
  Concurrency = 2
  MaxAttempts <- MCAttempts
INVARIANTS TypeOK SupplyMatches FollowsLastJob
PROPERTIES JobsEnd
CHECK_DEADLOCK FALSE
