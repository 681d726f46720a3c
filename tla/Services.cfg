SPECIFICATION MCSpec
CONSTANTS
  Scenarios = {"reads", "lists", "native", "bridges", "telemetry"}
  None = None
  NoCursor = NoCursor
  NoTag = NoTag
  b1 = b1
  b2 = b2
  t1 = t1
  t2 = t2
  Blocks = {b1, b2}
  Txs = {t1, t2}
  SeqOf <- MCSeqOf
  TxsOf <- MCTxsOf
  Parent <- MCParent
  AssetOf <- MCAssetOf
  MaxRows = 3
  Limits = {1, 2}
  MaxChanges = 2
  Processes = {p1, p2}
  Workers = {w1, w2}
  Heads = {1, 6, 12, 26, 31}
  Month = 1
  Year = 12
  Iron = 8
  YearReward <- MCReward
  Attempts = 2
  MaxUploads = 2
  MaxCuts = 1
  MaxBreaks = 2
  Tokens = {k1, k2}
  Networks = {n1, n2}
  MaxReposts = 2
  Versions = {v1, v2}
  Agents = {a1}
  MaxPoints = 2
INVARIANTS TypeOK FoundBlockIsWhole AssetOfDescription WalkDescends WalkComplete
           RefreshedWhenQuiet SupplyGrows BridgeableTokens SoundIsServed
           WholeBatchOrNone NodeIsKnown
CHECK_DEADLOCK FALSE
