SPECIFICATION FairSpec
CONSTANTS
  r1 = r1
  r2 = r2
  b1 = b1
  b2 = b2
  t1 = t1
  t2 = t2
  None = None
  Requests = {r1, r2}
  Blocks = {b1, b2}
  Txs = {t1, t2}
  SeqOf <- MCSeqOf
  Parent <- MCParent
  TxsOf <- MCTxsOf
  Batches <- MCBatches
  Uploads <- MCUploads
  MaxTries <- MCTries
INVARIANTS TypeOK BlockComplete NeverThrows SeenSequenceReal JobsAfterCommit AnsweredIsComplete
PROPERTIES WriteOnce ImplementsBlockStore EveryRequestEnds
CHECK_DEADLOCK FALSE
