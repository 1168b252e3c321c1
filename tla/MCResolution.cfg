SPECIFICATION FairSpec
CONSTANTS
  m1 = m1
  m2 = m2
  Market = {m1, m2}
  backed <- Backed
  verdict <- Verdict
  Worker = {w1, w2}
  NoWorker = NoWorker
  MaxAttempts = 2
  MaxFaults = 2
INVARIANT TypeOK
INVARIANT RowsAndWireAgree
INVARIANT ChainFirst
PROPERTY CommitBeforeSend
PROPERTY CalmResolutionArrives
CHECK_DEADLOCK FALSE
