SPECIFICATION FairSpec
CONSTANTS
  Worker = {w1, w2}
  NoWorker = NoWorker
  MaxAttempts = 3
  MaxFaults = 3
  MaxSignatures = 4
INVARIANT TypeOK
INVARIANT OneContract
PROPERTY CommitBeforeSend
PROPERTY DeployFinishes
CHECK_DEADLOCK FALSE
