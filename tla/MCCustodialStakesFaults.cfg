SPECIFICATION Spec
CONSTANTS
  Stake <- OneToTwo
  Market <- OneToTwo
  Subject = {u1}
  Asset <- OneAsset
  StakeAmounts = {1}
  PoolAmounts = {1}
  Funds = 1
  Worker = {w1, w2}
  NoWorker = NoWorker
  MaxAttempts = 2
  EndsInFlight = TRUE
  MaxFaults = 2
SYMMETRY Symmetry
INVARIANT MarkedRowsHaveEntries
INVARIANT WinnersKeepStake
PROPERTY TerminalRowsStay
CHECK_DEADLOCK FALSE
