SPECIFICATION Spec
CONSTANTS
  Stake <- OneToThree
  Market <- OneMarket
  Subject = {u1, u2}
  Asset <- OneAsset
  StakeAmounts = {1, 2}
  PoolAmounts = {1, 2}
  Funds = 3
  Worker = {w1}
  NoWorker = NoWorker
  MaxAttempts = 2
  EndsInFlight = FALSE
  MaxFaults = 1
SYMMETRY Symmetry
INVARIANT PoolConserved
CHECK_DEADLOCK FALSE
