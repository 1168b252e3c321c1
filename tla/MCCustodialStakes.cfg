SPECIFICATION FairSpec
CONSTANTS
  Stake <- OneToThree
  Market <- OneMarket
  Subject = {u1, u2}
  Asset <- TwoAssets
  StakeAmounts = {1}
  PoolAmounts = {1, 2}
  Funds = 3
  Worker = {w1}
  NoWorker = NoWorker
  MaxAttempts = 2
  EndsInFlight = FALSE
  MaxFaults = 0
INVARIANT TypeOK
INVARIANT PoolConserved
INVARIANT EscrowAccounted
INVARIANT VoidLeavesFlat
PROPERTY ExitReached
CHECK_DEADLOCK FALSE
