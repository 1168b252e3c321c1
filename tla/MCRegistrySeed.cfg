SPECIFICATION FairSpec
CONSTANTS
  hy = hy
  hn = hn
  b = b
  Tx = {hy, hn}
  stakeOf <- HouseOnly
  Staker <- Bettors
  Outcome <- Sides
  House = "house"
  SeedSizes = {1}
  Origins = {TRUE}
  PageSize = 2
  Worker = {w1, w2}
  NoWorker = NoWorker
  MaxReorgs = 0
  MaxFaults = 0
CHECK_DEADLOCK FALSE
PROPERTY SeededMarketOpens
