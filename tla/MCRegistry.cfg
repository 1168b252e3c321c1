SPECIFICATION FairSpec
CONSTANTS
  hy = hy
  hn = hn
  b = b
  Tx = {hy, hn}
  stakeOf <- HouseOnly
  Staker <- Bettors
  Outcome <- Sides
  House = "house"
  SeedSizes = {1}
  Origins = {TRUE}
  PageSize = 2
  Worker = {w1, w2}
  NoWorker = NoWorker
  MaxReorgs = 1
  MaxFaults = 1
INVARIANT TypeOK
INVARIANT UnapprovedNeverOpens
INVARIANT OpenSeedIsInPool
PROPERTY MirrorConverges
PROPERTY OpenedIsDecided
CHECK_DEADLOCK FALSE
