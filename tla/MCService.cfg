SPECIFICATION MCSpec
CONSTANTS
  MaxStakes = 4
  MaxAmount = 5
  POOL_ASSET = "EMBER"
  Scale <- PowersOfTwo
  POOL_DECIMALS = 2
  MAX_DECIMALS = 3
  MAX_PLAUSIBLE_RATE = 5
  STAKE_ASSET_REGISTRY <- RegistryRows
  CHAIN_DECIMALS <- ChainDecimals
  Retired = {"SHARD"}
  Attempt = {a1, a2}
  Bodies <- SomeBodies
  StakeMarket = {"m", "d"}
  Opening = {"m"}
  RateOf = {0, 1, 3}
  Funds <- Purses
  MaxStakeRows = 2
  Approval = {r1, r2, r3}
  SeedMarket = {"m1", "m2"}
  Sizes = {2, 3, 4}
  Policies <- SomePolicies
  NoPolicy = NoPolicy
  MaxSeedDay = 1
  SEED_PER_MARKET_CEILING_WEI = 3
  SEED_PER_DAY_CEILING_WEI = 5
  Request = {q1, q2, q3}
  Key = {"k1", "k2"}
  DeployMarket = {"m1", "m2"}
  MaxKeyRuns = 3
  Idea = {i1, i2}
  Operator = {o1}
  IdeaMarket = {"m"}
  Text <- SomeTexts
  Vague = {"short"}
  CATEGORIES <- SomeCategories
  Source = {"s"}
  PROPOSAL_TOPICS = 2
  Count = 1
  REFUSALS = {"unverifiable"}
  None = None
  Second = 2
  MaxTime = 2
  MaxPipelineRuns = 1
  MaxAnswer = 2
  Network = {"mainnet", "testnet"}
  Environment <- SomeEnvironments
  MarketId = {1, 2}
  SCHEMA_VERSION = 1
  MaxBoots = 2
SYMMETRY Symmetry
INVARIANT TypeOK
INVARIANT NoMoneyIsMade
 
INVARIANT OneEffectPerKey
INVARIANT EstatesStayApart
INVARIANT UncontendedSeedsFit
PROPERTY DecisionsStand
CHECK_DEADLOCK FALSE
