SPECIFICATION Spec
CONSTANTS
  Network = {"mainnet", "testnet"}
  Environment <- Untouched
  MarketId = {1, 2}
  SCHEMA_VERSION = 1
  MaxBoots = 2
INVARIANT MainnetIsDeliberate
CHECK_DEADLOCK FALSE
