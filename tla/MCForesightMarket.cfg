CONSTANTS
  s1 = s1
  s2 = s2
  s3 = s3
  oracle = oracle
  Staker = {s1, s2, s3}
  Oracle = oracle
  OracleNonces = {0, 1}
  Funds = 21
  StakeSizes = {7, 21}
  closeTime = 1
  disputeWindowSeconds = 1
  feeBps = 1000
  MaxTime = 2
SPECIFICATION FairSpec
INVARIANTS TypeOK ClaimsCovered WinnersKeepPrincipal RefundsAreWhole TreasuryTakesFeeAndDust
PROPERTY BookClosesBeforeOutcome
CHECK_DEADLOCK FALSE
PROPERTY EverythingPaidOut
