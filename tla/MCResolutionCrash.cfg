SPECIFICATION FairSpec
CONSTANTS
  m1 = m1
  m2 = m2
  Market = {m1}
  backed <- Backed
  verdict <- Verdict
  Worker = {w1}
  NoWorker = NoWorker
  MaxAttempts = 2
  MaxFaults = 1
PROPERTY PlanCarriedOut
CHECK_DEADLOCK FALSE
