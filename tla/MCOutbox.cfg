SPECIFICATION FairSpec
CONSTANTS
  Change <- OneToTwo
  Subscriber = {a1, a2}
  Process = {p1, p2}
  NoProcess = NoProcess
  Early = {a1}
  BatchSize = 2
  MaxFaults = 1
INVARIANT TypeOK
INVARIANT PublishedReachedAll
PROPERTY EffectivelyOnce
PROPERTY EveryChangeReaches
CHECK_DEADLOCK FALSE
