SPECIFICATION FairSpec
CONSTANTS
  Host = Host
  Guests = {g1, g2}
  None = None
  Lead = 1
  Runway = 1
  Interval = 2
  Digests = 1
  Ends <- RaceEnds
  MaxDrifts = 1
  MaxRecoveries = 2
CHECK_DEADLOCK FALSE
INVARIANT RepairedTogether
INVARIANT FailsOnlyWhen
INVARIANT EpochNamesRepairs
PROPERTY RecoveryEnds
