\* The runs of a day and of the next, a chain of three models, one run killed, liveness.
SPECIFICATION FairSpec
CONSTANTS
  RunCap = 5
  DayCap = 6
  Models = 3
  ProviderOf <- mcProviderOf
  MaxCommit = 2
  MaxCrash = 1
INVARIANTS TypeOK RunCapHolds LedgerWithinCap DayCapHolds LedgerCovers CommitCost
PROPERTY NothingStaysReserved
CHECK_DEADLOCK FALSE
