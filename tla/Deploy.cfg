CONSTANTS
  NumHosts = 3
  Target = 2
  Limits = {0, 1}
  DefaultParallelism = 2
  MaxFaults = 3
SPECIFICATION FairSpec
INVARIANTS DTypeOK SparesAreCold ReadyRunOurs MissedByCleanup OldWorkersGone
PROPERTY RunReturns
