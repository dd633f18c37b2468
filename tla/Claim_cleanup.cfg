CONSTANTS
  NumHosts = 1
  Target = 1
  Limits = {1}
  DefaultParallelism = 2
  MaxFaults = 0
SPECIFICATION Spec
INVARIANTS CleanupStopsWorkers
