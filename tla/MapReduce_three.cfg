CONSTANTS
  N = 3
  Hosts = {1,2,3,4}
  SpareHosts = {4}
  WithInput = {0,1}
  MaxAttempts = 4
  UrlMode = TRUE
  MaxCrashes = 1
  MaxLost = 1
  Payloads <- MCPayloads
  NoResult = NoResult
  SlotHosts <- MCSlotHosts
  SpareRank <- MCSpareRank
SPECIFICATION QuietFairSpec
INVARIANTS OwnersBackTheRecord OnlySwapsAndCutsLose
PROPERTY JobEnds
