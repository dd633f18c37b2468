CONSTANTS
  N = 2
  Hosts = {1,2,3,4}
  SpareHosts = {3,4}
  WithInput = {0,1}
  MaxAttempts = 4
  UrlMode = TRUE
  MaxCrashes = 1
  MaxLost = 0
  Payloads <- MCPayloads
  NoResult = NoResult
  SlotHosts <- MCSlotHosts
  SpareRank <- MCSpareRank
SPECIFICATION QuietSpec
INVARIANT SuccessIsComplete
