CONSTANTS
  N = 2
  Hosts = {1,2}
  SpareHosts = {}
  WithInput = {1}
  MaxAttempts = 3
  UrlMode = FALSE
  MaxCrashes = 1
  MaxLost = 1
  Payloads <- MCPayloads
  NoResult = NoResult
  SlotHosts <- MCSlotHosts
  SpareRank <- MCSpareRank
SPECIFICATION MRSpec
INVARIANTS MRTypeOK OwnersBackTheRecord NoOverlappingHandlers OnlySwapsAndCutsLose SwapsNeedFaults
