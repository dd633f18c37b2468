CONSTANTS
  N = 2
  Hosts = {1,2,3}
  SpareHosts = {3}
  WithInput = {0,1}
  MaxAttempts = 4
  Payloads = {"kvs"}
  NoResult = NoResult
  SlotHosts <- MCSlotHosts
  SpareRank <- MCSpareRank
SPECIFICATION Spec
PROPERTY DeadHostsForcedOut
