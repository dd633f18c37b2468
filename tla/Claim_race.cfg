CONSTANTS
  N = 2
  Hosts = {1,2}
  SpareHosts = {}
  WithInput = {0,1}
  MaxAttempts = 2
  Payloads = {"kvs"}
  NoResult = NoResult
  SlotHosts <- MCSlotHosts
  SpareRank <- MCSpareRank
SPECIFICATION Spec
PROPERTY DeadHostsNeverReused
