CONSTANTS
  N = 2
  Hosts = {1,2,3,4}
  SpareHosts = {3,4}
  WithInput = {0,1}
  MaxAttempts = 4
  Payloads = {"kvs"}
  NoResult = NoResult
  SlotHosts <- MCSlotHosts
  SpareRank <- MCSpareRank
SPECIFICATION NoTickSpec
PROPERTY OnlyFaultyHostsRetired
