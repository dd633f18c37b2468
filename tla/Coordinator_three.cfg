CONSTANTS
  N = 3
  Hosts = {1,2,3,4,5}
  SpareHosts = {4,5}
  WithInput = {0,2}
  MaxAttempts = 4
  Payloads = {"kvs"}
  NoResult = NoResult
  SlotHosts <- MCSlotHosts
  SpareRank <- MCSpareRank
SPECIFICATION NoTickSpec
INVARIANTS TypeOK ReducedFromOwners  SparesArePristine OwnersAreTouched
PROPERTIES ImplementsLedger
