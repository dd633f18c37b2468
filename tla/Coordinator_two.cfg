CONSTANTS
  N = 2
  Hosts = {1,2,3}
  SpareHosts = {3}
  WithInput = {0,1}
  MaxAttempts = 3
  Payloads = {"kvs"}
  NoResult = NoResult
  SignBit = 8
  BackoffInitial = 1
  BackoffMax = 3
  SlotHosts <- MCSlotHosts
  SpareRank <- MCSpareRank
SPECIFICATION FairSpec
INVARIANTS TypeOK ReducedFromOwners  SparesArePristine OwnersAreTouched 
PROPERTIES ImplementsLedger Termination
