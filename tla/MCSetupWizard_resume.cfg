SPECIFICATION FairSpec
CONSTANTS
  Runs = {"run1"}
  Forms <- TwoNames
  Providers = {"dns1"}
  Clients <- TwoClients
  Hosts <- OneHost
  Secrets = {1, 2, 3, 4, 5}
  Faults <- AllFaults
  MaxFaults = 1
  MaxCrashes = 1
  MaxPosts = 1
  MaxReruns = 1
INVARIANTS TypeOK SecretsPaired
PROPERTIES LocksWithAdmin Completes
CHECK_DEADLOCK FALSE
