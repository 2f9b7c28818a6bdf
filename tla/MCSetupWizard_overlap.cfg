SPECIFICATION Spec
CONSTANTS
  Runs = {"run1", "run2"}
  Forms <- OneForm
  Providers = {"dns1"}
  Clients <- OneClient
  Hosts <- TwoHosts
  Secrets = {1, 2, 3, 4, 5}
  Faults <- AllFaults
  MaxFaults = 1
  MaxCrashes = 0
  MaxPosts = 0
  MaxReruns = 0
INVARIANTS FlagsHonest LockedIsServed
PROPERTIES DoneMeansLocked
CHECK_DEADLOCK FALSE
