SPECIFICATION Spec
CONSTANTS
  Runs = {"run1"}
  Forms <- OneForm
  Providers = {"dns1"}
  Clients <- OneClient
  Hosts <- OneHost
  Secrets = {1, 2, 3, 4, 5}
  Faults = {}
  MaxFaults = 0
  MaxCrashes = 0
  MaxPosts = 1
  MaxReruns = 1
PROPERTIES DoneMeansLocked
CHECK_DEADLOCK FALSE
