SPECIFICATION Spec
CONSTANTS
  Usernames <- TwoUsers
  Tags <- PrefixTags
  ScriptNames = {}
  Faults = {}
  PeerStart = 10
  PeerEnd = 12
  MaxKeys = 3
INVARIANTS DevicesHaveUsers KnownByName ArchiveServesOwnKey LiveFollowsConf
PROPERTIES DeleteSparesOthers RegistrySpec
