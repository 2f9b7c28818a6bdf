SPECIFICATION Spec
CONSTANTS
  Usernames <- OneUser
  Tags <- TwoTags
  ScriptNames <- OneScriptName
  Faults <- AllFaults
  PeerStart = 10
  PeerEnd = 11
  MaxKeys = 3
INVARIANTS TypeOK UniqueAddresses UniqueNames
PROPERTIES NoResurrection
