SPECIFICATION Spec
CONSTANTS
  Usernames <- OneUser
  Tags <- TwoTags
  ScriptNames = {}
  Faults = {"crash"}
  PeerStart = 10
  PeerEnd = 12
  MaxKeys = 3
INVARIANTS DevicesHaveUsers
