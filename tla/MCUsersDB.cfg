SPECIFICATION FairSpec
CONSTANTS
  Users <- TwoUsers
  Passwords <- TwoPasswords
  Profiles <- OneProfile
  Handlers <- TwoHandlers
  MaxFaults = 1
  MaxCrashes = 1
INVARIANTS TypeOK Acknowledged
PROPERTIES ReplacesShown Answered
