SPECIFICATION FairSpec
CONSTANTS
  Recipes <- TwoStacks
  PgRecipes <- Cloud
  Restorable <- Cloud
  UiWorkers = {"ui1", "ui2"}
  CliWorkers = {}
  CliKinds = {}
  Keep = 1
  Operator = TRUE
  Faults = {"pg_dump", "restic", "psql", "crash"}
  MaxSnaps = 2
  MaxWrites = 1
INVARIANTS OneOperation SnapshotsAreWhole BotchedIsRecoverable
PROPERTIES FlagReleased
