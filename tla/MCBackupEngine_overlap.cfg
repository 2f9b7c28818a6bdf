SPECIFICATION Spec
CONSTANTS
  Recipes <- OneStack
  PgRecipes <- Cloud
  Restorable <- Cloud
  UiWorkers = {"ui1"}
  CliWorkers = {"cli1"}
  CliKinds = {"daily"}
  Keep = 3
  Operator = FALSE
  Faults = {"restic"}
  MaxSnaps = 3
  MaxWrites = 0
INVARIANTS BotchedIsRecoverable
