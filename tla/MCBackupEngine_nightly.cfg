SPECIFICATION Spec
CONSTANTS
  Recipes <- TwoStacks
  PgRecipes <- Cloud
  Restorable = {}
  UiWorkers = {"ui1"}
  CliWorkers = {"cli1"}
  CliKinds = {"daily"}
  Keep = 1
  Operator = FALSE
  Faults = {"restic"}
  MaxSnaps = 3
  MaxWrites = 0
INVARIANTS TypeOK StageCleared NewestKept
