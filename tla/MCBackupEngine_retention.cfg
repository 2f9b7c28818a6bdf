SPECIFICATION Spec
CONSTANTS
  Recipes <- TwoStacks
  PgRecipes <- Cloud
  Restorable = {}
  UiWorkers = {}
  CliWorkers = {"cli1"}
  CliKinds = {"daily"}
  Keep = 1
  Operator = FALSE
  Faults = {}
  MaxSnaps = 2
  MaxWrites = 0
PROPERTIES RetentionSpares
