SPECIFICATION Spec
CONSTANTS
  Families = {"witnesses"}
  Habits = {"join_to_local"}
  Programs <- MCPrograms
  Inputs <- MCInputs
  Fuel = 40
INVARIANTS ReturnsWhatSourceSays
CONSTRAINT Terminating
