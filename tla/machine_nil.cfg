SPECIFICATION Spec
CONSTANTS
  Families = {"witnesses"}
  Habits = {"nil_after_join"}
  Programs <- MCPrograms
  Inputs <- MCInputs
  Fuel = 40
INVARIANTS ReturnsWhatSourceSays
CONSTRAINT Terminating
