SPECIFICATION Spec
CONSTANTS
  Families = {"placed", "arithmetic", "loops", "blocks"}
  Habits = {}
  Programs <- MCPrograms
  Inputs <- MCInputs
  Fuel = 40
INVARIANTS TypeOK ReturnsWhatSourceSays OperandsReady
PROPERTIES Halts
CONSTRAINT Terminating
