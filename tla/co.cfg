SPECIFICATION Spec
CONSTANTS
  Vars = {x, y}
  Main = Main
  Coroutines = {c1, c2}
  Nil = Nil
  MaxStack = 2
  MaxFrames = 2
  MaxDepth = 3
  Habits = {}
INVARIANTS TypeOK VariablesReadLastWrite ClosedExactlyOnce OpenMeansOwnStack
PROPERTIES ClosedInReverse
CONSTRAINT Shallow
SYMMETRY Symmetry
VIEW View
CHECK_DEADLOCK FALSE
