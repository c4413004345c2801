SPECIFICATION Spec
CONSTANTS
  Vars = {x, y}
  Main = Main
  Coroutines = {c1, c2}
  Nil = Nil
  MaxStack = 2
  MaxFrames = 2
  MaxDepth = 3
  Habits = {"outer_scope"}
INVARIANTS ClosedExactlyOnce
CONSTRAINT Shallow
SYMMETRY Symmetry
CHECK_DEADLOCK FALSE
