CONSTANTS
    a = a  b = b  c = c  d = d
    Plain = Plain  None = None
    Obj <- Three
    Threads = {c}
    Udata = {}
    Modes <- AnyMode
    Ops = {"debug_setmetatable"}
    MaxFields = 0
    MaxPairs = 2
    MaxWeak = 1
SPECIFICATION Spec
INVARIANTS TypeOK AccessibleIntact
PROPERTIES MarksExact
SYMMETRY Symmetry
