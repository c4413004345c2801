CONSTANTS
    a = a  b = b  c = c  d = d
    Plain = Plain  None = None
    Obj <- Two
    Threads = {}
    Udata = {}
    Modes <- AnyMode
    Ops = {"finalizer", "emergency"}
    MaxFields = 0
    MaxPairs = 1
    MaxWeak = 1
SPECIFICATION Spec
INVARIANTS MarkedBeforeSweep
PROPERTIES MarksExact SeparationExact HeapSpec
SYMMETRY Symmetry
