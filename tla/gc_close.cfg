CONSTANTS
    a = a  b = b  c = c  d = d
    Plain = Plain  None = None
    Obj <- Three
    Threads = {}
    Udata = {c}
    Modes <- NoWeak
    Ops = {"finalizer", "close", "emergency"}
    MaxFields = 1
    MaxPairs = 0
    MaxWeak = 0
SPECIFICATION Spec
INVARIANTS FinalizerNotLost ClosedOwesNothing
PROPERTIES CloseInReverseOrder
SYMMETRY Symmetry
