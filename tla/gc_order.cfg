CONSTANTS
    a = a  b = b  c = c  d = d
    Plain = Plain  None = None
    Obj <- Two
    Threads = {}
    Udata = {}
    Modes <- NoWeak
    Ops = {"finalizer"}
    MaxFields = 0
    MaxPairs = 0
    MaxWeak = 0
SPECIFICATION Spec
PROPERTIES CycleInReverseOrder
