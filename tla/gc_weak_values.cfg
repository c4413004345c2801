CONSTANTS
    a = a  b = b  c = c  d = d
    Plain = Plain  None = None
    Obj <- Two
    Threads = {}
    Udata = {}
    Modes <- WeakValues
    Ops = {"finalizer"}
    MaxFields = 0
    MaxPairs = 1
    MaxWeak = 1
SPECIFICATION Spec
PROPERTIES FinalizedNotInWeakValues
