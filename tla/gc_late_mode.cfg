CONSTANTS
    a = a  b = b  c = c  d = d
    Plain = Plain  None = None
    Obj <- Two
    Threads = {}
    Udata = {}
    Modes <- WeakKeys
    Ops = {"late_mode"}
    MaxFields = 0
    MaxPairs = 1
    MaxWeak = 1
SPECIFICATION Spec
INVARIANTS AccessibleIntact
