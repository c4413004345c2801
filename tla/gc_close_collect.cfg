CONSTANTS
    a = a  b = b  c = c  d = d
    Plain = Plain  None = None
    Obj <- Two
    Threads = {}
    Udata = {}
    Modes <- NoWeak
    Ops = {"finalizer", "close", "close_collect"}
    MaxFields = 0
    MaxPairs = 0
    MaxWeak = 0
SPECIFICATION Spec
INVARIANTS FinalizerNotLost
