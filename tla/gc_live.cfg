CONSTANTS
    a = a  b = b  c = c  d = d
    Plain = Plain  None = None
    Obj <- Two
    Threads = {}
    Udata = {b}
    Modes <- WeakKeys
    Ops = {"finalizer", "late_mode", "close"}
    MaxFields = 0
    MaxPairs = 1
    MaxWeak = 1
SPECIFICATION FairSpec
PROPERTIES FinalizerOncePerMark CollectionEnds CloseEnds
