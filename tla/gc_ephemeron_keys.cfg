CONSTANTS
    a = a  b = b  c = c  d = d
    Plain = Plain  None = None
    Obj <- Three
    Threads = {}
    Udata = {}
    Modes <- WeakKeys
    Ops = {}
    MaxFields = 0
    MaxPairs = 1
    MaxWeak = 1
SPECIFICATION Spec
PROPERTIES EphemeronKeysDie
