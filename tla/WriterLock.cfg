SPECIFICATION LockSpec
CONSTANTS
    Procs = {p1, p2, p3}
    Named = {p1, p2, p3}
    Overlap = FALSE
    NoLock = NoLock
    Empty = Empty
    MaxBoots = 5
    MaxAppends = 4
SYMMETRY Symmetry
PROPERTIES
    LockMakesOneWriter
CHECK_DEADLOCK FALSE
