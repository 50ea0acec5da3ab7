\* Two processes with two descriptors each over three descriptions: every way
\* of sharing a description by duplicating and inheriting it.
CONSTANTS
    Process = {p1, p2}
    Slot = {s1, s2}
    Description = {d1, d2, d3}
    Closed = Closed
    NoRequest = NoRequest
SPECIFICATION Spec
SYMMETRY Symmetry
INVARIANTS NoOrphanLock
PROPERTIES ImplementsFileLock
