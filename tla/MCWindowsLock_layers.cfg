\* Three handles over two file objects, with duplicates and layered locks.
CONSTANTS
    Handle = {h1, h2, h3}
    Object = {o1, o2}
    Closed = Closed
    MaxLayers = 2
SPECIFICATION MCSpec
SYMMETRY Symmetry
INVARIANTS TypeOK LayersMatchCalls
PROPERTIES ImplementsFileLock
