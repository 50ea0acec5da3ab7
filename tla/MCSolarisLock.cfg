\* Two processes with two descriptors each; the first has two threads.
CONSTANTS
    p1 = p1
    p2 = p2
    t1 = t1
    t2 = t2
    t3 = t3
    Process = {p1, p2}
    Thread = {t1, t2, t3}
    Home <- MCHome
    Slot = {s1, s2}
    Access = {"read", "read and write"}
    Closed = Closed
    NoRequest = NoRequest
SPECIFICATION Spec
SYMMETRY Symmetry
PROPERTIES ImplementsFileLock
