\* Three processes that follow the documented rules: one File each.
CONSTANTS
    Process = {p1, p2, p3}
    Slot = {s1}
    Description = {d1, d2, d3}
    Closed = Closed
    NoRequest = NoRequest
SPECIFICATION FairDisciplinedSpec
INVARIANTS ResultTellsLock OkExcludes HolderIsNotWaiting
PROPERTIES WaitersReturn
