\* Three handles that follow the documented rules: no duplicates, one lock each.
CONSTANTS
    Handle = {h1, h2, h3}
    Object = {o1, o2, o3}
    Closed = Closed
    MaxLayers = 1
SPECIFICATION FairDisciplinedSpec
INVARIANTS WaiterHoldsNothing
PROPERTIES WaitersReturn
