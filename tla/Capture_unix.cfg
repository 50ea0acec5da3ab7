\* A child and two descendants in a process group, writing past a limit of one
\* block; the runner's own properties are checked inside the capture.
CONSTANTS
    Platform = "unix"
    Child = child
    Descendant = {d1, d2}
    Timeout = 1
    Grace = 1
    Limit = 1
    MaxLength = 2
SPECIFICATION CSpec
INVARIANTS TypeOK SuccessIsClean LeftoverIsReported NoForeignKill OutputIsWhole
PROPERTIES CaptureReturns
CHECK_DEADLOCK FALSE
