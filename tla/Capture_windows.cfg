\* The same in a job object.
CONSTANTS
    Platform = "windows"
    Child = child
    Descendant = {d1, d2}
    Timeout = 1
    Grace = 1
    Limit = 1
    MaxLength = 2
SPECIFICATION CSpec
INVARIANTS CTypeOK SuccessIsClean ContainedBeforeRunning VerdictIsTheChilds
PROPERTIES DirectoryGoesLast CaptureReturns
CHECK_DEADLOCK FALSE
