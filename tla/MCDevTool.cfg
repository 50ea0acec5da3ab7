\* Each gate on every one of its small inputs.
CONSTANTS
  Triples = {"linux", "mac", "bsd"}
  JobNames = {"check", "cross", "coverage"}
  Native <- MCNative
  RustVersion <- MCRustVersion
  Repositories <- MCRepositories
  Target = {"windows", "linux", "other"}
  Windows = "windows"
  Policy <- MCPolicy
  Workspace = {"src/a.rs", "src/b.rs"}
  Intended <- MCIntended
  WindowsOnly <- MCWindowsOnly
  Reviewed <- MCReviewed
  Limit = 5
  Disks <- MCDisks
  Workspaces <- MCWorkspaces
SPECIFICATION Spec
INVARIANTS
  DeclaredCellsRun
  AuditedCargoIsLocked
  InputsAreWhole
  PassMeansExecuted
  ReportIsTrue
  SuccessMeansCompared
CHECK_DEADLOCK FALSE
