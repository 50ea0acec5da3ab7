CONSTANTS
  Triples = {"linux", "mac", "bsd"}
  JobNames = {"check", "cross", "coverage"}
  Native <- MCNative
  RustVersion <- MCRustVersion
  Repositories <- CoverageJobRepositories
SPECIFICATION MatrixSpec
INVARIANTS
  DeclaredCellsRun
CHECK_DEADLOCK FALSE
