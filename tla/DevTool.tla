------------------------------ MODULE DevTool ------------------------------
(***************************************************************************)
(* The command line of fs2-dev (tools/fs2-dev/src/main.rs): one of three   *)
(* gates, chosen by the subcommand, works on the repository or on what a   *)
(* coverage build left behind, and its result is the exit code.  The state *)
(* of the gates that were not asked for stays as it is.                    *)
(***************************************************************************)
EXTENDS SupportMatrix, CoverageGate, Compatibility

VARIABLES
  command,  \* the subcommand
  exit      \* the exit code, or "none" yet

vars == <<command, exit, matrix_vars, coverage_vars, compatibility_vars>>

\* The gates that are not asked for, as they never begin.
NoMatrix == files = <<>> /\ at = "idle" /\ entry = 0 /\ output = <<>>
NoCoverage ==
  /\ target = "none" /\ disk = <<>> /\ turn = 0 /\ measured = 0
  /\ contents = <<>> /\ whole = <<>> /\ verdict = "idle"
  /\ report = [state |-> "earlier", records |-> {}]
NoCompatibility ==
  workspace = <<>> /\ step = "idle" /\ packages = <<>> /\ checked = 0 /\ ran = <<>>

Init ==
  /\ exit = "none"
  /\ \/ command = "matrix" /\ MatrixInit /\ NoCoverage /\ NoCompatibility
     \/ command = "coverage" /\ CoverageInit /\ NoMatrix /\ NoCompatibility
     \/ command = "compatibility" /\ CompatibilityInit /\ NoMatrix /\ NoCoverage

\* dispatch: the gate of the subcommand runs until it returns.
dispatch ==
  /\ exit = "none"
  /\ \/ /\ command = "matrix" /\ MatrixNext
        /\ UNCHANGED <<coverage_vars, compatibility_vars>>
     \/ /\ command = "coverage" /\ CoverageNext
        /\ UNCHANGED <<matrix_vars, compatibility_vars>>
     \/ /\ command = "compatibility" /\ CompatibilityNext
        /\ UNCHANGED <<matrix_vars, coverage_vars>>
  /\ UNCHANGED <<command, exit>>

\* main turns what the gate returned into the exit code.
main ==
  /\ exit = "none"
  /\ \/ "passed" \in {at, verdict, step} /\ exit' = "SUCCESS"
     \/ "failed" \in {at, verdict, step} /\ exit' = "FAILURE"
  /\ UNCHANGED <<command, matrix_vars, coverage_vars, compatibility_vars>>

Next == dispatch \/ main

Spec == Init /\ [][Next]_vars
=============================================================================
