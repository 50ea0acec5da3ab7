------------------------------ MODULE MCDevTool ------------------------------
(* The three gates on the small inputs of their own MC modules.               *)
EXTENDS DevTool, MCSupportMatrix, MCCoverageGate, MCCompatibility
=============================================================================
