----------------------------- MODULE MCUnixLock -----------------------------
(***************************************************************************)
(* Small instances of UnixLock for TLC.                                    *)
(***************************************************************************)
EXTENDS UnixLock, TLC

(* Processes, slots and descriptions are interchangeable. *)
Symmetry ==
    Permutations(Process) \cup Permutations(Slot) \cup Permutations(Description)
=============================================================================
