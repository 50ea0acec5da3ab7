--------------------------- MODULE MCSolarisLock ---------------------------
(* Two threads in one process and one in another.                             *)
EXTENDS SolarisLock, TLC
CONSTANTS p1, p2, t1, t2, t3

Symmetry == Permutations({t1, t2}) \cup Permutations(Slot)

MCHome == t1 :> p1 @@ t2 :> p1 @@ t3 :> p2
=============================================================================
