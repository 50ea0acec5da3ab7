--------------------------- MODULE MCWindowsLock ---------------------------
(***************************************************************************)
(* Small instances of WindowsLock for TLC, with a count of the successful  *)
(* lock calls of each file object that no successful unlock has undone.    *)
(***************************************************************************)
EXTENDS WindowsLock, TLC

VARIABLE balance

Symmetry == Permutations(Handle) \cup Permutations(Object)

(* What the step adds to the balance of object o. *)
Locked(h)   == stage[h] # "idle" /\ stage'[h] = "idle" /\ result'[h] = "ok"
Unlocked(h) == unlock(h) /\ result'[h] = "ok"

Count ==
    balance' = [o \in Object |->
        CASE Handles(o)' = {} -> 0
          [] \E h \in Handles(o) : Locked(h)   -> balance[o] + 1
          [] \E h \in Handles(o) : Unlocked(h) -> balance[o] - 1
          [] OTHER -> balance[o]]

MCInit == Init /\ balance = [o \in Object |-> 0]
MCSpec == MCInit /\ [][Next /\ Count]_<<vars, balance>>

(***************************************************************************)
(* Every successful lock call adds one layer and every successful unlock   *)
(* takes one away, so a caller that unlocks as often as it locked holds    *)
(* nothing (lock_layering in tests/lock.rs).                               *)
(***************************************************************************)
LayersMatchCalls ==
    \A o \in Object :
        balance[o] = shared[o] + (IF o \in exclusive THEN 1 ELSE 0)
=============================================================================
