------------------------------ MODULE FileLock ------------------------------
(***************************************************************************)
(* What fs2 promises of a whole-file advisory lock on every platform: a    *)
(* set of owners, each holding the file in some modes, where an exclusive  *)
(* owner excludes every other.  Who an owner is differs by platform, an    *)
(* open file description under flock(2), a process under fcntl(2), a file  *)
(* handle under LockFileEx, and so does what an owner keeps when it asks   *)
(* for a second mode.  The abstract specification leaves both open; the    *)
(* platform modules implement it under their own refinement mappings.      *)
(***************************************************************************)
CONSTANT Owner

VARIABLE granted    \* granted[o]: the modes in which owner o holds the file

Mode == {"shared", "exclusive"}

(***************************************************************************)
(* No owner but o stands in the way of mode m.                             *)
(***************************************************************************)
Grantable(o, m) ==
    \A q \in Owner \ {o} :
        \/ granted[q] = {}
        \/ m = "shared" /\ granted[q] = {"shared"}

Init == granted = [o \in Owner |-> {}]

(***************************************************************************)
(* A lock call succeeds: o holds m, instead of what it held (flock, fcntl) *)
(* or besides it (LockFileEx).                                             *)
(***************************************************************************)
Acquire(o, m) ==
    /\ Grantable(o, m)
    /\ \/ granted' = [granted EXCEPT ![o] = {m}]
       \/ granted' = [granted EXCEPT ![o] = @ \cup {m}]

(***************************************************************************)
(* Unlocking, closing, exiting and giving up a mode only ever take modes   *)
(* away, from any number of owners at once.                                *)
(***************************************************************************)
Release ==
    /\ granted' \in [Owner -> SUBSET Mode]
    /\ \A o \in Owner : granted'[o] \subseteq granted[o]

Next ==
    \/ \E o \in Owner, m \in Mode : Acquire(o, m)
    \/ Release

Spec == Init /\ [][Next]_granted

TypeOK == granted \in [Owner -> SUBSET Mode]

(***************************************************************************)
(* An exclusive owner is alone.                                            *)
(***************************************************************************)
Exclusion ==
    \A o, q \in Owner :
        o # q /\ "exclusive" \in granted[o] => granted[q] = {}
=============================================================================
