---------------------------- MODULE WindowsLock ----------------------------
(***************************************************************************)
(* FileExt's lock methods on Windows (src/src/windows/lock.rs), for one    *)
(* file.                                                                   *)
(*                                                                         *)
(* Locks belong to the file object behind a handle; duplicates share it.   *)
(* They are layered: one exclusive lock and any number of shared ones, all *)
(* over the same range, each undone by an unlock of its own.  An exclusive *)
(* request conflicts with every lock, those of its own file object         *)
(* included, and a request that fails or waits gives up nothing.  So a     *)
(* handle that upgrades a shared lock waits for itself.                    *)
(*                                                                         *)
(* A handle stands for a File and the thread that calls its methods.       *)
(***************************************************************************)
EXTENDS Naturals, FiniteSets

CONSTANTS
    Handle,         \* File handles
    Object,         \* file objects, one per open of the file
    Closed,         \* the object of a handle that is not open
    MaxLayers       \* bound on the shared locks one object layers

ASSUME ConstantsAssumption ==
    Closed \notin Object /\ MaxLayers \in Nat \ {0} /\ IsFiniteSet(Handle)

VARIABLES
    object,         \* object[h]: the file object handle h refers to
    exclusive,      \* the objects that hold the exclusive lock
    shared,         \* shared[o]: how many shared locks object o holds
    stage,          \* stage[h]: how far the lock call on h has come
    mode,           \* mode[h]: the mode that call asks for
    nonblocking,    \* the handles whose call must not wait
    event,          \* the handles whose call owns a PrivateOverlapped event
    result          \* result[h]: what the last method on h returned

locks == <<exclusive, shared>>
vars  == <<object, exclusive, shared, stage, mode, nonblocking, event, result>>

Stage   == {"idle", "try_lock_exclusive", "overlapped", "LockFileEx", "pending"}
Outcome == {"none", "ok", "contended", "not_locked", "other_error"}

(* Mutant: another error than the documented one. *)
lock_error_raw == "ERROR_IO_PENDING"

(* lock_contended_error is ERROR_LOCK_VIOLATION. *)
lock_error == "contended"

Handles(o) == {h \in Handle : object[h] = o}
Holds(o)   == o \in exclusive \/ shared[o] > 0

Init ==
    /\ object = [h \in Handle |-> Closed]
    /\ exclusive = {}
    /\ shared = [o \in Object |-> 0]
    /\ stage = [h \in Handle |-> "idle"]
    /\ mode = [h \in Handle |-> "shared"]
    /\ nonblocking = {}
    /\ event = {}
    /\ result = [h \in Handle |-> "none"]

-----------------------------------------------------------------------------
(* Opening the file makes an object of its own. *)
Open(h, o) ==
    /\ object[h] = Closed /\ Handles(o) = {}
    /\ object' = [object EXCEPT ![h] = o]
    /\ UNCHANGED <<locks, stage, mode, nonblocking, event, result>>

(* FileExt::duplicate: a second handle of the same file object. *)
duplicate(h, g) ==
    /\ stage[h] = "idle" /\ object[h] # Closed /\ object[g] = Closed
    /\ object' = [object EXCEPT ![g] = object[h]]
    /\ UNCHANGED <<locks, stage, mode, nonblocking, event, result>>

(* Dropping the last handle of an object drops every lock it layered. *)
Close(h) ==
    LET o == object[h] IN
    /\ stage[h] = "idle" /\ o # Closed
    /\ object' = [object EXCEPT ![h] = Closed]
    /\ result' = [result EXCEPT ![h] = "none"]
    /\ IF Handles(o) = {h}
       THEN /\ exclusive' = exclusive \ {o}
            /\ shared' = [shared EXCEPT ![o] = 0]
       ELSE UNCHANGED locks
    /\ UNCHANGED <<stage, mode, nonblocking, event>>

-----------------------------------------------------------------------------
(* Mutant: an exclusive request overlooks shared locks. *)
Refused_exclusiveOnly(h, m) == \E o \in exclusive : m = "exclusive" \/ o # object[h]

(* What the file system lets a request through handle h take.  Whether a   *)
(* duplicate may share over the exclusive lock of its object is left open. *)
Refused(h, m) ==
    IF m = "exclusive"
    THEN \E o \in Object : Holds(o)
    ELSE \E o \in exclusive : o # object[h]

MayRefuse(h, m) ==
    Refused(h, m) \/ (object[h] \in exclusive /\ Handles(object[h]) # {h})

Take(h, m) ==
    IF m = "exclusive"
    THEN exclusive' = exclusive \cup {object[h]} /\ UNCHANGED shared
    ELSE shared' = [shared EXCEPT ![object[h]] = @ + 1] /\ UNCHANGED exclusive

Goto(h, s) ==
    /\ stage' = [stage EXCEPT ![h] = s]
    /\ UNCHANGED <<object, mode, nonblocking, result>>

(* The method returns; a PrivateOverlapped it made is dropped on the way.  *)
Return(h, outcome) ==
    /\ stage' = [stage EXCEPT ![h] = "idle"]
    /\ mode' = [mode EXCEPT ![h] = "shared"]
    /\ nonblocking' = nonblocking \ {h}
    /\ event' = event \ {h}
    /\ result' = [result EXCEPT ![h] = outcome]
    /\ UNCHANGED object

Call(h, m, nb, first) ==
    /\ stage[h] = "idle" /\ object[h] # Closed
    /\ stage' = [stage EXCEPT ![h] = first]
    /\ mode' = [mode EXCEPT ![h] = m]
    /\ nonblocking' = IF nb THEN nonblocking \cup {h} ELSE nonblocking
    /\ result' = [result EXCEPT ![h] = "none"]
    /\ UNCHANGED <<object, locks, event>>

Layers(o) ==
    shared[o] + Cardinality({g \in Handles(o) : stage[g] # "idle" /\ mode[g] = "shared"})

lock_shared(h, nb) ==
    /\ object[h] # Closed /\ Layers(object[h]) < MaxLayers
    /\ Call(h, "shared", nb, "overlapped")

lock_exclusive(h, nb) == Call(h, "exclusive", nb, "try_lock_exclusive")

(* Mutant: the early return of a granted LockFile is missing. *)
try_lock_exclusive_goingOn(h) ==
    /\ stage[h] = "try_lock_exclusive"
    /\ IF Refused(h, "exclusive") THEN UNCHANGED locks ELSE Take(h, "exclusive")
    /\ IF h \in nonblocking
       THEN Return(h, IF Refused(h, "exclusive") THEN lock_error ELSE "ok")
       ELSE Goto(h, "overlapped") /\ UNCHANGED event

(* LockFile: takes the lock at once or fails.  A nonblocking call returns  *)
(* that failure; a blocking one, whatever the error, goes on to LockFileEx.*)
try_lock_exclusive(h) ==
    /\ stage[h] = "try_lock_exclusive"
    /\ \/ ~Refused(h, "exclusive") /\ Take(h, "exclusive") /\ Return(h, "ok")
       \/ /\ UNCHANGED locks
          /\ IF h \in nonblocking
             THEN \/ Refused(h, "exclusive") /\ Return(h, lock_error)
                  \/ Return(h, "other_error")
             ELSE Goto(h, "overlapped") /\ UNCHANGED event

(* PrivateOverlapped::new: the event is created, or the method fails.      *)
NewOverlapped(h) ==
    /\ stage[h] = "overlapped"
    /\ UNCHANGED locks
    /\ \/ Goto(h, "LockFileEx") /\ event' = event \cup {h}
       \/ Return(h, "other_error")

(* LockFileEx: granted, refused at once, failed, or left pending, which    *)
(* the code handles whatever the flags and whether or not there is a       *)
(* conflict.                                                               *)
LockFileEx(h) ==
    /\ stage[h] = "LockFileEx"
    /\ \/ ~Refused(h, mode[h]) /\ Take(h, mode[h]) /\ Return(h, "ok")
       \/ /\ UNCHANGED locks
          /\ \/ h \in nonblocking /\ MayRefuse(h, mode[h]) /\ Return(h, lock_error)
             \/ Goto(h, "pending") /\ UNCHANGED event
             \/ Return(h, "other_error")

(* GetOverlappedResult waits for the pending lock and reports its fate: it *)
(* is granted, or, for LOCKFILE_FAIL_IMMEDIATELY, refused.                 *)
GetOverlappedResult(h) ==
    /\ stage[h] = "pending"
    /\ \/ ~Refused(h, mode[h]) /\ Take(h, mode[h]) /\ Return(h, "ok")
       \/ /\ h \in nonblocking /\ MayRefuse(h, mode[h])
          /\ Return(h, lock_error) /\ UNCHANGED locks

(* The wait may also end with an error of the operation. *)
Cancelled(h) ==
    /\ stage[h] = "pending"
    /\ Return(h, "other_error") /\ UNCHANGED locks

(* UnlockFile undoes one layer; which one first is the file system's.      *)
unlock(h) ==
    LET o == object[h] IN
    /\ stage[h] = "idle" /\ o # Closed
    /\ \/ /\ o \in exclusive
          /\ exclusive' = exclusive \ {o} /\ UNCHANGED shared
          /\ result' = [result EXCEPT ![h] = "ok"]
       \/ /\ shared[o] > 0
          /\ shared' = [shared EXCEPT ![o] = @ - 1] /\ UNCHANGED exclusive
          /\ result' = [result EXCEPT ![h] = "ok"]
       \/ /\ ~Holds(o) /\ UNCHANGED locks
          /\ result' = [result EXCEPT ![h] = "not_locked"]
    /\ UNCHANGED <<object, stage, mode, nonblocking, event>>

StartCall(h) == \E nb \in BOOLEAN : lock_shared(h, nb) \/ lock_exclusive(h, nb)

Serve(h) ==
    try_lock_exclusive(h) \/ NewOverlapped(h) \/ LockFileEx(h) \/ GetOverlappedResult(h)

Next ==
    \E h \in Handle :
        \/ \E o \in Object : Open(h, o)
        \/ \E g \in Handle : duplicate(h, g)
        \/ Close(h) \/ StartCall(h) \/ Serve(h) \/ Cancelled(h) \/ unlock(h)

Spec == Init /\ [][Next]_vars

(***************************************************************************)
(* The rules FileExt's documentation sets for portable use: no locking     *)
(* through duplicates, and one lock at a time on a File.                   *)
(***************************************************************************)
DisciplinedNext ==
    \E h \in Handle :
        \/ \E o \in Object : Open(h, o)
        \/ object[h] # Closed /\ ~Holds(object[h]) /\ StartCall(h)
        \/ Close(h) \/ Serve(h) \/ Cancelled(h) \/ unlock(h)

GiveUp(h) == object[h] # Closed /\ Holds(object[h]) /\ (unlock(h) \/ Close(h))

(***************************************************************************)
(* The file system serves what it can, and whoever holds the lock and is   *)
(* not itself in a call eventually gives it up.                            *)
(***************************************************************************)
FairDisciplinedSpec ==
    /\ Init /\ [][DisciplinedNext]_vars
    /\ \A h \in Handle : WF_vars(Serve(h)) /\ WF_vars(GiveUp(h))

-----------------------------------------------------------------------------
TypeOK ==
    /\ object \in [Handle -> Object \cup {Closed}]
    /\ exclusive \subseteq Object
    /\ shared \in [Object -> 0 .. MaxLayers]
    /\ stage \in [Handle -> Stage]
    /\ mode \in [Handle -> {"shared", "exclusive"}]
    /\ nonblocking \subseteq Handle
    /\ event \subseteq Handle
    /\ result \in [Handle -> Outcome]

(***************************************************************************)
(* Under the documented rules a handle that waits stands in nobody's way.  *)
(***************************************************************************)
WaiterHoldsNothing ==
    \A h \in Handle : stage[h] = "pending" => ~Holds(object[h])

(***************************************************************************)
(* Once no new calls are made, every pending call returns.                 *)
(***************************************************************************)
WaitersReturn ==
    (<>[][\A h \in Handle : ~StartCall(h)]_vars) =>
        \A h \in Handle : stage[h] = "pending" ~> stage[h] = "idle"

(***************************************************************************)
(* WindowsLock implements FileLock with the file objects as owners.        *)
(***************************************************************************)
Promise == INSTANCE FileLock WITH
    Owner <- Object,
    granted <- [o \in Object |->
                    (IF o \in exclusive THEN {"exclusive"} ELSE {})
                    \cup (IF shared[o] > 0 THEN {"shared"} ELSE {})]

ImplementsFileLock == Promise!Spec
=============================================================================
