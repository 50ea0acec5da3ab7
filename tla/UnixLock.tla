------------------------------ MODULE UnixLock ------------------------------
(***************************************************************************)
(* FileExt's lock methods on Unix (src/src/unix/lock.rs), for one file.    *)
(*                                                                         *)
(* Every method is one flock(2) call.  flock is a lock of the open file    *)
(* description: descriptors made by FileExt::duplicate, and those a child  *)
(* process inherits, refer to the description of the original and share   *)
(* its one lock; a second open(2) makes a second description.  flock is    *)
(* not atomic when it changes the mode of a held lock: it removes the old  *)
(* lock first and then asks for the new one, so a call that then fails,    *)
(* waits or is interrupted has already given the old lock up.              *)
(*                                                                         *)
(* A process stands for a thread of control and its descriptor table.      *)
(***************************************************************************)
EXTENDS FiniteSets

CONSTANTS
    Process,        \* processes that use the file
    Slot,           \* entries of a descriptor table
    Description,    \* open file descriptions of the file
    Closed,         \* the value of an unused descriptor table entry
    NoRequest       \* the request of a process that is in no lock call

ASSUME ConstantsAssumption ==
    /\ Closed \notin Description
    /\ NoRequest \notin [desc : Description, method : {"shared", "exclusive"},
                         mode : {"shared", "exclusive"}, nonblocking : BOOLEAN]

VARIABLES
    fd,             \* fd[p][s]: the description slot s of p refers to
    inheritable,    \* <<p, s>> whose descriptor survives into a child
    lock,           \* lock[d]: the mode description d holds, or "none"
    request,        \* request[p]: the flock call p is in: the method that makes
                    \* it, and the mode and LOCK_NB of the flag it passes
    stage,          \* stage[p]: how far that call has come
    result          \* result[p]: what p's last lock method returned: the error,
                    \* or the mode an Ok of that method stands for

vars == <<fd, inheritable, lock, request, stage, result>>

LockMode == {"shared", "exclusive"}
Request  == [desc : Description, method : LockMode, mode : LockMode,
             nonblocking : BOOLEAN]
Stage    == {"idle", "replace", "establish", "waiting"}

(***************************************************************************)
(* lock_contended_error: what a caller compares an error of the try        *)
(* methods with.                                                           *)
(***************************************************************************)
lock_error == "EWOULDBLOCK"

(***************************************************************************)
(* Errors are last_os_error as it is.  "other" is any errno but the two    *)
(* below: ENOLCK, ENOMEM, EIO.                                             *)
(***************************************************************************)
Outcome == LockMode \cup {"none", "unlocked", "EWOULDBLOCK", "EINTR", "other"}

OpenSlots(p)  == {s \in Slot : fd[p][s] # Closed}
Referenced(d) == \E p \in Process, s \in Slot : fd[p][s] = d
HasHandle(p, d) == \E s \in Slot : fd[p][s] = d

(* Mutant: only exclusive holders are looked for.                          *)
Conflict_exclusiveOnly(d, m) ==
    \E e \in Description \ {d} : lock[e] = "exclusive"

(***************************************************************************)
(* Another description's lock rules mode m out for d.                      *)
(***************************************************************************)
Conflict(d, m) ==
    \E e \in Description \ {d} :
        \/ lock[e] = "exclusive"
        \/ lock[e] = "shared" /\ m = "exclusive"

(* Mutant: the lock is never given back by a close.                        *)
Surviving_forEver(table) == lock

(***************************************************************************)
(* The lock table after descriptors went away: the last close of a         *)
(* description drops its lock, closing one of several descriptors does not.*)
(***************************************************************************)
Surviving(table) ==
    [d \in Description |->
        IF \E p \in Process, s \in Slot : table[p][s] = d
        THEN lock[d] ELSE "none"]

Init ==
    /\ fd = [p \in Process |-> [s \in Slot |-> Closed]]
    /\ inheritable = {}
    /\ lock = [d \in Description |-> "none"]
    /\ request = [p \in Process |-> NoRequest]
    /\ stage = [p \in Process |-> "idle"]
    /\ result = [p \in Process |-> "none"]

-----------------------------------------------------------------------------
(***************************************************************************)
(* Descriptors.                                                            *)
(***************************************************************************)

(* open(2): a description of its own, closed in a child (std sets CLOEXEC). *)
Open(p, s, d) ==
    /\ stage[p] = "idle" /\ fd[p][s] = Closed
    /\ ~Referenced(d)
    /\ fd' = [fd EXCEPT ![p][s] = d]
    /\ UNCHANGED <<inheritable, lock, request, stage, result>>

(* FileExt::duplicate: dup(2) shares the description and is inheritable.   *)
duplicate(p, s, t) ==
    /\ stage[p] = "idle" /\ fd[p][s] # Closed
    /\ fd[p][t] = Closed
    /\ fd' = [fd EXCEPT ![p][t] = fd[p][s]]
    /\ inheritable' = inheritable \cup {<<p, t>>}
    /\ UNCHANGED <<lock, request, stage, result>>

(* A child process q starts with the inheritable descriptors of p.         *)
Inherit(p, q) ==
    /\ p # q /\ stage[p] = "idle"
    /\ stage[q] = "idle" /\ OpenSlots(q) = {}
    /\ \E s \in OpenSlots(p) : <<p, s>> \in inheritable
    /\ fd' = [fd EXCEPT ![q] =
                [s \in Slot |->
                    IF <<p, s>> \in inheritable THEN fd[p][s] ELSE Closed]]
    /\ inheritable' =
            inheritable \cup ({q} \X {s \in Slot : <<p, s>> \in inheritable})
    /\ UNCHANGED <<lock, request, stage, result>>

(* Dropping a File closes its descriptor.  A File borrowed by a running    *)
(* lock method cannot be dropped, and p is in none.                        *)
Close(p, s) ==
    /\ stage[p] = "idle" /\ fd[p][s] # Closed
    /\ fd' = [fd EXCEPT ![p][s] = Closed]
    /\ inheritable' = inheritable \ {<<p, s>>}
    /\ lock' = Surviving(fd')
    /\ result' = [result EXCEPT ![p] = "none"]
    /\ UNCHANGED <<request, stage>>

(* The process ends, or is killed in the middle of a call.                 *)
Exit(p) ==
    /\ OpenSlots(p) # {}
    /\ fd' = [fd EXCEPT ![p] = [s \in Slot |-> Closed]]
    /\ inheritable' = {x \in inheritable : x[1] # p}
    /\ lock' = Surviving(fd')
    /\ request' = [request EXCEPT ![p] = NoRequest]
    /\ stage' = [stage EXCEPT ![p] = "idle"]
    /\ result' = [result EXCEPT ![p] = "none"]

-----------------------------------------------------------------------------
(***************************************************************************)
(* Lock methods.  Entering flock records the request; the kernel steps     *)
(* below serve it.                                                         *)
(***************************************************************************)
flock(p, s, method, mode, nb) ==
    /\ stage[p] = "idle" /\ fd[p][s] # Closed
    /\ request' = [request EXCEPT ![p] =
            [desc |-> fd[p][s], method |-> method, mode |-> mode, nonblocking |-> nb]]
    /\ stage' = [stage EXCEPT ![p] = "replace"]
    /\ result' = [result EXCEPT ![p] = "none"]
    /\ UNCHANGED <<fd, inheritable, lock>>

(* LOCK_SH and LOCK_EX, with LOCK_NB for the try methods.                  *)
lock_shared(p, s, nonblocking) == flock(p, s, "shared", "shared", nonblocking)

(* Mutant: the flag of the other method.                                   *)
lock_exclusive_LOCK_SH(p, s, nonblocking) ==
    flock(p, s, "exclusive", "shared", nonblocking)

lock_exclusive(p, s, nonblocking) ==
    flock(p, s, "exclusive", "exclusive", nonblocking)

(* LOCK_UN never blocks, and succeeds on a description that holds nothing. *)
unlock(p, s) ==
    /\ stage[p] = "idle" /\ fd[p][s] # Closed
    /\ lock' = [lock EXCEPT ![fd[p][s]] = "none"]
    /\ result' = [result EXCEPT ![p] = "unlocked"]
    /\ UNCHANGED <<fd, inheritable, request, stage>>

(* LOCK_UN fails, on a file system that serves locks over a network say.   *)
UnlockError(p, s) ==
    /\ stage[p] = "idle" /\ fd[p][s] # Closed
    /\ result' = [result EXCEPT ![p] = "other"]
    /\ UNCHANGED <<fd, inheritable, lock, request, stage>>

Return(p, outcome) ==
    /\ request' = [request EXCEPT ![p] = NoRequest]
    /\ stage' = [stage EXCEPT ![p] = "idle"]
    /\ result' = [result EXCEPT ![p] = outcome]

(* Mutant: the conversion keeps the old lock until it has the new one.     *)
Replace_keepingOld(p) ==
    LET d == request[p].desc IN
    /\ stage[p] = "replace"
    /\ IF lock[d] = request[p].mode
       THEN Return(p, request[p].method)
       ELSE stage' = [stage EXCEPT ![p] = "establish"] /\ UNCHANGED <<request, result>>
    /\ UNCHANGED <<fd, inheritable, lock>>

(* The call finds its description's lock: the mode asked for is already    *)
(* held, or whatever is held is removed before the new mode is sought.     *)
Replace(p) ==
    LET d == request[p].desc IN
    /\ stage[p] = "replace"
    /\ IF lock[d] = request[p].mode
       THEN Return(p, request[p].method) /\ UNCHANGED lock
       ELSE /\ lock' = [lock EXCEPT ![d] = "none"]
            /\ stage' = [stage EXCEPT ![p] = "establish"]
            /\ UNCHANGED <<request, result>>
    /\ UNCHANGED <<fd, inheritable>>

(* No conflict: the new lock takes the place of whatever another user of   *)
(* the description put there meanwhile, and the method returns Ok.         *)
Grant(p) ==
    LET d == request[p].desc IN
    /\ stage[p] \in {"establish", "waiting"}
    /\ ~Conflict(d, request[p].mode)
    /\ lock' = [lock EXCEPT ![d] = request[p].mode]
    /\ Return(p, request[p].method)
    /\ UNCHANGED <<fd, inheritable>>

(* LOCK_NB: a conflict is an error, and nothing is put back.               *)
Fail(p) ==
    /\ stage[p] = "establish" /\ request[p].nonblocking
    /\ Conflict(request[p].desc, request[p].mode)
    /\ Return(p, "EWOULDBLOCK")
    /\ UNCHANGED <<fd, inheritable, lock>>

(* A blocking call sleeps until the conflict goes away.                    *)
Wait(p) ==
    /\ stage[p] = "establish" /\ ~request[p].nonblocking
    /\ Conflict(request[p].desc, request[p].mode)
    /\ stage' = [stage EXCEPT ![p] = "waiting"]
    /\ UNCHANGED <<fd, inheritable, lock, request, result>>

(* Mutant: an interrupted wait passes for a granted lock.                  *)
Interrupt_asOk(p) ==
    /\ stage[p] = "waiting"
    /\ Return(p, request[p].method)
    /\ UNCHANGED <<fd, inheritable, lock>>

(* A signal ends the sleep: flock fails with EINTR and is not retried.     *)
Interrupt(p) ==
    /\ stage[p] = "waiting"
    /\ Return(p, "EINTR")
    /\ UNCHANGED <<fd, inheritable, lock>>

(* Any other error ends the call where it is: before the old lock was      *)
(* removed, which then stays, or after it.                                 *)
Error(p) ==
    /\ stage[p] # "idle"
    /\ Return(p, "other")
    /\ UNCHANGED <<fd, inheritable, lock>>

Kernel(p) == Replace(p) \/ Grant(p) \/ Fail(p) \/ Wait(p)

StartCall(p) ==
    \E s \in Slot, nb \in BOOLEAN : lock_shared(p, s, nb) \/ lock_exclusive(p, s, nb)

(* p gives the file up: it unlocks, or, should that fail, drops its File.  *)
GiveUp(p) ==
    \E s \in OpenSlots(p) : lock[fd[p][s]] # "none" /\ (unlock(p, s) \/ Close(p, s))

Next ==
    \E p \in Process :
        \/ \E s \in Slot, d \in Description : Open(p, s, d)
        \/ \E s, t \in Slot : duplicate(p, s, t)
        \/ \E q \in Process : Inherit(p, q)
        \/ \E s \in Slot : Close(p, s) \/ unlock(p, s) \/ UnlockError(p, s)
        \/ Exit(p)
        \/ StartCall(p)
        \/ Kernel(p)
        \/ Interrupt(p)
        \/ Error(p)

Spec == Init /\ [][Next]_vars

(***************************************************************************)
(* The rules FileExt's documentation sets for portable use: one File per   *)
(* locker, and no locking through duplicates.                              *)
(***************************************************************************)
Disciplined ==
    /\ inheritable = {}
    /\ \A p \in Process : \A s, t \in OpenSlots(p) : s = t

DisciplinedSpec == Init /\ [][Next /\ Disciplined']_vars

(***************************************************************************)
(* The kernel serves every call it can serve, and whoever holds the lock   *)
(* and is not itself waiting eventually gives it up.                       *)
(***************************************************************************)
Fairness ==
    \A p \in Process :
        /\ WF_vars(Kernel(p) /\ Disciplined')
        /\ WF_vars(GiveUp(p) /\ Disciplined')

FairDisciplinedSpec == DisciplinedSpec /\ Fairness

-----------------------------------------------------------------------------
TypeOK ==
    /\ fd \in [Process -> [Slot -> Description \cup {Closed}]]
    /\ inheritable \subseteq Process \X Slot
    /\ lock \in [Description -> LockMode \cup {"none"}]
    /\ request \in [Process -> Request \cup {NoRequest}]
    /\ stage \in [Process -> Stage]
    /\ result \in [Process -> Outcome]

(***************************************************************************)
(* An exclusive lock excludes every lock of another description: part of   *)
(* the invariant that the proofs of OkExcludes and the refinement rest on. *)
(***************************************************************************)
Exclusion ==
    \A d, e \in Description :
        d # e /\ lock[d] = "exclusive" => lock[e] = "none"

(***************************************************************************)
(* No lock outlives the last descriptor of its description, so a file is   *)
(* never locked by nobody (dropping a File releases, lock_contract.rs).    *)
(***************************************************************************)
NoOrphanLock ==
    \A d \in Description : lock[d] # "none" => Referenced(d)

(***************************************************************************)
(* Under the documented rules the last result tells a caller what it       *)
(* holds: the locked mode after Ok, nothing after an unlock, a refusal or  *)
(* an interrupted wait, the lock it had before included.  Of another error *)
(* nothing can be said: the old lock may be gone or not.                   *)
(***************************************************************************)
ResultTellsLock ==
    \A p \in Process : \A s \in OpenSlots(p) :
        stage[p] = "idle" =>
            /\ result[p] \in LockMode => lock[fd[p][s]] = result[p]
            /\ result[p] \in {"none", "unlocked", lock_error, "EINTR"} =>
                  lock[fd[p][s]] = "none"

(***************************************************************************)
(* Under the documented rules, from the Ok of lock_exclusive on until the  *)
(* caller's next call, unlock, close or death, nobody else is in           *)
(* possession of an Ok of a lock method.                                   *)
(***************************************************************************)
OkExcludes ==
    \A p, q \in Process :
        p # q /\ result[p] = "exclusive" => result[q] \notin LockMode

(***************************************************************************)
(* Under the documented rules waiting calls never wait for each other: the *)
(* lock in the way of a waiting call belongs to a process that is not      *)
(* waiting.  Two holders of the shared lock that both upgrade would        *)
(* otherwise wait for one another for ever.                                *)
(***************************************************************************)
HolderIsNotWaiting ==
    \A p, q \in Process : \A d \in Description :
        /\ stage[p] = "waiting"
        /\ d # request[p].desc /\ lock[d] # "none" /\ HasHandle(q, d)
        => stage[q] # "waiting"

(***************************************************************************)
(* Once no new calls are made, every waiting call returns.                 *)
(***************************************************************************)
WaitersReturn ==
    (<>[][\A p \in Process : ~StartCall(p)]_vars) =>
        \A p \in Process : stage[p] = "waiting" ~> stage[p] = "idle"

(***************************************************************************)
(* UnixLock implements FileLock with the descriptions as owners.           *)
(***************************************************************************)
Promise == INSTANCE FileLock WITH
    Owner <- Description,
    granted <- [d \in Description |-> IF lock[d] = "none" THEN {} ELSE {lock[d]}]

ImplementsFileLock == Promise!Spec
=============================================================================
