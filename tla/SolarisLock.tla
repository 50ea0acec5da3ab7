----------------------------- MODULE SolarisLock -----------------------------
(***************************************************************************)
(* FileExt's lock methods on Solaris (src/src/unix/solaris.rs), for one    *)
(* file.  There every method is one fcntl(2) call on a record that covers  *)
(* the whole file.  A record belongs to the process: the handles of one    *)
(* process share it, its threads never contend, closing any descriptor of  *)
(* the file drops it, and a child does not inherit it.  Asking for another *)
(* mode keeps the record until the new one is granted, and the kernel      *)
(* refuses a wait that would close a circle of waiting processes.          *)
(***************************************************************************)
EXTENDS FiniteSets

CONSTANTS
    Process,        \* processes that use the file
    Thread,         \* their threads
    Home,           \* the process of each thread
    Slot,           \* entries of a descriptor table
    Access,         \* the ways the file may be opened
    Closed,         \* the value of an unused descriptor table entry
    NoRequest       \* the request of a thread that is in no lock call

LockMode == {"shared", "exclusive"}
Request  == [slot : Slot, mode : LockMode, nonblocking : BOOLEAN]

ASSUME ConstantsAssumption ==
    /\ Home \in [Thread -> Process]
    /\ Access \subseteq {"read", "write", "read and write"}
    /\ Closed \notin Access
    /\ NoRequest \notin Request

VARIABLES
    fd,         \* fd[p][s]: what p opened the file for in slot s, or Closed
    record,     \* record[p]: the mode p's record has, or "none"
    request,    \* request[t]: the fcntl call t is in
    waiting,    \* the threads that sleep in F_SETLKW
    result      \* what the last lock method to return returned

vars == <<fd, record, request, waiting, result>>

\* "other" is any errno but the four named: ENOLCK, EIO, EOVERFLOW.
Outcome == {"Ok", "EWOULDBLOCK", "EDEADLK", "EINTR", "EBADF", "other"}

OpenSlots(p) == {s \in Slot : fd[p][s] # Closed}

\* Mutant: two processes that both only read are all that is told apart.
Conflicting_exclusiveOnly(p, m) == {q \in Process \ {p} : record[q] = "exclusive"}

\* The processes whose record rules mode m out for p.
Conflicting(p, m) ==
    {q \in Process \ {p} :
        \/ record[q] = "exclusive"
        \/ record[q] = "shared" /\ m = "exclusive"}

\* A process waits for the ones whose records stand in the way of its threads.
WaitsFor(p, q) ==
    \E t \in waiting : Home[t] = p /\ q \in Conflicting(p, request[t].mode)

\* The kernel finds a circle when a process in the way is stuck, in any number of
\* steps, behind p: no set of processes that a blocker is in, and that holds with
\* a process those it waits for, is without p.
ClosesCircle(p, m) ==
    \E q \in Conflicting(p, m) :
        \A stuck \in SUBSET Process :
            /\ q \in stuck
            /\ \A a \in stuck, b \in Process : WaitsFor(a, b) => b \in stuck
            => p \in stuck

\* fcntl wants a descriptor open for what the mode is for.
Permits(access, m) ==
    access = "read and write" \/ access = IF m = "shared" THEN "read" ELSE "write"

\* The error for a conflict is EACCES or EAGAIN, which is EWOULDBLOCK's number;
\* flock translates the first.
translate(error) == IF error = "EACCES" THEN "EWOULDBLOCK" ELSE error

Init ==
    /\ fd = [p \in Process |-> [s \in Slot |-> Closed]]
    /\ record = [p \in Process |-> "none"]
    /\ request = [t \in Thread |-> NoRequest]
    /\ waiting = {}
    /\ result = "Ok"

-----------------------------------------------------------------------------
\* open(2), or a descriptor that p, a child, starts with: fcntl tells neither it
\* nor a duplicate from one that was opened, since the record is the process's.
Open(p, s, access) ==
    /\ fd[p][s] = Closed
    /\ fd' = [fd EXCEPT ![p][s] = access]
    /\ UNCHANGED <<record, request, waiting, result>>

\* FileExt::duplicate: dup(2) keeps the access.
duplicate(p, s, u) ==
    /\ fd[p][s] # Closed /\ fd[p][u] = Closed
    /\ fd' = [fd EXCEPT ![p][u] = fd[p][s]]
    /\ UNCHANGED <<record, request, waiting, result>>

\* Dropping a File that no thread borrows closes its descriptor, and with it the
\* process loses its record, whichever handle the record was asked for through.
Close(p, s) ==
    /\ fd[p][s] # Closed
    /\ \A t \in Thread : Home[t] = p /\ request[t] # NoRequest => request[t].slot # s
    /\ fd' = [fd EXCEPT ![p][s] = Closed]
    /\ record' = [record EXCEPT ![p] = "none"]
    /\ UNCHANGED <<request, waiting, result>>

\* The process ends, or is killed in the middle of a call.
Exit(p) ==
    /\ OpenSlots(p) # {}
    /\ fd' = [fd EXCEPT ![p] = [s \in Slot |-> Closed]]
    /\ record' = [record EXCEPT ![p] = "none"]
    /\ request' = [t \in Thread |-> IF Home[t] = p THEN NoRequest ELSE request[t]]
    /\ waiting' = {t \in waiting : Home[t] # p}
    /\ UNCHANGED result

-----------------------------------------------------------------------------
\* LOCK_NB selects F_SETLK instead of F_SETLKW and is cleared; what is left is
\* the type of the record.  The methods pass no other flag, so none is EINVAL.
flock(t, s, m, nb) ==
    /\ request[t] = NoRequest /\ fd[Home[t]][s] # Closed
    /\ request' = [request EXCEPT ![t] = [slot |-> s, mode |-> m, nonblocking |-> nb]]
    /\ UNCHANGED <<fd, record, waiting, result>>

\* LOCK_UN takes the record of the process away and never waits.
unlock(t, s) ==
    /\ request[t] = NoRequest /\ fd[Home[t]][s] # Closed
    /\ record' = [record EXCEPT ![Home[t]] = "none"]
    /\ result' = "Ok"
    /\ UNCHANGED <<fd, request, waiting>>

\* LOCK_UN fails, and the record stays.
UnlockError(t, s) ==
    /\ request[t] = NoRequest /\ fd[Home[t]][s] # Closed
    /\ result' = "other"
    /\ UNCHANGED <<fd, record, request, waiting>>

Return(t, outcome) ==
    /\ request' = [request EXCEPT ![t] = NoRequest]
    /\ waiting' = waiting \ {t}
    /\ result' = outcome

Refuse(t) ==
    /\ request[t] # NoRequest /\ t \notin waiting
    /\ ~Permits(fd[Home[t]][request[t].slot], request[t].mode)
    /\ Return(t, "EBADF")
    /\ UNCHANGED <<fd, record>>

\* External: the kernel puts the record in the place of the one p has.
Grant(t) ==
    LET p == Home[t] IN
    /\ request[t] # NoRequest
    /\ Permits(fd[p][request[t].slot], request[t].mode)
    /\ Conflicting(p, request[t].mode) = {}
    /\ record' = [record EXCEPT ![p] = request[t].mode]
    /\ Return(t, "Ok")
    /\ UNCHANGED fd

\* A conflict: F_SETLK fails, F_SETLKW fails when the wait would close a circle
\* and sleeps otherwise.  The record p has stays as it is.
Contend(t) ==
    LET p == Home[t] IN
    /\ request[t] # NoRequest /\ t \notin waiting
    /\ Permits(fd[p][request[t].slot], request[t].mode)
    /\ Conflicting(p, request[t].mode) # {}
    /\ IF request[t].nonblocking
       THEN \E error \in {"EACCES", "EWOULDBLOCK"} : Return(t, translate(error))
       ELSE IF ClosesCircle(p, request[t].mode)
       THEN Return(t, "EDEADLK")
       ELSE waiting' = waiting \cup {t} /\ UNCHANGED <<request, result>>
    /\ UNCHANGED <<fd, record>>

\* A signal ends the sleep; the call is not made again.
Interrupt(t) ==
    /\ t \in waiting
    /\ Return(t, "EINTR")
    /\ UNCHANGED <<fd, record>>

\* Any other error of fcntl is returned as it is; the record stays as it is too.
Error(t) ==
    /\ request[t] # NoRequest
    /\ Return(t, "other")
    /\ UNCHANGED <<fd, record>>

Next ==
    \/ \E p \in Process :
        \/ \E s \in Slot, access \in Access : Open(p, s, access)
        \/ \E s, u \in Slot : duplicate(p, s, u)
        \/ \E s \in Slot : Close(p, s)
        \/ Exit(p)
    \/ \E t \in Thread :
        \/ \E s \in Slot, m \in LockMode, nb \in BOOLEAN : flock(t, s, m, nb)
        \/ \E s \in Slot : unlock(t, s) \/ UnlockError(t, s)
        \/ Refuse(t) \/ Grant(t) \/ Contend(t) \/ Interrupt(t) \/ Error(t)

Spec == Init /\ [][Next]_vars

-----------------------------------------------------------------------------
TypeOK ==
    /\ fd \in [Process -> [Slot -> Access \cup {Closed}]]
    /\ record \in [Process -> LockMode \cup {"none"}]
    /\ request \in [Thread -> Request \cup {NoRequest}]
    /\ waiting \subseteq Thread
    /\ result \in Outcome

\* SolarisLock implements FileLock with the processes as owners: it coordinates
\* separate processes (solaris.rs:2-3), whatever their handles, threads, children,
\* conversions and deaths, and a record only ever goes away or is granted.
Promise == INSTANCE FileLock WITH
    Owner <- Process,
    granted <- [p \in Process |-> IF record[p] = "none" THEN {} ELSE {record[p]}]

ImplementsFileLock == Promise!Spec
=============================================================================
