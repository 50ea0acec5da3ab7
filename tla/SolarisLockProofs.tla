------------------------- MODULE SolarisLockProofs -------------------------
(***************************************************************************)
(* SolarisLock keeps its types and implements FileLock, for every set of   *)
(* processes, threads and descriptors.  The record of a process only ever  *)
(* changes in three ways: a grant, which no other record stood against,    *)
(* and a close, an exit or an unlock, which take it away.                  *)
(***************************************************************************)
EXTENDS SolarisLock, TLAPS

\* The initial state has the types.
LEMMA InitTypes == Init => TypeOK
  BY DEF Init, TypeOK, Outcome, LockMode

\* The return of a call keeps the types of what the call is made of.
LEMMA ReturnTypes ==
  ASSUME TypeOK, NEW t \in Thread, NEW outcome \in Outcome, Return(t, outcome)
  PROVE  /\ request' \in [Thread -> Request \cup {NoRequest}]
         /\ waiting' \subseteq Thread
         /\ result' \in Outcome
  BY DEF TypeOK, Return

\* A thread that is in a call has made a request.
LEMMA RequestIsMade ==
  ASSUME TypeOK, NEW t \in Thread, request[t] # NoRequest
  PROVE  request[t] \in Request /\ request[t].mode \in LockMode /\ Home[t] \in Process
  BY ConstantsAssumption DEF TypeOK, Request

\* Every step of a descriptor keeps the types.
LEMMA DescriptorTypes ==
  ASSUME TypeOK, NEW p \in Process,
         \/ \E s \in Slot, access \in Access : Open(p, s, access)
         \/ \E s, u \in Slot : duplicate(p, s, u)
         \/ \E s \in Slot : Close(p, s)
         \/ Exit(p)
  PROVE  TypeOK'
<1>1. CASE \E s \in Slot, access \in Access : Open(p, s, access)
  BY <1>1 DEF Open, TypeOK
<1>2. CASE \E s, u \in Slot : duplicate(p, s, u)
  BY <1>2 DEF duplicate, TypeOK
<1>3. CASE \E s \in Slot : Close(p, s)
  BY <1>3 DEF Close, TypeOK
<1>4. CASE Exit(p)
  BY <1>4 DEF Exit, TypeOK
<1>5. QED
  BY <1>1, <1>2, <1>3, <1>4

\* Every step of a call keeps the types.
LEMMA CallTypes ==
  ASSUME TypeOK, NEW t \in Thread,
         \/ \E s \in Slot, m \in LockMode, nb \in BOOLEAN : flock(t, s, m, nb)
         \/ \E s \in Slot : unlock(t, s) \/ UnlockError(t, s)
         \/ Refuse(t) \/ Grant(t) \/ Contend(t) \/ Interrupt(t) \/ Error(t)
  PROVE  TypeOK'
<1>1. CASE \E s \in Slot, m \in LockMode, nb \in BOOLEAN : flock(t, s, m, nb)
  <2>1. PICK s \in Slot, m \in LockMode, nb \in BOOLEAN : flock(t, s, m, nb)
    BY <1>1
  <2>2. [slot |-> s, mode |-> m, nonblocking |-> nb] \in Request
    BY DEF Request
  <2>3. QED
    BY <2>1, <2>2 DEF flock, TypeOK
<1>2. CASE \E s \in Slot : unlock(t, s) \/ UnlockError(t, s)
  BY <1>2 DEF unlock, UnlockError, TypeOK, Outcome
<1>3. CASE Refuse(t)
  <2>1. Return(t, "EBADF") /\ "EBADF" \in Outcome
    BY <1>3 DEF Refuse, Outcome
  <2>2. QED
    BY <1>3, <2>1, ReturnTypes DEF Refuse, TypeOK
<1>4. CASE Grant(t)
  <2>1. Return(t, "Ok") /\ "Ok" \in Outcome
    BY <1>4 DEF Grant, Outcome
  <2>2. record' \in [Process -> LockMode \cup {"none"}]
    BY <1>4, RequestIsMade DEF Grant, TypeOK
  <2>3. QED
    BY <1>4, <2>1, <2>2, ReturnTypes DEF Grant, TypeOK
<1>5. CASE Contend(t)
  <2>1. CASE \E outcome \in Outcome : Return(t, outcome)
    BY <1>5, <2>1, ReturnTypes DEF Contend, TypeOK
  <2>2. CASE waiting' = waiting \cup {t} /\ UNCHANGED <<request, result>>
    BY <1>5, <2>2 DEF Contend, TypeOK
  <2>3. QED
    BY <1>5, <2>1, <2>2 DEF Contend, translate, Outcome
<1>6. CASE Interrupt(t)
  <2>1. Return(t, "EINTR") /\ "EINTR" \in Outcome
    BY <1>6 DEF Interrupt, Outcome
  <2>2. QED
    BY <1>6, <2>1, ReturnTypes DEF Interrupt, TypeOK
<1>7. CASE Error(t)
  <2>1. Return(t, "other") /\ "other" \in Outcome
    BY <1>7 DEF Error, Outcome
  <2>2. QED
    BY <1>7, <2>1, ReturnTypes DEF Error, TypeOK
<1>8. QED
  BY <1>1, <1>2, <1>3, <1>4, <1>5, <1>6, <1>7

\* So does every step.
LEMMA NextTypes == TypeOK /\ [Next]_vars => TypeOK'
<1> SUFFICES ASSUME TypeOK, [Next]_vars PROVE TypeOK'
  OBVIOUS
<1>1. CASE Next
  BY <1>1, DescriptorTypes, CallTypes DEF Next
<1>2. CASE UNCHANGED vars
  BY <1>2 DEF vars, TypeOK
<1>3. QED
  BY <1>1, <1>2

\* The variables of solaris.rs's model keep their types.
THEOREM TypeCorrect == Spec => []TypeOK
  BY InitTypes, NextTypes, PTL DEF Spec

-----------------------------------------------------------------------------
(***************************************************************************)
(* The refinement.                                                         *)
(***************************************************************************)

\* What the processes hold, as FileLock sees it.
Held == [p \in Process |-> IF record[p] = "none" THEN {} ELSE {record[p]}]

\* A step that leaves the records alone, or takes some of them away, is a step of
\* FileLock's owners giving modes up.
LEMMA RecordsGoAway ==
  ASSUME TypeOK, TypeOK',
         \A p \in Process : record'[p] = record[p] \/ record'[p] = "none"
  PROVE  Promise!Release
<1>1. Held' \in [Process -> SUBSET Promise!Mode]
  BY DEF Held, TypeOK, LockMode, Promise!Mode
<1>2. \A p \in Process : Held'[p] \subseteq Held[p]
  BY DEF Held
<1>3. QED
  BY <1>1, <1>2 DEF Held, Promise!Release

\* Granting a mode nothing conflicts with is FileLock's Acquire by the process.
LEMMA GrantAcquires ==
  ASSUME TypeOK, NEW p \in Process, NEW m \in LockMode,
         Conflicting(p, m) = {}, record' = [record EXCEPT ![p] = m]
  PROVE  Promise!Acquire(p, m)
<1>1. Promise!Grantable(p, m)
  BY DEF Promise!Grantable, Conflicting, TypeOK, LockMode
<1>2. Held' = [Held EXCEPT ![p] = {m}]
  BY DEF Held, TypeOK, LockMode
<1>3. QED
  BY <1>1, <1>2 DEF Promise!Acquire, Held

\* Every step is one of FileLock's or leaves what is held alone.
LEMMA NextRefines == TypeOK /\ TypeOK' /\ [Next]_vars => [Promise!Next]_Held
<1> SUFFICES ASSUME TypeOK, TypeOK', [Next]_vars PROVE [Promise!Next]_Held
  OBVIOUS
<1>1. CASE \E t \in Thread : Grant(t)
  <2>1. PICK p \in Process, m \in LockMode :
          Conflicting(p, m) = {} /\ record' = [record EXCEPT ![p] = m]
    BY <1>1, RequestIsMade DEF Grant
  <2>2. Promise!Acquire(p, m) /\ m \in Promise!Mode
    BY <2>1, GrantAcquires DEF LockMode, Promise!Mode
  <2>3. QED
    BY <2>1, <2>2 DEF Promise!Next
<1>2. CASE \E t \in Thread : \E s \in Slot : unlock(t, s)
  <2>1. \A p \in Process : record'[p] = record[p] \/ record'[p] = "none"
    BY <1>2 DEF unlock, TypeOK
  <2>2. QED
    BY <2>1, RecordsGoAway DEF Promise!Next
<1>3. CASE \E p \in Process : Exit(p) \/ \E s \in Slot : Close(p, s)
  <2>1. \A p \in Process : record'[p] = record[p] \/ record'[p] = "none"
    BY <1>3 DEF Exit, Close, TypeOK
  <2>2. QED
    BY <2>1, RecordsGoAway DEF Promise!Next
<1>4. CASE UNCHANGED record
  BY <1>4 DEF Held
<1>5. QED
  BY <1>1, <1>2, <1>3, <1>4
     DEF Next, vars, Open, duplicate, flock, Refuse, Contend, Interrupt, Error,
         UnlockError

\* At first nobody holds the file.
LEMMA InitRefines == Init => Promise!Init
  BY DEF Init, Promise!Init

\* Solaris' process-associated records keep the whole-file lock contract between
\* processes, for every number of them, of threads and of handles.
THEOREM Refinement == Spec => ImplementsFileLock
<1>1. Init /\ [][Next]_vars /\ []TypeOK => Promise!Init /\ [][Promise!Next]_Held
  BY InitRefines, NextRefines, PTL
<1>2. QED
  BY <1>1, TypeCorrect, PTL DEF Spec, ImplementsFileLock, Promise!Spec, Held
=============================================================================
