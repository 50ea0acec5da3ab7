--------------------------- MODULE UnixLockProofs ---------------------------
(***************************************************************************)
(* What results tell, who waits for whom, the absence of orphan locks and  *)
(* the refinement of FileLock, for every set of processes, slots and       *)
(* descriptions.                                                           *)
(***************************************************************************)
EXTENDS UnixLock, TLAPS

(***************************************************************************)
(* A process is in a call exactly when it has a request, the File it       *)
(* borrowed for the call is still open, and the flag is the method's.      *)
(***************************************************************************)
CallOK ==
    \A p \in Process :
        /\ request[p] = NoRequest <=> stage[p] = "idle"
        /\ stage[p] # "idle" =>
              /\ request[p] \in Request /\ HasHandle(p, request[p].desc)
              /\ request[p].method = request[p].mode

IInv == TypeOK /\ CallOK /\ Exclusion /\ NoOrphanLock

-----------------------------------------------------------------------------
(* NoRequest is no request: a request has a mode, it has none. *)
LEMMA RequestFields ==
    ASSUME NEW r \in Request
    PROVE  /\ r # NoRequest
           /\ r.desc \in Description /\ r.mode \in LockMode
           /\ r.method \in LockMode /\ r.nonblocking \in BOOLEAN
BY ConstantsAssumption DEF Request, LockMode

(* The invariant holds at the start. *)
LEMMA InitIInv == Init => IInv
BY DEF Init, IInv, TypeOK, CallOK, Exclusion, NoOrphanLock, Stage, Outcome, LockMode

(* Opening, duplicating and inheriting add references and touch no lock. *)
LEMMA GrowIInv ==
    ASSUME IInv, NEW p \in Process,
           \/ \E s \in Slot, d \in Description : Open(p, s, d)
           \/ \E s, t \in Slot : duplicate(p, s, t)
           \/ \E q \in Process : Inherit(p, q)
    PROVE  IInv'
<1>1. TypeOK'
  <2>1. CASE \E s \in Slot, d \in Description : Open(p, s, d)
    BY <2>1 DEF IInv, TypeOK, Open
  <2>2. CASE \E s, t \in Slot : duplicate(p, s, t)
    BY <2>2 DEF IInv, TypeOK, duplicate
  <2>3. CASE \E q \in Process : Inherit(p, q)
    <3>1. PICK q \in Process : Inherit(p, q)
      BY <2>3
    <3>2. [s \in Slot |-> IF <<p, s>> \in inheritable THEN fd[p][s] ELSE Closed]
             \in [Slot -> Description \cup {Closed}]
      BY DEF IInv, TypeOK
    <3>3. fd' \in [Process -> [Slot -> Description \cup {Closed}]]
      BY <3>1, <3>2 DEF IInv, TypeOK, Inherit
    <3>4. inheritable' \subseteq Process \X Slot
      BY <3>1 DEF IInv, TypeOK, Inherit
    <3>q. QED BY <3>1, <3>3, <3>4 DEF IInv, TypeOK, Inherit
  <2>q. QED BY <2>1, <2>2, <2>3
<1>2. UNCHANGED <<lock, request, stage>>
  BY ZenonT(30) DEF Open, duplicate, Inherit
<1>3. \A q \in Process, s \in Slot : fd[q][s] # Closed => fd'[q][s] = fd[q][s]
  <2>1. CASE \/ \E s \in Slot, d \in Description : Open(p, s, d)
             \/ \E s, t \in Slot : duplicate(p, s, t)
    BY <2>1 DEF IInv, TypeOK, Open, duplicate
  <2>2. CASE \E r \in Process : Inherit(p, r)
    <3>1. PICK r \in Process : Inherit(p, r)
      BY <2>2
    <3>2. \A s \in Slot : fd[r][s] = Closed
      BY <3>1 DEF Inherit, OpenSlots
    <3>3. \A q \in Process \ {r} : fd'[q] = fd[q]
      BY <3>1 DEF Inherit, IInv, TypeOK
    <3>q. QED BY <3>2, <3>3
  <2>q. QED BY <2>1, <2>2
<1>4. CallOK'
  <2>1. ASSUME NEW q \in Process, stage[q] # "idle"
        PROVE  HasHandle(q, request[q].desc)'
    <3>1. PICK s \in Slot : fd[q][s] = request[q].desc
      BY <2>1 DEF IInv, CallOK, HasHandle
    <3>2. fd[q][s] # Closed
      BY <2>1, <3>1, RequestFields, ConstantsAssumption DEF IInv, CallOK
    <3>q. QED BY <1>2, <1>3, <3>1, <3>2 DEF HasHandle
  <2>q. QED BY <1>2, <2>1 DEF IInv, CallOK
<1>5. Exclusion'
  BY <1>2 DEF IInv, Exclusion
<1>6. NoOrphanLock'
  BY <1>2, <1>3, ConstantsAssumption DEF IInv, NoOrphanLock, Referenced
<1>q. QED BY <1>1, <1>4, <1>5, <1>6 DEF IInv

(* Losing descriptors can only lose locks, and loses those without one. *)
LEMMA SurvivingFact ==
    ASSUME TypeOK, lock' = Surviving(fd')
    PROVE  /\ lock' \in [Description -> LockMode \cup {"none"}]
           /\ \A d \in Description :
                /\ lock'[d] # "none" => lock'[d] = lock[d]
                /\ lock'[d] # "none" => Referenced(d)'
BY DEF TypeOK, Surviving, Referenced

(* Closing and exiting: what disappears takes its lock along. *)
LEMMA ShrinkIInv ==
    ASSUME IInv, NEW p \in Process,
           (\E s \in Slot : Close(p, s)) \/ Exit(p)
    PROVE  IInv'
<1>0. TypeOK /\ lock' = Surviving(fd')
  BY DEF IInv, Close, Exit
<1>1. TypeOK'
  <2>1. CASE \E s \in Slot : Close(p, s)
    <3>1. fd' \in [Process -> [Slot -> Description \cup {Closed}]]
      BY <2>1, <1>0 DEF TypeOK, Close
    <3>2. inheritable' \subseteq Process \X Slot
      BY <2>1, <1>0 DEF TypeOK, Close
    <3>3. lock' \in [Description -> LockMode \cup {"none"}]
      BY <1>0, SurvivingFact
    <3>q. QED BY <1>0, <2>1, <3>1, <3>2, <3>3 DEF TypeOK, Close, Outcome
  <2>2. CASE Exit(p)
    <3>1. fd' \in [Process -> [Slot -> Description \cup {Closed}]]
      BY <2>2, <1>0 DEF TypeOK, Exit
    <3>2. inheritable' \subseteq Process \X Slot
      BY <2>2, <1>0 DEF TypeOK, Exit
    <3>3. lock' \in [Description -> LockMode \cup {"none"}]
      BY <1>0, SurvivingFact
    <3>4. /\ request' \in [Process -> Request \cup {NoRequest}]
          /\ stage' \in [Process -> Stage]
          /\ result' \in [Process -> Outcome]
      BY <2>2, <1>0 DEF TypeOK, Exit, Outcome, Stage
    <3>q. QED BY <3>1, <3>2, <3>3, <3>4 DEF TypeOK
  <2>q. QED BY <2>1, <2>2
<1>2. stage'[p] = "idle" /\ request'[p] = NoRequest
  BY <1>0 DEF Close, Exit, IInv, CallOK, TypeOK
<1>3. \A q \in Process \ {p} :
        stage'[q] = stage[q] /\ request'[q] = request[q] /\ fd'[q] = fd[q]
  BY <1>0 DEF Close, Exit, TypeOK
<1>4. CallOK'
  BY <1>2, <1>3 DEF IInv, CallOK, HasHandle
<1>5. Exclusion'
  BY <1>0, SurvivingFact DEF IInv, Exclusion
<1>6. NoOrphanLock'
  BY <1>0, SurvivingFact DEF NoOrphanLock
<1>q. QED BY <1>1, <1>4, <1>5, <1>6 DEF IInv

(* Entering a call and unlocking. *)
LEMMA MethodIInv ==
    ASSUME IInv, NEW p \in Process,
           StartCall(p) \/ \E s \in Slot : unlock(p, s) \/ UnlockError(p, s)
    PROVE  IInv'
<1>1. CASE StartCall(p)
  <2>1. PICK s \in Slot, m \in LockMode, nb \in BOOLEAN : flock(p, s, m, m, nb)
    BY <1>1 DEF StartCall, lock_shared, lock_exclusive, LockMode
  <2>2. fd[p][s] \in Description
    BY <2>1 DEF IInv, TypeOK, flock
  <2>3. [desc |-> fd[p][s], method |-> m, mode |-> m, nonblocking |-> nb] \in Request
    BY <2>2 DEF Request
  <2>4. TypeOK'
    BY <2>1, <2>3 DEF flock, IInv, TypeOK, Stage, Outcome
  <2>5. CallOK'
    <3>1. /\ request'[p] \in Request /\ stage'[p] = "replace"
          /\ request'[p].desc = fd[p][s] /\ request'[p].method = request'[p].mode
      BY <2>1, <2>3 DEF flock, IInv, TypeOK
    <3>2. \A q \in Process \ {p} : stage'[q] = stage[q] /\ request'[q] = request[q]
      BY <2>1 DEF flock, IInv, TypeOK
    <3>3. fd' = fd
      BY <2>1 DEF flock
    <3>q. QED BY <3>1, <3>2, <3>3, RequestFields DEF IInv, CallOK, HasHandle
  <2>6. Exclusion' /\ NoOrphanLock'
    BY <2>1 DEF flock, IInv, Exclusion, NoOrphanLock, Referenced
  <2>q. QED BY <2>4, <2>5, <2>6 DEF IInv
<1>2. CASE \E s \in Slot : unlock(p, s) \/ UnlockError(p, s)
  <2>1. /\ TypeOK' /\ UNCHANGED <<fd, inheritable, request, stage>>
        /\ \A d \in Description : lock'[d] = lock[d] \/ lock'[d] = "none"
    BY <1>2 DEF unlock, UnlockError, IInv, TypeOK, Outcome
  <2>2. CallOK'
    BY <2>1 DEF IInv, CallOK, HasHandle
  <2>q. QED BY <2>1, <2>2 DEF IInv, Exclusion, NoOrphanLock, Referenced
<1>q. QED BY <1>1, <1>2

(* What a step that only returns to the caller keeps. *)
LEMMA ReturnFact ==
    ASSUME TypeOK, CallOK, NEW p \in Process, NEW o \in Outcome,
           Return(p, o), UNCHANGED <<fd, inheritable>>
    PROVE  /\ CallOK'
           /\ request' \in [Process -> Request \cup {NoRequest}]
           /\ stage' \in [Process -> Stage]
           /\ result' \in [Process -> Outcome]
BY DEF TypeOK, CallOK, Return, HasHandle, Stage

(* The kernel steps: Grant is the only one that makes a lock. *)
LEMMA KernelIInv ==
    ASSUME IInv, NEW p \in Process, Kernel(p) \/ Interrupt(p) \/ Error(p)
    PROVE  IInv'
<1> DEFINE d == request[p].desc
<1>0. stage[p] # "idle" /\ request[p] \in Request /\ HasHandle(p, d)
  BY DEF Kernel, Replace, Grant, Fail, Wait, Interrupt, Error, IInv, CallOK
<1>1. d \in Description /\ request[p].mode \in LockMode /\ request[p].method \in LockMode
  BY <1>0, RequestFields
<1>2. request[p].method \in Outcome /\ {"EWOULDBLOCK", "EINTR", "other"} \subseteq Outcome
  BY <1>1 DEF Outcome
<1> HIDE DEF d
<1>3. CASE Replace(p)
  <2>1. UNCHANGED <<fd, inheritable>>
    BY <1>3 DEF Replace
  <2>2. lock' = lock \/ lock' = [lock EXCEPT ![d] = "none"]
    BY <1>3 DEF Replace, d
  <2>3. Exclusion' /\ NoOrphanLock' /\ lock' \in [Description -> LockMode \cup {"none"}]
    BY <1>1, <2>1, <2>2 DEF IInv, TypeOK, Exclusion, NoOrphanLock, Referenced
  <2>4. CASE Return(p, request[p].method)
    BY <1>2, <2>1, <2>3, <2>4, ReturnFact DEF IInv, TypeOK
  <2>5. CASE /\ stage' = [stage EXCEPT ![p] = "establish"]
             /\ UNCHANGED <<request, result>>
    <3>1. CallOK'
      BY <1>0, <2>1, <2>5, RequestFields DEF IInv, CallOK, TypeOK, HasHandle
    <3>q. QED BY <2>1, <2>3, <2>5, <3>1 DEF IInv, TypeOK, Stage
  <2>q. QED BY <1>3, <2>4, <2>5 DEF Replace
<1>4. CASE Grant(p)
  <2>1. /\ lock' = [lock EXCEPT ![d] = request[p].mode]
        /\ Return(p, request[p].method) /\ UNCHANGED <<fd, inheritable>>
        /\ ~Conflict(d, request[p].mode)
    BY <1>4 DEF Grant, d
  <2>2. TypeOK' /\ CallOK'
    BY <1>1, <1>2, <2>1, ReturnFact DEF IInv, TypeOK
  <2>3. Exclusion'
    BY <1>1, <2>1 DEF IInv, TypeOK, Exclusion, Conflict, LockMode
  <2>4. NoOrphanLock'
    BY <1>0, <1>1, <2>1 DEF IInv, TypeOK, NoOrphanLock, Referenced, HasHandle, d
  <2>q. QED BY <2>2, <2>3, <2>4 DEF IInv
<1>5. CASE Fail(p) \/ Interrupt(p) \/ Error(p)
  <2>1. UNCHANGED <<fd, inheritable, lock>> /\ \E o \in Outcome : Return(p, o)
    BY <1>5, <1>2 DEF Fail, Interrupt, Error
  <2>2. TypeOK' /\ CallOK'
    BY <2>1, ReturnFact DEF IInv, TypeOK
  <2>q. QED BY <2>1, <2>2 DEF IInv, Exclusion, NoOrphanLock, Referenced
<1>6. CASE Wait(p)
  BY <1>0, <1>6, RequestFields
     DEF Wait, IInv, TypeOK, Stage, CallOK, HasHandle, Exclusion, NoOrphanLock, Referenced
<1>q. QED BY <1>3, <1>4, <1>5, <1>6 DEF Kernel

(* The invariant is inductive. *)
LEMMA NextIInv == IInv /\ [Next]_vars => IInv'
<1> SUFFICES ASSUME IInv, [Next]_vars PROVE IInv'
  OBVIOUS
<1>1. CASE UNCHANGED vars
  BY <1>1 DEF vars, IInv, TypeOK, CallOK, HasHandle, Exclusion, NoOrphanLock, Referenced
<1>2. CASE Next
  <2>1. PICK p \in Process :
            \/ \E s \in Slot, d \in Description : Open(p, s, d)
            \/ \E s, t \in Slot : duplicate(p, s, t)
            \/ \E q \in Process : Inherit(p, q)
            \/ \E s \in Slot : Close(p, s) \/ unlock(p, s) \/ UnlockError(p, s)
            \/ Exit(p)
            \/ StartCall(p)
            \/ Kernel(p)
            \/ Interrupt(p)
            \/ Error(p)
    BY <1>2 DEF Next
  <2>q. QED BY <2>1, GrowIInv, ShrinkIInv, MethodIInv, KernelIInv
<1>q. QED BY <1>1, <1>2

(* Every behaviour of UnixLock keeps the inductive invariant. *)
THEOREM InductiveInvariant == Spec => []IInv
BY InitIInv, NextIInv, PTL DEF Spec

(* Type correctness of the flock model. *)
THEOREM TypeCorrect == Spec => []TypeOK
BY InductiveInvariant, PTL DEF IInv

(* No lock outlives the last descriptor of its description. *)
THEOREM NoOrphanLockHolds == Spec => []NoOrphanLock
BY InductiveInvariant, PTL DEF IInv

-----------------------------------------------------------------------------
(***************************************************************************)
(* The documented rules: one File each, none of them shared.               *)
(***************************************************************************)
NoSharing ==
    \A p, q \in Process : \A s, t \in Slot :
        fd[p][s] # Closed /\ fd[p][s] = fd[q][t] => p = q /\ s = t

(***************************************************************************)
(* What a process knows of its own lock: nothing is held once the old lock *)
(* is replaced and until the new one is granted, and outside a call the    *)
(* lock is what the last result says, where that says anything.            *)
(***************************************************************************)
Own(p) ==
    /\ stage[p] \in {"establish", "waiting"} => lock[request[p].desc] = "none"
    /\ stage[p] = "idle" =>
          \A s \in OpenSlots(p) :
              /\ result[p] \in LockMode => lock[fd[p][s]] = result[p]
              /\ result[p] \in {"none", "unlocked", "EWOULDBLOCK", "EINTR"} =>
                    lock[fd[p][s]] = "none"
    /\ OpenSlots(p) = {} \/ stage[p] # "idle" => result[p] = "none"

DInv == IInv /\ Disciplined /\ NoSharing /\ \A p \in Process : Own(p)

(* Nobody has a File or a lock at the start. *)
LEMMA InitDInv == Init => DInv
BY InitIInv DEF Init, DInv, Disciplined, NoSharing, Own, OpenSlots

(* The steps the rules leave, with the process that takes them. *)
DisciplinedStep(p) ==
    \/ \E s \in Slot, d \in Description : Open(p, s, d)
    \/ \E s \in Slot : Close(p, s) \/ unlock(p, s) \/ UnlockError(p, s)
    \/ Exit(p)
    \/ \E s \in Slot, m \in LockMode, nb \in BOOLEAN : flock(p, s, m, m, nb)
    \/ Kernel(p)
    \/ Interrupt(p) \/ Error(p)

(* A disciplined step is the step of one process, without duplicates. *)
LEMMA DisciplinedSteps ==
    ASSUME Next, Disciplined, Disciplined'
    PROVE  \E p \in Process : DisciplinedStep(p)
<1>1. \A p, q \in Process : ~Inherit(p, q)
  BY DEF Inherit, Disciplined
<1>2. \A p \in Process : \A s, t \in Slot : ~duplicate(p, s, t)
  BY DEF duplicate, Disciplined
<1>q. QED BY <1>1, <1>2
             DEF Next, DisciplinedStep, StartCall, lock_shared, lock_exclusive, LockMode

(* A step of p leaves every other process and its lock alone. *)
LEMMA StepIsLocal ==
    ASSUME DInv, NEW p \in Process, DisciplinedStep(p),
           NEW q \in Process \ {p}
    PROVE  /\ fd'[q] = fd[q] /\ stage'[q] = stage[q]
           /\ request'[q] = request[q] /\ result'[q] = result[q]
           /\ Own(q)'
<1>0. TypeOK /\ CallOK /\ NoSharing /\ Own(q)
  BY DEF DInv, IInv
<1>1. /\ fd'[q] = fd[q] /\ stage'[q] = stage[q]
      /\ request'[q] = request[q] /\ result'[q] = result[q]
  BY <1>0 DEF TypeOK, DisciplinedStep, Open, Close, unlock, UnlockError, Exit, flock,
              Kernel, Replace, Grant, Fail, Wait, Interrupt, Error, Return
<1>2. ASSUME NEW d \in Description, HasHandle(q, d) PROVE lock'[d] = lock[d]
  <2>1. CASE (\E s \in Slot : Close(p, s)) \/ Exit(p)
    <3>1. HasHandle(q, d)'
      BY <1>1, <1>2 DEF HasHandle
    <3>2. lock' = Surviving(fd')
      BY <2>1 DEF Close, Exit
    <3>q. QED BY <3>1, <3>2 DEF HasHandle, Surviving
  <2>2. CASE \E s \in Slot : unlock(p, s)
    <3>1. PICK s \in Slot : unlock(p, s)
      BY <2>2
    <3>2. d # fd[p][s]
      BY <1>0, <1>2, <3>1 DEF unlock, NoSharing, HasHandle
    <3>q. QED BY <1>0, <3>1, <3>2 DEF unlock, TypeOK
  <2>3. CASE Kernel(p) \/ Interrupt(p) \/ Error(p)
    <3>1. HasHandle(p, request[p].desc)
      BY <1>0, <2>3 DEF CallOK, Kernel, Replace, Grant, Fail, Wait, Interrupt, Error
    <3>2. d # request[p].desc
      BY <1>0, <1>2, <3>1, ConstantsAssumption DEF NoSharing, HasHandle
    <3>3. \/ lock' = lock
          \/ \E m \in LockMode \cup {"none"} :
                lock' = [lock EXCEPT ![request[p].desc] = m]
      <4>1. request[p].mode \in LockMode
        BY <1>0, <2>3, RequestFields
           DEF CallOK, Kernel, Replace, Grant, Fail, Wait, Interrupt, Error
      <4>q. QED BY <2>3, <4>1 DEF Kernel, Replace, Grant, Fail, Wait, Interrupt, Error
    <3>q. QED BY <1>0, <3>2, <3>3 DEF TypeOK
  <2>4. CASE UNCHANGED lock
    BY <2>4
  <2>q. QED BY <2>1, <2>2, <2>3, <2>4 DEF DisciplinedStep, Open, UnlockError, flock, Exit
<1>3. \A s \in OpenSlots(q) : HasHandle(q, fd[q][s]) /\ fd[q][s] \in Description
  BY <1>0 DEF TypeOK, OpenSlots, HasHandle
<1>4. stage[q] # "idle" =>
        request[q].desc \in Description /\ HasHandle(q, request[q].desc)
  BY <1>0, RequestFields DEF CallOK
<1>5. OpenSlots(q)' = OpenSlots(q)
  BY <1>1 DEF OpenSlots
<1>q. QED
  <2>1. stage'[q] \in {"establish", "waiting"} => lock'[request'[q].desc] = "none"
    BY <1>0, <1>1, <1>2, <1>4 DEF Own
  <2>2. stage'[q] = "idle" =>
          \A s \in OpenSlots(q)' :
             /\ result'[q] \in LockMode => lock'[fd'[q][s]] = result'[q]
             /\ result'[q] \in {"none", "unlocked", "EWOULDBLOCK", "EINTR"} =>
                   lock'[fd'[q][s]] = "none"
    BY <1>0, <1>1, <1>2, <1>3, <1>5 DEF Own
  <2>3. OpenSlots(q)' = {} \/ stage'[q] # "idle" => result'[q] = "none"
    BY <1>0, <1>1, <1>5 DEF Own
  <2>q. QED BY <1>1, <2>1, <2>2, <2>3 DEF Own

(* Descriptors stay unshared: open(2) makes a description nobody has. *)
LEMMA NoSharingKept ==
    ASSUME DInv, NEW p \in Process, DisciplinedStep(p)
    PROVE  NoSharing'
<1>0. TypeOK /\ NoSharing
  BY DEF DInv, IInv
<1>1. CASE \E s \in Slot, d \in Description : Open(p, s, d)
  BY <1>0, <1>1 DEF Open, TypeOK, NoSharing, Referenced
<1>2. CASE (\E s \in Slot : Close(p, s)) \/ Exit(p)
  <2>1. \A q \in Process, t \in Slot : fd'[q][t] # Closed => fd'[q][t] = fd[q][t]
    BY <1>0, <1>2 DEF Close, Exit, TypeOK
  <2>q. QED BY <1>0, <2>1 DEF NoSharing
<1>3. CASE UNCHANGED fd
  BY <1>0, <1>3 DEF NoSharing
<1>q. QED BY <1>1, <1>2, <1>3
  DEF DisciplinedStep, unlock, UnlockError, flock, Kernel, Replace, Grant, Fail, Wait, Interrupt, Error

(* The acting process keeps what it knows of its own lock. *)
LEMMA OwnKept ==
    ASSUME DInv, Disciplined', NEW p \in Process, DisciplinedStep(p)
    PROVE  Own(p)'
<1>0. TypeOK /\ CallOK /\ NoSharing /\ Own(p) /\ Disciplined /\ NoOrphanLock
  BY DEF DInv, IInv
<1>1. CASE \E s \in Slot, d \in Description : Open(p, s, d)
  <2>1. PICK s \in Slot, d \in Description : Open(p, s, d)
    BY <1>1
  <2>2. fd'[p][s] = d /\ d # Closed
    BY <1>0, <2>1, ConstantsAssumption DEF Open, TypeOK
  <2>3. OpenSlots(p)' = {s}
    BY <1>0, <2>1, <2>2 DEF OpenSlots, Disciplined
  <2>4. OpenSlots(p) = {}
    BY <1>0, <2>1, <2>3 DEF OpenSlots, Open, TypeOK
  <2>5. lock[d] = "none"
    BY <1>0, <2>1 DEF NoOrphanLock, Open
  <2>q. QED BY <1>0, <2>1, <2>2, <2>3, <2>4, <2>5 DEF Own, Open, LockMode
<1>2. CASE \E s \in Slot : Close(p, s)
  <2>1. PICK s \in Slot : Close(p, s)
    BY <1>2
  <2>2. OpenSlots(p)' = {}
    BY <1>0, <2>1 DEF Close, OpenSlots, Disciplined, TypeOK
  <2>q. QED BY <1>0, <2>1, <2>2 DEF Own, Close, TypeOK
<1>3. CASE Exit(p)
  <2>1. OpenSlots(p)' = {}
    BY <1>0, <1>3 DEF Exit, OpenSlots, TypeOK
  <2>q. QED BY <1>0, <1>3, <2>1 DEF Own, Exit, TypeOK
<1>4. CASE \E s \in Slot : unlock(p, s)
  <2>1. PICK s \in Slot : unlock(p, s)
    BY <1>4
  <2>2. OpenSlots(p)' = {s}
    BY <1>0, <2>1 DEF unlock, OpenSlots, Disciplined
  <2>3. lock'[fd'[p][s]] = "none" /\ result'[p] = "unlocked" /\ stage'[p] = "idle"
    BY <1>0, <2>1 DEF unlock, TypeOK
  <2>q. QED BY <2>2, <2>3 DEF Own, LockMode
<1>5. CASE \E s \in Slot, m \in LockMode, nb \in BOOLEAN : flock(p, s, m, m, nb)
  <2>1. stage'[p] = "replace" /\ result'[p] = "none"
    BY <1>0, <1>5 DEF flock, TypeOK
  <2>q. QED BY <2>1 DEF Own
<1>7. CASE \E s \in Slot : UnlockError(p, s)
  <2>1. stage'[p] = "idle" /\ result'[p] = "other" /\ OpenSlots(p)' # {}
    BY <1>0, <1>7 DEF UnlockError, OpenSlots, TypeOK
  <2>q. QED BY <2>1 DEF Own, LockMode
<1>6. CASE Kernel(p) \/ Interrupt(p) \/ Error(p)
  <2> DEFINE d == request[p].desc
  <2>1. /\ stage[p] # "idle" /\ d \in Description /\ HasHandle(p, d)
        /\ request[p].mode \in LockMode /\ request[p].method = request[p].mode
        /\ result[p] = "none" /\ fd' = fd
    BY <1>0, <1>6, RequestFields
       DEF CallOK, Own, Kernel, Replace, Grant, Fail, Wait, Interrupt, Error
  <2>2. d # Closed
    BY <2>1, ConstantsAssumption
  <2>3. PICK s \in Slot : OpenSlots(p)' = {s} /\ fd'[p][s] = d
    BY <1>0, <2>1, <2>2 DEF HasHandle, OpenSlots, Disciplined
  <2>4. SUFFICES /\ stage'[p] \in {"establish", "waiting"} => lock'[request'[p].desc] = "none"
                 /\ stage'[p] = "idle" =>
                      /\ result'[p] \in LockMode => lock'[d] = result'[p]
                      /\ result'[p] \in {"none", "unlocked", "EWOULDBLOCK", "EINTR"} =>
                            lock'[d] = "none"
                 /\ stage'[p] # "idle" => result'[p] = "none"
    BY <2>3 DEF Own
  <2>5. CASE Replace(p)
    BY <1>0, <2>1, <2>5 DEF Replace, Return, TypeOK, LockMode
  <2>6. CASE Grant(p)
    BY <1>0, <2>1, <2>6 DEF Grant, Return, TypeOK, LockMode
  <2>7. CASE Fail(p) \/ Interrupt(p)
    <3>1. lock'[d] = "none" /\ stage'[p] = "idle" /\ result'[p] \in {"EWOULDBLOCK", "EINTR"}
      BY <1>0, <2>1, <2>7 DEF Fail, Interrupt, Return, TypeOK, Own
    <3>q. QED BY <3>1 DEF LockMode
  <2>9. CASE Error(p)
    <3>1. stage'[p] = "idle" /\ result'[p] = "other"
      BY <1>0, <2>9 DEF Error, Return, TypeOK
    <3>q. QED BY <3>1 DEF LockMode
  <2>8. CASE Wait(p)
    BY <1>0, <2>1, <2>8 DEF Wait, TypeOK, Own
  <2>q. QED BY <1>6, <2>5, <2>6, <2>7, <2>8, <2>9 DEF Kernel
<1>q. QED BY <1>1, <1>2, <1>3, <1>4, <1>5, <1>6, <1>7 DEF DisciplinedStep

(* The disciplined invariant is inductive. *)
LEMMA NextDInv == DInv /\ [Next /\ Disciplined']_vars => DInv'
<1> SUFFICES ASSUME DInv, [Next /\ Disciplined']_vars PROVE DInv'
  OBVIOUS
<1>1. CASE UNCHANGED vars
  BY <1>1, NextIInv DEF vars, DInv, Disciplined, NoSharing, Own, OpenSlots
<1>2. CASE Next /\ Disciplined'
  <2>1. PICK p \in Process : DisciplinedStep(p)
    BY <1>2, DisciplinedSteps DEF DInv
  <2>2. IInv'
    BY <1>2, NextIInv DEF DInv
  <2>3. \A q \in Process : Own(q)'
    BY <1>2, <2>1, StepIsLocal, OwnKept
  <2>q. QED BY <1>2, <2>1, <2>2, <2>3, NoSharingKept DEF DInv
<1>q. QED BY <1>1, <1>2

(* Waiting processes hold nothing, so what they wait for is with another, *)
(* and an Ok stands for a lock of the caller's own description.           *)
LEMMA DInvProperties == DInv => HolderIsNotWaiting /\ ResultTellsLock /\ OkExcludes
<1> SUFFICES ASSUME DInv PROVE HolderIsNotWaiting /\ ResultTellsLock /\ OkExcludes
  OBVIOUS
<1>1. ResultTellsLock
  BY DEF DInv, Own, ResultTellsLock, lock_error
<1>3. OkExcludes
  <2> SUFFICES ASSUME NEW p \in Process, NEW q \in Process, p # q,
                      result[p] = "exclusive", result[q] \in LockMode
               PROVE  FALSE
    BY DEF OkExcludes
  <2>1. \A r \in {p, q} : stage[r] = "idle" /\ OpenSlots(r) # {}
    BY DEF DInv, Own, LockMode
  <2>2. PICK s \in OpenSlots(p), t \in OpenSlots(q) : TRUE
    BY <2>1
  <2>3. lock[fd[p][s]] = "exclusive" /\ lock[fd[q][t]] \in LockMode
    BY <2>1, <2>2 DEF DInv, Own, LockMode
  <2>4. fd[p][s] \in Description /\ fd[q][t] \in Description /\ fd[p][s] # fd[q][t]
    BY <2>2 DEF DInv, IInv, TypeOK, OpenSlots, NoSharing
  <2>q. QED BY <2>3, <2>4 DEF DInv, IInv, Exclusion, LockMode
<1>2. ASSUME NEW q \in Process, NEW d \in Description,
             HasHandle(q, d), stage[q] = "waiting"
      PROVE  lock[d] = "none"
  <2>1. HasHandle(q, request[q].desc) /\ request[q].desc # Closed
    BY <1>2, RequestFields, ConstantsAssumption DEF DInv, IInv, CallOK
  <2>2. d = request[q].desc
    BY <1>2, <2>1, ConstantsAssumption DEF DInv, Disciplined, OpenSlots, HasHandle
  <2>q. QED BY <1>2, <2>2 DEF DInv, Own
<1>q. QED BY <1>1, <1>2, <1>3 DEF HolderIsNotWaiting

(* Under the documented rules no waiting call waits for a waiting call. *)
THEOREM NoWaitCycle == DisciplinedSpec => []HolderIsNotWaiting
<1>1. DisciplinedSpec => []DInv
  BY InitDInv, NextDInv, PTL DEF DisciplinedSpec
<1>q. QED BY <1>1, DInvProperties, PTL

(* Under the documented rules results tell what is locked. *)
THEOREM ResultsAreTruthful == DisciplinedSpec => []ResultTellsLock
<1>1. DisciplinedSpec => []DInv
  BY InitDInv, NextDInv, PTL DEF DisciplinedSpec
<1>q. QED BY <1>1, DInvProperties, PTL

(* Under the documented rules the Ok of lock_exclusive excludes every other *)
(* Ok, until the caller gives the lock up or calls again.                  *)
THEOREM ExclusiveOkExcludes == DisciplinedSpec => []OkExcludes
<1>1. DisciplinedSpec => []DInv
  BY InitDInv, NextDInv, PTL DEF DisciplinedSpec
<1>q. QED BY <1>1, DInvProperties, PTL

-----------------------------------------------------------------------------
(***************************************************************************)
(* Refinement: what each description is granted in FileLock.               *)
(***************************************************************************)
Granted == [d \in Description |-> IF lock[d] = "none" THEN {} ELSE {lock[d]}]

(* Taking locks away from any descriptions is a Release or a stutter. *)
LEMMA LosingIsRelease ==
    ASSUME TypeOK, TypeOK',
           \A d \in Description : lock'[d] # lock[d] => lock'[d] = "none"
    PROVE  Promise!Release
<1>1. Granted' \in [Description -> SUBSET {"shared", "exclusive"}]
  BY DEF TypeOK, LockMode, Granted
<1>2. \A d \in Description : Granted'[d] \subseteq Granted[d]
  BY DEF Granted
<1>q. QED BY <1>1, <1>2 DEF Promise!Release, Promise!Mode, Granted

(* Granting a call is an Acquire by its description. *)
LEMMA GrantIsAcquire ==
    ASSUME TypeOK, NEW d \in Description, NEW m \in LockMode,
           ~Conflict(d, m), lock' = [lock EXCEPT ![d] = m]
    PROVE  Promise!Acquire(d, m)
<1>1. Promise!Grantable(d, m)
  BY DEF Promise!Grantable, Conflict, TypeOK, LockMode
<1>2. Granted' = [Granted EXCEPT ![d] = {m}]
  BY DEF Granted, TypeOK, LockMode
<1>q. QED BY <1>1, <1>2 DEF Promise!Acquire, Granted

(* Every step of flock is a step of the abstract lock or changes nothing. *)
LEMMA StepRefines ==
    ASSUME IInv, IInv', [Next]_vars
    PROVE  Promise!Next \/ UNCHANGED Granted
<1>1. TypeOK /\ TypeOK' /\ CallOK
  BY DEF IInv
<1>2. CASE UNCHANGED lock
  BY <1>2 DEF Granted
<1>3. CASE \A d \in Description : lock'[d] # lock[d] => lock'[d] = "none"
  BY <1>1, <1>3, LosingIsRelease DEF Promise!Next
<1>4. CASE \E p \in Process : Grant(p)
  <2>1. PICK p \in Process : Grant(p)
    BY <1>4
  <2>2. request[p] \in Request
    BY <1>1, <2>1 DEF CallOK, Grant
  <2>3. PICK d \in Description, m \in LockMode :
            ~Conflict(d, m) /\ lock' = [lock EXCEPT ![d] = m]
    BY <2>1, <2>2, RequestFields DEF Grant
  <2>4. Promise!Acquire(d, m)
    BY <1>1, <2>3, GrantIsAcquire
  <2>5. m \in Promise!Mode
    BY <2>3 DEF Promise!Mode, LockMode
  <2>q. QED BY <2>3, <2>4, <2>5 DEF Promise!Next
<1>q. QED
  <2>1. CASE UNCHANGED vars
    BY <1>2, <2>1 DEF vars
  <2>2. CASE \E p \in Process : (\E s \in Slot : Close(p, s)) \/ Exit(p)
    BY <1>1, <1>3, <2>2, SurvivingFact DEF Close, Exit
  <2>3. CASE \E p \in Process : (\E s \in Slot : unlock(p, s)) \/ Replace(p)
    BY <1>1, <1>2, <1>3, <2>3 DEF unlock, Replace, TypeOK
  <2>4. CASE \E p \in Process :
               \/ Fail(p) \/ Wait(p) \/ Interrupt(p) \/ Error(p) \/ StartCall(p)
               \/ \E s \in Slot : UnlockError(p, s)
    BY <1>2, <2>4 DEF Fail, Wait, Interrupt, Error, UnlockError, StartCall, lock_shared, lock_exclusive, flock
  <2>5. CASE \E p \in Process :
               \/ \E s \in Slot, d \in Description : Open(p, s, d)
               \/ \E s, t \in Slot : duplicate(p, s, t)
               \/ \E q \in Process : Inherit(p, q)
    BY <1>2, <2>5 DEF Open, duplicate, Inherit
  <2>q. QED BY <1>4, <2>1, <2>2, <2>3, <2>4, <2>5 DEF Next, Kernel

(* flock implements the abstract whole-file lock. *)
THEOREM Refinement == Spec => ImplementsFileLock
<1>1. Init => Promise!Init
  BY DEF Init, Promise!Init
<1>2. IInv /\ IInv' /\ [Next]_vars => [Promise!Next]_Granted
  BY StepRefines
<1>q. QED BY <1>1, <1>2, InductiveInvariant, PTL
          DEF Spec, ImplementsFileLock, Promise!Spec, Granted
=============================================================================
