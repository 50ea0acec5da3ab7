------------------------- MODULE WindowsLockProofs -------------------------
(***************************************************************************)
(* Types, the refinement of FileLock, and that a waiter under the          *)
(* documented rules stands in nobody's way, for every set of handles and   *)
(* file objects and every bound on the layers.                             *)
(***************************************************************************)
EXTENDS MCWindowsLock, FiniteSetTheorems, TLAPS

(***************************************************************************)
(* The handles of o in a call for a shared lock: each may still add a      *)
(* layer, so the layers there are and those still asked for stay within    *)
(* the bound.  A handle that is not open is in no call.                    *)
(***************************************************************************)
Sharing(o) == {g \in Handles(o) : stage[g] # "idle" /\ mode[g] = "shared"}

IInv ==
    /\ TypeOK
    /\ \A h \in Handle : stage[h] # "idle" => object[h] # Closed
    /\ \A o \in Object : Layers(o) <= MaxLayers

-----------------------------------------------------------------------------
(* Layers counts a finite set. *)
LEMMA LayersFact ==
    ASSUME TypeOK, NEW o \in Object
    PROVE  /\ IsFiniteSet(Sharing(o)) /\ Cardinality(Sharing(o)) \in Nat
           /\ Layers(o) = shared[o] + Cardinality(Sharing(o))
           /\ shared[o] \in Nat
<1>1. Sharing(o) \in SUBSET Handle
  BY DEF Sharing, Handles
<1>2. IsFiniteSet(Sharing(o))
  BY <1>1, FS_Subset, ConstantsAssumption
<1>3. Cardinality(Sharing(o)) \in Nat
  BY <1>2, FS_CardinalityType
<1>q. QED BY <1>2, <1>3, ConstantsAssumption DEF TypeOK, Layers, Sharing

(* A step that adds neither a layer nor a request for one. *)
LEMMA LayersShrink ==
    ASSUME TypeOK, TypeOK', NEW o \in Object,
           shared'[o] <= shared[o], Sharing(o)' \subseteq Sharing(o)
    PROVE  Layers(o)' <= Layers(o)
<1>1. /\ IsFiniteSet(Sharing(o)) /\ Cardinality(Sharing(o)) \in Nat
      /\ Layers(o) = shared[o] + Cardinality(Sharing(o)) /\ shared[o] \in Nat
  BY LayersFact
<1>2. /\ IsFiniteSet(Sharing(o)') /\ Cardinality(Sharing(o)') \in Nat
      /\ Layers(o)' = shared'[o] + Cardinality(Sharing(o)') /\ shared'[o] \in Nat
  <2>1. Sharing(o)' \in SUBSET Handle
    BY DEF Sharing, Handles
  <2>2. IsFiniteSet(Sharing(o)')
    BY <2>1, FS_Subset, ConstantsAssumption
  <2>3. Cardinality(Sharing(o)') \in Nat
    BY <2>2, FS_CardinalityType
  <2>q. QED BY <2>2, <2>3, ConstantsAssumption DEF TypeOK, Layers, Sharing
<1>3. Cardinality(Sharing(o)') <= Cardinality(Sharing(o))
  BY <1>1, FS_Subset
<1>q. QED BY <1>1, <1>2, <1>3

(* The invariant holds at the start. *)
LEMMA InitIInv == Init => IInv
<1> SUFFICES ASSUME Init PROVE IInv
  OBVIOUS
<1>1. TypeOK
  BY ConstantsAssumption DEF Init, TypeOK, Stage, Outcome
<1>2. ASSUME NEW o \in Object PROVE Layers(o) <= MaxLayers
  <2>1. Sharing(o) = {}
    BY DEF Init, Sharing, Handles
  <2>2. Cardinality(Sharing(o)) = 0
    BY <2>1, FS_EmptySet
  <2>q. QED BY <1>1, <2>2, LayersFact, ConstantsAssumption DEF Init
<1>q. QED BY <1>1, <1>2 DEF IInv, Init

-----------------------------------------------------------------------------
(* The only step of the file system that makes a lock. *)
Granted(h) ==
    /\ stage[h] # "idle" /\ ~Refused(h, mode[h])
    /\ Take(h, mode[h]) /\ Return(h, "ok")

(* The stages a call goes on to. *)
Later == {"overlapped", "LockFileEx", "pending"}

(* What every step does to the locks and the calls. *)
Steps(h) ==
    \/ (\E o \in Object : Open(h, o)) \/ \E g \in Handle : duplicate(h, g)
    \/ Close(h)
    \/ \E nb \in BOOLEAN : lock_shared(h, nb) \/ lock_exclusive(h, nb)
    \/ /\ stage[h] # "idle" /\ UNCHANGED locks
       /\ \/ \E s \in Later : Goto(h, s) /\ event' \subseteq Handle
          \/ \E outcome \in Outcome \ {"ok"} : Return(h, outcome)
    \/ Granted(h)
    \/ unlock(h)

(* A call that has not passed LockFile asks for the exclusive lock. *)
ModeOK == \A h \in Handle : stage[h] = "try_lock_exclusive" => mode[h] = "exclusive"

Inv == IInv /\ ModeOK

(* Every step is one of these. *)
LEMMA NextSteps == ASSUME Inv, Next PROVE \E h \in Handle : Steps(h)
<1>1. PICK h \in Handle :
        \/ \E o \in Object : Open(h, o)
        \/ \E g \in Handle : duplicate(h, g)
        \/ Close(h) \/ StartCall(h) \/ Serve(h) \/ Cancelled(h) \/ unlock(h)
  BY DEF Next
<1>2. {lock_error, "other_error"} \subseteq Outcome \ {"ok"}
  BY DEF Outcome, lock_error
<1>3. TypeOK
  BY DEF Inv, IInv
<1>4. CASE try_lock_exclusive(h)
  <2>1. mode[h] = "exclusive" /\ stage[h] # "idle"
    BY <1>4 DEF Inv, ModeOK, try_lock_exclusive
  <2>q. QED BY <1>2, <1>3, <1>4, <2>1 DEF try_lock_exclusive, Steps, Granted, Later, TypeOK
<1>5. CASE NewOverlapped(h)
  <2>1. "LockFileEx" \in Later
    BY DEF Later
  <2>2. event \cup {h} \subseteq Handle
    BY <1>3 DEF TypeOK
  <2>q. QED BY <1>2, <1>5, <2>1, <2>2 DEF NewOverlapped, Steps
<1>6. CASE LockFileEx(h)
  <2>1. "pending" \in Later
    BY DEF Later
  <2>2. event \subseteq Handle
    BY <1>3 DEF TypeOK
  <2>q. QED BY <1>2, <1>6, <2>1, <2>2 DEF LockFileEx, Steps, Granted
<1>7. CASE GetOverlappedResult(h) \/ Cancelled(h)
  BY <1>2, <1>7 DEF GetOverlappedResult, Cancelled, Steps, Granted
<1>8. CASE StartCall(h) \/ unlock(h) \/ Close(h)
  BY <1>8 DEF StartCall, Steps
<1>9. CASE (\E o \in Object : Open(h, o)) \/ \E g \in Handle : duplicate(h, g)
  BY <1>9 DEF Steps
<1>q. QED BY <1>1, <1>4, <1>5, <1>6, <1>7, <1>8, <1>9 DEF Serve

(* A grant adds a layer its object has room for. *)
LEMMA GrantedShared ==
    ASSUME IInv, NEW h \in Handle, Granted(h), mode[h] = "shared"
    PROVE  /\ object[h] \in Object
           /\ shared[object[h]] + 1 <= MaxLayers
<1>1. TypeOK /\ object[h] \in Object /\ stage[h] # "idle"
  BY DEF IInv, TypeOK, Granted
<1>2. h \in Sharing(object[h])
  BY <1>1 DEF Sharing, Handles
<1>3. /\ Cardinality(Sharing(object[h])) \in Nat /\ shared[object[h]] \in Nat
      /\ IsFiniteSet(Sharing(object[h]))
      /\ Layers(object[h]) = shared[object[h]] + Cardinality(Sharing(object[h]))
  BY <1>1, LayersFact
<1>4. Cardinality(Sharing(object[h])) # 0
  BY <1>2, <1>3, FS_EmptySet
<1>5. Layers(object[h]) <= MaxLayers
  BY <1>1 DEF IInv
<1>q. QED BY <1>1, <1>2, <1>3, <1>4, <1>5, ConstantsAssumption

(* Every step keeps the types. *)
LEMMA StepTypes == ASSUME IInv, NEW h \in Handle, Steps(h) PROVE TypeOK'
<1>0. TypeOK
  BY DEF IInv
<1>1. CASE \E o \in Object : Open(h, o)
  BY <1>0, <1>1 DEF TypeOK, Open, locks
<1>2. CASE \E g \in Handle : duplicate(h, g)
  BY <1>0, <1>2 DEF TypeOK, duplicate, locks
<1>3. CASE Close(h)
  BY <1>0, <1>3, ConstantsAssumption DEF TypeOK, Close, locks, Outcome
<1>4. CASE \E nb \in BOOLEAN : lock_shared(h, nb) \/ lock_exclusive(h, nb)
  BY <1>0, <1>4 DEF TypeOK, lock_shared, lock_exclusive, Call, locks, Stage, Outcome
<1>5. CASE UNCHANGED locks /\ \E s \in Later : Goto(h, s) /\ event' \subseteq Handle
  BY <1>0, <1>5 DEF TypeOK, locks, Goto, Later, Stage
<1>6. CASE UNCHANGED locks /\ \E outcome \in Outcome : Return(h, outcome)
  BY <1>0, <1>6 DEF TypeOK, locks, Return, Stage
<1>7. CASE Granted(h)
  <2>1. object[h] \in Object
    BY <1>0, <1>7 DEF IInv, TypeOK, Granted
  <2>2. exclusive' \subseteq Object /\ shared' \in [Object -> 0 .. MaxLayers]
    <3>1. CASE mode[h] = "shared"
      <4>1. shared[object[h]] + 1 \in 0 .. MaxLayers
        BY <1>0, <1>7, <2>1, <3>1, GrantedShared, ConstantsAssumption DEF TypeOK
      <4>q. QED BY <1>0, <1>7, <3>1, <4>1 DEF Granted, Take, TypeOK
    <3>2. CASE mode[h] = "exclusive"
      BY <1>0, <1>7, <2>1, <3>2 DEF Granted, Take, TypeOK
    <3>q. QED BY <1>0, <3>1, <3>2 DEF TypeOK
  <2>q. QED BY <1>0, <1>7, <2>2 DEF TypeOK, Granted, Return, Stage, Outcome
<1>8. CASE unlock(h)
  BY <1>0, <1>8, ConstantsAssumption DEF TypeOK, unlock, locks, Outcome
<1>q. QED BY <1>1, <1>2, <1>3, <1>4, <1>5, <1>6, <1>7, <1>8 DEF Steps

(* A call refers to an open handle, and passes LockFile when exclusive. *)
LEMMA StepCalls ==
    ASSUME Inv, NEW h \in Handle, Steps(h)
    PROVE  /\ \A g \in Handle : stage'[g] # "idle" => object'[g] # Closed
           /\ ModeOK'
<1>0. TypeOK /\ ModeOK /\ \A g \in Handle : stage[g] # "idle" => object[g] # Closed
  BY DEF Inv, IInv
<1>1. CASE \E o \in Object : Open(h, o)
  BY <1>0, <1>1, ConstantsAssumption DEF TypeOK, ModeOK, Open
<1>2. CASE \E g \in Handle : duplicate(h, g)
  BY <1>0, <1>2 DEF TypeOK, ModeOK, duplicate
<1>3. CASE Close(h) \/ unlock(h)
  BY <1>0, <1>3 DEF TypeOK, ModeOK, Close, unlock
<1>4. CASE \E nb \in BOOLEAN : lock_shared(h, nb) \/ lock_exclusive(h, nb)
  BY <1>0, <1>4 DEF TypeOK, ModeOK, lock_shared, lock_exclusive, Call
<1>5. CASE stage[h] # "idle" /\ \E s \in Later : Goto(h, s)
  <2>1. PICK s \in Later : Goto(h, s)
    BY <1>5
  <2>q. QED BY <1>0, <1>5, <2>1 DEF TypeOK, ModeOK, Goto, Later
<1>6. CASE \E outcome \in Outcome : Return(h, outcome)
  BY <1>0, <1>6 DEF TypeOK, ModeOK, Return
<1>7. CASE Granted(h)
  BY <1>0, <1>7 DEF TypeOK, ModeOK, Granted, Return
<1>q. QED BY <1>1, <1>2, <1>3, <1>4, <1>5, <1>6, <1>7 DEF Steps

(* Only a call for a shared lock that finds room counts one more. *)
LEMMA StepLayers ==
    ASSUME IInv, TypeOK', NEW h \in Handle, Steps(h), NEW o \in Object
    PROVE  Layers(o)' <= MaxLayers
<1>0. TypeOK /\ Layers(o) <= MaxLayers /\ shared[o] \in Nat
      /\ \A g \in Handle : stage[g] # "idle" => object[g] # Closed
  BY ConstantsAssumption DEF IInv, TypeOK
<1>00. Layers(o) \in Nat
  BY <1>0, LayersFact
<1>000. Layers(o)' \in Nat
  <2>1. Sharing(o)' \in SUBSET Handle
    BY DEF Sharing, Handles
  <2>2. Cardinality(Sharing(o)') \in Nat
    BY <2>1, FS_Subset, FS_CardinalityType, ConstantsAssumption
  <2>q. QED BY <2>2, ConstantsAssumption DEF TypeOK, Layers, Sharing
<1>1. SUFFICES ASSUME ~(shared'[o] <= shared[o] /\ Sharing(o)' \subseteq Sharing(o))
               PROVE  Layers(o)' <= MaxLayers
  BY <1>0, <1>00, <1>000, LayersShrink, ConstantsAssumption
<1>2. CASE (\E q \in Object : Open(h, q)) \/ \E g \in Handle : duplicate(h, g)
  <2>1. UNCHANGED <<shared, stage, mode>>
    BY <1>2 DEF Open, duplicate, locks
  <2>2. \A g \in Handle : stage[g] # "idle" => object'[g] = object[g]
    BY <1>0, <1>2 DEF Open, duplicate, TypeOK
  <2>q. QED BY <1>0, <1>1, <2>1, <2>2 DEF Sharing, Handles
<1>3. CASE Close(h) \/ unlock(h)
  <2>1. shared'[o] <= shared[o]
    BY <1>0, <1>3 DEF Close, unlock, locks, TypeOK
  <2>2. Sharing(o)' \subseteq Sharing(o)
    BY <1>0, <1>3, ConstantsAssumption DEF Close, unlock, Sharing, Handles, TypeOK
  <2>q. QED BY <1>1, <2>1, <2>2
<1>4. CASE \E nb \in BOOLEAN : lock_exclusive(h, nb)
  BY <1>0, <1>1, <1>4 DEF lock_exclusive, Call, locks, Sharing, Handles, TypeOK
<1>5. CASE stage[h] # "idle" /\ UNCHANGED locks /\ \E s \in Later : Goto(h, s)
  BY <1>0, <1>1, <1>5 DEF Goto, Later, locks, Sharing, Handles, TypeOK
<1>6. CASE UNCHANGED locks /\ \E outcome \in Outcome : Return(h, outcome)
  BY <1>0, <1>1, <1>6 DEF Return, locks, Sharing, Handles, TypeOK
<1>7. CASE Granted(h)
  <2>1. Sharing(o)' \subseteq Sharing(o)
    BY <1>0, <1>7 DEF Granted, Return, Sharing, Handles, TypeOK
  <2>2. mode[h] = "shared" /\ o = object[h]
    <3>1. ~(shared'[o] <= shared[o])
      BY <1>1, <2>1
    <3>2. shared'[o] # shared[o]
      BY <1>0, <3>1
    <3>3. mode[h] = "shared"
      BY <1>0, <1>7, <3>2 DEF Granted, Take, TypeOK
    <3>q. QED BY <1>0, <1>7, <3>2, <3>3 DEF Granted, Take, TypeOK
  <2>3. /\ h \in Sharing(o) /\ Sharing(o)' = Sharing(o) \ {h}
    BY <1>0, <1>7, <2>2 DEF Granted, Return, TypeOK, Sharing, Handles
  <2>4. shared'[o] = shared[o] + 1
    <3>1. shared' = [shared EXCEPT ![object[h]] = @ + 1]
      BY <1>7, <2>2 DEF Granted, Take
    <3>q. QED BY <1>0, <2>2, <3>1 DEF TypeOK
  <2>5. /\ IsFiniteSet(Sharing(o)) /\ Cardinality(Sharing(o)) \in Nat
        /\ Layers(o) = shared[o] + Cardinality(Sharing(o))
    BY <1>0, LayersFact
  <2>6. Cardinality(Sharing(o)') = Cardinality(Sharing(o)) - 1
    BY <2>3, <2>5, FS_RemoveElement
  <2>7. Layers(o)' = shared'[o] + Cardinality(Sharing(o)')
    BY DEF Layers, Sharing
  <2>q. QED BY <1>0, <2>4, <2>5, <2>6, <2>7
<1>8. CASE \E nb \in BOOLEAN : lock_shared(h, nb)
  <2>0. /\ object[h] \in Object /\ Layers(object[h]) < MaxLayers /\ UNCHANGED <<object, shared>>
        /\ stage[h] = "idle"
        /\ stage' = [stage EXCEPT ![h] = "overlapped"]
        /\ mode' = [mode EXCEPT ![h] = "shared"]
    BY <1>0, <1>8 DEF lock_shared, Call, locks, TypeOK
  <2>1. o = object[h]
    BY <1>0, <1>1, <2>0 DEF Sharing, Handles, TypeOK
  <2>2. Sharing(o)' = Sharing(o) \cup {h} /\ h \notin Sharing(o)
    BY <1>0, <2>0, <2>1 DEF Sharing, Handles, TypeOK
  <2>3. /\ IsFiniteSet(Sharing(o)) /\ Cardinality(Sharing(o)) \in Nat
        /\ Layers(o) = shared[o] + Cardinality(Sharing(o))
    BY <1>0, LayersFact
  <2>4. Cardinality(Sharing(o)') = Cardinality(Sharing(o)) + 1
    BY <2>2, <2>3, FS_AddElement
  <2>5. Layers(o)' = shared'[o] + Cardinality(Sharing(o)')
    BY DEF Layers, Sharing
  <2>q. QED BY <1>0, <2>0, <2>1, <2>3, <2>4, <2>5, ConstantsAssumption
<1>q. QED BY <1>2, <1>3, <1>4, <1>5, <1>6, <1>7, <1>8 DEF Steps

(* The invariant is inductive. *)
LEMMA NextInv == Inv /\ [Next]_vars => Inv'
<1> SUFFICES ASSUME Inv, [Next]_vars PROVE Inv'
  OBVIOUS
<1>1. CASE UNCHANGED vars
  <2>1. \A o \in Object : Layers(o)' = Layers(o)
    BY <1>1 DEF vars, locks, Layers, Handles
  <2>q. QED BY <1>1, <2>1 DEF Inv, IInv, TypeOK, ModeOK, vars, locks
<1>2. CASE Next
  <2>1. PICK h \in Handle : Steps(h)
    BY <1>2, NextSteps
  <2>2. TypeOK'
    BY <2>1, StepTypes DEF Inv
  <2>q. QED BY <2>1, <2>2, StepCalls, StepLayers DEF Inv, IInv
<1>q. QED BY <1>1, <1>2

(* The invariant holds in every behaviour. *)
THEOREM InductiveInvariant == Spec => []Inv
<1>1. Init => Inv
  BY InitIInv DEF Inv, ModeOK, Init
<1>q. QED BY <1>1, NextInv, PTL DEF Spec

(* Types, and no more layers on any file object than the bound allows. *)
THEOREM TypeCorrect == Spec => []TypeOK
BY InductiveInvariant, PTL DEF Inv, IInv

-----------------------------------------------------------------------------
(* What each file object is granted in FileLock. *)
Layered ==
    [o \in Object |-> (IF o \in exclusive THEN {"exclusive"} ELSE {})
                      \cup (IF shared[o] > 0 THEN {"shared"} ELSE {})]

(* A grant is an Acquire that keeps what the object held before. *)
LEMMA GrantIsAcquire ==
    ASSUME TypeOK, TypeOK', NEW h \in Handle, object[h] \in Object, Granted(h)
    PROVE  Promise!Next
<1>1. PICK o \in Object, m \in {"shared", "exclusive"} : o = object[h] /\ m = mode[h]
  BY DEF TypeOK
<1>2. \A q \in Object : shared[q] \in Nat
  BY ConstantsAssumption DEF TypeOK
<1>3. Promise!Grantable(o, m)
  <2>1. CASE m = "exclusive"
    BY <1>1, <2>1 DEF Granted, Refused, Holds, Promise!Grantable
  <2>2. CASE m = "shared"
    <3>1. \A q \in Object \ {o} : q \notin exclusive
      BY <1>1, <2>2 DEF Granted, Refused
    <3>q. QED BY <2>2, <3>1 DEF Promise!Grantable
  <2>q. QED BY <1>1, <2>1, <2>2
<1>4. Layered' = [Layered EXCEPT ![o] = @ \cup {m}]
  <2>1. CASE m = "exclusive"
    <3>1. exclusive' = exclusive \cup {o} /\ shared' = shared
      BY <1>1, <2>1 DEF Granted, Take
    <3>q. QED BY <1>1, <2>1, <3>1 DEF Layered
  <2>2. CASE m = "shared"
    <3>1. exclusive' = exclusive /\ shared' = [shared EXCEPT ![o] = @ + 1]
      BY <1>1, <2>2 DEF Granted, Take
    <3>2. shared'[o] > 0 /\ \A q \in Object \ {o} : shared'[q] = shared[q]
      BY <1>1, <1>2, <3>1 DEF TypeOK
    <3>q. QED BY <1>1, <2>2, <3>1, <3>2 DEF Layered
  <2>q. QED BY <1>1, <2>1, <2>2
<1>5. Promise!Acquire(o, m)
  BY <1>3, <1>4 DEF Promise!Acquire, Layered
<1>q. QED BY <1>1, <1>5 DEF Promise!Next, Promise!Mode

(* Every other step leaves the locks alone or takes some away. *)
LEMMA OtherIsRelease ==
    ASSUME TypeOK, TypeOK', exclusive' \subseteq exclusive,
           \A o \in Object : shared'[o] <= shared[o]
    PROVE  Promise!Next
<1>1. \A o \in Object : shared[o] \in Nat /\ shared'[o] \in Nat
  BY ConstantsAssumption DEF TypeOK
<1>2. Layered' \in [Object -> SUBSET {"shared", "exclusive"}]
  BY DEF Layered
<1>3. \A o \in Object : Layered'[o] \subseteq Layered[o]
  BY <1>1 DEF Layered
<1>q. QED BY <1>2, <1>3 DEF Promise!Next, Promise!Release, Promise!Mode, Layered

(* What a step that grants nothing does to the locks. *)
LEMMA StepLoses ==
    ASSUME TypeOK, NEW h \in Handle, Steps(h), ~Granted(h)
    PROVE  /\ exclusive' \subseteq exclusive
           /\ \A o \in Object : shared'[o] <= shared[o]
<1>1. \A o \in Object : shared[o] \in Nat
  BY ConstantsAssumption DEF TypeOK
<1>2. CASE UNCHANGED locks
  BY <1>1, <1>2 DEF locks
<1>3. CASE Close(h)
  BY <1>1, <1>3 DEF Close, locks, TypeOK
<1>4. CASE unlock(h)
  BY <1>1, <1>4 DEF unlock, locks, TypeOK
<1>q. QED BY <1>2, <1>3, <1>4
          DEF Steps, Open, duplicate, lock_shared, lock_exclusive, Call

(* LockFile and LockFileEx implement the abstract whole-file lock. *)
THEOREM Refinement == Spec => ImplementsFileLock
<1>1. Init => Promise!Init
  BY DEF Init, Promise!Init
<1>2. Inv /\ Inv' /\ [Next]_vars => [Promise!Next]_Layered
  <2> SUFFICES ASSUME Inv, Inv', [Next]_vars PROVE [Promise!Next]_Layered
    OBVIOUS
  <2>0. TypeOK /\ TypeOK'
    BY DEF Inv, IInv
  <2>1. CASE UNCHANGED vars
    BY <2>1 DEF vars, locks, Layered
  <2>2. CASE Next
    <3>1. PICK h \in Handle : Steps(h)
      BY <2>2, NextSteps
    <3>2. CASE Granted(h)
      <4>1. object[h] \in Object
        BY <2>0, <3>2 DEF Inv, IInv, TypeOK, Granted
      <4>q. QED BY <2>0, <3>2, <4>1, GrantIsAcquire
    <3>3. CASE ~Granted(h)
      BY <2>0, <3>1, <3>3, StepLoses, OtherIsRelease
    <3>q. QED BY <3>2, <3>3
  <2>q. QED BY <2>1, <2>2
<1>q. QED BY <1>1, <1>2, InductiveInvariant, PTL
          DEF Spec, ImplementsFileLock, Promise!Spec, Layered

-----------------------------------------------------------------------------
(***************************************************************************)
(* The documented rules: no two handles share a file object, and a handle  *)
(* in a call holds nothing.                                                *)
(***************************************************************************)
Unshared == \A g, h \in Handle : object[g] # Closed /\ object[g] = object[h] => g = h

CallerHoldsNothing == \A h \in Handle : stage[h] # "idle" => ~Holds(object[h])

DInv == TypeOK /\ Unshared /\ CallerHoldsNothing
        /\ \A h \in Handle : stage[h] # "idle" => object[h] # Closed

(* The steps the rules leave to a handle. *)
DisciplinedStep(h) ==
    \/ \E o \in Object : Open(h, o)
    \/ ~Holds(object[h]) /\ StartCall(h)
    \/ Close(h) \/ Serve(h) \/ Cancelled(h) \/ unlock(h)

(* A handle only changes the locks of its own file object. *)
LEMMA StepIsLocal ==
    ASSUME TypeOK, NEW h \in Handle, DisciplinedStep(h),
           NEW o \in Object, o # object[h], Holds(o)'
    PROVE  Holds(o)
<1>1. CASE UNCHANGED locks
  BY <1>1 DEF locks, Holds
<1>2. CASE Close(h) \/ unlock(h)
  BY <1>2 DEF Close, unlock, locks, Holds, TypeOK
<1>3. CASE \E m \in {"shared", "exclusive"} : Take(h, m)
  BY <1>3 DEF Take, Holds, TypeOK
<1>q. QED
  <2>1. CASE Serve(h)
    <3>1. mode[h] \in {"shared", "exclusive"}
      BY DEF TypeOK
    <3>q. QED BY <1>1, <1>3, <2>1, <3>1
              DEF Serve, try_lock_exclusive, NewOverlapped, LockFileEx, GetOverlappedResult
  <2>2. CASE StartCall(h) \/ Cancelled(h) \/ \E q \in Object : Open(h, q)
    BY <1>1, <2>2 DEF StartCall, lock_shared, lock_exclusive, Call, Cancelled, Open
  <2>q. QED BY <1>2, <2>1, <2>2 DEF DisciplinedStep

(* What a step does to the calls and the handles. *)
LEMMA StepShape ==
    ASSUME DInv, NEW h \in Handle, DisciplinedStep(h)
    PROVE  /\ \A g \in Handle \ {h} : object'[g] = object[g] /\ stage'[g] = stage[g]
           /\ object'[h] \in {object[h], Closed} \/ Handles(object'[h]) = {}
           /\ stage'[h] # "idle" => /\ object'[h] = object[h] /\ object[h] # Closed
                                    /\ UNCHANGED locks /\ ~Holds(object[h])
<1>0. TypeOK /\ CallerHoldsNothing /\ (stage[h] # "idle" => object[h] # Closed)
  BY DEF DInv
<1>1. CASE \E o \in Object : Open(h, o)
  BY <1>0, <1>1 DEF TypeOK, Open
<1>2. CASE Close(h) \/ unlock(h)
  BY <1>0, <1>2 DEF TypeOK, Close, unlock
<1>3. CASE ~Holds(object[h]) /\ StartCall(h)
  BY <1>0, <1>3 DEF TypeOK, StartCall, lock_shared, lock_exclusive, Call
<1>4. ASSUME NEW outcome, Return(h, outcome) PROVE
           /\ \A g \in Handle \ {h} : object'[g] = object[g] /\ stage'[g] = stage[g]
           /\ object'[h] = object[h] /\ stage'[h] = "idle"
  BY <1>0, <1>4 DEF TypeOK, Return
<1>5. ASSUME NEW s, Goto(h, s), stage[h] # "idle", UNCHANGED locks PROVE
           /\ \A g \in Handle \ {h} : object'[g] = object[g] /\ stage'[g] = stage[g]
           /\ object'[h] = object[h] /\ object[h] # Closed
           /\ UNCHANGED locks /\ ~Holds(object[h])
  BY <1>0, <1>5 DEF TypeOK, Goto, CallerHoldsNothing
<1>6. CASE Serve(h) \/ Cancelled(h)
  BY <1>4, <1>5, <1>6 DEF Serve, try_lock_exclusive, NewOverlapped, LockFileEx,
                          GetOverlappedResult, Cancelled
<1>q. QED BY <1>1, <1>2, <1>3, <1>6 DEF DisciplinedStep

(* The disciplined invariant is inductive. *)
LEMMA NextDInv == DInv /\ TypeOK' /\ [DisciplinedNext]_vars => DInv'
<1> SUFFICES ASSUME DInv, TypeOK', [DisciplinedNext]_vars PROVE DInv'
  OBVIOUS
<1>1. CASE UNCHANGED vars
  BY <1>1 DEF vars, locks, DInv, TypeOK, Unshared, CallerHoldsNothing, Holds
<1>2. CASE DisciplinedNext
  <2>1. PICK h \in Handle : DisciplinedStep(h)
    BY <1>2 DEF DisciplinedNext, DisciplinedStep
  <2>2. /\ \A g \in Handle \ {h} : object'[g] = object[g] /\ stage'[g] = stage[g]
        /\ object'[h] \in {object[h], Closed} \/ Handles(object'[h]) = {}
        /\ stage'[h] # "idle" => /\ object'[h] = object[h] /\ object[h] # Closed
                                 /\ UNCHANGED locks /\ ~Holds(object[h])
    BY <2>1, StepShape
  <2>3. Unshared'
    BY <2>2 DEF DInv, Unshared, Handles
  <2>4. \A g \in Handle : stage'[g] # "idle" => object'[g] # Closed
    BY <2>2 DEF DInv
  <2>5. ASSUME NEW g \in Handle, stage'[g] # "idle" PROVE ~Holds(object[g])'
    <3>1. CASE g = h
      BY <2>2, <2>5, <3>1 DEF locks, Holds
    <3>2. CASE g # h
      <4>1. stage[g] # "idle" /\ object'[g] = object[g] /\ object[g] # Closed
        BY <2>2, <2>5, <3>2 DEF DInv
      <4>2. object[g] \in Object /\ object[g] # object[h]
        BY <3>2, <4>1 DEF DInv, TypeOK, Unshared
      <4>3. ~Holds(object[g])
        BY <4>1 DEF DInv, CallerHoldsNothing
      <4>q. QED
        <5> DEFINE o == object[g]
        <5>1. \A q \in Object : q # object[h] /\ Holds(q)' => Holds(q)
          BY <2>1, StepIsLocal DEF DInv
        <5>q. QED BY <4>1, <4>2, <4>3, <5>1 DEF Holds
    <3>q. QED BY <3>1, <3>2
  <2>q. QED BY <2>3, <2>4, <2>5 DEF DInv, CallerHoldsNothing
<1>q. QED BY <1>1, <1>2

(* The rules only take steps away. *)
LEMMA DisciplinedIsNext == DisciplinedNext => Next
BY DEF DisciplinedNext, Next

(* Under the documented rules a handle that waits holds no lock, so it never
   waits for itself and nobody waits for it. *)
THEOREM WaitersHoldNothing == FairDisciplinedSpec => []WaiterHoldsNothing
<1>1. Init => Inv /\ DInv
  BY InitIInv DEF Init, Inv, ModeOK, IInv, DInv, Unshared, CallerHoldsNothing
<1>2. Inv /\ DInv /\ [DisciplinedNext]_vars => Inv' /\ DInv'
  BY DisciplinedIsNext, NextInv, NextDInv DEF Inv, IInv
<1>3. DInv => WaiterHoldsNothing
  BY DEF DInv, CallerHoldsNothing, WaiterHoldsNothing
<1>q. QED BY <1>1, <1>2, <1>3, PTL DEF FairDisciplinedSpec

-----------------------------------------------------------------------------
(***************************************************************************)
(* The books of successful calls: a file object without handles has lost   *)
(* its layers, so its balance may start again from nothing.                *)
(***************************************************************************)
NoOrphans == \A o \in Object : Handles(o) = {} => ~Holds(o)

LayersOf(o) == shared[o] + (IF o \in exclusive THEN 1 ELSE 0)

BInv == Inv /\ NoOrphans /\ balance \in [Object -> Nat] /\ LayersMatchCalls

(* Layers go with the last handle and are only granted to a handle's object. *)
LEMMA NoOrphansKept ==
    ASSUME TypeOK, NoOrphans, NEW h \in Handle, Steps(h)
    PROVE  NoOrphans'
<1>1. CASE (\E o \in Object : Open(h, o)) \/ \E g \in Handle : duplicate(h, g)
  <2>1. UNCHANGED locks
    BY <1>1 DEF Open, duplicate
  <2>2. \A g \in Handle : object[g] # Closed => object'[g] = object[g]
    BY <1>1 DEF Open, duplicate, TypeOK
  <2>3. \A o \in Object : Handles(o)' = {} => Handles(o) = {}
    BY <2>2, ConstantsAssumption DEF Handles
  <2>q. QED BY <2>1, <2>3 DEF NoOrphans, Holds, locks
<1>2. CASE Close(h)
  <2>1. ASSUME NEW o \in Object, Handles(o)' = {} PROVE ~Holds(o)'
    <3>1. CASE o = object[h]
      <4>1. Handles(o) = {h}
        BY <1>2, <2>1, <3>1 DEF Close, Handles, TypeOK
      <4>q. QED BY <1>2, <2>1, <3>1, <4>1 DEF Close, Holds, TypeOK
    <3>2. CASE o # object[h]
      <4>1. Handles(o) = {}
        BY <1>2, <2>1, <3>2 DEF Close, Handles, TypeOK
      <4>q. QED BY <1>2, <3>2, <4>1 DEF Close, Holds, NoOrphans, TypeOK, locks
    <3>q. QED BY <3>1, <3>2
  <2>q. QED BY <2>1 DEF NoOrphans
<1>3. CASE Granted(h)
  <2>1. UNCHANGED object /\ Take(h, mode[h])
    BY <1>3 DEF Granted, Return
  <2>2. \A o \in Object : o # object[h] /\ Holds(o)' => Holds(o)
    BY <2>1 DEF Take, Holds, TypeOK
  <2>3. \A o \in Object : Handles(o)' = Handles(o)
    BY <2>1 DEF Handles
  <2>q. QED BY <2>2, <2>3 DEF NoOrphans, Handles
<1>4. CASE unlock(h)
  <2>1. \A o \in Object : Holds(o)' => Holds(o)
    BY <1>4, ConstantsAssumption DEF unlock, Holds, TypeOK, locks
  <2>q. QED BY <1>4, <2>1 DEF unlock, NoOrphans, Handles
<1>5. CASE UNCHANGED <<locks, object>>
  BY <1>5 DEF locks, NoOrphans, Holds, Handles
<1>q. QED BY <1>1, <1>2, <1>3, <1>4, <1>5
          DEF Steps, lock_shared, lock_exclusive, Call, Goto, Return

(* Where the locks stay as they are, no call counts. *)
LEMMA NothingCounts ==
    ASSUME TypeOK, UNCHANGED locks, NEW g \in Handle
    PROVE  ~Unlocked(g)
<1>1. ASSUME unlock(g), result'[g] = "ok" PROVE FALSE
  BY <1>1 DEF unlock, locks, TypeOK
<1>q. QED BY <1>1 DEF Unlocked

(* The balance follows the layers of an object that keeps a handle. *)
LEMMA BalanceFollows ==
    ASSUME BInv, NEW h \in Handle, Steps(h), Count, NEW o \in Object, Handles(o)' # {}
    PROVE  balance'[o] = LayersOf(o)'
<1>0. TypeOK /\ balance[o] = LayersOf(o) /\ balance[o] \in Nat /\ shared[o] \in Nat
      /\ \A g \in Handle : stage[g] # "idle" => object[g] # Closed
  BY ConstantsAssumption DEF BInv, Inv, IInv, LayersMatchCalls, LayersOf, TypeOK
<1>1. balance'[o] = IF \E g \in Handles(o) : Locked(g) THEN balance[o] + 1
                    ELSE IF \E g \in Handles(o) : Unlocked(g) THEN balance[o] - 1
                    ELSE balance[o]
  <2>1. (\E g \in Handles(o) : Locked(g)) => ~\E g \in Handles(o) : Unlocked(g)
    BY DEF Locked, Unlocked, unlock
  <2>q. QED BY <2>1 DEF Count
<1>2. CASE /\ UNCHANGED locks
           /\ \A g \in Handle : ~(stage[g] # "idle" /\ stage'[g] = "idle" /\ result'[g] = "ok")
  <2>1. \A g \in Handles(o) : ~Locked(g) /\ ~Unlocked(g)
    BY <1>0, <1>2, NothingCounts DEF Handles, Locked
  <2>q. QED BY <1>0, <1>1, <1>2, <2>1 DEF LayersOf, locks
<1>3. CASE (\E q \in Object : Open(h, q)) \/ \E g \in Handle : duplicate(h, g)
  BY <1>2, <1>3 DEF Open, duplicate
<1>4. CASE \E nb \in BOOLEAN : lock_shared(h, nb) \/ lock_exclusive(h, nb)
  BY <1>0, <1>2, <1>4 DEF lock_shared, lock_exclusive, Call, TypeOK
<1>5. CASE /\ stage[h] # "idle" /\ UNCHANGED locks
           /\ \/ \E s \in Later : Goto(h, s) /\ event' \subseteq Handle
              \/ \E outcome \in Outcome \ {"ok"} : Return(h, outcome)
  BY <1>0, <1>2, <1>5 DEF Goto, Return, Later, TypeOK
<1>6. CASE Close(h)
  <2>1. \A g \in Handle : ~Locked(g)
    BY <1>6 DEF Close, Locked
  <2>2. \A g \in Handle : ~Unlocked(g)
    BY <1>0, <1>6 DEF Close, Unlocked, unlock, TypeOK
  <2>3. (o \in exclusive' <=> o \in exclusive) /\ shared'[o] = shared[o]
    BY <1>0, <1>6 DEF Close, Handles, TypeOK, locks
  <2>q. QED BY <1>0, <1>1, <2>1, <2>2, <2>3 DEF LayersOf, Handles
<1>7. CASE Granted(h)
  <2>1. stage'[h] = "idle" /\ stage[h] # "idle" /\ result'[h] = "ok" /\ UNCHANGED object
        /\ stage' = [stage EXCEPT ![h] = "idle"]
    BY <1>0, <1>7 DEF Granted, Return, TypeOK
  <2>2. \A g \in Handle : Locked(g) <=> g = h
    BY <1>0, <2>1 DEF Locked, TypeOK
  <2>3. \A g \in Handle : ~Unlocked(g)
    BY <2>1 DEF Unlocked, unlock
  <2>4. mode[h] \in {"shared", "exclusive"} /\ Take(h, mode[h]) /\ ~Refused(h, mode[h])
    BY <1>0, <1>7 DEF Granted, TypeOK
  <2>5. CASE o = object[h]
    <3>1. h \in Handles(o)
      BY <2>5 DEF Handles
    <3>2. LayersOf(o)' = LayersOf(o) + 1
      <4>1. CASE mode[h] = "shared"
        BY <1>0, <2>4, <2>5, <4>1 DEF Take, LayersOf, TypeOK
      <4>2. CASE mode[h] = "exclusive"
        BY <1>0, <2>4, <2>5, <4>2 DEF Take, LayersOf, TypeOK, Refused, Holds
      <4>q. QED BY <2>4, <4>1, <4>2
    <3>q. QED BY <1>0, <1>1, <2>2, <3>1, <3>2
  <2>6. CASE o # object[h]
    <3>1. LayersOf(o)' = LayersOf(o)
      BY <1>0, <2>4, <2>6 DEF Take, LayersOf, TypeOK
    <3>q. QED BY <1>0, <1>1, <2>2, <2>3, <2>6, <3>1 DEF Handles
  <2>q. QED BY <2>5, <2>6
<1>8. CASE unlock(h)
  <2>1. \A g \in Handle : ~Locked(g)
    BY <1>8 DEF unlock, Locked
  <2>2. UNCHANGED object
    BY <1>8 DEF unlock
  <2>3. CASE UNCHANGED locks
    BY <1>2, <1>8, <2>3 DEF unlock
  <2>4. CASE ~UNCHANGED locks
    <3>1. result'[h] = "ok" /\ result' = [result EXCEPT ![h] = "ok"]
      BY <1>0, <1>8, <2>4 DEF unlock, TypeOK
    <3>2. CASE o = object[h]
      <4>1. LayersOf(o)' = LayersOf(o) - 1
        BY <1>0, <1>8, <2>4, <3>2 DEF unlock, LayersOf, TypeOK, locks
      <4>2. h \in Handles(o) /\ Unlocked(h)
        BY <1>8, <3>1, <3>2 DEF Handles, Unlocked
      <4>q. QED BY <1>0, <1>1, <2>1, <4>1, <4>2 DEF Handles
    <3>3. CASE o # object[h]
      <4>1. LayersOf(o)' = LayersOf(o)
        BY <1>0, <1>8, <3>3 DEF unlock, LayersOf, TypeOK, locks
      <4>2. ASSUME NEW g \in Handles(o), Unlocked(g) PROVE FALSE
        <5>1. g \in Handle /\ object[g] = o /\ unlock(g)
          BY <4>2 DEF Handles, Unlocked
        <5>2. ~(o \in exclusive' <=> o \in exclusive) \/ shared'[o] # shared[o]
          BY <1>0, <4>2, <5>1 DEF unlock, Unlocked, TypeOK
        <5>3. (o \in exclusive' <=> o \in exclusive) /\ shared'[o] = shared[o]
          BY <1>0, <1>8, <3>3 DEF unlock, TypeOK, locks
        <5>q. QED BY <5>2, <5>3
      <4>q. QED BY <1>0, <1>1, <2>1, <4>1, <4>2 DEF Handles
    <3>q. QED BY <3>2, <3>3
  <2>q. QED BY <2>3, <2>4
<1>q. QED BY <1>3, <1>4, <1>5, <1>6, <1>7, <1>8 DEF Steps

(* The books are inductive. *)
LEMMA NextBInv == BInv /\ [Next /\ Count]_<<vars, balance>> => BInv'
<1> SUFFICES ASSUME BInv, [Next /\ Count]_<<vars, balance>> PROVE BInv'
  OBVIOUS
<1>0. Inv'
  BY NextInv DEF BInv
<1>1. CASE UNCHANGED <<vars, balance>>
  <2>1. NoOrphans' /\ LayersMatchCalls' /\ balance' \in [Object -> Nat]
    BY <1>1 DEF BInv, vars, locks, NoOrphans, Handles, Holds, LayersMatchCalls
  <2>q. QED BY <1>0, <2>1 DEF BInv
<1>2. CASE Next /\ Count
  <2>1. PICK h \in Handle : Steps(h)
    BY <1>2, NextSteps DEF BInv
  <2>2. NoOrphans'
    BY <2>1, NoOrphansKept DEF BInv, Inv, IInv
  <2>3. ASSUME NEW o \in Object PROVE balance'[o] = LayersOf(o)'
    <3>1. CASE Handles(o)' # {}
      BY <1>2, <2>1, <3>1, BalanceFollows
    <3>2. CASE Handles(o)' = {}
      <4>1. balance'[o] = 0
        <5>1. Handles(o)' = {} => ~\E g \in Handles(o) : Locked(g) \/ Unlocked(g)
          <6>1. ASSUME NEW g \in Handles(o), Locked(g) \/ Unlocked(g), g \notin Handles(o)'
                PROVE  FALSE
            <7>1. object'[g] # object[g]
              BY <6>1 DEF Handles
            <7>2. ~Unlocked(g)
              BY <7>1 DEF Unlocked, unlock
            <7>3. stage'[g] = "idle" /\ stage[g] # "idle"
              BY <6>1, <7>2 DEF Locked
            <7>4. TypeOK
              BY DEF BInv, Inv, IInv
            <7>q. QED BY <2>1, <6>1, <7>1, <7>3, <7>4
                      DEF Steps, Open, duplicate, Close, lock_shared, lock_exclusive, Call,
                          Goto, Return, Granted, unlock, TypeOK, Handles
          <6>q. QED BY <6>1
        <5>q. QED BY <1>2, <3>2, <5>1 DEF Count
      <4>2. ~Holds(o)' /\ shared'[o] \in Nat
        BY <1>0, <2>2, <3>2, ConstantsAssumption DEF NoOrphans, Inv, IInv, TypeOK
      <4>q. QED BY <4>1, <4>2 DEF Holds, LayersOf
    <3>q. QED BY <3>1, <3>2
  <2>4. LayersMatchCalls'
    BY <2>3 DEF LayersMatchCalls, LayersOf
  <2>5. \A o \in Object : LayersOf(o)' \in Nat
    BY <1>0, ConstantsAssumption DEF LayersOf, Inv, IInv, TypeOK
  <2>6. balance' \in [Object -> Nat]
    <3>1. DOMAIN balance' = Object /\ balance' = [o \in Object |-> balance'[o]]
      BY <1>2 DEF Count
    <3>q. QED BY <2>3, <2>5, <3>1
  <2>q. QED BY <1>0, <2>2, <2>4, <2>6 DEF BInv
<1>q. QED BY <1>1, <1>2

(* On every file object the successful lock calls that no successful unlock
   has undone are as many as the layers it holds. *)
THEOREM LayersAreCounted == MCSpec => []LayersMatchCalls
<1>1. MCInit => BInv
  <2> SUFFICES ASSUME MCInit PROVE BInv
    OBVIOUS
  <2>1. Inv
    BY InitIInv DEF MCInit, Init, Inv, ModeOK
  <2>q. QED BY <2>1 DEF MCInit, Init, BInv, NoOrphans, Holds, LayersMatchCalls
<1>q. QED BY <1>1, NextBInv, PTL DEF MCSpec, BInv
=============================================================================
