---------------------------- MODULE CaptureProofs ----------------------------
(***************************************************************************)
(* What the process runner reports is true and its SIGKILL stays in the    *)
(* family, for any number of descendants, timeouts and grace periods.      *)
(* What capture promises of the files, for any number of descendants and   *)
(* any bounds: an Output holds all that was written, and the directory is  *)
(* removed when nothing in it is held open.  A capture takes only steps of *)
(* the process runner, so the runner's promises hold within it.            *)
(***************************************************************************)
EXTENDS Capture, TLAPS

-----------------------------------------------------------------------------
(* The process runner. *)

(* Nobody is born before the child is. *)
Family ==
    /\ stage \in {"configure", "spawn"} => state[Child] = "unborn" /\ ~attached
    /\ state[Child] = "unborn" => \A p \in Process : state[p] = "unborn"

(* The containment holds the child where the runner observes it. *)
Attached ==
    stage \in {"resume", "observe", "complete", "reap"} \/ cause = "exited" => attached

(* The runner kills nobody before it has seen an end, or given up. *)
Untouched ==
    /\ stage \in {"configure", "spawn", "attach", "resume", "observe"} =>
          ~killed /\ cause = "none" /\ status = "none"
    /\ stage \in {"complete", "reap"} => cause = "exited"
    /\ cause = "exited" => ~killed /\ state[Child] \in {"zombie", "gone"}

(* A status is the exit status of a reaped child. *)
Reaped ==
    /\ status # "none" => status = exit /\ state[Child] = "gone"
    /\ stage = "verify" /\ ~errors => state[Child] = "gone"
    /\ stage = "complete" /\ Platform = "windows" => state[Child] = "gone"

(* The group id is free only after the last signal was sent to it. *)
GroupIsOurs ==
    /\ ~foreignHit
    /\ reused => Platform = "unix" /\ state[Child] = "gone"
    /\ Platform = "unix" /\ state[Child] = "gone" => stage \in {"verify", "done"}

(* What is true of a finished execution stays true. *)
Finished ==
    stage = "done" =>
        /\ ~errors => Held = {} /\ state[Child] \in {"unborn", "gone"}
        /\ outcome \in {"exited", "terminated"} =>
              cause = "exited" /\ ~errors /\ status # "none"

IInv ==
    /\ TypeOK /\ Family /\ Attached /\ Untouched /\ Reaped
    /\ GroupIsOurs /\ Finished /\ ContainedBeforeRunning

-----------------------------------------------------------------------------
(* What a signal does to the processes. *)
Signalled ==
    /\ state' \in [Process -> State]
    /\ \A p \in Process : state'[p] # state[p] =>
          state[p] \in {"suspended", "running"} /\ state'[p] = "dying"
    /\ killed' \in BOOLEAN
    /\ killed' => killed \/ state[Child] \in {"suspended", "running"}

(* Killing a set of processes makes some of the living die. *)
LEMMA KillFact ==
    ASSUME TypeOK, NEW S, Kill(S)
    PROVE  Signalled
BY DEF TypeOK, Kill, Signalled, State, Process

(* Terminating the containment does no more, and hits strangers only when  *)
(* the group id was given away.                                            *)
LEMMA TerminateFact ==
    ASSUME TypeOK, NEW ok \in BOOLEAN, Terminate(ok)
    PROVE  Signalled /\ foreignHit' \in BOOLEAN /\ (foreignHit' => foreignHit \/ reused)
<1>1. \E S : Kill(S)
  BY DEF Terminate, KillChild
<1>2. Signalled
  BY <1>1, KillFact
<1>3. foreignHit' \in BOOLEAN /\ (foreignHit' => foreignHit \/ reused)
  BY DEF Terminate, KillChild, TypeOK
<1>q. QED BY <1>2, <1>3

(* The invariant holds at the start. *)
LEMMA InitIInv == Init => IInv
<1> SUFFICES ASSUME Init PROVE IInv
  OBVIOUS
<1>0. Child \in Process /\ \A p \in Process : state[p] = "unborn"
  BY DEF Init, Process
<1>1. TypeOK
  BY DEF Init, TypeOK, Stage, Cause, Outcome, Exit, State
<1>2. Family /\ Attached /\ Untouched /\ Reaped /\ GroupIsOurs /\ Finished
  BY <1>0 DEF Init, Family, Attached, Untouched, Reaped, GroupIsOurs, Finished
<1>3. ContainedBeforeRunning
  BY <1>0 DEF Init, ContainedBeforeRunning, Process
<1>q. QED BY <1>1, <1>2, <1>3 DEF IInv

(* What the processes do by themselves: they end, and only the running     *)
(* have children.                                                          *)
LEMMA WorldFact ==
    ASSUME TypeOK, World
    PROVE  /\ UNCHANGED <<runner, killed, foreignHit>>
           /\ state' \in [Process -> State] /\ escaped' \subseteq Process
           /\ exit' \in Exit \cup {"none"} /\ reused' \in BOOLEAN
           /\ reused' => reused \/ (Platform = "unix" /\ state[Child] = "gone")
           /\ state'[Child] # state[Child] =>
                 state[Child] \in {"running", "dying"} /\ state'[Child] = "zombie"
           /\ exit' # exit => state[Child] \in {"running", "dying"}
           /\ \A p \in Process : state'[p] = "running" =>
                 state[p] = "running" \/ \E q \in Process : state[q] = "running"
           /\ \A p \in Process : state[p] = "unborn" /\ state'[p] # "unborn" =>
                 \E q \in Process : state[q] = "running"
<1>1. CASE \E p \in Process, d \in Descendant : Fork(p, d)
  BY <1>1, ConstantsAssumption DEF TypeOK, Fork, Process, State, runner
<1>2. CASE \E p \in Process : Leave(p)
  BY <1>2 DEF TypeOK, Leave, Process, runner
<1>3. CASE \E p \in Process : Finish(p)
  BY <1>3 DEF TypeOK, Finish, End, Exit, State, Process, runner
<1>4. CASE \E p \in Process : Die(p)
  BY <1>4 DEF TypeOK, Die, End, Exit, State, Process, runner
<1>5. CASE \E d \in Descendant : Collect(d)
  BY <1>5, ConstantsAssumption DEF TypeOK, Collect, State, Process, runner
<1>6. CASE ReuseGroupId
  BY <1>6 DEF TypeOK, ReuseGroupId, runner
<1>q. QED BY <1>1, <1>2, <1>3, <1>4, <1>5, <1>6 DEF World

(* Nobody enters an empty containment. *)
LEMMA EmptyStaysEmpty ==
    ASSUME TypeOK, World, Held = {}
    PROVE  Held' = {}
<1>0. attached' = attached
  BY WorldFact DEF runner
<1>1. CASE \E p \in Process, d \in Descendant : Fork(p, d)
  BY <1>0, <1>1, ConstantsAssumption DEF TypeOK, Fork, Held, Process
<1>2. CASE \E p \in Process : Leave(p)
  BY <1>0, <1>2 DEF TypeOK, Leave, Held, Process
<1>3. CASE \E p \in Process : Finish(p)
  BY <1>0, <1>3, ConstantsAssumption DEF TypeOK, Finish, End, Held, Process
<1>4. CASE \E p \in Process : Die(p)
  BY <1>0, <1>4, ConstantsAssumption DEF TypeOK, Die, End, Held, Process
<1>5. CASE \E d \in Descendant : Collect(d)
  BY <1>0, <1>5, ConstantsAssumption DEF TypeOK, Collect, Held, Process
<1>6. CASE ReuseGroupId
  BY <1>0, <1>6 DEF ReuseGroupId, Held
<1>q. QED BY <1>1, <1>2, <1>3, <1>4, <1>5, <1>6 DEF World

(* The processes keep the invariant. *)
LEMMA WorldIInv ==
    ASSUME IInv, World
    PROVE  IInv'
<1>0. Child \in Process /\ TypeOK
  BY DEF IInv, Process
<1>1. TypeOK'
  BY <1>0, WorldFact DEF TypeOK, runner
<1>2. Family' /\ Attached' /\ Untouched'
  BY <1>0, WorldFact DEF IInv, Family, Attached, Untouched, runner
<1>3. Reaped' /\ GroupIsOurs'
  BY <1>0, WorldFact DEF IInv, Reaped, GroupIsOurs, runner
<1>4. Finished'
  BY <1>0, WorldFact, EmptyStaysEmpty DEF IInv, Finished, Family, runner
<1>5. ContainedBeforeRunning'
  <2>1. CASE Platform = "windows" /\ ~attached
    <3>1. \A q \in Process : state[q] # "running"
      BY <2>1 DEF IInv, ContainedBeforeRunning, Process
    <3>q. QED BY <1>0, <2>1, <3>1, WorldFact
              DEF IInv, ContainedBeforeRunning, runner, Process, TypeOK, State
  <2>q. QED BY <1>0, <2>1, WorldFact DEF IInv, ContainedBeforeRunning, runner
<1>q. QED BY <1>1, <1>2, <1>3, <1>4, <1>5 DEF IInv

-----------------------------------------------------------------------------
(* Dying changes neither the unborn nor the ended, and starts nobody.      *)
LEMMA SignalledFact ==
    ASSUME TypeOK, Signalled
    PROVE  /\ \A p \in Process : state'[p] = "running" => state[p] = "running"
           /\ \A p \in Process :
                 state[p] \in {"unborn", "zombie", "gone"} => state'[p] = state[p]
           /\ \A p \in Process : state'[p] \in {"unborn", "zombie", "gone"} =>
                 state'[p] = state[p]
           /\ state[Child] \in {"zombie", "gone"} /\ ~killed => ~killed'
           /\ state'[Child] = "suspended" => state[Child] = "suspended"
BY DEF Signalled, Process

(* Killing nobody changes nothing. *)
LEMMA KillNobody ==
    ASSUME TypeOK, Kill({})
    PROVE  state' = state /\ killed' = killed
BY DEF TypeOK, Kill

(* Setting up: nothing has been killed yet. *)
LEMMA SetUpIInv ==
    ASSUME IInv, configure \/ spawn \/ attach \/ resume_process
    PROVE  IInv'
<1>0. Child \in Process /\ Descendant \subseteq Process /\ TypeOK
  BY DEF IInv, Process
<1>1. CASE configure
  <2>1. CASE Return("containment_failed") /\ UNCHANGED <<attached, cause, status, errors>>
    <3>1. Signalled
      BY <1>0, <2>1, KillFact DEF Return
    <3>2. \A p \in Process : state[p] = "unborn" /\ state'[p] = "unborn"
      BY <1>0, <1>1, <3>1, SignalledFact DEF IInv, Family, configure
    <3>3. TypeOK'
      BY <1>0, <2>1, <3>1 DEF TypeOK, Return, Goto, Stage, Outcome, Cause, Signalled
    <3>4. ~attached' /\ cause' = "none" /\ status' = status /\ exit' = exit /\ stage' = "done"
      BY <1>1, <2>1 DEF IInv, Family, Untouched, configure, Return, Goto
    <3>5. status = "none" /\ ~foreignHit' /\ ~reused' /\ outcome' = "containment_failed"
      BY <1>0, <1>1, <2>1, <3>2 DEF IInv, Reaped, GroupIsOurs, configure, Return
    <3>6. Held' = {}
      BY <3>2 DEF Held
    <3>q. QED BY <1>0, <3>2, <3>3, <3>4, <3>5, <3>6
              DEF IInv, Family, Attached, Untouched, Reaped, GroupIsOurs, Finished,
                  ContainedBeforeRunning
  <2>2. CASE Goto("spawn") /\ UNCHANGED <<outcome, world>> /\ UNCHANGED <<attached, cause, status, errors>>
    BY <1>0, <1>1, <2>2
    DEF configure, Goto, world, IInv, TypeOK, Stage, Family, Attached, Untouched, Reaped,
        GroupIsOurs, Finished, ContainedBeforeRunning
  <2>q. QED BY <1>1, <2>1, <2>2 DEF configure
<1>2. CASE spawn
  <2>0. \A p \in Process : state[p] = "unborn"
    BY <1>2, <1>0 DEF IInv, Family, spawn
  <2>1. CASE Return("spawn_failed") /\ UNCHANGED <<attached, cause, status, errors>>
    <3>1. Signalled
      BY <1>0, <2>1, KillFact DEF Return
    <3>2. \A p \in Process : state'[p] = "unborn"
      BY <1>0, <2>0, <3>1, SignalledFact
    <3>3. TypeOK'
      BY <1>0, <2>1, <3>1 DEF TypeOK, Return, Goto, Stage, Outcome, Cause, Signalled
    <3>4. ~attached' /\ cause' = "none" /\ status' = status /\ exit' = exit /\ stage' = "done"
      BY <1>2, <2>1 DEF IInv, Family, Untouched, spawn, Return, Goto
    <3>5. status = "none" /\ ~foreignHit' /\ ~reused' /\ outcome' = "spawn_failed"
      BY <1>0, <1>2, <2>0, <2>1 DEF IInv, Reaped, GroupIsOurs, spawn, Return
    <3>6. Held' = {}
      BY <3>2 DEF Held
    <3>q. QED BY <1>0, <3>2, <3>3, <3>4, <3>5, <3>6
              DEF IInv, Family, Attached, Untouched, Reaped, GroupIsOurs, Finished,
                  ContainedBeforeRunning
  <2>2. CASE ~Return("spawn_failed")
    <3>1. /\ stage' = "attach" /\ elapsed' = 0
          /\ state' = [state EXCEPT ![Child] =
                          IF Platform = "windows" THEN "suspended" ELSE "running"]
          /\ UNCHANGED <<outcome, escaped, exit, killed, reused, foreignHit,
                         attached, cause, status, errors>>
      BY <1>2, <2>2 DEF spawn, Goto
    <3>2. TypeOK'
      BY <1>0, <3>1 DEF TypeOK, Stage, State
    <3>3. state'[Child] = (IF Platform = "windows" THEN "suspended" ELSE "running")
      BY <1>0, <3>1 DEF TypeOK
    <3>4. Family' /\ Attached' /\ Untouched' /\ Reaped' /\ GroupIsOurs' /\ Finished'
      BY <1>0, <1>2, <2>0, <3>1, <3>3
      DEF spawn, IInv, Family, Attached, Untouched, Reaped, GroupIsOurs, Finished
    <3>5. ContainedBeforeRunning'
      BY <1>0, <2>0, <3>1, <3>3, ConstantsAssumption DEF TypeOK, ContainedBeforeRunning
    <3>q. QED BY <3>2, <3>4, <3>5 DEF IInv
  <2>q. QED BY <1>2, <2>1, <2>2 DEF spawn
<1>3. CASE attach
  <2>0. /\ stage = "attach" /\ elapsed' = 0
        /\ UNCHANGED <<status, errors, outcome, state, escaped, exit, killed, reused, foreignHit>>
        /\ \/ /\ attached' = TRUE /\ cause' = cause
              /\ stage' = IF Platform = "windows" THEN "resume" ELSE "observe"
           \/ attached' = attached /\ cause' = "containment_failed" /\ stage' = "terminate"
    BY <1>3 DEF attach, Cleanup, Goto, world
  <2>1. TypeOK'
    BY <1>0, <2>0 DEF TypeOK, Stage, Cause, Process
  <2>2. Family' /\ Attached' /\ Untouched' /\ Reaped' /\ Finished'
    BY <1>0, <2>0 DEF IInv, Family, Attached, Untouched, Reaped, Finished
  <2>3. GroupIsOurs' /\ ContainedBeforeRunning'
    BY <1>0, <2>0, ConstantsAssumption DEF IInv, GroupIsOurs, ContainedBeforeRunning
  <2>q. QED BY <2>1, <2>2, <2>3 DEF IInv
<1>4. CASE resume_process
  <2>0. /\ stage = "resume" /\ elapsed' = 0 /\ attached
        /\ UNCHANGED <<attached, status, errors, outcome, escaped, exit, killed, reused, foreignHit>>
        /\ \/ /\ stage' = "observe" /\ cause' = cause
              /\ state' = [state EXCEPT ![Child] = "running"]
           \/ state' = state /\ cause' = "containment_failed" /\ stage' = "terminate"
    BY <1>4 DEF resume_process, Cleanup, Goto, IInv, Attached
  <2>1. TypeOK'
    BY <1>0, <2>0 DEF TypeOK, Stage, Cause, State, Process
  <2>2. Family' /\ Attached' /\ Untouched' /\ Finished'
    BY <1>0, <2>0 DEF IInv, TypeOK, Family, Attached, Untouched, Finished
  <2>3. Reaped' /\ GroupIsOurs' /\ ContainedBeforeRunning'
    BY <1>0, <2>0 DEF IInv, TypeOK, Untouched, Reaped, GroupIsOurs, ContainedBeforeRunning
  <2>q. QED BY <2>1, <2>2, <2>3 DEF IInv
<1>q. QED BY <1>1, <1>2, <1>3, <1>4

(* Watching the child. *)
LEMMA ObserveIInv ==
    ASSUME IInv, observe
    PROVE  IInv'
<1>0. Child \in Process /\ TypeOK /\ stage = "observe" /\ attached
  BY DEF IInv, Process, observe, Attached
<1>1. /\ UNCHANGED <<attached, errors, outcome, escaped, exit, killed, reused, foreignHit>>
      /\ \/ /\ state[Child] = "zombie" /\ stage' = "complete" /\ cause' = "exited"
            /\ elapsed' = 0
            /\ IF Platform = "windows"
               THEN status' = exit /\ state' = [state EXCEPT ![Child] = "gone"]
               ELSE UNCHANGED <<status, state>>
         \/ elapsed' = elapsed + 1 /\ UNCHANGED <<stage, cause, status, state>>
         \/ /\ stage' = "terminate" /\ cause' \in {"timed_out", "runner_failed"}
            /\ elapsed' = 0 /\ UNCHANGED <<status, state>>
  BY DEF observe, Cleanup, Goto
<1>2. TypeOK'
  <2>1. /\ state' \in [Process -> State] /\ status' \in Exit \cup {"none"}
    BY <1>0, <1>1 DEF TypeOK, State
  <2>2. stage \in Stage /\ cause \in Cause /\ elapsed \in Nat
    BY <1>0 DEF TypeOK
  <2>3. stage' \in Stage
    BY <1>1, <2>2 DEF Stage
  <2>4. cause' \in Cause
    BY <1>1, <2>2 DEF Cause
  <2>5. elapsed' \in Nat
    BY <1>1, <2>2
  <2>q. QED BY <1>0, <1>1, <2>1, <2>3, <2>4, <2>5 DEF TypeOK
<1>3. Family' /\ Attached' /\ Untouched' /\ Finished' /\ ContainedBeforeRunning'
  BY <1>0, <1>1
  DEF IInv, TypeOK, Family, Attached, Untouched, Finished, ContainedBeforeRunning
<1>4. Reaped' /\ GroupIsOurs'
  BY <1>0, <1>1 DEF IInv, TypeOK, Untouched, Reaped, GroupIsOurs
<1>q. QED BY <1>2, <1>3, <1>4 DEF IInv

(* What sending signals keeps, as long as the group id is ours. *)
LEMMA SignalIInv ==
    ASSUME IInv, Signalled, UNCHANGED <<attached, cause, status, escaped, exit, reused>>,
           stage \notin {"configure", "spawn"}, stage' \notin {"configure", "spawn"}
    PROVE  Family' /\ ContainedBeforeRunning'
<1>0. Child \in Process /\ Descendant \subseteq Process /\ TypeOK
  BY DEF IInv, Process
<1>1. Family'
  BY <1>0, SignalledFact DEF IInv, Family
<1>2. ContainedBeforeRunning'
  <2>1. CASE Platform = "windows" /\ ~attached
    <3>1. state[Child] # "running" /\ \A d \in Descendant : state[d] = "unborn"
      BY <2>1 DEF IInv, ContainedBeforeRunning
    <3>2. state'[Child] # "running" /\ \A d \in Descendant : state'[d] = "unborn"
      BY <1>0, <3>1, SignalledFact
    <3>q. QED BY <1>0, <3>2 DEF ContainedBeforeRunning, Signalled, State
  <2>q. QED BY <2>1 DEF ContainedBeforeRunning
<1>q. QED BY <1>1, <1>2

(* An observed end: the group is signalled while the child is a zombie.    *)
LEMMA CompleteIInv ==
    ASSUME IInv, complete_observed_exit
    PROVE  IInv'
<1>0. Child \in Process /\ TypeOK /\ stage = "complete"
  BY DEF IInv, Process, complete_observed_exit
<1>1. PICK ok \in BOOLEAN : Terminate(ok)
  BY DEF complete_observed_exit
<1>2. Signalled /\ foreignHit' \in BOOLEAN /\ (foreignHit' => foreignHit \/ reused)
  BY <1>0, <1>1, TerminateFact
<1>3. /\ UNCHANGED <<attached, cause, status, errors, outcome, escaped, exit, reused>>
      /\ elapsed' = 0 /\ stage' = IF Platform = "unix" THEN "reap" ELSE "verify"
  BY DEF complete_observed_exit, Goto
<1>4. cause = "exited" /\ attached /\ ~killed /\ state[Child] \in {"zombie", "gone"}
  BY <1>0 DEF IInv, Attached, Untouched
<1>5. state'[Child] = state[Child] /\ ~killed'
  BY <1>0, <1>2, <1>4, SignalledFact
<1>6. TypeOK'
  BY <1>0, <1>2, <1>3 DEF TypeOK, Signalled, Stage
<1>7. Family' /\ ContainedBeforeRunning'
  BY <1>0, <1>2, <1>3, SignalIInv
<1>8. Attached' /\ Untouched' /\ Finished'
  BY <1>3, <1>4, <1>5 DEF Attached, Untouched, Finished
<1>9. Reaped' /\ GroupIsOurs'
  BY <1>0, <1>2, <1>3, <1>5, ConstantsAssumption DEF IInv, Reaped, GroupIsOurs
<1>q. QED BY <1>6, <1>7, <1>8, <1>9 DEF IInv

(* Taking the child down: signals, and no reaping before the last of them. *)
LEMMA TakeDownIInv ==
    ASSUME IInv, terminate \/ kill
    PROVE  IInv'
<1>0. /\ Child \in Process /\ TypeOK
      /\ stage \in {"terminate", "kill", "kill again"}
  BY DEF IInv, Process, terminate, kill
<1>1. Signalled /\ foreignHit' \in BOOLEAN /\ (foreignHit' => foreignHit \/ reused)
  <2>1. CASE terminate
    BY <1>0, <2>1, TerminateFact DEF terminate
  <2>2. CASE kill
    <3>1. \E S : Kill(S)
      BY <2>2 DEF kill, KillChild
    <3>2. foreignHit' = foreignHit
      BY <2>2 DEF kill, KillChild
    <3>q. QED BY <1>0, <3>1, <3>2, KillFact DEF TypeOK
  <2>q. QED BY <2>1, <2>2
<1>2. /\ UNCHANGED <<attached, cause, status, outcome, escaped, exit, reused>>
      /\ elapsed' = 0 /\ stage' \in {"kill", "wait", "wait again"}
      /\ errors' \in BOOLEAN
  BY <1>0 DEF terminate, kill, Goto, TypeOK
<1>3. TypeOK'
  BY <1>0, <1>1, <1>2 DEF TypeOK, Signalled, Stage
<1>4. Family' /\ ContainedBeforeRunning'
  BY <1>0, <1>1, <1>2, SignalIInv
<1>5. Attached' /\ Untouched' /\ Finished'
  BY <1>0, <1>1, <1>2, SignalledFact DEF IInv, Attached, Untouched, Finished
<1>6. Reaped' /\ GroupIsOurs'
  BY <1>0, <1>1, <1>2, SignalledFact DEF IInv, Reaped, GroupIsOurs
<1>q. QED BY <1>3, <1>4, <1>5, <1>6 DEF IInv

(* Reaping the child: its status is its exit status. *)
LEMMA ReapIInv ==
    ASSUME IInv, reap_observed_child \/ wait
    PROVE  IInv'
<1>0. /\ Child \in Process /\ TypeOK
      /\ stage \in {"reap", "wait", "wait again"}
  BY DEF IInv, Process, reap_observed_child, wait
<1>1. /\ UNCHANGED <<attached, cause, outcome, escaped, exit, killed, reused, foreignHit>>
      /\ elapsed' \in Nat /\ errors' \in BOOLEAN
      /\ stage' \in {"wait", "kill again", "wait again", "verify"}
      /\ \/ UNCHANGED <<state, status>> /\ (stage' = "verify" => errors' = TRUE)
         \/ TakeStatus /\ stage' = "verify"
  <2>1. CASE reap_observed_child
    BY <1>0, <2>1 DEF reap_observed_child, Goto, TypeOK
  <2>2. CASE wait
    <3>0. elapsed \in Nat /\ errors \in BOOLEAN
      BY <1>0 DEF TypeOK
    <3>1. UNCHANGED <<attached, cause, outcome, escaped, exit, killed, reused, foreignHit>>
      BY <2>2 DEF wait
    <3>4. elapsed' = 0 \/ elapsed' = elapsed + 1
      BY <2>2, Zenon DEF wait, Goto
    <3>5. elapsed' \in Nat
      BY <3>0, <3>4
    <3>2. /\ errors' \in BOOLEAN
          /\ stage' \in {"wait", "kill again", "wait again", "verify"}
      BY <2>2, <3>0 DEF wait, Goto
    <3>3. \/ UNCHANGED <<state, status>> /\ (stage' = "verify" => errors' = TRUE)
          \/ TakeStatus /\ stage' = "verify"
      BY <2>2 DEF wait, Goto
    <3>q. QED BY <3>1, <3>2, <3>3, <3>5
  <2>q. QED BY <2>1, <2>2
<1>2. TypeOK'
  BY <1>0, <1>1 DEF TypeOK, TakeStatus, Stage, State
<1>3. Family' /\ ContainedBeforeRunning'
  BY <1>0, <1>1, ConstantsAssumption
  DEF IInv, TypeOK, TakeStatus, Family, ContainedBeforeRunning, Process
<1>5. Attached' /\ Untouched' /\ Finished'
  BY <1>0, <1>1 DEF IInv, TypeOK, TakeStatus, Attached, Untouched, Finished
<1>4. Reaped' /\ GroupIsOurs'
  BY <1>0, <1>1 DEF IInv, TypeOK, TakeStatus, Reaped, GroupIsOurs
<1>q. QED BY <1>2, <1>3, <1>4, <1>5 DEF IInv

(* Verifying and reporting. *)
LEMMA VerifyIInv ==
    ASSUME IInv, verify
    PROVE  IInv'
<1>0. Child \in Process /\ TypeOK /\ stage = "verify"
  BY DEF IInv, Process, verify
<1>1. CASE /\ elapsed' = elapsed + 1
           /\ UNCHANGED <<stage, errors, outcome, world, attached, cause, status>>
  <2>2. TypeOK'
    BY <1>0, <1>1 DEF TypeOK, world
  <2>3. Family' /\ Attached' /\ Untouched' /\ Reaped' /\ GroupIsOurs'
    BY <1>1 DEF world, IInv, Family, Attached, Untouched, Reaped, GroupIsOurs
  <2>4. Finished' /\ ContainedBeforeRunning'
    BY <1>0, <1>1 DEF world, IInv, Finished, ContainedBeforeRunning
  <2>q. QED BY <2>2, <2>3, <2>4 DEF IInv
<1>2. ASSUME NEW failed \in BOOLEAN, Report(failed), ~failed => Held = {}
      PROVE  IInv'
  <2>1. /\ errors' = (errors \/ failed)
        /\ outcome' = IF cause = "exited" THEN finished_execution(errors') ELSE cause
        /\ stage' = "done" /\ elapsed' = 0
        /\ UNCHANGED <<attached, cause, status, escaped, exit, reused, foreignHit>>
        /\ Kill(IF Platform = "windows" THEN Held ELSE {})
    BY <1>2 DEF Report, Return, Goto, verify
  <2>2. Signalled
    BY <1>0, <2>1, KillFact
  <2>3. TypeOK'
    <3>1. outcome' \in Outcome
      BY <1>0, <2>1 DEF TypeOK, Outcome, Cause, finished_execution
    <3>q. QED BY <1>0, <2>1, <2>2, <3>1 DEF TypeOK, Signalled, Stage
  <2>4. Family' /\ ContainedBeforeRunning'
    BY <1>0, <2>1, <2>2, SignalIInv
  <2>5. Attached' /\ Untouched' /\ Reaped' /\ GroupIsOurs'
    BY <1>0, <2>1, <2>2, SignalledFact
    DEF IInv, Attached, Untouched, Reaped, GroupIsOurs
  <2>6. Finished'
    <3>1. ASSUME ~errors' PROVE Held' = {} /\ state'[Child] = "gone"
      <4>1. Held = {} /\ ~errors
        BY <1>2, <2>1, <3>1
      <4>2. Kill({})
        BY <2>1, <4>1
      <4>3. state' = state
        BY <1>0, <4>2, KillNobody
      <4>4. Held' = {}
        BY <2>1, <4>1, <4>3 DEF Held
      <4>q. QED BY <1>0, <4>1, <4>3, <4>4 DEF IInv, Reaped
    <3>2. outcome' \in {"exited", "terminated"} =>
             cause = "exited" /\ ~errors' /\ status # "none"
      BY <1>0, <2>1 DEF finished_execution, TypeOK, Cause
    <3>q. QED BY <2>1, <3>1, <3>2 DEF Finished
  <2>q. QED BY <2>3, <2>4, <2>5, <2>6 DEF IInv
<1>3. CASE Report(TRUE)
  BY <1>2, <1>3
<1>4. CASE Drained /\ Report(FALSE)
  <2>1. Held = {}
    BY <1>4 DEF Drained
  <2>q. QED BY <1>2, <1>4, <2>1
<1>q. QED BY <1>1, <1>3, <1>4 DEF verify

-----------------------------------------------------------------------------
(* The invariant is inductive. *)
LEMMA NextIInv == IInv /\ [Next]_vars => IInv'
<1> SUFFICES ASSUME IInv, [Next]_vars PROVE IInv'
  OBVIOUS
<1>1. CASE Runner
  BY <1>1, SetUpIInv, ObserveIInv, CompleteIInv, TakeDownIInv, ReapIInv, VerifyIInv
  DEF Runner
<1>2. CASE World
  BY <1>2, WorldIInv
<1>3. CASE UNCHANGED vars
  <2>1. Held' = Held
    BY <1>3 DEF Held, vars, runner, world
  <2>q. QED BY <1>3, <2>1
        DEF vars, runner, world, IInv, TypeOK, Family, Attached, Untouched, Reaped,
            GroupIsOurs, Finished, ContainedBeforeRunning
<1>q. QED BY <1>1, <1>2, <1>3 DEF Next

(* What the invariant says of a finished execution. *)
LEMMA IInvProperties ==
    IInv => SuccessIsClean /\ LeftoverIsReported /\ NoForeignKill /\ VerdictIsTheChilds
<1> SUFFICES ASSUME IInv
             PROVE SuccessIsClean /\ LeftoverIsReported /\ NoForeignKill /\ VerdictIsTheChilds
  OBVIOUS
<1>1. SuccessIsClean
  BY DEF IInv, SuccessIsClean, succeeded, Finished, Untouched, Reaped
<1>2. LeftoverIsReported
  BY DEF IInv, LeftoverIsReported, Finished
<1>3. NoForeignKill
  BY DEF IInv, NoForeignKill, GroupIsOurs
<1>4. VerdictIsTheChilds
  BY DEF IInv, VerdictIsTheChilds, Finished, Untouched
<1>q. QED BY <1>1, <1>2, <1>3, <1>4

(* Every behaviour of the runner keeps the invariant. *)
THEOREM RunnerInvariant == Spec => []IInv
BY InitIInv, NextIInv, PTL DEF Spec

(* Type correctness of the runner. *)
THEOREM RunnerTypeCorrect == Spec => []TypeOK
BY RunnerInvariant, PTL DEF IInv

(* A reported success is a child that ended with 0, reaped, with nothing   *)
(* left in its containment.                                                *)
THEOREM SuccessIsCleanHolds == Spec => []SuccessIsClean
BY RunnerInvariant, IInvProperties, PTL

(* What is left behind is reported. *)
THEOREM LeftoverIsReportedHolds == Spec => []LeftoverIsReported
BY RunnerInvariant, IInvProperties, PTL

(* The group's SIGKILL never reaches a group that was given its id later.  *)
THEOREM NoForeignKillHolds == Spec => []NoForeignKill
BY RunnerInvariant, IInvProperties, PTL

(* A reported verdict is not the effect of the runner's kill. *)
THEOREM VerdictIsTheChildsHolds == Spec => []VerdictIsTheChilds
BY RunnerInvariant, IInvProperties, PTL

(* On Windows nothing runs outside the job. *)
THEOREM ContainedBeforeRunningHolds == Spec => []ContainedBeforeRunning
BY RunnerInvariant, PTL DEF IInv

-----------------------------------------------------------------------------
(* Output capture. *)

(* The command is over in the phases after it, and then the lengths have   *)
(* been looked at, first of one file and then of both.                     *)
Both  == {"rewind", "read stdout", "read stderr", "output"}
One   == {"validate stderr"} \cup Both
After == {"validate stdout"} \cup One
Dropping == {"release", "drop files", "drop guard", "drop directory", "returned"}

(* A success without an escape leaves nobody who could write. *)
Clean == stage = "done" /\ succeeded /\ escaped = {}

(* What was read of a clean execution is all there is. *)
ReadOK ==
    /\ phase \in After => stage = "done"
    /\ captured = "ok" => stage = "done" /\ succeeded
    /\ captured # "none" <=> phase \in Dropping
    /\ Clean =>
         /\ phase \in {"read stderr", "output"} => bytes["stdout"] = length["stdout"]
         /\ phase = "output" => bytes["stderr"] = length["stderr"]
         /\ phase \in One => length["stdout"] <= Limit
         /\ phase \in Both => length["stderr"] <= Limit
         /\ captured = "ok" => bytes = length /\ \A f \in File : length[f] <= Limit

(* What a call may hold open, by phase. *)
Holding ==
    CASE phase = "directory" -> {}
      [] phase \in {"harden", "stdout file", "drop guard"} -> {"guard", "directory"}
      [] phase = "stderr file" -> {"guard", "directory", "stdout"}
      [] phase \in {"clone stdout", "clone stderr", "drop files"} ->
            {"guard", "directory", "stdout", "stderr"}
      [] phase = "drop directory" -> {"directory"}
      [] phase = "returned" -> {}
      [] OTHER -> Resource

CInv == IInv /\ CTypeOK /\ ReadOK /\ open \subseteq Holding

-----------------------------------------------------------------------------
(* A capture's steps are the runner's, the processes', or none of theirs. *)
LEMMA CaptureSteps == [CNext]_all => [Next]_vars
BY DEF CNext, capture_with_backend, capture_directory, capture_files, clone_files, Stages,
       timeout_error, execute, executed, validate_capture_length, rewind, read_to_end,
       captured_output, release, Drop, Write, Next, all

(* Nobody can write to the files of a clean execution. *)
LEMMA CleanIsQuiet ==
    ASSUME IInv, Clean
    PROVE  \A p \in Process : state[p] \notin {"running", "dying"}
<1>1. Held = {} /\ attached
  BY IInvProperties DEF SuccessIsClean, Clean, IInv, Attached, Finished, succeeded
<1>2. CASE Platform = "unix"
  BY <1>1, <1>2 DEF Clean, Held
<1>3. CASE Platform = "windows"
  BY <1>1, <1>3 DEF Held
<1>q. QED BY <1>2, <1>3, ConstantsAssumption

(* Who has escaped does not come back. *)
LEMMA EscapesLast ==
    ASSUME World
    PROVE  escaped \subseteq escaped' /\ UNCHANGED runner
BY DEF World, Fork, Leave, Finish, Die, End, Collect, ReuseGroupId

(* What is read of what is there is within the bound that it is within. *)
LEMMA ReadFits ==
    /\ 0 \in 0 .. MaxLength
    /\ \A k, l \in 0 .. MaxLength : \A n \in k + 1 .. l : n \in 0 .. MaxLength
BY LimitAssumption

(* The invariant holds at the start. *)
LEMMA InitCInv == CInit => CInv
BY InitIInv, LimitAssumption
   DEF CInit, NothingRead, CInv, CTypeOK, ReadOK, Holding, Phase, Resource, File, After,
       One, Both, Dropping, Init, Clean

(* A step that leaves the runner, the files and what was read alone keeps   *)
(* what is true of them, if it goes to a phase that says no more.           *)
LEMMA QuietStep ==
    ASSUME CInv, UNCHANGED <<vars, length, bytes>>
    PROVE  IInv' /\ (Clean' <=> Clean)
<1>1. IInv'
  BY NextIInv DEF CInv
<1>q. QED BY <1>1 DEF vars, runner, world, Clean, succeeded

(* A fallible stage before the command runs, or the rewinding after it. *)
LEMMA StagesCInv ==
    ASSUME CInv, capture_directory \/ capture_files \/ clone_files \/ rewind
    PROVE  CInv'
<1>1. PICK from, to, onError, acquired :
        /\ Stages(from, to, onError, acquired)
        /\ <<from, to, onError, acquired>> \in
             {<<"directory", "harden", "drop guard", {"guard", "directory"}>>,
              <<"directory", "stdout file", "drop guard", {"directory"}>>,
              <<"harden", "stdout file", "drop guard", {}>>,
              <<"stdout file", "stderr file", "drop guard", {"stdout"}>>,
              <<"stderr file", "clone stdout", "drop files", {"stderr"}>>,
              <<"clone stdout", "clone stderr", "release", {}>>,
              <<"clone stderr", "execute", "release", {"command stdout", "command stderr"}>>,
              <<"rewind", "read stdout", "release", {}>>}
  BY DEF capture_directory, capture_files, clone_files, rewind
<1>2. IInv' /\ (Clean' <=> Clean) /\ stage' = stage /\ (succeeded' <=> succeeded)
  BY <1>1, QuietStep DEF Stages, vars, runner, succeeded
<1>3. CTypeOK'
  BY <1>1 DEF Stages, CInv, CTypeOK, Phase, Resource
<1>4. ReadOK'
  BY <1>1, <1>2 DEF Stages, CInv, CTypeOK, ReadOK, After, One, Both, Dropping
<1>5. open' \subseteq Holding'
  BY <1>1 DEF Stages, CInv, CTypeOK, Holding, Resource
<1>q. QED BY <1>2, <1>3, <1>4, <1>5 DEF CInv

(* Dropping takes each thing out before what it stands in the way of. *)
LEMMA ReleaseCInv ==
    ASSUME CInv, release
    PROVE  CInv'
<1>1. PICK from, to, dropped :
        /\ Drop(from, to, dropped)
        /\ <<from, to, dropped>> \in
             {<<"release", "drop files", {"command stdout", "command stderr"}>>,
              <<"drop files", "drop guard", File>>,
              <<"drop guard", "drop directory", {"guard"}>>,
              <<"drop directory", "returned", {"directory"}>>}
  BY DEF release
<1>2. IInv' /\ (Clean' <=> Clean) /\ stage' = stage /\ (succeeded' <=> succeeded)
  BY <1>1, QuietStep DEF Drop, vars, runner, succeeded
<1>3. CTypeOK'
  BY <1>1 DEF Drop, CInv, CTypeOK, Phase
<1>4. ReadOK'
  BY <1>1, <1>2 DEF Drop, CInv, ReadOK, After, One, Both, Dropping
<1>5. open' \subseteq Holding'
  BY <1>1 DEF Drop, CInv, CTypeOK, Holding, Resource, File
<1>q. QED BY <1>2, <1>3, <1>4, <1>5 DEF CInv

(* From the end of the command to the Output: each phase reads or checks. *)
LEMMA ReadCInv ==
    ASSUME CInv,
           \/ timeout_error \/ executed
           \/ validate_capture_length("stdout", "validate stderr")
           \/ validate_capture_length("stderr", "rewind")
           \/ read_to_end("stdout", "read stderr")
           \/ read_to_end("stderr", "output")
           \/ captured_output
    PROVE  CInv'
<1>0. /\ UNCHANGED <<vars, length, open>> /\ CTypeOK /\ ReadOK /\ open \subseteq Holding
  BY DEF CInv, timeout_error, executed, validate_capture_length, read_to_end, captured_output
<1>1. IInv' /\ (Clean' <=> Clean) /\ stage' = stage /\ (succeeded' <=> succeeded)
  BY <1>0, NextIInv DEF CInv, vars, runner, world, Clean, succeeded
<1>2. CTypeOK'
  <2>1. bytes' \in [File -> 0 .. MaxLength]
    <3>0. NothingRead \in [File -> 0 .. MaxLength]
      BY ReadFits DEF NothingRead
    <3>1. CASE UNCHANGED bytes \/ bytes' = NothingRead
      BY <1>0, <3>0, <3>1 DEF CTypeOK
    <3>2. CASE \E f \in File : \E n \in bytes[f] + 1 .. length[f] :
                  bytes' = [bytes EXCEPT ![f] = n]
      <4>0. PICK f \in File : \E n \in bytes[f] + 1 .. length[f] : bytes' = [bytes EXCEPT ![f] = n]
        BY <3>2
      <4>1. PICK n \in bytes[f] + 1 .. length[f] : bytes' = [bytes EXCEPT ![f] = n]
        BY <4>0
      <4>2. bytes[f] \in 0 .. MaxLength /\ length[f] \in 0 .. MaxLength
        BY <1>0 DEF CTypeOK
      <4>3. n \in 0 .. MaxLength
        BY <4>1, <4>2, ReadFits
      <4>q. QED BY <1>0, <4>1, <4>3 DEF CTypeOK
    <3>3. CASE \/ read_to_end("stdout", "read stderr")
               \/ read_to_end("stderr", "output")
      BY <3>1, <3>2, <3>3 DEF File, read_to_end
    <3>q. QED BY <3>1, <3>3 DEF timeout_error, executed, validate_capture_length,
                                captured_output
  <2>2. phase' \in Phase /\ captured' \in {"none", "ok", "error"}
    BY <1>0 DEF CTypeOK, Phase, timeout_error, executed, validate_capture_length,
                read_to_end, captured_output
  <2>q. QED BY <1>0, <2>1, <2>2 DEF CTypeOK
<1>3. open' \subseteq Holding'
  BY <1>0 DEF CTypeOK, Holding, timeout_error, executed, validate_capture_length,
              read_to_end, captured_output
<1>4. ReadOK'
  <2>1. CASE timeout_error \/ executed
    BY <1>0, <1>1, <2>1 DEF ReadOK, timeout_error, executed, After, One, Both, Dropping
  <2>2. CASE \/ validate_capture_length("stdout", "validate stderr")
             \/ validate_capture_length("stderr", "rewind")
    BY <1>0, <1>1, <2>2 DEF ReadOK, validate_capture_length, After, One, Both, Dropping
  <2>3. CASE read_to_end("stdout", "read stderr")
    BY <1>0, <1>1, <2>3, LimitAssumption DEF ReadOK, CTypeOK, File, read_to_end, After, One, Both, Dropping
  <2>4. CASE read_to_end("stderr", "output")
    BY <1>0, <1>1, <2>4, LimitAssumption DEF ReadOK, CTypeOK, File, read_to_end, After, One, Both, Dropping
  <2>5. CASE captured_output
    <3>1. /\ phase = "output" /\ phase' = "release"
          /\ captured' = IF succeeded THEN "ok" ELSE "error"
          /\ succeeded => bytes' = bytes
      BY <2>5 DEF captured_output
    <3>2. stage = "done"
      BY <1>0, <3>1 DEF ReadOK, After, One, Both
    <3>3. ASSUME Clean PROVE bytes' = length /\ \A f \in File : length[f] <= Limit
      <4>1. bytes["stdout"] = length["stdout"] /\ bytes["stderr"] = length["stderr"]
        BY <1>0, <3>1, <3>3 DEF ReadOK
      <4>2. \A f \in File : bytes[f] = length[f]
        BY <4>1 DEF File
      <4>3. bytes \in [File -> 0 .. MaxLength] /\ length \in [File -> 0 .. MaxLength]
        BY <1>0 DEF CTypeOK
      <4>4. bytes = [f \in File |-> bytes[f]] /\ length = [f \in File |-> length[f]]
        BY <4>3, Zenon
      <4>5. bytes = length
        BY <4>2, <4>4, Zenon
      <4>6. \A f \in File : length[f] <= Limit
        BY <1>0, <3>1, <3>3 DEF ReadOK, One, Both, File
      <4>q. QED BY <3>1, <3>3, <4>5, <4>6 DEF Clean
    <3>q. QED BY <1>0, <1>1, <3>1, <3>2, <3>3 DEF ReadOK, After, One, Both, Dropping
  <2>q. QED BY <2>1, <2>2, <2>3, <2>4, <2>5
<1>q. QED BY <1>1, <1>2, <1>3, <1>4 DEF CInv

(* The runner itself, while the command is run. *)
LEMMA ExecuteCInv ==
    ASSUME CInv, execute
    PROVE  CInv'
<1>1. IInv'
  BY NextIInv DEF CInv, execute, Next
<1>2. phase = "execute" /\ UNCHANGED capture
  BY DEF execute
<1>3. CTypeOK' /\ open' \subseteq Holding'
  BY <1>2 DEF CInv, CTypeOK, Holding, capture
<1>4. ReadOK'
  BY <1>2 DEF CInv, ReadOK, CTypeOK, capture, After, One, Both, Dropping
<1>q. QED BY <1>1, <1>3, <1>4 DEF CInv

(* The processes write, but not to the files of a clean execution. *)
LEMMA ProcessesCInv ==
    ASSUME CInv, \/ World /\ UNCHANGED capture
                 \/ \E p \in Process, f \in File : Write(p, f)
    PROVE  CInv'
<1>1. CASE World /\ UNCHANGED capture
  <2>1. IInv'
    BY <1>1, NextIInv DEF CInv, Next
  <2>2. Clean' => Clean
    BY <1>1, EscapesLast DEF Clean, succeeded, runner
  <2>3. stage' = stage /\ (succeeded' <=> succeeded)
    BY <1>1, EscapesLast DEF runner, succeeded
  <2>4. CTypeOK' /\ ReadOK' /\ open' \subseteq Holding'
    BY <1>1, <2>2, <2>3 DEF CInv, CTypeOK, ReadOK, Holding, capture
  <2>q. QED BY <2>1, <2>4 DEF CInv
<1>2. CASE \E p \in Process, f \in File : Write(p, f)
  <2>1. PICK p \in Process, f \in File : Write(p, f)
    BY <1>2
  <2>2. UNCHANGED <<vars, phase, open, captured>> /\ state[p] \in {"running", "dying"}
    BY <2>1 DEF Write
  <2>3. IInv' /\ ~Clean /\ stage' = stage /\ (succeeded' <=> succeeded) /\ (Clean' <=> Clean)
    BY <2>2, CleanIsQuiet, NextIInv DEF CInv, Clean, succeeded, vars, runner, world
  <2>4. CTypeOK'
    BY <2>1, LimitAssumption DEF CInv, CTypeOK, Write
  <2>5. ReadOK' /\ open' \subseteq Holding'
    BY <2>2, <2>3 DEF CInv, ReadOK, Holding
  <2>q. QED BY <2>3, <2>4, <2>5 DEF CInv
<1>q. QED BY <1>1, <1>2

(* The invariant is inductive. *)
LEMMA NextCInv == CInv /\ [CNext]_all => CInv'
<1> SUFFICES ASSUME CInv, [CNext]_all PROVE CInv'
  OBVIOUS
<1>1. CASE CNext
  BY <1>1, StagesCInv, ReleaseCInv, ReadCInv, ExecuteCInv, ProcessesCInv
     DEF CNext, capture_with_backend
<1>2. CASE UNCHANGED all
  <2>1. IInv' /\ (Clean' <=> Clean) /\ stage' = stage /\ (succeeded' <=> succeeded)
    BY <1>2, QuietStep DEF all, capture, vars, runner, succeeded
  <2>q. QED BY <1>2, <2>1 DEF all, capture, CInv, CTypeOK, ReadOK, Holding
<1>q. QED BY <1>1, <1>2

(* The invariant holds in every behaviour of capture. *)
THEOREM CaptureInvariant == CSpec => []CInv
BY InitCInv, NextCInv, PTL DEF CSpec

(* Type correctness of the capture. *)
THEOREM CaptureTypeCorrect == CSpec => []CTypeOK
BY CaptureInvariant, PTL DEF CInv

(* An Output is the whole output where nobody escaped the containment. *)
THEOREM OutputIsWholeHolds == CSpec => []OutputIsWhole
<1>1. CInv => OutputIsWhole
  BY DEF CInv, ReadOK, Clean, OutputIsWhole
<1>q. QED BY <1>1, CaptureInvariant, PTL

(* The directory is removed when nothing in it is held open. *)
THEOREM DirectoryGoesLastHolds == CSpec => DirectoryGoesLast
<1>1. CInv /\ [CNext]_all =>
        [ "directory" \in open /\ "directory" \notin open' => open = {"directory"} ]_all
  <2> SUFFICES ASSUME CInv, CNext, "directory" \in open, "directory" \notin open'
               PROVE  open = {"directory"}
    OBVIOUS
  <2>1. release
    BY DEF CNext, capture_with_backend, capture_directory, capture_files, clone_files, Stages,
           timeout_error, execute, executed, validate_capture_length, rewind, read_to_end,
           captured_output, Write, capture
  <2>2. phase = "drop directory"
    BY <2>1 DEF release, Drop, File
  <2>q. QED BY <2>2 DEF CInv, Holding
<1>q. QED BY <1>1, CaptureInvariant, PTL DEF CSpec, DirectoryGoesLast

(* Within a capture, too, the runner's report is true, its verdict is the
   child's, its kill stays in the family and nothing runs outside the job. *)
THEOREM RunnerWithinCapture ==
    CSpec => [](SuccessIsClean /\ LeftoverIsReported /\ NoForeignKill
                /\ VerdictIsTheChilds /\ ContainedBeforeRunning)
<1>1. CInv => SuccessIsClean /\ LeftoverIsReported /\ NoForeignKill
              /\ VerdictIsTheChilds /\ ContainedBeforeRunning
  BY IInvProperties DEF CInv, IInv
<1>q. QED BY <1>1, CaptureInvariant, PTL
=============================================================================
