--------------------------- MODULE ProcessRunner ---------------------------
(***************************************************************************)
(* fs2-dev's process runner (src/tools/fs2-dev/src/process.rs, execute_with*)
(* and what it calls, and process/containment.rs): one child command, the  *)
(* descendants it forks, the containment that is to take them down with it *)
(* and the runner that watches the child, kills, reaps and reports.        *)
(*                                                                         *)
(* On Unix the containment is a process group whose id is the child's pid: *)
(* a member may leave it (setsid, setpgid), it exists as long as a member  *)
(* runs or is an unreaped zombie, and once it is gone and the child reaped *)
(* the kernel may give the id to somebody else's group.  On Windows it is  *)
(* a job object: the child is created suspended, assigned, then resumed,   *)
(* nobody leaves, and closing the job kills what is left in it.            *)
(*                                                                         *)
(* Time is counted in polls: elapsed is the number of sleeps of the        *)
(* current waiting loop, Timeout and Grace the sleeps its deadline allows. *)
(***************************************************************************)
EXTENDS Naturals

CONSTANTS
    Platform,       \* "unix" or "windows"
    Child,          \* the direct child
    Descendant,     \* processes the child and its descendants may fork
    Timeout,        \* the command's timeout
    Grace           \* TERMINATION_REAP_TIMEOUT

ASSUME ConstantsAssumption ==
    /\ Platform \in {"unix", "windows"}
    /\ Child \notin Descendant
    /\ Timeout \in Nat /\ Grace \in Nat

VARIABLES
    stage,          \* where the runner is in execute_with
    elapsed,        \* sleeps of the waiting loop it is in
    attached,       \* the containment holds the child (group id, or job)
    cause,          \* what ended the observation
    status,         \* the exit status the runner obtained, or "none"
    errors,         \* a cleanup or verification error was collected
    outcome,        \* the kind of ProcessOutcome returned
    state,          \* state[p]: what process p is
    escaped,        \* processes that left the process group
    exit,           \* how the child ended
    killed,         \* history: the runner killed the child while it ran
    reused,         \* the group id now names a group of somebody else
    foreignHit      \* history: the runner sent SIGKILL to that group

runner  == <<stage, elapsed, attached, cause, status, errors, outcome>>
world   == <<state, escaped, exit, killed, reused, foreignHit>>
vars    == <<runner, world>>

Process == {Child} \cup Descendant
Exit    == {"zero", "nonzero", "signal"}
State   == {"unborn", "suspended", "running", "dying", "zombie", "gone"}
Stage   == {"configure", "spawn", "attach", "resume", "observe", "complete", "reap",
            "terminate", "kill", "wait", "kill again", "wait again", "verify", "done"}
Cause   == {"none", "exited", "timed_out", "containment_failed", "runner_failed"}
Outcome == Cause \cup {"spawn_failed", "terminated"}

(* The processes the containment still holds.                              *)
Held ==
    IF Platform = "unix"
    THEN {p \in Process \ escaped : state[p] \in {"running", "dying", "zombie"}}
    ELSE {p \in Process : attached /\ state[p] \in {"suspended", "running", "dying"}}

succeeded == outcome = "exited" /\ status = "zero"

Init ==
    /\ stage = "configure" /\ elapsed = 0 /\ attached = FALSE
    /\ cause = "none" /\ status = "none" /\ errors = FALSE /\ outcome = "none"
    /\ state = [p \in Process |-> "unborn"]
    /\ escaped = {} /\ exit = "none"
    /\ killed = FALSE /\ reused = FALSE /\ foreignHit = FALSE

-----------------------------------------------------------------------------
(***************************************************************************)
(* The processes.                                                          *)
(***************************************************************************)
Fork(p, d) ==
    /\ state[p] = "running" /\ state[d] = "unborn"
    /\ state' = [state EXCEPT ![d] = "running"]
    /\ escaped' = IF p \in escaped THEN escaped \cup {d} ELSE escaped
    /\ UNCHANGED <<runner, exit, killed, reused, foreignHit>>

Leave(p) ==
    /\ Platform = "unix" /\ state[p] = "running"
    /\ escaped' = escaped \cup {p}
    /\ UNCHANGED <<runner, state, exit, killed, reused, foreignHit>>

(* An ended process stays a zombie until its parent reaps it; on Windows   *)
(* only the child's end matters further, to the handle the runner holds.   *)
End(p, e) ==
    /\ state' = [state EXCEPT ![p] =
                    IF Platform = "unix" \/ p = Child THEN "zombie" ELSE "gone"]
    /\ exit' = IF p = Child THEN e ELSE exit
    /\ UNCHANGED <<runner, escaped, killed, reused, foreignHit>>

Finish(p) ==
    /\ state[p] = "running"
    /\ \E e \in IF Platform = "unix" THEN Exit ELSE Exit \ {"signal"} : End(p, e)

(* A killed process dies some time after the signal.  TerminateJobObject   *)
(* makes 1 the exit code.                                                  *)
Die(p) ==
    state[p] = "dying" /\ End(p, IF Platform = "unix" THEN "signal" ELSE "nonzero")

(* A descendant's parent, or the subreaper it was left to, collects it.    *)
Collect(d) ==
    /\ state[d] = "zombie"
    /\ state' = [state EXCEPT ![d] = "gone"]
    /\ UNCHANGED <<runner, escaped, exit, killed, reused, foreignHit>>

(* The kernel hands the group id out again.                                *)
ReuseGroupId ==
    /\ Platform = "unix" /\ state[Child] = "gone" /\ Held = {} /\ ~reused
    /\ reused' = TRUE
    /\ UNCHANGED <<runner, state, escaped, exit, killed, foreignHit>>

World ==
    \/ \E p \in Process, d \in Descendant : Fork(p, d)
    \/ \E p \in Process : Leave(p) \/ Finish(p) \/ Die(p)
    \/ \E d \in Descendant : Collect(d)
    \/ ReuseGroupId

-----------------------------------------------------------------------------
(***************************************************************************)
(* Signals.                                                                *)
(***************************************************************************)
Kill(S) ==
    /\ state' = [p \in Process |->
                    IF p \in S /\ state[p] \in {"suspended", "running"}
                    THEN "dying" ELSE state[p]]
    /\ killed' = (killed \/ (Child \in S /\ state[Child] \in {"suspended", "running"}))

(* Child::kill: a reaped child is left alone.                              *)
KillChild(ok) ==
    /\ Kill(IF ok THEN {Child} ELSE {})
    /\ UNCHANGED foreignHit

(* ProcessContainment::terminate.  kill(-group) reaches the members it has *)
(* permission to signal and fails when there are members but none such; an *)
(* absent group counts as success.  Before attach there is only the child. *)
Terminate(ok) ==
    IF Platform = "windows"
    THEN Kill(IF ok THEN Held ELSE {}) /\ UNCHANGED foreignHit
    ELSE IF ~attached
    THEN KillChild(ok)
    ELSE \E S \in SUBSET Held :
            /\ ok = (S # {} \/ Held = {})
            /\ Kill(S)
            /\ foreignHit' = (foreignHit \/ reused)

-----------------------------------------------------------------------------
(***************************************************************************)
(* The runner.                                                             *)
(***************************************************************************)
Goto(s) == stage' = s /\ elapsed' = 0

(* execute_with returns; dropping the containment closes the job, which    *)
(* kills whatever it still holds.                                          *)
Return(kind) ==
    /\ Goto("done")
    /\ outcome' = kind
    /\ Kill(IF Platform = "windows" THEN Held ELSE {})
    /\ UNCHANGED <<escaped, exit, reused, foreignHit>>

configure ==
    /\ stage = "configure"
    /\ \/ Goto("spawn") /\ UNCHANGED <<outcome, world>>
       \/ Platform = "windows" /\ Return("containment_failed")
    /\ UNCHANGED <<attached, cause, status, errors>>

(* Mutant: the child is not created suspended.                             *)
spawn_running ==
    /\ stage = "spawn"
    /\ Goto("attach")
    /\ state' = [state EXCEPT ![Child] = "running"]
    /\ UNCHANGED <<outcome, escaped, exit, killed, reused, foreignHit>>
    /\ UNCHANGED <<attached, cause, status, errors>>

spawn ==
    /\ stage = "spawn"
    /\ \/ /\ Goto("attach")
          /\ state' = [state EXCEPT ![Child] =
                          IF Platform = "windows" THEN "suspended" ELSE "running"]
          /\ UNCHANGED <<outcome, escaped, exit, killed, reused, foreignHit>>
       \/ Return("spawn_failed")
    /\ UNCHANGED <<attached, cause, status, errors>>

Cleanup(c) == Goto("terminate") /\ cause' = c

(* Unix: the pid becomes the group id, if it fits one.  Windows: the       *)
(* suspended child is assigned to the job, then its thread is resumed.     *)
attach ==
    /\ stage = "attach"
    /\ \/ /\ attached' = TRUE /\ UNCHANGED cause
          /\ Goto(IF Platform = "windows" THEN "resume" ELSE "observe")
       \/ Cleanup("containment_failed") /\ UNCHANGED attached
    /\ UNCHANGED <<status, errors, outcome, world>>

resume_process ==
    /\ stage = "resume"
    /\ \/ /\ Goto("observe") /\ UNCHANGED cause
          /\ state' = [state EXCEPT ![Child] = "running"]
       \/ Cleanup("containment_failed") /\ UNCHANGED state
    /\ UNCHANGED <<attached, status, errors, outcome,
                   escaped, exit, killed, reused, foreignHit>>

(* Mutant: the wait that sees the exit reaps the child (no WNOWAIT).       *)
observe_reaping ==
    /\ stage = "observe"
    /\ \/ /\ state[Child] = "zombie"
          /\ Goto("complete") /\ cause' = "exited"
          /\ status' = exit /\ state' = [state EXCEPT ![Child] = "gone"]
       \/ /\ state[Child] # "zombie" /\ elapsed < Timeout
          /\ elapsed' = elapsed + 1
          /\ UNCHANGED <<stage, cause, status, state>>
       \/ /\ state[Child] # "zombie" /\ elapsed >= Timeout
          /\ Cleanup("timed_out") /\ UNCHANGED <<status, state>>
    /\ UNCHANGED <<attached, errors, outcome, escaped, exit, killed, reused, foreignHit>>

(* Mutant: every poll sets a new deadline.                                 *)
observe_resettingDeadline ==
    /\ stage = "observe"
    /\ \/ /\ state[Child] = "zombie"
          /\ Goto("complete") /\ cause' = "exited"
          /\ IF Platform = "windows"
             THEN status' = exit /\ state' = [state EXCEPT ![Child] = "gone"]
             ELSE UNCHANGED <<status, state>>
       \/ /\ state[Child] # "zombie"
          /\ elapsed' = IF elapsed = 0 THEN 1 ELSE 0
          /\ UNCHANGED <<stage, cause, status, state>>
    /\ UNCHANGED <<attached, errors, outcome, escaped, exit, killed, reused, foreignHit>>

(* observe_child_exit: an ended child is seen before the deadline is       *)
(* looked at.  Unix leaves the zombie (WNOWAIT), Windows takes its status. *)
observe ==
    /\ stage = "observe"
    /\ \/ /\ state[Child] = "zombie"
          /\ Goto("complete") /\ cause' = "exited"
          /\ IF Platform = "windows"
             THEN status' = exit /\ state' = [state EXCEPT ![Child] = "gone"]
             ELSE UNCHANGED <<status, state>>
       \/ /\ state[Child] # "zombie" /\ elapsed < Timeout
          /\ elapsed' = elapsed + 1
          /\ UNCHANGED <<stage, cause, status, state>>
       \/ /\ state[Child] # "zombie" /\ elapsed >= Timeout
          /\ Cleanup("timed_out") /\ UNCHANGED <<status, state>>
       \/ Cleanup("runner_failed") /\ UNCHANGED <<status, state>>
    /\ UNCHANGED <<attached, errors, outcome, escaped, exit, killed, reused, foreignHit>>

(* complete_observed_exit: kill the containment, and only then reap.  The  *)
(* termination's own error counts for nothing if verification succeeds.    *)
complete_observed_exit ==
    /\ stage = "complete"
    /\ \E ok \in BOOLEAN : Terminate(ok)
    /\ Goto(IF Platform = "unix" THEN "reap" ELSE "verify")
    /\ UNCHANGED <<attached, cause, status, errors, outcome, escaped, exit, reused>>

TakeStatus ==
    /\ state[Child] = "zombie"
    /\ state' = [state EXCEPT ![Child] = "gone"]
    /\ status' = exit

reap_observed_child ==
    /\ stage = "reap"
    /\ \/ TakeStatus /\ UNCHANGED errors
       \/ errors' = TRUE /\ UNCHANGED <<state, status>>
    /\ Goto("verify")
    /\ UNCHANGED <<attached, cause, outcome, escaped, exit, killed, reused, foreignHit>>

(* reap_terminated_child: kill the containment, or failing that the child; *)
(* wait; if the child is still there kill it directly and wait once more.  *)
terminate ==
    /\ stage = "terminate"
    /\ \E ok \in BOOLEAN :
          /\ Terminate(ok)
          /\ errors' = (errors \/ ~ok)
          /\ Goto(IF ok THEN "wait" ELSE "kill")
    /\ UNCHANGED <<attached, cause, status, outcome, escaped, exit, reused>>

kill ==
    /\ stage \in {"kill", "kill again"}
    /\ \E ok \in BOOLEAN : KillChild(ok) /\ errors' = (errors \/ ~ok)
    /\ Goto(IF stage = "kill" THEN "wait" ELSE "wait again")
    /\ UNCHANGED <<attached, cause, status, outcome, escaped, exit, reused>>

wait ==
    /\ stage \in {"wait", "wait again"}
    /\ \/ TakeStatus /\ Goto("verify") /\ UNCHANGED errors
       \/ /\ state[Child] # "zombie" /\ elapsed < Grace
          /\ elapsed' = elapsed + 1 /\ UNCHANGED <<stage, errors, state, status>>
       \/ /\ state[Child] # "zombie" /\ elapsed >= Grace
          /\ IF stage = "wait"
             THEN Goto("kill again") /\ UNCHANGED errors
             ELSE Goto("verify") /\ errors' = TRUE
          /\ UNCHANGED <<state, status>>
       \/ errors' = TRUE /\ Goto("verify") /\ UNCHANGED <<state, status>>
    /\ UNCHANGED <<attached, cause, outcome, escaped, exit, killed, reused, foreignHit>>

(* Mutant: the exit status is passed on as it is.                          *)
finished_execution_raw(failed) == status

(* Mutant: clean-up errors do not make the execution a failure.            *)
finished_execution_lenient(failed) ==
    IF status = "none" THEN "containment_failed"
    ELSE IF status = "signal" THEN "terminated" ELSE "exited"

(* The outcome: finished_execution after an observed exit, otherwise what  *)
(* ended the observation.                                                  *)
finished_execution(failed) ==
    IF status = "none" \/ failed THEN "containment_failed"
    ELSE IF status = "signal" THEN "terminated" ELSE "exited"

(* Mutant: a status that was obtained outweighs a timeout.                 *)
Report_statusFirst(failed) ==
    /\ errors' = (errors \/ failed)
    /\ Return(IF status # "none" THEN finished_execution(errors') ELSE cause)

Report(failed) ==
    /\ errors' = (errors \/ failed)
    /\ Return(IF cause = "exited" THEN finished_execution(errors') ELSE cause)

(* Mutant: only the child is looked for.                                   *)
Drained_childOnly == state[Child] = "gone"

(* wait_for_process_group_exit and wait_for_exit: nothing is left, or the  *)
(* probe fails, or the grace period ends.  A job that never held anybody   *)
(* may or may not be signalled; a pid that is no group id cannot be probed.*)
Drained ==
    IF Platform = "unix" THEN attached /\ Held = {} /\ ~reused ELSE Held = {}

verify ==
    /\ stage = "verify"
    /\ \/ Drained /\ Report(FALSE)
       \/ /\ ~Drained \/ ~attached
          /\ elapsed < Grace /\ (Platform = "unix" => attached)
          /\ elapsed' = elapsed + 1
          /\ UNCHANGED <<stage, errors, outcome, world>>
       \/ /\ ~Drained \/ ~attached
          /\ elapsed >= Grace
          /\ Report(TRUE)
       \/ Report(TRUE)
    /\ UNCHANGED <<attached, cause, status>>

Runner ==
    \/ configure \/ spawn \/ attach \/ resume_process \/ observe
    \/ complete_observed_exit \/ reap_observed_child
    \/ terminate \/ kill \/ wait \/ verify

Next == Runner \/ World

(***************************************************************************)
(* The runner's thread keeps running; nothing is assumed of the processes. *)
(***************************************************************************)
Spec == Init /\ [][Next]_vars /\ WF_vars(Runner)

-----------------------------------------------------------------------------
TypeOK ==
    /\ stage \in Stage /\ elapsed \in Nat /\ attached \in BOOLEAN
    /\ cause \in Cause /\ status \in Exit \cup {"none"}
    /\ errors \in BOOLEAN /\ outcome \in Outcome
    /\ state \in [Process -> State] /\ escaped \subseteq Process
    /\ exit \in Exit \cup {"none"}
    /\ killed \in BOOLEAN /\ reused \in BOOLEAN /\ foreignHit \in BOOLEAN

(***************************************************************************)
(* A command is reported successful only when it ended with code 0 by      *)
(* itself, is reaped, and nothing it left in its containment lives on.     *)
(***************************************************************************)
SuccessIsClean ==
    stage = "done" /\ succeeded =>
        /\ exit = "zero" /\ ~killed
        /\ state[Child] = "gone" /\ Held = {}

(***************************************************************************)
(* Whatever the outcome, an unreaped child or a live member of the         *)
(* containment at return is reported as a cleanup error.                   *)
(***************************************************************************)
LeftoverIsReported ==
    stage = "done" /\ (state[Child] \notin {"unborn", "gone"} \/ Held # {}) => errors

(***************************************************************************)
(* The SIGKILL meant for the group never reaches a group that got its id   *)
(* later: the child is reaped only after it (comment at process.rs:648).   *)
(***************************************************************************)
NoForeignKill == ~foreignHit

(***************************************************************************)
(* A status reported as the child's verdict is the child's own, never the  *)
(* effect of the runner's kill, which Windows shows as exit code 1.        *)
(***************************************************************************)
VerdictIsTheChilds ==
    stage = "done" /\ outcome \in {"exited", "terminated"} => ~killed

(***************************************************************************)
(* The child runs nothing before the containment holds it (comment at      *)
(* containment.rs:95), so on Windows every descendant is in the job.       *)
(***************************************************************************)
ContainedBeforeRunning ==
    Platform = "windows" =>
        \/ attached
        \/ /\ state[Child] \in {"unborn", "suspended", "dying", "zombie", "gone"}
           /\ \A d \in Descendant : state[d] = "unborn"
=============================================================================
