------------------------------ MODULE Capture ------------------------------
(***************************************************************************)
(* capture_with_backend of fs2-dev's process runner: run a command with    *)
(* its output going to two temporary files in a private directory, then    *)
(* check their lengths, read them back and return the output.              *)
(*                                                                         *)
(* The children write to the files until they end; a process that escaped  *)
(* the containment, or that could not be killed, writes on while the       *)
(* runner reads, for ever if it likes.  MaxLength bounds the counts, not   *)
(* the writing: length and bytes count the last MaxLength blocks of a file,*)
(* and their difference, the blocks not yet read, is exact.                *)
(***************************************************************************)
EXTENDS ProcessRunner

CONSTANTS
    Limit,          \* MAX_CAPTURED_STREAM_BYTES, in blocks
    MaxLength       \* bound on the blocks of a file that are counted

ASSUME LimitAssumption == Limit \in Nat /\ MaxLength \in Nat /\ Limit < MaxLength

VARIABLES
    phase,          \* the next stage of capture_with_backend
    open,           \* what the call still holds open
    length,         \* length[f]: the length of file f
    bytes,          \* bytes[f]: how much of it was read back
    captured        \* "none", "ok" (an Output), or "error"

capture == <<phase, open, length, bytes, captured>>
all     == <<vars, capture>>

File     == {"stdout", "stderr"}
Resource == {"guard", "directory", "stdout", "stderr", "command stdout", "command stderr"}
Phase    == {"directory", "harden", "stdout file", "stderr file", "clone stdout",
             "clone stderr", "execute", "validate stdout", "validate stderr",
             "rewind", "read stdout", "read stderr", "output", "release",
             "drop files", "drop guard", "drop directory", "returned"}

NothingRead == [f \in File |-> 0]

CInit ==
    /\ Init
    /\ phase = "directory" /\ open = {}
    /\ length = [f \in File |-> 0] /\ bytes = NothingRead
    /\ captured = "none"

(* A fallible stage: it goes on to the next, or the error ends the call by *)
(* way of the clean-up at "exit".                                          *)
Stages(from, to, onError, acquired) ==
    /\ phase = from
    /\ \/ /\ phase' = to
          /\ open' = open \cup acquired
          /\ UNCHANGED captured
       \/ /\ phase' = onError
          /\ captured' = "error"
          /\ UNCHANGED open
    /\ UNCHANGED <<vars, length, bytes>>

-----------------------------------------------------------------------------
(* capture_directory: on Windows a trusted root whose ancestry is held by  *)
(* guard handles, and a fresh directory in it that is hardened before use. *)
capture_directory ==
    IF Platform = "windows"
    THEN \/ Stages("directory", "harden", "drop guard", {"guard", "directory"})
         \/ Stages("harden", "stdout file", "drop guard", {})
    ELSE Stages("directory", "stdout file", "drop guard", {"directory"})

capture_files ==
    \/ Stages("stdout file", "stderr file", "drop guard", {"stdout"})
    \/ Stages("stderr file", "clone stdout", "drop files", {"stderr"})

(* The command is given its copies only when both clones succeeded.        *)
clone_files ==
    \/ Stages("clone stdout", "clone stderr", "release", {})
    \/ Stages("clone stderr", "execute", "release", {"command stdout", "command stderr"})

(* timeout()? comes before execute.                                        *)
timeout_error ==
    /\ phase = "execute" /\ stage = "configure"
    /\ phase' = "release" /\ captured' = "error"
    /\ UNCHANGED <<vars, open, length, bytes>>

execute == phase = "execute" /\ Runner /\ UNCHANGED capture

executed ==
    /\ phase = "execute" /\ stage = "done"
    /\ phase' = "validate stdout"
    /\ UNCHANGED <<vars, open, length, bytes, captured>>

(* Lengths are checked whatever the outcome of the command was.  A file    *)
(* that is too long is an error, as is one without metadata.               *)
validate_capture_length(f, to) ==
    /\ phase = (IF f = "stdout" THEN "validate stdout" ELSE "validate stderr")
    /\ \/ length[f] <= Limit /\ phase' = to /\ UNCHANGED captured
       \/ phase' = "release" /\ captured' = "error"
    /\ UNCHANGED <<vars, open, length, bytes>>

rewind == Stages("rewind", "read stdout", "release", {})

(* One read(2) after the other takes some of what has been written and not *)
(* been read; only a read that finds nothing ends it, or one that fails,   *)
(* and then what was read is dropped.                                      *)
read_to_end(f, to) ==
    /\ phase = (IF f = "stdout" THEN "read stdout" ELSE "read stderr")
    /\ \/ /\ \E n \in bytes[f] + 1 .. length[f] : bytes' = [bytes EXCEPT ![f] = n]
          /\ UNCHANGED <<phase, captured>>
       \/ bytes[f] = length[f] /\ phase' = to /\ UNCHANGED <<bytes, captured>>
       \/ phase' = "release" /\ captured' = "error" /\ bytes' = NothingRead
    /\ UNCHANGED <<vars, open, length>>

(* Mutant: the outcome is passed on as it is.                              *)
captured_output_raw ==
    /\ phase = "output"
    /\ phase' = "release"
    /\ captured' = outcome
    /\ UNCHANGED <<vars, open, length, bytes>>

captured_output ==
    /\ phase = "output"
    /\ phase' = "release"
    /\ captured' = IF succeeded THEN "ok" ELSE "error"
    /\ bytes' = IF succeeded THEN bytes ELSE NothingRead
    /\ UNCHANGED <<vars, open, length>>

(* command.stdout(null).stderr(null), then the locals drop in reverse      *)
(* order: the files, the authority handles, the directory.                 *)
Drop(from, to, dropped) ==
    /\ phase = from
    /\ phase' = to
    /\ open' = open \ dropped
    /\ UNCHANGED <<vars, length, bytes, captured>>

(* Mutant: the Command keeps its copies of the files.                      *)
release_keepingCommand ==
    \/ Drop("release", "drop files", {})
    \/ Drop("drop files", "drop guard", File)
    \/ Drop("drop guard", "drop directory", {"guard"})
    \/ Drop("drop directory", "returned", {"directory"})

release ==
    \/ Drop("release", "drop files", {"command stdout", "command stderr"})
    \/ Drop("drop files", "drop guard", File)
    \/ Drop("drop guard", "drop directory", {"guard"})
    \/ Drop("drop directory", "returned", {"directory"})

(* A process that is not dead yet appends to a file.  Beyond MaxLength the *)
(* oldest block that was read drops out of the counts; a killed process,   *)
(* which only ends the calls it is in, does not get that far.              *)
Write(p, f) ==
    /\ \/ /\ state[p] \in {"running", "dying"} /\ length[f] < MaxLength
          /\ length' = [length EXCEPT ![f] = @ + 1] /\ UNCHANGED bytes
       \/ /\ state[p] = "running" /\ length[f] = MaxLength /\ bytes[f] > 0
          /\ bytes' = [bytes EXCEPT ![f] = @ - 1] /\ UNCHANGED length
    /\ UNCHANGED <<vars, phase, open, captured>>

capture_with_backend ==
    \/ capture_directory \/ capture_files \/ clone_files
    \/ timeout_error \/ execute \/ executed
    \/ validate_capture_length("stdout", "validate stderr")
    \/ validate_capture_length("stderr", "rewind")
    \/ rewind
    \/ read_to_end("stdout", "read stderr")
    \/ read_to_end("stderr", "output")
    \/ captured_output \/ release

CNext ==
    \/ capture_with_backend
    \/ World /\ UNCHANGED capture
    \/ \E p \in Process, f \in File : Write(p, f)

CSpec == CInit /\ [][CNext]_all /\ WF_all(capture_with_backend)

-----------------------------------------------------------------------------
CTypeOK ==
    /\ phase \in Phase /\ open \subseteq Resource
    /\ length \in [File -> 0 .. MaxLength] /\ bytes \in [File -> 0 .. MaxLength]
    /\ captured \in {"none", "ok", "error"}

(***************************************************************************)
(* An Output is the whole output and within the limit: nothing the         *)
(* containment held is added to a file after it was measured and read.     *)
(***************************************************************************)
OutputIsWhole ==
    captured = "ok" /\ escaped = {} =>
        bytes = length /\ \A f \in File : length[f] <= Limit

(***************************************************************************)
(* When the directory is removed nothing in it is held open any more: not  *)
(* the files, not the copies a Command keeps after spawn, not the guards   *)
(* (comments at process.rs:112 and 241).                                   *)
(***************************************************************************)
DirectoryGoesLast ==
    [][ "directory" \in open /\ "directory" \notin open' => open = {"directory"} ]_all

(***************************************************************************)
(* capture returns and holds nothing then, however the processes behave,   *)
(* with one exception, on Unix: read_to_end has no limit of its own, and a *)
(* process that left the group, or outlived a kill that was reported as    *)
(* failed, may keep ahead of it.  SECURITY.md:131-132 accepts such escapes.*)
(***************************************************************************)
OutrunsReading ==
    /\ Platform = "unix" /\ phase \in {"read stdout", "read stderr"}
    /\ \E p \in Process : state[p] = "running" /\ (p \in escaped \/ errors)

CaptureReturns ==
    <>(phase = "returned" /\ open = {}) \/ <>[]OutrunsReading
=============================================================================
