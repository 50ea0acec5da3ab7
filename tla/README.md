# A verification project for fs2-turbo

fs2-turbo is a Rust library of cross-platform file operations (whole-file
advisory locks, physical allocation, file system statistics) together with
`fs2-dev`, the tool the project is built and released with. This directory holds
TLA+ models of both, the configurations TLC checks them with, and proofs that
TLAPS checks. Paths below are relative to the repository; `PROJECT.json` maps
every definition to the lines it stands for.

    tlc -workers 2 -config Allocation.cfg Allocation      # one run
    tlapm UnixLockProofs.tla                              # one proof module

## 1. The system

### The library (`src/`)

| Part | State it keeps | Operations | What is hard about it |
|---|---|---|---|
| Lock methods of `FileExt` (`lib.rs`) on Unix (`unix/lock.rs`, `unix/file.rs`) | none of its own: the lock belongs to the open file description in the kernel | `lock_shared`, `lock_exclusive`, `try_*`, `unlock`, `duplicate` | duplicates and children share a lock; changing the mode of a held lock is not atomic; a signal ends a wait |
| The same on Windows (`windows/lock.rs`, `windows/overlapped.rs`, `windows/file.rs`) | an event and an `OVERLAPPED` per pending request; the locks belong to the file object | the same, `LockFile` first and `LockFileEx` behind it | locks are layered, each needs its own unlock; a handle can wait for itself; the event must outlive the request |
| The same on Solaris (`unix/solaris.rs`) | records of the process | the same through `fcntl` | handles of one process do not exclude each other, and closing one drops the records of all |
| `allocate` (`allocation.rs`, `unix/allocation*`, `windows/allocation.rs`) | none; snapshots of length and allocated size | query, reserve, extend the length; on sparse Windows files: query ranges, clear the attribute, set it again | time between the snapshot and the exact `set_len`; block counts do not say which blocks; several native steps that may fail one by one |
| Statistics (`stats.rs`, `stats/`, `unix/stats.rs`, `windows/stats/`) | a prepared query keeps a resolved path | `statvfs`, `free_space`, `FsStatsQuery` | products of counters that overflow; two native calls that see two states of a volume; fallback between providers |
| Path buffers (`unix/path.rs`, `windows/path.rs`) | a buffer | inline or heap C strings, a volume path that grows | limits and off-by-one at the buffer's end |

### The tool (`tools/fs2-dev/src/`)

| Part | State it keeps | Operations | What is hard about it |
|---|---|---|---|
| Process runner (`process.rs`, `process/containment.rs`) | a child, a process group or job, the deadline, the errors collected so far | configure, spawn, attach, observe, complete or terminate, reap, verify, report | the child may end at any time, descendants may outlive it or leave the group, a group id may be reused, kills may fail, waits must end |
| Output capture (`process.rs`) | a private directory, two files, their copies in the `Command` | create, clone, run, check lengths, read, release | a length is checked before the read; handles must go before the directory, on every path |
| Capture security (`process/windows_security.rs`) | handles that hold a directory's ancestry | open, check, create, harden | check and use of every path component, drive letters that hide parents or lead through reparse points, directories made by others |
| Coverage gate (`coverage.rs`, `coverage/source_locations.rs`) | the diagnostics report | read three exports and an LCOV report, group definitions, check the target's policy, write the report | inputs that still grow, three profiles that vouch for each other, reviewed gaps that go stale |
| Support matrix (`matrix.rs`) | lines appended to the output | validate the registry, audit every workflow, generate the matrices | two files that must agree by name, reading shell without a shell |
| Compatibility check (`compatibility.rs`) | none | check consumer, lock file, metadata; build and run both subjects in every edition | what is linked follows from several checked things together |
| Command line (`main.rs`) | none | dispatch, exit code | - |
| Workflow scripts (`.github/scripts`) | none | - | - |

The library's parts do not call each other: the lock methods and `allocate` only
meet at the file, and `allocate` asks its caller to own the file's length, which
locks can provide. In the tool, `matrix`, `coverage` and `compatibility` start
every command through `run` or `capture`; `capture` drives the runner and shares
two files with the child's processes.

### What correct means

* Locks: an exclusive owner is alone; a lock lives as long as something refers to
  it; a result tells the truth; nobody waits for ever when holders let go.
* Statistics: every figure is the volume's, all of a snapshot's belong to one
  moment, no product wraps, contradictory counters are refused.
* Allocation: after `Ok` every block of the prefix is backed; no call cuts the
  file; attributes changed on the way are changed back.
* Runner: success means the child ended well by itself and left nothing behind;
  what is left is reported; nobody else is killed; its waits end.
* Capture: an `Output` is the whole output; resources go in order; the call
  returns and all of them go, unless a process that left the containment writes
  faster than it is read.
* Capture security: the path that was retained goes on naming the same
  directories, and only the user and SYSTEM reach the two that hold the evidence.
* Coverage gate: it judges whole inputs; what a pass promises was executed; the
  report is true.
* Matrix: each piece of evidence the registry declares is produced by a job; no
  command the audit looks at runs cargo without its lock file.
* Compatibility: a success compared the release with this checkout, and nothing
  else, in every edition.

`PROJECT.json` lists the hazards, each at its line with the properties aimed at it.

## 2. The modules

| Module | Models | Composes |
|---|---|---|
| `FileLock` | what the trait promises of locks, for any notion of owner: abstract specification | - |
| `UnixLock`, `MCUnixLock` | `flock`, descriptors, duplicates, inheritance, death | implements `FileLock` |
| `UnixLockProofs` | proofs about `UnixLock` | extends `UnixLock` |
| `WindowsLock`, `MCWindowsLock` | `LockFile`, `LockFileEx`, `UnlockFile`, the overlapped event | implements `FileLock` |
| `WindowsLockProofs` | proofs about `WindowsLock` and the calls `MCWindowsLock` counts | extends `MCWindowsLock` |
| `Allocation` | `allocate` on Linux and its like, Apple systems, Windows, and targets without a primitive | - |
| `AllocationProofs` | proofs about `Allocation` | extends `Allocation` |
| `FsStats` | every statistics query: `statvfs`, the four single figures, `FsStatsQuery` | - |
| `FsStatsProofs` | proofs about `FsStats` | extends `FsStats` |
| `ProcessRunner` | `execute_with` and the processes it contains | - |
| `Capture` | `capture_with_backend` | extends `ProcessRunner`, whose steps are its `execute` |
| `CaptureProofs` | proofs about `ProcessRunner` and `Capture` | extends `Capture` |
| `SolarisLock`, `MCSolarisLock` | the lock methods over `fcntl` records | implements `FileLock` |
| `SolarisLockProofs` | proofs about `SolarisLock` | extends `SolarisLock` |
| `CaptureRoot`, `MCCaptureRoot` | `capture_root_from`, `capture_directory` and `windows_security.rs`, beside another user | details what `Capture` takes as one step; not composed with it |
| `CaptureRootProofs` | proofs about `CaptureRoot` | extends `CaptureRoot` |
| `CoverageGate`, `MCCoverageGate` | the coverage gate and the writers of its inputs | - |
| `SupportMatrix`, `MCSupportMatrix` | `fs2-dev matrix` | - |
| `Compatibility`, `MCCompatibility` | `fs2-dev compatibility` | - |
| `DevTool`, `MCDevTool` | the command line: which gate runs, and the exit code | extends `SupportMatrix`, `CoverageGate` and `Compatibility` |
| `DevToolProofs` | proofs about the three gates and their composition | extends `DevTool` |

### UnixLock

`fd` is the descriptor table of every process, `lock` the kernel's lock of every
open file description. `duplicate` is `unix/file.rs`: `dup` without
close-on-exec, hence `inheritable` and `Inherit`. A lock method is `flock` with
its arguments recorded in `request`; the kernel serves it in steps: `Replace`
(the mode is already held, or the old lock is removed), then `Grant`, `Fail`
(`EWOULDBLOCK` under `LOCK_NB`, which is what callers compare with `lock_error()`),
or `Wait`, which ends in `Grant` or `Interrupt`. `Error` is every other errno that
`last_os_error` may pass on (`ENOLCK` and the like, one class): it comes before the
old lock is removed or after it, so it says nothing about what is held, and
`UnlockError` leaves the lock where it is. That `Replace` and
`Grant` are two steps is what makes conversions dangerous. `Close` and `Exit`
drop the lock of a description only with its last descriptor, and `Exit` may
happen in the middle of a call. A process stands for one thread and its table;
a `File` borrowed by a call cannot be dropped, so `Close` needs an idle process.
`Disciplined` states the documented rules for portable use (one `File` per
locker, no duplicates). Under them `ResultTellsLock` says what each result means
for the lock that is held, and `OkExcludes` that nobody has an `Ok` beside an
exclusive one. What the kernel does (`Conflict`, `Grant`, `Replace`, `Surviving`) is
external code here, modelled from `flock(2)`.

### WindowsLock

`exclusive` and `shared` are the layers a file object holds, `event` the handles
whose call owns a `PrivateOverlapped`. A blocking `lock_exclusive` tries
`LockFile` and falls through to `LockFileEx` on any failure; a nonblocking one
returns. `lock_shared` goes to `LockFileEx` at once. `LockFileEx` is granted,
refused, fails, or stays pending until `GetOverlappedResult` or `Cancelled`; the code
handles `ERROR_IO_PENDING` whatever the flags, so the model lets any request pend.
Every return drops the event. Whether a duplicate may share over the exclusive
lock of its own object is left open (`MayRefuse`). The documentation does not say
which layer `UnlockFile` takes first, so `unlock` may take either.
`MCWindowsLock` adds a history variable that counts calls, for `LayersMatchCalls`.

### Allocation

A file is its length and the set of blocks with backing store. `allocate` reads
a snapshot (`allocation_state`, or `file_attributes` on Windows), reserves
(`allocate_space`) and extends (`extend_file_length`, `extend_file_length_with`:
the read and the exact `set_len` are two steps). Sparse Windows files are
extended first; then `reserve_sparse_range` asks for the ranges, clears the
attribute, sets it again and asks once more. Between all steps other handles
write, which backs blocks; others resize at any time where the primitive allows
it, otherwise only outside calls, as the trait's contract demands (`LengthOwned`).
`promised` remembers the longest prefix a successful call vouched for; cutting
the file or punching a hole gives it up. Assumptions about the file system: a
regular NTFS file has no holes; clearing the sparse attribute fills the holes
below the end or does nothing; a failed native call changes nothing. Apple's
promise is restricted, as the trait documents, to files without holes.
`platform` never changes; one run covers all of them.

### FsStats

`volume` holds the counts a native call would report now; any combination of
them, since drivers report what they like. `asked` is the set of figures the
caller wants: all four for a snapshot, one for a single query. `stage` is the
native call that comes next. On Unix there is one (`statvfs_cstr`: signs, the
fragment size or else the block size, `validate_unix_counters`, the products).
On Windows a single figure goes from `direct_space` to `handle_space` to the
volume's root; a snapshot starts at the root, of which an exact drive root needs
no `volume_path`. `modern_statvfs` is replaced by the legacy calls
(`cluster_geometry`, `byte_space`) only where it does not exist; other errors
end the query, except that a single figure asked of an exact root goes on to
`volume_path` (`space_after_exact_root`). `Place` says what the path names: an exact
root, a directory, a file, or another file (a reparse point, or one outside
the drives), which the handle query serves for free and available space and not for
the granularity. `Use` changes free and available
counts at any step of a query, and `seen` remembers the volume's counts since it
began. Products are those of words: `checked_mul` refuses, `wrapping_mul` wraps.
Assumptions: the cluster size and totals of a mounted volume do not change, the
modern provider either serves a volume or does not, `GetDiskFreeSpaceExW` fails
where its bytes would not fit a word, and statvfs fields outside Linux are
unsigned, as `libc` declares them on its common targets.

### ProcessRunner

The runner is a sequence of stages (`configure`, `spawn`, `attach`, `resume`,
`observe`, then `complete` and `reap`, or `terminate`, `kill`, `wait`,
`kill again`, `wait again`, then `verify`), each one action, every fallible call
with its failure. The processes run beside it: they fork, leave the group, end,
die some time after a kill, and are collected. On Unix the group exists while a
member runs or is a zombie; once it is gone and the child reaped, its id may be
reused, and a kill sent then would hit somebody else (`foreignHit`). A kill of
the group reaches any nonempty part of it and still succeeds, as `kill(2)` does.
On Windows the child is born suspended, the job holds it before it runs, and
dropping the containment kills what the job still holds. Time is counted in polls:
`elapsed` against `Timeout` and `Grace`.

### Capture

Each stage of `capture_with_backend` is one action with its failure path to the
right clean-up; `execute` runs the steps of `ProcessRunner`. The processes write
to the files whenever they are not dead, dying ones included, also while the runner
validates and reads. `read_to_end` takes what is there in pieces until it meets the
end, which a writer may move on as long as it lives. `MaxLength` does not stop writers:
`length` and `bytes` count the last `MaxLength` blocks of a file, and their
difference, what is still to be read, is exact. `open` lists what the call holds; `release` is the reset of the `Command`
followed by the drops in reverse order of declaration.

### SolarisLock

`record` is what a process holds of the file, whatever its threads and handles:
that is what `fcntl` gives. A lock method is `flock`, whose request the kernel
grants (`Grant` replaces the record in one step, so a conversion that waits keeps
the old one), refuses for want of access (`Refuse`), or finds in conflict
(`Contend`: `F_SETLK` fails, `F_SETLKW` sleeps unless the wait would close a
circle of waiting processes, which `ClosesCircle` states without recursion:
every set closed under waiting that holds a blocker holds the process itself).
Any other errno is `Error` or `UnlockError`, which leave the record alone.
`Close` of any handle, also one the lock was not asked through, drops the record,
and so does `Exit`, in the middle of a call too. A child inherits descriptors and
no record, which `Open` covers. `Refuse` is worth knowing: `src/lib.rs:81-82` asks
for files opened with at least read or write permissions, but `fcntl` wants the
access that fits the record, so an exclusive lock of a read-only `File` is `EBADF`
here. Owners of the abstract contract are processes.

### CaptureRoot

A path is a chain of levels from the volume root; a node is a directory that
bears the name of a level, and several nodes may compete for a name. `parent`,
`link` and `descriptor` are the volume's, the rest is the runner's: it walks
down a candidate (`Probe`, `Open`, `Verify` for each component, every one a call
with a failure of its own), looks where the root of a drive letter really is
(`FinalPath`) and admits those parents too (`retain_physical_root_ancestry`),
makes or reuses the private directory and checks it whoever made it, and makes
and hardens the temporary one. The hardening is three steps (`HardenTemporary`
opens what the path names, `SetSecurityInfo`, `VerifyTemporary`), and when it
fails or the capture ends, `Leave` drops the handles and `RemoveTemporary` removes
what the path names by then, if it can.

`FILE_FLAG_OPEN_REPARSE_POINT` concerns the last component of a path only.
`Resolve` therefore follows a reparse point inside a path and stops at one in its
last component, which `Opens` refuses. `link` says what a reparse point leads to;
`Beside` is a second directory in the volume root, so that a drive letter may name
one path and its directory lie on the other: `top` is the real path `FinalPath`
finds, by which the parents are admitted, while the components below the root are
opened by the drive letter. `Decoy` bears the name of the temporary directory once
that is known. `Retained` marks the levels that are the admitted path: all of
them, except that a drive letter which led through a reparse point gives nothing
below the directory it names. What is above that directory on the letter's own way
is neither verified nor held by the code, and whoever may change it can make the
letter name something else later. `AdmittedPathStays` says what is kept then,
and `EvidenceIsPrivate` that the two directories that hold the evidence, wherever
they are, give access to nobody else.

Between any two steps another user renames, moves in and turns into reparse points
whatever the access rules let him (`May`, with owners, missing DACLs, denials,
conditional and inherit-only entries). The rights are grouped by what they can do to
a path. Assumptions: descriptors of directories that exist do not change while the
runner works; the accounts it trusts leave the path alone; a reparse point leads to
a directory of its own level, which keeps levels apart, and a level has at most
three, so chains of links have at most two steps or go round; an open handle without
delete sharing keeps its directory from being renamed, but no other one (file
systems that refuse to rename a parent of an open directory allow less); what is
above a directory moved out of the path belongs to the other user.

### CoverageGate

`disk` holds what each input will say and how far it is written; `Grow` appends
while the gate reads. `Measure` is the open with the first length check,
`read_coverage_text` the bounded read, the second check and the parse; the calls of
either may fail by themselves. A truncated
export does not parse; a truncated LCOV report is a shorter report. `Check` is
the policy in `run`'s order: totals, malformed regions, unit instantiations,
definitions of the combined and the unit profile, ownership of the integration
profile's, and the location union of `source_locations.rs`, where a location none
of whose topologies the integration tests execute must be owned by the unit
tests, topology by topology, and be reviewed under the symbols found there.
`write_diagnostics_report` truncates the old report and may fail after that. The
numbers of the policies, the intended definitions and the reviewed gaps are
constants; lengths count lines or equal pieces, and identical entries of an
export are told apart only by being there.

### SupportMatrix

The command is a line of steps, each of which may fail: alias, metadata,
registry, one step for each workflow file in the order of names, then two
appended lines, of which a failed write may leave a part. The checks are pure operators. A
line of shell is a sequence of words, each a record of what the audit asks of it:
its text, the programs its unquoted tokens would name, whether it assigns,
expands, substitutes, is quoted, a flag, or left open. Nothing of the spelling
remains beyond that, except where `#` stands: `command_before_comment` cuts a line
at any `#` outside quotes, so a word with one inside keeps what comes before it
(`before`). A shell sees a comment only where a word begins with `#`. The line
`echo a#b && cargo test` is thus audited as `echo a` and accepted although a shell
would run cargo unlocked; `AuditedCargoIsLocked` therefore speaks of the commands up to
the first such word (`AuditedCommands`), and the case is a hazard without a property.

### Compatibility

Again a line of steps: the digest of the consumer, the lock file, the toolchain,
formatting, the metadata, the packages, their dependencies; then both subjects
are checked and every package is run with both. Which crate a run links is
`Linked`, cargo's rule, outside the code: the dependencies the feature enables
and the resolved packages they name.

### DevTool

`DevTool` extends the modules of the three gates, whose variables have nothing in
common (hence `MatrixInit`, `CoverageNext`, ... in place of `Init` and `Next`).
`command` says which gate `dispatch` runs, the other two stand still as they never
began, and `main` turns the result into the exit code. The properties are those
of the gates.

## 3. The runs

| Run | Instance | States | What it shows |
|---|---|---|---|
| `unixlock_shared` | 2 processes, 2 descriptors each, 3 descriptions, symmetric | 104,758 | `NoOrphanLock` and the refinement of `FileLock` (exclusion is part of it), with every sharing of a description by duplicating and inheriting |
| `unixlock_disciplined` | 3 processes, 1 descriptor each | 90,904 | under the rules: `ResultTellsLock`, `OkExcludes`, `HolderIsNotWaiting`, and `WaitersReturn` |
| `windowslock_layers` | 3 handles, 2 objects, symmetric | 28,768 | `LayersMatchCalls` and the refinement of `FileLock` |
| `windowslock_disciplined` | handles without duplicates, one layer | 40,021 | under the rules: `WaiterHoldsNothing`, `WaitersReturn` |
| `capture_unix` | child, 2 descendants, the last 2 blocks of each file, limit 1 | 1,333,015 | `SuccessIsClean`, `LeftoverIsReported`, `NoForeignKill`, `OutputIsWhole`, `CaptureReturns` |
| `capture_windows` | the same in a job | 60,252 | `SuccessIsClean`, `ContainedBeforeRunning`, `VerdictIsTheChilds`, `DirectoryGoesLast`, `CaptureReturns` |
| `fsstats` | words of 16 values, counts 0, 2 and 9, cluster sizes 0 to 9 | 2,031,831 | `FiguresAreExact`, `NonsenseIsRefused` |
| `allocation` | lengths up to 3 blocks, 8 blocks with the tail, 4 platforms | 11,290 | `PromisedIsBacked`, `AttributeComesBack`, `CallKeepsTheFile` |
| `solarislock` | 2 processes with 3 threads and 2 descriptors each, symmetric | 386,692 | the refinement of `FileLock` with processes as owners |
| `captureroot` | a candidate 2 levels deep, reached by its volume and by drive letters of either level, reparse points and a second directory in the root, 10 descriptors | 706,166 | `AdmittedPathStays`, `EvidenceIsPrivate` |
| `devtool` | coverage: 2 locations with 2 topologies, exports of up to 7 entries, reports of up to 5 lines; matrix: up to 3 targets, each workflow one defect away, lines of up to 8 words; compatibility: workspaces one defect away in each of consumer, lock, resolution, packages | 310,805 | `InputsAreWhole`, `PassMeansExecuted`, `ReportIsTrue`; `DeclaredCellsRun`, `AuditedCargoIsLocked`; `SuccessMeansCompared` |
| `matrix_coveragejob` | the matrix part with a target whose job is named `coverage` | stops | violates `DeclaredCellsRun`: see the findings |

Most modules have one type invariant, proved and, but for `UnixLock` and `SolarisLock`,
also checked in a run. The gates (`CaptureRoot`, `CoverageGate`, `SupportMatrix`,
`Compatibility`) have none: their variables are set from literal values. Every property of a passing run is
broken by a mutant (the operators commented `Mutant`), so none of them holds for
lack of behaviour. Most are changes of the repository's code. Those of `NoOrphanLock`,
`HolderIsNotWaiting`, `WaitersReturn` on Unix and the three refinements of `FileLock`
change what the model says of the kernel (`Surviving`, `Replace`, `Conflict`, `Refused`,
`Conflicting`): the library passes these promises on, and what the runs add is that
nothing it does with descriptors, requests and results loses them.

**Bounds.** Two descriptions in conflict and a third that arrives in the gap of a
conversion are the smallest instance in which a conversion loses its lock, and
two descriptors per process are enough to share a description inside and between
processes. Three handles over two objects give a duplicate pair and a competitor.
A descendant that escapes and one that stays are two; `Timeout` and `Grace` of one
poll separate "before", "at" and "after" the deadline. `Limit` of one block and
files of two separate the two sides of the length check. Three blocks of length
separate a prefix, a hole and a tail; eight blocks leave room for
`F_PREALLOCATE` to add a request beyond the physical end twice. Two processes
are enough for a circle of waiters, and a second thread lets a process wait while
it unlocks or closes. A candidate two levels deep has a component between the root
and itself, which is what a drive letter can name, and every component takes
every descriptor, of which each breaks one of the checks. Two locations, one with
two topologies, separate place, topology and symbol; the limit of 5 lines lies
between the written and the final length of the report that grows to 6. Registries,
workflows, lines of shell and workspaces are enumerated as right ones with one
thing wrong, or one in each of their parts, because each check stands for one
way to be wrong; a ci.yml is altered for registries of two targets, and a run of cargo
with two arguments stands behind a prefix or before a second command, but not in
between. In a word of 16 values the counts 0, 2 and 9 give products
that fit, wrap, and are negative when read as signed; one `Use` in a query puts
two states into `seen`, one before and one after. Two blocks counted of a capture file separate a
reader that has caught up from one a block and two blocks behind. `MaxLength` and
`BlockCount` of `Allocation`, the one `Use` of `FsStats`, `MaxLayers` of `WindowsLock` and the
window `MaxLength` of `Capture` are the only bounds in guards.

**Deadlock** is checked, except in the capture runs and those of the gates, whose system
stops when the call or command has returned.

**Fairness.**
* Locks: the kernel or file system serves every call it can serve
  (`WF(Kernel)`, `WF(Serve)`), and whoever holds the lock and is in no call
  eventually gives it up (`WF(GiveUp)`); the second is the users' duty and stated
  as such. `WaitersReturn` assumes in addition that no new calls are made:
  neither `flock` nor `LockFileEx` promises a queue.
* Capture, with the runner inside: only that its thread keeps running
  (`WF(capture_with_backend)`). Nothing is assumed of the
  processes. The waits of the runner rest on its deadlines alone. Reading does not:
  `read_to_end` has no limit and no deadline, and on Unix a process that left the group,
  or outlived a kill that was reported as failed, may keep ahead of it for ever. That is
  the one exception in `CaptureReturns` (`OutrunsReading`); `SECURITY.md:131-132` accepts
  such escapes. On Windows the job is closed before the read and there is no exception.

### Findings

* `matrix_coveragejob`: `is_ci_job_name` accepts `coverage` as the job of a target.
  `matrices` then collects the target's cells under that name and overwrites them
  with the coverage cells (`matrix.rs:424`), and `validate_workflow` accepts a
  `ci.yml` that never builds the target with its toolchains, although
  `CONTEXT.md:57-59` says the validator rejects drift between job references and
  the workflow's matrices. No target of the repository's registry is named so. The
  run `devtool` has no such registry, and there the property holds.

## 4. The proofs

`UnixLockProofs`, for any sets of processes, slots and descriptions, from
`ConstantsAssumption` only:
* `InductiveInvariant` collects types, exclusion, that a held lock is referenced
  (so `Close` and `Exit` leave no orphan), and that the description of a request
  in progress is one its process refers to. The last part is what the others
  need: a granted lock goes to a description that is still open.
* `TypeCorrect` and `NoOrphanLockHolds` follow. Exclusion is only a part of the
  invariant: it is the kernel's own guard, and what the refinement needs.
* `Refinement`: `Spec => ImplementsFileLock`. `Replace`, `unlock`, `Close` and
  `Exit` map to `Release`, `Grant` to `Acquire`, everything else stutters.
* For `DisciplinedSpec` a second invariant relates every result and stage to the
  lock of the process' one description; it says in particular that a call past
  `Replace` holds nothing, and that an error of another kind than would-block or `EINTR`
  says nothing. `NoWaitCycle`, `ResultsAreTruthful` and `ExclusiveOkExcludes` follow from it.

`CaptureProofs`, first about the runner, for either platform, any descendants, `Timeout` and
`Grace`: `RunnerInvariant` is the conjunction of types, when a family may run,
when the containment is attached, which stages have not touched the child, which
have reaped it, that the group id is the child's own while a stage may still
signal it, and what a finished call knows. From it: `SuccessIsCleanHolds`,
`LeftoverIsReportedHolds`, `NoForeignKillHolds`, `VerdictIsTheChildsHolds`,
`ContainedBeforeRunningHolds`, `RunnerTypeCorrect`. So properties a run checks on
one platform are proved for both.

`FsStatsProofs`, for any word size, counts and cluster size factors:
`FiguresAreExactHolds` and `NonsenseIsRefusedHolds`. The heart is arithmetic:
`SmallerProductFits` says why a product that is multiplied unchecked cannot wrap
when the one with the total does not, `ProductsKeepOrder` why comparing counts is
comparing bytes. The invariant `Inv` says which figures may be asked at which
stage, that the volume to be read is one already seen, and that the cluster size a
legacy snapshot has read is still the volume's when the second call reads bytes.
`TypeCorrect` is more than bookkeeping: it says that every figure returned is a
word, from the checks of each provider.

`SolarisLockProofs`, for any processes, threads and slots: `TypeCorrect` and
`Refinement`, `Spec => ImplementsFileLock`. Only types are needed beside the
steps: `Close`, `Exit` and `unlock` map to `Release` when there is a record
(`RecordsGoAway`), `Grant` maps to `Acquire` or to a change of mode
(`GrantAcquires`), everything else stutters.

`WindowsLockProofs`, for any finite set of handles, any objects and any bound on
the layers, from `ConstantsAssumption` (that handles are finite in number is what
lets layers be counted):
* `InductiveInvariant`: types, that a handle in a call is open, and that the layers
  of an object together with the calls that may still add one stay within the
  bound; the last part is what keeps `shared` in its type.
* `Refinement`: `Spec => ImplementsFileLock`. A grant adds its mode to what the
  object holds (`GrantIsAcquire`); a step that grants nothing leaves the layers
  alone or takes some away (`OtherIsRelease`).
* `WaitersHoldNothing`, for `FairDisciplinedSpec`: with one handle per object, a
  handle in a call holds nothing. It rests on steps being local to one object.
* `LayersAreCounted`, for the specification with the history of calls: the layers
  are the balance of successful calls. Objects without a handle have no layers
  (`NoOrphans`), so a balance may start again from nothing.

`CaptureProofs`, then about captures, for any descendants, times and limits: the steps of a capture are
the runner's, the processes', or stutters of both (`CaptureSteps`), so
`RunnerInvariant` holds inside and `RunnerWithinCapture` follows. `CInv` adds what
was read of a clean execution and which resources each phase may hold. A clean
execution leaves nobody who could write (`CleanIsQuiet`, from `SuccessIsClean`),
so lengths checked stay true until they are read: `OutputIsWholeHolds`.
`DirectoryGoesLastHolds` follows from the resources alone.

`AllocationProofs`, for files of every length on every platform: `IInv` says which
platform and which kind of file comes to which stage (`Where`), how the requested
length, the goal and the snapshot relate to the length of the file (`Lengths`: at
`set_len` the file is still shorter than the goal, and the snapshot behind
`FileAllocationInfo` is still right, because `LengthOwned` keeps others from
resizing), which prefix is backed (`Backing`), and where the attribute is away
(`Attributes`). `PromiseHolds`, `AttributeHolds` and `AllocationTypeCorrect` are
parts of it; `FileIsKept`, that no step of a call cuts the file, follows from
`Lengths`. On Apple systems the promise of a count of blocks rests on
`DenseCount`: a file without holes that has `len` backed blocks has the first
`len`, a fact about cardinalities.

`CaptureRootProofs`, for a candidate of any depth, any list of candidates and any
access rules of the directories. `AdmittedPathStays` is about names, which other
users move about; it is not inductive, because it only speaks of the time after
the admission. `Inv` has three parts:
* `Tree`: the directories form a tree, two that stand in one place are one, and a
  reparse point was made by somebody whom the access rules let write to it (the
  innermost level apart, whose directory is hardened after it was made).
* `Candidacy`: what is left of the candidates and of the walk is well formed.
* `Progress`: for each phase, how far the path is kept. `Kept(k)` says that the names
  of the retained path lead somewhere down to level k, that no access rule lets the other
  user change what a name in these directories leads to (`Sealed`), and that the
  runner holds them; `OpenAt` the same of the directory it is still checking. A
  step of the runner adds one more level, and a step of the other user keeps them
  (`OtherKeepsPath`, `WaitKeepsKept`, `WaitKeepsOpen`). The private and the temporary
  directory are besides `Exclusive`: only the user and SYSTEM have any right on them.

A sealed directory is no reparse point (`SealedIsPlain`), so the real path of the
drive letter's directory is never redirected; of a letter that led through a
reparse point nothing is claimed below it (`Retained`). `Resolve` follows the names
from the root, as a recursive function; that its
equation has a solution, and what it yields level by level, are `ResolveFact` and
`ResolveLevel`. `AdmittedPathTheorem` and `EvidenceTheorem`
are `AdmittedPathStays` and `EvidenceIsPrivate` for every such instance.

`DevToolProofs`, for inputs, registries, workflows and workspaces of every size:
`GatesInvariant` says that the gate that was asked for keeps its invariant, and the
others never begin. Each property is then a consequence of the invariant of its gate.
* *Coverage* (`CoverageInv`): the files keep their shape while they grow (`Files`),
  what was accepted of an input was all of it and the report parsed (`Loaded`), and
  before a pass there is no new report (`Reported`). `InputsAreWholeHolds` rests on
  the read going one past the limit (`BoundedFact`: what is within the limit was
  not cut off) and on the four inputs being different files. `ReportIsTrueHolds`
  rests on `GroupFact`, which turns the counts of a group back into sets of
  entries: an entry nobody executed can only be one of the integration profile whose
  topology the unit profile executed. `PassMeansExecutedHolds` reads the sums of the
  LCOV report back into its lines: `lcov_states` is the loop of `parse_lcov` as a
  recursive function, and `SourceFact` and `CountFact` say what the state after n
  lines tells about the lines up to n.
* *Matrix* (`MatrixInv`): every workflow passed so far was validated against
  the same registry, and when a line is handed over all of them were, the two required ones
  among them. `AuditedCargoIsLockedHolds` rests on `LineIsLocked`: what the audit finds by
  going through a line from the left is what a shell makes of it, cut at its
  separators; `BeforeHash` and `AuditedPart` say what is left of a line with a `#`. `DeclaredCellsRunHolds` rests on `IncludeHas`: nothing a loop has
  appended to a matrix is lost. This holds for every job except `coverage`,
  whose matrix replaces what the loop made. The theorem therefore assumes
  `NobodyNamesCoverage`, exactly what the registry of the finding breaks; it holds
  of the repository's registry and of every registry of `devtool`. Without it the
  formula is false, as `matrix_coveragejob` shows.
* *Compatibility* (`CompatibilityInv`): which checks lie behind the step that is next
  (`Agreed`), and that the runs made are the first of the planned ones, each made once
  (`RunsMade`). `LinkedFact` puts together what was checked apart (the
  features of a package, its two dependencies, the packages cargo resolved)
  into the one crate a run links.

**Assumptions.** Each is a named `ASSUME` that TLC evaluates on the constants of the runs:
* `ConstantsAssumption` and the like: kinds of constants.
* `InputsAssumption` (coverage): four inputs with natural lengths, exports with finitely
  many entries, and `DA` lines with natural counts. `parse_lcov_number` reads a `u64`.
* `RepositoriesAssumption` (matrix): targets and entries are sequences, a target
  names at most one job (`Option<CiSpec>`), evidence has three kinds (`EvidenceLevel`). `IsLine` says how words are told apart: only
  separators read `&&`, the word `cargo` is no assignment, and a separator or a `#` of
  its own has nothing inside it before a `#`.
* `WorkspacesAssumption` (compatibility): what cargo reports is finite. It also
  states a fact about the world that the code does not check: crates.io has no `fs2-turbo`
  0.4.3 (the first release is 1.0.0), and the manifest of the checkout names it
  `fs2-turbo`. `validate_resolved_fs2` tells the two crates apart by
  version and source, and only with this do the names agree.
* `CaptureRoot`: the runner's account is not the one whose interference is modelled, a drive
  letter names a directory of the path, an access list is a sequence.

**Induction.** What a recursive function computes is shown by a least
counterexample: the set of arguments where the claim fails, were it not empty,
has a least element, and the step from the one before contradicts it.
`NatLessThanWellFounded` and `WFMin` of the library give that element without
passing an operator.

**Only model-checked:** `WaitersReturn` and `CaptureReturns`, which are liveness
and beyond this prover; and that
`DeclaredCellsRun` fails where a target names the coverage job. Every invariant and every action property
of the passing runs is proved.

## 5. What is not modelled

* Text: diagnostics, JSON, labels; error values are classes (would-block,
  interrupted, every other errno).
* `SIGCHLD` set to ignore, under which the kernel reaps the child by itself: it
  belongs to whoever starts `fs2-dev`. Unix targets without `waitid`, and targets
  that are neither Unix nor Windows.
* glibc's emulation of `posix_fallocate` on file systems without it, and
  half-finished native allocations.
* The overflow of allocated blocks times 512.
* What a path means to a statistics query when the current directory, mounts or
  drive letters change; the documentation leaves that to the caller.
* Path buffers: pure conversions whose hazards are lengths of native strings.
  Diagnostics and workflow scripts hold no state worth a model.
* What the coverage files were made by: nothing in them names a run, so four files
  of different builds can pass (a hazard without a property).
* A checkout edited while `matrix` or `compatibility` runs; how a `--` separator
  divides the arguments of cargo; what a shell runs behind a word with a `#` inside; the
  tables of intended definitions and
  reviewed gaps, and the minimums of the policies, which are constants here.
* Containment of one function name in another, by which `coverage` compares reviewed
  gaps with symbols: names here are equal or not.
* In `CaptureRoot`: what lies on a drive letter's own way where that leads through a
  reparse point, beyond that others may change it; the bytes of descriptors and entries (sizes, offsets,
  malformed entries are all "refused"), conversions of path text beyond the
  kinds of components that are refused, and the selection of the environment's
  candidates.
* The frozen consumer of the compatibility check, which is an input of it.

## 6. Plan

1. Done: `FileLock`, `UnixLock`, `WindowsLock`, `ProcessRunner`, `Capture`,
   `Allocation`, `FsStats`, and the proofs about `UnixLock`, `ProcessRunner` and
   `FsStats`.
2. Done: `SolarisLock` with its refinement proved; `CaptureRoot`;
   `CoverageGate`, `SupportMatrix`, `Compatibility` and `DevTool`.
3. Done: the proofs about `WindowsLock`, `Capture`, `Allocation`, `CaptureRoot`, and the
   three gates of `DevTool`; every safety property of the passing runs is a theorem.
4. Left: `Capture` takes the checks of the Windows directory as one step; a module
   that runs it on `CaptureRoot` would compose the two. The queries of a path that
   changes its meaning, and the growing buffer of `windows/path.rs`, are without a model.
