---------------------------- MODULE SupportMatrix ----------------------------
(***************************************************************************)
(* `fs2-dev matrix` (tools/fs2-dev/src/matrix.rs): the support registry,   *)
(* the workflow files that must agree with it, and the matrices handed to  *)
(* the continuous integration.  The command reads the cargo alias, asks    *)
(* cargo for the minimum Rust version, validates the registry and then     *)
(* each workflow file in the order of their names, and appends two lines   *)
(* to the output.  Any of the readings and writings may fail.              *)
(*                                                                         *)
(* A parsed file is a record; names of targets, jobs, platforms and        *)
(* runners are values.  A line of shell is a sequence of words, each with  *)
(* what the audit looks at: see Word.  An optional value is a sequence of  *)
(* none or one.                                                            *)
(***************************************************************************)
EXTENDS Naturals, FiniteSets, Sequences, SequencesExt

CONSTANTS
  Triples,      \* the well-formed target triples
  JobNames,     \* the well-formed job names
  Native,       \* target -> the runner it runs natively on
  RustVersion,  \* what cargo metadata says of fs2-turbo: none or a version
  Repositories  \* the registries and directories of the workflows to look at

PRIMARY_COVERAGE_TOOLCHAIN == "1.98.1"

VARIABLES
  files,    \* [alias, registry, entries]: what the repository holds
  at,       \* the step that is next
  entry,    \* how many entries of the directory are validated
  output    \* the lines the command appended to the output file, or printed

matrix_vars == <<files, at, entry, output>>

(***************************************************************************)
(* The registry and the matrices made from it.                             *)
(***************************************************************************)

coverage_as_str(runner) ==
  CASE runner = "macos-15-intel" -> "macos-15-intel"
    [] runner = "macos-latest"   -> "macos-26"
    [] runner = "ubuntu-latest"  -> "ubuntu-24.04"
    [] runner = "windows-latest" -> "windows-2025-vs2026"

is_target_triple(target) == target \in Triples
is_ci_job_name(job) == job \in JobNames

expected_runtime_runner(target, runner) ==
  target \in DOMAIN Native /\ Native[target] = runner

validate_ci(spec, ci, version) ==
  /\ is_ci_job_name(ci.job)
  /\ ci.toolchains # <<>>
  /\ spec.evidence = "runtime" =>
       /\ ci.toolchains = <<version, "stable">>
       /\ expected_runtime_runner(spec.target, ci.runner)
  /\ spec.evidence = "compile" =>
       /\ ci.toolchains \in {<<version>>, <<"nightly">>}
       /\ ~ci.coverage

validate_target(spec, version) ==
  /\ is_target_triple(spec.target)
  /\ spec.platform # ""
  /\ IF spec.evidence = "not-covered"
     THEN spec.allocation = "unknown" /\ spec.ci = <<>>
     ELSE /\ spec.allocation # "unknown"
          /\ spec.ci # <<>> /\ validate_ci(spec, spec.ci[1], version)

validate_registry(registry, version) ==
  LET targets == registry.targets IN
  /\ registry.version = 6
  /\ registry.coverage_toolchain = PRIMARY_COVERAGE_TOOLCHAIN
  /\ registry.evidence_levels = {"runtime", "compile", "not-covered"}
  /\ targets # <<>>
  /\ \A i \in DOMAIN targets :
       /\ validate_target(targets[i], version)
       /\ \A j \in DOMAIN targets : i # j => targets[i].target # targets[j].target
  /\ \E i \in DOMAIN targets : targets[i].evidence = "runtime"
  /\ \E i \in DOMAIN targets : targets[i].ci # <<>> /\ targets[i].ci[1].coverage

\* The cells of the specification of a target: one for each toolchain.
Cells(spec) ==
  [i \in DOMAIN spec.ci[1].toolchains |->
     [os |-> spec.ci[1].runner, target |-> spec.target,
      toolchain |-> spec.ci[1].toolchains[i]]]

CoverageCell(registry, spec) ==
  [os |-> coverage_as_str(spec.ci[1].runner), target |-> spec.target,
   toolchain |-> registry.coverage_toolchain]

\* What a target adds to the matrix of a job.
CellsFor(registry, job, spec) ==
  IF spec.ci = <<>> THEN <<>>
  ELSE IF job = "coverage"
    THEN IF spec.ci[1].coverage THEN <<CoverageCell(registry, spec)>> ELSE <<>>
  ELSE IF spec.ci[1].job = job THEN Cells(spec) ELSE <<>>

\* The matrix of a job after each number of the targets.
include(registry, job) ==
  LET cells[n \in 0..Len(registry.targets)] ==
        IF n = 0 THEN <<>>
        ELSE cells[n - 1] \o CellsFor(registry, job, registry.targets[n])
  IN  cells

\* A matrix is made for every job a target names; that of the coverage job is
\* then put in, in the place of one the loop made under this name.
matrices(registry) ==
  LET named == {spec \in ToSet(registry.targets) : spec.ci # <<>>}
  IN  [job \in {spec.ci[1].job : spec \in named} \cup {"coverage"} |->
         include(registry, job)[Len(registry.targets)]]

(***************************************************************************)
(* The audit of a line of shell.  A word is                                *)
(*   text       its text, "" where nothing depends on it                   *)
(*   tokens     the programs it would name: the tokens the unquoted word   *)
(*              splits into at = ; | & ( ), each the sequence of its path  *)
(*   dollar     it holds an expansion       quoted   it starts with a quote*)
(*   assigns    it is an assignment         flag     it starts with a dash *)
(*   syntax     it holds shell syntax other than the reviewed expansions   *)
(*   substitutes it holds a command substitution                           *)
(*   open       a quote in it is not closed                                *)
(*   bare       it holds the target expression outside quotes              *)
(*   before     what stands before a # inside it, outside quotes: none or  *)
(*              one word.  A word that begins with # has the text "#".      *)
(***************************************************************************)

shell_assignment(word) == word.assigns

cargo_executable(token) ==
  token # <<>> /\ Last(token) \in {"cargo", "cargo.exe", "cargo.cmd"}

Wrappers == {"env", "command", "exec"}

\* The words a shell passes over to find the program of a command.
PassedOver(words, i) ==
  \/ shell_assignment(words[i])
  \/ words[i].flag /\ \E k \in 1..(i - 1) : words[k].text \in Wrappers

InCommandPosition(words, i) ==
  /\ ~PassedOver(words, i)
  /\ \A j \in 1..(i - 1) : PassedOver(words, j) \/ words[j].text \in Wrappers

command_position_is_dynamic(words) ==
  \E i \in DOMAIN words :
    InCommandPosition(words, i) /\ (words[i].dollar \/ words[i].quoted)

\* The line is cut at the first # outside quotes, inside a word as well, where a
\* shell sees no comment.
HoldsHash(word) == word.text = "#" \/ word.before # <<>>

command_before_comment(words) ==
  LET hashes == {i \in DOMAIN words : HoldsHash(words[i])}
      whole  == CHOOSE n \in 0..Len(words) :
                  n + 1 \in hashes /\ \A h \in hashes : n < h
  IN  IF hashes = {} THEN words
      ELSE SubSeq(words, 1, whole) \o words[whole + 1].before

\* Mutant: only the first token of a word is looked at.
mentions_cargo_executable_firstWord(words) ==
  \E token \in words[1].tokens : cargo_executable(token)

mentions_cargo_executable(words) ==
  \E i \in DOMAIN words : \E token \in words[i].tokens : cargo_executable(token)

REVIEWED_PACKAGE_LIST_COMMAND ==
  <<"cargo", "package", "--locked", "--list", ">", "package-files.txt">>

direct_cargo_command_is_auditable(words) ==
  \/ [i \in DOMAIN words |-> words[i].text] = REVIEWED_PACKAGE_LIST_COMMAND
  \/ \A i \in DOMAIN words : ~words[i].syntax

Exempt == {"audit", "deny", "fmt", "xtask"}

\* The subcommand follows a toolchain, when there is one.
Subcommand(words) ==
  LET i == IF Len(words) > 1 /\ words[2].text = "+toolchain" THEN 3 ELSE 2
  IN  IF i \in DOMAIN words THEN words[i].text ELSE ""

Locked(words) == \E i \in 2..Len(words) : words[i].text = "--locked"

validate_locked_cargo(line) ==
  LET words == command_before_comment(line) IN
  /\ \A i \in DOMAIN words : ~words[i].open
  /\ words # <<>> =>
       /\ \A i \in DOMAIN words : ~words[i].substitutes
       /\ ~command_position_is_dynamic(words)
       /\ IF words[1].text = "cargo"
          THEN /\ direct_cargo_command_is_auditable(words)
               /\ Subcommand(words) \in Exempt \/ Locked(words)
          ELSE ~mentions_cargo_executable(words)

has_unquoted_matrix_target(line) == \E i \in DOMAIN line : line[i].bare

(***************************************************************************)
(* The workflow files.  A job is [permissions, uses, steps, matrix], a     *)
(* step [uses, persist, run].                                              *)
(***************************************************************************)

pinned_action(action) ==
  \/ <<action.repository, action.revision>> \in
       {<<"actions/download-artifact", "reviewed">>, <<"codecov/codecov-action", "reviewed">>}
  \/ /\ action.repository \in {"actions/checkout", "actions/upload-artifact",
                               "dtolnay/rust-toolchain", "taiki-e/install-action"}
     /\ action.revision \in {"commit", "reviewed"}

validate_workflow_step(step) ==
  /\ \A i \in DOMAIN step.uses :
       /\ pinned_action(step.uses[i])
       /\ step.uses[i].repository = "actions/checkout" => step.persist = "false"
  /\ \A i \in DOMAIN step.run :
       ~has_unquoted_matrix_target(step.run[i]) /\ validate_locked_cargo(step.run[i])

validate_workflow_job(job) ==
  /\ ~job.permissions
  /\ \A i \in DOMAIN job.uses : pinned_action(job.uses[i])
  /\ \A i \in DOMAIN job.steps : validate_workflow_step(job.steps[i])

validate_workflow_policy(workflow) ==
  /\ workflow.permissions = "contents: read"
  /\ \A job \in DOMAIN workflow.jobs : validate_workflow_job(workflow.jobs[job])

Literal(cells) == [kind |-> "literal", keys |-> {"include"}, include |-> cells]

\* Mutant: a job of the registry the workflow lacks is not missed.
validate_workflow_anyJobs(registry, workflow) ==
  /\ validate_workflow_policy(workflow)
  /\ \A job \in DOMAIN workflow.jobs \cap DOMAIN matrices(registry) :
       workflow.jobs[job].matrix = Literal(matrices(registry)[job])

validate_workflow(registry, workflow) ==
  LET generated == matrices(registry) IN
  /\ validate_workflow_policy(workflow)
  /\ \A job \in DOMAIN workflow.jobs :
       /\ workflow.jobs[job].matrix.kind # "fromJSON"
       /\ job \in DOMAIN generated =>
            workflow.jobs[job].matrix = Literal(generated[job])
  /\ DOMAIN generated \subseteq DOMAIN workflow.jobs
  /\ {"workflow_dispatch", "monthly"} \subseteq workflow.on

validate_release_workflow(workflow) ==
  /\ validate_workflow_policy(workflow)
  /\ {"push", "pull_request", "workflow_dispatch"} \subseteq workflow.on
  /\ {"toolchains", "package", "dependencies"} \subseteq DOMAIN workflow.jobs

\* An entry of the directory is [name, kind, workflow]; the name tells what the
\* file is for, and "README" stands for one without the extension of a workflow.
validate_workflow_entry(registry, e) ==
  /\ e.kind = "file"
  /\ e.name # "README"
  /\ CASE e.name = "ci.yml" -> validate_workflow(registry, e.workflow)
       [] e.name = "release-gates.yml" -> validate_release_workflow(e.workflow)
       [] OTHER -> validate_workflow_policy(e.workflow)

\* A line of shell is made of words: the separator is syntax, the name of cargo
\* alone assigns nothing, and neither the separator nor # has a # inside it.
IsLine(line) ==
  /\ line \in Seq(ToSet(line))
  /\ \A word \in ToSet(line) :
       /\ word.text = "&&" => word.syntax
       /\ word.text = "cargo" => ~word.assigns
       /\ word.before \in Seq(ToSet(word.before))
       /\ word.text \in {"&&", "#"} => word.before = <<>>

\* A target has one of three kinds of evidence and at most one job, with a
\* sequence of toolchains.
IsTarget(spec) ==
  /\ spec.evidence \in {"runtime", "compile", "not-covered"}
  /\ spec.ci \in Seq(ToSet(spec.ci)) /\ Len(spec.ci) <= 1
  /\ \A ci \in ToSet(spec.ci) : ci.toolchains \in Seq(ToSet(ci.toolchains))

\* What the files of a repository parse to.
ASSUME RepositoriesAssumption ==
  \A r \in Repositories :
    /\ r.registry.targets \in Seq(ToSet(r.registry.targets))
    /\ \A spec \in ToSet(r.registry.targets) : IsTarget(spec)
    /\ r.entries \in Seq(ToSet(r.entries))
    /\ \A e \in ToSet(r.entries) : \A job \in DOMAIN e.workflow.jobs :
         LET steps == e.workflow.jobs[job].steps IN
         \A s \in DOMAIN steps : \A l \in DOMAIN steps[s].run : IsLine(steps[s].run[l])

(***************************************************************************)
(* The command.                                                            *)
(***************************************************************************)

MatrixInit ==
  /\ files \in Repositories
  /\ at = "alias" /\ entry = 0 /\ output = <<>>

Fail == at' = "failed" /\ UNCHANGED <<entry, output>>

\* A step of the command either succeeds, when what it checks holds, or fails.
\* What it reads may be unreadable, or not parse.
Proceed(step, holds, next) ==
  /\ at = step
  /\ \/ holds /\ at' = next /\ UNCHANGED <<entry, output>>
     \/ Fail
  /\ UNCHANGED files

validate_xtask_alias == Proceed("alias", files.alias, "metadata")

package_rust_version == Proceed("metadata", RustVersion # <<>>, "registry")

load_registry ==
  Proceed("registry", validate_registry(files.registry, RustVersion[1]), "workflows")

\* The entries are taken in the order of their names; ci.yml and
\* release-gates.yml must have been among them.
NextWorkflow ==
  /\ at = "workflows" /\ entry < Len(files.entries)
  /\ \/ /\ validate_workflow_entry(files.registry, files.entries[entry + 1])
        /\ entry' = entry + 1 /\ UNCHANGED <<at, output>>
     \/ Fail
  /\ UNCHANGED files

validate_workflow_directory ==
  /\ entry = Len(files.entries)
  /\ Proceed("workflows",
             {"ci.yml", "release-gates.yml"}
               \subseteq {files.entries[i].name : i \in DOMAIN files.entries},
             "matrices")

\* Each line is appended by writes of its own: a failed one may have left a part.
WriteLine(step, line, next) ==
  /\ at = step
  /\ \/ output' = Append(output, line) /\ at' = next
     \/ /\ output' \in {output, Append(output, [kind |-> "part"])}
        /\ at' = "failed"
  /\ UNCHANGED <<files, entry>>

write_github_output ==
  \/ WriteLine("matrices",
               [kind |-> "matrices", matrices |-> matrices(files.registry)], "version")
  \/ WriteLine("version", [kind |-> "rust_version", version |-> RustVersion[1]], "passed")

\* Without --github-output the matrices are printed.
PrintMatrices ==
  /\ at = "matrices" /\ at' = "passed"
  /\ output' = <<[kind |-> "printed", matrices |-> matrices(files.registry)]>>
  /\ UNCHANGED <<files, entry>>

MatrixNext ==
  \/ validate_xtask_alias \/ package_rust_version \/ load_registry
  \/ NextWorkflow \/ validate_workflow_directory
  \/ write_github_output \/ PrintMatrices

MatrixSpec == MatrixInit /\ [][MatrixNext]_matrix_vars

-----------------------------------------------------------------------------
(***************************************************************************)
(* Properties.                                                             *)
(***************************************************************************)

\* The workflows the command has read and accepted.
AcceptedFiles == {files.entries[i] : i \in 1..entry}

\* Whether a job of the accepted ci.yml runs the cell: its matrix is that literal
\* list, with nothing taken out of it.
RunsCell(job, cell) ==
  \E e \in AcceptedFiles :
    /\ e.name = "ci.yml" /\ job \in DOMAIN e.workflow.jobs
    /\ LET matrix == e.workflow.jobs[job].matrix
       IN /\ matrix.kind = "literal" /\ matrix.keys = {"include"}
          /\ cell \in ToSet(matrix.include)

\* Once anything is handed to the continuous integration, every piece of evidence
\* the registry claims is produced: each covered target is built on its runner
\* with each of its toolchains by the job it names, and its coverage is measured
\* with the pinned toolchain where it claims coverage.
DeclaredCellsRun ==
  output # <<>> =>
    \A i \in DOMAIN files.registry.targets :
      LET spec == files.registry.targets[i] IN
      /\ spec.evidence # "not-covered" =>
           /\ spec.ci # <<>>
           /\ \A cell \in ToSet(Cells(spec)) : RunsCell(spec.ci[1].job, cell)
      /\ \A j \in DOMAIN spec.ci : spec.ci[j].coverage =>
           /\ spec.evidence = "runtime"
           /\ RunsCell("coverage", CoverageCell(files.registry, spec))

\* The commands of a line as a shell runs them: what stands between separators,
\* before a comment.  Those from a # inside a word on are left out: a shell runs
\* them and the audit does not look at them.
AuditedCommands(line) ==
  LET Ends(i) == i \in {0, Len(line) + 1} \/ line[i].text \in {"&&", "#"}
      Bounds == {c \in (0..Len(line)) \X (1..(Len(line) + 1)) :
                   /\ c[1] < c[2] /\ Ends(c[1]) /\ Ends(c[2])
                   /\ \A k \in 1..(c[2] - 1) : k > c[1] => ~Ends(k)
                   /\ \A k \in 1..c[1] : line[k].text # "#"
                   /\ \A k \in 1..(c[2] - 1) : line[k].before = <<>>}
  IN  {SubSeq(line, c[1] + 1, c[2] - 1) : c \in Bounds}

\* No accepted workflow runs cargo without its lock file, as far as no # stands
\* inside a word: whichever command of a line has a program that reads as cargo,
\* behind assignments and wrappers too, it is cargo by its plain name, and locked
\* or of an exempt subcommand.
AuditedCargoIsLocked ==
  \A e \in AcceptedFiles : \A job \in DOMAIN e.workflow.jobs :
    LET steps == e.workflow.jobs[job].steps IN
    \A s \in DOMAIN steps : \A l \in DOMAIN steps[s].run :
      \A words \in AuditedCommands(steps[s].run[l]) : \A i \in DOMAIN words :
        /\ InCommandPosition(words, i)
        /\ \E token \in words[i].tokens : cargo_executable(token)
        => /\ i = 1 /\ words[i].text = "cargo"
           /\ \/ \E k \in DOMAIN words : words[k].text = "--locked"
              \/ Subcommand(words) \in Exempt
=============================================================================
