---------------------------- MODULE Compatibility ----------------------------
(***************************************************************************)
(* `fs2-dev compatibility` (tools/fs2-dev/src/compatibility.rs): one       *)
(* frozen consumer of the v0.4 interface is compiled and run, in every     *)
(* required edition of Rust, once against fs2 0.4.3 and once against this  *)
(* checkout.  Which crate a build takes is decided by cargo, from a        *)
(* feature, the dependency it enables and the packages that resolve; the   *)
(* command therefore checks all of these before it builds anything.  Every *)
(* command it starts may fail.                                             *)
(*                                                                         *)
(* Texts and digests are values; a path is the place it resolves to.       *)
(***************************************************************************)
EXTENDS Naturals, FiniteSets, FiniteSetsExt, Sequences, SequencesExt

CONSTANTS
  Workspaces  \* what the compatibility workspace may hold

Subjects == <<"legacy", "current">>
RequiredEditions == {"2015", "2018", "2021", "2024"}
Consumer == "v04_consumer.rs"

VARIABLES
  workspace,  \* [consumer, lock, resolved, packages], see the functions below
  step,       \* the step that is next
  packages,   \* the edition packages, in the order of their editions
  checked,    \* how many of the subjects `cargo check` has passed
  ran         \* the runs that passed: <<package, subject>>, in order

compatibility_vars == <<workspace, step, packages, checked, ran>>

(***************************************************************************)
(* What is checked.                                                        *)
(***************************************************************************)

\* The digest is that of the text with its line ends made alike.
frozen_consumer_digest(consumer) == consumer.text = "frozen"

\* The lock file holds the reviewed entry of fs2, and one of each name.
validate_lockfile(lock) ==
  /\ [name |-> "fs2", version |-> "0.4.3", checksum |-> "reviewed"] \in ToSet(lock)
  /\ \A name \in {"fs2", "fs2-turbo"} :
       Cardinality({i \in DOMAIN lock : lock[i].name = name}) = 1

\* Exactly the release of fs2 and this checkout are resolved.
validate_resolved_fs2(resolved) ==
  LET fs2 == {p \in resolved : p.name \in {"fs2", "fs2-turbo"}} IN
  /\ \E p \in fs2 : p.version = "0.4.3" /\ p.source = "registry"
  /\ \E p \in fs2 : p.source = "path" /\ p.manifest = "checkout"
  /\ Cardinality(fs2) = 2

\* Mutant: an edition the workspace lacks is not missed.
validated_packages_someEditions(members) ==
  /\ members # {}
  /\ \A p, q \in members : p.edition = q.edition => p = q
  /\ {p.edition : p \in members} \subseteq RequiredEditions

validated_packages(members) ==
  /\ members # {}
  /\ \A p, q \in members : p.edition = q.edition => p = q
  /\ {p.edition : p \in members} = RequiredEditions

expected_features ==
  [current |-> {"fs2_current"}, default |-> {}, legacy |-> {"fs2_v04"}]

\* A package is the one its edition's directory holds, and its one target is a
\* binary of the package's name whose source is the consumer.
validate_compatibility_package(p) ==
  /\ p.name = p.edition /\ p.manifest = p.edition
  /\ p.version = "0.0.0" /\ p.source = "path" /\ ~p.default_run
  /\ p.features = expected_features
  /\ Len(p.targets) = 1
  /\ LET target == p.targets[1]
     IN target.name = p.name /\ target.kind = "bin" /\ target.source = Consumer

\* A dependency that is not kept to one kind or platform, is optional, and takes
\* the default features and no others, is `plain`.
validate_dependencies(p) ==
  /\ \E d \in p.dependencies :
       /\ d.name = "fs2" /\ d.rename = "fs2_v04" /\ d.req = "=0.4.3"
       /\ d.from = "registry" /\ d.plain
  /\ \E d \in p.dependencies :
       d.name = "fs2-turbo" /\ d.rename = "fs2_current" /\ d.from = "checkout" /\ d.plain
  /\ Cardinality(p.dependencies) = 2

\* What cargo reports of a workspace.  External: the registry holds no fs2-turbo
\* 0.4.3, whose first release is 1.0.0, and the manifest of this checkout names it.
ASSUME WorkspacesAssumption ==
  \A w \in Workspaces :
    /\ IsFiniteSet(w.packages)
    /\ \A p \in w.packages : p.targets \in Seq(ToSet(p.targets)) /\ IsFiniteSet(p.dependencies)
    /\ IsFiniteSet(w.resolved)
    /\ \A p \in w.resolved : p.name \in {"fs2", "fs2-turbo"} =>
         /\ p.source = "registry" /\ p.version = "0.4.3" => p.name = "fs2"
         /\ p.source = "path" /\ p.manifest = "checkout" => p.name = "fs2-turbo"

(***************************************************************************)
(* The command.                                                            *)
(***************************************************************************)

CompatibilityInit ==
  /\ workspace \in Workspaces
  /\ step = "consumer" /\ packages = <<>> /\ checked = 0 /\ ran = <<>>

\* A step passes when what it checks holds; a read or a command of it may fail.
Pass(here, holds, next) ==
  /\ step = here
  /\ \/ holds /\ step' = next
     \/ step' = "failed"
  /\ UNCHANGED <<workspace, packages, checked, ran>>

CheckConsumer == Pass("consumer", frozen_consumer_digest(workspace.consumer), "lock")
CheckLock == Pass("lock", validate_lockfile(workspace.lock), "toolchain")
toolchain_key == Pass("toolchain", TRUE, "format")
Format == Pass("format", workspace.consumer.formatted, "metadata")

compatibility_packages ==
  /\ step = "metadata"
  /\ \/ /\ validate_resolved_fs2(workspace.resolved)
        /\ validated_packages(workspace.packages)
        /\ packages' \in {s \in SetToSeqs(workspace.packages) :
                            \A i, j \in DOMAIN s :
                              i < j => s[i].rank < s[j].rank}
        /\ step' = "packages"
     \/ step' = "failed" /\ UNCHANGED packages
  /\ UNCHANGED <<workspace, checked, ran>>

validate_compatibility_packages ==
  Pass("packages", \A i \in DOMAIN packages : validate_compatibility_package(packages[i]),
       "dependencies")

CheckDependencies ==
  Pass("dependencies", \A i \in DOMAIN packages : validate_dependencies(packages[i]), "run")

\* run_consumers: every subject is checked, then every package is run with both.
CheckSubject ==
  /\ step = "run" /\ checked < Len(Subjects)
  /\ \/ checked' = checked + 1 /\ UNCHANGED step
     \/ step' = "failed" /\ UNCHANGED checked
  /\ UNCHANGED <<workspace, packages, ran>>

\* The runs that are to be made, package by package.
Runs ==
  LET subjects == Len(Subjects)
  IN  [n \in 1..(Len(packages) * subjects) |->
         <<packages[((n - 1) \div subjects) + 1], Subjects[((n - 1) % subjects) + 1]>>]

RunConsumer ==
  /\ step = "run" /\ checked = Len(Subjects) /\ Len(ran) < Len(Runs)
  /\ \/ ran' = Append(ran, Runs[Len(ran) + 1]) /\ UNCHANGED step
     \/ step' = "failed" /\ UNCHANGED ran
  /\ UNCHANGED <<workspace, packages, checked>>

Succeed ==
  /\ step = "run" /\ checked = Len(Subjects) /\ Len(ran) = Len(Runs)
  /\ step' = "passed"
  /\ UNCHANGED <<workspace, packages, checked, ran>>

CompatibilityNext ==
  \/ CheckConsumer \/ CheckLock \/ toolchain_key \/ Format
  \/ compatibility_packages \/ validate_compatibility_packages \/ CheckDependencies
  \/ CheckSubject \/ RunConsumer \/ Succeed

CompatibilitySpec == CompatibilityInit /\ [][CompatibilityNext]_compatibility_vars

-----------------------------------------------------------------------------

\* External: the packages cargo compiles for the dependencies a feature enables.
Linked(package, feature) ==
  {p \in workspace.resolved :
     \E d \in package.dependencies :
       /\ d.rename \in package.features[feature] /\ d.name = p.name
       /\ IF d.from = "registry" THEN p.source = "registry"
          ELSE p.source = "path" /\ p.manifest = d.from}

\* What a success promises: in every required edition the frozen consumer was run
\* against the release and against this checkout, and what cargo linked, through
\* the feature and the dependency it enables, was that one crate and no other;
\* and each pair was run once, after both subjects had been checked.
SuccessMeansCompared ==
  step = "passed" =>
    /\ workspace.consumer.text = "frozen"
    /\ \A edition \in RequiredEditions : \A subject \in ToSet(Subjects) :
         LET runs == {i \in DOMAIN ran :
                        ran[i][1].edition = edition /\ ran[i][2] = subject}
         IN /\ Cardinality(runs) = 1
            /\ \A i \in runs :
                 /\ \A t \in DOMAIN ran[i][1].targets : ran[i][1].targets[t].source = Consumer
                 /\ {[version |-> p.version, source |-> p.source, manifest |-> p.manifest] :
                       p \in Linked(ran[i][1], subject)}
                      \in IF subject = "legacy"
                          THEN {{[version |-> "0.4.3", source |-> "registry", manifest |-> m]} :
                                  m \in {p.manifest : p \in workspace.resolved}}
                          ELSE {{[version |-> v, source |-> "path", manifest |-> "checkout"]} :
                                  v \in {p.version : p \in workspace.resolved}}
    /\ checked = Len(Subjects)
=============================================================================
