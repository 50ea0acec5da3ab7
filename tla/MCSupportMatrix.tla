--------------------------- MODULE MCSupportMatrix ---------------------------
(* Registries of up to three targets, every way one thing of ci.yml or of an   *)
(* entry can be off, and lines of shell of up to eight words.                  *)
EXTENDS SupportMatrix

MCNative == [t \in {"linux", "mac"} |->
               IF t = "linux" THEN "ubuntu-latest" ELSE "macos-latest"]
MCRustVersion == <<"1.88.0">>

CI(job, runner, toolchains, coverage) ==
  <<[job |-> job, runner |-> runner, toolchains |-> toolchains, coverage |-> coverage]>>

Declared(target, evidence, allocation, ci) ==
  [target |-> target, platform |-> "p", evidence |-> evidence,
   allocation |-> allocation, ci |-> ci]

Runtime == <<"1.88.0", "stable">>
Linux(job) ==
  Declared("linux", "runtime", "physical-reservation", CI(job, "ubuntu-latest", Runtime, TRUE))
Mac == Declared("mac", "runtime", "unsupported", CI("check", "macos-latest", Runtime, FALSE))

\* Everything that may be said of one more target.
Others(jobs) ==
  {Declared(t, e, a, ci) :
     t \in {"bsd", "linux"}, e \in {"runtime", "compile", "not-covered"},
     a \in {"unsupported", "unknown"},
     ci \in {<<>>}
              \cup {CI(j, "ubuntu-latest", tc, c) :
                      j \in jobs, tc \in {<<>>, <<"1.88.0">>, <<"nightly">>, Runtime},
                      c \in BOOLEAN}}

Registry(targets) ==
  [version |-> 6, coverage_toolchain |-> PRIMARY_COVERAGE_TOOLCHAIN,
   evidence_levels |-> {"runtime", "compile", "not-covered"}, targets |-> targets]

Pairs(jobs) == {Registry(<<Linux("check"), other>>) : other \in Others(jobs)}
Registries(jobs) ==
  Pairs(jobs)
    \cup {Registry(<<other, Linux("check"), Mac>>) : other \in Others(jobs)}
    \cup {Registry(<<>>), Registry(<<Linux("a job")>>), [Registry(<<Linux("check")>>) EXCEPT !.version = 5],
          [Registry(<<Linux("check")>>) EXCEPT !.coverage_toolchain = "stable"],
          [Registry(<<Linux("check")>>) EXCEPT !.evidence_levels = {"runtime"}]}

\* Jobs and workflows.
None == [kind |-> "none"]
Job(matrix, steps) ==
  [permissions |-> FALSE, uses |-> <<>>, steps |-> steps, matrix |-> matrix]
Workflow(jobs) ==
  [permissions |-> "contents: read", jobs |-> jobs,
   on |-> {"workflow_dispatch", "monthly", "push", "pull_request"}]

JobsOf(registry) ==
  LET generated == matrices(registry)
  IN  [job \in DOMAIN generated |-> Job(Literal(generated[job]), <<>>)]
CIOf(registry) == Workflow(JobsOf(registry))

\* The ci.yml of a registry with one thing off.
Drifted(registry) ==
  LET good == CIOf(registry) IN
  {[good EXCEPT !.jobs[job].matrix = m] :
     job \in DOMAIN good.jobs,
     m \in {None, [kind |-> "fromJSON"], Literal(<<>>),
            [Literal(good.jobs["coverage"].matrix.include) EXCEPT !.keys = @ \cup {"exclude"}]}}
  \cup {[good EXCEPT !.jobs = [j \in DOMAIN @ \ {job} |-> @[j]]] : job \in DOMAIN good.jobs}
  \cup {[good EXCEPT !.jobs[job].permissions = TRUE] : job \in DOMAIN good.jobs}
  \cup {[good EXCEPT !.on = {"push"}], [good EXCEPT !.permissions = "write-all"]}

Release ==
  Workflow([j \in {"toolchains", "package", "dependencies"} |-> Job(None, <<>>)])

Entry(name, workflow) == [name |-> name, kind |-> "file", workflow |-> workflow]

\* A workflow of a single job.
Tools(job) == Workflow([j \in {"tools"} |-> job])
Plain == Tools(Job(None, <<>>))

Repository(registry, ci, tools) ==
  [alias |-> TRUE, registry |-> registry,
   entries |-> <<Entry("audit.yml", tools), Entry("ci.yml", ci),
                 Entry("release-gates.yml", Release)>>]

SomeRegistry == Registry(<<Linux("check")>>)
SomeCI == CIOf(SomeRegistry)

\* Words.
Word(text, programs) ==
  [text |-> text, tokens |-> programs, dollar |-> FALSE, quoted |-> FALSE,
   assigns |-> FALSE, flag |-> FALSE, syntax |-> FALSE, substitutes |-> FALSE,
   open |-> FALSE, bare |-> FALSE, before |-> <<>>]

W(text) == Word(text, {<<text>>})
Cargo == W("cargo")
Toolchain == W("+toolchain")
LockedFlag == [W("--locked") EXCEPT !.flag = TRUE]
Assign == [Word("", {<<"MODE">>, <<"ci">>}) EXCEPT !.assigns = TRUE]
Flag == [W("-i") EXCEPT !.flag = TRUE]
AndThen == [W("&&") EXCEPT !.syntax = TRUE]
PathCargo == Word("", {<<"opt", "bin", "cargo">>})
CargoExe == Word("", {<<"cargo.exe">>})
QuotedCargo == [Word("", {<<"cargo">>}) EXCEPT !.quoted = TRUE]
SplitCargo == Word("", {<<"cargo">>})                    \* c'a'rgo
Expansion == [Word("", {<<"TOOL">>}) EXCEPT !.dollar = TRUE, !.syntax = TRUE]
Substitution == [Word("", {<<"printf">>}) EXCEPT !.substitutes = TRUE, !.dollar = TRUE]
Open == [Word("", {<<"x">>}) EXCEPT !.open = TRUE, !.quoted = TRUE]
Bare == [Word("", {<<"matrix.target">>}) EXCEPT !.bare = TRUE, !.dollar = TRUE]

HashInside(text, word) == [W(text) EXCEPT !.before = <<word>>]

Programs == {Cargo, PathCargo, CargoExe, QuotedCargo, SplitCargo, Expansion, W("echo")}
Arguments == {W("test"), W("fmt"), Toolchain, LockedFlag, Substitution, Open, Bare, W("#"),
              HashInside("--locked#x", LockedFlag)}

Heads == {<<>>, <<Assign>>, <<W("env")>>, <<W("env"), Flag>>, <<W("exec"), Assign>>, <<Flag>>}
Run(n) == {<<p>> \o args : p \in Programs, args \in [1..n -> Arguments]}
Tails == {<<>>, <<AndThen, Cargo, W("test")>>, <<AndThen, W("echo")>>,
          <<W("#"), LockedFlag>>, <<HashInside("a#b", W("a")), AndThen, Cargo, W("test")>>,
          <<LockedFlag, AndThen, W("env"), PathCargo>>}

ReviewedLine ==
  [i \in DOMAIN REVIEWED_PACKAGE_LIST_COMMAND |->
     [W(REVIEWED_PACKAGE_LIST_COMMAND[i]) EXCEPT !.syntax = i > 4]]

\* S itself; TLC sorts a set to count it and then finds a member by halving.
LOCAL Sorted(S) == IF Cardinality(S) > 0 THEN S ELSE {}

\* A run of two arguments has something before it or behind it, not both.
Lines ==
  LET short == {h \o r \o t : h \in Heads, r \in Run(0) \cup Run(1), t \in Tails}
      headed == {h \o r : h \in Heads, r \in Run(2)}
      tailed == {r \o t : r \in Run(2), t \in Tails}
  IN  Sorted(Sorted(short) \cup headed) \cup tailed \cup {<<>>, ReviewedLine}

Step(uses, persist, run) == [uses |-> uses, persist |-> persist, run |-> run]
Action(repository, revision) == [repository |-> repository, revision |-> revision]

Audits ==
  {Repository(SomeRegistry, SomeCI,
              Tools(Job(None, <<Step(<<>>, "", <<<<W("echo")>>, line>>)>>))) : line \in Lines}
  \cup {Repository(SomeRegistry, SomeCI,
                   Tools([Job(None, <<Step(<<Action(r, v)>>, p, <<>>)>>) EXCEPT !.uses = u])) :
          r \in {"actions/checkout", "codecov/codecov-action", "other/action"},
          v \in {"tag", "commit", "reviewed"}, p \in {"", "true", "false"},
          u \in {<<>>, <<Action("actions/checkout", "tag")>>}}

\* Directories that hold something else, or not all.
Directories ==
  LET good == Repository(SomeRegistry, SomeCI, Plain) IN
  {[good EXCEPT !.entries[i].kind = k] : i \in 1..3, k \in {"link", "directory"}}
  \cup {[good EXCEPT !.entries = RemoveAt(@, i)] : i \in 1..3}
  \cup {[good EXCEPT !.entries = <<Entry("README", Plain)>> \o @],
        [good EXCEPT !.alias = FALSE],
        [good EXCEPT !.entries[3].workflow.on = {"push"}],
        [good EXCEPT !.entries[3].workflow.jobs = SomeCI.jobs]}

\* The ci.yml of a pair of targets, as it should be or off, and of the others.
Drifts(jobs) ==
  UNION {{Repository(r, ci, Plain) : ci \in Drifted(r)} : r \in Pairs(jobs)}
    \cup {Repository(r, CIOf(r), Plain) : r \in Registries(jobs)}

MCRepositories ==
  Sorted(Sorted(Drifts({"check", "cross"})) \cup Audits) \cup Directories

\* A target may also name the job of the coverage matrix.
CoverageJobRepositories == Drifts({"cross", "coverage"})
=============================================================================
