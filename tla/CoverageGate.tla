---------------------------- MODULE CoverageGate ----------------------------
(***************************************************************************)
(* The native coverage gate of fs2-dev (tools/fs2-dev/src/coverage.rs and  *)
(* coverage/source_locations.rs).  It reads four files a coverage build    *)
(* left behind, the LLVM exports of the combined, the unit and the         *)
(* integration profile and the combined LCOV report, decides whether the   *)
(* target's policy holds, and writes a diagnostics report.  The writer of  *)
(* a file may still be appending to it while the gate reads.               *)
(*                                                                         *)
(* A length counts lines of the LCOV report and equal pieces of an export. *)
(* A source file, a position, a function's name are values told apart only *)
(* by equality; the numbers of the policies are constants.                 *)
(***************************************************************************)
EXTENDS Naturals, FiniteSets, FiniteSetsExt, Sequences, SequencesExt, Functions

CONSTANTS
  Target,       \* the targets the gate may be asked about
  Windows,      \* the target with definitions of its own to execute
  Policy,       \* the minimums of each target that has a native policy
  Workspace,    \* the source files under src/ and tests/
  Intended,     \* INTENDED_INTEGRATION_DEFINITIONS: locations
  WindowsOnly,  \* WINDOWS_INTEGRATION_DEFINITIONS: locations
  Reviewed,     \* the reviewed gaps: <<target, location>> -> symbol fragment
  Limit,        \* MAX_COVERAGE_INPUT_BYTES
  Disks         \* what the four files may hold and how far they are written

Profile == <<"combined", "unit", "integration">>
Input == Profile \o <<"lcov">>

VARIABLES
  target,    \* the --target argument
  disk,      \* input -> [regular, size, written, data]
  turn,      \* how many inputs are loaded
  measured,  \* the length the open file had, or Unopened
  contents,  \* input -> length of the text that was read
  whole,     \* history: input -> length of the file when its end was reached
  verdict,   \* "running", "checked", "passed", "failed"
  report     \* the diagnostics report: [state, records]

coverage_vars == <<target, disk, turn, measured, contents, whole, verdict, report>>

Unopened == Limit + 2

(***************************************************************************)
(* Reading: what a definition is, and the groups of a profile.             *)
(***************************************************************************)

\* A path under src/ or tests/, with either separator and with or without a
\* leading "./", is a workspace path under one spelling.
normalize_source_path(filename) ==
  IF filename.source \in Workspace THEN filename.source ELSE "external"

\* A region is [at, kind]: "short" lacks the eighth field, which holds the kind.
CodeRegions(function) ==
  {i \in DOMAIN function.regions : function.regions[i].kind = "code"}

\* Whether the entry names a definition of the workspace at all.
IsDefinition(function) ==
  /\ function.filenames # <<>>
  /\ normalize_source_path(function.filenames[1]) # "external"
  /\ CodeRegions(function) # {}

MalformedRegion(function) ==
  /\ IsDefinition(function)
  /\ \E i \in DOMAIN function.regions : function.regions[i].kind = "short"

definition_key(function) ==
  [filename |-> normalize_source_path(function.filenames[1]),
   start    |-> function.regions[Min(CodeRegions(function))].at,
   regions  |-> function.regions]

definition_id(key) == <<key.filename, key.start>>

\* The definitions of a profile, each with its entries: how many there are, how
\* many were executed, and under which symbols.
definition_groups(functions) ==
  LET definitions == {f \in functions : IsDefinition(f)}
      Entries(key) == {f \in definitions : definition_key(f) = key}
  IN  [key \in {definition_key(f) : f \in definitions} |->
         [entries         |-> Cardinality(Entries(key)),
          covered_entries |-> Cardinality({f \in Entries(key) : f.count # 0}),
          symbols         |-> {f.name : f \in Entries(key)}]]

\* A metric with more covered entries than entries is refused.
uncovered(metric) == metric.covered <= metric.count

Complete(metric) == metric.covered = metric.count

instantiation_diagnostics(data) ==
  /\ ~\E f \in data.functions : MalformedRegion(f)
  /\ \A metric \in data.files : uncovered(metric)

(***************************************************************************)
(* The LCOV report: a sequence of lines [tag, ...].                        *)
(***************************************************************************)

NoSource == ""

\* One line of the report against what the lines before it say.
lcov_line(state, line) ==
  IF ~state.ok THEN state
  ELSE IF line.tag = "SF"
    THEN [state EXCEPT !.ok = line.path # "", !.source = line.path]
  ELSE IF line.tag \in {"DA", "bad DA"}
    THEN LET key == <<state.source, line.line>>
             count == IF key \in DOMAIN state.lines
                      THEN Max({state.lines[key], line.count}) ELSE line.count
         IN [state EXCEPT
               !.ok = line.tag = "DA" /\ state.source # NoSource,
               !.lines = [k \in DOMAIN @ \cup {key} |->
                            IF k = key THEN count ELSE @[k]]]
  ELSE IF line.tag = "end_of_record" THEN [state EXCEPT !.source = NoSource]
  ELSE state

\* What the report says after each number of its lines.
lcov_states(text) ==
  LET state[n \in 0..Len(text)] ==
        IF n = 0 THEN [ok |-> TRUE, source |-> NoSource, lines |-> <<>>]
        ELSE lcov_line(state[n - 1], text[n])
  IN  state

parse_lcov(text) ==
  LET end == lcov_states(text)[Len(text)]
  IN  [ok      |-> end.ok /\ DOMAIN end.lines # {},
       count   |-> Cardinality(DOMAIN end.lines),
       covered |-> Cardinality({k \in DOMAIN end.lines : end.lines[k] # 0})]

(***************************************************************************)
(* The policies.                                                           *)
(***************************************************************************)

policy_for_target(t) == t \in DOMAIN Policy

\* An export is usable when it has LLVM's type and one data set.
single_data(export) ==
  export.kind = "llvm.coverage.json.export" /\ Len(export.data) = 1

validate(policy, totals, physical_lines) ==
  /\ physical_lines.count >= policy.unique_lines
  /\ Complete(physical_lines)
  /\ totals.lines.count >= policy.aggregate_lines
  /\ uncovered(totals.lines) /\ Complete(totals.lines)
  /\ totals.regions.count >= policy.regions
  /\ uncovered(totals.regions) /\ Complete(totals.regions)
  /\ totals.functions.count >= policy.functions
  /\ uncovered(totals.functions) /\ Complete(totals.functions)
  /\ uncovered(totals.instantiations)

validate_unit_instantiation_completeness(instantiations) ==
  instantiations.count # 0 /\ Complete(instantiations)

validate_source_definition_completeness(groups) ==
  \A key \in DOMAIN groups : groups[key].covered_entries # 0

validate_intended_integration_definitions(intended, groups) ==
  \A location \in intended :
    \E key \in DOMAIN groups :
      definition_id(key) = location /\ groups[key].covered_entries # 0

unit_owned(unit_groups, key) ==
  key \in DOMAIN unit_groups /\ unit_groups[key].covered_entries # 0

validate_integration_instantiations(t, unit_groups, groups) ==
  /\ validate_intended_integration_definitions(Intended, groups)
  /\ t = Windows => validate_intended_integration_definitions(WindowsOnly, groups)
  /\ \A key \in DOMAIN groups :
       groups[key].covered_entries = 0 => unit_owned(unit_groups, key)

\* A location groups the topologies of one definition: it is executed when one
\* of them is.
Members(groups, location) == {k \in DOMAIN groups : definition_id(k) = location}

Locations(groups) == {definition_id(k) : k \in DOMAIN groups}

Executed(groups, location) ==
  \E k \in Members(groups, location) : groups[k].covered_entries # 0

\* Mutant: a reviewed gap counts for whatever now stands at the place.
reviewed_gap_byPlace(t, location, groups) == <<t, location>> \in DOMAIN Reviewed

\* A reviewed gap counts for the symbols it was reviewed with.
reviewed_gap(t, location, groups) ==
  /\ <<t, location>> \in DOMAIN Reviewed
  /\ \A k \in Members(groups, location) :
       groups[k].symbols = {Reviewed[<<t, location>>]}

\* SourceLocationExecutionUnion: summarize and validate.
validate_locations(t, profile, groups, unit_groups) ==
  /\ Locations(groups) # {}
  /\ profile = "integration" =>
       \A location \in Locations(groups) :
         \/ Executed(groups, location)
         \/ /\ \A k \in Members(groups, location) : unit_owned(unit_groups, k)
            /\ reviewed_gap(t, location, groups)

\* Mutant: the share of executed entries is looked at before whether there is one.
ownership_asymmetricFirst(state) ==
  IF state.covered_entries < state.entries THEN "compiler-asymmetric" ELSE "covered"

ownership(state) ==
  IF state.covered_entries = 0 THEN "private-unit"
  ELSE IF state.covered_entries < state.entries THEN "compiler-asymmetric"
  ELSE "covered"

\* The inputs are four files, each written up to its size at most; a profile has
\* finitely many entries, and a report is a sequence of lines whose counts are
\* natural numbers.
ASSUME InputsAssumption ==
  /\ Limit \in Nat
  /\ \A d \in Disks :
       /\ DOMAIN d = ToSet(Input)
       /\ \A i \in ToSet(Input) :
            /\ DOMAIN d[i] = {"regular", "size", "written", "data"}
            /\ d[i].size \in Nat /\ d[i].written \in 0..d[i].size
       /\ \A p \in ToSet(Profile) :
            single_data(d[p].data) => IsFiniteSet(d[p].data.data[1].functions)
       /\ d["lcov"].data \in Seq(ToSet(d["lcov"].data)) /\ d["lcov"].size = Len(d["lcov"].data)
       /\ \A line \in ToSet(d["lcov"].data) : line.tag = "DA" => line.count \in Nat

(***************************************************************************)
(* The gate.                                                               *)
(***************************************************************************)

CoverageInit ==
  /\ target \in Target
  /\ disk \in Disks
  /\ turn = 0
  /\ measured = Unopened
  /\ contents = <<>>
  /\ whole = <<>>
  /\ verdict = "running"
  /\ report = [state |-> "earlier", records |-> {}]

\* What an input says, given the length of it that was read: an export cut short
\* is no JSON, a report cut short is a report of fewer lines.
Lcov(length) == SubSeq(disk["lcov"].data, 1, length)
Data(profile) == disk[profile].data.data[1]
Groups(profile) == definition_groups(Data(profile).functions)

Parses(input, length) ==
  IF input = "lcov" THEN parse_lcov(Lcov(length)).ok
  ELSE /\ length = disk[input].size
       /\ disk[input].data.kind = "llvm.coverage.json.export"

validate_coverage_input(regular, length) == regular /\ length <= Limit

\* A file is opened and measured: policy_for_target comes before the first.
\* Either call may fail by itself.
Measure ==
  /\ verdict = "running" /\ turn < Len(Input) /\ measured = Unopened
  /\ LET file == disk[Input[turn + 1]]
     IN \/ /\ policy_for_target(target)
           /\ validate_coverage_input(file.regular, file.written)
           /\ measured' = file.written /\ UNCHANGED verdict
        \/ verdict' = "failed" /\ UNCHANGED measured
  /\ UNCHANGED <<target, disk, turn, contents, whole, report>>

\* Mutant: the reader stops at the limit instead of one past it.
bounded_exactly(written) == Min({written, Limit})

bounded(written) == Min({written, Limit + 1})

\* It is read up to one past the limit, checked again and parsed; the read may
\* fail by itself.
read_coverage_text ==
  /\ verdict = "running" /\ measured # Unopened
  /\ LET input == Input[turn + 1]
         length == bounded(disk[input].written)
     IN /\ \/ /\ validate_coverage_input(TRUE, length) /\ Parses(input, length)
              /\ turn' = turn + 1 /\ UNCHANGED verdict
           \/ verdict' = "failed" /\ UNCHANGED turn
        /\ contents' = [i \in DOMAIN contents \cup {input} |->
                          IF i = input THEN length ELSE contents[i]]
        /\ whole' = [i \in DOMAIN whole \cup {input} |->
                       IF i = input THEN disk[input].written ELSE whole[i]]
  /\ measured' = Unopened
  /\ UNCHANGED <<target, disk, report>>

\* External: whoever writes an input appends a piece of it.
Grow(input) ==
  /\ verdict = "running" /\ disk[input].written < disk[input].size
  /\ disk' = [disk EXCEPT ![input].written = @ + 1]
  /\ UNCHANGED <<target, turn, measured, contents, whole, verdict, report>>

\* The checks of run, up to the writing of the report.
Accepted ==
  /\ \A i \in DOMAIN Profile : single_data(disk[Profile[i]].data)
  /\ validate(Policy[target], Data("combined").totals, parse_lcov(Lcov(contents["lcov"])))
  /\ \A i \in DOMAIN Profile : instantiation_diagnostics(Data(Profile[i]))
  /\ validate_unit_instantiation_completeness(Data("unit").totals.instantiations)
  /\ validate_source_definition_completeness(Groups("combined"))
  /\ validate_source_definition_completeness(Groups("unit"))
  /\ validate_integration_instantiations(target, Groups("unit"), Groups("integration"))

LocationsAccepted ==
  \A i \in DOMAIN Profile :
    validate_locations(target, Profile[i], Groups(Profile[i]), Groups("unit"))

Check ==
  /\ verdict = "running" /\ turn = Len(Input)
  /\ verdict' = IF Accepted /\ LocationsAccepted THEN "checked" ELSE "failed"
  /\ UNCHANGED <<target, disk, turn, measured, contents, whole, report>>

\* The records of the report: every definition of every profile.
Records ==
  UNION {{[profile |-> p, key |-> k, ownership |-> ownership(Groups(p)[k])] :
            k \in DOMAIN Groups(p)} : p \in ToSet(Profile)}

\* fs::write truncates the report and fills it: it may fail after the first.
write_diagnostics_report ==
  /\ verdict = "checked"
  /\ \/ report' = [state |-> "new", records |-> Records] /\ verdict' = "passed"
     \/ /\ \E s \in {"earlier", "torn"} : report' = [report EXCEPT !.state = s]
        /\ verdict' = "failed"
  /\ UNCHANGED <<target, disk, turn, measured, contents, whole>>

CoverageNext ==
  \/ Measure \/ read_coverage_text \/ Check \/ write_diagnostics_report
  \/ \E input \in ToSet(Input) : Grow(input)

CoverageSpec == CoverageInit /\ [][CoverageNext]_coverage_vars

-----------------------------------------------------------------------------
(***************************************************************************)
(* Properties.                                                             *)
(***************************************************************************)

\* What the gate accepts of an input is all of it: the text that was read is the
\* file as it was when its end was reached, however it grew since it was
\* measured, and never a prefix that the bound of the read cut off.
InputsAreWhole ==
  \A i \in 1..turn : contents[Input[i]] = whole[Input[i]]

\* Whether an entry of a profile executed the definition of entry f.
RunsIn(profile, f) ==
  \E g \in Data(profile).functions :
    /\ IsDefinition(g) /\ g.count # 0
    /\ definition_key(g) = definition_key(f)

\* The sources and positions of the entries, told without their topologies.
At(f) == definition_id(definition_key(f))

\* The source the LCOV line i belongs to: the last SF with no end of record since.
SourceOf(text, i) ==
  LET opened == {j \in 1..i : text[j].tag = "SF"
                              /\ \A k \in j..i : text[k].tag # "end_of_record"}
  IN  IF opened = {} THEN NoSource ELSE text[Max(opened)].path

\* What a pass promises, told from the entries and the lines themselves: every
\* definition of the combined and the unit profile was executed in it; every
\* definition of the integration profile was executed there or, the very same
\* topology, in the unit profile; a location none of whose topologies the
\* integration tests execute is one reviewed for this target under these
\* symbols; every intended definition was executed by the integration tests; and
\* every line any record names was executed according to some record.
PassMeansExecuted ==
  verdict = "passed" =>
    /\ \A p \in {"combined", "unit"} : \A f \in Data(p).functions :
         IsDefinition(f) => RunsIn(p, f)
    /\ \A f \in Data("integration").functions : IsDefinition(f) =>
         /\ RunsIn("integration", f) \/ RunsIn("unit", f)
         /\ \/ \E g \in Data("integration").functions :
                 IsDefinition(g) /\ At(g) = At(f) /\ g.count # 0
            \/ /\ <<target, At(f)>> \in DOMAIN Reviewed
               /\ f.name = Reviewed[<<target, At(f)>>]
    /\ \A location \in Intended \cup (IF target = Windows THEN WindowsOnly ELSE {}) :
         \E f \in Data("integration").functions :
           IsDefinition(f) /\ At(f) = location /\ f.count # 0
    /\ LET text == Lcov(contents["lcov"])
           Counts == {i \in DOMAIN text : text[i].tag = "DA"}
       IN \A i \in Counts : \E j \in Counts :
            /\ SourceOf(text, j) = SourceOf(text, i)
            /\ text[j].line = text[i].line /\ text[j].count # 0

\* What the report says is so: a definition called private to the unit profile
\* was executed there and nowhere in its own, an asymmetric one by some of its
\* entries and a covered one by all.  A gate that fails leaves no new report.
ReportIsTrue ==
  /\ report.state = "new" <=> verdict = "passed"
  /\ \A r \in report.records :
       LET Entries == {f \in Data(r.profile).functions :
                         IsDefinition(f) /\ definition_key(f) = r.key}
           run == {f \in Entries : f.count # 0}
       IN CASE r.ownership = "private-unit" ->
                 run = {} /\ \A f \in Entries : RunsIn("unit", f)
            [] r.ownership = "compiler-asymmetric" -> run # {} /\ run # Entries
            [] r.ownership = "covered" -> run = Entries
=============================================================================
