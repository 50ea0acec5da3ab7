--------------------------- MODULE DevToolProofs ---------------------------
(***************************************************************************)
(* What the three gates of fs2-dev promise, for inputs of every size, any  *)
(* policies, registries and workflows: a coverage gate that passes has     *)
(* read all it decided on and everything it counts was executed; a matrix  *)
(* that is handed over is the one the workflows run, and they run cargo    *)
(* with its lock file only; a compatibility check that succeeds has        *)
(* compared what it says.                                                  *)
(***************************************************************************)
EXTENDS DevTool, FiniteSetTheorems, SequenceTheorems, WellFoundedInduction, TLAPS

(* A set of natural numbers that is not empty has a least element. *)
LEMMA LeastNatural ==
    ASSUME NEW T, T \subseteq Nat, T # {}
    PROVE  \E x \in T : \A y \in T : x <= y
<1>1. PICK x \in T : \A y \in T : ~ (<<y, x>> \in OpToRel(<, Nat))
  BY NatLessThanWellFounded, WFMin
<1>2. ASSUME NEW y \in T PROVE x <= y
  <2>1. y \in Nat /\ x \in Nat /\ <<y, x>> \in Nat \X Nat
    BY <1>2
  <2>2. ~(y < x)
    BY <1>1, <2>1 DEF OpToRel
  <2>q. QED BY <2>1, <2>2
<1>q. QED BY <1>2

-----------------------------------------------------------------------------
(***************************************************************************)
(* The coverage gate.                                                      *)
(***************************************************************************)
ProfileSet == {"combined", "unit", "integration"}
InputSet == ProfileSet \cup {"lcov"}

(* The inputs are four, in one order. *)
LEMMA InputFact ==
    /\ Len(Input) = 4
    /\ \A i \in 1 .. 4 : Input[i] \in InputSet
    /\ \A i, j \in 1 .. 4 : Input[i] = Input[j] => i = j
    /\ Input[4] = "lcov"
    /\ ToSet(Input) = InputSet
    /\ ToSet(Profile) = ProfileSet
<1>1. /\ Profile \in Seq(InputSet) /\ <<"lcov">> \in Seq(InputSet)
      /\ Len(Profile) = 3 /\ Len(<<"lcov">>) = 1
      /\ Profile[1] = "combined" /\ Profile[2] = "unit" /\ Profile[3] = "integration"
  BY DEF Profile, InputSet, ProfileSet
<1>2. PICK s, t \in Seq(InputSet) : s = Profile /\ t = <<"lcov">>
  BY <1>1
<1>3. /\ Len(Input) = 4
      /\ Input[1] = "combined" /\ Input[2] = "unit" /\ Input[3] = "integration"
      /\ Input[4] = "lcov" /\ Input \in Seq(InputSet)
  <2>1. Input = s \o t
    BY <1>2 DEF Input
  <2>2. /\ s \o t \in Seq(InputSet) /\ Len(s \o t) = Len(s) + Len(t)
        /\ \A i \in 1 .. Len(s) + Len(t) :
              (s \o t)[i] = IF i <= Len(s) THEN s[i] ELSE t[i - Len(s)]
    BY ConcatProperties
  <2>3. Len(s) = 3 /\ Len(t) = 1 /\ t[1] = "lcov"
    BY <1>1, <1>2
  <2>4. 1 \in 1 .. 4 /\ 2 \in 1 .. 4 /\ 3 \in 1 .. 4 /\ 4 \in 1 .. 4
    OBVIOUS
  <2>5. /\ (s \o t)[1] = s[1] /\ (s \o t)[2] = s[2] /\ (s \o t)[3] = s[3]
        /\ (s \o t)[4] = t[1]
    BY <2>2, <2>3, <2>4
  <2>6. s[1] = "combined" /\ s[2] = "unit" /\ s[3] = "integration"
    BY <1>1, <1>2
  <2>7. Len(s \o t) = 4
    BY <2>2, <2>3
  <2>q. QED BY <2>1, <2>2, <2>3, <2>5, <2>6, <2>7, Zenon
<1>4. \A i \in 1 .. 4 : i = 1 \/ i = 2 \/ i = 3 \/ i = 4
  OBVIOUS
<1>5. \A i \in 1 .. 4 : Input[i] \in InputSet
  BY <1>3, <1>4 DEF InputSet, ProfileSet
<1>6. \A i, j \in 1 .. 4 : Input[i] = Input[j] => i = j
  BY <1>3, <1>4
<1>7. ToSet(Input) = InputSet
  BY <1>3, <1>4 DEF ToSet, InputSet, ProfileSet
<1>8. ToSet(Profile) = ProfileSet
  BY <1>1 DEF ToSet, ProfileSet
<1>q. QED BY <1>3, <1>5, <1>6, <1>7, <1>8

(* What is read is the whole file, or one past the limit. *)
LEMMA BoundedFact ==
    ASSUME NEW written \in Nat, bounded(written) <= Limit
    PROVE  bounded(written) = written
<1> DEFINE S == {written, Limit + 1}
<1>1. \E x \in S : \A y \in S : x <= y
  BY InputsAssumption
<1>2. Min(S) \in S /\ \A y \in S : Min(S) <= y
  BY <1>1 DEF Min
<1>3. bounded(written) = Min(S)
  BY DEF bounded
<1>q. QED BY <1>2, <1>3, InputsAssumption

-----------------------------------------------------------------------------
(* The files keep their shape while they grow. *)
Files ==
    /\ DOMAIN disk = InputSet
    /\ \A i \in InputSet :
         /\ DOMAIN disk[i] = {"regular", "size", "written", "data"}
         /\ disk[i].size \in Nat /\ disk[i].written \in 0 .. disk[i].size
    /\ \A p \in ProfileSet :
         single_data(disk[p].data) => IsFiniteSet(disk[p].data.data[1].functions)
    /\ LET text == disk["lcov"].data IN
         /\ text \in Seq(ToSet(text)) /\ disk["lcov"].size = Len(text)
         /\ \A line \in ToSet(text) : line.tag = "DA" => line.count \in Nat

(* What was accepted is all there was. *)
Whole(input) ==
    /\ input \in DOMAIN contents \cap DOMAIN whole
    /\ contents[input] = whole[input] /\ contents[input] \in 0 .. disk[input].size

Loaded ==
    /\ turn \in 0 .. 4 /\ (measured # Unopened => turn < 4)
    /\ \A i \in 1 .. turn : Whole(Input[i])
    /\ turn = 4 => parse_lcov(Lcov(contents["lcov"])).ok

(* Before the gate passes there is no new report. *)
Reported ==
    /\ verdict \in {"running", "checked", "passed", "failed"}
    /\ verdict \in {"checked", "passed"} => turn = 4 /\ Accepted /\ LocationsAccepted
    /\ verdict # "passed" =>
         \E s \in {"earlier", "torn"} : report = [state |-> s, records |-> {}]
    /\ ReportIsTrue

CoverageInv == Files /\ Loaded /\ Reported

-----------------------------------------------------------------------------
(* The entries of a definition, and those that were executed. *)
EntriesOf(functions, key) == {f \in functions : IsDefinition(f) /\ definition_key(f) = key}
RunOf(functions, key) == {f \in EntriesOf(functions, key) : f.count # 0}

(* A group counts the entries of its definition. *)
LEMMA GroupFact ==
    ASSUME NEW functions, IsFiniteSet(functions),
           NEW key \in DOMAIN definition_groups(functions)
    PROVE  LET group == definition_groups(functions)[key] IN
           /\ group.covered_entries = 0 <=> RunOf(functions, key) = {}
           /\ group.covered_entries < group.entries <=>
                 RunOf(functions, key) # EntriesOf(functions, key)
<1> DEFINE group == definition_groups(functions)[key]
           definitions == {f \in functions : IsDefinition(f)}
           entries == EntriesOf(functions, key)
           run == RunOf(functions, key)
<1>1. /\ {f \in definitions : definition_key(f) = key} = entries
      /\ {f \in {g \in definitions : definition_key(g) = key} : f.count # 0} = run
  BY DEF EntriesOf, RunOf
<1>2. group.entries = Cardinality(entries) /\ group.covered_entries = Cardinality(run)
  BY <1>1 DEF definition_groups
<1>3. IsFiniteSet(entries) /\ IsFiniteSet(run) /\ run \in SUBSET entries
  <2>1. entries \in SUBSET functions /\ run \in SUBSET functions /\ run \in SUBSET entries
    BY DEF EntriesOf, RunOf
  <2>q. QED BY <2>1, FS_Subset
<1>4. Cardinality(run) = 0 <=> run = {}
  BY <1>3, FS_EmptySet
<1>5. /\ Cardinality(run) <= Cardinality(entries)
      /\ Cardinality(entries) = Cardinality(run) => entries = run
  BY <1>3, FS_Subset
<1>6. PICK m, n \in Nat : m = Cardinality(run) /\ n = Cardinality(entries)
  BY <1>3, FS_CardinalityType
<1>7. m < n <=> run # entries
  BY <1>5, <1>6
<1>q. QED BY <1>2, <1>4, <1>6, <1>7

(* An accepted profile is one finite data set. *)
LEMMA AcceptedIsFinite ==
    ASSUME Files, Accepted, NEW p \in ProfileSet
    PROVE  IsFiniteSet(Data(p).functions)
<1>1. PICK i \in DOMAIN Profile : Profile[i] = p
  BY InputFact DEF ToSet
<1>2. single_data(disk[p].data)
  BY <1>1 DEF Accepted
<1>q. QED BY <1>2 DEF Files, Data

(* A definition that the unit profile owns is one it executed. *)
LEMMA UnitOwns ==
    ASSUME Files, Accepted, NEW f, unit_owned(Groups("unit"), definition_key(f))
    PROVE  RunsIn("unit", f)
<1>0. IsFiniteSet(Data("unit").functions)
  BY AcceptedIsFinite DEF ProfileSet
<1>1. PICK functions : functions = Data("unit").functions
  OBVIOUS
<1>2. PICK key : key = definition_key(f)
  OBVIOUS
<1>3. /\ IsFiniteSet(functions) /\ key \in DOMAIN definition_groups(functions)
      /\ definition_groups(functions)[key].covered_entries # 0
  BY <1>0, <1>1, <1>2 DEF unit_owned, Groups
<1>4. RunOf(functions, key) # {}
  BY <1>3, GroupFact
<1>q. QED BY <1>1, <1>2, <1>4 DEF RunsIn, RunOf, EntriesOf

(* What the report calls a definition is so. *)
LEMMA RecordIsTrue ==
    ASSUME Files, Accepted, NEW p \in ProfileSet, NEW key \in DOMAIN Groups(p),
           NEW functions, functions = Data(p).functions,
           NEW kind, kind = ownership(Groups(p)[key])
    PROVE  /\ kind \in {"private-unit", "compiler-asymmetric", "covered"}
           /\ kind = "private-unit" =>
                 /\ RunOf(functions, key) = {}
                 /\ \A f \in EntriesOf(functions, key) : RunsIn("unit", f)
           /\ kind = "compiler-asymmetric" =>
                 /\ RunOf(functions, key) # {}
                 /\ RunOf(functions, key) # EntriesOf(functions, key)
           /\ kind = "covered" => RunOf(functions, key) = EntriesOf(functions, key)
<1>0. PICK group : group = Groups(p)[key]
  OBVIOUS
<1>1. /\ group.covered_entries = 0 <=> RunOf(functions, key) = {}
      /\ group.covered_entries < group.entries <=>
            RunOf(functions, key) # EntriesOf(functions, key)
  <2>1. /\ IsFiniteSet(functions) /\ key \in DOMAIN definition_groups(functions)
        /\ group = definition_groups(functions)[key]
    BY <1>0, AcceptedIsFinite DEF Groups
  <2>q. QED BY <2>1, GroupFact
<1>2. CASE group.covered_entries = 0
  <2>1. p = "integration"
    BY <1>0, <1>2 DEF Accepted, validate_source_definition_completeness, ProfileSet
  <2>2. unit_owned(Groups("unit"), key)
    BY <1>0, <1>2, <2>1 DEF Accepted, validate_integration_instantiations
  <2>3. \A f \in EntriesOf(functions, key) : RunsIn("unit", f)
    BY <2>2, UnitOwns DEF EntriesOf
  <2>q. QED BY <1>0, <1>1, <1>2, <2>3 DEF ownership
<1>3. CASE group.covered_entries # 0
  BY <1>0, <1>1, <1>3 DEF ownership
<1>q. QED BY <1>2, <1>3

-----------------------------------------------------------------------------
(* The invariant holds at the start. *)
LEMMA CoverageInitHolds == CoverageInit => CoverageInv
<1> SUFFICES ASSUME CoverageInit PROVE CoverageInv
  OBVIOUS
<1>1. Files
  BY InputFact, InputsAssumption DEF CoverageInit, Files, InputSet
<1>2. Loaded
  BY DEF CoverageInit, Loaded
<1>3. Reported
  BY DEF CoverageInit, Reported, ReportIsTrue
<1>q. QED BY <1>1, <1>2, <1>3 DEF CoverageInv

(* The files stay, or one of them grows. *)
LEMMA FilesKept ==
    ASSUME Files, [CoverageNext]_coverage_vars
    PROVE  /\ Files'
           /\ \A i \in InputSet : disk'[i].data = disk[i].data /\ disk'[i].size = disk[i].size
<1>1. CASE UNCHANGED disk
  BY <1>1 DEF Files
<1>2. ASSUME NEW input \in InputSet, Grow(input)
      PROVE  /\ Files'
             /\ \A i \in InputSet : disk'[i].data = disk[i].data /\ disk'[i].size = disk[i].size
  <2>1. disk' = [disk EXCEPT ![input].written = @ + 1] /\ disk[input].written < disk[input].size
    BY <1>2 DEF Grow
  <2>2. DOMAIN disk' = InputSet
    BY <2>1 DEF Files
  <2>3. ASSUME NEW i \in InputSet
        PROVE  /\ DOMAIN disk'[i] = {"regular", "size", "written", "data"}
               /\ disk'[i].size \in Nat /\ disk'[i].written \in 0 .. disk'[i].size
               /\ disk'[i].data = disk[i].data /\ disk'[i].size = disk[i].size
    <3>1. /\ DOMAIN disk[i] = {"regular", "size", "written", "data"}
          /\ disk[i].size \in Nat /\ disk[i].written \in 0 .. disk[i].size
      BY DEF Files
    <3>2. CASE i = input
      <4>1. disk'[i] = [disk[i] EXCEPT !.written = @ + 1]
        BY <2>1, <3>2 DEF Files
      <4>2. disk[i].written + 1 \in 0 .. disk[i].size
        BY <2>1, <3>1, <3>2
      <4>q. QED BY <3>1, <4>1, <4>2
    <3>3. CASE i # input
      BY <2>1, <3>1, <3>3 DEF Files
    <3>q. QED BY <3>2, <3>3
  <2>q. QED BY <2>2, <2>3 DEF Files, InputSet
<1>q. QED BY <1>1, <1>2, InputFact
          DEF CoverageNext, Measure, read_coverage_text, Check, write_diagnostics_report, coverage_vars

(* A read that is accepted has reached the end of its file. *)
LEMMA ReadLoads ==
    ASSUME Files, Loaded, read_coverage_text
    PROVE  Loaded'
<1>1. turn \in 0 .. 3 /\ turn + 1 \in 1 .. 4 /\ disk' = disk
  BY DEF Loaded, read_coverage_text
<1>2. PICK input : input = Input[turn + 1]
  OBVIOUS
<1>3. PICK length : length = bounded(disk[input].written)
  OBVIOUS
<1>4. /\ input \in InputSet /\ disk[input].size \in Nat
      /\ disk[input].written \in Nat /\ disk[input].written \in 0 .. disk[input].size
  BY <1>1, <1>2, InputFact DEF Files
<1>5. /\ contents' = [i \in DOMAIN contents \cup {input} |->
                        IF i = input THEN length ELSE contents[i]]
      /\ whole' = [i \in DOMAIN whole \cup {input} |->
                     IF i = input THEN disk[input].written ELSE whole[i]]
      /\ measured' = Unopened /\ Unopened' = Unopened
      /\ \/ turn' = turn + 1 /\ length <= Limit /\ Parses(input, length)
         \/ turn' = turn
  BY <1>2, <1>3 DEF read_coverage_text, validate_coverage_input, Unopened
<1>6. ASSUME NEW j \in 1 .. turn PROVE Whole(Input[j])'
  <2>1. Whole(Input[j])
    BY <1>1 DEF Loaded
  <2>2. PICK i : i = Input[j]
    OBVIOUS
  <2>3. i # input /\ Input'[j] = i
    BY <1>1, <1>2, <2>2, InputFact DEF Input, Profile
  <2>q. QED BY <1>1, <1>5, <2>1, <2>2, <2>3 DEF Whole
<1>7. CASE turn' = turn
  BY <1>1, <1>5, <1>6, <1>7 DEF Loaded
<1>8. CASE turn' = turn + 1 /\ length <= Limit /\ Parses(input, length)
  <2>1. length = disk[input].written
    BY <1>3, <1>4, <1>8, BoundedFact
  <2>2. Whole(input)'
    BY <1>1, <1>4, <1>5, <2>1 DEF Whole
  <2>3. \A j \in 1 .. turn' : j \in 1 .. turn \/ j = turn + 1
    BY <1>1, <1>8
  <2>4. \A j \in 1 .. turn' : Whole(Input[j])'
    BY <1>2, <1>6, <2>2, <2>3 DEF Input, Profile
  <2>5. turn' \in 0 .. 4
    BY <1>1, <1>8
  <2>6. turn' = 4 => parse_lcov(Lcov(contents["lcov"]))'.ok
    <3>1. SUFFICES ASSUME turn' = 4 PROVE parse_lcov(Lcov(contents["lcov"]))'.ok
      OBVIOUS
    <3>2. input = "lcov"
      BY <1>1, <1>2, <1>8, <3>1, InputFact
    <3>3. contents'["lcov"] = length /\ Lcov(length)' = Lcov(length)
      BY <1>1, <1>5, <3>2 DEF Lcov
    <3>4. parse_lcov(Lcov(length)).ok
      BY <1>8, <3>2 DEF Parses
    <3>q. QED BY <3>3, <3>4 DEF Lcov
  <2>q. QED BY <1>5, <2>4, <2>5, <2>6 DEF Loaded
<1>q. QED BY <1>5, <1>7, <1>8

LEMMA LoadedKept ==
    ASSUME Files, Loaded, [CoverageNext]_coverage_vars
    PROVE  Loaded'
<1>1. CASE read_coverage_text
  BY <1>1, ReadLoads
<1>2. ASSUME UNCHANGED <<turn, contents, whole>>, measured' # Unopened' => turn < 4
      PROVE  Loaded'
  <2>1. ASSUME NEW j \in 1 .. turn PROVE Whole(Input[j])'
    <3>1. Whole(Input[j]) /\ Input[j] \in InputSet
      BY InputFact DEF Loaded
    <3>2. PICK i : i = Input[j] /\ i = Input'[j]
      BY DEF Input, Profile
    <3>q. QED BY <1>2, <3>1, <3>2, FilesKept DEF Whole
  <2>2. disk'["lcov"].data = disk["lcov"].data
    BY FilesKept DEF InputSet
  <2>3. turn' = 4 => parse_lcov(Lcov(contents["lcov"]))'.ok
    BY <1>2, <2>2 DEF Loaded, Lcov
  <2>q. QED BY <1>2, <2>1, <2>3 DEF Loaded
<1>3. CASE Measure
  <2>1. UNCHANGED <<turn, contents, whole>> /\ turn < 4
    BY <1>3, InputFact DEF Measure
  <2>q. QED BY <1>2, <2>1
<1>4. CASE UNCHANGED <<turn, measured, contents, whole>>
  BY <1>2, <1>4 DEF Loaded, Unopened
<1>q. QED BY <1>1, <1>3, <1>4
          DEF CoverageNext, Check, write_diagnostics_report, Grow, coverage_vars

(* What was accepted depends on the files, and what was read of them. *)
LEMMA SameVerdict ==
    ASSUME UNCHANGED <<target, disk, contents>>
    PROVE  (Accepted' <=> Accepted) /\ (LocationsAccepted' <=> LocationsAccepted)
  BY DEF Accepted, LocationsAccepted, Data, Groups, Lcov

(* The report is written of what was accepted. *)
LEMMA ReportKept ==
    ASSUME Files, Loaded, Reported, [CoverageNext]_coverage_vars
    PROVE  Reported'
<1>1. CASE UNCHANGED coverage_vars
  <2>1. UNCHANGED <<target, disk, turn, contents, verdict, report>>
    BY <1>1 DEF coverage_vars
  <2>4. ReportIsTrue' <=> ReportIsTrue
    BY <2>1 DEF ReportIsTrue, RunsIn, Data
  <2>q. QED BY <2>1, <2>4, SameVerdict DEF Reported
<1>2. ASSUME verdict # "passed", verdict' # "passed",
             verdict' \in {"running", "checked", "failed"},
             verdict' = "checked" => turn' = 4 /\ Accepted' /\ LocationsAccepted',
             \E s \in {"earlier", "torn"} : report' = [state |-> s, records |-> {}]
      PROVE  Reported'
  BY <1>2 DEF Reported, ReportIsTrue
<1>3. CASE \/ Measure \/ read_coverage_text \/ \E input \in ToSet(Input) : Grow(input)
  <2>1. /\ verdict = "running" /\ verdict' \in {"running", "failed"} /\ report' = report
    BY <1>3 DEF Measure, read_coverage_text, Grow
  <2>q. QED BY <1>2, <2>1 DEF Reported
<1>4. CASE Check
  <2>1. /\ verdict = "running" /\ verdict' \in {"checked", "failed"} /\ turn' = 4
        /\ UNCHANGED <<target, disk, contents, report>>
        /\ verdict' = "checked" => Accepted /\ LocationsAccepted
    BY <1>4, InputFact DEF Check
  <2>q. QED BY <1>2, <2>1, SameVerdict DEF Reported
<1>5. CASE write_diagnostics_report
  <2>1. /\ Accepted /\ LocationsAccepted /\ turn = 4 /\ verdict = "checked"
        /\ UNCHANGED <<target, disk, turn, contents>>
    BY <1>5 DEF write_diagnostics_report, Reported
  <2>2. PICK s \in {"earlier", "torn"} : report = [state |-> s, records |-> {}]
    BY <2>1 DEF Reported
  <2>3. CASE verdict' = "failed" /\ \E t \in {"earlier", "torn"} : report' = [report EXCEPT !.state = t]
    BY <1>2, <2>1, <2>2, <2>3
  <2>4. CASE verdict' = "passed" /\ report' = [state |-> "new", records |-> Records]
    <3>1. ASSUME NEW r \in Records
          PROVE  LET Entries == {f \in Data(r.profile)'.functions :
                                   IsDefinition(f) /\ definition_key(f) = r.key}
                     run == {f \in Entries : f.count # 0}
                 IN CASE r.ownership = "private-unit" ->
                           run = {} /\ \A f \in Entries : RunsIn("unit", f)'
                      [] r.ownership = "compiler-asymmetric" -> run # {} /\ run # Entries
                      [] r.ownership = "covered" -> run = Entries
      <4>0. PICK p \in ProfileSet :
              r \in {[profile |-> p, key |-> k, ownership |-> ownership(Groups(p)[k])] :
                       k \in DOMAIN Groups(p)}
        BY InputFact DEF Records
      <4>1. PICK key \in DOMAIN Groups(p) :
              r = [profile |-> p, key |-> key, ownership |-> ownership(Groups(p)[key])]
        BY <4>0
      <4>2. PICK functions : functions = Data(p).functions
        OBVIOUS
      <4>3. PICK kind : kind = ownership(Groups(p)[key])
        OBVIOUS
      <4>4. /\ kind \in {"private-unit", "compiler-asymmetric", "covered"}
            /\ kind = "private-unit" =>
                  /\ RunOf(functions, key) = {}
                  /\ \A f \in EntriesOf(functions, key) : RunsIn("unit", f)
            /\ kind = "compiler-asymmetric" =>
                  /\ RunOf(functions, key) # {}
                  /\ RunOf(functions, key) # EntriesOf(functions, key)
            /\ kind = "covered" => RunOf(functions, key) = EntriesOf(functions, key)
        BY <2>1, <4>2, <4>3, RecordIsTrue
      <4>5. /\ r.profile = p /\ r.key = key /\ r.ownership = kind
            /\ \A f : RunsIn("unit", f)' <=> RunsIn("unit", f)
            /\ Data(r.profile)'.functions = functions
        BY <2>1, <4>1, <4>2, <4>3 DEF RunsIn, Data
      <4>6. /\ {f \in Data(r.profile)'.functions :
                  IsDefinition(f) /\ definition_key(f) = r.key} = EntriesOf(functions, key)
            /\ {f \in EntriesOf(functions, key) : f.count # 0} = RunOf(functions, key)
        BY <4>5 DEF EntriesOf, RunOf
      <4>q. QED BY <4>4, <4>5, <4>6
    <3>2. ReportIsTrue'
      BY <2>4, <3>1 DEF ReportIsTrue
    <3>q. QED BY <2>1, <2>4, <3>2, SameVerdict DEF Reported
  <2>q. QED BY <1>5, <2>3, <2>4 DEF write_diagnostics_report
<1>q. QED BY <1>1, <1>3, <1>4, <1>5 DEF CoverageNext

LEMMA CoverageNextHolds == CoverageInv /\ [CoverageNext]_coverage_vars => CoverageInv'
BY FilesKept, LoadedKept, ReportKept DEF CoverageInv

-----------------------------------------------------------------------------
(* The LCOV report. *)

Start == [ok |-> TRUE, source |-> NoSource, lines |-> <<>>]

(* The states of a report follow one another. *)
LEMMA StatesFact ==
    ASSUME NEW text, Len(text) \in Nat
    PROVE  /\ lcov_states(text)[0] = Start
           /\ \A n \in 1 .. Len(text) :
                lcov_states(text)[n] = lcov_line(lcov_states(text)[n - 1], text[n])
<1> DEFINE Solves(f, n) ==
             f = [k \in 0 .. n |-> IF k = 0 THEN Start ELSE lcov_line(f[k - 1], text[k])]
           T == {n \in Nat : ~ \E f : Solves(f, n)}
<1> HIDE DEF Start, lcov_line
<1>1. T = {}
  <2> SUFFICES ASSUME T # {} PROVE FALSE
    OBVIOUS
  <2>1. PICK m \in T : \A y \in T : m <= y
    <3> HIDE DEF T
    <3>1. T \subseteq Nat
      BY DEF T
    <3>q. QED BY <3>1, LeastNatural
  <2>2. m # 0
    <3> DEFINE f == [k \in 0 .. 0 |-> Start]
    <3>1. Solves(f, 0)
      OBVIOUS
    <3>q. QED BY <3>1
  <2>3. PICK f : Solves(f, m - 1)
    <3>1. m \in Nat /\ m - 1 \in Nat /\ ~(m <= m - 1)
      BY <2>2
    <3>2. m - 1 \notin T
      BY <3>1, <2>1
    <3>q. QED BY <3>1, <3>2
  <2> DEFINE g == [k \in 0 .. m |-> IF k = m THEN lcov_line(f[m - 1], text[m]) ELSE f[k]]
  <2>4. Solves(g, m)
    <3> HIDE DEF T
    <3>0. m \in Nat
      BY DEF T
    <3>1. ASSUME NEW k \in 0 .. m
          PROVE  g[k] = IF k = 0 THEN Start ELSE lcov_line(g[k - 1], text[k])
      <4>1. CASE k = m
        <5>1. k # 0 /\ k - 1 \in 0 .. m /\ k - 1 # m
          BY <3>0, <2>2, <4>1
        <5>2. g[k] = lcov_line(f[m - 1], text[m]) /\ g[k - 1] = f[k - 1]
          BY <5>1, <4>1
        <5>q. QED BY <5>1, <5>2, <4>1
      <4>2. CASE k # m
        <5>1. k \in 0 .. m - 1
          BY <4>2, <3>0
        <5>2. g[k] = f[k]
          BY <4>2
        <5>3. f[k] = IF k = 0 THEN Start ELSE lcov_line(f[k - 1], text[k])
          BY <5>1, <2>3
        <5>4. k # 0 => k - 1 \in 0 .. m /\ k - 1 # m
          BY <5>1, <3>0
        <5>5. k # 0 => g[k - 1] = f[k - 1]
          BY <5>4
        <5>q. QED BY <5>2, <5>3, <5>5
      <4>q. QED BY <4>1, <4>2
    <3>2. g = [k \in 0 .. m |-> g[k]]
      OBVIOUS
    <3> HIDE DEF g
    <3>3. [k \in 0 .. m |-> g[k]] =
            [k \in 0 .. m |-> IF k = 0 THEN Start ELSE lcov_line(g[k - 1], text[k])]
      BY <3>1
    <3>q. QED BY <3>2, <3>3
  <2>q. QED BY <2>4, <2>1
<1>2. PICK f : Solves(f, Len(text))
  BY <1>1
<1>3. Solves(lcov_states(text), Len(text))
  BY <1>2 DEF lcov_states, Start
<1>4. PICK h : h = lcov_states(text)
  OBVIOUS
<1>5. \A n \in 0 .. Len(text) :
        h[n] = IF n = 0 THEN Start ELSE lcov_line(h[n - 1], text[n])
  BY <1>3, <1>4
<1>q. QED BY <1>4, <1>5

(* The source of a line, told from the line before. *)
LEMMA SourceFact ==
    ASSUME NEW text, NEW n \in Nat \ {0}
    PROVE  /\ SourceOf(text, 0) = NoSource
           /\ text[n].tag = "SF" => SourceOf(text, n) = text[n].path
           /\ text[n].tag = "end_of_record" => SourceOf(text, n) = NoSource
           /\ text[n].tag \notin {"SF", "end_of_record"} =>
                SourceOf(text, n) = SourceOf(text, n - 1)
<1> DEFINE Opened(i) == {j \in 1 .. i : text[j].tag = "SF"
                                        /\ \A k \in j .. i : text[k].tag # "end_of_record"}
<1>1. SourceOf(text, 0) = NoSource
  <2>1. Opened(0) = {}
    OBVIOUS
  <2>q. QED BY <2>1 DEF SourceOf
<1>2. CASE text[n].tag = "SF"
  <2>1. n \in Opened(n) /\ \A j \in Opened(n) : n >= j /\ j \in Nat
    BY <1>2
  <2>2. Max(Opened(n)) = n
    BY <2>1 DEF Max
  <2>3. Opened(n) # {}
    BY <2>1
  <2>q. QED BY <1>1, <1>2, <2>2, <2>3 DEF SourceOf
<1>3. CASE text[n].tag = "end_of_record"
  <2>1. Opened(n) = {}
    BY <1>3
  <2>q. QED BY <1>1, <1>3, <2>1 DEF SourceOf
<1>4. CASE text[n].tag \notin {"SF", "end_of_record"}
  <2>1. Opened(n) = Opened(n - 1)
    <3>1. n - 1 \in Nat /\ \A j : j \in 1 .. n <=> j \in 1 .. (n - 1) \/ j = n
      OBVIOUS
    <3>2. \A j \in 1 .. (n - 1) : \A k : k \in j .. n <=> k \in j .. (n - 1) \/ k = n
      OBVIOUS
    <3>q. QED BY <1>4, <3>1, <3>2
  <2>q. QED BY <1>1, <1>4, <2>1 DEF SourceOf
<1>q. QED BY <1>1, <1>2, <1>3, <1>4

(* The place a line of the report is about. *)
Place(text, i) == <<SourceOf(text, i), text[i].line>>

(* A line is well formed after well-formed lines, and says what it says. *)
LEMMA LineFact ==
    ASSUME NEW state, NEW line, DOMAIN state = {"ok", "source", "lines"},
           lcov_line(state, line).ok
    PROVE  /\ state.ok /\ line.tag # "bad DA"
           /\ DOMAIN lcov_line(state, line) = {"ok", "source", "lines"}
           /\ line.tag = "SF" => lcov_line(state, line).source = line.path
           /\ line.tag = "end_of_record" => lcov_line(state, line).source = NoSource
           /\ line.tag \notin {"SF", "end_of_record"} =>
                lcov_line(state, line).source = state.source
           /\ line.tag # "DA" => lcov_line(state, line).lines = state.lines
<1>1. state.ok
  BY DEF lcov_line
<1>2. CASE line.tag = "SF"
  BY <1>1, <1>2 DEF lcov_line
<1>3. CASE line.tag = "DA"
  BY <1>1, <1>3 DEF lcov_line
<1>4. CASE line.tag = "bad DA"
  BY <1>1, <1>4 DEF lcov_line
<1>5. CASE line.tag = "end_of_record"
  BY <1>1, <1>5 DEF lcov_line
<1>6. CASE line.tag \notin {"SF", "DA", "bad DA", "end_of_record"}
  BY <1>1, <1>6 DEF lcov_line
<1>q. QED BY <1>2, <1>3, <1>4, <1>5, <1>6

(* What lines give a place a count other than zero. *)
Gives(text, n, key) ==
    \E j \in 1 .. n : text[j].tag = "DA" /\ Place(text, j) = key /\ text[j].count # 0

(* What a well-formed state says of the first n lines. *)
Says(text, n, source, lines) ==
    /\ source = SourceOf(text, n)
    /\ IsFiniteSet(DOMAIN lines)
    /\ \A i \in 1 .. n : text[i].tag = "DA" => Place(text, i) \in DOMAIN lines
    /\ \A key \in DOMAIN lines :
         lines[key] \in Nat /\ (lines[key] # 0 => Gives(text, n, key))

(* The count of a place after a line about it. *)
LEMMA CountFact ==
    ASSUME NEW lines, NEW key, NEW new \in Nat, NEW count,
           \A k \in DOMAIN lines : lines[k] \in Nat,
           count = IF key \in DOMAIN lines THEN Max({lines[key], new}) ELSE new
    PROVE  /\ count \in Nat
           /\ count # 0 => new # 0 \/ (key \in DOMAIN lines /\ lines[key] # 0)
<1>1. CASE key \in DOMAIN lines
  <2>1. PICK m \in Nat : m = lines[key]
    BY <1>1
  <2>2. Max({m, new}) \in {m, new}
    <3>1. \E x \in {m, new} : \A y \in {m, new} : x >= y
      OBVIOUS
    <3>q. QED BY <3>1 DEF Max
  <2>3. count \in {m, new}
    BY <1>1, <2>1, <2>2
  <2>q. QED BY <1>1, <2>1, <2>3
<1>2. CASE key \notin DOMAIN lines
  BY <1>2
<1>q. QED BY <1>1, <1>2

(* A line about a place. *)
LEMMA SaysMore ==
    ASSUME NEW text, NEW n \in Nat \ {0}, NEW source, NEW lines, NEW after, NEW count,
           text[n].tag = "DA", text[n].count \in Nat,
           Says(text, n - 1, source, lines),
           count = IF <<source, text[n].line>> \in DOMAIN lines
                   THEN Max({lines[<<source, text[n].line>>], text[n].count})
                   ELSE text[n].count,
           DOMAIN after = DOMAIN lines \cup {<<source, text[n].line>>},
           after[<<source, text[n].line>>] = count,
           \A k \in DOMAIN lines : k # <<source, text[n].line>> => after[k] = lines[k]
    PROVE  Says(text, n, source, after)
<1>1. PICK key : key = <<source, text[n].line>>
  OBVIOUS
<1>2. source = SourceOf(text, n)
  BY SourceFact DEF Says
<1>3. key = Place(text, n)
  BY <1>1, <1>2 DEF Place
<1>4. /\ count \in Nat
      /\ count # 0 => text[n].count # 0 \/ (key \in DOMAIN lines /\ lines[key] # 0)
  <2>1. \A k \in DOMAIN lines : lines[k] \in Nat
    BY DEF Says
  <2>2. count = IF key \in DOMAIN lines THEN Max({lines[key], text[n].count}) ELSE text[n].count
    BY <1>1
  <2>3. PICK new \in Nat : new = text[n].count
    OBVIOUS
  <2>q. QED BY <2>1, <2>2, <2>3, CountFact
<1>5. /\ DOMAIN after = DOMAIN lines \cup {key}
      /\ after[key] = count
      /\ \A k \in DOMAIN lines : k # key => after[k] = lines[k]
  BY <1>1
<1>6. IsFiniteSet(DOMAIN after)
  BY <1>5, FS_AddElement DEF Says
<1>7. n \in 1 .. n /\ (\A i \in 1 .. (n - 1) : i \in 1 .. n)
      /\ \A i \in 1 .. n : i \in 1 .. (n - 1) \/ i = n
  OBVIOUS
<1>8. \A i \in 1 .. n : text[i].tag = "DA" => Place(text, i) \in DOMAIN after
  BY <1>3, <1>5, <1>7 DEF Says
<1>9. ASSUME NEW k \in DOMAIN after
      PROVE  after[k] \in Nat /\ (after[k] # 0 => Gives(text, n, k))
  <2>1. \A p : Gives(text, n - 1, p) => Gives(text, n, p)
    BY <1>7 DEF Gives
  <2>2. CASE k = key
    <3>1. text[n].count # 0 => Gives(text, n, k)
      BY <1>3, <1>7, <2>2 DEF Gives
    <3>q. QED BY <1>4, <1>5, <2>1, <2>2, <3>1 DEF Says
  <2>3. CASE k # key
    BY <1>5, <2>1, <2>3 DEF Says
  <2>q. QED BY <2>2, <2>3
<1>q. QED BY <1>2, <1>6, <1>8, <1>9 DEF Says

(* A line about no place. *)
LEMMA SaysSame ==
    ASSUME NEW text, NEW n \in Nat \ {0}, NEW source, NEW lines, NEW new,
           text[n].tag # "DA", Says(text, n - 1, source, lines), new = SourceOf(text, n)
    PROVE  Says(text, n, new, lines)
<1>1. (\A i \in 1 .. (n - 1) : i \in 1 .. n) /\ \A i \in 1 .. n : i \in 1 .. (n - 1) \/ i = n
  OBVIOUS
<1>2. \A i \in 1 .. n : text[i].tag = "DA" => Place(text, i) \in DOMAIN lines
  BY <1>1 DEF Says
<1>3. \A k : Gives(text, n - 1, k) => Gives(text, n, k)
  BY <1>1 DEF Gives
<1>q. QED BY <1>2, <1>3 DEF Says

(* One more line of the report. *)
LEMMA LineSays ==
    ASSUME NEW text, NEW n \in Nat \ {0}, NEW state,
           text[n].tag = "DA" => text[n].count \in Nat,
           DOMAIN state = {"ok", "source", "lines"},
           Says(text, n - 1, state.source, state.lines),
           lcov_line(state, text[n]).ok
    PROVE  Says(text, n, lcov_line(state, text[n]).source, lcov_line(state, text[n]).lines)
<1>1. PICK line, after, source, lines :
        /\ line = text[n] /\ after = lcov_line(state, line)
        /\ source = state.source /\ lines = state.lines
  OBVIOUS
<1>2. /\ state.ok
      /\ line.tag = "SF" => after.source = line.path
      /\ line.tag = "end_of_record" => after.source = NoSource
      /\ line.tag \notin {"SF", "end_of_record"} => after.source = source
      /\ line.tag # "DA" => after.lines = lines
  <2>1. after.ok
    BY <1>1
  <2>2. state.ok
    BY <1>1, <2>1 DEF lcov_line
  <2>3. /\ line.tag = "SF" => after.source = line.path
        /\ line.tag = "end_of_record" => after.source = NoSource
        /\ line.tag \notin {"SF", "end_of_record"} => after.source = state.source
    BY <1>1, <2>2 DEF lcov_line
  <2>4. line.tag # "DA" => after.lines = state.lines
    <3>1. line.tag # "bad DA"
      BY <1>1, <2>1, <2>2 DEF lcov_line
    <3>q. QED BY <1>1, <2>2, <3>1 DEF lcov_line
  <2>q. QED BY <1>1, <2>2, <2>3, <2>4
<1>3. CASE line.tag # "DA"
  <2>1. after.source = SourceOf(text, n)
    BY <1>1, <1>2, <1>3, SourceFact DEF Says
  <2>q. QED BY <1>1, <1>2, <1>3, <2>1, SaysSame
<1>4. CASE line.tag = "DA"
  <2>1. PICK count : count = IF <<source, line.line>> \in DOMAIN lines
                             THEN Max({lines[<<source, line.line>>], line.count})
                             ELSE line.count
    OBVIOUS
  <2>2. after.lines = [k \in DOMAIN lines \cup {<<source, line.line>>} |->
                         IF k = <<source, line.line>> THEN count ELSE lines[k]]
    BY <1>1, <1>2, <1>4, <2>1 DEF lcov_line
  <2>3. after.source = source
    BY <1>2, <1>4
  <2>4. /\ text[n].count \in Nat /\ Says(text, n - 1, source, lines)
        /\ count = IF <<source, text[n].line>> \in DOMAIN lines
                   THEN Max({lines[<<source, text[n].line>>], text[n].count})
                   ELSE text[n].count
    BY <1>1, <1>4, <2>1
  <2>5. PICK new : new = after.lines
    OBVIOUS
  <2>6. /\ DOMAIN new = DOMAIN lines \cup {<<source, text[n].line>>}
        /\ new[<<source, text[n].line>>] = count
        /\ \A k \in DOMAIN lines : k # <<source, text[n].line>> => new[k] = lines[k]
    BY <1>1, <2>2, <2>5
  <2>7. text[n].tag = "DA"
    BY <1>1, <1>4
  <2>8. Says(text, n, source, new)
    BY <2>4, <2>6, <2>7, SaysMore
  <2>q. QED BY <1>1, <2>3, <2>5, <2>8
<1>q. QED BY <1>1, <1>3, <1>4

(* A report says what its lines say. *)
LEMMA ReadFact ==
    ASSUME NEW text, Len(text) \in Nat,
           \A i \in 1 .. Len(text) : text[i].tag = "DA" => text[i].count \in Nat,
           lcov_states(text)[Len(text)].ok
    PROVE  Says(text, Len(text), lcov_states(text)[Len(text)].source,
                lcov_states(text)[Len(text)].lines)
<1>1. PICK states : states = lcov_states(text)
  OBVIOUS
<1> DEFINE Shape(n) == states[n].ok =>
                         /\ DOMAIN states[n] = {"ok", "source", "lines"}
                         /\ Says(text, n, states[n].source, states[n].lines)
           T == {n \in 0 .. Len(text) : ~ Shape(n)}
<1>2. T = {}
  <2> SUFFICES ASSUME T # {} PROVE FALSE
    OBVIOUS
  <2>1. PICK m \in T : \A y \in T : m <= y
    <3> HIDE DEF T
    <3>1. T \subseteq Nat
      BY DEF T
    <3>q. QED BY <3>1, LeastNatural
  <2>2. Shape(0)
    <3>1. states[0] = [ok |-> TRUE, source |-> NoSource, lines |-> <<>>]
      BY <1>1, StatesFact DEF Start
    <3>2. SourceOf(text, 0) = NoSource
      <4>1. 1 \in Nat \ {0}
        OBVIOUS
      <4>q. QED BY <4>1, SourceFact
    <3>3. Says(text, 0, NoSource, <<>>)
      <4>1. DOMAIN <<>> = {} /\ IsFiniteSet({}) /\ 1 .. 0 = {}
        BY FS_EmptySet
      <4>q. QED BY <3>2, <4>1 DEF Says
    <3>q. QED BY <3>1, <3>3
  <2>3. m \in 1 .. Len(text) /\ m - 1 \in 0 .. Len(text) /\ m \in Nat \ {0} /\ ~(m <= m - 1)
    BY <2>2
  <2>4. states[m] = lcov_line(states[m - 1], text[m])
    BY <1>1, <2>3, StatesFact
  <2>5. Shape(m - 1)
    BY <2>1, <2>3
  <2>6. CASE states[m].ok
    <3>1. states[m - 1].ok
      BY <2>4, <2>6 DEF lcov_line
    <3>2. PICK state : state = states[m - 1]
      OBVIOUS
    <3>3. /\ DOMAIN state = {"ok", "source", "lines"}
          /\ Says(text, m - 1, state.source, state.lines)
          /\ lcov_line(state, text[m]).ok
      BY <2>4, <2>5, <2>6, <3>1, <3>2
    <3>4. DOMAIN lcov_line(state, text[m]) = {"ok", "source", "lines"}
      BY <3>3, LineFact
    <3>5. Says(text, m, lcov_line(state, text[m]).source, lcov_line(state, text[m]).lines)
      BY <2>3, <3>3, LineSays
    <3>6. Shape(m)
      BY <2>4, <3>2, <3>4, <3>5
    <3>q. QED BY <3>6
  <2>7. Shape(m)
    BY <2>6
  <2>q. QED BY <2>3, <2>7
<1>3. Len(text) \in 0 .. Len(text)
  OBVIOUS
<1>4. Shape(Len(text))
  BY <1>2, <1>3
<1>q. QED BY <1>1, <1>4

(* A complete report gives every place it names a count other than zero. *)
LEMMA CompleteReport ==
    ASSUME NEW text, Len(text) \in Nat, DOMAIN text = 1 .. Len(text),
           \A i \in 1 .. Len(text) : text[i].tag = "DA" => text[i].count \in Nat,
           parse_lcov(text).ok, Complete(parse_lcov(text)),
           NEW i \in DOMAIN text, text[i].tag = "DA"
    PROVE  \E j \in DOMAIN text :
             /\ text[j].tag = "DA" /\ SourceOf(text, j) = SourceOf(text, i)
             /\ text[j].line = text[i].line /\ text[j].count # 0
<1>1. PICK end : end = lcov_states(text)[Len(text)]
  OBVIOUS
<1>2. end.ok
  BY <1>1 DEF parse_lcov
<1>3. Says(text, Len(text), end.source, end.lines)
  BY <1>1, <1>2, ReadFact
<1>4. PICK lines : lines = end.lines
  OBVIOUS
<1>5. Cardinality({k \in DOMAIN lines : lines[k] # 0}) = Cardinality(DOMAIN lines)
  BY <1>1, <1>4 DEF parse_lcov, Complete
<1>6. {k \in DOMAIN lines : lines[k] # 0} = DOMAIN lines
  <2>1. IsFiniteSet(DOMAIN lines)
    BY <1>3, <1>4 DEF Says
  <2>2. {k \in DOMAIN lines : lines[k] # 0} \in SUBSET DOMAIN lines
    OBVIOUS
  <2>q. QED BY <1>5, <2>1, <2>2, FS_Subset
<1>7. Place(text, i) \in DOMAIN lines
  BY <1>3, <1>4 DEF Says
<1>8. Gives(text, Len(text), Place(text, i))
  BY <1>3, <1>4, <1>6, <1>7 DEF Says
<1>9. PICK j \in 1 .. Len(text) :
        text[j].tag = "DA" /\ Place(text, j) = Place(text, i) /\ text[j].count # 0
  BY <1>8 DEF Gives
<1>q. QED BY <1>9 DEF Place

(* A definition whose group was executed is one an entry executed. *)
LEMMA GroupRuns ==
    ASSUME Files, Accepted, NEW p \in ProfileSet, NEW key \in DOMAIN Groups(p),
           Groups(p)[key].covered_entries # 0
    PROVE  \E f \in Data(p).functions :
             IsDefinition(f) /\ f.count # 0 /\ definition_key(f) = key
<1>1. PICK functions : functions = Data(p).functions
  OBVIOUS
<1>2. /\ IsFiniteSet(functions) /\ key \in DOMAIN definition_groups(functions)
      /\ definition_groups(functions)[key].covered_entries # 0
  BY <1>1, AcceptedIsFinite DEF Groups
<1>3. RunOf(functions, key) # {}
  BY <1>2, GroupFact
<1>q. QED BY <1>1, <1>3 DEF RunOf, EntriesOf

(* A definition has a group, with its symbol in it. *)
LEMMA OwnGroup ==
    ASSUME NEW p, NEW f \in Data(p).functions, IsDefinition(f)
    PROVE  /\ definition_key(f) \in DOMAIN Groups(p)
           /\ f.name \in Groups(p)[definition_key(f)].symbols
<1>1. PICK key, functions : key = definition_key(f) /\ functions = Data(p).functions
  OBVIOUS
<1>2. key \in DOMAIN definition_groups(functions)
  BY <1>1 DEF definition_groups
<1>3. f \in {g \in {h \in functions : IsDefinition(h)} : definition_key(g) = key}
  BY <1>1
<1>4. definition_groups(functions)[key].symbols =
        {g.name : g \in {g \in {h \in functions : IsDefinition(h)} : definition_key(g) = key}}
  BY <1>2 DEF definition_groups
<1>5. f.name \in definition_groups(functions)[key].symbols
  BY <1>3, <1>4
<1>q. QED BY <1>1, <1>2, <1>5 DEF Groups

(* What was intended was executed. *)
LEMMA IntendedRuns ==
    ASSUME Files, Accepted, NEW set, NEW location \in set,
           validate_intended_integration_definitions(set, Groups("integration"))
    PROVE  \E f \in Data("integration").functions :
             IsDefinition(f) /\ At(f) = location /\ f.count # 0
<1>1. PICK key \in DOMAIN Groups("integration") :
        definition_id(key) = location /\ Groups("integration")[key].covered_entries # 0
  BY DEF validate_intended_integration_definitions
<1>2. PICK f \in Data("integration").functions :
        IsDefinition(f) /\ f.count # 0 /\ definition_key(f) = key
  BY <1>1, GroupRuns DEF ProfileSet
<1>q. QED BY <1>1, <1>2 DEF At

(* A location of the integration profile is executed or reviewed. *)
LEMMA LocationFact ==
    ASSUME Files, Accepted, LocationsAccepted,
           NEW f \in Data("integration").functions, IsDefinition(f)
    PROVE  \/ \E g \in Data("integration").functions :
                IsDefinition(g) /\ At(g) = At(f) /\ g.count # 0
           \/ /\ <<target, At(f)>> \in DOMAIN Reviewed
              /\ f.name = Reviewed[<<target, At(f)>>]
<1>1. PICK key : key = definition_key(f)
  OBVIOUS
<1>2. PICK groups : groups = Groups("integration")
  OBVIOUS
<1>3. key \in DOMAIN groups /\ f.name \in groups[key].symbols
  BY <1>1, <1>2, OwnGroup
<1>4. key \in Members(groups, At(f)) /\ At(f) \in Locations(groups)
  BY <1>1, <1>3 DEF Members, Locations, At
<1>5. PICK i \in DOMAIN Profile : Profile[i] = "integration"
  BY InputFact DEF ToSet, ProfileSet
<1>6. validate_locations(target, "integration", groups, Groups("unit"))
  BY <1>2, <1>5 DEF LocationsAccepted
<1>7. Executed(groups, At(f)) \/ reviewed_gap(target, At(f), groups)
  BY <1>4, <1>6 DEF validate_locations
<1>8. CASE Executed(groups, At(f))
  <2>1. PICK k \in Members(groups, At(f)) : groups[k].covered_entries # 0
    BY <1>8 DEF Executed
  <2>2. k \in DOMAIN groups /\ definition_id(k) = At(f)
    BY <2>1 DEF Members
  <2>3. PICK g \in Data("integration").functions :
          IsDefinition(g) /\ g.count # 0 /\ definition_key(g) = k
    BY <1>2, <2>1, <2>2, GroupRuns DEF ProfileSet
  <2>q. QED BY <2>2, <2>3 DEF At
<1>9. CASE reviewed_gap(target, At(f), groups)
  BY <1>3, <1>4, <1>9 DEF reviewed_gap
<1>q. QED BY <1>7, <1>8, <1>9

(* What a pass promises holds of what was accepted. *)
LEMMA PassIsExecuted ==
    ASSUME Files, Loaded, Reported
    PROVE  PassMeansExecuted
<1> SUFFICES ASSUME verdict = "passed" PROVE PassMeansExecuted
  BY DEF PassMeansExecuted
<1>1. turn = 4 /\ Accepted /\ LocationsAccepted
  BY DEF Reported
<1>2. ASSUME NEW p \in {"combined", "unit"}, NEW f \in Data(p).functions, IsDefinition(f)
      PROVE  RunsIn(p, f)
  <2>1. PICK key : key = definition_key(f)
    OBVIOUS
  <2>2. key \in DOMAIN Groups(p) /\ p \in ProfileSet
    BY <1>2, <2>1, OwnGroup DEF ProfileSet
  <2>3. Groups(p)[key].covered_entries # 0
    BY <1>1, <2>2 DEF Accepted, validate_source_definition_completeness
  <2>q. QED BY <1>1, <2>1, <2>2, <2>3, GroupRuns DEF RunsIn
<1>3. ASSUME NEW f \in Data("integration").functions, IsDefinition(f)
      PROVE  RunsIn("integration", f) \/ RunsIn("unit", f)
  <2>1. PICK key : key = definition_key(f)
    OBVIOUS
  <2>2. key \in DOMAIN Groups("integration")
    BY <1>3, <2>1, OwnGroup
  <2>3. CASE Groups("integration")[key].covered_entries # 0
    BY <1>1, <2>1, <2>2, <2>3, GroupRuns DEF RunsIn, ProfileSet
  <2>4. CASE Groups("integration")[key].covered_entries = 0
    <3>1. unit_owned(Groups("unit"), definition_key(f))
      BY <1>1, <2>1, <2>2, <2>4 DEF Accepted, validate_integration_instantiations
    <3>q. QED BY <1>1, <3>1, UnitOwns
  <2>q. QED BY <2>3, <2>4
<1>4. ASSUME NEW location \in Intended \cup (IF target = Windows THEN WindowsOnly ELSE {})
      PROVE  \E f \in Data("integration").functions :
               IsDefinition(f) /\ At(f) = location /\ f.count # 0
  <2>1. validate_integration_instantiations(target, Groups("unit"), Groups("integration"))
    BY <1>1 DEF Accepted
  <2>2. CASE location \in Intended
    BY <1>1, <2>1, <2>2, IntendedRuns DEF validate_integration_instantiations
  <2>3. CASE target = Windows /\ location \in WindowsOnly
    BY <1>1, <2>1, <2>3, IntendedRuns DEF validate_integration_instantiations
  <2>q. QED BY <1>4, <2>2, <2>3
<1>5. PICK text : text = Lcov(contents["lcov"])
  OBVIOUS
<1>6. /\ Len(text) \in Nat /\ DOMAIN text = 1 .. Len(text)
      /\ \A i \in 1 .. Len(text) : text[i].tag = "DA" => text[i].count \in Nat
  <2>1. PICK data, size : data = disk["lcov"].data /\ size = contents["lcov"]
    OBVIOUS
  <2>2. Whole("lcov")
    BY <1>1, InputFact DEF Loaded
  <2>3. size \in 0 .. Len(data) /\ data \in Seq(ToSet(data))
    BY <2>1, <2>2 DEF Whole, Files
  <2>4. text = SubSeq(data, 1, size)
    BY <1>5, <2>1 DEF Lcov
  <2>5. PICK S : S = ToSet(data)
    OBVIOUS
  <2>6. text \in Seq(S)
    BY <2>3, <2>4, <2>5, SubSeqProperties
  <2>7. \A line \in S : line.tag = "DA" => line.count \in Nat
    BY <2>1, <2>5 DEF Files
  <2>q. QED BY <2>6, <2>7
<1>7. parse_lcov(text).ok /\ Complete(parse_lcov(text))
  BY <1>1, <1>5 DEF Loaded, Accepted, validate
<1>8. ASSUME NEW i \in {k \in DOMAIN text : text[k].tag = "DA"}
      PROVE  \E j \in {k \in DOMAIN text : text[k].tag = "DA"} :
               /\ SourceOf(text, j) = SourceOf(text, i)
               /\ text[j].line = text[i].line /\ text[j].count # 0
  BY <1>6, <1>7, CompleteReport
<1>9. ASSUME NEW f \in Data("integration").functions, IsDefinition(f)
      PROVE  \/ \E g \in Data("integration").functions :
                  IsDefinition(g) /\ At(g) = At(f) /\ g.count # 0
             \/ /\ <<target, At(f)>> \in DOMAIN Reviewed
                /\ f.name = Reviewed[<<target, At(f)>>]
  BY <1>1, <1>9, LocationFact
<1>q. QED BY <1>2, <1>3, <1>4, <1>5, <1>8, <1>9 DEF PassMeansExecuted

-----------------------------------------------------------------------------
(***************************************************************************)
(* The feature and target matrix.                                          *)
(***************************************************************************)
(* The audit of a line. *)

(* The shape of a line of shell. *)
LEMMA LineShape ==
    ASSUME NEW line, IsLine(line)
    PROVE  /\ Len(line) \in Nat /\ DOMAIN line = 1 .. Len(line)
           /\ \A i \in 1 .. Len(line) : line[i] \in ToSet(line)
           /\ \A i \in 1 .. Len(line) :
                /\ line[i].text = "&&" => line[i].syntax
                /\ line[i].text = "cargo" => ~line[i].assigns
                /\ line[i].before \in Seq(ToSet(line[i].before))
                /\ line[i].text \in {"&&", "#"} => line[i].before = <<>>
<1>1. PICK S : S = ToSet(line)
  OBVIOUS
<1>2. line \in Seq(S)
  BY <1>1 DEF IsLine
<1>3. Len(line) \in Nat /\ DOMAIN line = 1 .. Len(line) /\ \A i \in 1 .. Len(line) : line[i] \in S
  BY <1>2
<1>q. QED BY <1>1, <1>3 DEF IsLine

(* What stands before the first # of a line: its first words, up to and without *)
(* the one that holds it, and what that word has before it.                     *)
LEMMA BeforeHash ==
    ASSUME NEW line, IsLine(line)
    PROVE  \E n \in 0 .. Len(line) :
             /\ \A i \in 1 .. n : ~HoldsHash(line[i])
             /\ \/ n = Len(line) /\ command_before_comment(line) = line
                \/ /\ n < Len(line) /\ HoldsHash(line[n + 1])
                   /\ command_before_comment(line) = SubSeq(line, 1, n) \o line[n + 1].before
<1> DEFINE hashes == {i \in DOMAIN line : HoldsHash(line[i])}
           First(n) == n + 1 \in hashes /\ \A h \in hashes : n < h
<1>0. Len(line) \in Nat /\ DOMAIN line = 1 .. Len(line)
  BY LineShape
<1>1. CASE hashes = {}
  <2>1. command_before_comment(line) = line
    BY <1>1 DEF command_before_comment
  <2>2. PICK n \in Nat : n = Len(line)
    BY <1>0
  <2>3. \A i \in 1 .. n : ~HoldsHash(line[i])
    BY <1>0, <1>1, <2>2
  <2>4. n \in 0 .. n
    OBVIOUS
  <2>q. QED BY <2>1, <2>2, <2>3, <2>4
<1>2. CASE hashes # {}
  <2>1. PICK h \in hashes : \A d \in hashes : h <= d
    <3>1. hashes \subseteq Nat
      BY <1>0
    <3> HIDE DEF hashes
    <3>q. QED BY <1>2, <3>1, LeastNatural
  <2>2. h - 1 \in 0 .. Len(line) /\ First(h - 1)
    BY <1>0, <2>1
  <2>3. PICK n : n = CHOOSE m \in 0 .. Len(line) : First(m)
    OBVIOUS
  <2>4. n \in 0 .. Len(line) /\ First(n)
    BY <2>2, <2>3
  <2>5. command_before_comment(line) = SubSeq(line, 1, n) \o line[n + 1].before
    BY <1>2, <2>3 DEF command_before_comment
  <2>6. \A i \in 1 .. n : ~HoldsHash(line[i])
    BY <1>0, <2>4
  <2>7. n < Len(line) /\ HoldsHash(line[n + 1])
    BY <1>0, <2>4
  <2>q. QED BY <2>4, <2>5, <2>6, <2>7
<1>q. QED BY <1>1, <1>2

(* Which words a part of a line has. *)
LEMMA PartFact ==
    ASSUME NEW line, IsLine(line), NEW a \in Nat, NEW b \in Nat, a <= b, b <= Len(line),
           NEW part, part = SubSeq(line, a + 1, b)
    PROVE  /\ Len(part) = b - a /\ DOMAIN part = 1 .. (b - a)
           /\ \A i \in 1 .. (b - a) : part[i] = line[a + i]
<1>1. PICK S, m : S = ToSet(line) /\ m = a + 1
  OBVIOUS
<1>2. \A i \in m .. b : line[i] \in S
  BY <1>1, LineShape
<1>3. m \in Int /\ b \in Int
  BY <1>1
<1>4. /\ SubSeq(line, m, b) \in Seq(S)
      /\ Len(SubSeq(line, m, b)) = IF m <= b THEN b - m + 1 ELSE 0
      /\ \A i \in 1 .. (b - m + 1) : SubSeq(line, m, b)[i] = line[m + i - 1]
  BY <1>2, <1>3, SubSeqProperties
<1>5. part = SubSeq(line, m, b)
  BY <1>1
<1>6. Len(part) = b - a /\ part \in Seq(S)
  BY <1>1, <1>4, <1>5
<1>7. \A i \in 1 .. (b - a) : part[i] = line[a + i]
  BY <1>1, <1>4, <1>5
<1>q. QED BY <1>1, <1>5, <1>6, <1>7

(* What the audit looks at begins with the words before the first # of the line. *)
LEMMA AuditedPart ==
    ASSUME NEW line, IsLine(line), NEW part, part = command_before_comment(line)
    PROVE  \E n \in 0 .. Len(line) :
             /\ \A k \in 1 .. n : ~HoldsHash(line[k])
             /\ n = Len(line) \/ HoldsHash(line[n + 1])
             /\ \A k \in 1 .. n : k \in DOMAIN part /\ part[k] = line[k]
             /\ (n < Len(line) => line[n + 1].before = <<>>) => part = SubSeq(line, 1, n)
<1>0. Len(line) \in Nat /\ DOMAIN line = 1 .. Len(line)
  BY LineShape
<1>1. PICK S : S = ToSet(line)
  OBVIOUS
<1>2. line \in Seq(S)
  BY <1>1 DEF IsLine
<1>3. PICK n \in 0 .. Len(line) :
        /\ \A k \in 1 .. n : ~HoldsHash(line[k])
        /\ \/ n = Len(line) /\ part = line
           \/ /\ n < Len(line) /\ HoldsHash(line[n + 1])
              /\ part = SubSeq(line, 1, n) \o line[n + 1].before
  BY BeforeHash
<1>4. CASE n = Len(line) /\ part = line
  <2>1. SubSeq(line, 1, Len(line)) = line
    BY <1>2
  <2>2. part = SubSeq(line, 1, n)
    BY <1>4, <2>1
  <2>3. \A k \in 1 .. n : k \in DOMAIN part /\ part[k] = line[k]
    BY <1>0, <1>4
  <2>q. QED BY <1>3, <1>4, <2>2, <2>3
<1>5. CASE /\ n < Len(line) /\ HoldsHash(line[n + 1])
           /\ part = SubSeq(line, 1, n) \o line[n + 1].before
  <2>1. PICK rest, R, front :
          rest = line[n + 1].before /\ R = ToSet(rest) /\ front = SubSeq(line, 0 + 1, n)
    OBVIOUS
  <2>2. rest \in Seq(R)
    <3>1. n + 1 \in 1 .. Len(line)
      BY <1>0, <1>5
    <3>q. QED BY <2>1, <3>1, LineShape
  <2>3. 0 \in Nat /\ n \in Nat /\ 0 <= n /\ n <= Len(line)
    BY <1>0
  <2>4. Len(front) = n - 0 /\ DOMAIN front = 1 .. (n - 0)
        /\ \A k \in 1 .. (n - 0) : front[k] = line[0 + k]
    BY <2>1, <2>3, PartFact
  <2>5. SubSeq(line, 1, n) = front /\ part = front \o rest
    BY <1>5, <2>1
  <2>6. front \in Seq(S)
    <3>1. PICK m : m = 0 + 1
      OBVIOUS
    <3>2. m \in Int /\ n \in Int /\ \A i \in m .. n : line[i] \in S
      BY <1>0, <1>1, <3>1, LineShape
    <3>3. SubSeq(line, m, n) \in Seq(S)
      BY <3>2, SubSeqProperties
    <3>q. QED BY <2>1, <3>1, <3>3
  <2>7. PICK T : T = S \cup R
    OBVIOUS
  <2>8. front \in Seq(T) /\ rest \in Seq(T)
    BY <2>2, <2>6, <2>7
  <2>9. /\ Len(rest) \in Nat /\ Len(front \o rest) = Len(front) + Len(rest)
        /\ DOMAIN (front \o rest) = 1 .. (Len(front) + Len(rest))
        /\ \A k \in 1 .. Len(front) : (front \o rest)[k] = front[k]
    BY <2>8
  <2>10. rest = <<>> => front \o rest = front
    BY <2>8
  <2>11. ASSUME NEW k \in 1 .. n PROVE k \in DOMAIN part /\ part[k] = line[k]
    <3>1. k \in 1 .. (n - 0) /\ k \in 1 .. Len(front) /\ 0 + k = k
      BY <2>3, <2>4
    <3>2. front[k] = line[k]
      BY <2>4, <3>1
    <3>3. (front \o rest)[k] = front[k]
      BY <2>9, <3>1
    <3>4. k \in 1 .. (Len(front) + Len(rest))
      BY <2>3, <2>4, <2>9
    <3>q. QED BY <2>5, <2>9, <3>2, <3>3, <3>4
  <2>12. (n < Len(line) => line[n + 1].before = <<>>) => part = SubSeq(line, 1, n)
    BY <1>5, <2>1, <2>5, <2>10
  <2>q. QED BY <1>3, <1>5, <2>11, <2>12
<1>q. QED BY <1>3, <1>4, <1>5

(* What the audit of a line means for the commands of the line. *)
LEMMA LineIsLocked ==
    ASSUME NEW line, IsLine(line), validate_locked_cargo(line),
           NEW words \in AuditedCommands(line), NEW i \in DOMAIN words,
           InCommandPosition(words, i),
           NEW token \in words[i].tokens, cargo_executable(token)
    PROVE  /\ i = 1 /\ words[i].text = "cargo"
           /\ \/ \E k \in DOMAIN words : words[k].text = "--locked"
              \/ Subcommand(words) \in Exempt
<1> DEFINE Ends(k) == k \in {0, Len(line) + 1} \/ line[k].text \in {"&&", "#"}
<1>0. Len(line) \in Nat
  BY LineShape
<1>1. PICK a \in 0 .. Len(line), e \in 1 .. (Len(line) + 1) :
        /\ a < e /\ Ends(a) /\ Ends(e)
        /\ \A k \in 1 .. (e - 1) : k > a => ~Ends(k)
        /\ \A k \in 1 .. a : line[k].text # "#"
        /\ \A k \in 1 .. (e - 1) : line[k].before = <<>>
        /\ words = SubSeq(line, a + 1, e - 1)
  <2>1. PICK c \in (0 .. Len(line)) \X (1 .. (Len(line) + 1)) :
          /\ c[1] < c[2] /\ Ends(c[1]) /\ Ends(c[2])
          /\ \A k \in 1 .. (c[2] - 1) : k > c[1] => ~Ends(k)
          /\ \A k \in 1 .. c[1] : line[k].text # "#"
          /\ \A k \in 1 .. (c[2] - 1) : line[k].before = <<>>
          /\ words = SubSeq(line, c[1] + 1, c[2] - 1)
    BY DEF AuditedCommands
  <2>2. PICK a \in 0 .. Len(line), e \in 1 .. (Len(line) + 1) : a = c[1] /\ e = c[2]
    OBVIOUS
  <2>q. QED BY <2>1, <2>2
<1>2. PICK b \in Nat : b = e - 1
  BY <1>0, <1>1
<1>3. /\ a \in Nat /\ a <= b /\ b <= Len(line)
      /\ \A k \in 1 .. b : ~HoldsHash(line[k])
  <2>1. a \in Nat /\ a <= b /\ b <= Len(line) /\ 1 .. b = 1 .. (e - 1)
    BY <1>0, <1>1, <1>2
  <2>2. ASSUME NEW k \in 1 .. b PROVE line[k].text # "#" /\ line[k].before = <<>>
    <3>0. line[k].before = <<>>
      BY <1>1, <2>1
    <3>1. CASE k > a
      <4>1. ~Ends(k)
        BY <1>1, <2>1, <3>1
      <4>q. QED BY <3>0, <4>1
    <3>2. CASE ~(k > a)
      <4>1. k \in 1 .. a
        BY <2>1, <3>2
      <4>q. QED BY <1>1, <3>0, <4>1
    <3>q. QED BY <3>1, <3>2
  <2>q. QED BY <2>1, <2>2 DEF HoldsHash
<1>4. /\ Len(words) = b - a /\ DOMAIN words = 1 .. (b - a)
      /\ \A k \in 1 .. (b - a) : words[k] = line[a + k]
  <2>1. words = SubSeq(line, a + 1, b)
    BY <1>1, <1>2
  <2>q. QED BY <1>3, <2>1, PartFact
<1>5. PICK part : part = command_before_comment(line)
  OBVIOUS
<1>6. PICK n \in 0 .. Len(line) :
        /\ \A k \in 1 .. n : ~HoldsHash(line[k])
        /\ n = Len(line) \/ HoldsHash(line[n + 1])
        /\ \A k \in 1 .. n : k \in DOMAIN part /\ part[k] = line[k]
        /\ (n < Len(line) => line[n + 1].before = <<>>) => part = SubSeq(line, 1, n)
  BY <1>5, AuditedPart
<1>7. n \in Nat /\ b <= n
  BY <1>0, <1>3, <1>6
<1>8. \A k \in 1 .. n : k \in DOMAIN part
  BY <1>6
<1>9. i \in 1 .. (b - a) /\ a + i \in 1 .. n /\ part[a + i] = words[i]
  <2>1. i \in 1 .. (b - a)
    BY <1>4
  <2>2. a + i \in 1 .. n
    BY <1>3, <1>7, <2>1
  <2>q. QED BY <1>4, <1>6, <2>1, <2>2
<1>10. part # <<>>
  BY <1>8, <1>9
<1>11. part[1].text = "cargo"
  <2>1. mentions_cargo_executable(part)
    BY <1>8, <1>9 DEF mentions_cargo_executable
  <2>q. QED BY <1>5, <1>10, <2>1 DEF validate_locked_cargo
<1>12. direct_cargo_command_is_auditable(part) /\ (Subcommand(part) \in Exempt \/ Locked(part))
  BY <1>5, <1>10, <1>11 DEF validate_locked_cargo
<1>13. \A k \in 1 .. n : line[k].text # "&&"
  <2>1. CASE \A k \in DOMAIN part : ~part[k].syntax
    <3>1. ASSUME NEW k \in 1 .. n PROVE line[k].text # "&&"
      <4>1. k \in 1 .. Len(line) /\ ~line[k].syntax
        BY <1>0, <1>6, <2>1
      <4>q. QED BY <4>1, LineShape
    <3>q. QED BY <3>1
  <2>2. CASE [k \in DOMAIN part |-> part[k].text] = REVIEWED_PACKAGE_LIST_COMMAND
    <3>1. \A k \in DOMAIN part : part[k].text = REVIEWED_PACKAGE_LIST_COMMAND[k]
      BY <2>2
    <3>2. DOMAIN part = DOMAIN REVIEWED_PACKAGE_LIST_COMMAND
      BY <2>2
    <3>3. \A k \in DOMAIN REVIEWED_PACKAGE_LIST_COMMAND : REVIEWED_PACKAGE_LIST_COMMAND[k] # "&&"
      BY DEF REVIEWED_PACKAGE_LIST_COMMAND
    <3>q. QED BY <1>6, <1>8, <3>1, <3>2, <3>3
  <2>q. QED BY <1>12, <2>1, <2>2 DEF direct_cargo_command_is_auditable
<1>14. a = 0 /\ b = n
  <2>1. a = 0
    BY <1>0, <1>1, <1>3, <1>7, <1>13
  <2>2. b = n
    <3>1. SUFFICES ASSUME b < n PROVE FALSE
      BY <1>3, <1>7
    <3>2. e \in 1 .. n /\ e # Len(line) + 1 /\ e # 0
      BY <1>0, <1>1, <1>2, <3>1
    <3>3. line[e].text \in {"&&", "#"}
      BY <1>1, <3>2
    <3>q. QED BY <1>6, <1>13, <3>2, <3>3 DEF HoldsHash
  <2>q. QED BY <2>1, <2>2
<1>15. words = part
  <2>1. ASSUME n < Len(line) PROVE line[n + 1].before = <<>>
    <3>1. e = n + 1 /\ e \in 1 .. Len(line) /\ e # 0 /\ e # Len(line) + 1
      BY <1>0, <1>1, <1>2, <1>7, <1>14, <2>1
    <3>2. line[e].text \in {"&&", "#"}
      BY <1>1, <3>1
    <3>q. QED BY <3>1, <3>2, LineShape
  <2>2. words = SubSeq(line, 1, n)
    <3>1. words = SubSeq(line, 0 + 1, n)
      BY <1>1, <1>2, <1>14
    <3>q. QED BY <3>1
  <2>q. QED BY <1>6, <2>1, <2>2
<1>16. i = 1
  <2>1. SUFFICES ASSUME i # 1 PROVE FALSE
    OBVIOUS
  <2>2. 1 \in 1 .. (i - 1) /\ words[1] = line[1] /\ 1 \in 1 .. Len(line)
    BY <1>0, <1>4, <1>9, <1>14, <2>1
  <2>3. PassedOver(words, 1) \/ words[1].text \in Wrappers
    BY <2>2 DEF InCommandPosition
  <2>4. words[1].text = "cargo" /\ ~words[1].assigns
    BY <1>11, <1>15, <2>2, LineShape
  <2>q. QED BY <2>3, <2>4 DEF PassedOver, shell_assignment, Wrappers
<1>17. Locked(words) => \E k \in DOMAIN words : words[k].text = "--locked"
  <2>1. PICK m \in Nat : m = b - a
    BY <1>3
  <2>2. Len(words) = m /\ DOMAIN words = 1 .. m
    BY <1>4, <2>1
  <2>3. \A k \in 2 .. m : k \in 1 .. m
    OBVIOUS
  <2>q. QED BY <2>2, <2>3 DEF Locked
<1>18. words[i].text = "cargo"
  BY <1>11, <1>15, <1>16
<1>19. Locked(words) \/ Subcommand(words) \in Exempt
  BY <1>12, <1>15
<1>q. QED BY <1>16, <1>17, <1>18, <1>19

(* The matrix of a job grows by what each target adds. *)
LEMMA IncludeFact ==
    ASSUME NEW registry, NEW job, Len(registry.targets) \in Nat
    PROVE  /\ include(registry, job)[0] = <<>>
           /\ \A n \in 1 .. Len(registry.targets) :
                include(registry, job)[n] =
                  include(registry, job)[n - 1] \o CellsFor(registry, job, registry.targets[n])
<1> DEFINE Added(k) == CellsFor(registry, job, registry.targets[k])
           Solves(f, n) == f = [k \in 0 .. n |-> IF k = 0 THEN <<>> ELSE f[k - 1] \o Added(k)]
           T == {n \in Nat : ~ \E f : Solves(f, n)}
<1> HIDE DEF Added
<1>1. T = {}
  <2> SUFFICES ASSUME T # {} PROVE FALSE
    OBVIOUS
  <2>1. PICK m \in T : \A y \in T : m <= y
    <3> HIDE DEF T
    <3>1. T \subseteq Nat
      BY DEF T
    <3>q. QED BY <3>1, LeastNatural
  <2>2. m # 0
    <3> DEFINE f == [k \in 0 .. 0 |-> <<>>]
    <3>1. Solves(f, 0)
      OBVIOUS
    <3>q. QED BY <3>1
  <2>3. PICK f : Solves(f, m - 1)
    <3>1. m \in Nat /\ m - 1 \in Nat /\ ~(m <= m - 1)
      BY <2>2
    <3>2. m - 1 \notin T
      BY <3>1, <2>1
    <3>q. QED BY <3>1, <3>2
  <2> DEFINE g == [k \in 0 .. m |-> IF k = m THEN f[m - 1] \o Added(m) ELSE f[k]]
  <2>4. Solves(g, m)
    <3> HIDE DEF T
    <3>0. m \in Nat
      BY DEF T
    <3>1. ASSUME NEW k \in 0 .. m
          PROVE  g[k] = IF k = 0 THEN <<>> ELSE g[k - 1] \o Added(k)
      <4>1. CASE k = m
        <5>1. k # 0 /\ k - 1 \in 0 .. m /\ k - 1 # m
          BY <3>0, <2>2, <4>1
        <5>2. g[k] = f[m - 1] \o Added(m) /\ g[k - 1] = f[k - 1]
          BY <5>1, <4>1
        <5>q. QED BY <5>1, <5>2, <4>1
      <4>2. CASE k # m
        <5>1. k \in 0 .. m - 1
          BY <4>2, <3>0
        <5>2. g[k] = f[k]
          BY <4>2
        <5>3. f[k] = IF k = 0 THEN <<>> ELSE f[k - 1] \o Added(k)
          BY <5>1, <2>3
        <5>4. k # 0 => k - 1 \in 0 .. m /\ k - 1 # m
          BY <5>1, <3>0
        <5>5. k # 0 => g[k - 1] = f[k - 1]
          BY <5>4
        <5>q. QED BY <5>2, <5>3, <5>5
      <4>q. QED BY <4>1, <4>2
    <3>2. g = [k \in 0 .. m |-> g[k]]
      OBVIOUS
    <3> HIDE DEF g
    <3>3. [k \in 0 .. m |-> g[k]] =
            [k \in 0 .. m |-> IF k = 0 THEN <<>> ELSE g[k - 1] \o Added(k)]
      BY <3>1
    <3>q. QED BY <3>2, <3>3
  <2>q. QED BY <2>4, <2>1
<1>2. PICK f : Solves(f, Len(registry.targets))
  BY <1>1
<1>3. Solves(include(registry, job), Len(registry.targets))
  BY <1>2 DEF include, Added
<1>4. PICK h : h = include(registry, job)
  OBVIOUS
<1>5. \A n \in 0 .. Len(registry.targets) :
        h[n] = IF n = 0 THEN <<>> ELSE h[n - 1] \o Added(n)
  BY <1>3, <1>4
<1>6. h[0] = <<>>
  <2>1. 0 \in 0 .. Len(registry.targets)
    OBVIOUS
  <2>q. QED BY <1>5, <2>1
<1>7. ASSUME NEW n \in 1 .. Len(registry.targets)
      PROVE  h[n] = h[n - 1] \o Added(n)
  <2>1. n \in 0 .. Len(registry.targets) /\ n # 0
    OBVIOUS
  <2>q. QED BY <1>5, <2>1
<1>q. QED BY <1>4, <1>6, <1>7 DEF Added

(* What a target adds is a sequence. *)
LEMMA CellsShape ==
    ASSUME NEW registry, NEW job, NEW spec, IsTarget(spec)
    PROVE  CellsFor(registry, job, spec) \in Seq(ToSet(CellsFor(registry, job, spec)))
<1>1. PICK cells : cells = CellsFor(registry, job, spec)
  OBVIOUS
<1>e. CASE cells = <<>>
  BY <1>1, <1>e, EmptySeq
<1>2. ASSUME cells # <<>>
      PROVE  \E n \in Nat : DOMAIN cells = 1 .. n /\ cells = [i \in 1 .. n |-> cells[i]]
  <2>2. CASE \E c : cells = <<c>>
    BY <2>2
  <2>3. CASE spec.ci # <<>> /\ cells = Cells(spec)
    <3>1. PICK ci, T : ci = spec.ci[1] /\ T = ToSet(spec.ci)
      OBVIOUS
    <3>2. ci \in ToSet(spec.ci)
      <4>1. spec.ci \in Seq(T) /\ spec.ci # <<>>
        BY <2>3, <3>1 DEF IsTarget
      <4>2. 1 \in DOMAIN spec.ci
        BY <4>1
      <4>q. QED BY <3>1, <4>2 DEF ToSet
    <3>3. PICK toolchains, S : toolchains = ci.toolchains /\ S = ToSet(ci.toolchains)
      OBVIOUS
    <3>4. toolchains \in Seq(S)
      BY <3>2, <3>3 DEF IsTarget
    <3>5. PICK n \in Nat : n = Len(toolchains)
      BY <3>4
    <3>6. DOMAIN toolchains = 1 .. n
      BY <3>4, <3>5
    <3>q. QED BY <2>3, <3>1, <3>3, <3>6 DEF Cells
  <2>q. QED BY <1>1, <1>2, <2>2, <2>3 DEF CellsFor
<1>3. CASE cells # <<>>
  <2>1. PICK n \in Nat : DOMAIN cells = 1 .. n /\ cells = [i \in 1 .. n |-> cells[i]]
    BY <1>2, <1>3
  <2>2. PICK S : S = ToSet(cells)
    OBVIOUS
  <2>3. \A i \in 1 .. n : cells[i] \in S
    BY <2>1, <2>2 DEF ToSet
  <2>4. cells \in Seq(S)
    BY <2>1, <2>3
  <2>q. QED BY <1>1, <2>2, <2>4
<1>q. QED BY <1>e, <1>3

(* What any target adds is in the matrix. *)
LEMMA IncludeHas ==
    ASSUME NEW registry, NEW job,
           registry.targets \in Seq(ToSet(registry.targets)),
           \A spec \in ToSet(registry.targets) : IsTarget(spec),
           NEW i \in DOMAIN registry.targets,
           NEW cell \in ToSet(CellsFor(registry, job, registry.targets[i]))
    PROVE  cell \in ToSet(include(registry, job)[Len(registry.targets)])
<1>1. PICK targets, all : targets = registry.targets /\ all = ToSet(registry.targets)
  OBVIOUS
<1>2. targets \in Seq(all)
  BY <1>1
<1>3. PICK n \in Nat : n = Len(targets)
  BY <1>2
<1>4. DOMAIN targets = 1 .. n /\ \A k \in 1 .. n : targets[k] \in all
  BY <1>2, <1>3
<1> DEFINE Added(k) == CellsFor(registry, job, targets[k])
           S == UNION {ToSet(Added(k)) : k \in 1 .. n}
<1>5. PICK made : made = include(registry, job)
  OBVIOUS
<1>6. made[0] = <<>> /\ \A k \in 1 .. n : made[k] = made[k - 1] \o Added(k)
  BY <1>1, <1>3, <1>5, IncludeFact
<1>7. \A k \in 1 .. n : Added(k) \in Seq(ToSet(Added(k))) /\ ToSet(Added(k)) \subseteq S
  BY <1>1, <1>4, CellsShape
<1>8. \A k \in 1 .. n : Added(k) \in Seq(S)
  <2> HIDE DEF Added, S
  <2>1. ASSUME NEW k \in 1 .. n PROVE Added(k) \in Seq(S)
    <3>1. PICK s, R : s = Added(k) /\ R = ToSet(Added(k))
      OBVIOUS
    <3>2. s \in Seq(R) /\ R \subseteq S
      BY <1>7, <3>1
    <3>3. PICK m \in Nat : m = Len(s)
      BY <3>2
    <3>4. s = [j \in 1 .. m |-> s[j]] /\ \A j \in 1 .. m : s[j] \in S
      BY <3>2, <3>3
    <3>5. s \in [1 .. m -> S]
      BY <3>4
    <3>6. s \in Seq(S)
      BY <3>5
    <3>q. QED BY <3>1, <3>6
  <2>q. QED BY <2>1
<1> HIDE DEF Added, S
<1> DEFINE Shape(m) == /\ made[m] \in Seq(S)
                       /\ \A k \in 1 .. m : ToSet(Added(k)) \subseteq ToSet(made[m])
           T == {m \in 0 .. n : ~ Shape(m)}
<1>9. ASSUME NEW m \in 1 .. n, Shape(m - 1) PROVE Shape(m)
  <2>1. PICK s, t, u : s = made[m - 1] /\ t = Added(m) /\ u = made[m]
    OBVIOUS
  <2>2. s \in Seq(S) /\ t \in Seq(S) /\ u = s \o t
    BY <1>6, <1>8, <1>9, <2>1
  <2>3. /\ u \in Seq(S) /\ Len(u) = Len(s) + Len(t)
        /\ \A k \in 1 .. Len(s) + Len(t) : u[k] = IF k <= Len(s) THEN s[k] ELSE t[k - Len(s)]
    BY <2>2, ConcatProperties
  <2>4. PICK a, b \in Nat : a = Len(s) /\ b = Len(t)
    BY <2>2
  <2>5. DOMAIN s = 1 .. a /\ DOMAIN t = 1 .. b /\ DOMAIN u = 1 .. (a + b)
    BY <2>2, <2>3, <2>4
  <2>6. ToSet(s) \subseteq ToSet(u)
    <3>1. \A k \in 1 .. a : k \in 1 .. (a + b) /\ u[k] = s[k]
      BY <2>3, <2>4
    <3>q. QED BY <2>5, <3>1 DEF ToSet
  <2>7. ToSet(t) \subseteq ToSet(u)
    <3>1. ASSUME NEW k \in 1 .. b PROVE a + k \in 1 .. (a + b) /\ u[a + k] = t[k]
      <4>1. PICK j : j = a + k
        OBVIOUS
      <4>2. j \in 1 .. (a + b) /\ ~(j <= a) /\ j - a = k
        BY <4>1
      <4>3. u[j] = t[j - a]
        BY <2>3, <2>4, <4>2
      <4>q. QED BY <4>1, <4>2, <4>3
    <3>q. QED BY <2>5, <3>1 DEF ToSet
  <2>8. \A k \in 1 .. m : k \in 1 .. (m - 1) \/ k = m
    OBVIOUS
  <2>9. \A k \in 1 .. (m - 1) : ToSet(Added(k)) \subseteq ToSet(s)
    BY <1>9, <2>1
  <2>q. QED BY <2>1, <2>3, <2>6, <2>7, <2>8, <2>9
<1>10. T = {}
  <2> SUFFICES ASSUME T # {} PROVE FALSE
    OBVIOUS
  <2>1. PICK m \in T : \A y \in T : m <= y
    <3> HIDE DEF T
    <3>1. T \subseteq Nat
      BY DEF T
    <3>q. QED BY <3>1, LeastNatural
  <2>2. Shape(0)
    <3>1. <<>> \in Seq(S) /\ 1 .. 0 = {}
      BY EmptySeq
    <3>q. QED BY <1>6, <3>1
  <2>3. m \in 1 .. n /\ m - 1 \in 0 .. n /\ ~(m <= m - 1)
    BY <2>2
  <2>4. Shape(m - 1)
    BY <2>1, <2>3
  <2>5. Shape(m)
    BY <1>9, <2>3, <2>4
  <2>q. QED BY <2>3, <2>5
<1>11. Shape(n)
  <2>1. n \in 0 .. n
    OBVIOUS
  <2>q. QED BY <1>10, <2>1
<1>12. i \in 1 .. n /\ cell \in ToSet(Added(i))
  BY <1>1, <1>4 DEF Added
<1>q. QED BY <1>1, <1>3, <1>5, <1>11, <1>12

Handing == {"matrices", "version", "passed"}

(* What the command has accepted. *)
Audited ==
    /\ files \in Repositories
    /\ entry \in 0 .. Len(files.entries)
    /\ \A i \in 1 .. entry : validate_workflow_entry(files.registry, files.entries[i])

(* When something is handed over, all was validated. *)
AllValidated ==
    /\ validate_registry(files.registry, RustVersion[1])
    /\ entry = Len(files.entries)
    /\ {"ci.yml", "release-gates.yml"} \subseteq {files.entries[i].name : i \in DOMAIN files.entries}

Handed ==
    /\ at = "workflows" => validate_registry(files.registry, RustVersion[1])
    /\ at \in Handing \/ output # <<>> => AllValidated

MatrixInv == Audited /\ Handed

(* The entries of a directory are a sequence. *)
LEMMA EntriesShape ==
    ASSUME files \in Repositories
    PROVE  /\ Len(files.entries) \in Nat /\ DOMAIN files.entries = 1 .. Len(files.entries)
           /\ \A i \in 1 .. Len(files.entries) : files.entries[i] \in ToSet(files.entries)
<1>1. PICK entries, S : entries = files.entries /\ S = ToSet(files.entries)
  OBVIOUS
<1>2. entries \in Seq(S)
  BY <1>1, RepositoriesAssumption
<1>q. QED BY <1>1, <1>2

(* The invariant holds at the start. *)
LEMMA MatrixInitHolds == MatrixInit => MatrixInv
<1> SUFFICES ASSUME MatrixInit PROVE MatrixInv
  OBVIOUS
<1>1. Audited
  BY EntriesShape DEF MatrixInit, Audited
<1>2. Handed
  BY DEF MatrixInit, Handed, Handing
<1>q. QED BY <1>1, <1>2 DEF MatrixInv

(* Every step keeps it. *)
LEMMA MatrixNextHolds == MatrixInv /\ [MatrixNext]_matrix_vars => MatrixInv'
<1> SUFFICES ASSUME MatrixInv, [MatrixNext]_matrix_vars PROVE MatrixInv'
  OBVIOUS
<1> USE DEF MatrixInv
<1>1. files' = files
  BY DEF MatrixNext, validate_xtask_alias, package_rust_version, load_registry, NextWorkflow,
         validate_workflow_directory, write_github_output, WriteLine, PrintMatrices, Proceed, matrix_vars
<1>2. CASE UNCHANGED matrix_vars
  BY <1>2 DEF matrix_vars, Audited, Handed, AllValidated
<1>3. CASE validate_xtask_alias \/ package_rust_version \/ load_registry \/ validate_workflow_directory
  <2>1. Audited'
    BY <1>1, <1>3 DEF Audited, validate_xtask_alias, package_rust_version, load_registry,
                      validate_workflow_directory, Proceed, Fail
  <2>2. Handed'
    BY <1>1, <1>3 DEF Handed, Handing, AllValidated, validate_xtask_alias, package_rust_version,
                      load_registry, validate_workflow_directory, Proceed, Fail
  <2>q. QED BY <2>1, <2>2
<1>4. CASE NextWorkflow
  <2>0. Len(files.entries) \in Nat
    BY EntriesShape DEF Audited
  <2>1. CASE /\ at = "workflows" /\ entry < Len(files.entries)
             /\ validate_workflow_entry(files.registry, files.entries[entry + 1])
             /\ entry' = entry + 1 /\ UNCHANGED <<at, output>>
    <3>1. output = <<>>
      BY <2>1 DEF Handed, AllValidated
    <3>2. entry' \in 0 .. Len(files.entries) /\ \A i \in 1 .. entry' : i \in 1 .. entry \/ i = entry + 1
      BY <2>0, <2>1 DEF Audited
    <3>3. Audited'
      BY <1>1, <2>1, <3>2 DEF Audited
    <3>4. Handed'
      BY <1>1, <2>1, <3>1 DEF Handed, Handing
    <3>q. QED BY <3>3, <3>4
  <2>2. CASE at' = "failed" /\ UNCHANGED <<entry, output>>
    BY <1>1, <2>2 DEF Audited, Handed, Handing, AllValidated
  <2>q. QED BY <1>4, <2>1, <2>2 DEF NextWorkflow, Fail
<1>5. CASE write_github_output \/ PrintMatrices
  <2>1. at \in {"matrices", "version"} /\ at' \in {"version", "passed", "failed"} /\ entry' = entry
    BY <1>5 DEF write_github_output, WriteLine, PrintMatrices
  <2>2. AllValidated /\ AllValidated'
    BY <1>1, <2>1 DEF Handed, Handing, AllValidated
  <2>q. QED BY <1>1, <2>1, <2>2 DEF Audited, Handed
<1>q. QED BY <1>2, <1>3, <1>4, <1>5 DEF MatrixNext

-----------------------------------------------------------------------------
(* An accepted entry keeps the policy of the workflows. *)
LEMMA EntryKeepsPolicy ==
    ASSUME NEW registry, NEW e, validate_workflow_entry(registry, e)
    PROVE  validate_workflow_policy(e.workflow)
<1>1. CASE e.name = "ci.yml"
  BY <1>1 DEF validate_workflow_entry, validate_workflow
<1>2. CASE e.name = "release-gates.yml"
  BY <1>2 DEF validate_workflow_entry, validate_release_workflow
<1>3. CASE e.name \notin {"ci.yml", "release-gates.yml"}
  BY <1>3 DEF validate_workflow_entry
<1>q. QED BY <1>1, <1>2, <1>3

(* Every line of an accepted workflow passed the audit. *)
LEMMA AuditHolds == MatrixInv => AuditedCargoIsLocked
<1> SUFFICES ASSUME MatrixInv PROVE AuditedCargoIsLocked
  OBVIOUS
<1>1. ASSUME NEW e \in AcceptedFiles, NEW job \in DOMAIN e.workflow.jobs,
             NEW s \in DOMAIN e.workflow.jobs[job].steps,
             NEW l \in DOMAIN e.workflow.jobs[job].steps[s].run,
             NEW words \in AuditedCommands(e.workflow.jobs[job].steps[s].run[l]), NEW i \in DOMAIN words,
             InCommandPosition(words, i),
             NEW token \in words[i].tokens, cargo_executable(token)
      PROVE  /\ i = 1 /\ words[i].text = "cargo"
             /\ \/ \E k \in DOMAIN words : words[k].text = "--locked"
                \/ Subcommand(words) \in Exempt
  <2>1. PICK line : line = e.workflow.jobs[job].steps[s].run[l]
    OBVIOUS
  <2>2. e \in ToSet(files.entries) /\ validate_workflow_policy(e.workflow)
    <3>1. PICK n \in 1 .. entry : e = files.entries[n]
      BY DEF AcceptedFiles
    <3>2. n \in 1 .. Len(files.entries)
      BY <3>1, EntriesShape DEF MatrixInv, Audited
    <3>3. validate_workflow_entry(files.registry, e)
      BY <3>1 DEF MatrixInv, Audited
    <3>4. validate_workflow_policy(e.workflow)
      BY <3>3, EntryKeepsPolicy
    <3>q. QED BY <3>1, <3>2, <3>4, EntriesShape DEF MatrixInv, Audited
  <2>3. IsLine(line)
    BY <2>1, <2>2, RepositoriesAssumption DEF MatrixInv, Audited
  <2>4. validate_locked_cargo(line)
    BY <2>1, <2>2 DEF validate_workflow_policy, validate_workflow_job, validate_workflow_step
  <2>5. words \in AuditedCommands(line)
    BY <2>1
  <2>q. QED BY <1>1, <2>3, <2>4, <2>5, LineIsLocked
<1>q. QED BY <1>1 DEF AuditedCargoIsLocked

-----------------------------------------------------------------------------
(* No target names the job that holds the coverage matrix. *)
NobodyNamesCoverage ==
    \A r \in Repositories : \A spec \in ToSet(r.registry.targets) :
      \A ci \in ToSet(spec.ci) : ci.job # "coverage"

(* A cell of the matrices is one that an accepted ci.yml runs. *)
LEMMA GeneratedRuns ==
    ASSUME MatrixInv, AllValidated, NEW job \in DOMAIN matrices(files.registry),
           NEW cell \in ToSet(matrices(files.registry)[job])
    PROVE  RunsCell(job, cell)
<1>1. PICK n \in DOMAIN files.entries : files.entries[n].name = "ci.yml"
  BY DEF AllValidated
<1>2. n \in 1 .. entry
  BY <1>1, EntriesShape DEF AllValidated, MatrixInv, Audited
<1>3. PICK e : e = files.entries[n]
  OBVIOUS
<1>4. e \in AcceptedFiles /\ e.name = "ci.yml"
  BY <1>1, <1>2, <1>3 DEF AcceptedFiles
<1>5. validate_workflow(files.registry, e.workflow)
  BY <1>2, <1>3, <1>4 DEF MatrixInv, Audited, validate_workflow_entry
<1>6. job \in DOMAIN e.workflow.jobs
  BY <1>5 DEF validate_workflow
<1>7. e.workflow.jobs[job].matrix = Literal(matrices(files.registry)[job])
  BY <1>5, <1>6 DEF validate_workflow
<1>8. PICK matrix : matrix = e.workflow.jobs[job].matrix
  OBVIOUS
<1>9. matrix.kind = "literal" /\ matrix.keys = {"include"} /\ cell \in ToSet(matrix.include)
  BY <1>7, <1>8 DEF Literal
<1>q. QED BY <1>4, <1>6, <1>8, <1>9 DEF RunsCell

(* All that is declared is built. *)
LEMMA CellsHold == NobodyNamesCoverage /\ MatrixInv => DeclaredCellsRun
<1> SUFFICES ASSUME NobodyNamesCoverage, MatrixInv, output # <<>> PROVE DeclaredCellsRun
  BY DEF DeclaredCellsRun
<1>1. AllValidated
  BY DEF MatrixInv, Handed
<1>2. PICK registry : registry = files.registry
  OBVIOUS
<1>3. PICK targets, all : targets = registry.targets /\ all = ToSet(registry.targets)
  OBVIOUS
<1>4. /\ targets \in Seq(all) /\ \A spec \in all : IsTarget(spec)
      /\ \A spec \in all : \A ci \in ToSet(spec.ci) : ci.job # "coverage"
  BY <1>2, <1>3, RepositoriesAssumption DEF MatrixInv, Audited, NobodyNamesCoverage
<1>5. \A i \in DOMAIN targets : targets[i] \in all
  BY <1>3 DEF ToSet
<1>6. ASSUME NEW i \in DOMAIN targets, NEW job \in DOMAIN matrices(registry),
             NEW cell \in ToSet(CellsFor(registry, job, targets[i]))
      PROVE  RunsCell(job, cell)
  <2>1. cell \in ToSet(include(registry, job)[Len(registry.targets)])
    BY <1>3, <1>4, IncludeHas
  <2>2. matrices(registry)[job] = include(registry, job)[Len(registry.targets)]
    BY DEF matrices
  <2>q. QED BY <1>1, <1>2, <2>1, <2>2, GeneratedRuns
<1>7. ASSUME NEW i \in DOMAIN targets, NEW spec, spec = targets[i], spec.ci # <<>>
      PROVE  /\ spec.ci[1] \in ToSet(spec.ci) /\ DOMAIN spec.ci = {1}
             /\ spec.ci[1].job \in DOMAIN matrices(registry) /\ "coverage" \in DOMAIN matrices(registry)
             /\ spec.ci[1].job # "coverage"
  <2>1. IsTarget(spec) /\ spec \in all
    BY <1>4, <1>5, <1>7
  <2>2. PICK ci, S : ci = spec.ci /\ S = ToSet(spec.ci)
    OBVIOUS
  <2>3. ci \in Seq(S) /\ Len(ci) <= 1 /\ ci # <<>>
    BY <1>7, <2>1, <2>2 DEF IsTarget
  <2>4. DOMAIN ci = 1 .. Len(ci) /\ Len(ci) = 1 /\ 1 .. 1 = {1}
    <3>1. DOMAIN ci = 1 .. Len(ci) /\ Len(ci) \in Nat
      BY <2>3
    <3>2. Len(ci) # 0
      BY <2>3, EmptySeq
    <3>q. QED BY <2>3, <3>1, <3>2
  <2>5. spec.ci[1] \in ToSet(spec.ci)
    BY <2>2, <2>4 DEF ToSet
  <2>q. QED BY <1>3, <1>4, <1>7, <2>1, <2>2, <2>4, <2>5 DEF matrices
<1>8. ASSUME NEW i \in DOMAIN targets, NEW spec, spec = targets[i]
      PROVE  /\ spec.evidence # "not-covered" =>
                  /\ spec.ci # <<>>
                  /\ \A cell \in ToSet(Cells(spec)) : RunsCell(spec.ci[1].job, cell)
             /\ \A j \in DOMAIN spec.ci : spec.ci[j].coverage =>
                  /\ spec.evidence = "runtime"
                  /\ RunsCell("coverage", CoverageCell(registry, spec))
  <2>1. PICK version : version = RustVersion[1]
    OBVIOUS
  <2>2. validate_target(spec, version)
    BY <1>1, <1>2, <1>3, <1>8, <2>1 DEF AllValidated, validate_registry
  <2>3. spec.evidence # "not-covered" <=> spec.ci # <<>>
    BY <2>2 DEF validate_target
  <2>4. ASSUME spec.ci # <<>>, NEW cell \in ToSet(Cells(spec))
        PROVE  RunsCell(spec.ci[1].job, cell)
    <3>1. spec.ci[1].job \in DOMAIN matrices(registry) /\ spec.ci[1].job # "coverage"
      BY <1>7, <1>8, <2>4
    <3>2. CellsFor(registry, spec.ci[1].job, targets[i]) = Cells(spec)
      BY <1>8, <2>4, <3>1 DEF CellsFor
    <3>q. QED BY <1>6, <2>4, <3>1, <3>2
  <2>5. ASSUME NEW j \in DOMAIN spec.ci, spec.ci[j].coverage
        PROVE  /\ spec.evidence = "runtime"
               /\ RunsCell("coverage", CoverageCell(registry, spec))
    <3>1. spec.ci # <<>>
      BY <2>5
    <3>2. j = 1 /\ "coverage" \in DOMAIN matrices(registry)
      BY <1>7, <1>8, <2>5, <3>1
    <3>3. spec.evidence = "runtime"
      <4>1. spec.evidence \in {"runtime", "compile", "not-covered"}
        BY <1>4, <1>5, <1>8 DEF IsTarget
      <4>2. spec.evidence # "compile"
        BY <2>2, <2>3, <2>5, <3>1, <3>2 DEF validate_target, validate_ci
      <4>q. QED BY <2>3, <3>1, <4>1, <4>2
    <3>4. PICK c : c = CoverageCell(registry, spec)
      OBVIOUS
    <3>5. CellsFor(registry, "coverage", targets[i]) = <<c>>
      BY <1>8, <2>5, <3>1, <3>2, <3>4 DEF CellsFor
    <3>6. c \in ToSet(CellsFor(registry, "coverage", targets[i]))
      BY <3>5 DEF ToSet
    <3>q. QED BY <1>6, <3>2, <3>3, <3>4, <3>6
  <2>q. QED BY <2>3, <2>4, <2>5
<1>q. QED BY <1>2, <1>3, <1>8 DEF DeclaredCellsRun

-----------------------------------------------------------------------------
(***************************************************************************)
(* The compatibility check.                                                *)
(***************************************************************************)
(* A set of two is its two members. *)
LEMMA PairFact ==
    ASSUME NEW S, IsFiniteSet(S), Cardinality(S) = 2, NEW a \in S, NEW b \in S, a # b
    PROVE  S = {a, b}
<1>1. IsFiniteSet({a}) /\ Cardinality({a}) = 1
  BY FS_Singleton
<1>2. IsFiniteSet({a} \cup {b}) /\ Cardinality({a} \cup {b}) = 2
  BY <1>1, FS_AddElement
<1>3. {a} \cup {b} \in SUBSET S
  OBVIOUS
<1>q. QED BY <1>2, <1>3, FS_Subset

(* The sequence of the packages holds each of them once. *)
LEMMA SeqsFact ==
    ASSUME NEW S, IsFiniteSet(S), NEW s \in SetToSeqs(S)
    PROVE  /\ Len(s) \in Nat /\ DOMAIN s = 1 .. Len(s)
           /\ \A i \in DOMAIN s : s[i] \in S
           /\ \A i, j \in DOMAIN s : s[i] = s[j] => i = j
           /\ \A x \in S : \E i \in DOMAIN s : s[i] = x
<1>1. Cardinality(S) \in Nat
  BY FS_CardinalityType
<1>2. PICK n \in Nat : n = Cardinality(S)
  BY <1>1
<1>3. s \in [1 .. n -> S] /\ \A i, j \in 1 .. n : i # j => s[i] # s[j]
  BY <1>2 DEF SetToSeqs
<1>4. s \in Seq(S) /\ Len(s) = n
  BY <1>3
<1>5. IsFiniteSet(1 .. n) /\ Cardinality(1 .. n) = n
  BY FS_Interval
<1>6. s \in Injection(1 .. n, S)
  BY <1>3 DEF Injection, IsInjective
<1>7. s \in Surjection(1 .. n, S)
  BY <1>2, <1>5, <1>6, FS_Injection
<1>8. \A x \in S : \E i \in 1 .. n : s[i] = x
  BY <1>7 DEF Surjection
<1>q. QED BY <1>3, <1>4, <1>8

-----------------------------------------------------------------------------
(* What was checked, by the step that is next. *)
Planned == {"packages", "dependencies", "run", "passed"}

Agreed ==
    /\ step \notin {"consumer", "failed"} => frozen_consumer_digest(workspace.consumer)
    /\ step \in Planned =>
         /\ validate_resolved_fs2(workspace.resolved)
         /\ validated_packages(workspace.packages)
         /\ packages \in SetToSeqs(workspace.packages)
    /\ step \in Planned \ {"packages"} =>
         \A i \in DOMAIN packages : validate_compatibility_package(packages[i])
    /\ step \in {"run", "passed"} => \A i \in DOMAIN packages : validate_dependencies(packages[i])

(* The runs that passed are the first of those to be made. *)
RunsMade ==
    /\ step \notin {"run", "passed", "failed"} => ran = <<>> /\ checked = 0
    /\ step \in {"run", "passed"} =>
         /\ checked \in 0 .. Len(Subjects)
         /\ ran \in Seq(ToSet(Runs)) /\ Len(ran) <= Len(Runs)
         /\ \A i \in 1 .. Len(ran) : ran[i] = Runs[i]
         /\ ran # <<>> => checked = Len(Subjects)
    /\ step = "passed" => checked = Len(Subjects) /\ Len(ran) = Len(Runs)

CompatibilityInv == workspace \in Workspaces /\ Agreed /\ RunsMade

(* It holds at the start. *)
LEMMA CompatibilityInitHolds == CompatibilityInit => CompatibilityInv
BY DEF CompatibilityInit, CompatibilityInv, Agreed, RunsMade, Planned

(* There is a run for each package and each subject. *)
LEMMA RunsFact ==
    ASSUME NEW n, n = Len(packages), n \in Nat
    PROVE  /\ Len(Subjects) = 2 /\ Subjects[1] = "legacy" /\ Subjects[2] = "current"
           /\ DOMAIN Subjects = 1 .. 2 /\ ToSet(Subjects) = {"legacy", "current"}
           /\ Len(Runs) = 2 * n /\ DOMAIN Runs = 1 .. (2 * n)
           /\ \A k \in 1 .. (2 * n) :
                Runs[k] = <<packages[((k - 1) \div 2) + 1], Subjects[((k - 1) % 2) + 1]>>
<1>1. Len(Subjects) = 2 /\ Subjects[1] = "legacy" /\ Subjects[2] = "current" /\ DOMAIN Subjects = 1 .. 2
  BY DEF Subjects
<1>2. ToSet(Subjects) = {"legacy", "current"}
  BY <1>1 DEF ToSet
<1>3. Len(packages) * Len(Subjects) = 2 * n /\ 2 * n \in Nat
  BY <1>1
<1>4. Runs = [k \in 1 .. (2 * n) |-> <<packages[((k - 1) \div 2) + 1], Subjects[((k - 1) % 2) + 1]>>]
  BY <1>1, <1>3 DEF Runs
<1>5. Len(Runs) = 2 * n
  BY <1>3, <1>4
<1>q. QED BY <1>1, <1>2, <1>4, <1>5

(* Every step keeps it. *)
LEMMA CompatibilityNextHolds == CompatibilityInv /\ [CompatibilityNext]_compatibility_vars => CompatibilityInv'
<1> SUFFICES ASSUME CompatibilityInv, [CompatibilityNext]_compatibility_vars
             PROVE  CompatibilityInv'
  OBVIOUS
<1> USE DEF CompatibilityInv
<1>1. CASE UNCHANGED compatibility_vars
  BY <1>1 DEF compatibility_vars, Agreed, RunsMade, Runs
<1>2. CASE \/ CheckConsumer \/ CheckLock \/ toolchain_key \/ Format
           \/ validate_compatibility_packages
  <2>1. Agreed'
    BY <1>2 DEF CheckConsumer, CheckLock, toolchain_key, Format, validate_compatibility_packages, Pass,
                Agreed, Planned
  <2>2. RunsMade'
    BY <1>2 DEF CheckConsumer, CheckLock, toolchain_key, Format, validate_compatibility_packages, Pass,
                RunsMade
  <2>q. QED BY <1>2, <2>1, <2>2
            DEF CheckConsumer, CheckLock, toolchain_key, Format, validate_compatibility_packages, Pass
<1>3. CASE CheckDependencies
  <2>1. Agreed'
    BY <1>3 DEF CheckDependencies, Pass, Agreed, Planned
  <2>2. /\ step = "dependencies" /\ step' \in {"run", "failed"}
        /\ UNCHANGED <<workspace, packages, checked, ran>>
    BY <1>3 DEF CheckDependencies, Pass
  <2>3. ran = <<>> /\ checked = 0
    BY <2>2 DEF RunsMade
  <2>4. packages \in SetToSeqs(workspace.packages) /\ IsFiniteSet(workspace.packages)
    BY <2>2, WorkspacesAssumption DEF Agreed, Planned
  <2>5. Len(packages) \in Nat
    BY <2>4, SeqsFact
  <2>6. Len(Runs) \in Nat /\ Len(Subjects) = 2
    <3>1. PICK n \in Nat : n = Len(packages)
      BY <2>5
    <3>q. QED BY <3>1, RunsFact
  <2>7. PICK S, m : S = ToSet(Runs)' /\ m = Len(Runs)' /\ m \in Nat /\ Len(Subjects)' = 2
    <3>1. Runs' = Runs
      BY <2>2 DEF Runs, Subjects
    <3>2. Len(Subjects)' = 2
      BY DEF Subjects
    <3>q. QED BY <2>6, <3>1, <3>2
  <2>8. <<>> \in Seq(S) /\ Len(<<>>) = 0 /\ 1 .. 0 = {}
    BY EmptySeq
  <2>9. RunsMade'
    BY <2>2, <2>3, <2>7, <2>8 DEF RunsMade
  <2>q. QED BY <2>1, <2>2, <2>9
<1>4. CASE compatibility_packages
  <2>1. Agreed'
    BY <1>4 DEF compatibility_packages, Agreed, Planned
  <2>2. RunsMade'
    BY <1>4 DEF compatibility_packages, RunsMade
  <2>q. QED BY <1>4, <2>1, <2>2 DEF compatibility_packages
<1>5. CASE CheckSubject \/ RunConsumer \/ Succeed
  <2>1. step = "run" /\ step' \in {"run", "passed", "failed"} /\ UNCHANGED <<workspace, packages>>
    BY <1>5 DEF CheckSubject, RunConsumer, Succeed
  <2>2. Agreed'
    BY <2>1 DEF Agreed, Planned
  <2>3. /\ packages \in SetToSeqs(workspace.packages) /\ IsFiniteSet(workspace.packages)
    BY <2>1, WorkspacesAssumption DEF Agreed, Planned
  <2>4. PICK runs, m :
          /\ m \in Nat /\ runs = Runs /\ m = Len(Runs) /\ DOMAIN runs = 1 .. m
          /\ runs = Runs' /\ m = Len(Runs)' /\ Len(Subjects) = 2 /\ Len(Subjects)' = 2
    <3>1. PICK n \in Nat : n = Len(packages)
      BY <2>3, SeqsFact
    <3>2. Len(Runs) \in Nat /\ DOMAIN Runs = 1 .. Len(Runs) /\ Len(Subjects) = 2
      <4>1. 2 * n \in Nat /\ Len(Runs) = 2 * n /\ DOMAIN Runs = 1 .. (2 * n) /\ Len(Subjects) = 2
        BY <3>1, RunsFact
      <4>q. QED BY <4>1
    <3>3. Runs' = Runs
      BY <2>1 DEF Runs, Subjects
    <3>4. Len(Subjects)' = 2
      BY DEF Subjects
    <3>q. QED BY <3>2, <3>3, <3>4
  <2>5. /\ checked \in 0 .. 2 /\ ran \in Seq(ToSet(runs)) /\ Len(ran) <= m
        /\ \A i \in 1 .. Len(ran) : ran[i] = runs[i]
        /\ ran # <<>> => checked = 2
    BY <2>1, <2>4 DEF RunsMade
  <2>6. /\ step' \in {"run", "passed"} =>
             /\ checked' \in 0 .. 2
             /\ ran' \in Seq(ToSet(runs)) /\ Len(ran') <= m
             /\ \A i \in 1 .. Len(ran') : ran'[i] = runs[i]
             /\ ran' # <<>> => checked' = 2
        /\ step' = "passed" => checked' = 2 /\ Len(ran') = m
    <3>1. CASE CheckSubject
      BY <2>1, <2>4, <2>5, <3>1 DEF CheckSubject
    <3>2. CASE RunConsumer
      <4>1. /\ checked = 2 /\ checked' = 2 /\ Len(ran) < m /\ step' \in {"run", "failed"}
            /\ step' = "run" => ran' = Append(ran, runs[Len(ran) + 1])
        BY <2>1, <2>4, <3>2 DEF RunConsumer
      <4>2. CASE step' = "run"
        <5>1. PICK S : S = ToSet(runs)
          OBVIOUS
        <5>2. ran \in Seq(S) /\ Len(ran) \in Nat /\ Len(ran) + 1 \in 1 .. m
          BY <2>4, <2>5, <4>1, <5>1
        <5>3. PICK x : x = runs[Len(ran) + 1]
          OBVIOUS
        <5>4. x \in S
          BY <2>4, <5>1, <5>2, <5>3 DEF ToSet
        <5>5. /\ ran' \in Seq(S) /\ Len(ran') = Len(ran) + 1 /\ ran'[Len(ran) + 1] = x
              /\ \A i \in 1 .. Len(ran) : ran'[i] = ran[i]
          BY <4>1, <4>2, <5>2, <5>3, <5>4
        <5>q. QED BY <2>5, <4>1, <4>2, <5>1, <5>2, <5>3, <5>5
      <4>q. QED BY <4>1, <4>2
    <3>3. CASE Succeed
      BY <2>1, <2>4, <2>5, <3>3 DEF Succeed
    <3>q. QED BY <1>5, <3>1, <3>2, <3>3
  <2>7. RunsMade'
    BY <2>1, <2>4, <2>6 DEF RunsMade
  <2>q. QED BY <2>1, <2>2, <2>7
<1>q. QED BY <1>1, <1>2, <1>3, <1>4, <1>5 DEF CompatibilityNext

-----------------------------------------------------------------------------
(* A package that was accepted links the release and this checkout. *)
LEMMA LinkedFact ==
    ASSUME workspace \in Workspaces, validate_resolved_fs2(workspace.resolved),
           NEW package \in workspace.packages,
           validate_compatibility_package(package), validate_dependencies(package)
    PROVE  \E a, b \in workspace.resolved :
             /\ a.version = "0.4.3" /\ a.source = "registry" /\ Linked(package, "legacy") = {a}
             /\ b.source = "path" /\ b.manifest = "checkout" /\ Linked(package, "current") = {b}
<1> DEFINE resolved == workspace.resolved
           fs2 == {p \in resolved : p.name \in {"fs2", "fs2-turbo"}}
<1>1. /\ IsFiniteSet(package.dependencies) /\ IsFiniteSet(resolved)
      /\ \A p \in fs2 : p.source = "registry" /\ p.version = "0.4.3" => p.name = "fs2"
      /\ \A p \in fs2 : p.source = "path" /\ p.manifest = "checkout" => p.name = "fs2-turbo"
  BY WorkspacesAssumption
<1>2. PICK a \in fs2 : a.version = "0.4.3" /\ a.source = "registry"
  BY DEF validate_resolved_fs2
<1>3. PICK b \in fs2 : b.source = "path" /\ b.manifest = "checkout"
  BY DEF validate_resolved_fs2
<1>4. fs2 = {a, b}
  <2>1. IsFiniteSet(fs2) /\ Cardinality(fs2) = 2
    BY <1>1, FS_Subset DEF validate_resolved_fs2
  <2>2. a # b
    BY <1>2, <1>3
  <2>q. QED BY <2>1, <2>2, PairFact
<1>5. a.name = "fs2" /\ b.name = "fs2-turbo"
  BY <1>1, <1>2, <1>3
<1>6. PICK c \in package.dependencies :
        c.name = "fs2" /\ c.rename = "fs2_v04" /\ c.from = "registry"
  BY DEF validate_dependencies
<1>7. PICK d \in package.dependencies :
        d.name = "fs2-turbo" /\ d.rename = "fs2_current" /\ d.from = "checkout"
  BY DEF validate_dependencies
<1>8. package.dependencies = {c, d}
  <2>1. Cardinality(package.dependencies) = 2
    BY DEF validate_dependencies
  <2>2. c # d
    BY <1>6, <1>7
  <2>q. QED BY <1>1, <2>1, <2>2, PairFact
<1>9. package.features["legacy"] = {"fs2_v04"} /\ package.features["current"] = {"fs2_current"}
  BY DEF validate_compatibility_package, expected_features
<1>10. Linked(package, "legacy") = {a}
  <2>1. ASSUME NEW p PROVE p \in Linked(package, "legacy") <=> p \in fs2 /\ p.name = "fs2" /\ p.source = "registry"
    BY <1>6, <1>7, <1>8, <1>9 DEF Linked
  <2>q. QED BY <1>2, <1>3, <1>4, <1>5, <2>1
<1>11. Linked(package, "current") = {b}
  <2>1. ASSUME NEW p
        PROVE  p \in Linked(package, "current") <=>
                 p \in fs2 /\ p.name = "fs2-turbo" /\ p.source = "path" /\ p.manifest = "checkout"
    BY <1>6, <1>7, <1>8, <1>9 DEF Linked
  <2>q. QED BY <1>2, <1>3, <1>4, <1>5, <2>1
<1>q. QED BY <1>2, <1>3, <1>10, <1>11

(* The one run of an edition with a subject. *)
LEMMA OneRun ==
    ASSUME CompatibilityInv, step = "passed", NEW edition \in RequiredEditions,
           NEW subject \in ToSet(Subjects)
    PROVE  \E i \in DOMAIN ran :
             /\ {k \in DOMAIN ran : ran[k][1].edition = edition /\ ran[k][2] = subject} = {i}
             /\ ran[i][1] \in workspace.packages
             /\ \E j \in DOMAIN packages : ran[i][1] = packages[j]
<1>1. /\ validated_packages(workspace.packages)
      /\ packages \in SetToSeqs(workspace.packages) /\ IsFiniteSet(workspace.packages)
  BY WorkspacesAssumption DEF CompatibilityInv, Agreed, Planned
<1>2. PICK members : members = workspace.packages
  OBVIOUS
<1>3. PICK n \in Nat : n = Len(packages)
  BY <1>1, SeqsFact
<1>4. /\ DOMAIN packages = 1 .. n
      /\ \A i \in 1 .. n : packages[i] \in members
      /\ \A i, j \in 1 .. n : packages[i] = packages[j] => i = j
      /\ \A x \in members : \E i \in 1 .. n : packages[i] = x
  BY <1>1, <1>2, <1>3, SeqsFact
<1>5. /\ ran \in Seq(ToSet(Runs)) /\ Len(ran) = 2 * n
      /\ \A i \in 1 .. (2 * n) : ran[i] = Runs[i]
  <2>1. Len(Runs) = 2 * n
    BY <1>3, RunsFact
  <2>q. QED BY <2>1 DEF CompatibilityInv, RunsMade
<1>6. DOMAIN ran = 1 .. (2 * n)
  BY <1>5
<1>7. PICK s \in 1 .. 2 : Subjects[s] = subject
  BY <1>3, RunsFact DEF ToSet
<1>8. PICK j \in 1 .. n : packages[j].edition = edition
  <2>1. PICK p \in members : p.edition = edition
    BY <1>1, <1>2 DEF validated_packages
  <2>q. QED BY <1>4, <2>1
<1>9. \A k \in 1 .. n : packages[k].edition = edition => k = j
  BY <1>1, <1>2, <1>4, <1>8 DEF validated_packages
<1>10. \A k \in 1 .. (2 * n) :
         /\ ((k - 1) \div 2) + 1 \in 1 .. n /\ ((k - 1) % 2) + 1 \in 1 .. 2
         /\ ran[k][1] = packages[((k - 1) \div 2) + 1]
         /\ ran[k][2] = Subjects[((k - 1) % 2) + 1]
  <2>1. ASSUME NEW k \in 1 .. (2 * n)
        PROVE  ((k - 1) \div 2) + 1 \in 1 .. n /\ ((k - 1) % 2) + 1 \in 1 .. 2
    OBVIOUS
  <2>2. \A k \in 1 .. (2 * n) : Runs[k] = <<packages[((k - 1) \div 2) + 1], Subjects[((k - 1) % 2) + 1]>>
    BY <1>3, RunsFact
  <2>3. ASSUME NEW k \in 1 .. (2 * n)
        PROVE  /\ ran[k][1] = packages[((k - 1) \div 2) + 1]
               /\ ran[k][2] = Subjects[((k - 1) % 2) + 1]
    <3>1. PICK p, t : p = packages[((k - 1) \div 2) + 1] /\ t = Subjects[((k - 1) % 2) + 1]
      OBVIOUS
    <3>2. ran[k] = <<p, t>>
      BY <1>5, <2>2, <3>1
    <3>q. QED BY <3>1, <3>2
  <2>q. QED BY <2>1, <2>3
<1>11. PICK i \in 1 .. (2 * n) : ((i - 1) \div 2) + 1 = j /\ ((i - 1) % 2) + 1 = s
  <2>1. 2 * (j - 1) + s \in 1 .. (2 * n)
    OBVIOUS
  <2>2. (((2 * (j - 1) + s) - 1) \div 2) + 1 = j /\ (((2 * (j - 1) + s) - 1) % 2) + 1 = s
    OBVIOUS
  <2>q. QED BY <2>1, <2>2
<1>12. ran[i][1] = packages[j] /\ ran[i][2] = subject
  BY <1>7, <1>10, <1>11
<1>13. ASSUME NEW k \in 1 .. (2 * n), ran[k][1].edition = edition, ran[k][2] = subject
       PROVE  k = i
  <2>1. ((k - 1) \div 2) + 1 = j
    BY <1>9, <1>10, <1>13
  <2>2. ((k - 1) % 2) + 1 = s
    <3>1. Subjects[1] # Subjects[2]
      BY <1>3, RunsFact
    <3>2. PICK t \in 1 .. 2 : t = ((k - 1) % 2) + 1
      BY <1>10
    <3>3. Subjects[t] = Subjects[s]
      BY <1>7, <1>10, <1>13, <3>2
    <3>q. QED BY <3>1, <3>2, <3>3
  <2>3. (k - 1) \div 2 = (i - 1) \div 2 /\ (k - 1) % 2 = (i - 1) % 2
    BY <1>11, <2>1, <2>2
  <2>q. QED BY <2>3
<1>q. QED BY <1>2, <1>4, <1>6, <1>8, <1>12, <1>13

(* What was run, with which crate, when the command succeeds. *)
LEMMA ComparedHolds == CompatibilityInv => SuccessMeansCompared
<1> SUFFICES ASSUME CompatibilityInv, step = "passed" PROVE SuccessMeansCompared
  BY DEF SuccessMeansCompared
<1>1. workspace.consumer.text = "frozen" /\ checked = Len(Subjects)
  BY DEF CompatibilityInv, Agreed, RunsMade, frozen_consumer_digest
<1>2. ASSUME NEW edition \in RequiredEditions, NEW subject \in ToSet(Subjects)
      PROVE  LET runs == {i \in DOMAIN ran :
                            ran[i][1].edition = edition /\ ran[i][2] = subject}
             IN /\ Cardinality(runs) = 1
                /\ \A i \in runs :
                     /\ \A t \in DOMAIN ran[i][1].targets : ran[i][1].targets[t].source = Consumer
                     /\ {[version |-> p.version, source |-> p.source, manifest |-> p.manifest] :
                           p \in Linked(ran[i][1], subject)}
                          \in IF subject = "legacy"
                              THEN {{[version |-> "0.4.3", source |-> "registry", manifest |-> m]} :
                                      m \in {p.manifest : p \in workspace.resolved}}
                              ELSE {{[version |-> v, source |-> "path", manifest |-> "checkout"]} :
                                      v \in {p.version : p \in workspace.resolved}}
  <2>1. PICK i \in DOMAIN ran :
          /\ {k \in DOMAIN ran : ran[k][1].edition = edition /\ ran[k][2] = subject} = {i}
          /\ ran[i][1] \in workspace.packages
          /\ \E j \in DOMAIN packages : ran[i][1] = packages[j]
    BY <1>2, OneRun
  <2>2. PICK package : package = ran[i][1]
    OBVIOUS
  <2>3. /\ package \in workspace.packages /\ workspace \in Workspaces
        /\ validate_resolved_fs2(workspace.resolved)
        /\ validate_compatibility_package(package) /\ validate_dependencies(package)
    BY <2>1, <2>2 DEF CompatibilityInv, Agreed, Planned
  <2>4. \A t \in DOMAIN package.targets : package.targets[t].source = Consumer
    <3>1. PICK targets : targets = package.targets
      OBVIOUS
    <3>2. targets \in Seq(ToSet(targets)) /\ Len(targets) = 1 /\ targets[1].source = Consumer
      BY <2>3, <3>1, WorkspacesAssumption DEF validate_compatibility_package
    <3>3. PICK S : S = ToSet(targets)
      OBVIOUS
    <3>4. DOMAIN targets = 1 .. 1
      BY <3>2, <3>3
    <3>q. QED BY <3>1, <3>2, <3>4
  <2>5. PICK a, b \in workspace.resolved :
          /\ a.version = "0.4.3" /\ a.source = "registry" /\ Linked(package, "legacy") = {a}
          /\ b.source = "path" /\ b.manifest = "checkout" /\ Linked(package, "current") = {b}
    BY <2>3, LinkedFact
  <2>6. subject \in {"legacy", "current"}
    BY <1>2 DEF Subjects, ToSet
  <2>7. {[version |-> p.version, source |-> p.source, manifest |-> p.manifest] :
           p \in Linked(package, subject)}
          \in IF subject = "legacy"
              THEN {{[version |-> "0.4.3", source |-> "registry", manifest |-> m]} :
                      m \in {p.manifest : p \in workspace.resolved}}
              ELSE {{[version |-> v, source |-> "path", manifest |-> "checkout"]} :
                      v \in {p.version : p \in workspace.resolved}}
    <3>1. CASE subject = "legacy"
      BY <2>5, <3>1
    <3>2. CASE subject = "current"
      BY <2>5, <3>2
    <3>q. QED BY <2>6, <3>1, <3>2
  <2>8. Cardinality({i}) = 1
    BY FS_Singleton
  <2>q. QED BY <2>1, <2>2, <2>4, <2>7, <2>8
<1>q. QED BY <1>1, <1>2 DEF SuccessMeansCompared

-----------------------------------------------------------------------------
(***************************************************************************)
(* The command line.                                                       *)
(***************************************************************************)

(* The gate that was asked for keeps its invariant, the others never begin. *)
GatesInv ==
    /\ IF command = "matrix" THEN MatrixInv ELSE NoMatrix
    /\ IF command = "coverage" THEN CoverageInv ELSE NoCoverage
    /\ IF command = "compatibility" THEN CompatibilityInv ELSE NoCompatibility

(* A gate that never began promised nothing. *)
LEMMA IdleGates ==
    /\ NoMatrix => AuditedCargoIsLocked /\ DeclaredCellsRun
    /\ NoCoverage => InputsAreWhole /\ PassMeansExecuted /\ ReportIsTrue
    /\ NoCompatibility => SuccessMeansCompared
<1>1. NoMatrix => AuditedCargoIsLocked /\ DeclaredCellsRun
  BY DEF NoMatrix, AuditedCargoIsLocked, DeclaredCellsRun, AcceptedFiles
<1>2. NoCoverage => InputsAreWhole /\ PassMeansExecuted /\ ReportIsTrue
  BY DEF NoCoverage, InputsAreWhole, PassMeansExecuted, ReportIsTrue
<1>3. NoCompatibility => SuccessMeansCompared
  BY DEF NoCompatibility, SuccessMeansCompared
<1>q. QED BY <1>1, <1>2, <1>3

(* The gates keep their invariants under the command line: only the one that *)
(* was asked for steps.                                                      *)
THEOREM GatesInvariant == Spec => []GatesInv
<1>1. Init => GatesInv
  BY MatrixInitHolds, CoverageInitHolds, CompatibilityInitHolds DEF Init, GatesInv
<1>2. GatesInv /\ [Next]_vars => GatesInv'
  <2> SUFFICES ASSUME GatesInv, [Next]_vars PROVE GatesInv'
    OBVIOUS
  <2>1. /\ command' = command
        /\ IF command = "matrix" THEN [MatrixNext]_matrix_vars ELSE UNCHANGED matrix_vars
        /\ IF command = "coverage" THEN [CoverageNext]_coverage_vars ELSE UNCHANGED coverage_vars
        /\ IF command = "compatibility"
           THEN [CompatibilityNext]_compatibility_vars ELSE UNCHANGED compatibility_vars
    BY DEF Next, dispatch, main, vars
  <2>2. IF command = "matrix" THEN MatrixInv' ELSE NoMatrix'
    BY <2>1, MatrixNextHolds DEF GatesInv, NoMatrix, matrix_vars
  <2>3. IF command = "coverage" THEN CoverageInv' ELSE NoCoverage'
    BY <2>1, CoverageNextHolds DEF GatesInv, NoCoverage, coverage_vars
  <2>4. IF command = "compatibility" THEN CompatibilityInv' ELSE NoCompatibility'
    BY <2>1, CompatibilityNextHolds DEF GatesInv, NoCompatibility, compatibility_vars
  <2>q. QED BY <2>1, <2>2, <2>3, <2>4 DEF GatesInv
<1>q. QED BY <1>1, <1>2, PTL DEF Spec

(* What the coverage gate accepts of an input is all of it. *)
THEOREM InputsAreWholeHolds == Spec => []InputsAreWhole
<1>1. CoverageInv => InputsAreWhole
  BY DEF CoverageInv, Loaded, Whole, InputsAreWhole
<1>2. GatesInv => InputsAreWhole
  BY <1>1, IdleGates DEF GatesInv
<1>q. QED BY <1>2, GatesInvariant, PTL

(* What a pass of the coverage gate promises was executed, of the entries of *)
(* the exports and the lines of the report.                                  *)
THEOREM PassMeansExecutedHolds == Spec => []PassMeansExecuted
<1>1. GatesInv => PassMeansExecuted
  BY PassIsExecuted, IdleGates DEF GatesInv, CoverageInv
<1>q. QED BY <1>1, GatesInvariant, PTL

(* What the diagnostics report says of a definition is so. *)
THEOREM ReportIsTrueHolds == Spec => []ReportIsTrue
<1>1. GatesInv => ReportIsTrue
  BY IdleGates DEF GatesInv, CoverageInv, Reported
<1>q. QED BY <1>1, GatesInvariant, PTL

(* Every cargo of an accepted workflow is locked, or of an exempt subcommand. *)
THEOREM AuditedCargoIsLockedHolds == Spec => []AuditedCargoIsLocked
<1>1. GatesInv => AuditedCargoIsLocked
  BY AuditHolds, IdleGates DEF GatesInv
<1>q. QED BY <1>1, GatesInvariant, PTL

(* Where no target names the coverage job, what the registry declares is run *)
(* by the workflows.                                                         *)
THEOREM DeclaredCellsRunHolds == ASSUME NobodyNamesCoverage PROVE Spec => []DeclaredCellsRun
<1>1. GatesInv => DeclaredCellsRun
  BY CellsHold, IdleGates DEF GatesInv
<1>q. QED BY <1>1, GatesInvariant, PTL

(* A success of the compatibility check means that both crates were compared. *)
THEOREM SuccessMeansComparedHolds == Spec => []SuccessMeansCompared
<1>1. GatesInv => SuccessMeansCompared
  BY ComparedHolds, IdleGates DEF GatesInv
<1>q. QED BY <1>1, GatesInvariant, PTL
=============================================================================
