--------------------------- MODULE MCCoverageGate ---------------------------
(* Two locations of the workspace, the first with two topologies and intended  *)
(* to be executed, the second a reviewed gap; exports of up to five entries.   *)
EXTENDS CoverageGate

MCPolicy ==
  [t \in {"windows", "linux"} |->
     [unique_lines |-> 2, aggregate_lines |-> 1, regions |-> 1, functions |-> 1]]

LocA == <<"src/a.rs", 1>>
LocB == <<"src/b.rs", 1>>

MCIntended == {LocA}
MCWindowsOnly == {LocB}
MCReviewed == [k \in {<<"linux", LocB>>} |-> "reviewed"]

Code(at) == [at |-> at, kind |-> "code"]
Gap(at) == [at |-> at, kind |-> "gap"]

\* The second spelling stands for a leading "./" or backslashes.
FunctionEntry(source, regions, name, count) ==
  [filenames |-> <<[source |-> source, spelling |-> IF count = 0 THEN "./" ELSE ""]>>,
   regions |-> regions, name |-> name, count |-> count]

PlainRegions == <<Code(1)>>
LoopedRegions == <<Gap(2), Code(1)>>

Entries ==
  {FunctionEntry("src/a.rs", r, "f", n) :
     r \in {PlainRegions, LoopedRegions}, n \in {0, 1}}
    \cup {FunctionEntry("src/b.rs", PlainRegions, s, n) :
            s \in {"reviewed", "other"}, n \in {0, 1}}

Malformed == FunctionEntry("src/b.rs", <<Code(1), [at |-> 2, kind |-> "short"]>>, "f", 1)

\* Entries that name no definition, and one whose region is malformed.
Odd ==
  {FunctionEntry("core/option.rs", PlainRegions, "f", 0),
   FunctionEntry("src/b.rs", <<Gap(1)>>, "f", 0),
   [filenames |-> <<>>, regions |-> PlainRegions, name |-> "f", count |-> 0],
   Malformed}

Metric(covered, count) == [covered |-> covered, count |-> count]
Full == Metric(2, 2)
FullTotals ==
  [functions |-> Full, instantiations |-> Full, lines |-> Full, regions |-> Full]

Totals ==
  {[FullTotals EXCEPT ![field] = m] : field \in DOMAIN FullTotals,
     m \in {Full, Metric(0, 0), Metric(1, 2), Metric(3, 2)}}

Export(functions, totals, files) ==
  [kind |-> "llvm.coverage.json.export",
   data |-> <<[functions |-> functions, totals |-> totals, files |-> files]>>]

Good ==
  {FunctionEntry("src/a.rs", PlainRegions, "f", 1),
   FunctionEntry("src/b.rs", PlainRegions, "reviewed", 1)}
GoodExport == Export(Good, FullTotals, {Full})

File(data, size, written) ==
  [regular |-> TRUE, size |-> size, written |-> written, data |-> data]

SF(path) == [tag |-> "SF", path |-> path]
DA(line, count) == [tag |-> "DA", line |-> line, count |-> count]
End == [tag |-> "end_of_record"]
ReportLines ==
  {SF("src/a.rs"), SF("src/b.rs"), SF(NoSource), DA(1, 0), DA(1, 1), DA(2, 1), End,
   [tag |-> "bad DA", line |-> 1, count |-> 0], [tag |-> "TN"]}

GoodLines == <<SF("src/a.rs"), DA(1, 1), DA(2, 1)>>
LcovFile(text) == File(text, Len(text), Len(text))

Disk(combined, unit, integration, lcov) ==
  [i \in ToSet(Input) |->
     CASE i = "combined" -> combined [] i = "unit" -> unit
       [] i = "integration" -> integration [] i = "lcov" -> lcov]

Ready(export) == File(export, 1, 1)
Of(functions) == Ready(Export(functions, FullTotals, {Full}))

\* Which profiles execute what.
Profiles ==
  LET few == {f \in SUBSET Entries : Cardinality(f) \in 1..3}
      odd == {Good \cup {e} : e \in Odd}
      some(combined, unit, integration) ==
        Disk(Of(combined), Of(unit), Of(integration), LcovFile(GoodLines))
      gap == FunctionEntry("src/a.rs", LoopedRegions, "f", 0)
  IN  {some(Good, u, i) :
         u \in {f \cup {e} : f \in {Good, {}}, e \in Entries}, i \in few \cup odd}
        \cup {some(c, Good, i) :
                c \in odd \cup {Good \cup Odd, Good \cup (Odd \ {Malformed}), Good \cup {gap}},
                i \in few}

\* What the totals and the summaries of the files say.
Summaries ==
  {Disk(Ready(Export(Good, c, files)), Ready(Export(Good, u, {Full})), Of(Good),
        LcovFile(GoodLines)) :
     c \in Totals, u \in Totals, files \in {{Full}, {Metric(1, 2)}, {Metric(3, 2)}}}

\* Reports of two to four lines after the first source.
Reports ==
  {Disk(Of(Good), Of(Good), Of(Good), LcovFile(<<SF("src/a.rs"), DA(1, 0)>> \o text)) :
     text \in UNION {[1..n -> ReportLines] : n \in 0..3}}

\* Files that are still written, are no files, or no exports.
Unfinished ==
  {Disk(File(GoodExport, 2, w), File(GoodExport, 2, u), Of(Good),
        [File(GoodLines \o <<DA(1, 1), DA(1, 0), End>>, 6, n) EXCEPT !.regular = r]) :
     w \in 1..2, u \in 1..2, n \in 3..6, r \in BOOLEAN}
    \cup {Disk(Ready([GoodExport EXCEPT !.kind = k, !.data = @ \o d]), Of(Good), Of(Good),
               LcovFile(GoodLines)) :
            k \in {GoodExport.kind, "other"}, d \in {<<>>, GoodExport.data}}

\* S itself; TLC sorts a set to count it and then finds a member by halving.
LOCAL Sorted(S) == IF Cardinality(S) > 0 THEN S ELSE {}

MCDisks ==
  Sorted(Sorted(Sorted(Profiles) \cup Summaries) \cup Reports) \cup Unfinished
=============================================================================
