--------------------------- MODULE MCCompatibility ---------------------------
(* The workspace as it should be, with one thing off at a time: a package, a   *)
(* dependency, a resolved crate, the lock file or the consumer.                *)
EXTENDS Compatibility

Legacy ==
  [name |-> "fs2", rename |-> "fs2_v04", req |-> "=0.4.3", from |-> "registry", plain |-> TRUE]
Current ==
  [name |-> "fs2-turbo", rename |-> "fs2_current", req |-> "*", from |-> "checkout",
   plain |-> TRUE]

ConsumerTarget(name) == [name |-> name, kind |-> "bin", source |-> Consumer]

Rank == [e \in RequiredEditions \cup {"2027"} |->
           CASE e = "2015" -> 1 [] e = "2018" -> 2 [] e = "2021" -> 3 [] e = "2024" -> 4
             [] OTHER -> 5]

Package(edition) ==
  [name |-> edition, edition |-> edition, rank |-> Rank[edition], version |-> "0.0.0",
   manifest |-> edition, source |-> "path", default_run |-> FALSE,
   features |-> expected_features, targets |-> <<ConsumerTarget(edition)>>,
   dependencies |-> {Legacy, Current}]

All == {Package(e) : e \in RequiredEditions}

Altered(p) ==
  {[p EXCEPT !.name = "2015"], [p EXCEPT !.manifest = "2015"], [p EXCEPT !.version = "1.0.0"],
   [p EXCEPT !.source = "registry"], [p EXCEPT !.default_run = TRUE],
   [p EXCEPT !.targets = <<>>], [p EXCEPT !.targets = @ \o @],
   [p EXCEPT !.targets[1].source = "other.rs"], [p EXCEPT !.targets[1].kind = "lib"],
   [p EXCEPT !.targets[1].name = "other"]}
  \cup {[p EXCEPT !.features[s] = f] :
          s \in {"legacy", "current"}, f \in SUBSET {"fs2_v04", "fs2_current"}}
  \cup {[p EXCEPT !.dependencies = ({Legacy, Current} \ {d}) \cup new] :
          d \in {Legacy, Current},
          new \in {{}} \cup
                  UNION {{{[d2 EXCEPT !.from = "elsewhere"]}, {[d2 EXCEPT !.from = "registry"]},
                          {[d2 EXCEPT !.rename = "fs2_v04"]}, {[d2 EXCEPT !.rename = "fs2_current"]},
                          {[d2 EXCEPT !.req = "=0.4.2"]}, {[d2 EXCEPT !.plain = FALSE]},
                          {d2, [d2 EXCEPT !.rename = "more"]}} : d2 \in {Legacy, Current}}}

PackageSets ==
  {All, {}, All \cup {Package("2027")}}
    \cup {All \ {p} : p \in All}
    \cup {(All \ {Package("2021")}) \cup {p} : p \in Altered(Package("2021"))}
    \cup {All \cup {[Package("2018") EXCEPT !.manifest = "2015"]}}

FrozenRelease == [name |-> "fs2", version |-> "0.4.3", source |-> "registry", manifest |-> "cache"]
Checkout ==
  [name |-> "fs2-turbo", version |-> "1.0.0", source |-> "path", manifest |-> "checkout"]

ResolvedSets ==
  {{FrozenRelease, Checkout}, {FrozenRelease}, {Checkout}}
    \cup {{[FrozenRelease EXCEPT !.version = "0.4.2"], Checkout},
          {[FrozenRelease EXCEPT !.source = "path"], Checkout},
          {FrozenRelease, [Checkout EXCEPT !.manifest = "elsewhere"]},
          {FrozenRelease, Checkout, [Checkout EXCEPT !.manifest = "elsewhere"]},
          {FrozenRelease, Checkout, [FrozenRelease EXCEPT !.version = "0.4.2"]}}

LockEntry(name, version, checksum) ==
  [name |-> name, version |-> version, checksum |-> checksum]
GoodLock == <<LockEntry("fs2", "0.4.3", "reviewed"), LockEntry("fs2-turbo", "1.0.0", "")>>
Locks == {GoodLock, GoodLock \o <<LockEntry("fs2", "0.4.2", "x")>>, <<GoodLock[1]>>,
          <<LockEntry("fs2", "0.4.3", "x"), GoodLock[2]>>}

MCWorkspaces ==
  {[consumer |-> c, lock |-> l, resolved |-> r, packages |-> p] :
     c \in {[text |-> t, formatted |-> f] : t \in {"frozen", "changed"}, f \in BOOLEAN},
     l \in Locks, r \in ResolvedSets, p \in PackageSets}
=============================================================================
