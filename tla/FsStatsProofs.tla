----------------------------- MODULE FsStatsProofs -----------------------------
(***************************************************************************)
(* FiguresAreExact for every word size, every set of counts and every set  *)
(* of cluster size factors.                                                *)
(***************************************************************************)
EXTENDS FsStats, TLAPS

(***************************************************************************)
(* A product with a smaller factor fits where the larger one fits, so it   *)
(* does not wrap: why validate_unix_counters checks only the total.        *)
(***************************************************************************)
LEMMA SmallerProductFits ==
    ASSUME NEW g \in Nat, NEW n \in Nat, NEW m \in Nat, n <= m, checked_mul(g, m)
    PROVE  wrapping_mul(g, n) = g * n
<1>1. PICK d \in Nat : m = n + d
  <2>1. m - n \in Nat /\ m = n + (m - n)  OBVIOUS
  <2> QED  BY <2>1
<1>2. g * m = g * n + g * d  BY <1>1
<1>3. g * n \in Nat /\ g * d \in Nat  OBVIOUS
<1>4. g * n < Modulus  BY <1>2, <1>3, ConstantsAssumption DEF checked_mul
<1>5. \A p \in Nat : p < Modulus => p % Modulus = p  BY ConstantsAssumption
<1> QED  BY <1>3, <1>4, <1>5 DEF wrapping_mul

(***************************************************************************)
(* What a query knows at each stage: the volume it will read is one it has *)
(* seen, and the cluster size a legacy snapshot has read is still that of  *)
(* the volume.                                                             *)
(***************************************************************************)
Types ==
    /\ platform \in {"linux", "unix", "windows"} /\ modern \in BOOLEAN
    /\ volume \in Volume
    /\ asked \subseteq Figure

Stages ==
    /\ stage \in {"statvfs"} => platform \in {"linux", "unix"}
    /\ stage \in {"direct", "handle", "volume path", "modern", "geometry", "bytes"} =>
          platform = "windows"
    /\ stage = "direct" => asked \in {{"free"}, {"available"}}
    /\ stage \in {"geometry", "bytes"} => ~modern
    /\ stage = "geometry" => asked \in {Figure, {"granularity"}}
    /\ stage = "bytes" =>
          /\ asked # {"granularity"}
          /\ asked = Figure => geometry = cluster_size(volume) /\ geometry # 0
    /\ asked \in {{}, Figure} \cup {{f} : f \in Figure}

Reading ==
    /\ stage # "idle" => volume \in seen /\ result = "none"
    /\ stage \in {"idle", "statvfs", "direct", "handle", "volume path", "modern",
                  "geometry", "bytes"}

Inv == Types /\ Stages /\ Reading /\ FiguresAreExact

LEMMA VolumeFields ==
    ASSUME Types
    PROVE  /\ volume.free \in Nat /\ volume.available \in Nat /\ volume.total \in Nat
           /\ platform # "windows" => volume.fragment \in Nat /\ volume.block \in Nat
           /\ platform = "windows" =>
                 /\ volume.sectors \in Nat /\ volume.bytes \in Nat
                 /\ volume.caller_total \in Nat /\ cluster_size(volume) \in Nat
<1>1. Count \subseteq Nat /\ Part \subseteq Nat  BY ConstantsAssumption
<1>2. CASE platform = "windows"
  <2>1. volume.sectors \in Nat /\ volume.bytes \in Nat /\ volume.caller_total \in Nat
        /\ volume.free \in Nat /\ volume.available \in Nat /\ volume.total \in Nat
    BY <1>1, <1>2 DEF Types, Volume, WindowsVolume
  <2> QED  BY <1>2, <2>1 DEF cluster_size
<1>3. CASE platform # "windows"
  BY <1>1, <1>3 DEF Types, Volume, UnixVolume
<1> QED  BY <1>2, <1>3

(***************************************************************************)
(* An answer that is, figure by figure, what the volume shows now.         *)
(***************************************************************************)
LEMMA HitIsExact ==
    ASSUME Types, volume \in seen, UNCHANGED <<system, seen>>, NEW figures,
           Hit(figures),
           \A f \in asked : figures[f] = TrueFigures(volume)[f]
    PROVE  FiguresAreExact'
<1>1. answer' = Restrict(TrueFigures(volume), asked)
  BY DEF Hit, Finish, Restrict
<1>2. asked' = asked /\ seen' = seen
  BY DEF Hit, Finish
<1>3. \A v : TrueFigures(v)' = TrueFigures(v)
  BY DEF system, TrueFigures, Granularity, FsStats, linux_allocation_granularity
<1> QED  BY <1>1, <1>2, <1>3 DEF FiguresAreExact

LEMMA UnixStep ==
    ASSUME Inv, statvfs_cstr, UNCHANGED <<system, volume, seen>>
    PROVE  FiguresAreExact'
<1> DEFINE g == IF platform = "linux" THEN linux_allocation_granularity(volume)
                ELSE volume.fragment
           figures == FsStats(wrapping_mul(g, volume.free), wrapping_mul(g, volume.available),
                              g * volume.total, g)
<1>1. platform \in {"linux", "unix"} /\ volume \in seen /\ Types
  BY DEF Inv, Stages, Reading, statvfs_cstr
<1>2. g \in Nat /\ g = Granularity(volume)
  BY <1>1, VolumeFields DEF linux_allocation_granularity, Granularity
<1>3. CASE result' # "ok"
  BY <1>3 DEF FiguresAreExact
<1>4. CASE result' = "ok"
  <2>1. validate_unix_counters(g, volume) /\ Hit(figures)
    BY <1>4 DEF statvfs_cstr, Return, Finish
  <2>2. /\ wrapping_mul(g, volume.free) = g * volume.free
        /\ wrapping_mul(g, volume.available) = g * volume.available
    <3>1. volume.free \in Nat /\ volume.available \in Nat /\ volume.total \in Nat
      BY <1>1, VolumeFields
    <3>2. volume.free <= volume.total /\ volume.available <= volume.total
          /\ checked_mul(g, volume.total)
      BY <2>1 DEF validate_unix_counters, validate_available_bounds
    <3> HIDE DEF g
    <3> QED  BY <3>1, <3>2, <1>2, SmallerProductFits
  <2>3. figures = TrueFigures(volume)
    BY <1>1, <1>2, <2>2 DEF TrueFigures
  <2> HIDE DEF figures
  <2> QED  BY <1>1, <2>1, <2>3, HitIsExact
<1> QED  BY <1>3, <1>4

(***************************************************************************)
(* Every Windows provider returns the volume's figures; what differs is    *)
(* which of the four it knows and which total it means.                    *)
(***************************************************************************)
LEMMA WindowsStep ==
    ASSUME Inv, UNCHANGED <<system, volume, seen>>,
           \/ direct_space \/ handle_space \/ volume_path
           \/ modern_statvfs \/ cluster_geometry \/ byte_space
    PROVE  FiguresAreExact'
<1>1. platform = "windows" /\ volume \in seen /\ Types /\ result = "none" /\ asked \subseteq Figure
  BY DEF Inv, Types, Stages, Reading, direct_space, handle_space, volume_path, modern_statvfs,
         cluster_geometry, byte_space
<1> DEFINE size == cluster_size(volume)
<1>2. TrueFigures(volume) =
        FsStats(size * volume.free, size * volume.available,
                size * (IF modern THEN volume.total ELSE volume.caller_total), size)
  BY <1>1 DEF TrueFigures, Granularity
<1>3. CASE result' # "ok"
  BY <1>3 DEF FiguresAreExact
<1>4. CASE result' = "ok" /\ direct_space
  <2>1. Hit(Bytes(volume))
    BY <1>1, <1>4 DEF direct_space, Goto
  <2>2. asked \in {{"free"}, {"available"}}
    BY <1>4 DEF Inv, Stages, direct_space
  <2>3. \A f \in asked : Bytes(volume)[f] = TrueFigures(volume)[f]
    BY <1>2, <2>2 DEF Bytes, FsStats
  <2> QED  BY <1>1, <2>1, <2>3, HitIsExact
<1>5. CASE result' = "ok" /\ handle_space
  <2> DEFINE figures == FsStats(size * volume.free, size * volume.available, 0, size)
  <2>1. Hit(figures) /\ handle_space_attributes_eligible
    BY <1>1, <1>5 DEF handle_space, Goto
  <2>2. \A f \in asked : figures[f] = TrueFigures(volume)[f]
    <3>1. asked \in {{"granularity"}, {"free"}, {"available"}}
      BY <2>1 DEF handle_space_attributes_eligible
    <3>2. \A f \in {"free", "available", "granularity"} : figures[f] = TrueFigures(volume)[f]
      <4> HIDE DEF size
      <4> QED  BY <1>2 DEF FsStats
    <3> HIDE DEF figures
    <3> QED  BY <3>1, <3>2
  <2> HIDE DEF figures
  <2> QED  BY <1>1, <2>1, <2>2, HitIsExact
<1>6. CASE result' = "ok" /\ modern_statvfs
  <2> DEFINE figures == FsStats(size * volume.free, size * volume.available,
                                size * volume.total, size)
  <2>1. Hit(figures) /\ modern
    BY <1>1, <1>6 DEF modern_statvfs, space_after_exact_root, Return, Finish, Goto
  <2>2. figures = TrueFigures(volume)
    BY <1>2, <2>1
  <2> HIDE DEF figures
  <2> QED  BY <1>1, <2>1, <2>2, HitIsExact
<1>7. CASE result' = "ok" /\ cluster_geometry
  <2>1. Finish("ok", [granularity |-> size]) /\ asked = {"granularity"}
    BY <1>1, <1>7 DEF Inv, Stages, cluster_geometry, space_after_exact_root, Return, Finish, Goto
  <2>2. Hit(TrueFigures(volume))
    <3>1. Restrict(TrueFigures(volume), asked) = [f \in {"granularity"} |-> size]
      BY <1>2, <2>1 DEF Restrict, FsStats
    <3>2. [granularity |-> size] = [f \in {"granularity"} |-> size]
      OBVIOUS
    <3> QED  BY <2>1, <3>1, <3>2 DEF Hit
  <2> QED  BY <1>1, <2>2, HitIsExact
<1>8. CASE result' = "ok" /\ byte_space
  <2> DEFINE figures == FsStats(size * volume.free, size * volume.available,
                                size * volume.caller_total, geometry)
  <2>1. Hit(figures)
    BY <1>1, <1>8 DEF byte_space, Bytes, space_after_exact_root, Return, Finish, Goto
  <2>2. ~modern /\ asked # {"granularity"} /\ (asked = Figure => geometry = size)
        /\ asked \in {{}, Figure} \cup {{f} : f \in Figure}
    BY <1>8 DEF Inv, Stages, byte_space
  <2>3. \A f \in asked : figures[f] = TrueFigures(volume)[f]
    BY <1>2, <2>2 DEF FsStats, Figure
  <2> HIDE DEF figures
  <2> QED  BY <1>1, <2>1, <2>3, HitIsExact
<1>9. CASE volume_path
  BY <1>1, <1>9 DEF volume_path, Return, Finish, FiguresAreExact
<1> QED  BY <1>3, <1>4, <1>5, <1>6, <1>7, <1>8, <1>9

(***************************************************************************)
(* Others' use of the volume changes neither its cluster size nor what a   *)
(* finished query returned, and the query sees the new counts too.         *)
(***************************************************************************)
LEMMA UseStep ==
    ASSUME Inv, UNCHANGED system, NEW free \in Count, NEW available \in Count,
           Use(free, available)
    PROVE  Inv'
<1>1. /\ volume' = [volume EXCEPT !.free = free, !.available = available]
      /\ seen' = seen \cup {volume'} /\ stage # "idle" /\ result = "none"
      /\ UNCHANGED <<platform, modern, place, stage, root, asked, geometry, result, answer>>
  BY DEF Inv, Reading, Use, query, system
<1>2. Types'
  <2>1. CASE platform = "windows"
    BY <1>1, <2>1 DEF Inv, Types, Volume, WindowsVolume
  <2>2. CASE platform # "windows"
    BY <1>1, <2>2 DEF Inv, Types, Volume, UnixVolume
  <2> QED  BY <2>1, <2>2
<1>3. platform = "windows" => cluster_size(volume)' = cluster_size(volume)
  BY <1>1 DEF Inv, Types, Volume, WindowsVolume, cluster_size
<1>4. Stages'
  BY <1>1, <1>3 DEF Inv, Stages
<1>5. Reading' /\ FiguresAreExact'
  BY <1>1 DEF Inv, Reading, FiguresAreExact
<1> QED  BY <1>2, <1>4, <1>5 DEF Inv

LEMMA BeginKeeps ==
    ASSUME Inv, UNCHANGED <<system, volume>>, NEW figures, NEW first, NEW path,
           Begin(figures, first, path),
           IF platform # "windows" THEN first = "statvfs"
           ELSE first \in {"direct", "handle", "volume path", "modern"},
           first = "direct" => figures \in {{"free"}, {"available"}},
           figures \in {Figure} \cup {{f} : f \in Figure}
    PROVE  Inv'
<1>1. /\ stage' = first /\ asked' = figures /\ result' = "none" /\ seen' = {volume}
      /\ UNCHANGED <<platform, modern, volume>>
  BY DEF Begin, system
<1>2. Types'
  BY <1>1 DEF Inv, Types, Volume
<1>3. Stages'
  BY <1>1 DEF Inv, Types, Stages
<1>4. Reading' /\ FiguresAreExact'
  BY <1>1 DEF Reading, FiguresAreExact
<1> QED  BY <1>2, <1>3, <1>4 DEF Inv

LEMMA BeginStep ==
    ASSUME Inv, UNCHANGED <<system, volume>>,
           statvfs \/ snapshot \/ \E kind \in Figure : space(kind)
    PROVE  Inv'
<1>1. CASE statvfs
  BY <1>1, BeginKeeps DEF statvfs
<1>2. CASE snapshot
  BY <1>2, BeginKeeps DEF snapshot
<1>3. ASSUME NEW kind \in Figure, space(kind)  PROVE Inv'
  BY <1>3, BeginKeeps DEF space
<1> QED  BY <1>1, <1>2, <1>3

(***************************************************************************)
(* A native call keeps what the stages know.                               *)
(***************************************************************************)
LEMMA NativeStep ==
    ASSUME Inv, UNCHANGED system, Native
    PROVE  Inv'
<1>1. UNCHANGED <<platform, modern, place, volume, seen>> /\ asked' = asked
  BY DEF Native, system, statvfs_cstr, direct_space, handle_space, volume_path, modern_statvfs,
         space_after_exact_root, cluster_geometry, byte_space, Hit, Return, Finish, Goto
<1>2. Types'
  BY <1>1 DEF Inv, Types, Volume
<1>3. cluster_size(volume)' = cluster_size(volume)
  BY <1>1 DEF cluster_size
<1>4. FiguresAreExact'
  BY UnixStep, WindowsStep DEF Native
<1>5. Stages' /\ Reading'
  <2>1. CASE stage' = "idle"
    BY <1>1, <2>1 DEF Inv, Stages, Reading
  <2>2. CASE stage' # "idle" /\ (direct_space \/ handle_space \/ volume_path)
    BY <1>1, <2>2 DEF Inv, Stages, Reading, direct_space, handle_space, volume_path,
       Hit, Return, Finish, Goto
  <2>3. CASE stage' # "idle" /\ modern_statvfs
    BY <1>1, <2>3 DEF Inv, Stages, Reading, modern_statvfs, space_after_exact_root,
       Hit, Return, Finish, Goto
  <2>4. CASE stage' # "idle" /\ cluster_geometry
    BY <1>1, <1>3, <2>4 DEF Inv, Figure, Stages, Reading, cluster_geometry, space_after_exact_root,
       Return, Finish, Goto
  <2>5. CASE stage' # "idle" /\ byte_space
    BY <1>1, <2>5 DEF Inv, Stages, Reading, byte_space, space_after_exact_root,
       Hit, Return, Finish, Goto
  <2>6. CASE stage' # "idle" /\ statvfs_cstr
    BY <2>6 DEF statvfs_cstr, Hit, Return, Finish
  <2> QED  BY <2>1, <2>2, <2>3, <2>4, <2>5, <2>6 DEF Native
<1> QED  BY <1>2, <1>4, <1>5 DEF Inv

LEMMA StepKeepsInv == Inv /\ [Next]_vars => Inv'
<1> SUFFICES ASSUME Inv, [Next]_vars  PROVE Inv'
  OBVIOUS
<1>1. CASE UNCHANGED system /\ UNCHANGED volume
           /\ (statvfs \/ snapshot \/ \E kind \in Figure : space(kind))
  BY <1>1, BeginStep
<1>2. CASE UNCHANGED system /\ Native
  BY <1>2, NativeStep
<1>3. ASSUME UNCHANGED system, NEW free \in Count, NEW available \in Count,
             Use(free, available)
      PROVE  Inv'
  BY <1>3, UseStep
<1>4. CASE UNCHANGED vars
  BY <1>4 DEF vars, system, query, Inv, Types, Volume, Stages, Reading, FiguresAreExact,
     TrueFigures, Granularity, linux_allocation_granularity, cluster_size
<1> QED  BY <1>1, <1>2, <1>3, <1>4 DEF Next

(***************************************************************************)
(* Every figure any query returns, and all figures of a snapshot together, *)
(* are those the volume had at one moment of the query, computed without   *)
(* overflow, for every word size.                                          *)
(***************************************************************************)
THEOREM FiguresAreExactHolds == Spec => []FiguresAreExact
<1>1. Init => Inv
  BY DEF Init, Inv, Types, Stages, Reading, FiguresAreExact
<1>2. Inv /\ [Next]_vars => Inv'
  BY StepKeepsInv
<1>3. Inv => FiguresAreExact
  BY DEF Inv
<1> QED  BY <1>1, <1>2, <1>3, PTL DEF Spec

(***************************************************************************)
(* Comparing counts compares bytes.                                        *)
(***************************************************************************)
LEMMA ProductsKeepOrder ==
    ASSUME NEW g \in Nat, NEW n \in Nat, NEW m \in Nat, n <= m
    PROVE  g * n <= g * m
<1>1. PICK d \in Nat : m = n + d
  <2>1. m - n \in Nat /\ m = n + (m - n)  OBVIOUS
  <2> QED  BY <2>1
<1>2. g * m = g * n + g * d  BY <1>1
<1>3. g * n \in Nat /\ g * d \in Nat  OBVIOUS
<1> QED  BY <1>2, <1>3

LEMMA CoherentNow ==
    ASSUME UNCHANGED <<system, volume, seen, asked>>, volume \in seen,
           Coherent(TrueFigures(volume))
    PROVE  NonsenseIsRefused'
<1>1. \A v : TrueFigures(v)' = TrueFigures(v)
  BY DEF system, TrueFigures, Granularity, linux_allocation_granularity, cluster_size
<1> QED  BY <1>1 DEF NonsenseIsRefused, Coherent, system

LEMMA UnixRefuses ==
    ASSUME Inv, statvfs_cstr, UNCHANGED <<system, volume, seen>>
    PROVE  NonsenseIsRefused'
<1> DEFINE g == IF platform = "linux" THEN linux_allocation_granularity(volume)
                ELSE volume.fragment
<1>1. platform \in {"linux", "unix"} /\ volume \in seen /\ Types /\ asked' = asked
  BY DEF Inv, Stages, Reading, statvfs_cstr, Hit, Return, Finish
<1>2. g \in Nat /\ g = Granularity(volume)
  BY <1>1, VolumeFields DEF linux_allocation_granularity, Granularity
<1>3. CASE result' # "ok"
  BY <1>3 DEF NonsenseIsRefused
<1>4. CASE result' = "ok"
  <2>1. validate_unix_counters(g, volume)
    BY <1>4 DEF statvfs_cstr, Return, Finish
  <2>2. TrueFigures(volume) = FsStats(g * volume.free, g * volume.available, g * volume.total, g)
    BY <1>1, <1>2 DEF TrueFigures
  <2>3. /\ g * volume.free <= g * volume.total
        /\ g * volume.available <= g * volume.total
        /\ g * volume.available <= g * volume.free
    <3>1. volume.free \in Nat /\ volume.available \in Nat /\ volume.total \in Nat
      BY <1>1, VolumeFields
    <3>2. /\ volume.free <= volume.total /\ volume.available <= volume.total
          /\ volume.available <= volume.free
      BY <2>1 DEF validate_unix_counters, validate_available_bounds
    <3> HIDE DEF g
    <3> QED  BY <3>1, <3>2, <1>2, ProductsKeepOrder
  <2>4. g # 0
    BY <2>1 DEF validate_unix_counters
  <2>5. Coherent(TrueFigures(volume))
    <3> HIDE DEF g
    <3> QED  BY <2>2, <2>3, <2>4 DEF Coherent, FsStats
  <2> QED  BY <1>1, <2>5, CoherentNow
<1> QED  BY <1>3, <1>4

LEMMA WindowsRefuses ==
    ASSUME Inv, UNCHANGED <<system, volume, seen>>,
           \/ direct_space \/ handle_space \/ volume_path
           \/ modern_statvfs \/ cluster_geometry \/ byte_space
    PROVE  NonsenseIsRefused'
<1>1. /\ platform = "windows" /\ volume \in seen /\ Types /\ result = "none" /\ asked' = asked
      /\ asked \in {{}, Figure} \cup {{f} : f \in Figure}
  BY DEF Inv, Types, Stages, Reading, direct_space, handle_space, volume_path, modern_statvfs,
         cluster_geometry, byte_space, space_after_exact_root, Hit, Return, Finish, Goto
<1> DEFINE size == cluster_size(volume)
           free == size * volume.free
           available == size * volume.available
           total == size * (IF modern THEN volume.total ELSE volume.caller_total)
<1>2. TrueFigures(volume) = FsStats(free, available, total, size)
  BY <1>1 DEF TrueFigures, Granularity
<1>3. CASE result' # "ok"
  BY <1>3 DEF NonsenseIsRefused
<1>4. CASE result' = "ok" /\ direct_space
  <2>1. available <= free /\ asked \in {{"free"}, {"available"}}
    BY <1>1, <1>4 DEF Inv, Stages, direct_space, Goto, byte_space_result, Bytes
  <2>2. Coherent(TrueFigures(volume))
    BY <1>2, <2>1 DEF Coherent, FsStats
  <2> QED  BY <1>1, <2>2, CoherentNow
<1>5. CASE result' = "ok" /\ handle_space
  <2>1. handle_space_attributes_eligible /\ handle_space_from_info(volume)
    BY <1>1, <1>5 DEF handle_space, Goto
  <2>2. size # 0 /\ available <= free /\ "total" \notin asked
    <3>1. size # 0 /\ volume.available <= volume.free /\ "total" \notin asked
      BY <2>1 DEF handle_space_from_info, handle_space_attributes_eligible
    <3>2. size \in Nat /\ volume.available \in Nat /\ volume.free \in Nat
      BY <1>1, VolumeFields
    <3> HIDE DEF size
    <3> QED  BY <3>1, <3>2, ProductsKeepOrder
  <2>3. Coherent(TrueFigures(volume))
    <3> HIDE DEF size, free, available, total
    <3> QED  BY <1>2, <2>2 DEF Coherent, FsStats
  <2> QED  BY <1>1, <2>3, CoherentNow
<1>6. CASE result' = "ok" /\ modern_statvfs
  <2>1. /\ modern
        /\ validate_windows_counters(size, free, available, size * volume.total, "modern")
    BY <1>1, <1>6 DEF modern_statvfs, space_after_exact_root, Return, Finish, Goto
  <2>2. size # 0 /\ available <= free /\ available <= total /\ free <= total
    BY <2>1 DEF validate_windows_counters, validate_available_bounds
  <2>3. Coherent(TrueFigures(volume))
    <3> HIDE DEF size, free, available, total
    <3> QED  BY <1>2, <2>2 DEF Coherent, FsStats
  <2> QED  BY <1>1, <2>3, CoherentNow
<1>7. CASE result' = "ok" /\ cluster_geometry
  <2>1. size # 0 /\ asked = {"granularity"}
    BY <1>1, <1>7 DEF Inv, Stages, cluster_geometry, space_after_exact_root, Return, Finish, Goto
  <2>2. Coherent(TrueFigures(volume))
    BY <1>2, <2>1 DEF Coherent, FsStats
  <2> QED  BY <1>1, <2>2, CoherentNow
<1>8. CASE result' = "ok" /\ byte_space
  <2>1. byte_space_result(Bytes(volume))
    BY <1>1, <1>8 DEF byte_space, space_after_exact_root, Return, Finish, Goto
  <2>2. ~modern /\ (asked = Figure => size # 0) /\ asked # {"granularity"}
    BY <1>8 DEF Inv, Stages, byte_space
  <2>3. available <= free /\ available <= total
    BY <2>1, <2>2 DEF byte_space_result, Bytes
  <2>4. Coherent(TrueFigures(volume))
    <3> HIDE DEF size, free, available, total
    <3> QED  BY <1>1, <1>2, <2>2, <2>3 DEF Coherent, FsStats, Figure
  <2> QED  BY <1>1, <2>4, CoherentNow
<1>9. CASE volume_path
  BY <1>1, <1>9 DEF volume_path, Return, Finish, NonsenseIsRefused
<1> QED  BY <1>3, <1>4, <1>5, <1>6, <1>7, <1>8, <1>9

(***************************************************************************)
(* Contradictory counters are never answered, for every word size.         *)
(***************************************************************************)
THEOREM NonsenseIsRefusedHolds == Spec => []NonsenseIsRefused
<1>1. Init => Inv /\ NonsenseIsRefused
  BY DEF Init, Inv, Types, Stages, Reading, FiguresAreExact, NonsenseIsRefused
<1>2. Inv /\ NonsenseIsRefused /\ [Next]_vars => Inv' /\ NonsenseIsRefused'
  <2> SUFFICES ASSUME Inv, NonsenseIsRefused, [Next]_vars
               PROVE  NonsenseIsRefused'
    BY StepKeepsInv
  <2>1. CASE statvfs \/ snapshot \/ \E kind \in Figure : space(kind)
    BY <2>1 DEF statvfs, snapshot, space, Begin, NonsenseIsRefused
  <2>2. CASE UNCHANGED system /\ Native
    BY <2>2, UnixRefuses, WindowsRefuses DEF Native
  <2>3. CASE \E free, available \in Count : Use(free, available)
    BY <2>3 DEF Use, query, Inv, Reading, NonsenseIsRefused
  <2>4. CASE UNCHANGED vars
    BY <2>4 DEF vars, system, query, NonsenseIsRefused, Coherent,
       TrueFigures, Granularity, linux_allocation_granularity, cluster_size
  <2> QED  BY <2>1, <2>2, <2>3, <2>4 DEF Next
<1> QED  BY <1>1, <1>2, PTL DEF Spec

-----------------------------------------------------------------------------
(***************************************************************************)
(* Types, which say among other things that every figure returned fits a   *)
(* word.  First, how a query may end or go on.                             *)
(***************************************************************************)
LEMMA TypedHit ==
    ASSUME TypeOK, UNCHANGED <<system, volume, seen>>, NEW figures, Hit(figures),
           \A f \in asked : figures[f] \in Word
    PROVE  TypeOK'
<1>1. answer' = [f \in asked |-> figures[f]]
  BY DEF Hit, Finish, Restrict
<1>2. answer' \in [asked -> Word]
  BY <1>1
<1>3. 0 \in Word
  BY ConstantsAssumption DEF Word
<1>4. /\ stage' = "idle" /\ result' = "ok" /\ geometry' = 0 /\ root' = "volume"
      /\ asked' = asked /\ Volume' = Volume
      /\ UNCHANGED <<platform, modern, place, volume, seen>>
  BY DEF Hit, Finish, system, Volume
<1> QED  BY <1>2, <1>3, <1>4 DEF TypeOK, Stage, Outcome

LEMMA TypedReturn ==
    ASSUME TypeOK, UNCHANGED <<system, volume, seen>>,
           NEW error \in {"io_error", "InvalidData"}, Return(error)
    PROVE  TypeOK'
<1>1. answer' = NoFigures /\ NoFigures \in [{} -> Word]
  BY DEF Return, Finish, NoFigures
<1>2. 0 \in Word
  BY ConstantsAssumption DEF Word
<1>3. /\ stage' = "idle" /\ result' = error /\ geometry' = 0 /\ root' = "volume"
      /\ asked' = asked /\ Volume' = Volume
      /\ UNCHANGED <<platform, modern, place, volume, seen>>
  BY DEF Return, Finish, system, Volume
<1> QED  BY <1>1, <1>2, <1>3 DEF TypeOK, Stage, Outcome

LEMMA TypedGoto ==
    ASSUME TypeOK, UNCHANGED <<system, volume, seen, asked, result, answer>>,
           stage' \in Stage, root' \in {"exact", "volume"}, geometry' \in Word
    PROVE  TypeOK'
<1>1. Volume' = Volume /\ UNCHANGED <<platform, modern, place>>
  BY DEF system, Volume
<1> QED  BY <1>1 DEF TypeOK

(* What the checks of each provider leave fits a word. *)
LEMMA TypedUnix ==
    ASSUME Inv, TypeOK, statvfs_cstr, UNCHANGED <<system, volume, seen>>
    PROVE  TypeOK'
<1> DEFINE g == IF platform = "linux" THEN linux_allocation_granularity(volume)
                ELSE volume.fragment
           figures == FsStats(wrapping_mul(g, volume.free), wrapping_mul(g, volume.available),
                              g * volume.total, g)
<1>1. platform \in {"linux", "unix"} /\ Types
  BY DEF Inv, Stages, statvfs_cstr
<1>2. /\ g \in Word /\ volume.free \in Nat /\ volume.available \in Nat
      /\ volume.total \in Nat
  <2>1. Count \subseteq Word
    BY ConstantsAssumption DEF Word
  <2>2. volume.fragment \in Word /\ volume.block \in Word
    BY <1>1, <2>1 DEF Types, Volume, UnixVolume
  <2> QED  BY <1>1, <2>2, VolumeFields DEF linux_allocation_granularity
<1>3. CASE \E error \in {"io_error", "InvalidData"} : Return(error)
  BY <1>3, TypedReturn
<1>4. CASE validate_unix_counters(g, volume) /\ Hit(figures)
  <2>1. g * volume.total < Modulus
    BY <1>4 DEF validate_unix_counters, checked_mul
  <2> HIDE DEF g
  <2>2. g * volume.total \in Word
    BY <1>2, <2>1, ConstantsAssumption DEF Word
  <2>3. \A n \in Nat : wrapping_mul(g, n) \in Word
    <3>1. ASSUME NEW n \in Nat PROVE wrapping_mul(g, n) \in Word
      <4>1. g * n \in Nat
        BY <1>2, ConstantsAssumption DEF Word
      <4>2. \A m \in Nat : m % Modulus \in Word
        BY ConstantsAssumption DEF Word
      <4> QED  BY <4>1, <4>2 DEF wrapping_mul
    <3> QED  BY <3>1
  <2>4. \A f \in Figure : figures[f] \in Word
    BY <1>2, <2>2, <2>3 DEF Figure, FsStats
  <2> HIDE DEF figures
  <2> QED  BY <1>1, <1>4, <2>4, TypedHit DEF Types
<1> QED  BY <1>3, <1>4 DEF statvfs_cstr

LEMMA WindowsWords ==
    ASSUME Types, platform = "windows"
    PROVE  /\ cluster_size(volume) \in Word
           /\ \A n \in {volume.free, volume.available, volume.total, volume.caller_total} :
                 /\ cluster_size(volume) * n \in Nat
                 /\ cluster_size(volume) * n < Modulus => cluster_size(volume) * n \in Word
<1>1. volume.sectors \in Part /\ volume.bytes \in Part
  BY DEF Types, Volume, WindowsVolume
<1>2. cluster_size(volume) \in Nat /\ cluster_size(volume) < Modulus
  BY <1>1, VolumeFields, ConstantsAssumption DEF cluster_size
<1>3. cluster_size(volume) \in Word
  BY <1>2, ConstantsAssumption DEF Word
<1>4. ASSUME NEW n \in {volume.free, volume.available, volume.total, volume.caller_total}
      PROVE  /\ cluster_size(volume) * n \in Nat
             /\ cluster_size(volume) * n < Modulus => cluster_size(volume) * n \in Word
  <2>1. n \in Nat
    BY VolumeFields
  <2>2. PICK c \in Nat : c = cluster_size(volume)
    BY <1>2
  <2>3. c * n \in Nat /\ (c * n < Modulus => c * n \in 0 .. Modulus - 1)
    BY <2>1, ConstantsAssumption
  <2> QED  BY <2>2, <2>3 DEF Word
<1> QED  BY <1>3, <1>4

LEMMA TypedWindows ==
    ASSUME Inv, TypeOK, UNCHANGED <<system, volume, seen>>,
           \/ direct_space \/ handle_space \/ volume_path
           \/ modern_statvfs \/ cluster_geometry \/ byte_space
    PROVE  TypeOK'
<1> DEFINE size == cluster_size(volume)
<1>1. /\ platform = "windows" /\ Types /\ asked \subseteq Figure
      /\ asked \in {{}, Figure} \cup {{f} : f \in Figure}
  BY DEF Inv, Types, Stages, direct_space, handle_space, volume_path, modern_statvfs,
         cluster_geometry, byte_space
<1>2. /\ size \in Word
      /\ \A n \in {volume.free, volume.available, volume.total, volume.caller_total} :
            size * n < Modulus => size * n \in Word
  BY <1>1, WindowsWords
<1>3. geometry \in Word /\ root \in {"exact", "volume"}
  BY DEF TypeOK
<1>4. CASE \E error \in {"io_error", "InvalidData"} : Return(error)
  BY <1>4, TypedReturn
<1>5. CASE \E next \in Stage : Goto(next)
  BY <1>3, <1>5, TypedGoto DEF Goto
<1>6. CASE direct_space /\ Hit(Bytes(volume)) /\ BytesFit(volume)
  <2>1. asked \in {{"free"}, {"available"}}
    BY <1>6 DEF Inv, Stages, direct_space
  <2>2. size * volume.free < Modulus /\ size * volume.available < Modulus
    BY <1>6 DEF BytesFit, Bytes
  <2>3. size * volume.free \in Word /\ size * volume.available \in Word
    BY <1>2, <2>2
  <2>4. \A f \in asked : Bytes(volume)[f] \in Word
    BY <2>1, <2>3 DEF Bytes
  <2> QED  BY <1>6, <2>4, TypedHit
<1>7. CASE /\ handle_space_from_info(volume)
           /\ Hit(FsStats(size * volume.free, size * volume.available, 0, size))
  <2> DEFINE figures == FsStats(size * volume.free, size * volume.available, 0, size)
  <2>1. size * volume.free < Modulus /\ size * volume.available < Modulus
    BY <1>7 DEF handle_space_from_info, checked_mul
  <2>2. size * volume.free \in Word /\ size * volume.available \in Word /\ 0 \in Word
    BY <1>2, <2>1, ConstantsAssumption DEF Word
  <2>3. \A f \in Figure : figures[f] \in Word
    <3> HIDE DEF size
    <3> QED  BY <1>2, <2>2 DEF Figure, FsStats
  <2> HIDE DEF figures
  <2> QED  BY <1>1, <1>7, <2>3, TypedHit DEF figures
<1>8. CASE /\ counters_from_disk_space_information(volume)
           /\ Hit(FsStats(size * volume.free, size * volume.available,
                          size * volume.total, size))
  <2> DEFINE figures == FsStats(size * volume.free, size * volume.available,
                                size * volume.total, size)
  <2>1. /\ size * volume.free < Modulus /\ size * volume.available < Modulus
        /\ size * volume.total < Modulus
    BY <1>8 DEF counters_from_disk_space_information, checked_mul
  <2>2. /\ size * volume.free \in Word /\ size * volume.available \in Word
        /\ size * volume.total \in Word
    BY <1>2, <2>1
  <2>3. \A f \in Figure : figures[f] \in Word
    <3> HIDE DEF size
    <3> QED  BY <1>2, <2>2 DEF Figure, FsStats
  <2> HIDE DEF figures
  <2> QED  BY <1>1, <1>8, <2>3, TypedHit DEF figures
<1>9. CASE asked # Figure /\ cluster_geometry /\ Finish("ok", [granularity |-> size])
  <2> DEFINE figures == [granularity |-> size]
  <2>1. asked = {"granularity"}
    BY <1>9 DEF Inv, Stages, cluster_geometry
  <2>2. figures = Restrict(figures, asked)
    <3>1. Restrict(figures, asked) = [f \in {"granularity"} |-> size]
      BY <2>1 DEF Restrict
    <3>2. figures = [f \in {"granularity"} |-> size]
      OBVIOUS
    <3> QED  BY <3>1, <3>2
  <2>3. Hit(figures)
    BY <1>9, <2>2 DEF Hit
  <2>4. \A f \in asked : figures[f] \in Word
    BY <1>2, <2>1
  <2> HIDE DEF figures
  <2> QED  BY <2>3, <2>4, TypedHit
<1>10. CASE BytesFit(volume)
            /\ Hit(FsStats(Bytes(volume).free, Bytes(volume).available,
                           Bytes(volume).total, geometry))
  <2> DEFINE figures == FsStats(size * volume.free, size * volume.available,
                                size * volume.caller_total, geometry)
  <2>1. /\ size * volume.free < Modulus /\ size * volume.available < Modulus
        /\ size * volume.caller_total < Modulus
    BY <1>10 DEF BytesFit, Bytes
  <2>2. /\ size * volume.free \in Word /\ size * volume.available \in Word
        /\ size * volume.caller_total \in Word
    BY <1>2, <2>1
  <2>3. \A f \in Figure : figures[f] \in Word
    <3> HIDE DEF size
    <3> QED  BY <1>3, <2>2 DEF Figure, FsStats
  <2>4. Hit(figures)
    BY <1>10 DEF Bytes
  <2> HIDE DEF figures
  <2> QED  BY <1>1, <2>3, <2>4, TypedHit
<1>11. CASE stage' = "modern" /\ root' = "volume" /\ UNCHANGED <<asked, geometry, result, answer>>
  BY <1>3, <1>11, TypedGoto DEF Stage
<1>12. CASE stage' = "bytes" /\ geometry' = size /\ UNCHANGED <<root, asked, result, answer>>
  BY <1>2, <1>3, <1>12, TypedGoto DEF Stage
<1>13. CASE direct_space
  BY <1>13, <1>5, <1>6 DEF direct_space, Stage
<1>14. CASE handle_space
  BY <1>14, <1>5, <1>7 DEF handle_space, Stage
<1>15. CASE volume_path
  BY <1>15, <1>4, <1>11 DEF volume_path
<1>16. CASE modern_statvfs
  BY <1>16, <1>4, <1>5, <1>8 DEF modern_statvfs, space_after_exact_root, Stage
<1>17. CASE cluster_geometry
  BY <1>17, <1>4, <1>5, <1>9, <1>12 DEF cluster_geometry, space_after_exact_root, Stage
<1>18. CASE byte_space
  BY <1>18, <1>4, <1>5, <1>10 DEF byte_space, space_after_exact_root, Stage
<1> QED  BY <1>13, <1>14, <1>15, <1>16, <1>17, <1>18

LEMMA TypedBegin ==
    ASSUME TypeOK, UNCHANGED <<system, volume>>,
           NEW figures \in {Figure} \cup {{f} : f \in Figure}, NEW first \in Stage,
           Begin(figures, first, exact_root)
    PROVE  TypeOK'
<1>1. /\ stage' = first /\ root' = exact_root /\ asked' = figures /\ geometry' = 0
      /\ result' = "none" /\ answer' = NoFigures /\ seen' = {volume} /\ Volume' = Volume
      /\ UNCHANGED <<platform, modern, place, volume>>
  BY DEF Begin, system, Volume
<1>2. /\ exact_root \in {"exact", "volume"} /\ 0 \in Word
      /\ NoFigures \in [{} -> Word]
  BY ConstantsAssumption DEF exact_root, Word, NoFigures
<1> QED  BY <1>1, <1>2 DEF TypeOK, Outcome

LEMMA TypedUse ==
    ASSUME Inv, TypeOK, UNCHANGED system, NEW free \in Count, NEW available \in Count,
           Use(free, available)
    PROVE  TypeOK'
<1>1. Types' /\ Volume' = Volume
  BY UseStep DEF Inv, system, Volume
<1>2. /\ volume' \in Volume /\ seen' = seen \cup {volume'}
      /\ UNCHANGED <<platform, modern, place, stage, root, asked, geometry, result, answer>>
  BY <1>1 DEF Types, Use, query, system
<1> QED  BY <1>1, <1>2 DEF TypeOK

LEMMA StepKeepsTypes == Inv /\ TypeOK /\ [Next]_vars => TypeOK'
<1> SUFFICES ASSUME Inv, TypeOK, [Next]_vars  PROVE TypeOK'
  OBVIOUS
<1>1. CASE UNCHANGED <<system, volume>>
           /\ (statvfs \/ snapshot \/ \E kind \in Figure : space(kind))
  <2>1. CASE statvfs
    BY <1>1, <2>1, TypedBegin DEF statvfs, Stage
  <2>2. CASE snapshot
    BY <1>1, <2>2, TypedBegin DEF snapshot, Stage
  <2>3. ASSUME NEW kind \in Figure, space(kind)  PROVE TypeOK'
    BY <1>1, <2>3, TypedBegin DEF space, Stage
  <2> QED  BY <1>1, <2>1, <2>2, <2>3
<1>2. CASE UNCHANGED system /\ Native
  BY <1>2, TypedUnix, TypedWindows DEF Native
<1>3. ASSUME UNCHANGED system, NEW free \in Count, NEW available \in Count,
             Use(free, available)
      PROVE  TypeOK'
  BY <1>3, TypedUse
<1>4. CASE UNCHANGED vars
  BY <1>4 DEF vars, system, query, TypeOK, Volume
<1> QED  BY <1>1, <1>2, <1>3, <1>4 DEF Next

(***************************************************************************)
(* The variables keep their types; above all, every figure returned is a   *)
(* word: no product overflowed on its way (counters.rs, validation.rs).    *)
(***************************************************************************)
THEOREM TypeCorrect == Spec => []TypeOK
<1>1. Init => Inv /\ TypeOK
  BY ConstantsAssumption
     DEF Init, Inv, Types, Stages, Reading, FiguresAreExact, TypeOK, Stage, Outcome, Word,
         NoFigures
<1>2. Inv /\ TypeOK /\ [Next]_vars => Inv' /\ TypeOK'
  BY StepKeepsInv, StepKeepsTypes
<1> QED  BY <1>1, <1>2, PTL DEF Spec
=============================================================================
