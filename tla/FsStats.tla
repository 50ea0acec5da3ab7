-------------------------------- MODULE FsStats --------------------------------
(***************************************************************************)
(* File system statistics (src/src/stats.rs, stats/, unix/stats.rs,        *)
(* windows/stats/): one query at a time about a volume in use.             *)
(*                                                                         *)
(* On Unix a query is one native call, whose block counts are checked and  *)
(* multiplied.  On Windows it is a chain of providers, each asked only     *)
(* when the ones before it had no answer; one of them, the legacy          *)
(* snapshot, takes two native calls.  Words have Modulus values (2^64 in   *)
(* the code), so products wrap or are refused as they are there.           *)
(***************************************************************************)
EXTENDS Naturals, FiniteSets, Functions

CONSTANTS
    Modulus,    \* number of values of a u64
    Count,      \* the block counts a native call may report
    Part        \* the u32 factors of a Windows cluster size

ASSUME ConstantsAssumption ==
    /\ Modulus \in Nat \ {0} /\ Count \subseteq 0 .. Modulus - 1 /\ 0 \in Count
    /\ Part \subseteq Nat /\ \A p, q \in Part : p * q < Modulus

VARIABLES
    platform,   \* "linux" (statfs), "unix" (statvfs) or "windows"; never changes
    modern,     \* Windows: GetDiskSpaceInformationW serves this volume
    place,      \* Windows: what the path names
    volume,     \* the counts of the volume at this moment
    stage,      \* the native call that comes next
    root,       \* Windows: whose root it is asked about
    asked,      \* the figures the caller asked for
    geometry,   \* the cluster size a legacy snapshot has read
    result,     \* what became of the last query
    answer,     \* the figures it returned
    seen        \* history: the counts of the volume since the query began

system == <<platform, modern, place>>
query  == <<stage, root, asked, geometry, result, answer>>
vars   == <<system, volume, query, seen>>

Figure == {"free", "available", "total", "granularity"}
Word   == 0 .. Modulus - 1
(* An "other file" is a reparse point, or is not named below a drive's     *)
(* root; what is "unsuitable" is never asked for by a handle.              *)
Place  == {"root", "directory", "file", "other file", "unsuitable"}
Stage  == {"idle", "statvfs", "direct", "handle", "volume path", "modern",
           "geometry", "bytes"}

UnixVolume ==
    [fragment : Count, block : Count, free : Count, available : Count, total : Count]

(* Actual counts are physical; caller's counts may be limited by a quota.  *)
WindowsVolume ==
    [sectors : Part, bytes : Part,
     free : Count, available : Count, total : Count, caller_total : Count]

Volume == IF platform = "windows" THEN WindowsVolume ELSE UnixVolume

Outcome == {"none", "ok", "io_error", "InvalidData"}
NoFigures == [f \in {} |-> 0]

Init ==
    /\ platform \in {"linux", "unix", "windows"}
    /\ modern \in BOOLEAN /\ place \in Place
    /\ platform # "windows" => modern = FALSE /\ place = "file"
    /\ volume \in Volume
    /\ stage = "idle" /\ root = "volume" /\ asked = {} /\ geometry = 0
    /\ result = "none" /\ answer = NoFigures /\ seen = {}

-----------------------------------------------------------------------------
(***************************************************************************)
(* Counters, their validation and their conversion to bytes.               *)
(***************************************************************************)
(* Mutant: the product is not looked at.                                   *)
checked_mul_raw(m, n) == m * n >= 0

checked_mul(m, n) == m * n < Modulus
wrapping_mul(m, n) == (m * n) % Modulus

(* A word read as i64. *)
negative(n) == n >= (Modulus + 1) \div 2

cluster_size(v) == v.sectors * v.bytes

linux_allocation_granularity(v) == IF v.fragment = 0 THEN v.block ELSE v.fragment

validate_available_bounds(available, free, total) ==
    available <= free /\ available <= total

(* Mutant: free blocks are not compared with the total.                    *)
validate_unix_counters_partly(granularity, v) ==
    /\ granularity # 0
    /\ v.available <= v.total
    /\ checked_mul(granularity, v.total)

(* Only the total is multiplied with a check: the others are not larger.   *)
validate_unix_counters(granularity, v) ==
    /\ granularity # 0
    /\ v.free <= v.total
    /\ validate_available_bounds(v.available, v.free, v.total)
    /\ checked_mul(granularity, v.total)

validate_windows_counters(granularity, free, available, total, source) ==
    /\ granularity # 0
    /\ validate_available_bounds(available, free, total)
    /\ source = "modern" => free <= total

FsStats(free, available, total, granularity) ==
    [free |-> free, available |-> available, total |-> total,
     granularity |-> granularity]

-----------------------------------------------------------------------------
(***************************************************************************)
(* A query.                                                                *)
(***************************************************************************)
Begin(figures, first, path) ==
    /\ stage = "idle"
    /\ stage' = first /\ root' = path /\ asked' = figures
    /\ geometry' = 0 /\ result' = "none" /\ answer' = NoFigures
    /\ seen' = {volume}

Goto(next) == stage' = next /\ UNCHANGED <<root, asked, geometry, result, answer>>

Finish(outcome, figures) ==
    /\ stage' = "idle" /\ result' = outcome /\ answer' = figures
    /\ geometry' = 0 /\ root' = "volume"
    /\ UNCHANGED asked

Return(error) == Finish(error, NoFigures)
Hit(figures)  == Finish("ok", Restrict(figures, asked))

exact_root == IF place = "root" THEN "exact" ELSE "volume"

(* statvfs resolves the volume of its path first, an exact root needs no   *)
(* resolving.                                                              *)
statvfs ==
    Begin(Figure,
          IF platform # "windows" THEN "statvfs"
          ELSE IF place = "root" THEN "modern" ELSE "volume path",
          exact_root)

(* A prepared FsStatsQuery has its volume's root already.                  *)
snapshot ==
    Begin(Figure, IF platform = "windows" THEN "modern" ELSE "statvfs", exact_root)

(* free_space, available_space, total_space, allocation_granularity.       *)
space(kind) ==
    Begin({kind},
          IF platform # "windows" THEN "statvfs"
          ELSE IF kind \in {"free", "available"} THEN "direct" ELSE "handle",
          exact_root)

-----------------------------------------------------------------------------
(***************************************************************************)
(* Unix: one native call, statfs on Linux and statvfs elsewhere.           *)
(***************************************************************************)
statvfs_cstr ==
    LET granularity ==
            IF platform = "linux" THEN linux_allocation_granularity(volume)
            ELSE volume.fragment
        signed ==
            platform = "linux" => ~negative(volume.fragment) /\ ~negative(volume.block)
    IN
    /\ stage = "statvfs"
    /\ \/ Return("io_error")
       \/ IF signed /\ validate_unix_counters(granularity, volume)
          THEN Hit(FsStats(wrapping_mul(granularity, volume.free),
                           wrapping_mul(granularity, volume.available),
                           granularity * volume.total, granularity))
          ELSE Return("InvalidData")

-----------------------------------------------------------------------------
(***************************************************************************)
(* Windows.  GetDiskFreeSpaceExW reports bytes, all read at one moment.    *)
(***************************************************************************)
Bytes(v) ==
    [free |-> cluster_size(v) * v.free, available |-> cluster_size(v) * v.available,
     total |-> cluster_size(v) * v.caller_total]

BytesFit(v) == \A f \in {"free", "available", "total"} : Bytes(v)[f] < Modulus

byte_space_result(bytes) ==
    bytes.available <= bytes.total /\ bytes.available <= bytes.free

(* A path that names no directory has no answer here.                      *)
direct_space ==
    /\ stage = "direct"
    /\ \/ Goto("handle")
       \/ /\ place \notin {"file", "other file"} /\ BytesFit(volume) /\ byte_space_result(Bytes(volume))
          /\ Hit(Bytes(volume))

(* Directories were asked directly; for its cluster size a root, a reparse *)
(* point or a path outside the drives is not asked by handle.              *)
handle_space_attributes_eligible ==
    \/ asked = {"granularity"} /\ place \in {"directory", "file"}
    \/ asked \in {{"free"}, {"available"}} /\ place \in {"file", "other file"}

(* Mutant: the counts are not compared.                                    *)
handle_space_from_info_partly(v) ==
    /\ cluster_size(v) # 0
    /\ checked_mul(cluster_size(v), v.free)
    /\ checked_mul(cluster_size(v), v.available)

handle_space_from_info(v) ==
    /\ cluster_size(v) # 0
    /\ ~negative(v.free) /\ ~negative(v.available) /\ ~negative(v.caller_total)
    /\ v.available <= v.caller_total /\ v.available <= v.free
    /\ checked_mul(cluster_size(v), v.free)
    /\ checked_mul(cluster_size(v), v.available)

(* NtQueryVolumeInformationFile; every failure leads on to the root.       *)
handle_space ==
    /\ stage = "handle"
    /\ \/ Goto(IF place = "root" THEN "modern" ELSE "volume path")
       \/ /\ handle_space_attributes_eligible /\ handle_space_from_info(volume)
          /\ Hit(FsStats(cluster_size(volume) * volume.free,
                         cluster_size(volume) * volume.available,
                         0, cluster_size(volume)))

(* GetVolumePathNameW.                                                     *)
volume_path ==
    /\ stage = "volume path"
    /\ \/ Return("io_error")
       \/ /\ stage' = "modern" /\ root' = "volume"
          /\ UNCHANGED <<asked, geometry, result, answer>>

(* A failed query about an exact root: the resolution class of errors      *)
(* sends a single figure on to the volume's root, a snapshot fails.        *)
space_after_exact_root ==
    \/ Return("io_error")
    \/ root = "exact" /\ asked # Figure /\ Goto("volume path")

counters_from_disk_space_information(v) ==
    /\ v.available <= v.caller_total /\ v.free <= v.total
    /\ checked_mul(cluster_size(v), v.free)
    /\ checked_mul(cluster_size(v), v.available)
    /\ checked_mul(cluster_size(v), v.total)

(* Only a provider that is missing or not implemented is replaced by the   *)
(* legacy calls.                                                           *)
modern_statvfs ==
    LET size == cluster_size(volume) IN
    /\ stage = "modern"
    /\ \/ modern /\ space_after_exact_root
       \/ ~modern /\ Goto(IF asked \in {Figure, {"granularity"}} THEN "geometry" ELSE "bytes")
       \/ /\ modern
          /\ IF /\ counters_from_disk_space_information(volume)
                /\ validate_windows_counters(size, size * volume.free,
                       size * volume.available, size * volume.total, "modern")
             THEN Hit(FsStats(size * volume.free, size * volume.available,
                              size * volume.total, size))
             ELSE Return("InvalidData")

(* GetDiskFreeSpaceW.                                                      *)
cluster_geometry ==
    LET size == cluster_size(volume) IN
    /\ stage = "geometry"
    /\ \/ space_after_exact_root
       \/ size = 0 /\ Return("InvalidData")
       \/ /\ size # 0 /\ asked = Figure
          /\ stage' = "bytes" /\ geometry' = size
          /\ UNCHANGED <<root, asked, result, answer>>
       \/ size # 0 /\ asked # Figure /\ Finish("ok", [granularity |-> size])

byte_space ==
    LET bytes == Bytes(volume) IN
    /\ stage = "bytes"
    /\ \/ space_after_exact_root
       \/ ~byte_space_result(bytes) /\ Return("InvalidData")
       \/ /\ BytesFit(volume) /\ byte_space_result(bytes)
          /\ Hit(FsStats(bytes.free, bytes.available, bytes.total, geometry))

-----------------------------------------------------------------------------
Native ==
    /\ \/ statvfs_cstr \/ direct_space \/ handle_space \/ volume_path
       \/ modern_statvfs \/ cluster_geometry \/ byte_space
    /\ UNCHANGED <<volume, seen>>

(* Others write, delete and get quotas.  Bound: once in a query.           *)
Use(free, available) ==
    /\ stage # "idle" /\ Cardinality(seen) < 2
    /\ volume' = [volume EXCEPT !.free = free, !.available = available]
    /\ seen' = seen \cup {volume'}
    /\ UNCHANGED query

Next ==
    /\ UNCHANGED system
    /\ \/ (statvfs \/ snapshot \/ \E kind \in Figure : space(kind)) /\ UNCHANGED volume
       \/ Native
       \/ \E free, available \in Count : Use(free, available)

Spec == Init /\ [][Next]_vars

-----------------------------------------------------------------------------
TypeOK ==
    /\ platform \in {"linux", "unix", "windows"}
    /\ modern \in BOOLEAN /\ place \in Place /\ volume \in Volume
    /\ stage \in Stage /\ root \in {"exact", "volume"}
    /\ asked \in {{}, Figure} \cup {{f} : f \in Figure}
    /\ geometry \in Word /\ result \in Outcome /\ seen \subseteq Volume
    /\ answer \in [IF result = "ok" THEN asked ELSE {} -> Word]

Granularity(v) ==
    IF platform = "windows" THEN cluster_size(v)
    ELSE IF platform = "linux" THEN linux_allocation_granularity(v)
    ELSE v.fragment

(* The figures of a volume in unbounded arithmetic.                        *)
TrueFigures(v) ==
    LET total == IF platform = "windows" /\ ~modern THEN v.caller_total ELSE v.total
    IN  FsStats(Granularity(v) * v.free, Granularity(v) * v.available,
                Granularity(v) * total, Granularity(v))

(***************************************************************************)
(* Every figure a query returns, and all of a snapshot's together, are     *)
(* the volume's at one moment of the query, whichever provider answered:   *)
(* nothing wrapped, nothing mixed, and the same figure asked in two ways   *)
(* means the same (stats.rs, statvfs and the four single queries).         *)
(***************************************************************************)
FiguresAreExact ==
    result = "ok" => \E v \in seen : answer = Restrict(TrueFigures(v), asked)

(***************************************************************************)
(* Counters that contradict each other are refused: whatever is answered,  *)
(* the volume had a moment at which it was coherent in what was asked.     *)
(* Free space may exceed a total that a quota limits (README.md,           *)
(* Compatibility and operating safety).                                    *)
(***************************************************************************)
Coherent(figures) ==
    /\ "granularity" \in asked => figures.granularity # 0
    /\ asked # {"granularity"} => figures.available <= figures.free
    /\ "total" \in asked =>
          /\ figures.available <= figures.total
          /\ (platform # "windows" \/ modern) => figures.free <= figures.total

NonsenseIsRefused == result = "ok" => \E v \in seen : Coherent(TrueFigures(v))
=============================================================================
