----------------------------- MODULE Allocation -----------------------------
(***************************************************************************)
(* FileExt::allocate (src/src/allocation.rs, unix/allocation.rs and its    *)
(* platform.rs, windows/allocation.rs): one call at a time on a file that  *)
(* other handles write to, and resize.                                     *)
(*                                                                         *)
(* A file is a length and the set of blocks that have backing store; the   *)
(* native queries tell how many blocks are backed, on Windows also         *)
(* whether a prefix is.  Every platform reads a snapshot, reserves, and,   *)
(* where the reservation does not move the length, extends the length by   *)
(* an exact set_len decided on another snapshot.                           *)
(*                                                                         *)
(*   "linux"    posix_fallocate: backs the range and extends, at once      *)
(*   "apple"    F_PREALLOCATE: backs len blocks from the physical end      *)
(*   "other"    no primitive: fails closed                                 *)
(*   "windows"  regular, sparse, compressed and offline files              *)
(***************************************************************************)
EXTENDS Naturals, FiniteSetsExt

CONSTANTS
    MaxLength,      \* the largest length the native calls can express
    BlockCount      \* bound on the blocks of the file, its tail included

ASSUME ConstantsAssumption ==
    /\ MaxLength \in Nat \ {0} /\ BlockCount \in Nat /\ MaxLength <= BlockCount

VARIABLES
    platform,       \* what the library was built for; never changes
    size,           \* the logical length of the file
    backed,         \* its blocks that have backing store
    attribute,      \* Windows file attribute; "sparse" where holes are normal
    stage,          \* how far the allocate call has come
    len,            \* the length it was asked for
    goal,           \* the length it extends the file to
    snapshot,       \* AllocationState it read: allocated and file size
    result,         \* what the last call returned
    before,         \* history: attribute and density when the call began
    promised        \* history: a prefix a successful call vouched for

file == <<size, backed, attribute>>
call == <<stage, len, goal, snapshot, result, before>>
vars == <<platform, file, call, promised>>

Platform  == {"linux", "apple", "other", "windows"}
Length    == 0 .. MaxLength
Block     == 0 .. BlockCount - 1
Attribute == {"regular", "sparse", "compressed", "offline"}
Stage     == {"idle", "attributes", "state", "reserve", "length", "set_len",
              "query", "clear", "restore", "query again"}
Outcome   == {"none", "ok", "io_error", "InvalidInput", "Unsupported"}

Prefix(n)   == 0 .. n - 1
Smaller(m, n) == IF m < n THEN m ELSE n
PhysicalEnd == IF backed = {} THEN 0 ELSE Max(backed) + 1
Dense       == Prefix(size) \subseteq backed /\ backed = Prefix(PhysicalEnd)

(* A regular Windows file has no holes. *)
Plausible ==
    /\ attribute = "regular" => Dense
    /\ platform # "windows" => attribute = "sparse"

Init ==
    /\ platform \in Platform
    /\ size \in Length /\ backed \in SUBSET Prefix(MaxLength)
    /\ attribute \in Attribute /\ Plausible
    /\ stage = "idle" /\ len = 0 /\ goal = 0
    /\ snapshot = [allocated_size |-> 0, file_size |-> 0]
    /\ result = "none" /\ promised = 0
    /\ before = [attribute |-> attribute, dense |-> FALSE]

-----------------------------------------------------------------------------
(***************************************************************************)
(* Native length and backing.                                              *)
(***************************************************************************)

(* set_len is exact: it cuts a longer file.  Only a regular file gets      *)
(* backing for what is added.                                              *)
set_len(n) ==
    /\ size' = n
    /\ backed' = IF n < size THEN backed \cap Prefix(n)
                 ELSE IF attribute = "regular" THEN backed \cup Prefix(n)
                 ELSE backed
    /\ UNCHANGED attribute

(* Another handle resizes the file. *)
Resize(n) ==
    /\ n # size /\ set_len(n)
    /\ promised' = Smaller(promised, n)
    /\ UNCHANGED call

(* Another handle writes block b, which gives it backing. *)
Write(b) ==
    /\ b < size /\ b \notin backed
    /\ backed' = backed \cup {b}
    /\ UNCHANGED <<size, attribute, call, promised>>

(* The owner gives the backing of block b up again. *)
Punch(b) ==
    /\ stage = "idle" /\ attribute = "sparse" /\ b < size /\ b \in backed
    /\ backed' = backed \ {b}
    /\ promised' = Smaller(promised, b)
    /\ UNCHANGED <<size, attribute, call>>

-----------------------------------------------------------------------------
(***************************************************************************)
(* The call.                                                               *)
(***************************************************************************)
Goto(s) == stage' = s /\ UNCHANGED <<len, goal, snapshot, result, before, promised>>

Return(outcome) ==
    /\ stage' = "idle" /\ result' = outcome
    /\ len' = 0 /\ goal' = 0
    /\ snapshot' = [allocated_size |-> 0, file_size |-> 0]
    /\ promised' = IF outcome = "ok" /\ (platform = "apple" => before.dense)
                     /\ promised < len
                   THEN len ELSE promised
    /\ UNCHANGED before

Fails == Return("io_error") /\ UNCHANGED file

allocate(n) ==
    /\ stage = "idle"
    /\ stage' = IF platform = "windows" THEN "attributes" ELSE "state"
    /\ len' = n /\ goal' = n /\ result' = "none"
    /\ before' = [attribute |-> attribute, dense |-> Dense]
    /\ UNCHANGED <<file, snapshot, promised>>

(* Windows: nothing to do for 0; files whose backing cannot be proved are  *)
(* refused.  A sparse file is extended first, a regular one goes by state. *)
file_attributes ==
    /\ stage = "attributes"
    /\ \/ len = 0 /\ Return("ok") /\ UNCHANGED file
       \/ /\ len # 0 /\ UNCHANGED file
          /\ \/ attribute \in {"offline", "compressed"} /\ Return("Unsupported")
             \/ /\ attribute = "sparse"
                /\ IF len > MaxLength THEN Return("InvalidInput") ELSE Goto("length")
             \/ attribute = "regular" /\ Goto("state")
       \/ len # 0 /\ Fails

(* Mutant: the number of backed blocks is taken for coverage.              *)
reservation_needed_aggregate(state) == state.allocated_size < len

reservation_needed(state) ==
    state.allocated_size < len \/ (len # 0 /\ platform \in {"linux", "other"})

(* Where the primitive does not extend, a short file goes on to set_len.   *)
finish_allocation(observed_size) ==
    IF observed_size < len THEN Goto("length") ELSE Return("ok")

(* The native query tells how many blocks are backed, not which.           *)
AllocationState == [allocated_size |-> Cardinality(backed), file_size |-> size]

allocation_state ==
    /\ stage = "state"
    /\ \/ Fails
       \/ LET state == AllocationState IN
          /\ IF IF platform = "windows"
                THEN state.file_size < len /\ state.allocated_size < len
                ELSE reservation_needed(state)
             THEN /\ stage' = "reserve" /\ snapshot' = state
                  /\ UNCHANGED <<len, goal, result, before, promised>>
             ELSE finish_allocation(state.file_size)
          /\ UNCHANGED file

(* posix_fallocate of the whole prefix. *)
fallocate ==
    /\ backed' = backed \cup Prefix(len)
    /\ size' = IF size < len THEN len ELSE size
    /\ UNCHANGED attribute /\ Return("ok")

(* F_PREALLOCATE, contiguous or else in pieces, from the physical end.     *)
preallocate ==
    /\ PhysicalEnd + len <= BlockCount
    /\ backed' = backed \cup (PhysicalEnd .. PhysicalEnd + len - 1)
    /\ UNCHANGED <<size, attribute>>
    /\ finish_allocation(snapshot.file_size)

allocation_target(state) == IF len < state.file_size THEN state.file_size ELSE len

(* FileAllocationInfo sets the allocation, and cuts a file that is longer. *)
set_allocation ==
    LET target == allocation_target(snapshot) IN
    /\ backed' = Prefix(target)
    /\ size' = Smaller(size, target)
    /\ UNCHANGED attribute
    /\ stage' = "length" /\ goal' = target
    /\ UNCHANGED <<len, snapshot, result, before, promised>>

(* Mutant: a length the native type cannot hold is not refused.            *)
allocate_space_unchecked ==
    /\ stage = "reserve"
    /\ \/ platform = "other" /\ Return("Unsupported") /\ UNCHANGED file
       \/ platform = "linux" /\ fallocate
       \/ platform = "apple" /\ preallocate
       \/ platform = "windows" /\ set_allocation

allocate_space ==
    /\ stage = "reserve"
    /\ \/ platform = "other" /\ Return("Unsupported") /\ UNCHANGED file
       \/ /\ platform # "other" /\ len > MaxLength
          /\ Return("InvalidInput") /\ UNCHANGED file
       \/ /\ platform # "other" /\ len <= MaxLength
          /\ \/ platform = "linux" /\ fallocate
             \/ platform = "apple" /\ preallocate
             \/ platform = "windows" /\ set_allocation
             \/ Fails

(* What follows the extension: a sparse Windows file is still to be backed.*)
extended ==
    IF platform = "windows" /\ attribute = "sparse" THEN Goto("query") ELSE Return("ok")

(* Mutant: the current length is not looked at.                            *)
extend_file_length_always ==
    /\ stage = "length"
    /\ Goto("set_len") /\ UNCHANGED file

(* extend_file_length: only a file seen too short is given its new length. *)
extend_file_length ==
    /\ stage = "length"
    /\ \/ Fails
       \/ (IF size < goal THEN Goto("set_len") ELSE extended) /\ UNCHANGED file

extend_file_length_with ==
    /\ stage = "set_len"
    /\ \/ Fails
       \/ goal > MaxLength /\ Return("InvalidInput") /\ UNCHANGED file
       \/ goal <= MaxLength /\ set_len(goal) /\ extended

(* FSCTL_QUERY_ALLOCATED_RANGES: does the first range cover the prefix?    *)
requested_range_is_allocated == Prefix(len) \subseteq backed

reserve_sparse_range ==
    /\ stage \in {"query", "query again"}
    /\ \/ Return("Unsupported")
       \/ requested_range_is_allocated /\ Return("ok")
       \/ ~requested_range_is_allocated /\ stage = "query" /\ Goto("clear")
    /\ UNCHANGED file

(* Mutant: the attribute is not set again.                                 *)
clear_sparse_file_final ==
    /\ stage = "clear"
    /\ backed' = backed \cup Prefix(size) /\ attribute' = "regular"
    /\ UNCHANGED size /\ Goto("query again")

(* FSCTL_SET_SPARSE off: the holes are filled, or the file system accepts  *)
(* the request without doing anything.                                     *)
clear_sparse_file ==
    /\ stage = "clear"
    /\ \/ /\ backed' = backed \cup Prefix(size) /\ attribute' = "regular"
          /\ UNCHANGED size /\ Goto("restore")
       \/ UNCHANGED file /\ Goto("restore")
       \/ Return("Unsupported") /\ UNCHANGED file
       \/ Fails

set_sparse_file ==
    /\ stage = "restore"
    /\ \/ attribute' = "sparse" /\ UNCHANGED <<size, backed>> /\ Goto("query again")
       \/ Fails

Call ==
    \/ file_attributes \/ allocation_state \/ allocate_space
    \/ extend_file_length \/ extend_file_length_with
    \/ reserve_sparse_range \/ clear_sparse_file \/ set_sparse_file

Next ==
    /\ UNCHANGED platform
    /\ \/ \E n \in 0 .. MaxLength + 1 : allocate(n)
       \/ Call
       \/ \E n \in Length : Resize(n)
       \/ \E b \in Block : Write(b) \/ Punch(b)

(***************************************************************************)
(* The caller's part of the contract: nobody else resizes the file while   *)
(* allocate runs.  posix_fallocate, and failing closed, do without it.     *)
(***************************************************************************)
LengthOwned ==
    platform \in {"apple", "windows"} /\ stage # "idle" => size' = size \/ call' # call

Spec == Init /\ [][Next /\ LengthOwned]_vars

-----------------------------------------------------------------------------
TypeOK ==
    /\ platform \in Platform
    /\ size \in Length /\ backed \subseteq Block
    /\ attribute \in Attribute /\ stage \in Stage
    /\ len \in 0 .. MaxLength + 1 /\ goal \in 0 .. MaxLength + 1
    /\ snapshot \in [allocated_size : 0 .. BlockCount, file_size : Length]
    /\ result \in Outcome /\ promised \in Length
    /\ before \in [attribute : Attribute, dense : BOOLEAN]

(***************************************************************************)
(* After Ok the file is at least len long and every block below len has    *)
(* backing, so a write there cannot run out of space; on Apple systems     *)
(* that is only promised of files without holes (lib.rs, allocate).        *)
(***************************************************************************)
PromisedIsBacked == promised <= size /\ Prefix(promised) \subseteq backed

(***************************************************************************)
(* No step of a call, successful or failing, cuts the file or takes away   *)
(* backing below its end.                                                  *)
(***************************************************************************)
CallKeepsTheFile ==
    [][call' # call => size' >= size /\ (backed \cap Prefix(size)) \subseteq backed']_vars

(***************************************************************************)
(* A call that succeeds leaves the attribute as it found it: the sparse    *)
(* attribute it cleared to fill the holes is back.                         *)
(***************************************************************************)
AttributeComesBack ==
    stage = "idle" /\ result \in {"ok", "Unsupported"} => attribute = before.attribute
=============================================================================
