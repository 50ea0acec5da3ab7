---------------------------- MODULE CaptureRoot ----------------------------
(***************************************************************************)
(* Where fs2-dev keeps captured output on Windows: capture_root_from and   *)
(* capture_directory (process.rs) over process/windows_security.rs.        *)
(*                                                                         *)
(* The runner walks down a candidate directory, opening every component by *)
(* its path, checking who may change it, and keeping the handle, which     *)
(* does not share deletion.  Below the candidate it makes or reuses a      *)
(* private directory, and in that one a temporary directory which it       *)
(* hardens.  All this takes many calls, between which any other user may   *)
(* do whatever the access rules let it do.                                 *)
(*                                                                         *)
(* A path is a chain of levels: 0 is the volume root, Depth the candidate, *)
(* Depth + 1 the private and Depth + 2 the temporary directory.  A node    *)
(* <<k, v>> is a directory that bears the name of level k; several nodes   *)
(* may compete for the name.  One directory of the volume root, Beside,    *)
(* has a name of its own.  A path is told by the name it has at level 1.   *)
(* A reparse point in a path is followed, but not as its last component: a *)
(* drive letter that names a directory may so lead to another place than   *)
(* its own parents.  Access rules of existing directories do not change    *)
(* while the runner works, and trusted users leave the path alone.         *)
(***************************************************************************)
EXTENDS Naturals, Sequences, FiniteSets

CONSTANTS
    Depth,              \* the level of the candidate directory
    User,               \* the account the runner has, possibly "system"
    Candidates,         \* sequences of candidates to start from
    VolumeDescriptor,   \* descriptors the volume root may have
    DirectoryDescriptor,\* descriptors of the directories of the path
    StrayDescriptor,    \* descriptors of directories that bear the same names
    PriorDescriptor     \* descriptors of a private directory made earlier

ASSUME DepthAssumption == Depth \in Nat \ {0}

(* The account is not the one whose interference is modelled, and a drive  *)
(* letter names a directory of the path.                                   *)
ASSUME UserAssumption == User # "other"
ASSUME CandidatesAssumption ==
    LET Directory == UNION {{c[i] : i \in DOMAIN c} : c \in Candidates} IN
    /\ \A c \in Candidates : c \in Seq(Directory) /\ c # <<>>
    /\ \A d \in Directory : d.drive \in 0..Depth
ASSUME PriorAssumption == \A d \in PriorDescriptor : DOMAIN d.acl = 1..Len(d.acl)

Right == {"read", "add_subdir", "append", "delete", "delete_child", "write"}
Principal == {User, "system", "administrators", "installer", "other"}

VARIABLES
    parent,         \* parent[n]: the directory n is in, Away or Unborn
    link,           \* link[n]: n, or what n leads to as a reparse point
    descriptor,     \* descriptor[n]: owner and access rules of n
    candidates,     \* candidates still to try, the current one first
    phase,          \* what the runner does next
    walk,           \* components still to admit
    handle,         \* the directory opened last
    alias,          \* the directory the root of the candidate turned out to be
    top,            \* the real path of that directory
    held,           \* directories the runner has an open handle of
    inner,          \* of those, the private and the temporary directory
    chain           \* the nodes the path named when it was admitted

tree == <<parent, link, descriptor>>
progress == <<candidates, walk, alias, top, inner, chain>>
vars == <<tree, progress, phase, handle, held>>

Root   == <<0, 1>>
Away   == <<0, 2>>      \* a place outside the path, in the other user's hands
Unborn == <<0, 3>>      \* the place of a directory that does not exist yet
Private(v) == <<Depth + 1, v>>
Temporary  == <<Depth + 2, 1>>
Decoy      == <<Depth + 2, 2>>  \* one that bears the name of the temporary one
Beside     == <<1, 3>>
Node == {Root, Private(1), Private(2), Temporary, Decoy} \cup ((1..Depth) \X {1, 2, 3})

InTree(n) == n = Root \/ parent[n] \notin {Away, Unborn}
ChildrenAt(p) == {n \in Node : n[1] = p[1] + 1 /\ parent[n] = p}

(***************************************************************************)
(* The directory a path goes on from after n, Away where links only lead   *)
(* to each other.  No level has more than three directories, so the second *)
(* step from one reaches the end of every chain of links that has an end.  *)
(***************************************************************************)
Follow(n) ==
    LET last == link[link[n]] IN
    IF n = Away \/ link[last] # last THEN Away ELSE last

Path == {"path", "beside"}
Entries(t, p) == {n \in ChildrenAt(p) : p = Root => (n = Beside <=> t = "beside")}

(***************************************************************************)
(* What the prefixes of a path name: Away where a component is missing.    *)
(* The last component of a prefix is not followed.                         *)
(***************************************************************************)
Prefixes(t) ==
    LET prefix[k \in 0..(Depth + 2)] ==
            IF k = 0 THEN Root
            ELSE LET p == Follow(prefix[k - 1]) IN
                 IF p = Away \/ Entries(t, p) = {} THEN Away
                 ELSE CHOOSE n \in Entries(t, p) : TRUE
    IN  prefix

Resolve(t, k) == Prefixes(t)[k]

-----------------------------------------------------------------------------
(***************************************************************************)
(* Access rules.                                                           *)
(***************************************************************************)

(* The rights that can change what a retained path names: deletion, a new  *)
(* descriptor, or the attributes and data a reparse point is made with.    *)
RETAINED_PATH_MUTATION_ACCESS == {"delete", "delete_child", "write"}
DESCENDANT_DIRECTORY_MUTATION_ACCESS ==
    RETAINED_PATH_MUTATION_ACCESS \cup {"add_subdir"}
DESCENDANT_FILE_MUTATION_ACCESS == RETAINED_PATH_MUTATION_ACCESS \cup {"append"}

(* The installer service is trusted with volume roots only.                *)
trusted_sid(who, role) ==
    \/ who \in {User, "system", "administrators"}
    \/ role = "volume_root" /\ who = "installer"

(* Access an entry gives to the directory, or to what is created in it.    *)
Mutating(ace, role) ==
    \/ ~ace.inherit_only /\ ace.rights \cap RETAINED_PATH_MUTATION_ACCESS # {}
    \/ /\ role = "directory"
       /\ \/ /\ ace.to_directories
             /\ ace.rights \cap DESCENDANT_DIRECTORY_MUTATION_ACCESS # {}
          \/ /\ ace.to_files
             /\ ace.rights \cap DESCENDANT_FILE_MUTATION_ACCESS # {}

(* Denials aside, what mutates is a plain allowance of a trusted account.  *)
verify_trusted_ancestor_acl(acl, role) ==
    \A i \in DOMAIN acl :
        Mutating(acl[i], role) /\ acl[i].type # "denied" =>
            acl[i].type = "allowed" /\ trusted_sid(acl[i].who, role)

verify_trusted_descriptor(d, role) ==
    /\ trusted_sid(d.owner, role)
    /\ d.has_dacl
    /\ verify_trusted_ancestor_acl(d.acl, role)

(* The entry PrivateSecurity gives: everything, inherited by everything.   *)
AccessAce(who) ==
    [type |-> "allowed", who |-> who, rights |-> Right, inherit_only |-> FALSE,
     to_directories |-> TRUE, to_files |-> TRUE]

PrivateSecurity ==
    [owner |-> User, protected |-> TRUE, has_dacl |-> TRUE,
     acl |-> IF User = "system" THEN <<AccessAce(User)>>
             ELSE <<AccessAce(User), AccessAce("system")>>]

(* Mutant: an entry too many goes unnoticed.                               *)
verify_acl_anyCount(acl) ==
    \A who \in {User, "system"} : \E i \in DOMAIN acl : acl[i] = AccessAce(who)

(* One full entry each for the user and SYSTEM, and no other entry.        *)
verify_acl(acl) ==
    /\ Len(acl) = Cardinality({User, "system"})
    /\ \A who \in {User, "system"} : \E i \in DOMAIN acl : acl[i] = AccessAce(who)

verify_private_descriptor(d) ==
    /\ d.protected
    /\ d.owner = User
    /\ d.has_dacl
    /\ verify_acl(d.acl)

(* What a directory inherits when it is made with no descriptor.           *)
Inherited(d) ==
    [owner |-> User, protected |-> FALSE, has_dacl |-> TRUE,
     acl |-> SelectSeq(d.acl, LAMBDA ace : ace.to_directories)]

(***************************************************************************)
(* What the access rules let an account do: owners can give themselves     *)
(* any right, and without a DACL everybody has every right.                *)
(***************************************************************************)
May(who, n, right) ==
    LET d == descriptor[n]
        Entry(types) == \E i \in DOMAIN d.acl :
            /\ d.acl[i].who = who /\ ~d.acl[i].inherit_only
            /\ right \in d.acl[i].rights
            /\ d.acl[i].type \in types
    IN  \/ d.owner = who
        \/ ~d.has_dacl
        \/ Entry({"allowed", "conditional"}) /\ ~Entry({"denied"})

-----------------------------------------------------------------------------
(***************************************************************************)
(* Candidates.                                                             *)
(***************************************************************************)

(* Names that Windows would read as another name, or as a device.          *)
reject_ambiguous_path(c) ==
    \/ c.prefix \notin {"disk", "unc"}
    \/ c.components \cap {"reserved", "colon", "edge"} # {}

is_local_fixed_drive(c) == c.prefix = "disk" /\ c.fixed

Component(level, role, kind) == [level |-> level, role |-> role, kind |-> kind]

(* The components to admit for a candidate whose drive letter names the    *)
(* directory of level c.drive: its root, and every directory below.        *)
guard_directory_ancestry(c) ==
    <<Component(c.drive, "volume_root", "root")>> \o
    [i \in 1..(Depth - c.drive) |-> Component(c.drive + i, "directory", "path")]

(* Mutant: the drive letter is taken for a volume of its own.              *)
retain_physical_root_ancestry_none(c) == <<>>

(* A drive letter that names an ordinary directory has parents to retain.  *)
retain_physical_root_ancestry(c) ==
    IF c.drive = 0 THEN <<>>
    ELSE [i \in 1..(c.drive + 1) |->
            Component(i - 1, IF i = 1 THEN "volume_root" ELSE "directory",
                      IF i = c.drive + 1 THEN "target" ELSE "parent")]

(* The parents are opened by the real path of the directory, the rest by   *)
(* the drive letter.                                                       *)
Named(c) == Resolve(IF c.kind \in {"parent", "target"} THEN top ELSE "path", c.level)

Init ==
    /\ \E v \in VolumeDescriptor, d \in [1..Depth -> DirectoryDescriptor],
          s \in StrayDescriptor, q \in PriorDescriptor, prior \in {Away, <<Depth, 1>>} :
        /\ descriptor = [n \in Node |->
                IF n = Root THEN v
                ELSE IF n = Private(2) THEN q
                ELSE IF n \in {Private(1), Temporary} THEN PrivateSecurity
                ELSE IF n = Decoy THEN s
                ELSE IF n[2] = 1 THEN d[n[1]] ELSE s]
        /\ parent = [n \in Node |->
                IF n = Private(2) THEN prior
                ELSE IF n \in {Root, Private(1), Temporary, Decoy} THEN Unborn
                ELSE IF n = <<1, 2>> THEN Away
                ELSE IF n[1] = 1 THEN Root ELSE <<n[1] - 1, n[2]>>]
    /\ link = [n \in Node |-> n]
    /\ candidates \in Candidates
    /\ phase = "candidate"
    /\ walk = <<>> /\ handle = Away /\ alias = Away /\ top = "path"
    /\ held = {} /\ inner = <<>> /\ chain = <<>>

-----------------------------------------------------------------------------
(***************************************************************************)
(* The other user, bound by the access rules.  A directory that is open    *)
(* without delete sharing is not renamed.                                  *)
(***************************************************************************)
MoveAway(n) ==
    /\ n # Root /\ InTree(n) /\ n \notin held
    /\ May("other", n, "delete") \/ May("other", parent[n], "delete_child")
    /\ parent' = [parent EXCEPT ![n] = Away]
    /\ UNCHANGED <<link, descriptor>>

PutInPlace(n, p) ==
    /\ parent[n] = Away /\ n \notin held /\ n[1] = p[1] + 1
    /\ \A m \in ChildrenAt(p) : m = Beside <=> n # Beside
    /\ May("other", p, "add_subdir")
    /\ parent' = [parent EXCEPT ![n] = p]
    /\ UNCHANGED <<link, descriptor>>

(* An open handle does not keep a directory from becoming a reparse point, *)
(* from leading elsewhere, or from being a plain directory again.  One that*)
(* leads nowhere makes calls fail, as they may do anyway.                  *)
SetReparse(n, m) ==
    /\ Unborn \notin {parent[n], parent[m]}
    /\ link[n] # m /\ m[1] = n[1]
    /\ May("other", n, "write")
    /\ link' = [link EXCEPT ![n] = m]
    /\ UNCHANGED <<parent, descriptor>>

(* Nothing is promised any more once the runner has failed.                *)
OtherUser ==
    /\ phase # "failed"
    /\ \E n \in Node :
        \/ MoveAway(n)
        \/ \E p \in Node : PutInPlace(n, p)
        \/ \E m \in Node : SetReparse(n, m)
    /\ UNCHANGED <<progress, phase, handle, held>>

-----------------------------------------------------------------------------
(***************************************************************************)
(* capture_root_from.                                                      *)
(***************************************************************************)

(* The candidate is given up with its handles; the next one is tried.      *)
Reject ==
    /\ candidates' = Tail(candidates)
    /\ phase' = IF Len(candidates) = 1 THEN "failed" ELSE "candidate"
    /\ walk' = <<>> /\ handle' = Away /\ alias' = Away /\ top' = "path"
    /\ held' = {} /\ inner' = <<>>
    /\ UNCHANGED <<tree, chain>>

Candidate ==
    LET c == Head(candidates) IN
    /\ phase = "candidate"
    /\ IF ~is_local_fixed_drive(c) \/ reject_ambiguous_path(c)
          \/ "parent" \in c.components
       THEN Reject
       ELSE /\ phase' = "probe"
            /\ walk' = guard_directory_ancestry(c)
            /\ UNCHANGED <<tree, candidates, handle, alias, top, held, inner, chain>>

(* open_directory_with_options and require_directory_attributes: the last  *)
(* component is opened, not followed, and refused if it is a reparse point.*)
Opens(n) == n # Away /\ link[n] = n

(* reject_reparse_metadata: an early look that opens nothing.              *)
Probe ==
    /\ phase = "probe"
    /\ IF Opens(Named(Head(walk)))
       THEN phase' = "open" /\ UNCHANGED <<tree, progress, handle, held>>
       ELSE Reject

Open ==
    LET n == Named(Head(walk)) IN
    /\ phase = "open"
    /\ IF Opens(n)
       THEN /\ handle' = n /\ held' = held \cup {n}
            /\ phase' = "verify"
            /\ UNCHANGED <<tree, progress>>
       ELSE Reject

(* The component is admitted: the next one, or the private directory.      *)
Advance(rest) ==
    /\ walk' = rest
    /\ phase' = IF rest = <<>> THEN "private" ELSE "probe"
    /\ handle' = Away
    /\ UNCHANGED <<tree, candidates, alias, held, inner, chain>>

(* verify_trusted_ancestor; retain_matching_ancestry at the alias target.  *)
Verify ==
    LET c == Head(walk) IN
    /\ phase = "verify"
    /\ IF \/ ~verify_trusted_descriptor(descriptor[handle], c.role)
          \/ c.kind = "target" /\ handle # alias
       THEN Reject
       ELSE IF c.kind = "root"
       THEN /\ alias' = handle /\ phase' = "final"
            /\ UNCHANGED <<tree, candidates, walk, handle, top, held, inner, chain>>
       ELSE Advance(Tail(walk)) /\ UNCHANGED top

(* The directories a directory really is in, from the volume root down.    *)
Ancestry(n) ==
    {real \in [0..n[1] -> Node] :
        /\ real[0] = Root /\ real[n[1]] = n
        /\ \A k \in 1..n[1] : parent[real[k]] = real[k - 1]}

(* final_directory_path of the root's handle, and the parents it shows,    *)
(* whatever reparse points the drive letter led through.  One moved        *)
(* elsewhere has a parent of the other user, whom nobody trusts.           *)
FinalPath ==
    /\ phase = "final"
    /\ IF Ancestry(alias) = {} THEN Reject
       ELSE /\ \E real \in Ancestry(alias) :
                 top' = IF \E k \in DOMAIN real : real[k] = Beside THEN "beside" ELSE "path"
            /\ Advance(retain_physical_root_ancestry(Head(candidates)) \o Tail(walk))

(* CreateDirectoryW; a directory that already exists is as welcome.        *)
CreatePrivate ==
    LET p == Follow(Resolve("path", Depth)) IN
    /\ phase = "private"
    /\ IF p = Away THEN Reject
       ELSE /\ parent' = IF ChildrenAt(p) = {}
                         THEN [parent EXCEPT ![Private(1)] = p] ELSE parent
            /\ phase' = "private_open"
            /\ UNCHANGED <<link, descriptor, progress, handle, held>>

OpenPrivate ==
    LET n == Resolve("path", Depth + 1) IN
    /\ phase = "private_open"
    /\ IF Opens(n)
       THEN /\ handle' = n /\ held' = held \cup {n}
            /\ phase' = "private_verify"
            /\ UNCHANGED <<tree, progress>>
       ELSE Reject

(* How far down the path is the one that was retained: all the way, unless *)
(* the drive letter led through a reparse point to its directory.          *)
Retained(k) == top = "path" \/ k <= Head(candidates).drive

(* verify_private_directory, whoever made it; capture_root returns.        *)
VerifyPrivate ==
    /\ phase = "private_verify"
    /\ IF verify_private_descriptor(descriptor[handle])
       THEN /\ phase' = "temporary" /\ inner' = <<handle>>
            /\ chain' = [k \in {j \in 0..(Depth + 1) : Retained(j)} |-> Resolve(top, k)]
            /\ UNCHANGED <<tree, candidates, walk, handle, alias, top, held>>
       ELSE Reject

-----------------------------------------------------------------------------
(***************************************************************************)
(* capture_directory.                                                      *)
(***************************************************************************)
(* TempDir is dropped: what its name leads to goes, if it can be removed.  *)
RemoveTemporary ==
    LET n == Resolve("path", Depth + 2) IN
    parent' \in {parent} \cup
        IF n = Away THEN {} ELSE {[parent EXCEPT ![n] = Unborn]}

(* The handles are dropped, then the directory.                            *)
Leave(outcome) ==
    /\ phase' = outcome /\ held' = {}
    /\ RemoveTemporary
    /\ UNCHANGED <<link, descriptor, progress, handle>>

Fail == Leave("failed")

(* tempdir_in makes a directory with a random name and no descriptor.  Now *)
(* that the name is known another directory may bear it.                   *)
CreateTemporary ==
    LET p == Follow(Resolve("path", Depth + 1)) IN
    /\ phase = "temporary"
    /\ IF p = Away THEN Fail
       ELSE /\ parent' = [parent EXCEPT ![Temporary] = p, ![Decoy] = Away]
            /\ descriptor' = [descriptor EXCEPT ![Temporary] = Inherited(descriptor[p])]
            /\ phase' = "harden"
            /\ UNCHANGED <<link, progress, handle, held>>

(* harden_new_private_directory: it opens the directory by its path, gives *)
(* the one it opened the private, protected descriptor, and verifies the   *)
(* outcome.                                                                *)
HardenTemporary ==
    LET n == Resolve("path", Depth + 2) IN
    /\ phase = "harden"
    /\ IF Opens(n)
       THEN /\ handle' = n /\ held' = held \cup {n} /\ inner' = Append(inner, n)
            /\ phase' = "secure"
            /\ UNCHANGED <<tree, candidates, walk, alias, top, chain>>
       ELSE Fail

SetSecurityInfo ==
    /\ phase = "secure"
    /\ descriptor' = [descriptor EXCEPT ![handle] = PrivateSecurity]
    /\ phase' = "harden_verify"
    /\ UNCHANGED <<parent, link, progress, handle, held>>

VerifyTemporary ==
    /\ phase = "harden_verify"
    /\ IF verify_private_descriptor(descriptor[handle])
       THEN phase' = "ready" /\ UNCHANGED <<tree, progress, handle, held>>
       ELSE Fail

(* CaptureDirectory is dropped.                                            *)
Drop == phase = "ready" /\ Leave("closed")

(* Any of the Win32 calls may fail for a reason of its own.                *)
CallFails ==
    \/ /\ phase \in {"probe", "open", "verify", "final", "private", "private_open",
                     "private_verify"}
       /\ Reject
    \/ phase \in {"temporary", "harden", "secure", "harden_verify"} /\ Fail

Runner ==
    \/ Candidate \/ Probe \/ Open \/ Verify \/ FinalPath
    \/ CreatePrivate \/ OpenPrivate \/ VerifyPrivate
    \/ CreateTemporary \/ HardenTemporary \/ SetSecurityInfo \/ VerifyTemporary
    \/ Drop
    \/ CallFails

Next == Runner \/ OtherUser

Spec == Init /\ [][Next]_vars

-----------------------------------------------------------------------------
Admitted ==
    phase \in {"temporary", "harden", "secure", "harden_verify", "ready", "closed"}

(***************************************************************************)
(* Once capture_root has returned, the runner holds every directory from   *)
(* the volume root down to the one it opened by the drive letter, by its   *)
(* real path, and nothing another user may do makes any of them name       *)
(* another directory, not even after the handles are gone.  The same holds *)
(* of all directories down to the private one, unless the drive letter led *)
(* through a reparse point: then whoever may change that point can make    *)
(* the letter lead elsewhere.                                              *)
(***************************************************************************)
AdmittedPathStays ==
    Admitted =>
        /\ chain[Head(candidates).drive] = alias
        /\ \A k \in 0..(Depth + 1) : Retained(k) =>
               LET n == Resolve(top, k) IN
               /\ n = chain[k] /\ Opens(n)
               /\ phase # "closed" => n \in held

(***************************************************************************)
(* While output is captured only the user and SYSTEM have any access to    *)
(* the two innermost directories that are held, wherever the path led when *)
(* they were opened; and where the path stays it leads to those two.       *)
(***************************************************************************)
EvidenceIsPrivate ==
    phase = "ready" =>
        \A i \in {1, 2} :
            /\ \A who \in Principal \ {User, "system"}, right \in Right :
                ~May(who, inner[i], right)
            /\ Retained(Depth + i) => inner[i] = Resolve("path", Depth + i)
=============================================================================
