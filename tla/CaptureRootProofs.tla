------------------------- MODULE CaptureRootProofs -------------------------
(***************************************************************************)
(* The path that was admitted stays, and the directories of the evidence   *)
(* are private, for paths of every depth, any candidates, and any access   *)
(* rules of the directories.                                               *)
(***************************************************************************)
EXTENDS CaptureRoot, FiniteSetTheorems, SequenceTheorems, WellFoundedInduction, TLAPS

-----------------------------------------------------------------------------
(* A set of natural numbers that is not empty has a least element. *)
LEMMA LeastNatural ==
    ASSUME NEW T, T \subseteq Nat, T # {}
    PROVE  \E x \in T : \A y \in T : x <= y
<1>1. PICK x \in T : \A y \in T : ~ (<<y, x>> \in OpToRel(<, Nat))
  BY NatLessThanWellFounded, WFMin
<1>2. ASSUME NEW y \in T PROVE x <= y
  <2>1. y \in Nat /\ x \in Nat /\ <<y, x>> \in Nat \X Nat
    BY <1>2
  <2>2. ~(y < x)
    BY <1>1, <2>1 DEF OpToRel
  <2>q. QED BY <2>1, <2>2
<1>q. QED BY <1>2

(* What a path goes on to from the directory n. *)
Below(t, n) ==
    LET p == Follow(n) IN
    IF p = Away \/ Entries(t, p) = {} THEN Away ELSE CHOOSE m \in Entries(t, p) : TRUE

(* The recursive definition of the prefixes has a solution: they are it. *)
LEMMA ResolveFact ==
    ASSUME NEW t
    PROVE  /\ Resolve(t, 0) = Root
           /\ \A k \in 1 .. (Depth + 2) : Resolve(t, k) = Below(t, Resolve(t, k - 1))
<1> DEFINE Solves(f, n) == f = [k \in 0 .. n |-> IF k = 0 THEN Root ELSE Below(t, f[k - 1])]
           T == {n \in Nat : ~ \E f : Solves(f, n)}
<1>1. T = {}
  <2> SUFFICES ASSUME T # {} PROVE FALSE
    OBVIOUS
  <2>1. PICK m \in T : \A y \in T : m <= y
    <3> HIDE DEF T
    <3>1. T \subseteq Nat
      BY DEF T
    <3>q. QED BY <3>1, LeastNatural
  <2>2. m # 0
    <3> DEFINE f == [k \in 0 .. 0 |-> Root]
    <3>1. Solves(f, 0)
      OBVIOUS
    <3>q. QED BY <3>1
  <2>3. PICK f : Solves(f, m - 1)
    <3>1. m \in Nat /\ m - 1 \in Nat /\ ~(m <= m - 1)
      BY <2>2
    <3>2. m - 1 \notin T
      BY <3>1, <2>1
    <3>q. QED BY <3>1, <3>2
  <2> DEFINE g == [k \in 0 .. m |-> IF k = m THEN Below(t, f[m - 1]) ELSE f[k]]
  <2>4. Solves(g, m)
    <3> HIDE DEF T
    <3>0. m \in Nat
      BY DEF T
    <3>1. ASSUME NEW k \in 0 .. m
          PROVE  g[k] = IF k = 0 THEN Root ELSE Below(t, g[k - 1])
      <4>1. CASE k = m
        <5>1. k # 0 /\ k - 1 \in 0 .. m /\ k - 1 # m
          BY <3>0, <2>2, <4>1
        <5>2. g[k] = Below(t, f[m - 1]) /\ g[k - 1] = f[k - 1]
          BY <5>1, <4>1
        <5>q. QED BY <5>1, <5>2, <4>1
      <4>2. CASE k # m
        <5>1. k \in 0 .. m - 1
          BY <4>2, <3>0
        <5>2. g[k] = f[k]
          BY <4>2
        <5>3. f[k] = IF k = 0 THEN Root ELSE Below(t, f[k - 1])
          BY <5>1, <2>3
        <5>4. k # 0 => k - 1 \in 0 .. m /\ k - 1 # m
          BY <5>1, <3>0
        <5>5. k # 0 => g[k - 1] = f[k - 1]
          BY <5>4
        <5>q. QED BY <5>2, <5>3, <5>5
      <4>q. QED BY <4>1, <4>2
    <3>2. g = [k \in 0 .. m |-> g[k]]
      OBVIOUS
    <3> HIDE DEF g
    <3>3. [k \in 0 .. m |-> g[k]] = [k \in 0 .. m |-> IF k = 0 THEN Root ELSE Below(t, g[k - 1])]
      BY <3>1
    <3>q. QED BY <3>2, <3>3
  <2>q. QED BY <2>4, <2>1
<1>2. Depth + 2 \in Nat
  BY DepthAssumption
<1>3. PICK f : Solves(f, Depth + 2)
  BY <1>1, <1>2
<1>4. Solves(Prefixes(t), Depth + 2)
  BY <1>3 DEF Prefixes, Below
<1> HIDE DEF Below
<1>5. \A k \in 0 .. (Depth + 2) :
        Prefixes(t)[k] = IF k = 0 THEN Root ELSE Below(t, Prefixes(t)[k - 1])
  BY <1>4
<1>q. QED BY <1>2, <1>5 DEF Resolve

LEMMA ResolveFactNext ==
    ASSUME NEW CONSTANT t
    PROVE  (/\ Resolve(t, 0) = Root
            /\ \A k \in 1 .. (Depth + 2) : Resolve(t, k) = Below(t, Resolve(t, k - 1)))'
  BY ResolveFact, PTL

-----------------------------------------------------------------------------
(* The inductive invariant. *)

(* No access rule lets the other user change what a name in n leads to. *)
Sealed(n) == \A right \in RETAINED_PATH_MUTATION_ACCESS : ~May("other", n, right)

(* Directories of one level and name in one place are one; a link was made *)
(* by a user who may write to it, unless it is as new as the temporary one.*)
Tree ==
    /\ parent \in [Node -> Node \cup {Away, Unborn}]
    /\ DOMAIN descriptor = Node
    /\ \A m, n \in Node :
        /\ m[1] = n[1] /\ (m = Beside <=> n = Beside)
        /\ parent[m] = parent[n] /\ parent[m] \in Node
        => m = n
    /\ link \in [Node -> Node]
    /\ \A n \in Node :
        /\ link[n][1] = n[1]
        /\ link[n] # n /\ n[1] # Depth + 2 => May("other", n, "write")
    /\ \A v \in {1, 2} : LET acl == descriptor[Private(v)].acl IN DOMAIN acl = 1 .. Len(acl)

Drive == Head(candidates).drive

(* The retained path is sealed and held down to level k. *)
Kept(k) ==
    \A j \in 0 .. k : Retained(j) =>
        /\ Resolve(top, j) # Away /\ Sealed(Resolve(top, j))
        /\ phase # "closed" => Resolve(top, j) \in held

(* The runner holds n as the directory of level k. *)
OpenAt(n, k) ==
    /\ n \in Node /\ n[1] = k /\ n \in held
    /\ Retained(k) => n = Resolve(top, k)

ComponentSet ==
    [level : 0 .. Depth, role : {"volume_root", "directory"},
     kind : {"root", "path", "parent", "target"}]

(* The components left are those from the level of the first one. *)
NextLevel == Depth + 1 - Len(walk)
KindAt(k) ==
    IF k > Drive THEN {"path"} ELSE IF k = Drive THEN {"target"} ELSE {"parent"}
Rest ==
    /\ Len(walk) <= Depth + 1
    /\ \A i \in 1 .. Len(walk) :
         walk[i].level = NextLevel + i - 1 /\ walk[i].kind \in KindAt(walk[i].level)

CandidateDirectory == UNION {{c[i] : i \in DOMAIN c} : c \in Candidates}

Candidacy ==
    /\ candidates \in Seq(CandidateDirectory)
    /\ phase # "failed" => candidates # <<>>
    /\ walk \in Seq(ComponentSet)
    /\ top \in Path

(* The root the drive letter names is looked at first. *)
AtRoot ==
    /\ top = "path"
    /\ walk = guard_directory_ancestry(Head(candidates))
    /\ phase \in {"verify", "final"} /\ Drive = 0 => handle = Root /\ Root \in held
    /\ phase = "final" => alias = handle /\ (Drive = 0 => Sealed(Root))

(* Then the path is admitted from the top. *)
OnPath ==
    /\ Rest
    /\ Kept(NextLevel - 1)
    /\ NextLevel > Drive => alias = Resolve(top, Drive)
    /\ phase = "verify" => OpenAt(handle, NextLevel)

AtPrivate ==
    /\ Kept(Depth) /\ alias = Resolve(top, Drive)
    /\ phase = "private_verify" => OpenAt(handle, Depth + 1)

(* Only the user and SYSTEM have any access to n. *)
Exclusive(n) == \A who \in Principal \ {User, "system"}, right \in Right : ~May(who, n, right)

PathKept ==
    /\ Kept(Depth + 1) /\ alias = Resolve(top, Drive)
    /\ chain = [k \in {j \in 0 .. (Depth + 1) : Retained(j)} |-> Resolve(top, k)]
    /\ inner[1] \in Node /\ inner[1][1] = Depth + 1 /\ Exclusive(inner[1])
    /\ Retained(Depth + 1) => inner[1] = Resolve(top, Depth + 1)

PathAdmitted ==
    /\ PathKept
    /\ phase \in {"temporary", "harden"} => inner = <<inner[1]>>
    /\ phase \in {"secure", "harden_verify"} => handle = inner[2]
    /\ phase \in {"secure", "harden_verify", "ready"} => OpenAt(inner[2], Depth + 2)
    /\ phase \in {"harden_verify", "ready"} => Exclusive(inner[2])

Phase ==
    {"candidate", "probe", "open", "verify", "final", "private", "private_open",
     "private_verify", "temporary", "harden", "secure", "harden_verify", "ready",
     "closed", "failed"}

Progress ==
    /\ phase \in Phase
    /\ phase = "candidate" => top = "path"
    /\ phase \in {"probe", "open", "verify", "final"} =>
         /\ walk # <<>>
         /\ phase = "final" => Head(walk).kind = "root"
         /\ IF Head(walk).kind = "root" THEN AtRoot ELSE OnPath
    /\ phase \in {"private", "private_open", "private_verify"} => AtPrivate
    /\ Admitted => PathAdmitted

Inv == Tree /\ Candidacy /\ Progress

-----------------------------------------------------------------------------
(* Access rules. *)

(* Whom verify_trusted_descriptor admits seals the directory. *)
LEMMA TrustedIsSealed ==
    ASSUME NEW n, NEW role \in {"volume_root", "directory"},
           verify_trusted_descriptor(descriptor[n], role)
    PROVE  Sealed(n)
<1> SUFFICES ASSUME NEW right \in RETAINED_PATH_MUTATION_ACCESS, May("other", n, right)
             PROVE  FALSE
  BY DEF Sealed
<1> DEFINE d == descriptor[n]
<1>1. ~trusted_sid("other", role)
  BY UserAssumption DEF trusted_sid
<1>2. d.owner # "other" /\ d.has_dacl
  BY <1>1 DEF verify_trusted_descriptor
<1>3. PICK i \in DOMAIN d.acl :
        /\ d.acl[i].who = "other" /\ ~d.acl[i].inherit_only
        /\ right \in d.acl[i].rights
        /\ d.acl[i].type \in {"allowed", "conditional"}
  BY <1>2 DEF May
<1>4. Mutating(d.acl[i], role)
  BY <1>3 DEF Mutating
<1>5. trusted_sid(d.acl[i].who, role)
  BY <1>3, <1>4 DEF verify_trusted_descriptor, verify_trusted_ancestor_acl
<1>q. QED BY <1>1, <1>3, <1>5

(* The entries of a private descriptor are those of the user and SYSTEM. *)
LEMMA PrivateIsExclusive ==
    ASSUME NEW n, verify_private_descriptor(descriptor[n]),
           DOMAIN descriptor[n].acl = 1 .. Len(descriptor[n].acl)
    PROVE  Exclusive(n)
<1> DEFINE acl == descriptor[n].acl
<1>1. descriptor[n].owner = User /\ descriptor[n].has_dacl /\ verify_acl(acl)
  BY DEF verify_private_descriptor
<1>2. PICK a \in DOMAIN acl, b \in DOMAIN acl :
        acl[a] = AccessAce(User) /\ acl[b] = AccessAce("system")
  BY <1>1 DEF verify_acl
<1>3. \A i \in DOMAIN acl : acl[i] = AccessAce(User) \/ acl[i] = AccessAce("system")
  <2>1. CASE User = "system"
    <3>1. {User, "system"} = {User}
      BY <2>1
    <3>2. Len(acl) = 1
      BY <3>1, <1>1, FS_Singleton DEF verify_acl
    <3>q. QED BY <3>2, <1>2
  <2>2. CASE User # "system"
    <3>1. Cardinality({User, "system"}) = 2
      <4>1. IsFiniteSet({User}) /\ Cardinality({User}) = 1
        BY FS_Singleton
      <4>2. "system" \notin {User} /\ {User} \cup {"system"} = {User, "system"}
        BY <2>2
      <4>3. Cardinality({User} \cup {"system"}) = Cardinality({User}) + 1
        BY <4>1, <4>2, FS_AddElement
      <4>q. QED BY <4>1, <4>2, <4>3
    <3>2. Len(acl) = 2
      BY <3>1, <1>1 DEF verify_acl
    <3>3. acl[a].who = User /\ acl[b].who = "system"
      BY <1>2 DEF AccessAce
    <3>4. a # b
      BY <3>3, <2>2
    <3>5. a \in 1 .. 2 /\ b \in 1 .. 2 /\ \A i \in DOMAIN acl : i \in 1 .. 2
      BY <3>2
    <3>6. \A i \in DOMAIN acl : i = a \/ i = b
      BY <3>4, <3>5
    <3>q. QED BY <3>6, <1>2
  <2>q. QED BY <2>1, <2>2
<1>4. \A i \in DOMAIN acl : acl[i].who \in {User, "system"}
  BY <1>3 DEF AccessAce
<1>q. QED BY <1>1, <1>4 DEF Exclusive, May

(* The descriptor the runner gives is private. *)
LEMMA PrivateSecurityFact ==
    /\ DOMAIN PrivateSecurity.acl = 1 .. Len(PrivateSecurity.acl)
    /\ PrivateSecurity.owner = User /\ PrivateSecurity.has_dacl
    /\ \A i \in DOMAIN PrivateSecurity.acl : PrivateSecurity.acl[i].who \in {User, "system"}
<1>1. /\ PrivateSecurity.owner = User /\ PrivateSecurity.has_dacl
      /\ PrivateSecurity.acl = IF User = "system" THEN <<AccessAce(User)>>
                                ELSE <<AccessAce(User), AccessAce("system")>>
  BY DEF PrivateSecurity
<1>2. AccessAce(User).who = User /\ AccessAce("system").who = "system"
  BY DEF AccessAce
<1> HIDE DEF PrivateSecurity, AccessAce
<1>3. CASE User = "system"
  BY <1>1, <1>2, <1>3
<1>4. CASE User # "system"
  <2>1. PrivateSecurity.acl = <<AccessAce(User), AccessAce("system")>>
    BY <1>1, <1>4
  <2>2. PICK a, b : a = AccessAce(User) /\ b = AccessAce("system")
    OBVIOUS
  <2>3. /\ DOMAIN <<a, b>> = 1 .. Len(<<a, b>>)
        /\ \A i \in DOMAIN <<a, b>> : <<a, b>>[i] \in {a, b}
    OBVIOUS
  <2>q. QED BY <1>1, <1>2, <2>1, <2>2, <2>3
<1>q. QED BY <1>3, <1>4

(* Nobody may do what only the user and SYSTEM may do. *)
LEMMA ExclusiveIsSealed ==
    ASSUME NEW n, Exclusive(n)
    PROVE  Sealed(n)
  BY UserAssumption DEF Exclusive, Sealed, Principal, Right, RETAINED_PATH_MUTATION_ACCESS

-----------------------------------------------------------------------------
(* Names. *)

LEMMA NodeKinds ==
    /\ Away \notin Node /\ Unborn \notin Node /\ Away # Unborn
    /\ {Root, Temporary, Decoy, Beside, Private(1), Private(2)} \subseteq Node
    /\ \A n \in Node : n[1] \in 0 .. (Depth + 2)
    /\ \A n \in Node : n[1] = 0 <=> n = Root
    /\ \A n \in Node : n[1] = Depth + 1 <=> n \in {Private(1), Private(2)}
    /\ \A n \in Node : n[1] = Depth + 2 <=> n \in {Temporary, Decoy}
    /\ Beside[1] = 1 /\ Private(1) # Private(2) /\ Temporary # Decoy
  BY DepthAssumption DEF Node, Away, Unborn, Root, Private, Temporary, Decoy, Beside

(* Where a link leads is a directory of the same level. *)
LEMMA FollowFact ==
    ASSUME Tree, NEW n \in Node, Follow(n) # Away
    PROVE  Follow(n) \in Node /\ Follow(n)[1] = n[1]
  BY DEF Follow, Tree

(* What a path goes on to is one level further down. *)
LEMMA BelowLevel ==
    ASSUME Tree, NEW t \in Path, NEW n \in Node, Below(t, n) # Away
    PROVE  Below(t, n) \in Node /\ Below(t, n)[1] = n[1] + 1
<1>1. /\ Follow(n) # Away /\ Entries(t, Follow(n)) # {}
      /\ Below(t, n) = CHOOSE m \in Entries(t, Follow(n)) : TRUE
  BY DEF Below
<1>2. Below(t, n) \in Entries(t, Follow(n))
  BY <1>1
<1>q. QED BY <1>1, <1>2, FollowFact DEF Entries, ChildrenAt

(* A prefix names a directory of its level, or nothing. *)
LEMMA ResolveLevel ==
    ASSUME Tree, NEW t \in Path
    PROVE  \A k \in 0 .. (Depth + 2) :
             Resolve(t, k) # Away => Resolve(t, k) \in Node /\ Resolve(t, k)[1] = k
<1> DEFINE T == {k \in 0 .. (Depth + 2) :
                   ~(Resolve(t, k) # Away => Resolve(t, k) \in Node /\ Resolve(t, k)[1] = k)}
<1> SUFFICES ASSUME T # {} PROVE FALSE
  OBVIOUS
<1>1. Depth \in Nat /\ T \subseteq Nat
  BY DepthAssumption
<1>2. PICK k \in T : \A j \in T : k <= j
  <2> HIDE DEF T
  <2>q. QED BY <1>1, LeastNatural
<1>3. k # 0
  BY ResolveFact, <1>2, NodeKinds
<1>4. k - 1 \in 0 .. (Depth + 2) /\ k \in 1 .. (Depth + 2) /\ ~(k <= k - 1)
  BY <1>1, <1>2, <1>3
<1>5. Resolve(t, k - 1) # Away => Resolve(t, k - 1) \in Node /\ Resolve(t, k - 1)[1] = k - 1
  BY <1>4, <1>2
<1>6. Resolve(t, k) = Below(t, Resolve(t, k - 1))
  BY <1>4, ResolveFact
<1>7. CASE Resolve(t, k) # Away
  <2>1. Resolve(t, k - 1) # Away
    BY <1>6, <1>7 DEF Below, Follow
  <2>q. QED BY <2>1, <1>4, <1>5, <1>6, <1>7, <1>2, BelowLevel
<1>q. QED BY <1>7, <1>2

(* A directory that is sealed is no link, unless it is one of the newest. *)
LEMMA SealedIsPlain ==
    ASSUME Tree, NEW n \in Node, n[1] # Depth + 2, Sealed(n)
    PROVE  link[n] = n /\ Follow(n) = n
<1>1. link[n] = n
  BY DEF Tree, Sealed, RETAINED_PATH_MUTATION_ACCESS
<1>q. QED BY <1>1, NodeKinds DEF Follow

(* Where a name in a sealed directory leads somewhere, it is its only one. *)
LEMMA ResolveStep ==
    ASSUME Tree, NEW t \in Path, NEW k \in 0 .. (Depth + 1),
           Resolve(t, k) # Away, Sealed(Resolve(t, k)), Resolve(t, k + 1) # Away
    PROVE  LET p == Resolve(t, k)
               c == Resolve(t, k + 1)
           IN  p \in Node /\ c \in Node /\ p[1] = k /\ link[p] = p /\ Follow(p) = p
               /\ parent[c] = p /\ Entries(t, p) = {c}
<1> DEFINE p == Resolve(t, k)
           c == Resolve(t, k + 1)
<1>1. k + 1 \in 1 .. (Depth + 2) /\ (k + 1) - 1 = k /\ k \in 0 .. (Depth + 2) /\ k # Depth + 2
  BY DepthAssumption
<1>2. p \in Node /\ p[1] = k
  BY <1>1, ResolveLevel
<1>3. link[p] = p /\ Follow(p) = p
  BY <1>1, <1>2, SealedIsPlain
<1>4. c = Below(t, p)
  BY <1>1, ResolveFact
<1> HIDE DEF p, c
<1>5. c \in Entries(t, p)
  BY <1>3, <1>4 DEF Below, c, p
<1>6. c \in Node /\ parent[c] = p
  BY <1>5 DEF Entries, ChildrenAt
<1>7. \A m \in Entries(t, p) : m = c
  <2> SUFFICES ASSUME NEW m \in Entries(t, p) PROVE m = c
    OBVIOUS
  <2>1. /\ m \in Node /\ parent[m] = p /\ parent[c] = p /\ m[1] = c[1] /\ m[1] = p[1] + 1
        /\ p = Root => (m = Beside <=> c = Beside)
    BY <1>5 DEF Entries, ChildrenAt
  <2>2. p # Root => p[1] # 0 /\ p[1] + 1 # 1
    BY <1>2, <1>1, NodeKinds, DepthAssumption
  <2>3. m = Beside <=> c = Beside
    BY <2>1, <2>2, NodeKinds
  <2>4. \A a, b \in Node :
          a[1] = b[1] /\ (a = Beside <=> b = Beside) /\ parent[a] = parent[b] /\ parent[a] \in Node
          => a = b
    BY DEF Tree
  <2>5. parent[m] \in Node /\ m \in Node /\ c \in Node
    BY <2>1, <1>2, <1>6
  <2>q. QED BY <2>1, <2>3, <2>4, <2>5
<1>8. Entries(t, p) = {c}
  BY <1>5, <1>7
<1>q. QED BY <1>2, <1>3, <1>6, <1>8 DEF p, c

(* A prefix names the same when the directories above it lead to the same. *)
LEMMA ResolveSame ==
    ASSUME NEW CONSTANT t, NEW CONSTANT k \in 0 .. (Depth + 2),
           \A j \in 0 .. (k - 1) : \A p \in {Resolve(t, j)} : Below(t, p)' = Below(t, p)
    PROVE  \A j \in 0 .. k : Resolve(t, j)' = Resolve(t, j)
<1> DEFINE T == {j \in 0 .. k : Resolve(t, j)' # Resolve(t, j)}
<1> SUFFICES ASSUME T # {} PROVE FALSE
  OBVIOUS
<1>1. Depth \in Nat /\ T \subseteq Nat
  BY DepthAssumption
<1>2. PICK j \in T : \A i \in T : j <= i
  <2> HIDE DEF T
  <2>q. QED BY <1>1, LeastNatural
<1>3. /\ Resolve(t, 0)' = Root
      /\ \A i \in 1 .. (Depth + 2) : Resolve(t, i)' = Below(t, Resolve(t, i - 1))'
  BY ResolveFactNext DEF Root
<1>4. j # 0
  BY <1>2, <1>3, ResolveFact
<1>5. j - 1 \in 0 .. (k - 1) /\ j \in 1 .. (Depth + 2) /\ ~(j <= j - 1) /\ j - 1 \in 0 .. k
  BY <1>1, <1>2, <1>4
<1>6. Resolve(t, j - 1)' = Resolve(t, j - 1)
  BY <1>5, <1>2
<1>7. PICK p : p = Resolve(t, j - 1)
  OBVIOUS
<1>8. Resolve(t, j)' = Below(t, p)'
  BY <1>3, <1>5, <1>6, <1>7
<1>9. Below(t, p)' = Below(t, p)
  BY <1>5, <1>7
<1>10. Resolve(t, j) = Below(t, p)
  BY <1>5, <1>7, ResolveFact
<1>q. QED BY <1>2, <1>8, <1>9, <1>10

(* Where a directory leads depends on its link and on its entries. *)
LEMMA BelowSame ==
    ASSUME NEW CONSTANT t, NEW CONSTANT p,
           Follow(p)' = Follow(p), Entries(t, Follow(p))' = Entries(t, Follow(p))
    PROVE  Below(t, p)' = Below(t, p)
  BY DEF Below, Away

(* Changes further down do not matter to a prefix. *)
LEMMA DeepChanges ==
    ASSUME Tree, NEW CONSTANT t \in Path, NEW CONSTANT k \in 0 .. (Depth + 2), UNCHANGED link,
           \A n \in Node : n[1] <= k => parent'[n] = parent[n]
    PROVE  \A j \in 0 .. k : Resolve(t, j)' = Resolve(t, j)
<1>1. ASSUME NEW j \in 0 .. (k - 1), NEW p \in {Resolve(t, j)}
      PROVE  Below(t, p)' = Below(t, p)
  <2>1. Follow(p)' = Follow(p)
    BY DEF Follow, Away
  <2>2. PICK q : q = Follow(p)
    OBVIOUS
  <2>3. CASE q = Away
    BY <2>1, <2>2, <2>3 DEF Below, Away
  <2>4. CASE q # Away
    <3>1. j \in 0 .. (Depth + 2) /\ j + 1 <= k /\ j \in Nat
      BY DepthAssumption
    <3>2. p # Away
      BY <2>2, <2>4 DEF Follow
    <3>3. q[1] = j
      BY <2>2, <2>4, <3>1, <3>2, ResolveLevel, FollowFact
    <3>4. Entries(t, q)' = Entries(t, q)
      <4>1. \A n \in Node : n[1] = q[1] + 1 => parent'[n] = parent[n]
        BY <3>1, <3>3
      <4>q. QED BY <4>1 DEF Entries, ChildrenAt, Root, Beside
    <3>q. QED BY <2>1, <2>2, <3>4, BelowSame
  <2>q. QED BY <2>3, <2>4
<1>q. QED BY <1>1, ResolveSame

-----------------------------------------------------------------------------
(* The other user. *)

(* Rights depend on the descriptor alone. *)
LEMMA MaySame ==
    ASSUME NEW CONSTANT n, descriptor'[n] = descriptor[n], NEW CONSTANT who, NEW CONSTANT right
    PROVE  May(who, n, right)' <=> May(who, n, right)
  BY DEF May

LEMMA SealedSame ==
    ASSUME NEW CONSTANT n, descriptor'[n] = descriptor[n]
    PROVE  (Sealed(n)' <=> Sealed(n)) /\ (Exclusive(n)' <=> Exclusive(n))
<1>1. \A who, right : May(who, n, right)' <=> May(who, n, right)
  BY MaySame
<1>q. QED BY <1>1 DEF Sealed, Exclusive

LEMMA OtherKeepsTree ==
    ASSUME Tree, OtherUser
    PROVE  Tree'
<1> USE NodeKinds
<1>0. descriptor' = descriptor
  BY DEF OtherUser, MoveAway, PutInPlace, SetReparse
<1>1. \A who, n, right : May(who, n, right)' <=> May(who, n, right)
  BY <1>0, MaySame
<1>2. ASSUME NEW n \in Node, MoveAway(n) PROVE Tree'
  <2>1. parent' = [parent EXCEPT ![n] = Away] /\ link' = link
    BY <1>2 DEF MoveAway
  <2>2. parent' \in [Node -> Node \cup {Away, Unborn}]
    BY <2>1 DEF Tree
  <2>3. \A a, b \in Node :
          /\ a[1] = b[1] /\ (a = Beside <=> b = Beside)
          /\ parent'[a] = parent'[b] /\ parent'[a] \in Node
          => a = b
    BY <2>1 DEF Tree
  <2>q. QED BY <1>0, <1>1, <2>1, <2>2, <2>3 DEF Tree, Beside
<1>3. ASSUME NEW n \in Node, NEW p \in Node, PutInPlace(n, p) PROVE Tree'
  <2>1. /\ parent' = [parent EXCEPT ![n] = p] /\ link' = link
        /\ n[1] = p[1] + 1 /\ \A m \in ChildrenAt(p) : m = Beside <=> n # Beside
    BY <1>3 DEF PutInPlace
  <2>2. parent' \in [Node -> Node \cup {Away, Unborn}]
    BY <2>1 DEF Tree
  <2>3. \A a \in Node : a[1] = n[1] /\ parent[a] = p => (a = Beside <=> n # Beside)
    BY <2>1 DEF ChildrenAt
  <2>4. \A a, b \in Node :
          /\ a[1] = b[1] /\ (a = Beside <=> b = Beside)
          /\ parent'[a] = parent'[b] /\ parent'[a] \in Node
          => a = b
    BY <2>1, <2>3 DEF Tree
  <2>q. QED BY <1>0, <1>1, <2>1, <2>2, <2>4 DEF Tree, Beside
<1>4. ASSUME NEW n \in Node, NEW m \in Node, SetReparse(n, m) PROVE Tree'
  <2>1. /\ parent' = parent /\ link' = [link EXCEPT ![n] = m] /\ m[1] = n[1]
        /\ May("other", n, "write")
    BY <1>4 DEF SetReparse
  <2>q. QED BY <1>0, <1>1, <2>1 DEF Tree, Beside
<1>q. QED BY <1>2, <1>3, <1>4 DEF OtherUser

(* What is sealed stays in its place, and what is held below it. *)
LEMMA OtherKeepsPath ==
    ASSUME Tree, OtherUser, NEW CONSTANT t \in Path, NEW CONSTANT k \in 0 .. (Depth + 2),
           \A j \in 0 .. k : Resolve(t, j) # Away,
           \A j \in 0 .. (k - 1) : Sealed(Resolve(t, j)),
           Resolve(t, k) \in held \/ Sealed(Resolve(t, k))
    PROVE  \A j \in 0 .. k : Resolve(t, j)' = Resolve(t, j)
<1>1. ASSUME NEW j \in 0 .. (k - 1), NEW p \in {Resolve(t, j)}
      PROVE  Below(t, p)' = Below(t, p)
  <2>1. j \in 0 .. (Depth + 1) /\ j \in 0 .. k /\ j + 1 \in 0 .. k /\ (j + 1 # k => j + 1 \in 0 .. (k - 1))
    BY DepthAssumption
  <2>2. PICK c : c = Resolve(t, j + 1)
    OBVIOUS
  <2>3. p \in Node /\ c \in Node /\ link[p] = p /\ Follow(p) = p /\ parent[c] = p /\ Entries(t, p) = {c}
    BY <2>1, <2>2, ResolveStep
  <2>4. c \in held \/ Sealed(c)
    BY <2>1, <2>2
  <2>5. \A right \in {"delete", "delete_child", "write"} :
          ~May("other", p, right) /\ (c \in held \/ ~May("other", c, right))
    BY <2>4 DEF Sealed, RETAINED_PATH_MUTATION_ACCESS
  <2>6. \A n \in Node : MoveAway(n) => n # c
    BY <2>3, <2>5 DEF MoveAway
  <2>7. link'[p] = p
    <3>1. \A n, m \in Node : SetReparse(n, m) => n # p
      BY <2>5 DEF SetReparse
    <3>2. (\E n, m \in Node : SetReparse(n, m)) => link'[p] = p
      BY <2>3, <3>1 DEF SetReparse, Tree
    <3>q. QED BY <2>3, <3>2 DEF OtherUser, MoveAway, PutInPlace
  <2>8. Follow(p)' = p
    BY <2>3, <2>7, NodeKinds DEF Follow, Away
  <2>9. Entries(t, p)' = {c}
    <3>1. \A m \in Node :
            /\ m \in Entries(t, p)  <=> m[1] = p[1] + 1 /\ parent[m] = p /\ (p = Root => (m = Beside <=> t = "beside"))
            /\ m \in Entries(t, p)' <=> m[1] = p[1] + 1 /\ parent'[m] = p /\ (p = Root => (m = Beside <=> t = "beside"))
      BY DEF Entries, ChildrenAt, Root, Beside
    <3>2. \A m : m \in Entries(t, p)' => m \in Node
      BY DEF Entries, ChildrenAt, Node, Root, Private, Temporary, Decoy
    <3>3. ASSUME NEW n \in Node, MoveAway(n), NEW m \in Node
          PROVE  m \in Entries(t, p)' <=> m = c
      <4>1. parent' = [parent EXCEPT ![n] = Away] /\ n # c /\ Away # p
        BY <3>3, <2>6, <2>3, NodeKinds DEF MoveAway
      <4>q. QED BY <2>3, <3>1, <4>1 DEF Tree
    <3>4. ASSUME NEW n \in Node, NEW q \in Node, PutInPlace(n, q), NEW m \in Node
          PROVE  m \in Entries(t, p)' <=> m = c
      <4>1. /\ parent' = [parent EXCEPT ![n] = q] /\ parent[n] = Away /\ Away # p /\ n # c
            /\ n[1] = q[1] + 1 /\ \A a \in ChildrenAt(q) : a = Beside <=> n # Beside
        BY <3>4, <2>3, NodeKinds DEF PutInPlace
      <4>2. CASE q = p
        <5>1. c \in ChildrenAt(p) /\ c[1] = p[1] + 1 /\ (p = Root => (c = Beside <=> t = "beside"))
          BY <2>3 DEF Entries, ChildrenAt
        <5>2. c = Beside <=> n # Beside
          BY <4>1, <4>2, <5>1
        <5>3. p = Root
          <6>1. c = Beside \/ n = Beside
            BY <5>2
          <6>2. p[1] + 1 = 1
            BY <4>1, <4>2, <5>1, <6>1, NodeKinds
          <6>3. p[1] = 0
            BY <6>2, <2>3, NodeKinds, DepthAssumption
          <6>q. QED BY <6>3, <2>3, NodeKinds
        <5>4. ~(n = Beside <=> t = "beside")
          BY <5>1, <5>2, <5>3
        <5>q. QED BY <2>3, <3>1, <4>1, <5>3, <5>4 DEF Tree
      <4>3. CASE q # p
        BY <2>3, <3>1, <4>1, <4>3 DEF Tree
      <4>q. QED BY <4>2, <4>3
    <3>5. ASSUME NEW n \in Node, NEW q \in Node, SetReparse(n, q), NEW m \in Node
          PROVE  m \in Entries(t, p)' <=> m = c
      BY <2>3, <3>1, <3>5 DEF SetReparse
    <3>6. \A m \in Node : m \in Entries(t, p)' <=> m = c
      BY <3>3, <3>4, <3>5 DEF OtherUser
    <3>q. QED BY <2>3, <3>2, <3>6
  <2>q. QED BY <2>3, <2>8, <2>9, BelowSame
<1>q. QED BY <1>1, ResolveSame

-----------------------------------------------------------------------------
(* Where the runner takes no step. *)

Waits == UNCHANGED <<progress, phase, handle, held>> /\ (OtherUser \/ UNCHANGED tree)

LEMMA DriveFact ==
    ASSUME Candidacy, phase # "failed"
    PROVE  Drive \in 0 .. Depth /\ Head(candidates) \in CandidateDirectory /\ top \in Path
<1>1. Head(candidates) \in CandidateDirectory
  BY HeadTailProperties DEF Candidacy
<1>2. \A c \in CandidateDirectory : c.drive \in 0 .. Depth
  BY CandidatesAssumption DEF CandidateDirectory
<1>q. QED BY <1>1, <1>2 DEF Drive, Candidacy

(* What is retained, is retained from the top. *)
LEMMA RetainedAbove ==
    ASSUME Candidacy, phase # "failed", NEW k \in 0 .. (Depth + 2), Retained(k), NEW j \in 0 .. k
    PROVE  Retained(j)
  BY DriveFact, DepthAssumption DEF Retained, Drive

LEMMA WaitKeepsPath ==
    ASSUME Tree, Waits, NEW CONSTANT t \in Path, NEW CONSTANT k \in 0 .. (Depth + 2),
           \A j \in 0 .. k : Resolve(t, j) # Away,
           \A j \in 0 .. (k - 1) : Sealed(Resolve(t, j)),
           Resolve(t, k) \in held \/ Sealed(Resolve(t, k))
    PROVE  Resolve(t, k)' = Resolve(t, k)
<1>0. k \in 0 .. k
  BY DepthAssumption
<1>1. CASE OtherUser
  <2>1. \A j \in 0 .. k : Resolve(t, j)' = Resolve(t, j)
    BY <1>1, OtherKeepsPath
  <2>q. QED BY <1>0, <2>1
<1>2. CASE UNCHANGED tree
  <2>1. UNCHANGED link /\ \A n \in Node : n[1] <= k => parent'[n] = parent[n]
    BY <1>2 DEF tree
  <2>2. \A j \in 0 .. k : Resolve(t, j)' = Resolve(t, j)
    BY <2>1, DeepChanges
  <2>q. QED BY <1>0, <2>2
<1>q. QED BY <1>1, <1>2 DEF Waits

(* The runner's own variables, and the access rules, stay. *)
LEMMA WaitKeepsRest ==
    ASSUME Waits
    PROVE  /\ UNCHANGED <<candidates, phase, walk, handle, alias, top, inner, held, chain>>
           /\ UNCHANGED descriptor
           /\ \A n : (Sealed(n)' <=> Sealed(n)) /\ (Exclusive(n)' <=> Exclusive(n))
           /\ \A k : Retained(k)' <=> Retained(k)
<1>1. /\ UNCHANGED <<candidates, phase, walk, handle, alias, top, inner, held, chain>>
      /\ UNCHANGED descriptor
  BY DEF Waits, progress, tree, OtherUser, MoveAway, PutInPlace, SetReparse
<1>2. \A n : (Sealed(n)' <=> Sealed(n)) /\ (Exclusive(n)' <=> Exclusive(n))
  BY <1>1, SealedSame
<1>q. QED BY <1>1, <1>2 DEF Retained

(* What is retained keeps its name, and is kept. *)
LEMMA WaitKeepsKept ==
    ASSUME Tree, Candidacy, phase # "failed", Waits,
           NEW CONSTANT k \in -1 .. (Depth + 1), Kept(k)
    PROVE  /\ Kept(k)'
           /\ \A j \in 0 .. k : Retained(j) => Resolve(top, j)' = Resolve(top, j)
<1>1. PICK t : t = top
  OBVIOUS
<1>2. t \in Path /\ top' = t
  BY <1>1, DriveFact, WaitKeepsRest
<1>3. ASSUME NEW j \in 0 .. k, Retained(j)
      PROVE  Resolve(t, j)' = Resolve(t, j)
  <2>1. j \in 0 .. (Depth + 2) /\ j \in 0 .. j /\ \A i \in 0 .. j : i \in 0 .. k
    BY DepthAssumption
  <2>2. \A i \in 0 .. j : Resolve(t, i) # Away /\ Sealed(Resolve(t, i))
    BY <1>1, <1>3, <2>1, RetainedAbove DEF Kept
  <2>3. \A i \in 0 .. (j - 1) : i \in 0 .. j
    BY DepthAssumption
  <2>q. QED BY <1>2, <2>1, <2>2, <2>3, WaitKeepsPath
<1>4. \A j \in 0 .. k : Retained(j) => Resolve(top, j)' = Resolve(top, j)
  BY <1>1, <1>2, <1>3
<1>5. ASSUME NEW j \in 0 .. k, Retained(j)'
      PROVE  /\ Resolve(t, j)' # Away' /\ Sealed(Resolve(t, j))'
             /\ phase' # "closed" => Resolve(t, j)' \in held'
  <2>1. PICK n : n = Resolve(t, j)
    OBVIOUS
  <2>2. n # Away /\ Sealed(n) /\ (phase # "closed" => n \in held) /\ Resolve(t, j)' = n
    BY <1>1, <1>3, <1>5, <2>1, WaitKeepsRest DEF Kept
  <2>3. Sealed(n)' /\ UNCHANGED <<phase, held>>
    BY <2>2, WaitKeepsRest
  <2>q. QED BY <2>2, <2>3 DEF Away, Sealed
<1>6. Kept(k)'
  BY <1>2, <1>5 DEF Kept
<1>q. QED BY <1>4, <1>6

LEMMA WaitKeepsOpen ==
    ASSUME Tree, Candidacy, phase # "failed", Waits,
           NEW CONSTANT k \in 0 .. (Depth + 2), Kept(k - 1), NEW CONSTANT n, OpenAt(n, k)
    PROVE  OpenAt(n, k)'
<1>1. PICK t : t = top
  OBVIOUS
<1>2. t \in Path /\ top' = t
  BY <1>1, DriveFact, WaitKeepsRest
<1>3. ASSUME Retained(k) PROVE Resolve(t, k)' = n
  <2>1. n = Resolve(t, k) /\ n # Away /\ n \in held
    BY <1>1, <1>3, NodeKinds DEF OpenAt
  <2>2. ASSUME NEW j \in 0 .. (k - 1) PROVE Resolve(t, j) # Away /\ Sealed(Resolve(t, j))
    <3>1. j \in 0 .. k
      BY DepthAssumption
    <3>q. QED BY <1>1, <1>3, <2>2, <3>1, RetainedAbove DEF Kept
  <2>3. \A j \in 0 .. k : j = k \/ j \in 0 .. (k - 1)
    BY DepthAssumption
  <2>q. QED BY <1>2, <2>1, <2>2, <2>3, WaitKeepsPath
<1>q. QED BY <1>2, <1>3, WaitKeepsRest DEF OpenAt, Node, Root, Private, Temporary, Decoy

LEMMA WaitKeepsTree ==
    ASSUME Tree, Waits
    PROVE  Tree'
<1>1. CASE OtherUser
  BY <1>1, OtherKeepsTree
<1>2. CASE UNCHANGED tree
  <2>1. parent' = parent /\ link' = link /\ descriptor' = descriptor
    BY <1>2 DEF tree
  <2>2. \A who, n, right : May(who, n, right)' <=> May(who, n, right)
    BY <2>1, MaySame
  <2>q. QED BY <2>1, <2>2 DEF Tree, Node, Root, Private, Temporary, Decoy, Beside, Away, Unborn
<1>q. QED BY <1>1, <1>2 DEF Waits

(* The first component left is that of the next level. *)
LEMMA WalkFact ==
    ASSUME Candidacy, Rest, walk # <<>>
    PROVE  /\ NextLevel \in 0 .. Depth /\ Len(walk) \in 1 .. (Depth + 1)
           /\ walk[1].level = NextLevel /\ walk[1] \in ComponentSet
           /\ walk[1].kind \in KindAt(NextLevel)
<1>1. walk \in Seq(ComponentSet) /\ Len(walk) \in Nat /\ Depth \in Nat
  BY LenProperties, DepthAssumption DEF Candidacy
<1>2. Len(walk) # 0
  BY <1>1, EmptySeq
<1>3. 1 \in 1 .. Len(walk) /\ Len(walk) \in 1 .. (Depth + 1)
  BY <1>1, <1>2 DEF Rest
<1>4. NextLevel \in 0 .. Depth
  BY <1>3, <1>1 DEF NextLevel
<1>5. walk[1].level = NextLevel + 1 - 1 /\ walk[1].kind \in KindAt(walk[1].level)
  BY <1>3 DEF Rest
<1>6. walk[1] \in ComponentSet
  BY <1>1, <1>3, ElementOfSeq
<1>7. walk[1].level = NextLevel
  BY <1>4, <1>5
<1>q. QED BY <1>3, <1>4, <1>5, <1>6, <1>7

LEMMA WaitKeepsProgress ==
    ASSUME Inv, Waits
    PROVE  Progress'
<1>1. /\ UNCHANGED <<candidates, phase, walk, handle, alias, top, inner, held, chain>>
      /\ \A n : (Sealed(n)' <=> Sealed(n)) /\ (Exclusive(n)' <=> Exclusive(n))
      /\ \A k : Retained(k)' <=> Retained(k)
      /\ Tree /\ Progress /\ Candidacy
  BY WaitKeepsRest DEF Inv
<1>2. CASE phase = "failed"
  BY <1>1, <1>2 DEF Progress, Admitted, Phase
<1> SUFFICES ASSUME phase # "failed" PROVE Progress'
  BY <1>2
<1>3. Drive \in 0 .. Depth /\ Drive' = Drive /\ Depth \in Nat
  BY <1>1, DriveFact, DepthAssumption DEF Drive
<1>4. Retained(Drive)
  BY <1>3 DEF Retained, Drive
<1>5. AtRoot => AtRoot'
  BY <1>1, <1>3 DEF AtRoot, Drive, Root
<1>6. walk # <<>> /\ OnPath => OnPath'
  <2> SUFFICES ASSUME walk # <<>>, OnPath PROVE OnPath'
    OBVIOUS
  <2>1. PICK L : L = NextLevel
    OBVIOUS
  <2>2. L \in 0 .. Depth /\ NextLevel' = L
    BY <1>1, <2>1, WalkFact DEF NextLevel, OnPath
  <2>3. Rest'
    BY <1>1 DEF OnPath, Rest, NextLevel, KindAt, Drive
  <2>4. L - 1 \in -1 .. (Depth + 1) /\ L \in 0 .. (Depth + 2) /\ Kept(L - 1)
    BY <1>3, <2>1, <2>2 DEF OnPath
  <2>5. Kept(L - 1)' /\ \A j \in 0 .. (L - 1) : Retained(j) => Resolve(top, j)' = Resolve(top, j)
    BY <1>1, <2>4, WaitKeepsKept
  <2>6. L > Drive => alias = Resolve(top, Drive)' /\ alias' = alias
    <3>1. L > Drive => Drive \in 0 .. (L - 1)
      BY <1>3, <2>2
    <3>2. PICK d : d = Drive
      OBVIOUS
    <3>3. L > d => Resolve(top, d)' = Resolve(top, d)
      BY <1>4, <2>5, <3>1, <3>2
    <3>q. QED BY <1>1, <1>3, <2>1, <3>2, <3>3 DEF OnPath
  <2>7. phase = "verify" => OpenAt(handle, L)'
    <3>1. PICK n : n = handle
      OBVIOUS
    <3>2. phase = "verify" => OpenAt(n, L)'
      BY <1>1, <2>1, <2>4, <3>1, WaitKeepsOpen DEF OnPath
    <3>q. QED BY <1>1, <3>1, <3>2 DEF OpenAt
  <2>q. QED BY <1>1, <1>3, <2>1, <2>2, <2>3, <2>5, <2>6, <2>7 DEF OnPath, Kept, OpenAt
<1>7. AtPrivate => AtPrivate'
  <2> SUFFICES ASSUME AtPrivate PROVE AtPrivate'
    OBVIOUS
  <2>1. /\ Depth \in -1 .. (Depth + 1) /\ Depth + 1 \in 0 .. (Depth + 2)
        /\ (Depth + 1) - 1 = Depth /\ Drive \in 0 .. Depth
    BY <1>3
  <2>2. Kept(Depth)' /\ \A j \in 0 .. Depth : Retained(j) => Resolve(top, j)' = Resolve(top, j)
    BY <1>1, <2>1, WaitKeepsKept DEF AtPrivate
  <2>3. phase = "private_verify" => OpenAt(handle, Depth + 1)'
    <3>1. PICK n : n = handle
      OBVIOUS
    <3>2. phase = "private_verify" => OpenAt(n, Depth + 1)'
      BY <1>1, <2>1, <3>1, WaitKeepsOpen DEF AtPrivate
    <3>q. QED BY <1>1, <3>1, <3>2 DEF OpenAt
  <2>q. QED BY <1>1, <1>3, <1>4, <2>1, <2>2, <2>3 DEF AtPrivate
<1>8. PathAdmitted => PathAdmitted'
  <2> SUFFICES ASSUME PathAdmitted PROVE PathAdmitted'
    OBVIOUS
  <2>1. /\ Depth + 1 \in -1 .. (Depth + 1) /\ Depth + 1 \in 0 .. (Depth + 1)
        /\ Depth + 2 \in 0 .. (Depth + 2) /\ (Depth + 2) - 1 = Depth + 1
        /\ Drive \in 0 .. (Depth + 1)
    BY <1>3
  <2>2. /\ Kept(Depth + 1)'
        /\ \A j \in 0 .. (Depth + 1) : Retained(j) => Resolve(top, j)' = Resolve(top, j)
    BY <1>1, <2>1, WaitKeepsKept DEF PathAdmitted, PathKept
  <2>3. chain' = [k \in {j \in 0 .. (Depth + 1) : Retained(j)'} |-> Resolve(top, k)']
    BY <1>1, <2>2 DEF PathAdmitted, PathKept
  <2>4. alias' = Resolve(top, Drive)' /\ (Retained(Depth + 1)' => inner'[1] = Resolve(top, Depth + 1)')
    <3>1. PICK d : d = Drive
      OBVIOUS
    <3>2. Resolve(top, d)' = Resolve(top, d)
      BY <1>4, <2>1, <2>2, <3>1
    <3>q. QED BY <1>1, <1>3, <2>1, <2>2, <3>1, <3>2 DEF PathAdmitted, PathKept
  <2>5. inner'[1] \in Node /\ inner'[1][1] = Depth + 1 /\ Exclusive(inner[1])'
    BY <1>1 DEF PathAdmitted, PathKept, Exclusive
  <2>6. phase \in {"secure", "harden_verify", "ready"} => OpenAt(inner[2], Depth + 2)'
    <3>1. PICK n : n = inner[2]
      OBVIOUS
    <3>2. phase \in {"secure", "harden_verify", "ready"} => OpenAt(n, Depth + 2)'
      BY <1>1, <2>1, <3>1, WaitKeepsOpen DEF PathAdmitted, PathKept
    <3>q. QED BY <1>1, <3>1, <3>2 DEF OpenAt
  <2>7. phase \in {"harden_verify", "ready"} => Exclusive(inner[2])'
    <3>1. PICK n : n = inner[2]
      OBVIOUS
    <3>2. phase \in {"harden_verify", "ready"} => Exclusive(n)'
      BY <1>1, <3>1 DEF PathAdmitted, PathKept
    <3>q. QED BY <1>1, <3>1, <3>2 DEF Exclusive
  <2>8. /\ phase' \in {"temporary", "harden"} => inner' = <<inner'[1]>>
        /\ phase' \in {"secure", "harden_verify"} => handle' = inner'[2]
    BY <1>1 DEF PathAdmitted, PathKept
  <2>q. QED BY <1>1, <1>3, <2>2, <2>3, <2>4, <2>5, <2>6, <2>7, <2>8
            DEF PathAdmitted, PathKept, Node, Root, Private, Temporary, Decoy
<1>q. QED BY <1>1, <1>5, <1>6, <1>7, <1>8 DEF Progress, Admitted, Phase

LEMMA WaitHolds ==
    ASSUME Inv, Waits
    PROVE  Inv'
<1>1. Tree' /\ Progress'
  BY WaitKeepsTree, WaitKeepsProgress DEF Inv
<1>2. Candidacy'
  BY WaitKeepsRest DEF Inv, Candidacy, ComponentSet, CandidateDirectory, Path
<1>q. QED BY <1>1, <1>2 DEF Inv

-----------------------------------------------------------------------------
(* The components of a candidate. *)

LEMMA HeadIsFirst == ASSUME NEW s PROVE Head(s) = s[1]
  BY SMT

(* The first of them is the root of the drive, the others are below it. *)
LEMMA GuardFact ==
    ASSUME NEW c, c.drive \in 0 .. Depth
    PROVE  LET w == guard_directory_ancestry(c) IN
           /\ w \in Seq(ComponentSet) /\ Len(w) = Depth + 1 - c.drive /\ w # <<>>
           /\ w[1] = [level |-> c.drive, role |-> "volume_root", kind |-> "root"]
           /\ \A i \in 2 .. Len(w) : w[i].level = c.drive + i - 1 /\ w[i].kind = "path"
<1> DEFINE s == <<Component(c.drive, "volume_root", "root")>>
           t == [i \in 1 .. (Depth - c.drive) |-> Component(c.drive + i, "directory", "path")]
<1>0. Depth \in Nat
  BY DepthAssumption
<1>1. s \in Seq(ComponentSet) /\ Len(s) = 1 /\ s[1] = Component(c.drive, "volume_root", "root")
  <2>1. Component(c.drive, "volume_root", "root") \in ComponentSet
    BY DEF Component, ComponentSet
  <2>q. QED BY <2>1
<1>2. t \in Seq(ComponentSet) /\ Len(t) = Depth - c.drive
  <2>1. Depth - c.drive \in Nat
    BY <1>0
  <2>2. \A i \in 1 .. (Depth - c.drive) : t[i] \in ComponentSet
    BY <1>0 DEF Component, ComponentSet
  <2> HIDE DEF t
  <2>3. t \in [1 .. (Depth - c.drive) -> ComponentSet]
    BY <2>2 DEF t
  <2>q. QED BY <2>1, <2>3
<1>3. \A i \in 1 .. Len(t) : t[i] = Component(c.drive + i, "directory", "path")
  BY <1>2
<1> HIDE DEF s, t
<1>4. /\ s \o t \in Seq(ComponentSet) /\ Len(s \o t) = 1 + Len(t)
      /\ \A i \in 1 .. (1 + Len(t)) : (s \o t)[i] = IF i <= 1 THEN s[i] ELSE t[i - 1]
  <2>1. /\ s \o t \in Seq(ComponentSet) /\ Len(s \o t) = Len(s) + Len(t)
        /\ \A i \in 1 .. Len(s) + Len(t) :
              (s \o t)[i] = IF i <= Len(s) THEN s[i] ELSE t[i - Len(s)]
    BY <1>1, <1>2, ConcatProperties
  <2>q. QED BY <1>1, <2>1
<1>5. Len(s \o t) = Depth + 1 - c.drive /\ s \o t # <<>>
  BY <1>0, <1>2, <1>4
<1>6. (s \o t)[1] = s[1]
  BY <1>0, <1>2, <1>4
<1>7. ASSUME NEW i \in 2 .. Len(s \o t)
      PROVE  (s \o t)[i].level = c.drive + i - 1 /\ (s \o t)[i].kind = "path"
  <2>1. i \in 1 .. (1 + Len(t)) /\ ~(i <= 1) /\ i - 1 \in 1 .. Len(t)
    BY <1>0, <1>2, <1>4
  <2>2. (s \o t)[i] = Component(c.drive + (i - 1), "directory", "path")
    BY <2>1, <1>3, <1>4
  <2>q. QED BY <2>2, <1>0 DEF Component
<1>8. guard_directory_ancestry(c) = s \o t
  BY DEF guard_directory_ancestry, s, t
<1>q. QED BY <1>1, <1>4, <1>5, <1>6, <1>7, <1>8 DEF Component

(* The parents of an aliased root come from the volume root down to it. *)
LEMMA RetainFact ==
    ASSUME NEW c, c.drive \in 0 .. Depth
    PROVE  LET w == retain_physical_root_ancestry(c) IN
           /\ w \in Seq(ComponentSet)
           /\ Len(w) = IF c.drive = 0 THEN 0 ELSE c.drive + 1
           /\ \A i \in 1 .. Len(w) :
                /\ w[i].level = i - 1
                /\ w[i].kind = IF i = c.drive + 1 THEN "target" ELSE "parent"
<1> DEFINE w == [i \in 1 .. (c.drive + 1) |->
                   Component(i - 1, IF i = 1 THEN "volume_root" ELSE "directory",
                             IF i = c.drive + 1 THEN "target" ELSE "parent")]
<1>0. Depth \in Nat
  BY DepthAssumption
<1>1. CASE c.drive = 0
  <2>1. retain_physical_root_ancestry(c) = <<>>
    BY <1>1 DEF retain_physical_root_ancestry
  <2>q. QED BY <1>1, <2>1
<1>2. CASE c.drive # 0
  <2>1. \A i \in 1 .. (c.drive + 1) :
          /\ w[i] \in ComponentSet /\ w[i].level = i - 1
          /\ w[i].kind = IF i = c.drive + 1 THEN "target" ELSE "parent"
    BY <1>0 DEF Component, ComponentSet
  <2>2. c.drive + 1 \in Nat
    BY <1>0
  <2>3. retain_physical_root_ancestry(c) = w
    BY <1>2 DEF retain_physical_root_ancestry
  <2>4. DOMAIN w = 1 .. (c.drive + 1) /\ w = [i \in 1 .. (c.drive + 1) |-> w[i]]
    OBVIOUS
  <2> HIDE DEF w
  <2>5. w \in [1 .. (c.drive + 1) -> ComponentSet]
    BY <2>1, <2>4
  <2>6. w \in Seq(ComponentSet) /\ Len(w) = c.drive + 1
    BY <2>2, <2>5
  <2>q. QED BY <1>2, <2>1, <2>3, <2>6
<1>q. QED BY <1>1, <1>2

-----------------------------------------------------------------------------
(* The steps of the runner. *)

LEMMA InitHolds == Init => Inv
<1> SUFFICES ASSUME Init PROVE Inv
  OBVIOUS
<1>0. Depth \in Nat /\ Depth # 0
  BY DepthAssumption
<1> DEFINE Special == {Root, Private(1), Private(2), Temporary, Decoy}
           Place(prior) == [n \in Node |->
                IF n = Private(2) THEN prior
                ELSE IF n \in {Root, Private(1), Temporary, Decoy} THEN Unborn
                ELSE IF n = <<1, 2>> THEN Away
                ELSE IF n[1] = 1 THEN Root ELSE <<n[1] - 1, n[2]>>]
<1>a. PICK q \in PriorDescriptor, prior \in {Away, <<Depth, 1>>} :
        /\ DOMAIN descriptor = Node
        /\ descriptor[Private(2)] = q /\ descriptor[Private(1)] = PrivateSecurity
        /\ parent = Place(prior)
  <2>1. Private(2) # Root /\ Private(1) # Root /\ Private(1) # Private(2)
    BY <1>0 DEF Private, Root
  <2>2. PICK v \in VolumeDescriptor, d \in [1 .. Depth -> DirectoryDescriptor],
             s \in StrayDescriptor, q \in PriorDescriptor, prior \in {Away, <<Depth, 1>>} :
        /\ descriptor = [n \in Node |->
                IF n = Root THEN v
                ELSE IF n = Private(2) THEN q
                ELSE IF n \in {Private(1), Temporary} THEN PrivateSecurity
                ELSE IF n = Decoy THEN s
                ELSE IF n[2] = 1 THEN d[n[1]] ELSE s]
        /\ parent = Place(prior)
    BY DEF Init
  <2>3. DOMAIN descriptor = Node
    BY <2>2
  <2>4. descriptor[Private(2)] = q /\ descriptor[Private(1)] = PrivateSecurity
    BY <2>1, <2>2, NodeKinds
  <2>q. QED BY <2>2, <2>3, <2>4
<1>2. \A n \in Node :
        n \in Special \/ (n[1] \in 1 .. Depth /\ n[2] \in {1, 2, 3} /\ n = <<n[1], n[2]>>)
  <2>1. \A n \in (1 .. Depth) \X {1, 2, 3} :
          n[1] \in 1 .. Depth /\ n[2] \in {1, 2, 3} /\ n = <<n[1], n[2]>>
    OBVIOUS
  <2>2. \A n \in Node : n \in Special \/ n \in (1 .. Depth) \X {1, 2, 3}
    BY DEF Node
  <2> HIDE DEF Special
  <2>q. QED BY <2>1, <2>2
<1>3. <<Depth, 1>> \in Node /\ \A k \in 2 .. Depth, v \in {1, 2, 3} : <<k - 1, v>> \in Node
  BY <1>0 DEF Node
<1>4. parent \in [Node -> Node \cup {Away, Unborn}]
  <2>1. ASSUME NEW n \in Node PROVE parent[n] \in Node \cup {Away, Unborn}
    <3>1. n[1] \in 1 .. Depth /\ n[2] \in {1, 2, 3} /\ n[1] # 1 => <<n[1] - 1, n[2]>> \in Node
      <4>1. n[1] \in 1 .. Depth /\ n[1] # 1 => n[1] \in 2 .. Depth
        BY <1>0
      <4>q. QED BY <1>3, <4>1
    <3>2. n \notin Special /\ n[1] # 1 /\ n # <<1, 2>> => parent[n] \in Node
      BY <1>a, <1>2, <3>1
    <3>3. n \in Special \/ n[1] = 1 \/ n = <<1, 2>> => parent[n] \in {prior, Unborn, Away, Root}
      BY <1>a
    <3>4. prior \in Node \cup {Away} /\ Root \in Node
      BY <1>3, NodeKinds
    <3>q. QED BY <3>2, <3>3, <3>4
  <2>q. QED BY <1>a, <2>1
<1>5. ASSUME NEW m \in Node, NEW n \in Node, m[1] = n[1], m = Beside <=> n = Beside,
             parent[m] = parent[n], parent[m] \in Node
      PROVE  m = n
  <2>1. parent[m] # Away /\ parent[m] # Unborn
    BY <1>5, NodeKinds
  <2>2. CASE m[1] = Depth + 1
    <3>1. parent[Private(1)] = Unborn
      BY <1>a, NodeKinds
    <3>q. QED BY <1>5, <2>1, <2>2, <3>1, NodeKinds
  <2>3. CASE m[1] = Depth + 2
    <3>1. Temporary # Private(2) /\ Decoy # Private(2)
      BY <1>0 DEF Temporary, Decoy, Private
    <3>2. parent[Temporary] = Unborn /\ parent[Decoy] = Unborn
      BY <1>a, <3>1, NodeKinds
    <3>q. QED BY <2>1, <2>3, <3>2, NodeKinds
  <2>4. CASE m[1] = 0
    BY <1>5, <2>4, NodeKinds
  <2>5. CASE m[1] \in 1 .. Depth
    <3>1. m \notin Special /\ n \notin Special
      BY <1>0, <1>5, <2>5 DEF Root, Private, Temporary, Decoy
    <3>2. /\ m[2] \in {1, 2, 3} /\ n[2] \in {1, 2, 3} /\ m = <<m[1], m[2]>> /\ n = <<n[1], n[2]>>
      BY <1>2, <3>1
    <3>3. CASE m[1] = 1
      <4>1. m # <<1, 2>> /\ n # <<1, 2>>
        BY <1>a, <1>5, <2>1, <3>1, <3>2, <3>3
      <4>2. m \in {<<1, 1>>, <<1, 3>>} /\ n \in {<<1, 1>>, <<1, 3>>}
        BY <1>5, <3>2, <3>3, <4>1
      <4>q. QED BY <1>5, <4>2 DEF Beside
    <3>4. CASE m[1] # 1
      <4>1. parent[m] = <<m[1] - 1, m[2]>> /\ parent[n] = <<n[1] - 1, n[2]>>
        BY <1>a, <1>5, <3>1, <3>2, <3>4
      <4>2. <<m[1] - 1, m[2]>> = <<n[1] - 1, n[2]>>
        BY <1>5, <4>1
      <4>3. m[2] = n[2]
        BY <4>2
      <4>q. QED BY <1>5, <3>2, <4>3
    <3>q. QED BY <3>3, <3>4
  <2>q. QED BY <2>2, <2>3, <2>4, <2>5, NodeKinds, <1>0
<1>6. Tree
  <2>1. \A v \in {1, 2} : DOMAIN descriptor[Private(v)].acl = 1 .. Len(descriptor[Private(v)].acl)
    BY <1>a, PrivateSecurityFact, PriorAssumption
  <2>2. link \in [Node -> Node] /\ \A n \in Node : link[n] = n
    BY DEF Init
  <2>q. QED BY <1>a, <1>4, <1>5, <2>1, <2>2 DEF Tree
<1>7. Candidacy
  <2>1. <<>> \in Seq(ComponentSet)
    OBVIOUS
  <2>q. QED BY <2>1, CandidatesAssumption DEF Init, Candidacy, CandidateDirectory, Path
<1>8. Progress
  BY DEF Init, Progress, Phase, Admitted
<1>q. QED BY <1>6, <1>7, <1>8 DEF Inv

(* Where the runner touches no directory, every name and right stays. *)
LEMMA SameTree ==
    ASSUME Tree, UNCHANGED tree
    PROVE  /\ Tree'
           /\ \A t \in Path : \A j \in 0 .. (Depth + 2) : Resolve(t, j)' = Resolve(t, j)
           /\ \A n : (Sealed(n)' <=> Sealed(n)) /\ (Exclusive(n)' <=> Exclusive(n))
<1>1. parent' = parent /\ link' = link /\ descriptor' = descriptor
  BY DEF tree
<1>2. \A who, n, right : May(who, n, right)' <=> May(who, n, right)
  BY <1>1, MaySame
<1>3. Tree'
  BY <1>1, <1>2 DEF Tree, Node, Root, Private, Temporary, Decoy, Beside, Away, Unborn
<1>4. ASSUME NEW t \in Path
      PROVE  \A j \in 0 .. (Depth + 2) : Resolve(t, j)' = Resolve(t, j)
  <2>1. Depth + 2 \in 0 .. (Depth + 2)
    BY DepthAssumption
  <2>q. QED BY <1>1, <2>1, DeepChanges
<1>5. \A n : (Sealed(n)' <=> Sealed(n)) /\ (Exclusive(n)' <=> Exclusive(n))
  BY <1>1, SealedSame
<1>q. QED BY <1>3, <1>4, <1>5

(* What is kept stays so where the runner changes directories below only.  *)
LEMMA KeptStep ==
    ASSUME Tree, Candidacy, phase # "failed",
           NEW CONSTANT k \in -1 .. (Depth + 1), Kept(k),
           UNCHANGED <<link, top, candidates>>,
           \A n \in Node : n[1] <= k => parent'[n] = parent[n] /\ descriptor'[n] = descriptor[n],
           phase' # "closed" => phase # "closed" /\ held \subseteq held'
    PROVE  Kept(k)' /\ \A j \in 0 .. k : Resolve(top, j)' = Resolve(top, j)
<1>0. Depth \in Nat
  BY DepthAssumption
<1>1. PICK t : t = top
  OBVIOUS
<1>2. t \in Path /\ top' = t
  BY <1>1, DriveFact
<1>3. \A j \in 0 .. k : Resolve(t, j)' = Resolve(t, j)
  <2>1. CASE k = -1
    BY <2>1
  <2>2. CASE k # -1
    <3>1. k \in 0 .. (Depth + 2)
      BY <1>0, <2>2
    <3>q. QED BY <1>2, <3>1, DeepChanges
  <2>q. QED BY <2>1, <2>2
<1>4. ASSUME NEW j \in 0 .. k, Retained(j)'
      PROVE  /\ Resolve(t, j)' # Away' /\ Sealed(Resolve(t, j))'
             /\ phase' # "closed" => Resolve(t, j)' \in held'
  <2>1. PICK n : n = Resolve(t, j)
    OBVIOUS
  <2>2. Retained(j)
    BY <1>4 DEF Retained
  <2>3. n # Away /\ Sealed(n) /\ (phase # "closed" => n \in held)
    BY <1>1, <2>1, <2>2 DEF Kept
  <2>4. j \in 0 .. (Depth + 2) /\ j <= k
    BY <1>0
  <2>5. n \in Node /\ n[1] = j
    BY <1>2, <2>1, <2>3, <2>4, ResolveLevel
  <2>6. Sealed(n)'
    BY <2>3, <2>4, <2>5, SealedSame
  <2>7. Resolve(t, j)' = n
    BY <1>3, <2>1
  <2>q. QED BY <2>3, <2>6, <2>7 DEF Away, Sealed
<1>5. Kept(k)'
  BY <1>2, <1>4 DEF Kept
<1>6. \A j \in 0 .. k : Resolve(top, j)' = Resolve(top, j)
  BY <1>1, <1>2, <1>3
<1>q. QED BY <1>5, <1>6

LEMMA RejectHolds ==
    ASSUME Inv, phase # "failed", Reject
    PROVE  Inv'
<1>1. Tree'
  BY SameTree DEF Inv, Reject
<1>2. Candidacy'
  <2>1. candidates \in Seq(CandidateDirectory) /\ candidates # <<>>
    BY DEF Inv, Candidacy
  <2>2. Tail(candidates) \in Seq(CandidateDirectory) /\ Len(Tail(candidates)) = Len(candidates) - 1
    BY <2>1, HeadTailProperties
  <2>3. Len(candidates) # 1 => Tail(candidates) # <<>>
    <3>1. Len(candidates) \in Nat
      BY <2>1, LenProperties
    <3>2. Tail(candidates) = <<>> => Len(Tail(candidates)) = 0
      <4>1. Len(<<>>) = 0
        OBVIOUS
      <4>q. QED BY <4>1
    <3>q. QED BY <2>2, <3>1, <3>2
  <2>q. QED BY <2>2, <2>3 DEF Reject, Candidacy, Path
<1>3. Progress'
  BY DEF Reject, Progress, Phase, Admitted
<1>q. QED BY <1>1, <1>2, <1>3 DEF Inv

LEMMA CandidateHolds ==
    ASSUME Inv, Candidate
    PROVE  Inv'
<1> DEFINE c == Head(candidates)
<1>1. CASE Reject
  BY <1>1, RejectHolds DEF Candidate
<1>2. CASE ~Reject
  <2>1. /\ phase' = "probe" /\ walk' = guard_directory_ancestry(c)
        /\ UNCHANGED <<tree, candidates, handle, alias, top, held, inner, chain>>
        /\ phase = "candidate"
    BY <1>2 DEF Candidate
  <2>2. candidates # <<>> /\ c.drive \in 0 .. Depth
    BY <2>1, DriveFact DEF Inv, Candidacy, Drive
  <2>3. /\ walk' \in Seq(ComponentSet) /\ walk' # <<>> /\ Head(walk').kind = "root"
    <3>1. PICK w : w = guard_directory_ancestry(c)
      OBVIOUS
    <3>2. /\ w \in Seq(ComponentSet) /\ w # <<>>
          /\ w[1] = [level |-> c.drive, role |-> "volume_root", kind |-> "root"]
      BY <2>2, <3>1, GuardFact, Zenon
    <3>3. Head(w) = w[1]
      BY HeadIsFirst
    <3>4. w[1].kind = "root"
      BY <3>2
    <3>q. QED BY <2>1, <3>1, <3>2, <3>3, <3>4
  <2>4. Tree' /\ Candidacy'
    BY <2>1, <2>3, SameTree DEF Inv, Candidacy
  <2>5. AtRoot'
    BY <2>1 DEF AtRoot, Inv, Progress
  <2>q. QED BY <2>1, <2>3, <2>4, <2>5 DEF Inv, Progress, Phase, Admitted
<1>q. QED BY <1>1, <1>2

(* The part of the path that was admitted, where no directory changes.     *)
LEMMA PathSame ==
    ASSUME Tree, Candidacy, phase \in {"probe", "open"}, OnPath, walk # <<>>,
           UNCHANGED <<tree, candidates, walk, alias, top>>, held \subseteq held',
           phase' \in {"open", "verify"}
    PROVE  /\ NextLevel \in 0 .. Depth /\ NextLevel' = NextLevel
           /\ phase' = "verify" => OpenAt(handle, NextLevel)'
           => OnPath'
<1> SUFFICES ASSUME NextLevel \in 0 .. Depth /\ NextLevel' = NextLevel,
                    phase' = "verify" => OpenAt(handle, NextLevel)'
             PROVE  OnPath'
  OBVIOUS
<1>1. PICK L : L = NextLevel
  OBVIOUS
<1>2. L \in 0 .. Depth /\ NextLevel' = L /\ Depth \in Nat
  BY <1>1, DepthAssumption
<1>3. Rest'
  BY DEF OnPath, Rest, NextLevel, KindAt, Drive
<1>4. L - 1 \in -1 .. (Depth + 1) /\ Kept(L - 1)
  BY <1>1, <1>2 DEF OnPath
<1>5. Kept(L - 1)'
  <2>1. \A n \in Node : n[1] <= L - 1 => parent'[n] = parent[n] /\ descriptor'[n] = descriptor[n]
    BY DEF tree
  <2>q. QED BY <1>4, <2>1, KeptStep DEF tree
<1>6. L > Drive => alias' = Resolve(top, Drive)'
  <2>1. PICK d, t : d = Drive /\ t = top
    OBVIOUS
  <2>2. d \in 0 .. (Depth + 2) /\ t \in Path /\ Drive' = d
    BY <1>2, <2>1, DriveFact DEF Drive
  <2>3. Resolve(t, d)' = Resolve(t, d)
    BY <2>2, SameTree
  <2>q. QED BY <1>1, <2>1, <2>2, <2>3 DEF OnPath
<1>7. Drive' = Drive
  BY DEF Drive
<1>q. QED BY <1>1, <1>2, <1>3, <1>5, <1>6, <1>7 DEF OnPath, Kept, OpenAt

LEMMA ProbeHolds ==
    ASSUME Inv, Probe
    PROVE  Inv'
<1>1. CASE Reject
  BY <1>1, RejectHolds DEF Probe
<1>2. CASE ~Reject
  <2>1. /\ phase' = "open" /\ phase = "probe"
        /\ UNCHANGED <<tree, candidates, walk, handle, alias, top, inner, held, chain>>
    BY <1>2 DEF Probe, progress
  <2>2. Tree' /\ Candidacy' /\ walk # <<>>
    BY <2>1, SameTree DEF Inv, Candidacy, Progress
  <2>3. AtRoot => AtRoot'
    BY <2>1 DEF AtRoot, Drive
  <2>4. OnPath => OnPath'
    <3>1. OnPath => NextLevel \in 0 .. Depth /\ NextLevel' = NextLevel
      BY <2>1, <2>2, WalkFact DEF OnPath, NextLevel, Inv
    <3>q. QED BY <2>1, <2>2, <3>1, PathSame DEF Inv
  <2>q. QED BY <2>1, <2>2, <2>3, <2>4 DEF Inv, Progress, Phase, Admitted
<1>q. QED BY <1>1, <1>2

(* Where a component is opened: by the real path down to the directory of  *)
(* the drive, and by the letter below, which is the same where it stays.   *)
LEMMA OpenedAt ==
    ASSUME Tree, Candidacy, phase # "failed", OnPath, walk # <<>>,
           Named(Head(walk)) # Away
    PROVE  LET n == Named(Head(walk)) IN
           /\ n \in Node /\ n[1] = NextLevel
           /\ Retained(NextLevel) => n = Resolve(top, NextLevel)
<1>1. PICK c : c = Head(walk)
  OBVIOUS
<1>2. /\ NextLevel \in 0 .. Depth /\ c.level = NextLevel /\ c.kind \in KindAt(NextLevel)
      /\ Drive \in 0 .. Depth /\ top \in Path /\ Depth \in Nat
  BY <1>1, HeadIsFirst, WalkFact, DriveFact, DepthAssumption DEF OnPath
<1>3. PICK t : t = IF c.kind \in {"parent", "target"} THEN top ELSE "path"
  OBVIOUS
<1>4. t \in Path /\ NextLevel \in 0 .. (Depth + 2)
  BY <1>2, <1>3 DEF Path
<1>5. Named(Head(walk)) = Resolve(t, NextLevel)
  BY <1>1, <1>2, <1>3 DEF Named
<1>6. Retained(NextLevel) => t = top
  <2>1. CASE NextLevel > Drive
    BY <1>2, <1>3, <2>1 DEF Retained, Drive, KindAt
  <2>2. CASE ~(NextLevel > Drive)
    BY <1>2, <1>3, <2>2 DEF KindAt
  <2>q. QED BY <2>1, <2>2
<1>q. QED BY <1>4, <1>5, <1>6, ResolveLevel

LEMMA OpenHolds ==
    ASSUME Inv, Open
    PROVE  Inv'
<1>1. CASE Reject
  BY <1>1, RejectHolds DEF Open
<1>2. CASE ~Reject
  <2>0. PICK n : n = Named(Head(walk))
    OBVIOUS
  <2>1. /\ phase' = "verify" /\ phase = "open" /\ handle' = n /\ held' = held \cup {n} /\ n # Away
        /\ UNCHANGED <<tree, candidates, walk, alias, top, inner, chain>>
    BY <1>2, <2>0 DEF Open, Opens, progress
  <2>2. Tree' /\ Candidacy' /\ walk # <<>> /\ Tree /\ Candidacy
    BY <2>1, SameTree DEF Inv, Candidacy, Progress
  <2>3. ASSUME AtRoot, Head(walk).kind = "root" PROVE AtRoot'
    <3>1. ASSUME Drive = 0 PROVE n = Root
      <4>1. Drive \in 0 .. Depth
        BY <3>1, DepthAssumption
      <4>2. walk[1].level = 0
        <5>1. PICK c : c = Head(candidates)
          OBVIOUS
        <5>2. c.drive = 0 /\ c.drive \in 0 .. Depth /\ walk = guard_directory_ancestry(c)
          BY <2>3, <3>1, <4>1, <5>1 DEF AtRoot, Drive
        <5>3. walk[1] = [level |-> c.drive, role |-> "volume_root", kind |-> "root"]
          BY <5>2, GuardFact, Zenon
        <5>q. QED BY <5>2, <5>3
      <4>3. n = Resolve("path", 0)
        BY <2>0, <2>3, <4>2, HeadIsFirst DEF Named
      <4>q. QED BY <4>3, ResolveFact
    <3>q. QED BY <2>1, <2>3, <3>1 DEF AtRoot, Drive, Root
  <2>4. ASSUME OnPath PROVE OnPath'
    <3>1. PICK L : L = NextLevel
      OBVIOUS
    <3>2. L \in 0 .. Depth /\ NextLevel' = L
      BY <2>1, <2>2, <2>4, <3>1, WalkFact DEF OnPath, NextLevel
    <3>3. n \in Node /\ n[1] = L /\ (Retained(L) => n = Resolve(top, L))
      BY <2>0, <2>1, <2>2, <2>4, <3>1, OpenedAt
    <3>4. OpenAt(n, L)'
      <4>1. PICK t : t = top
        OBVIOUS
      <4>2. t \in Path /\ top' = t /\ L \in 0 .. (Depth + 2)
        BY <2>1, <2>2, <3>2, <4>1, DriveFact, DepthAssumption
      <4>3. Resolve(t, L)' = Resolve(t, L)
        BY <2>1, <2>2, <4>2, SameTree
      <4>4. Retained(L)' => Retained(L)
        BY <2>1 DEF Retained
      <4>q. QED BY <2>1, <3>3, <4>1, <4>2, <4>3, <4>4
                DEF OpenAt, Node, Root, Private, Temporary, Decoy
    <3>5. OpenAt(handle, NextLevel)'
      BY <2>1, <3>2, <3>4 DEF OpenAt
    <3>6. held \subseteq held'
      BY <2>1
    <3>q. QED BY <2>1, <2>2, <2>4, <3>1, <3>2, <3>5, <3>6, PathSame
  <2>q. QED BY <2>1, <2>2, <2>3, <2>4 DEF Inv, Progress, Phase, Admitted
<1>q. QED BY <1>1, <1>2

(* What is admitted next: the rest of a path, or the private directory.    *)
LEMMA AdvanceHolds ==
    ASSUME Inv, phase # "failed", top' \in Path,
           NEW CONSTANT rest \in Seq(ComponentSet), NEW CONSTANT L \in 0 .. (Depth + 1),
           Advance(rest), Len(rest) = Depth + 1 - L,
           \A i \in 1 .. Len(rest) :
              rest[i].level = L + i - 1 /\ rest[i].kind \in KindAt(rest[i].level),
           Kept(L - 1)', L > Drive => alias = Resolve(top, Drive)'
    PROVE  Inv'
<1>0. Depth \in Nat /\ Drive \in 0 .. Depth
  BY DepthAssumption, DriveFact DEF Inv
<1>1. /\ walk' = rest /\ UNCHANGED <<tree, candidates, alias, held, inner, chain>>
      /\ phase' = IF rest = <<>> THEN "private" ELSE "probe"
  BY DEF Advance
<1>2. Candidacy' /\ Tree' /\ Drive' = Drive
  BY <1>1, SameTree DEF Inv, Candidacy, Drive
<1>3. NextLevel' = L
  BY <1>0, <1>1 DEF NextLevel
<1>4. CASE rest = <<>>
  <2>1. L - 1 = Depth
    <3>1. Len(rest) = 0
      BY <1>4
    <3>q. QED BY <1>0, <3>1
  <2>2. AtPrivate'
    BY <1>0, <1>1, <1>2, <1>4, <2>1 DEF AtPrivate, Kept
  <2>q. QED BY <1>1, <1>2, <1>4, <2>2 DEF Inv, Progress, Phase, Admitted
<1>5. CASE rest # <<>>
  <2>1. Rest'
    <3>1. \A k : KindAt(k)' = KindAt(k)
      BY <1>2 DEF KindAt
    <3>q. QED BY <1>0, <1>1, <1>3, <3>1 DEF Rest
  <2>2. OnPath'
    BY <1>1, <1>2, <1>3, <1>5, <2>1 DEF OnPath, Kept
  <2>3. Head(walk').kind # "root"
    <3>1. Len(rest) \in Nat /\ Len(rest) # 0
      BY <1>5, LenProperties, EmptySeq
    <3>2. 1 \in 1 .. Len(rest)
      BY <3>1
    <3>3. rest[1].kind # "root"
      BY <3>2 DEF KindAt
    <3>q. QED BY <1>1, <3>3, HeadIsFirst
  <2>q. QED BY <1>1, <1>2, <1>5, <2>2, <2>3 DEF Inv, Progress, Phase, Admitted
<1>q. QED BY <1>4, <1>5

LEMMA VerifyHolds ==
    ASSUME Inv, Verify
    PROVE  Inv'
<1> DEFINE c == Head(walk)
<1>0. /\ phase = "verify" /\ walk # <<>> /\ walk \in Seq(ComponentSet) /\ Depth \in Nat
      /\ Tree /\ Candidacy /\ Drive \in 0 .. Depth /\ top \in Path
  BY DepthAssumption, DriveFact DEF Verify, Inv, Progress, Candidacy
<1>1. CASE Reject
  BY <1>0, <1>1, RejectHolds
<1>2. CASE ~Reject
  <2>1. c \in ComponentSet /\ verify_trusted_descriptor(descriptor[handle], c.role)
    BY <1>0, <1>2, HeadTailProperties DEF Verify
  <2>2. Sealed(handle)
    BY <2>1, TrustedIsSealed DEF ComponentSet
  <2>3. CASE c.kind = "root"
    <3>1. /\ alias' = handle /\ phase' = "final"
          /\ UNCHANGED <<tree, candidates, walk, handle, top, held, inner, chain>>
      BY <1>2, <2>3 DEF Verify
    <3>2. AtRoot
      BY <1>0, <2>3 DEF Inv, Progress
    <3>3. Tree' /\ \A n : Sealed(n) => Sealed(n)'
      BY <3>1, SameTree DEF Inv
    <3>4. Drive' = 0 => Sealed(Root)'
      BY <1>0, <2>2, <3>1, <3>2, <3>3 DEF AtRoot, Drive
    <3>5. AtRoot'
      BY <1>0, <3>1, <3>2, <3>4 DEF AtRoot, Drive, Root, Sealed
    <3>q. QED BY <1>0, <2>3, <3>1, <3>3, <3>5 DEF Inv, Candidacy, Progress, Phase, Admitted
  <2>4. CASE c.kind # "root"
    <3>1. Advance(Tail(walk)) /\ top' = top /\ (c.kind = "target" => handle = alias)
      BY <1>2, <2>4 DEF Verify
    <3>a. UNCHANGED <<tree, candidates, alias, held>> /\ phase' # "closed"
      BY <3>1 DEF Advance
    <3>2. PICK L, t : L = NextLevel /\ t = top
      OBVIOUS
    <3>3. OnPath /\ Rest
      BY <1>0, <2>4 DEF Inv, Progress, OnPath
    <3>4. /\ L \in 0 .. Depth /\ Len(walk) \in 1 .. (Depth + 1) /\ Len(walk) = Depth + 1 - L
          /\ c.kind \in KindAt(L)
      <4>1. /\ L \in 0 .. Depth /\ Len(walk) \in 1 .. (Depth + 1)
            /\ walk[1].kind \in KindAt(L)
        BY <1>0, <3>2, <3>3, WalkFact
      <4>q. QED BY <1>0, <3>2, <4>1, HeadIsFirst DEF NextLevel
    <3>5. Kept(L)
      <4>1. Kept(L - 1) /\ OpenAt(handle, L)
        BY <1>0, <3>2, <3>3 DEF OnPath
      <4>2. \A j \in 0 .. L : j \in 0 .. (L - 1) \/ j = L
        BY <3>4, <1>0
      <4>3. handle # Away
        BY <4>1, NodeKinds DEF OpenAt
      <4>q. QED BY <2>2, <4>1, <4>2, <4>3 DEF Kept, OpenAt
    <3>6. Kept(L)' /\ \A j \in 0 .. L : Resolve(t, j)' = Resolve(t, j)
      <4>1. L \in -1 .. (Depth + 1)
        BY <1>0, <3>4
      <4>2. UNCHANGED <<link, parent, descriptor>>
        BY <3>a DEF tree
      <4>3. /\ UNCHANGED <<link, top, candidates>>
            /\ \A n \in Node : n[1] <= L => parent'[n] = parent[n] /\ descriptor'[n] = descriptor[n]
            /\ phase' # "closed" => phase # "closed" /\ held \subseteq held'
        BY <1>0, <3>1, <3>a, <4>2
      <4>4. Kept(L)' /\ \A j \in 0 .. L : Resolve(top, j)' = Resolve(top, j)
        BY <1>0, <3>5, <4>1, <4>3, KeptStep
      <4>q. QED BY <3>1, <3>2, <4>4
    <3>7. L + 1 > Drive => alias = Resolve(top, Drive)'
      <4>1. PICK d : d = Drive
        OBVIOUS
      <4>2. Drive' = d /\ d \in 0 .. Depth
        BY <1>0, <3>a, <4>1 DEF Drive
      <4>3. CASE L > Drive
        <5>1. alias = Resolve(t, d) /\ d \in 0 .. L
          BY <1>0, <3>2, <3>3, <3>4, <4>1, <4>3 DEF OnPath
        <5>q. QED BY <3>1, <3>2, <3>6, <4>2, <5>1
      <4>4. CASE L = Drive
        <5>1. c.kind = "target"
          BY <1>0, <3>4, <4>4 DEF KindAt
        <5>2. Retained(L)
          BY <1>0, <4>4 DEF Retained, Drive
        <5>3. alias = Resolve(t, L) /\ L \in 0 .. L
          BY <1>0, <3>1, <3>2, <3>3, <3>4, <5>1, <5>2 DEF OnPath, OpenAt
        <5>q. QED BY <3>1, <3>2, <3>6, <4>1, <4>2, <4>4, <5>3
      <4>q. QED BY <1>0, <3>4, <4>3, <4>4
    <3>8. /\ Tail(walk) \in Seq(ComponentSet) /\ Len(Tail(walk)) = Depth + 1 - (L + 1)
          /\ \A i \in 1 .. Len(Tail(walk)) :
                /\ Tail(walk)[i].level = L + 1 + i - 1
                /\ Tail(walk)[i].kind \in KindAt(Tail(walk)[i].level)
      <4>1. /\ Tail(walk) \in Seq(ComponentSet) /\ Len(Tail(walk)) = Len(walk) - 1
            /\ \A i \in 1 .. Len(Tail(walk)) : Tail(walk)[i] = walk[i + 1]
        BY <1>0, HeadTailProperties
      <4>2. ASSUME NEW i \in 1 .. Len(Tail(walk))
            PROVE  walk[i + 1].level = L + 1 + i - 1 /\ walk[i + 1].kind \in KindAt(walk[i + 1].level)
        <5>1. i + 1 \in 1 .. Len(walk) /\ i \in Nat
          BY <3>4, <4>1
        <5>2. walk[i + 1].level = L + (i + 1) - 1 /\ walk[i + 1].kind \in KindAt(walk[i + 1].level)
          BY <3>2, <3>3, <5>1 DEF Rest
        <5>q. QED BY <1>0, <3>4, <5>1, <5>2
      <4>3. Len(Tail(walk)) = Depth + 1 - (L + 1)
        BY <1>0, <3>4, <4>1
      <4>q. QED BY <4>1, <4>2, <4>3
    <3>9. L + 1 \in 0 .. (Depth + 1) /\ (L + 1) - 1 = L /\ top' \in Path
      BY <1>0, <3>1, <3>4
    <3>10. PICK r : r = Tail(walk)
      OBVIOUS
    <3>11. /\ r \in Seq(ComponentSet) /\ Advance(r) /\ Len(r) = Depth + 1 - (L + 1)
           /\ \A i \in 1 .. Len(r) :
                r[i].level = L + 1 + i - 1 /\ r[i].kind \in KindAt(r[i].level)
      BY <3>1, <3>8, <3>10
    <3>q. QED BY <1>0, <3>6, <3>7, <3>9, <3>11, AdvanceHolds
  <2>q. QED BY <2>3, <2>4
<1>q. QED BY <1>1, <1>2

LEMMA FinalPathHolds ==
    ASSUME Inv, FinalPath
    PROVE  Inv'
<1>0. /\ phase = "final" /\ Depth \in Nat /\ Depth # 0 /\ Tree /\ Candidacy
      /\ Drive \in 0 .. Depth
  BY DepthAssumption, DriveFact DEF FinalPath, Inv
<1>1. CASE Reject
  BY <1>0, <1>1, RejectHolds
<1>2. CASE ~Reject
  <2>0. PICK c, r, t, L :
          /\ c = Head(candidates) /\ r = retain_physical_root_ancestry(c) /\ t = Tail(walk)
          /\ L = IF c.drive = 0 THEN 1 ELSE 0
    OBVIOUS
  <2>1. /\ Advance(r \o t)
        /\ \E real \in Ancestry(alias) :
              top' = IF \E k \in DOMAIN real : real[k] = Beside THEN "beside" ELSE "path"
    BY <1>2, <2>0 DEF FinalPath
  <2>2. AtRoot /\ walk # <<>> /\ walk \in Seq(ComponentSet)
    BY <1>0 DEF Inv, Progress, Candidacy
  <2>3. c.drive \in 0 .. Depth /\ Drive = c.drive
    BY <1>0, <2>0 DEF Drive
  <2>4. /\ Len(walk) = Depth + 1 - c.drive
        /\ \A i \in 2 .. Len(walk) : walk[i].level = c.drive + i - 1 /\ walk[i].kind = "path"
    BY <2>0, <2>2, <2>3, GuardFact, Zenon DEF AtRoot
  <2>5. /\ t \in Seq(ComponentSet) /\ Len(t) = Depth - c.drive
        /\ \A i \in 1 .. Len(t) : t[i] = walk[i + 1]
    BY <1>0, <2>0, <2>2, <2>3, <2>4, HeadTailProperties
  <2>6. /\ r \in Seq(ComponentSet)
        /\ Len(r) = IF c.drive = 0 THEN 0 ELSE c.drive + 1
        /\ \A i \in 1 .. Len(r) :
              r[i].level = i - 1 /\ r[i].kind = IF i = c.drive + 1 THEN "target" ELSE "parent"
    BY <2>0, <2>3, RetainFact, Zenon
  <2>7. /\ r \o t \in Seq(ComponentSet) /\ Len(r \o t) = Len(r) + Len(t)
        /\ \A i \in 1 .. Len(r) + Len(t) :
              (r \o t)[i] = IF i <= Len(r) THEN r[i] ELSE t[i - Len(r)]
    BY <2>5, <2>6, ConcatProperties
  <2>8. Len(r \o t) = Depth + 1 - L /\ L \in 0 .. (Depth + 1)
    <3>1. CASE c.drive = 0
      <4>1. L = 1 /\ Len(r) = 0 /\ Len(t) = Depth - 0
        BY <2>0, <2>5, <2>6, <3>1
      <4>q. QED BY <1>0, <2>7, <4>1
    <3>2. CASE c.drive # 0
      <4>1. L = 0 /\ Len(r) = c.drive + 1 /\ Len(t) = Depth - c.drive
        BY <2>0, <2>5, <2>6, <3>2
      <4>2. Len(r) + Len(t) = Depth + 1
        BY <1>0, <2>3, <4>1
      <4>q. QED BY <1>0, <2>7, <4>1, <4>2
    <3>q. QED BY <3>1, <3>2
  <2>9. ASSUME NEW i \in 1 .. Len(r \o t)
        PROVE  (r \o t)[i].level = L + i - 1 /\ (r \o t)[i].kind \in KindAt((r \o t)[i].level)
    <3>1. CASE i <= Len(r)
      <4>1. c.drive # 0 /\ L = 0 /\ i \in 1 .. Len(r) /\ i \in 1 .. Len(r) + Len(t) /\ i \in Nat
        BY <1>0, <2>0, <2>3, <2>6, <2>7, <3>1
      <4>2. (r \o t)[i] = r[i]
        BY <2>7, <3>1, <4>1
      <4>3. r[i].level = i - 1 /\ r[i].kind = IF i = c.drive + 1 THEN "target" ELSE "parent"
        BY <2>6, <4>1
      <4>4. i <= c.drive + 1
        BY <2>6, <3>1, <4>1
      <4>5. r[i].kind \in KindAt(i - 1)
        BY <1>0, <2>3, <4>1, <4>3, <4>4 DEF KindAt
      <4>q. QED BY <4>1, <4>2, <4>3, <4>5
    <3>2. CASE ~(i <= Len(r))
      <4>0. Len(r) \in Nat /\ Len(t) \in Nat /\ Len(walk) = Len(t) + 1 /\ i \in 1 .. Len(r) + Len(t)
        BY <1>0, <2>3, <2>4, <2>5, <2>6, <2>7
      <4>1. i - Len(r) \in 1 .. Len(t) /\ i - Len(r) + 1 \in 2 .. Len(walk)
        BY <3>2, <4>0
      <4>2. (r \o t)[i] = walk[i - Len(r) + 1]
        BY <2>5, <2>7, <3>2, <4>0, <4>1
      <4>3. walk[i - Len(r) + 1].level = c.drive + (i - Len(r) + 1) - 1
            /\ walk[i - Len(r) + 1].kind = "path"
        BY <2>4, <4>1
      <4>4. c.drive + (i - Len(r) + 1) - 1 = L + i - 1 /\ L + i - 1 > c.drive
        <5>1. c.drive \in Nat /\ i \in Nat /\ c.drive - Len(r) + 1 = L
          BY <1>0, <2>0, <2>3, <2>6, <4>0
        <5>q. QED BY <3>2, <4>0, <5>1
      <4>5. "path" \in KindAt(L + i - 1)
        BY <2>3, <4>4 DEF KindAt
      <4>q. QED BY <4>2, <4>3, <4>4, <4>5
    <3>q. QED BY <3>1, <3>2
  <2>a. UNCHANGED <<tree, candidates, alias, held>> /\ phase' # "closed"
    BY <2>1 DEF Advance
  <2>b. UNCHANGED <<link, parent, descriptor>>
    BY <2>a DEF tree
  <2>10. top' \in Path /\ Kept(L - 1)' /\ (L > Drive => alias = Resolve(top, Drive)')
    <3>1. CASE c.drive = 0
      <4>1. Sealed(Root) /\ Root \in held /\ alias = Root /\ top = "path"
        BY <1>0, <2>2, <2>3, <3>1 DEF AtRoot
      <4>2. top' = "path"
        <5>1. PICK real \in Ancestry(Root) :
                top' = IF \E k \in DOMAIN real : real[k] = Beside THEN "beside" ELSE "path"
          BY <2>1, <4>1
        <5>2. DOMAIN real = 0 .. 0 /\ real[0] = Root
          BY <5>1 DEF Ancestry, Root
        <5>3. \A k \in DOMAIN real : real[k] # Beside
          BY <5>2 DEF Root, Beside
        <5>q. QED BY <5>1, <5>3
      <4>3. L = 1 /\ L - 1 = 0 /\ 0 \in -1 .. (Depth + 1) /\ 0 \in 0 .. 0
        BY <1>0, <2>0, <3>1
      <4>4. \A j \in 0 .. 0 : Resolve("path", j) = Root
        BY ResolveFact
      <4>5. Kept(0)
        BY <4>1, <4>4, NodeKinds DEF Kept
      <4>6. /\ UNCHANGED <<link, top, candidates>>
            /\ \A n \in Node : n[1] <= 0 => parent'[n] = parent[n] /\ descriptor'[n] = descriptor[n]
            /\ phase' # "closed" => phase # "closed" /\ held \subseteq held'
        BY <1>0, <2>a, <2>b, <4>1, <4>2
      <4>7. Kept(0)' /\ \A j \in 0 .. 0 : Resolve(top, j)' = Resolve(top, j)
        BY <1>0, <4>3, <4>5, <4>6, KeptStep
      <4>8. Drive' = 0
        BY <2>3, <2>a, <3>1 DEF Drive
      <4>9. Resolve(top, 0)' = Root
        BY <4>1, <4>3, <4>4, <4>7
      <4>q. QED BY <4>1, <4>2, <4>3, <4>7, <4>8, <4>9 DEF Path
    <3>2. CASE c.drive # 0
      <4>1. L = 0 /\ 0 .. (L - 1) = {} /\ ~(L > Drive)
        BY <2>0, <2>3, <3>2
      <4>q. QED BY <2>1, <4>1 DEF Kept, Path
    <3>q. QED BY <3>1, <3>2
  <2>11. PICK rest : rest = r \o t
    OBVIOUS
  <2>12. /\ rest \in Seq(ComponentSet) /\ Advance(rest) /\ Len(rest) = Depth + 1 - L
         /\ \A i \in 1 .. Len(rest) :
              rest[i].level = L + i - 1 /\ rest[i].kind \in KindAt(rest[i].level)
    BY <2>1, <2>7, <2>8, <2>9, <2>11
  <2>q. QED BY <1>0, <2>8, <2>10, <2>12, AdvanceHolds
<1>q. QED BY <1>1, <1>2

(* What a path goes on to from the directories it names. *)
LEMMA PathGoesOn ==
    ASSUME Tree, NEW CONSTANT k \in 0 .. (Depth + 2), NEW CONSTANT t \in Path,
           Follow(Resolve(t, k)) # Away
    PROVE  Follow(Resolve(t, k)) \in Node /\ Follow(Resolve(t, k))[1] = k
<1>1. Resolve(t, k) # Away
  BY DEF Follow
<1>q. QED BY <1>1, ResolveLevel, FollowFact

(* The private directory is made where the path leads, when there is none. *)
LEMMA CreatePrivateHolds ==
    ASSUME Inv, CreatePrivate
    PROVE  Inv'
<1>0. /\ phase = "private" /\ Depth \in Nat /\ Depth # 0 /\ Tree /\ AtPrivate /\ Candidacy
      /\ Drive \in 0 .. Depth
  BY DepthAssumption, DriveFact DEF CreatePrivate, Inv, Progress
<1>1. CASE Reject
  BY <1>0, <1>1, RejectHolds
<1>2. CASE ~Reject
  <2>0. PICK p : p = Follow(Resolve("path", Depth))
    OBVIOUS
  <2>1. /\ p # Away /\ phase' = "private_open"
        /\ parent' = IF ChildrenAt(p) = {} THEN [parent EXCEPT ![Private(1)] = p] ELSE parent
        /\ UNCHANGED <<link, descriptor, candidates, walk, handle, alias, top, held, inner, chain>>
    BY <1>2, <2>0 DEF CreatePrivate, progress
  <2>2. p \in Node /\ p[1] = Depth
    <3>1. Depth \in 0 .. (Depth + 2) /\ "path" \in Path
      BY <1>0 DEF Path
    <3>q. QED BY <1>0, <2>0, <2>1, <3>1, PathGoesOn
  <2>3. Private(1)[1] = Depth + 1 /\ Private(1) \in Node /\ Private(1) # Beside
    BY <1>0, NodeKinds DEF Private, Beside
  <2>4. \A n, who, right : May(who, n, right)' <=> May(who, n, right)
    BY <2>1, MaySame
  <2>5. Tree'
    <3>1. parent' \in [Node -> Node \cup {Away, Unborn}]
      BY <1>0, <2>1, <2>2, <2>3 DEF Tree
    <3>2. ASSUME NEW m \in Node, NEW n \in Node, m[1] = n[1], m = Beside <=> n = Beside,
                 parent'[m] = parent'[n], parent'[m] \in Node
          PROVE  m = n
      <4>0. \A a, b \in Node :
              /\ a[1] = b[1] /\ (a = Beside <=> b = Beside)
              /\ parent[a] = parent[b] /\ parent[a] \in Node
              => a = b
        BY <1>0 DEF Tree
      <4>1. CASE ChildrenAt(p) # {}
        <5>1. parent' = parent
          BY <2>1, <4>1
        <5>q. QED BY <3>2, <4>0, <5>1
      <4>2. CASE ChildrenAt(p) = {}
        <5>1. \A a \in Node : a[1] = Depth + 1 => parent[a] # p
          BY <2>2, <4>2 DEF ChildrenAt
        <5>2. parent' = [parent EXCEPT ![Private(1)] = p] /\ DOMAIN parent = Node
          BY <1>0, <2>1, <4>2 DEF Tree
        <5>3. CASE m = Private(1) \/ n = Private(1)
          BY <2>3, <3>2, <5>1, <5>2, <5>3
        <5>4. CASE m # Private(1) /\ n # Private(1)
          <6>1. parent'[m] = parent[m] /\ parent'[n] = parent[n]
            BY <5>2, <5>4
          <6>q. QED BY <3>2, <4>0, <6>1
        <5>q. QED BY <5>3, <5>4
      <4>q. QED BY <4>1, <4>2
    <3>q. QED BY <1>0, <2>1, <2>4, <3>1, <3>2
             DEF Tree, Node, Root, Private, Temporary, Decoy, Beside, Away, Unborn
  <2>6. Kept(Depth)' /\ \A j \in 0 .. Depth : Resolve(top, j)' = Resolve(top, j)
    <3>1. Depth \in -1 .. (Depth + 1) /\ Kept(Depth)
      BY <1>0 DEF AtPrivate
    <3>2. \A n \in Node : n[1] <= Depth => parent'[n] = parent[n] /\ descriptor'[n] = descriptor[n]
      <4>1. \A n \in Node : n[1] <= Depth => n # Private(1)
        BY <1>0, <2>3
      <4>q. QED BY <1>0, <2>1, <4>1 DEF Tree
    <3>3. phase' # "closed" => phase # "closed" /\ held \subseteq held'
      BY <1>0, <2>1
    <3>q. QED BY <1>0, <2>1, <3>1, <3>2, <3>3, KeptStep
  <2>7. AtPrivate'
    <3>1. PICK d : d = Drive
      OBVIOUS
    <3>2. Drive' = d /\ Resolve(top, d)' = Resolve(top, d)
      BY <1>0, <2>1, <2>6, <3>1 DEF Drive
    <3>q. QED BY <1>0, <2>1, <2>6, <3>1, <3>2 DEF AtPrivate
  <2>8. Candidacy'
    BY <1>0, <2>1 DEF Inv, Candidacy
  <2>q. QED BY <2>1, <2>5, <2>7, <2>8 DEF Inv, Progress, Phase, Admitted
<1>q. QED BY <1>1, <1>2

(* What the letter names is the retained directory, where that is one.     *)
LEMMA OpenedByLetter ==
    ASSUME Tree, Candidacy, phase # "failed", NEW CONSTANT k \in {Depth + 1, Depth + 2},
           Resolve("path", k) # Away
    PROVE  /\ Resolve("path", k) \in Node /\ Resolve("path", k)[1] = k
           /\ Retained(k) => Resolve("path", k) = Resolve(top, k)
<1>1. k \in 0 .. (Depth + 2) /\ "path" \in Path
  BY DepthAssumption DEF Path
<1>2. Retained(k) => top = "path"
  BY DriveFact, DepthAssumption DEF Retained, Drive
<1>q. QED BY <1>1, <1>2, ResolveLevel

LEMMA OpenPrivateHolds ==
    ASSUME Inv, OpenPrivate
    PROVE  Inv'
<1>0. /\ phase = "private_open" /\ Depth \in Nat /\ Tree /\ AtPrivate /\ Candidacy
      /\ Drive \in 0 .. Depth /\ top \in Path
  BY DepthAssumption, DriveFact DEF OpenPrivate, Inv, Progress
<1>1. CASE Reject
  BY <1>0, <1>1, RejectHolds
<1>2. CASE ~Reject
  <2>0. PICK n, t : n = Resolve("path", Depth + 1) /\ t = top
    OBVIOUS
  <2>1. /\ phase' = "private_verify" /\ handle' = n /\ held' = held \cup {n} /\ n # Away
        /\ UNCHANGED <<tree, candidates, walk, alias, top, inner, chain>>
    BY <1>2, <2>0 DEF OpenPrivate, Opens, progress
  <2>2. Tree' /\ Candidacy'
    BY <1>0, <2>1, SameTree DEF Inv, Candidacy
  <2>3. \A j \in 0 .. (Depth + 2) : Resolve(t, j)' = Resolve(t, j)
    BY <1>0, <2>0, <2>1, SameTree
  <2>4. Kept(Depth)'
    <3>1. Depth \in -1 .. (Depth + 1) /\ Kept(Depth)
      BY <1>0 DEF AtPrivate
    <3>2. /\ UNCHANGED <<link, parent, descriptor>>
          /\ phase' # "closed" => phase # "closed" /\ held \subseteq held'
      BY <1>0, <2>1 DEF tree
    <3>q. QED BY <1>0, <2>1, <3>1, <3>2, KeptStep
  <2>5. OpenAt(n, Depth + 1)'
    <3>1. n \in Node /\ n[1] = Depth + 1 /\ (Retained(Depth + 1) => n = Resolve(t, Depth + 1))
      <4>1. Depth + 1 \in {Depth + 1, Depth + 2}
        OBVIOUS
      <4>q. QED BY <1>0, <2>0, <2>1, <4>1, OpenedByLetter
    <3>2. Depth + 1 \in 0 .. (Depth + 2) /\ (Retained(Depth + 1)' => Retained(Depth + 1))
      BY <1>0, <2>1 DEF Retained
    <3>q. QED BY <2>0, <2>1, <2>3, <3>1, <3>2 DEF OpenAt, Node, Root, Private, Temporary, Decoy
  <2>6. AtPrivate'
    <3>1. PICK d : d = Drive
      OBVIOUS
    <3>2. Drive' = d /\ Resolve(top, d)' = Resolve(top, d)
      BY <1>0, <2>0, <2>1, <2>3, <3>1 DEF Drive
    <3>q. QED BY <1>0, <2>1, <2>4, <2>5, <3>1, <3>2 DEF AtPrivate, OpenAt
  <2>q. QED BY <2>1, <2>2, <2>6 DEF Inv, Progress, Phase, Admitted
<1>q. QED BY <1>1, <1>2

(* A directory of the level of the private one has a list of entries. *)
LEMMA PrivateNode ==
    ASSUME Tree, NEW n \in Node, n[1] = Depth + 1
    PROVE  DOMAIN descriptor[n].acl = 1 .. Len(descriptor[n].acl)
  BY NodeKinds DEF Tree

LEMMA VerifyPrivateHolds ==
    ASSUME Inv, VerifyPrivate
    PROVE  Inv'
<1>0. /\ phase = "private_verify" /\ Depth \in Nat /\ Tree /\ AtPrivate /\ Candidacy
      /\ Drive \in 0 .. Depth /\ top \in Path
  BY DepthAssumption, DriveFact DEF VerifyPrivate, Inv, Progress
<1>1. CASE Reject
  BY <1>0, <1>1, RejectHolds
<1>2. CASE ~Reject
  <2>0. PICK n, t : n = handle /\ t = top
    OBVIOUS
  <2>1. /\ phase' = "temporary" /\ inner' = <<n>>
        /\ chain' = [k \in {j \in 0 .. (Depth + 1) : Retained(j)} |-> Resolve(t, k)]
        /\ verify_private_descriptor(descriptor[n])
        /\ UNCHANGED <<tree, candidates, walk, handle, alias, top, held>>
    BY <1>2, <2>0 DEF VerifyPrivate
  <2>2. n \in Node /\ n[1] = Depth + 1 /\ n \in held /\ (Retained(Depth + 1) => n = Resolve(t, Depth + 1))
    BY <1>0, <2>0 DEF AtPrivate, OpenAt
  <2>3. Exclusive(n) /\ Sealed(n)
    BY <1>0, <2>1, <2>2, PrivateNode, PrivateIsExclusive, ExclusiveIsSealed
  <2>4. Kept(Depth + 1)
    <3>1. \A j \in 0 .. (Depth + 1) : j \in 0 .. Depth \/ j = Depth + 1
      BY <1>0
    <3>2. n # Away
      BY <2>2, NodeKinds
    <3>q. QED BY <1>0, <2>0, <2>2, <2>3, <3>1, <3>2 DEF AtPrivate, Kept
  <2>5. /\ Tree' /\ \A j \in 0 .. (Depth + 2) : Resolve(t, j)' = Resolve(t, j)
        /\ Exclusive(n)'
    BY <1>0, <2>0, <2>1, <2>3, SameTree
  <2>6. Kept(Depth + 1)'
    <3>1. Depth + 1 \in -1 .. (Depth + 1)
      BY <1>0
    <3>2. /\ UNCHANGED <<link, parent, descriptor>>
          /\ phase' # "closed" => phase # "closed" /\ held \subseteq held'
      BY <1>0, <2>1 DEF tree
    <3>q. QED BY <1>0, <2>1, <2>4, <3>1, <3>2, KeptStep
  <2>7. /\ \A k : Retained(k)' <=> Retained(k)
        /\ Depth + 1 \in 0 .. (Depth + 2) /\ \A j \in 0 .. (Depth + 1) : j \in 0 .. (Depth + 2)
    BY <1>0, <2>1 DEF Retained
  <2>8. chain' = [k \in {j \in 0 .. (Depth + 1) : Retained(j)'} |-> Resolve(t, k)']
    BY <2>1, <2>5, <2>7
  <2>9. alias' = Resolve(top, Drive)'
    <3>1. PICK d : d = Drive
      OBVIOUS
    <3>2. Drive' = d /\ Resolve(t, d)' = Resolve(t, d) /\ alias = Resolve(t, d)
      BY <1>0, <2>0, <2>1, <2>5, <3>1 DEF Drive, AtPrivate
    <3>q. QED BY <1>0, <2>0, <2>1, <3>1, <3>2
  <2>10. inner'[1] = n
    BY <2>1
  <2>11. PathKept'
    BY <1>0, <2>0, <2>1, <2>2, <2>5, <2>6, <2>7, <2>8, <2>9, <2>10
       DEF PathKept, Exclusive, Node, Root, Private, Temporary, Decoy
  <2>12. PathAdmitted'
    BY <2>1, <2>10, <2>11 DEF PathAdmitted
  <2>13. Candidacy'
    BY <1>0, <2>1 DEF Candidacy
  <2>q. QED BY <2>1, <2>5, <2>12, <2>13 DEF Inv, Progress, Phase, Admitted
<1>q. QED BY <1>1, <1>2

-----------------------------------------------------------------------------
(* capture_directory. *)

(* Changes to the directories of the last level only. *)
LEMMA LastLevelTree ==
    ASSUME Tree, UNCHANGED link, parent' \in [Node -> Node \cup {Away, Unborn}],
           DOMAIN descriptor' = Node,
           \A n \in Node : n[1] # Depth + 2 => parent'[n] = parent[n] /\ descriptor'[n] = descriptor[n],
           parent'[Temporary] = parent'[Decoy] => parent'[Temporary] \notin Node
    PROVE  Tree'
<1>1. \A m, n \in Node :
        /\ m[1] = n[1] /\ (m = Beside <=> n = Beside)
        /\ parent'[m] = parent'[n] /\ parent'[m] \in Node
        => m = n
  <2> SUFFICES ASSUME NEW m \in Node, NEW n \in Node, m[1] = n[1], m = Beside <=> n = Beside,
                      parent'[m] = parent'[n], parent'[m] \in Node
               PROVE  m = n
    OBVIOUS
  <2>1. CASE m[1] = Depth + 2
    <3>1. m \in {Temporary, Decoy} /\ n \in {Temporary, Decoy}
      BY <2>1, NodeKinds
    <3>q. QED BY <3>1
  <2>2. CASE m[1] # Depth + 2
    BY <2>2 DEF Tree
  <2>q. QED BY <2>1, <2>2
<1>2. \A n \in Node : n[1] # Depth + 2 => \A who, right : May(who, n, right)' <=> May(who, n, right)
  BY MaySame
<1>3. \A v \in {1, 2} : descriptor'[Private(v)] = descriptor[Private(v)]
  BY NodeKinds, DepthAssumption DEF Private
<1>4. \A v \in {1, 2} : DOMAIN descriptor'[Private(v)].acl = 1 .. Len(descriptor'[Private(v)].acl)
  BY <1>3 DEF Tree
<1>5. \A n \in Node :
        /\ link'[n][1] = n[1]
        /\ link'[n] # n /\ n[1] # Depth + 2 => May("other", n, "write")'
  BY <1>2 DEF Tree
<1>q. QED BY <1>1, <1>4, <1>5 DEF Tree, Node, Root, Private, Temporary, Decoy, Beside, Away, Unborn

(* An admitted path stays admitted under them. *)
LEMMA PathKeptStep ==
    ASSUME Tree, Candidacy, phase # "failed", PathKept,
           UNCHANGED <<link, candidates, alias, top, chain>>, inner'[1] = inner[1],
           \A n \in Node : n[1] # Depth + 2 => parent'[n] = parent[n] /\ descriptor'[n] = descriptor[n],
           phase' # "closed" => phase # "closed" /\ held \subseteq held'
    PROVE  PathKept'
<1>0. Depth \in Nat /\ Drive \in 0 .. Depth /\ Drive' = Drive
  BY DepthAssumption, DriveFact DEF Drive
<1>1. Depth + 1 \in -1 .. (Depth + 1) /\ \A n \in Node : n[1] <= Depth + 1 => n[1] # Depth + 2
  BY <1>0, NodeKinds
<1>2. Kept(Depth + 1)' /\ \A j \in 0 .. (Depth + 1) : Resolve(top, j)' = Resolve(top, j)
  BY <1>1, KeptStep DEF PathKept
<1>3. \A k : Retained(k)' <=> Retained(k)
  BY DEF Retained
<1>4. alias' = Resolve(top, Drive)'
  <2>1. PICK d : d = Drive
    OBVIOUS
  <2>2. d \in 0 .. (Depth + 1) /\ Drive' = d
    BY <1>0, <2>1
  <2>3. Resolve(top, d)' = Resolve(top, d)
    BY <1>2, <2>2
  <2>q. QED BY <2>1, <2>2, <2>3 DEF PathKept
<1>5. chain' = [k \in {j \in 0 .. (Depth + 1) : Retained(j)'} |-> Resolve(top, k)']
  BY <1>2, <1>3 DEF PathKept
<1>6. PICK n : n = inner[1]
  OBVIOUS
<1>7. n \in Node /\ n[1] = Depth + 1 /\ Exclusive(n)
  BY <1>6 DEF PathKept
<1>8. Exclusive(n)'
  <2>1. n[1] # Depth + 2
    BY <1>0, <1>7
  <2>q. QED BY <1>7, <2>1, SealedSame
<1>9. Retained(Depth + 1)' => n = Resolve(top, Depth + 1)'
  <2>1. Depth + 1 \in 0 .. (Depth + 1)
    BY <1>0
  <2>q. QED BY <1>2, <1>3, <1>6, <2>1 DEF PathKept
<1>q. QED BY <1>2, <1>4, <1>5, <1>6, <1>7, <1>8, <1>9
          DEF PathKept, Exclusive, Node, Root, Private, Temporary, Decoy

(* What the temporary directory's name leads to is of the last level.      *)
LEMMA LeaveHolds ==
    ASSUME Inv, phase # "failed", NEW CONSTANT outcome, Leave(outcome)
    PROVE  /\ Tree' /\ Candidacy' /\ phase' = outcome
           /\ UNCHANGED <<link, candidates, alias, top, chain, inner>>
           /\ \A n \in Node : n[1] # Depth + 2 => parent'[n] = parent[n] /\ descriptor'[n] = descriptor[n]
<1>0. Tree /\ Candidacy /\ Depth + 2 \in 0 .. (Depth + 2) /\ "path" \in Path
  BY DepthAssumption DEF Inv, Path
<1>1. PICK n : n = Resolve("path", Depth + 2)
  OBVIOUS
<1>2. /\ \/ parent' = parent
         \/ n # Away /\ parent' = [parent EXCEPT ![n] = Unborn]
      /\ phase' = outcome
      /\ UNCHANGED <<link, descriptor, candidates, walk, alias, top, inner, chain>>
  BY <1>1 DEF Leave, RemoveTemporary, progress
<1>3. n # Away => n \in Node /\ n[1] = Depth + 2
  BY <1>0, <1>1, ResolveLevel
<1>4. /\ parent' \in [Node -> Node \cup {Away, Unborn}] /\ DOMAIN descriptor' = Node
      /\ \A m \in Node : m[1] # Depth + 2 => parent'[m] = parent[m] /\ descriptor'[m] = descriptor[m]
      /\ \A m \in Node : parent'[m] \in {parent[m], Unborn}
  BY <1>0, <1>2, <1>3 DEF Tree
<1>5. parent'[Temporary] = parent'[Decoy] => parent'[Temporary] \notin Node
  <2>1. /\ Temporary \in Node /\ Decoy \in Node /\ Temporary # Decoy
        /\ Temporary[1] = Depth + 2 /\ Decoy[1] = Depth + 2
        /\ Temporary # Beside /\ Decoy # Beside /\ Unborn \notin Node
    BY NodeKinds, DepthAssumption
  <2>2. parent[Temporary] = parent[Decoy] => parent[Temporary] \notin Node
    BY <1>0, <2>1 DEF Tree
  <2>q. QED BY <1>4, <2>1, <2>2
<1>6. Tree'
  BY <1>0, <1>2, <1>4, <1>5, LastLevelTree
<1>7. Candidacy'
  BY <1>0, <1>2 DEF Inv, Candidacy
<1>q. QED BY <1>2, <1>4, <1>6, <1>7

LEMMA FailHolds ==
    ASSUME Inv, phase # "failed", Fail
    PROVE  Inv'
<1>1. Tree' /\ Candidacy' /\ phase' = "failed"
  BY LeaveHolds DEF Fail
<1>q. QED BY <1>1 DEF Inv, Progress, Phase, Admitted

LEMMA CreateTemporaryHolds ==
    ASSUME Inv, CreateTemporary
    PROVE  Inv'
<1>0. /\ phase = "temporary" /\ Depth \in Nat /\ PathAdmitted /\ PathKept /\ Tree /\ Candidacy
  BY DepthAssumption DEF CreateTemporary, Inv, Progress, Admitted, PathAdmitted
<1>1. CASE Fail
  BY <1>0, <1>1, FailHolds
<1>2. CASE ~Fail
  <2>0. PICK p : p = Follow(Resolve("path", Depth + 1))
    OBVIOUS
  <2>1. /\ p # Away /\ phase' = "harden"
        /\ parent' = [parent EXCEPT ![Temporary] = p, ![Decoy] = Away]
        /\ descriptor' = [descriptor EXCEPT ![Temporary] = Inherited(descriptor[p])]
        /\ UNCHANGED <<link, candidates, walk, handle, alias, top, inner, held, chain>>
    BY <1>2, <2>0 DEF CreateTemporary, progress
  <2>2. p \in Node
    <3>1. Depth + 1 \in 0 .. (Depth + 2) /\ "path" \in Path
      BY <1>0 DEF Path
    <3>q. QED BY <1>0, <2>0, <2>1, <3>1, PathGoesOn
  <2>3. /\ Temporary[1] = Depth + 2 /\ Decoy[1] = Depth + 2 /\ Temporary # Decoy
        /\ Temporary \in Node /\ Decoy \in Node /\ Away \notin Node
    BY NodeKinds
  <2>4. /\ parent' \in [Node -> Node \cup {Away, Unborn}] /\ DOMAIN descriptor' = Node
        /\ \A n \in Node : n[1] # Depth + 2 => parent'[n] = parent[n] /\ descriptor'[n] = descriptor[n]
        /\ parent'[Decoy] = Away
    BY <1>0, <2>1, <2>2, <2>3 DEF Tree
  <2>5. Tree'
    BY <1>0, <2>1, <2>3, <2>4, LastLevelTree
  <2>6. PathKept'
    BY <1>0, <2>1, <2>4, PathKeptStep
  <2>7. PathAdmitted'
    BY <1>0, <2>1, <2>6 DEF PathAdmitted
  <2>8. Candidacy'
    BY <1>0, <2>1 DEF Candidacy
  <2>q. QED BY <2>1, <2>5, <2>7, <2>8 DEF Inv, Progress, Phase, Admitted
<1>q. QED BY <1>1, <1>2

LEMMA HardenTemporaryHolds ==
    ASSUME Inv, HardenTemporary
    PROVE  Inv'
<1>0. /\ phase = "harden" /\ Depth \in Nat /\ PathAdmitted /\ PathKept /\ Tree /\ Candidacy
      /\ inner = <<inner[1]>> /\ top \in Path
  BY DepthAssumption, DriveFact DEF HardenTemporary, Inv, Progress, Admitted, PathAdmitted
<1>1. CASE Fail
  BY <1>0, <1>1, FailHolds
<1>2. CASE ~Fail
  <2>0. PICK n, t, a : n = Resolve("path", Depth + 2) /\ t = top /\ a = inner[1]
    OBVIOUS
  <2>1. /\ n # Away /\ phase' = "secure" /\ handle' = n /\ held' = held \cup {n}
        /\ inner' = Append(inner, n)
        /\ UNCHANGED <<tree, candidates, walk, alias, top, chain>>
    BY <1>2, <2>0 DEF HardenTemporary, Opens
  <2>2. inner'[1] = a /\ inner'[2] = n
    <3>1. inner = <<a>>
      BY <1>0, <2>0
    <3>2. Append(<<a>>, n)[1] = a /\ Append(<<a>>, n)[2] = n
      OBVIOUS
    <3>q. QED BY <2>1, <3>1, <3>2
  <2>3. Tree' /\ Candidacy' /\ \A j \in 0 .. (Depth + 2) : Resolve(t, j)' = Resolve(t, j)
    BY <1>0, <2>0, <2>1, SameTree DEF Candidacy
  <2>4. PathKept'
    <3>1. inner'[1] = inner[1] /\ UNCHANGED <<link, parent, descriptor>>
      BY <2>0, <2>1, <2>2 DEF tree
    <3>q. QED BY <1>0, <2>1, <3>1, PathKeptStep
  <2>5. OpenAt(n, Depth + 2)'
    <3>1. n \in Node /\ n[1] = Depth + 2 /\ (Retained(Depth + 2) => n = Resolve(t, Depth + 2))
      <4>1. Depth + 2 \in {Depth + 1, Depth + 2}
        OBVIOUS
      <4>q. QED BY <1>0, <2>0, <2>1, <4>1, OpenedByLetter
    <3>2. Depth + 2 \in 0 .. (Depth + 2) /\ (Retained(Depth + 2)' => Retained(Depth + 2))
      BY <1>0, <2>1 DEF Retained
    <3>q. QED BY <2>0, <2>1, <2>3, <3>1, <3>2 DEF OpenAt, Node, Root, Private, Temporary, Decoy
  <2>6. inner'[2] = n
    BY <2>2
  <2>7. PathAdmitted'
    BY <2>1, <2>4, <2>5, <2>6 DEF PathAdmitted, OpenAt
  <2>q. QED BY <2>1, <2>3, <2>7 DEF Inv, Progress, Phase, Admitted
<1>q. QED BY <1>1, <1>2

LEMMA SetSecurityInfoHolds ==
    ASSUME Inv, SetSecurityInfo
    PROVE  Inv'
<1>0. /\ phase = "secure" /\ Depth \in Nat /\ PathAdmitted /\ PathKept /\ Tree /\ Candidacy
      /\ handle = inner[2] /\ OpenAt(inner[2], Depth + 2) /\ top \in Path
  BY DepthAssumption, DriveFact DEF SetSecurityInfo, Inv, Progress, Admitted, PathAdmitted
<1>1. PICK n, t : n = inner[2] /\ t = top
  OBVIOUS
<1>2. /\ descriptor' = [descriptor EXCEPT ![n] = PrivateSecurity] /\ phase' = "harden_verify"
      /\ UNCHANGED <<parent, link, candidates, walk, handle, alias, top, inner, held, chain>>
  BY <1>0, <1>1 DEF SetSecurityInfo, progress
<1>3. n \in Node /\ n[1] = Depth + 2 /\ n \in held /\ (Retained(Depth + 2) => n = Resolve(t, Depth + 2))
  BY <1>0, <1>1 DEF OpenAt
<1>4. /\ DOMAIN descriptor' = Node /\ descriptor'[n] = PrivateSecurity
      /\ \A m \in Node : m[1] # Depth + 2 => parent'[m] = parent[m] /\ descriptor'[m] = descriptor[m]
  BY <1>0, <1>2, <1>3 DEF Tree
<1>5. Tree'
  <2>1. /\ Temporary \in Node /\ Decoy \in Node /\ Temporary # Decoy
        /\ Temporary[1] = Depth + 2 /\ Decoy[1] = Depth + 2
        /\ Temporary # Beside /\ Decoy # Beside
    BY NodeKinds, DepthAssumption
  <2>2. parent'[Temporary] = parent'[Decoy] => parent'[Temporary] \notin Node
    BY <1>0, <1>2, <2>1 DEF Tree
  <2>3. parent' \in [Node -> Node \cup {Away, Unborn}]
    BY <1>0, <1>2 DEF Tree
  <2>q. QED BY <1>0, <1>2, <1>4, <2>2, <2>3, LastLevelTree
<1>6. PathKept'
  BY <1>0, <1>2, <1>4, PathKeptStep
<1>7. OpenAt(n, Depth + 2)'
  <2>1. Depth + 2 \in 0 .. (Depth + 2)
    BY <1>0
  <2>2. Resolve(t, Depth + 2)' = Resolve(t, Depth + 2)
    BY <1>0, <1>1, <1>2, <2>1, DeepChanges
  <2>3. Retained(Depth + 2)' => Retained(Depth + 2)
    BY <1>2 DEF Retained
  <2>q. QED BY <1>1, <1>2, <1>3, <2>2, <2>3 DEF OpenAt, Node, Root, Private, Temporary, Decoy
<1>8. Exclusive(n)'
  BY <1>4, PrivateSecurityFact DEF Exclusive, May
<1>9. PathAdmitted'
  BY <1>0, <1>1, <1>2, <1>6, <1>7, <1>8 DEF PathAdmitted, OpenAt, Exclusive
<1>10. Candidacy'
  BY <1>0, <1>2 DEF Candidacy
<1>q. QED BY <1>2, <1>5, <1>9, <1>10 DEF Inv, Progress, Phase, Admitted

LEMMA VerifyTemporaryHolds ==
    ASSUME Inv, VerifyTemporary
    PROVE  Inv'
<1>0. /\ phase = "harden_verify" /\ Depth \in Nat /\ PathAdmitted /\ PathKept /\ Tree /\ Candidacy
      /\ top \in Path
  BY DepthAssumption, DriveFact DEF VerifyTemporary, Inv, Progress, Admitted, PathAdmitted
<1>1. CASE Fail
  BY <1>0, <1>1, FailHolds
<1>2. CASE ~Fail
  <2>0. PICK n, t : n = inner[2] /\ t = top
    OBVIOUS
  <2>1. /\ phase' = "ready"
        /\ UNCHANGED <<tree, candidates, walk, handle, alias, top, inner, held, chain>>
    BY <1>2 DEF VerifyTemporary, progress
  <2>2. /\ Tree' /\ \A j \in 0 .. (Depth + 2) : Resolve(t, j)' = Resolve(t, j)
        /\ \A m : Exclusive(m)' <=> Exclusive(m)
    BY <1>0, <2>0, <2>1, SameTree
  <2>3. PathKept'
    <3>1. UNCHANGED <<link, parent, descriptor>>
      BY <2>1 DEF tree
    <3>q. QED BY <1>0, <2>1, <3>1, PathKeptStep
  <2>4. OpenAt(n, Depth + 2)' /\ Exclusive(n)'
    <3>1. Depth + 2 \in 0 .. (Depth + 2) /\ (Retained(Depth + 2)' => Retained(Depth + 2))
      BY <1>0, <2>1 DEF Retained
    <3>2. OpenAt(n, Depth + 2) /\ Exclusive(n)
      BY <1>0, <2>0 DEF PathAdmitted
    <3>q. QED BY <2>0, <2>1, <2>2, <3>1, <3>2 DEF OpenAt, Node, Root, Private, Temporary, Decoy
  <2>5. PathAdmitted'
    BY <1>0, <2>0, <2>1, <2>3, <2>4 DEF PathAdmitted, OpenAt, Exclusive
  <2>6. Candidacy'
    BY <1>0, <2>1 DEF Candidacy
  <2>q. QED BY <2>1, <2>2, <2>5, <2>6 DEF Inv, Progress, Phase, Admitted
<1>q. QED BY <1>1, <1>2

LEMMA DropHolds ==
    ASSUME Inv, Drop
    PROVE  Inv'
<1>0. phase = "ready" /\ PathAdmitted /\ PathKept /\ Tree /\ Candidacy /\ Leave("closed")
  BY DEF Drop, Inv, Progress, Admitted, PathAdmitted
<1>1. /\ Tree' /\ Candidacy' /\ phase' = "closed"
      /\ UNCHANGED <<link, candidates, alias, top, chain, inner>>
      /\ \A n \in Node : n[1] # Depth + 2 => parent'[n] = parent[n] /\ descriptor'[n] = descriptor[n]
  BY <1>0, LeaveHolds
<1>2. PathKept'
  BY <1>0, <1>1, PathKeptStep
<1>3. PathAdmitted'
  BY <1>1, <1>2 DEF PathAdmitted
<1>q. QED BY <1>1, <1>3 DEF Inv, Progress, Phase, Admitted

-----------------------------------------------------------------------------
(* Every step keeps the invariant. *)
LEMMA StepHolds ==
    ASSUME Inv, [Next]_vars
    PROVE  Inv'
<1>1. CASE Runner
  <2>1. CASE CallFails
    BY <2>1, RejectHolds, FailHolds DEF CallFails
  <2>q. QED BY <1>1, <2>1, CandidateHolds, ProbeHolds, OpenHolds, VerifyHolds,
               FinalPathHolds, CreatePrivateHolds, OpenPrivateHolds,
               VerifyPrivateHolds, CreateTemporaryHolds, HardenTemporaryHolds,
               SetSecurityInfoHolds, VerifyTemporaryHolds, DropHolds DEF Runner
<1>2. CASE OtherUser \/ UNCHANGED vars
  <2>1. Waits
    BY <1>2 DEF Waits, OtherUser, vars
  <2>q. QED BY <2>1, WaitHolds
<1>q. QED BY <1>1, <1>2 DEF Next

THEOREM PathInvariant == Spec => []Inv
<1>1. Init => Inv
  BY InitHolds
<1>2. Inv /\ [Next]_vars => Inv'
  BY StepHolds
<1>q. QED BY <1>1, <1>2, PTL DEF Spec

(* An admitted path is sealed and held, so that its names stay. *)
LEMMA InvariantGivesPath ==
    ASSUME Inv
    PROVE  AdmittedPathStays
<1> SUFFICES ASSUME Admitted PROVE AdmittedPathStays
  BY DEF AdmittedPathStays
<1>0. Depth \in Nat /\ Tree /\ PathKept /\ Candidacy /\ Drive \in 0 .. Depth /\ top \in Path
  BY DepthAssumption, DriveFact DEF Inv, Progress, PathAdmitted, Admitted
<1>1. chain[Head(candidates).drive] = alias
  <2>1. Drive \in 0 .. (Depth + 1) /\ Retained(Drive)
    BY <1>0 DEF Retained, Drive
  <2>q. QED BY <1>0, <2>1 DEF PathKept, Drive
<1>2. ASSUME NEW k \in 0 .. (Depth + 1), Retained(k)
      PROVE  LET n == Resolve(top, k) IN
             /\ n = chain[k] /\ Opens(n)
             /\ phase # "closed" => n \in held
  <2>1. PICK n : n = Resolve(top, k)
    OBVIOUS
  <2>2. n # Away /\ Sealed(n) /\ (phase # "closed" => n \in held) /\ n = chain[k]
    BY <1>0, <1>2, <2>1 DEF PathKept, Kept
  <2>3. k \in 0 .. (Depth + 2) /\ k # Depth + 2
    BY <1>0
  <2>4. n \in Node /\ n[1] = k
    BY <1>0, <2>1, <2>2, <2>3, ResolveLevel
  <2>5. link[n] = n
    BY <1>0, <2>2, <2>3, <2>4, SealedIsPlain
  <2>q. QED BY <2>1, <2>2, <2>5 DEF Opens
<1>q. QED BY <1>1, <1>2 DEF AdmittedPathStays

(***************************************************************************)
(* Once capture_root has returned, every retained name keeps naming the    *)
(* directory it was admitted with, whatever the other user does, for paths *)
(* of every depth, every access rule and every drive letter; a letter that *)
(* leads through a reparse point to its directory is retained by the real  *)
(* path of that directory alone (process.rs: capture_root_from,            *)
(* windows_security.rs: guard_directory_ancestry,                          *)
(* retain_physical_root_ancestry).                                         *)
(***************************************************************************)
THEOREM AdmittedPathTheorem == Spec => []AdmittedPathStays
<1>1. Inv => AdmittedPathStays
  BY InvariantGivesPath
<1>q. QED BY <1>1, PathInvariant, PTL

(***************************************************************************)
(* While output is captured nobody but the user and SYSTEM has any access  *)
(* to the directory that was hardened for it, nor to the private one, also *)
(* where the drive letter has led elsewhere in between; and where the path *)
(* stays these two are the ones it names (process.rs: capture_directory,   *)
(* windows_security.rs: harden_new_private_directory).                     *)
(***************************************************************************)
THEOREM EvidenceTheorem == Spec => []EvidenceIsPrivate
<1>1. Inv => EvidenceIsPrivate
  <2> SUFFICES ASSUME Inv, phase = "ready" PROVE EvidenceIsPrivate
    BY DEF EvidenceIsPrivate
  <2>1. PathAdmitted /\ PathKept /\ Depth \in Nat /\ Drive \in 0 .. Depth
    BY DepthAssumption, DriveFact DEF Inv, Progress, Admitted, PathAdmitted
  <2>2. /\ Exclusive(inner[1]) /\ (Retained(Depth + 1) => inner[1] = Resolve(top, Depth + 1))
        /\ Exclusive(inner[2]) /\ (Retained(Depth + 2) => inner[2] = Resolve(top, Depth + 2))
    BY <2>1 DEF PathAdmitted, PathKept, OpenAt
  <2>3. \A k \in {Depth + 1, Depth + 2} : Retained(k) => top = "path"
    BY <2>1 DEF Retained, Drive
  <2>q. QED BY <2>2, <2>3 DEF EvidenceIsPrivate, Exclusive
<1>q. QED BY <1>1, PathInvariant, PTL
=============================================================================
