-------------------------- MODULE AllocationProofs --------------------------
(***************************************************************************)
(* What a successful allocate vouches for is backed, no step of a call     *)
(* shortens the file, and the sparse attribute comes back, for files of    *)
(* every length on every platform.                                         *)
(***************************************************************************)
EXTENDS Allocation, FiniteSetTheorems, WellFoundedInduction, TLAPS

-----------------------------------------------------------------------------
(* A set of natural numbers that is not empty has a least element. *)
LEMMA LeastNatural ==
    ASSUME NEW T, T \subseteq Nat, T # {}
    PROVE  \E x \in T : \A y \in T : x <= y
<1>1. PICK x \in T : \A y \in T : ~ (<<y, x>> \in OpToRel(<, Nat))
  BY NatLessThanWellFounded, WFMin
<1>2. ASSUME NEW y \in T PROVE x <= y
  <2>1. y \in Nat /\ x \in Nat /\ <<y, x>> \in Nat \X Nat
    BY <1>2
  <2>2. ~(y < x)
    BY <1>1, <2>1 DEF OpToRel
  <2>q. QED BY <2>1, <2>2
<1>q. QED BY <1>2

(* Backed blocks have a last one. *)
LEMMA LastBlock ==
    ASSUME NEW S, S \subseteq Block, S # {}
    PROVE  Max(S) \in S /\ \A b \in S : Max(S) >= b
<1> DEFINE Above == {n \in Nat : \A b \in S : b <= n}
<1>1. BlockCount \in Nat /\ \A b \in S : b \in Nat /\ b <= BlockCount
  BY ConstantsAssumption DEF Block
<1>2. PICK n \in Above : \A m \in Above : n <= m
  <2>1. BlockCount \in Above
    BY <1>1
  <2>q. QED BY <2>1, LeastNatural
<1>3. n \in S
  <2>1. SUFFICES ASSUME n \notin S PROVE FALSE
    OBVIOUS
  <2>2. n # 0
    BY <1>1, <1>2, <2>1
  <2>3. n - 1 \in Above
    BY <1>1, <1>2, <2>1, <2>2
  <2>q. QED BY <1>2, <2>3
<1>4. \E x \in S : \A y \in S : x >= y
  BY <1>1, <1>2, <1>3
<1>q. QED BY <1>4 DEF Max

(* The physical end is past every backed block, and within the bound. *)
LEMMA EndFact ==
    ASSUME backed \subseteq Block
    PROVE  /\ PhysicalEnd \in Nat /\ PhysicalEnd <= BlockCount
           /\ backed \subseteq Prefix(PhysicalEnd)
<1>1. CASE backed = {}
  BY <1>1, ConstantsAssumption DEF PhysicalEnd
<1>2. CASE backed # {}
  <2>1. Max(backed) \in backed /\ \A b \in backed : Max(backed) >= b
    BY <1>2, LastBlock
  <2>2. Max(backed) \in Block /\ PhysicalEnd = Max(backed) + 1
    BY <1>2, <2>1 DEF PhysicalEnd
  <2>q. QED BY <2>1, <2>2, ConstantsAssumption DEF Block, Prefix
<1>q. QED BY <1>1, <1>2

(* Prefixes are ordered by their lengths. *)
LEMMA PrefixOrder ==
    ASSUME NEW m \in Nat, NEW n \in Nat, m <= n
    PROVE  Prefix(m) \subseteq Prefix(n) /\ n \notin Prefix(m)
BY DEF Prefix

(* A prefix has as many blocks as it says. *)
LEMMA PrefixFact ==
    ASSUME NEW n \in Nat
    PROVE  IsFiniteSet(Prefix(n)) /\ Cardinality(Prefix(n)) = n
<1>1. n - 1 \in Int /\ 0 \in Int
  OBVIOUS
<1>2. /\ IsFiniteSet(0 .. n - 1)
      /\ Cardinality(0 .. n - 1) = IF 0 > n - 1 THEN 0 ELSE (n - 1) - 0 + 1
  BY <1>1, FS_Interval
<1>q. QED BY <1>2 DEF Prefix

(* How many blocks are backed is within the bound. *)
LEMMA CountFact ==
    ASSUME backed \subseteq Block
    PROVE  Cardinality(backed) \in 0 .. BlockCount
<1>1. IsFiniteSet(Prefix(BlockCount)) /\ Cardinality(Prefix(BlockCount)) = BlockCount
  BY PrefixFact, ConstantsAssumption
<1>2. backed \in SUBSET Prefix(BlockCount)
  BY DEF Block, Prefix
<1>3. IsFiniteSet(backed) /\ Cardinality(backed) <= BlockCount
  BY <1>1, <1>2, FS_Subset
<1>4. Cardinality(backed) \in Nat
  BY <1>3, FS_CardinalityType
<1>q. QED BY <1>3, <1>4, ConstantsAssumption

-----------------------------------------------------------------------------
(* Which platforms and which files come to which stage. *)
Where ==
    /\ stage \in {"attributes", "query", "clear", "restore", "query again"} =>
          platform = "windows"
    /\ stage \in {"length", "set_len"} => platform \in {"apple", "windows"}
    /\ platform = "windows" /\ stage \in {"state", "reserve"} => attribute = "regular"
    /\ platform # "windows" => attribute = "sparse"

(* What the call knows of the length: nobody else changes it where it counts. *)
Lengths ==
    /\ len <= goal
    /\ stage = "set_len" => size < goal
    /\ stage = "reserve" /\ platform \in {"apple", "windows"} => snapshot.file_size = size
    /\ stage \in {"query", "clear", "restore", "query again"} => len <= size

(* A regular file has no holes below its end, and on Apple systems the      *)
(* blocks of a file that had none are counted from its start.               *)
Backing ==
    /\ attribute = "regular" => Prefix(size) \subseteq backed
    /\ platform = "windows" /\ stage \in {"length", "set_len"} =>
          attribute \in {"regular", "sparse"}
    /\ platform = "apple" /\ before.dense =>
          /\ stage \in {"state", "reserve"} => Dense
          /\ stage \in {"length", "set_len"} => Prefix(len) \subseteq backed

(* The attribute is away only while the holes are filled. *)
Attributes ==
    /\ stage \notin {"idle", "restore"} => attribute = before.attribute
    /\ stage \in {"query", "clear", "restore", "query again"} => before.attribute = "sparse"
    /\ AttributeComesBack

IInv == TypeOK /\ Where /\ Lengths /\ Backing /\ Attributes /\ PromisedIsBacked

-----------------------------------------------------------------------------
(* The invariant holds at the start. *)
LEMMA InitIInv == Init => IInv
<1> SUFFICES ASSUME Init PROVE IInv
  OBVIOUS
<1>1. TypeOK
  <2>1. Prefix(MaxLength) \subseteq Block
    BY ConstantsAssumption DEF Prefix, Block
  <2>q. QED BY <2>1, ConstantsAssumption
            DEF Init, TypeOK, Length, Stage, Outcome
<1>2. Where /\ Lengths /\ Attributes
  BY DEF Init, Plausible, Where, Lengths, Attributes, AttributeComesBack, Attribute
<1>3. Backing
  BY DEF Init, Plausible, Dense, Backing
<1>4. PromisedIsBacked
  <2>1. promised = 0 /\ size \in Nat
    BY ConstantsAssumption DEF Init, Length
  <2>q. QED BY <2>1 DEF PromisedIsBacked, Prefix
<1>q. QED BY <1>1, <1>2, <1>3, <1>4 DEF IInv

(* What a call may return, given what it did to the file. *)
LEMMA ReturnIInv ==
    ASSUME IInv, NEW outcome \in Outcome, Return(outcome), UNCHANGED platform,
           size' \in Length, backed' \subseteq Block, attribute' \in Attribute,
           platform # "windows" => attribute' = "sparse",
           attribute' = "regular" => Prefix(size') \subseteq backed',
           promised <= size', Prefix(promised) \subseteq backed',
           outcome = "ok" /\ (platform = "apple" => before.dense) =>
               len <= size' /\ Prefix(len) \subseteq backed',
           outcome \in {"ok", "Unsupported"} => attribute' = before.attribute
    PROVE  IInv'
<1>0. TypeOK /\ len \in Nat /\ promised \in Nat
  BY ConstantsAssumption DEF IInv, TypeOK, Length
<1>1. promised' <= size' /\ Prefix(promised') \subseteq backed' /\ promised' \in Length
  BY <1>0, ConstantsAssumption DEF Return, TypeOK, Length
<1>2. TypeOK'
  <2>1. /\ platform' \in Platform /\ before' \in [attribute : Attribute, dense : BOOLEAN]
        /\ result' \in Outcome /\ stage' \in Stage
    BY <1>0 DEF Return, TypeOK, Stage
  <2>2. len' \in 0 .. MaxLength + 1 /\ goal' \in 0 .. MaxLength + 1
    BY ConstantsAssumption DEF Return
  <2>3. snapshot' \in [allocated_size : 0 .. BlockCount, file_size : Length]
    <3>1. 0 \in 0 .. BlockCount /\ 0 \in Length
      BY ConstantsAssumption DEF Length
    <3>q. QED BY <3>1 DEF Return
  <2>q. QED BY <1>1, <2>1, <2>2, <2>3 DEF TypeOK
<1>3. stage' = "idle" /\ result' = outcome /\ before' = before /\ platform' = platform
  BY DEF Return
<1>5. Where'
  BY <1>3 DEF Where
<1>6. Lengths'
  <2>1. len' = 0 /\ goal' = 0
    BY DEF Return
  <2>q. QED BY <1>3, <2>1 DEF Lengths
<1>7. Backing'
  BY <1>3 DEF Backing
<1>8. Attributes'
  BY <1>3 DEF Attributes, AttributeComesBack
<1>4. PromisedIsBacked'
  BY <1>1 DEF PromisedIsBacked, Prefix
<1>q. QED BY <1>2, <1>4, <1>5, <1>6, <1>7, <1>8 DEF IInv

(* A return that leaves the file alone only has to be true. *)
LEMMA ReturnUnchanged ==
    ASSUME IInv, NEW outcome \in Outcome, Return(outcome), UNCHANGED <<platform, file>>,
           outcome = "ok" /\ (platform = "apple" => before.dense) =>
               len <= size /\ Prefix(len) \subseteq backed,
           outcome \in {"ok", "Unsupported"} => attribute = before.attribute
    PROVE  IInv'
<1>1. UNCHANGED <<size, backed, attribute>>
  BY DEF file
<1>2. /\ size \in Length /\ backed \subseteq Block /\ attribute \in Attribute
      /\ platform # "windows" => attribute = "sparse"
      /\ attribute = "regular" => Prefix(size) \subseteq backed
      /\ promised <= size /\ Prefix(promised) \subseteq backed
  BY DEF IInv, TypeOK, Where, Backing, PromisedIsBacked
<1>q. QED BY <1>1, <1>2, ReturnIInv

(* An error leaves nothing to answer for. *)
LEMMA FailsIInv ==
    ASSUME IInv, NEW outcome \in {"io_error", "InvalidInput"}, Return(outcome),
           UNCHANGED <<platform, file>>
    PROVE  IInv'
BY ReturnUnchanged DEF Outcome

-----------------------------------------------------------------------------
(* What set_len does to the backing. *)
LEMMA SetLenFact ==
    ASSUME IInv, NEW n \in Length, set_len(n)
    PROVE  /\ size' = n /\ backed' \subseteq Block /\ attribute' = attribute
           /\ attribute = "regular" => Prefix(n) \subseteq backed'
           /\ \A m \in Nat : Prefix(m) \subseteq backed /\ m <= n => Prefix(m) \subseteq backed'
           /\ n >= size => backed \subseteq backed'
<1>1. /\ backed \subseteq Block /\ size \in Nat /\ n \in Nat /\ n <= BlockCount
      /\ attribute = "regular" => Prefix(size) \subseteq backed
  BY ConstantsAssumption DEF IInv, TypeOK, Backing, Length
<1>2. Prefix(n) \subseteq Block
  BY <1>1, ConstantsAssumption DEF Prefix, Block
<1>3. size' = n /\ attribute' = attribute
  BY DEF set_len
<1>4. CASE n < size
  <2>1. backed' = backed \cap Prefix(n)
    BY <1>4 DEF set_len
  <2>2. Prefix(n) \subseteq Prefix(size)
    BY <1>1, <1>4 DEF Prefix
  <2>3. \A m \in Nat : m <= n => Prefix(m) \subseteq Prefix(n)
    BY <1>1 DEF Prefix
  <2>4. ~(n >= size)
    BY <1>1, <1>4
  <2>q. QED BY <1>1, <1>3, <2>1, <2>2, <2>3, <2>4
<1>5. CASE ~(n < size)
  <2>1. backed \subseteq backed' /\ backed' \subseteq Block
    BY <1>1, <1>2, <1>5 DEF set_len
  <2>2. attribute = "regular" => Prefix(n) \subseteq backed'
    BY <1>5 DEF set_len
  <2>q. QED BY <1>3, <2>1, <2>2
<1>q. QED BY <1>4, <1>5

(* Another handle resizes the file while no call depends on its length. *)
LEMMA ResizeIInv ==
    ASSUME IInv, UNCHANGED platform, LengthOwned, NEW n \in Length, Resize(n)
    PROVE  IInv'
<1>1. /\ size' = n /\ backed' \subseteq Block /\ attribute' = attribute
      /\ attribute = "regular" => Prefix(n) \subseteq backed'
      /\ \A m \in Nat : Prefix(m) \subseteq backed /\ m <= n => Prefix(m) \subseteq backed'
  BY SetLenFact DEF Resize
<1>2. UNCHANGED <<stage, len, goal, snapshot, result, before>> /\ n # size
  BY DEF Resize, call
<1>3. platform \in {"apple", "windows"} => stage = "idle"
  BY <1>1, <1>2 DEF LengthOwned, call
<1>4. /\ promised' \in Length /\ promised' <= n /\ Prefix(promised') \subseteq backed'
  <2>1. promised \in Nat /\ n \in Nat /\ promised \in Length /\ Prefix(promised) \subseteq backed
    BY ConstantsAssumption DEF IInv, TypeOK, Length, PromisedIsBacked
  <2>2. promised' = Smaller(promised, n)
    BY DEF Resize
  <2>3. promised' \in Length /\ promised' <= n /\ promised' <= promised /\ promised' \in Nat
    BY <2>1, <2>2 DEF Smaller
  <2>4. Prefix(promised') \subseteq Prefix(promised)
    BY <2>1, <2>3, PrefixOrder
  <2>q. QED BY <1>1, <2>1, <2>3, <2>4
<1>5. TypeOK'
  BY <1>1, <1>2, <1>4 DEF IInv, TypeOK
<1>6. Where'
  BY <1>1, <1>2 DEF IInv, Where
<1>7. Lengths'
  BY <1>2, <1>3 DEF IInv, Lengths, Where
<1>8. Backing'
  BY <1>1, <1>2, <1>3 DEF IInv, Backing, Where
<1>9. Attributes'
  BY <1>1, <1>2 DEF IInv, Attributes, AttributeComesBack
<1>10. PromisedIsBacked'
  BY <1>1, <1>4 DEF PromisedIsBacked, Prefix
<1>q. QED BY <1>5, <1>6, <1>7, <1>8, <1>9, <1>10 DEF IInv

(* Another handle writes a block: a dense file had it already. *)
LEMMA WriteIInv ==
    ASSUME IInv, UNCHANGED platform, NEW b \in Block, Write(b)
    PROVE  IInv'
<1>1. /\ backed \subseteq backed' /\ backed' \subseteq Block
      /\ UNCHANGED <<size, attribute, stage, len, goal, snapshot, result, before, promised>>
  BY DEF Write, call, IInv, TypeOK
<1>2. ~Dense
  <2>1. size \in Nat /\ b \in Nat /\ b < size /\ b \notin backed
    BY ConstantsAssumption DEF Write, Block, IInv, TypeOK, Length
  <2>2. b \in Prefix(size)
    BY <2>1 DEF Prefix
  <2>q. QED BY <2>1, <2>2 DEF Dense
<1>3. TypeOK'
  BY <1>1 DEF IInv, TypeOK
<1>4. Where'
  BY <1>1 DEF IInv, Where
<1>5. Lengths'
  BY <1>1 DEF IInv, Lengths
<1>6. Backing'
  <2>1. Prefix(size)' = Prefix(size) /\ Prefix(len)' = Prefix(len)
    BY <1>1 DEF Prefix
  <2>2. ~(platform = "apple" /\ before.dense /\ stage \in {"state", "reserve"})
    BY <1>2 DEF IInv, Backing
  <2>q. QED BY <1>1, <2>1, <2>2 DEF IInv, Backing
<1>7. Attributes'
  BY <1>1 DEF IInv, Attributes, AttributeComesBack
<1>8. PromisedIsBacked'
  BY <1>1 DEF IInv, PromisedIsBacked, Prefix
<1>q. QED BY <1>3, <1>4, <1>5, <1>6, <1>7, <1>8 DEF IInv

(* The owner punches a hole between calls. *)
LEMMA PunchIInv ==
    ASSUME IInv, UNCHANGED platform, NEW b \in Block, Punch(b)
    PROVE  IInv'
<1>1. /\ backed' = backed \ {b} /\ stage = "idle" /\ attribute = "sparse"
      /\ UNCHANGED <<size, attribute, stage, len, goal, snapshot, result, before>>
  BY DEF Punch, call
<1>2. /\ promised' \in Length /\ promised' <= size /\ Prefix(promised') \subseteq backed'
  <2>1. /\ promised \in Nat /\ b \in Nat /\ promised \in Length /\ size \in Nat
        /\ Prefix(promised) \subseteq backed /\ promised <= size
    BY ConstantsAssumption DEF IInv, TypeOK, Length, PromisedIsBacked, Block
  <2>2. promised' = Smaller(promised, b)
    BY DEF Punch
  <2>3. promised' \in Length /\ promised' <= b /\ promised' <= promised /\ promised' \in Nat
    BY <2>1, <2>2, ConstantsAssumption DEF Smaller, Length
  <2>4. Prefix(promised') \subseteq Prefix(promised) /\ b \notin Prefix(promised')
    BY <2>1, <2>3, PrefixOrder
  <2>q. QED BY <1>1, <2>1, <2>3, <2>4
<1>3. TypeOK'
  BY <1>1, <1>2 DEF IInv, TypeOK
<1>4. Where' /\ Lengths' /\ Backing'
  BY <1>1 DEF IInv, Where, Lengths, Backing
<1>5. Attributes'
  BY <1>1 DEF IInv, Attributes, AttributeComesBack
<1>6. PromisedIsBacked'
  BY <1>1, <1>2 DEF PromisedIsBacked, Prefix
<1>q. QED BY <1>3, <1>4, <1>5, <1>6 DEF IInv

(* A call begins. *)
LEMMA AllocateIInv ==
    ASSUME IInv, UNCHANGED platform, NEW n \in 0 .. MaxLength + 1, allocate(n)
    PROVE  IInv'
<1>1. /\ stage = "idle" /\ stage' = (IF platform = "windows" THEN "attributes" ELSE "state")
      /\ len' = n /\ goal' = n /\ result' = "none"
      /\ before' = [attribute |-> attribute, dense |-> Dense]
      /\ UNCHANGED <<size, backed, attribute, snapshot, promised>>
  BY DEF allocate, file
<1>2. TypeOK'
  <2>1. Dense \in BOOLEAN
    BY DEF Dense
  <2>2. before' \in [attribute : Attribute, dense : BOOLEAN]
    BY <1>1, <2>1 DEF IInv, TypeOK
  <2>q. QED BY <1>1, <2>2 DEF IInv, TypeOK, Stage, Outcome
<1>3. Where'
  BY <1>1 DEF IInv, Where, TypeOK, Platform
<1>4. Lengths'
  BY <1>1 DEF Lengths
<1>5. Backing'
  <2>1. Dense' = Dense /\ Prefix(size)' = Prefix(size) /\ before'.dense = Dense
    BY <1>1 DEF Dense, Prefix, PhysicalEnd
  <2>2. stage' \notin {"length", "set_len"}
    BY <1>1
  <2>3. attribute' = "regular" => Prefix(size)' \subseteq backed'
    BY <1>1, <2>1 DEF IInv, Backing
  <2>q. QED BY <2>1, <2>2, <2>3 DEF Backing
<1>6. Attributes'
  BY <1>1 DEF Attributes, AttributeComesBack
<1>7. PromisedIsBacked'
  BY <1>1 DEF IInv, PromisedIsBacked, Prefix
<1>q. QED BY <1>2, <1>3, <1>4, <1>5, <1>6, <1>7 DEF IInv

-----------------------------------------------------------------------------
(* Going on to another stage changes nothing else. *)
LEMMA GotoFact ==
    ASSUME IInv, NEW s \in Stage, Goto(s), UNCHANGED <<platform, file>>
    PROVE  /\ TypeOK' /\ PromisedIsBacked' /\ stage' = s
           /\ UNCHANGED <<platform, size, backed, attribute, len, goal, snapshot, result,
                         before, promised>>
           /\ Dense' = Dense /\ Prefix(size)' = Prefix(size) /\ Prefix(len)' = Prefix(len)
<1>1. /\ stage' = s
      /\ UNCHANGED <<platform, size, backed, attribute, len, goal, snapshot, result,
                    before, promised>>
  BY DEF Goto, file
<1>2. Dense' = Dense /\ Prefix(size)' = Prefix(size) /\ Prefix(len)' = Prefix(len)
  BY <1>1 DEF Dense, Prefix, PhysicalEnd
<1>3. TypeOK'
  BY <1>1 DEF IInv, TypeOK
<1>4. PromisedIsBacked'
  BY <1>1 DEF IInv, PromisedIsBacked, Prefix
<1>q. QED BY <1>1, <1>2, <1>3, <1>4

(* It keeps the invariant where the file is fit for that stage. *)
LEMMA GotoIInv ==
    ASSUME IInv, NEW s \in Stage, Goto(s), UNCHANGED <<platform, file>>,
           Where', Lengths', Backing', Attributes'
    PROVE  IInv'
BY GotoFact DEF IInv

(* To extend the length, the prefix has to be reserved already. *)
LEMMA GotoLength ==
    ASSUME IInv, Goto("length"), UNCHANGED <<platform, file>>,
           stage \in {"attributes", "state", "reserve"},
           platform \in {"apple", "windows"},
           platform = "windows" => attribute \in {"regular", "sparse"},
           platform = "apple" /\ before.dense => Prefix(len) \subseteq backed
    PROVE  IInv'
<1>0. "length" \in Stage
  BY DEF Stage
<1>1. /\ stage' = "length"
      /\ UNCHANGED <<platform, size, backed, attribute, len, goal, snapshot, result,
                    before, promised>>
      /\ Prefix(size)' = Prefix(size) /\ Prefix(len)' = Prefix(len)
  BY <1>0, GotoFact
<1>2. Where'
  BY <1>1 DEF IInv, Where
<1>3. Lengths'
  BY <1>1 DEF IInv, Lengths
<1>4. Backing'
  BY <1>1 DEF IInv, Backing
<1>5. Attributes'
  BY <1>1 DEF IInv, Attributes, AttributeComesBack
<1>q. QED BY <1>0, <1>2, <1>3, <1>4, <1>5, GotoIInv

(* The empty prefix is always there. *)
LEMMA NothingAsked ==
    ASSUME IInv, len = 0
    PROVE  len <= size /\ Prefix(len) \subseteq backed
<1>1. size \in Nat
  BY ConstantsAssumption DEF IInv, TypeOK, Length
<1>q. QED BY <1>1 DEF Prefix

(* A regular file that is long enough is backed. *)
LEMMA RegularIsBacked ==
    ASSUME IInv, attribute = "regular", len <= size
    PROVE  Prefix(len) \subseteq backed
<1>1. size \in Nat /\ len \in Nat /\ Prefix(size) \subseteq backed
  BY ConstantsAssumption DEF IInv, TypeOK, Length, Backing
<1>q. QED BY <1>1, PrefixOrder

(* The attributes decide how the call goes on. *)
LEMMA AttributesIInv ==
    ASSUME IInv, UNCHANGED platform, file_attributes
    PROVE  IInv'
<1>1. stage = "attributes" /\ platform = "windows" /\ attribute = before.attribute
  BY DEF file_attributes, IInv, Where, Attributes
<1>2. CASE len = 0 /\ Return("ok") /\ UNCHANGED file
  BY <1>1, <1>2, NothingAsked, ReturnUnchanged DEF Outcome
<1>3. CASE UNCHANGED file /\ Return("Unsupported")
  BY <1>1, <1>3, ReturnUnchanged DEF Outcome
<1>4. CASE UNCHANGED file /\ Return("InvalidInput")
  BY <1>4, FailsIInv
<1>5. CASE UNCHANGED file /\ attribute = "sparse" /\ Goto("length")
  BY <1>1, <1>5, GotoLength
<1>6. CASE UNCHANGED file /\ attribute = "regular" /\ Goto("state")
  <2>0. "state" \in Stage
    BY DEF Stage
  <2>1. /\ stage' = "state"
        /\ UNCHANGED <<platform, size, backed, attribute, len, goal, snapshot, result,
                      before, promised>>
        /\ Prefix(size)' = Prefix(size)
    BY <1>6, <2>0, GotoFact
  <2>2. Where'
    BY <1>1, <1>6, <2>1 DEF IInv, Where
  <2>3. Lengths'
    BY <2>1 DEF IInv, Lengths
  <2>4. Backing'
    BY <1>1, <2>1 DEF IInv, Backing
  <2>5. Attributes'
    BY <1>1, <2>1 DEF IInv, Attributes, AttributeComesBack
  <2>q. QED BY <1>6, <2>0, <2>2, <2>3, <2>4, <2>5, GotoIInv
<1>7. CASE Fails
  BY <1>7, FailsIInv DEF Fails
<1>q. QED BY <1>2, <1>3, <1>4, <1>5, <1>6, <1>7 DEF file_attributes

(* A dense file that has len backed blocks has them from its start. *)
LEMMA DenseCount ==
    ASSUME IInv, Dense, len <= Cardinality(backed)
    PROVE  Prefix(len) \subseteq backed
<1>1. PhysicalEnd \in Nat /\ len \in Nat
  BY EndFact, ConstantsAssumption DEF IInv, TypeOK
<1>2. backed = Prefix(PhysicalEnd) /\ Cardinality(backed) = PhysicalEnd
  BY <1>1, PrefixFact DEF Dense
<1>q. QED BY <1>1, <1>2, PrefixOrder

(* The snapshot says that there is something to reserve. *)
LEMMA ReserveNeeded ==
    ASSUME IInv, UNCHANGED <<platform, file>>, stage = "state",
           stage' = "reserve", snapshot' = AllocationState,
           UNCHANGED <<len, goal, result, before, promised>>
    PROVE  IInv'
<1>1. UNCHANGED <<size, backed, attribute>>
  BY DEF file
<1>2. snapshot' = [allocated_size |-> Cardinality(backed), file_size |-> size]
  BY DEF AllocationState
<1>3. snapshot' \in [allocated_size : 0 .. BlockCount, file_size : Length]
  <2>1. Cardinality(backed) \in 0 .. BlockCount /\ size \in Length
    BY CountFact DEF IInv, TypeOK
  <2>q. QED BY <1>2, <2>1
<1>4. TypeOK'
  BY <1>1, <1>3 DEF IInv, TypeOK, Stage
<1>5. Where'
  BY <1>1 DEF IInv, Where
<1>6. Lengths'
  BY <1>1, <1>2 DEF IInv, Lengths
<1>7. Backing'
  <2>1. Dense' = Dense /\ Prefix(size)' = Prefix(size)
    BY <1>1 DEF Dense, Prefix, PhysicalEnd
  <2>q. QED BY <1>1, <2>1 DEF IInv, Backing
<1>8. Attributes'
  BY <1>1 DEF IInv, Attributes, AttributeComesBack
<1>9. PromisedIsBacked'
  BY <1>1 DEF IInv, PromisedIsBacked, Prefix
<1>q. QED BY <1>4, <1>5, <1>6, <1>7, <1>8, <1>9 DEF IInv

(* Nothing to reserve: the prefix is there, or only its length is missing. *)
LEMMA ReserveNotNeeded ==
    ASSUME IInv, UNCHANGED <<platform, file>>, stage = "state",
           finish_allocation(size),
           platform # "windows" =>
               len <= Cardinality(backed) /\ (platform \in {"linux", "other"} => len = 0)
    PROVE  IInv'
<1>0. size \in Nat /\ len \in Nat /\ platform \in Platform
  BY ConstantsAssumption DEF IInv, TypeOK, Length
<1>1. platform = "windows" => attribute = "regular"
  BY DEF IInv, Where
<1>2. platform = "apple" /\ before.dense => Prefix(len) \subseteq backed
  <2>1. SUFFICES ASSUME platform = "apple", before.dense PROVE Prefix(len) \subseteq backed
    OBVIOUS
  <2>2. Dense /\ len <= Cardinality(backed)
    BY <2>1 DEF IInv, Backing
  <2>q. QED BY <2>2, DenseCount
<1>3. CASE size < len
  <2>1. Goto("length")
    BY <1>3 DEF finish_allocation
  <2>2. platform \in {"apple", "windows"}
    BY <1>0, <1>3 DEF Platform
  <2>q. QED BY <1>1, <1>2, <2>1, <2>2, GotoLength
<1>4. CASE ~(size < len)
  <2>1. Return("ok") /\ len <= size
    BY <1>0, <1>4 DEF finish_allocation
  <2>2. (platform = "apple" => before.dense) => Prefix(len) \subseteq backed
    BY <1>0, <1>1, <1>2, <2>1, RegularIsBacked, NothingAsked DEF Platform
  <2>3. attribute = before.attribute
    BY DEF IInv, Attributes
  <2>q. QED BY <2>1, <2>2, <2>3, ReturnUnchanged DEF Outcome
<1>q. QED BY <1>3, <1>4

(* The snapshot decides whether anything is reserved. *)
LEMMA StateIInv ==
    ASSUME IInv, UNCHANGED platform, allocation_state
    PROVE  IInv'
<1>1. stage = "state"
  BY DEF allocation_state
<1>2. CASE Fails
  BY <1>2, FailsIInv DEF Fails
<1>3. CASE /\ stage' = "reserve" /\ snapshot' = AllocationState /\ UNCHANGED file
           /\ UNCHANGED <<len, goal, result, before, promised>>
  BY <1>1, <1>3, ReserveNeeded
<1>4. CASE /\ finish_allocation(AllocationState.file_size) /\ UNCHANGED file
           /\ platform # "windows" => ~reservation_needed(AllocationState)
  <2>1. AllocationState.file_size = size /\ AllocationState.allocated_size = Cardinality(backed)
    BY DEF AllocationState
  <2>2. Cardinality(backed) \in Nat /\ len \in Nat
    BY CountFact, ConstantsAssumption DEF IInv, TypeOK
  <2>3. platform # "windows" =>
          len <= Cardinality(backed) /\ (platform \in {"linux", "other"} => len = 0)
    BY <1>4, <2>1, <2>2 DEF reservation_needed
  <2>q. QED BY <1>1, <1>4, <2>1, <2>3, ReserveNotNeeded
<1>q. QED BY <1>2, <1>3, <1>4 DEF allocation_state

-----------------------------------------------------------------------------
(* posix_fallocate backs and extends in one step. *)
LEMMA FallocateIInv ==
    ASSUME IInv, UNCHANGED platform, stage = "reserve", platform = "linux",
           len <= MaxLength, fallocate
    PROVE  IInv'
<1>1. /\ backed' = backed \cup Prefix(len) /\ attribute' = attribute /\ Return("ok")
      /\ size' = IF size < len THEN len ELSE size
  BY DEF fallocate
<1>2. /\ size \in Length /\ backed \subseteq Block /\ len \in Nat /\ size \in Nat
      /\ attribute = "sparse" /\ attribute \in Attribute
      /\ attribute = before.attribute
      /\ promised <= size /\ promised \in Nat /\ Prefix(promised) \subseteq backed
  BY ConstantsAssumption
     DEF IInv, TypeOK, Where, Attributes, PromisedIsBacked, Length
<1>3. Prefix(len) \subseteq Block
  BY <1>2, ConstantsAssumption DEF Prefix, Block
<1>4. size' \in Length /\ len <= size' /\ promised <= size'
  BY <1>1, <1>2, ConstantsAssumption DEF Length
<1>5. backed' \subseteq Block /\ Prefix(len) \subseteq backed' /\ Prefix(promised) \subseteq backed'
  BY <1>1, <1>2, <1>3
<1>q. QED BY <1>1, <1>2, <1>4, <1>5, ReturnIInv DEF Outcome

(* F_PREALLOCATE appends len blocks to the physical end. *)
LEMMA PreallocateIInv ==
    ASSUME IInv, UNCHANGED platform, stage = "reserve", platform = "apple", preallocate
    PROVE  IInv'
<1>0. /\ PhysicalEnd \in Nat /\ len \in Nat /\ size \in Nat /\ goal \in Nat
      /\ PhysicalEnd + len <= BlockCount
      /\ backed' = backed \cup (PhysicalEnd .. PhysicalEnd + len - 1)
      /\ UNCHANGED <<size, attribute>> /\ snapshot.file_size = size
      /\ finish_allocation(size)
  BY EndFact, ConstantsAssumption DEF IInv, TypeOK, Lengths, preallocate, Length
<1>1. /\ size \in Length /\ backed \subseteq Block
      /\ attribute = "sparse" /\ attribute \in Attribute
      /\ attribute = before.attribute
      /\ promised <= size /\ promised \in Nat /\ Prefix(promised) \subseteq backed
  BY ConstantsAssumption
     DEF IInv, TypeOK, Where, Attributes, PromisedIsBacked, Length
<1>2. backed \subseteq backed' /\ backed' \subseteq Block
  <2>1. (PhysicalEnd .. PhysicalEnd + len - 1) \subseteq Block
    BY <1>0, ConstantsAssumption DEF Block
  <2>q. QED BY <1>0, <1>1, <2>1
<1>3. before.dense => Prefix(len) \subseteq backed'
  <2>1. SUFFICES ASSUME before.dense PROVE Prefix(len) \subseteq backed'
    OBVIOUS
  <2>2. backed = Prefix(PhysicalEnd)
    BY <2>1 DEF IInv, Backing, Dense
  <2>3. Prefix(len) \subseteq Prefix(PhysicalEnd) \cup (PhysicalEnd .. PhysicalEnd + len - 1)
    BY <1>0 DEF Prefix
  <2>q. QED BY <1>0, <2>2, <2>3
<1>4. CASE ~(size < len)
  <2>1. Return("ok") /\ len <= size'
    BY <1>0, <1>4 DEF finish_allocation
  <2>2. /\ size' \in Length /\ attribute' \in Attribute
        /\ platform # "windows" => attribute' = "sparse"
        /\ attribute' = "regular" => Prefix(size') \subseteq backed'
        /\ promised <= size' /\ Prefix(promised) \subseteq backed'
        /\ attribute' = before.attribute
    BY <1>0, <1>1, <1>2
  <2>3. (platform = "apple" => before.dense) => Prefix(len) \subseteq backed'
    BY <1>3
  <2>q. QED BY <1>2, <2>1, <2>2, <2>3, ReturnIInv DEF Outcome
<1>5. CASE size < len
  <2>1. Goto("length")
    BY <1>5, <1>0 DEF finish_allocation
  <2>2. /\ stage' = "length" /\ platform' = platform
        /\ UNCHANGED <<size, attribute, len, goal, snapshot, result, before, promised>>
        /\ Prefix(len)' = Prefix(len) /\ Prefix(promised)' = Prefix(promised)
    BY <1>0, <2>1 DEF Goto, Prefix
  <2>3. TypeOK'
    BY <1>2, <2>2 DEF IInv, TypeOK, Stage
  <2>4. Where'
    BY <2>2 DEF IInv, Where
  <2>5. Lengths'
    BY <2>2 DEF IInv, Lengths
  <2>6. Backing'
    <3>1. attribute' # "regular" /\ platform' # "windows" /\ stage' = "length"
      BY <1>1, <2>2
    <3>2. before'.dense => Prefix(len)' \subseteq backed'
      BY <1>3, <2>2
    <3>q. QED BY <3>1, <3>2 DEF Backing
  <2>7. Attributes'
    BY <2>2 DEF IInv, Attributes, AttributeComesBack
  <2>8. PromisedIsBacked'
    BY <1>1, <1>2, <2>2 DEF PromisedIsBacked
  <2>q. QED BY <2>3, <2>4, <2>5, <2>6, <2>7, <2>8 DEF IInv
<1>q. QED BY <1>4, <1>5

(* FileAllocationInfo never cuts: its target is not below the length the    *)
(* snapshot saw, and nobody else changed that length.                       *)
LEMMA AllocationTarget ==
    ASSUME IInv, stage = "reserve", platform = "windows", len <= MaxLength,
           set_allocation
    PROVE  \E target \in Length :
               /\ size <= target /\ len <= target
               /\ backed' = Prefix(target) /\ size' = size /\ goal' = target
               /\ stage' = "length"
               /\ UNCHANGED <<attribute, len, snapshot, result, before, promised>>
<1>1. size \in Length /\ size \in Nat /\ len \in Nat /\ snapshot.file_size = size
  BY ConstantsAssumption DEF IInv, TypeOK, Lengths, Length
<1>2. PICK target : target = allocation_target(snapshot)
  OBVIOUS
<1>3. target \in Length /\ size <= target /\ len <= target
  BY <1>1, <1>2, ConstantsAssumption DEF allocation_target, Length
<1>4. /\ backed' = Prefix(target) /\ size' = Smaller(size, target) /\ goal' = target
      /\ stage' = "length"
      /\ UNCHANGED <<attribute, len, snapshot, result, before, promised>>
  BY <1>2 DEF set_allocation
<1>5. size' = size
  BY <1>1, <1>3, <1>4, ConstantsAssumption DEF Smaller, Length
<1>q. QED BY <1>3, <1>4, <1>5

LEMMA SetAllocationIInv ==
    ASSUME IInv, UNCHANGED platform, stage = "reserve", platform = "windows",
           len <= MaxLength, set_allocation
    PROVE  IInv'
<1>1. PICK target \in Length :
          /\ size <= target /\ len <= target
          /\ backed' = Prefix(target) /\ size' = size /\ goal' = target
          /\ stage' = "length"
          /\ UNCHANGED <<attribute, len, snapshot, result, before, promised>>
  BY AllocationTarget
<1>2. /\ target \in Nat /\ target <= MaxLength /\ size \in Nat /\ promised \in Nat
      /\ promised <= size /\ attribute = "regular"
  BY ConstantsAssumption DEF IInv, TypeOK, Where, PromisedIsBacked, Length
<1>3. Prefix(target) \subseteq Block
  BY <1>2, ConstantsAssumption DEF Prefix, Block
<1>4. Prefix(size) \subseteq Prefix(target) /\ Prefix(promised) \subseteq Prefix(target)
  BY <1>1, <1>2, PrefixOrder
<1>5. Prefix(size)' = Prefix(size) /\ Prefix(promised)' = Prefix(promised)
  BY <1>1 DEF Prefix
<1>6. TypeOK'
  <2>1. goal' \in 0 .. MaxLength + 1
    BY <1>1, <1>2, ConstantsAssumption
  <2>q. QED BY <1>1, <1>3, <2>1 DEF IInv, TypeOK, Stage
<1>7. Where'
  BY <1>1 DEF IInv, Where
<1>8. Lengths'
  BY <1>1 DEF Lengths
<1>9. Backing'
  BY <1>1, <1>2, <1>4, <1>5 DEF Backing
<1>10. Attributes'
  BY <1>1 DEF IInv, Attributes, AttributeComesBack
<1>11. PromisedIsBacked'
  BY <1>1, <1>2, <1>4, <1>5 DEF PromisedIsBacked
<1>q. QED BY <1>6, <1>7, <1>8, <1>9, <1>10, <1>11 DEF IInv

(* The platform's primitive, or a refusal. *)
LEMMA ReserveIInv ==
    ASSUME IInv, UNCHANGED platform, allocate_space
    PROVE  IInv'
<1>1. stage = "reserve" /\ attribute = before.attribute
  BY DEF allocate_space, IInv, Attributes
<1>2. CASE Return("Unsupported") /\ UNCHANGED file
  BY <1>1, <1>2, ReturnUnchanged DEF Outcome
<1>3. CASE Return("InvalidInput") /\ UNCHANGED file
  BY <1>3, FailsIInv
<1>4. CASE Fails
  BY <1>4, FailsIInv DEF Fails
<1>5. CASE len <= MaxLength /\ platform = "linux" /\ fallocate
  BY <1>1, <1>5, FallocateIInv
<1>6. CASE platform = "apple" /\ preallocate
  BY <1>1, <1>6, PreallocateIInv
<1>7. CASE len <= MaxLength /\ platform = "windows" /\ set_allocation
  BY <1>1, <1>7, SetAllocationIInv
<1>q. QED BY <1>2, <1>3, <1>4, <1>5, <1>6, <1>7 DEF allocate_space

-----------------------------------------------------------------------------
(* The file is long enough: what is left to do is told by its attribute. *)
LEMMA ExtendedIInv ==
    ASSUME IInv, UNCHANGED platform, stage \in {"length", "set_len"}, extended,
           size' \in Length, size <= size', backed' \subseteq Block,
           attribute' = attribute, backed \subseteq backed',
           attribute = "regular" => Prefix(size') \subseteq backed',
           len <= size'
    PROVE  IInv'
<1>1. /\ promised <= size' /\ promised \in Nat /\ Prefix(promised) \subseteq backed'
      /\ size' \in Nat /\ len \in Nat /\ attribute = before.attribute
      /\ platform \in {"apple", "windows"} /\ attribute \in Attribute
      /\ platform = "windows" => attribute \in {"regular", "sparse"}
      /\ platform # "windows" => attribute = "sparse"
  <2>1. size \in Nat /\ size' \in Nat /\ promised \in Nat /\ promised <= size
    BY ConstantsAssumption DEF IInv, TypeOK, PromisedIsBacked, Length
  <2>2. promised <= size'
    BY <2>1
  <2>3. Prefix(promised) \subseteq backed'
    BY DEF IInv, PromisedIsBacked
  <2>4. len \in Nat /\ attribute \in Attribute
    BY ConstantsAssumption DEF IInv, TypeOK
  <2>5. /\ attribute = before.attribute /\ platform \in {"apple", "windows"}
        /\ platform = "windows" => attribute \in {"regular", "sparse"}
        /\ platform # "windows" => attribute = "sparse"
    BY DEF IInv, Where, Backing, Attributes
  <2>q. QED BY <2>1, <2>2, <2>3, <2>4, <2>5
<1>2. CASE platform = "windows" /\ attribute = "sparse"
  <2>1. Goto("query")
    BY <1>2 DEF extended
  <2>2. /\ stage' = "query"
        /\ UNCHANGED <<platform, attribute, len, goal, snapshot, result, before, promised>>
        /\ Prefix(promised)' = Prefix(promised)
    BY <2>1 DEF Goto, Prefix
  <2>3. TypeOK'
    BY <2>2 DEF IInv, TypeOK, Stage
  <2>4. Where'
    BY <1>2, <2>2 DEF Where
  <2>5. Lengths'
    BY <2>2 DEF IInv, Lengths
  <2>6. Backing'
    BY <1>2, <2>2 DEF Backing
  <2>7. Attributes'
    BY <1>1, <1>2, <2>2 DEF Attributes, AttributeComesBack
  <2>8. PromisedIsBacked'
    BY <1>1, <2>2 DEF PromisedIsBacked
  <2>q. QED BY <2>3, <2>4, <2>5, <2>6, <2>7, <2>8 DEF IInv
<1>3. CASE ~(platform = "windows" /\ attribute = "sparse")
  <2>1. Return("ok")
    BY <1>3 DEF extended
  <2>2. platform = "windows" => Prefix(len) \subseteq backed'
    <3>1. Prefix(len) \subseteq Prefix(size')
      BY <1>1, PrefixOrder
    <3>q. QED BY <1>1, <1>3, <3>1
  <2>3. platform = "apple" /\ before.dense => Prefix(len) \subseteq backed'
    BY DEF IInv, Backing
  <2>4. (platform = "apple" => before.dense) => Prefix(len) \subseteq backed'
    BY <1>1, <2>2, <2>3
  <2>5. /\ attribute' \in Attribute /\ attribute' = before.attribute
        /\ platform # "windows" => attribute' = "sparse"
        /\ attribute' = "regular" => Prefix(size') \subseteq backed'
    BY <1>1
  <2>q. QED BY <1>1, <2>1, <2>4, <2>5, ReturnIInv DEF Outcome
<1>q. QED BY <1>2, <1>3

(* Only a file seen too short is given its new length. *)
LEMMA ExtendIInv ==
    ASSUME IInv, UNCHANGED platform, extend_file_length
    PROVE  IInv'
<1>0. stage = "length"
  BY DEF extend_file_length
<1>1. CASE Fails
  BY <1>1, FailsIInv DEF Fails
<1>2. CASE size < goal /\ Goto("set_len") /\ UNCHANGED file
  <2>0. "set_len" \in Stage
    BY DEF Stage
  <2>1. /\ stage' = "set_len"
        /\ UNCHANGED <<platform, size, backed, attribute, len, goal, snapshot, result,
                      before, promised>>
        /\ Prefix(size)' = Prefix(size) /\ Prefix(len)' = Prefix(len)
    BY <1>2, <2>0, GotoFact
  <2>2. Where'
    BY <1>0, <2>1 DEF IInv, Where
  <2>3. Lengths'
    BY <1>2, <2>1 DEF IInv, Lengths
  <2>4. Backing'
    BY <1>0, <2>1 DEF IInv, Backing
  <2>5. Attributes'
    BY <1>0, <2>1 DEF IInv, Attributes, AttributeComesBack
  <2>q. QED BY <1>2, <2>0, <2>2, <2>3, <2>4, <2>5, GotoIInv
<1>3. CASE ~(size < goal) /\ extended /\ UNCHANGED file
  <2>1. UNCHANGED <<size, backed, attribute>>
    BY <1>3 DEF file
  <2>2. size \in Nat /\ len \in Nat /\ goal \in Nat /\ len <= goal
    <3>1. /\ size \in Length /\ len \in 0 .. MaxLength + 1 /\ goal \in 0 .. MaxLength + 1
          /\ len <= goal
      BY DEF IInv, TypeOK, Lengths
    <3>q. QED BY <3>1, ConstantsAssumption DEF Length
  <2>3. /\ size' \in Length /\ size <= size' /\ backed' \subseteq Block
        /\ backed \subseteq backed' /\ len <= size'
        /\ attribute = "regular" => Prefix(size') \subseteq backed'
    BY <1>3, <2>1, <2>2 DEF IInv, TypeOK, Backing
  <2>q. QED BY <1>0, <1>3, <2>1, <2>3, ExtendedIInv
<1>q. QED BY <1>1, <1>2, <1>3 DEF extend_file_length

(* set_len, on a file that is still too short, only lengthens it. *)
LEMMA ExtendWithIInv ==
    ASSUME IInv, UNCHANGED platform, extend_file_length_with
    PROVE  IInv'
<1>0. stage = "set_len" /\ size < goal /\ len <= goal
  BY DEF extend_file_length_with, IInv, Lengths
<1>1. CASE Fails
  BY <1>1, FailsIInv DEF Fails
<1>2. CASE Return("InvalidInput") /\ UNCHANGED file
  BY <1>2, FailsIInv
<1>3. CASE goal <= MaxLength /\ set_len(goal) /\ extended
  <2>1. size \in Nat /\ goal \in Length /\ goal >= size /\ size <= goal
    BY <1>0, <1>3, ConstantsAssumption DEF IInv, TypeOK, Length
  <2>2. /\ size' = goal /\ backed' \subseteq Block /\ attribute' = attribute
        /\ attribute = "regular" => Prefix(goal) \subseteq backed'
        /\ backed \subseteq backed'
    BY <1>3, <2>1, SetLenFact
  <2>q. QED BY <1>0, <1>3, <2>1, <2>2, ExtendedIInv
<1>q. QED BY <1>1, <1>2, <1>3 DEF extend_file_length_with

-----------------------------------------------------------------------------
(* Between the stages of a sparse call only the stage changes. *)
LEMMA SparseGoto ==
    ASSUME IInv, NEW s \in {"clear", "restore", "query again"}, Goto(s),
           UNCHANGED <<platform, file>>,
           stage \in {"query", "clear", "restore"},
           s # "restore" => attribute = before.attribute
    PROVE  IInv'
<1>0. s \in Stage
  BY DEF Stage
<1>1. /\ stage' = s
      /\ UNCHANGED <<platform, size, backed, attribute, len, goal, snapshot, result,
                    before, promised>>
      /\ Prefix(size)' = Prefix(size)
  BY <1>0, GotoFact
<1>2. Where'
  BY <1>1 DEF IInv, Where
<1>3. Lengths'
  BY <1>1 DEF IInv, Lengths
<1>4. Backing'
  BY <1>1 DEF IInv, Backing
<1>5. Attributes'
  BY <1>1 DEF IInv, Attributes, AttributeComesBack
<1>q. QED BY <1>0, <1>2, <1>3, <1>4, <1>5, GotoIInv

(* The query: covered, refused, or holes to fill. *)
LEMMA SparseIInv ==
    ASSUME IInv, UNCHANGED platform, reserve_sparse_range
    PROVE  IInv'
<1>0. /\ stage \in {"query", "query again"} /\ len <= size /\ attribute = before.attribute
      /\ UNCHANGED file
  BY DEF reserve_sparse_range, IInv, Lengths, Attributes
<1>1. CASE Return("Unsupported")
  BY <1>0, <1>1, ReturnUnchanged DEF Outcome
<1>2. CASE requested_range_is_allocated /\ Return("ok")
  BY <1>0, <1>2, ReturnUnchanged DEF Outcome, requested_range_is_allocated
<1>3. CASE stage = "query" /\ Goto("clear")
  BY <1>0, <1>3, SparseGoto
<1>q. QED BY <1>1, <1>2, <1>3 DEF reserve_sparse_range

(* Clearing the attribute fills the holes below the end. *)
LEMMA ClearIInv ==
    ASSUME IInv, UNCHANGED platform, clear_sparse_file
    PROVE  IInv'
<1>0. stage = "clear" /\ attribute = before.attribute /\ platform = "windows"
  BY DEF clear_sparse_file, IInv, Attributes, Where
<1>1. CASE Return("Unsupported") /\ UNCHANGED file
  BY <1>0, <1>1, ReturnUnchanged DEF Outcome
<1>2. CASE Fails
  BY <1>2, FailsIInv DEF Fails
<1>3. CASE UNCHANGED file /\ Goto("restore")
  BY <1>0, <1>3, SparseGoto
<1>4. CASE /\ backed' = backed \cup Prefix(size) /\ attribute' = "regular"
           /\ UNCHANGED size /\ Goto("restore")
  <2>1. /\ stage' = "restore"
        /\ UNCHANGED <<platform, size, len, goal, snapshot, result, before, promised>>
        /\ Prefix(size)' = Prefix(size) /\ Prefix(promised)' = Prefix(promised)
    BY <1>4 DEF Goto, Prefix
  <2>2. Prefix(size) \subseteq Block
    <3>1. size \in Nat /\ size <= BlockCount
      BY ConstantsAssumption DEF IInv, TypeOK, Length
    <3>q. QED BY <3>1, ConstantsAssumption DEF Prefix, Block
  <2>3. TypeOK'
    BY <1>4, <2>1, <2>2 DEF IInv, TypeOK, Stage, Attribute
  <2>4. Where'
    BY <1>0, <2>1 DEF Where
  <2>5. Lengths'
    BY <1>0, <2>1 DEF IInv, Lengths
  <2>6. Backing'
    BY <1>0, <1>4, <2>1 DEF Backing
  <2>7. Attributes'
    BY <1>0, <2>1 DEF IInv, Attributes, AttributeComesBack
  <2>8. PromisedIsBacked'
    BY <1>4, <2>1 DEF IInv, PromisedIsBacked
  <2>q. QED BY <2>3, <2>4, <2>5, <2>6, <2>7, <2>8 DEF IInv
<1>q. QED BY <1>1, <1>2, <1>3, <1>4 DEF clear_sparse_file

(* The attribute is set again, or the call fails without it. *)
LEMMA RestoreIInv ==
    ASSUME IInv, UNCHANGED platform, set_sparse_file
    PROVE  IInv'
<1>0. stage = "restore" /\ before.attribute = "sparse" /\ platform = "windows"
  BY DEF set_sparse_file, IInv, Attributes, Where
<1>1. CASE Fails
  BY <1>1, FailsIInv DEF Fails
<1>2. CASE attribute' = "sparse" /\ UNCHANGED <<size, backed>> /\ Goto("query again")
  <2>1. /\ stage' = "query again"
        /\ UNCHANGED <<platform, size, backed, len, goal, snapshot, result, before, promised>>
        /\ Prefix(promised)' = Prefix(promised)
    BY <1>2 DEF Goto, Prefix
  <2>2. TypeOK'
    BY <1>2, <2>1 DEF IInv, TypeOK, Stage, Attribute
  <2>3. Where'
    BY <1>0, <2>1 DEF Where
  <2>4. Lengths'
    BY <1>0, <2>1 DEF IInv, Lengths
  <2>5. Backing'
    BY <1>0, <1>2, <2>1 DEF Backing
  <2>6. Attributes'
    BY <1>0, <1>2, <2>1 DEF Attributes, AttributeComesBack
  <2>7. PromisedIsBacked'
    BY <2>1 DEF IInv, PromisedIsBacked
  <2>q. QED BY <2>2, <2>3, <2>4, <2>5, <2>6, <2>7 DEF IInv
<1>q. QED BY <1>1, <1>2 DEF set_sparse_file

-----------------------------------------------------------------------------
LEMMA NextIInv == IInv /\ [Next /\ LengthOwned]_vars => IInv'
<1> SUFFICES ASSUME IInv, [Next /\ LengthOwned]_vars PROVE IInv'
  OBVIOUS
<1>1. CASE UNCHANGED vars
  <2>1. UNCHANGED <<platform, size, backed, attribute, stage, len, goal, snapshot, result,
                   before, promised>>
    BY <1>1 DEF vars, file, call
  <2>2. Dense' = Dense /\ Prefix(size)' = Prefix(size) /\ Prefix(len)' = Prefix(len)
    BY <2>1 DEF Dense, Prefix, PhysicalEnd
  <2>3. TypeOK' /\ Where' /\ Lengths'
    BY <2>1 DEF IInv, TypeOK, Where, Lengths
  <2>4. Backing'
    BY <2>1, <2>2 DEF IInv, Backing
  <2>5. Attributes' /\ PromisedIsBacked'
    BY <2>1 DEF IInv, Attributes, AttributeComesBack, PromisedIsBacked, Prefix
  <2>q. QED BY <2>3, <2>4, <2>5 DEF IInv
<1>2. CASE Next /\ LengthOwned
  <2>0. UNCHANGED platform
    BY <1>2 DEF Next
  <2>1. CASE \E n \in 0 .. MaxLength + 1 : allocate(n)
    BY <2>0, <2>1, AllocateIInv
  <2>2. CASE Call
    <3>1. CASE file_attributes
      BY <2>0, <3>1, AttributesIInv
    <3>2. CASE allocation_state
      BY <2>0, <3>2, StateIInv
    <3>3. CASE allocate_space
      BY <2>0, <3>3, ReserveIInv
    <3>4. CASE extend_file_length
      BY <2>0, <3>4, ExtendIInv
    <3>5. CASE extend_file_length_with
      BY <2>0, <3>5, ExtendWithIInv
    <3>6. CASE reserve_sparse_range
      BY <2>0, <3>6, SparseIInv
    <3>7. CASE clear_sparse_file
      BY <2>0, <3>7, ClearIInv
    <3>8. CASE set_sparse_file
      BY <2>0, <3>8, RestoreIInv
    <3>q. QED BY <2>2, <3>1, <3>2, <3>3, <3>4, <3>5, <3>6, <3>7, <3>8 DEF Call
  <2>3. CASE \E n \in Length : Resize(n)
    BY <1>2, <2>0, <2>3, ResizeIInv
  <2>4. CASE \E b \in Block : Write(b) \/ Punch(b)
    BY <2>0, <2>4, WriteIInv, PunchIInv
  <2>q. QED BY <1>2, <2>1, <2>2, <2>3, <2>4 DEF Next
<1>q. QED BY <1>1, <1>2

(***************************************************************************)
(* What the call knows of the file at each stage holds throughout, on      *)
(* every platform (allocation.rs, unix/allocation.rs, windows/             *)
(* allocation.rs).                                                         *)
(***************************************************************************)
THEOREM AllocationInvariant == Spec => []IInv
<1>1. Init => IInv
  BY InitIInv
<1>2. IInv /\ [Next /\ LengthOwned]_vars => IInv'
  BY NextIInv
<1>q. QED BY <1>1, <1>2, PTL DEF Spec

(* The variables keep their types in every call. *)
THEOREM AllocationTypeCorrect == Spec => []TypeOK
<1>1. IInv => TypeOK
  BY DEF IInv
<1>q. QED BY <1>1, AllocationInvariant, PTL

(***************************************************************************)
(* After Ok, every block of the prefix asked for is backed, for files of   *)
(* every length, whatever other handles write meanwhile (allocate).        *)
(***************************************************************************)
THEOREM PromiseHolds == Spec => []PromisedIsBacked
<1>1. IInv => PromisedIsBacked
  BY DEF IInv
<1>q. QED BY <1>1, AllocationInvariant, PTL

(***************************************************************************)
(* A call that cleared the sparse attribute and did not fail set it again  *)
(* (windows/allocation.rs, reserve_sparse_range).                          *)
(***************************************************************************)
THEOREM AttributeHolds == Spec => []AttributeComesBack
<1>1. IInv => AttributeComesBack
  BY DEF IInv, Attributes
<1>q. QED BY <1>1, AllocationInvariant, PTL

-----------------------------------------------------------------------------
KeepsTheFile == size' >= size /\ (backed \cap Prefix(size)) \subseteq backed'

(* A step that takes nothing away keeps the file. *)
LEMMA GrowthKeeps ==
    ASSUME IInv, backed \subseteq backed', size' = size \/ size' >= size
    PROVE  KeepsTheFile
<1>1. size \in Nat
  BY ConstantsAssumption DEF IInv, TypeOK, Length
<1>2. size' >= size
  BY <1>1
<1>q. QED BY <1>2 DEF KeepsTheFile

LEMMA UnchangedKeeps ==
    ASSUME IInv, UNCHANGED file
    PROVE  KeepsTheFile
<1>1. backed' = backed /\ size' = size
  BY DEF file
<1>q. QED BY <1>1, GrowthKeeps

(* Every platform's primitive keeps the file. *)
LEMMA ReserveKeeps ==
    ASSUME IInv, allocate_space
    PROVE  KeepsTheFile
<1>0. size \in Nat /\ len \in Nat
  BY ConstantsAssumption DEF IInv, TypeOK, Length
<1>1. CASE UNCHANGED file
  BY <1>1, UnchangedKeeps
<1>2. CASE Fails
  BY <1>2, UnchangedKeeps DEF Fails
<1>3. CASE fallocate
  <2>1. backed \subseteq backed' /\ size' >= size
    BY <1>0, <1>3 DEF fallocate
  <2>q. QED BY <2>1, GrowthKeeps
<1>4. CASE preallocate
  <2>1. backed \subseteq backed' /\ size' = size
    BY <1>4 DEF preallocate
  <2>q. QED BY <2>1, GrowthKeeps
<1>5. CASE stage = "reserve" /\ len <= MaxLength /\ platform = "windows" /\ set_allocation
  <2>1. PICK target \in Length :
            size <= target /\ backed' = Prefix(target) /\ size' = size
    BY <1>5, AllocationTarget
  <2>2. Prefix(size) \subseteq Prefix(target)
    BY <1>0, <2>1, PrefixOrder, ConstantsAssumption DEF Length
  <2>3. size' >= size
    BY <1>0, <2>1
  <2>q. QED BY <2>1, <2>2, <2>3 DEF KeepsTheFile
<1>q. QED BY <1>1, <1>2, <1>3, <1>4, <1>5 DEF allocate_space

(* So does the exact set_len, decided on another snapshot. *)
LEMMA ExtendWithKeeps ==
    ASSUME IInv, extend_file_length_with
    PROVE  KeepsTheFile
<1>0. stage = "set_len" /\ size < goal
  BY DEF extend_file_length_with, IInv, Lengths
<1>1. CASE UNCHANGED file
  BY <1>1, UnchangedKeeps
<1>2. CASE Fails
  BY <1>2, UnchangedKeeps DEF Fails
<1>3. CASE goal <= MaxLength /\ set_len(goal)
  <2>1. goal \in Length /\ goal >= size
    BY <1>0, <1>3, ConstantsAssumption DEF IInv, TypeOK, Length
  <2>2. backed \subseteq backed' /\ size' = goal
    BY <1>3, <2>1, SetLenFact
  <2>q. QED BY <2>1, <2>2, GrowthKeeps
<1>q. QED BY <1>1, <1>2, <1>3 DEF extend_file_length_with

LEMMA CallKeeps ==
    ASSUME IInv, [Next /\ LengthOwned]_vars, call' # call
    PROVE  KeepsTheFile
<1>0. Next
  BY DEF vars, call
<1>1. CASE \E n \in 0 .. MaxLength + 1 : allocate(n)
  BY <1>1, UnchangedKeeps DEF allocate
<1>2. CASE Call
  <2>1. CASE file_attributes \/ allocation_state \/ extend_file_length
             \/ reserve_sparse_range
    <3>1. UNCHANGED file
      BY <2>1 DEF file_attributes, allocation_state, extend_file_length,
                  reserve_sparse_range, Fails
    <3>q. QED BY <3>1, UnchangedKeeps
  <2>2. CASE clear_sparse_file \/ set_sparse_file
    <3>1. backed \subseteq backed' /\ size' = size
      BY <2>2 DEF clear_sparse_file, set_sparse_file, Fails, file
    <3>q. QED BY <3>1, GrowthKeeps
  <2>3. CASE allocate_space
    BY <2>3, ReserveKeeps
  <2>4. CASE extend_file_length_with
    BY <2>4, ExtendWithKeeps
  <2>q. QED BY <1>2, <2>1, <2>2, <2>3, <2>4 DEF Call
<1>3. CASE \E n \in Length : Resize(n)
  BY <1>3 DEF Resize, call
<1>4. CASE \E b \in Block : Write(b) \/ Punch(b)
  BY <1>4 DEF Write, Punch, call
<1>q. QED BY <1>0, <1>1, <1>2, <1>3, <1>4 DEF Next

(***************************************************************************)
(* No step of a call, successful or failing, cuts the file or takes away   *)
(* backing below its end, although set_len and FileAllocationInfo both     *)
(* can (allocation.rs, extend_file_length; windows/allocation.rs).         *)
(***************************************************************************)
THEOREM FileIsKept == Spec => CallKeepsTheFile
<1>1. IInv /\ [Next /\ LengthOwned]_vars =>
        [call' # call => size' >= size /\ (backed \cap Prefix(size)) \subseteq backed']_vars
  BY CallKeeps DEF KeepsTheFile
<1>q. QED BY <1>1, AllocationInvariant, PTL DEF Spec, CallKeepsTheFile
=============================================================================
