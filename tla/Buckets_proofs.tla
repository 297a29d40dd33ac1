--------------------------- MODULE Buckets_proofs ---------------------------
(***************************************************************************)
(* Theorems about Buckets, for every set of ids, width, capacity and set   *)
(* of instants that satisfies the assumptions of that module.              *)
(*                                                                         *)
(* The inductive invariant IInv says that every item is in the bucket its  *)
(* id names, that no id occurs twice and ours not at all, and that only    *)
(* the bucket the overflow loop stands at may be too full, by one.  The    *)
(* single hard step is SplitOrTrim; Rehoming says what it does to the      *)
(* table before the excess is cut off.                                     *)
(***************************************************************************)
EXTENDS Buckets, FiniteSetTheorems, SequenceTheorems, TLAPS

Placed(tbl) ==
    \A i \in 1 .. Len(tbl) : \A x \in tbl[i] : i = DestBucketIdx(Len(tbl), x.id)

Distinct ==
    \A i, j \in Indices : \A x \in buckets[i], y \in buckets[j] : x.id = y.id => x = y

NotOurs == \A i \in Indices : \A x \in buckets[i] : x.id # our_id

AllFinite == \A i \in Indices : IsFiniteSet(buckets[i])

IInv ==
    /\ TypeOK
    /\ AllFinite
    /\ Placed(buckets)
    /\ NotOurs
    /\ Distinct
    /\ Capacity
    /\ BucketCount

USE BucketsAssumption

----------------------------------------------------------------------------
(* Finite sets.                                                            *)

\* A set whose members are all equal has at most one.
LEMMA AtMostOne ==
    ASSUME NEW S, IsFiniteSet(S), \A x, y \in S : x = y
    PROVE  Cardinality(S) <= 1
<1>1. CASE S = {}
    BY <1>1, FS_EmptySet
<1>2. CASE S # {}
    <2>1. PICK x : x \in S
        BY <1>2
    <2>2. S = {x}
        BY <2>1
    <2>3. Cardinality({x}) = 1
        BY FS_Singleton
    <2> QED
        BY <2>2, <2>3
<1> QED
    BY <1>1, <1>2

\* What KeptOf may leave of a set that is at most one too large: the set, or
\* the set without one of its newest members.
LEMMA KeptOfOneTooMany ==
    ASSUME NEW S \in SUBSET Item, IsFiniteSet(S), Cardinality(S) <= K + 1,
           NEW R \in KeptOf(S)
    PROVE  /\ R \subseteq S
           /\ IsFiniteSet(R)
           /\ Cardinality(R) <= K
           /\ \/ R = S
              \/ /\ Cardinality(S) = K + 1
                 /\ \E y \in S : /\ R = S \ {y}
                                 /\ \A x \in S : x.first_seen <= y.first_seen
<1> Cardinality(S) \in Nat
    BY FS_CardinalityType
<1>1. CASE Cardinality(S) <= K
    BY <1>1 DEF KeptOf
<1>2. CASE Cardinality(S) > K
    <2>1. Cardinality(S) = K + 1
        BY <1>2
    <2>2. /\ R \subseteq S
          /\ Cardinality(R) = K
          /\ \A x \in R, y \in S \ R : x.first_seen <= y.first_seen
        BY <1>2 DEF KeptOf
    <2>3. IsFiniteSet(R) /\ S \cap R = R
        BY <2>2, FS_Subset
    <2>4. IsFiniteSet(S \ R) /\ Cardinality(S \ R) = 1
        <3>1. /\ IsFiniteSet(S \ R)
              /\ Cardinality(S \ R) = Cardinality(S) - Cardinality(S \cap R)
            BY FS_Difference
        <3>2. Cardinality(S \cap R) = Cardinality(R)
            BY <2>3
        <3> QED
            BY <2>1, <2>2, <3>1, <3>2
    <2>5. PICK y : S \ R = {y}
        BY <2>4, FS_Singleton
    <2>6. R = S \ {y} /\ y \in S
        BY <2>2, <2>5
    <2>7. \A x \in S : x.first_seen <= y.first_seen
        <3>1. \A x \in S : x.first_seen \in Int
            BY DEF Item
        <3>2. y \in S \ R
            BY <2>5
        <3>3. \A x \in R : x.first_seen <= y.first_seen
            BY <2>2, <3>2
        <3> QED
            BY <2>6, <3>1, <3>3
    <2> QED
        BY <2>1, <2>2, <2>3, <2>6, <2>7
<1> QED
    BY <1>1, <1>2

----------------------------------------------------------------------------
(* The overflow loop.                                                      *)

\* A deepest bucket that overflows is not yet the IdBits-th: at most one id
\* shares IdBits - 1 bits with ours.
LEMMA RoomToSplit ==
    ASSUME IInv, Len(buckets) \in Indices, Cardinality(buckets[Len(buckets)]) > K
    PROVE  Len(buckets) < IdBits
<1> DEFINE n == Len(buckets)
           S == buckets[n]
<1>1. n \in Nat /\ n >= 1 /\ n <= IdBits /\ S \in SUBSET Item /\ IsFiniteSet(S)
    BY DEF IInv, TypeOK, AllFinite, BucketCount, Indices
<1>2. SUFFICES ASSUME n = IdBits
               PROVE  FALSE
    BY <1>1
<1>3. \A x \in S : x.id \in Id /\ x.id # our_id /\ Prefix[our_id][x.id] = IdBits - 1
    <2> SUFFICES ASSUME NEW x \in S
                 PROVE  x.id \in Id /\ x.id # our_id /\ Prefix[our_id][x.id] = IdBits - 1
        OBVIOUS
    <2>1. x.id \in Id /\ our_id \in Id /\ x.id # our_id
        BY <1>1 DEF Item, IInv, NotOurs, Indices, TypeOK
    <2>2. n = DestBucketIdx(n, x.id)
        BY <1>1 DEF IInv, Placed
    <2>3. Prefix[our_id][x.id] \in Nat /\ Prefix[our_id][x.id] < IdBits
        BY <2>1, PrefixAssumption
    <2> QED
        BY <1>1, <1>2, <2>1, <2>2, <2>3 DEF DestBucketIdx
<1>4. \A x, y \in S : x.id = y.id
    BY <1>3, PrefixAssumption DEF IInv, TypeOK
<1>5. \A x, y \in S : x = y
    BY <1>1, <1>4 DEF IInv, Distinct, Indices
<1>6. Cardinality(S) <= 1 /\ Cardinality(S) \in Nat
    BY <1>1, <1>5, AtMostOne, FS_CardinalityType
<1> QED
    BY <1>6

\* What an overflowing iteration makes of the table before it cuts: at most one
\* more bucket, every item where its id says, nothing lost; bucket i keeps some
\* of its items, the others that move go to the new deepest bucket.
LEMMA Rehoming ==
    ASSUME IInv, bucket_index \in Indices, Cardinality(buckets[bucket_index]) > K
    PROVE  LET i == bucket_index
               moved == Rehomed(Grown(i), i)
           IN  /\ moved \in Seq(SUBSET Item)
               /\ i < Len(moved)
               /\ Len(moved) <= IdBits
               /\ \/ Len(moved) = Len(buckets)
                  \/ i = Len(buckets) /\ Len(moved) = Len(buckets) + 1
               /\ Placed(moved)
               /\ \A j \in Indices \ {i} : moved[j] = buckets[j]
               /\ moved[i] \subseteq buckets[i]
               /\ Len(moved) = Len(buckets) => moved[i] = buckets[i]
               /\ Len(moved) = Len(buckets) + 1 =>
                     /\ moved[Len(moved)] \subseteq buckets[i]
                     /\ moved[i] \cup moved[Len(moved)] = buckets[i]
                     /\ moved[i] \cap moved[Len(moved)] = {}
<1> DEFINE i == bucket_index
           n == Len(buckets)
           moved == Rehomed(Grown(i), i)
<1> HIDE DEF moved
<1>1. /\ n \in Nat /\ n >= 1 /\ n <= IdBits /\ i \in 1 .. n
      /\ buckets \in Seq(SUBSET Item)
      /\ \A j \in 1 .. n : buckets[j] \in SUBSET Item
    BY DEF IInv, TypeOK, BucketCount, Indices
<1>2. \A j \in 1 .. n : \A x \in buckets[j] : j = DestBucketIdx(n, x.id)
    BY DEF IInv, Placed
<1>3. \A j \in 1 .. n : \A x \in buckets[j] : Prefix[our_id][x.id] \in Nat
    BY <1>1 DEF Item, IInv, TypeOK
<1>4. CASE i < n
    <2>1. Grown(i) = buckets
        BY <1>4 DEF Grown
    <2>2. moved = [j \in 1 .. n |-> buckets[j]]
        <3>1. moved = [j \in 1 .. n |->
                         LET arriving == {x \in buckets[i] : DestBucketIdx(n, x.id) = j}
                         IN  IF j = i THEN arriving ELSE buckets[j] \cup arriving]
            BY <1>1, <2>1 DEF Rehomed, moved
        <3>2. \A j \in 1 .. n : {x \in buckets[i] : DestBucketIdx(n, x.id) = j}
                                 = IF j = i THEN buckets[i] ELSE {}
            BY <1>1, <1>2
        <3> QED
            BY <3>1, <3>2
    <2>3. moved = buckets
        BY <1>1, <2>2
    <2> QED
        BY <1>1, <1>4, <2>3 DEF IInv, Indices, moved
<1>5. CASE i = n
    <2>1. n < IdBits
        BY <1>5, RoomToSplit
    <2>2. /\ Grown(i) = Append(buckets, {})
          /\ Len(Grown(i)) = n + 1
          /\ DOMAIN Grown(i) = 1 .. n + 1
          /\ Grown(i)[n + 1] = {}
          /\ \A j \in 1 .. n : Grown(i)[j] = buckets[j]
        BY <1>1, <1>5 DEF Grown
    <2> DEFINE Goes(j) == {x \in buckets[n] : DestBucketIdx(n + 1, x.id) = j}
    <2>3. moved = [j \in 1 .. n + 1 |->
                     IF j = n THEN Goes(n) ELSE Grown(i)[j] \cup Goes(j)]
        BY <1>5, <1>1, <2>2, ZenonT(30) DEF Rehomed, moved
    <2> HIDE DEF Goes
    <2>4. \A x \in buckets[n] : DestBucketIdx(n + 1, x.id) \in {n, n + 1}
        BY <1>1, <1>2, <1>3, SMTT(30) DEF DestBucketIdx
    <2>5. /\ \A j \in 1 .. n - 1 : moved[j] = buckets[j]
          /\ moved[n] = Goes(n)
          /\ moved[n + 1] = Goes(n + 1)
        <3>1. \A j \in 1 .. n - 1 : Goes(j) = {}
            BY <1>1, <2>4 DEF Goes
        <3>2. \A j \in 1 .. n - 1 : moved[j] = buckets[j]
            <4>1. \A j \in 1 .. n - 1 : j \in 1 .. n + 1 /\ j \in 1 .. n /\ j # n
                BY <1>1
            <4>2. \A j \in 1 .. n - 1 : moved[j] = Grown(i)[j] \cup Goes(j)
                BY <2>3, <4>1
            <4> QED
                BY <2>2, <3>1, <4>1, <4>2
        <3>3. moved[n] = Goes(n)
            BY <1>1, <2>3
        <3>4. moved[n + 1] = {} \cup Goes(n + 1)
            <4>1. n + 1 \in 1 .. n + 1 /\ n + 1 # n
                BY <1>1
            <4>2. moved[n + 1] = Grown(i)[n + 1] \cup Goes(n + 1)
                BY <2>3, <4>1
            <4> QED
                BY <2>2, <4>2
        <3> QED
            BY <3>2, <3>3, <3>4
    <2>6. moved \in Seq(SUBSET Item) /\ Len(moved) = n + 1
        <3>1. \A j \in 1 .. n + 1 : moved[j] \in SUBSET Item
            <4>1. Goes(n) \in SUBSET Item /\ Goes(n + 1) \in SUBSET Item
                BY <1>1 DEF Goes
            <4>2. \A j \in 1 .. n + 1 : j \in 1 .. n - 1 \/ j = n \/ j = n + 1
                BY <1>1
            <4> QED
                BY SMTT(30), <1>1, <2>5, <4>1, <4>2
        <3>2. moved \in [1 .. n + 1 -> SUBSET Item]
            BY <2>3, <3>1
        <3> QED
            BY SMTT(30), <1>1, <3>2
    <2>7. Placed(moved)
        <3> SUFFICES ASSUME NEW j \in 1 .. n + 1, NEW x \in moved[j]
                     PROVE  j = DestBucketIdx(n + 1, x.id)
            BY <2>6 DEF Placed
        <3>1. CASE j \in 1 .. n - 1
            BY <1>1, <1>2, <1>3, <2>5, <3>1, SMTT(30) DEF DestBucketIdx
        <3>2. CASE j \in {n, n + 1}
            BY <2>5, <3>2 DEF Goes
        <3> QED
            BY <1>1, <3>1, <3>2
    <2>8. Goes(n) \cup Goes(n + 1) = buckets[n] /\ Goes(n) \cap Goes(n + 1) = {}
        BY <1>1, <2>4 DEF Goes
    <2> QED
        BY <1>1, <1>5, <2>1, <2>5, <2>6, <2>7, <2>8 DEF Indices, moved
<1> QED
    BY <1>1, <1>4, <1>5

----------------------------------------------------------------------------
(* Every step preserves the inductive invariant.                           *)

LEMMA InitInv == Init => IInv
<1> SUFFICES ASSUME Init
             PROVE  IInv
    OBVIOUS
<1>1. buckets \in Seq(SUBSET Item) /\ Len(buckets) = 1 /\ buckets[1] = {}
    BY DEF Init
<1>2. \A i \in Indices : buckets[i] = {}
    BY <1>1 DEF Indices
<1>3. IsFiniteSet({}) /\ Cardinality({}) = 0
    BY FS_EmptySet
<1>4. TypeOK
    BY <1>1 DEF Init, TypeOK
<1>5. AllFinite
    BY <1>2, <1>3 DEF AllFinite
<1>6. Placed(buckets) /\ NotOurs /\ Distinct
    BY <1>2 DEF Placed, NotOurs, Distinct, Indices
<1>7. Capacity
    <2> SUFFICES ASSUME NEW i \in Indices
                 PROVE  Cardinality(buckets[i]) <= IF i = bucket_index THEN K + 1 ELSE K
        BY DEF Capacity
    <2>1. Cardinality(buckets[i]) = 0
        BY <1>2, <1>3
    <2> QED
        BY <2>1
<1>8. BucketCount
    BY <1>1 DEF BucketCount
<1> QED
    BY <1>4, <1>5, <1>6, <1>7, <1>8 DEF IInv

\* The steps that only take items away.
LEMMA ShrinkInv ==
    ASSUME IInv, Idle,
           buckets' \in Seq(SUBSET Item), Len(buckets') = Len(buckets),
           \A i \in Indices : buckets'[i] \subseteq buckets[i],
           UNCHANGED <<our_id, bucket_index, chump_list>>
    PROVE  IInv'
<1>1. Indices' = Indices
    BY DEF Indices
<1>2. TypeOK'
    BY DEF IInv, TypeOK
<1>3. AllFinite' /\ Capacity'
    <2> SUFFICES ASSUME NEW i \in Indices
                 PROVE  /\ IsFiniteSet(buckets'[i])
                        /\ Cardinality(buckets'[i]) <= IF i = bucket_index THEN K + 1 ELSE K
        BY <1>1 DEF AllFinite, Capacity
    <2>1. /\ IsFiniteSet(buckets[i])
          /\ Cardinality(buckets[i]) <= IF i = bucket_index THEN K + 1 ELSE K
        BY DEF IInv, AllFinite, Capacity
    <2>2. IsFiniteSet(buckets'[i]) /\ Cardinality(buckets'[i]) <= Cardinality(buckets[i])
        BY <2>1, FS_Subset
    <2>3. Cardinality(buckets'[i]) \in Nat /\ Cardinality(buckets[i]) \in Nat
        BY <2>1, <2>2, FS_CardinalityType
    <2> QED
        BY <2>1, <2>2, <2>3
<1>4. Placed(buckets)' /\ NotOurs' /\ Distinct' /\ BucketCount'
    <2>1. \A i \in Indices : buckets'[i] \subseteq buckets[i]
        OBVIOUS
    <2>2. Placed(buckets)'
        BY <1>1, <2>1 DEF IInv, Placed, Indices, DestBucketIdx
    <2>3. NotOurs'
        BY <1>1, <2>1 DEF IInv, NotOurs
    <2>4. Distinct'
        BY <1>1, <2>1 DEF IInv, Distinct
    <2>5. BucketCount'
        BY DEF IInv, BucketCount
    <2> QED
        BY <2>2, <2>3, <2>4, <2>5
<1> QED
    BY <1>2, <1>3, <1>4 DEF IInv

LEMMA AddInv ==
    ASSUME IInv, NEW x \in Item, Add(x)
    PROVE  IInv'
<1> DEFINE n == Len(buckets)
           dest == DestBucketIdx(n, x.id)
<1>1. /\ n \in Nat /\ n >= 1 /\ buckets \in Seq(SUBSET Item)
      /\ bucket_index = 0 /\ our_id' = our_id /\ chump_list' = {}
    BY DEF IInv, TypeOK, Add, Idle
<1>2. CASE x.id = our_id
    <2>1. UNCHANGED <<our_id, buckets, bucket_index>>
        BY <1>2 DEF Add
    <2> QED
        BY <1>1, <2>1 DEF IInv, TypeOK, AllFinite, Placed, NotOurs, Distinct, Capacity,
                          BucketCount, Indices, DestBucketIdx
<1>3. CASE x.id # our_id
    <2>1. Prefix[our_id][x.id] \in Nat
        BY DEF Item, IInv, TypeOK
    <2>2. dest \in Indices
        BY <1>1, <2>1, SMTT(30) DEF DestBucketIdx, Indices
    <2>3. buckets' = [buckets EXCEPT ![dest] = @ \cup {x}] /\ bucket_index' = dest
        BY <1>3 DEF Add
    <2> HIDE DEF dest
    <2>4. /\ buckets' \in Seq(SUBSET Item) /\ Len(buckets') = n /\ Indices' = Indices
          /\ buckets'[dest] = buckets[dest] \cup {x}
          /\ \A i \in Indices \ {dest} : buckets'[i] = buckets[i]
        BY <1>1, <2>2, <2>3 DEF Indices
    <2>5. TypeOK'
        BY <1>1, <2>2, <2>3, <2>4 DEF IInv, TypeOK, Indices
    <2>6. AllFinite' /\ Capacity'
        <3> SUFFICES ASSUME NEW i \in Indices
                     PROVE  /\ IsFiniteSet(buckets'[i])
                            /\ Cardinality(buckets'[i]) <= IF i = dest THEN K + 1 ELSE K
            BY <2>3, <2>4 DEF AllFinite, Capacity
        <3>1. IsFiniteSet(buckets[i]) /\ Cardinality(buckets[i]) <= K
            BY <1>1 DEF IInv, AllFinite, Capacity, Indices
        <3>2. Cardinality(buckets[i]) \in Nat
            BY <3>1, FS_CardinalityType
        <3>3. /\ IsFiniteSet(buckets[i] \cup {x})
              /\ Cardinality(buckets[i] \cup {x}) =
                    IF x \in buckets[i] THEN Cardinality(buckets[i]) ELSE Cardinality(buckets[i]) + 1
            BY <3>1, FS_AddElement
        <3>4. CASE i = dest
            <4>1. buckets'[i] = buckets[i] \cup {x}
                BY <2>4, <3>4
            <4>2. Cardinality(buckets[i] \cup {x}) <= K + 1
                BY <3>1, <3>2, <3>3
            <4> QED
                BY <3>3, <3>4, <4>1, <4>2
        <3>5. CASE i # dest
            BY <2>4, <3>1, <3>5
        <3> QED
            BY <3>4, <3>5
    <2>7. Placed(buckets)' /\ NotOurs' /\ BucketCount'
        <3>1. \A i \in Indices : \A y \in buckets'[i] : y \in buckets[i] \/ (i = dest /\ y = x)
            BY <2>4
        <3>2. \A id : DestBucketIdx(n, id)' = DestBucketIdx(n, id)
            BY <1>1, <2>4 DEF DestBucketIdx
        <3>3. NotOurs' /\ BucketCount'
            BY <1>1, <1>3, <2>4, <3>1 DEF IInv, NotOurs, BucketCount
        <3>4. \A i \in Indices : \A y \in buckets'[i] : i = DestBucketIdx(n, y.id)
            BY <3>1 DEF IInv, Placed, Indices, dest
        <3>5. Placed(buckets)'
            BY <1>1, <2>4, <3>4 DEF Placed, DestBucketIdx, Indices
        <3> QED
            BY <3>3, <3>5
    <2>8. Distinct'
        <3>1. \A i \in Indices : \A y \in buckets[i] : y.id # x.id
            BY DEF Add, Values
        <3> QED
            BY <2>2, <2>4, <3>1 DEF IInv, Distinct
    <2> QED
        BY <2>5, <2>6, <2>7, <2>8 DEF IInv
<1> QED
    BY <1>2, <1>3

\* A split or a trim: Rehoming says where the items are before the excess is
\* cut, KeptOfOneTooMany what the cut may take.
LEMMA SplitOrTrimInv ==
    ASSUME IInv, SplitOrTrim
    PROVE  IInv'
<1> DEFINE n == Len(buckets)
           i == bucket_index
           moved == Rehomed(Grown(i), i)
<1>1. /\ n \in Nat /\ i \in 1 .. n /\ i \in Indices
      /\ our_id' = our_id /\ our_id \in Id /\ bucket_index' = i + 1
      /\ chump_list \subseteq Item
    BY DEF IInv, TypeOK, SplitOrTrim, Indices
<1>2. PICK kept \in KeptOf(moved[i]) :
        /\ buckets' = [moved EXCEPT ![i] = kept]
        /\ chump_list' = chump_list \cup (moved[i] \ kept)
    BY DEF SplitOrTrim
<1> HIDE DEF moved
<1>3. /\ moved \in Seq(SUBSET Item)
      /\ i < Len(moved)
      /\ Len(moved) <= IdBits
      /\ \/ Len(moved) = n
         \/ i = n /\ Len(moved) = n + 1
      /\ Placed(moved)
      /\ \A j \in Indices \ {i} : moved[j] = buckets[j]
      /\ moved[i] \subseteq buckets[i]
      /\ Len(moved) = n + 1 => moved[n + 1] \subseteq buckets[i]
    BY Rehoming DEF SplitOrTrim, moved
<1>4. /\ IsFiniteSet(buckets[i]) /\ Cardinality(buckets[i]) <= K + 1
      /\ Cardinality(buckets[i]) \in Nat
    BY <1>1, FS_CardinalityType DEF IInv, AllFinite, Capacity
<1>5. /\ moved[i] \in SUBSET Item /\ IsFiniteSet(moved[i])
      /\ Cardinality(moved[i]) <= K + 1
    <2>1. IsFiniteSet(moved[i]) /\ Cardinality(moved[i]) <= Cardinality(buckets[i])
        BY <1>3, <1>4, FS_Subset
    <2>2. Cardinality(moved[i]) \in Nat
        BY <2>1, FS_CardinalityType
    <2> QED
        BY <1>1, <1>3, <1>4, <2>1, <2>2
<1>6. kept \subseteq moved[i] /\ IsFiniteSet(kept) /\ Cardinality(kept) <= K
    BY <1>2, <1>5, KeptOfOneTooMany
<1>7. /\ buckets' \in Seq(SUBSET Item)
      /\ Len(buckets') = Len(moved)
      /\ Indices' = 1 .. Len(moved)
      /\ buckets'[i] = kept
      /\ \A j \in 1 .. Len(moved) : j # i => buckets'[j] = moved[j]
    BY <1>1, <1>2, <1>3, <1>5, <1>6 DEF Indices
<1>8. \A j \in 1 .. Len(moved) : buckets'[j] \subseteq moved[j]
    BY <1>6, <1>7
\* Every bucket of the new table is part of one of the old one's.
<1>9. \A j \in 1 .. Len(moved) :
        /\ j \in Indices => buckets'[j] \subseteq buckets[j]
        /\ j \notin Indices => j = i + 1 /\ buckets'[j] \subseteq buckets[i]
    <2> SUFFICES ASSUME NEW j \in 1 .. Len(moved)
                 PROVE  /\ j \in Indices => buckets'[j] \subseteq buckets[j]
                        /\ j \notin Indices => j = i + 1 /\ buckets'[j] \subseteq buckets[i]
        OBVIOUS
    <2>1. CASE j \in Indices
        <3>1. moved[j] \subseteq buckets[j]
            BY <1>3, <2>1
        <3> QED
            BY <1>8, <2>1, <3>1
    <2>2. CASE j \notin Indices
        <3>1. i = n /\ Len(moved) = n + 1 /\ j = n + 1
            BY <1>1, <1>3, <2>2 DEF Indices
        <3> QED
            BY <1>3, <1>8, <2>2, <3>1
    <2> QED
        BY <2>1, <2>2
<1>10. TypeOK'
    <2>1. bucket_index' \in 0 .. Len(buckets') + 1
        BY <1>1, <1>3, <1>7
    <2>2. chump_list' \subseteq Item
        BY <1>1, <1>2, <1>5
    <2> QED
        BY <1>1, <1>3, <1>7, <2>1, <2>2 DEF TypeOK
<1>11. AllFinite' /\ Capacity'
    <2> SUFFICES ASSUME NEW j \in 1 .. Len(moved)
                 PROVE  /\ IsFiniteSet(buckets'[j])
                        /\ Cardinality(buckets'[j]) <= IF j = i + 1 THEN K + 1 ELSE K
        BY <1>1, <1>7 DEF AllFinite, Capacity
    <2>1. CASE j = i
        BY <1>1, <1>6, <1>7, <2>1
    <2>2. CASE j # i /\ j \in Indices
        <3>1. IsFiniteSet(buckets[j]) /\ Cardinality(buckets[j]) <= K
            BY <2>2 DEF IInv, AllFinite, Capacity
        <3>2. IsFiniteSet(buckets'[j]) /\ Cardinality(buckets'[j]) <= Cardinality(buckets[j])
            BY <1>9, <2>2, <3>1, FS_Subset
        <3>3. Cardinality(buckets'[j]) \in Nat /\ Cardinality(buckets[j]) \in Nat
            BY <3>1, <3>2, FS_CardinalityType
        <3> QED
            BY <3>1, <3>2, <3>3
    <2>3. CASE j \notin Indices
        <3>1. j = i + 1 /\ buckets'[j] \subseteq buckets[i]
            BY <1>9, <2>3
        <3>2. IsFiniteSet(buckets'[j]) /\ Cardinality(buckets'[j]) <= Cardinality(buckets[i])
            BY <1>4, <3>1, FS_Subset
        <3>3. Cardinality(buckets'[j]) \in Nat
            BY <3>2, FS_CardinalityType
        <3> QED
            BY <1>4, <3>1, <3>2, <3>3
    <2> QED
        BY <1>1, <2>1, <2>2, <2>3
<1>12. Placed(buckets)'
    <2>1. \A j \in 1 .. Len(moved) : \A x \in buckets'[j] :
            j = DestBucketIdx(Len(moved), x.id)
        BY <1>3, <1>8 DEF Placed
    <2> QED
        BY <1>1, <1>7, <2>1 DEF Placed, DestBucketIdx
<1>13. NotOurs'
    BY <1>1, <1>7, <1>9 DEF IInv, NotOurs
<1>14. Distinct'
    <2>1. \A j \in 1 .. Len(moved) : \E old \in Indices : buckets'[j] \subseteq buckets[old]
        BY <1>1, <1>9
    <2> QED
        BY <1>7, <2>1 DEF IInv, Distinct
<1>15. BucketCount'
    BY <1>3, <1>7 DEF BucketCount
<1> QED
    BY <1>10, <1>11, <1>12, <1>13, <1>14, <1>15 DEF IInv

\* The two steps of the loop that leave the table alone.
LEMMA LoopStepInv ==
    ASSUME IInv, NextBucket \/ LoopEnds
    PROVE  IInv'
<1>1. UNCHANGED <<our_id, buckets, chump_list>> /\ Indices' = Indices
    BY DEF NextBucket, LoopEnds, Indices
<1>2. bucket_index' \in 0 .. Len(buckets) + 1
    BY DEF IInv, TypeOK, NextBucket, LoopEnds, Indices
<1>3. \A j \in Indices : Cardinality(buckets[j]) <= K
    <2> SUFFICES ASSUME NEW j \in Indices
                 PROVE  Cardinality(buckets[j]) <= K
        OBVIOUS
    <2>1. CASE j = bucket_index
        BY <2>1 DEF NextBucket, LoopEnds, Indices, IInv, TypeOK
    <2>2. CASE j # bucket_index
        BY <2>2 DEF IInv, Capacity
    <2> QED
        BY <2>1, <2>2
<1>4. Capacity'
    <2> SUFFICES ASSUME NEW j \in Indices
                 PROVE  Cardinality(buckets[j]) <= IF j = bucket_index' THEN K + 1 ELSE K
        BY <1>1 DEF Capacity
    <2>1. Cardinality(buckets[j]) \in Nat
        BY FS_CardinalityType DEF IInv, AllFinite
    <2> QED
        BY <1>3, <2>1
<1> QED
    BY <1>1, <1>2, <1>4 DEF IInv, TypeOK, AllFinite, Placed, NotOurs, Distinct, BucketCount,
                            Indices, DestBucketIdx

LEMMA SetIdInv ==
    ASSUME IInv, NEW new_id \in Id, SetId(new_id)
    PROVE  IInv'
<1>1. /\ buckets' \in Seq(SUBSET Item) /\ Len(buckets') = 1 /\ buckets'[1] = {}
      /\ our_id' = new_id /\ bucket_index' = 0 /\ chump_list' = chump_list
    BY DEF SetId, Idle
<1>2. \A i \in Indices' : buckets'[i] = {}
    BY <1>1 DEF Indices
<1>3. IsFiniteSet({}) /\ Cardinality({}) = 0
    BY FS_EmptySet
<1>4. TypeOK'
    BY <1>1 DEF IInv, TypeOK
<1>5. AllFinite'
    BY <1>2, <1>3 DEF AllFinite
<1>6. Placed(buckets)' /\ NotOurs' /\ Distinct'
    BY <1>2 DEF Placed, NotOurs, Distinct, Indices
<1>7. Capacity'
    <2> SUFFICES ASSUME NEW i \in Indices'
                 PROVE  Cardinality(buckets'[i]) <= IF i = bucket_index' THEN K + 1 ELSE K
        BY DEF Capacity
    <2>1. Cardinality(buckets'[i]) = 0
        BY <1>2, <1>3
    <2> QED
        BY <2>1
<1>8. BucketCount'
    BY <1>1 DEF BucketCount
<1> QED
    BY <1>4, <1>5, <1>6, <1>7, <1>8 DEF IInv

LEMMA NextInv == IInv /\ [Next]_vars => IInv'
<1> SUFFICES ASSUME IInv, [Next]_vars
             PROVE  IInv'
    OBVIOUS
<1>1. CASE \E x \in Item : Add(x)
    BY <1>1, AddInv
<1>2. CASE SplitOrTrim
    BY <1>2, SplitOrTrimInv
<1>3. CASE NextBucket \/ LoopEnds
    BY <1>3, LoopStepInv
<1>4. CASE \E id \in Id : Remove(id)
    <2> PICK id \in Id : Remove(id)
        BY <1>4
    <2> DEFINE at == DestBucketIdx(Len(buckets), id)
    <2>1. /\ Idle /\ buckets' = [buckets EXCEPT ![at] = @ \ Found(id)]
          /\ UNCHANGED <<our_id, bucket_index, chump_list>>
        BY DEF Remove
    <2>2. buckets \in Seq(SUBSET Item) /\ Len(buckets) \in Nat
        BY DEF IInv, TypeOK
    <2>3. at \in Indices
        <3>1. Prefix[our_id][id] \in Nat
            BY DEF IInv, TypeOK
        <3> QED
            BY <2>2, <3>1 DEF IInv, TypeOK, DestBucketIdx, Indices
    <2> HIDE DEF at
    <2>4. /\ buckets' \in Seq(SUBSET Item) /\ Len(buckets') = Len(buckets)
          /\ \A i \in Indices : buckets'[i] \subseteq buckets[i]
        BY <2>1, <2>2, <2>3 DEF Indices
    <2> QED
        BY <2>1, <2>4, ShrinkInv
<1>5. CASE \E gone \in SUBSET Values : Retain(gone)
    <2> PICK gone \in SUBSET Values : Retain(gone)
        BY <1>5
    <2>1. /\ Idle /\ buckets' = [i \in Indices |-> buckets[i] \ gone]
          /\ UNCHANGED <<our_id, bucket_index, chump_list>>
        BY DEF Retain
    <2>2. buckets \in Seq(SUBSET Item) /\ Len(buckets) \in Nat
        BY DEF IInv, TypeOK
    <2>3. buckets' \in [1 .. Len(buckets) -> SUBSET Item]
        BY <2>1, <2>2 DEF Indices
    <2>4. /\ buckets' \in Seq(SUBSET Item) /\ Len(buckets') = Len(buckets)
          /\ \A i \in Indices : buckets'[i] \subseteq buckets[i]
        BY <2>1, <2>2, <2>3
    <2> QED
        BY <2>1, <2>4, ShrinkInv
<1>6. CASE \E new_id \in Id : SetId(new_id)
    BY <1>6, SetIdInv
<1>7. CASE UNCHANGED vars
    BY <1>7 DEF vars, IInv, TypeOK, AllFinite, Placed, NotOurs, Distinct, Capacity,
                BucketCount, Indices, DestBucketIdx
<1> QED
    BY <1>1, <1>2, <1>3, <1>4, <1>5, <1>6, <1>7 DEF Next, HandleBucketOverflow

----------------------------------------------------------------------------
(* The invariants of the runs.                                             *)

\* One look-up suffices because the bucket an id names is where it is.
LEMMA PlacedIsFound == IInv => LookupsFind
<1> SUFFICES ASSUME IInv
             PROVE  LookupsFind
    OBVIOUS
<1> DEFINE n == Len(buckets)
<1>1. n \in Nat /\ n >= 1 /\ our_id \in Id
    BY DEF IInv, TypeOK
<1>2. \A id \in Id : DestBucketIdx(n, id) \in Indices
    <2>1. \A id \in Id : Prefix[our_id][id] \in Nat
        BY <1>1
    <2> QED
        BY <1>1, <2>1 DEF DestBucketIdx, Indices
<1>3. \A id \in Id : Found(id) \subseteq {x \in Values : x.id = id}
    BY <1>2 DEF Found, Values
<1>4. ASSUME NEW id \in Id, NEW x \in Values, x.id = id
      PROVE  x \in Found(id)
    <2>1. PICK i \in Indices : x \in buckets[i]
        BY DEF Values
    <2>2. i = DestBucketIdx(n, id)
        BY <1>4, <2>1 DEF IInv, Placed, Indices
    <2> QED
        BY <1>4, <2>1, <2>2 DEF Found
<1>5. ASSUME NEW id \in Id, NEW x \in Found(id), NEW y \in Found(id)
      PROVE  x = y
    <2>1. /\ DestBucketIdx(n, id) \in Indices
          /\ x \in buckets[DestBucketIdx(n, id)] /\ y \in buckets[DestBucketIdx(n, id)]
          /\ x.id = y.id
        BY <1>2 DEF Found
    <2> QED
        BY <2>1 DEF IInv, Distinct
<1>6. Found(our_id) = {}
    BY <1>1, <1>2 DEF Found, IInv, NotOurs
<1> QED
    BY <1>3, <1>4, <1>5, <1>6 DEF LookupsFind

\* The inductive invariant holds in every reachable state.
THEOREM InvariantHolds == Spec => []IInv
<1>1. Init => IInv
    BY InitInv
<1>2. IInv /\ [Next]_vars => IInv'
    BY NextInv
<1> QED
    BY <1>1, <1>2, PTL DEF Spec

\* Type correctness: the table always has a bucket, and the loop's index never
\* runs more than one past it.
THEOREM TypeCorrect == Spec => []TypeOK
<1>1. IInv => TypeOK
    BY DEF IInv
<1> QED
    BY <1>1, InvariantHolds, PTL

\* contains, get_mut and remove, which look in a single bucket, find an id
\* whenever the table holds it, through all splits and recentrings.
THEOREM LookupsAreComplete == Spec => []LookupsFind
    BY PlacedIsFound, InvariantHolds, PTL

\* At most K items to a bucket, one more only where the loop is at work, and at
\* most IdBits buckets.
THEOREM TableIsBounded == Spec => []TableBounded
<1>1. IInv => TableBounded
    BY DEF IInv, TableBounded
<1> QED
    BY <1>1, InvariantHolds, PTL

----------------------------------------------------------------------------
(* Buckets implements BucketSpec, items being all that the buckets hold.   *)

\* INSTANCE has its own copy of the operator.
LEMMA SameCardinality == ASSUME NEW S PROVE Abstract!Cardinality(S) = Cardinality(S)
    BY DEF Abstract!Cardinality, Cardinality

\* Between calls no class is overfull: a class lies in one bucket.
LEMMA NoneOverfull ==
    ASSUME IInv, Idle
    PROVE  Abstract!Overfull(Values, our_id) = {}
<1> DEFINE n == Len(buckets)
<1> SUFFICES ASSUME NEW x \in Values
             PROVE  ~(Cardinality(Abstract!Class(Values, our_id, Prefix[our_id][x.id])) > K)
    BY SameCardinality DEF Abstract!Overfull
<1> DEFINE C == Abstract!Class(Values, our_id, Prefix[our_id][x.id])
           at == DestBucketIdx(n, x.id)
<1>1. PICK i \in Indices : x \in buckets[i]
    BY DEF Values
<1>2. at = i
    BY <1>1 DEF IInv, Placed, Indices
<1>3. C \subseteq buckets[i]
    <2> SUFFICES ASSUME NEW y \in C
                 PROVE  y \in buckets[i]
        OBVIOUS
    <2>1. PICK j \in Indices : y \in buckets[j]
        BY DEF Values, Abstract!Class
    <2>2. j = DestBucketIdx(n, y.id)
        BY <2>1 DEF IInv, Placed, Indices
    <2>3. Prefix[our_id][y.id] = Prefix[our_id][x.id]
        BY DEF Abstract!Class
    <2>4. i = j
        BY <1>2, <2>2, <2>3 DEF DestBucketIdx
    <2> QED
        BY <2>1, <2>4
<1>4. IsFiniteSet(buckets[i]) /\ Cardinality(buckets[i]) <= K
    BY <1>1 DEF IInv, AllFinite, Capacity, Indices, Idle
<1>5. IsFiniteSet(C) /\ Cardinality(C) <= Cardinality(buckets[i])
    BY <1>3, <1>4, FS_Subset
<1>6. Cardinality(C) \in Nat /\ Cardinality(buckets[i]) \in Nat
    BY <1>4, <1>5, FS_CardinalityType
<1> QED
    BY <1>4, <1>5, <1>6

\* An overflowing iteration moves items, which nobody outside can see, or cuts
\* one newest item of a class of K + 1.
LEMMA SplitOrTrimSheds ==
    ASSUME IInv, SplitOrTrim
    PROVE  Abstract!Shed \/ UNCHANGED <<our_id, Values, chump_list>>
<1> DEFINE n == Len(buckets)
           i == bucket_index
           moved == Rehomed(Grown(i), i)
           m == Len(moved)
<1>1. /\ n \in Nat /\ i \in 1 .. n /\ i \in Indices /\ Indices = 1 .. n
      /\ our_id' = our_id /\ our_id \in Id
    BY DEF IInv, TypeOK, SplitOrTrim, Indices
<1>2. PICK kept \in KeptOf(moved[i]) :
        /\ buckets' = [moved EXCEPT ![i] = kept]
        /\ chump_list' = chump_list \cup (moved[i] \ kept)
    BY DEF SplitOrTrim
<1> HIDE DEF moved
<1>3. /\ moved \in Seq(SUBSET Item)
      /\ i < m
      /\ \/ m = n
         \/ i = n /\ m = n + 1
      /\ Placed(moved)
      /\ \A j \in Indices \ {i} : moved[j] = buckets[j]
      /\ moved[i] \subseteq buckets[i]
      /\ m = n => moved[i] = buckets[i]
      /\ m = n + 1 => /\ moved[m] \subseteq buckets[i]
                      /\ moved[i] \cup moved[m] = buckets[i]
                      /\ moved[i] \cap moved[m] = {}
    BY Rehoming DEF SplitOrTrim, moved
<1>4. /\ IsFiniteSet(buckets[i]) /\ Cardinality(buckets[i]) <= K + 1
      /\ Cardinality(buckets[i]) \in Nat
    BY <1>1, FS_CardinalityType DEF IInv, AllFinite, Capacity
<1>5. /\ moved[i] \in SUBSET Item /\ IsFiniteSet(moved[i])
      /\ Cardinality(moved[i]) <= K + 1
      /\ Cardinality(moved[i]) = K + 1 => moved[i] = buckets[i]
    <2>1. /\ IsFiniteSet(moved[i]) /\ Cardinality(moved[i]) <= Cardinality(buckets[i])
          /\ Cardinality(buckets[i]) = Cardinality(moved[i]) => buckets[i] = moved[i]
        BY <1>3, <1>4, FS_Subset
    <2>2. Cardinality(moved[i]) \in Nat
        BY <2>1, FS_CardinalityType
    <2> QED
        BY <1>1, <1>3, <1>4, <2>1, <2>2
<1>6. /\ kept \subseteq moved[i]
      /\ \/ kept = moved[i]
         \/ /\ Cardinality(moved[i]) = K + 1
            /\ \E y \in moved[i] : /\ kept = moved[i] \ {y}
                                   /\ \A x \in moved[i] : x.first_seen <= y.first_seen
    BY <1>2, <1>5, KeptOfOneTooMany
<1>7. /\ Indices' = 1 .. m
      /\ buckets'[i] = kept
      /\ \A j \in 1 .. m : j # i => buckets'[j] = moved[j]
    BY <1>1, <1>2, <1>3, <1>5, <1>6 DEF Indices
<1> DEFINE V == UNION {moved[j] : j \in 1 .. m}
<1>8. V = Values
    <2>1. ASSUME NEW x \in V
          PROVE  x \in Values
        <3>1. PICK j \in 1 .. m : x \in moved[j]
            OBVIOUS
        <3>2. CASE j \in Indices /\ j # i
            BY <1>3, <3>1, <3>2 DEF Values
        <3>3. CASE j = i
            BY <1>1, <1>3, <3>1, <3>3 DEF Values
        <3>4. CASE j \notin Indices
            <4>1. j = m /\ m = n + 1
                BY <1>1, <1>3, <3>1, <3>4
            <4> QED
                BY <1>1, <1>3, <3>1, <4>1 DEF Values
        <3> QED
            BY <3>2, <3>3, <3>4
    <2>2. ASSUME NEW x \in Values
          PROVE  x \in V
        <3>1. PICK j \in Indices : x \in buckets[j]
            BY DEF Values
        <3>2. j \in 1 .. m /\ i \in 1 .. m /\ (m = n + 1 => m \in 1 .. m)
            BY <1>1, <1>3
        <3>3. CASE j # i
            BY <1>3, <3>1, <3>2, <3>3
        <3>4. CASE j = i
            <4>1. x \in moved[i] \/ (m = n + 1 /\ x \in moved[m])
                BY <1>3, <3>1, <3>4
            <4> QED
                BY <3>2, <4>1
        <3> QED
            BY <3>3, <3>4
    <2> QED
        BY <2>1, <2>2
<1>9. \A x \in Values : \E j \in 1 .. m : x \in moved[j] /\ j = DestBucketIdx(m, x.id)
    BY <1>3, <1>8 DEF Placed
<1>10. \A j \in 1 .. m, l \in 1 .. m : j # l => moved[j] \cap moved[l] = {}
    BY <1>3 DEF Placed
<1> HIDE DEF V
<1>11. CASE kept = moved[i]
    <2>1. \A j \in 1 .. m : buckets'[j] = moved[j]
        BY <1>7, <1>11
    <2>2. Values' = UNION {moved[j] : j \in 1 .. m}
        BY <1>7, <2>1 DEF Values
    <2>3. Values' = Values
        BY <1>8, <2>2 DEF V
    <2>4. chump_list' = chump_list
        BY <1>2, <1>11
    <2> QED
        BY <1>1, <2>3, <2>4
<1>12. CASE kept # moved[i]
    <2>1. PICK y \in moved[i] : /\ kept = moved[i] \ {y}
                                /\ \A x \in moved[i] : x.first_seen <= y.first_seen
        BY <1>6, <1>12
    <2>2. /\ Cardinality(moved[i]) = K + 1 /\ moved[i] = buckets[i]
          /\ m = n + 1 => moved[m] = {}
        BY <1>3, <1>5, <1>6, <1>12
    <2>3. y \in Values
        BY <1>1, <2>2 DEF Values
    <2>4. Values' = Values \ {y}
        <3>1. \A j \in 1 .. m : buckets'[j] = moved[j] \ {y}
            <4> SUFFICES ASSUME NEW j \in 1 .. m
                         PROVE  buckets'[j] = moved[j] \ {y}
                OBVIOUS
            <4>1. CASE j = i
                BY <1>7, <2>1, <4>1
            <4>2. CASE j # i
                <5>1. y \notin moved[j]
                    BY <1>1, <1>3, <1>10, <4>2
                <5> QED
                    BY <1>7, <4>2, <5>1
            <4> QED
                BY <4>1, <4>2
        <3>2. Values' = UNION {moved[j] \ {y} : j \in 1 .. m}
            BY <1>7, <3>1 DEF Values
        <3>3. UNION {moved[j] \ {y} : j \in 1 .. m} = V \ {y}
            BY DEF V
        <3> QED
            BY <1>8, <3>2, <3>3
    <2>5. chump_list' = chump_list \cup {y}
        BY <1>2, <2>1
\* The bucket that is cut is one whole class.
    <2>6. ASSUME NEW x \in moved[i]
          PROVE  Abstract!Class(Values, our_id, Prefix[our_id][x.id]) = moved[i]
        <3>1. /\ m \in Nat /\ i < m
              /\ \A z \in Values : Prefix[our_id][z.id] \in Nat
              /\ \A z \in moved[i] : z \in Values /\ i = DestBucketIdx(m, z.id)
            <4>1. Values \subseteq Item
                BY DEF Values, IInv, TypeOK, Indices
            <4>2. \A z \in moved[i] : z \in Values /\ i = DestBucketIdx(m, z.id)
                BY <1>1, <1>3, <2>2 DEF Placed, Values
            <4> QED
                BY <1>1, <1>3, <4>1, <4>2 DEF Item
        <3>2. \A z \in moved[i] : Prefix[our_id][z.id] = i - 1
            BY <1>1, <3>1, SMTT(30) DEF DestBucketIdx
        <3>3. \A z \in Values : Prefix[our_id][z.id] = i - 1 => z \in moved[i]
            <4> SUFFICES ASSUME NEW z \in Values, Prefix[our_id][z.id] = i - 1
                         PROVE  z \in moved[i]
                OBVIOUS
            <4>1. PICK j \in 1 .. m : z \in moved[j] /\ j = DestBucketIdx(m, z.id)
                BY <1>9
            <4>2. j = i
                BY <1>1, <3>1, <4>1 DEF DestBucketIdx
            <4> QED
                BY <4>1, <4>2
        <3> QED
            BY <3>1, <3>2, <3>3 DEF Abstract!Class
    <2>7. ASSUME NEW x \in Values, x \notin moved[i]
          PROVE  ~(Cardinality(Abstract!Class(Values, our_id, Prefix[our_id][x.id])) > K)
        <3> DEFINE C == Abstract!Class(Values, our_id, Prefix[our_id][x.id])
        <3>1. PICK j \in 1 .. m : x \in moved[j] /\ j = DestBucketIdx(m, x.id)
            BY <1>9
        <3>2. j # i /\ j \in Indices
            BY <1>1, <1>3, <2>2, <2>7, <3>1
        <3>3. C \subseteq buckets[j]
            <4> SUFFICES ASSUME NEW z \in C
                         PROVE  z \in buckets[j]
                OBVIOUS
            <4>1. z \in Values /\ Prefix[our_id][z.id] = Prefix[our_id][x.id]
                BY DEF Abstract!Class
            <4>2. PICK l \in 1 .. m : z \in moved[l] /\ l = DestBucketIdx(m, z.id)
                BY <1>9, <4>1
            <4>3. l = j
                BY <3>1, <4>1, <4>2 DEF DestBucketIdx
            <4> QED
                BY <1>3, <3>2, <4>2, <4>3
        <3>4. IsFiniteSet(buckets[j]) /\ Cardinality(buckets[j]) <= K
            BY <3>2 DEF IInv, AllFinite, Capacity
        <3>5. IsFiniteSet(C) /\ Cardinality(C) <= Cardinality(buckets[j])
            BY <3>3, <3>4, FS_Subset
        <3>6. Cardinality(C) \in Nat /\ Cardinality(buckets[j]) \in Nat
            BY <3>4, <3>5, FS_CardinalityType
        <3> QED
            BY <3>4, <3>5, <3>6
    <2>8. Abstract!Overfull(Values, our_id) = moved[i]
        <3>1. moved[i] \subseteq Values
            BY <1>1, <2>2 DEF Values
        <3>2. K + 1 > K
            OBVIOUS
        <3>3. \A x \in moved[i] :
                Cardinality(Abstract!Class(Values, our_id, Prefix[our_id][x.id])) > K
            BY <2>2, <2>6, <3>2
        <3> QED
            BY <2>7, <3>1, <3>3, SameCardinality DEF Abstract!Overfull
    <2>9. y \in Abstract!Newest(Abstract!Overfull(Values, our_id))
        BY <2>1, <2>8 DEF Abstract!Newest
    <2> QED
        BY <1>1, <2>4, <2>5, <2>9 DEF Abstract!Shed
<1> QED
    BY <1>11, <1>12

LEMMA InitImplements == Init => Abstract!SpecInit
    BY DEF Init, Abstract!SpecInit, Values, Indices

LEMMA AddInserts ==
    ASSUME IInv, NEW x \in Item, Add(x)
    PROVE  Abstract!Insert(x)
<1>1. Abstract!Overfull(Values, our_id) = {}
    BY NoneOverfull DEF Add
<1>2. x.id \notin Abstract!IdsOf(Values) /\ chump_list' = {} /\ our_id' = our_id
    BY DEF Add, Abstract!IdsOf
<1>3. Values' = IF x.id = our_id THEN Values ELSE Values \cup {x}
    <2>1. CASE x.id = our_id
        BY <2>1 DEF Add, Values, Indices
    <2>2. CASE x.id # our_id
        <3> DEFINE dest == DestBucketIdx(Len(buckets), x.id)
        <3>1. buckets \in Seq(SUBSET Item) /\ Len(buckets) \in Nat /\ dest \in Indices
            <4>1. Prefix[our_id][x.id] \in Nat
                BY DEF Item, IInv, TypeOK
            <4> QED
                BY <4>1 DEF IInv, TypeOK, DestBucketIdx, Indices
        <3>2. buckets' = [buckets EXCEPT ![dest] = @ \cup {x}]
            BY <2>2 DEF Add
        <3> HIDE DEF dest
        <3>3. /\ Indices' = Indices
              /\ buckets'[dest] = buckets[dest] \cup {x}
              /\ \A i \in Indices \ {dest} : buckets'[i] = buckets[i]
            BY <3>1, <3>2 DEF Indices
        <3>4. \A i \in Indices : buckets'[i] \subseteq Values \cup {x}
            BY <3>3 DEF Values
        <3>5. \A i \in Indices : buckets[i] \subseteq buckets'[i]
            BY <3>3
        <3>6. Values' \subseteq Values \cup {x}
            BY <3>3, <3>4 DEF Values
        <3>7. Values \cup {x} \subseteq Values'
            BY <3>1, <3>3, <3>5 DEF Values
        <3> QED
            BY <2>2, <3>6, <3>7
    <2> QED
        BY <2>1, <2>2
<1> QED
    BY <1>1, <1>2, <1>3 DEF Abstract!Insert, Abstract!Inserted

\* The steps that take items away are discards, whatever buckets they were in.
LEMMA ShrinkDiscards ==
    ASSUME IInv, Idle, Indices' = Indices, NEW gone,
           \A i \in Indices : buckets'[i] = buckets[i] \ gone,
           UNCHANGED <<our_id, chump_list>>
    PROVE  \E g \in SUBSET Values : Abstract!Discard(g)
<1>1. Values' = Values \ (gone \cap Values)
    BY DEF Values
<1>2. Abstract!Overfull(Values, our_id) = {}
    BY NoneOverfull
<1>3. Abstract!Discard(gone \cap Values)
    BY <1>1, <1>2 DEF Abstract!Discard
<1> QED
    BY <1>3

LEMMA RemoveDiscards ==
    ASSUME IInv, NEW id \in Id, Remove(id)
    PROVE  \E g \in SUBSET Values : Abstract!Discard(g)
<1> DEFINE at == DestBucketIdx(Len(buckets), id)
<1>1. buckets \in Seq(SUBSET Item) /\ Len(buckets) \in Nat /\ Found(id) \subseteq buckets[at]
    BY DEF IInv, TypeOK, Found
<1>2. at \in Indices
    <2>1. Prefix[our_id][id] \in Nat
        BY DEF IInv, TypeOK
    <2> QED
        BY <2>1 DEF IInv, TypeOK, DestBucketIdx, Indices
<1>3. /\ Idle /\ buckets' = [buckets EXCEPT ![at] = @ \ Found(id)]
      /\ UNCHANGED <<our_id, chump_list>>
    BY DEF Remove
<1>4. \A i \in Indices : \A x \in buckets[i] : x \in Found(id) => i = at
    BY DEF IInv, Placed, Indices, Found
<1> HIDE DEF at
<1>5. /\ Indices' = Indices
      /\ buckets'[at] = buckets[at] \ Found(id)
      /\ \A i \in Indices \ {at} : buckets'[i] = buckets[i]
    BY <1>1, <1>2, <1>3 DEF Indices
<1>6. \A i \in Indices : buckets'[i] = buckets[i] \ Found(id)
    BY <1>4, <1>5
<1> QED
    BY <1>3, <1>5, <1>6, ShrinkDiscards

LEMMA StepImplements ==
    IInv /\ [Next]_vars => [Abstract!SpecNext]_(Abstract!specVars)
<1> SUFFICES ASSUME IInv, [Next]_vars
             PROVE  Abstract!SpecNext \/ UNCHANGED <<our_id, Values, chump_list>>
    BY DEF Abstract!specVars
<1>1. CASE \E x \in Item : Add(x)
    <2> PICK x \in Item : Add(x)
        BY <1>1
    <2>1. x \in Abstract!Item /\ Abstract!Insert(x)
        BY AddInserts DEF Item, Abstract!Item
    <2> QED
        BY <2>1 DEF Abstract!SpecNext
<1>2. CASE SplitOrTrim
    BY <1>2, SplitOrTrimSheds DEF Abstract!SpecNext
<1>3. CASE NextBucket \/ LoopEnds
    BY <1>3 DEF NextBucket, LoopEnds, Values, Indices
<1>4. CASE \E id \in Id : Remove(id)
    BY <1>4, RemoveDiscards DEF Abstract!SpecNext
<1>5. CASE \E gone \in SUBSET Values : Retain(gone)
    <2> PICK gone \in SUBSET Values : Retain(gone)
        BY <1>5
    <2>1. buckets' = [i \in Indices |-> buckets[i] \ gone]
        BY DEF Retain
    <2>2. Len(buckets) \in Nat
        BY DEF IInv, TypeOK
    <2>3. Indices' = Indices /\ \A i \in Indices : buckets'[i] = buckets[i] \ gone
        BY <2>1, <2>2 DEF Indices
    <2>4. Idle /\ UNCHANGED <<our_id, chump_list>>
        BY DEF Retain
    <2> QED
        BY <2>3, <2>4, ShrinkDiscards DEF Abstract!SpecNext
<1>6. CASE \E new_id \in Id : SetId(new_id)
    <2> PICK new_id \in Id : SetId(new_id)
        BY <1>6
    <2>1. Abstract!Overfull(Values, our_id) = {}
        BY NoneOverfull DEF SetId
    <2>2. Values' = {} /\ our_id' = new_id /\ chump_list' = chump_list
        BY DEF SetId, Values, Indices
    <2>3. Abstract!Recentre(new_id)
        BY <2>1, <2>2 DEF Abstract!Recentre
    <2> QED
        BY <2>3 DEF Abstract!SpecNext
<1>7. CASE UNCHANGED vars
    BY <1>7 DEF vars, Values, Indices
<1> QED
    BY <1>1, <1>2, <1>3, <1>4, <1>5, <1>6, <1>7 DEF Next, HandleBucketOverflow

\* The splitting buckets keep, of each class of ids, the K items first seen, and
\* lose nothing else: an insertion sheds at most a newest item of a class that
\* it made overfull.
THEOREM Implementation == Spec => Implements
<1>1. Init => Abstract!SpecInit
    BY InitImplements
<1>2. IInv /\ [Next]_vars => [Abstract!SpecNext]_(Abstract!specVars)
    BY StepImplements
<1> QED
    BY <1>1, <1>2, InvariantHolds, PTL DEF Spec, Implements, Abstract!SpecSafety

============================================================================
