--------------------------- MODULE Lookups_proofs ---------------------------
(***************************************************************************)
(* Theorems about Lookups, for any finite set of nodes, any answers, and   *)
(* buckets of any size.  That a lookup keeps the nearest it heard of is a  *)
(* matter of counting: of a class with K records or more, exactly K are    *)
(* older than all but K - 1 others.  Ranks counts them without induction,  *)
(* by a bijection of a finite set with an interval.                        *)
(***************************************************************************)
EXTENDS Lookups, FiniteSetTheorems, TLAPS

\* Records of which no two have the same instant.
Stamped(S) ==
    /\ IsFiniteSet(S)
    /\ S \subseteq [id : Id, first_seen : Nat]
    /\ \A x, y \in S : x.first_seen = y.first_seen => x = y

\* Tables hold a node once, and a lookup's table never its target.
Sound ==
    /\ \A x, y \in main : x.id = y.id => x = y
    /\ \A x, y \in table : x.id = y.id => x = y
    /\ Target \notin IdsOf(table)
    /\ Overfull(table, Target) = {}

LInv ==
    /\ Stamped(main \cup table)
    /\ Sound
    /\ heard \subseteq Id
    /\ NearestUnlessFull

\* Whom a lookup asks it has heard of, and it waits for nobody else.
Asks ==
    /\ waiting \in [Id -> Nat] /\ responders \in [Id -> 0 .. MaxAnswers]
    /\ IdsOf(table) \subseteq heard
    /\ best \subseteq asked /\ asked \subseteq heard
    /\ phase \in Lookup => \A n \in Id : waiting[n] <= IF n \in asked THEN 1 ELSE 0
    /\ phase = "announce_peer" => \A n \in Id : waiting[n] <= responders[n]
    /\ announced \subseteq {n \in Id : responders[n] > 0}

----------------------------------------------------------------------------
(* Counting.                                                               *)

Below(C, f, x) == {y \in C : f[y] < f[x]}

\* The elements with less than n below them.
Low(C, f, n) == {x \in C : Cardinality(Below(C, f, x)) < n}

\* Of a finite set that f orders, n elements have a rank below n.
LEMMA Ranks ==
    ASSUME NEW C, IsFiniteSet(C), NEW f \in [C -> Int],
           \A x, y \in C : f[x] = f[y] => x = y,
           NEW n \in Nat, n <= Cardinality(C)
    PROVE  IsFiniteSet(Low(C, f, n)) /\ Cardinality(Low(C, f, n)) = n
<1> DEFINE c == Cardinality(C)
           R == [x \in C |-> Cardinality(Below(C, f, x))]
           D == {x \in C : R[x] < n}
           r == [x \in D |-> R[x]]
<1>1. c \in Nat
    BY FS_CardinalityType
<1>2. ASSUME NEW x \in C
      PROVE  /\ IsFiniteSet(Below(C, f, x))
             /\ R[x] \in 0 .. c - 1
    <2>1. Below(C, f, x) \in SUBSET (C \ {x})
        BY DEF Below
    <2>2. IsFiniteSet(C \ {x}) /\ Cardinality(C \ {x}) = c - 1
        BY FS_RemoveElement
    <2>3. IsFiniteSet(Below(C, f, x)) /\ Cardinality(Below(C, f, x)) <= c - 1
        BY <2>1, <2>2, FS_Subset
    <2>4. Cardinality(Below(C, f, x)) \in Nat
        BY <2>3, FS_CardinalityType
    <2> QED
        BY <1>1, <2>3, <2>4
<1>3. ASSUME NEW x \in C, NEW y \in C, f[x] < f[y]
      PROVE  R[x] < R[y]
    <2>1. Below(C, f, x) \in SUBSET (Below(C, f, y) \ {x}) /\ x \in Below(C, f, y)
        BY <1>3 DEF Below
    <2>2. /\ IsFiniteSet(Below(C, f, y) \ {x})
          /\ Cardinality(Below(C, f, y) \ {x}) = R[y] - 1
        BY <1>2, <2>1, FS_RemoveElement
    <2>3. R[x] <= R[y] - 1
        BY <2>1, <2>2, FS_Subset
    <2>4. R[x] \in 0 .. c - 1 /\ R[y] \in 0 .. c - 1
        BY <1>2
    <2> QED
        BY <1>1, <2>3, <2>4
<1>4. ASSUME NEW x \in C, NEW y \in C, R[x] = R[y]
      PROVE  x = y
    <2>1. ~(f[x] < f[y]) /\ ~(f[y] < f[x])
        <3>1. R[x] \in 0 .. c - 1
            BY <1>2
        <3> QED
            BY <1>1, <1>3, <1>4, <3>1
    <2> QED
        BY <2>1
<1> HIDE DEF R
<1>5. R \in Injection(C, 0 .. c - 1)
    <2>1. R \in [C -> 0 .. c - 1]
        BY <1>2 DEF R
    <2> QED
        BY <1>4, <2>1 DEF Injection, IsInjective
<1>6. IsFiniteSet(0 .. c - 1) /\ Cardinality(0 .. c - 1) = c
    <2> HIDE DEF c
    <2>1. c - 1 \in Int /\ 0 \in Int
        BY <1>1
    <2>2. /\ IsFiniteSet(0 .. c - 1)
          /\ Cardinality(0 .. c - 1) = IF 0 > c - 1 THEN 0 ELSE c - 1 - 0 + 1
        BY <2>1, FS_Interval
    <2> QED
        BY <1>1, <2>2
<1>7. R \in Surjection(C, 0 .. c - 1)
    BY <1>5, <1>6, FS_Injection
<1>8. IsFiniteSet(D)
    BY FS_Subset
<1>9. r \in Bijection(D, 0 .. n - 1)
    <2>1. \A x \in D : r[x] = R[x] /\ R[x] \in 0 .. n - 1
        BY <1>1, <1>2 DEF R
    <2>2. r \in [D -> 0 .. n - 1]
        BY <2>1
    <2>3. \A x, y \in D : r[x] = r[y] => x = y
        BY <1>4, <2>1
    <2>4. ASSUME NEW t \in 0 .. n - 1
          PROVE  \E x \in D : r[x] = t
        <3>1. t \in 0 .. c - 1 /\ t < n
            BY <1>1
        <3>2. PICK x \in C : R[x] = t
            BY <1>7, <3>1 DEF Surjection
        <3> QED
            BY <2>1, <3>1, <3>2
    <2> QED
        BY <2>2, <2>3, <2>4 DEF Bijection, Injection, IsInjective, Surjection
<1>10. Cardinality(0 .. n - 1) = Cardinality(D)
    BY <1>8, <1>9, FS_Bijection DEF ExistsBijection
<1>11. Cardinality(0 .. n - 1) = n
    BY FS_Interval
<1>12. D = Low(C, f, n)
    BY DEF R, Low
<1> QED
    BY <1>8, <1>10, <1>11, <1>12

\* A finite set of integers that is not empty has a greatest element.
LEMMA Greatest ==
    ASSUME NEW S, IsFiniteSet(S), S \subseteq Int, S # {}
    PROVE  Max(S) \in S /\ \A y \in S : y <= Max(S)
<1> DEFINE f == [x \in S |-> x]
<1>1. PICK m \in Nat : Cardinality(S) = m + 1
    <2>1. Cardinality(S) \in Nat /\ Cardinality(S) # 0
        BY FS_CardinalityType, FS_EmptySet
    <2>2. Cardinality(S) - 1 \in Nat /\ Cardinality(S) = (Cardinality(S) - 1) + 1
        BY <2>1
    <2> QED
        BY <2>2
<1>2. f \in [S -> Int] /\ \A x \in S : f[x] = x
    OBVIOUS
<1> HIDE DEF f
<1>3. Cardinality(Low(S, f, m)) = m
    <2>1. m <= Cardinality(S)
        BY <1>1
    <2>2. \A x, y \in S : f[x] = f[y] => x = y
        BY <1>2
    <2> QED
        BY <1>2, <2>1, <2>2, Ranks
<1>4. PICK x \in S : x \notin Low(S, f, m)
    <2>1. Low(S, f, m) # S
        BY <1>1, <1>3
    <2>2. Low(S, f, m) \subseteq S
        BY DEF Low
    <2> QED
        BY <2>1, <2>2
<1>5. Below(S, f, x) = S \ {x}
    <2>1. Below(S, f, x) \in SUBSET (S \ {x})
        BY <1>2 DEF Below
    <2>2. IsFiniteSet(S \ {x}) /\ Cardinality(S \ {x}) = m
        BY <1>1, FS_RemoveElement
    <2>3. Cardinality(Below(S, f, x)) <= m /\ IsFiniteSet(Below(S, f, x))
        BY <2>1, <2>2, FS_Subset
    <2>4. Cardinality(Below(S, f, x)) \in Nat
        BY <2>3, FS_CardinalityType
    <2>5. ~(Cardinality(Below(S, f, x)) < m)
        BY <1>4 DEF Low
    <2>6. Cardinality(Below(S, f, x)) = m
        BY <2>3, <2>4, <2>5
    <2> QED
        BY <2>1, <2>2, <2>6, FS_Subset
<1>6. \A y \in S : y <= x
    <2> TAKE y \in S
    <2>1. CASE y = x
        BY <2>1
    <2>2. CASE y # x
        <3>1. y \in Below(S, f, x)
            BY <1>5, <2>2
        <3> QED
            BY <1>2, <3>1 DEF Below
    <2> QED
        BY <2>1, <2>2
<1>7. x \in S /\ \A y \in S : x >= y
    BY <1>6
<1>8. Max(S) \in S /\ \A y \in S : Max(S) >= y
    BY <1>7 DEF Max
<1> QED
    BY <1>8

----------------------------------------------------------------------------
(* What is kept of a set of records.                                       *)

\* Of a class with K records or more K are kept; one that loses any is such.
LEMMA KeptClass ==
    ASSUME NEW S, Stamped(S), NEW p, p # Prefix[Target][Target]
    PROVE  /\ Cardinality(Class(Kept(S), Target, p)) \in Nat
           /\ Cardinality(Class(Kept(S), Target, p)) <= K
           /\ Cardinality(Class(S, Target, p)) \in Nat
           /\ Cardinality(Class(S, Target, p)) >= K
                 => Cardinality(Class(Kept(S), Target, p)) = K
           /\ \A x \in Class(S, Target, p) :
                 x \notin Kept(S) => Cardinality(Class(S, Target, p)) >= K
<1> DEFINE C == Class(S, Target, p)
           D == Class(Kept(S), Target, p)
           f == [x \in C |-> x.first_seen]
<1>0. K \in Nat \ {0}
    BY LookupsAssumption
<1>1. C \subseteq S /\ IsFiniteSet(C) /\ Cardinality(C) \in Nat
    <2>1. C \in SUBSET S
        BY DEF Class
    <2>2. IsFiniteSet(C)
        BY <2>1, FS_Subset DEF Stamped
    <2> QED
        BY <2>1, <2>2, FS_CardinalityType
<1>2. ASSUME NEW x \in C
      PROVE  {y \in Class(S, Target, Prefix[Target][x.id]) : y.first_seen < x.first_seen}
                = Below(C, f, x)
    <2>1. Prefix[Target][x.id] = p
        BY DEF Class
    <2>2. \A y \in C : f[y] = y.first_seen
        OBVIOUS
    <2> HIDE DEF f, C
    <2>3. {y \in C : y.first_seen < x.first_seen} = Below(C, f, x)
        BY <1>2, <2>2 DEF Below
    <2> QED
        BY <2>1, <2>3 DEF C
<1>3. D = Low(C, f, K)
    <2>1. \A x \in C : x.id # Target
        BY DEF Class
    <2>2. D \subseteq C
        BY DEF Class, Kept
    <2>3. \A x \in C : x \in D <=> Cardinality(Below(C, f, x)) < K
        <3> TAKE x \in C
        <3>1. x \in D <=> x \in Kept(S)
            BY DEF Class
        <3>2. x \in Kept(S) <=>
                Cardinality({y \in Class(S, Target, Prefix[Target][x.id]) :
                                y.first_seen < x.first_seen}) < K
            BY <1>1, <2>1 DEF Kept
        <3> QED
            BY <1>2, <3>1, <3>2
    <2> HIDE DEF C, D, f
    <2> QED
        BY <2>2, <2>3 DEF Low
<1>4. f \in [C -> Int] /\ \A x, y \in C : f[x] = f[y] => x = y
    <2>1. \A x \in C : x.first_seen \in Int
        BY <1>1 DEF Stamped
    <2>2. \A x, y \in C : x.first_seen = y.first_seen => x = y
        BY <1>1 DEF Stamped
    <2> HIDE DEF C
    <2> QED
        BY <2>1, <2>2
<1>5. D \subseteq C
    BY <1>3 DEF Low
<1>6. IsFiniteSet(D) /\ Cardinality(D) \in Nat /\ Cardinality(D) <= Cardinality(C)
    BY <1>1, <1>5, FS_Subset, FS_CardinalityType
<1>7. \A x \in C : x \notin Kept(S) => x \notin D
    BY DEF Class
<1> HIDE DEF C, D, f
<1>8. CASE Cardinality(C) >= K
    <2>1. K <= Cardinality(C)
        BY <1>0, <1>1, <1>8
    <2>2. Cardinality(Low(C, f, K)) = K
        BY <1>0, <1>1, <1>4, <2>1, Ranks
    <2> QED
        BY <1>0, <1>1, <1>3, <1>8, <2>2 DEF C, D
<1>9. CASE ~(Cardinality(C) >= K)
    <2>1. ASSUME NEW x \in C PROVE x \in D
        <3>1. Below(C, f, x) \in SUBSET C
            BY DEF Below
        <3>2. /\ IsFiniteSet(Below(C, f, x))
              /\ Cardinality(Below(C, f, x)) <= Cardinality(C)
            BY <1>1, <3>1, FS_Subset
        <3>3. Cardinality(Below(C, f, x)) \in Nat
            BY <3>2, FS_CardinalityType
        <3>4. Cardinality(Below(C, f, x)) < K
            BY <1>0, <1>1, <1>9, <3>2, <3>3
        <3> QED
            BY <1>3, <3>4 DEF Low
    <2> QED
        BY <1>0, <1>1, <1>6, <1>7, <1>9, <2>1 DEF C, D
<1> QED
    BY <1>8, <1>9

LEMMA KeptSound ==
    ASSUME NEW S, Stamped(S)
    PROVE  /\ Kept(S) \subseteq S
           /\ Target \notin IdsOf(Kept(S))
           /\ Overfull(Kept(S), Target) = {}
<1>1. Kept(S) \subseteq S /\ \A x \in Kept(S) : x.id # Target
    BY DEF Kept
<1>2. ASSUME NEW x \in Kept(S)
      PROVE  ~(Cardinality(Class(Kept(S), Target, Prefix[Target][x.id])) > K)
    <2>1. x.id \in Id \ {Target}
        BY <1>1 DEF Stamped
    <2>2. Prefix[Target][x.id] # Prefix[Target][Target]
        BY <2>1, LookupsAssumption
    <2>3. /\ Cardinality(Class(Kept(S), Target, Prefix[Target][x.id])) \in Nat
          /\ Cardinality(Class(Kept(S), Target, Prefix[Target][x.id])) <= K
        BY <2>2, KeptClass
    <2>4. K \in Nat
        BY LookupsAssumption
    <2> QED
        BY <2>3, <2>4
<1>3. Overfull(Kept(S), Target) = {}
    BY <1>2 DEF Overfull
<1> QED
    BY <1>1, <1>3 DEF IdsOf

\* What is kept of a set is kept of any part of it.
LEMMA KeptOfFewer ==
    ASSUME NEW S, Stamped(S), NEW W \in SUBSET S, NEW x \in W, x \in Kept(S)
    PROVE  x \in Kept(W)
<1> DEFINE older(V) == {y \in Class(V, Target, Prefix[Target][x.id]) : y.first_seen < x.first_seen}
<1>1. older(W) \in SUBSET older(S) /\ older(S) \in SUBSET S
    BY DEF Class
<1>2. IsFiniteSet(older(S)) /\ IsFiniteSet(older(W))
    <2> HIDE DEF older
    <2> QED
        BY <1>1, FS_Subset DEF Stamped
<1>3. /\ Cardinality(older(W)) <= Cardinality(older(S))
      /\ Cardinality(older(W)) \in Nat /\ Cardinality(older(S)) \in Nat
    <2> HIDE DEF older
    <2> QED
        BY <1>1, <1>2, FS_Subset, FS_CardinalityType
<1>4. x.id # Target /\ Cardinality(older(S)) < K
    BY DEF Kept
<1>5. Cardinality(older(W)) < K
    <2>1. K \in Nat
        BY LookupsAssumption
    <2> QED
        BY <1>3, <1>4, <2>1
<1> QED
    BY <1>4, <1>5 DEF Kept

\* A node that is not kept of a set that includes the table, or was lost before,
\* is of a class that is full.
LEMMA KeptNearest ==
    ASSUME LInv, NEW S, Stamped(S), table \subseteq S,
           NEW h \in Id, h \in heard \cup IdsOf(S),
           h \notin IdsOf(Kept(S)), h # Target
    PROVE  Cardinality(Class(Kept(S), Target, Prefix[Target][h])) = K
<1> DEFINE p == Prefix[Target][h]
<1>1. p # Prefix[Target][Target]
    BY LookupsAssumption
<1>2. CASE h \in IdsOf(S)
    <2>1. PICK x \in S : x.id = h
        BY <1>2 DEF IdsOf
    <2>2. x \in Class(S, Target, p) /\ x \notin Kept(S)
        BY <2>1 DEF Class, IdsOf
    <2> HIDE DEF p
    <2>3. Cardinality(Class(S, Target, p)) >= K
        BY <1>1, <2>2, KeptClass
    <2> QED
        BY <1>1, <2>3, KeptClass DEF p
<1>3. CASE h \notin IdsOf(S)
    <2>1. h \in heard \ (IdsOf(table) \cup {Target})
        BY <1>3 DEF IdsOf
    <2>2. Cardinality(Class(table, Target, p)) = K
        BY <2>1 DEF LInv, NearestUnlessFull
    <2>3. Class(table, Target, p) \in SUBSET Class(S, Target, p)
        BY DEF Class
    <2>4. IsFiniteSet(Class(S, Target, p))
        <3>1. Class(S, Target, p) \in SUBSET S
            BY DEF Class
        <3> QED
            BY <3>1, FS_Subset DEF Stamped
    <2> HIDE DEF p
    <2>5. /\ Cardinality(Class(table, Target, p)) <= Cardinality(Class(S, Target, p))
          /\ Cardinality(Class(S, Target, p)) \in Nat
        BY <2>3, <2>4, FS_Subset, FS_CardinalityType
    <2>6. Cardinality(Class(S, Target, p)) >= K
        BY <2>2, <2>5
    <2> QED
        BY <1>1, <2>6, KeptClass DEF p
<1> QED
    BY <1>2, <1>3

----------------------------------------------------------------------------
(* New records.                                                            *)

LEMMA StampedPart ==
    ASSUME NEW V, Stamped(V), NEW W, W \subseteq V
    PROVE  Stamped(W)
    BY FS_Subset DEF Stamped

\* New records are newer than all there are.
LEMMA FreshIsNew ==
    ASSUME NEW M, Stamped(M \cup table)
    PROVE  \E m \in Nat :
              /\ \A x \in M \cup table : x.first_seen <= m
              /\ \A id, i : Fresh(M, id, i) = [id |-> id, first_seen |-> 2 * i + m]
<1> DEFINE V == M \cup table
           T == {x.first_seen : x \in V}
           times == [x \in V |-> x.first_seen]
<1>1. IsFiniteSet(V) /\ \A x \in V : x.first_seen \in Nat
    BY DEF Stamped
<1>2. times \in Surjection(V, T)
    BY DEF Surjection
<1>3. IsFiniteSet(T)
    <2> HIDE DEF V, T, times
    <2> QED
        BY <1>1, <1>2, FS_Surjection
<1>4. T \subseteq Nat
    BY <1>1
<1> HIDE DEF T
<1>5. IsFiniteSet({0} \cup T) /\ {0} \cup T \subseteq Int /\ {0} \cup T # {}
    <2>1. IsFiniteSet(T \cup {0}) /\ T \cup {0} = {0} \cup T
        BY <1>3, FS_AddElement
    <2> QED
        BY <1>4, <2>1
<1>6. Max({0} \cup T) \in {0} \cup T /\ \A y \in {0} \cup T : y <= Max({0} \cup T)
    BY <1>5, Greatest
<1>7. Max({0} \cup T) \in Nat
    <2>1. {0} \cup T \subseteq Nat
        BY <1>4
    <2> QED
        BY <1>6, <2>1
<1>8. \A x \in V : x.first_seen <= Max({0} \cup T)
    BY <1>6 DEF T
<1>9. \A id, i : Fresh(M, id, i) = [id |-> id, first_seen |-> 2 * i + Max({0} \cup T)]
    BY DEF Fresh, T
<1> QED
    BY <1>7, <1>8, <1>9

LEMMA FreshStamped ==
    ASSUME NEW M, Stamped(M \cup table),
           NEW A \in SUBSET (Nat \ {0}), IsFiniteSet(A), NEW g \in [A -> Id]
    PROVE  Stamped(M \cup table \cup {Fresh(M, g[i], i) : i \in A})
<1> DEFINE V == M \cup table
           New == {Fresh(M, g[i], i) : i \in A}
           r == [i \in A |-> Fresh(M, g[i], i)]
<1>1. PICK m \in Nat :
          /\ \A x \in V : x.first_seen <= m
          /\ \A id, i : Fresh(M, id, i) = [id |-> id, first_seen |-> 2 * i + m]
    BY FreshIsNew
<1>2. IsFiniteSet(V) /\ V \subseteq [id : Id, first_seen : Nat]
          /\ \A x, y \in V : x.first_seen = y.first_seen => x = y
    BY DEF Stamped
<1>3. IsFiniteSet(New)
    <2>1. r \in Surjection(A, New)
        BY DEF Surjection
    <2> HIDE DEF r, New
    <2> QED
        BY <2>1, FS_Surjection
<1>4. IsFiniteSet(V \cup New)
    <2> HIDE DEF V, New
    <2> QED
        BY <1>2, <1>3, FS_Union
<1>5. ASSUME NEW i \in A
      PROVE  /\ Fresh(M, g[i], i) \in [id : Id, first_seen : Nat]
             /\ Fresh(M, g[i], i).first_seen = 2 * i + m
    BY <1>1
<1>6. New \subseteq [id : Id, first_seen : Nat]
    BY <1>5
<1>7. ASSUME NEW x \in V, NEW y \in New
      PROVE  x.first_seen # y.first_seen
    <2>1. PICK i \in A : y = Fresh(M, g[i], i)
        OBVIOUS
    <2>2. y.first_seen = 2 * i + m /\ i \in Nat \ {0}
        BY <1>5, <2>1
    <2>3. x.first_seen <= m /\ x.first_seen \in Nat
        BY <1>1, <1>2
    <2> QED
        BY <2>2, <2>3
<1>8. ASSUME NEW x \in New, NEW y \in New, x.first_seen = y.first_seen
      PROVE  x = y
    <2>1. PICK i \in A : x = Fresh(M, g[i], i)
        OBVIOUS
    <2>2. PICK j \in A : y = Fresh(M, g[j], j)
        OBVIOUS
    <2>3. 2 * i + m = 2 * j + m /\ i \in Nat /\ j \in Nat
        BY <1>5, <1>8, <2>1, <2>2
    <2> QED
        BY <2>1, <2>2, <2>3
<1>9. \A x, y \in V \cup New : x.first_seen = y.first_seen => x = y
    BY <1>2, <1>7, <1>8
<1> HIDE DEF V, New
<1>10. Stamped(V \cup New)
    BY <1>2, <1>4, <1>6, <1>9 DEF Stamped
<1> QED
    BY <1>10 DEF V, New

\* A node that an answer names is in the table or is named first somewhere.
LEMMA NamedFirst ==
    ASSUME NEW s \in Seq(Id), NEW j \in DOMAIN s, s[j] \notin IdsOf(table)
    PROVE  \E i \in NewIn(s) : s[i] = s[j]
<1> DEFINE I == {i \in DOMAIN s : s[i] = s[j]}
           f == [i \in I |-> i]
<1>1. DOMAIN s = 1 .. Len(s) /\ Len(s) \in Nat
    OBVIOUS
<1>2. IsFiniteSet(I)
    <2>1. IsFiniteSet(1 .. Len(s)) /\ I \in SUBSET (1 .. Len(s))
        BY <1>1, FS_Interval
    <2> QED
        BY <2>1, FS_Subset
<1>3. f \in [I -> Int] /\ \A i \in I : f[i] = i
    BY <1>1
<1>4. Cardinality(I) \in Nat /\ 1 <= Cardinality(I)
    <2>1. Cardinality(I) \in Nat /\ Cardinality(I) # 0
        BY <1>2, FS_CardinalityType, FS_EmptySet
    <2> QED
        BY <2>1
<1>5. \A i \in I : i \in DOMAIN s /\ s[i] = s[j]
    OBVIOUS
<1>6. \A i \in DOMAIN s : s[i] = s[j] => i \in I
    OBVIOUS
<1> HIDE DEF I, f
<1>7. Cardinality(Low(I, f, 1)) = 1 /\ IsFiniteSet(Low(I, f, 1))
    <2>1. \A x, y \in I : f[x] = f[y] => x = y
        BY <1>3
    <2> QED
        BY <1>2, <1>3, <1>4, <2>1, Ranks
<1>8. PICK i : i \in Low(I, f, 1)
    BY <1>7, FS_EmptySet
<1>9. i \in I /\ Below(I, f, i) = {}
    <2>1. i \in I /\ Cardinality(Below(I, f, i)) < 1
        BY <1>8 DEF Low
    <2>2. Below(I, f, i) \in SUBSET I
        BY DEF Below
    <2>3. IsFiniteSet(Below(I, f, i)) /\ Cardinality(Below(I, f, i)) \in Nat
        BY <1>2, <2>2, FS_Subset, FS_CardinalityType
    <2> QED
        BY <2>1, <2>3, FS_EmptySet
<1>10. i \in DOMAIN s /\ s[i] = s[j]
    BY <1>5, <1>9
<1>11. ASSUME NEW k \in 1 .. i - 1 PROVE s[k] # s[i]
    <2>1. k \in DOMAIN s /\ k < i
        BY <1>1, <1>10
    <2>2. CASE s[k] = s[i]
        <3>1. k \in I
            BY <1>6, <1>10, <2>1, <2>2
        <3>2. k \in Below(I, f, i)
            BY <1>3, <1>9, <2>1, <3>1 DEF Below
        <3> QED
            BY <1>9, <3>2
    <2> QED
        BY <2>2
<1> QED
    BY <1>10, <1>11 DEF NewIn

----------------------------------------------------------------------------
(* Steps.                                                                  *)

LEMMA LInvInitially == Init => LInv
<1> SUFFICES ASSUME Init PROVE LInv
    OBVIOUS
<1> DEFINE r == [n \in DOMAIN Since |-> [id |-> n, first_seen |-> Since[n]]]
<1>1. /\ main = {[id |-> n, first_seen |-> Since[n]] : n \in DOMAIN Since}
      /\ table = {} /\ heard = {}
    BY DEF Init
<1>2. \A x \in main : x.id \in DOMAIN Since /\ x = [id |-> x.id, first_seen |-> Since[x.id]]
    BY <1>1
<1>3. DOMAIN Since \subseteq Id /\ IsFiniteSet(DOMAIN Since)
    <2>1. DOMAIN Since \in SUBSET Id /\ IsFiniteSet(Id)
        BY LookupsAssumption
    <2> QED
        BY <2>1, FS_Subset
<1>4. IsFiniteSet(main)
    <2>1. r \in Surjection(DOMAIN Since, main)
        BY <1>1 DEF Surjection
    <2> HIDE DEF r
    <2> QED
        BY <1>3, <2>1, FS_Surjection
<1>5. \A a, b \in DOMAIN Since : Since[a] \in Nat /\ (Since[a] = Since[b] => a = b)
    BY LookupsAssumption
<1>6. Stamped(main \cup table)
    <2>1. main \cup table = main
        BY <1>1
    <2>2. main \subseteq [id : Id, first_seen : Nat]
        BY <1>1, <1>3, <1>5
    <2>3. ASSUME NEW x \in main, NEW y \in main, x.first_seen = y.first_seen
          PROVE  x = y
        <3>1. PICK a \in DOMAIN Since : x = [id |-> a, first_seen |-> Since[a]]
            BY <1>1
        <3>2. PICK b \in DOMAIN Since : y = [id |-> b, first_seen |-> Since[b]]
            BY <1>1
        <3>3. Since[a] = Since[b]
            BY <2>3, <3>1, <3>2
        <3> QED
            BY <1>5, <3>1, <3>2, <3>3
    <2> QED
        BY <1>4, <2>1, <2>2, <2>3 DEF Stamped
<1>7. Sound
    <2>1. \A x, y \in main : x.id = y.id => x = y
        BY <1>2
    <2> QED
        BY <1>1, <2>1 DEF Sound, IdsOf, Overfull
<1>8. heard \subseteq Id /\ NearestUnlessFull
    BY <1>1 DEF NearestUnlessFull
<1> QED
    BY <1>6, <1>7, <1>8 DEF LInv

\* A table that is what is kept of a set which includes it.
LEMMA TableStep ==
    ASSUME LInv, NEW S, table \subseteq S, table' = Kept(S),
           \A x, y \in Kept(S) : x.id = y.id => x = y,
           heard' \subseteq Id, heard' \subseteq heard \cup IdsOf(S),
           Stamped(main' \cup S), \A x, y \in main' : x.id = y.id => x = y
    PROVE  LInv'
<1>1. Stamped(S)
    BY StampedPart
<1>2. /\ table' \subseteq S
      /\ \A x, y \in table' : x.id = y.id => x = y
      /\ Target \notin IdsOf(table')
      /\ Overfull(table', Target) = {}
    BY <1>1, KeptSound
<1>3. Stamped(main' \cup table')
    <2>1. main' \cup table' \subseteq main' \cup S
        BY <1>2
    <2> QED
        BY <2>1, StampedPart
<1>4. ASSUME NEW h \in heard' \ (IdsOf(table') \cup {Target})
      PROVE  Cardinality(Class(table', Target, Prefix[Target][h])) = K
    BY <1>1, KeptNearest
<1>5. Sound'
    BY <1>2 DEF Sound
<1>6. NearestUnlessFull'
    BY <1>4 DEF NearestUnlessFull
<1> QED
    BY <1>3, <1>5, <1>6 DEF LInv

\* Every order of a finite set names each of its elements.
LEMMA OrderCovers ==
    ASSUME NEW S, IsFiniteSet(S), NEW o \in SetToSeqs(S), NEW x \in S
    PROVE  \E i \in DOMAIN o : o[i] = x
<1> DEFINE c == Cardinality(S)
<1>1. c \in Nat
    BY FS_CardinalityType
<1>2. o \in [1 .. c -> S] /\ \A i, j \in 1 .. c : i # j => o[i] # o[j]
    BY DEF SetToSeqs
<1> HIDE DEF c
<1>3. o \in Injection(1 .. c, S)
    BY <1>2 DEF Injection, IsInjective
<1>4. IsFiniteSet(1 .. c) /\ Cardinality(1 .. c) = c
    <2>1. 1 \in Int /\ c \in Int
        BY <1>1
    <2>2. IsFiniteSet(1 .. c) /\ Cardinality(1 .. c) = IF 1 > c THEN 0 ELSE c - 1 + 1
        BY <2>1, FS_Interval
    <2> QED
        BY <1>1, <2>2
<1>5. o \in Surjection(1 .. c, S)
    BY <1>3, <1>4, FS_Injection DEF c
<1> QED
    BY <1>2, <1>5 DEF Surjection

\* Whatever the order, seeding keeps of the table and records of the DHT the
\* oldest, and no node twice, though it may add a node again that it displaced.
LEMMA SeededKept ==
    ASSUME LInv, NEW T \in Seeded
    PROVE  \E A \in SUBSET main :
              /\ T = Kept(table \cup A)
              /\ IdsOf(main) \subseteq IdsOf(table \cup A)
              /\ \A x, y \in T : x.id = y.id => x = y
<1>1. PICK B \in SUBSET (main \ Unknown) :
          /\ T = Kept(table \cup Unknown \cup B)
          /\ \E o \in SetToSeqs(main) : Adds(o, Unknown \cup B)
    BY DEF Seeded
<1> DEFINE A == Unknown \cup B
           S == table \cup A
<1>2. A \in SUBSET main /\ T = Kept(S)
    <2>1. table \cup Unknown \cup B = S
        OBVIOUS
    <2> HIDE DEF S
    <2> QED
        BY <1>1, <2>1 DEF Unknown
<1>3. IdsOf(main) \subseteq IdsOf(S)
    BY DEF IdsOf, Unknown
<1>4. PICK o \in SetToSeqs(main) : Adds(o, A)
    BY <1>1
<1>5. Stamped(main \cup table) /\ Stamped(S) /\ IsFiniteSet(main)
    <2>1. S \subseteq main \cup table /\ main \in SUBSET (main \cup table)
        BY <1>2
    <2>2. Stamped(main \cup table)
        BY DEF LInv
    <2> HIDE DEF S
    <2> QED
        BY <2>1, <2>2, StampedPart DEF Stamped
<1>6. ASSUME NEW x \in table, NEW y \in A, x \in Kept(S)
      PROVE  x.id # y.id
    <2>1. PICK i \in DOMAIN o : o[i] = y
        BY <1>2, <1>5, OrderCovers
    <2> DEFINE W == table \cup (A \cap {o[j] : j \in 1 .. i - 1})
    <2>2. y.id \notin IdsOf(Kept(W))
        BY <1>4, <2>1 DEF Adds
    <2>3. W \in SUBSET S /\ x \in W
        OBVIOUS
    <2> HIDE DEF W, S
    <2>4. x \in Kept(W)
        BY <1>5, <1>6, <2>3, KeptOfFewer
    <2> QED
        BY <2>2, <2>4 DEF IdsOf
<1>7. ASSUME NEW x \in T, NEW y \in T, x.id = y.id
      PROVE  x = y
    <2>1. x \in table \cup A /\ y \in table \cup A /\ x \in Kept(S) /\ y \in Kept(S)
        BY <1>2 DEF Kept
    <2>2. \A u, v \in table : u.id = v.id => u = v
        BY DEF LInv, Sound
    <2>3. \A u, v \in A : u.id = v.id => u = v
        BY <1>2 DEF LInv, Sound
    <2> HIDE DEF A, S
    <2> QED
        BY <1>6, <1>7, <2>1, <2>2, <2>3
<1> QED
    BY <1>2, <1>3, <1>7

LEMMA SeedStep ==
    ASSUME LInv, table' \in Seeded, heard' = heard \cup IdsOf(main), UNCHANGED main
    PROVE  LInv'
<1>1. PICK A \in SUBSET main :
          /\ table' = Kept(table \cup A)
          /\ IdsOf(main) \subseteq IdsOf(table \cup A)
          /\ \A x, y \in table' : x.id = y.id => x = y
    BY SeededKept
<1> DEFINE S == table \cup A
<1>2. Stamped(main' \cup S)
    <2>1. main' \cup S \subseteq main \cup table
        OBVIOUS
    <2> QED
        BY <2>1, StampedPart DEF LInv
<1>3. heard' \subseteq Id
    BY DEF LInv, Stamped, IdsOf
<1>4. \A x, y \in main' : x.id = y.id => x = y
    BY DEF LInv, Sound
<1>5. table \subseteq S /\ table' = Kept(S) /\ heard' \subseteq heard \cup IdsOf(S)
    BY <1>1
<1> HIDE DEF S
<1> QED
    BY <1>1, <1>2, <1>3, <1>4, <1>5, TableStep

\* The end of a lookup, and steps that leave its table alone.
LEMMA EmptyStep ==
    ASSUME LInv, table' = {}, heard' = {}, UNCHANGED main
    PROVE  LInv'
<1>1. Stamped(main' \cup table')
    <2>1. main' \cup table' \subseteq main \cup table
        OBVIOUS
    <2> QED
        BY <2>1, StampedPart DEF LInv
<1>2. Sound'
    BY DEF LInv, Sound, IdsOf, Overfull
<1>3. heard' \subseteq Id /\ NearestUnlessFull'
    BY DEF NearestUnlessFull
<1> QED
    BY <1>1, <1>2, <1>3 DEF LInv

LEMMA IdleStep ==
    ASSUME LInv, UNCHANGED <<main, table, heard>>
    PROVE  LInv'
    BY DEF LInv, Sound, NearestUnlessFull

\* The DHT's table after a node has been verified still holds a node once, and its
\* instants do not tie with those of the lookup's table.
LEMMA VerifiedStamped ==
    ASSUME LInv, NEW n \in Id, NEW M \in Verified(n)
    PROVE  Stamped(M \cup table) /\ \A x, y \in M : x.id = y.id => x = y
<1>0. Stamped(main \cup table) /\ \A x, y \in main : x.id = y.id => x = y
    BY DEF LInv, Sound
<1>1. CASE M = main
    BY <1>0, <1>1
<1>2. CASE n \notin IdsOf(main) /\ \E r \in Records(n) : M \subseteq main \cup {r}
    <2>1. PICK r \in Records(n) : M \subseteq main \cup {r}
        BY <1>2
    <2>2. PICK t \in Instants : /\ r = [id |-> n, first_seen |-> t]
                                /\ \A y \in main \cup table : y.id # n => y.first_seen # t
        BY <2>1 DEF Records
    <2>3. t \in Nat
        BY <2>2, LookupsAssumption
    <2> DEFINE V == main \cup table
    <2>4. IsFiniteSet(V \cup {r})
        <3> HIDE DEF V
        <3> QED
            BY <1>0, FS_AddElement DEF Stamped, V
    <2>5. \A x \in V : x.first_seen = r.first_seen => x = r
        <3> TAKE x \in V
        <3>1. x \in [id : Id, first_seen : Nat]
            BY <1>0 DEF Stamped
        <3>2. x = [id |-> x.id, first_seen |-> x.first_seen]
            BY <3>1
        <3> QED
            BY <2>2, <3>2
    <2>6. Stamped(V \cup {r})
        <3>1. V \cup {r} \subseteq [id : Id, first_seen : Nat]
            BY <1>0, <2>2, <2>3 DEF Stamped
        <3>2. \A x, y \in V : x.first_seen = y.first_seen => x = y
            BY <1>0 DEF Stamped
        <3> HIDE DEF V
        <3> QED
            BY <2>4, <2>5, <3>1, <3>2 DEF Stamped
    <2>7. Stamped(M \cup table)
        <3>1. M \cup table \subseteq V \cup {r}
            BY <2>1
        <3> HIDE DEF V
        <3> QED
            BY <2>6, <3>1, StampedPart
    <2>8. \A x, y \in M : x.id = y.id => x = y
        <3>1. r.id = n /\ \A x \in main : x.id # n
            BY <1>2, <2>2 DEF IdsOf
        <3> QED
            BY <1>0, <2>1, <3>1
    <2> QED
        BY <2>7, <2>8
<1> QED
    BY <1>1, <1>2 DEF Verified

LEMMA VerifyStep == ASSUME LInv, NEW n \in Id, Verify(n) PROVE LInv'
<1>1. main' \in Verified(n) /\ UNCHANGED <<table, heard>>
    BY DEF Verify, lookup
<1>2. Stamped(main' \cup table') /\ \A x, y \in main' : x.id = y.id => x = y
    BY <1>1, VerifiedStamped
<1> QED
    BY <1>1, <1>2 DEF LInv, Sound, NearestUnlessFull

LEMMA DropStep == ASSUME LInv, Drop PROVE LInv'
<1>1. main' \subseteq main /\ UNCHANGED <<table, heard>>
    BY DEF Drop, lookup
<1>2. Stamped(main' \cup table')
    <2>1. main' \cup table' \subseteq main \cup table
        BY <1>1
    <2> QED
        BY <2>1, StampedPart DEF LInv
<1> QED
    BY <1>1, <1>2 DEF LInv, Sound, NearestUnlessFull

LEMMA ReplyStep == ASSUME LInv, NEW n \in Id, NEW s \in Tells[n], Reply(n, s) PROVE LInv'
<1>1. PICK M \in Verified(n) : /\ main' = M /\ table' = Named(M, s)
                               /\ heard' = heard \cup {s[i] : i \in DOMAIN s}
    BY DEF Reply
<1> DEFINE A == NewIn(s)
           g == [i \in A |-> s[i]]
           New == {Fresh(M, s[i], i) : i \in A}
           S == table \cup New
<1>2. s \in Seq(Id)
    BY LookupsAssumption
<1>3. DOMAIN s = 1 .. Len(s) /\ Len(s) \in Nat /\ \A i \in DOMAIN s : s[i] \in Id
    BY <1>2
<1>4. A \in SUBSET (1 .. Len(s))
    BY <1>3 DEF NewIn
<1>5. A \in SUBSET (Nat \ {0}) /\ IsFiniteSet(A) /\ g \in [A -> Id]
    <2>1. IsFiniteSet(1 .. Len(s))
        BY <1>3, FS_Interval
    <2>2. IsFiniteSet(A)
        BY <1>4, <2>1, FS_Subset
    <2>3. A \in SUBSET (Nat \ {0})
        BY <1>3, <1>4
    <2>4. \A i \in A : s[i] \in Id
        BY <1>3, <1>4
    <2> HIDE DEF A
    <2> QED
        BY <2>2, <2>3, <2>4
<1>6. Stamped(M \cup table) /\ \A x, y \in M : x.id = y.id => x = y
    BY VerifiedStamped
<1>7. Stamped(main' \cup S)
    <2>1. {Fresh(M, g[i], i) : i \in A} = New
        BY DEF g
    <2> HIDE DEF g, A, New
    <2>2. Stamped(M \cup table \cup New)
        BY <1>5, <1>6, <2>1, FreshStamped
    <2> QED
        BY <1>1, <2>2, StampedPart
<1>8. \A id, i : Fresh(M, id, i).id = id
    BY DEF Fresh
<1>9. \A x, y \in S : x.id = y.id => x = y
    <2>1. ASSUME NEW x \in table, NEW y \in New PROVE x.id # y.id
        <3>1. PICK i \in NewIn(s) : y = Fresh(M, s[i], i)
            OBVIOUS
        <3>2. y.id = s[i] /\ s[i] \notin IdsOf(table)
            BY <1>8, <3>1 DEF NewIn
        <3> QED
            BY <3>2 DEF IdsOf
    <2>2. ASSUME NEW x \in New, NEW y \in New, x.id = y.id PROVE x = y
        <3>1. PICK i \in NewIn(s) : x = Fresh(M, s[i], i)
            OBVIOUS
        <3>2. PICK j \in NewIn(s) : y = Fresh(M, s[j], j)
            OBVIOUS
        <3>3. s[i] = s[j]
            BY <1>8, <2>2, <3>1, <3>2
        <3>4. ~(i < j) /\ ~(j < i)
            <4>1. \A k \in 1 .. i - 1 : s[k] # s[i]
                BY DEF NewIn
            <4>2. \A k \in 1 .. j - 1 : s[k] # s[j]
                BY DEF NewIn
            <4>3. i \in 1 .. Len(s) /\ j \in 1 .. Len(s)
                BY <1>4
            <4> QED
                BY <1>3, <3>3, <4>1, <4>2, <4>3
        <3>5. i = j
            BY <1>3, <1>4, <3>4
        <3> QED
            BY <3>1, <3>2, <3>5
    <2>3. \A x, y \in table : x.id = y.id => x = y
        BY DEF LInv, Sound
    <2> HIDE DEF New
    <2> QED
        BY <2>1, <2>2, <2>3
<1>10. heard' \subseteq Id
    BY <1>1, <1>3 DEF LInv
<1>11. heard' \subseteq heard \cup IdsOf(S)
    <2>1. ASSUME NEW j \in DOMAIN s PROVE s[j] \in IdsOf(S)
        <3>1. CASE s[j] \in IdsOf(table)
            BY <3>1 DEF IdsOf
        <3>2. CASE s[j] \notin IdsOf(table)
            <4>1. PICK i \in NewIn(s) : s[i] = s[j]
                BY <1>2, <3>2, NamedFirst
            <4>2. Fresh(M, s[i], i) \in S /\ Fresh(M, s[i], i).id = s[j]
                BY <1>8, <4>1
            <4> HIDE DEF S
            <4> QED
                BY <4>2 DEF IdsOf
        <3> QED
            BY <3>1, <3>2
    <2> QED
        BY <1>1, <2>1
<1>12. table \subseteq S /\ table' = Kept(S)
    BY <1>1 DEF Named
<1> HIDE DEF S
<1>13. \A x, y \in Kept(S) : x.id = y.id => x = y
    BY <1>9 DEF Kept
<1> QED
    BY <1>1, <1>6, <1>7, <1>10, <1>11, <1>12, <1>13, TableStep

LEMMA LInvKept == LInv /\ [Next]_vars => LInv'
<1> SUFFICES ASSUME LInv, [Next]_vars PROVE LInv'
    OBVIOUS
<1>1. ASSUME NEW seeded \in Seeded, WaitForNodes(seeded)
      PROVE  LInv'
    BY <1>1, SeedStep DEF WaitForNodes
<1>2. ASSUME NEW seeded \in Seeded, StartTurn(seeded)
      PROVE  LInv'
    BY <1>2, SeedStep DEF StartTurn
<1>3. ASSUME TimeUp \/ \E seeded \in Seeded : Stop(seeded)
      PROVE  LInv'
    BY <1>3, EmptyStep DEF Stop, TimeUp, LeaveLookup
<1>4. CASE EndTurn
    BY <1>4, IdleStep DEF EndTurn
<1>5. ASSUME NEW n \in Id, Fail(n) \/ AnnounceSettles(n)
      PROVE  LInv'
    BY <1>5, IdleStep DEF Fail, AnnounceSettles
<1>6. ASSUME NEW n \in Id, NEW s \in Tells[n], Reply(n, s)
      PROVE  LInv'
    BY <1>6, ReplyStep
<1>7. CASE AnnounceEnds
    BY <1>7, IdleStep DEF AnnounceEnds, lookup
<1>8. ASSUME NEW n \in Id, Verify(n)
      PROVE  LInv'
    BY <1>8, VerifyStep
<1>9. CASE Drop
    BY <1>9, DropStep
<1>10. CASE UNCHANGED vars
    BY <1>10, IdleStep DEF vars
<1> QED
    BY <1>1, <1>2, <1>3, <1>4, <1>5, <1>6, <1>7, <1>8, <1>9, <1>10 DEF Next, Turn, Settles

----------------------------------------------------------------------------
(* Requests under way.                                                     *)

LEMMA MinOfTwo ==
    ASSUME NEW a \in Int, NEW b \in Int
    PROVE  Min({a, b}) = IF a <= b THEN a ELSE b
<1> DEFINE m == IF a <= b THEN a ELSE b
<1>1. m \in {a, b} /\ \A y \in {a, b} : m <= y
    OBVIOUS
<1>2. \A x \in {a, b} : (\A y \in {a, b} : x <= y) => x = m
    OBVIOUS
<1> HIDE DEF m
<1>3. Min({a, b}) \in {a, b} /\ \A y \in {a, b} : Min({a, b}) <= y
    BY <1>1 DEF Min
<1>4. Min({a, b}) = m
    BY <1>2, <1>3
<1> QED
    BY <1>4 DEF m

LEMMA MaxOfTwo ==
    ASSUME NEW a \in Int, NEW b \in Int
    PROVE  Max({a, b}) = IF a <= b THEN b ELSE a
<1> DEFINE m == IF a <= b THEN b ELSE a
<1>1. m \in {a, b} /\ \A y \in {a, b} : m >= y
    OBVIOUS
<1>2. \A x \in {a, b} : (\A y \in {a, b} : x >= y) => x = m
    OBVIOUS
<1> HIDE DEF m
<1>3. Max({a, b}) \in {a, b} /\ \A y \in {a, b} : Max({a, b}) >= y
    BY <1>1 DEF Max
<1>4. Max({a, b}) = m
    BY <1>2, <1>3
<1> QED
    BY <1>4 DEF m

\* A responder gets as many announcements as it has places among the first
\* Announces, never more than it has in the list.
LEMMA ChosenBounded ==
    ASSUME responders \in [Id -> 0 .. MaxAnswers]
    PROVE  Chosen \in [Id -> Nat] /\ \A n \in Id : Chosen[n] <= responders[n]
<1>1. MaxAnswers \in Nat /\ Announces \in Nat /\ IsFiniteSet(Id)
    BY LookupsAssumption
<1>2. ASSUME NEW n \in Id PROVE Before(n) \in Nat
    <2> DEFINE P == {r \in Id \X (1 .. MaxAnswers) :
                        Distance[r[1]] < Distance[n] /\ r[2] <= responders[r[1]]}
    <2>1. IsFiniteSet(1 .. MaxAnswers)
        BY <1>1, FS_Interval
    <2>2. IsFiniteSet(Id \X (1 .. MaxAnswers))
        BY <1>1, <2>1, FS_Product
    <2>3. P \subseteq Id \X (1 .. MaxAnswers)
        OBVIOUS
    <2>4. IsFiniteSet(P)
        BY <2>2, <2>3, FS_Subset
    <2>5. Cardinality(P) \in Nat
        BY <2>4, FS_CardinalityType
    <2> QED
        BY <2>5 DEF Before
<1>3. ASSUME NEW n \in Id
      PROVE  Chosen[n] \in Nat /\ Chosen[n] <= responders[n]
    <2>1. responders[n] \in Int /\ 0 <= responders[n]
        BY <1>1
    <2>2. Announces - Before(n) \in Int
        BY <1>1, <1>2
    <2> DEFINE free == Max({0, Announces - Before(n)})
    <2>3. free \in Int /\ 0 <= free
        BY <2>2, MaxOfTwo
    <2>4. Chosen[n] = Min({responders[n], free})
        BY DEF Chosen
    <2> HIDE DEF free
    <2> QED
        BY <2>1, <2>3, <2>4, MinOfTwo
<1>4. Chosen = [n \in Id |-> Chosen[n]]
    BY DEF Chosen
<1> QED
    BY <1>3, <1>4

LEMMA AsksInitially == Init => Asks
<1> SUFFICES ASSUME Init PROVE Asks
    OBVIOUS
<1>1. MaxAnswers \in Nat
    BY LookupsAssumption
<1>2. /\ waiting = Nobody /\ responders = Nobody /\ phase = "find_node"
      /\ table = {} /\ best = {} /\ asked = {} /\ heard = {} /\ announced = {}
    BY DEF Init
<1>3. Nobody \in [Id -> Nat] /\ Nobody \in [Id -> 0 .. MaxAnswers] /\ \A n \in Id : Nobody[n] = 0
    BY <1>1 DEF Nobody
<1>4. IdsOf(table) = {}
    BY <1>2 DEF IdsOf
<1> QED
    BY <1>2, <1>3, <1>4 DEF Asks

\* The end of a lookup.
LEMMA LeaveAsks == ASSUME Asks, LeaveLookup PROVE Asks'
<1>1. /\ table' = {} /\ best' = {} /\ asked' = {} /\ heard' = {}
      /\ UNCHANGED <<responders, announced>>
    BY DEF LeaveLookup
<1>2. Nobody \in [Id -> Nat] /\ \A n \in Id : Nobody[n] = 0
    BY DEF Nobody
<1>3. IdsOf(table') = {}
    BY <1>1 DEF IdsOf
<1>4. CASE phase' \in {"get_peers", "returned"} /\ waiting' = Nobody
    BY <1>1, <1>2, <1>3, <1>4 DEF Asks
<1>5. CASE phase' = "announce_peer" /\ waiting' = Chosen
    <2>1. Chosen \in [Id -> Nat] /\ \A n \in Id : Chosen[n] <= responders[n]
        BY ChosenBounded DEF Asks
    <2>2. phase' \notin Lookup
        BY <1>5 DEF Lookup
    <2> QED
        BY <1>1, <1>3, <1>5, <2>1, <2>2 DEF Asks
<1> QED
    BY <1>4, <1>5 DEF LeaveLookup

\* A request that ends, whatever became of it.
LEMMA SettledAsks ==
    ASSUME Asks, NEW n \in Id, waiting[n] > 0
    PROVE  /\ Settled(n) \in [Id -> Nat]
           /\ \A m \in Id : Settled(n)[m] <= waiting[m]
<1>1. waiting \in [Id -> Nat] /\ waiting[n] - 1 \in Nat
    BY DEF Asks
<1>2. \A m \in Id : Settled(n)[m] = IF m = n THEN waiting[n] - 1 ELSE waiting[m]
    BY <1>1 DEF Settled
<1>3. Settled(n) \in [Id -> Nat]
    BY <1>1 DEF Settled
<1> QED
    BY <1>1, <1>2, <1>3

\* Seeding adds verified nodes only.
LEMMA SeededIds ==
    ASSUME NEW T \in Seeded
    PROVE  IdsOf(T) \subseteq IdsOf(table) \cup IdsOf(main)
<1>1. T \subseteq table \cup main
    BY DEF Seeded, Unknown, Kept
<1> QED
    BY <1>1 DEF IdsOf

LEMMA AsksKept == LInv /\ Asks /\ [Next]_vars => Asks'
<1> SUFFICES ASSUME LInv, Asks, [Next]_vars PROVE Asks'
    OBVIOUS
<1>1. ASSUME NEW seeded \in Seeded, WaitForNodes(seeded)
      PROVE  Asks'
    <2>1. table' = seeded /\ heard' = heard \cup IdsOf(main)
          /\ UNCHANGED <<phase, best, waiting, responders, announced, asked>>
        BY <1>1 DEF WaitForNodes
    <2>2. IdsOf(table') \subseteq heard'
        BY <2>1, SeededIds DEF Asks
    <2> QED
        BY <2>1, <2>2 DEF Asks
<1>2. ASSUME NEW seeded \in Seeded, AtTurn, StartTurn(seeded)
      PROVE  Asks'
    <2> DEFINE near == Near(seeded)
    <2>1. /\ table' = seeded /\ best' = near /\ asked' = asked \cup near
          /\ waiting' = [n \in Id |-> IF n \in near THEN 1 ELSE 0]
          /\ heard' = heard \cup IdsOf(main) /\ phase \in Lookup
          /\ UNCHANGED <<phase, responders, announced>>
        BY <1>2 DEF AtTurn, StartTurn, Remember
    <2>2. IdsOf(table') \subseteq heard'
        BY <2>1, SeededIds DEF Asks
    <2>3. near \subseteq IdsOf(table')
        BY <2>1 DEF Near
    <2>4. waiting' \in [Id -> Nat] /\ \A n \in Id : waiting'[n] <= IF n \in asked' THEN 1 ELSE 0
        <3> HIDE DEF near
        <3> QED
            BY <2>1
    <2>5. phase # "announce_peer"
        BY <2>1 DEF Lookup
    <2> HIDE DEF near
    <2> QED
        BY <2>1, <2>2, <2>3, <2>4, <2>5 DEF Asks
<1>3. ASSUME TimeUp \/ \E seeded \in Seeded : Stop(seeded)
      PROVE  Asks'
    BY <1>3, LeaveAsks DEF Stop, TimeUp
<1>4. CASE EndTurn
    BY <1>4 DEF EndTurn, Asks
<1>5. ASSUME NEW n \in Id, Fail(n)
      PROVE  Asks'
    <2>1. /\ waiting[n] > 0 /\ waiting' = Settled(n) /\ phase \in Lookup
          /\ UNCHANGED <<phase, table, best, responders, announced, asked, heard>>
        BY <1>5 DEF Fail
    <2>2. waiting' \in [Id -> Nat] /\ \A m \in Id : waiting'[m] <= waiting[m]
        BY <2>1, SettledAsks
    <2>3. phase # "announce_peer" /\ \A m \in Id : waiting'[m] <= IF m \in asked THEN 1 ELSE 0
        BY <2>1, <2>2 DEF Asks, Lookup
    <2> QED
        BY <2>1, <2>2, <2>3 DEF Asks
<1>6. ASSUME NEW n \in Id, AnnounceSettles(n)
      PROVE  Asks'
    <2>1. /\ waiting[n] > 0 /\ waiting' = Settled(n) /\ phase = "announce_peer"
          /\ announced' \subseteq announced \cup {n}
          /\ UNCHANGED <<phase, table, best, responders, asked, heard>>
        BY <1>6 DEF AnnounceSettles
    <2>2. waiting' \in [Id -> Nat] /\ \A m \in Id : waiting'[m] <= waiting[m]
        BY <2>1, SettledAsks
    <2>3. phase \notin Lookup /\ responders[n] > 0 /\ \A m \in Id : waiting'[m] <= responders[m]
        <3>1. MaxAnswers \in Nat
            BY LookupsAssumption
        <3>2. \A m \in Id : responders[m] \in Int /\ waiting[m] \in Int /\ waiting'[m] \in Int
            BY <2>2, <3>1 DEF Asks
        <3> QED
            BY <2>1, <2>2, <3>2 DEF Asks, Lookup
    <2> QED
        BY <2>1, <2>2, <2>3 DEF Asks
<1>7. ASSUME NEW n \in Id, NEW s \in Tells[n], Reply(n, s)
      PROVE  Asks'
    <2>1. /\ waiting[n] > 0 /\ waiting' = Settled(n) /\ phase \in Lookup
          /\ \E m \in Verified(n) : table' = Named(m, s)
          /\ heard' = heard \cup {s[i] : i \in DOMAIN s}
          /\ UNCHANGED <<phase, best, announced, asked>>
        BY <1>7 DEF Reply
    <2>2. waiting' \in [Id -> Nat] /\ \A m \in Id : waiting'[m] <= waiting[m]
        BY <2>1, SettledAsks
    <2>3. phase # "announce_peer" /\ \A m \in Id : waiting'[m] <= IF m \in asked THEN 1 ELSE 0
        BY <2>1, <2>2 DEF Asks, Lookup
    <2>4. /\ responders' \in [Id -> 0 .. MaxAnswers]
          /\ \A m \in Id : responders[m] > 0 => responders'[m] > 0
        <3>1. MaxAnswers \in Nat /\ responders \in [Id -> 0 .. MaxAnswers]
            BY LookupsAssumption DEF Asks
        <3>2. CASE responders' = responders
            BY <3>1, <3>2
        <3>3. CASE responders' = [responders EXCEPT ![n] = Min({MaxAnswers, responders[n] + 1})]
            <4>1. /\ Min({MaxAnswers, responders[n] + 1}) \in 0 .. MaxAnswers
                  /\ responders[n] <= Min({MaxAnswers, responders[n] + 1})
                <5>1. responders[n] \in 0 .. MaxAnswers
                    BY <3>1
                <5> QED
                    BY <3>1, <5>1, MinOfTwo
            <4> QED
                BY <3>1, <3>3, <4>1
        <3> QED
            BY <1>7, <3>2, <3>3 DEF Reply
    <2>5. IdsOf(table') \subseteq heard'
        <3>1. PICK m \in Verified(n) : table' = Named(m, s)
            BY <2>1
        <3>2. /\ table' \subseteq table \cup {Fresh(m, s[i], i) : i \in NewIn(s)}
              /\ \A id, i : Fresh(m, id, i).id = id
            BY <3>1 DEF Named, Kept, Fresh
        <3>3. NewIn(s) \subseteq DOMAIN s
            BY DEF NewIn
        <3>4. ASSUME NEW x \in table' PROVE x.id \in heard'
            <4>1. CASE x \in table
                BY <2>1, <4>1 DEF Asks, IdsOf
            <4>2. CASE x \in {Fresh(m, s[i], i) : i \in NewIn(s)}
                BY <2>1, <3>2, <3>3, <4>2
            <4> QED
                BY <3>2, <4>1, <4>2
        <3> QED
            BY <3>4 DEF IdsOf
    <2>6. asked' \subseteq heard' /\ best' \subseteq asked'
        BY <2>1 DEF Asks
    <2>7. announced' \subseteq {m \in Id : responders'[m] > 0}
        BY <2>1, <2>4 DEF Asks
    <2> QED
        BY <2>1, <2>2, <2>3, <2>4, <2>5, <2>6, <2>7 DEF Asks
<1>8. CASE AnnounceEnds
    BY <1>8 DEF AnnounceEnds, Asks, lookup, Lookup
<1>9. ASSUME NEW n \in Id, Verify(n)
      PROVE  Asks'
    BY <1>9 DEF Verify, Asks, lookup
<1>10. CASE Drop
    BY <1>10 DEF Drop, Asks, lookup
<1>11. CASE UNCHANGED vars
    BY <1>11 DEF vars, Asks
<1> QED
    BY <1>1, <1>2, <1>3, <1>4, <1>5, <1>6, <1>7, <1>8, <1>9, <1>10, <1>11 DEF Next, Turn, Settles

----------------------------------------------------------------------------
(* Theorems.                                                               *)

\* Whatever nodes answer and in whatever order, a lookup loses sight of one only
\* if the node's class is full (operations.rs:95-192, 198-320).
THEOREM KeepsNearest == Spec => []NearestUnlessFull
<1>1. LInv => NearestUnlessFull
    BY DEF LInv
<1> QED
    BY <1>1, LInvInitially, LInvKept, PTL DEF Spec

\* Its table holds a node once, never the target, and K of a class at most.
THEOREM TablesSound == Spec => []Sound
<1>1. LInv => Sound
    BY DEF LInv
<1> QED
    BY <1>1, LInvInitially, LInvKept, PTL DEF Spec

\* A lookup that stops by itself has asked all it returns: the nearest of the
\* last turn were asked in this lookup (operations.rs:117-124).
THEOREM ReturnedWereAsked == Spec => AskedAll
<1>1. Asks => (AtTurn /\ phase' # phase =>
                  \A seeded \in Seeded : Stop(seeded) => Near(seeded) \subseteq asked)
    BY DEF Asks, Stop, Repeated
<1>2. Init => LInv /\ Asks
    BY LInvInitially, AsksInitially
<1>3. LInv /\ Asks /\ [Next]_vars => (LInv /\ Asks)'
    BY LInvKept, AsksKept
<1> QED
    BY <1>1, <1>2, <1>3, PTL DEF Spec, AskedAll

\* Requests go to nodes the lookup has heard of and marked as asked, one a turn
\* each, and announcements to responders, no more than their places in the list
\* (operations.rs:55-72, 130-189, 243-309).
THEOREM AsksAndAnnounces == Spec => []TypeOK
<1>1. LInv /\ Asks => TypeOK
    <2> SUFFICES ASSUME LInv, Asks PROVE TypeOK
        OBVIOUS
    <2>1. IdsOf(main) \subseteq Id /\ IdsOf(table) \subseteq Id
        BY DEF LInv, Stamped, IdsOf
    <2> QED
        BY <2>1 DEF LInv, Sound, Asks, TypeOK
<1>2. Init => LInv /\ Asks
    BY LInvInitially, AsksInitially
<1>3. LInv /\ Asks /\ [Next]_vars => (LInv /\ Asks)'
    BY LInvKept, AsksKept
<1> QED
    BY <1>1, <1>2, <1>3, PTL DEF Spec
============================================================================
