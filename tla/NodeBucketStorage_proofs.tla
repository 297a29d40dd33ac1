---------------------- MODULE NodeBucketStorage_proofs ----------------------
(***************************************************************************)
(* Theorems about NodeBucketStorage and about Maintenance, which extends   *)
(* it, for every set of ids and addresses, capacity, interval, grace       *)
(* period and bound on the clock.                                          *)
(*                                                                         *)
(* The invariant of the runs is nearly inductive: SInv adds only that the  *)
(* tables are finite, which every cardinality argument needs.  The lemmas  *)
(* say what the two ways of changing a table, putting a record in (Added)  *)
(* and rewriting one in place, do to its classes.                          *)
(*                                                                         *)
(* The periodic tasks are a part of the storage's steps (TasksUseStorage), *)
(* so that its theorems hold of them.  TasksInv relates a record to the    *)
(* rounds of pings it was due in: LossesExplain counts those that ended    *)
(* without an answer, Pruned says what the last prune has left.            *)
(***************************************************************************)
EXTENDS Maintenance, FiniteSetTheorems, WellFoundedInduction, TLAPS

Bounded(S) == Overfull(S, our_id) = {}

SInv ==
    /\ TypeOK
    /\ IsFiniteSet(verified) /\ IsFiniteSet(unverified)
    /\ OneRecordPerId
    /\ TablesBounded

USE StorageAssumption

----------------------------------------------------------------------------
(* Tables and their classes.                                               *)

\* A class of a bounded table has at most K members, whether or not it has any.
LEMMA ClassBound ==
    ASSUME NEW S, IsFiniteSet(S), Bounded(S), NEW p
    PROVE  /\ IsFiniteSet(Class(S, our_id, p))
           /\ Cardinality(Class(S, our_id, p)) \in Nat
           /\ Cardinality(Class(S, our_id, p)) <= K
<1> DEFINE C == Class(S, our_id, p)
<1>1. C \subseteq S /\ IsFiniteSet(C)
    BY FS_Subset DEF Class
<1>2. Cardinality(C) \in Nat
    BY <1>1, FS_CardinalityType
<1>3. CASE C = {}
    BY <1>1, <1>3, FS_EmptySet
<1>4. CASE C # {}
    <2>1. PICK x : x \in C
        BY <1>4
    <2>2. x \in S /\ Prefix[our_id][x.id] = p
        BY <2>1 DEF Class
    <2>3. ~(Cardinality(Class(S, our_id, Prefix[our_id][x.id])) > K)
        BY <2>2 DEF Bounded, Overfull
    <2> QED
        BY <1>1, <1>2, <2>2, <2>3
<1> QED
    BY <1>1, <1>2, <1>3, <1>4

\* Conversely.
LEMMA BoundedIf ==
    ASSUME NEW S, \A p : Cardinality(Class(S, our_id, p)) <= K,
           \A p : Cardinality(Class(S, our_id, p)) \in Nat
    PROVE  Bounded(S)
<1>1. \A x \in S : ~(Cardinality(Class(S, our_id, Prefix[our_id][x.id])) > K)
    OBVIOUS
<1> QED
    BY <1>1 DEF Bounded, Overfull

\* Part of a bounded table is bounded.
LEMMA PartBounded ==
    ASSUME NEW S, IsFiniteSet(S), Bounded(S), NEW R \in SUBSET S
    PROVE  IsFiniteSet(R) /\ Bounded(R)
<1>1. IsFiniteSet(R)
    BY FS_Subset
<1>2. ASSUME NEW p
      PROVE  /\ Cardinality(Class(R, our_id, p)) <= K
             /\ Cardinality(Class(R, our_id, p)) \in Nat
    <2>1. Class(R, our_id, p) \in SUBSET Class(S, our_id, p)
        BY DEF Class
    <2>2. /\ IsFiniteSet(Class(S, our_id, p))
          /\ Cardinality(Class(S, our_id, p)) \in Nat
          /\ Cardinality(Class(S, our_id, p)) <= K
        BY ClassBound
    <2>3. /\ IsFiniteSet(Class(R, our_id, p))
          /\ Cardinality(Class(R, our_id, p)) <= Cardinality(Class(S, our_id, p))
        BY <2>1, <2>2, FS_Subset
    <2>4. Cardinality(Class(R, our_id, p)) \in Nat
        BY <2>3, FS_CardinalityType
    <2> QED
        BY <2>2, <2>3, <2>4
<1> QED
    BY <1>1, <1>2, BoundedIf

\* Rewriting a record without changing its id leaves the classes their sizes.
LEMMA RewriteBounded ==
    ASSUME NEW S, IsFiniteSet(S), Bounded(S), NEW r \in S, NEW q, q.id = r.id
    PROVE  IsFiniteSet((S \ {r}) \cup {q}) /\ Bounded((S \ {r}) \cup {q})
<1> DEFINE T == (S \ {r}) \cup {q}
<1>1. IsFiniteSet(T)
    <2>1. IsFiniteSet(S \ {r})
        BY FS_RemoveElement
    <2> QED
        BY <2>1, FS_AddElement
<1>2. ASSUME NEW p
      PROVE  /\ Cardinality(Class(T, our_id, p)) <= K
             /\ Cardinality(Class(T, our_id, p)) \in Nat
    <2> DEFINE C == Class(S, our_id, p)
    <2>1. IsFiniteSet(C) /\ Cardinality(C) \in Nat /\ Cardinality(C) <= K
        BY ClassBound
    <2>2. CASE Prefix[our_id][r.id] = p
        <3>1. r \in C /\ Class(T, our_id, p) = (C \ {r}) \cup {q}
            BY <2>2 DEF Class
        <3>2. IsFiniteSet(C \ {r}) /\ Cardinality(C \ {r}) = Cardinality(C) - 1
            BY <2>1, <3>1, FS_RemoveElement
        <3>3. Cardinality((C \ {r}) \cup {q}) =
                IF q \in C \ {r} THEN Cardinality(C \ {r}) ELSE Cardinality(C \ {r}) + 1
            BY <3>2, FS_AddElement
        <3>4. Cardinality(C \ {r}) \in Nat
            BY <3>2, FS_CardinalityType
        <3>5. Cardinality((C \ {r}) \cup {q}) \in Nat /\ Cardinality((C \ {r}) \cup {q}) <= K
            BY <2>1, <3>2, <3>3, <3>4
        <3> QED
            BY <3>1, <3>5
    <2>3. CASE Prefix[our_id][r.id] # p
        <3>1. Class(T, our_id, p) = C
            BY <2>3 DEF Class
        <3> QED
            BY <2>1, <3>1
    <2> QED
        BY <2>2, <2>3
<1> QED
    BY <1>1, <1>2, BoundedIf

\* Buckets::add keeps a table bounded, invents nothing, and loses nothing but
\* what it puts on the chump list.
LEMMA AddedBounded ==
    ASSUME NEW S, IsFiniteSet(S), Bounded(S), NEW x, NEW to \in Added(S, x)
    PROVE  /\ IsFiniteSet(to.table) /\ Bounded(to.table)
           /\ to.table \cup to.chumps = Inserted(S, our_id, x)
           /\ to.table \cap to.chumps = {}
<1> DEFINE T == Inserted(S, our_id, x)
           full == Overfull(T, our_id)
<1>1. PICK gone \in Displaced(S, our_id, x) : to = [table |-> T \ gone, chumps |-> gone]
    BY DEF Added
<1>2. \/ full = {} /\ gone = {}
      \/ full # {} /\ \E y \in Newest(full) : gone = {y}
    BY DEF Displaced
<1>3. full \subseteq T /\ gone \subseteq T
    BY <1>2 DEF Overfull, Newest
<1>4. IsFiniteSet(T)
    BY FS_AddElement DEF Inserted
<1>5. IsFiniteSet(T \ gone)
    BY <1>4, FS_Subset
<1>6. Bounded(T \ gone)
    <2>1. CASE full = {}
        <3>1. T \ gone = T
            BY <1>2, <2>1
        <3> QED
            BY <2>1, <3>1 DEF Bounded
    <2>2. CASE full # {}
        <3>1. PICK y \in full : gone = {y}
            BY <1>2, <2>2 DEF Newest
        <3>2. T = S \cup {x}
            BY <2>2 DEF Inserted, Bounded
        <3> DEFINE p0 == Prefix[our_id][x.id]
\* Only the class of the newcomer can be overfull.
        <3>3. \A p : p # p0 => Class(T, our_id, p) = Class(S, our_id, p)
            BY <3>2 DEF Class
        <3>4. Prefix[our_id][y.id] = p0
            <4> SUFFICES ASSUME Prefix[our_id][y.id] # p0
                         PROVE  FALSE
                OBVIOUS
            <4>1. Cardinality(Class(S, our_id, Prefix[our_id][y.id])) > K
                BY <3>3 DEF Overfull
            <4> QED
                BY <4>1, ClassBound
        <3>5. y \in Class(T, our_id, p0)
            BY <1>3, <3>4 DEF Class
        <3>6. ASSUME NEW p
              PROVE  /\ Cardinality(Class(T \ gone, our_id, p)) <= K
                     /\ Cardinality(Class(T \ gone, our_id, p)) \in Nat
            <4> DEFINE C == Class(S, our_id, p)
            <4>1. IsFiniteSet(C) /\ Cardinality(C) \in Nat /\ Cardinality(C) <= K
                BY ClassBound
            <4>2. CASE p # p0
                <5>1. Class(T \ gone, our_id, p) = C
                    BY <3>1, <3>3, <3>4, <4>2 DEF Class
                <5> QED
                    BY <4>1, <5>1
            <4>3. CASE p = p0
                <5> DEFINE D == C \cup {x}
                <5>1. Class(T, our_id, p) = D
                    BY <3>2, <4>3 DEF Class
                <5>2. Class(T \ gone, our_id, p) = D \ {y} /\ y \in D
                    BY <3>1, <3>5, <4>3, <5>1 DEF Class
                <5>3. IsFiniteSet(D) /\ Cardinality(D) <= K + 1 /\ Cardinality(D) \in Nat
                    <6>1. /\ IsFiniteSet(D)
                          /\ Cardinality(D) = IF x \in C THEN Cardinality(C)
                                              ELSE Cardinality(C) + 1
                        BY <4>1, FS_AddElement
                    <6> QED
                        BY <4>1, <6>1
                <5>4. IsFiniteSet(D \ {y}) /\ Cardinality(D \ {y}) = Cardinality(D) - 1
                    BY ZenonT(30), <5>2, <5>3, FS_RemoveElement
                <5>5. Cardinality(D \ {y}) \in Nat
                    BY <5>4, FS_CardinalityType
                <5>6. Cardinality(Class(T \ gone, our_id, p)) = Cardinality(D \ {y})
                    BY <5>2
                <5> QED
                    BY <5>3, <5>4, <5>5, <5>6
            <4> QED
                BY <4>2, <4>3
        <3> QED
            BY <3>6, BoundedIf
    <2> QED
        BY <2>1, <2>2
<1> QED
    BY <1>1, <1>3, <1>5, <1>6

----------------------------------------------------------------------------
(* Every operation preserves the invariant.                                *)

\* A well-formed record, at the current instant.
WellFormed(r) ==
    /\ r \in NodeWrapper
    /\ r.first_seen <= r.last_seen /\ r.last_seen <= now
    /\ r.last_verified <= r.last_seen
    /\ r.last_verified # Never => r.first_seen <= r.last_verified

\* The two ways the operations stamp a record, and a new one.
LEMMA Stamped ==
    ASSUME now \in Instants, NEW r, WellFormed(r)
    PROVE  /\ WellFormed(Seen(r)) /\ Seen(r).id = r.id
           /\ r.last_verified # Never => Seen(r).last_verified # Never
           /\ WellFormed(Verified(r)) /\ Verified(r).id = r.id
           /\ Verified(r).last_verified # Never
<1>1. /\ r \in NodeWrapper /\ now \in Nat /\ now <= MaxTime
      /\ r.first_seen \in Nat /\ r.last_seen \in Nat
      /\ r.last_verified \in Nat \/ r.last_verified = -1
    BY DEF WellFormed, NodeWrapper, Instants, Never
<1>2. /\ Seen(r) \in NodeWrapper
      /\ Seen(r).id = r.id /\ Seen(r).first_seen = r.first_seen /\ Seen(r).last_seen = now
      /\ Seen(r).last_verified = r.last_verified
    BY DEF WellFormed, NodeWrapper, Seen
<1>3. /\ Verified(r) \in NodeWrapper
      /\ Verified(r).id = r.id /\ Verified(r).first_seen = r.first_seen
      /\ Verified(r).last_seen = now /\ Verified(r).last_verified = now
    BY DEF WellFormed, NodeWrapper, Verified
<1>4. /\ r.first_seen <= r.last_seen /\ r.last_seen <= now
      /\ r.last_verified <= r.last_seen
      /\ r.last_verified # -1 => r.first_seen <= r.last_verified
    BY DEF WellFormed, Never
<1>5. WellFormed(Seen(r)) /\ (r.last_verified # Never => Seen(r).last_verified # Never)
    BY <1>1, <1>2, <1>4 DEF WellFormed, Never
<1>6. WellFormed(Verified(r)) /\ Verified(r).last_verified # Never
    BY <1>1, <1>3, <1>4 DEF WellFormed, Never
<1> QED
    BY <1>2, <1>3, <1>5, <1>6

LEMMA NewIsWellFormed ==
    ASSUME now \in Instants, NEW id \in Id, NEW addr \in Address
    PROVE  WellFormed(NewWrapper(id, addr)) /\ NewWrapper(id, addr).id = id
    BY DEF WellFormed, NodeWrapper, NewWrapper, Instants, Never

\* SInv, record by record.
LEMMA SInvParts ==
    SInv <=> /\ our_id \in Id /\ now \in Instants
             /\ \A r \in Stored : WellFormed(r)
             /\ \A r \in verified : r.last_verified # Never
             /\ IsFiniteSet(verified) /\ IsFiniteSet(unverified)
             /\ OneRecordPerId
             /\ Bounded(verified) /\ Bounded(unverified)
    BY DEF SInv, TypeOK, WellFormed, Stored, TablesBounded, Bounded

LEMMA SeatInv ==
    ASSUME SInv, UNCHANGED <<our_id, now>>,
           NEW w, WellFormed(w), w.last_verified # Never,
           NEW rest \in SUBSET unverified,
           w.id \notin IdsOf(verified), w.id \notin IdsOf(rest),
           Seat(w, rest)
    PROVE  SInv'
<1>1. /\ our_id \in Id /\ now \in Instants
      /\ \A r \in Stored : WellFormed(r)
      /\ \A r \in verified : r.last_verified # Never
      /\ IsFiniteSet(verified) /\ IsFiniteSet(unverified)
      /\ Bounded(verified) /\ Bounded(unverified)
    BY SInvParts
<1>2. /\ \A r, s \in Stored : r.id = s.id => r = s
      /\ verified \cap unverified = {}
      /\ our_id \notin IdsOf(Stored)
    BY DEF SInv, OneRecordPerId
<1>3. IsFiniteSet(rest) /\ Bounded(rest)
    BY <1>1, PartBounded
<1>4. PICK to \in Added(verified, w) :
        /\ verified' = to.table
        /\ \/ to.chumps = {} /\ unverified' = rest
           \/ \E c \in to.chumps : \E back \in Added(rest, c) : unverified' = back.table
    BY DEF Seat
<1>5. /\ IsFiniteSet(verified') /\ Bounded(verified')
      /\ verified' \cup to.chumps = Inserted(verified, our_id, w)
      /\ verified' \cap to.chumps = {}
    BY <1>1, <1>4, AddedBounded
<1>6. /\ IsFiniteSet(unverified') /\ Bounded(unverified')
      /\ unverified' \subseteq rest \cup to.chumps
    <2>1. CASE unverified' = rest
        BY <1>3, <2>1
    <2>2. CASE \E c \in to.chumps : \E back \in Added(rest, c) : unverified' = back.table
        <3>0. PICK c \in to.chumps : \E back \in Added(rest, c) : unverified' = back.table
            BY <2>2
        <3>1. PICK back \in Added(rest, c) : unverified' = back.table
            BY <3>0
        <3>2. /\ IsFiniteSet(back.table) /\ Bounded(back.table)
              /\ back.table \cup back.chumps = Inserted(rest, our_id, c)
            BY <1>3, <3>1, AddedBounded
        <3>3. back.table \subseteq rest \cup {c}
            BY <3>2 DEF Inserted
        <3> QED
            BY <3>1, <3>2, <3>3
    <2> QED
        BY <1>4, <2>1, <2>2
<1>7. Inserted(verified, our_id, w) \subseteq verified \cup {w}
    BY DEF Inserted
<1>8. Stored' \subseteq verified \cup rest \cup {w} /\ verified' \subseteq verified \cup {w}
    BY <1>5, <1>6, <1>7 DEF Stored
<1>9. \A r \in Stored' : WellFormed(r)
    BY <1>1, <1>8 DEF Stored
<1>10. \A r \in verified' : r.last_verified # Never
    BY <1>1, <1>8
<1>11. OneRecordPerId'
    <2>1. \A r, s \in verified \cup rest \cup {w} : r.id = s.id => r = s
        BY <1>2 DEF IdsOf, Stored
    <2>2. verified' \cap unverified' = {}
        <3>1. Inserted(verified, our_id, w) \cap rest = {}
            BY <1>2, <1>7 DEF IdsOf
        <3> QED
            BY <1>5, <1>6, <3>1
    <2>3. our_id \notin IdsOf(Stored')
        <3>1. Stored' \subseteq Inserted(verified, our_id, w) \cup rest
            BY <1>5, <1>6 DEF Stored
        <3>2. \A r \in Inserted(verified, our_id, w) : r.id # our_id
            BY <1>2 DEF Inserted, IdsOf, Stored
        <3>3. \A r \in rest : r.id # our_id
            BY <1>2 DEF IdsOf, Stored
        <3> QED
            BY <3>1, <3>2, <3>3 DEF IdsOf
    <2> QED
        BY <1>8, <2>1, <2>2, <2>3 DEF OneRecordPerId
<1>12. \A r : WellFormed(r)' <=> WellFormed(r)
    BY DEF WellFormed
<1>13. Bounded(verified)' /\ Bounded(unverified)'
    BY <1>5, <1>6 DEF Bounded
<1> QED
    BY <1>1, <1>5, <1>6, <1>9, <1>10, <1>11, <1>13 DEF SInv, TypeOK, WellFormed, Stored, TablesBounded, Bounded

\* Rewriting the record of an id, in the table that has it.
LEMMA RewriteInv ==
    ASSUME SInv, NEW r \in Stored, NEW q, q.id = r.id, WellFormed(q),
           q.last_verified # Never \/ r \notin verified,
           UNCHANGED <<our_id, now>>,
           \/ /\ r \in verified /\ verified' = (verified \ {r}) \cup {q}
              /\ unverified' = unverified
           \/ /\ r \in unverified /\ unverified' = (unverified \ {r}) \cup {q}
              /\ verified' = verified
    PROVE  SInv'
<1>1. /\ our_id \in Id /\ now \in Instants
      /\ \A s \in Stored : WellFormed(s)
      /\ \A s \in verified : s.last_verified # Never
      /\ IsFiniteSet(verified) /\ IsFiniteSet(unverified)
      /\ Bounded(verified) /\ Bounded(unverified)
    BY SInvParts
<1>2. /\ \A s, t \in Stored : s.id = t.id => s = t
      /\ verified \cap unverified = {}
      /\ our_id \notin IdsOf(Stored)
    BY DEF SInv, OneRecordPerId
<1>3. /\ IsFiniteSet(verified') /\ IsFiniteSet(unverified')
      /\ Bounded(verified') /\ Bounded(unverified')
    <2>1. CASE r \in verified /\ verified' = (verified \ {r}) \cup {q} /\ unverified' = unverified
        BY <1>1, <2>1, RewriteBounded
    <2>2. CASE r \in unverified /\ unverified' = (unverified \ {r}) \cup {q} /\ verified' = verified
        BY <1>1, <2>2, RewriteBounded
    <2> QED
        BY <2>1, <2>2
<1>4. /\ Stored' = (Stored \ {r}) \cup {q}
      /\ \A s \in verified' : s.last_verified # Never
    BY <1>1, <1>2 DEF Stored
<1>5. \A s \in Stored' : WellFormed(s)
    BY <1>1, <1>4
<1>6. OneRecordPerId'
    <2>1. \A s, t \in Stored' : s.id = t.id => s = t
        BY <1>2, <1>4
    <2>2. verified' \cap unverified' = {}
        BY <1>2 DEF Stored
    <2>3. our_id \notin IdsOf(Stored')
        BY <1>2, <1>4 DEF IdsOf
    <2> QED
        BY <2>1, <2>2, <2>3 DEF OneRecordPerId
<1>7. Bounded(verified)' /\ Bounded(unverified)'
    BY <1>3 DEF Bounded
<1> QED
    BY <1>1, <1>3, <1>4, <1>5, <1>6, <1>7 DEF SInv, TypeOK, WellFormed, Stored, TablesBounded, Bounded

\* Taking records away.
LEMMA PartInv ==
    ASSUME SInv, UNCHANGED now, our_id' \in Id, our_id' = our_id \/ Stored' = {},
           verified' \subseteq verified, unverified' \subseteq unverified
    PROVE  SInv'
<1>1. /\ our_id \in Id /\ now \in Instants
      /\ \A s \in Stored : WellFormed(s)
      /\ \A s \in verified : s.last_verified # Never
      /\ IsFiniteSet(verified) /\ IsFiniteSet(unverified)
      /\ Bounded(verified) /\ Bounded(unverified)
    BY SInvParts
<1>2. /\ IsFiniteSet(verified') /\ IsFiniteSet(unverified')
      /\ Bounded(verified') /\ Bounded(unverified')
    BY <1>1, PartBounded
<1>3. Stored' \subseteq Stored
    BY DEF Stored
<1>4. Bounded(verified)' /\ Bounded(unverified)'
    <2>1. CASE our_id' = our_id
        BY <1>2, <2>1 DEF Bounded
    <2>2. CASE Stored' = {}
        BY <2>2 DEF Bounded, Overfull, Stored
    <2> QED
        BY <2>1, <2>2
<1>5. OneRecordPerId'
    BY <1>3 DEF SInv, OneRecordPerId, IdsOf
<1> QED
    BY <1>1, <1>2, <1>3, <1>4, <1>5 DEF SInv, TypeOK, WellFormed, Stored, TablesBounded, Bounded

LEMMA SeenInv ==
    ASSUME SInv, NEW id \in Id, NEW addr \in Address, AddOrUpdateLastSeen(id, addr)
    PROVE  SInv'
<1>1. /\ our_id \in Id /\ now \in Instants
      /\ \A s \in Stored : WellFormed(s)
      /\ \A s \in verified : s.last_verified # Never
      /\ IsFiniteSet(verified) /\ IsFiniteSet(unverified)
      /\ Bounded(verified) /\ Bounded(unverified)
    BY SInvParts
<1>2. /\ \A s, t \in Stored : s.id = t.id => s = t
      /\ verified \cap unverified = {}
      /\ our_id \notin IdsOf(Stored)
    BY DEF SInv, OneRecordPerId
<1>3. UNCHANGED <<our_id, now>>
    BY DEF AddOrUpdateLastSeen
<1>4. ASSUME Entry(verified, id) # {},
             verified' = TakeOut(verified, id) \cup {Seen(r) : r \in Entry(verified, id)},
             unverified' = unverified
      PROVE  SInv'
    <2>1. PICK r : r \in Entry(verified, id)
        BY <1>4
    <2>2. Entry(verified, id) = {r} /\ r \in verified /\ r \in Stored
        BY <1>2, <2>1 DEF Entry, Stored
    <2>3. verified' = (verified \ {r}) \cup {Seen(r)}
        BY <1>4, <2>2 DEF TakeOut
    <2>4. /\ WellFormed(Seen(r)) /\ Seen(r).id = r.id /\ Seen(r).last_verified # Never
        BY <1>1, <2>2, Stamped
    <2> QED
        BY <1>3, <1>4, <2>2, <2>3, <2>4, RewriteInv
<1>5. ASSUME Entry(unverified, id) # {},
             unverified' = TakeOut(unverified, id) \cup {Seen(r) : r \in Entry(unverified, id)},
             verified' = verified
      PROVE  SInv'
    <2>1. PICK r : r \in Entry(unverified, id)
        BY <1>5
    <2>2. Entry(unverified, id) = {r} /\ r \in unverified /\ r \in Stored /\ r \notin verified
        BY <1>2, <2>1 DEF Entry, Stored
    <2>3. unverified' = (unverified \ {r}) \cup {Seen(r)}
        BY <1>5, <2>2 DEF TakeOut
    <2>4. WellFormed(Seen(r)) /\ Seen(r).id = r.id
        BY <1>1, <2>2, Stamped
    <2> QED
        BY <1>3, <1>5, <2>2, <2>3, <2>4, RewriteInv
<1>6. ASSUME Entry(Stored, id) = {}, verified' = verified,
             \E to \in Added(unverified, NewWrapper(id, addr)) : unverified' = to.table
      PROVE  SInv'
    <2> DEFINE w == NewWrapper(id, addr)
    <2>1. WellFormed(w) /\ w.id = id
        BY <1>1, NewIsWellFormed
    <2> HIDE DEF w
    <2>2. PICK to \in Added(unverified, w) : unverified' = to.table
        BY <1>6 DEF w
    <2>3. /\ IsFiniteSet(unverified') /\ Bounded(unverified')
          /\ unverified' \subseteq Inserted(unverified, our_id, w)
        BY <1>1, <2>2, AddedBounded
    <2>4. /\ Stored' \subseteq Stored \cup {w}
          /\ w.id = our_id => Stored' \subseteq Stored
        BY <1>6, <2>3 DEF Stored, Inserted
    <2>5. \A s \in Stored : s.id # w.id
        BY <1>6, <2>1 DEF Entry
    <2>6. OneRecordPerId'
        <3>1. \A s, t \in Stored' : s.id = t.id => s = t
            BY <1>2, <2>4, <2>5
        <3>2. verified' \cap unverified' = {}
            BY <1>2, <1>6, <2>3, <2>5 DEF Stored, Inserted
        <3>3. our_id \notin IdsOf(Stored')
            BY <1>2, <2>4 DEF IdsOf
        <3> QED
            BY <1>3, <3>1, <3>2, <3>3 DEF OneRecordPerId
    <2>7. \A s \in Stored' : WellFormed(s)
        BY <1>1, <2>1, <2>4
    <2>8. Bounded(verified)' /\ Bounded(unverified)'
        BY <1>1, <1>3, <1>6, <2>3 DEF Bounded
    <2> QED
        BY <1>1, <1>3, <1>6, <2>3, <2>6, <2>7, <2>8
           DEF SInv, TypeOK, WellFormed, Stored, TablesBounded, Bounded
<1> QED
    BY <1>4, <1>5, <1>6 DEF AddOrUpdateLastSeen

LEMMA VerifiedInv ==
    ASSUME SInv, NEW id \in Id, NEW addr \in Address, AddOrUpdateVerified(id, addr)
    PROVE  SInv'
<1>1. /\ our_id \in Id /\ now \in Instants
      /\ \A s \in Stored : WellFormed(s)
      /\ \A s \in verified : s.last_verified # Never
    BY SInvParts
<1>2. /\ \A s, t \in Stored : s.id = t.id => s = t
      /\ verified \cap unverified = {}
    BY DEF SInv, OneRecordPerId
<1>3. UNCHANGED <<our_id, now>>
    BY DEF AddOrUpdateVerified
<1>4. ASSUME NEW r \in Entry(unverified, id),
             Seat(Verified(r), TakeOut(unverified, id))
      PROVE  SInv'
    <2>1. r \in unverified /\ r \in Stored /\ r.id = id
        BY DEF Entry, Stored
    <2>2. /\ WellFormed(Verified(r)) /\ Verified(r).id = id
          /\ Verified(r).last_verified # Never
        BY <1>1, <2>1, Stamped
    <2>3. TakeOut(unverified, id) \in SUBSET unverified /\ id \notin IdsOf(TakeOut(unverified, id))
        BY DEF TakeOut, Entry, IdsOf
    <2>4. id \notin IdsOf(verified)
        BY <1>2, <2>1 DEF IdsOf, Stored
    <2> QED
        BY <1>3, <1>4, <2>2, <2>3, <2>4, SeatInv
<1>5. ASSUME Entry(verified, id) # {},
             verified' = TakeOut(verified, id) \cup {Verified(r) : r \in Entry(verified, id)},
             unverified' = unverified
      PROVE  SInv'
    <2>1. PICK r : r \in Entry(verified, id)
        BY <1>5
    <2>2. Entry(verified, id) = {r} /\ r \in verified /\ r \in Stored
        BY <1>2, <2>1 DEF Entry, Stored
    <2>3. verified' = (verified \ {r}) \cup {Verified(r)}
        BY <1>5, <2>2 DEF TakeOut
    <2>4. /\ WellFormed(Verified(r)) /\ Verified(r).id = r.id
          /\ Verified(r).last_verified # Never
        BY <1>1, <2>2, Stamped
    <2> QED
        BY <1>3, <1>5, <2>2, <2>3, <2>4, RewriteInv
<1>6. ASSUME Entry(Stored, id) = {}, Seat(Verified(NewWrapper(id, addr)), unverified)
      PROVE  SInv'
    <2> DEFINE w == Verified(NewWrapper(id, addr))
    <2>1. WellFormed(w) /\ w.id = id /\ w.last_verified # Never
        BY <1>1, NewIsWellFormed, Stamped
    <2>2. id \notin IdsOf(verified) /\ id \notin IdsOf(unverified)
        BY <1>6 DEF Entry, IdsOf, Stored
    <2> HIDE DEF w
    <2>3. Seat(w, unverified)
        BY <1>6 DEF w
    <2> QED
        BY <1>3, <2>1, <2>2, <2>3, SeatInv
<1> QED
    BY <1>4, <1>5, <1>6 DEF AddOrUpdateVerified

LEMMA StorageInit == Init => SInv
<1> SUFFICES ASSUME Init
             PROVE  SInv
    OBVIOUS
<1>1. IsFiniteSet(verified) /\ IsFiniteSet(unverified)
    BY FS_EmptySet DEF Init
<1> QED
    BY <1>1 DEF Init, SInv, TypeOK, Stored, OneRecordPerId, TablesBounded, Overfull, IdsOf, Instants

LEMMA StorageNext == SInv /\ [Next]_vars => SInv'
<1> SUFFICES ASSUME SInv, [Next]_vars
             PROVE  SInv'
    OBVIOUS
<1>1. CASE AddOrUpdate
    BY <1>1, SeenInv, VerifiedInv DEF AddOrUpdate
<1>2. CASE Prune
    BY <1>2, PartInv DEF Prune, SInv, TypeOK
<1>3. CASE \E new_id \in Id : SetId(new_id)
    BY <1>3, PartInv DEF SetId, Stored
<1>4. CASE Tick
    <2>1. now' \in Instants /\ now <= now' /\ now \in Nat
        BY <1>4 DEF Tick, SInv, TypeOK, Instants
    <2>2. UNCHANGED <<our_id, verified, unverified>>
        BY <1>4 DEF Tick
    <2>3. \A r \in Stored : r.last_seen <= now => r.last_seen <= now'
        BY <2>1 DEF SInv, TypeOK, Stored, NodeWrapper, Instants
    <2>4. TypeOK'
        BY <2>1, <2>2, <2>3 DEF SInv, TypeOK, Stored
    <2> QED
        BY <2>2, <2>4 DEF SInv, OneRecordPerId, TablesBounded, Stored, IdsOf
<1>5. CASE UNCHANGED vars
    BY <1>5 DEF vars, SInv, TypeOK, Stored, OneRecordPerId, TablesBounded, WellFormed
<1> QED
    BY <1>1, <1>2, <1>3, <1>4, <1>5 DEF Next

----------------------------------------------------------------------------
(* Who is lost, and for whom.                                              *)

\* What LossNeedsFullClass says of an add_or_update.
LossJustified ==
    /\ \A r \in verified : r.id \notin IdsOf(verified') => FullForOlder(verified', r)
    /\ \A r \in Stored : r.id \notin IdsOf(Stored') => FullForOlder(unverified', r)

\* What an insertion displaces leaves K records of its class behind, all of them
\* as old or older; nothing else is lost.
LEMMA DisplacedByOlder ==
    ASSUME NEW S, IsFiniteSet(S), Bounded(S), NEW x, NEW to \in Added(S, x)
    PROVE  /\ \A c \in to.chumps : FullForOlder(to.table, c)
           /\ \A r \in S : r \in to.table \/ r \in to.chumps
           /\ x.id # our_id => x \in to.table \/ x \in to.chumps
<1> DEFINE T == Inserted(S, our_id, x)
           full == Overfull(T, our_id)
<1>1. PICK gone \in Displaced(S, our_id, x) : to = [table |-> T \ gone, chumps |-> gone]
    BY DEF Added
<1>2. \/ full = {} /\ gone = {}
      \/ full # {} /\ \E y \in Newest(full) : gone = {y}
    BY DEF Displaced
<1>3. to.table = T \ gone /\ to.chumps = gone
    BY <1>1
<1>4. ASSUME NEW c \in gone
      PROVE  FullForOlder(T \ gone, c)
    <2> DEFINE p == Prefix[our_id][c.id]
               C == Class(T, our_id, p)
    <2>1. gone = {c} /\ c \in Newest(full)
        BY <1>2, <1>4
    <2>2. c \in T /\ Cardinality(C) > K /\ c \in C
        BY <2>1 DEF Newest, Overfull, Class
    <2>3. \A s \in C : s.first_seen <= c.first_seen
        <3>1. \A s \in C : s \in T /\ Prefix[our_id][s.id] = p
            BY DEF Class
        <3>2. \A s \in C : s \in full
            BY <2>2, <3>1 DEF Overfull
        <3> QED
            BY <2>1, <3>2 DEF Newest
    <2>4. Class(T \ gone, our_id, p) = C \ {c}
        BY <2>1 DEF Class
    <2>5. IsFiniteSet(C)
        <3>1. IsFiniteSet(T) /\ C \in SUBSET T
            BY FS_AddElement DEF Inserted, Class
        <3> QED
            BY <3>1, FS_Subset
    <2>6. IsFiniteSet(C \ {c}) /\ Cardinality(C \ {c}) = Cardinality(C) - 1
        BY <2>2, <2>5, FS_RemoveElement
    <2>7. Cardinality(C) \in Nat /\ Cardinality(C \ {c}) \in Nat
        BY <2>5, <2>6, FS_CardinalityType
    <2>8. Cardinality(C \ {c}) <= K
        <3>1. IsFiniteSet(to.table) /\ Bounded(to.table)
            BY AddedBounded
        <3>2. Cardinality(Class(to.table, our_id, p)) <= K
            BY <3>1, ClassBound
        <3> QED
            BY <1>3, <2>4, <3>2
    <2>9. Cardinality(C \ {c}) = K
        BY SMTT(30), <2>2, <2>6, <2>7, <2>8
    <2> HIDE DEF C
    <2> QED
        BY <2>3, <2>4, <2>9 DEF FullForOlder
<1>5. (\A r \in S : r \in T) /\ (x.id # our_id => x \in T)
    BY DEF Inserted
<1> QED
    BY <1>3, <1>4, <1>5

\* A record gives way to others as another with its id and first_seen does.
LEMMA FullForTwin ==
    ASSUME NEW S, NEW r, NEW w, w.id = r.id, w.first_seen = r.first_seen,
           FullForOlder(S, w)
    PROVE  FullForOlder(S, r)
    BY DEF FullForOlder

\* w is a newcomer or the new record of the node r0 that was unverified.
LEMMA SeatLoses ==
    ASSUME SInv, NEW w, NEW rest \in SUBSET unverified, Seat(w, rest),
           \A r \in unverified \ rest :
               r.id = w.id /\ r.first_seen = w.first_seen /\ w.id # our_id
    PROVE  LossJustified
<1>1. IsFiniteSet(verified) /\ Bounded(verified) /\ IsFiniteSet(rest) /\ Bounded(rest)
    BY PartBounded, SInvParts
<1>2. PICK to \in Added(verified, w) :
        /\ verified' = to.table
        /\ \/ to.chumps = {} /\ unverified' = rest
           \/ \E c \in to.chumps : \E back \in Added(rest, c) : unverified' = back.table
    BY DEF Seat
<1>3. /\ \A c \in to.chumps : FullForOlder(to.table, c)
      /\ \A r \in verified : r \in to.table \/ r \in to.chumps
      /\ w.id # our_id => w \in to.table \/ w \in to.chumps
    BY <1>1, DisplacedByOlder
<1>4. \A r \in verified : r.id \notin IdsOf(verified') => FullForOlder(verified', r)
    BY <1>2, <1>3 DEF IdsOf
\* What leaves verified, and what was left in unverified.
<1>5. ASSUME NEW r \in to.chumps \cup rest, r \notin unverified'
      PROVE  FullForOlder(unverified', r)
    <2>1. CASE to.chumps = {} /\ unverified' = rest
        BY <1>5, <2>1
    <2>2. CASE \E c \in to.chumps : \E back \in Added(rest, c) : unverified' = back.table
        <3>1. PICK c \in to.chumps : \E back \in Added(rest, c) : unverified' = back.table
            BY <2>2
        <3>2. PICK back \in Added(rest, c) : unverified' = back.table
            BY <3>1
        <3>3. /\ \A d \in back.chumps : FullForOlder(back.table, d)
              /\ \A s \in rest : s \in back.table \/ s \in back.chumps
              /\ c.id # our_id => c \in back.table \/ c \in back.chumps
            BY <1>1, <3>2, DisplacedByOlder
        <3>4. r = c \/ r \in rest
            <4>1. \A d \in to.chumps : d = c
                BY <1>2, <3>1 DEF Added, Displaced
            <4> QED
                BY <4>1
        <3>5. c.id # our_id
            <4>1. to.table \cup to.chumps = Inserted(verified, our_id, w)
                BY <1>1, AddedBounded
            <4>2. \A s \in verified : s.id # our_id
                BY DEF SInv, OneRecordPerId, IdsOf, Stored
            <4> QED
                BY <4>1, <4>2 DEF Inserted
        <3> QED
            BY <1>5, <3>2, <3>3, <3>4, <3>5
    <2> QED
        BY <1>2, <2>1, <2>2
<1>6. ASSUME NEW r \in Stored, r.id \notin IdsOf(Stored')
      PROVE  FullForOlder(unverified', r)
    <2>1. \A s : s.id = r.id => s \notin verified' /\ s \notin unverified'
        BY <1>6 DEF IdsOf, Stored
    <2>2. CASE r \in verified
        BY <1>2, <1>3, <1>5, <2>1, <2>2
    <2>3. CASE r \in rest
        BY <1>5, <2>1, <2>3
    <2>4. CASE r \in unverified \ rest
        <3>1. w.id = r.id /\ w.first_seen = r.first_seen /\ w.id # our_id
            BY <2>4
        <3>2. w \in to.chumps /\ w \notin unverified'
            BY <1>2, <1>3, <2>1, <3>1
        <3> QED
            BY <1>5, <3>1, <3>2, FullForTwin
    <2> QED
        BY <2>2, <2>3, <2>4 DEF Stored
<1> QED
    BY <1>4, <1>6 DEF LossJustified

\* Rewriting a node's record loses nobody.
LEMMA RewriteLoses ==
    ASSUME SInv, NEW id \in Id, NEW S \in SUBSET Stored, NEW T,
           \/ T = TakeOut(S, id) \cup {Seen(r) : r \in Entry(S, id)}
           \/ T = TakeOut(S, id) \cup {Verified(r) : r \in Entry(S, id)}
    PROVE  IdsOf(S) \subseteq IdsOf(T)
<1>1. ASSUME NEW r \in S
      PROVE  Seen(r).id = r.id /\ Verified(r).id = r.id
    BY SInvParts, Stamped
<1>2. ASSUME NEW r \in S
      PROVE  \E q \in T : q.id = r.id
    <2>1. CASE r \in Entry(S, id)
        BY <1>1, <2>1
    <2>2. CASE r \notin Entry(S, id)
        BY <2>2 DEF TakeOut
    <2> QED
        BY <2>1, <2>2
<1> QED
    BY <1>2 DEF IdsOf

LEMMA SeenLoses ==
    ASSUME SInv, NEW id \in Id, NEW addr \in Address, AddOrUpdateLastSeen(id, addr)
    PROVE  LossJustified
<1>1. verified \in SUBSET Stored /\ unverified \in SUBSET Stored
    BY DEF Stored
<1>2. ASSUME IdsOf(verified) \subseteq IdsOf(verified'),
             IdsOf(unverified) \subseteq IdsOf(unverified')
      PROVE  LossJustified
    <2>1. /\ \A r \in verified : r.id \in IdsOf(verified')
          /\ \A r \in unverified : r.id \in IdsOf(unverified')
        BY <1>2 DEF IdsOf
    <2>2. \A r \in Stored : r.id \in IdsOf(Stored')
        BY <2>1 DEF IdsOf, Stored
    <2> QED
        BY <2>1, <2>2 DEF LossJustified
<1>3. ASSUME verified' = TakeOut(verified, id) \cup {Seen(r) : r \in Entry(verified, id)},
             unverified' = unverified
      PROVE  LossJustified
    BY <1>1, <1>2, <1>3, RewriteLoses
<1>4. ASSUME unverified' = TakeOut(unverified, id) \cup {Seen(r) : r \in Entry(unverified, id)},
             verified' = verified
      PROVE  LossJustified
    BY <1>1, <1>2, <1>4, RewriteLoses
<1>5. ASSUME verified' = verified,
             \E to \in Added(unverified, NewWrapper(id, addr)) : unverified' = to.table
      PROVE  LossJustified
    <2>1. PICK to \in Added(unverified, NewWrapper(id, addr)) : unverified' = to.table
        BY <1>5
    <2>2. /\ \A c \in to.chumps : FullForOlder(to.table, c)
          /\ \A r \in unverified : r \in to.table \/ r \in to.chumps
        BY SInvParts, DisplacedByOlder
    <2> QED
        BY <1>5, <2>1, <2>2 DEF LossJustified, IdsOf, Stored
<1> QED
    BY <1>3, <1>4, <1>5 DEF AddOrUpdateLastSeen

LEMMA VerifiedLoses ==
    ASSUME SInv, NEW id \in Id, NEW addr \in Address, AddOrUpdateVerified(id, addr)
    PROVE  LossJustified
<1>1. verified \in SUBSET Stored /\ unverified \in SUBSET Stored
    BY DEF Stored
<1>2. ASSUME NEW r \in Entry(unverified, id),
             Seat(Verified(r), TakeOut(unverified, id))
      PROVE  LossJustified
    <2>1. r \in unverified /\ r \in Stored /\ r.id = id
        BY DEF Entry, Stored
    <2>2. Verified(r).id = r.id /\ Verified(r).first_seen = r.first_seen
        <3>1. r \in NodeWrapper
            BY <2>1 DEF SInv, TypeOK, Stored
        <3> QED
            BY <3>1 DEF NodeWrapper, Verified
    <2>3. id # our_id /\ \A s \in unverified : s.id = id => s = r
        BY <2>1 DEF SInv, OneRecordPerId, IdsOf, Stored
    <2>4. TakeOut(unverified, id) \in SUBSET unverified
        BY DEF TakeOut
    <2>5. \A s \in unverified \ TakeOut(unverified, id) : s = r
        BY <2>3 DEF TakeOut, Entry
    <2> HIDE DEF TakeOut
    <2> QED
        BY <1>2, <2>1, <2>2, <2>3, <2>4, <2>5, SeatLoses
<1>3. ASSUME verified' = TakeOut(verified, id) \cup {Verified(r) : r \in Entry(verified, id)},
             unverified' = unverified
      PROVE  LossJustified
    <2>1. IdsOf(verified) \subseteq IdsOf(verified')
        BY <1>1, <1>3, RewriteLoses
    <2> QED
        BY <1>3, <2>1 DEF LossJustified, IdsOf, Stored
<1>4. ASSUME Seat(Verified(NewWrapper(id, addr)), unverified)
      PROVE  LossJustified
    <2>1. unverified \in SUBSET unverified
        OBVIOUS
    <2> QED
        BY <1>4, <2>1, SeatLoses
<1> QED
    BY <1>2, <1>3, <1>4 DEF AddOrUpdateVerified

----------------------------------------------------------------------------
\* The storage's invariant holds in every reachable state.
THEOREM StorageInvariant == Spec => []SInv
    BY StorageInit, StorageNext, PTL DEF Spec

\* Every node has at most one record, in one of the two tables, and our own id
\* has none, through promotions, demotions and prunes.
THEOREM NoNodeTwice == Spec => []OneRecordPerId
<1>1. SInv => OneRecordPerId
    BY DEF SInv
<1> QED
    BY <1>1, StorageInvariant, PTL

\* Both tables stay within K nodes of a class.
THEOREM StorageIsBounded == Spec => []TablesBounded
<1>1. SInv => TablesBounded
    BY DEF SInv
<1> QED
    BY <1>1, StorageInvariant, PTL

\* Every record is well formed, and what the verified table holds was verified.
THEOREM StorageTypeCorrect == Spec => []TypeOK
<1>1. SInv => TypeOK
    BY DEF SInv
<1> QED
    BY <1>1, StorageInvariant, PTL

\* A node is demoted or forgotten only for want of room, and gives way only to
\* nodes that were known as long (node_bucket_storage.rs:120-159).
THEOREM LossesAreNeeded == Spec => LossNeedsFullClass
<1>1. SInv => (AddOrUpdate => LossJustified)
    BY SeenLoses, VerifiedLoses DEF AddOrUpdate
<1> QED
    BY <1>1, StorageInvariant, PTL DEF Spec, LossNeedsFullClass, LossJustified

----------------------------------------------------------------------------
(* The periodic tasks.                                                     *)

\* The instant of the last round of pings.
LastRound == IF buddy.pinged THEN buddy.at ELSE buddy.at - CheckInterval

IsRound(t) == \E j \in Nat : t = LastRound - j * CheckInterval

\* A round at t has pinged the node of the record r (Due), if it was one.
Asked(r, t) ==
    IF r.last_verified = Never THEN t > r.first_seen /\ t >= ReverifyInterval
                               ELSE t > r.last_verified + ReverifyInterval

Question(r, t) == [id |-> r.id, address |-> r.address, sent |-> t]

\* The rounds whose ping of r has come to an end.
Closed(r) == {t \in Instants : IsRound(t) /\ Asked(r, t) /\ Question(r, t) \notin calls}

\* r's node lives where r says.
AtHome(r) == r.id \in alive /\ r.address = Home[r.id]

Timely ==
    /\ buddy \in [at : Nat, pinged : BOOLEAN]
    /\ buddy.at <= now /\ now <= buddy.at + CheckInterval
    /\ ~buddy.pinged => now = buddy.at
    /\ calls \subseteq [id : Id \cup {AnyId}, address : Address, sent : Nat]
    /\ \A c \in calls : Answerers(c) # {} => now <= c.sent + Delay
    /\ alive \subseteq Id
    /\ lost \in [Id -> 0 .. MaxLost]

\* What ended without an answer was lost.
LossesExplain ==
    \A r \in Stored : AtHome(r) => Cardinality(Closed(r)) <= lost[r.id]

\* What the last prune has kept, or what has come since.
KeptAt(r, t) ==
    \/ r.last_verified >= t - Grace
    \/ r \in unverified /\ r.last_seen >= t - Grace /\ r.last_seen >= t - UnverifiedGrace

Pruned ==
    \/ buddy.at < Grace \/ buddy.at < UnverifiedGrace
    \/ \A r \in Stored : KeptAt(r, buddy.at)

TasksInv == SInv /\ Timely /\ LossesExplain /\ Pruned

LEMMA LeastNat ==
    ASSUME NEW S \in SUBSET Nat, S # {}
    PROVE  \E i \in S : \A j \in S : i <= j
<1> DEFINE R == OpToRel(<, Nat)
<1>1. \E i \in S : \A j \in S : <<j, i>> \notin R
    <2>1. IsWellFoundedOn(R, Nat)
        BY NatLessThanWellFounded
    <2> HIDE DEF R
    <2> QED
        BY <2>1, WFMin
<1>2. PICK i \in S : \A j \in S : <<j, i>> \notin R
    BY <1>1
<1>3. \A j \in S : ~(j < i)
    BY <1>2 DEF OpToRel
<1> QED
    BY <1>3

\* What hearing of a node does to the records, one by one.
LEMMA SeenEffect ==
    ASSUME SInv, NEW id \in Id, NEW addr \in Address, AddOrUpdateLastSeen(id, addr),
           NEW r \in Stored'
    PROVE  \/ r = NewWrapper(id, addr) /\ r \in unverified'
           \/ \E s \in Stored : /\ r = s \/ r = Seen(s)
                                /\ s \in unverified => r \in unverified'
<1>0. verified \cap unverified = {}
    BY DEF SInv, OneRecordPerId
<1>1. ASSUME verified' = TakeOut(verified, id) \cup {Seen(s) : s \in Entry(verified, id)},
             unverified' = unverified
      PROVE  \E s \in Stored : /\ r = s \/ r = Seen(s)
                               /\ s \in unverified => r \in unverified'
    <2>1. CASE r \in unverified'
        BY <1>1, <2>1 DEF Stored
    <2>2. CASE r \in verified'
        <3>1. PICK s \in verified : r = s \/ r = Seen(s)
            BY <1>1, <2>2 DEF TakeOut, Entry
        <3> QED
            BY <1>0, <3>1 DEF Stored
    <2> QED
        BY <2>1, <2>2 DEF Stored
<1>2. ASSUME unverified' = TakeOut(unverified, id) \cup {Seen(s) : s \in Entry(unverified, id)},
             verified' = verified
      PROVE  \E s \in Stored : /\ r = s \/ r = Seen(s)
                               /\ s \in unverified => r \in unverified'
    <2>1. CASE r \in unverified'
        <3>1. PICK s \in unverified : r = s \/ r = Seen(s)
            BY <1>2, <2>1 DEF TakeOut, Entry
        <3> QED
            BY <2>1, <3>1 DEF Stored
    <2>2. CASE r \in verified'
        BY <1>0, <1>2, <2>2 DEF Stored
    <2> QED
        BY <2>1, <2>2 DEF Stored
<1>3. ASSUME verified' = verified,
             \E to \in Added(unverified, NewWrapper(id, addr)) : unverified' = to.table
      PROVE  \/ r = NewWrapper(id, addr) /\ r \in unverified'
             \/ \E s \in Stored : r = s /\ (s \in unverified => r \in unverified')
    <2> DEFINE w == NewWrapper(id, addr)
    <2>1. PICK to \in Added(unverified, w) : unverified' = to.table
        BY <1>3
    <2> HIDE DEF w
    <2>2. unverified' \subseteq unverified \cup {w}
        BY <2>1, AddedBounded, SInvParts DEF Inserted
    <2>3. CASE r \in unverified'
        BY <2>2, <2>3 DEF Stored, w
    <2>4. CASE r \in verified'
        BY <1>0, <1>3, <2>4 DEF Stored
    <2> QED
        BY <2>3, <2>4 DEF Stored
<1> QED
    BY <1>1, <1>2, <1>3 DEF AddOrUpdateLastSeen

\* A promotion brings w; the others come from verified and from rest.
LEMMA SeatEffect ==
    ASSUME SInv, NEW w, NEW rest \in SUBSET unverified, Seat(w, rest)
    PROVE  /\ verified' \subseteq verified \cup {w}
           /\ unverified' \subseteq rest \cup verified \cup {w}
<1>1. IsFiniteSet(verified) /\ Bounded(verified) /\ IsFiniteSet(rest) /\ Bounded(rest)
    BY PartBounded, SInvParts
<1>2. PICK to \in Added(verified, w) :
        /\ verified' = to.table
        /\ \/ to.chumps = {} /\ unverified' = rest
           \/ \E c \in to.chumps : \E back \in Added(rest, c) : unverified' = back.table
    BY DEF Seat
<1>3. to.table \cup to.chumps \subseteq verified \cup {w}
    BY <1>1, AddedBounded DEF Inserted
<1>4. ASSUME NEW c \in to.chumps, NEW back \in Added(rest, c)
      PROVE  back.table \subseteq rest \cup {c}
    BY <1>1, AddedBounded DEF Inserted
<1> QED
    BY <1>2, <1>3, <1>4

\* What a node's answer does to the records, one by one.
LEMMA VerifiedEffect ==
    ASSUME SInv, NEW id \in Id, NEW addr \in Address, AddOrUpdateVerified(id, addr),
           NEW r \in Stored'
    PROVE  \/ r.id = id /\ r.last_verified = now
           \/ r.id # id /\ r \in Stored /\ (r \in unverified => r \in unverified')
<1>1. \A s \in Stored : /\ Verified(s).id = s.id
                        /\ Verified(s).last_verified = now
    BY DEF SInv, TypeOK, NodeWrapper, Stored, Verified
<1>2. /\ \A s, t \in Stored : s.id = t.id => s = t
      /\ verified \cap unverified = {}
    BY DEF SInv, OneRecordPerId
<1>3. ASSUME NEW w, NEW rest \in SUBSET unverified, Seat(w, rest),
             w.id = id, w.last_verified = now, \A s \in verified \cup rest : s.id # id
      PROVE  \/ r.id = id /\ r.last_verified = now
             \/ r.id # id /\ r \in Stored /\ (r \in unverified => r \in unverified')
    <2>1. /\ verified' \subseteq verified \cup {w}
          /\ unverified' \subseteq rest \cup verified \cup {w}
        BY <1>3, SeatEffect
    <2>2. CASE r = w
        BY <1>3, <2>2
    <2>3. CASE r # w
        BY <1>2, <1>3, <2>1, <2>3 DEF Stored
    <2> QED
        BY <2>2, <2>3
<1>4. ASSUME NEW s \in Entry(unverified, id), Seat(Verified(s), TakeOut(unverified, id))
      PROVE  \/ r.id = id /\ r.last_verified = now
             \/ r.id # id /\ r \in Stored /\ (r \in unverified => r \in unverified')
    <2>1. s \in unverified /\ s \in Stored /\ s.id = id
        BY DEF Entry, Stored
    <2>2. \A t \in verified \cup TakeOut(unverified, id) : t.id # id
        BY <1>2, <2>1 DEF TakeOut, Entry, Stored
    <2>3. TakeOut(unverified, id) \in SUBSET unverified
        BY DEF TakeOut
    <2>4. Verified(s).id = id /\ Verified(s).last_verified = now
        BY <1>1, <2>1
    <2> QED
        BY <1>3, <1>4, <2>2, <2>3, <2>4
<1>5. ASSUME verified' = TakeOut(verified, id) \cup {Verified(s) : s \in Entry(verified, id)},
             unverified' = unverified, Entry(unverified, id) = {}
      PROVE  \/ r.id = id /\ r.last_verified = now
             \/ r.id # id /\ r \in Stored /\ (r \in unverified => r \in unverified')
    <2>1. CASE r \in unverified
        BY <1>5, <2>1 DEF Entry, Stored
    <2>2. CASE r \in TakeOut(verified, id)
        BY <1>5, <2>2 DEF TakeOut, Entry, Stored
    <2>3. ASSUME NEW s \in Entry(verified, id), r = Verified(s)
          PROVE  r.id = id /\ r.last_verified = now
        BY <1>1, <2>3 DEF Entry, Stored
    <2> QED
        BY <1>5, <2>1, <2>2, <2>3 DEF Stored
<1>6. ASSUME Entry(Stored, id) = {}, Seat(Verified(NewWrapper(id, addr)), unverified)
      PROVE  \/ r.id = id /\ r.last_verified = now
             \/ r.id # id /\ r \in Stored /\ (r \in unverified => r \in unverified')
    <2>1. \A s \in verified \cup unverified : s.id # id
        BY <1>6 DEF Entry, Stored
    <2>2. /\ Verified(NewWrapper(id, addr)).id = id
          /\ Verified(NewWrapper(id, addr)).last_verified = now
        BY DEF Verified, NewWrapper
    <2> QED
        BY <1>3, <1>6, <2>1, <2>2
<1> QED
    BY <1>4, <1>5, <1>6 DEF AddOrUpdateVerified

\* The tasks use the storage as NodeBucketStorage says.
LEMMA TasksStep ==
    ASSUME Timely, [TasksNext]_taskVars
    PROVE  [Next]_vars
<1>1. ASSUME NEW c \in calls, NEW n \in Id, Answer(c, n)
      PROVE  Next
    <2>1. c.address \in Address
        BY DEF Timely
    <2> QED
        BY <1>1, <2>1 DEF Answer, Next, AddOrUpdate
<1>2. ASSUME NEW id \in Id, NEW addr \in Address, Hear(id, addr)
      PROVE  Next
    BY <1>2 DEF Hear, Next, AddOrUpdate
<1>3. CASE PruneRound \/ TimePasses
    BY <1>3 DEF PruneRound, TimePasses, Next
<1>4. CASE \/ PingRound \/ FindNodeBegin \/ FindNodeDecide \/ RouterRound
           \/ \E c \in calls : GiveUp(c) \/ \E n \in Id : Lose(c, n)
           \/ \E n \in Id : Die(n)
    BY <1>4 DEF PingRound, FindNodeBegin, FindNodeDecide, RouterRound, GiveUp, Lose, Die
<1>5. CASE UNCHANGED taskVars
    BY <1>5 DEF taskVars
<1> QED
    BY <1>1, <1>2, <1>3, <1>4, <1>5 DEF TasksNext

LEMMA SettingsTyped ==
    /\ CheckInterval \in Nat \ {0} /\ ReverifyInterval \in Nat /\ MaxLost \in Nat
    /\ Delay \in Nat
    BY MaintenanceAssumption

\* A call is new, or was there and its instant has not passed.
LEMMA CallsTimely ==
    ASSUME Timely, alive' \subseteq alive, UNCHANGED now,
           \A c \in calls' : \/ c \in calls
                             \/ c.sent = now /\ c \in [id : Id \cup {AnyId}, address : Address, sent : Nat]
    PROVE  /\ calls' \subseteq [id : Id \cup {AnyId}, address : Address, sent : Nat]
           /\ \A c \in calls' : Answerers(c)' # {} => now' <= c.sent + Delay
<1>1. \A c \in calls' : Answerers(c)' \subseteq Answerers(c)
    BY DEF Answerers
<1>2. \A c \in calls' : c.sent = now /\ c.sent \in Nat => now' <= c.sent + Delay
    BY SettingsTyped
<1>3. \A c \in calls' : c \in calls /\ Answerers(c)' # {} => now' <= c.sent + Delay
    BY <1>1 DEF Timely
<1>4. calls' \subseteq [id : Id \cup {AnyId}, address : Address, sent : Nat]
    BY DEF Timely
<1> QED
    BY <1>2, <1>3, <1>4

LEMMA NewCallTyped ==
    ASSUME SInv, NEW id \in Id \cup {AnyId}, NEW addr \in Address
    PROVE  /\ Call(id, addr).sent = now
           /\ Call(id, addr) \in [id : Id \cup {AnyId}, address : Address, sent : Nat]
    BY DEF SInv, TypeOK, Instants, Call

LEMMA RouterCallTyped ==
    ASSUME SInv, NEW R \in RouterCalls, NEW c \in R
    PROVE  /\ c.sent = now
           /\ c \in [id : Id \cup {AnyId}, address : Address, sent : Nat]
<1>1. PICK n \in Routers : c = Call(AnyId, Home[n])
    BY DEF RouterCalls
<1>2. Home[n] \in Address
    BY MaintenanceAssumption
<1> QED
    BY <1>1, <1>2, NewCallTyped

LEMMA TimelyInit == TasksInit /\ SInv => Timely
<1> SUFFICES ASSUME TasksInit, SInv
             PROVE  Timely
    OBVIOUS
<1>1. /\ now = 0 /\ buddy = [at |-> 0, pinged |-> TRUE]
      /\ alive = Id \ {our_id} /\ lost = [n \in Id |-> 0]
    BY DEF TasksInit, Init
<1>2. \A c \in calls : /\ c \in [id : Id \cup {AnyId}, address : Address, sent : Nat]
                       /\ c.sent = 0
    BY <1>1, RouterCallTyped DEF TasksInit
<1> QED
    BY <1>1, <1>2, SettingsTyped DEF Timely

LEMMA TimelyNext ==
    ASSUME SInv, Timely, [TasksNext]_taskVars
    PROVE  Timely'
<1>0. /\ now \in Nat /\ buddy.at \in Nat /\ buddy.pinged \in BOOLEAN
      /\ buddy = [at |-> buddy.at, pinged |-> buddy.pinged]
    BY DEF SInv, TypeOK, Instants, Timely
<1>1. CASE PruneRound
    <2>1. /\ UNCHANGED <<now, calls, alive, lost>> /\ buddy' = [at |-> now, pinged |-> FALSE]
        BY <1>1 DEF PruneRound, Prune
    <2> QED
        BY <1>0, <2>1, CallsTimely, SettingsTyped DEF Timely
<1>2. CASE PingRound
    <2>1. /\ UNCHANGED <<now, alive, lost>> /\ buddy' = [at |-> buddy.at, pinged |-> TRUE]
        BY <1>0, <1>2 DEF PingRound, vars
    <2>2. \A r \in Stored : r.id \in Id /\ r.address \in Address
        BY DEF SInv, TypeOK, NodeWrapper, Stored
    <2>3. \A c \in calls' : \/ c \in calls
                            \/ \E r \in Stored : c = Call(r.id, r.address)
        BY <1>2 DEF PingRound
    <2> QED
        BY <1>0, <2>1, <2>2, <2>3, NewCallTyped, CallsTimely DEF Timely
<1>3. CASE FindNodeBegin
    BY <1>3 DEF FindNodeBegin, vars, Timely, Answerers
<1>4. CASE FindNodeDecide
    <2>1. UNCHANGED <<now, buddy, alive, lost>>
        BY <1>4 DEF FindNodeDecide, vars
    <2>2. \A r \in verified : r.id \in Id /\ r.address \in Address
        BY DEF SInv, TypeOK, NodeWrapper
    <2>3. PICK routers, nearest : /\ routers \in RouterCalls \cup {{}}
                                  /\ nearest \subseteq verified
                                  /\ calls' = calls \cup routers
                                                \cup {Call(r.id, r.address) : r \in nearest}
        BY <1>4 DEF FindNodeDecide
    <2>4. \A c \in calls' : \/ c \in calls
                            \/ c.sent = now /\ c \in [id : Id \cup {AnyId}, address : Address, sent : Nat]
        BY <2>2, <2>3, NewCallTyped, RouterCallTyped
    <2> QED
        BY <2>1, <2>4, CallsTimely DEF Timely
<1>5. CASE RouterRound
    <2>1. UNCHANGED <<now, buddy, alive, lost>>
        BY <1>5 DEF RouterRound, vars
    <2>2. \A c \in calls' : \/ c \in calls
                            \/ c.sent = now /\ c \in [id : Id \cup {AnyId}, address : Address, sent : Nat]
        BY <1>5, RouterCallTyped DEF RouterRound
    <2> QED
        BY <2>1, <2>2, CallsTimely DEF Timely
<1>6. ASSUME NEW c \in calls, GiveUp(c)
      PROVE  Timely'
    BY <1>6 DEF GiveUp, Ended, vars, Timely, Answerers
<1>7. ASSUME NEW c \in calls, NEW n \in Id, Answer(c, n)
      PROVE  Timely'
    <2>1. UNCHANGED <<now, buddy, alive>> /\ calls' \subseteq calls
        BY <1>7 DEF Answer, Ended, AddOrUpdateVerified
    <2>2. lost' \in [Id -> 0 .. MaxLost]
        BY <1>7, SettingsTyped DEF Answer, Timely
    <2> QED
        BY <2>1, <2>2, CallsTimely DEF Timely
<1>8. ASSUME NEW c \in calls, NEW n \in Id, Lose(c, n)
      PROVE  Timely'
    <2>1. UNCHANGED <<now, buddy, alive>> /\ calls' \subseteq calls
        BY <1>8 DEF Lose, Ended, vars
    <2>2. lost' \in [Id -> 0 .. MaxLost]
        BY <1>8, SettingsTyped DEF Lose, Timely
    <2> QED
        BY <2>1, <2>2, CallsTimely DEF Timely
<1>9. ASSUME NEW id \in Id, NEW addr \in Address, Hear(id, addr)
      PROVE  Timely'
    BY <1>9 DEF Hear, AddOrUpdateLastSeen, Timely, Answerers
<1>10. ASSUME NEW n \in Id, Die(n)
       PROVE  Timely'
    <2>1. UNCHANGED <<now, buddy, calls, lost>> /\ alive' \subseteq alive
        BY <1>10 DEF Die, vars
    <2> QED
        BY <2>1, CallsTimely DEF Timely
<1>11. CASE TimePasses
    <2>1. /\ UNCHANGED <<buddy, calls, alive, lost>> /\ now' = now + 1
          /\ buddy.pinged /\ now < buddy.at + CheckInterval
          /\ \A c \in calls : Answerers(c) # {} => now < c.sent + Delay
        BY <1>11 DEF TimePasses, Tick
    <2>2. \A c \in calls : Answerers(c)' = Answerers(c) /\ c.sent \in Nat
        BY <2>1 DEF Answerers, Timely
    <2>3. \A c \in calls : Answerers(c)' # {} => now' <= c.sent + Delay
        BY <1>0, <2>1, <2>2, SettingsTyped
    <2>4. buddy.at <= now' /\ now' <= buddy.at + CheckInterval
        BY <1>0, <2>1, SettingsTyped DEF Timely
    <2> QED
        BY <2>1, <2>3, <2>4 DEF Timely
<1>12. CASE UNCHANGED taskVars
    BY <1>12 DEF taskVars, vars, Timely, Answerers
<1> QED
    BY <1>1, <1>2, <1>3, <1>4, <1>5, <1>6, <1>7, <1>8, <1>9, <1>10, <1>11, <1>12 DEF TasksNext

\* Between two prunes nothing gets worse: what is seen or verified is new enough,
\* and nothing that was verified too long ago becomes unverified.
LEMMA PrunedNext ==
    ASSUME SInv, SInv', Timely, Pruned, [TasksNext]_taskVars
    PROVE  Pruned'
<1>0. /\ now \in Nat /\ buddy.at \in Nat /\ buddy.at <= now
      /\ verified \cap unverified = {}
    BY DEF SInv, TypeOK, Instants, Timely, OneRecordPerId
<1>1. CASE PruneRound
    <2>1. /\ buddy'.at = now
          /\ \/ now < Grace \/ now < UnverifiedGrace
             \/ /\ \A r \in verified' : KeepVerified(r)
                /\ \A r \in unverified' : KeepUnverified(r)
        BY <1>1 DEF PruneRound, Prune
    <2>2. ASSUME NEW r \in Stored', \A s \in verified' : KeepVerified(s),
                 \A s \in unverified' : KeepUnverified(s)
          PROVE  \/ r.last_verified >= now - Grace
                 \/ /\ r \in unverified'
                    /\ r.last_seen >= now - Grace
                    /\ r.last_seen >= now - UnverifiedGrace
        <3>1. CASE r \in verified'
            BY <2>2, <3>1 DEF KeepVerified
        <3>2. CASE r \in unverified'
            BY <2>2, <3>2 DEF KeepUnverified
        <3> QED
            BY <3>1, <3>2 DEF Stored
    <2> QED
        BY <2>1, <2>2 DEF Pruned, KeptAt
<1>2. ASSUME UNCHANGED buddy,
             \A r \in Stored' :
                \/ r.last_verified = now
                \/ r \in unverified' /\ r.last_seen = now
                \/ \E s \in Stored : /\ r.last_verified = s.last_verified
                                     /\ r.last_seen \in {s.last_seen, now}
                                     /\ s \in unverified => r \in unverified'
      PROVE  Pruned'
    <2>1. /\ now >= buddy.at - Grace /\ now >= buddy.at - UnverifiedGrace
        BY <1>0
    <2>2. ASSUME NEW r \in Stored', \A s \in Stored : KeptAt(s, buddy.at)
          PROVE  \/ r.last_verified >= buddy.at - Grace
                 \/ /\ r \in unverified'
                    /\ r.last_seen >= buddy.at - Grace
                    /\ r.last_seen >= buddy.at - UnverifiedGrace
        BY <1>2, <2>1, <2>2 DEF KeptAt
    <2> QED
        BY <1>2, <2>2 DEF Pruned, KeptAt
<1>3. ASSUME NEW c \in calls, NEW n \in Id, Answer(c, n)
      PROVE  Pruned'
    <2>1. AddOrUpdateVerified(n, c.address) /\ UNCHANGED buddy /\ c.address \in Address
        BY <1>3 DEF Answer, Timely
    <2> QED
        BY <1>2, <2>1, VerifiedEffect
<1>4. ASSUME NEW id \in Id, NEW addr \in Address, Hear(id, addr)
      PROVE  Pruned'
    <2>1. AddOrUpdateLastSeen(id, addr) /\ UNCHANGED buddy
        BY <1>4 DEF Hear
    <2>2. NewWrapper(id, addr).last_seen = now
        BY DEF NewWrapper
    <2>3. \A s \in Stored : /\ Seen(s).last_verified = s.last_verified
                            /\ Seen(s).last_seen = now
        BY DEF SInv, TypeOK, NodeWrapper, Stored, Seen
    <2> QED
        BY <1>2, <2>1, <2>2, <2>3, SeenEffect
<1>5. CASE UNCHANGED <<verified, unverified>> /\ buddy'.at = buddy.at
    BY <1>5 DEF Pruned, KeptAt, Stored
<1>6. CASE PingRound
    <2>1. buddy'.at = buddy.at
        BY <1>6 DEF PingRound, Timely
    <2> QED
        BY <1>5, <1>6, <2>1 DEF PingRound, vars
<1>7. CASE \/ FindNodeBegin \/ FindNodeDecide \/ RouterRound \/ TimePasses
           \/ \E c \in calls : GiveUp(c) \/ \E n \in Id : Lose(c, n)
           \/ \E n \in Id : Die(n) \/ UNCHANGED taskVars
    BY <1>5, <1>7 DEF FindNodeBegin, FindNodeDecide, RouterRound, TimePasses, Tick, GiveUp, Lose,
                      Die, vars, taskVars
<1>8. CASE UNCHANGED taskVars
    BY <1>5, <1>8 DEF vars, taskVars
<1> QED
    BY <1>1, <1>3, <1>4, <1>6, <1>7, <1>8 DEF TasksNext

LEMMA ClosedIsFinite ==
    ASSUME NEW r
    PROVE  IsFiniteSet(Closed(r)) /\ Cardinality(Closed(r)) \in Nat
<1>1. IsFiniteSet(Instants)
    BY FS_Interval DEF Instants
<1>2. Closed(r) \in SUBSET Instants
    BY DEF Closed
<1> QED
    BY <1>1, <1>2, FS_Subset, FS_CardinalityType

\* No round was before the last but the one before it and those before that.
LEMMA RoundsPast ==
    ASSUME Timely, NEW t, IsRound(t)
    PROVE  t \in Int /\ t <= LastRound /\ LastRound \in Int /\ LastRound <= buddy.at
<1>1. PICK j \in Nat : t = LastRound - j * CheckInterval
    BY DEF IsRound
<1>2. j * CheckInterval \in Nat
    BY SettingsTyped
<1>3. LastRound \in Int /\ LastRound <= buddy.at
    BY SettingsTyped DEF LastRound, Timely
<1> QED
    BY <1>1, <1>2, <1>3

\* The same rounds, and no fewer calls: no more rounds are closed.
LEMMA ClosedAsBefore ==
    ASSUME UNCHANGED buddy, NEW r, NEW s, r.id = s.id, r.address = s.address,
           r.first_seen = s.first_seen, r.last_verified = s.last_verified,
           \A t : Question(s, t) \in calls => Question(s, t) \in calls'
    PROVE  Closed(r)' \subseteq Closed(s)
<1>1. \A t : Question(r, t) = Question(s, t) /\ (Asked(r, t) <=> Asked(s, t))
    BY DEF Question, Asked
<1>2. \A t : IsRound(t)' <=> IsRound(t)
    BY DEF IsRound, LastRound
<1> QED
    BY <1>1, <1>2 DEF Closed

\* Whoever is new or has just answered was due in no round.
LEMMA NoneClosed ==
    ASSUME Timely', UNCHANGED now, now \in Nat, NEW r,
           r.last_verified = now \/ (r.last_verified = Never /\ r.first_seen = now)
    PROVE  Closed(r)' = {}
<1>1. \A t \in Instants : Asked(r, t) => t > now
    BY SettingsTyped DEF Asked, Never, Instants
<1>2. \A t \in Instants : IsRound(t)' => t <= now
    <2>1. buddy'.at \in Nat /\ buddy'.at <= now /\ LastRound' \in Int /\ LastRound' <= buddy'.at
        BY SettingsTyped DEF Timely, LastRound
    <2> SUFFICES ASSUME NEW t \in Instants, NEW j \in Nat, t = LastRound' - j * CheckInterval
                 PROVE  t <= now
        BY DEF IsRound
    <2>2. j * CheckInterval \in Nat
        BY SettingsTyped
    <2> QED
        BY <2>1, <2>2
<1>3. \A t \in Instants : t \in Nat
    BY DEF Instants
<1>4. \A t \in Instants : ~(IsRound(t)' /\ Asked(r, t))
    BY <1>1, <1>2, <1>3
<1> QED
    BY <1>4 DEF Closed

\* A record, its node at home, is no worse off if fewer of its rounds are closed
\* and no fewer calls to it were lost.
LEMMA ExplainedAsBefore ==
    ASSUME LossesExplain, NEW s \in Stored, AtHome(s), NEW r, r.id = s.id,
           Closed(r)' \subseteq Closed(s), lost'[r.id] = lost[s.id], lost[s.id] \in Nat
    PROVE  Cardinality(Closed(r)') <= lost'[r.id]
<1>1. IsFiniteSet(Closed(s)) /\ Cardinality(Closed(s)) \in Nat
    BY ClosedIsFinite
<1> DEFINE before == Closed(s)
           after == Closed(r)'
<1>2. after \in SUBSET before
    OBVIOUS
<1>3. Cardinality(before) <= lost[s.id]
    BY DEF LossesExplain
<1> HIDE DEF before, after
<1>4. Cardinality(after) <= Cardinality(before) /\ Cardinality(after) \in Nat
    BY <1>1, <1>2, FS_Subset, FS_CardinalityType DEF before
<1>5. Cardinality(after) <= lost'[r.id]
    BY <1>1, <1>3, <1>4 DEF before
<1> QED
    BY <1>5 DEF after

\* Whoever is at home can answer a question put to it, and nobody else can.
LEMMA AnswererAtHome ==
    ASSUME Timely, NEW r \in Stored, AtHome(r), NEW c, c.id = r.id, c.address = r.address
    PROVE  /\ r.id \in Answerers(c)
           /\ \A n \in Answerers(c) : n = r.id
    BY MaintenanceAssumption DEF AtHome, Timely, Answerers

\* A step that leaves the records and the rounds alone and ends no call to a
\* node at home.
LEMMA CallsGoOn ==
    ASSUME Timely, LossesExplain, UNCHANGED <<buddy, lost>>, alive' \subseteq alive,
           Stored' \subseteq Stored,
           \A r \in Stored, t \in Instants :
               AtHome(r) /\ Question(r, t) \in calls => Question(r, t) \in calls'
    PROVE  LossesExplain'
<1> SUFFICES ASSUME NEW r \in Stored', AtHome(r)'
             PROVE  Cardinality(Closed(r)') <= lost'[r.id]
    BY DEF LossesExplain
<1>1. r \in Stored /\ AtHome(r)
    BY DEF AtHome
<1>2. lost[r.id] \in Nat
    BY <1>1, SettingsTyped DEF Timely, AtHome
<1>3. Closed(r)' \subseteq Closed(r)
    BY <1>1 DEF Closed, IsRound, LastRound
<1> QED
    BY <1>1, <1>2, <1>3, ExplainedAsBefore

\* After a round of pings the round is open for all who were due in it.
LEMMA LossesAtPing ==
    ASSUME SInv, Timely, LossesExplain, PingRound
    PROVE  LossesExplain'
<1> SUFFICES ASSUME NEW r \in Stored', AtHome(r)'
             PROVE  Cardinality(Closed(r)') <= lost'[r.id]
    BY DEF LossesExplain
<1>1. /\ UNCHANGED <<vars, alive, lost>> /\ calls \subseteq calls'
      /\ buddy.at = now /\ buddy'.at = now /\ ~buddy.pinged /\ buddy'.pinged
    BY DEF PingRound, Timely
<1>2. r \in Stored /\ AtHome(r) /\ now \in Nat
    BY <1>1 DEF AtHome, vars, Stored, SInv, TypeOK, Instants
<1>3. lost[r.id] \in Nat
    BY <1>2, SettingsTyped DEF Timely, AtHome
<1>4. LastRound = now - CheckInterval /\ LastRound' = now
    BY <1>1 DEF LastRound
<1>5. ASSUME NEW t, IsRound(t)', t # now
      PROVE  IsRound(t)
    <2>1. PICK j \in Nat : t = now - j * CheckInterval
        BY <1>4, <1>5 DEF IsRound
    <2>2. j # 0 /\ j - 1 \in Nat
        BY <1>2, <1>5, <2>1, SettingsTyped
    <2>3. t = (now - CheckInterval) - (j - 1) * CheckInterval
        BY <1>2, <2>1, <2>2, SettingsTyped
    <2> QED
        BY <1>4, <2>2, <2>3 DEF IsRound
<1>6. Asked(r, now) => Question(r, now) \in calls'
    <2> SUFFICES ASSUME Asked(r, now)
                 PROVE  Question(r, now) \in calls'
        OBVIOUS
    <2>1. r.last_verified = Never \/ r.last_verified \in Nat
        BY <1>2 DEF SInv, TypeOK, NodeWrapper, Stored, Instants
    <2>2. Due(r) /\ now >= ReverifyInterval
        BY <1>2, <2>1, SettingsTyped DEF Asked, Due
    <2>3. Call(r.id, r.address) \in calls'
        BY <1>2, <2>2, SettingsTyped DEF PingRound
    <2> QED
        BY <2>3 DEF Call, Question
<1>7. Closed(r)' \subseteq Closed(r)
    BY <1>1, <1>5, <1>6 DEF Closed
<1> QED
    BY <1>1, <1>2, <1>3, <1>7, ExplainedAsBefore

\* An answer clears the record of its node and concerns no other.
LEMMA LossesAtAnswer ==
    ASSUME SInv, Timely, Timely', LossesExplain, NEW c \in calls, NEW n \in Id, Answer(c, n)
    PROVE  LossesExplain'
<1> SUFFICES ASSUME NEW r \in Stored', AtHome(r)'
             PROVE  Cardinality(Closed(r)') <= lost'[r.id]
    BY DEF LossesExplain
<1>1. /\ UNCHANGED <<now, buddy, alive>> /\ calls' = calls \ {c}
      /\ AddOrUpdateVerified(n, c.address) /\ c.address \in Address
      /\ lost' = [lost EXCEPT ![n] = 0] /\ c.id \in {n, AnyId}
    BY DEF Answer, Ended, AddOrUpdateVerified, Answerers, Timely
<1>2. now \in Nat /\ AtHome(r) /\ r.id \in Id /\ lost[r.id] \in Nat
    BY <1>1, SettingsTyped DEF SInv, TypeOK, Instants, AtHome, Timely
<1>3. CASE r.id = n /\ r.last_verified = now
    <2>1. Closed(r)' = {}
        BY <1>1, <1>2, <1>3, NoneClosed
    <2>2. lost'[r.id] = 0
        BY <1>1, <1>2, <1>3 DEF Timely
    <2> QED
        BY <2>1, <2>2, FS_EmptySet
<1>4. CASE r.id # n /\ r \in Stored
    <2>1. c.id # r.id
        BY <1>1, <1>2, <1>4, MaintenanceAssumption
    <2>2. \A t : Question(r, t) \in calls => Question(r, t) \in calls'
        BY <1>1, <2>1 DEF Question
    <2>3. Closed(r)' \subseteq Closed(r)
        BY <1>1, <2>2, ClosedAsBefore
    <2>4. lost'[r.id] = lost[r.id]
        BY <1>1, <1>2, <1>4 DEF Timely
    <2> QED
        BY <1>2, <1>4, <2>3, <2>4, ExplainedAsBefore
<1> QED
    BY <1>1, <1>3, <1>4, VerifiedEffect

\* A lost call closes one round more, and counts as lost.
LEMMA LossesAtLoss ==
    ASSUME Timely, LossesExplain, NEW c \in calls, NEW n \in Id, Lose(c, n)
    PROVE  LossesExplain'
<1> SUFFICES ASSUME NEW r \in Stored', AtHome(r)'
             PROVE  Cardinality(Closed(r)') <= lost'[r.id]
    BY DEF LossesExplain
<1>1. /\ UNCHANGED <<vars, buddy, alive>> /\ calls' = calls \ {c}
      /\ lost' = [lost EXCEPT ![n] = @ + 1] /\ n \in Answerers(c)
    BY DEF Lose, Ended
<1>2. r \in Stored /\ AtHome(r) /\ r.id \in Id /\ lost[r.id] \in Nat
    BY <1>1, SettingsTyped DEF AtHome, Timely, vars, Stored
<1>3. IsFiniteSet(Closed(r)) /\ Cardinality(Closed(r)) \in Nat
      /\ Cardinality(Closed(r)) <= lost[r.id]
    BY <1>2, ClosedIsFinite DEF LossesExplain
<1>4. CASE c.id = r.id /\ c.address = r.address
    <2>1. n = r.id
        BY <1>1, <1>2, <1>4, AnswererAtHome
    <2>2. lost'[r.id] = lost[r.id] + 1
        BY <1>1, <1>2, <2>1 DEF Timely
    <2> DEFINE before == Closed(r)
               after == Closed(r)'
    <2>3. after \subseteq before \cup {c.sent}
        BY <1>1 DEF Closed, Question, IsRound, LastRound
    <2> HIDE DEF before, after
    <2>4. /\ IsFiniteSet(before \cup {c.sent}) /\ Cardinality(before \cup {c.sent}) \in Nat
          /\ Cardinality(before \cup {c.sent}) <= Cardinality(before) + 1
        <3>1. IsFiniteSet(before) /\ Cardinality(before) \in Nat
            BY <1>3 DEF before
        <3>2. /\ IsFiniteSet(before \cup {c.sent})
              /\ Cardinality(before \cup {c.sent})
                    = IF c.sent \in before THEN Cardinality(before) ELSE Cardinality(before) + 1
            BY <3>1, FS_AddElement
        <3> QED
            BY <3>1, <3>2
    <2>5. Cardinality(after) <= Cardinality(before \cup {c.sent}) /\ Cardinality(after) \in Nat
        BY <2>3, <2>4, FS_Subset, FS_CardinalityType
    <2>6. Cardinality(after) <= lost'[r.id]
        BY <1>2, <1>3, <2>2, <2>4, <2>5 DEF before
    <2> QED
        BY <2>6 DEF after
<1>5. CASE ~(c.id = r.id /\ c.address = r.address)
    <2>1. Closed(r)' \subseteq Closed(r)
        BY <1>1, <1>5 DEF Closed, Question, IsRound, LastRound
    <2> DEFINE before == Closed(r)
               after == Closed(r)'
    <2> HIDE DEF before, after
    <2>2. Cardinality(after) <= Cardinality(before) /\ Cardinality(after) \in Nat
        BY <1>3, <2>1, FS_Subset, FS_CardinalityType DEF before, after
    <2>3. lost'[r.id] \in Nat /\ lost'[r.id] >= lost[r.id]
        BY <1>1, <1>2 DEF Timely
    <2>4. Cardinality(after) <= lost'[r.id]
        BY <1>2, <1>3, <2>2, <2>3 DEF before
    <2> QED
        BY <2>4 DEF after
<1> QED
    BY <1>4, <1>5

LEMMA LossesNext ==
    ASSUME SInv, Timely, Timely', LossesExplain, [TasksNext]_taskVars
    PROVE  LossesExplain'
<1>0. now \in Nat /\ buddy.at \in Nat /\ buddy.pinged \in BOOLEAN
    BY DEF SInv, TypeOK, Instants, Timely
<1>1. CASE PruneRound
    <2>1. /\ UNCHANGED <<calls, alive, lost>> /\ Stored' \subseteq Stored
          /\ buddy.pinged /\ buddy'.at = now /\ ~buddy'.pinged
          /\ now = buddy.at + CheckInterval
        BY <1>1 DEF PruneRound, Prune, Stored
    <2>2. LastRound' = LastRound
        BY <1>0, <2>1, SettingsTyped DEF LastRound
    <2> SUFFICES ASSUME NEW r \in Stored', AtHome(r)'
                 PROVE  Cardinality(Closed(r)') <= lost'[r.id]
        BY DEF LossesExplain
    <2>3. r \in Stored /\ AtHome(r) /\ lost[r.id] \in Nat
        BY <2>1, SettingsTyped DEF AtHome, Timely
    <2>4. Closed(r)' \subseteq Closed(r)
        BY <2>1, <2>2 DEF Closed, IsRound
    <2> QED
        BY <2>1, <2>3, <2>4, ExplainedAsBefore
<1>2. CASE PingRound
    BY <1>2, LossesAtPing
<1>3. CASE FindNodeBegin \/ FindNodeDecide \/ RouterRound
    <2>1. UNCHANGED <<vars, buddy, alive, lost>> /\ calls \subseteq calls'
        BY <1>3 DEF FindNodeBegin, FindNodeDecide, RouterRound
    <2> QED
        BY <2>1, CallsGoOn DEF vars, Stored
<1>4. ASSUME NEW c \in calls, GiveUp(c)
      PROVE  LossesExplain'
    <2>1. /\ UNCHANGED <<vars, buddy, alive, lost>> /\ calls' = calls \ {c}
          /\ Answerers(c) = {}
        BY <1>4 DEF GiveUp, Ended
    <2>2. \A r \in Stored, t \in Instants :
             AtHome(r) /\ Question(r, t) \in calls => Question(r, t) \in calls'
        BY <2>1, AnswererAtHome DEF Question
    <2> QED
        BY <2>1, <2>2, CallsGoOn DEF vars, Stored
<1>5. ASSUME NEW c \in calls, NEW n \in Id, Answer(c, n)
      PROVE  LossesExplain'
    BY <1>5, LossesAtAnswer
<1>6. ASSUME NEW c \in calls, NEW n \in Id, Lose(c, n)
      PROVE  LossesExplain'
    BY <1>6, LossesAtLoss
<1>7. ASSUME NEW id \in Id, NEW addr \in Address, Hear(id, addr)
      PROVE  LossesExplain'
    <2>1. /\ UNCHANGED <<now, buddy, calls, alive, lost>> /\ AddOrUpdateLastSeen(id, addr)
        BY <1>7 DEF Hear, AddOrUpdateLastSeen
    <2> SUFFICES ASSUME NEW r \in Stored', AtHome(r)'
                 PROVE  Cardinality(Closed(r)') <= lost'[r.id]
        BY DEF LossesExplain
    <2>2. AtHome(r) /\ lost[r.id] \in Nat
        BY <2>1, SettingsTyped DEF AtHome, Timely
    <2>3. CASE r = NewWrapper(id, addr)
        <3>1. r.last_verified = Never /\ r.first_seen = now
            BY <2>3 DEF NewWrapper
        <3>2. Closed(r)' = {}
            BY <1>0, <2>1, <3>1, NoneClosed
        <3>3. lost'[r.id] \in Nat
            BY <2>1, <2>2
        <3> QED
            BY <3>2, <3>3, FS_EmptySet
    <2>4. ASSUME NEW s \in Stored, r = s \/ r = Seen(s)
          PROVE  Cardinality(Closed(r)') <= lost'[r.id]
        <3>1. /\ r.id = s.id /\ r.address = s.address
              /\ r.first_seen = s.first_seen /\ r.last_verified = s.last_verified
            BY <2>4 DEF SInv, TypeOK, NodeWrapper, Stored, Seen
        <3>2. AtHome(s)
            BY <2>2, <3>1 DEF AtHome
        <3>3. Closed(r)' \subseteq Closed(s)
            BY <2>1, <3>1, ClosedAsBefore
        <3>4. lost'[r.id] = lost[s.id] /\ lost[s.id] \in Nat
            BY <2>1, <2>2, <3>1
        <3> QED
            BY <3>1, <3>2, <3>3, <3>4, ExplainedAsBefore
    <2> QED
        BY <2>1, <2>3, <2>4, SeenEffect
<1>8. ASSUME NEW n \in Id, Die(n)
      PROVE  LossesExplain'
    <2>1. UNCHANGED <<vars, buddy, calls, lost>> /\ alive' \subseteq alive
        BY <1>8 DEF Die
    <2> QED
        BY <2>1, CallsGoOn DEF vars, Stored
<1>9. CASE TimePasses
    <2>1. UNCHANGED <<verified, unverified, buddy, calls, alive, lost>>
        BY <1>9 DEF TimePasses, Tick
    <2> QED
        BY <2>1, CallsGoOn DEF Stored
<1>10. CASE UNCHANGED taskVars
    BY <1>10, CallsGoOn DEF taskVars, vars, Stored
<1> QED
    BY <1>1, <1>2, <1>3, <1>4, <1>5, <1>6, <1>7, <1>8, <1>9, <1>10 DEF TasksNext

THEOREM TasksInvariant == TasksSpec => []TasksInv
<1>1. TasksInit => TasksInv
    <2> SUFFICES ASSUME TasksInit
                 PROVE  TasksInv
        OBVIOUS
    <2>1. SInv
        BY StorageInit DEF TasksInit
    <2>2. Stored = {}
        BY DEF TasksInit, Init, Stored
    <2> QED
        BY <2>1, <2>2, TimelyInit DEF TasksInv, LossesExplain, Pruned
<1>2. TasksInv /\ [TasksNext]_taskVars => TasksInv'
    <2> SUFFICES ASSUME TasksInv, [TasksNext]_taskVars
                 PROVE  TasksInv'
        OBVIOUS
    <2>1. SInv /\ Timely /\ LossesExplain /\ Pruned
        BY DEF TasksInv
    <2>2. SInv'
        BY <2>1, TasksStep, StorageNext
    <2>3. Timely'
        BY <2>1, TimelyNext
    <2>4. LossesExplain'
        BY <2>1, <2>3, LossesNext
    <2>5. Pruned'
        BY <2>1, <2>2, PrunedNext
    <2> QED
        BY <2>2, <2>3, <2>4, <2>5 DEF TasksInv
<1> QED
    BY <1>1, <1>2, PTL DEF TasksSpec

\* The periodic tasks and the answers they get change the storage in no way that
\* NodeBucketStorage does not know, so that its theorems hold with them.
THEOREM TasksUseStorage == TasksSpec => Spec
<1>1. TasksInit => Init
    BY DEF TasksInit
<1>2. TasksInv /\ [TasksNext]_taskVars => [Next]_vars
    BY TasksStep DEF TasksInv
<1> QED
    BY <1>1, <1>2, TasksInvariant, PTL DEF TasksSpec, Spec

\* A verified node has answered within a grace period and a check interval,
\* whatever was heard of it since; a backup has at least been heard of, whichever
\* table it was in before (node_bucket_storage.rs:196-220, dht.rs:582-608).
THEOREM UnheardAreGone == TasksSpec => []UnheardGo
<1>1. TasksInv => UnheardGo
    <2> SUFFICES ASSUME TasksInv, now >= Grace + CheckInterval,
                        now >= UnverifiedGrace + CheckInterval,
                        NEW r \in Stored
                 PROVE  AnsweredLately(r) \/ (r \notin verified /\ HeardOfLately(r))
        BY SettingsTyped DEF UnheardGo, Stored, TasksInv, SInv, TypeOK, Instants
    <2>1. /\ now \in Nat /\ buddy.at \in Nat /\ now <= buddy.at + CheckInterval
          /\ r.last_seen \in Int /\ r.last_verified \in Int
        BY DEF TasksInv, SInv, TypeOK, NodeWrapper, Instants, Never, Stored, Timely
    <2>2. buddy.at >= Grace /\ buddy.at >= UnverifiedGrace
        BY <2>1, SettingsTyped
    <2>3. KeptAt(r, buddy.at)
        BY <2>1, <2>2 DEF TasksInv, Pruned
    <2>4. r \in unverified => r \notin verified
        BY DEF TasksInv, SInv, OneRecordPerId
    <2> QED
        BY <2>1, <2>3, <2>4, SettingsTyped DEF KeptAt, AnsweredLately, HeardOfLately
<1> QED
    BY <1>1, TasksInvariant, PTL

LEMMA Spaced ==
    ASSUME NEW i \in Nat, NEW j \in Nat
    PROVE  /\ i * CheckInterval \in Nat
           /\ (i + 1) * CheckInterval = i * CheckInterval + CheckInterval
           /\ i <= j => i * CheckInterval <= j * CheckInterval
           /\ i < j => i * CheckInterval < j * CheckInterval
<1>1. CheckInterval \in Nat /\ CheckInterval > 0
    BY SettingsTyped
<1>2. i * CheckInterval \in Nat /\ (i + 1) * CheckInterval = i * CheckInterval + CheckInterval
    BY <1>1
<1>3. ASSUME i <= j
      PROVE  j * CheckInterval = i * CheckInterval + (j - i) * CheckInterval
    BY <1>1, <1>3
<1>4. ASSUME i <= j
      PROVE  (j - i) * CheckInterval \in Nat /\ (i < j => (j - i) * CheckInterval > 0)
    <2>1. j - i \in Nat
        BY <1>4
    <2> QED
        BY <1>1, <2>1
<1> QED
    BY <1>2, <1>3, <1>4

\* At a prune, every round that a call has had time to answer since is closed:
\* too many rounds for a node that is at home.
LEMMA AnswererIsKept ==
    ASSUME TasksInv, PruneRound, NEW r \in Stored, AtHome(r)
    PROVE  r \in Stored'
<1> SUFFICES ASSUME r \notin Stored'
             PROVE  FALSE
    OBVIOUS
<1>0. /\ now \in Nat /\ now \in Instants /\ buddy.pinged /\ buddy.at = now - CheckInterval
      /\ r \in NodeWrapper /\ r.id \in Id /\ r.first_seen \in Nat /\ r.last_seen \in Nat
      /\ r.last_verified \in Nat \/ r.last_verified = Never
      /\ r.first_seen <= r.last_seen
      /\ r \in verified => r.last_verified # Never
    BY SettingsTyped DEF TasksInv, SInv, TypeOK, NodeWrapper, Stored, Instants, PruneRound, Timely
<1> DEFINE Span == (MaxLost + 1) * CheckInterval + Delay
<1>1. Span \in Nat /\ Grace >= ReverifyInterval + Span /\ UnverifiedGrace >= Span
    <2> DEFINE losses == (MaxLost + 1) * CheckInterval
    <2>1. Grace >= ReverifyInterval + losses + Delay /\ UnverifiedGrace >= losses + Delay
        BY MaintenanceAssumption
    <2>2. losses \in Nat /\ Span = losses + Delay
        BY SettingsTyped, Spaced
    <2> HIDE DEF losses, Span
    <2> QED
        BY <2>1, <2>2, SettingsTyped
<1> HIDE DEF Span
<1>2. /\ now >= Grace /\ now >= UnverifiedGrace
      /\ r.last_verified # Never => r.last_verified < now - Grace
      /\ r.last_verified = Never =>
            r.last_seen < now - Grace \/ r.last_seen < now - UnverifiedGrace
    BY <1>0 DEF PruneRound, Prune, KeepVerified, KeepUnverified, Stored
<1>3. ASSUME NEW d \in Nat, d <= Span
      PROVE  now - d \in Instants /\ Asked(r, now - d)
    <2>1. CASE r.last_verified = Never
        BY <1>0, <1>1, <1>2, <1>3, <2>1, SettingsTyped DEF Asked, Instants
    <2>2. CASE r.last_verified # Never
        BY <1>0, <1>1, <1>2, <1>3, <2>2, SettingsTyped DEF Asked, Instants
    <2> QED
        BY <2>1, <2>2
<1>4. ASSUME NEW d \in Nat, d > Delay
      PROVE  Question(r, now - d) \notin calls
    <2>1. ASSUME Question(r, now - d) \in calls
          PROVE  now <= now - d + Delay
        BY <2>1, AnswererAtHome DEF Question, TasksInv, Timely
    <2> QED
        BY <1>0, <1>4, <2>1, SettingsTyped
<1>5. ASSUME NEW j \in Nat, j > 0
      PROVE  IsRound(now - j * CheckInterval)
    <2>1. j - 1 \in Nat /\ LastRound = now - CheckInterval
        BY <1>0, <1>5 DEF LastRound
    <2>2. j * CheckInterval = (j - 1) * CheckInterval + CheckInterval
        BY <2>1, SettingsTyped
    <2>3. now - j * CheckInterval = LastRound - (j - 1) * CheckInterval
        BY <1>0, <2>1, <2>2, Spaced, SettingsTyped
    <2> QED
        BY <2>1, <2>3 DEF IsRound
<1>6. PICK q \in Nat : /\ q > 0 /\ q * CheckInterval > Delay
                       /\ (q - 1) * CheckInterval <= Delay
    <2> DEFINE Late == {j \in Nat : j * CheckInterval > Delay}
    <2>1. Delay + 1 \in Late
        BY SettingsTyped
    <2>2. PICK q \in Late : \A j \in Late : q <= j
        BY <2>1, LeastNat
    <2>3. q > 0
        BY <2>2, SettingsTyped
    <2>4. q - 1 \in Nat /\ q - 1 \notin Late
        BY <2>2, <2>3
    <2>5. (q - 1) * CheckInterval <= Delay
        BY <2>4, Spaced, SettingsTyped
    <2> QED
        BY <2>2, <2>3, <2>5
<1> DEFINE f == [i \in 0 .. MaxLost |-> now - (q + i) * CheckInterval]
<1>7. ASSUME NEW i \in 0 .. MaxLost
      PROVE  now - (q + i) * CheckInterval \in Closed(r)
    <2>1. q + i \in Nat /\ q + i > 0 /\ q - 1 \in Nat /\ i + 1 \in Nat
          /\ MaxLost + 1 \in Nat /\ i + 1 <= MaxLost + 1 /\ q <= q + i
        BY <1>6, SettingsTyped
    <2>2. (q + i) * CheckInterval = (q - 1) * CheckInterval + (i + 1) * CheckInterval
        BY <2>1, SettingsTyped
    <2>3. /\ (q + i) * CheckInterval \in Nat /\ (q - 1) * CheckInterval \in Nat
          /\ (i + 1) * CheckInterval \in Nat /\ (MaxLost + 1) * CheckInterval \in Nat
          /\ q * CheckInterval \in Nat
          /\ (i + 1) * CheckInterval <= (MaxLost + 1) * CheckInterval
          /\ q * CheckInterval <= (q + i) * CheckInterval
        BY <2>1, Spaced
    <2>4. (q + i) * CheckInterval <= Span
        BY <1>6, <2>2, <2>3, SettingsTyped DEF Span
    <2>5. (q + i) * CheckInterval > Delay
        BY <1>6, <2>3, SettingsTyped
    <2> QED
        BY <1>3, <1>4, <1>5, <2>1, <2>3, <2>4, <2>5 DEF Closed
<1>8. \A i, j \in 0 .. MaxLost : f[i] = f[j] => i = j
    <2> SUFFICES ASSUME NEW i \in 0 .. MaxLost, NEW j \in 0 .. MaxLost, i < j
                 PROVE  now - (q + i) * CheckInterval # now - (q + j) * CheckInterval
        BY SettingsTyped
    <2>1. q + i \in Nat /\ q + j \in Nat /\ q + i < q + j
        BY SettingsTyped
    <2>2. /\ (q + i) * CheckInterval < (q + j) * CheckInterval
          /\ (q + i) * CheckInterval \in Nat /\ (q + j) * CheckInterval \in Nat
        BY <2>1, Spaced
    <2> QED
        BY <1>0, <2>2
<1>9. f \in Injection(0 .. MaxLost, Closed(r))
    BY <1>7, <1>8 DEF Injection, IsInjective
<1> HIDE DEF f
<1>10. IsFiniteSet(Closed(r)) /\ Cardinality(Closed(r)) \in Nat
    BY ClosedIsFinite
<1>11. Cardinality(0 .. MaxLost) <= Cardinality(Closed(r))
    BY <1>9, <1>10, FS_Injection
<1>12. Cardinality(0 .. MaxLost) = MaxLost + 1
    BY FS_Interval, SettingsTyped
<1>13. Cardinality(Closed(r)) <= lost[r.id] /\ lost[r.id] <= MaxLost /\ lost[r.id] \in Nat
    BY <1>0, SettingsTyped DEF TasksInv, LossesExplain, Timely
<1> QED
    BY <1>10, <1>11, <1>12, <1>13, SettingsTyped

\* A node that lives where it is stored is never pruned, for any settings with
\* room for its lost calls, whatever else is asked, heard and displaced
\* (dht.rs:582-663).
THEOREM AnswerersAreKept == TasksSpec => AnswerersStay
<1> DEFINE A == PruneRound => \A r \in Stored : r.id \in alive /\ r.address = Home[r.id]
                                                  => r.id \in IdsOf(Stored')
<1>1. TasksInv => A
    BY AnswererIsKept DEF AtHome, IdsOf
<1> QED
    BY <1>1, TasksInvariant, PTL DEF TasksSpec, AnswerersStay

============================================================================
