---------------------------- MODULE BucketClasses ----------------------------
(***************************************************************************)
(* Operators on tables of nodes without buckets.  A table is a set of      *)
(* records with an id and a first_seen instant.  Ids that share exactly p  *)
(* leading bits with our own id form class p; a table keeps at most K      *)
(* records of a class, and one that finds its class full takes the place   *)
(* of a newer one or does not get in.                                      *)
(***************************************************************************)
EXTENDS Integers, FiniteSets

CONSTANTS Id,       \* node ids
          Prefix,   \* Prefix[a][b]: Id::matching_prefix_bits
          K         \* capacity of a bucket, 8 in the program

IdsOf(S) == {x.id : x \in S}

\* The records of S that share exactly p leading bits with our.
Class(S, our, p) == {x \in S : Prefix[our][x.id] = p}

\* The records of S whose class holds more than K.
Overfull(S, our) ==
    {x \in S : Cardinality(Class(S, our, Prefix[our][x.id])) > K}

\* The records of S that no record of S is newer than.
Newest(S) == {x \in S : \A y \in S : y.first_seen <= x.first_seen}

\* A table never takes its own id.
Inserted(S, our, x) == IF x.id = our THEN S ELSE S \cup {x}

\* What one insertion of x into S may displace: nothing, or one newest record
\* of the class that x overfills (Buckets::add in one step, by the theorem
\* Implementation of Buckets_proofs).
Displaced(S, our, x) ==
    LET full == Overfull(Inserted(S, our, x), our)
    IN  IF full = {} THEN {{}} ELSE {{y} : y \in Newest(full)}
============================================================================
