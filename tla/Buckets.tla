------------------------------ MODULE Buckets ------------------------------
(***************************************************************************)
(* One table of k-buckets: src/storage/buckets.rs.  Buckets::add is        *)
(* sequential code with a loop that splits and trims buckets; the loop is  *)
(* modelled one iteration at a time (bucket_index is its counter), and no  *)
(* other operation runs while it does.  The order of items inside a bucket *)
(* is never observed except through sort_unstable_by_key, so a bucket is a *)
(* set and equal first_seen instants may be ordered either way.            *)
(***************************************************************************)
EXTENDS Integers, Sequences, FiniteSets

CONSTANTS Id,       \* node ids
          IdBits,   \* bits in an id, 160 in the program
          Prefix,   \* Prefix[a][b]: Id::matching_prefix_bits
          K,        \* capacity of a bucket, 8 in the program
          Time      \* first_seen instants

ASSUME BucketsAssumption ==
    /\ K \in Nat \ {0}
    /\ IdBits \in Nat \ {0}
    /\ Time \subseteq Int
    /\ Prefix \in [Id -> [Id -> Nat]]

\* Different ids share fewer than IdBits bits, and only one id differs from
\* a given one in nothing but the last bit.
ASSUME PrefixAssumption ==
    \A a, b \in Id :
        a # b => /\ Prefix[a][b] < IdBits
                 /\ \A c \in Id \ {a} :
                        Prefix[a][b] = IdBits - 1 /\ Prefix[a][c] = IdBits - 1
                            => b = c

VARIABLES our_id,         \* the table's own id
          buckets,        \* sequence of sets of items
          bucket_index,   \* handle_bucket_overflow's counter, 0 outside it
          chump_list      \* what the last add pushed out

vars == <<our_id, buckets, bucket_index, chump_list>>

Item == [id : Id, first_seen : Time]

Indices == 1 .. Len(buckets)

\* Buckets::values
Values == UNION {buckets[i] : i \in Indices}

\* get_dest_bucket_idx_for_id, in a table of n buckets (indices from 1).
DestBucketIdx(n, id) ==
    IF 1 + Prefix[our_id][id] < n THEN 1 + Prefix[our_id][id] ELSE n

\* The entries that contains, get_mut and remove find for an id: they look
\* in one bucket only.
Found(id) == {x \in buckets[DestBucketIdx(Len(buckets), id)] : x.id = id}

Idle == bucket_index = 0

----------------------------------------------------------------------------
Init ==
    /\ our_id \in Id
    /\ buckets = <<{}>>
    /\ bucket_index = 0
    /\ chump_list = {}

Add(x) ==
    /\ Idle
    /\ x.id \notin {y.id : y \in Values}    \* the callers look before they add
    /\ chump_list' = {}
    /\ IF x.id = our_id
         THEN UNCHANGED <<buckets, bucket_index>>
         ELSE LET dest == DestBucketIdx(Len(buckets), x.id)
              IN  /\ buckets' = [buckets EXCEPT ![dest] = @ \cup {x}]
                  /\ bucket_index' = dest
    /\ UNCHANGED our_id

\* The buckets in which the iteration at i moves items: a new deepest one is
\* pushed when i is the deepest.
Grown(i) == IF i = Len(buckets) THEN Append(buckets, {}) ELSE buckets

\* Faulty variant: the new bucket is pushed and nothing is moved to it.
RehomedNothing(tbl, i) == tbl

\* The inner loop: every item of bucket i goes to the bucket its id names.
Rehomed(tbl, i) ==
    [j \in DOMAIN tbl |->
        LET arriving == {x \in tbl[i] : DestBucketIdx(Len(tbl), x.id) = j}
        IN  IF j = i THEN arriving ELSE tbl[j] \cup arriving]

\* Faulty variants: the split leaves one too many; the oldest go.
KeptOneMore(S) ==
    IF Cardinality(S) <= K + 1 THEN {S} ELSE {R \in SUBSET S : Cardinality(R) = K + 1}
KeptNewest(S) ==
    IF Cardinality(S) <= K THEN {S}
    ELSE {R \in SUBSET S : /\ Cardinality(R) = K
                           /\ \A x \in R, y \in S \ R : x.first_seen >= y.first_seen}

\* sort_unstable_by_key(first_seen) and split_off(k): what may stay.
KeptOf(S) ==
    IF Cardinality(S) <= K THEN {S}
    ELSE {R \in SUBSET S : /\ Cardinality(R) = K
                           /\ \A x \in R, y \in S \ R : x.first_seen <= y.first_seen}

SplitOrTrim ==
    /\ bucket_index \in Indices
    /\ Cardinality(buckets[bucket_index]) > K
    /\ LET moved == Rehomed(Grown(bucket_index), bucket_index)
       IN  \E kept \in KeptOf(moved[bucket_index]) :
             /\ buckets' = [moved EXCEPT ![bucket_index] = kept]
             /\ chump_list' = chump_list \cup (moved[bucket_index] \ kept)
    /\ bucket_index' = bucket_index + 1
    /\ UNCHANGED our_id

\* Faulty variant: the counter moves on only after an overflow.
NextBucketStuck ==
    /\ bucket_index \in Indices
    /\ Cardinality(buckets[bucket_index]) <= K
    /\ UNCHANGED vars

NextBucket ==
    /\ bucket_index \in Indices
    /\ Cardinality(buckets[bucket_index]) <= K
    /\ bucket_index' = bucket_index + 1
    /\ UNCHANGED <<our_id, buckets, chump_list>>

LoopEnds ==
    /\ bucket_index > Len(buckets)
    /\ bucket_index' = 0
    /\ UNCHANGED <<our_id, buckets, chump_list>>

HandleBucketOverflow == SplitOrTrim \/ NextBucket \/ LoopEnds

Remove(id) ==
    /\ Idle
    /\ LET at == DestBucketIdx(Len(buckets), id)
       IN  buckets' = [buckets EXCEPT ![at] = @ \ Found(id)]
    /\ UNCHANGED <<our_id, bucket_index, chump_list>>

\* retain, with any predicate: the items of gone fail it.
Retain(gone) ==
    /\ Idle
    /\ buckets' = [i \in Indices |-> buckets[i] \ gone]
    /\ UNCHANGED <<our_id, bucket_index, chump_list>>

\* Faulty variant: clear leaves no bucket behind.
SetIdNoBucket(new_id) ==
    /\ Idle
    /\ buckets' = <<>>
    /\ our_id' = new_id
    /\ UNCHANGED <<bucket_index, chump_list>>

\* set_id; clear is set_id to the id the table already has.
SetId(new_id) ==
    /\ Idle
    /\ buckets' = <<{}>>
    /\ our_id' = new_id
    /\ UNCHANGED <<bucket_index, chump_list>>

Next ==
    \/ \E x \in Item : Add(x)
    \/ HandleBucketOverflow
    \/ \E id \in Id : Remove(id)
    \/ \E gone \in SUBSET Values : Retain(gone)
    \/ \E new_id \in Id : SetId(new_id)

\* The loop of a synchronous function runs to its end.
Spec == Init /\ [][Next]_vars /\ WF_vars(HandleBucketOverflow)
----------------------------------------------------------------------------
(* Properties.                                                             *)

TypeOK ==
    /\ our_id \in Id
    /\ buckets \in Seq(SUBSET Item)
    /\ Len(buckets) >= 1
    /\ bucket_index \in 0 .. Len(buckets) + 1
    /\ chump_list \subseteq Item

\* Whatever splitting and trimming did, the one bucket that contains, get_mut
\* and remove look in holds every entry of the table with that id, there is
\* at most one, and our own id is nowhere (buckets.rs:33-42, 49-59, 144-150).
\* It holds at every turn of the loop.
LookupsFind ==
    /\ \A id \in Id : /\ Found(id) = {x \in Values : x.id = id}
                      /\ \A x, y \in Found(id) : x = y
    /\ Found(our_id) = {}

\* Only the bucket the loop stands at may hold more than K items, and that by
\* one: a split hands its excess to the bucket the loop visits next
\* (buckets.rs:152-190).  Between calls no bucket does.
Capacity ==
    \A i \in Indices :
        Cardinality(buckets[i]) <= IF i = bucket_index THEN K + 1 ELSE K

\* The documentation's "maximum of 160 buckets" (node_bucket_storage.rs:78-80)
\* although only the loop's condition stops the pushing.
BucketCount == Len(buckets) <= IdBits

\* The table is bounded both ways at every turn of the loop.
TableBounded == Capacity /\ BucketCount

\* The loop implements the table without buckets: an item leaves only from a
\* full class, and only a newest one; splitting loses and repeats nothing.
Abstract == INSTANCE BucketSpec WITH items <- Values, shed <- chump_list

Implements == Abstract!SpecSafety

\* Buckets::add returns: the loop over a vector that it extends itself ends.
AddReturns == ~Idle ~> Idle
============================================================================
