----------------------------- MODULE BucketSpec -----------------------------
(***************************************************************************)
(* What a table of src/storage/buckets.rs promises to its callers, with no *)
(* buckets in it (see BucketClasses): of each class, the K items seen      *)
(* first.  Module Buckets shows that the splitting buckets of the code     *)
(* implement this; NodeBucketStorage and the operations are built on it.   *)
(***************************************************************************)
EXTENDS BucketClasses

CONSTANT Time       \* first_seen instants

VARIABLES our_id,   \* the id the table is centred on
          items,    \* the items it keeps
          shed      \* what the last insertion displaced (the chump list)

specVars == <<our_id, items, shed>>

Item == [id : Id, first_seen : Time]

----------------------------------------------------------------------------
SpecInit ==
    /\ our_id \in Id
    /\ items = {}
    /\ shed = {}

\* A caller only inserts an id the table does not hold.
Insert(x) ==
    /\ Overfull(items, our_id) = {}
    /\ x.id \notin IdsOf(items)
    /\ items' = Inserted(items, our_id, x)
    /\ shed' = {}
    /\ UNCHANGED our_id

\* Only a newest item of an overfull class leaves on its own.
Shed ==
    \E x \in Newest(Overfull(items, our_id)) :
        /\ items' = items \ {x}
        /\ shed' = shed \cup {x}
        /\ UNCHANGED our_id

Discard(gone) ==
    /\ Overfull(items, our_id) = {}
    /\ gone \subseteq items
    /\ items' = items \ gone
    /\ UNCHANGED <<our_id, shed>>

Recentre(new_id) ==
    /\ Overfull(items, our_id) = {}
    /\ our_id' = new_id
    /\ items' = {}
    /\ UNCHANGED shed

SpecNext ==
    \/ \E x \in Item : Insert(x)
    \/ Shed
    \/ \E gone \in SUBSET items : Discard(gone)
    \/ \E new_id \in Id : Recentre(new_id)

SpecSafety == SpecInit /\ [][SpecNext]_specVars
============================================================================
