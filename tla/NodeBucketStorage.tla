-------------------------- MODULE NodeBucketStorage --------------------------
(***************************************************************************)
(* The routing storage: src/storage/node_bucket_storage.rs.  Two tables of *)
(* NodeWrapper records centred on the same id: verified holds nodes that   *)
(* answered us, unverified those we only heard of and those that verified  *)
(* has no room for.  A table is a set of records (BucketClasses); every    *)
(* operation runs under the DHT's state mutex and so is one action.        *)
(* now is the clock that Instant::now() reads; it stops at MaxTime.        *)
(***************************************************************************)
EXTENDS BucketClasses

CONSTANTS Address,          \* socket addresses
          Grace,            \* prune's grace_period
          UnverifiedGrace,  \* prune's unverified_grace_period
          MaxTime           \* bound on the clock

ASSUME StorageAssumption ==
    /\ K \in Nat \ {0}
    /\ Prefix \in [Id -> [Id -> Nat]]
    /\ Grace \in Nat /\ UnverifiedGrace \in Nat
    /\ MaxTime \in Nat

VARIABLES our_id, verified, unverified, now

vars == <<our_id, verified, unverified, now>>

Never == -1                 \* last_verified: None

Instants == 0 .. MaxTime

NodeWrapper ==
    [id : Id, address : Address, first_seen : Instants, last_seen : Instants,
     last_verified : Instants \cup {Never}]

\* NodeWrapper::new
NewWrapper(id, addr) ==
    [id |-> id, address |-> addr, first_seen |-> now, last_seen |-> now,
     last_verified |-> Never]

Stored == verified \cup unverified

\* The records of a table that get_mut and remove find for an id.
Entry(S, id) == {r \in S : r.id = id}

\* Faulty variant: a node of the unverified table stays there, too.
TakeOutNothing(S, id) == S

\* Buckets::remove
TakeOut(S, id) == S \ Entry(S, id)

Seen(r) == [r EXCEPT !.last_seen = now]

\* Faulty variant: a verified node is not marked as seen.
VerifiedUnseen(r) == [r EXCEPT !.last_verified = now]

Verified(r) == [r EXCEPT !.last_seen = now, !.last_verified = now]

\* Faulty variant: nothing is displaced from a full class.
AddedUnbounded(S, x) == {[table |-> Inserted(S, our_id, x), chumps |-> {}]}

\* Buckets::add: the tables it may leave, each with its chump list.
Added(S, x) ==
    {[table |-> Inserted(S, our_id, x) \ gone, chumps |-> gone] :
        gone \in Displaced(S, our_id, x)}

----------------------------------------------------------------------------
\* NodeBucketStorage::new; the DHT's constructor sets the id (dht.rs:131).
Init ==
    /\ our_id \in Id
    /\ verified = {}
    /\ unverified = {}
    /\ now = 0

\* add_or_update with verified = false.
AddOrUpdateLastSeen(id, addr) ==
    /\ \/ /\ Entry(verified, id) # {}
          /\ verified' = TakeOut(verified, id) \cup {Seen(r) : r \in Entry(verified, id)}
          /\ UNCHANGED unverified
       \/ /\ Entry(verified, id) = {}
          /\ Entry(unverified, id) # {}
          /\ unverified' = TakeOut(unverified, id)
                               \cup {Seen(r) : r \in Entry(unverified, id)}
          /\ UNCHANGED verified
       \/ /\ Entry(Stored, id) = {}
          /\ \E to \in Added(unverified, NewWrapper(id, addr)) : unverified' = to.table
          /\ UNCHANGED verified
    /\ UNCHANGED <<our_id, now>>

\* Faulty variant: what verified has no room for is dropped.
SeatLosingChumps(w, rest) ==
    \E to \in Added(verified, w) :
        /\ verified' = to.table
        /\ unverified' = rest

\* verified.add, and what that displaces goes to unverified if it fits there.
Seat(w, rest) ==
    \E to \in Added(verified, w) :
        /\ verified' = to.table
        /\ \/ to.chumps = {} /\ unverified' = rest
           \/ \E c \in to.chumps : \E back \in Added(rest, c) : unverified' = back.table

\* add_or_update with verified = true.  An existing record keeps its address.
AddOrUpdateVerified(id, addr) ==
    /\ \/ \E r \in Entry(unverified, id) :
             Seat(Verified(r), TakeOut(unverified, id))
       \/ /\ Entry(unverified, id) = {}
          /\ Entry(verified, id) # {}
          /\ verified' = TakeOut(verified, id)
                             \cup {Verified(r) : r \in Entry(verified, id)}
          /\ UNCHANGED unverified
       \/ /\ Entry(Stored, id) = {}
          /\ Seat(Verified(NewWrapper(id, addr)), unverified)
    /\ UNCHANGED <<our_id, now>>

\* retain's two predicates.
KeepVerified(r) == r.last_verified # Never /\ r.last_verified >= now - Grace

\* Faulty variant: a node that was verified once is kept for ever.
KeepVerifiedOnce(r) ==
    \/ r.last_verified # Never
    \/ r.last_seen >= now - Grace /\ r.last_seen >= now - UnverifiedGrace

KeepUnverified(r) ==
    \/ r.last_verified # Never /\ r.last_verified >= now - Grace
    \/ r.last_seen >= now - Grace /\ r.last_seen >= now - UnverifiedGrace

\* The clock counts from the earliest Instant; where a subtraction would
\* underflow, prune does nothing at all.
Prune ==
    /\ \/ /\ now >= Grace /\ now >= UnverifiedGrace
          /\ verified' = {r \in verified : KeepVerified(r)}
          /\ unverified' = {r \in unverified : KeepUnverified(r)}
       \/ /\ now < Grace \/ now < UnverifiedGrace
          /\ UNCHANGED <<verified, unverified>>
    /\ UNCHANGED <<our_id, now>>

\* set_id; clear is the same without the new id.
SetId(new_id) ==
    /\ our_id' = new_id
    /\ verified' = {}
    /\ unverified' = {}
    /\ UNCHANGED now

Tick ==
    /\ now < MaxTime
    /\ now' = now + 1
    /\ UNCHANGED <<our_id, verified, unverified>>

AddOrUpdate ==
    \E id \in Id, addr \in Address :
        AddOrUpdateLastSeen(id, addr) \/ AddOrUpdateVerified(id, addr)

Next ==
    \/ AddOrUpdate
    \/ Prune
    \/ \E new_id \in Id : SetId(new_id)
    \/ Tick

Spec == Init /\ [][Next]_vars

----------------------------------------------------------------------------
(* Properties.                                                             *)

\* Records are well formed: nothing is seen before it is first seen, verified
\* after it is last seen, or in the future; everything in the verified table
\* has been verified.
TypeOK ==
    /\ our_id \in Id /\ now \in Instants
    /\ verified \subseteq NodeWrapper /\ unverified \subseteq NodeWrapper
    /\ \A r \in Stored : /\ r.first_seen <= r.last_seen /\ r.last_seen <= now
                         /\ r.last_verified <= r.last_seen
                         /\ r.last_verified # Never => r.first_seen <= r.last_verified
    /\ \A r \in verified : r.last_verified # Never

\* A node has one record, in one table, however it is promoted, demoted and
\* re-added (lines 120-159); our own id has none.  Both look-ups before an
\* insertion and the retreat of displaced nodes to unverified depend on it.
OneRecordPerId ==
    /\ \A r, s \in Stored : r.id = s.id => r = s
    /\ verified \cap unverified = {}
    /\ our_id \notin IdsOf(Stored)

\* Neither table holds more than K nodes of a class, though a promotion adds to
\* one and what it displaces to the other.
TablesBounded == Overfull(verified, our_id) = {} /\ Overfull(unverified, our_id) = {}

\* S has no room for r: K records of r's class, none newer than r.
FullForOlder(S, r) ==
    /\ Cardinality(Class(S, our_id, Prefix[our_id][r.id])) = K
    /\ \A s \in Class(S, our_id, Prefix[our_id][r.id]) : s.first_seen <= r.first_seen

\* add_or_update demotes a verified node, or forgets a node, only for want of
\* room: the table it leaves (both, if it had been verified) holds K others of
\* its class that were known as long or longer (lines 120-159).
LossNeedsFullClass ==
    [][AddOrUpdate =>
         /\ \A r \in verified :
              r.id \notin IdsOf(verified') => FullForOlder(verified', r)
         /\ \A r \in Stored :
              r.id \notin IdsOf(Stored') => FullForOlder(unverified', r)]_vars
============================================================================
