------------------------------- MODULE Lookups -------------------------------
(***************************************************************************)
(* The lookups of src/dht/operations.rs: find_node; get_peers, which runs  *)
(* a find_node first; and announce_peer, which runs a get_peers first.     *)
(* Each lookup keeps a table of its own, centred on the target             *)
(* (BucketClasses), seeds it with the DHT's verified nodes at every turn,  *)
(* asks the K nearest, adds whom they name, and stops when the K nearest   *)
(* are those of the turn before, or at its timeout.  Ids stand for nodes;  *)
(* the peers that get_peers collects and pauses between turns are left     *)
(* out.                                                                    *)
(***************************************************************************)
EXTENDS BucketClasses, SequencesExt

CONSTANTS Target,     \* the id looked for
          Distance,   \* Distance[n]: Id::xor of n and Target
          Fit,        \* the nodes whose ids are valid for their addresses
          Since,      \* first_seen of the nodes that are verified at the start
          Instants,   \* first_seen of the records that enter the DHT's table later
          Tells,      \* Tells[n]: the lists of nodes that n may answer with
          Few,        \* get_peers asks nobody while it knows this few: 5
          Announces,  \* how many responders are announced to: 8
          MaxAnswers  \* bound: answers of a node to get_peers are counted up to here

\* Instants do not tie, and no node shares as many bits with the target as the
\* target itself does.
ASSUME LookupsAssumption ==
    /\ K \in Nat \ {0} /\ Few < K /\ IsFiniteSet(Id)
    /\ \A a, b \in Id : Distance[a] = Distance[b] => a = b
    /\ \A a \in Id \ {Target} : Prefix[Target][a] # Prefix[Target][Target]
    /\ DOMAIN Since \subseteq Fit /\ Fit \subseteq Id
    /\ \A a, b \in DOMAIN Since : Since[a] \in Nat /\ (Since[a] = Since[b] => a = b)
    /\ Instants \subseteq Nat
    /\ \A n \in Id : Tells[n] \subseteq Seq(Id)
    /\ Announces \in Nat /\ MaxAnswers \in Nat

VARIABLES op,         \* the operation that was called
          phase,      \* what it is doing
          main,       \* DHT::get_nodes: records of the verified nodes
          table,      \* buckets
          best,       \* best_ids; sorted by distance in the code
          asking,     \* inside a turn, requests under way
          waiting,    \* requests under way to each node
          responders, \* how often each node is in responders
          announced,  \* nodes that answered the announcement
          asked,      \* history: nodes this lookup has asked
          heard       \* history: nodes this lookup was told of or seeded with

vars == <<op, phase, main, table, best, asking, waiting, responders, announced, asked, heard>>
lookup == <<table, best, asking, waiting, asked, heard>>

Lookup == {"find_node", "get_peers"}
Nobody == [n \in Id |-> 0]

Fewest == IF phase = "get_peers" THEN Few ELSE 0

\* get_nearest_nodes: the K nearest of a table.
Near(S) ==
    {a \in IdsOf(S) : Cardinality({b \in IdsOf(S) : Distance[b] < Distance[a]}) < K}

\* What Buckets::add leaves when records are added one after the other: the K
\* oldest of each class, never the target itself.
Kept(S) ==
    {x \in S : /\ x.id # Target
               /\ Cardinality({y \in Class(S, Target, Prefix[Target][x.id]) :
                                  y.first_seen < x.first_seen}) < K}

\* NodeWrapper::new for the i-th of a list, while m is the DHT's table: newer than
\* all there are, with room in between for what others are told of.
Fresh(m, id, i) ==
    [id |-> id, first_seen |-> 2 * i + Max({0} \cup {x.first_seen : x \in m \cup table})]

\* Faulty variant: a node is added though the table contains it.
NamedAgain(m, s) == Kept(table \cup {Fresh(m, s[i], i) : i \in DOMAIN s})

\* Where an answer names a node first that the table does not contain.
NewIn(s) == {j \in DOMAIN s : s[j] \notin IdsOf(table) /\ \A i \in 1 .. j - 1 : s[i] # s[j]}

\* Those nodes are added in turn.
Named(m, s) == Kept(table \cup {Fresh(m, s[i], i) : i \in NewIn(s)})

\* Faulty variant: the table is made anew at every turn.
SeededAnew == {Kept(main)}

\* The verified nodes that the table does not contain, before a turn.
Unknown == {m \in main : m.id \notin IdsOf(table)}

\* Of the DHT's records in the order o, the ones that the table does not contain when
\* it is their turn are those of A.
Adds(o, A) ==
    \A i \in DOMAIN o :
        o[i] \in A <=> o[i].id \notin IdsOf(Kept(table \cup (A \cap {o[j] : j \in 1 .. i - 1})))

\* The table after seeding.  A node that another displaces while the loop runs is
\* added again, with the DHT's instant, if it comes later.
Seeded ==
    {Kept(table \cup Unknown \cup A) :
        A \in {B \in SUBSET (main \ Unknown) :
                  \E o \in SetToSeqs(main) : Adds(o, Unknown \cup B)}}

\* A record of n: one kept since n was first seen, long ago or just now.
Records(n) ==
    {[id |-> n, first_seen |-> t] :
        t \in Instants \ {x.first_seen : x \in {y \in main \cup table : y.id # n}}}

\* What a record may displace from the DHT's table: nothing, or a newer one, if
\* need be itself.  Which depends on the DHT's id.
Displacing(r) == {{}} \cup {{x} : x \in {y \in main \cup {r} : y.first_seen >= r.first_seen}}

\* The DHT's table after n has been verified (add_or_update).
Verified(n) ==
    IF n \in IdsOf(main) \/ n \notin Fit
    THEN {main}
    ELSE UNION {{(main \cup {r}) \ D : D \in Displacing(r)} : r \in Records(n)}

----------------------------------------------------------------------------
Init ==
    /\ op \in {"find_node", "get_peers", "announce_peer"}
    /\ phase = "find_node"
    /\ main = {[id |-> n, first_seen |-> Since[n]] : n \in DOMAIN Since}
    /\ table = {} /\ best = {} /\ asking = FALSE /\ waiting = Nobody
    /\ responders = Nobody /\ announced = {}
    /\ asked = {} /\ heard = {}

\* GetPeersResult::new sorts the responders: those before a node's own, <<b, i>>
\* for the i-th answer of b.
Before(n) ==
    Cardinality({r \in Id \X (1 .. MaxAnswers) :
                    Distance[r[1]] < Distance[n] /\ r[2] <= responders[r[1]]})

\* The nodes announced to: the first Announces responders.
Chosen == [n \in Id |-> Min({responders[n], Max({0, Announces - Before(n)})})]

\* What follows a lookup: the next one on an empty table, the announcements, or
\* the return to the caller.
LeaveLookup ==
    /\ table' = {} /\ best' = {} /\ asking' = FALSE /\ asked' = {} /\ heard' = {}
    /\ \/ /\ phase = "find_node" /\ op # "find_node"
          /\ phase' = "get_peers"
          /\ waiting' = Nobody
       \/ /\ phase = "get_peers" /\ op = "announce_peer"
          /\ phase' = "announce_peer"
          /\ waiting' = Chosen
       \/ /\ phase = op
          /\ phase' = "returned"
          /\ waiting' = Nobody
    /\ UNCHANGED <<op, main, responders, announced>>

\* At the top of the loop, where the DHT's nodes are looked at again.
AtTurn == phase \in Lookup /\ ~asking

\* Too few nodes are known: seed again in a second.
WaitForNodes(seeded) ==
    /\ Cardinality(Near(seeded)) <= Fewest
    /\ table' = seeded /\ heard' = heard \cup IdsOf(main)
    /\ UNCHANGED <<op, phase, main, best, asking, waiting, responders, announced, asked>>

\* Faulty variant: as many as in the turn before will do.
RepeatedInNumber(near) == Cardinality(best) = Cardinality(near)

Repeated(near) == best = near

\* The K nearest have not changed in the last turn.
Stop(seeded) ==
    /\ Cardinality(Near(seeded)) > Fewest /\ Repeated(Near(seeded))
    /\ LeaveLookup

\* Faulty variant: best_ids is not kept from turn to turn.
RememberNothing(near) == {}

Remember(near) == near

\* A turn: everybody among the K nearest is asked.
StartTurn(seeded) ==
    /\ table' = seeded
    /\ LET near == Near(seeded)
       IN  /\ Cardinality(near) > Fewest
           /\ ~Repeated(near)
           /\ best' = Remember(near)
           /\ asked' = asked \cup near
           /\ waiting' = [n \in Id |-> IF n \in near THEN 1 ELSE 0]
    /\ heard' = heard \cup IdsOf(main)
    /\ asking' = TRUE
    /\ UNCHANGED <<op, phase, main, responders, announced>>

Settled(n) == [waiting EXCEPT ![n] = @ - 1]

\* A node answers, which verifies it (common_send_and_handle_response), and names
\* others (s); get_peers also keeps it and its token.
Reply(n, s) ==
    /\ phase \in Lookup /\ waiting[n] > 0
    /\ \E m \in Verified(n) : main' = m /\ table' = Named(m, s)
    /\ heard' = heard \cup {s[i] : i \in DOMAIN s}
    /\ waiting' = Settled(n)
    /\ responders' = IF phase = "get_peers"
                     THEN [responders EXCEPT ![n] = Min({MaxAnswers, @ + 1})]
                     ELSE responders
    /\ UNCHANGED <<op, phase, best, asking, announced, asked>>

\* No answer within five seconds, or none of use.
Fail(n) ==
    /\ phase \in Lookup /\ waiting[n] > 0
    /\ waiting' = Settled(n)
    /\ UNCHANGED <<op, phase, main, table, best, asking, responders, announced, asked, heard>>

EndTurn ==
    /\ asking /\ waiting = Nobody
    /\ asking' = FALSE
    /\ UNCHANGED <<op, phase, main, table, best, waiting, responders, announced, asked, heard>>

\* The lookup's time is up; its requests are dropped.
TimeUp ==
    /\ phase \in Lookup
    /\ LeaveLookup

\* An announcement is answered, or not in time.
AnnounceSettles(n) ==
    /\ phase = "announce_peer" /\ waiting[n] > 0
    /\ waiting' = Settled(n)
    /\ announced' \in {announced, announced \cup {n}}
    /\ UNCHANGED <<op, phase, main, table, best, asking, responders, asked, heard>>

AnnounceEnds ==
    /\ phase = "announce_peer" /\ waiting = Nobody
    /\ phase' = "returned"
    /\ UNCHANGED <<op, main, lookup, responders, announced>>

\* Another task of the DHT verifies a node.
Verify(n) ==
    /\ n \in Fit \ IdsOf(main) /\ phase # "returned"
    /\ main' \in Verified(n)
    /\ UNCHANGED <<op, phase, lookup, responders, announced>>

\* Verified nodes are pruned, or all dropped for a new id.
Drop ==
    /\ phase # "returned"
    /\ \E m \in SUBSET main \ {main} : main' = m
    /\ UNCHANGED <<op, phase, lookup, responders, announced>>

Turn == EndTurn \/ (AtTurn /\ \E seeded \in Seeded : Stop(seeded) \/ StartTurn(seeded))
Settles == \E n \in Id : Fail(n) \/ AnnounceSettles(n) \/ \E s \in Tells[n] : Reply(n, s)

Next ==
    \/ AtTurn /\ \E seeded \in Seeded : WaitForNodes(seeded)
    \/ Turn \/ Settles \/ TimeUp \/ AnnounceEnds
    \/ Drop \/ \E n \in Id : Verify(n)

\* A request ends by an answer or its five seconds, and a turn goes on when all
\* have; neither the timeout nor a change of the DHT's table can be relied on.
Spec == Init /\ [][Next]_vars /\ WF_vars(Turn) /\ WF_vars(Settles) /\ WF_vars(AnnounceEnds)

----------------------------------------------------------------------------
(* Properties.                                                             *)

\* However seeds and answers overlap, a table holds a node once, the target
\* never and K of a class at most; requests go to nodes that were asked, once a
\* turn, and announcements to responders only.
TypeOK ==
    /\ IdsOf(main) \subseteq Id /\ IdsOf(table) \subseteq Id \ {Target}
    /\ \A x, y \in table : x.id = y.id => x = y
    /\ Overfull(table, Target) = {}
    /\ best \subseteq asked /\ asked \subseteq heard
    /\ phase \in Lookup => \A n \in Id : waiting[n] <= IF n \in asked THEN 1 ELSE 0
    /\ \A n \in Id : phase = "announce_peer" => waiting[n] <= responders[n]
    /\ announced \subseteq {n \in Id : responders[n] > 0}

\* A lookup loses sight of a node it was told of or seeded with only if the
\* node's class is full: what it returns are the nearest nodes it heard of
\* otherwise, even when its time is up in the middle of a turn.
NearestUnlessFull ==
    \A h \in heard \ (IdsOf(table) \cup {Target}) :
        Cardinality(Class(table, Target, Prefix[Target][h])) = K

\* A lookup that stops by itself has asked every node it returns, in this lookup
\* and not only in the one before (operations.rs:117-121, 230-234).
AskedAll ==
    [][AtTurn /\ phase' # phase =>
         \A seeded \in Seeded : Stop(seeded) => Near(seeded) \subseteq asked]_vars

\* A lookup ends without its timeout once it knows enough nodes, whatever the
\* nodes answer and however many join meanwhile.
Ends ==
    \A p \in Lookup :
        phase = p /\ Cardinality(Near(table)) > Fewest ~> phase # p

\* The comment in announce_peer (operations.rs:46): "Prepare to send packets to
\* the nearest 8".  There are as many announcements as the limit and the number
\* of nodes that responded allow, each to a node of its own.
AnnouncesToNearest ==
    [][LeaveLookup /\ phase' = "announce_peer" =>
         Cardinality({n \in Id : waiting'[n] > 0}) =
             Min({Announces, Cardinality({n \in Id : responders[n] > 0})})]_vars
============================================================================
