----------------------------- MODULE Maintenance -----------------------------
(***************************************************************************)
(* The periodic tasks of src/dht/dht.rs at work on the routing storage     *)
(* (NodeBucketStorage): periodic_buddy_ping prunes and pings,              *)
(* periodic_find_node and periodic_router_ping ask for more nodes, and     *)
(* their calls are answered, lost or given up.  Nodes may die; those that  *)
(* live answer within Delay, and at most MaxLost calls to one in a row are *)
(* lost.  A task that is due runs before the clock moves on.  All ids are  *)
(* valid for all addresses, and our own id is fixed (Identity changes it). *)
(***************************************************************************)
EXTENDS NodeBucketStorage

\* Grace and UnverifiedGrace are reverify_grace_period_secs and verify_grace_period_secs.
CONSTANTS CheckInterval,    \* ping_check_interval_secs
          ReverifyInterval, \* reverify_interval_secs
          FindInterval,     \* find_nodes_interval_secs
          SkipCount,        \* find_nodes_skip_count
          RouterInterval,   \* router_ping_interval_secs
          CallTimeout,      \* of ping_internal and find_node_internal, 5 s
          Delay,            \* by when a live node answers
          MaxLost,          \* calls to a live node that may be lost in a row
          Home,             \* the address of each node
          Rumour,           \* pairs of an id and an address that may be heard of
          AnyId,            \* target_id: None
          Routers           \* nodes whose addresses the host names resolve to

\* The settings leave room for the pings: in the program 840 + 5 * 10 + 5 <= 900
\* and 5 * 10 + 5 <= 60, so that four calls in a row may be lost.
ASSUME MaintenanceAssumption ==
    /\ Grace >= ReverifyInterval + (MaxLost + 1) * CheckInterval + Delay
    /\ UnverifiedGrace >= (MaxLost + 1) * CheckInterval + Delay
    /\ CheckInterval \in Nat \ {0} /\ ReverifyInterval \in Nat /\ MaxLost \in Nat
    /\ Delay \in Nat /\ CallTimeout \in Nat /\ Delay <= CallTimeout
    /\ Home \in [Id -> Address] /\ Rumour \subseteq Id \X Address /\ Routers \subseteq Id
    /\ AnyId \notin Id

VARIABLES buddy,    \* periodic_buddy_ping: its last round, and whether it has pinged
          finder,   \* periodic_find_node: its last round, and the counts it has read
          routing,  \* periodic_router_ping: its last round
          calls,    \* calls that wait for an answer
          alive,    \* nodes that answer
          lost      \* calls to each node that were lost since one was answered

taskVars == <<vars, buddy, finder, routing, calls, alive, lost>>

Unread == <<>>              \* no counts: the task sleeps

Call(id, addr) == [id |-> id, address |-> addr, sent |-> now]

\* The nodes that can answer a call.
Answerers(c) == {n \in alive : Home[n] = c.address /\ c.id \in {n, AnyId}}

\* ping_routers: each host name resolves or does not.
RouterCalls == {{Call(AnyId, Home[n]) : n \in R} : R \in SUBSET Routers}

----------------------------------------------------------------------------
\* run_event_loop pings the routers first.
TasksInit ==
    /\ Init
    /\ buddy = [at |-> 0, pinged |-> TRUE]
    /\ finder = [at |-> 0, counts |-> Unread]
    /\ routing = 0
    /\ calls \in RouterCalls
    /\ alive = Id \ {our_id}
    /\ lost = [n \in Id |-> 0]

\* periodic_buddy_ping wakes up and prunes.
PruneRound ==
    /\ buddy.pinged /\ now = buddy.at + CheckInterval
    /\ Prune
    /\ buddy' = [at |-> now, pinged |-> FALSE]
    /\ UNCHANGED <<finder, routing, calls, alive, lost>>

\* Faulty variant: backups, once verified, are not pinged again.
DueButBackups(r) ==
    IF r \in unverified THEN r.last_verified = Never
                        ELSE r.last_verified < now - ReverifyInterval

\* Never verified, or not for a while.
Due(r) == r.last_verified = Never \/ r.last_verified < now - ReverifyInterval

\* Then it pings, unless the clock is too young to subtract the interval.
PingRound ==
    /\ ~buddy.pinged
    /\ buddy' = [buddy EXCEPT !.pinged = TRUE]
    /\ \/ /\ now >= ReverifyInterval
          /\ calls' = calls \cup {Call(r.id, r.address) : r \in {s \in Stored : Due(s)}}
       \/ /\ now < ReverifyInterval
          /\ UNCHANGED calls
    /\ UNCHANGED <<vars, finder, routing, alive, lost>>

\* periodic_find_node wakes up and reads the counts.
FindNodeBegin ==
    /\ finder.counts = Unread /\ now = finder.at + FindInterval
    /\ finder' = [at |-> now, counts |-> <<Cardinality(unverified), Cardinality(verified)>>]
    /\ UNCHANGED <<vars, buddy, routing, calls, alive, lost>>

\* What it asks next: the routers if nobody was verified, and unless too many
\* were unverified then, the verified nodes that now are nearest to a random id.
FindNodeDecide ==
    /\ finder.counts # Unread
    /\ \E routers \in IF finder.counts[2] = 0 THEN RouterCalls ELSE {{}} :
       \E nearest \in SUBSET verified :
          /\ IF finder.counts[1] > SkipCount
             THEN nearest = {}
             ELSE \/ nearest = verified /\ Cardinality(verified) <= K
                  \/ Cardinality(nearest) = K
          /\ calls' = calls \cup routers \cup {Call(r.id, r.address) : r \in nearest}
    /\ finder' = [at |-> now, counts |-> Unread]
    /\ UNCHANGED <<vars, buddy, routing, alive, lost>>

\* periodic_router_ping.
RouterRound ==
    /\ now = routing + RouterInterval
    /\ \E routers \in RouterCalls : calls' = calls \cup routers
    /\ routing' = now
    /\ UNCHANGED <<vars, buddy, finder, alive, lost>>

Ended(c) == calls \ {c}

\* common_send_and_handle_response gets its answer.
Answer(c, n) ==
    /\ n \in Answerers(c)
    /\ AddOrUpdateVerified(n, c.address)
    /\ calls' = Ended(c)
    /\ lost' = [lost EXCEPT ![n] = 0]
    /\ UNCHANGED <<buddy, finder, routing, alive>>

\* The question or its answer is lost.
Lose(c, n) ==
    /\ n \in Answerers(c) /\ lost[n] < MaxLost
    /\ calls' = Ended(c)
    /\ lost' = [lost EXCEPT ![n] = @ + 1]
    /\ UNCHANGED <<vars, buddy, finder, routing, alive>>

\* The timeout of spawn_with_shutdown.
GiveUp(c) ==
    /\ now = c.sent + CallTimeout
    /\ Answerers(c) = {}
    /\ calls' = Ended(c)
    /\ UNCHANGED <<vars, buddy, finder, routing, alive, lost>>

\* A node sends us a request, or another's answer names it.
Hear(id, addr) ==
    /\ <<id, addr>> \in Rumour
    /\ AddOrUpdateLastSeen(id, addr)
    /\ UNCHANGED <<buddy, finder, routing, calls, alive, lost>>

Die(n) ==
    /\ n \in alive
    /\ alive' = alive \ {n}
    /\ UNCHANGED <<vars, buddy, finder, routing, calls, lost>>

\* A wait for host names (finder) may take any time, a due task none.
TimePasses ==
    /\ buddy.pinged /\ now < buddy.at + CheckInterval
    /\ finder.counts = Unread => now < finder.at + FindInterval
    /\ now < routing + RouterInterval
    /\ \A c \in calls : /\ now < c.sent + CallTimeout
                        /\ Answerers(c) # {} => now < c.sent + Delay
    /\ Tick
    /\ UNCHANGED <<buddy, finder, routing, calls, alive, lost>>

TasksNext ==
    \/ PruneRound \/ PingRound
    \/ FindNodeBegin \/ FindNodeDecide \/ RouterRound
    \/ \E c \in calls : GiveUp(c) \/ \E n \in Id : Answer(c, n) \/ Lose(c, n)
    \/ \E id \in Id, addr \in Address : Hear(id, addr)
    \/ \E n \in Id : Die(n)
    \/ TimePasses

TasksSpec == TasksInit /\ [][TasksNext]_taskVars

----------------------------------------------------------------------------
(* Properties.                                                             *)

\* prune never removes a node that lives at the address it is stored with: it
\* has been pinged, and has answered, in time, even if MaxLost calls in a row
\* were lost and whichever table it was moved to meanwhile (dht.rs:582-663).
AnswerersStay ==
    [][PruneRound =>
         \A r \in Stored : r.id \in alive /\ r.address = Home[r.id]
                                => r.id \in IdsOf(Stored')]_taskVars

AnsweredLately(r) == r.last_verified >= now - Grace - CheckInterval
HeardOfLately(r) ==
    /\ r.last_seen >= now - Grace - CheckInterval
    /\ r.last_seen >= now - UnverifiedGrace - CheckInterval

\* The verified table, from which others are told of nodes, holds only nodes that
\* answered within a grace period and a check interval, whatever was heard of
\* them since; a backup that has not answered has at least been heard of, so
\* that nobody stays whom no node has named (node_bucket_storage.rs:196-220).
\* More does not hold: a demoted node that answers no more keeps its place while
\* others name it, against node_bucket_storage.rs:55-56 and dht_settings.rs:32.
\* On a clock that is younger than the periods prune does nothing.
UnheardGo ==
    \/ now < Grace + CheckInterval \/ now < UnverifiedGrace + CheckInterval
    \/ /\ \A r \in verified : AnsweredLately(r)
       /\ \A r \in unverified : AnsweredLately(r) \/ HeardOfLately(r)
============================================================================
