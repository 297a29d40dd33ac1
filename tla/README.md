# rustydht-lib in TLA+

Models of a BitTorrent DHT node (BEP 5, 42, 51), the library rustydht-lib, with
properties that TLC checks on small instances and theorems that TLAPS proves
for every value of the constants. Paths below are relative to the crate
(`src/dht/dht.rs`), or only a file's name where it is unique.

Contents: [the system](#the-system) · [modules](#modules) · [runs](#runs) ·
[fairness](#fairness) · [proofs](#proofs) ·
[disagreements with the documentation](#disagreements-with-the-documentation) ·
[not modelled](#not-modelled) · [plan](#plan)

## The system

A `DHT` owns a `DHTSocket` and a `Mutex<DHTState>`. `run_event_loop` joins seven
futures on one task: the loop over incoming packets, the periodic loops (ping
known nodes, look for more, ping routers, decide on our own address, rotate
token secrets), and a first ping of the routers. `DHTSocket` runs three tasks
of its own. Every request the node sends on its own account is a spawned task;
requests of the library's user are futures the user polls.

| component | state | operations | what is hard | correct when |
|---|---|---|---|---|
| node and bucket table, `buckets.rs` | our id, a vector of buckets | add (split, chump list), get_mut, contains, remove, retain, set_id, get_nearest_nodes | the vector grows under a loop over it; look-ups visit one bucket only | an id is found if it is stored; bounded; the oldest stay; the loop ends |
| routing storage, `node_bucket_storage.rs`, `node_wrapper.rs` | verified and unverified table, three instants per node | add_or_update, prune, set_id, clear, count | promotion in three steps, any of which may displace somebody | one record per node; nobody lost but for want of room or age |
| outbound requests, `outbound_request_storage.rs` | map from transaction id to request, age, channel | add, match and take, prune | transaction ids of two bytes clash; answers are late, repeated, forged | an answer reaches the call it answers, once |
| socket tasks, `socket.rs` | two channels of 128, a channel of 1 per request | send_to, receive, send, clean up every 10 s | three bounded queues in a row; two of the tasks die on an error, one restarts nothing | no queue locks up; no call waits for ever while the tasks run |
| awaited requests, `dht.rs` 215-254, 762-867, 931-971 | a future per call | send, wait, handle the answer, time out, shut down | entry, sender and receiver of a channel have three owners | a call ends; its answer is its own |
| incoming packets, `dht.rs` 268-580 | none but the state | throttle, answer, publish | awaits room to reply in the midst of receiving | every request that gets so far is answered; an event follows the processing |
| announcements, `dht.rs` 381-492, 917-929, 988-1007, `peer_storage.rs` | two token secrets; LRU of LRUs of peers | get_peers, announce_peer, rotate | tokens across rotations; two caches at their limits | only who asked from that address is announced; the freshest are served |
| throttler, `throttler.rs` | 32 records | check_throttle | eviction of the lamest record, expiry, sentinel 127.0.0.1 | who sends too much is dropped, for as long as configured |
| own address and id, `ipv4_addr_src.rs`, `id.rs`, `dht.rs` 712-734, 974-982 | votes per address, our id | vote, decay, set_id | set_id empties the routing storage while answers are on their way | id fits the address that most nodes see |
| maintenance, `dht.rs` 582-752, 869-915 | timers | prune and ping, find_node, ping routers | counts read before an await, decisions after it | a node that answers stays, one that neither answers nor is named goes |
| lookups, `operations.rs` | table of their own, best ids so far | find_node, get_peers, announce_peer | rounds against a changing table, timeouts in a timeout | ends; returns the nearest that answered, each once |
| shutdown, `shutdown.rs` | watch channel, confirmation channel | watch, spawn_with_shutdown, shutdown | drop as a signal; racing select arms | all tasks are gone when shutdown returns |
| packets, `packets/` | none | build, parse, response_matches_request | untagged variants tried in order | what is built parses to the same message |
| subscriptions, `dht_event.rs` | a channel of 32 per subscriber | subscribe, publish | full and closed channels while they are walked | a slow subscriber harms nobody else |

They meet in few places. The socket's incoming task hands a response to the call
that waits for it and also to the incoming loop, so that the two process it in
either order. A call's answer writes to the routing storage and to the votes. The
incoming loop writes to the routing storage (a requester is marked as seen) and
to the peer storage. Maintenance reads the routing storage and starts calls. Only
the mutexes of `DHTState` and of the request storage are shared; no lock is held
across an await, so that what a task does between two awaits is one step.

## Modules

| module | stands for |
|---|---|
| `Ids` | ids of `IdBits` bits instead of 160: xor distance, shared prefix, nearest |
| `BucketClasses` | operators on tables without buckets: a *class* is the set of entries with the same number of leading bits in common with us |
| `BucketSpec` | what a table promises: each class keeps `K` entries, the oldest |
| `Buckets` | `Buckets<T>`: a sequence of buckets; one step per turn of `handle_bucket_overflow` |
| `NodeBucketStorage` | the routing storage, two tables of `BucketClasses` |
| `Requests` | socket tasks, request storage, calls, incoming loop |
| `Announcements` | tokens and peer storage |
| `Throttler` | which senders' packets are dropped |
| `Identity` | votes on our address, our id, and what answers write to the routing storage |
| `Maintenance` | the periodic tasks and their calls at work on `NodeBucketStorage` |
| `Lookups` | find_node, get_peers, announce_peer of `operations.rs`, on tables of `BucketClasses` |
| `Lifecycle` | tasks, event loop, subscribers and the holders of a `ShutdownReceiver`, from `DHT::new` to the return of `shutdown()` |
| `Packets` | the builder, a message, its dictionary on the wire, and what the receiver makes of it |
| `MC*` | ids, requests, dictionaries and responses of the small instances |
| `*_proofs` | theorems |

**Buckets.** A bucket is a set of entries `[id, first_seen]`: nothing depends on
the order in a bucket, as look-ups compare ids and `sort_unstable_by_key` leaves
ties open, so `KeptOf` chooses among ties. `at` is the loop's index, 0 when no
`add` runs; `chumps` collects what the chump list receives. The caller sees only
the end of the loop, but the turns are where an entry could be lost, so each is a
step. `BucketSpec` knows no buckets: `Insert` puts an entry in, `Shed` takes one of
the newest of a class that holds more than `K`, and nothing else can be done until no
class does. `Implements` is the refinement, with `items` the union of the buckets and
`shed` the chump list; the turns of the loop that only move entries between
buckets are stutters. `NodeBucketStorage` is built on such tables, `Insert` and
`Shed` in one step (`Added`), and the refinement is what makes that sound.

**NodeBucketStorage.** `AddOrUpdateLastSeen` and `AddOrUpdateVerified` follow the
three branches of each function; `Seat` is `verified.add` followed by the loop
over the chump list. `prune` is one action with both predicates. `now` is the
clock; `set_id` empties both tables. `get_mut`, `remove` and `contains` are
`Entry` and `TakeOut`.

**Requests.** A step is what a task does between two awaits or under the storage's
lock:

| action | code |
|---|---|
| `Register`, `Enqueue`, `EnqueueFails` | `send_to` up to its await; room in the channel; the outgoing task gone |
| `HandleReply`, `ChannelCleanedUp`, `Abandon`, `CallStops` | how `common_send_and_handle_response` ends: an answer, `recv()` returning None, its future dropped by a timeout or the user, or by `spawn_with_shutdown` at the signal |
| `SendDatagram`, `OutgoingFails` | `background_io_outgoing_single` and the errors that end its loop |
| `ReceiveResponse`, `ReceiveOther`, `Notify`, `Forward`, `IncomingFails` | `background_io_incoming_single`: match and take under the lock, send to the call's channel, send to the general channel |
| `Cleanup`, `Tick` | `request_cleanup`, and time |
| `TakePacket`, `Reply`, `Publish`, `RecvFails` | `accept_incoming_packets` |
| `Signal`, `OutgoingStops`, `IncomingStops`, `CleanupStops`, `LoopStops` | the shutdown signal, and the tasks of `DHTSocket::new` and `run_event_loop` that it ends, each where it stands and in any order |

An answer carries a transaction id, an address, an author and a kind; the network
may deliver any of `Response` at any time and any number of times, which covers
loss, delay, duplication, reordering and senders nobody asked. A channel of
capacity 1 is the caller's `inbox`; its sender lives in the entry's `listener` or
with the incoming task, and `recv()` returns None when neither has it. `Spawned` are the
callers that `spawn_with_shutdown` runs, the DHT's own; the others are the user's `send_request`,
which looks at no signal (dht.rs:215-254). After the signal nobody prunes: the storage, its entries and
the senders in them live as long as the DHT. A user's call without a timeout that waits
then never returns, and as it borrows the DHT, which holds a receiver, neither does
`shutdown()`. `CallsEnd` excepts just that call; `ShutdownCompletes` of `Lifecycle` supposes that the DHT
was dropped. What an answer writes to routing storage and votes is not part of this module.

**Announcements.** An LRU cache is a sequence, most recently used first, which is
the order in which the crate iterates. A token is an address with the number of
the secret it was made with (the checksum is taken to be injective and secrets
not to repeat). `held` is the environment: the last token sent to each address,
with the instant. `AnnouncePeer` may present the token of any holder.

**Throttler.** `check_throttle` is one action, `CheckThrottle`, of the incoming loop
alone; its three branches are `TrackedTooLong` (clear and let through), `Known` and
`Newcomer`. A blank record bears 127.0.0.1, here `Loopback`, which may also be a sender:
the scan then finds the first of several records, and properties that hold a sender to
its record leave it out (`BlockedForgottenLast` also histories in which it is blocked). `log` is the history of the calls: sender, instant, outcome, and
whose record it cost. `Restart` is a new loop with a new `Throttler`.

**Identity.** `votes` is the list of `IPV4Consensus`, with `Voted` and its stable sort,
`Decayed`, `BestIpv4`. `HandleReply` and `AddSeen` are the two sections under the lock in
`common_send_and_handle_response`; between them anything may happen, a change of our id
too. `AddSeen` is also `common_request_handling`. `Maintain` is a turn of
`periodic_ip4_maintenance`. BEP 42's relation of addresses and ids is a constant, `ValidFor`;
`from_ip` picks any id it allows. The routing storage is only a set of nodes that may lose
any of them (`Forget`). `heard`, `quiet`, `told` are histories; `Settle` is the environment:
from then on everybody sees us at the same address.

**Maintenance.** Extends `NodeBucketStorage` with the tasks that keep it (`TasksSpec`).
`PruneRound` and `PingRound` are the two halves of a turn of `periodic_buddy_ping`, `FindNodeBegin` and
`FindNodeDecide` those of `periodic_find_node`, which awaits host names in between and then decides
on the counts it read before; `RouterRound` is `periodic_router_ping`. A call is answered (`Answer`
promotes the node), lost on the way (`Lose`) or given up after its timeout (`GiveUp`). `Hear`
covers requests and nodes named by others, with addresses that may be wrong. Nodes may die.
A due task runs before the clock moves on, as the tasks do little between two awaits.

**Lookups.** `phase` says which lookup of an operation runs: announce_peer calls get_peers, which calls
find_node, each with a new table. A turn seeds the table from the DHT's verified nodes
(`Seeded`), compares the nearest with those of the last turn (`Stop`), or asks them all (`StartTurn`)
and takes their answers in any order (`Reply`, `Fail`, `EndTurn`). `Kept` is what
`Buckets::add` leaves of a set of records; the refinement of `Buckets` is what allows that.
`Seeded` is the set of tables that seeding can leave: the DHT's nodes come in the order of its buckets,
which are centred on another id, and each is looked for when it is its turn, so that one which another displaces on
the way may be added again. Meanwhile the DHT's table changes: answers and other tasks verify nodes
(`Verified`), whose records may be old, as promotion keeps the first instant (`Records`), and may displace newer ones
or find no room (`Displacing`: any choice, as the classes of that table depend on the DHT's id); nodes are pruned or all
cleared (`Drop`). A node may so enter, or enter anew, older than those a lookup has kept, and displace them.
`responders` is a bag, since a node that is asked in two turns may respond twice.

**Lifecycle.** A task is something that holds a `ShutdownReceiver`: the user, the `DHT`, its event loop,
the three socket tasks, and the calls the loop spawns (`Held`). The user may drop, cancel, build and
run in any order that Rust's ownership allows: the loop borrows the DHT, `DHT::new` consumes
a receiver. `TaskStops` is the shutdown arm of `spawn_with_shutdown`, `TaskEnds` the
end of the task itself. Events are numbered, and a subscriber records the last it read and
whether its channel was ever full (`Offered`).

**Packets.** A message is its type, kind, and two functions from the fields that are set to their
values. `Build` follows the build functions (`Refused`, `Implied`, `Arguments`), `IntoSerdeMessage` and
`FromSerdeMessage` the two conversions, `Variants` and `Fits` how serde picks an untagged variant: the
first whose mandatory keys are all there. `Arrive` brings dictionaries from other programs,
with any combination of keys; `SendOn` sends what was understood once more. An interval is a `Duration`,
seconds and nanoseconds, of which the wire carries the seconds up to the cap (`Encoded`). A list of nodes is written
in 26 bytes for an IPv4 and 38 for an IPv6 node, and read by its length in bytes (`Offset`, `Bytes`, `Readable`): what lies
where a node is looked for is one that was written there (`ReadAsIpv4`), or made of pieces of two (`"misread"`).

## Runs

| run | module, configuration | states | checks |
|---|---|---|---|
| `buckets` | `MCBuckets` | 11 thousand | `TypeOK`, `LookupsFind`, `TableBounded`, `Implements`, `AddReturns` |
| `node_storage` | `MCNodeBucketStorage` | 116 thousand | `TypeOK`, `OneRecordPerId`, `TablesBounded`, `LossNeedsFullClass` |
| `requests` | `MCRequests` | 5.8 million | `TypeOK`, `RepliesBelong`, `NotifyNeverWaits`, `KeepsListening` |
| `requests_live` | same, `MCRequestsLive.cfg` | 172 thousand | `CallsEnd`, `ReceiveGoesOn` |
| `announcements` | `MCAnnouncements` | 82 thousand | `TypeOK`, `FreshestServed`, `TokenServesOneInterval`, `AnnouncedAskedBefore` |
| `throttler` | `MCThrottler` | 786 thousand | `TypeOK`, `NoFalseBlock`, `StaysBlocked`, `ThroughBounded`, `BlockedForgottenLast` |
| `identity` | `MCIdentity` | 79 thousand | `TypeOK`, `StorageFits`, `AdoptionEarned`, `Settles` |
| `maintenance` | `MCMaintenance` | 2.2 million | `UnheardGo`, `AnswerersStay` |
| `lookups` | `MCLookups` | 66 thousand | `TypeOK`, `NearestUnlessFull`, `AskedAll`, `Ends` |
| `announces` | same, `MCAnnounces.cfg` | – | `AnnouncesToNearest`, violated |
| `lifecycle` | `MCLifecycle` | 1.1 million | `NothingAfterReturn`, `EventsReach`, `ShutdownCompletes` |
| `packets` | `MCPackets` | 164 thousand | `RoundTrip`, `AuthorKnown`, `PortAsMeant` |

What they show, and why the bounds are enough:

* **buckets** – six ids of 3 bits, buckets of 2, two instants. Around an id of the
  larger half class 0 has four members and overflows after it has split off; around
  one of the smaller half three ids share a bit and force a second split; the table
  reaches its last possible bucket. Two instants give both ties and order among the
  entries that are cut. A look-up visits the one bucket where the entry is; no
  bucket but the one in the loop's hands exceeds `K`, and that by one; there are never more than
  `IdBits` buckets; the loop ends (`AddReturns`); the whole implements `BucketSpec`.
* **node_storage** – four ids and tables of one node per class; around id 0 the other
  three compete for one place, so that a promotion displaces a verified node and that one
  an unverified one; a clock to 3 with grace periods of 1 and 2. `prune`'s predicates differ only when the two grace periods do. A node
  has one record in one table, and disappears from a table only if that table is
  then full of nodes of its class known at least as long.
* **requests** – two callers, two transaction ids, queues of capacity one, a cleanup
  period of one tick. Two callers are what a clash takes; a third adds nothing that
  a second caller that calls again does not. One question names its addressee and
  the other does not (a router), one answer fits both, one fits only the second,
  one comes from the wrong address. The two callers are interchangeable, as no
  property and no constant tells them apart (symmetry). The signal may be given at any time.
* **requests_live** – the same with one question and one transaction id, without
  symmetry, with one caller of the DHT's own and one of the user's. Every call ends, also without a timeout, as its entry
  is pruned; after the signal the DHT's own do, and the user's that waits then need not. The incoming task
  never waits for ever.
* **announcements** – two info hashes of which one is kept, two peers per swarm, a
  response of one peer, two ports, an IPv4 and another address; rotation every two
  ticks over a clock of five, so that tokens see no, one and two rotations.
* **throttler** – two records for three senders and 127.0.0.1, a limit of one packet per
  two ticks, timeouts of three and tracking of four ticks, six packets in five ticks: enough to
  be blocked, blocked anew, forgotten for a newcomer, reset, and blocked again. Senders
  other than 127.0.0.1 are interchangeable. Nobody is blocked for packets of another or of another
  period; a block lasts while its record is kept; what gets through in any stretch of a period
  stays below twice the limit (twice, as periods are anchored at the first packet; this needs blocks
  that outlast a period, as those of the defaults do, 60 s and 6 s); a blocked
  record is given up for a newcomer only when as many addresses as there are records were blocked.
* **identity** – two addresses, ids that fit one, the other, both and none; two to four
  votes. Our id changes only for a lead of more than `MinVotes` responses that is not older than
  `MaxVotes - MinVotes` intervals (80 s by default), and only if it must. Once everybody says the same
  address, votes for others are forgotten for good, though nobody may answer any more; and our id comes
  to fit it and stays so, if now and then an interval brings more than `MinVotes` answers. A single node may cast all the votes: `add_vote` ignores
  who votes, and so does `AdoptionEarned`.
* **maintenance** – two nodes of one class with room for one of them, so that each displaces
  the other and is pinged as a backup; one of them may also be rumoured at the other's address. A
  check every tick, grace periods of four and three ticks, one lost call in a row: the settings
  are as tight as the assumption allows. Six ticks let a node be verified, lose a
  call, be displaced, be pinged again, die and be pruned. A node that lives where it is stored is
  never pruned. One that neither answers nor is heard of is gone after a grace period and one check, and
  from the verified table also one that is heard of; as a backup that one stays (disagreement 8). With the
  program's defaults (reverify after 840 s, grace 900 s, a check every 10 s, answers within 5 s)
  `MaintenanceAssumption` holds up to `MaxLost = 4`, the number of calls to a node that may be lost in a
  row before it is pruned although it lives.
* **lookups** – a target and five nodes, tables of two per class, answers that name nearer and
  farther nodes in either order and the target itself; other nodes come and go meanwhile. Three nodes
  share a class and overflow it. Two instants are left for records that enter the DHT's table later, one older than
  that of the node it starts with and one newer, both older than those of named nodes (`MCInstants`): so that a verified node
  displaces one the lookup has kept, and one is displaced while the table is seeded. A lookup keeps what it
  heard of unless the class is full, has asked all it returns, and ends by itself: classes
  only fill up, and the instants in a full one only fall, so that the nearest cannot alternate for ever.
* **announces** – the same; with two announcements to make, a node that responded in two turns takes
  both.
* **lifecycle** – one call and two subscribers with room for two of four events: one may be full or gone
  while the other reads. A second call does what the first does when it is spawned again.
  Nothing is left when `shutdown()` returns, it does return once the user has
  dropped the DHT and its receivers, and a subscriber that keeps up misses nothing.
* **packets** – every message the builder can make with values of each kind the codec tells apart
  (an IPv4, an IPv6 address, no node, thirteen IPv6 nodes behind another, intervals around the cap, with and without a fraction), and every combination of keys from
  elsewhere, with ids of a wrong length, flags beyond one and a negative interval. A
  message is read as what it was built as, with all its fields, an interval in whole seconds; the exception is an IPv6
  address, which is written and not read: the message is refused, or other nodes are read where thirteen are IPv6. Numbers wrap at 16 instead of 2^64, four times the cap.

Deadlock is checked where the system goes on for ever. It is not in `lookups` and `announces`
(the operation returns), in `lifecycle` (nothing is left to do after the end, and the number of
events is bounded) and in `packets` (a message is sent, received and sent on).

Every property has a variant of one definition, kept next to it in its module and
marked as faulty, with which the property fails.

## Fairness

`Buckets` has weak fairness on the turns of the loop: a function goes on. The other
fairness is in `Requests`. Weak: the runtime polls every task that can go on
(answer handling, incoming task, outgoing task, incoming loop), the cleanup's
interval fires and time passes, until the signal ends that task; and a task that has been signalled is woken and
dropped. Strong: `Enqueue` and `Reply`, which wait for room in
`send_to_tx`, as tokio's semaphore serves waiters in turn and nobody is overtaken
for ever. None: callers need not call nor give up, the network need not deliver,
the socket need not fail and the user need not shut down; no property relies on a timeout of the caller.

`Identity` has weak fairness on the maintenance loop, which sleeps ten seconds and goes on, and on nothing
else. Decay may therefore outrun the votes, and then our id need not change; the second half of `Settles` has that
in its premise (`Bursts`): again and again some interval brings more than `MinVotes` answers, while any number
of others bring none. With `MinVotes` per interval the decay, which comes first, would leave one too few each time.

`Lookups` has weak fairness on the turns of a lookup and on the end of its requests, each of which has a timeout
of five seconds; not on the lookup's own timeout, as `Ends` says that it is not needed, nor
on what happens to the DHT's table. `Lifecycle` has weak fairness on tasks that see the signal, the event loop's
arm that does, and the return of `shutdown()`; the user owes nothing, and so `ShutdownCompletes`
supposes that the user has dropped what it holds.

## Proofs

| module | theorems | from |
|---|---|---|
| `Buckets_proofs` | `TypeCorrect`, `LookupsAreComplete`, `TableIsBounded`, `Implementation` | `Prefix` is a shared-prefix function on `Id` (named assumptions of `Buckets`), `K` positive |
| `NodeBucketStorage_proofs` | of the storage: `StorageTypeCorrect`, `NoNodeTwice`, `StorageIsBounded`, `LossesAreNeeded` | `StorageAssumption` |
| | of the periodic tasks: `TasksUseStorage`, `UnheardAreGone`, `AnswerersAreKept` | `MaintenanceAssumption` |
| `Requests_proofs` | `RequestsTypeCorrect`, `AnswersBelong`, `NeverWaitsToNotify`, `StaysAnswerable` | `RequestsAssumption`, `SentinelsAssumption` |
| `Announcements_proofs` | `TokensServe`, `TokensExpire`, `TypesOK`, `FreshestAreServed`, `AnnouncedHaveAsked` | `AnnouncementsAssumption` |
| | of the messages: `MessagesComeThrough`, `AuthorsAreKnown`, `PortsAsMeant` | `PacketsAssumption` |
| `Throttler_proofs` | `ThrottlerTypeCorrect`, `BlocksLast`, `BlocksAreEarned`, `ThroughIsBounded`, `BlockedAreForgottenLast` | `ThrottlerAssumption` |
| `Identity_proofs` | `StorageAlwaysFits`, `TypesOK`, `AdoptionIsEarned` | `IdentityAssumption` |
| `Lookups_proofs` | `KeepsNearest`, `TablesSound`, `ReturnedWereAsked`, `AsksAndAnnounces` | `LookupsAssumption` |
| `Lifecycle_proofs` | `NothingLeft`, `EventsAlwaysReach`, `LifecycleTypeCorrect` | `LifecycleAssumption` for the last two |

*Buckets.* `LookupsFind` alone is not inductive, as it says where entries are found and
not why. `IInv` says that every entry lies in the bucket its shared prefix names, that no
id occurs twice and ours not at all, and that only the bucket the loop stands at may hold
`K + 1` entries. The hard step is `SplitOrTrim`: the lemma `Rehoming` says what it does
to the whole table before the excess is cut off (which bucket each entry reaches, and
that at most one bucket, the next, can be too large by one), and `KeptOfOneTooMany` that
cutting then removes one newest entry. That a bucket which is still too large after the
split holds one class only is what maps the cut to `Shed`. `BucketCount`, a half of `TableBounded`, follows from the
assumption that only one id differs from ours in nothing but the last bit.

*NodeBucketStorage.* `SInv` adds to the checked invariants only that the tables are finite,
but uniqueness and boundedness need one another and `TypeOK`: what is displaced has left the
table it comes from, so that its return to `unverified` creates no double, and an insertion
into a table without overfull classes overfills at most one, by one. `LossNeedsFullClass` is an action property. That the one
which goes is among the newest of an overfull class, and that `K` others stay (`DisplacedByOlder`), settles a
single insertion; `SeatLoses` puts the two insertions of a promotion together.

*Maintenance.* `Maintenance` extends `NodeBucketStorage`, and each of its steps is one of the storage's or leaves it alone
(`TasksUseStorage`). Neither property is inductive. `UnheardGo` speaks of now, and follows from what is true of the
last prune (`Pruned`): what it kept is still as new, what has come or been verified since is newer, and whoever
is displaced to `unverified`, where being heard of would suffice, was verified lately. `AnswerersStay`
counts. `LossesExplain` says of a stored node that is at home that the rounds of pings it was due in since it last answered, and whose
calls have ended (`Closed`), are no more than the calls to it that were lost: calls end by an answer, which makes
its record new (`VerifiedEffect`), by a loss, or by a timeout, which comes too late for a node at home (`Timely`).
A record that a prune would drop was due in so many rounds, and `Delay` ago, that more than `MaxLost` of them are closed; `AnswererIsKept`
puts them in a one-to-one list, whatever the ratio of `Delay` to `CheckInterval`.

*Requests.* `RepliesBelong` is not inductive: it speaks of what has reached a call's channel.
`RInv` says the same of what is on its way there: an entry that is listened to is its
listener's question under its transaction id, and what the incoming task holds answers the call it
is for; and of entry, incoming task and channel at most one can still notify a call.
The age of an entry and the time to the next cleanup make two periods at most. The action
property `KeepsListening` is proved from the same invariant.

*Announcements.* A token is as old as its secret: the invariant relates the number of the
secret of each token held, the two secrets in force, the time since the last rotation
and the time since the token was sent. `AnnouncedHaveAsked` follows from `TokensExpire`, once it is known that a put
adds no entry but its own. The caches' invariant `CachesOK` adds to `TypeOK` that a swarm is in
the order of its instants. The lemmas `WithoutProps`, `FrontProps` and `TruncatedProps` say what unlinking
an entry, putting one in front and cutting off the last do to a list; put and get are made of the three.
For `FreshestServed` the entries of a prefix that pass the filters are counted: the count
grows by one at most (`PassingCounted`), and so is exactly `MaxResponse` before the first that finds no room (`RoomIsFilled`).

*Packets.* Their theorems are at the end of `Announcements_proofs`. `PInv` says that what is sent was built or understood and that a dictionary
is either that of the message or from elsewhere. `IsMessage` is what the two sources of messages have in common (`BuiltIsMessage`,
`ForeignIsMessage`): the arguments of its kind, `nodes` or `peers` but not both, and values of their types. Of
such a message `KindFound` shows that no earlier variant of a response fits its fields, `ArgumentsRead` that none is
dropped, and `FieldThere` what each comes back as (`Arrived`): `BytesOfNodes` and `NodesReadable` count the bytes of a list, which thirteen, but no fewer, IPv6 nodes
make a multiple of 26, and `NodesThere` finds each IPv4 node where it is looked for. The assumption is that values have the types Rust gives them and that
the cap is small against 2^64.

*Throttler.* `StaysBlocked` speaks of the history of calls. Its invariant `BlocksOnRecord` ties
the history to the array: for every block whose time is not over and whose record has not been
given up since, some record bears the address, counts more than the limit and expires no
sooner than the block. That an address has only one record (in `TypeOK`) makes it the record
the scan finds. `LamestIsIndex` shows that the scan ends with a record at all, with the fewest packets.
The other properties count packets or addresses of the history, and their invariants compare a
record's counter with it. `HighCounts`: a counter above the limit belongs to an address that was blocked, so
that when the lamest record is such a one all `N` are, of `N` addresses (`BlockedForgottenLast`).
`CountsEarned`: a record that is not blocked counts no more than its address sent since the period began
(`NoFalseBlock`). `PeriodsBounded`, in the other direction: no more got through since than it counts,
and with the period before fewer than the limit more, as that period's first packet is out of
reach (`ThroughBounded`). A block must last a period for that, or it would end
before the period that earned it; the property says so.

*Identity.* `Fitting` adds only types to `StorageFits`; the case of interest is `Maintain`, which
changes our id and empties the storage in one step. `AdoptionEarned` needs two facts of the list of votes, kept by `Earned`: it is
in order with each address once (`ListOK`), although a new address is put at its end unsorted, as no count is below one; and an
address has no more votes than responses named it, and loses one of at most `MaxVotes` in every interval in which none does.
`SortedProps` and `RetainedProps` say of sorting and decay that they rearrange or thin out a list without changing its entries.

*Lookups.* The table of a lookup is a set of records and `Kept` keeps the oldest `K` of each class, so the proof
counts. `Ranks`: in a finite set with distinct instants exactly `n` members have fewer than `n` below
them, by a bijection with an interval and without induction. From it `KeptClass` says what is left of a class, and
`KeptNearest` that who is not kept leaves a full class, however old the records that come. `KeptOfFewer` says that what was displaced by some of the records
is displaced by all, and with `OrderCovers` it makes every order of seeding lose only members of full classes
(`SeededKept`). The invariant `LInv` adds that
instants are distinct over the table and the DHT's own and that the table is sound (`TablesSound`): `VerifiedStamped` shows it of whoever is verified, with an old
record or a new one, and `DropStep` of those that go;
`FreshIsNew` and `NamedFirst` show that an answer adds records as `buckets.add` would. A second invariant, `Asks`,
has the rest of `TypeOK` and `AskedAll`: the best ids of the last turn were asked, what the table holds was heard of, and
the announcements under way to a responder are no more than its answers (`ChosenBounded`). In the model and its assumption no two nodes are first seen
at the same instant: which of two equals goes is left open in the code.

*Lifecycle.* Two invariants that need nothing of one another. `Alone`: once `shutdown()` is back
nobody holds a receiver, and so nobody is left who could build a DHT, run a loop or spawn a call.
`Delivers`: the channel of a subscriber that never found it full holds the numbers from the last
one read to the last one published, without a gap (`Gapless`), and any other channel holds an increasing
sequence between the two (`InOrder`); the lemmas say that reading and offering keep that.

Only model-checked: liveness (`CallsEnd`, `ReceiveGoesOn`, `AddReturns`, `Settles`, `Ends`,
`ShutdownCompletes`), which the prover cannot do. Every invariant and action property of a passing run is a theorem.

## Disagreements with the documentation

A run shows one of them:

1. announce_peer says that it prepares to send packets to the nearest 8 (operations.rs:46), and takes the
   first eight responders. A node that responded in two turns is among them twice, is
   announced to twice, and takes the place of another (run `announces`).

The others are read off the code, and the models follow the code:

2. `count()` (node_bucket_storage.rs:30-34, 176-178) is said to return how many nodes
   have a `last_verified`, and returns the sizes of the tables. A verified node that is
   displaced moves to the unverified table and keeps its `last_verified`.
   `DHTSettings::find_nodes_skip_count` is compared with this number.
3. An event is said to be sent after all other processing of its message
   (dht_event.rs:19). A response goes to its caller and to the loop that sends the
   event, which does not wait for the caller (`HandleReply` and `Publish` of `Requests`, in either order).
4. `outgoing_request_prune_secs` (dht_settings.rs:57, 30 s by default) is read nowhere; the cleanup
   uses ten seconds (socket.rs:231).
5. A blocked address is said to be blocked "for at least" `throttle_naughty_timeout_secs`
   (dht_settings.rs:84-86), but when all records are in use a newcomer takes the record with the
   fewest packets, which may hold a standing block, as records whose time is long over
   keep their count (`Newcomer` of `Throttler`).
6. `watch` is said not to return until the sender signals (shutdown.rs:15-16); it also returns, after
   logging an error, when the sender is dropped, so that dropping the sender stops the DHT
   (`Signalled` of `Lifecycle`).
7. A lookup never returns the target itself, as `Buckets::add` refuses the id a table is
   centred on (`Kept` of `Lookups`); find_node is said to return the nodes closest to it.

8. Verified nodes that are not reverified in time are said to be dropped (dht_settings.rs:32,
   node_bucket_storage.rs:55-56), and new ones that do not respond to a ping in time, too
   (dht_settings.rs:35). One that was displaced to the unverified table, or is new, stays while others go on
   naming it: `last_seen` is enough there (node_bucket_storage.rs:206-217), and being named refreshes it
   (`KeepUnverified`, `Hear`; `UnheardGo` promises no more).
9. An interval that `MessageBuilder::interval` takes is any `Duration` (builder.rs:241); its fraction of a second and
   what exceeds six hours do not arrive (public.rs:309-312). IPv6 addresses are "not yet implemented"
   (public.rs:605) and refused when they are read, except thirteen IPv6 nodes in a list, or a multiple,
   which are as long as nineteen IPv4 nodes and read as such (`RoundTrip`).

## Not modelled

Bytes on the wire, wording of errors and logs; host name resolution, the
content of peers and tokens in lookups. The CRC of a token may collide
and a secret may be drawn twice; neither is modelled. Underflow of the monotonic
clock shortly after boot, which makes `prune` and `prune_older_than` skip their work,
is in `Maintenance` (a clock younger than a grace period prunes nothing), but not in `Requests`. `Identity` takes the routing storage for
a plain set; which nodes it keeps is in `NodeBucketStorage`. IPv6 ids (where `is_valid_for_ip` panics,
id.rs:230) and other sources of our address are left out. Errors the two I/O loops ignore (packets that do not parse,
conntrack) change no state; the message is lost, as it may be anyway.

## Plan

Done: the bucket table and its specification, the routing storage, requests, announcements,
throttler, identity, maintenance, lookups, lifecycle with subscribers and shutdown, packets.

Left: `Node`, a composition of `Requests`, `NodeBucketStorage` and `Identity`, in which an answer reaches the
table centred on the id that is current when it is handled and calls of maintenance go through the
socket's queues; the settings' builders and small types hold no behaviour worth a module.

Proofs to come: with `Node`, that its answers and maintenance keep the invariants of its parts.
