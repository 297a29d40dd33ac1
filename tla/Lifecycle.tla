------------------------------ MODULE Lifecycle ------------------------------
(***************************************************************************)
(* Start and end of a DHT: src/shutdown.rs, the tasks that hold a          *)
(* ShutdownReceiver, DHT::run_event_loop and the subscribers of src/dht/   *)
(* dht.rs.  Receivers are held by the DHT itself, its three socket tasks,  *)
(* its event loop, the calls that the loop spawns, and the program that    *)
(* uses the library (the user).  shutdown() signals and then waits until   *)
(* the last of them is dropped.  A receiver that was cloned after the      *)
(* signal still sees it: a clone has seen what its original has, and the   *)
(* originals never watch.                                                  *)
(***************************************************************************)
EXTENDS Integers, Sequences, FiniteSets

CONSTANTS Call,        \* tasks that send a request
          Subscriber,
          EventCap,    \* capacity of a subscriber's channel, 32
          RecvCap,     \* capacity of recv_from_tx, 128
          MaxEvents    \* bound on the events published

ASSUME LifecycleAssumption ==
    /\ EventCap \in Nat \ {0} /\ RecvCap \in Nat \ {0} /\ MaxEvents \in Nat
    /\ Call \cap {"incoming", "outgoing", "cleanup"} = {}

VARIABLES sender,     \* ShutdownSender: silent, in shutdown(), back from it, or dropped
          user,       \* the user holds a receiver
          dht,        \* the DHT (and with it a receiver): unbuilt, held, dropped
          loop,       \* run_event_loop: idle, running, or what it returned last
          running,    \* spawned tasks that run
          packets,    \* packets in recv_from_tx
          published,  \* how many events were sent
          subs        \* the subscribers

vars == <<sender, user, dht, loop, running, packets, published, subs>>
tasks == <<user, dht, loop, running>>
events == <<published, subs>>

SocketTask == {"incoming", "outgoing", "cleanup"}
Task == SocketTask \cup Call

\* A channel's receiver may be unborn, open or closed; its sender is in the
\* vector subscribers while enlisted.  Events are numbered; read is the last one
\* taken out (or the last before subscribing), missed says that one was lost.
Absent == [receiver |-> "none", enlisted |-> FALSE, chan |-> <<>>, read |-> 0, missed |-> FALSE]

\* ShutdownReceiver::watch returns: on the signal, or when the sender is gone.
Signalled == sender # "silent"

\* Faulty variant: the receiving task was spawned without select.
HearsUnlessReceiving(t) == Signalled /\ t # "incoming"

Hears(t) == Signalled

\* Faulty variant: the cleanup task does not own a receiver.
HeldButForCleanup == user \/ dht = "held" \/ loop = "running" \/ running \ {"cleanup"} # {}

\* Some _shutdown_confirm_tx is alive.
Held == user \/ dht = "held" \/ loop = "running" \/ running # {}

\* DHTState, with its subscribers, and DHTSocket live as long as the DHT and its
\* calls.
StateAlive == dht = "held" \/ running \cap Call # {}

----------------------------------------------------------------------------
\* create_shutdown.
Init ==
    /\ sender = "silent" /\ user = TRUE
    /\ dht = "unbuilt" /\ loop = "idle" /\ running = {}
    /\ packets = 0 /\ published = 0
    /\ subs = [s \in Subscriber |-> Absent]

(* The user.                                                               *)

\* DHT::new spawns the socket's tasks, even after the signal.
Build ==
    /\ user /\ dht = "unbuilt"
    /\ dht' = "held"
    /\ running' = SocketTask
    /\ UNCHANGED <<sender, user, loop, packets, events>>

Run ==
    /\ dht = "held" /\ loop # "running"
    /\ loop' = "running"
    /\ UNCHANGED <<sender, user, dht, running, packets, events>>

\* The future of run_event_loop is dropped, as select! does in the examples.
Cancel ==
    /\ loop = "running"
    /\ loop' = "idle"
    /\ UNCHANGED <<sender, user, dht, running, packets, events>>

\* The event loop borrows the DHT.
DropDht ==
    /\ dht = "held" /\ loop # "running"
    /\ dht' = "dropped"
    /\ UNCHANGED <<sender, user, loop, running, packets, events>>

DropReceiver ==
    /\ user /\ user' = FALSE
    /\ UNCHANGED <<sender, dht, loop, running, packets, events>>

\* shutdown() up to its await, and its return.
Shutdown ==
    /\ sender = "silent" /\ sender' = "signalled"
    /\ UNCHANGED <<tasks, packets, events>>

ShutdownReturns ==
    /\ sender = "signalled" /\ ~Held
    /\ sender' = "returned"
    /\ UNCHANGED <<tasks, packets, events>>

DropSender ==
    /\ sender = "silent" /\ sender' = "dropped"
    /\ UNCHANGED <<tasks, packets, events>>

(* Tasks.                                                                  *)

\* spawn_with_shutdown: the signal ends a task wherever it waits.
TaskStops(t) ==
    /\ t \in running /\ Hears(t)
    /\ running' = running \ {t}
    /\ UNCHANGED <<sender, user, dht, loop, packets, events>>

\* A call is answered or times out; an error ends an I/O task.
TaskEnds(t) ==
    /\ t \in running \ {"cleanup"}
    /\ running' = running \ {t}
    /\ UNCHANGED <<sender, user, dht, loop, packets, events>>

Receive ==
    /\ "incoming" \in running /\ StateAlive /\ packets < RecvCap
    /\ packets' = packets + 1
    /\ UNCHANGED <<sender, tasks, events>>

\* ping_internal and find_node_internal.
LoopCalls(c) ==
    /\ loop = "running" /\ c \notin running
    /\ running' = running \cup {c}
    /\ UNCHANGED <<sender, user, dht, loop, packets, events>>

\* Faulty variant: a full channel is given up like a closed one.
OfferedOnce(sub) ==
    IF sub.receiver = "open" /\ Len(sub.chan) < EventCap
    THEN [sub EXCEPT !.chan = Append(@, published + 1)]
    ELSE [sub EXCEPT !.enlisted = FALSE]

\* try_send: into the channel, lost if that is full, the last if it is closed.
Offered(sub) ==
    IF sub.receiver # "open" THEN [sub EXCEPT !.enlisted = FALSE]
    ELSE IF Len(sub.chan) = EventCap THEN [sub EXCEPT !.missed = TRUE]
    ELSE [sub EXCEPT !.chan = Append(@, published + 1)]

\* accept_incoming_packets takes a packet and tells the subscribers.
LoopPublishes ==
    /\ loop = "running" /\ packets > 0 /\ published < MaxEvents
    /\ packets' = packets - 1
    /\ subs' = [s \in Subscriber |-> IF subs[s].enlisted THEN Offered(subs[s]) ELSE subs[s]]
    /\ published' = published + 1
    /\ UNCHANGED <<sender, tasks>>

\* A packet that is dropped, by the throttler or as unreadable.
LoopDrops ==
    /\ loop = "running" /\ packets > 0
    /\ packets' = packets - 1
    /\ UNCHANGED <<sender, tasks, events>>

\* It cannot reply, or the channel it reads is closed and empty.
LoopFails ==
    /\ loop = "running"
    /\ \/ packets > 0 /\ "outgoing" \notin running /\ packets' = packets - 1
       \/ packets = 0 /\ "incoming" \notin running /\ UNCHANGED packets
    /\ loop' = "err"
    /\ UNCHANGED <<sender, user, dht, running, events>>

\* ShutdownError, which run_event_loop turns into Ok.
LoopStops ==
    /\ loop = "running" /\ Signalled
    /\ loop' = "ok"
    /\ UNCHANGED <<sender, user, dht, running, packets, events>>

(* Subscribers.                                                            *)

Subscribe(s) ==
    /\ dht = "held" /\ subs[s] = Absent
    /\ subs' = [subs EXCEPT ![s] = [Absent EXCEPT !.receiver = "open", !.enlisted = TRUE,
                                                  !.read = published]]
    /\ UNCHANGED <<sender, tasks, packets, published>>

Read(s) ==
    /\ subs[s].chan # <<>>
    /\ subs' = [subs EXCEPT ![s].chan = Tail(@), ![s].read = Head(subs[s].chan)]
    /\ UNCHANGED <<sender, tasks, packets, published>>

HangUp(s) ==
    /\ subs[s].receiver = "open"
    /\ subs' = [subs EXCEPT ![s].receiver = "closed", ![s].chan = <<>>]
    /\ UNCHANGED <<sender, tasks, packets, published>>

User == Build \/ Run \/ Cancel \/ DropDht \/ DropReceiver \/ Shutdown \/ DropSender
Loop == (\E c \in Call : LoopCalls(c)) \/ LoopPublishes \/ LoopDrops \/ LoopFails \/ LoopStops
Subscribers == \E s \in Subscriber : Subscribe(s) \/ Read(s) \/ HangUp(s)

Next ==
    \/ User \/ ShutdownReturns \/ Receive \/ Loop \/ Subscribers
    \/ \E t \in Task : TaskStops(t) \/ TaskEnds(t)

\* The executor polls what is ready; the user owes nothing.
Spec ==
    /\ Init /\ [][Next]_vars
    /\ \A t \in Task : WF_vars(TaskStops(t))
    /\ WF_vars(LoopStops) /\ WF_vars(ShutdownReturns)

----------------------------------------------------------------------------
(* Properties.                                                             *)

\* The event loop never outlives the DHT, calls only stem from it, and the
\* channels keep to their capacities.
TypeOK ==
    /\ sender \in {"silent", "signalled", "returned", "dropped"} /\ user \in BOOLEAN
    /\ dht \in {"unbuilt", "held", "dropped"} /\ loop \in {"idle", "running", "ok", "err"}
    /\ running \subseteq Task /\ packets \in 0 .. RecvCap /\ published \in 0 .. MaxEvents
    /\ loop = "running" => dht = "held"
    /\ dht = "unbuilt" => running = {}
    /\ \A s \in Subscriber : Len(subs[s].chan) <= EventCap /\ subs[s].read <= published

\* Once shutdown() is back nothing of the DHT is left: no task runs, not even
\* one spawned after the signal, and none can be started any more; its state is
\* gone, so that subscribers come to the end of their channels (shutdown.rs:66).
NothingAfterReturn ==
    sender = "returned" =>
        /\ running = {} /\ loop # "running"
        /\ ~StateAlive /\ ~user

\* The signal, or the sender's end, ends the event loop; and shutdown() returns
\* once the user has dropped the DHT and its receivers (shutdown.rs:19, 66).
ShutdownCompletes ==
    /\ Signalled /\ loop = "running" ~> loop # "running"
    /\ sender = "signalled" /\ ~user /\ dht # "held" ~> sender = "returned"

\* A subscriber that never fell EventCap events behind gets every event since it
\* subscribed, in order; one that did fall behind gets later ones all the same.
\* Neither depends on other subscribers that are slow or gone (dht.rs:557-580).
EventsReach ==
    \A s \in Subscriber :
        LET sub == subs[s]
        IN  /\ sub.receiver = "open" => sub.enlisted
            /\ sub.receiver = "open" /\ ~sub.missed =>
                   sub.chan = [i \in 1 .. published - sub.read |-> sub.read + i]
            /\ \A i \in DOMAIN sub.chan : sub.read < sub.chan[i]
            /\ \A i, j \in DOMAIN sub.chan : i < j => sub.chan[i] < sub.chan[j]
============================================================================
