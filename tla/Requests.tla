------------------------------ MODULE Requests ------------------------------
(***************************************************************************)
(* Outstanding requests: DHTSocket (src/dht/socket.rs) with its three      *)
(* background tasks, OutboundRequestStorage, the calls that send a request *)
(* and await the answer (DHT::common_send_and_handle_response), and the    *)
(* loop that takes packets off the socket (DHT::accept_incoming_packets).  *)
(* An action is what a task does between two awaits or under one lock.     *)
(* The network delivers any packet at any time: answers may be late, lost, *)
(* repeated, reordered or sent by somebody who was never asked.            *)
(* Ages and the countdown of the cleanup task are in ticks of the clock.   *)
(***************************************************************************)
EXTENDS Integers, Sequences, FiniteSets

CONSTANTS Caller,      \* tasks that send requests, one at a time
          Spawned,     \* those that spawn_with_shutdown runs: the DHT's own
          Tid,         \* transaction ids
          Address, NodeId,
          Request,     \* what is asked: addr, id (or NoId) and kind
          Response,    \* answers: tid, addr, author and kind
          Query,       \* an incoming request
          ErrorMsg,    \* an incoming error message
          Period,      \* request_cleanup's interval and maximal age, 10 s
          SendCap,     \* capacity of send_to_tx, 128
          RecvCap,     \* capacity of recv_from_tx, 128
          NoId, NoCall, NoEntry, Empty, Nobody

RequestKind == {"ping", "find_node", "get_peers", "announce_peer", "sample_infohashes"}
ResponseKind == RequestKind \ {"announce_peer"}

ASSUME RequestsAssumption ==
    /\ Spawned \subseteq Caller
    /\ Request \subseteq [addr : Address, id : NodeId \cup {NoId}, kind : RequestKind]
    /\ Response \subseteq [tid : Tid, addr : Address, author : NodeId, kind : ResponseKind]
    /\ Period \in Nat \ {0}
    /\ SendCap \in Nat \ {0} /\ RecvCap \in Nat \ {0}

Call == [at : {"queueing", "waiting"}, tid : Tid, request : Request]
Entry == [request : Request, age : 0 .. 2 * Period, listener : Caller \cup {Nobody}]
Packet == Response \cup {Query, ErrorMsg}

ASSUME SentinelsAssumption ==
    /\ NoId \notin NodeId /\ NoCall \notin Call /\ NoEntry \notin Entry
    /\ Empty \notin Response /\ Nobody \notin Caller
    /\ Query \notin Response \cup {ErrorMsg} /\ ErrorMsg \notin Response

VARIABLES call,        \* per caller, its call in progress
          inbox,       \* per caller, its notification channel (capacity 1)
          requests,    \* OutboundRequestStorage: per transaction id
          queued,      \* messages in send_to_tx
          outgoing,    \* background_io_outgoing runs
          incoming,    \* background_io_incoming: where it is, with what
          recv_queue,  \* messages in recv_from_tx
          main,        \* accept_incoming_packets: where it is
          to_cleanup,  \* time to request_cleanup's next tick
          cleaning,    \* request_cleanup runs
          signalled    \* the shutdown signal has been given

vars == <<call, inbox, requests, queued, outgoing, incoming, recv_queue, main,
          to_cleanup, cleaning, signalled>>

taskVars == <<cleaning, signalled>>
callVars == <<call, inbox, requests>>
pathVars == <<incoming, recv_queue, main>>

Registered(tid) == requests[tid] # NoEntry

\* The call awaits its channel, and a sender for it exists: in the storage or
\* with the incoming task.  Without one its recv() returns None.
Listening(c) == \E tid \in Tid : Registered(tid) /\ requests[tid].listener = c
BeingNotified(c) == incoming.at = "notify" /\ incoming.listener = c

\* response_matches_request: announce_peer's response looks like ping's.
ResponseMatchesRequest(res, req) == req = res \/ (req = "announce_peer" /\ res = "ping")

\* Faulty variant: anybody may answer.
AnswersFromAnywhere(res, req) ==
    /\ req.id = NoId \/ req.id = res.author
    /\ ResponseMatchesRequest(res.kind, req.kind)

\* get_matching_request_info, once an entry with the answer's tid is found.
Answers(res, req) ==
    /\ req.addr = res.addr
    /\ req.id = NoId \/ req.id = res.author
    /\ ResponseMatchesRequest(res.kind, req.kind)

Matching(res) == Registered(res.tid) /\ Answers(res, requests[res.tid].request)

----------------------------------------------------------------------------
Init ==
    /\ call = [c \in Caller |-> NoCall]
    /\ inbox = [c \in Caller |-> Empty]
    /\ requests = [tid \in Tid |-> NoEntry]
    /\ queued = 0
    /\ outgoing = TRUE
    /\ incoming = [at |-> "recv", msg |-> Empty, listener |-> Nobody]
    /\ recv_queue = <<>>
    /\ main = "recv"
    /\ to_cleanup = 0              \* an interval's first tick is immediate
    /\ cleaning = TRUE
    /\ signalled = FALSE

(* A call.                                                                 *)

\* send_to, up to its await.  Builders draw tid at random and do not look
\* whether it is in use: the map's insert replaces an entry and drops it.
Register(c, tid, req) ==
    /\ call[c] = NoCall
    /\ call' = [call EXCEPT ![c] = [at |-> "queueing", tid |-> tid, request |-> req]]
    /\ requests' = [requests EXCEPT ![tid] = [request |-> req, age |-> 0, listener |-> c]]
    /\ UNCHANGED <<inbox, queued, outgoing, pathVars, to_cleanup, taskVars>>

\* Faulty variant: the queue to the outgoing task has no bound.
EnqueueUnbounded(c) ==
    /\ call[c] # NoCall /\ call[c].at = "queueing"
    /\ outgoing
    /\ queued' = queued + 1
    /\ call' = [call EXCEPT ![c].at = "waiting"]
    /\ UNCHANGED <<inbox, requests, outgoing, pathVars, to_cleanup, taskVars>>

Enqueue(c) ==
    /\ call[c] # NoCall /\ call[c].at = "queueing"
    /\ outgoing /\ queued < SendCap
    /\ queued' = queued + 1
    /\ call' = [call EXCEPT ![c].at = "waiting"]
    /\ UNCHANGED <<inbox, requests, outgoing, pathVars, to_cleanup, taskVars>>

\* The call's future is over, and with it the receiver of its channel: what
\* was registered for it stays, but nobody listens.
EndCall(c) ==
    /\ call' = [call EXCEPT ![c] = NoCall]
    /\ inbox' = [inbox EXCEPT ![c] = Empty]
    /\ requests' = [tid \in Tid |->
                      IF Registered(tid) /\ requests[tid].listener = c
                        THEN [requests[tid] EXCEPT !.listener = Nobody]
                        ELSE requests[tid]]
    /\ incoming' = IF incoming.listener = c THEN [incoming EXCEPT !.listener = Nobody]
                                            ELSE incoming
    /\ UNCHANGED <<queued, outgoing, recv_queue, main, to_cleanup, taskVars>>

\* send_to returns an error: the outgoing task is gone.
EnqueueFails(c) ==
    /\ call[c] # NoCall /\ call[c].at = "queueing"
    /\ ~outgoing
    /\ EndCall(c)

\* The answer: the responder and the nodes it names go to the routing storage
\* (NodeBucketStorage), its vote on our address to the IPv4 source.
HandleReply(c) ==
    /\ call[c] # NoCall /\ call[c].at = "waiting"
    /\ inbox[c] # Empty
    /\ EndCall(c)

\* Faulty variant: the call looks for its transaction id, which may be in use
\* again, and not for its channel's sender.
TidCleanedUp(c) ==
    /\ call[c] # NoCall /\ call[c].at = "waiting"
    /\ inbox[c] = Empty
    /\ ~Registered(call[c].tid)
    /\ EndCall(c)

\* "Response channel was cleaned up while we were waiting": TimeoutError.
ChannelCleanedUp(c) ==
    /\ call[c] # NoCall /\ call[c].at = "waiting"
    /\ inbox[c] = Empty
    /\ ~Listening(c) /\ ~BeingNotified(c)
    /\ EndCall(c)

\* A timeout around the call, or the user, drops its future.
Abandon(c) ==
    /\ call[c] # NoCall
    /\ EndCall(c)

----------------------------------------------------------------------------
(* The socket's tasks.                                                     *)

\* background_io_outgoing_single; a conntrack error loses the message, too.
SendDatagram ==
    /\ outgoing /\ queued > 0
    /\ queued' = queued - 1
    /\ UNCHANGED <<callVars, outgoing, pathVars, to_cleanup, taskVars>>

\* Any other error of the socket or of to_bytes ends the task and its queue.
OutgoingFails ==
    /\ outgoing /\ queued > 0
    /\ outgoing' = FALSE
    /\ queued' = 0
    /\ UNCHANGED <<callVars, pathVars, to_cleanup, taskVars>>

\* Faulty variants: the entry of an answered request stays; an answer with
\* the right transaction id removes the entry before it is compared with it.
TakenKept(res) == requests
TakenUnseen(res) == [requests EXCEPT ![res.tid] = NoEntry]

\* take_matching_request_info: what is left of the storage.
Taken(res) == IF Matching(res) THEN [requests EXCEPT ![res.tid] = NoEntry] ELSE requests

\* background_io_incoming_single, a response: without a match it is dropped.
ReceiveResponse(res) ==
    /\ incoming.at = "recv"
    /\ requests' = Taken(res)
    /\ incoming' = IF Matching(res)
                     THEN [at |-> "notify", msg |-> res,
                           listener |-> requests[res.tid].listener]
                     ELSE incoming
    /\ UNCHANGED <<call, inbox, queued, outgoing, recv_queue, main, to_cleanup, taskVars>>

ReceiveOther(p) ==
    /\ incoming.at = "recv"
    /\ incoming' = [at |-> "forward", msg |-> p, listener |-> Nobody]
    /\ UNCHANGED <<callVars, queued, outgoing, recv_queue, main, to_cleanup, taskVars>>

\* response_channel.send waits for room, fails when the receiver is gone.
Notify ==
    /\ incoming.at = "notify"
    /\ \/ incoming.listener = Nobody /\ UNCHANGED inbox
       \/ /\ incoming.listener # Nobody
          /\ inbox[incoming.listener] = Empty
          /\ inbox' = [inbox EXCEPT ![incoming.listener] = incoming.msg]
    /\ incoming' = [incoming EXCEPT !.at = "forward", !.listener = Nobody]
    /\ UNCHANGED <<call, requests, queued, outgoing, recv_queue, main, to_cleanup, taskVars>>

Forward ==
    /\ incoming.at = "forward"
    /\ Len(recv_queue) < RecvCap
    /\ recv_queue' = Append(recv_queue, incoming.msg)
    /\ incoming' = [at |-> "recv", msg |-> Empty, listener |-> Nobody]
    /\ UNCHANGED <<callVars, queued, outgoing, main, to_cleanup, taskVars>>

\* An error of the socket, other than a packet that does not parse.
IncomingFails ==
    /\ incoming.at = "recv"
    /\ incoming' = [incoming EXCEPT !.at = "dead"]
    /\ UNCHANGED <<callVars, queued, outgoing, recv_queue, main, to_cleanup, taskVars>>

\* prune_older_than's retain.
Stale(entry) == entry.age > Period

Cleanup ==
    /\ cleaning /\ to_cleanup = 0
    /\ requests' = [tid \in Tid |->
                      IF Registered(tid) /\ Stale(requests[tid]) THEN NoEntry
                                                                 ELSE requests[tid]]
    /\ to_cleanup' = Period
    /\ UNCHANGED <<call, inbox, queued, outgoing, pathVars, taskVars>>

\* Time passes; the cleanup task is not late by a whole tick.  When it is gone
\* nobody looks at ages any more.
Tick ==
    /\ cleaning /\ to_cleanup > 0
    /\ to_cleanup' = to_cleanup - 1
    /\ requests' = [tid \in Tid |->
                      IF Registered(tid) THEN [requests[tid] EXCEPT !.age = @ + 1]
                                         ELSE NoEntry]
    /\ UNCHANGED <<call, inbox, queued, outgoing, pathVars, taskVars>>

----------------------------------------------------------------------------
(* The DHT's loop over incoming packets.                                   *)

\* A packet may be dropped (throttled, from port 0, without an id).  A request
\* is answered first, unless we are read-only or do not support it.
TakePacket ==
    /\ main = "recv"
    /\ recv_queue # <<>>
    /\ recv_queue' = Tail(recv_queue)
    /\ \/ UNCHANGED main
       \/ Head(recv_queue) = Query /\ main' = "reply"
       \/ main' = "publish"
    /\ UNCHANGED <<callVars, queued, outgoing, incoming, to_cleanup, taskVars>>

\* Faulty variant: the loop does not learn that the outgoing task is gone.
ReplyUnaware ==
    /\ main = "reply"
    /\ outgoing /\ queued < SendCap
    /\ queued' = queued + 1
    /\ main' = "publish"
    /\ UNCHANGED <<callVars, outgoing, incoming, recv_queue, to_cleanup, taskVars>>

\* send_to with a response: no entry, but the same queue; its error ends the
\* event loop.
Reply ==
    /\ main = "reply"
    /\ \/ /\ outgoing /\ queued < SendCap
          /\ queued' = queued + 1
          /\ main' = "publish"
       \/ /\ ~outgoing
          /\ main' = "ended"
          /\ UNCHANGED queued
    /\ UNCHANGED <<callVars, outgoing, incoming, recv_queue, to_cleanup, taskVars>>

\* send_packet_to_subscribers
Publish ==
    /\ main = "publish"
    /\ main' = "recv"
    /\ UNCHANGED <<callVars, queued, outgoing, incoming, recv_queue, to_cleanup, taskVars>>

\* recv_from finds its channel closed.
RecvFails ==
    /\ main = "recv"
    /\ recv_queue = <<>> /\ incoming.at = "dead"
    /\ main' = "ended"
    /\ UNCHANGED <<callVars, queued, outgoing, incoming, recv_queue, to_cleanup, taskVars>>

----------------------------------------------------------------------------
(* Shutdown: whatever runs under the signal is dropped where it stands,    *)
(* each task in its own time.  send_request looks at no signal.            *)

Signal ==
    /\ ~signalled
    /\ signalled' = TRUE
    /\ UNCHANGED <<callVars, queued, outgoing, pathVars, to_cleanup, cleaning>>

OutgoingStops ==
    /\ signalled /\ outgoing
    /\ outgoing' = FALSE
    /\ queued' = 0
    /\ UNCHANGED <<callVars, pathVars, to_cleanup, taskVars>>

\* The sender in the task's hands, if any, is dropped with it.
IncomingStops ==
    /\ signalled /\ incoming.at # "dead"
    /\ incoming' = [at |-> "dead", msg |-> Empty, listener |-> Nobody]
    /\ UNCHANGED <<callVars, queued, outgoing, recv_queue, main, to_cleanup, taskVars>>

\* Nobody prunes from here on, and the storage outlives its tasks.
CleanupStops ==
    /\ signalled /\ cleaning
    /\ cleaning' = FALSE
    /\ UNCHANGED <<callVars, queued, outgoing, pathVars, to_cleanup, signalled>>

\* run_event_loop returns, and drops accept_incoming_packets.
LoopStops ==
    /\ signalled /\ main # "ended"
    /\ main' = "ended"
    /\ UNCHANGED <<callVars, queued, outgoing, incoming, recv_queue, to_cleanup, taskVars>>

\* spawn_with_shutdown drops the call.
CallStops(c) ==
    /\ signalled /\ c \in Spawned
    /\ call[c] # NoCall
    /\ EndCall(c)

TaskStops == OutgoingStops \/ IncomingStops \/ CleanupStops \/ LoopStops

CallStep(c) == EnqueueFails(c) \/ HandleReply(c) \/ ChannelCleanedUp(c)
MainStep == TakePacket \/ Reply \/ Publish \/ RecvFails
IncomingStep == Notify \/ Forward

Next ==
    \/ \E c \in Caller, tid \in Tid, req \in Request : Register(c, tid, req)
    \/ \E c \in Caller : Enqueue(c) \/ CallStep(c) \/ Abandon(c) \/ CallStops(c)
    \/ SendDatagram \/ OutgoingFails
    \/ \E res \in Response : ReceiveResponse(res)
    \/ \E p \in {Query, ErrorMsg} : ReceiveOther(p)
    \/ IncomingStep \/ IncomingFails
    \/ MainStep
    \/ Cleanup \/ Tick
    \/ Signal \/ TaskStops

\* The runtime polls every task that can go on, and time passes.  tokio hands
\* the room in a channel to its waiters in turn, hence the strong fairness of
\* those that wait for room in send_to_tx.  A task that has been signalled is
\* woken and dropped; cleanup and clock run until then.  Nothing obliges a
\* caller to call or to give up, the user to shut down, the network to deliver,
\* or the socket to fail.
Fairness ==
    /\ \A c \in Caller : /\ SF_vars(Enqueue(c)) /\ WF_vars(CallStep(c))
                         /\ WF_vars(CallStops(c))
    /\ WF_vars(SendDatagram) /\ WF_vars(IncomingStep)
    /\ WF_vars(MainStep) /\ SF_vars(Reply)
    /\ WF_vars(Cleanup) /\ WF_vars(Tick)
    /\ WF_vars(OutgoingStops) /\ WF_vars(IncomingStops)
    /\ WF_vars(CleanupStops) /\ WF_vars(LoopStops)

Spec == Init /\ [][Next]_vars /\ Fairness
----------------------------------------------------------------------------
(* Properties.                                                             *)

\* Also: a queue keeps to its capacity, an entry lives two periods at most
\* (it is at most one period old at the first cleanup that sees it).
TypeOK ==
    /\ call \in [Caller -> Call \cup {NoCall}]
    /\ inbox \in [Caller -> Response \cup {Empty}]
    /\ requests \in [Tid -> Entry \cup {NoEntry}]
    /\ queued \in 0 .. SendCap
    /\ outgoing \in BOOLEAN
    /\ incoming \in [at : {"recv", "notify", "forward", "dead"},
                     msg : Packet \cup {Empty}, listener : Caller \cup {Nobody}]
    /\ recv_queue \in Seq(Packet) /\ Len(recv_queue) <= RecvCap
    /\ main \in {"recv", "reply", "publish", "ended"}
    /\ to_cleanup \in 0 .. Period
    /\ cleaning \in BOOLEAN /\ signalled \in BOOLEAN

\* What reaches a call is an answer to what that very call asked, of the node
\* it asked, however transaction ids repeat and answers stray (the DHT relies
\* on it: dht.rs:807-809).
RepliesBelong ==
    \A c \in Caller : inbox[c] # Empty =>
        /\ call[c] # NoCall
        /\ inbox[c].tid = call[c].tid
        /\ inbox[c].addr = call[c].request.addr
        /\ call[c].request.id \in {NoId, inbox[c].author}
        /\ ResponseMatchesRequest(inbox[c].kind, call[c].request.kind)

\* The incoming task never waits for room in a call's channel, although it
\* stops receiving while it does: a call is notified once (socket.rs:190-196).
NotifyNeverWaits == \A c \in Caller : BeingNotified(c) => inbox[c] = Empty

\* In this step c goes on but loses the entry it listens to.
LosesEntry(c, tid) ==
    /\ Registered(tid) /\ requests[tid].listener = c
    /\ call'[c] # NoCall
    /\ requests'[tid] = NoEntry \/ requests'[tid].listener # c

\* A call that goes on loses its entry only to an answer to what it asked, to
\* age, or to a call that drew the same transaction id: no stray packet can
\* make it time out (outbound_request_storage.rs:35-83).
KeepsListening ==
    [][\A c \in Caller, tid \in Tid : LosesEntry(c, tid) =>
         \/ /\ incoming'.at = "notify" /\ incoming'.listener = c
            /\ Answers(incoming'.msg, call[c].request)
         \/ requests[tid].age > Period
         \/ \E d \in Caller : call[d] = NoCall /\ call'[d] # NoCall /\ call'[d].tid = tid]_vars

\* While nobody shuts the DHT down every call ends, also one without a timeout
\* that nobody answers: its entry is pruned and that closes its channel
\* (dht.rs:862, socket.rs:223-233).  The DHT's own calls end at the signal; a
\* user's that waits then may wait for ever, as its entry is no longer pruned
\* and dht.rs:243-252 awaits neither a timeout nor the signal.
CallsEnd ==
    \A c \in Caller :
        call[c] # NoCall ~> call[c] = NoCall \/ (signalled /\ c \notin Spawned)

\* The chain of bounded queues never locks up: the incoming task that waits
\* for the main loop, which waits for the outgoing task, goes on, or the loop
\* has ended, with an error or by the signal (socket.rs:25-53, dht.rs:280-322).
ReceiveGoesOn ==
    incoming.at \in {"notify", "forward"} ~> incoming.at = "recv" \/ main = "ended"
============================================================================
