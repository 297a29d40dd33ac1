-------------------------- MODULE Requests_proofs --------------------------
(***************************************************************************)
(* Theorems about Requests, for any number of callers and transaction ids, *)
(* any requests and answers, period and capacities.                        *)
(*                                                                         *)
(* The invariants of the runs are about what has reached a call's channel. *)
(* To be inductive they need the same of what is on its way there: an      *)
(* entry of the storage belongs to the call that listens to it, and so     *)
(* does the answer the incoming task holds; and of the three places from   *)
(* which a call can still be notified (entry, incoming task, channel) at   *)
(* most one is in use.                                                     *)
(***************************************************************************)
EXTENDS Requests, TLAPS

\* An entry that is listened to is the listener's current question.
EntriesBelong ==
    \A tid \in Tid : \A c \in Caller :
        Registered(tid) /\ requests[tid].listener = c =>
            /\ call[c] # NoCall
            /\ call[c].tid = tid
            /\ call[c].request = requests[tid].request

\* So is what the answer in the incoming task's hands was matched with.
AnswerBelongs ==
    /\ incoming.at = "notify" =>
         /\ incoming.msg \in Response
         /\ \A c \in Caller : incoming.listener = c =>
              /\ call[c] # NoCall
              /\ call[c].tid = incoming.msg.tid
              /\ Answers(incoming.msg, call[c].request)
    /\ incoming.at = "forward" => incoming.msg \in Packet
    /\ incoming.at # "notify" => incoming.listener = Nobody

\* And so is what has reached a call's channel.
InboxAnswers ==
    \A c \in Caller : inbox[c] # Empty =>
        /\ call[c] # NoCall
        /\ inbox[c].tid = call[c].tid
        /\ Answers(inbox[c], call[c].request)

\* A call is notified from one place at most.
OneSender ==
    \A c \in Caller :
        /\ inbox[c] # Empty => ~Listening(c) /\ ~BeingNotified(c)
        /\ BeingNotified(c) => ~Listening(c)

\* An entry is gone when it is two periods old.
AgesBounded ==
    \A tid \in Tid : Registered(tid) => requests[tid].age + to_cleanup <= 2 * Period

RInv == /\ TypeOK
        /\ EntriesBelong
        /\ AnswerBelongs
        /\ InboxAnswers
        /\ OneSender
        /\ AgesBounded

USE RequestsAssumption, SentinelsAssumption

----------------------------------------------------------------------------
LEMMA RequestsInit == Init => RInv
<1> SUFFICES ASSUME Init
             PROVE  RInv
    OBVIOUS
<1>1. outgoing \in BOOLEAN /\ cleaning \in BOOLEAN /\ signalled \in BOOLEAN
    BY Zenon DEF Init
<1>2. /\ call = [c \in Caller |-> NoCall] /\ inbox = [c \in Caller |-> Empty]
      /\ requests = [tid \in Tid |-> NoEntry] /\ queued = 0 /\ to_cleanup = 0
      /\ incoming = [at |-> "recv", msg |-> Empty, listener |-> Nobody]
      /\ recv_queue = <<>> /\ main = "recv"
    BY DEF Init
<1>3. TypeOK
    BY <1>1, <1>2 DEF TypeOK, Packet
<1> QED
    BY <1>2, <1>3 DEF RInv, EntriesBelong, AnswerBelongs, InboxAnswers, OneSender,
                      AgesBounded, Registered, Listening, BeingNotified

\* Registering a question replaces whatever entry had its transaction id.
LEMMA RegisterInv ==
    ASSUME RInv, NEW c \in Caller, NEW tid \in Tid, NEW req \in Request,
           Register(c, tid, req)
    PROVE  RInv'
<1> DEFINE e == [request |-> req, age |-> 0, listener |-> c]
           k == [at |-> "queueing", tid |-> tid, request |-> req]
<1>1. e \in Entry /\ k \in Call
    BY DEF Entry, Call
<1>2. /\ call[c] = NoCall /\ call' = [call EXCEPT ![c] = k]
      /\ requests' = [requests EXCEPT ![tid] = e]
      /\ UNCHANGED <<inbox, incoming, to_cleanup>>
    BY DEF Register, pathVars
<1> HIDE DEF e, k
<1>3. TypeOK'
    BY <1>1, <1>2 DEF taskVars, RInv, TypeOK, Register, pathVars
<1>4. e # NoEntry /\ k # NoCall
    BY <1>1
<1>5. \A d \in Caller : d # c => call'[d] = call[d]
    BY <1>2 DEF RInv, TypeOK
<1>6. call'[c] = k /\ k.tid = tid /\ k.request = req
    BY <1>2 DEF RInv, TypeOK, k
<1>7. requests'[tid] = e /\ e.listener = c /\ e.request = req /\ e.age = 0
    BY <1>2 DEF RInv, TypeOK, e
<1>8. \A t \in Tid : t # tid => requests'[t] = requests[t]
    BY <1>2 DEF RInv, TypeOK
<1>9. EntriesBelong'
    <2> SUFFICES ASSUME NEW t \in Tid, NEW d \in Caller,
                        requests'[t] # NoEntry, requests'[t].listener = d
                 PROVE  call'[d] # NoCall /\ call'[d].tid = t
                        /\ call'[d].request = requests'[t].request
        BY DEF EntriesBelong, Registered
    <2>1. CASE t = tid
        BY <2>1, <1>4, <1>6, <1>7
    <2>2. CASE t # tid
        BY <2>2, <1>2, <1>5, <1>8 DEF RInv, EntriesBelong, Registered
    <2> QED
        BY <2>1, <2>2
<1>10. AnswerBelongs'
    BY <1>2, <1>5 DEF RInv, AnswerBelongs
<1>11. inbox[c] = Empty /\ ~BeingNotified(c)
    BY <1>2 DEF RInv, InboxAnswers, AnswerBelongs, BeingNotified
<1>12. InboxAnswers'
    BY <1>2, <1>5, <1>11 DEF RInv, InboxAnswers
<1>13. \A d \in Caller : d # c => (Listening(d)' => Listening(d))
    BY <1>7, <1>8 DEF Listening, Registered
<1>14. OneSender'
    BY <1>2, <1>11, <1>13 DEF RInv, OneSender, BeingNotified
<1>15. AgesBounded'
    BY <1>2, <1>7, <1>8 DEF RInv, AgesBounded, TypeOK, Registered
<1> QED
    BY <1>3, <1>9, <1>10, <1>12, <1>14, <1>15 DEF RInv

\* What a call leaves behind when it ends is nobody's.
LEMMA EndCallInv ==
    ASSUME RInv, NEW c \in Caller, EndCall(c)
    PROVE  RInv'
<1> DEFINE quiet(t) == IF Registered(t) /\ requests[t].listener = c
                         THEN [requests[t] EXCEPT !.listener = Nobody] ELSE requests[t]
<1>1. /\ call' = [call EXCEPT ![c] = NoCall]
      /\ inbox' = [inbox EXCEPT ![c] = Empty]
      /\ incoming' = IF incoming.listener = c THEN [incoming EXCEPT !.listener = Nobody]
                                              ELSE incoming
      /\ UNCHANGED to_cleanup
    BY DEF EndCall
<1>2. \A t \in Tid : requests'[t] = quiet(t)
    BY DEF EndCall
<1>3. ASSUME NEW t \in Tid
      PROVE  /\ requests'[t] \in Entry \cup {NoEntry}
             /\ Registered(t)' <=> Registered(t)
             /\ Registered(t) => /\ requests'[t].request = requests[t].request
                                 /\ requests'[t].age = requests[t].age
                                 /\ \/ /\ requests'[t].listener = requests[t].listener
                                       /\ requests'[t].listener # c
                                    \/ requests'[t].listener = Nobody
    <2>1. requests[t] \in Entry \cup {NoEntry} /\ requests'[t] = quiet(t)
        BY <1>2 DEF RInv, TypeOK
    <2>2. CASE Registered(t) /\ requests[t].listener = c
        <3>1. requests'[t] = [requests[t] EXCEPT !.listener = Nobody]
            BY <2>1, <2>2
        <3>2. requests[t] \in Entry
            BY <2>1, <2>2 DEF Registered
        <3>3. /\ requests'[t] \in Entry /\ requests'[t].listener = Nobody
              /\ requests'[t].request = requests[t].request
              /\ requests'[t].age = requests[t].age
            BY <3>1, <3>2 DEF Entry
        <3> QED
            BY <3>3, <2>2 DEF Registered
    <2>3. CASE ~(Registered(t) /\ requests[t].listener = c)
        BY <2>1, <2>3 DEF Registered
    <2> QED
        BY <2>2, <2>3
<1>4. /\ incoming'.at = incoming.at /\ incoming'.msg = incoming.msg
      /\ incoming'.listener # c
      /\ incoming'.listener = incoming.listener \/ incoming'.listener = Nobody
    BY <1>1 DEF RInv, TypeOK
<1>5. requests' \in [Tid -> Entry \cup {NoEntry}]
    <2>1. requests' = [t \in Tid |-> quiet(t)]
        BY DEF EndCall
    <2> QED
        BY <2>1, <1>3
<1>6. TypeOK'
    BY <1>1, <1>5 DEF taskVars, RInv, TypeOK, EndCall
<1>7. /\ call'[c] = NoCall /\ inbox'[c] = Empty
      /\ \A d \in Caller : d # c => call'[d] = call[d] /\ inbox'[d] = inbox[d]
    BY <1>1 DEF RInv, TypeOK
<1>8. EntriesBelong'
    BY <1>3, <1>7 DEF RInv, EntriesBelong
<1>9. AnswerBelongs'
    BY <1>4, <1>7 DEF RInv, AnswerBelongs
<1>10. InboxAnswers'
    BY <1>7 DEF RInv, InboxAnswers
<1>11. \A d \in Caller : /\ Listening(d)' => Listening(d)
                         /\ BeingNotified(d)' => BeingNotified(d)
    BY <1>3, <1>4 DEF Listening, BeingNotified
<1>12. OneSender'
    BY <1>7, <1>11 DEF RInv, OneSender
<1>13. AgesBounded'
    BY <1>1, <1>3 DEF RInv, AgesBounded
<1> QED
    BY <1>6, <1>8, <1>9, <1>10, <1>12, <1>13 DEF RInv

\* Steps that leave calls, entries and channels alone.
LEMMA ElsewhereInv ==
    ASSUME RInv, UNCHANGED <<callVars, to_cleanup>>,
           incoming'.at # "notify", incoming'.listener = Nobody,
           incoming'.at = "forward" => incoming'.msg \in Packet,
           TypeOK'
    PROVE  RInv'
<1>1. \A c \in Caller : (Listening(c)' <=> Listening(c)) /\ ~BeingNotified(c)'
    BY DEF callVars, Listening, BeingNotified, Registered
<1> QED
    BY <1>1 DEF RInv, callVars, EntriesBelong, AnswerBelongs, InboxAnswers, OneSender,
                AgesBounded, Registered

\* Taking an entry out hands its listener from the storage to the task.
LEMMA ReceiveResponseInv ==
    ASSUME RInv, NEW res \in Response, ReceiveResponse(res)
    PROVE  RInv'
<1>1. CASE ~Matching(res)
    <2>1. UNCHANGED <<callVars, to_cleanup, incoming>> /\ TypeOK'
        BY <1>1 DEF taskVars, ReceiveResponse, Taken, callVars, RInv, TypeOK
    <2> QED
        BY <2>1, ElsewhereInv DEF RInv, AnswerBelongs, ReceiveResponse
<1>2. CASE Matching(res)
    <2> DEFINE l == requests[res.tid].listener
    <2>1. res.tid \in Tid /\ requests[res.tid] \in Entry
        BY <1>2 DEF Matching, Registered, RInv, TypeOK
    <2>2. l \in Caller \cup {Nobody}
        BY <2>1 DEF Entry
    <2>3. /\ requests' = [requests EXCEPT ![res.tid] = NoEntry]
          /\ incoming' = [at |-> "notify", msg |-> res, listener |-> l]
          /\ UNCHANGED <<call, inbox, to_cleanup>>
        BY <1>2 DEF ReceiveResponse, Taken
    <2>4. incoming'.at = "notify" /\ incoming'.msg = res /\ incoming'.listener = l
        BY <2>3
    <2>5. TypeOK'
        BY <2>2, <2>3 DEF taskVars, RInv, TypeOK, ReceiveResponse, Packet
    <2>6. ~Registered(res.tid)' /\ \A t \in Tid : t # res.tid => requests'[t] = requests[t]
        BY <2>1, <2>3 DEF RInv, TypeOK, Registered
    <2>7. EntriesBelong'
        BY <2>3, <2>6 DEF RInv, EntriesBelong, Registered
    <2>8. AnswerBelongs'
        BY <1>2, <2>1, <2>3, <2>4 DEF RInv, AnswerBelongs, EntriesBelong, Matching
    <2>9. InboxAnswers'
        BY <2>3 DEF RInv, InboxAnswers
    <2>10. \A c \in Caller : Listening(c)' => Listening(c)
        BY <2>6 DEF Listening, Registered
    <2>11. \A c \in Caller : BeingNotified(c)' => Listening(c) /\ ~Listening(c)'
        <3> SUFFICES ASSUME NEW c \in Caller, l = c
                     PROVE  Listening(c) /\ ~Listening(c)'
            BY <2>4 DEF BeingNotified
        <3>1. Registered(res.tid) /\ Listening(c) /\ call[c].tid = res.tid
            BY <1>2, <2>1 DEF Matching, Listening, RInv, EntriesBelong
        <3> QED
            BY <3>1, <2>6 DEF Listening, RInv, EntriesBelong, Registered
    <2>12. OneSender'
        BY <2>3, <2>10, <2>11 DEF RInv, OneSender
    <2>13. AgesBounded'
        BY <2>3, <2>6 DEF RInv, AgesBounded, Registered
    <2> QED
        BY <2>5, <2>7, <2>8, <2>9, <2>12, <2>13 DEF RInv
<1> QED
    BY <1>1, <1>2

LEMMA NotifyInv == ASSUME RInv, Notify PROVE RInv'
<1>1. /\ incoming.at = "notify" /\ incoming.msg \in Response
      /\ incoming'.at = "forward" /\ incoming'.msg = incoming.msg
      /\ incoming'.listener = Nobody
      /\ UNCHANGED <<call, requests, to_cleanup>>
    BY DEF Notify, RInv, AnswerBelongs, TypeOK
<1>2. incoming' \in [at : {"recv", "notify", "forward", "dead"},
                     msg : Packet \cup {Empty}, listener : Caller \cup {Nobody}]
    BY DEF Notify, RInv, TypeOK
<1>3. \A c \in Caller : (Listening(c)' <=> Listening(c)) /\ ~BeingNotified(c)'
    BY <1>1 DEF Listening, BeingNotified, Registered
<1>4. CASE incoming.listener = Nobody
    <2>1. TypeOK' /\ UNCHANGED inbox
        BY <1>2, <1>4 DEF taskVars, Notify, RInv, TypeOK
    <2> QED
        BY <1>1, <2>1, ElsewhereInv DEF callVars, Packet
<1>5. CASE incoming.listener # Nobody
    <2> DEFINE c == incoming.listener
    <2>1. c \in Caller /\ inbox' = [inbox EXCEPT ![c] = incoming.msg]
        BY <1>5 DEF Notify, RInv, TypeOK
    <2>2. TypeOK'
        BY <1>1, <1>2, <2>1 DEF taskVars, Notify, RInv, TypeOK
    <2>3. inbox'[c] = incoming.msg /\ \A d \in Caller : d # c => inbox'[d] = inbox[d]
        BY <2>1 DEF RInv, TypeOK
    <2>4. InboxAnswers'
        BY <1>1, <2>1, <2>3 DEF RInv, InboxAnswers, AnswerBelongs
    <2>5. BeingNotified(c)
        BY <1>1 DEF BeingNotified
    <2>6. OneSender'
        BY <1>3, <2>1, <2>3, <2>5 DEF RInv, OneSender
    <2> QED
        BY <1>1, <2>2, <2>4, <2>6 DEF RInv, EntriesBelong, AnswerBelongs, AgesBounded,
                                      Registered, Packet
<1> QED
    BY <1>4, <1>5

\* Entries only grow older or go.
LEMMA AgeingInv ==
    ASSUME RInv, UNCHANGED <<call, inbox, incoming>>, TypeOK', AgesBounded',
           \A t \in Tid : \/ requests'[t] = NoEntry
                          \/ /\ Registered(t)
                             /\ requests'[t].request = requests[t].request
                             /\ requests'[t].listener = requests[t].listener
    PROVE  RInv'
<1>1. \A c \in Caller : /\ Listening(c)' => Listening(c)
                        /\ BeingNotified(c)' <=> BeingNotified(c)
    BY DEF Listening, BeingNotified, Registered
<1> QED
    BY <1>1 DEF RInv, EntriesBelong, AnswerBelongs, InboxAnswers, OneSender, Registered

LEMMA CleanupInv == ASSUME RInv, Cleanup PROVE RInv'
<1>1. ASSUME NEW t \in Tid
      PROVE  /\ requests'[t] = NoEntry \/ requests'[t] = requests[t]
             /\ requests'[t] # NoEntry => requests[t].age <= Period
    <2>1. requests'[t] = IF Registered(t) /\ Stale(requests[t]) THEN NoEntry
                                                                ELSE requests[t]
        BY DEF Cleanup
    <2>2. Registered(t) => requests[t].age \in Nat
        BY DEF RInv, TypeOK, Entry, Registered
    <2> QED
        BY <2>1, <2>2 DEF Stale, Registered
<1>2. TypeOK'
    <2>1. requests' \in [Tid -> Entry \cup {NoEntry}]
        BY DEF Cleanup, RInv, TypeOK
    <2> QED
        BY <2>1 DEF taskVars, Cleanup, RInv, TypeOK, pathVars
<1>3. AgesBounded'
    <2>1. \A t \in Tid : requests[t] # NoEntry => requests[t].age \in Nat
        BY DEF RInv, TypeOK, Entry
    <2> QED
        BY <1>1, <2>1 DEF AgesBounded, Cleanup, Registered
<1> QED
    BY <1>1, <1>2, <1>3, AgeingInv DEF Cleanup, pathVars, Registered

LEMMA TickInv == ASSUME RInv, Tick PROVE RInv'
<1>1. /\ to_cleanup \in Nat /\ to_cleanup' = to_cleanup - 1
      /\ to_cleanup' \in 0 .. Period /\ to_cleanup' \in Nat
    BY DEF Tick, RInv, TypeOK
<1>2. ASSUME NEW t \in Tid, Registered(t)
      PROVE  /\ requests'[t].request = requests[t].request
             /\ requests'[t].listener = requests[t].listener
             /\ requests'[t].age + to_cleanup' <= 2 * Period
             /\ requests'[t] \in Entry
    <2>1. requests[t] \in Entry /\ requests[t].age + to_cleanup <= 2 * Period
        BY <1>2 DEF RInv, TypeOK, Registered, AgesBounded
    <2>2. requests'[t] = [requests[t] EXCEPT !.age = @ + 1]
        BY <1>2 DEF Tick
    <2>3. /\ requests'[t].request = requests[t].request
          /\ requests'[t].listener = requests[t].listener
          /\ requests'[t].age = requests[t].age + 1
        BY <2>1, <2>2 DEF Entry
    <2>4. requests[t].age \in Nat
        BY <2>1 DEF Entry
    <2>5. requests[t].age + 1 \in 0 .. 2 * Period
        BY <1>1, <2>1, <2>4
    <2> QED
        BY <1>1, <2>1, <2>2, <2>3, <2>4, <2>5 DEF Entry
<1>3. \A t \in Tid : ~Registered(t) => requests'[t] = NoEntry
    BY DEF Tick
<1>4. requests' \in [Tid -> Entry \cup {NoEntry}]
    <2> DEFINE older(t) == IF Registered(t) THEN [requests[t] EXCEPT !.age = @ + 1]
                                            ELSE NoEntry
    <2>1. requests' = [t \in Tid |-> older(t)]
        BY DEF Tick
    <2>2. \A t \in Tid : requests'[t] = older(t)
        BY <2>1
    <2> HIDE DEF older
    <2> QED
        BY <2>1, <2>2, <1>2, <1>3
<1>5. TypeOK'
    BY <1>1, <1>4 DEF taskVars, Tick, RInv, TypeOK, pathVars
<1>6. AgesBounded'
    BY <1>2, <1>3 DEF AgesBounded, Registered
<1> QED
    BY <1>2, <1>3, <1>5, <1>6, AgeingInv DEF Tick, pathVars

LEMMA PathInv ==
    ASSUME RInv,
           \/ \E c \in Caller : Enqueue(c)
           \/ SendDatagram \/ OutgoingFails
           \/ \E p \in {Query, ErrorMsg} : ReceiveOther(p)
           \/ Forward \/ IncomingFails \/ MainStep
           \/ Signal \/ TaskStops
    PROVE  RInv'
<1>1. ASSUME NEW c \in Caller, Enqueue(c)
      PROVE  RInv'
    <2>1. /\ call[c] \in Call /\ call' = [call EXCEPT ![c].at = "waiting"]
          /\ UNCHANGED <<inbox, requests, incoming, to_cleanup>>
        BY <1>1 DEF Enqueue, RInv, TypeOK, pathVars
    <2>2. TypeOK'
        BY <1>1, <2>1, SMTT(30) DEF taskVars, Enqueue, RInv, TypeOK, Call, pathVars
    <2>3. /\ call'[c] \in Call /\ call'[c].tid = call[c].tid
          /\ call'[c].request = call[c].request
          /\ \A d \in Caller : d # c => call'[d] = call[d]
        BY <2>1 DEF Call, RInv, TypeOK
    <2>4. \A d \in Caller : /\ Listening(d)' <=> Listening(d)
                            /\ BeingNotified(d)' <=> BeingNotified(d)
        BY <2>1 DEF Listening, BeingNotified, Registered
    <2> QED
        BY <2>1, <2>2, <2>3, <2>4 DEF RInv, EntriesBelong, AnswerBelongs, InboxAnswers,
                                      OneSender, AgesBounded, Registered
<1>2. CASE SendDatagram \/ OutgoingFails \/ OutgoingStops
    <2>1. UNCHANGED <<call, inbox, requests, incoming, recv_queue, main, to_cleanup, taskVars>>
        BY <1>2 DEF SendDatagram, OutgoingFails, OutgoingStops, callVars, pathVars
    <2>2. queued' \in 0 .. SendCap /\ outgoing' \in BOOLEAN
        <3>1. queued \in 0 .. SendCap /\ outgoing \in BOOLEAN
            BY DEF RInv, TypeOK
        <3>2. CASE SendDatagram
            BY <3>1, <3>2 DEF SendDatagram
        <3>3. CASE OutgoingFails \/ OutgoingStops
            <4>1. queued' = 0 /\ outgoing' = FALSE
                BY <3>3 DEF OutgoingFails, OutgoingStops
            <4>2. 0 \in 0 .. SendCap
                OBVIOUS
            <4> QED
                BY <4>1, <4>2
        <3> QED
            BY <1>2, <3>2, <3>3
    <2>3. TypeOK'
        BY <2>1, <2>2 DEF taskVars, RInv, TypeOK
    <2>4. \A c \in Caller : /\ Listening(c)' <=> Listening(c)
                            /\ BeingNotified(c)' <=> BeingNotified(c)
        BY <2>1 DEF Listening, BeingNotified, Registered
    <2> QED
        BY <2>1, <2>3, <2>4 DEF RInv, EntriesBelong, AnswerBelongs, InboxAnswers,
                                OneSender, AgesBounded, Registered
<1>3. CASE (\E p \in {Query, ErrorMsg} : ReceiveOther(p)) \/ IncomingFails \/ IncomingStops
    <2>1. /\ TypeOK' /\ UNCHANGED <<callVars, to_cleanup>>
          /\ incoming'.at # "notify" /\ incoming'.listener = Nobody
          /\ incoming'.at = "forward" => incoming'.msg \in Packet
        BY <1>3 DEF ReceiveOther, IncomingFails, IncomingStops, RInv, TypeOK, AnswerBelongs,
                    Packet, callVars, taskVars
    <2> QED
        BY <2>1, ElsewhereInv
<1>4. CASE Forward
    <2>1. recv_queue' \in Seq(Packet) /\ Len(recv_queue') <= RecvCap
        BY <1>4 DEF Forward, RInv, TypeOK, AnswerBelongs
    <2>2. /\ TypeOK' /\ UNCHANGED <<callVars, to_cleanup>>
          /\ incoming'.at = "recv" /\ incoming'.listener = Nobody
        BY <1>4, <2>1 DEF taskVars, Forward, RInv, TypeOK, callVars
    <2> QED
        BY <2>2, ElsewhereInv
<1>5. CASE MainStep \/ LoopStops \/ Signal \/ CleanupStops
    <2>1. UNCHANGED <<callVars, incoming, to_cleanup>>
        BY <1>5 DEF MainStep, TakePacket, Reply, Publish, RecvFails, LoopStops, Signal,
                    CleanupStops, callVars, pathVars
    <2>2. TypeOK'
        <3>1. CASE TakePacket
            <4>1. Head(recv_queue) \in Packet /\ Tail(recv_queue) \in Seq(Packet)
                  /\ Len(Tail(recv_queue)) <= RecvCap
                BY <3>1 DEF TakePacket, RInv, TypeOK
            <4> QED
                BY <3>1, <4>1 DEF taskVars, TakePacket, RInv, TypeOK, callVars, Packet
        <3>2. CASE Reply \/ Publish \/ RecvFails
            BY <3>2, SMTT(30) DEF taskVars, Reply, Publish, RecvFails, RInv, TypeOK, callVars
        <3>3. CASE LoopStops \/ Signal \/ CleanupStops
            <4>1. cleaning \in BOOLEAN /\ signalled \in BOOLEAN
                BY DEF RInv, TypeOK
            <4>2. cleaning' \in BOOLEAN /\ signalled' \in BOOLEAN
                BY <3>3, <4>1, Zenon DEF LoopStops, Signal, CleanupStops, taskVars
            <4>3. /\ main' = main \/ main' = "ended"
                  /\ UNCHANGED <<callVars, queued, outgoing, incoming, recv_queue, to_cleanup>>
                BY <3>3 DEF LoopStops, Signal, CleanupStops, pathVars
            <4> QED
                BY <4>2, <4>3 DEF RInv, TypeOK, callVars
        <3> QED
            BY <1>5, <3>1, <3>2, <3>3 DEF MainStep
    <2>3. \A c \in Caller : /\ Listening(c)' <=> Listening(c)
                            /\ BeingNotified(c)' <=> BeingNotified(c)
        BY <2>1 DEF callVars, Listening, BeingNotified, Registered
    <2> QED
        BY <2>1, <2>2, <2>3 DEF RInv, callVars, EntriesBelong, AnswerBelongs,
                                InboxAnswers, OneSender, AgesBounded, Registered
<1> QED
    BY <1>1, <1>2, <1>3, <1>4, <1>5 DEF TaskStops

LEMMA RequestsNext == RInv /\ [Next]_vars => RInv'
<1> SUFFICES ASSUME RInv, [Next]_vars
             PROVE  RInv'
    OBVIOUS
<1>1. ASSUME NEW c \in Caller, NEW tid \in Tid, NEW req \in Request, Register(c, tid, req)
      PROVE  RInv'
    BY <1>1, RegisterInv
<1>2. ASSUME NEW c \in Caller, CallStep(c) \/ Abandon(c) \/ CallStops(c)
      PROVE  RInv'
    BY <1>2, EndCallInv
       DEF CallStep, EnqueueFails, HandleReply, ChannelCleanedUp, Abandon, CallStops
<1>3. ASSUME NEW res \in Response, ReceiveResponse(res)
      PROVE  RInv'
    BY <1>3, ReceiveResponseInv
<1>4. CASE \/ \E c \in Caller : Enqueue(c)
           \/ SendDatagram \/ OutgoingFails
           \/ \E p \in {Query, ErrorMsg} : ReceiveOther(p)
           \/ Forward \/ IncomingFails \/ MainStep
           \/ Signal \/ TaskStops
    BY <1>4, PathInv
<1>5. CASE Notify
    BY <1>5, NotifyInv
<1>6. CASE Cleanup
    BY <1>6, CleanupInv
<1>7. CASE Tick
    BY <1>7, TickInv
<1>8. CASE UNCHANGED vars
    BY <1>8 DEF vars, RInv, TypeOK, EntriesBelong, AnswerBelongs, InboxAnswers,
                OneSender, AgesBounded, Registered, Listening, BeingNotified
<1> QED
    BY <1>1, <1>2, <1>3, <1>4, <1>5, <1>6, <1>7, <1>8 DEF Next, IncomingStep

----------------------------------------------------------------------------
(* What may cost a call its entry.                                         *)

Reason(c, tid) ==
    \/ /\ incoming'.at = "notify" /\ incoming'.listener = c
       /\ Answers(incoming'.msg, call[c].request)
    \/ requests[tid].age > Period
    \/ \E d \in Caller : call[d] = NoCall /\ call'[d] # NoCall /\ call'[d].tid = tid

LEMMA LossHasReason ==
    ASSUME RInv, [Next]_vars, NEW c \in Caller, NEW tid \in Tid, LosesEntry(c, tid)
    PROVE  Reason(c, tid)
<1>1. /\ requests[tid] \in Entry /\ requests[tid].listener = c /\ requests[tid] # NoEntry
      /\ call'[c] # NoCall
      /\ requests'[tid] = NoEntry \/ requests'[tid].listener # c
    BY DEF LosesEntry, Registered, RInv, TypeOK
<1>2. UNCHANGED requests => FALSE
    BY <1>1
<1>3. ASSUME NEW d \in Caller, NEW t \in Tid, NEW req \in Request, Register(d, t, req)
      PROVE  Reason(c, tid)
    <2> DEFINE k == [at |-> "queueing", tid |-> t, request |-> req]
    <2>1. k \in Call /\ call[d] = NoCall /\ call'[d] = k
        BY <1>3 DEF Register, Call, RInv, TypeOK
    <2>2. t = tid
        BY <1>1, <1>3 DEF Register, RInv, TypeOK
    <2> QED
        BY <2>1, <2>2 DEF Reason
<1>4. ASSUME NEW d \in Caller, EndCall(d)
      PROVE  Reason(c, tid)
    <2>1. d # c
        BY <1>1, <1>4 DEF EndCall, RInv, TypeOK
    <2>2. requests'[tid] = requests[tid]
        BY <1>1, <1>4, <2>1 DEF EndCall
    <2> QED
        BY <1>1, <2>2
<1>5. ASSUME NEW res \in Response, ReceiveResponse(res)
      PROVE  Reason(c, tid)
    <2>1. Matching(res) /\ res.tid = tid
        BY <1>1, <1>5 DEF ReceiveResponse, Taken, RInv, TypeOK
    <2>2. incoming' = [at |-> "notify", msg |-> res, listener |-> c]
        BY <1>1, <1>5, <2>1 DEF ReceiveResponse
    <2>3. Answers(res, call[c].request)
        BY <1>1, <2>1 DEF Matching, RInv, EntriesBelong
    <2> QED
        BY <2>2, <2>3 DEF Reason
<1>6. CASE Cleanup
    <2>1. Stale(requests[tid])
        BY <1>1, <1>6 DEF Cleanup
    <2> QED
        BY <2>1 DEF Stale, Reason
<1>7. CASE Tick
    <2>1. requests'[tid] = [requests[tid] EXCEPT !.age = @ + 1]
        BY <1>1, <1>7 DEF Tick, Registered
    <2>2. requests'[tid].listener = c /\ requests'[tid].age = requests[tid].age + 1
        BY <1>1, <2>1 DEF Entry
    <2>3. requests'[tid] = NoEntry
        BY <1>1, <2>2
    <2>4. requests[tid].age \in Nat /\ requests[tid].age + 1 <= 2 * Period
        BY <1>1, <1>7, SMTT(30) DEF Entry, Tick, RInv, TypeOK, AgesBounded, Registered
    <2>5. requests'[tid] \in Entry
        BY <1>1, <2>1, <2>4 DEF Entry
    <2> QED
        BY <2>3, <2>5
<1>8. ASSUME NEW d \in Caller, Enqueue(d)
      PROVE  Reason(c, tid)
    BY <1>2, <1>8 DEF Enqueue
<1>9. CASE \/ SendDatagram \/ OutgoingFails \/ Notify \/ Forward \/ IncomingFails
           \/ MainStep \/ Signal \/ TaskStops \/ UNCHANGED vars
           \/ \E p \in {Query, ErrorMsg} : ReceiveOther(p)
    <2>1. UNCHANGED requests
        BY <1>9 DEF SendDatagram, OutgoingFails, Notify, Forward, IncomingFails, MainStep,
                    TakePacket, Reply, Publish, RecvFails, ReceiveOther, Signal, TaskStops,
                    OutgoingStops, IncomingStops, CleanupStops, LoopStops, vars, callVars
    <2> QED
        BY <1>2, <2>1
<1> QED
    BY <1>3, <1>4, <1>5, <1>6, <1>7, <1>8, <1>9
       DEF Next, CallStep, EnqueueFails, HandleReply, ChannelCleanedUp, Abandon, CallStops,
           IncomingStep

----------------------------------------------------------------------------
\* The invariant behind the others holds in every reachable state.
THEOREM RequestsInvariant == Spec => []RInv
    BY RequestsInit, RequestsNext, PTL DEF Spec

\* Every reachable state is well typed; the queues keep to their capacities
\* and no entry is older than two periods.
THEOREM RequestsTypeCorrect == Spec => []TypeOK
<1>1. RInv => TypeOK
    BY DEF RInv
<1> QED
    BY <1>1, RequestsInvariant, PTL

\* A call only ever gets an answer to its own question from the node it asked.
THEOREM AnswersBelong == Spec => []RepliesBelong
<1>1. RInv => RepliesBelong
    BY DEF RInv, TypeOK, InboxAnswers, RepliesBelong, Answers
<1> QED
    BY <1>1, RequestsInvariant, PTL

\* The incoming task never waits on a call's notification channel.
THEOREM NeverWaitsToNotify == Spec => []NotifyNeverWaits
<1>1. RInv => NotifyNeverWaits
    BY DEF RInv, OneSender, NotifyNeverWaits
<1> QED
    BY <1>1, RequestsInvariant, PTL

\* A call goes on listening until it is answered, its entry is too old, or its
\* transaction id is drawn again.
THEOREM StaysAnswerable == Spec => KeepsListening
<1>1. RInv /\ [Next]_vars =>
        [\A c \in Caller, tid \in Tid : LosesEntry(c, tid) => Reason(c, tid)]_vars
    BY LossHasReason
<1> QED
    BY <1>1, RequestsInvariant, PTL DEF Spec, KeepsListening, Reason

============================================================================
