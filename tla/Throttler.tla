------------------------------ MODULE Throttler ------------------------------
(***************************************************************************)
(* Dropping packets of addresses that send too many: src/storage/          *)
(* throttler.rs, called for every packet the incoming loop takes           *)
(* (src/dht/dht.rs).  It keeps an array of N records; an unused record     *)
(* bears the address 127.0.0.1.  The incoming loop is its only caller, so  *)
(* a call is one action; it always passes None for now and count.          *)
(* log is the history of the calls on one Throttler, for the properties.   *)
(***************************************************************************)
EXTENDS Integers, Sequences, FiniteSets

CONSTANTS Ip,             \* addresses of senders
          Loopback,       \* 127.0.0.1
          N,              \* NUM_RECORDS, 32
          RateLimit,      \* the setting throttle_packet_count, 10
          Period,         \* throttle_period_secs, 6
          NaughtyTimeout, \* throttle_naughty_timeout_secs, 60
          MaxTracking,    \* throttle_max_tracking_secs, 86400
          NoIp,
          MaxTime,        \* bound on the clock
          MaxPackets      \* bound on the packets received

ASSUME ThrottlerAssumption ==
    /\ Loopback \in Ip /\ NoIp \notin Ip
    /\ N \in Nat \ {0}
    /\ RateLimit \in Nat
    /\ Period \in Nat /\ NaughtyTimeout \in Nat /\ MaxTracking \in Nat
    /\ MaxTime \in Nat /\ MaxPackets \in Nat

VARIABLES records,    \* the array
          log,        \* per packet: who sent it when, whether it was dropped,
                      \* and whose record it cost, if anybody's
          now

vars == <<records, log, now>>

Instants == 0 .. MaxTime

Index == 1 .. N

ThrottlerRecord == [ip : Ip, packets : Nat, expiration : Nat, creation_time : Instants]

Blank == [ip |-> Loopback, packets |-> 0, expiration |-> now, creation_time |-> now]

Found(ip) == {i \in Index : records[i].ip = ip}

First(S) == CHOOSE i \in S : \A j \in S : i <= j

\* Faulty variant: the record that expires first is lame, however many packets
\* it counts.
LamerByExpiration(r, s) == r.expiration < s.expiration

Lamer(r, s) ==
    \/ r.packets < s.packets
    \/ r.packets = s.packets /\ r.expiration < s.expiration

\* The record that a scan in order of the array ends up with.
Lamest == First({i \in Index : \A j \in Index : ~Lamer(records[j], records[i])})

\* Faulty variant: the count goes on after the period.
CountedOn(r) == [r EXCEPT !.packets = @ + 1]

\* A found record, once it counts the packet.  The count saturates at
\* usize::MAX, which MaxPackets is below.
Counted(r) ==
    IF now < r.expiration THEN [r EXCEPT !.packets = @ + 1]
                          ELSE [r EXCEPT !.packets = 1, !.expiration = now + Period]

\* Faulty variant: a packet too many is let through.
ThrottledLate(r) == r.packets > RateLimit + 1

Throttled(r) == r.packets > RateLimit

\* Faulty variant: a blocked address that goes on sending is not blocked anew.
JudgedByPeriod(r) == IF Throttled(r) THEN [r EXCEPT !.expiration = now + Period] ELSE r

Judged(r) == IF Throttled(r) THEN [r EXCEPT !.expiration = now + NaughtyTimeout] ELSE r

\* Faulty variant: a blank record is taken before the address is looked for.
UnknownOrRoom(ip) == Found(ip) = {} \/ Found(Loopback) # {}

Unknown(ip) == Found(ip) = {}

Logged(ip, dropped, forgets) ==
    log' = Append(log, [ip |-> ip, at |-> now, dropped |-> dropped, forgets |-> forgets])

----------------------------------------------------------------------------
Init ==
    /\ now = 0
    /\ records = [i \in Index |-> Blank]
    /\ log = <<>>

\* The record has been kept for too long; the packet is not counted.
TrackedTooLong(ip) ==
    /\ Found(ip) # {}
    /\ LET i == First(Found(ip))
       IN  /\ now - records[i].creation_time > MaxTracking
           /\ records' = [records EXCEPT ![i] = Blank]
    /\ Logged(ip, FALSE, ip)

Known(ip) ==
    /\ ~Unknown(ip)
    /\ LET i == First(Found(ip))
           r == Counted(records[i])
       IN  /\ now - records[i].creation_time <= MaxTracking
           /\ records' = [records EXCEPT ![i] = Judged(r)]
           /\ Logged(ip, Throttled(r), NoIp)

Newcomer(ip) ==
    /\ Unknown(ip)
    /\ LET r == [ip |-> ip, packets |-> 1, expiration |-> now + Period, creation_time |-> now]
       IN  /\ records' = [records EXCEPT ![Lamest] = Judged(r)]
           /\ Logged(ip, Throttled(r), records[Lamest].ip)

CheckThrottle(ip) ==
    /\ Len(log) < MaxPackets
    /\ TrackedTooLong(ip) \/ Known(ip) \/ Newcomer(ip)
    /\ UNCHANGED now

\* run_event_loop ended with an error and is called again.
Restart ==
    /\ records' = [i \in Index |-> Blank]
    /\ log' = <<>>
    /\ UNCHANGED now

Tick ==
    /\ now < MaxTime
    /\ now' = now + 1
    /\ UNCHANGED <<records, log>>

Next ==
    \/ \E ip \in Ip : CheckThrottle(ip)
    \/ Restart
    \/ Tick

Spec == Init /\ [][Next]_vars

----------------------------------------------------------------------------
(* Properties.                                                             *)

Packet == [ip : Ip, at : Instants, dropped : BOOLEAN, forgets : Ip \cup {NoIp}]

\* Also: an address has one record, but for the one that marks blank records.
TypeOK ==
    /\ now \in Instants
    /\ records \in [Index -> ThrottlerRecord]
    /\ \A i, j \in Index : records[i].ip = records[j].ip => i = j \/ records[i].ip = Loopback
    /\ \A i \in Index : records[i].creation_time <= now
    /\ log \in Seq(Packet) /\ Len(log) <= MaxPackets
    /\ \A k \in DOMAIN log : log[k].at <= now

\* k's packet was dropped and its sender's timeout, counted from it, had not
\* passed when j's packet came, from the same address.
BlockedBy(k, j) ==
    /\ k < j
    /\ log[k].ip = log[j].ip /\ log[k].dropped
    /\ log[j].at < log[k].at + NaughtyTimeout

\* From k to j, both included, the record of j's sender was not given up.
RecordKept(k, j) == \A l \in k .. j : log[l].forgets # log[j].ip

\* Nobody is blocked who has not sent too many packets within one period,
\* unless in the timeout of an earlier block: evicted, reset and blank records
\* never charge an address with another's packets (throttler.rs:75-129).
NoFalseBlock ==
    \A j \in DOMAIN log : log[j].dropped =>
        \/ \E k \in DOMAIN log : BlockedBy(k, j)
        \/ Cardinality({k \in 1 .. j : /\ log[k].ip = log[j].ip
                                       /\ log[k].at > log[j].at - Period \/ k = j}) > RateLimit

\* A blocked address stays blocked until the timeout has passed since its last
\* packet, as long as its record is kept (throttler.rs:105-118).
StaysBlocked ==
    \A k, j \in DOMAIN log :
        BlockedBy(k, j) /\ RecordKept(k, j) /\ log[j].ip # Loopback => log[j].dropped

\* While its record is kept, no address gets 2 * RateLimit packets through in
\* any stretch of a period, wherever its counting periods begin, as long as a
\* block outlasts a period (throttler.rs:105-120).  A limit of 0 lets nothing
\* through.
ThroughBounded ==
    \A j \in DOMAIN log :
        LET through == {k \in 1 .. j : /\ log[k].ip = log[j].ip /\ ~log[k].dropped
                                       /\ log[k].at > log[j].at - Period}
        IN  /\ NaughtyTimeout >= Period
            /\ log[j].ip # Loopback
            /\ \A k \in through : RecordKept(k, j)
            => Cardinality(through) < 2 * RateLimit \/ through = {}

\* A newcomer costs a blocked address its record only when as many addresses
\* as there are records have been blocked (throttler.rs:84-93).  Not so once
\* 127.0.0.1 is blocked itself, which may then hold any number of records.
BlockedForgottenLast ==
    \A j \in DOMAIN log : \A k \in 1 .. j - 1 :
        LET blocked == {log[l].ip : l \in {i \in 1 .. j - 1 : log[i].dropped}}
        IN  /\ log[j].forgets = log[k].ip /\ log[j].ip # log[k].ip
            /\ log[k].dropped /\ log[j].at < log[k].at + NaughtyTimeout
            /\ \A l \in k + 1 .. j - 1 : log[l].forgets # log[k].ip
            /\ Loopback \notin blocked
            => Cardinality(blocked) >= N
============================================================================
