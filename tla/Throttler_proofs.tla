--------------------------- MODULE Throttler_proofs ---------------------------
(***************************************************************************)
(* Theorems about Throttler, for any number of records and addresses and   *)
(* any settings.  StaysBlocked is about the history; its invariant ties a  *)
(* block in the history to the record that keeps it up (BlocksOnRecord).   *)
(* BlockedForgottenLast counts addresses in the history where the code     *)
(* compares records; its invariant says that a record with too many        *)
(* packets bears an address that was blocked (HighCounts).  What a record  *)
(* counts is related to the history by CountsEarned from above, for        *)
(* NoFalseBlock, and by PeriodsBounded from below, for ThroughBounded.     *)
(***************************************************************************)
EXTENDS Throttler, WellFoundedInduction, FiniteSetTheorems, TLAPS

USE ThrottlerAssumption

----------------------------------------------------------------------------
(* The scans of the array.                                                 *)

LEMMA LeastNat ==
    ASSUME NEW S \in SUBSET Nat, S # {}
    PROVE  \E i \in S : \A j \in S : i <= j
<1> DEFINE R == OpToRel(<, Nat)
<1>1. \E i \in S : \A j \in S : <<j, i>> \notin R
    <2>1. IsWellFoundedOn(R, Nat)
        BY NatLessThanWellFounded
    <2> HIDE DEF R
    <2> QED
        BY <2>1, WFMin
<1>2. PICK i \in S : \A j \in S : <<j, i>> \notin R
    BY <1>1
<1>3. \A j \in S : ~(j < i)
    BY <1>2 DEF OpToRel
<1> QED
    BY <1>3

\* The first index of a set is one of them.
LEMMA FirstIsIn ==
    ASSUME NEW S \in SUBSET Index, S # {}
    PROVE  First(S) \in S
<1>1. S \subseteq Nat
    BY DEF Index
<1>2. \E i \in S : \A j \in S : i <= j
    BY <1>1, LeastNat
<1> QED
    BY <1>2 DEF First

\* Some record is lame: the order of packets and then of expirations is total.
\* No record counts fewer packets.
LEMMA LamestIsIndex ==
    ASSUME records \in [Index -> ThrottlerRecord]
    PROVE  /\ Lamest \in Index
           /\ \A j \in Index : records[Lamest].packets <= records[j].packets
<1> DEFINE Fewest == {records[i].packets : i \in Index}
<1>1. Fewest \subseteq Nat /\ Fewest # {}
    BY DEF ThrottlerRecord, Index
<1>2. PICK p \in Fewest : \A q \in Fewest : p <= q
    BY <1>1, LeastNat
<1> DEFINE Soonest == {records[i].expiration : i \in {j \in Index : records[j].packets = p}}
<1>3. Soonest \subseteq Nat /\ Soonest # {}
    BY <1>2 DEF ThrottlerRecord
<1>4. PICK e \in Soonest : \A f \in Soonest : e <= f
    BY <1>3, LeastNat
<1>5. PICK i \in Index : records[i].packets = p /\ records[i].expiration = e
    BY <1>4
<1>6. ASSUME NEW j \in Index
      PROVE  ~Lamer(records[j], records[i])
    <2>1. /\ records[j].packets \in Nat /\ records[j].expiration \in Nat
          /\ p \in Nat /\ e \in Nat
        BY <1>1, <1>2, <1>3, <1>4 DEF ThrottlerRecord
    <2>2. p <= records[j].packets
        BY <1>2
    <2>3. records[j].packets = p => e <= records[j].expiration
        BY <1>4
    <2> QED
        BY <1>5, <2>1, <2>2, <2>3 DEF Lamer
<1> DEFINE Lame == {k \in Index : \A j \in Index : ~Lamer(records[j], records[k])}
<1>7. Lame # {} /\ Lame \in SUBSET Index
    BY <1>5, <1>6
<1>8. Lamest \in Lame
    <2>1. First(Lame) \in Lame
        BY <1>7, FirstIsIn
    <2> QED
        BY <2>1 DEF Lamest
<1>9. ASSUME NEW j \in Index
      PROVE  records[Lamest].packets <= records[j].packets
    <2>1. ~Lamer(records[j], records[Lamest]) /\ Lamest \in Index
        BY <1>8
    <2>2. records[j].packets \in Nat /\ records[Lamest].packets \in Nat
        BY <2>1 DEF ThrottlerRecord
    <2> HIDE DEF Lame
    <2> QED
        BY <2>1, <2>2 DEF Lamer
<1> QED
    BY <1>8, <1>9

----------------------------------------------------------------------------
(* The invariant.                                                          *)

\* A block whose timeout has not passed is kept up by a record, unless that was
\* given up since.
BlocksOnRecord ==
    \A k \in DOMAIN log :
        /\ log[k].dropped /\ log[k].ip # Loopback
        /\ \A l \in DOMAIN log : k < l => log[l].forgets # log[k].ip
        /\ now < log[k].at + NaughtyTimeout
        => \E i \in Index : /\ records[i].ip = log[k].ip
                            /\ records[i].packets > RateLimit
                            /\ records[i].expiration >= log[k].at + NaughtyTimeout

\* A record that counts too many packets bears an address that was blocked.
HighCounts ==
    \A i \in Index : records[i].packets > RateLimit =>
        \E l \in DOMAIN log : log[l].dropped /\ log[l].ip = records[i].ip

\* The packets of a history that an address sent since an instant.
Sent(hist, ip, t) == {k \in DOMAIN hist : hist[k].ip = ip /\ hist[k].at >= t}

\* A record expires either at the end of a block of its address, or at the end
\* of a period in which its address sent all the packets that it counts.
CountsEarned ==
    \A i \in Index : LET r == records[i] IN
        \/ \E k \in DOMAIN log : /\ log[k].ip = r.ip /\ log[k].dropped
                                 /\ r.expiration = log[k].at + NaughtyTimeout
        \/ /\ r.expiration - Period <= now
           /\ r.packets <= Cardinality(Sent(log, r.ip, r.expiration - Period))

ThInv ==
    /\ TypeOK
    /\ BlocksOnRecord /\ StaysBlocked
    /\ HighCounts /\ BlockedForgottenLast
    /\ CountsEarned /\ NoFalseBlock

LEMMA SentIsFinite ==
    ASSUME TypeOK, NEW ip, NEW t
    PROVE  IsFiniteSet(Sent(log, ip, t)) /\ Cardinality(Sent(log, ip, t)) \in Nat
<1>1. Len(log) \in Nat /\ DOMAIN log = 1 .. Len(log)
    BY DEF TypeOK
<1>2. IsFiniteSet(1 .. Len(log)) /\ Sent(log, ip, t) \subseteq 1 .. Len(log)
    BY <1>1, FS_Interval DEF Sent
<1> QED
    BY <1>2, FS_Subset, FS_CardinalityType

LEMMA ThrottlerInit == Init => ThInv
<1> SUFFICES ASSUME Init
             PROVE  ThInv
    OBVIOUS
<1>1. /\ TypeOK /\ BlocksOnRecord /\ StaysBlocked
      /\ HighCounts /\ BlockedForgottenLast /\ NoFalseBlock
    BY DEF Init, TypeOK, BlocksOnRecord, StaysBlocked, HighCounts,
           BlockedForgottenLast, NoFalseBlock, Instants, ThrottlerRecord, Blank, Index
<1>2. CountsEarned
    <2> SUFFICES ASSUME NEW i \in Index
                 PROVE  /\ records[i].expiration - Period <= now
                        /\ records[i].packets
                               <= Cardinality(Sent(log, records[i].ip, records[i].expiration - Period))
        BY DEF CountsEarned
    <2>1. records[i].expiration = now /\ records[i].packets = 0 /\ now \in Nat
        BY DEF Init, Blank
    <2>2. Cardinality(Sent(log, records[i].ip, records[i].expiration - Period)) \in Nat
        BY <1>1, SentIsFinite
    <2> QED
        BY <2>1, <2>2
<1> QED
    BY <1>1, <1>2 DEF ThInv

LEMMA LogGrows ==
    ASSUME TypeOK, NEW p \in Packet, log' = Append(log, p), Len(log) < MaxPackets,
           now' = now
    PROVE  /\ log' \in Seq(Packet) /\ Len(log') = Len(log) + 1 /\ Len(log') <= MaxPackets
           /\ DOMAIN log = 1 .. Len(log) /\ DOMAIN log' = 1 .. Len(log) + 1
           /\ \A k \in DOMAIN log : log'[k] = log[k] /\ log[k] \in Packet
           /\ log'[Len(log) + 1] = p
           /\ Len(log) \in Nat
    BY DEF TypeOK

\* What a packet from ip does to the array and to the log: the record at i is
\* replaced by r.
Replaces(ip, i, r, dropped, forgets) ==
    /\ i \in Index /\ r \in ThrottlerRecord
    /\ r.creation_time <= now
    /\ records' = [records EXCEPT ![i] = r]
    /\ Logged(ip, dropped, forgets)
    /\ dropped \in BOOLEAN /\ forgets \in Ip \cup {NoIp}

\* The three ways of a call, in these terms.
LEMMA CallReplaces ==
    ASSUME TypeOK, NEW ip \in Ip, TrackedTooLong(ip) \/ Known(ip) \/ Newcomer(ip)
    PROVE  \E i \in Index, r \in ThrottlerRecord, dropped \in BOOLEAN, forgets \in Ip \cup {NoIp} :
             /\ Replaces(ip, i, r, dropped, forgets)
             /\ dropped => /\ r.ip = ip /\ r.packets > RateLimit
                           /\ r.expiration = now + NaughtyTimeout
             /\ r.packets > RateLimit => dropped
             /\ \/ r.packets = 0 /\ r.expiration = now /\ r.ip = Loopback /\ forgets = ip
                \/ /\ r.ip = ip /\ forgets # ip
                   /\ records[i].ip = ip => now >= records[i].expiration
                   /\ r.packets = 1 /\ (~dropped => r.expiration = now + Period)
                \/ /\ r.ip = ip /\ forgets # ip
                   /\ records[i].ip = ip /\ now < records[i].expiration
                   /\ r.packets = records[i].packets + 1
                   /\ ~dropped => r.expiration = records[i].expiration
             /\ \/ records[i].ip = ip /\ r.ip = Loopback /\ forgets = ip
                \/ /\ records[i].ip = ip /\ r.ip = ip /\ forgets = NoIp
                   /\ records[i].packets > RateLimit /\ now < records[i].expiration => dropped
                \/ /\ \A j \in Index : records[j].ip # ip
                   /\ r.ip = ip /\ forgets = records[i].ip /\ i = Lamest
<1> USE DEF Replaces
<1>1. now \in Nat /\ now \in Instants /\ records \in [Index -> ThrottlerRecord]
    BY DEF TypeOK, Instants
<1>2. CASE TrackedTooLong(ip)
    <2> DEFINE i == First(Found(ip))
    <2>1. i \in Found(ip)
        BY <1>2, FirstIsIn DEF TrackedTooLong, Found
    <2>2. /\ Blank \in ThrottlerRecord /\ Blank.ip = Loopback /\ Blank.creation_time = now
          /\ ~(Blank.packets > RateLimit) /\ Blank.packets = 0 /\ Blank.expiration = now
        BY <1>1 DEF Blank, ThrottlerRecord
    <2>3. records' = [records EXCEPT ![i] = Blank]
        BY <1>2 DEF TrackedTooLong
    <2>6. Logged(ip, FALSE, ip)
        BY <1>2 DEF TrackedTooLong
    <2>4. records[i].ip = ip /\ i \in Index
        BY <2>1 DEF Found
    <2> HIDE DEF i
    <2>5. Replaces(ip, i, Blank, FALSE, ip)
        <3>1. Blank.creation_time <= now
            BY <2>2, <1>1
        <3> QED
            BY <2>2, <2>3, <2>4, <2>6, <3>1, Zenon
    <2> QED
        BY <2>2, <2>4, <2>5
<1>3. CASE Known(ip)
    <2> DEFINE i == First(Found(ip))
               s == records[i]
               c == Counted(s)
               r == Judged(c)
    <2>1. i \in Found(ip)
        BY <1>3, FirstIsIn DEF Known, Unknown, Found
    <2>2. i \in Index /\ s.ip = ip /\ s \in ThrottlerRecord /\ s.creation_time <= now
        BY <2>1, <1>1 DEF Found, TypeOK
    <2>3. /\ c \in ThrottlerRecord /\ c.ip = ip /\ c.creation_time <= now
          /\ s.packets > RateLimit /\ now < s.expiration => c.packets > RateLimit
          /\ \/ c.packets = 1 /\ c.expiration = now + Period /\ now >= s.expiration
             \/ /\ now < s.expiration /\ c.packets = s.packets + 1
                /\ c.expiration = s.expiration
        <3> HIDE DEF i, s
        <3>1. CASE now < s.expiration
            BY <3>1, <2>2, <1>1 DEF Counted, ThrottlerRecord
        <3>2. CASE ~(now < s.expiration)
            <4>1. c = [s EXCEPT !.packets = 1, !.expiration = now + Period]
                BY <3>2 DEF Counted
            <4>2. now + Period \in Nat
                BY <1>1
            <4>3. s.expiration \in Nat /\ now >= s.expiration
                BY <3>2, <2>2, <1>1 DEF ThrottlerRecord
            <4> HIDE DEF c
            <4>4. /\ c \in ThrottlerRecord /\ c.ip = s.ip /\ c.creation_time = s.creation_time
                  /\ c.packets = 1 /\ c.expiration = now + Period
                BY <4>1, <4>2, <2>2 DEF ThrottlerRecord
            <4> QED
                BY <4>3, <4>4, <3>2, <2>2
        <3> QED
            BY <3>1, <3>2
    <2>4. /\ r \in ThrottlerRecord /\ r.ip = ip /\ r.creation_time <= now
          /\ r.packets = c.packets
          /\ Throttled(c) => r.expiration = now + NaughtyTimeout
          /\ ~Throttled(c) => r.expiration = c.expiration
        <3> HIDE DEF c
        <3> QED
            BY <2>3, <1>1 DEF Judged, ThrottlerRecord
    <2>5. /\ records' = [records EXCEPT ![i] = r]
          /\ Logged(ip, Throttled(c), NoIp)
        BY <1>3 DEF Known
    <2>6. Throttled(c) \in BOOLEAN /\ (Throttled(c) <=> c.packets > RateLimit)
        BY DEF Throttled
    <2> HIDE DEF i, s, c, r
    <2>7. Replaces(ip, i, r, Throttled(c), NoIp)
        BY <2>2, <2>4, <2>5, <2>6
    <2>8. s = records[i]
        BY DEF s
    <2> QED
        BY <2>2, <2>3, <2>4, <2>6, <2>7, <2>8
<1>4. CASE Newcomer(ip)
    <2> DEFINE c == [ip |-> ip, packets |-> 1, expiration |-> now + Period,
                     creation_time |-> now]
               r == Judged(c)
    <2>1. Lamest \in Index
        BY <1>1, LamestIsIndex
    <2>2. c \in ThrottlerRecord
        BY <1>1 DEF ThrottlerRecord
    <2>3. /\ r \in ThrottlerRecord /\ r.ip = ip /\ r.creation_time <= now
          /\ Throttled(c) <=> r.packets > RateLimit
          /\ Throttled(c) => r.expiration = now + NaughtyTimeout
          /\ r.packets = 1 /\ (~Throttled(c) => r.expiration = now + Period)
        BY <2>2, <1>1 DEF Judged, Throttled, ThrottlerRecord
    <2>4. /\ records' = [records EXCEPT ![Lamest] = r]
          /\ Logged(ip, Throttled(c), records[Lamest].ip)
          /\ \A j \in Index : records[j].ip # ip
        BY <1>4 DEF Newcomer, Unknown, Found
    <2>5. Throttled(c) \in BOOLEAN
        BY DEF Throttled
    <2>6. records[Lamest].ip \in Ip
        BY <1>1, <2>1 DEF ThrottlerRecord
    <2> HIDE DEF c, r
    <2>7. Replaces(ip, Lamest, r, Throttled(c), records[Lamest].ip)
        BY <2>1, <2>3, <2>4, <2>5, <2>6
    <2> QED
        BY <2>1, <2>3, <2>4, <2>5, <2>6, <2>7
<1> QED
    BY <1>2, <1>3, <1>4

\* The addresses blocked in the first m calls.
BlockedIn(m) == {log[l].ip : l \in {k \in 1 .. m : log[k].dropped}}

\* When every record bears one of them, and none is 127.0.0.1, they are as many
\* as there are records.
LEMMA AsManyAsRecords ==
    ASSUME TypeOK, NEW m \in Nat, Loopback \notin BlockedIn(m),
           \A q \in Index : records[q].ip \in BlockedIn(m)
    PROVE  Cardinality(BlockedIn(m)) >= N
<1>1. IsFiniteSet(BlockedIn(m)) /\ Cardinality(BlockedIn(m)) \in Nat
    <2> DEFINE when == {k \in 1 .. m : log[k].dropped}
               g == [l \in when |-> log[l].ip]
    <2>1. IsFiniteSet(when)
        <3>1. IsFiniteSet(1 .. m) /\ when \subseteq 1 .. m
            BY FS_Interval
        <3> HIDE DEF when
        <3> QED
            BY <3>1, FS_Subset
    <2>2. g \in Surjection(when, BlockedIn(m))
        BY DEF Surjection, BlockedIn
    <2> HIDE DEF when, g
    <2>3. IsFiniteSet(BlockedIn(m))
        BY <2>1, <2>2, FS_Surjection
    <2> QED
        BY <2>3, FS_CardinalityType
<1> DEFINE f == [q \in Index |-> records[q].ip]
<1>2. f \in Injection(Index, BlockedIn(m))
    BY DEF Injection, IsInjective, TypeOK
<1>3. Cardinality(Index) = N
    BY FS_Interval DEF Index
<1> HIDE DEF f
<1>4. Cardinality(Index) <= Cardinality(BlockedIn(m))
    BY <1>1, <1>2, FS_Injection
<1> QED
    BY <1>1, <1>3, <1>4

LEMMA CheckThrottleInv ==
    ASSUME ThInv, NEW ip \in Ip, CheckThrottle(ip)
    PROVE  ThInv'
<1>1. /\ TypeOK /\ BlocksOnRecord /\ StaysBlocked /\ HighCounts /\ BlockedForgottenLast
      /\ CountsEarned /\ NoFalseBlock
      /\ now' = now /\ Len(log) < MaxPackets
    BY DEF ThInv, CheckThrottle
<1>2. TrackedTooLong(ip) \/ Known(ip) \/ Newcomer(ip)
    BY DEF CheckThrottle
<1>3. PICK i \in Index, r \in ThrottlerRecord, dropped \in BOOLEAN, forgets \in Ip \cup {NoIp} :
         /\ Replaces(ip, i, r, dropped, forgets)
         /\ dropped => /\ r.ip = ip /\ r.packets > RateLimit
                       /\ r.expiration = now + NaughtyTimeout
         /\ r.packets > RateLimit => dropped
         /\ \/ r.packets = 0 /\ r.expiration = now /\ r.ip = Loopback /\ forgets = ip
            \/ /\ r.ip = ip /\ forgets # ip
               /\ records[i].ip = ip => now >= records[i].expiration
               /\ r.packets = 1 /\ (~dropped => r.expiration = now + Period)
            \/ /\ r.ip = ip /\ forgets # ip
               /\ records[i].ip = ip /\ now < records[i].expiration
               /\ r.packets = records[i].packets + 1
               /\ ~dropped => r.expiration = records[i].expiration
         /\ \/ records[i].ip = ip /\ r.ip = Loopback /\ forgets = ip
            \/ /\ records[i].ip = ip /\ r.ip = ip /\ forgets = NoIp
               /\ records[i].packets > RateLimit /\ now < records[i].expiration => dropped
            \/ /\ \A j \in Index : records[j].ip # ip
               /\ r.ip = ip /\ forgets = records[i].ip /\ i = Lamest
    BY <1>1, <1>2, CallReplaces
<1> DEFINE p == [ip |-> ip, at |-> now, dropped |-> dropped, forgets |-> forgets]
           n == Len(log) + 1
<1>4. p \in Packet /\ log' = Append(log, p) /\ now \in Nat
    BY <1>1, <1>3 DEF Packet, TypeOK, Instants, Replaces, Logged
<1>5. /\ log' \in Seq(Packet) /\ Len(log') <= MaxPackets
      /\ DOMAIN log = 1 .. Len(log) /\ DOMAIN log' = 1 .. n
      /\ \A k \in DOMAIN log : log'[k] = log[k] /\ log[k] \in Packet
      /\ log'[n] = p
      /\ Len(log) \in Nat
    BY <1>1, <1>4, LogGrows
<1>6. /\ records \in [Index -> ThrottlerRecord]
      /\ records' = [records EXCEPT ![i] = r]
      /\ r.creation_time <= now
    BY <1>1, <1>3 DEF TypeOK, Replaces
<1>7. \A j \in Index : records'[j] = IF j = i THEN r ELSE records[j]
    BY <1>6
<1> HIDE DEF n
<1>8. TypeOK'
    <2>1. records' \in [Index -> ThrottlerRecord]
        BY <1>6
    <2>2. ASSUME NEW j \in Index, NEW k \in Index, records'[j].ip = records'[k].ip
          PROVE  j = k \/ records'[j].ip = Loopback
        BY <2>2, <1>1, <1>3, <1>7 DEF TypeOK
    <2>3. \A j \in Index : records'[j].creation_time <= now
        BY <1>1, <1>6, <1>7 DEF TypeOK
    <2>4. \A k \in DOMAIN log' : log'[k].at <= now
        <3>1. ASSUME NEW k \in DOMAIN log'
              PROVE  k \in DOMAIN log \/ k = n
            BY <1>5 DEF n
        <3> QED
            BY <1>1, <1>4, <1>5, <3>1 DEF TypeOK
    <2> QED
        BY <1>1, <1>5, <2>1, <2>2, <2>3, <2>4 DEF TypeOK
<1>9. \A k \in DOMAIN log' : (k \in DOMAIN log /\ k < n) \/ k = n
    BY <1>5 DEF n
\* A record that keeps up a block of ip makes this packet dropped, too.
<1>10. ASSUME NEW k \in DOMAIN log, log[k].dropped, log[k].ip = ip, ip # Loopback,
              \A l \in DOMAIN log : k < l => log[l].forgets # ip,
              forgets # ip, now < log[k].at + NaughtyTimeout
       PROVE  dropped
    <2>1. PICK j \in Index : /\ records[j].ip = ip
                             /\ records[j].packets > RateLimit
                             /\ records[j].expiration >= log[k].at + NaughtyTimeout
        BY <1>1, <1>10 DEF BlocksOnRecord
    <2>2. log[k].at \in Nat /\ records[j].expiration \in Nat
        BY <1>5, <1>6, SMTT(30) DEF Packet, Instants, ThrottlerRecord
    <2>3. now < records[j].expiration
        BY <1>4, <1>10, <2>1, <2>2
    <2>4. records[i].ip = ip => i = j
        BY <1>1, <1>10, <2>1 DEF TypeOK
    <2> QED
        BY <1>3, <1>10, <2>1, <2>3, <2>4
<1>11. BlocksOnRecord'
    <2> SUFFICES ASSUME NEW k \in DOMAIN log',
                        log'[k].dropped, log'[k].ip # Loopback,
                        \A l \in DOMAIN log' : k < l => log'[l].forgets # log'[k].ip,
                        now < log'[k].at + NaughtyTimeout
                 PROVE  \E j \in Index : /\ records'[j].ip = log'[k].ip
                                         /\ records'[j].packets > RateLimit
                                         /\ records'[j].expiration >= log'[k].at + NaughtyTimeout
        BY <1>1 DEF BlocksOnRecord
    <2>1. CASE k = n
        BY SMTT(30), <2>1, <1>3, <1>4, <1>5, <1>7
    <2>2. CASE k \in DOMAIN log /\ k < n
        <3>1. log'[k] = log[k] /\ log[k].at \in Nat /\ log[k].at <= now
            BY <2>2, <1>1, <1>5 DEF TypeOK, Packet, Instants
        <3>2. n \in DOMAIN log' /\ forgets # log[k].ip
            BY <2>2, <3>1, <1>5 DEF n
        <3>3. \A l \in DOMAIN log : k < l => log[l].forgets # log[k].ip
            BY <3>1, <1>5, <1>9 DEF n
        <3>4. CASE log[k].ip = ip
            <4>1. dropped
                BY <3>1, <3>2, <3>3, <3>4, <2>2, <1>10
            <4> QED
                BY SMTT(30), <4>1, <3>1, <3>4, <1>3, <1>4, <1>7
        <3>5. CASE log[k].ip # ip
            <4>1. PICK j \in Index : /\ records[j].ip = log[k].ip
                                     /\ records[j].packets > RateLimit
                                     /\ records[j].expiration >= log[k].at + NaughtyTimeout
                BY <1>1, <2>2, <3>1, <3>3 DEF BlocksOnRecord
            <4>2. j # i
                BY <4>1, <3>2, <3>5, <1>3
            <4> QED
                BY <4>1, <4>2, <3>1, <1>7
        <3> QED
            BY <3>4, <3>5
    <2> QED
        BY <2>1, <2>2, <1>9
<1>12. StaysBlocked'
    <2> SUFFICES ASSUME NEW k \in DOMAIN log', NEW j \in DOMAIN log',
                        k < j, log'[k].ip = log'[j].ip, log'[k].dropped,
                        log'[j].at < log'[k].at + NaughtyTimeout,
                        \A l \in k .. j : log'[l].forgets # log'[j].ip,
                        log'[j].ip # Loopback
                 PROVE  log'[j].dropped
        BY DEF StaysBlocked, BlockedBy, RecordKept
    <2>1. k \in DOMAIN log /\ log'[k] = log[k] /\ k \in Nat /\ n \in Nat
        BY <1>5 DEF n
    <2>2. CASE j = n
        <3>1. \A l \in DOMAIN log : k < l => log[l].forgets # ip
            <4> SUFFICES ASSUME NEW l \in DOMAIN log, k < l
                         PROVE  log[l].forgets # ip
                OBVIOUS
            <4>1. l \in k .. n /\ log'[l] = log[l]
                BY <1>5, <2>1 DEF n
            <4> QED
                BY <4>1, <2>2, <1>5
        <3>2. n \in k .. n
            BY <2>1, <2>2
        <3>3. forgets # ip
            BY <3>2, <2>2, <1>5
        <3> QED
            BY <3>1, <3>3, <2>1, <2>2, <1>5, <1>10
    <2>3. CASE j \in DOMAIN log
        <3>1. log'[j] = log[j] /\ \A l \in k .. j : l \in DOMAIN log /\ log'[l] = log[l]
            BY <2>1, <2>3, <1>5
        <3> QED
            BY <3>1, <2>1, <2>3, <1>1 DEF StaysBlocked, BlockedBy, RecordKept
    <2> QED
        BY <2>2, <2>3, <1>9
<1>13. HighCounts'
    <2> SUFFICES ASSUME NEW j \in Index, records'[j].packets > RateLimit
                 PROVE  \E l \in DOMAIN log' : log'[l].dropped /\ log'[l].ip = records'[j].ip
        BY DEF HighCounts
    <2>1. CASE j = i
        <3>1. dropped /\ r.ip = ip /\ records'[j] = r
            BY <2>1, <1>3, <1>7
        <3>2. n \in DOMAIN log' /\ log'[n].dropped /\ log'[n].ip = records'[j].ip
            BY <3>1, <1>5 DEF n
        <3> QED
            BY <3>2
    <2>2. CASE j # i
        <3>1. records'[j] = records[j]
            BY <2>2, <1>7
        <3>2. PICK l \in DOMAIN log : log[l].dropped /\ log[l].ip = records[j].ip
            BY <3>1, <1>1 DEF HighCounts
        <3>3. l \in DOMAIN log' /\ log'[l] = log[l]
            BY <1>5 DEF n
        <3> QED
            BY <3>1, <3>2, <3>3
    <2> QED
        BY <2>1, <2>2
<1>14. BlockedForgottenLast'
    <2> SUFFICES ASSUME NEW j \in DOMAIN log', NEW k \in 1 .. j - 1,
                        log'[j].forgets = log'[k].ip, log'[j].ip # log'[k].ip,
                        log'[k].dropped, log'[j].at < log'[k].at + NaughtyTimeout,
                        \A l \in k + 1 .. j - 1 : log'[l].forgets # log'[k].ip,
                        Loopback \notin {log'[l].ip : l \in {m \in 1 .. j - 1 : log'[m].dropped}}
                 PROVE  Cardinality({log'[l].ip : l \in {m \in 1 .. j - 1 : log'[m].dropped}}) >= N
        BY DEF BlockedForgottenLast
    <2> DEFINE blocked == {log[l].ip : l \in {m \in 1 .. j - 1 : log[m].dropped}}
    <2>1. 1 .. j - 1 \subseteq DOMAIN log /\ j \in Nat
        BY <1>5 DEF n
    <2>2. \A l \in 1 .. j - 1 : log'[l] = log[l]
        BY <2>1, <1>5
    <2>3. blocked = {log'[l].ip : l \in {m \in 1 .. j - 1 : log'[m].dropped}}
        BY <2>2
    <2>4. Loopback \notin blocked
        BY <2>3
    <2> SUFFICES Cardinality(blocked) >= N
        BY <2>3
    <2>5. CASE j \in DOMAIN log
        <3>1. log'[j] = log[j] /\ \A l \in k + 1 .. j - 1 : l \in 1 .. j - 1
            BY <2>5, <1>5
        <3> QED
            BY <2>2, <2>4, <2>5, <3>1, <1>1 DEF BlockedForgottenLast
    <2>6. CASE j = n
        <3>1. /\ DOMAIN log = 1 .. j - 1 /\ k \in DOMAIN log /\ log'[k] = log[k]
              /\ log'[j] = p /\ log[k] \in Packet
            BY <2>6, <1>5 DEF n
        <3>2. forgets = log[k].ip /\ ip # log[k].ip /\ log[k].ip \in Ip
            BY <3>1 DEF Packet
        <3>3. i = Lamest /\ records[i].ip = log[k].ip
            BY <3>2, <1>3
        <3>4. log[k].ip \in blocked
            BY <3>1
        <3>5. PICK m \in Index : records[m].ip = log[k].ip /\ records[m].packets > RateLimit
            <4>1. \A l \in DOMAIN log : k < l => log[l].forgets # log[k].ip
                BY <2>1, <2>2, <3>1
            <4>2. log[k].dropped /\ now < log[k].at + NaughtyTimeout
                BY <3>1
            <4>3. log[k].ip # Loopback
                BY <3>4, <2>4
            <4> QED
                BY <4>1, <4>2, <4>3, <3>1, <1>1 DEF BlocksOnRecord
        <3>6. \A q \in Index : records[q].packets > RateLimit
            <4>1. m = i
                BY <3>3, <3>4, <3>5, <2>4, <1>1 DEF TypeOK
            <4>2. \A q \in Index : records[i].packets <= records[q].packets
                BY <3>3, <1>6, LamestIsIndex
            <4>3. \A q \in Index : records[q].packets \in Nat
                BY <1>6 DEF ThrottlerRecord
            <4> QED
                BY <4>1, <4>2, <4>3, <3>5
        <3>7. \A q \in Index : records[q].ip \in blocked
            BY <3>1, <3>6, <1>1 DEF HighCounts
        <3>8. blocked = BlockedIn(j - 1) /\ j - 1 \in Nat
            BY <2>6, <1>5 DEF BlockedIn, n
        <3> QED
            BY <3>7, <3>8, <2>4, <1>1, AsManyAsRecords
    <2> QED
        BY <2>5, <2>6, <1>9
<1>15. ASSUME NEW a, NEW t \in Int
       PROVE  /\ IsFiniteSet(Sent(log', a, t)) /\ Cardinality(Sent(log', a, t)) \in Nat
              /\ Cardinality(Sent(log, a, t)) <= Cardinality(Sent(log', a, t))
              /\ a = ip /\ now >= t
                    => Cardinality(Sent(log', a, t)) = Cardinality(Sent(log, a, t)) + 1
              /\ Cardinality(Sent(log, a, t)) \in Nat
    <2>1. IsFiniteSet(Sent(log, a, t)) /\ Cardinality(Sent(log, a, t)) \in Nat
        BY <1>1, SentIsFinite
    <2>2. n \notin Sent(log, a, t)
        BY <1>5 DEF Sent, n
    <2>3. CASE a = ip /\ now >= t
        <3>1. Sent(log', a, t) = Sent(log, a, t) \cup {n}
            BY <2>3, <1>5, <1>9 DEF Sent, n
        <3>2. /\ IsFiniteSet(Sent(log, a, t) \cup {n})
              /\ Cardinality(Sent(log, a, t) \cup {n}) = Cardinality(Sent(log, a, t)) + 1
            BY <2>1, <2>2, FS_AddElement
        <3> QED
            BY <2>1, <3>1, <3>2
    <2>4. CASE ~(a = ip /\ now >= t)
        <3>1. Sent(log', a, t) = Sent(log, a, t)
            BY <2>4, <1>5, <1>9 DEF Sent, n
        <3> QED
            BY <2>1, <2>4, <3>1
    <2> QED
        BY <2>3, <2>4
<1>16. \A q \in Index : /\ records[q].expiration \in Nat /\ records[q].packets \in Nat
                        /\ records[q].expiration - Period \in Int
    BY <1>6 DEF ThrottlerRecord
<1>17. r.expiration \in Nat /\ r.packets \in Nat /\ r.expiration - Period \in Int
    BY DEF ThrottlerRecord
\* What a record expires with, or a packet that it counts.
<1>18. CountsEarned'
    <2> SUFFICES ASSUME NEW j \in Index
                 PROVE  \/ \E k \in DOMAIN log' :
                               /\ log'[k].ip = records'[j].ip /\ log'[k].dropped
                               /\ records'[j].expiration = log'[k].at + NaughtyTimeout
                        \/ /\ records'[j].expiration - Period <= now
                           /\ records'[j].packets
                                 <= Cardinality(Sent(log', records'[j].ip, records'[j].expiration - Period))
        BY <1>1 DEF CountsEarned, Sent
    <2>1. ASSUME NEW q \in Index, records[q].ip = records'[j].ip,
                 records[q].expiration = records'[j].expiration,
                 NEW k \in DOMAIN log, log[k].ip = records[q].ip, log[k].dropped,
                 records[q].expiration = log[k].at + NaughtyTimeout
          PROVE  \E l \in DOMAIN log' :
                     /\ log'[l].ip = records'[j].ip /\ log'[l].dropped
                     /\ records'[j].expiration = log'[l].at + NaughtyTimeout
        <3>1. k \in DOMAIN log' /\ log'[k] = log[k]
            BY <1>5 DEF n
        <3> QED
            BY <3>1, <2>1
    <2>2. CASE j # i
        <3>1. records'[j] = records[j]
            BY <2>2, <1>7
        <3>2. CASE \E k \in DOMAIN log : /\ log[k].ip = records[j].ip /\ log[k].dropped
                                         /\ records[j].expiration = log[k].at + NaughtyTimeout
            BY <3>1, <3>2, <2>1
        <3>3. CASE /\ records[j].expiration - Period <= now
                   /\ records[j].packets
                         <= Cardinality(Sent(log, records[j].ip, records[j].expiration - Period))
            <4>1. Cardinality(Sent(log, records[j].ip, records[j].expiration - Period))
                     <= Cardinality(Sent(log', records[j].ip, records[j].expiration - Period))
                BY <1>15, <1>16
            <4>2. /\ Cardinality(Sent(log, records[j].ip, records[j].expiration - Period)) \in Nat
                  /\ Cardinality(Sent(log', records[j].ip, records[j].expiration - Period)) \in Nat
                BY <1>15, <1>16
            <4>3. records[j].packets
                     <= Cardinality(Sent(log', records[j].ip, records[j].expiration - Period))
                BY <3>3, <4>1, <4>2, <1>16
            <4>4. Sent(log', records'[j].ip, records'[j].expiration - Period)
                     = Sent(log', records[j].ip, records[j].expiration - Period)
                BY <3>1 DEF Sent
            <4> QED
                BY <3>1, <3>3, <4>3, <4>4
        <3> QED
            BY <3>2, <3>3, <1>1 DEF CountsEarned
    <2>3. CASE j = i
        <3>1. records'[j] = r
            BY <2>3, <1>7
        <3>2. CASE dropped
            <4>1. n \in DOMAIN log' /\ log'[n] = p
                BY <1>5 DEF n
            <4> QED
                BY <4>1, <3>1, <3>2, <1>3
        <3>3. CASE ~dropped
            <4>1. Sent(log', records'[j].ip, records'[j].expiration - Period)
                     = Sent(log', r.ip, r.expiration - Period)
                BY <3>1 DEF Sent
            <4>2. CASE r.packets = 0 /\ r.expiration = now
                <5>1. 0 <= Cardinality(Sent(log', r.ip, r.expiration - Period))
                    BY <1>15, <1>17
                <5> QED
                    BY <4>1, <4>2, <5>1, <3>1, <1>4
            <4>3. CASE r.ip = ip /\ r.packets = 1 /\ r.expiration = now + Period
                <5>1. r.expiration - Period = now
                    BY <4>3, <1>4
                <5>2. Cardinality(Sent(log', ip, now)) = Cardinality(Sent(log, ip, now)) + 1
                    BY <1>4, <1>15
                <5>3. 1 <= Cardinality(Sent(log', ip, now))
                    BY <1>4, <1>15, <5>2
                <5> QED
                    BY <4>1, <4>3, <5>1, <5>3, <3>1, <1>4
            <4>4. CASE /\ records[i].ip = ip /\ r.ip = ip /\ now < records[i].expiration
                       /\ r.packets = records[i].packets + 1
                       /\ r.expiration = records[i].expiration
                <5>1. CASE \E k \in DOMAIN log : /\ log[k].ip = ip /\ log[k].dropped
                                                 /\ r.expiration = log[k].at + NaughtyTimeout
                    BY <5>1, <4>4, <3>1, <2>1
                <5>2. CASE /\ r.expiration - Period <= now
                           /\ records[i].packets <= Cardinality(Sent(log, ip, r.expiration - Period))
                    <6>1. Cardinality(Sent(log', ip, r.expiration - Period))
                            = Cardinality(Sent(log, ip, r.expiration - Period)) + 1
                        BY <5>2, <1>4, <1>15, <1>17
                    <6>2. r.packets <= Cardinality(Sent(log', ip, r.expiration - Period))
                        BY <5>2, <6>1, <4>4, <1>15, <1>16, <1>17
                    <6> QED
                        BY <5>2, <6>2, <4>1, <4>4, <3>1
                <5> QED
                    BY <5>1, <5>2, <4>4, <1>1 DEF CountsEarned
            <4> QED
                BY <4>2, <4>3, <4>4, <3>3, <1>3
        <3> QED
            BY <3>2, <3>3
    <2> QED
        BY <2>2, <2>3
<1>19. NoFalseBlock'
    <2> DEFINE counted(j) == {k \in 1 .. j : /\ log'[k].ip = log'[j].ip
                                             /\ log'[k].at > log'[j].at - Period \/ k = j}
    <2> SUFFICES ASSUME NEW j \in DOMAIN log', log'[j].dropped
                 PROVE  \/ \E k \in DOMAIN log' :
                              /\ k < j /\ log'[k].ip = log'[j].ip /\ log'[k].dropped
                              /\ log'[j].at < log'[k].at + NaughtyTimeout
                        \/ Cardinality(counted(j)) > RateLimit
        BY DEF NoFalseBlock, BlockedBy
    <2>1. CASE j \in DOMAIN log
        <3>1. log'[j] = log[j] /\ \A k \in 1 .. j : k \in DOMAIN log /\ log'[k] = log[k]
            BY <2>1, <1>5
        <3>2. CASE \E k \in DOMAIN log : BlockedBy(k, j)
            <4>1. PICK k \in DOMAIN log : BlockedBy(k, j)
                BY <3>2
            <4>2. k \in DOMAIN log' /\ log'[k] = log[k]
                BY <1>5 DEF n
            <4> QED
                BY <4>1, <4>2, <3>1 DEF BlockedBy
        <3>3. CASE Cardinality({k \in 1 .. j : /\ log[k].ip = log[j].ip
                                               /\ log[k].at > log[j].at - Period \/ k = j})
                      > RateLimit
            <4>1. counted(j) = {k \in 1 .. j : /\ log[k].ip = log[j].ip
                                               /\ log[k].at > log[j].at - Period \/ k = j}
                BY <3>1
            <4> QED
                BY <3>3, <4>1
        <3> QED
            BY <3>1, <3>2, <3>3, <2>1, <1>1 DEF NoFalseBlock
    <2>2. CASE j = n
        <3>1. log'[j] = p /\ dropped /\ j \in Nat /\ DOMAIN log' = 1 .. j
            BY <2>2, <1>5 DEF n
        <3>2. IsFiniteSet(counted(j)) /\ Cardinality(counted(j)) \in Nat
            <4>1. IsFiniteSet(1 .. j) /\ counted(j) \subseteq 1 .. j
                BY <3>1, FS_Interval
            <4> HIDE DEF counted
            <4> QED
                BY <4>1, FS_Subset, FS_CardinalityType
        <3>3. CASE r.packets = 1
            <4>1. {j} \subseteq counted(j)
                BY <3>1
            <4>2. 1 <= Cardinality(counted(j))
                <5> HIDE DEF counted
                <5>1. Cardinality({j}) <= Cardinality(counted(j))
                    BY <4>1, <3>2, FS_Subset
                <5>2. Cardinality({j}) = 1
                    BY FS_Singleton
                <5> QED
                    BY <5>1, <5>2
            <4> HIDE DEF counted
            <4> QED
                BY <4>2, <3>1, <3>2, <3>3, <1>3
        <3>4. CASE /\ records[i].ip = ip /\ now < records[i].expiration
                   /\ r.packets = records[i].packets + 1
            <4> DEFINE t == records[i].expiration - Period
            <4>1. CASE \E k \in DOMAIN log : /\ log[k].ip = ip /\ log[k].dropped
                                             /\ records[i].expiration = log[k].at + NaughtyTimeout
                <5>1. PICK k \in DOMAIN log : /\ log[k].ip = ip /\ log[k].dropped
                                              /\ records[i].expiration = log[k].at + NaughtyTimeout
                    BY <4>1
                <5>2. k \in DOMAIN log' /\ log'[k] = log[k] /\ k < j
                    BY <2>2, <1>5 DEF n
                <5> QED
                    BY <5>1, <5>2, <3>1, <3>4
            <4>2. CASE t <= now /\ records[i].packets <= Cardinality(Sent(log, ip, t))
                <5>1. t \in Int
                    BY <1>16
                <5>2. Sent(log', ip, t) \subseteq counted(j)
                    <6> SUFFICES ASSUME NEW k \in DOMAIN log', log'[k].ip = ip, log'[k].at >= t
                                 PROVE  k \in counted(j)
                        BY DEF Sent
                    <6>1. log'[k].at \in Nat
                        BY <1>4, <1>5, <1>9 DEF Packet, Instants
                    <6>2. log'[k].at > now - Period
                        BY SMTT(30), <6>1, <3>4, <1>4, <1>16
                    <6> QED
                        BY <6>2, <3>1
                <5> HIDE DEF t, counted
                <5>3. Cardinality(Sent(log', ip, t)) <= Cardinality(counted(j))
                    BY <5>2, <3>2, FS_Subset
                <5>4. Cardinality(Sent(log', ip, t)) = Cardinality(Sent(log, ip, t)) + 1
                    BY <4>2, <5>1, <1>4, <1>15
                <5>5. r.packets <= Cardinality(counted(j))
                    BY <4>2, <5>1, <5>3, <5>4, <3>2, <3>4, <1>15, <1>16
                <5> QED
                    BY <5>5, <3>1, <3>2, <1>3, <1>17
            <4> QED
                BY <4>1, <4>2, <3>4, <1>1 DEF CountsEarned
        <3> QED
            BY <3>1, <3>3, <3>4, <1>3
    <2> QED
        BY <2>1, <2>2, <1>9
<1> QED
    BY <1>8, <1>11, <1>12, <1>13, <1>14, <1>18, <1>19 DEF ThInv

LEMMA ThrottlerNext == ThInv /\ [Next]_vars => ThInv'
<1> SUFFICES ASSUME ThInv, [Next]_vars
             PROVE  ThInv'
    OBVIOUS
<1>1. ASSUME NEW ip \in Ip, CheckThrottle(ip)
      PROVE  ThInv'
    BY <1>1, CheckThrottleInv
<1>2. CASE Restart
    <2>1. now \in Nat /\ records' = [i \in Index |-> Blank] /\ log' = <<>> /\ now' = now
        BY <1>2 DEF Restart, ThInv, TypeOK, Instants
    <2>2. /\ TypeOK' /\ BlocksOnRecord' /\ StaysBlocked'
          /\ HighCounts' /\ BlockedForgottenLast' /\ NoFalseBlock'
        BY <2>1 DEF ThInv, TypeOK, BlocksOnRecord, StaysBlocked, HighCounts,
                    BlockedForgottenLast, NoFalseBlock, Instants, ThrottlerRecord, Blank, Index
    <2>3. CountsEarned'
        <3> SUFFICES ASSUME NEW i \in Index
                     PROVE  /\ Blank.expiration - Period <= now
                            /\ Blank.packets
                                  <= Cardinality(Sent(log', Blank.ip, Blank.expiration - Period))
            BY <2>1 DEF CountsEarned, Sent
        <3>1. \A a, t : Sent(log', a, t) = {}
            BY <2>1 DEF Sent
        <3>2. Blank.expiration = now /\ Blank.packets = 0
            BY DEF Blank
        <3>3. Cardinality({}) = 0
            BY FS_EmptySet
        <3>4. Blank.expiration - Period <= now
            BY <2>1, <3>2
        <3>5. Cardinality(Sent(log', Blank.ip, Blank.expiration - Period)) = 0
            BY <3>1, <3>3, Zenon
        <3> QED
            BY <3>2, <3>4, <3>5
    <2> QED
        BY <2>2, <2>3 DEF ThInv
<1>3. CASE Tick
    <2>1. /\ TypeOK /\ BlocksOnRecord /\ StaysBlocked
          /\ HighCounts /\ BlockedForgottenLast /\ CountsEarned /\ NoFalseBlock
        BY DEF ThInv
    <2>2. /\ now \in Nat /\ now' = now + 1 /\ now' \in Instants
          /\ records' = records /\ log' = log
        BY <1>3, <2>1 DEF Tick, TypeOK, Instants
    <2>3. ASSUME NEW k \in DOMAIN log
          PROVE  log[k].at \in Nat
        <3>1. log[k] \in Packet
            BY <2>1 DEF TypeOK
        <3> QED
            BY <3>1 DEF Packet, Instants
    <2>4. TypeOK'
        <3>1. \A i \in Index : records[i].creation_time \in Nat
            BY <2>1 DEF TypeOK, ThrottlerRecord, Instants
        <3> QED
            BY <2>1, <2>2, <2>3, <3>1 DEF TypeOK
    <2>5. BlocksOnRecord'
        BY <2>1, <2>2, <2>3 DEF BlocksOnRecord
    <2>6. StaysBlocked'
        BY <2>1, <2>2 DEF StaysBlocked, BlockedBy, RecordKept
    <2>7. HighCounts' /\ BlockedForgottenLast'
        BY <2>1, <2>2 DEF HighCounts, BlockedForgottenLast
    <2>8. NoFalseBlock'
        BY <2>1, <2>2 DEF NoFalseBlock, BlockedBy
    <2>9. CountsEarned'
        <3>1. \A i \in Index : records[i].expiration \in Nat
            BY <2>1 DEF TypeOK, ThrottlerRecord
        <3> QED
            BY <2>1, <2>2, <3>1 DEF CountsEarned, Sent
    <2> QED
        BY <2>4, <2>5, <2>6, <2>7, <2>8, <2>9 DEF ThInv
<1>4. CASE UNCHANGED vars
    BY <1>4, SMTT(30) DEF vars, ThInv, TypeOK, BlocksOnRecord, StaysBlocked, BlockedBy, RecordKept,
                HighCounts, BlockedForgottenLast, CountsEarned, Sent, NoFalseBlock
<1> QED
    BY <1>1, <1>2, <1>3, <1>4 DEF Next

THEOREM ThrottlerInvariant == Spec => []ThInv
    BY ThrottlerInit, ThrottlerNext, PTL DEF Spec

----------------------------------------------------------------------------
(* What gets through.                                                      *)

\* The packets of an address that a history let through since an instant and
\* has not given up the record of.
Kept(hist, a, t) ==
    {k \in DOMAIN hist : /\ hist[k].ip = a /\ ~hist[k].dropped /\ hist[k].at >= t
                         /\ \A l \in DOMAIN hist : k <= l => hist[l].forgets # a}

Few(S) == Cardinality(S) < 2 * RateLimit \/ S = {}

\* A record is blocked since its address sent a packet, when few had got through
\* in the last period; or it has counted the packets of this period, and few
\* got through in the one before that.
PeriodsBounded ==
    NaughtyTimeout >= Period =>
        \A i \in Index : records[i].ip # Loopback =>
            LET r == records[i] IN
            \/ /\ r.packets > RateLimit
               /\ r.expiration - NaughtyTimeout <= now
               /\ \A k \in Kept(log, r.ip, 0) : log[k].at + NaughtyTimeout <= r.expiration
               /\ Few(Kept(log, r.ip, r.expiration - NaughtyTimeout - Period + 1))
            \/ /\ r.packets <= RateLimit
               /\ r.expiration - Period <= now
               /\ Cardinality(Kept(log, r.ip, r.expiration - Period + 1)) <= r.packets - 1
               /\ Cardinality(Kept(log, r.ip, r.expiration - 2 * Period + 1))
                     <= r.packets + RateLimit - 1

KeptOnRecord ==
    \A k \in DOMAIN log :
        log[k].ip # Loopback /\ k \in Kept(log, log[k].ip, 0)
        => \E i \in Index : records[i].ip = log[k].ip

ThroughInv == PeriodsBounded /\ KeptOnRecord /\ ThroughBounded

LEMMA KeptIsFinite ==
    ASSUME TypeOK, NEW a, NEW t
    PROVE  IsFiniteSet(Kept(log, a, t)) /\ Cardinality(Kept(log, a, t)) \in Nat
<1>1. Len(log) \in Nat /\ DOMAIN log = 1 .. Len(log)
    BY DEF TypeOK
<1>2. IsFiniteSet(1 .. Len(log)) /\ Kept(log, a, t) \subseteq 1 .. Len(log)
    BY <1>1, FS_Interval DEF Kept
<1> QED
    BY <1>2, FS_Subset, FS_CardinalityType

LEMMA FewerAreFew ==
    ASSUME NEW S, NEW T, T \subseteq S, IsFiniteSet(S), Few(S)
    PROVE  Few(T)
<1>1. Cardinality(T) <= Cardinality(S) /\ Cardinality(T) \in Nat /\ Cardinality(S) \in Nat
    BY FS_Subset, FS_CardinalityType
<1> QED
    BY <1>1 DEF Few

\* Of an address that sends a packet, at most that is let through anew; of the
\* others none.
LEMMA KeptGrows ==
    ASSUME TypeOK, NEW p \in Packet, log' = Append(log, p), Len(log) < MaxPackets,
           now' = now, NEW a, NEW t \in Int
    PROVE  /\ IsFiniteSet(Kept(log', a, t)) /\ Cardinality(Kept(log', a, t)) \in Nat
           /\ Cardinality(Kept(log', a, t)) <= Cardinality(Kept(log, a, t)) + 1
           /\ a # p.ip \/ p.dropped \/ p.at < t => Kept(log', a, t) \subseteq Kept(log, a, t)
<1> DEFINE n == Len(log) + 1
<1>1. /\ DOMAIN log = 1 .. Len(log) /\ DOMAIN log' = 1 .. n
      /\ \A k \in DOMAIN log : log'[k] = log[k] /\ log[k] \in Packet
      /\ log'[n] = p
      /\ Len(log) \in Nat
    BY LogGrows
<1>2. Kept(log', a, t) \subseteq Kept(log, a, t) \cup {n}
    <2> SUFFICES ASSUME NEW k \in Kept(log', a, t), k # n
                 PROVE  k \in Kept(log, a, t)
        OBVIOUS
    <2>1. k \in DOMAIN log /\ log'[k] = log[k]
        BY <1>1 DEF Kept
    <2>2. \A l \in DOMAIN log : l \in DOMAIN log' /\ log'[l] = log[l]
        BY <1>1
    <2> QED
        BY <2>1, <2>2 DEF Kept
<1>3. ASSUME a # p.ip \/ p.dropped \/ p.at < t
      PROVE  n \notin Kept(log', a, t)
    <2>1. p.at \in Nat
        BY DEF Packet, Instants
    <2>2. n \in DOMAIN log'
        BY <1>1
    <2> QED
        BY <1>1, <1>3, <2>1, <2>2 DEF Kept
<1> HIDE DEF n
<1>4. IsFiniteSet(Kept(log, a, t)) /\ Cardinality(Kept(log, a, t)) \in Nat
    BY KeptIsFinite
<1>5. /\ IsFiniteSet(Kept(log, a, t) \cup {n})
      /\ Cardinality(Kept(log, a, t) \cup {n}) <= Cardinality(Kept(log, a, t)) + 1
      /\ Cardinality(Kept(log, a, t) \cup {n}) \in Nat
    <2>1. /\ IsFiniteSet(Kept(log, a, t) \cup {n})
          /\ Cardinality(Kept(log, a, t) \cup {n})
                = IF n \in Kept(log, a, t) THEN Cardinality(Kept(log, a, t))
                                           ELSE Cardinality(Kept(log, a, t)) + 1
        BY <1>4, FS_AddElement
    <2> QED
        BY <1>4, <2>1
<1>6. /\ IsFiniteSet(Kept(log', a, t)) /\ Cardinality(Kept(log', a, t)) \in Nat
      /\ Cardinality(Kept(log', a, t)) <= Cardinality(Kept(log, a, t) \cup {n})
    BY <1>2, <1>5, FS_Subset, FS_CardinalityType
<1> QED
    BY <1>2, <1>3, <1>4, <1>5, <1>6

\* A longer time holds no fewer packets.
LEMMA KeptShrinks ==
    ASSUME TypeOK, NEW a, NEW t \in Int, NEW u \in Int, t <= u
    PROVE  /\ Kept(log, a, u) \subseteq Kept(log, a, t)
           /\ Cardinality(Kept(log, a, u)) <= Cardinality(Kept(log, a, t))
<1>1. ASSUME NEW k \in DOMAIN log
      PROVE  log[k].at \in Nat
    <2>1. log[k] \in Packet
        BY DEF TypeOK
    <2> QED
        BY <2>1 DEF Packet, Instants
<1>2. Kept(log, a, u) \subseteq Kept(log, a, t)
    BY <1>1 DEF Kept
<1> QED
    BY <1>2, KeptIsFinite, FS_Subset

LEMMA CheckThrottleThrough ==
    ASSUME TypeOK, ThroughInv, NEW ip \in Ip, CheckThrottle(ip)
    PROVE  ThroughInv'
<1>1. PeriodsBounded /\ KeptOnRecord /\ ThroughBounded /\ now' = now /\ Len(log) < MaxPackets
    BY DEF ThroughInv, CheckThrottle
<1>2. TrackedTooLong(ip) \/ Known(ip) \/ Newcomer(ip)
    BY DEF CheckThrottle
<1>3. PICK i \in Index, r \in ThrottlerRecord, dropped \in BOOLEAN, forgets \in Ip \cup {NoIp} :
         /\ Replaces(ip, i, r, dropped, forgets)
         /\ dropped => /\ r.ip = ip /\ r.packets > RateLimit
                       /\ r.expiration = now + NaughtyTimeout
         /\ r.packets > RateLimit => dropped
         /\ \/ r.packets = 0 /\ r.expiration = now /\ r.ip = Loopback /\ forgets = ip
            \/ /\ r.ip = ip /\ forgets # ip
               /\ records[i].ip = ip => now >= records[i].expiration
               /\ r.packets = 1 /\ (~dropped => r.expiration = now + Period)
            \/ /\ r.ip = ip /\ forgets # ip
               /\ records[i].ip = ip /\ now < records[i].expiration
               /\ r.packets = records[i].packets + 1
               /\ ~dropped => r.expiration = records[i].expiration
         /\ \/ records[i].ip = ip /\ r.ip = Loopback /\ forgets = ip
            \/ /\ records[i].ip = ip /\ r.ip = ip /\ forgets = NoIp
               /\ records[i].packets > RateLimit /\ now < records[i].expiration => dropped
            \/ /\ \A j \in Index : records[j].ip # ip
               /\ r.ip = ip /\ forgets = records[i].ip /\ i = Lamest
    BY <1>2, CallReplaces
<1> DEFINE p == [ip |-> ip, at |-> now, dropped |-> dropped, forgets |-> forgets]
           n == Len(log) + 1
           window == now - Period + 1
<1>4. p \in Packet /\ log' = Append(log, p) /\ now \in Nat /\ window \in Int
    BY <1>3 DEF Packet, TypeOK, Instants, Replaces, Logged
<1>5. /\ DOMAIN log = 1 .. Len(log) /\ DOMAIN log' = 1 .. n
      /\ \A k \in DOMAIN log : log'[k] = log[k] /\ log[k] \in Packet
      /\ log'[n] = p
      /\ Len(log) \in Nat
    BY <1>1, <1>4, LogGrows
<1>6. /\ records \in [Index -> ThrottlerRecord]
      /\ \A j \in Index : records'[j] = IF j = i THEN r ELSE records[j]
    BY <1>3 DEF TypeOK, Replaces
<1>7. ASSUME NEW a, NEW t \in Int
      PROVE  /\ IsFiniteSet(Kept(log', a, t)) /\ Cardinality(Kept(log', a, t)) \in Nat
             /\ Cardinality(Kept(log', a, t)) <= Cardinality(Kept(log, a, t)) + 1
             /\ a # ip \/ dropped \/ now < t => Kept(log', a, t) \subseteq Kept(log, a, t)
             /\ IsFiniteSet(Kept(log, a, t)) /\ Cardinality(Kept(log, a, t)) \in Nat
    BY <1>1, <1>4, KeptGrows, KeptIsFinite
<1>8. ASSUME NEW a, NEW t \in Int, a # ip \/ dropped \/ now < t
      PROVE  Cardinality(Kept(log', a, t)) <= Cardinality(Kept(log, a, t))
    BY <1>7, <1>8, FS_Subset
<1>9. \A k \in DOMAIN log' : (k \in DOMAIN log /\ k < n) \/ k = n
    BY <1>5 DEF n
<1>10. \A k \in DOMAIN log : log[k].at \in Nat /\ log[k].at <= now
    <2>1. \A k \in DOMAIN log : log[k].at \in Nat
        BY <1>5 DEF Packet, Instants
    <2> QED
        BY <2>1 DEF TypeOK
<1>11. /\ r.expiration \in Nat /\ r.packets \in Nat
       /\ \A q \in Index : records[q].expiration \in Nat /\ records[q].packets \in Nat
    BY <1>6 DEF ThrottlerRecord
<1> HIDE DEF n, window
\* An address without a record has no packets to count.
<1>12. ASSUME ip # Loopback, \A j \in Index : records[j].ip # ip, NEW t \in Int
       PROVE  Kept(log, ip, t) = {}
    <2>1. \A k \in Kept(log, ip, t) : k \in DOMAIN log /\ log[k].ip = ip /\ k \in Kept(log, ip, 0)
        BY <1>10 DEF Kept
    <2> QED
        BY <2>1, <1>1, <1>12 DEF KeptOnRecord
\* What got through in the period that ends now, when a new one begins...
<1>13. ASSUME NaughtyTimeout >= Period, ip # Loopback, forgets # ip,
              records[i].ip = ip => now >= records[i].expiration
       PROVE  \/ Kept(log, ip, window) = {}
              \/ Cardinality(Kept(log, ip, window)) <= RateLimit - 1
    <2>1. CASE records[i].ip # ip
        BY <2>1, <1>3, <1>4, <1>12, <1>13
    <2>2. CASE /\ records[i].ip = ip
               /\ \A k \in Kept(log, ip, 0) : log[k].at + NaughtyTimeout <= records[i].expiration
        <3>1. \A k \in Kept(log, ip, window) :
                 k \in DOMAIN log /\ log[k].at >= window /\ k \in Kept(log, ip, 0)
            BY <1>10 DEF Kept
        <3>2. \A k \in Kept(log, ip, window) : FALSE
            BY <3>1, <2>2, <1>4, <1>10, <1>11, <1>13, SMTT(30) DEF window
        <3> QED
            BY <3>2
    <2>3. CASE /\ records[i].ip = ip /\ records[i].packets <= RateLimit
               /\ Cardinality(Kept(log, ip, records[i].expiration - Period + 1))
                     <= records[i].packets - 1
        <3> DEFINE t == records[i].expiration - Period + 1
        <3>1. t \in Int /\ t <= window
            BY <2>3, <1>4, <1>11, <1>13, SMTT(30) DEF window
        <3> HIDE DEF t
        <3>2. /\ Cardinality(Kept(log, ip, window)) <= Cardinality(Kept(log, ip, t))
              /\ Cardinality(Kept(log, ip, window)) \in Nat
              /\ Cardinality(Kept(log, ip, t)) \in Nat
            BY <3>1, <1>4, <1>7, KeptShrinks
        <3>3. Cardinality(Kept(log, ip, t)) <= records[i].packets - 1
            BY <2>3 DEF t
        <3> QED
            BY <3>2, <3>3, <2>3, <1>11
    <2> QED
        BY <2>1, <2>2, <2>3, <1>1, <1>13 DEF PeriodsBounded
\* ... or not.
<1>14. ASSUME NaughtyTimeout >= Period, ip # Loopback, forgets # ip
       PROVE  Few(Kept(log, ip, window))
    <2>1. CASE \/ Kept(log, ip, window) = {}
               \/ Cardinality(Kept(log, ip, window)) <= RateLimit - 1
        BY <2>1, <1>4, <1>7 DEF Few
    <2>2. CASE records[i].ip = ip /\ now < records[i].expiration
        <3>1. CASE /\ records[i].expiration - NaughtyTimeout <= now
                   /\ Few(Kept(log, ip, records[i].expiration - NaughtyTimeout - Period + 1))
            <4> DEFINE e == records[i].expiration
                       t == e - NaughtyTimeout - Period + 1
            <4>1. t \in Int /\ t <= window
                <5>1. e \in Nat /\ e - NaughtyTimeout <= now /\ now \in Nat
                    BY <3>1, <1>4, <1>11
                <5> HIDE DEF e
                <5> QED
                    BY <5>1 DEF window
            <4> HIDE DEF t
            <4>2. Kept(log, ip, window) \subseteq Kept(log, ip, t)
                BY <4>1, <1>4, KeptShrinks
            <4>3. Few(Kept(log, ip, t))
                BY <3>1 DEF t
            <4> QED
                BY <4>1, <4>2, <4>3, <1>7, FewerAreFew
        <3>2. CASE /\ records[i].packets <= RateLimit
                   /\ records[i].expiration - Period <= now
                   /\ Cardinality(Kept(log, ip, records[i].expiration - Period + 1))
                         <= records[i].packets - 1
                   /\ Cardinality(Kept(log, ip, records[i].expiration - 2 * Period + 1))
                         <= records[i].packets + RateLimit - 1
            <4> DEFINE e == records[i].expiration
                       t == e - 2 * Period + 1
            <4>1. t \in Int /\ t <= window
                <5>1. e \in Nat /\ e - Period <= now /\ now \in Nat
                    BY <3>2, <1>4, <1>11
                <5> HIDE DEF e
                <5> QED
                    BY <5>1 DEF window
            <4> HIDE DEF t
            <4>2. /\ Cardinality(Kept(log, ip, window)) <= Cardinality(Kept(log, ip, t))
                  /\ Cardinality(Kept(log, ip, window)) \in Nat
                  /\ Cardinality(Kept(log, ip, t)) \in Nat
                BY <4>1, <1>4, <1>7, KeptShrinks
            <4>3. Cardinality(Kept(log, ip, t)) <= records[i].packets + RateLimit - 1
                BY <3>2 DEF t
            <4> QED
                BY <4>2, <4>3, <3>2, <1>11 DEF Few
        <3> QED
            BY <3>1, <3>2, <2>2, <1>1, <1>14 DEF PeriodsBounded
    <2> QED
        BY <2>1, <2>2, <1>3, <1>4, <1>11, <1>13, <1>14
<1>15. PeriodsBounded'
    <2> SUFFICES ASSUME NaughtyTimeout >= Period, NEW j \in Index, records'[j].ip # Loopback
                 PROVE  LET s == records'[j] IN
                        \/ /\ s.packets > RateLimit
                           /\ s.expiration - NaughtyTimeout <= now
                           /\ \A k \in Kept(log', s.ip, 0) :
                                 log'[k].at + NaughtyTimeout <= s.expiration
                           /\ Few(Kept(log', s.ip, s.expiration - NaughtyTimeout - Period + 1))
                        \/ /\ s.packets <= RateLimit
                           /\ s.expiration - Period <= now
                           /\ Cardinality(Kept(log', s.ip, s.expiration - Period + 1))
                                 <= s.packets - 1
                           /\ Cardinality(Kept(log', s.ip, s.expiration - 2 * Period + 1))
                                 <= s.packets + RateLimit - 1
        BY <1>1 DEF PeriodsBounded
    <2>1. CASE j # i
        <3> DEFINE s == records[j]
        <3>1. records'[j] = s /\ s.ip # Loopback
            BY <2>1, <1>6
        <3>2. s.ip # ip
            BY <2>1, <3>1, <1>3 DEF TypeOK
        <3>3. s.expiration \in Nat /\ s.packets \in Nat
            BY <1>11
        <3>4. CASE /\ s.packets > RateLimit
                   /\ s.expiration - NaughtyTimeout <= now
                   /\ \A k \in Kept(log, s.ip, 0) : log[k].at + NaughtyTimeout <= s.expiration
                   /\ Few(Kept(log, s.ip, s.expiration - NaughtyTimeout - Period + 1))
            <4> HIDE DEF s
            <4>1. \A k \in Kept(log', s.ip, 0) :
                     k \in Kept(log, s.ip, 0) /\ k \in DOMAIN log /\ log'[k] = log[k]
                <5>1. Kept(log', s.ip, 0) \subseteq Kept(log, s.ip, 0)
                    BY <3>2, <1>7
                <5> QED
                    BY <5>1, <1>5 DEF Kept
            <4> DEFINE t == s.expiration - NaughtyTimeout - Period + 1
            <4>2. t \in Int
                BY <3>3
            <4> HIDE DEF t
            <4>3. Kept(log', s.ip, t) \subseteq Kept(log, s.ip, t) /\ IsFiniteSet(Kept(log, s.ip, t))
                BY <4>2, <3>2, <1>7
            <4>4. Few(Kept(log', s.ip, t))
                BY <4>3, <3>4, FewerAreFew DEF t
            <4> QED
                BY <4>1, <4>4, <3>1, <3>4 DEF t
        <3>5. CASE /\ s.packets <= RateLimit
                   /\ s.expiration - Period <= now
                   /\ Cardinality(Kept(log, s.ip, s.expiration - Period + 1)) <= s.packets - 1
                   /\ Cardinality(Kept(log, s.ip, s.expiration - 2 * Period + 1))
                         <= s.packets + RateLimit - 1
            <4> HIDE DEF s
            <4> DEFINE t == s.expiration - Period + 1
                       u == s.expiration - 2 * Period + 1
            <4>1. t \in Int /\ u \in Int
                BY <3>3
            <4> HIDE DEF t, u
            <4>2. /\ Cardinality(Kept(log', s.ip, t)) <= Cardinality(Kept(log, s.ip, t))
                  /\ Cardinality(Kept(log', s.ip, u)) <= Cardinality(Kept(log, s.ip, u))
                BY <4>1, <3>2, <1>8
            <4>3. /\ Cardinality(Kept(log', s.ip, t)) \in Nat /\ Cardinality(Kept(log, s.ip, t)) \in Nat
                  /\ Cardinality(Kept(log', s.ip, u)) \in Nat /\ Cardinality(Kept(log, s.ip, u)) \in Nat
                BY <4>1, <1>7
            <4>4. /\ Cardinality(Kept(log, s.ip, t)) <= s.packets - 1
                  /\ Cardinality(Kept(log, s.ip, u)) <= s.packets + RateLimit - 1
                BY <3>5 DEF t, u
            <4>5. /\ Cardinality(Kept(log', s.ip, t)) <= s.packets - 1
                  /\ Cardinality(Kept(log', s.ip, u)) <= s.packets + RateLimit - 1
                BY <4>2, <4>3, <4>4, <3>3
            <4> QED
                BY <4>5, <3>1, <3>5 DEF t, u
        <3> QED
            BY <3>1, <3>4, <3>5, <2>1, <1>1 DEF PeriodsBounded
    <2>2. CASE j = i
        <3>1. records'[j] = r /\ r.ip = ip /\ ip # Loopback /\ forgets # ip
            BY <2>2, <1>3, <1>6
        <3>2. CASE dropped
            <4>1. r.expiration - NaughtyTimeout = now /\ r.packets > RateLimit
                BY <3>2, <1>3, <1>4
            <4>2. \A k \in Kept(log', ip, 0) : k \in DOMAIN log /\ log'[k] = log[k]
                <5>1. Kept(log', ip, 0) \subseteq Kept(log, ip, 0)
                    BY <3>2, <1>7
                <5> QED
                    BY <5>1, <1>5 DEF Kept
            <4>3. \A k \in Kept(log', ip, 0) : log'[k].at + NaughtyTimeout <= r.expiration
                BY SMTT(30), <4>1, <4>2, <1>4, <1>10, <1>11
            <4>4. Few(Kept(log', ip, window))
                <5>1. Kept(log', ip, window) \subseteq Kept(log, ip, window)
                    BY <3>2, <1>4, <1>7
                <5> QED
                    BY <5>1, <3>1, <1>4, <1>7, <1>14, FewerAreFew
            <4>5. r.expiration - NaughtyTimeout - Period + 1 = window
                BY <4>1, <1>4, <1>11 DEF window
            <4>6. Few(Kept(log', ip, r.expiration - NaughtyTimeout - Period + 1))
                BY <4>4, <4>5
            <4>7. r.expiration - NaughtyTimeout <= now
                BY <4>1, <1>4
            <4> QED
                BY <4>1, <4>3, <4>6, <4>7, <3>1
        <3>3. CASE ~dropped /\ r.packets = 1 /\ r.expiration = now + Period
                   /\ (records[i].ip = ip => now >= records[i].expiration)
            <4>1. 1 <= RateLimit
                BY <3>3, <1>3
            <4>2. r.expiration - Period + 1 = now + 1 /\ r.expiration - 2 * Period + 1 = window
                BY <3>3, <1>4 DEF window
            <4>3. Cardinality(Kept(log', ip, now + 1)) = 0
                <5>1. \A k \in DOMAIN log' : log'[k].at <= now
                    BY <1>5, <1>9, <1>10, <1>4
                <5>2. Kept(log', ip, now + 1) = {}
                    <6>1. \A k \in Kept(log', ip, now + 1) :
                             k \in DOMAIN log' /\ log'[k].at >= now + 1
                        BY DEF Kept
                    <6>2. \A k \in DOMAIN log' : log'[k].at \in Nat
                        BY <1>5, <1>9, <1>10, <1>4
                    <6> QED
                        BY <5>1, <6>1, <6>2, <1>4
                <5> QED
                    BY <5>2, FS_EmptySet
            <4>4. Cardinality(Kept(log', ip, window)) <= RateLimit
                <5>1. /\ Cardinality(Kept(log', ip, window)) <= Cardinality(Kept(log, ip, window)) + 1
                      /\ Cardinality(Kept(log', ip, window)) \in Nat
                      /\ Cardinality(Kept(log, ip, window)) \in Nat
                    BY <1>4, <1>7
                <5>2. Cardinality(Kept(log, ip, window)) <= RateLimit - 1
                    <6>1. CASE Kept(log, ip, window) = {}
                        BY <6>1, <4>1, FS_EmptySet
                    <6>2. CASE Cardinality(Kept(log, ip, window)) <= RateLimit - 1
                        BY <6>2
                    <6> QED
                        BY <6>1, <6>2, <3>1, <3>3, <1>13
                <5> QED
                    BY <5>1, <5>2
            <4>5. /\ Cardinality(Kept(log', ip, r.expiration - Period + 1)) <= r.packets - 1
                  /\ Cardinality(Kept(log', ip, r.expiration - 2 * Period + 1))
                        <= r.packets + RateLimit - 1
                BY <4>2, <4>3, <4>4, <3>3
            <4> QED
                BY <4>1, <4>5, <3>1, <3>3, <1>4
        <3>4. CASE /\ ~dropped /\ records[i].ip = ip /\ now < records[i].expiration
                   /\ r.packets = records[i].packets + 1
                   /\ r.expiration = records[i].expiration
            <4>1. r.packets <= RateLimit /\ records[i].packets <= RateLimit
                BY <3>4, <1>3, <1>11
            <4> DEFINE t == r.expiration - Period + 1
                       u == r.expiration - 2 * Period + 1
            <4>2. /\ r.expiration - Period <= now
                  /\ Cardinality(Kept(log, ip, t)) <= records[i].packets - 1
                  /\ Cardinality(Kept(log, ip, u)) <= records[i].packets + RateLimit - 1
                BY <4>1, <3>1, <3>4, <1>1, <1>11, SMTT(30) DEF PeriodsBounded
            <4>3. t \in Int /\ u \in Int
                BY <1>11
            <4> HIDE DEF t, u
            <4>4. /\ Cardinality(Kept(log', ip, t)) <= Cardinality(Kept(log, ip, t)) + 1
                  /\ Cardinality(Kept(log', ip, u)) <= Cardinality(Kept(log, ip, u)) + 1
                  /\ Cardinality(Kept(log', ip, t)) \in Nat /\ Cardinality(Kept(log, ip, t)) \in Nat
                  /\ Cardinality(Kept(log', ip, u)) \in Nat /\ Cardinality(Kept(log, ip, u)) \in Nat
                BY <4>3, <1>7
            <4>5. /\ Cardinality(Kept(log', ip, t)) <= r.packets - 1
                  /\ Cardinality(Kept(log', ip, u)) <= r.packets + RateLimit - 1
                BY <4>2, <4>4, <3>4, <1>11
            <4> QED
                BY <4>1, <4>2, <4>5, <3>1 DEF t, u
        <3> QED
            BY <3>1, <3>2, <3>3, <3>4, <1>3
    <2> QED
        BY <2>1, <2>2
<1>16. KeptOnRecord'
    <2> SUFFICES ASSUME NEW k \in DOMAIN log', log'[k].ip # Loopback,
                        k \in Kept(log', log'[k].ip, 0)
                 PROVE  \E j \in Index : records'[j].ip = log'[k].ip
        BY DEF KeptOnRecord
    <2>1. forgets # log'[k].ip
        <3>1. n \in DOMAIN log' /\ k <= n
            BY <1>5, <1>9 DEF n
        <3> QED
            BY <3>1, <1>5 DEF Kept
    <2>2. CASE log'[k].ip = ip
        BY <2>1, <2>2, <1>3, <1>6
    <2>3. CASE log'[k].ip # ip
        <3>1. k \in DOMAIN log /\ log'[k] = log[k]
            BY <2>3, <1>5, <1>9
        <3>2. k \in Kept(log, log[k].ip, 0)
            BY <2>3, <3>1, <1>7
        <3>3. PICK j \in Index : records[j].ip = log[k].ip
            BY <3>1, <3>2, <1>1 DEF KeptOnRecord
        <3>4. j # i
            BY <2>1, <2>3, <3>1, <3>3, <1>3
        <3> QED
            BY <3>1, <3>3, <3>4, <1>6
    <2> QED
        BY <2>2, <2>3
<1>17. ThroughBounded'
    <2> DEFINE through(j) == {k \in 1 .. j : /\ log'[k].ip = log'[j].ip /\ ~log'[k].dropped
                                             /\ log'[k].at > log'[j].at - Period}
    <2> SUFFICES ASSUME NEW j \in DOMAIN log', NaughtyTimeout >= Period, log'[j].ip # Loopback,
                        \A k \in through(j) : \A l \in k .. j : log'[l].forgets # log'[j].ip
                 PROVE  Few(through(j))
        BY DEF ThroughBounded, RecordKept, Few
    <2>1. CASE j \in DOMAIN log
        <3>1. log'[j] = log[j] /\ \A k \in 1 .. j : k \in DOMAIN log /\ log'[k] = log[k]
            BY <2>1, <1>5
        <3> DEFINE before == {k \in 1 .. j : /\ log[k].ip = log[j].ip /\ ~log[k].dropped
                                             /\ log[k].at > log[j].at - Period}
        <3>2. through(j) = before
            BY <3>1
        <3>3. \A k \in before : RecordKept(k, j)
            <4>1. \A k \in before : \A l \in k .. j : l \in 1 .. j
                BY <2>1, <1>5
            <4> QED
                BY <3>1, <3>2, <4>1 DEF RecordKept
        <3> QED
            BY <3>1, <3>2, <3>3, <2>1, <1>1 DEF ThroughBounded, Few
    <2>2. CASE j = n
        <3>1. log'[j] = p /\ DOMAIN log' = 1 .. j /\ j \in Nat /\ ip # Loopback
            BY <2>2, <1>5 DEF n
        <3>2. \A k \in DOMAIN log' : log'[k].at \in Nat /\ log'[k].at <= now
            BY <1>4, <1>5, <1>9, <1>10
        <3>3. through(j) \subseteq Kept(log', ip, window)
            <4> SUFFICES ASSUME NEW k \in through(j)
                         PROVE  k \in Kept(log', ip, window)
                OBVIOUS
            <4>1. k \in DOMAIN log' /\ log'[k].ip = ip /\ ~log'[k].dropped
                BY <3>1
            <4>2. log'[k].at >= window
                BY <3>1, <3>2, <4>1, <1>4 DEF window
            <4>3. \A l \in DOMAIN log' : k <= l => l \in k .. j
                BY <3>1
            <4> QED
                BY <3>1, <4>1, <4>2, <4>3 DEF Kept
        <3>4. CASE forgets = ip
            <4>1. j \notin through(j)
                BY <3>1, <3>4
            <4>2. Period <= 0
                BY <3>1, <3>4, <4>1, <1>3, <1>4
            <4>3. through(j) = {}
                BY <3>1, <3>2, <4>2, <1>4
            <4> QED
                BY <4>3 DEF Few
        <3>5. CASE forgets # ip
            <4>1. Few(Kept(log', ip, window))
                <5>1. CASE dropped
                    <6>1. Kept(log', ip, window) \subseteq Kept(log, ip, window)
                        BY <5>1, <1>4, <1>7
                    <6> QED
                        BY <6>1, <3>1, <3>5, <1>4, <1>7, <1>14, FewerAreFew
                <5>2. CASE ~dropped
                    <6>1. records'[i] = r /\ r.ip = ip /\ r.packets <= RateLimit
                        BY <5>2, <3>1, <3>5, <1>3, <1>6, <1>11
                    <6> DEFINE u == r.expiration - 2 * Period + 1
                    <6>2. /\ r.expiration - Period <= now
                          /\ Cardinality(Kept(log', ip, u)) <= r.packets + RateLimit - 1
                        <7>1. \/ records'[i].packets > RateLimit
                              \/ /\ records'[i].expiration - Period <= now'
                                 /\ Cardinality(Kept(log', records'[i].ip,
                                                     records'[i].expiration - 2 * Period + 1))
                                       <= records'[i].packets + RateLimit - 1
                            BY <6>1, <3>1, <1>15 DEF PeriodsBounded
                        <7>2. ~(r.packets > RateLimit)
                            BY <6>1, <1>11
                        <7> QED
                            BY <6>1, <7>1, <7>2, <1>1
                    <6>3. u \in Int /\ u <= window
                        BY <6>2, <1>4, <1>11, SMTT(30) DEF window
                    <6> HIDE DEF u
                    <6>4. Kept(log', ip, window) \subseteq Kept(log', ip, u)
                        BY <3>2, <6>3, <1>4, SMTT(30) DEF Kept
                    <6>5. IsFiniteSet(Kept(log', ip, u)) /\ Cardinality(Kept(log', ip, u)) \in Nat
                        BY <6>3, <1>7
                    <6>6. Few(Kept(log', ip, u))
                        BY <6>1, <6>2, <6>5, <1>11 DEF Few
                    <6> QED
                        BY <6>4, <6>5, <6>6, FewerAreFew
                <5> QED
                    BY <5>1, <5>2
            <4> HIDE DEF through
            <4> QED
                BY <4>1, <3>3, <1>4, <1>7, FewerAreFew
        <3> QED
            BY <3>4, <3>5
    <2> QED
        BY <2>1, <2>2, <1>9
<1> QED
    BY <1>15, <1>16, <1>17 DEF ThroughInv

LEMMA ThroughNext == TypeOK /\ ThroughInv /\ [Next]_vars => ThroughInv'
<1> SUFFICES ASSUME TypeOK, ThroughInv, [Next]_vars
             PROVE  ThroughInv'
    OBVIOUS
<1>1. ASSUME NEW ip \in Ip, CheckThrottle(ip)
      PROVE  ThroughInv'
    BY <1>1, CheckThrottleThrough
<1>2. CASE Restart
    BY <1>2 DEF Restart, ThroughInv, PeriodsBounded, KeptOnRecord, ThroughBounded, Blank
<1>3. CASE Tick \/ UNCHANGED vars
    <2>1. now \in Nat /\ now <= now' /\ now' \in Nat /\ records' = records /\ log' = log
        BY <1>3 DEF Tick, vars, TypeOK, Instants
    <2>2. \A i \in Index : records[i].expiration \in Nat
        BY DEF TypeOK, ThrottlerRecord
    <2>3. PeriodsBounded'
        BY <2>1, <2>2 DEF ThroughInv, PeriodsBounded
    <2>4. KeptOnRecord' /\ ThroughBounded'
        BY <2>1 DEF ThroughInv, KeptOnRecord, ThroughBounded, RecordKept
    <2> QED
        BY <2>3, <2>4 DEF ThroughInv
<1> QED
    BY <1>1, <1>2, <1>3 DEF Next

----------------------------------------------------------------------------
\* One record per address, and a history that grows with the clock.
THEOREM ThrottlerTypeCorrect == Spec => []TypeOK
<1>1. ThInv => TypeOK
    BY DEF ThInv
<1> QED
    BY <1>1, ThrottlerInvariant, PTL

\* A block lasts as long as its record is kept.
THEOREM BlocksLast == Spec => []StaysBlocked
<1>1. ThInv => StaysBlocked
    BY DEF ThInv
<1> QED
    BY <1>1, ThrottlerInvariant, PTL

\* Whoever is blocked has sent too much, within a period or within a block.
THEOREM BlocksAreEarned == Spec => []NoFalseBlock
<1>1. ThInv => NoFalseBlock
    BY DEF ThInv
<1> QED
    BY <1>1, ThrottlerInvariant, PTL

\* A newcomer that is given the record of a blocked address found all records
\* in use by addresses that were blocked.
THEOREM BlockedAreForgottenLast == Spec => []BlockedForgottenLast
<1>1. ThInv => BlockedForgottenLast
    BY DEF ThInv
<1> QED
    BY <1>1, ThrottlerInvariant, PTL

\* Within any stretch of a period, an address gets fewer than twice the limit
\* through, while its record is kept.
THEOREM ThroughIsBounded == Spec => []ThroughBounded
<1>1. Init => ThroughInv
    BY DEF Init, ThroughInv, PeriodsBounded, KeptOnRecord, ThroughBounded, Blank
<1>2. TypeOK /\ ThroughInv /\ [Next]_vars => ThroughInv'
    BY ThroughNext
<1>3. ThroughInv => ThroughBounded
    BY DEF ThroughInv
<1> QED
    BY <1>1, <1>2, <1>3, ThrottlerTypeCorrect, PTL DEF Spec

============================================================================
