------------------------- MODULE Announcements_proofs -------------------------
(***************************************************************************)
(* The life of a token, for every rotation interval and bound on the       *)
(* clock.  The invariant says how old a token of the current secret, of    *)
(* the one before, and of an earlier one is, in terms of the time since    *)
(* the last rotation.                                                      *)
(*                                                                         *)
(* Then the peers, for any capacities of the caches: the caches are well   *)
(* formed (CachesOK), which takes what put and get do to any cache, and    *)
(* those that a response serves are the freshest.                          *)
(*                                                                         *)
(* At the end, Packets: the messages that carry all this, for any values   *)
(* of their fields and any dictionary from elsewhere.                      *)
(***************************************************************************)
EXTENDS Announcements, Packets, FiniteSetTheorems, WellFoundedInduction, TLAPS

SinceRotation == Rotation - to_rotation

SecretsInOrder ==
    /\ token_secret \in Nat /\ old_token_secret \in Nat
    /\ \/ old_token_secret = token_secret - 1
       \/ old_token_secret = 0 /\ token_secret = 0
    /\ to_rotation \in 0 .. Rotation
    /\ now \in Nat

\* The age of token h in terms of the last rotation.
Dated(h) ==
    /\ h.token.secret \in Nat /\ h.at \in Nat
    /\ h.at <= now
    /\ h.token.secret <= token_secret
    /\ h.token.secret = token_secret => now - h.at <= SinceRotation
    /\ h.token.secret = token_secret - 1 =>
         /\ now - h.at >= SinceRotation
         /\ now - h.at <= Rotation + SinceRotation
    /\ h.token.secret < token_secret - 1 => now - h.at >= Rotation + SinceRotation

TInv ==
    /\ SecretsInOrder
    /\ DOMAIN held = Ip
    /\ \A ip \in Ip : held[ip] # NoToken =>
         /\ held[ip].token = calculate_token(ip, held[ip].token.secret)
         /\ Dated(held[ip])

USE AnnouncementsAssumption, NoTokenAssumption

----------------------------------------------------------------------------
LEMMA TokensInit == Init => TInv
    BY DEF Init, TInv, SecretsInOrder

\* A fresh token is dated, and belongs to whoever asked.
LEMMA GetPeersDated ==
    ASSUME TInv, NEW ip \in Ip, NEW info_hash, GetPeers(ip, info_hash)
    PROVE  TInv'
<1> DEFINE h == [token |-> calculate_token(ip, token_secret), at |-> now]
<1>1. UNCHANGED <<token_secret, old_token_secret, to_rotation, now>>
    BY DEF GetPeers, tokenVars
<1>2. /\ DOMAIN held' = Ip /\ held'[ip] = h
      /\ \A j \in Ip : j # ip => held'[j] = held[j]
    BY DEF GetPeers, TInv
<1>3. h.token = calculate_token(ip, h.token.secret) /\ h.token.secret = token_secret
      /\ h.at = now
    BY DEF calculate_token
<1> HIDE DEF h
<1>4. Dated(h)
    BY <1>3 DEF TInv, SecretsInOrder, Dated, SinceRotation
<1> QED
    BY <1>1, <1>2, <1>3, <1>4 DEF TInv, SecretsInOrder, Dated, SinceRotation

\* A rotation makes the current tokens old, and old ones worthless.
LEMMA RotateDated ==
    ASSUME TInv, RotateTokenSecrets
    PROVE  TInv'
<1>1. /\ to_rotation = 0 /\ old_token_secret' = token_secret
      /\ token_secret' = token_secret + 1 /\ to_rotation' = Rotation
      /\ held' = held /\ now' = now
    BY DEF RotateTokenSecrets
<1>2. SecretsInOrder'
    BY <1>1 DEF TInv, SecretsInOrder
<1>3. ASSUME NEW h, Dated(h)
      PROVE  Dated(h)'
    BY <1>1, <1>3 DEF TInv, SecretsInOrder, Dated, SinceRotation
<1> QED
    BY <1>1, <1>2, <1>3 DEF TInv

LEMMA TickDated ==
    ASSUME TInv, Tick
    PROVE  TInv'
<1>1. /\ to_rotation > 0 /\ now' = now + 1 /\ to_rotation' = to_rotation - 1
      /\ UNCHANGED <<token_secret, old_token_secret, held>>
    BY DEF Tick
<1>2. SecretsInOrder'
    BY <1>1 DEF TInv, SecretsInOrder
<1>3. ASSUME NEW h, Dated(h)
      PROVE  Dated(h)'
    BY <1>1, <1>3 DEF TInv, SecretsInOrder, Dated, SinceRotation
<1> QED
    BY <1>1, <1>2, <1>3 DEF TInv

LEMMA TokensNext == TInv /\ [Next]_vars => TInv'
<1> SUFFICES ASSUME TInv, [Next]_vars
             PROVE  TInv'
    OBVIOUS
<1>1. CASE \/ UNCHANGED vars
           \/ \E addr \in SocketAddr, holder \in Ip, info_hash \in InfoHash :
                  AnnouncePeer(addr, holder, info_hash)
    <2>1. UNCHANGED <<token_secret, old_token_secret, held, to_rotation, now>>
        BY <1>1 DEF vars, AnnouncePeer, tokenVars
    <2> QED
        BY <2>1 DEF TInv, SecretsInOrder, Dated, SinceRotation
<1> QED
    BY <1>1, GetPeersDated, RotateDated, TickDated DEF Next

THEOREM TokensDated == Spec => []TInv
    BY TokensInit, TokensNext, PTL DEF Spec

----------------------------------------------------------------------------
\* A token is accepted from its address for a whole rotation interval.
THEOREM TokensServe == Spec => []TokenServesOneInterval
<1>1. TInv => TokenServesOneInterval
    <2> SUFFICES ASSUME TInv, NEW ip \in Ip, held[ip] # NoToken, now - held[ip].at < Rotation
                 PROVE  IsTokenValid(held[ip].token, ip)
        BY DEF TokenServesOneInterval
    <2> DEFINE s == held[ip].token.secret
    <2>1. held[ip].token = calculate_token(ip, s) /\ Dated(held[ip]) /\ SecretsInOrder
        BY DEF TInv
    <2>2. s = token_secret \/ s = old_token_secret
        BY <2>1 DEF Dated, SecretsInOrder, SinceRotation
    <2> QED
        BY <2>1, <2>2 DEF IsTokenValid
<1> QED
    BY <1>1, TokensDated, PTL

AcceptedIsRecent ==
    \A addr \in SocketAddr, holder \in Ip :
        held[holder] # NoToken /\ IsTokenValid(held[holder].token, addr.ip)
        => holder = addr.ip /\ now - held[holder].at <= 2 * Rotation

LEMMA AcceptedRecently ==
    ASSUME TInv
    PROVE  AcceptedIsRecent
<1> SUFFICES ASSUME NEW addr \in SocketAddr, NEW holder \in Ip,
                    held[holder] # NoToken, IsTokenValid(held[holder].token, addr.ip)
             PROVE  holder = addr.ip /\ now - held[holder].at <= 2 * Rotation
    BY DEF AcceptedIsRecent
<1> DEFINE s == held[holder].token.secret
<1>1. /\ held[holder].token = calculate_token(holder, s)
      /\ Dated(held[holder]) /\ SecretsInOrder
    BY DEF TInv
<1>2. holder = addr.ip /\ (s = token_secret \/ s = old_token_secret)
    BY <1>1 DEF IsTokenValid, calculate_token
<1> QED
    BY <1>1, <1>2 DEF Dated, SecretsInOrder, SinceRotation

\* What is accepted was sent to the same address two intervals ago at most.
THEOREM TokensExpire == Spec => []AcceptedIsRecent
    BY AcceptedRecently, TokensDated, PTL

----------------------------------------------------------------------------
(* The caches.                                                             *)

Distinct(lru) == \A i, j \in DOMAIN lru : lru[i].key = lru[j].key => i = j

\* The entry used last first.
Ordered(lru) == \A i, j \in DOMAIN lru : i < j => lru[i].value >= lru[j].value

\* An entry found by its key.
LEMMA ValueOfEntry ==
    ASSUME NEW lru, Distinct(lru), NEW e \in Range(lru)
    PROVE  ValueOf(lru, e.key) = e.value
<1>1. PICK i \in DOMAIN lru : lru[i] = e
    BY DEF Range
<1> DEFINE found == CHOOSE f \in Range(lru) : f.key = e.key
<1>2. found \in Range(lru) /\ found.key = e.key
    OBVIOUS
<1>3. PICK j \in DOMAIN lru : lru[j] = found
    BY <1>2 DEF Range
<1>4. found = e
    BY <1>1, <1>2, <1>3 DEF Distinct
<1> QED
    BY <1>4 DEF ValueOf

\* Without its entry a cache has the others, in their order.
LEMMA WithoutProps ==
    ASSUME NEW T, NEW lru \in Seq(T), Distinct(lru), NEW key
    PROVE  /\ Without(lru, key) \in Seq(T)
           /\ Len(Without(lru, key)) <= Len(lru)
           /\ key \notin Keys(Without(lru, key))
           /\ Range(Without(lru, key)) = {e \in Range(lru) : e.key # key}
           /\ Distinct(Without(lru, key))
           /\ Ordered(lru) => Ordered(Without(lru, key))
<1> DEFINE at == CHOOSE i \in DOMAIN lru : lru[i].key = key
           w == [i \in 1 .. Len(lru) - 1 |-> lru[IF i < at THEN i ELSE i + 1]]
<1>1. CASE key \notin Keys(lru)
    <2>1. Without(lru, key) = lru
        BY <1>1 DEF Without
    <2>2. \A e \in Range(lru) : e.key # key
        BY <1>1 DEF Keys
    <2> QED
        BY <1>1, <2>1, <2>2
<1>2. CASE key \in Keys(lru)
    <2>1. Without(lru, key) = w
        BY <1>2 DEF Without
    <2>2. \E i \in DOMAIN lru : lru[i].key = key
        BY <1>2 DEF Keys, Range
    <2>3. at \in 1 .. Len(lru) /\ lru[at].key = key
        BY <2>2
    <2>4. \A i \in 1 .. Len(lru) : i # at => lru[i].key # key
        BY <2>3 DEF Distinct
    <2> HIDE DEF at
    <2>5. w \in Seq(T) /\ Len(w) = Len(lru) - 1 /\ DOMAIN w = 1 .. Len(lru) - 1
        <3>1. \A i \in 1 .. Len(lru) - 1 : lru[IF i < at THEN i ELSE i + 1] \in T
            BY <2>3
        <3>2. Len(lru) - 1 \in Nat
            BY <2>3
        <3> QED
            BY <3>1, <3>2
    <2>6. \A i \in DOMAIN w :
             LET k == IF i < at THEN i ELSE i + 1
             IN  w[i] = lru[k] /\ k \in 1 .. Len(lru) /\ k # at
        BY <2>3, <2>5
    <2>7. \A j \in 1 .. Len(lru) : j # at => \E i \in DOMAIN w : w[i] = lru[j]
        <3> SUFFICES ASSUME NEW j \in 1 .. Len(lru), j # at
                     PROVE  \E i \in DOMAIN w : w[i] = lru[j]
            OBVIOUS
        <3>1. CASE j < at
            BY <2>3, <3>1
        <3>2. CASE j > at
            <4>1. j - 1 \in DOMAIN w /\ w[j - 1] = lru[j]
                BY <2>3, <3>2
            <4> QED
                BY <4>1
        <3> QED
            BY <2>3, <3>1, <3>2
    <2> HIDE DEF w
    <2>8. \A i \in DOMAIN w : w[i].key # key
        BY <2>3, <2>4, <2>5, <2>6
    <2>9. Range(w) = {e \in Range(lru) : e.key # key}
        <3>1. Range(w) \subseteq {e \in Range(lru) : e.key # key}
            <4> SUFFICES ASSUME NEW i \in DOMAIN w
                         PROVE  w[i] \in Range(lru) /\ w[i].key # key
                BY DEF Range
            <4> QED
                BY <2>6, <2>8 DEF Range
        <3>2. {e \in Range(lru) : e.key # key} \subseteq Range(w)
            <4> SUFFICES ASSUME NEW j \in 1 .. Len(lru), lru[j].key # key
                         PROVE  lru[j] \in Range(w)
                BY DEF Range
            <4>1. j # at
                BY <2>3
            <4> QED
                BY <2>7, <4>1 DEF Range
        <3> QED
            BY <3>1, <3>2
    <2>10. Distinct(w)
        BY <2>3, <2>5, <2>6, SMTT(30) DEF Distinct
    <2>11. ASSUME Ordered(lru)
           PROVE  Ordered(w)
        <3> SUFFICES ASSUME NEW i \in DOMAIN w, NEW j \in DOMAIN w, i < j
                     PROVE  w[i].value >= w[j].value
            BY DEF Ordered
        <3> DEFINE k == IF i < at THEN i ELSE i + 1
                   l == IF j < at THEN j ELSE j + 1
        <3>1. w[i] = lru[k] /\ w[j] = lru[l] /\ k \in DOMAIN lru /\ l \in DOMAIN lru
            BY <2>3, <2>6
        <3>2. k < l
            BY <2>3, <2>5
        <3> HIDE DEF k, l
        <3> QED
            BY <2>11, <3>1, <3>2 DEF Ordered
    <2> QED
        BY <2>1, <2>5, <2>8, <2>9, <2>10, <2>11 DEF Keys, Range
<1> QED
    BY <1>1, <1>2

\* A new entry in front.
LEMMA FrontProps ==
    ASSUME NEW T, NEW w \in Seq(T), NEW e \in T, Distinct(w), e.key \notin Keys(w)
    PROVE  LET q == <<e>> \o w
           IN  /\ q \in Seq(T) /\ Len(q) = Len(w) + 1
               /\ Distinct(q)
               /\ Range(q) = {e} \cup Range(w)
               /\ (Ordered(w) /\ \A x \in Range(w) : e.value >= x.value) => Ordered(q)
               /\ q[1] = e
<1> DEFINE q == <<e>> \o w
<1>1. /\ q \in Seq(T) /\ Len(q) = Len(w) + 1 /\ DOMAIN q = 1 .. Len(w) + 1
      /\ q[1] = e /\ \A i \in 2 .. Len(w) + 1 : q[i] = w[i - 1] /\ i - 1 \in DOMAIN w
    OBVIOUS
<1>2. \A i \in DOMAIN w : i + 1 \in 2 .. Len(w) + 1 /\ q[i + 1] = w[i]
    BY <1>1
<1>3. \A i \in DOMAIN w : w[i].key # e.key /\ w[i] \in Range(w)
    BY DEF Keys, Range
<1> HIDE DEF q
<1>4. Distinct(q)
    <2> SUFFICES ASSUME NEW i \in 1 .. Len(w) + 1, NEW j \in 1 .. Len(w) + 1,
                        q[i].key = q[j].key
                 PROVE  i = j
        BY <1>1 DEF Distinct
    <2>1. CASE i = 1 \/ j = 1
        BY <1>1, <1>3, <2>1
    <2>2. CASE i \in 2 .. Len(w) + 1 /\ j \in 2 .. Len(w) + 1
        BY <1>1, <2>2, SMTT(30) DEF Distinct
    <2> QED
        BY <2>1, <2>2
<1>5. Range(q) = {e} \cup Range(w)
    <2>1. Range(q) \subseteq {e} \cup Range(w)
        <3> SUFFICES ASSUME NEW i \in 1 .. Len(w) + 1
                     PROVE  q[i] \in {e} \cup Range(w)
            BY <1>1 DEF Range
        <3>1. i = 1 \/ i \in 2 .. Len(w) + 1
            OBVIOUS
        <3> QED
            BY <1>1, <1>3, <3>1
    <2>2. {e} \cup Range(w) \subseteq Range(q)
        BY <1>1, <1>2, SMTT(30) DEF Range
    <2> QED
        BY <2>1, <2>2
<1>6. ASSUME Ordered(w), \A x \in Range(w) : e.value >= x.value
      PROVE  Ordered(q)
    <2> SUFFICES ASSUME NEW i \in 1 .. Len(w) + 1, NEW j \in 1 .. Len(w) + 1, i < j
                 PROVE  q[i].value >= q[j].value
        BY <1>1 DEF Ordered
    <2>1. j \in 2 .. Len(w) + 1
        OBVIOUS
    <2>2. CASE i = 1
        BY <1>1, <1>3, <1>6, <2>1, <2>2
    <2>3. CASE i \in 2 .. Len(w) + 1
        <3>1. /\ i - 1 \in DOMAIN w /\ j - 1 \in DOMAIN w /\ i - 1 < j - 1
              /\ q[i] = w[i - 1] /\ q[j] = w[j - 1]
            BY <1>1, <2>1, <2>3
        <3> QED
            BY <1>6, <3>1 DEF Ordered
    <2> QED
        BY <2>2, <2>3
<1> QED
    BY <1>1, <1>4, <1>5, <1>6 DEF q

\* What is left after the least recently used entry made room.
LEMMA TruncatedProps ==
    ASSUME NEW T, NEW q \in Seq(T), q # <<>>, Distinct(q), NEW cap \in Nat \ {0}
    PROVE  LET t == Truncated(q, cap)
           IN  /\ t \in Seq(T) /\ Len(t) \in 1 .. cap
               /\ Distinct(t)
               /\ Range(t) \subseteq Range(q)
               /\ Ordered(q) => Ordered(t)
               /\ t[1] = q[1]
<1> DEFINE n == IF Len(q) < cap THEN Len(q) ELSE cap
           t == SubSeq(q, 1, n)
<1>1. n \in 1 .. Len(q) /\ n \in 1 .. cap
    OBVIOUS
<1> HIDE DEF n
<1>2. t \in Seq(T) /\ Len(t) = n /\ DOMAIN t = 1 .. n /\ \A i \in 1 .. n : t[i] = q[i]
    BY <1>1
<1> HIDE DEF t
<1>3. Distinct(t) /\ Range(t) \subseteq Range(q) /\ (Ordered(q) => Ordered(t)) /\ t[1] = q[1]
    BY <1>1, <1>2, SMTT(30) DEF Distinct, Ordered, Range
<1> QED
    BY <1>1, <1>2, <1>3 DEF Truncated, t, n

\* put: the entry is there, once, in front of what is left of the others.
LEMMA PutProps ==
    ASSUME NEW T, NEW lru \in Seq(T), Distinct(lru), NEW key, NEW value,
           [key |-> key, value |-> value] \in T, NEW cap \in Nat \ {0}
    PROVE  LET q == Put(lru, key, value, cap)
               e == [key |-> key, value |-> value]
           IN  /\ q \in Seq(T) /\ Len(q) \in 1 .. cap
               /\ Distinct(q)
               /\ e \in Range(q)
               /\ \A x \in Range(q) : x = e \/ (x.key # key /\ x \in Range(lru))
               /\ (Ordered(lru) /\ \A x \in Range(lru) : value >= x.value) => Ordered(q)
<1> DEFINE e == [key |-> key, value |-> value]
           w == Without(lru, key)
           f == <<e>> \o w
           q == Truncated(f, cap)
<1>1. Put(lru, key, value, cap) = q
    BY DEF Put
<1>2. /\ w \in Seq(T) /\ key \notin Keys(w) /\ Distinct(w)
      /\ Range(w) = {x \in Range(lru) : x.key # key}
      /\ Ordered(lru) => Ordered(w)
    BY WithoutProps
<1>3. e \in T /\ e.key = key /\ e.value = value
    OBVIOUS
<1> HIDE DEF w, e
<1>4. /\ f \in Seq(T) /\ Len(f) = Len(w) + 1 /\ Distinct(f)
      /\ Range(f) = {e} \cup Range(w) /\ f[1] = e
      /\ (Ordered(w) /\ \A x \in Range(w) : e.value >= x.value) => Ordered(f)
    BY <1>2, <1>3, FrontProps
<1>5. f # <<>>
    BY <1>2, <1>4
<1> HIDE DEF f
<1>6. /\ q \in Seq(T) /\ Len(q) \in 1 .. cap /\ Distinct(q)
      /\ Range(q) \subseteq Range(f) /\ (Ordered(f) => Ordered(q)) /\ q[1] = f[1]
    BY <1>4, <1>5, TruncatedProps
<1> HIDE DEF q
<1>7. e \in Range(q)
    <2>1. 1 \in DOMAIN q
        BY <1>6
    <2> QED
        BY <1>4, <1>6, <2>1 DEF Range
<1>8. \A x \in Range(q) : x = e \/ (x.key # key /\ x \in Range(lru))
    BY <1>2, <1>4, <1>6
<1>9. (Ordered(lru) /\ \A x \in Range(lru) : value >= x.value) => Ordered(q)
    BY <1>2, <1>3, <1>4, <1>6
<1> QED
    BY <1>1, <1>6, <1>7, <1>8, <1>9 DEF e

\* get and get_mut: the same entries.
LEMMA TouchedProps ==
    ASSUME NEW T, NEW lru \in Seq(T), Distinct(lru), NEW key,
           \A e \in T : e = [key |-> e.key, value |-> e.value]
    PROVE  LET q == Touched(lru, key)
           IN  q \in Seq(T) /\ Len(q) = Len(lru) /\ Distinct(q) /\ Range(q) = Range(lru)
<1>1. CASE key \notin Keys(lru)
    BY <1>1 DEF Touched
<1>2. CASE key \in Keys(lru)
    <2> DEFINE e == [key |-> key, value |-> ValueOf(lru, key)]
               w == Without(lru, key)
               q == <<e>> \o w
    <2>1. Touched(lru, key) = q
        BY <1>2 DEF Touched
    <2>2. PICK o \in Range(lru) : o.key = key
        BY <1>2 DEF Keys
    <2>3. o \in T
        BY <2>2 DEF Range
    <2>4. ValueOf(lru, key) = o.value
        BY <2>2, ValueOfEntry
    <2>5. e = o
        BY <2>2, <2>3, <2>4
    <2> HIDE DEF e
    <2>6. /\ w \in Seq(T) /\ key \notin Keys(w) /\ Distinct(w)
          /\ Range(w) = {x \in Range(lru) : x.key # key}
        BY WithoutProps
    <2>7. /\ q \in Seq(T) /\ Len(q) = Len(w) + 1 /\ Distinct(q)
          /\ Range(q) = {e} \cup Range(w)
        <3> HIDE DEF w
        <3> QED
            BY <2>2, <2>3, <2>5, <2>6, FrontProps
    <2>8. Range(q) = Range(lru)
        <3>1. \A x \in Range(lru) : x.key = key => x = o
            BY <2>2 DEF Range, Distinct
        <3> QED
            BY <2>2, <2>5, <2>6, <2>7, <3>1
    <2>9. Len(w) = Len(lru) - 1
        <3>1. Len(lru) \in Nat \ {0}
            BY <1>2 DEF Keys, Range
        <3>2. w = [i \in 1 .. Len(lru) - 1 |->
                     lru[IF i < (CHOOSE k \in DOMAIN lru : lru[k].key = key) THEN i ELSE i + 1]]
            BY <1>2 DEF Without
        <3>3. DOMAIN w = 1 .. Len(lru) - 1
            BY <3>2
        <3> HIDE DEF w
        <3> QED
            BY <2>6, <3>1, <3>3
    <2>10. Len(q) = Len(lru)
        <3>1. Len(lru) \in Nat
            OBVIOUS
        <3> HIDE DEF q
        <3> QED
            BY <2>7, <2>9, <3>1
    <2> HIDE DEF q
    <2> QED
        BY <2>1, <2>7, <2>8, <2>10
<1> QED
    BY <1>1, <1>2

----------------------------------------------------------------------------
(* The state of the peer storage.                                          *)

SwarmOK(swarm) ==
    /\ swarm \in Seq(PeerInfo)
    /\ Len(swarm) <= MaxPeers
    /\ Distinct(swarm)
    /\ Ordered(swarm)
    /\ \A e \in Range(swarm) : e.value <= now

Torrent == [key : InfoHash, value : Seq(PeerInfo)]

CachesOK ==
    /\ torrents \in Seq(Torrent) /\ Len(torrents) <= MaxTorrents
    /\ Distinct(torrents)
    /\ \A t \in Range(torrents) : SwarmOK(t.value) /\ t.value # <<>>
    /\ now \in Instants

LEMMA SwarmEntries ==
    ASSUME NEW swarm, SwarmOK(swarm), NEW e \in Range(swarm)
    PROVE  e \in PeerInfo /\ e.value \in Int
<1>1. PICK i \in 1 .. Len(swarm) : e = swarm[i]
    BY DEF SwarmOK, Range
<1>2. e \in PeerInfo
    BY <1>1 DEF SwarmOK
<1> QED
    BY <1>2 DEF PeerInfo, Instants

\* The swarm of an info hash, be it known or not.
LEMMA SwarmIsOK ==
    ASSUME CachesOK, NEW info_hash
    PROVE  /\ SwarmOK(Swarm(info_hash))
           /\ \A t \in Range(torrents) : t.key = info_hash => Swarm(info_hash) = t.value
           /\ (\A t \in Range(torrents) : t.key # info_hash) => Swarm(info_hash) = <<>>
<1>1. CASE info_hash \in Keys(torrents)
    <2>1. PICK t \in Range(torrents) : t.key = info_hash
        BY <1>1 DEF Keys
    <2>2. \A u \in Range(torrents) : u.key = info_hash => Swarm(info_hash) = u.value
        BY <1>1, ValueOfEntry DEF CachesOK, Swarm
    <2> QED
        BY <2>1, <2>2 DEF CachesOK
<1>2. CASE info_hash \notin Keys(torrents)
    <2>1. Swarm(info_hash) = <<>> /\ \A t \in Range(torrents) : t.key # info_hash
        BY <1>2 DEF Swarm, Keys
    <2>2. SwarmOK(<<>>)
        BY DEF SwarmOK, Distinct, Ordered, Range
    <2> QED
        BY <2>1, <2>2
<1> QED
    BY <1>1, <1>2

\* Nothing but what the clock says of a swarm changes as time passes.
LEMMA SwarmStaysOK ==
    ASSUME NEW swarm, SwarmOK(swarm), now \in Instants, now' \in Instants, now' >= now
    PROVE  SwarmOK(swarm)'
<1>1. \A e \in Range(swarm) : e.value \in Int
    BY SwarmEntries
<1>2. now \in Int /\ now' \in Int
    BY DEF Instants
<1> QED
    BY <1>1, <1>2 DEF SwarmOK, Distinct, Ordered

\* What an announcement makes of the two caches.
LEMMA AnnouncedOK ==
    ASSUME CachesOK, NEW addr \in SocketAddr, NEW info_hash \in InfoHash,
           torrents' = Announced(addr, info_hash), now' = now
    PROVE  /\ CachesOK'
           /\ \A t \in Range(torrents') :
                \/ t \in Range(torrents) /\ t.key # info_hash
                \/ /\ t.key = info_hash
                   /\ \A p \in Range(t.value) : p \in Range(Swarm(info_hash)) \/ p.key = addr
<1> DEFINE old == Swarm(info_hash)
           peer == [key |-> addr, value |-> now]
           new == Put(old, addr, now, MaxPeers)
           t == [key |-> info_hash, value |-> new]
<1>1. SwarmOK(old)
    BY SwarmIsOK
<1>2. peer \in PeerInfo
    BY DEF PeerInfo, CachesOK
<1> HIDE DEF old
<1>3. /\ new \in Seq(PeerInfo) /\ Len(new) \in 1 .. MaxPeers /\ Distinct(new)
      /\ \A x \in Range(new) : x = peer \/ (x.key # addr /\ x \in Range(old))
      /\ (Ordered(old) /\ \A x \in Range(old) : now >= x.value) => Ordered(new)
    BY <1>1, <1>2, PutProps DEF SwarmOK
<1>4. \A x \in Range(old) : x.value \in Int /\ now >= x.value
    <2>1. now \in Int /\ \A x \in Range(old) : x.value \in Int /\ x.value <= now
        BY <1>1, SwarmEntries DEF SwarmOK, CachesOK, Instants
    <2> QED
        BY <2>1
<1>5. now \in Int
    BY DEF CachesOK, Instants
<1>6. peer.value = now /\ peer.key = addr
    OBVIOUS
<1> HIDE DEF new, peer
<1>7. SwarmOK(new) /\ new # <<>>
    BY <1>1, <1>3, <1>4, <1>5, <1>6 DEF SwarmOK
<1>8. t \in Torrent
    BY <1>3 DEF Torrent
<1>9. torrents' = Put(torrents, info_hash, new, MaxTorrents)
    BY DEF Announced, new, old
<1>10. /\ torrents' \in Seq(Torrent) /\ Len(torrents') \in 1 .. MaxTorrents
       /\ Distinct(torrents')
       /\ \A x \in Range(torrents') : x = t \/ (x.key # info_hash /\ x \in Range(torrents))
    BY <1>8, <1>9, PutProps DEF CachesOK
<1>11. t.key = info_hash /\ t.value = new
    OBVIOUS
<1> HIDE DEF t
<1>12. \A swarm : SwarmOK(swarm) => SwarmOK(swarm)'
    BY DEF SwarmOK, Distinct, Ordered
<1>13. CachesOK'
    BY <1>7, <1>10, <1>11, <1>12 DEF CachesOK
<1>14. ASSUME NEW x \in Range(torrents')
       PROVE  \/ x \in Range(torrents) /\ x.key # info_hash
              \/ /\ x.key = info_hash
                 /\ \A p \in Range(x.value) : p \in Range(old) \/ p.key = addr
    BY <1>3, <1>6, <1>10, <1>11
<1> QED
    BY <1>13, <1>14 DEF old

LEMMA CachesInit == Init => CachesOK
    BY DEF Init, CachesOK, Distinct, Range, Instants

LEMMA CachesNext == CachesOK /\ [Next]_vars => CachesOK'
<1> SUFFICES ASSUME CachesOK, [Next]_vars
             PROVE  CachesOK'
    OBVIOUS
<1>1. ASSUME NEW ip \in Ip, NEW info_hash \in InfoHash, GetPeers(ip, info_hash)
      PROVE  CachesOK'
    <2>1. \A t \in Torrent : t = [key |-> t.key, value |-> t.value]
        BY DEF Torrent
    <2>2. /\ torrents' \in Seq(Torrent) /\ Len(torrents') = Len(torrents)
          /\ Distinct(torrents') /\ Range(torrents') = Range(torrents)
        BY <1>1, <2>1, TouchedProps DEF GetPeers, CachesOK
    <2>3. now' = now
        BY <1>1 DEF GetPeers
    <2>4. \A swarm : SwarmOK(swarm) => SwarmOK(swarm)'
        BY <2>3 DEF SwarmOK, Distinct, Ordered
    <2> QED
        BY <2>2, <2>3, <2>4 DEF CachesOK
<1>2. ASSUME NEW addr \in SocketAddr, NEW holder \in Ip, NEW info_hash \in InfoHash,
             AnnouncePeer(addr, holder, info_hash)
      PROVE  CachesOK'
    BY <1>2, AnnouncedOK DEF AnnouncePeer
<1>3. CASE RotateTokenSecrets \/ Tick \/ UNCHANGED vars
    <2>1. torrents' = torrents /\ now' \in Instants /\ now' >= now
        BY <1>3 DEF RotateTokenSecrets, Tick, vars, CachesOK, Instants
    <2>2. \A swarm : SwarmOK(swarm) => SwarmOK(swarm)'
        BY <2>1, SwarmStaysOK DEF CachesOK
    <2> QED
        BY <2>1, <2>2 DEF CachesOK, Distinct
<1> QED
    BY <1>1, <1>2, <1>3 DEF Next

THEOREM CachesStayOK == Spec => []CachesOK
    BY CachesInit, CachesNext, PTL DEF Spec

----------------------------------------------------------------------------
HeldOK == held \in [Ip -> [token : Token, at : Instants] \cup {NoToken}]

LEMMA HeldStaysOK ==
    ASSUME TInv, CachesOK, HeldOK, [Next]_vars
    PROVE  HeldOK'
<1>1. CASE \E ip \in Ip, info_hash \in InfoHash : GetPeers(ip, info_hash)
    <2>1. PICK ip \in Ip, info_hash \in InfoHash : GetPeers(ip, info_hash)
        BY <1>1
    <2>2. [token |-> calculate_token(ip, token_secret), at |-> now] \in [token : Token, at : Instants]
        BY DEF calculate_token, Token, CachesOK, TInv, SecretsInOrder
    <2>3. held' = [held EXCEPT ![ip] = [token |-> calculate_token(ip, token_secret), at |-> now]]
        BY <2>1 DEF GetPeers
    <2> QED
        BY <2>2, <2>3 DEF HeldOK
<1>2. CASE held' = held
    BY <1>2 DEF HeldOK
<1> QED
    BY <1>1, <1>2 DEF Next, AnnouncePeer, RotateTokenSecrets, Tick, vars

\* The caches keep to their capacities and hold a key once, and tokens, secrets
\* and times have their types (peer_storage.rs:32-53, lru).
THEOREM TypesOK == Spec => []TypeOK
<1>1. Init => HeldOK
    BY DEF Init, HeldOK
<1>2. TInv /\ CachesOK /\ HeldOK /\ [Next]_vars => HeldOK'
    BY HeldStaysOK
<1>3. TInv /\ CachesOK /\ HeldOK => TypeOK
    <2> SUFFICES ASSUME TInv, CachesOK, HeldOK
                 PROVE  TypeOK
        OBVIOUS
    <2>1. ASSUME NEW t \in Range(torrents)
          PROVE  /\ t.key \in InfoHash
                 /\ t.value \in Seq(PeerInfo) /\ Len(t.value) \in 1 .. MaxPeers
                 /\ Distinct(t.value)
        <3>1. PICK i \in 1 .. Len(torrents) : t = torrents[i]
            BY DEF CachesOK, Range
        <3>2. t \in Torrent
            BY <3>1 DEF CachesOK
        <3>3. SwarmOK(t.value) /\ t.value # <<>>
            BY DEF CachesOK
        <3> QED
            BY <3>2, <3>3 DEF Torrent, SwarmOK
    <2>2. Len(torrents) <= MaxTorrents /\ Distinct(torrents) /\ now \in Instants
        BY DEF CachesOK
    <2>3. token_secret \in Nat /\ old_token_secret \in Nat /\ to_rotation \in 0 .. Rotation
        BY DEF TInv, SecretsInOrder
    <2> QED
        BY <2>1, <2>2, <2>3 DEF TypeOK, HeldOK, Distinct
<1> QED
    BY <1>1, <1>2, <1>3, TokensDated, CachesStayOK, PTL DEF Spec

----------------------------------------------------------------------------
(* Who is announced.                                                       *)

\* Looking a swarm up changes none.
LEMMA TouchedSwarms ==
    ASSUME CachesOK, NEW key, torrents' = Touched(torrents, key), now' = now, NEW info_hash
    PROVE  Swarm(info_hash)' = Swarm(info_hash)
<1>1. \A t \in Torrent : t = [key |-> t.key, value |-> t.value]
    BY DEF Torrent
<1>2. /\ torrents' \in Seq(Torrent) /\ Len(torrents') = Len(torrents)
      /\ Distinct(torrents') /\ Range(torrents') = Range(torrents)
    BY <1>1, TouchedProps DEF CachesOK
<1>3. Keys(torrents') = Keys(torrents)
    BY <1>2 DEF Keys
<1>4. CASE info_hash \in Keys(torrents)
    <2>1. PICK t \in Range(torrents) : t.key = info_hash
        BY <1>4 DEF Keys
    <2>2. ValueOf(torrents, info_hash) = t.value
        BY <2>1, ValueOfEntry DEF CachesOK
    <2>3. ValueOf(torrents', info_hash) = t.value
        BY <1>2, <2>1, ValueOfEntry
    <2> QED
        BY <1>3, <1>4, <2>2, <2>3 DEF Swarm
<1>5. CASE info_hash \notin Keys(torrents)
    BY <1>3, <1>5 DEF Swarm
<1> QED
    BY <1>4, <1>5

\* An announcement adds its peer to the swarm, and nobody to any other.
LEMMA AnnouncedSwarms ==
    ASSUME CachesOK, NEW addr \in SocketAddr, NEW info_hash \in InfoHash,
           torrents' = Announced(addr, info_hash), now' = now,
           NEW other, NEW p \in Range(Swarm(other)')
    PROVE  p \in Range(Swarm(other)) \/ p.key = addr
<1>1. /\ CachesOK'
      /\ \A t \in Range(torrents') :
           \/ t \in Range(torrents) /\ t.key # info_hash
           \/ /\ t.key = info_hash
              /\ \A q \in Range(t.value) : q \in Range(Swarm(info_hash)) \/ q.key = addr
    BY AnnouncedOK
<1>2. CASE other \in Keys(torrents')
    <2>1. PICK t \in Range(torrents') : t.key = other
        BY <1>2 DEF Keys
    <2>2. Swarm(other)' = t.value
        <3>1. ValueOf(torrents', other) = t.value
            BY <1>1, <2>1, ValueOfEntry DEF CachesOK, Distinct
        <3> QED
            BY <1>2, <3>1 DEF Swarm
    <2>3. CASE t \in Range(torrents)
        <3>1. Swarm(other) = t.value
            BY <2>1, <2>3, SwarmIsOK
        <3> QED
            BY <2>2, <3>1
    <2> QED
        BY <1>1, <2>1, <2>2, <2>3
<1>3. CASE other \notin Keys(torrents')
    <2>1. Swarm(other)' = <<>>
        BY <1>3 DEF Swarm
    <2> QED
        BY <2>1 DEF Range
<1> QED
    BY <1>2, <1>3

\* Nobody is announced, or again, without having asked from the same IP address
\* two rotation intervals ago at most (dht.rs:450-492).
THEOREM AnnouncedHaveAsked == Spec => AnnouncedAskedBefore
<1> DEFINE A == \A info_hash \in InfoHash :
                   \A p \in Range(Swarm(info_hash)') \ Range(Swarm(info_hash)) :
                       held[p.key.ip] # NoToken /\ now - held[p.key.ip].at <= 2 * Rotation
<1>1. TInv => AcceptedIsRecent
    BY AcceptedRecently
<1>2. AcceptedIsRecent /\ CachesOK /\ [Next]_vars => [A]_vars
    <2> SUFFICES ASSUME AcceptedIsRecent, CachesOK, Next,
                        NEW h \in InfoHash, NEW p \in Range(Swarm(h)') \ Range(Swarm(h))
                 PROVE  held[p.key.ip] # NoToken /\ now - held[p.key.ip].at <= 2 * Rotation
        OBVIOUS
    <2>1. ASSUME NEW addr \in SocketAddr, NEW holder \in Ip, NEW info_hash \in InfoHash,
                 AnnouncePeer(addr, holder, info_hash)
          PROVE  held[p.key.ip] # NoToken /\ now - held[p.key.ip].at <= 2 * Rotation
        <3>1. p.key = addr
            BY <2>1, AnnouncedSwarms DEF AnnouncePeer
        <3> QED
            BY <2>1, <3>1 DEF AnnouncePeer, AcceptedIsRecent
    <2>2. CASE \E ip \in Ip, info_hash \in InfoHash : GetPeers(ip, info_hash)
        BY <2>2, TouchedSwarms DEF GetPeers
    <2>3. CASE RotateTokenSecrets \/ Tick
        BY <2>3 DEF RotateTokenSecrets, Tick, Swarm
    <2> QED
        BY <2>1, <2>2, <2>3 DEF Next
<1> QED
    BY <1>1, <1>2, TokensDated, CachesStayOK, PTL DEF Spec, AnnouncedAskedBefore

----------------------------------------------------------------------------
(* What a response serves.                                                 *)

LEMMA LeastNat ==
    ASSUME NEW S \in SUBSET Nat, S # {}
    PROVE  \E i \in S : \A j \in S : i <= j
<1> DEFINE R == OpToRel(<, Nat)
<1>1. \E i \in S : \A j \in S : <<j, i>> \notin R
    <2>1. IsWellFoundedOn(R, Nat)
        BY NatLessThanWellFounded
    <2> HIDE DEF R
    <2> QED
        BY <2>1, WFMin
<1>2. PICK i \in S : \A j \in S : <<j, i>> \notin R
    BY <1>1
<1>3. \A j \in S : ~(j < i)
    BY <1>2 DEF OpToRel
<1> QED
    BY <1>3

\* How many of the first i entries pass the filters.
Passing(swarm, i) == {k \in 1 .. i : Fresh(swarm[k])}

LEMMA PassingCounted ==
    ASSUME NEW swarm, NEW i \in Nat
    PROVE  /\ IsFiniteSet(Passing(swarm, i)) /\ Cardinality(Passing(swarm, i)) \in Nat
           /\ \A j \in 0 .. i : Cardinality(Passing(swarm, j)) <= Cardinality(Passing(swarm, i))
           /\ i > 0 => Cardinality(Passing(swarm, i)) <= Cardinality(Passing(swarm, i - 1)) + 1
           /\ Cardinality(Passing(swarm, 0)) = 0
<1>1. \A j \in Nat : IsFiniteSet(Passing(swarm, j)) /\ Cardinality(Passing(swarm, j)) \in Nat
    <2> TAKE j \in Nat
    <2>1. Passing(swarm, j) \in SUBSET (1 .. j) /\ IsFiniteSet(1 .. j)
        BY FS_Interval DEF Passing
    <2> QED
        BY <2>1, FS_Subset, FS_CardinalityType
<1>2. \A j \in 0 .. i : Cardinality(Passing(swarm, j)) <= Cardinality(Passing(swarm, i))
    <2> TAKE j \in 0 .. i
    <2>1. Passing(swarm, j) \in SUBSET Passing(swarm, i)
        BY DEF Passing
    <2> QED
        BY <1>1, <2>1, FS_Subset
<1>3. ASSUME i > 0
      PROVE  Cardinality(Passing(swarm, i)) <= Cardinality(Passing(swarm, i - 1)) + 1
    <2> DEFINE before == Passing(swarm, i - 1)
    <2>1. Passing(swarm, i) \in SUBSET (before \cup {i})
        BY <1>3 DEF Passing
    <2>2. i - 1 \in Nat
        BY <1>3
    <2>3. IsFiniteSet(before) /\ Cardinality(before) \in Nat
        BY <1>1, <2>2
    <2> HIDE DEF before
    <2>4. /\ IsFiniteSet(before \cup {i}) /\ Cardinality(before \cup {i}) \in Nat
          /\ Cardinality(before \cup {i}) <= Cardinality(before) + 1
        BY <2>3, FS_AddElement
    <2>5. Cardinality(Passing(swarm, i)) <= Cardinality(before \cup {i})
        BY <2>1, <2>4, FS_Subset
    <2>6. Cardinality(Passing(swarm, i)) \in Nat
        BY <1>1
    <2>7. Cardinality(Passing(swarm, i)) <= Cardinality(before) + 1
        BY <2>3, <2>4, <2>5, <2>6
    <2> QED
        BY <2>7 DEF before
<1>4. Cardinality(Passing(swarm, 0)) = 0
    <2>1. Passing(swarm, 0) = {}
        BY DEF Passing
    <2> QED
        BY <2>1, FS_EmptySet
<1> QED
    BY <1>1, <1>2, <1>3, <1>4

\* If more pass than there is room for, as many as there is room for precede
\* the first that does not fit.
LEMMA RoomIsFilled ==
    ASSUME NEW swarm, NEW i \in Nat, NEW room \in Nat, Cardinality(Passing(swarm, i)) > room
    PROVE  \E m \in 1 .. i : /\ Cardinality(Passing(swarm, m - 1)) = room
                              /\ \A j \in Nat : Cardinality(Passing(swarm, j)) <= room <=> j < m
<1> DEFINE C(j) == Cardinality(Passing(swarm, j))
           Over == {j \in Nat : C(j) > room}
<1>1. PICK m \in Over : \A j \in Over : m <= j
    <2>1. Over \in SUBSET Nat /\ i \in Over
        OBVIOUS
    <2> HIDE DEF Over
    <2> QED
        BY <2>1, LeastNat
<1>2. \A j \in Nat : C(j) \in Nat /\ \A k \in 0 .. j : C(k) <= C(j)
    BY PassingCounted
<1>3. m \in Nat /\ C(m) > room /\ m <= i
    BY <1>1
<1>4. m > 0
    BY <1>3, PassingCounted
<1>5. C(m) <= C(m - 1) + 1
    BY <1>3, <1>4, PassingCounted
<1>6. C(m - 1) <= room
    <2>1. m - 1 \in Nat /\ m - 1 \notin Over
        BY <1>1, <1>3, <1>4
    <2> QED
        BY <1>2, <2>1
<1>7. C(m - 1) = room
    <2>1. m - 1 \in Nat
        BY <1>3, <1>4
    <2>2. C(m - 1) \in Nat /\ C(m) \in Nat
        BY <1>2, <1>3, <2>1
    <2> HIDE DEF C
    <2> QED
        BY <1>3, <1>5, <1>6, <2>2
<1>8. ASSUME NEW j \in Nat
      PROVE  C(j) <= room <=> j < m
    <2>1. CASE j < m
        <3>1. j \notin Over
            BY <1>1, <1>3, <2>1
        <3>2. C(j) \in Nat
            BY <1>2
        <3> QED
            BY <2>1, <3>1, <3>2
    <2>2. CASE j >= m
        <3>1. C(m) <= C(j) /\ C(m) \in Nat /\ C(j) \in Nat
            BY <1>2, <1>3, <2>2
        <3> HIDE DEF C
        <3> QED
            BY <1>3, <2>2, <3>1
    <2> QED
        BY <1>3, <2>1, <2>2
<1> QED
    BY <1>3, <1>4, <1>7, <1>8

\* A response that has not room for every fresh peer is full, of those that were
\* announced last: the swarm is in the order of its instants (Ordered), and the
\* cut is made in the order of the swarm (dht.rs:386-396).
THEOREM FreshestAreServed == Spec => []FreshestServed
<1>1. CachesOK => FreshestServed
    <2> SUFFICES ASSUME CachesOK, NEW h \in InfoHash,
                        NEW p \in Range(Swarm(h)) \ GetPeersInfo(h), Fresh(p)
                 PROVE  /\ Cardinality(GetPeersInfo(h)) = MaxResponse
                        /\ \A q \in GetPeersInfo(h) : q.value >= p.value
        BY DEF FreshestServed
    <2> DEFINE s == Swarm(h)
               C(j) == Cardinality(Passing(s, j))
               Places == {j \in DOMAIN s : Fresh(s[j]) /\ C(j) <= MaxResponse}
    <2>1. GetPeersInfo(h) = {s[j] : j \in Places}
        BY DEF GetPeersInfo, Passing
    <2>2. SwarmOK(s)
        BY SwarmIsOK
    <2> HIDE DEF s
    <2>3. PICK i \in 1 .. Len(s) : s[i] = p
        BY <2>2 DEF SwarmOK, Range, s
    <2>4. DOMAIN s = 1 .. Len(s) /\ Len(s) \in Nat
        BY <2>2 DEF SwarmOK
    <2>5. C(i) > MaxResponse
        <3>1. ~(C(i) <= MaxResponse)
            BY <2>1, <2>3, <2>4
        <3>2. C(i) \in Nat
            BY <2>3, PassingCounted
        <3> HIDE DEF C
        <3> QED
            BY <3>1, <3>2
    <2>6. PICK m \in 1 .. i : /\ C(m - 1) = MaxResponse
                              /\ \A j \in Nat : C(j) <= MaxResponse <=> j < m
        BY <2>3, <2>5, RoomIsFilled
    <2>7. Places = Passing(s, m - 1)
        <3>1. \A j \in DOMAIN s : C(j) <= MaxResponse <=> j \in 1 .. m - 1
            BY <2>3, <2>4, <2>6
        <3>2. 1 .. m - 1 \subseteq DOMAIN s
            BY <2>3, <2>4
        <3> HIDE DEF C
        <3> QED
            BY <3>1, <3>2 DEF Passing
    <2>8. \A j \in Places : j < i /\ j \in 1 .. Len(s)
        BY <2>3, <2>4, <2>6, <2>7, SMTT(30) DEF Passing
    <2>9. IsFiniteSet(Places) /\ Cardinality(Places) = MaxResponse
        <3>1. m - 1 \in Nat
            BY <2>3
        <3> QED
            BY <2>6, <2>7, <3>1, PassingCounted
    <2> HIDE DEF Places, C
    <2>10. Cardinality(GetPeersInfo(h)) = MaxResponse
        <3> DEFINE f == [j \in Places |-> s[j]]
        <3>1. f \in Bijection(Places, GetPeersInfo(h))
            <4>1. \A j, k \in Places : s[j] = s[k] => j = k
                BY <2>2, <2>4, <2>8 DEF SwarmOK, Distinct
            <4> QED
                BY <2>1, <4>1 DEF Bijection, Injection, Surjection, IsInjective
        <3> QED
            BY <2>9, <3>1, FS_Bijection DEF ExistsBijection
    <2>11. \A q \in GetPeersInfo(h) : q.value >= p.value
        <3> SUFFICES ASSUME NEW j \in Places
                     PROVE  s[j].value >= s[i].value
            BY <2>1, <2>3
        <3> QED
            BY <2>2, <2>3, <2>4, <2>8 DEF SwarmOK, Ordered
    <2> QED
        BY <2>10, <2>11
<1> QED
    BY <1>1, CachesStayOK, PTL

----------------------------------------------------------------------------
(* Packets.                                                                *)

\* What a message is like: the arguments of its kind, of get_peers' nodes and
\* peers one, and values of the right type.
IsMessage(m) ==
    /\ m = [y |-> m.y, kind |-> m.kind, head |-> m.head, args |-> m.args]
    /\ <<m.y, m.kind>> \in Types \ {<<"r", "announce_peer">>}
    /\ m.head = [f \in DOMAIN m.head |-> m.head[f]]
    /\ m.args = [f \in DOMAIN m.args |-> m.args[f]]
    /\ DOMAIN m.head \subseteq Common
    /\ Mandatory(m.y, m.kind) \subseteq DOMAIN m.args
    /\ DOMAIN m.args \subseteq Mandatory(m.y, m.kind) \cup Optional(m.y, m.kind)
    /\ <<m.y, m.kind>> = <<"r", "get_peers">> =>
         ("nodes" \in DOMAIN m.args <=> "peers" \notin DOMAIN m.args)
    /\ \A f \in DOMAIN m.head : Typed(f, m.head[f])
    /\ \A f \in DOMAIN m.args : Typed(f, m.args[f])

\* What its receiver makes of a field, and of a message.
Arrived(f, v) ==
    CASE f = "interval" -> [secs |-> Min({v.secs, Cap}), nanos |-> 0]
      [] f = "nodes" -> NodesRead(v)
      [] OTHER -> v

Received(m) ==
    IF Some(m, Offends) THEN Failed
    ELSE [m EXCEPT !.args = [f \in DOMAIN m.args |-> Arrived(f, m.args[f])]]

\* A message that is sent was built or understood; its dictionary is its own, any
\* other is from elsewhere.
PInv ==
    /\ type \in Types
    /\ \A f \in DOMAIN builder : Typed(f, builder[f])
    /\ message \notin {None, Failed} =>
         /\ IsMessage(message)
         /\ wire \in {None, IntoSerdeMessage(message)}
         /\ builder # <<>> => message = Built /\ ~Refused
    /\ message \in {None, Failed} /\ wire # None => wire \in Foreign /\ builder = <<>>
    /\ result # None => wire # None /\ result = FromBytes(wire)

----------------------------------------------------------------------------
LEMMA Capped ==
    ASSUME NEW v \in Nat
    PROVE  /\ Min({v, Cap}) = IF v <= Cap THEN v ELSE Cap
           /\ Min({v, Cap}) \in Nat /\ Min({v, Cap}) % Modulus = Min({v, Cap})
<1> DEFINE m == IF v <= Cap THEN v ELSE Cap
<1>1. Cap \in Nat /\ Modulus \in Nat /\ Modulus > 2 * Cap
    BY PacketsAssumption
<1>2. m \in {v, Cap} /\ \A y \in {v, Cap} : m <= y
    BY <1>1
<1>3. \A x \in {v, Cap} : (\A y \in {v, Cap} : x <= y) => x = m
    BY <1>1
<1>4. m \in Nat /\ m < Modulus
    BY <1>1
<1> HIDE DEF m
<1>5. Min({v, Cap}) \in {v, Cap} /\ \A y \in {v, Cap} : Min({v, Cap}) <= y
    BY <1>2 DEF Min
<1>6. Min({v, Cap}) = m
    BY <1>3, <1>5
<1>7. m % Modulus = m
    BY <1>1, <1>4
<1> QED
    BY <1>4, <1>6, <1>7 DEF m

\* The bytes of a list of nodes, counted by the addresses.
LEMMA BytesOfNodes ==
    ASSUME NEW v \in Seq(Address)
    PROVE  /\ IsFiniteSet(Ipv6s(v, DOMAIN v))
           /\ Cardinality(Ipv6s(v, DOMAIN v)) \in Nat
           /\ Bytes(v) = 26 * Len(v) + 12 * Cardinality(Ipv6s(v, DOMAIN v))
           /\ Bytes(v) \in Nat
<1>1. Len(v) \in Nat /\ DOMAIN v = 1 .. Len(v) /\ (Len(v) + 1) - 1 = Len(v)
    OBVIOUS
<1>2. Ipv6s(v, DOMAIN v) \in SUBSET (1 .. Len(v)) /\ IsFiniteSet(1 .. Len(v))
    BY <1>1, FS_Interval DEF Ipv6s
<1>3. IsFiniteSet(Ipv6s(v, DOMAIN v)) /\ Cardinality(Ipv6s(v, DOMAIN v)) \in Nat
    BY <1>2, FS_Subset, FS_CardinalityType
<1>4. Bytes(v) = 26 * Len(v) + 12 * Cardinality(Ipv6s(v, DOMAIN v))
    BY <1>1 DEF Bytes, Offset
<1> QED
    BY <1>1, <1>3, <1>4

\* A list of nodes is read if a multiple of thirteen are IPv6.
LEMMA NodesReadable ==
    ASSUME NEW v \in Seq(Address)
    PROVE  Readable("nodes", v) <=> ~Offends("nodes", v)
<1> DEFINE c == Cardinality(Ipv6s(v, DOMAIN v))
<1>1. c \in Nat /\ Len(v) \in Nat /\ Bytes(v) = 26 * Len(v) + 12 * c
    BY BytesOfNodes
<1>2. Readable("nodes", v) <=> Bytes(v) % 26 = 0
    BY DEF Readable
<1>3. Offends("nodes", v) <=> Ipv6s(v, DOMAIN v) # {} /\ c % 13 # 0
    BY DEF Offends, HasIpv6
<1>4. Ipv6s(v, DOMAIN v) = {} => c = 0
    BY FS_EmptySet
<1> HIDE DEF c
<1>5. Bytes(v) % 26 = 0 <=> c % 13 = 0
    BY <1>1, SMTT(30)
<1>6. c = 0 => c % 13 = 0
    OBVIOUS
<1> QED
    BY <1>2, <1>3, <1>4, <1>5, <1>6

\* Without IPv6 nodes the list comes out as it went in.
LEMMA NodesThere ==
    ASSUME NEW v \in Seq(Address), Ipv6s(v, DOMAIN v) = {}
    PROVE  NodesRead(v) = v
<1>1. Len(v) \in Nat /\ DOMAIN v = 1 .. Len(v) /\ v = [i \in 1 .. Len(v) |-> v[i]]
    OBVIOUS
<1>2. \A i \in DOMAIN v : v[i] # "v6"
    BY DEF Ipv6s
<1>3. Bytes(v) = 26 * Len(v)
    BY <1>1, BytesOfNodes, FS_EmptySet, SMTT(30)
<1>4. Bytes(v) \div 26 = Len(v)
    <2>1. \A n \in Nat : (26 * n) \div 26 = n
        BY SMTT(30)
    <2>2. (26 * Len(v)) \div 26 = Len(v)
        BY <1>1, <2>1
    <2> QED
        BY <1>3, <2>2
<1>5. ASSUME NEW n \in DOMAIN v PROVE Offset(v, n) = 26 * (n - 1)
    <2>1. n - 1 \in Nat /\ 1 .. n - 1 \subseteq DOMAIN v
        BY <1>1
    <2>2. Ipv6s(v, 1 .. n - 1) = {}
        BY <1>2, <2>1 DEF Ipv6s
    <2>3. Cardinality(Ipv6s(v, 1 .. n - 1)) = 0
        BY <2>2, FS_EmptySet
    <2> QED
        BY <2>1, <2>3 DEF Offset
<1>6. ASSUME NEW i \in 1 .. Len(v)
      PROVE  (CHOOSE n \in ReadAsIpv4(v, i) : TRUE) = i /\ ReadAsIpv4(v, i) # {}
    <2>1. \A n \in DOMAIN v : Offset(v, n) = 26 * (i - 1) <=> n = i
        <3> TAKE n \in DOMAIN v
        <3>1. Offset(v, n) = 26 * (n - 1) /\ n \in Nat /\ i \in Nat
            BY <1>1, <1>5, SMTT(30)
        <3> QED
            BY <3>1, SMTT(30)
    <2>2. ReadAsIpv4(v, i) = {i}
        BY <1>1, <1>2, <2>1 DEF ReadAsIpv4
    <2> QED
        BY <2>2
<1>7. ASSUME NEW i \in 1 .. Len(v)
      PROVE  (IF ReadAsIpv4(v, i) = {} THEN "misread"
              ELSE v[CHOOSE n \in ReadAsIpv4(v, i) : TRUE]) = v[i]
    BY <1>6
<1>8. NodesRead(v) = [i \in 1 .. Len(v) |->
                        IF ReadAsIpv4(v, i) = {} THEN "misread"
                        ELSE v[CHOOSE n \in ReadAsIpv4(v, i) : TRUE]]
    BY <1>4, Zenon DEF NodesRead
<1>9. NodesRead(v) = [i \in 1 .. Len(v) |-> v[i]]
    BY <1>7, <1>8, Zenon
<1> QED
    BY <1>1, <1>9

\* Whatever was written, a list of addresses is read.
LEMMA NodesTyped ==
    ASSUME NEW v \in Seq(Address)
    PROVE  NodesRead(v) \in Seq(Address)
<1>1. Bytes(v) \div 26 \in Nat
    <2>1. Bytes(v) \in Nat
        BY BytesOfNodes
    <2> QED
        BY <2>1
<1>2. ASSUME NEW i \in 1 .. Bytes(v) \div 26
      PROVE  NodesRead(v)[i] \in Address
    <2>1. CASE ReadAsIpv4(v, i) = {}
        BY <2>1 DEF NodesRead, Address
    <2>2. CASE ReadAsIpv4(v, i) # {}
        <3>1. (CHOOSE n \in ReadAsIpv4(v, i) : TRUE) \in ReadAsIpv4(v, i)
            BY <2>2
        <3>2. (CHOOSE n \in ReadAsIpv4(v, i) : TRUE) \in DOMAIN v
            BY <3>1 DEF ReadAsIpv4
        <3>3. v[CHOOSE n \in ReadAsIpv4(v, i) : TRUE] \in Address
            BY <3>2
        <3> QED
            BY <2>2, <3>3 DEF NodesRead
    <2> QED
        BY <2>1, <2>2
<1>3. NodesRead(v) = [i \in 1 .. Bytes(v) \div 26 |-> NodesRead(v)[i]]
    BY DEF NodesRead
<1>4. ASSUME NEW n \in Nat, NEW s, s = [i \in 1 .. n |-> s[i]], \A i \in 1 .. n : s[i] \in Address
      PROVE  s \in Seq(Address)
    BY <1>4
<1> QED
    BY <1>1, <1>2, <1>3, <1>4

\* A field on the wire and back.
LEMMA FieldThere ==
    ASSUME NEW f, NEW v, Typed(f, v)
    PROVE  /\ Readable(f, Encoded(f, v)) <=> ~Offends(f, v)
           /\ Decoded(f, Encoded(f, v)) = Arrived(f, v)
<1>1. CASE f \in {"read_only", "implied_port"}
    <2>1. v \in BOOLEAN /\ Encoded(f, v) = IF v THEN 1 ELSE 0
        BY <1>1 DEF Typed, Encoded
    <2>2. (\A x : Readable(f, x)) /\ ~Offends(f, v) /\ Arrived(f, v) = v
        BY <1>1 DEF Readable, Offends, HasIpv6, Arrived
    <2>3. CASE v = TRUE
        <3>1. Encoded(f, v) = 1
            BY <2>1, <2>3
        <3>2. Decoded(f, 1) = TRUE
            <4>1. CASE f = "read_only"
                <5>1. Decoded(f, 1) = (1 >= 1)
                    BY <4>1 DEF Decoded
                <5>2. (1 >= 1) = TRUE
                    OBVIOUS
                <5> QED
                    BY Zenon, <5>1, <5>2
            <4>2. CASE f = "implied_port"
                <5>1. Decoded(f, 1) = (1 # 0)
                    BY <4>2 DEF Decoded
                <5>2. (1 # 0) = TRUE
                    OBVIOUS
                <5> QED
                    BY Zenon, <5>1, <5>2
            <4> QED
                BY <1>1, <4>1, <4>2
        <3> QED
            BY <1>1, <2>2, <2>3, <3>1, <3>2
    <2>4. CASE v = FALSE
        <3>1. Encoded(f, v) = 0
            BY <2>1, <2>4
        <3>2. Decoded(f, 0) = FALSE
            <4>1. CASE f = "read_only"
                <5>1. Decoded(f, 0) = (0 >= 1)
                    BY <4>1 DEF Decoded
                <5>2. (0 >= 1) = FALSE
                    OBVIOUS
                <5> QED
                    BY Zenon, <5>1, <5>2
            <4>2. CASE f = "implied_port"
                <5>1. Decoded(f, 0) = (0 # 0)
                    BY <4>2 DEF Decoded
                <5>2. (0 # 0) = FALSE
                    OBVIOUS
                <5> QED
                    BY Zenon, <5>1, <5>2
            <4> QED
                BY <1>1, <4>1, <4>2
        <3> QED
            BY <1>1, <2>2, <2>4, <3>1, <3>2
    <2> QED
        BY <2>1, <2>3, <2>4
<1>2. CASE f = "interval"
    <2>1. v.secs \in Nat /\ Encoded(f, v) = Min({v.secs, Cap})
        BY <1>2 DEF Typed, Encoded
    <2>2. Min({v.secs, Cap}) % Modulus = Min({v.secs, Cap})
        BY <2>1, Capped
    <2>3. Decoded(f, Encoded(f, v)) = Arrived(f, v)
        BY <1>2, <2>1, <2>2 DEF Decoded, Arrived
    <2>4. (\A x : Readable(f, x)) /\ ~Offends(f, v)
        BY <1>2 DEF Readable, Offends, HasIpv6
    <2> QED
        BY <2>3, <2>4
<1>3. CASE f = "nodes"
    <2>1. v \in Seq(Address) /\ Encoded(f, v) = v
        BY <1>3 DEF Typed, Encoded
    <2>2. Readable(f, v) <=> ~Offends(f, v)
        BY <1>3, <2>1, NodesReadable
    <2>3. Decoded(f, v) = Arrived(f, v)
        BY <1>3 DEF Decoded, Arrived
    <2> QED
        BY <2>1, <2>2, <2>3
<1>4. CASE f = "peers"
    <2>1. Encoded(f, v) = v /\ Decoded(f, v) = v /\ Arrived(f, v) = v
        BY <1>4 DEF Encoded, Decoded, Arrived
    <2>2. Readable(f, v) <=> ~Offends(f, v)
        BY <1>4 DEF Readable, Offends, HasIpv6, Ipv6s
    <2> QED
        BY <2>1, <2>2
<1>5. CASE f \notin {"read_only", "implied_port", "interval", "nodes", "peers"}
    <2>1. Encoded(f, v) = v /\ Decoded(f, v) = v /\ Arrived(f, v) = v
        BY <1>5 DEF Encoded, Decoded, Arrived
    <2>2. Readable(f, v) <=> ~Offends(f, v)
        BY <1>5 DEF Readable, Offends, HasIpv6, Typed
    <2> QED
        BY <2>1, <2>2
<1> QED
    BY <1>1, <1>2, <1>3, <1>4, <1>5

LEMMA FieldTyped ==
    ASSUME NEW f, NEW v, TypedOnWire(f, v), Readable(f, v)
    PROVE  Typed(f, Decoded(f, v))
<1>1. CASE f = "interval"
    <2>1. v \in Int /\ Modulus \in Nat /\ Modulus > 0
        BY <1>1, PacketsAssumption DEF TypedOnWire
    <2>2. v % Modulus \in Nat
        BY <2>1
    <2> QED
        BY <1>1, <2>2 DEF Typed, Decoded
<1>2. CASE f \in {"read_only", "implied_port"}
    <2>1. Decoded(f, v) \in BOOLEAN
        <3>1. CASE f = "read_only"
            BY <3>1 DEF Decoded
        <3>2. CASE f = "implied_port"
            BY <3>2 DEF Decoded
        <3> QED
            BY <1>2, <3>1, <3>2
    <2> QED
        BY <1>2, <2>1 DEF Typed
<1>3. CASE f = "nodes"
    <2>1. v \in Seq(Address) /\ Decoded(f, v) = NodesRead(v)
        BY <1>3 DEF TypedOnWire, Decoded
    <2> QED
        BY <1>3, <2>1, NodesTyped DEF Typed
<1>4. CASE f \notin {"read_only", "implied_port", "interval", "nodes"}
    BY <1>4 DEF Typed, Decoded, TypedOnWire, Readable
<1> QED
    BY <1>1, <1>2, <1>3, <1>4

\* serde finds the kind of a message of ours, in a response by the fields alone.
LEMMA KindFound ==
    ASSUME NEW m, IsMessage(m)
    PROVE  Kinds(IntoSerdeMessage(m)) = {m.kind}
<1> DEFINE w == IntoSerdeMessage(m)
<1>1. /\ w.y = m.y /\ DOMAIN w.args = DOMAIN m.args
      /\ m.y = "q" => w.q = m.kind
    BY DEF IntoSerdeMessage, EncodedAll
<1>2. Fits(w, m.kind)
    BY <1>1 DEF IsMessage, Fits
<1>3. \/ m.y = "q" /\ m.kind \in RequestKind
      \/ m.y = "r" /\ m.kind \in {"ping", "find_node", "get_peers", "sample_infohashes"}
      \/ m.y = "e" /\ m.kind = "error"
    BY DEF IsMessage, Types, RequestKind
<1> HIDE DEF w
<1>4. ASSUME m.y = "q" PROVE Kinds(w) = {m.kind}
    BY <1>1, <1>2, <1>3, <1>4 DEF Kinds
<1>5. ASSUME m.y = "e" PROVE Kinds(w) = {m.kind}
    BY <1>1, <1>2, <1>3, <1>5 DEF Kinds
<1>6. ASSUME m.y = "r" PROVE Kinds(w) = {m.kind}
    <2> DEFINE fitting == {i \in DOMAIN Variants : Fits(w, Variants[i])}
    <2>1. /\ DOMAIN Variants = 1 .. 4
          /\ Variants[1] = "get_peers" /\ Variants[2] = "sample_infohashes"
          /\ Variants[3] = "find_node" /\ Variants[4] = "ping"
        BY DEF Variants
    <2>2. PICK i \in 1 .. 4 : Variants[i] = m.kind
        BY <1>3, <1>6, <2>1
    <2>3. ASSUME NEW j \in 1 .. i - 1 PROVE ~Fits(w, Variants[j])
        <3>1. \/ i = 2 /\ j = 1
              \/ i = 3 /\ j \in 1 .. 2
              \/ i = 4 /\ j \in 1 .. 3
            OBVIOUS
        <3>2. DOMAIN m.args \subseteq Mandatory("r", m.kind) \cup Optional("r", m.kind)
            BY <1>6 DEF IsMessage
        <3>3. Fits(w, Variants[j]) <=> Mandatory("r", Variants[j]) \subseteq DOMAIN m.args
            BY <1>1, <1>6 DEF Fits
        <3> QED
            BY <2>1, <2>2, <3>1, <3>2, <3>3 DEF Mandatory, Optional
    <2>4. i \in fitting /\ \A j \in fitting : i <= j
        BY <1>2, <2>1, <2>2, <2>3
    <2>5. Min(fitting) = i
        <3>1. Min(fitting) \in fitting /\ \A j \in fitting : Min(fitting) <= j
            BY <2>4 DEF Min
        <3>2. fitting \subseteq 1 .. 4
            BY <2>1
        <3> QED
            BY <2>4, <3>1, <3>2
    <2>6. Kinds(w) = {Variants[k] : k \in {j \in fitting : j = Min(fitting)}}
        BY <1>1, <1>6 DEF Kinds
    <2> HIDE DEF fitting
    <2> QED
        BY <2>2, <2>4, <2>5, <2>6
<1> QED
    BY <1>3, <1>4, <1>5, <1>6 DEF w

\* All its arguments are read.
LEMMA ArgumentsRead ==
    ASSUME NEW m, IsMessage(m)
    PROVE  Read(IntoSerdeMessage(m), m.kind) = EncodedAll(m.args)
<1> DEFINE w == IntoSerdeMessage(m)
           some == (Mandatory(w.y, m.kind) \cup Optional(w.y, m.kind)) \cap DOMAIN w.args
<1>1. w.y = m.y /\ w.args = EncodedAll(m.args) /\ DOMAIN w.args = DOMAIN m.args
    BY DEF IntoSerdeMessage, EncodedAll
<1>2. some = DOMAIN w.args
    BY <1>1 DEF IsMessage
<1>3. Restrict(w.args, DOMAIN w.args) = w.args
    BY <1>1 DEF Restrict, EncodedAll
<1>4. CASE <<w.y, m.kind>> # <<"r", "get_peers">>
    BY <1>1, <1>2, <1>3, <1>4 DEF Read
<1>5. CASE <<w.y, m.kind>> = <<"r", "get_peers">> /\ "peers" \in some
    <2>1. some \ {"nodes"} = some
        BY <1>1, <1>2, <1>5 DEF IsMessage
    <2> QED
        BY <1>1, <1>2, <1>3, <1>5, <2>1 DEF Read
<1>6. CASE <<w.y, m.kind>> = <<"r", "get_peers">> /\ "peers" \notin some
    <2>1. "nodes" \in DOMAIN w.args
        BY <1>1, <1>2, <1>6 DEF IsMessage
    <2> QED
        BY <1>1, <1>2, <1>3, <1>6, <2>1 DEF Read, Defaulting
<1> QED
    BY <1>4, <1>5, <1>6

LEMMA MessageReceived ==
    ASSUME NEW m, IsMessage(m)
    PROVE  FromBytes(IntoSerdeMessage(m)) = Received(m)
<1> DEFINE w == IntoSerdeMessage(m)
           args == Read(w, m.kind)
           readable == /\ \A f \in DOMAIN args : Readable(f, args[f])
                       /\ \A f \in DOMAIN w.head : Readable(f, w.head[f])
<1>1. (CHOOSE kind \in Kinds(w) : TRUE) = m.kind /\ Kinds(w) # {}
    BY KindFound
<1>2. FromBytes(w) = FromSerdeMessage(w, m.kind)
    BY <1>1 DEF FromBytes
<1>3. args = EncodedAll(m.args) /\ w.y = m.y /\ w.head = EncodedAll(m.head)
    BY ArgumentsRead DEF IntoSerdeMessage
<1>4. /\ \A f \in DOMAIN m.head : Typed(f, m.head[f]) /\ f \notin {"interval", "nodes"}
      /\ \A f \in DOMAIN m.args : Typed(f, m.args[f])
    BY DEF IsMessage, Common
<1>5. readable <=> ~Some(m, Offends)
    <2>1. readable <=> /\ \A f \in DOMAIN m.args : Readable(f, Encoded(f, m.args[f]))
                       /\ \A f \in DOMAIN m.head : Readable(f, Encoded(f, m.head[f]))
        BY <1>3 DEF EncodedAll
    <2>2. ~Some(m, Offends) <=> /\ \A f \in DOMAIN m.args : ~Offends(f, m.args[f])
                                /\ \A f \in DOMAIN m.head : ~Offends(f, m.head[f])
        BY DEF Some
    <2> HIDE DEF readable
    <2> QED
        BY <1>4, <2>1, <2>2, FieldThere
<1>6. DecodedAll(w.head) = m.head
    <2>1. DecodedAll(w.head) = [f \in DOMAIN m.head |-> Decoded(f, Encoded(f, m.head[f]))]
        BY <1>3 DEF DecodedAll, EncodedAll
    <2>2. \A f \in DOMAIN m.head : Decoded(f, Encoded(f, m.head[f])) = m.head[f]
        BY <1>4, FieldThere DEF Arrived
    <2>3. m.head = [f \in DOMAIN m.head |-> m.head[f]]
        BY DEF IsMessage
    <2> QED
        BY <2>1, <2>2, <2>3
<1>7. DecodedAll(args) =
        [f \in DOMAIN m.args |-> Arrived(f, m.args[f])]
    <2>1. DecodedAll(args) = [f \in DOMAIN m.args |-> Decoded(f, Encoded(f, m.args[f]))]
        BY <1>3 DEF DecodedAll, EncodedAll
    <2>2. \A f \in DOMAIN m.args :
            Decoded(f, Encoded(f, m.args[f])) = Arrived(f, m.args[f])
        BY <1>4, FieldThere
    <2> QED
        BY <2>1, <2>2
<1>8. FromSerdeMessage(w, m.kind) =
        IF readable THEN [y |-> m.y, kind |-> m.kind, head |-> DecodedAll(w.head),
                          args |-> DecodedAll(args)]
                    ELSE Failed
    BY <1>3 DEF FromSerdeMessage
<1>9. m = [y |-> m.y, kind |-> m.kind, head |-> m.head, args |-> m.args]
    BY DEF IsMessage
<1>10. ASSUME NEW x
       PROVE  [m EXCEPT !.args = x] = [y |-> m.y, kind |-> m.kind, head |-> m.head, args |-> x]
    BY <1>9
<1> HIDE DEF readable, args, w
<1> QED
    BY <1>2, <1>5, <1>6, <1>7, <1>8, <1>10 DEF Received, w

\* A message that was read is a message, though another program wrote it.
LEMMA ReceivedIsMessage ==
    ASSUME NEW m, IsMessage(m), ~Some(m, Offends)
    PROVE  IsMessage(Received(m))
<1> DEFINE r == Received(m)
           args == [f \in DOMAIN m.args |-> Arrived(f, m.args[f])]
<1>1. m = [y |-> m.y, kind |-> m.kind, head |-> m.head, args |-> m.args]
    BY DEF IsMessage
<1>2. ASSUME NEW x
      PROVE  [m EXCEPT !.args = x] = [y |-> m.y, kind |-> m.kind, head |-> m.head, args |-> x]
    BY <1>1
<1> HIDE DEF args
<1>3. r = [y |-> m.y, kind |-> m.kind, head |-> m.head, args |-> args]
    BY <1>2 DEF Received, args
<1> HIDE DEF r
<1>4. r.y = m.y /\ r.kind = m.kind /\ r.head = m.head /\ r.args = args
    BY <1>3
<1>5. DOMAIN args = DOMAIN m.args /\ args = [f \in DOMAIN args |-> args[f]]
    BY DEF args
<1>6. ASSUME NEW f \in DOMAIN args PROVE Typed(f, args[f])
    <2>1. Typed(f, m.args[f])
        BY <1>5 DEF IsMessage
    <2>2. args[f] = Arrived(f, m.args[f])
        BY <1>5 DEF args
    <2>3. CASE f = "interval"
        <3>1. m.args[f].secs \in Nat
            BY <2>1, <2>3 DEF Typed
        <3>2. Min({m.args[f].secs, Cap}) \in Nat
            BY <3>1, Capped
        <3> QED
            BY <2>2, <2>3, <3>2 DEF Arrived, Typed
    <2>4. CASE f = "nodes"
        <3>1. m.args[f] \in Seq(Address)
            BY <2>1, <2>4 DEF Typed
        <3> QED
            BY <2>2, <2>4, <3>1, NodesTyped DEF Arrived, Typed
    <2>5. CASE f \notin {"interval", "nodes"}
        BY <2>1, <2>2, <2>5 DEF Arrived
    <2> QED
        BY <2>3, <2>4, <2>5
<1>7. r = [y |-> r.y, kind |-> r.kind, head |-> r.head, args |-> r.args]
    BY <1>3, <1>4
<1> QED
    BY <1>4, <1>5, <1>6, <1>7 DEF IsMessage, r

LEMMA ForeignIsMessage ==
    ASSUME NEW w \in Foreign, FromBytes(w) # Failed
    PROVE  IsMessage(FromBytes(w))
<1> DEFINE kind == CHOOSE k \in Kinds(w) : TRUE
           read == Read(w, kind)
           some == (Mandatory(w.y, kind) \cup Optional(w.y, kind)) \cap DOMAIN w.args
           r == FromBytes(w)
<1>1. /\ w.y \in {"q", "r", "e"} /\ DOMAIN w.head \subseteq Common
      /\ \A f \in DOMAIN w.head : TypedOnWire(f, w.head[f])
      /\ \A f \in DOMAIN w.args : TypedOnWire(f, w.args[f])
    BY PacketsAssumption
<1>2. Kinds(w) # {} /\ kind \in Kinds(w)
    BY DEF FromBytes
<1>3. /\ Fits(w, kind)
      /\ \/ w.y = "q" /\ kind \in RequestKind
         \/ w.y = "r" /\ kind \in {"ping", "find_node", "get_peers", "sample_infohashes"}
         \/ w.y = "e" /\ kind = "error"
    <2> HIDE DEF kind
    <2>1. CASE w.y = "q"
        BY <1>2, <2>1 DEF Kinds
    <2>2. CASE w.y = "r"
        <3> DEFINE fitting == {i \in DOMAIN Variants : Fits(w, Variants[i])}
        <3>1. Kinds(w) = {Variants[i] : i \in {j \in fitting : j = Min(fitting)}}
            BY <2>2 DEF Kinds
        <3>2. PICK i \in fitting : kind = Variants[i]
            BY <1>2, <3>1
        <3>3. Fits(w, kind) /\ i \in DOMAIN Variants
            BY <3>2
        <3>4. kind \in {"ping", "find_node", "get_peers", "sample_infohashes"}
            BY <3>2, <3>3 DEF Variants
        <3> QED
            BY <2>2, <3>3, <3>4
    <2>3. CASE w.y = "e"
        BY <1>2, <2>3 DEF Kinds
    <2> QED
        BY <1>1, <2>1, <2>2, <2>3
<1>4. <<w.y, kind>> \in Types \ {<<"r", "announce_peer">>}
    <2> HIDE DEF kind
    <2> QED
        BY <1>3 DEF Types, RequestKind
<1> HIDE DEF kind
<1>5. r = [y |-> w.y, kind |-> kind, head |-> DecodedAll(w.head), args |-> DecodedAll(read)]
    <2>1. r = FromSerdeMessage(w, kind)
        BY <1>2 DEF FromBytes, kind
    <2> QED
        BY <2>1 DEF FromSerdeMessage
<1>5a. /\ \A f \in DOMAIN read : Readable(f, read[f])
       /\ \A f \in DOMAIN w.head : Readable(f, w.head[f])
    <2>1. FromSerdeMessage(w, kind) # Failed
        BY <1>2 DEF FromBytes, kind
    <2> QED
        BY <2>1 DEF FromSerdeMessage
<1>6. /\ Mandatory(w.y, kind) \subseteq DOMAIN read
      /\ DOMAIN read \subseteq Mandatory(w.y, kind) \cup Optional(w.y, kind)
      /\ <<w.y, kind>> = <<"r", "get_peers">> =>
           ("nodes" \in DOMAIN read <=> "peers" \notin DOMAIN read)
      /\ \A f \in DOMAIN read : (read[f] = w.args[f] /\ f \in DOMAIN w.args)
                              \/ (f = "nodes" /\ read[f] = <<>>)
    <2>1. Mandatory(w.y, kind) \subseteq some /\ some \subseteq DOMAIN w.args
        BY <1>3 DEF Fits
    <2>2. \A S : DOMAIN Restrict(w.args, S) = S /\ \A f \in S : Restrict(w.args, S)[f] = w.args[f]
        BY DEF Restrict
    <2>3. CASE <<w.y, kind>> # <<"r", "get_peers">>
        <3>1. read = Restrict(w.args, some)
            BY <2>3 DEF Read
        <3> QED
            BY <2>1, <2>2, <2>3, <3>1
    <2>4. CASE <<w.y, kind>> = <<"r", "get_peers">>
        <3>1. /\ Mandatory(w.y, kind) = {"sender_id", "token"}
              /\ Optional(w.y, kind) = {"nodes", "peers"}
            BY <2>4 DEF Mandatory, Optional
        <3>2. CASE "peers" \in some
            <4>1. read = Restrict(w.args, some \ {"nodes"})
                BY <2>4, <3>2 DEF Read
            <4> HIDE DEF read, some
            <4>2. DOMAIN read = some \ {"nodes"} /\ \A f \in DOMAIN read : read[f] = w.args[f]
                BY <2>2, <4>1
            <4>3. some \subseteq {"sender_id", "token", "nodes", "peers"}
                BY <3>1 DEF some
            <4> QED
                BY <2>1, <3>1, <3>2, <4>2, <4>3
        <3>3. CASE "peers" \notin some
            <4>1. read = Defaulting(Restrict(w.args, some), "nodes", <<>>)
                BY <2>4, <3>3 DEF Read
            <4> HIDE DEF read, some
            <4>2. /\ DOMAIN read = some \cup {"nodes"}
                  /\ \A f \in DOMAIN read : (f \in some /\ read[f] = w.args[f]) \/ (f = "nodes" /\ read[f] = <<>>)
                BY <2>2, <4>1 DEF Defaulting, Setting
            <4>3. some \subseteq {"sender_id", "token", "nodes", "peers"}
                BY <3>1 DEF some
            <4> QED
                BY <2>1, <3>1, <3>3, <4>2, <4>3
        <3> QED
            BY <3>2, <3>3
    <2> QED
        BY <2>3, <2>4
<1> HIDE DEF read, r
<1>7. /\ r.y = w.y /\ r.kind = kind /\ r.head = DecodedAll(w.head) /\ r.args = DecodedAll(read)
      /\ r = [y |-> r.y, kind |-> r.kind, head |-> r.head, args |-> r.args]
    BY <1>5
<1>8. /\ DOMAIN r.head = DOMAIN w.head /\ r.head = [f \in DOMAIN r.head |-> r.head[f]]
      /\ \A f \in DOMAIN r.head : Typed(f, r.head[f])
    <2>1. \A f \in DOMAIN w.head : r.head[f] = Decoded(f, w.head[f])
        BY <1>7 DEF DecodedAll
    <2>2. DOMAIN r.head = DOMAIN w.head /\ r.head = [f \in DOMAIN r.head |-> r.head[f]]
        BY <1>7 DEF DecodedAll
    <2> QED
        BY <1>1, <1>5a, <2>1, <2>2, FieldTyped
<1>9. /\ DOMAIN r.args = DOMAIN read /\ r.args = [f \in DOMAIN r.args |-> r.args[f]]
      /\ \A f \in DOMAIN r.args : Typed(f, r.args[f])
    <2>1. \A f \in DOMAIN read : r.args[f] = Decoded(f, read[f])
        BY <1>7 DEF DecodedAll
    <2>2. DOMAIN r.args = DOMAIN read /\ r.args = [f \in DOMAIN r.args |-> r.args[f]]
        BY <1>7 DEF DecodedAll
    <2>3. ASSUME NEW f \in DOMAIN read PROVE Typed(f, r.args[f])
        <3>1. CASE f = "nodes" /\ read[f] = <<>>
            <4>1. TypedOnWire(f, read[f])
                BY <3>1 DEF TypedOnWire
            <4> QED
                BY <1>5a, <2>1, <4>1, FieldTyped
        <3>2. CASE f \in DOMAIN w.args /\ read[f] = w.args[f]
            BY <1>1, <1>5a, <2>1, <3>2, FieldTyped
        <3> QED
            BY <1>6, <3>1, <3>2
    <2> QED
        BY <2>2, <2>3
<1> QED
    BY <1>1, <1>4, <1>6, <1>7, <1>8, <1>9 DEF IsMessage, r

LEMMA AnnounceFields ==
    ASSUME NEW y, NEW kind, y = "q", kind = "announce_peer"
    PROVE  /\ Mandatory(y, kind) = {"sender_id", "target", "token", "port"}
           /\ Optional(y, kind) = {"implied_port"}
<1>1. y # "e" /\ kind # "ping"
    OBVIOUS
<1>2. Mandatory(y, kind) = Target \cup {"token", "port"}
    BY <1>1 DEF Mandatory
<1>3. Optional(y, kind) = {"implied_port"}
    BY DEF Optional
<1> QED
    BY <1>2, <1>3 DEF Target

LEMMA TypedSetting ==
    ASSUME NEW g, g = [h \in DOMAIN g |-> g[h]], \A h \in DOMAIN g : Typed(h, g[h]),
           NEW f, NEW v, Typed(f, v)
    PROVE  /\ DOMAIN Setting(g, f, v) = DOMAIN g \cup {f}
           /\ Setting(g, f, v) = [h \in DOMAIN Setting(g, f, v) |-> Setting(g, f, v)[h]]
           /\ \A h \in DOMAIN Setting(g, f, v) : Typed(h, Setting(g, f, v)[h])
<1> DEFINE new == Setting(g, f, v)
<1>1. /\ DOMAIN new = DOMAIN g \cup {f}
      /\ \A h \in DOMAIN g \cup {f} : new[h] = IF h = f THEN v ELSE g[h]
      /\ new = [h \in DOMAIN new |-> new[h]]
    BY DEF Setting
<1> HIDE DEF new
<1>2. ASSUME NEW h \in DOMAIN new PROVE Typed(h, new[h])
    <2>1. CASE h = f
        BY <1>1, <2>1
    <2>2. CASE h # f
        BY <1>1, <2>2
    <2> QED
        BY <2>1, <2>2
<1> QED
    BY <1>1, <1>2 DEF new

\* What build returns is a message.
LEMMA BuiltIsMessage ==
    ASSUME PInv, ~Refused
    PROVE  IsMessage(Built)
<1> DEFINE y == type[1]
           kind == BuiltKind
           read == Mandatory(y, kind) \cup Optional(y, kind)
           given == Restrict(builder, read \cap DOMAIN builder)
           head == CommonFields
           args == Arguments
<1>1. /\ type = <<y, type[2]>>
      /\ \/ y \in {"q", "r"} /\ type[2] \in RequestKind
         \/ y = "e" /\ type[2] = "error"
    BY DEF PInv, Types
<1>2. <<y, kind>> \in Types \ {<<"r", "announce_peer">>}
    BY <1>1 DEF BuiltKind, Types, RequestKind
<1>3. /\ DOMAIN given = read \cap DOMAIN builder /\ given = [f \in DOMAIN given |-> given[f]]
      /\ \A f \in DOMAIN given : Typed(f, given[f])
    BY DEF Restrict, PInv
<1>4. Mandatory(y, kind) \ {"port"} \subseteq DOMAIN given
    BY <1>3 DEF Refused
<1>5. Built = [y |-> y, kind |-> kind, head |-> head, args |-> args]
    BY DEF Built
<1>7. /\ DOMAIN head \subseteq Common /\ head = [f \in DOMAIN head |-> head[f]]
      /\ \A f \in DOMAIN head : Typed(f, head[f])
    <2> DEFINE mine == Restrict(builder, HeadOf(y) \cap DOMAIN builder)
    <2>1. /\ DOMAIN mine \subseteq HeadOf(y) /\ mine = [f \in DOMAIN mine |-> mine[f]]
          /\ \A f \in DOMAIN mine : Typed(f, mine[f])
        BY DEF Restrict, PInv
    <2>2. HeadOf(y) \subseteq Common /\ "transaction_id" \in Common
        BY <1>1 DEF HeadOf, Common
    <2>3. head = IF "transaction_id" \in DOMAIN mine THEN mine
                 ELSE Setting(mine, "transaction_id", Fallback)
        BY DEF CommonFields, Defaulting
    <2>4. \A v : Typed("transaction_id", v)
        BY DEF Typed
    <2> HIDE DEF mine, head, y
    <2>5. CASE "transaction_id" \in DOMAIN mine
        BY <2>1, <2>2, <2>3, <2>5
    <2>6. CASE "transaction_id" \notin DOMAIN mine
        <3>1. head = Setting(mine, "transaction_id", Fallback)
            BY <2>3, <2>6
        <3> DEFINE set == Setting(mine, "transaction_id", Fallback)
        <3>2. /\ DOMAIN set = DOMAIN mine \cup {"transaction_id"}
              /\ set = [f \in DOMAIN set |-> set[f]]
              /\ \A f \in DOMAIN set : Typed(f, set[f])
            BY <2>1, <2>4, TypedSetting
        <3> HIDE DEF set
        <3>3. head = set
            BY <3>1 DEF set
        <3> QED
            BY <2>1, <2>2, <3>2, <3>3
    <2> QED
        BY <2>5, <2>6
<1>8. CASE type = <<"q", "announce_peer">>
    <2>1. args = Implied(given) /\ y = "q" /\ kind = "announce_peer"
        BY <1>8 DEF Arguments, BuiltKind
    <2>2. /\ Mandatory(y, kind) = {"sender_id", "target", "token", "port"}
          /\ Optional(y, kind) = {"implied_port"}
        BY <2>1, AnnounceFields
    <2>3. (\A v : Typed("port", v)) /\ Typed("implied_port", TRUE)
        BY DEF Typed
    <2>4. /\ DOMAIN given \cup {"port"} \subseteq DOMAIN args
          /\ DOMAIN args \subseteq DOMAIN given \cup {"port", "implied_port"}
          /\ args = [f \in DOMAIN args |-> args[f]]
          /\ \A f \in DOMAIN args : Typed(f, args[f])
        <3> HIDE DEF args, given
        <3>1. CASE "port" \in DOMAIN given
            BY <1>3, <2>1, <3>1 DEF Implied
        <3>2. CASE "port" \notin DOMAIN given
            <4> DEFINE ported == Setting(given, "port", 0)
            <4>1. args = IF "implied_port" \in DOMAIN ported THEN ported
                         ELSE Setting(ported, "implied_port", TRUE)
                BY <2>1, <3>2 DEF Implied, Defaulting
            <4>2. /\ DOMAIN ported = DOMAIN given \cup {"port"}
                  /\ ported = [f \in DOMAIN ported |-> ported[f]]
                  /\ \A f \in DOMAIN ported : Typed(f, ported[f])
                BY <1>3, <2>3, TypedSetting
            <4> HIDE DEF ported
            <4>3. CASE "implied_port" \in DOMAIN ported
                BY <4>1, <4>2, <4>3
            <4>4. CASE "implied_port" \notin DOMAIN ported
                <5>1. args = Setting(ported, "implied_port", TRUE)
                    BY <4>1, <4>4
                <5> DEFINE set == Setting(ported, "implied_port", TRUE)
                <5>2. /\ DOMAIN set = DOMAIN ported \cup {"implied_port"}
                      /\ set = [f \in DOMAIN set |-> set[f]]
                      /\ \A f \in DOMAIN set : Typed(f, set[f])
                    BY <2>3, <4>2, TypedSetting
                <5> HIDE DEF set
                <5>3. args = set
                    BY <5>1 DEF set
                <5> QED
                    BY <4>2, <5>2, <5>3
            <4> QED
                BY <4>3, <4>4
        <3> QED
            BY <3>1, <3>2
    <2>5. DOMAIN given \subseteq read
        BY <1>3
    <2> HIDE DEF args, given, head, y, kind
    <2>6. /\ Mandatory(y, kind) \subseteq DOMAIN args
          /\ DOMAIN args \subseteq Mandatory(y, kind) \cup Optional(y, kind)
        BY <1>4, <2>2, <2>4, <2>5
    <2> QED
        BY <1>2, <1>5, <1>7, <2>1, <2>4, <2>6 DEF IsMessage
<1>9. CASE type # <<"q", "announce_peer">>
    <2>1. /\ Mandatory(y, kind) \subseteq DOMAIN given
          /\ DOMAIN given \subseteq Mandatory(y, kind) \cup Optional(y, kind)
        <3>1. "port" \notin Mandatory(y, kind)
            BY <1>1, <1>9 DEF Mandatory, BuiltKind, RequestKind, Target
        <3> QED
            BY <1>3, <1>4, <3>1
    <2>2. CASE type = <<"r", "get_peers">> /\ "peers" \in DOMAIN builder
        <3>1. args = Restrict(given, DOMAIN given \ {"nodes"})
            BY <2>2 DEF Arguments, BuiltKind
        <3>2. /\ DOMAIN args = DOMAIN given \ {"nodes"} /\ args = [f \in DOMAIN args |-> args[f]]
              /\ \A f \in DOMAIN args : Typed(f, args[f])
            BY <1>3, <3>1 DEF Restrict
        <3>3. /\ Mandatory(y, kind) = {"sender_id", "token"}
              /\ Optional(y, kind) = {"nodes", "peers"}
            BY <2>2 DEF Mandatory, Optional, BuiltKind
        <3>4. "peers" \in DOMAIN given
            BY <1>3, <2>2, <3>3
        <3> HIDE DEF args, given, head, y, kind
        <3> QED
            BY <1>2, <1>5, <1>7, <2>1, <3>2, <3>3, <3>4 DEF IsMessage
    <2>3. CASE ~(type = <<"r", "get_peers">> /\ "peers" \in DOMAIN builder)
        <3>1. args = given
            BY <1>9, <2>3 DEF Arguments
        <3>2. <<y, kind>> = <<"r", "get_peers">> =>
                 ("nodes" \in DOMAIN args <=> "peers" \notin DOMAIN args)
            <4> SUFFICES ASSUME y = "r", kind = "get_peers"
                         PROVE  "nodes" \in DOMAIN args <=> "peers" \notin DOMAIN args
                OBVIOUS
            <4>1. type = <<"r", "get_peers">>
                BY <1>1 DEF BuiltKind
            <4>2. {"nodes", "peers"} \subseteq read
                BY DEF Optional
            <4>3. "nodes" \in DOMAIN builder /\ "peers" \notin DOMAIN builder
                BY <2>3, <4>1 DEF Refused
            <4> QED
                BY <1>3, <3>1, <4>2, <4>3
        <3> HIDE DEF args, given, head, y, kind
        <3> QED
            BY <1>2, <1>3, <1>5, <1>7, <2>1, <3>1, <3>2 DEF IsMessage
    <2> QED
        BY <2>2, <2>3
<1> QED
    BY <1>8, <1>9

LEMMA PInvInitially == PacketsInit => PInv
    BY DEF PacketsInit, PInv

LEMMA BuilderKept ==
    ASSUME UNCHANGED <<type, builder>>
    PROVE  Built' = Built /\ Refused' = Refused
    BY DEF Built, Refused, BuiltKind, CommonFields, Arguments

LEMMA PInvKept == PInv /\ [PacketsNext]_packetVars => PInv'
<1> SUFFICES ASSUME PInv, [PacketsNext]_packetVars PROVE PInv'
    OBVIOUS
<1>1. ASSUME NEW f \in DOMAIN Value, NEW v \in Value[f], Set(f, v)
      PROVE  PInv'
    <2>1. Typed(f, v)
        BY PacketsAssumption
    <2>2. /\ DOMAIN builder' = DOMAIN builder \cup {f}
          /\ \A h \in DOMAIN builder' : builder'[h] = IF h = f THEN v ELSE builder[h]
        BY <1>1 DEF Set, Setting
    <2>3. \A h \in DOMAIN builder' : Typed(h, builder'[h])
        BY <2>1, <2>2 DEF PInv
    <2>4. message = None /\ wire = None /\ UNCHANGED <<type, message, wire, result>>
        BY <1>1 DEF Set
    <2> QED
        BY <2>3, <2>4 DEF PInv
<1>2. CASE Build
    <2>1. /\ message = None /\ wire = None /\ message' = IF Refused THEN Failed ELSE Built
          /\ UNCHANGED <<type, builder, wire, result>>
        BY <1>2 DEF Build
    <2>2. ASSUME message' \notin {None, Failed}
          PROVE  IsMessage(message') /\ message' = Built' /\ ~Refused'
        <3>1. ~Refused /\ message' = Built
            BY <2>1, <2>2
        <3>2. Built' = Built /\ Refused' = Refused
            BY <2>1, BuilderKept
        <3> QED
            BY <3>1, <3>2, BuiltIsMessage
    <2> QED
        BY <2>1, <2>2 DEF PInv
<1>3. CASE Send
    <2>1. /\ message \notin {None, Failed} /\ wire = None /\ wire' = IntoSerdeMessage(message)
          /\ UNCHANGED <<type, builder, message, result>>
        BY <1>3 DEF Send
    <2>2. result = None
        BY <2>1 DEF PInv
    <2>3. Built' = Built /\ Refused' = Refused
        BY <2>1, BuilderKept
    <2> QED
        BY <2>1, <2>2, <2>3 DEF PInv
<1>4. CASE Receive
    <2>1. /\ wire # None /\ result' = FromBytes(wire)
          /\ UNCHANGED <<type, builder, message, wire>>
        BY <1>4 DEF Receive
    <2>2. Built' = Built /\ Refused' = Refused
        BY <2>1, BuilderKept
    <2> QED
        BY <2>1, <2>2 DEF PInv
<1>5. CASE SendOn
    <2>1. /\ result \notin {None, Failed} /\ message = None
          /\ message' = result /\ wire' = IntoSerdeMessage(result) /\ result' = None
          /\ UNCHANGED <<type, builder>>
        BY <1>5 DEF SendOn
    <2>2. wire \in Foreign /\ builder = <<>> /\ result = FromBytes(wire)
        BY <2>1 DEF PInv
    <2>3. IsMessage(result)
        BY <2>1, <2>2, ForeignIsMessage
    <2> QED
        BY <2>1, <2>2, <2>3 DEF PInv
<1>6. ASSUME NEW w \in Foreign, Arrive(w)
      PROVE  PInv'
    <2>1. /\ builder = <<>> /\ message = None /\ wire = None /\ wire' = w
          /\ UNCHANGED <<type, builder, message, result>>
        BY <1>6 DEF Arrive
    <2>2. result = None
        BY <2>1 DEF PInv
    <2> QED
        BY <2>1, <2>2 DEF PInv
<1>7. CASE UNCHANGED packetVars
    <2>1. UNCHANGED <<type, builder, message, wire, result>>
        BY <1>7 DEF packetVars
    <2>2. Built' = Built /\ Refused' = Refused
        BY <2>1, BuilderKept
    <2> QED
        BY <2>1, <2>2 DEF PInv
<1> QED
    BY <1>1, <1>2, <1>3, <1>4, <1>5, <1>6, <1>7 DEF PacketsNext

\* What is understood of one's own message.
LEMMA OwnMessage ==
    ASSUME PInv, message \notin {None, Failed}, result # None
    PROVE  IsMessage(message) /\ result = Received(message)
<1>1. IsMessage(message) /\ wire = IntoSerdeMessage(message) /\ result = FromBytes(wire)
    BY DEF PInv
<1> QED
    BY <1>1, MessageReceived

\* A message comes out as it went in, its kind and every field, an interval but
\* for its fraction of a second and what exceeds the cap; one with an IPv6
\* address is not read, unless that is one of thirteen nodes, or of a multiple,
\* and then the nodes alone are others (public.rs:202-509, 640-668,
\* internal.rs:85-107).
THEOREM MessagesComeThrough == PacketsSpec => []RoundTrip
<1>1. PInv => RoundTrip
    <2> SUFFICES ASSUME PInv, message \notin {None, Failed}, result # None,
                        ~Some(message, Offends)
                 PROVE  result = [message EXCEPT !.args =
                          [f \in DOMAIN message.args |->
                            CASE f = "interval" ->
                                   [secs |-> Min({message.args[f].secs, Cap}), nanos |-> 0]
                              [] HasIpv6(f, message.args[f]) -> result.args[f]
                              [] OTHER -> message.args[f]]]
        BY OwnMessage DEF RoundTrip, Received
    <2> DEFINE args == [f \in DOMAIN message.args |-> Arrived(f, message.args[f])]
    <2>1. IsMessage(message) /\ result = Received(message)
        BY OwnMessage
    <2>2. result = [message EXCEPT !.args = args]
        BY <2>1 DEF Received
    <2>3. result.args = args
        <3>1. message = [y |-> message.y, kind |-> message.kind, head |-> message.head,
                         args |-> message.args]
            BY <2>1 DEF IsMessage
        <3> HIDE DEF args
        <3> QED
            BY <2>2, <3>1
    <2>4. ASSUME NEW f \in DOMAIN message.args
          PROVE  args[f] = CASE f = "interval" ->
                                  [secs |-> Min({message.args[f].secs, Cap}), nanos |-> 0]
                             [] HasIpv6(f, message.args[f]) -> result.args[f]
                             [] OTHER -> message.args[f]
        <3>1. CASE f = "interval"
            <4>1. ~HasIpv6(f, message.args[f])
                BY <3>1 DEF HasIpv6
            <4> QED
                BY <3>1, <4>1 DEF Arrived
        <3>2. CASE f # "interval" /\ HasIpv6(f, message.args[f])
            BY <2>3, <3>2
        <3>3. CASE f = "nodes" /\ ~HasIpv6(f, message.args[f])
            <4>1. Typed(f, message.args[f])
                BY <2>1 DEF IsMessage
            <4>2. /\ message.args[f] \in Seq(Address)
                  /\ Ipv6s(message.args[f], DOMAIN message.args[f]) = {}
                BY <3>3, <4>1 DEF Typed, HasIpv6
            <4> QED
                BY <3>3, <4>2, NodesThere DEF Arrived
        <3>4. CASE f \notin {"interval", "nodes"} /\ ~HasIpv6(f, message.args[f])
            BY <3>4 DEF Arrived
        <3> QED
            BY <3>1, <3>2, <3>3, <3>4
    <2> DEFINE kept == [f \in DOMAIN message.args |->
                            CASE f = "interval" ->
                                   [secs |-> Min({message.args[f].secs, Cap}), nanos |-> 0]
                              [] HasIpv6(f, message.args[f]) -> result.args[f]
                              [] OTHER -> message.args[f]]
    <2>5. args = kept
        BY <2>4
    <2> HIDE DEF args, kept
    <2>6. result = [message EXCEPT !.args = kept]
        BY <2>2, <2>5
    <2> QED
        BY <2>6 DEF kept
<1> QED
    BY <1>1, PInvInitially, PInvKept, PTL DEF PacketsSpec

\* No dictionary whatever is understood as a request or response without an
\* author, and as an error with one (public.rs:526-547, dht.rs:829).
THEOREM AuthorsAreKnown == PacketsSpec => []AuthorKnown
<1>1. PInv => AuthorKnown
    <2> SUFFICES ASSUME PInv, result \notin {None, Failed}
                 PROVE  result.y \in {"q", "r"} <=> AuthorId(result) # None
        BY DEF AuthorKnown
    <2>1. IsMessage(result)
        <3>1. CASE message \notin {None, Failed}
            <4>1. IsMessage(message) /\ result = Received(message)
                BY <3>1, OwnMessage
            <4>2. ~Some(message, Offends)
                BY <4>1 DEF Received
            <4> QED
                BY <4>1, <4>2, ReceivedIsMessage
        <3>2. CASE message \in {None, Failed}
            <4>1. wire \in Foreign /\ result = FromBytes(wire)
                BY <3>2 DEF PInv
            <4> QED
                BY <4>1, ForeignIsMessage
        <3> QED
            BY <3>1, <3>2
    <2>2. CASE result.y \in {"q", "r"}
        <3>1. "sender_id" \in Mandatory(result.y, result.kind)
            BY <2>1, <2>2 DEF IsMessage, Types, RequestKind, Mandatory, Target
        <3>2. "sender_id" \in DOMAIN result.args /\ Typed("sender_id", result.args["sender_id"])
            BY <2>1, <3>1 DEF IsMessage
        <3> QED
            BY <2>2, <3>2 DEF Typed, AuthorId
    <2>3. CASE result.y \notin {"q", "r"}
        BY <2>3 DEF AuthorId
    <2> QED
        BY <2>2, <2>3
<1> QED
    BY <1>1, PInvInitially, PInvKept, PTL DEF PacketsSpec

\* From announce_peer's setters to its handler the port keeps its meaning
\* (builder.rs:401-428, dht.rs:460-468).
THEOREM PortsAsMeant == PacketsSpec => []PortAsMeant
<1>1. PInv => PortAsMeant
    <2> SUFFICES ASSUME PInv, builder # <<>>, type = <<"q", "announce_peer">>,
                        result \notin {None, Failed}
                 PROVE  AnnouncedPort(result.args) =
                            IF "port" \notin DOMAIN builder THEN SenderPort
                            ELSE IF "implied_port" \in DOMAIN builder /\ builder["implied_port"]
                                 THEN SenderPort
                                 ELSE builder["port"]
        BY DEF PortAsMeant
    <2>1. message \notin {None, Failed} /\ message = Built
        BY DEF PInv
    <2>2. IsMessage(message) /\ result = Received(message)
        BY <2>1, OwnMessage
    <2> DEFINE args == Arguments
               read == Mandatory("q", "announce_peer") \cup Optional("q", "announce_peer")
               given == Restrict(builder, read \cap DOMAIN builder)
    <2>3. message.args = args
        BY <2>1 DEF Built
    <2>4. /\ DOMAIN result.args = DOMAIN args
          /\ \A f \in DOMAIN args \ {"interval", "nodes"} : result.args[f] = args[f]
        <3> DEFINE kept == [f \in DOMAIN message.args |-> Arrived(f, message.args[f])]
        <3>1. result = [message EXCEPT !.args = kept]
            BY <2>2 DEF Received
        <3>2. message = [y |-> message.y, kind |-> message.kind, head |-> message.head,
                         args |-> message.args]
            BY <2>2 DEF IsMessage
        <3> HIDE DEF kept
        <3>3. result.args = kept
            BY <3>1, <3>2
        <3> HIDE DEF args
        <3> QED
            BY <2>3, <3>3 DEF kept, Arrived
    <2>5. args = Implied(given)
        BY DEF Arguments, BuiltKind
    <2>6. {"port", "implied_port"} \subseteq read
        BY AnnounceFields
    <2> HIDE DEF args, read
    <2>7. /\ DOMAIN given = read \cap DOMAIN builder
          /\ \A f \in DOMAIN given : given[f] = builder[f]
        BY DEF Restrict
    <2>8. \A f \in {"port", "implied_port"} :
            /\ f \in DOMAIN given <=> f \in DOMAIN builder
            /\ f \in DOMAIN builder => given[f] = builder[f]
        BY <2>6, <2>7
    <2> HIDE DEF given
    <2>9. CASE "port" \in DOMAIN builder
        <3>1. args = given
            BY <2>5, <2>8, <2>9 DEF Implied
        <3> QED
            BY <2>4, <2>8, <2>9, <3>1 DEF AnnouncedPort
    <2>10. CASE "port" \notin DOMAIN builder
        <3> DEFINE ported == Setting(given, "port", 0)
        <3>1. args = Defaulting(ported, "implied_port", TRUE)
            BY <2>5, <2>8, <2>10 DEF Implied
        <3>2. /\ DOMAIN ported = DOMAIN given \cup {"port"}
              /\ \A f \in DOMAIN given \ {"port"} : ported[f] = given[f]
            BY DEF Setting
        <3> HIDE DEF ported
        <3>3. CASE "implied_port" \in DOMAIN builder
            <4>1. ~Refused
                BY <2>1 DEF PInv
            <4>2. builder["implied_port"]
                BY <2>10, <3>3, <4>1 DEF Refused
            <4>3. args = ported
                BY <2>8, <3>1, <3>2, <3>3 DEF Defaulting
            <4>4. "implied_port" \in DOMAIN args /\ args["implied_port"] = builder["implied_port"]
                BY <2>8, <3>2, <3>3, <4>3
            <4> QED
                BY <2>4, <2>10, <4>2, <4>4 DEF AnnouncedPort
        <3>4. CASE "implied_port" \notin DOMAIN builder
            <4>1. args = Setting(ported, "implied_port", TRUE)
                BY <2>8, <3>1, <3>2, <3>4 DEF Defaulting
            <4>2. "implied_port" \in DOMAIN args /\ args["implied_port"] = TRUE
                BY <4>1 DEF Setting
            <4> QED
                BY <2>4, <2>10, <4>2 DEF AnnouncedPort
        <3> QED
            BY <3>3, <3>4
    <2> QED
        BY <2>9, <2>10
<1> QED
    BY <1>1, PInvInitially, PInvKept, PTL DEF PacketsSpec
=============================================================================
