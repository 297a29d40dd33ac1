---------------------------- MODULE Announcements ----------------------------
(***************************************************************************)
(* Serving get_peers and announce_peer requests: the tokens that let a     *)
(* node announce a peer (src/dht/dht.rs) and the two levels of LRU caches  *)
(* that keep the peers (src/storage/peer_storage.rs).  A handler changes   *)
(* this state under one lock of the DHT's state and so is one action.      *)
(* A cache is a sequence of entries with a key and a value, the one used   *)
(* last first, as the lru crate iterates over it.                          *)
(***************************************************************************)
EXTENDS Integers, Sequences, FiniteSets, Functions

CONSTANTS InfoHash,
          Ip, IPv4,         \* addresses, and those of them that are IPv4
          Port,
          MaxTorrents,      \* the setting max_torrents, 50
          MaxPeers,         \* max_peers_per_torrent, 100
          MaxResponse,      \* max_peers_response, 128
          Freshness,        \* get_peers_freshness_secs, 900 s
          Rotation,         \* the interval of periodic_token_rotation, 300 s
          NoToken,
          MaxTime           \* bound on the clock

ASSUME AnnouncementsAssumption ==
    /\ IPv4 \subseteq Ip
    /\ MaxTorrents \in Nat \ {0} /\ MaxPeers \in Nat \ {0} /\ MaxResponse \in Nat
    /\ Freshness \in Nat /\ Rotation \in Nat \ {0}
    /\ MaxTime \in Nat

Instants == 0 .. MaxTime

SocketAddr == [ip : Ip, port : Port]

\* calculate_token: a checksum of the address (not the port) and the secret.
\* Secrets are random; the n-th since the start is n here.
Token == [ip : Ip, secret : Nat]
calculate_token(ip, secret) == [ip |-> ip, secret |-> secret]

ASSUME NoTokenAssumption == NoToken \notin [token : Token, at : Nat]

VARIABLES torrents,           \* PeerStorage: LRU of LRUs of last_updated
          token_secret, old_token_secret,
          held,               \* per address, the last token we sent it, and when
          to_rotation,        \* time to the next rotation
          now

vars == <<torrents, token_secret, old_token_secret, held, to_rotation, now>>

tokenVars == <<token_secret, old_token_secret, to_rotation>>

Keys(lru) == {e.key : e \in Range(lru)}
Truncated(seq, n) == SubSeq(seq, 1, IF Len(seq) < n THEN Len(seq) ELSE n)
ValueOf(lru, key) == (CHOOSE e \in Range(lru) : e.key = key).value

\* The entry of key, which the crate finds in its hash map, is unlinked.
Without(lru, key) ==
    LET at == CHOOSE i \in DOMAIN lru : lru[i].key = key
    IN  IF key \in Keys(lru) THEN [i \in 1 .. Len(lru) - 1 |-> lru[IF i < at THEN i ELSE i + 1]]
                             ELSE lru

\* Faulty variants: a known key keeps its place; or its old entry.
PutInPlace(lru, key, value, cap) ==
    IF key \in Keys(lru)
      THEN [i \in DOMAIN lru |-> IF lru[i].key = key THEN [key |-> key, value |-> value]
                                                     ELSE lru[i]]
      ELSE Truncated(<<[key |-> key, value |-> value]>> \o lru, cap)
PutAgain(lru, key, value, cap) ==
    Truncated(<<[key |-> key, value |-> value]>> \o lru, cap)

\* LruCache::put: to the front; the least recently used entry makes room.
Put(lru, key, value, cap) ==
    Truncated(<<[key |-> key, value |-> value]>> \o Without(lru, key), cap)

\* LruCache::get and get_mut: to the front.
Touched(lru, key) ==
    IF key \in Keys(lru) THEN <<[key |-> key, value |-> ValueOf(lru, key)]>> \o Without(lru, key)
                         ELSE lru

Swarm(info_hash) ==
    IF info_hash \in Keys(torrents) THEN ValueOf(torrents, info_hash) ELSE <<>>

\* PeerStorage::announce_peer: the caches once addr is in info_hash's swarm.
Announced(addr, info_hash) ==
    Put(torrents, info_hash, Put(Swarm(info_hash), addr, now, MaxPeers), MaxTorrents)

\* get_peers_info's filters: IPv4 only, and newer than the freshness allows.
Fresh(e) == e.key.ip \in IPv4 /\ e.value > now - Freshness

\* The peers of a get_peers response: the first of those that pass.
GetPeersInfo(info_hash) ==
    LET swarm == Swarm(info_hash)
    IN  {swarm[i] : i \in {j \in DOMAIN swarm :
            /\ Fresh(swarm[j])
            /\ Cardinality({k \in 1 .. j : Fresh(swarm[k])}) <= MaxResponse}}

----------------------------------------------------------------------------
Init ==
    /\ torrents = <<>>
    /\ token_secret = 0
    /\ old_token_secret = 0
    /\ held = [ip \in Ip |-> NoToken]
    /\ to_rotation = Rotation
    /\ now = 0

\* The get_peers handler: looks the swarm up and sends a token.
GetPeers(ip, info_hash) ==
    /\ torrents' = Touched(torrents, info_hash)
    /\ held' = [held EXCEPT ![ip] =
                  [token |-> calculate_token(ip, token_secret), at |-> now]]
    /\ UNCHANGED <<tokenVars, now>>

\* Faulty variant: a token is as good from any address.
TokenValidFromAnywhere(token, ip) == token.secret \in {token_secret, old_token_secret}

IsTokenValid(token, ip) ==
    \/ token = calculate_token(ip, token_secret)
    \/ token = calculate_token(ip, old_token_secret)

\* The announce_peer handler, with a token that was sent to holder; without a
\* valid one nothing changes and nothing is answered.
AnnouncePeer(addr, holder, info_hash) ==
    /\ held[holder] # NoToken
    /\ IsTokenValid(held[holder].token, addr.ip)
    /\ torrents' = Announced(addr, info_hash)
    /\ UNCHANGED <<tokenVars, held, now>>

\* Faulty variant: the secret is replaced before it is kept as the old one.
RotateReplaceFirst ==
    /\ to_rotation = 0
    /\ token_secret' = token_secret + 1
    /\ old_token_secret' = token_secret'
    /\ to_rotation' = Rotation
    /\ UNCHANGED <<torrents, held, now>>

RotateTokenSecrets ==
    /\ to_rotation = 0
    /\ old_token_secret' = token_secret
    /\ token_secret' = token_secret + 1
    /\ to_rotation' = Rotation
    /\ UNCHANGED <<torrents, held, now>>

\* Time passes; the rotation is not late by a whole tick.
Tick ==
    /\ now < MaxTime /\ to_rotation > 0
    /\ now' = now + 1
    /\ to_rotation' = to_rotation - 1
    /\ UNCHANGED <<torrents, token_secret, old_token_secret, held>>

Next ==
    \/ \E ip \in Ip, info_hash \in InfoHash : GetPeers(ip, info_hash)
    \/ \E addr \in SocketAddr, holder \in Ip, info_hash \in InfoHash :
           AnnouncePeer(addr, holder, info_hash)
    \/ RotateTokenSecrets
    \/ Tick

Spec == Init /\ [][Next]_vars

----------------------------------------------------------------------------
(* Properties.                                                             *)

PeerInfo == [key : SocketAddr, value : Instants]

\* Also: the caches keep to their capacities and hold a key once, whichever
\* of put, get and get_mut was called on them.
TypeOK ==
    /\ Len(torrents) <= MaxTorrents
    /\ \A i, j \in DOMAIN torrents : torrents[i].key = torrents[j].key => i = j
    /\ \A t \in Range(torrents) :
         /\ t.key \in InfoHash
         /\ t.value \in Seq(PeerInfo) /\ Len(t.value) \in 1 .. MaxPeers
         /\ \A i, j \in DOMAIN t.value : t.value[i].key = t.value[j].key => i = j
    /\ token_secret \in Nat /\ old_token_secret \in Nat
    /\ held \in [Ip -> [token : Token, at : Instants] \cup {NoToken}]
    /\ to_rotation \in 0 .. Rotation
    /\ now \in Instants

\* A response that has not room for every fresh peer names those announced
\* last: the cut (dht.rs:394) is made in the order of the cache, which must
\* agree with the instants (peer_storage.rs:39-53).
FreshestServed ==
    \A info_hash \in InfoHash :
        LET served == GetPeersInfo(info_hash)
        IN  \A p \in Range(Swarm(info_hash)) \ served :
                Fresh(p) => /\ Cardinality(served) = MaxResponse
                            /\ \A q \in served : q.value >= p.value

\* A token serves its address for one rotation interval at least, at whatever
\* point between two rotations it was sent (dht.rs:455-458, 917-929).
TokenServesOneInterval ==
    \A ip \in Ip : held[ip] # NoToken /\ now - held[ip].at < Rotation
                    => IsTokenValid(held[ip].token, ip)

\* Nobody is announced, or announced again, who has not asked us from the same
\* IP address within two rotation intervals.
AnnouncedAskedBefore ==
    [][\A info_hash \in InfoHash :
         \A p \in Range(Swarm(info_hash)') \ Range(Swarm(info_hash)) :
             held[p.key.ip] # NoToken /\ now - held[p.key.ip].at <= 2 * Rotation]_vars
============================================================================
