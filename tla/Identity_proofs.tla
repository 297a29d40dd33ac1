---------------------------- MODULE Identity_proofs ----------------------------
(***************************************************************************)
(* Theorems about Identity, for any addresses, ids and numbers of votes.   *)
(* The votes decide when our id changes, and StorageFits holds whenever    *)
(* that is: its invariant needs nothing of them.  AdoptionEarned needs the *)
(* list in order (ListOK), so what sorting and decay make of a list, and   *)
(* how the votes of an address are earned (Earned).                        *)
(***************************************************************************)
EXTENDS Identity, FiniteSetTheorems, TLAPS

USE IdentityAssumption

\* What the steps preserve: a node is stored only if it fits, and storing it
\* leaves out our id and ids that are there.
Fitting == nodes \subseteq Node /\ our_id \in NodeId /\ StorageFits

LEMMA StoredFits ==
    ASSUME Fitting, NEW id \in NodeId, NEW ip \in Ip, IsValidForIp(id, ip),
           nodes' = Stored(nodes, id, ip), our_id' = our_id
    PROVE  Fitting'
<1>1. CASE id = our_id \/ \E n \in nodes : n.id = id
    BY <1>1 DEF Stored, Fitting, StorageFits
<1>2. CASE ~(id = our_id \/ \E n \in nodes : n.id = id)
    <2>1. nodes' = nodes \cup {[id |-> id, ip |-> ip]}
        BY <1>2 DEF Stored
    <2>2. nodes' \subseteq Node
        BY <2>1 DEF Fitting, Node
    <2>3. \A n \in nodes' : n.ip \in ValidFor[n.id] /\ n.id # our_id
        BY <1>2, <2>1 DEF Fitting, StorageFits, IsValidForIp
    <2>4. \A n, o \in nodes' : n.id = o.id => n = o
        BY <1>2, <2>1 DEF Fitting, StorageFits
    <2> QED
        BY <2>2, <2>3, <2>4 DEF Fitting, StorageFits
<1> QED
    BY <1>1, <1>2

LEMMA FittingStep ==
    ASSUME Fitting, [Next]_vars
    PROVE  Fitting'
<1>1. ASSUME NEW id \in NodeId, NEW ip \in Ip, NEW claim \in Ip \cup {NoIp},
             HandleReply(id, ip, claim)
      PROVE  Fitting'
    BY <1>1, StoredFits DEF HandleReply
<1>2. ASSUME NEW id \in NodeId, NEW ip \in Ip, AddSeen(id, ip)
      PROVE  Fitting'
    BY <1>2, StoredFits DEF AddSeen
<1>3. CASE Maintain
    <2>1. CASE UNCHANGED <<our_id, nodes>>
        BY <2>1 DEF Fitting, StorageFits
    <2>2. CASE our_id' \in NodeId /\ nodes' = {}
        BY <2>2 DEF Fitting, StorageFits
    <2> QED
        BY <1>3, <2>1, <2>2 DEF Maintain
<1>4. ASSUME NEW n \in nodes, Forget(n)
      PROVE  Fitting'
    BY <1>4 DEF Forget, Fitting, StorageFits
<1>5. ASSUME NEW ip \in Ip, Settle(ip)
      PROVE  Fitting'
    BY <1>5 DEF Settle, Fitting, StorageFits
<1>6. CASE UNCHANGED vars
    BY <1>6 DEF vars, Fitting, StorageFits
<1> QED
    BY <1>1, <1>2, <1>3, <1>4, <1>5, <1>6 DEF Next

\* Nobody is in the routing storage whose id does not fit the address we have of
\* it, or twice, or with our id, whenever our id changes (dht.rs:712-734,
\* 830-854).
THEOREM StorageAlwaysFits == Spec => []StorageFits
<1>1. Init => Fitting
    BY DEF Init, Fitting, StorageFits
<1>2. Fitting /\ [Next]_vars => Fitting'
    BY FittingStep
<1>3. Fitting => StorageFits
    BY DEF Fitting
<1> QED
    BY <1>1, <1>2, <1>3, PTL DEF Spec

----------------------------------------------------------------------------
(* Places in an order.                                                     *)

\* The pairs of a total order, reflexive, on S.
TotalOrder(Le, S) ==
    /\ \A i \in S : <<i, i>> \in Le
    /\ \A i, j \in S : <<i, j>> \in Le \/ <<j, i>> \in Le
    /\ \A i, j \in S : <<i, j>> \in Le /\ <<j, i>> \in Le => i = j
    /\ \A i, j, k \in S : <<i, j>> \in Le /\ <<j, k>> \in Le => <<i, k>> \in Le

UpTo(Le, S, i) == {j \in S : <<j, i>> \in Le}

\* Each place from the first to the last is that of one element, and the places
\* are in the order of the elements.
LEMMA PlacesInOrder ==
    ASSUME NEW S, IsFiniteSet(S), NEW Le, TotalOrder(Le, S)
    PROVE  /\ Cardinality(S) \in Nat
           /\ \A i \in S : Cardinality(UpTo(Le, S, i)) \in 1 .. Cardinality(S)
           /\ \A i, j \in S : Cardinality(UpTo(Le, S, i)) <= Cardinality(UpTo(Le, S, j))
                              => <<i, j>> \in Le
           /\ \A k \in 1 .. Cardinality(S) : \E i \in S : Cardinality(UpTo(Le, S, i)) = k
<1> DEFINE P(i) == Cardinality(UpTo(Le, S, i))
           f == [i \in S |-> P(i)]
<1>1. Cardinality(S) \in Nat
    BY FS_CardinalityType
<1>2. \A i \in S : IsFiniteSet(UpTo(Le, S, i)) /\ P(i) \in 1 .. Cardinality(S)
    <2> TAKE i \in S
    <2>1. UpTo(Le, S, i) \in SUBSET S /\ i \in UpTo(Le, S, i)
        BY DEF UpTo, TotalOrder
    <2>2. IsFiniteSet(UpTo(Le, S, i)) /\ P(i) <= Cardinality(S) /\ P(i) \in Nat
        BY <2>1, FS_Subset, FS_CardinalityType
    <2>3. P(i) # 0
        BY <2>1, <2>2, FS_EmptySet
    <2> HIDE DEF P
    <2> QED
        BY <1>1, <2>2, <2>3
<1>3. ASSUME NEW i \in S, NEW j \in S, <<j, i>> \in Le, i # j
      PROVE  P(j) < P(i)
    <2>1. UpTo(Le, S, j) \in SUBSET UpTo(Le, S, i)
        BY <1>3 DEF UpTo, TotalOrder
    <2>2. UpTo(Le, S, j) # UpTo(Le, S, i)
        BY <1>3 DEF UpTo, TotalOrder
    <2>3. P(j) <= P(i) /\ P(j) # P(i)
        BY <1>2, <2>1, <2>2, FS_Subset
    <2> HIDE DEF P
    <2> QED
        BY <1>1, <1>2, <2>3
<1>4. \A i, j \in S : P(i) <= P(j) => <<i, j>> \in Le
    <2> SUFFICES ASSUME NEW i \in S, NEW j \in S, P(i) <= P(j), <<i, j>> \notin Le
                 PROVE  FALSE
        OBVIOUS
    <2>1. <<j, i>> \in Le /\ i # j
        BY DEF TotalOrder
    <2>2. P(j) < P(i) /\ P(i) \in Int /\ P(j) \in Int
        BY <1>1, <1>2, <1>3, <2>1
    <2> HIDE DEF P
    <2> QED
        BY <2>2
<1>5. f \in Surjection(S, 1 .. Cardinality(S))
    <2>1. f \in Injection(S, 1 .. Cardinality(S))
        <3>1. \A i, j \in S : P(i) = P(j) => i = j
            <4> SUFFICES ASSUME NEW i \in S, NEW j \in S, P(i) = P(j)
                         PROVE  i = j
                OBVIOUS
            <4>1. P(i) <= P(j) /\ P(j) <= P(i)
                BY <1>1, <1>2
            <4> HIDE DEF P
            <4> QED
                BY <1>4, <4>1 DEF TotalOrder
        <3>2. f \in [S -> 1 .. Cardinality(S)]
            BY <1>2
        <3> HIDE DEF P
        <3> QED
            BY <3>1, <3>2 DEF Injection, IsInjective
    <2>2. IsFiniteSet(1 .. Cardinality(S)) /\ Cardinality(1 .. Cardinality(S)) = Cardinality(S)
        BY <1>1, FS_Interval
    <2> HIDE DEF f
    <2> QED
        BY <2>1, <2>2, FS_Injection
<1>6. \A k \in 1 .. Cardinality(S) : \E i \in S : P(i) = k
    <2> HIDE DEF P
    <2> QED
        BY <1>5 DEF Surjection
<1> QED
    BY <1>1, <1>2, <1>4, <1>6

\* retain: the entries kept, in their order.
LEMMA RetainedProps ==
    ASSUME NEW T, NEW list \in Seq(T), NEW kept \in SUBSET DOMAIN list
    PROVE  LET r == Retained(list, kept)
           IN  /\ r \in Seq(T)
               /\ Range(r) = {list[i] : i \in kept}
               /\ \A k, l \in DOMAIN r : k < l =>
                     \E i, j \in kept : i < j /\ r[k] = list[i] /\ r[l] = list[j]
<1> DEFINE Le == {p \in kept \X kept : p[1] <= p[2]}
           n == Cardinality(kept)
           P(i) == Cardinality({j \in kept : j <= i})
           at(k) == CHOOSE i \in kept : P(i) = k
           r == [k \in 1 .. n |-> list[at(k)]]
<1>1. kept \in SUBSET (1 .. Len(list)) /\ IsFiniteSet(kept)
    BY FS_Interval, FS_Subset
<1>2. TotalOrder(Le, kept)
    BY <1>1 DEF TotalOrder
<1>3. \A i \in kept : UpTo(Le, kept, i) = {j \in kept : j <= i}
    BY DEF UpTo
<1>4. \A i, j \in kept : <<i, j>> \in Le => i <= j
    OBVIOUS
<1> HIDE DEF Le
<1>5. /\ n \in Nat
      /\ \A i \in kept : P(i) \in 1 .. n
      /\ \A i, j \in kept : P(i) <= P(j) => i <= j
      /\ \A k \in 1 .. n : \E i \in kept : P(i) = k
    <2> DEFINE Q(i) == Cardinality(UpTo(Le, kept, i))
    <2>1. /\ n \in Nat
          /\ \A i \in kept : Q(i) \in 1 .. n
          /\ \A i, j \in kept : Q(i) <= Q(j) => <<i, j>> \in Le
          /\ \A k \in 1 .. n : \E i \in kept : Q(i) = k
        BY <1>1, <1>2, PlacesInOrder
    <2>2. \A i \in kept : Q(i) = P(i)
        BY <1>3
    <2> HIDE DEF Q, P, n
    <2>3. \A i \in kept : P(i) \in 1 .. n
        BY <2>1, <2>2
    <2>4. ASSUME NEW i \in kept, NEW j \in kept, P(i) <= P(j)
          PROVE  i <= j
        <3>1. Q(i) = P(i) /\ Q(j) = P(j)
            BY <2>2
        <3>2. Q(i) <= Q(j)
            BY <2>4, <3>1
        <3> QED
            BY <1>4, <2>1, <3>2
    <2>5. ASSUME NEW k \in 1 .. n
          PROVE  \E i \in kept : P(i) = k
        BY <2>1, <2>2
    <2> QED
        BY <2>1, <2>3, <2>4, <2>5
<1> HIDE DEF n, P
<1>6. \A k \in 1 .. n : at(k) \in kept /\ P(at(k)) = k
    BY <1>5
<1> HIDE DEF at
<1>7. r \in Seq(T) /\ DOMAIN r = 1 .. n
    BY <1>1, <1>5, <1>6
<1>8. Range(r) = {list[i] : i \in kept}
    <2>1. \A i \in kept : at(P(i)) = i
        <3> TAKE i \in kept
        <3>1. P(i) \in 1 .. n /\ at(P(i)) \in kept /\ P(at(P(i))) = P(i)
            BY <1>5, <1>6
        <3>2. i <= at(P(i)) /\ at(P(i)) <= i
            BY <1>5, <3>1
        <3> QED
            BY <1>1, <3>1, <3>2
    <2>2. \A i \in kept : P(i) \in 1 .. n /\ r[P(i)] = list[i]
        BY <1>5, <2>1
    <2>3. {list[i] : i \in kept} \subseteq Range(r)
        BY <1>7, <2>2, ZenonT(30) DEF Range
    <2>4. Range(r) \subseteq {list[i] : i \in kept}
        BY <1>6, <1>7 DEF Range
    <2> QED
        BY <2>3, <2>4
<1>9. ASSUME NEW k \in 1 .. n, NEW l \in 1 .. n, k < l
      PROVE  at(k) < at(l)
    <2>1. ~(P(at(l)) <= P(at(k)))
        BY <1>6, <1>9
    <2>2. at(k) # at(l) /\ at(k) <= at(l)
        BY <1>5, <1>6, <1>9
    <2> QED
        BY <1>1, <1>6, <2>2
<1>10. \A k, l \in DOMAIN r : k < l =>
          \E i, j \in kept : i < j /\ r[k] = list[i] /\ r[l] = list[j]
    BY <1>6, <1>7, <1>9
<1> QED
    BY <1>7, <1>8, <1>10 DEF Retained, r, at, n, P

----------------------------------------------------------------------------
(* The list of votes.                                                      *)

ListOK(list) ==
    /\ list \in Seq(IPV4Vote)
    /\ \A i, j \in DOMAIN list : i < j => /\ list[i].ip # list[j].ip
                                        /\ list[i].votes >= list[j].votes

\* sort_by makes a list of addresses, each there once, one that is OK.
LEMMA SortedProps ==
    ASSUME NEW list \in Seq(IPV4Vote),
           \A i, j \in DOMAIN list : list[i].ip = list[j].ip => i = j
    PROVE  ListOK(SortedByVotes(list)) /\ Range(SortedByVotes(list)) = Range(list)
<1> DEFINE S == DOMAIN list
           n == Len(list)
           Before(i, j) == \/ list[i].votes > list[j].votes
                           \/ list[i].votes = list[j].votes /\ i <= j
           Le == {p \in S \X S : Before(p[1], p[2])}
           at(k) == CHOOSE i \in S : Place(list, i) = k
           r == [k \in S |-> list[at(k)]]
<1>1. S = 1 .. n /\ n \in Nat /\ IsFiniteSet(S) /\ Cardinality(S) = n
    <2>1. S = 1 .. n /\ n \in Nat
        OBVIOUS
    <2> HIDE DEF S, n
    <2> QED
        BY <2>1, FS_Interval
<1>2. \A i \in S : list[i] \in IPV4Vote /\ list[i].votes \in Int
    <2> TAKE i \in S
    <2>1. list[i] \in IPV4Vote
        OBVIOUS
    <2> QED
        BY <2>1 DEF IPV4Vote
<1>3. TotalOrder(Le, S)
    <2>1. \A i, j \in S : <<i, j>> \in Le <=> Before(i, j)
        OBVIOUS
    <2> HIDE DEF Le
    <2>2. \A i \in S : i \in Int /\ list[i].votes \in Int
        BY <1>1, <1>2
    <2> HIDE DEF S
    <2>3. \A i \in S : Before(i, i)
        BY <2>2
    <2>4. \A i, j \in S : Before(i, j) \/ Before(j, i)
        BY <2>2
    <2>5. \A i, j \in S : Before(i, j) /\ Before(j, i) => i = j
        BY <2>2
    <2>6. \A i, j, k \in S : Before(i, j) /\ Before(j, k) => Before(i, k)
        BY <2>2
    <2> HIDE DEF Before
    <2> QED
        BY <2>1, <2>3, <2>4, <2>5, <2>6 DEF TotalOrder
<1>4. \A i \in S : Cardinality(UpTo(Le, S, i)) = Place(list, i)
    <2> TAKE i \in S
    <2>1. UpTo(Le, S, i) = {j \in S : Before(j, i)}
        BY DEF UpTo
    <2> QED
        BY <2>1 DEF Place
<1>5. \A i, j \in S : <<i, j>> \in Le => list[i].votes >= list[j].votes
    BY <1>2
<1> HIDE DEF Le, S, n
<1>6. /\ \A i \in S : Place(list, i) \in 1 .. n
      /\ \A i, j \in S : Place(list, i) <= Place(list, j) => list[i].votes >= list[j].votes
      /\ \A i, j \in S : Place(list, i) = Place(list, j) => i = j
      /\ \A k \in 1 .. n : \E i \in S : Place(list, i) = k
    <2> DEFINE Q(i) == Cardinality(UpTo(Le, S, i))
    <2>1. /\ \A i \in S : Q(i) \in 1 .. n
          /\ \A i, j \in S : Q(i) <= Q(j) => <<i, j>> \in Le
          /\ \A k \in 1 .. n : \E i \in S : Q(i) = k
        <3>1. /\ \A i \in S : Q(i) \in 1 .. Cardinality(S)
              /\ \A i, j \in S : Q(i) <= Q(j) => <<i, j>> \in Le
              /\ \A k \in 1 .. Cardinality(S) : \E i \in S : Q(i) = k
            <4>1. IsFiniteSet(S)
                BY <1>1
            <4> QED
                BY <1>3, <4>1, PlacesInOrder
        <3> HIDE DEF Q
        <3> QED
            BY <1>1, <3>1
    <2>2. \A i \in S : Q(i) = Place(list, i)
        BY <1>4
    <2> HIDE DEF Q
    <2>3. ASSUME NEW i \in S, NEW j \in S, Place(list, i) <= Place(list, j)
          PROVE  <<i, j>> \in Le
        <3>1. Q(i) <= Q(j)
            BY <2>2, <2>3
        <3> QED
            BY <2>1, <3>1
    <2>4. ASSUME NEW i \in S, NEW j \in S, Place(list, i) = Place(list, j)
          PROVE  i = j
        <3>1. Place(list, i) \in Int /\ Place(list, j) \in Int
            BY <1>1, <2>1, <2>2
        <3>2. Place(list, i) <= Place(list, j) /\ Place(list, j) <= Place(list, i)
            BY <2>4, <3>1
        <3> QED
            BY <1>3, <2>3, <3>2 DEF TotalOrder
    <2>5. \A i \in S : Place(list, i) \in 1 .. n
        BY <2>1, <2>2
    <2>6. \A i, j \in S : Place(list, i) <= Place(list, j) => list[i].votes >= list[j].votes
        BY <1>5, <2>3
    <2>7. ASSUME NEW k \in 1 .. n
          PROVE  \E i \in S : Place(list, i) = k
        BY <2>1, <2>2
    <2> QED
        BY <2>4, <2>5, <2>6, <2>7
<1>7. \A k \in 1 .. n : at(k) \in S /\ Place(list, at(k)) = k
    BY <1>6
<1> HIDE DEF at
<1>8. r \in Seq(IPV4Vote) /\ DOMAIN r = 1 .. n
    BY <1>1, <1>2, <1>7
<1>9. Range(r) = Range(list)
    <2>1. \A i \in S : Place(list, i) \in 1 .. n /\ at(Place(list, i)) = i
        BY <1>6, <1>7
    <2>2. Range(list) \subseteq Range(r)
        BY <1>1, <1>8, <2>1 DEF Range, S
    <2>3. Range(r) \subseteq Range(list)
        BY <1>1, <1>7, <1>8 DEF Range, S
    <2> QED
        BY <2>2, <2>3
<1>10. ASSUME NEW k \in 1 .. n, NEW l \in 1 .. n, k < l
       PROVE  r[k].ip # r[l].ip /\ r[k].votes >= r[l].votes
    <2>1. Place(list, at(k)) <= Place(list, at(l)) /\ at(k) # at(l)
        BY <1>7, <1>10
    <2>2. r[k] = list[at(k)] /\ r[l] = list[at(l)] /\ at(k) \in S /\ at(l) \in S
        BY <1>1, <1>7
    <2>3. list[at(k)].votes >= list[at(l)].votes
        BY <1>6, <2>1, <2>2
    <2>4. list[at(k)].ip # list[at(l)].ip
        BY <2>1, <2>2 DEF S
    <2> QED
        BY <2>2, <2>3, <2>4
<1> QED
    BY <1>8, <1>9, <1>10 DEF ListOK, SortedByVotes, r, at, S

LEMMA EntryTyped ==
    ASSUME NEW list \in Seq(IPV4Vote), NEW v \in Range(list)
    PROVE  v \in IPV4Vote /\ v.ip \in Ip /\ v.votes \in 1 .. MaxVotes
<1>1. PICK i \in 1 .. Len(list) : v = list[i]
    BY DEF Range
<1>2. v \in IPV4Vote
    BY <1>1
<1> QED
    BY <1>2 DEF IPV4Vote

\* add_vote: the address is on the list with a vote more than before, up to
\* the maximum; the others keep theirs.
LEMMA VotedProps ==
    ASSUME NEW list, ListOK(list), NEW ip \in Ip
    PROVE  /\ ListOK(Voted(list, ip))
           /\ \A v \in Range(Voted(list, ip)) :
                \/ v \in Range(list) /\ v.ip # ip
                \/ v.ip = ip /\ v.votes = 1
                \/ \E u \in Range(list) : /\ u.ip = ip /\ v.ip = ip
                                          /\ v.votes = AtMost(MaxVotes, u.votes + 1)
<1> DEFINE at == {i \in DOMAIN list : list[i].ip = ip}
           more == [i \in DOMAIN list |->
                      IF i \in at THEN [list[i] EXCEPT !.votes = AtMost(MaxVotes, @ + 1)]
                                  ELSE list[i]]
           new == [ip |-> ip, votes |-> 1]
<1>1. list \in Seq(IPV4Vote) /\ DOMAIN list = 1 .. Len(list) /\ Len(list) \in Nat
    BY DEF ListOK
<1>2. \A i \in DOMAIN list : /\ list[i] \in IPV4Vote /\ list[i].ip \in Ip
                             /\ list[i].votes \in 1 .. MaxVotes /\ list[i] \in Range(list)
    BY <1>1, EntryTyped DEF Range
<1>3. CASE at = {}
    <2>1. Voted(list, ip) = Append(list, new)
        BY <1>3 DEF Voted
    <2>2. new \in IPV4Vote
        BY DEF IPV4Vote
    <2>3. new.ip = ip /\ new.votes = 1
        OBVIOUS
    <2> HIDE DEF new
    <2>4. /\ Append(list, new) \in Seq(IPV4Vote)
          /\ DOMAIN Append(list, new) = 1 .. Len(list) + 1
          /\ \A i \in 1 .. Len(list) : Append(list, new)[i] = list[i]
          /\ Append(list, new)[Len(list) + 1] = new
        BY <1>1, <2>2
    <2>5. \A i \in DOMAIN list : list[i].ip # ip
        BY <1>3
    <2>6. ASSUME NEW i \in 1 .. Len(list) + 1, NEW j \in 1 .. Len(list) + 1, i < j
          PROVE  /\ Append(list, new)[i].ip # Append(list, new)[j].ip
                 /\ Append(list, new)[i].votes >= Append(list, new)[j].votes
        <3>1. i \in 1 .. Len(list)
            BY <1>1, <2>6
        <3>2. CASE j \in 1 .. Len(list)
            BY <1>1, <2>4, <2>6, <3>1, <3>2 DEF ListOK
        <3>3. CASE j = Len(list) + 1
            BY <1>1, <1>2, <2>3, <2>4, <2>5, <3>1, <3>3
        <3> QED
            BY <1>1, <3>2, <3>3
    <2>7. ListOK(Append(list, new))
        BY <2>4, <2>6 DEF ListOK
    <2>8. \A v \in Range(Append(list, new)) : v = new \/ (v \in Range(list) /\ v.ip # ip)
        <3> SUFFICES ASSUME NEW i \in 1 .. Len(list) + 1
                     PROVE  \/ Append(list, new)[i] = new
                            \/ list[i] = Append(list, new)[i] /\ i \in DOMAIN list
            BY <1>2, <2>4, <2>5 DEF Range
        <3> QED
            BY <1>1, <2>4
    <2> QED
        BY <2>1, <2>3, <2>7, <2>8
<1>4. CASE at # {}
    <2>1. Voted(list, ip) = SortedByVotes(more)
        BY <1>4 DEF Voted
    <2>2. \A i \in DOMAIN list :
             /\ more[i].ip = list[i].ip /\ more[i] \in IPV4Vote
             /\ i \notin at => more[i] = list[i]
             /\ i \in at => more[i].votes = AtMost(MaxVotes, list[i].votes + 1)
        <3> TAKE i \in DOMAIN list
        <3>1. list[i].votes + 1 \in Int /\ AtMost(MaxVotes, list[i].votes + 1) \in 1 .. MaxVotes
            BY <1>2 DEF AtMost
        <3>2. CASE i \in at
            <4>1. more[i] = [list[i] EXCEPT !.votes = AtMost(MaxVotes, list[i].votes + 1)]
                BY <3>2
            <4> QED
                BY <1>2, <3>1, <3>2, <4>1 DEF IPV4Vote
        <3>3. CASE i \notin at
            BY <1>2, <3>3
        <3> QED
            BY <3>2, <3>3
    <2>3. more \in Seq(IPV4Vote) /\ DOMAIN more = DOMAIN list
        BY <1>1, <2>2
    <2> HIDE DEF more
    <2>4. \A i, j \in DOMAIN more : more[i].ip = more[j].ip => i = j
        BY <1>1, <2>2, <2>3 DEF ListOK
    <2>5. ListOK(SortedByVotes(more)) /\ Range(SortedByVotes(more)) = Range(more)
        BY <2>3, <2>4, SortedProps
    <2>6. ASSUME NEW v \in Range(more)
          PROVE  \/ v \in Range(list) /\ v.ip # ip
                 \/ \E u \in Range(list) : /\ u.ip = ip /\ v.ip = ip
                                           /\ v.votes = AtMost(MaxVotes, u.votes + 1)
        <3>1. PICK i \in DOMAIN list : v = more[i]
            BY <2>3 DEF Range
        <3> QED
            BY <1>2, <2>2, <3>1
    <2> QED
        BY <2>1, <2>5, <2>6
<1> QED
    BY <1>3, <1>4

\* decay: a vote less for everybody, and nobody without votes.
LEMMA DecayedProps ==
    ASSUME NEW list, ListOK(list)
    PROVE  /\ ListOK(Decayed(list))
           /\ \A v \in Range(Decayed(list)) :
                \E i \in DOMAIN list : list[i].ip = v.ip /\ list[i].votes = v.votes + 1
           /\ \A i \in DOMAIN list : list[i].votes > 1 =>
                \E v \in Range(Decayed(list)) : v.votes + 1 = list[i].votes
<1> DEFINE less == [i \in DOMAIN list |-> [list[i] EXCEPT !.votes = @ - 1]]
           kept == {i \in DOMAIN list : less[i].votes > 0}
           r == Retained(less, kept)
           Less == [ip : Ip, votes : 0 .. MaxVotes - 1]
<1>1. list \in Seq(IPV4Vote) /\ DOMAIN list = 1 .. Len(list) /\ Len(list) \in Nat
    BY DEF ListOK
<1>2. \A i \in DOMAIN list : /\ list[i] \in IPV4Vote /\ list[i].ip \in Ip
                             /\ list[i].votes \in 1 .. MaxVotes
    BY <1>1, EntryTyped DEF Range
<1>3. \A i \in DOMAIN list : /\ less[i] \in Less /\ less[i].ip = list[i].ip
                             /\ less[i].votes = list[i].votes - 1
    <2> TAKE i \in DOMAIN list
    <2>1. less[i] = [list[i] EXCEPT !.votes = list[i].votes - 1]
        OBVIOUS
    <2>2. list[i].votes - 1 \in 0 .. MaxVotes - 1
        BY <1>2
    <2> QED
        BY <1>2, <2>1, <2>2 DEF IPV4Vote
<1>4. less \in Seq(Less) /\ DOMAIN less = DOMAIN list
    <2> HIDE DEF Less
    <2>1. less \in [1 .. Len(list) -> Less]
        BY <1>1, <1>3
    <2> HIDE DEF less
    <2> QED
        BY <1>1, <2>1
<1> HIDE DEF less
<1>5. \A i \in kept : less[i].votes > 0 /\ i \in DOMAIN list
    OBVIOUS
<1>6. kept \in SUBSET DOMAIN less
    BY <1>4
<1>7. \A i \in DOMAIN list : list[i].votes > 1 => i \in kept
    BY <1>2, <1>3
<1> HIDE DEF kept, Less
<1>8. /\ r \in Seq(Less)
      /\ Range(r) = {less[i] : i \in kept}
      /\ \A k, l \in DOMAIN r : k < l =>
            \E i, j \in kept : i < j /\ r[k] = less[i] /\ r[l] = less[j]
    BY <1>4, <1>6, RetainedProps
<1>9. Decayed(list) = r
    BY DEF Decayed, less, kept
<1> HIDE DEF r
<1>10. \A i \in kept : less[i] \in IPV4Vote
    BY <1>3, <1>5 DEF Less, IPV4Vote
<1>11. r \in Seq(IPV4Vote)
    <2>1. \A k \in 1 .. Len(r) : r[k] \in IPV4Vote
        <3> TAKE k \in 1 .. Len(r)
        <3>1. r[k] \in Range(r)
            BY <1>8 DEF Range
        <3> QED
            BY <1>8, <1>10, <3>1
    <2> QED
        BY <1>8, <2>1
<1>12. ASSUME NEW k \in DOMAIN r, NEW l \in DOMAIN r, k < l
       PROVE  r[k].ip # r[l].ip /\ r[k].votes >= r[l].votes
    <2>1. PICK i \in kept, j \in kept : i < j /\ r[k] = less[i] /\ r[l] = less[j]
        BY <1>8, <1>12
    <2>2. list[i].ip # list[j].ip /\ list[i].votes >= list[j].votes
        BY <1>5, <2>1 DEF ListOK
    <2> QED
        BY <1>2, <1>3, <1>5, <2>1, <2>2
<1>13. ListOK(r)
    BY <1>11, <1>12 DEF ListOK
<1>14. \A v \in Range(r) : \E i \in DOMAIN list : list[i].ip = v.ip /\ list[i].votes = v.votes + 1
    BY <1>2, <1>3, <1>5, <1>8
<1>15. \A i \in DOMAIN list : list[i].votes > 1 =>
            \E v \in Range(r) : v.votes + 1 = list[i].votes
    BY SMTT(30), <1>2, <1>3, <1>7, <1>8
<1> QED
    BY <1>9, <1>13, <1>14, <1>15

----------------------------------------------------------------------------
(* The votes are earned.                                                   *)

\* A vote is a response that named the address, and each interval since the last
\* of them has cost one.
Earned ==
    /\ ListOK(votes)
    /\ heard \in [Ip -> 0 .. MinVotes + 1]
    /\ quiet \in [Ip -> 0 .. MaxVotes]
    /\ \A v \in Range(votes) : /\ heard[v.ip] >= AtMost(MinVotes + 1, v.votes)
                               /\ v.votes + quiet[v.ip] <= MaxVotes

LEMMA EarnedInit == Init => Earned
<1> SUFFICES ASSUME Init
             PROVE  Earned
    OBVIOUS
<1>1. votes = <<>> /\ heard = [ip \in Ip |-> 0] /\ quiet = [ip \in Ip |-> 0]
    BY DEF Init
<1>2. ListOK(votes) /\ Range(votes) = {}
    BY <1>1 DEF ListOK, Range
<1> QED
    BY <1>1, <1>2 DEF Earned

LEMMA EarnedByReply ==
    ASSUME Earned, NEW author, NEW addr, NEW claim \in Ip \cup {NoIp},
           HandleReply(author, addr, claim)
    PROVE  Earned'
<1>1. CASE claim = NoIp
    BY <1>1 DEF HandleReply, Earned, ListOK
<1>2. CASE claim # NoIp
    <2>1. /\ votes' = Voted(votes, claim) /\ claim \in Ip
          /\ heard' = [heard EXCEPT ![claim] = AtMost(MinVotes + 1, @ + 1)]
          /\ quiet' = [quiet EXCEPT ![claim] = 0]
        BY <1>2 DEF HandleReply
    <2>2. /\ ListOK(votes')
          /\ \A v \in Range(votes') :
               \/ v \in Range(votes) /\ v.ip # claim
               \/ v.ip = claim /\ v.votes = 1
               \/ \E u \in Range(votes) : /\ u.ip = claim /\ v.ip = claim
                                          /\ v.votes = AtMost(MaxVotes, u.votes + 1)
        BY <2>1, VotedProps DEF Earned
    <2>3. heard[claim] \in 0 .. MinVotes + 1 /\ quiet[claim] \in 0 .. MaxVotes
        BY <2>1 DEF Earned
    <2>4. heard' \in [Ip -> 0 .. MinVotes + 1] /\ quiet' \in [Ip -> 0 .. MaxVotes]
        <3>1. AtMost(MinVotes + 1, heard[claim] + 1) \in 0 .. MinVotes + 1
            BY <2>3 DEF AtMost
        <3> QED
            BY <2>1, <3>1 DEF Earned
    <2>5. heard'[claim] = AtMost(MinVotes + 1, heard[claim] + 1) /\ quiet'[claim] = 0
        BY <2>1 DEF Earned
    <2>6. \A ip \in Ip : ip # claim => heard'[ip] = heard[ip] /\ quiet'[ip] = quiet[ip]
        BY <2>1 DEF Earned
    <2>7. ASSUME NEW v \in Range(votes')
          PROVE  heard'[v.ip] >= AtMost(MinVotes + 1, v.votes) /\ v.votes + quiet'[v.ip] <= MaxVotes
        <3>1. CASE v \in Range(votes) /\ v.ip # claim
            <4>1. v.ip \in Ip
                BY <3>1, EntryTyped DEF Earned, ListOK
            <4> QED
                BY <2>6, <3>1, <4>1 DEF Earned
        <3>2. CASE v.ip = claim /\ v.votes = 1
            BY <2>3, <2>5, <3>2 DEF AtMost
        <3>3. ASSUME NEW u \in Range(votes), u.ip = claim, v.ip = claim,
                     v.votes = AtMost(MaxVotes, u.votes + 1)
              PROVE  /\ heard'[v.ip] >= AtMost(MinVotes + 1, v.votes)
                     /\ v.votes + quiet'[v.ip] <= MaxVotes
            <4>1. u.votes \in 1 .. MaxVotes /\ heard[claim] >= AtMost(MinVotes + 1, u.votes)
                BY <3>3, EntryTyped DEF Earned, ListOK
            <4> QED
                BY <2>3, <2>5, <3>3, <4>1 DEF AtMost
        <3> QED
            BY <2>2, <3>1, <3>2, <3>3
    <2> QED
        BY <2>2, <2>4, <2>7 DEF Earned, ListOK
<1> QED
    BY <1>1, <1>2

LEMMA EarnedOverIntervals ==
    ASSUME Earned, Maintain
    PROVE  Earned'
<1>1. /\ votes' = Decayed(votes) /\ heard' = heard
      /\ quiet' = [ip \in Ip |-> AtMost(MaxVotes, quiet[ip] + 1)]
    BY DEF Maintain
<1>2. /\ ListOK(votes')
      /\ \A v \in Range(votes') :
            \E i \in DOMAIN votes : votes[i].ip = v.ip /\ votes[i].votes = v.votes + 1
    BY <1>1, DecayedProps DEF Earned
<1>3. \A ip \in Ip : quiet[ip] \in 0 .. MaxVotes /\ heard[ip] \in 0 .. MinVotes + 1
    BY DEF Earned
<1>4. quiet' \in [Ip -> 0 .. MaxVotes]
    BY <1>1, <1>3 DEF AtMost
<1>5. ASSUME NEW v \in Range(votes')
      PROVE  heard'[v.ip] >= AtMost(MinVotes + 1, v.votes) /\ v.votes + quiet'[v.ip] <= MaxVotes
    <2>1. PICK u \in Range(votes) : u.ip = v.ip /\ u.votes = v.votes + 1
        BY <1>2 DEF Range
    <2>2. v.ip \in Ip /\ v.votes \in 1 .. MaxVotes
        BY <1>2, EntryTyped DEF ListOK
    <2>3. heard[v.ip] >= AtMost(MinVotes + 1, u.votes) /\ u.votes + quiet[v.ip] <= MaxVotes
        BY <2>1 DEF Earned
    <2>4. quiet'[v.ip] = AtMost(MaxVotes, quiet[v.ip] + 1) /\ heard'[v.ip] = heard[v.ip]
        BY <1>1, <2>2
    <2>5. quiet[v.ip] \in 0 .. MaxVotes /\ heard[v.ip] \in 0 .. MinVotes + 1
        BY <1>3, <2>2
    <2> QED
        BY <2>1, <2>2, <2>3, <2>4, <2>5 DEF AtMost
<1> QED
    BY <1>1, <1>2, <1>4, <1>5 DEF Earned, ListOK

LEMMA EarnedNext == Earned /\ [Next]_vars => Earned'
<1> SUFFICES ASSUME Earned, [Next]_vars
             PROVE  Earned'
    OBVIOUS
<1>1. CASE UNCHANGED <<votes, heard, quiet>>
    BY <1>1 DEF Earned, ListOK
<1> QED
    BY <1>1, EarnedByReply, EarnedOverIntervals DEF Next, AddSeen, Forget, Settle, vars

THEOREM VotesEarned == Spec => []Earned
    BY EarnedInit, EarnedNext, PTL DEF Spec

\* The list names an address once, the most voted-for first, after a new address
\* is put at its end and after a decay as well (ipv4_addr_src.rs:96-123).
THEOREM TypesOK == Spec => []TypeOK
<1> DEFINE Rest == our_id \in NodeId /\ nodes \subseteq Node /\ truth \in Ip \cup {NoIp} /\ told \in 0 .. MinVotes + 1
<1>1. Init => Rest
    BY DEF Init
<1>2. Rest /\ Fitting' /\ [Next]_vars => Rest'
    <2> SUFFICES ASSUME Rest, Fitting', [Next]_vars
                 PROVE  Rest'
        OBVIOUS
    <2>1. our_id' \in NodeId /\ nodes' \subseteq Node
        BY DEF Fitting, Node
    <2>2. truth' \in Ip \cup {NoIp}
        BY DEF Next, HandleReply, AddSeen, Maintain, Forget, Settle, vars
    <2>3. told' \in 0 .. MinVotes + 1
        BY DEF Next, HandleReply, AddSeen, Maintain, Forget, Settle, vars, AtMost
    <2> QED
        BY <2>1, <2>2, <2>3
<1>3. Rest /\ Earned => TypeOK
    BY DEF TypeOK, Earned, ListOK
<1>4. Init => Fitting
    BY DEF Init, Fitting, StorageFits
<1>5. Fitting /\ [Next]_vars => Fitting'
    BY FittingStep
<1> QED
    BY <1>1, <1>2, <1>3, <1>4, <1>5, VotesEarned, PTL DEF Spec

\* A new id is taken for an address that was named often enough, not too long
\* ago, and no less often than any other (dht.rs:712-734,
\* ipv4_addr_src.rs:80-123).
THEOREM AdoptionIsEarned == Spec => AdoptionEarned
<1> DEFINE A == our_id' # our_id =>
                  \E ip \in ValidFor[our_id'] :
                     /\ ip \notin ValidFor[our_id]
                     /\ heard[ip] > MinVotes
                     /\ quiet'[ip] <= MaxVotes - MinVotes
                     /\ \E i \in DOMAIN votes :
                            /\ votes[i].ip = ip
                            /\ \A j \in DOMAIN votes : votes[j].votes <= votes[i].votes
<1>1. Earned /\ [Next]_vars => [A]_vars
    <2> SUFFICES ASSUME Earned, Next, our_id' # our_id
                 PROVE  A
        OBVIOUS
    <2>1. Maintain
        BY DEF Next, HandleReply, AddSeen, Forget, Settle
    <2> DEFINE best == BestIpv4(votes')
    <2>2. best # NoIp /\ ~IsValidForIp(our_id, best) /\ IsValidForIp(our_id', best)
        BY <2>1 DEF Maintain
    <2>3. votes' # <<>> /\ votes'[1].votes >= MinVotes /\ best = votes'[1].ip
        BY <2>2 DEF BestIpv4
    <2> HIDE DEF best
    <2>4. /\ ListOK(votes')
          /\ \A v \in Range(votes') :
               \E i \in DOMAIN votes : votes[i].ip = v.ip /\ votes[i].votes = v.votes + 1
          /\ \A i \in DOMAIN votes : votes[i].votes > 1 =>
               \E v \in Range(votes') : v.votes + 1 = votes[i].votes
        BY <2>1, DecayedProps DEF Maintain, Earned
    <2>5. 1 \in DOMAIN votes' /\ votes'[1] \in Range(votes')
        BY <2>3, <2>4 DEF ListOK, Range
    <2>6. PICK i \in DOMAIN votes : /\ votes[i].ip = best
                                    /\ votes[i].votes = votes'[1].votes + 1
        BY <2>3, <2>4, <2>5
    <2>7. \A v \in Range(votes') : v.votes \in Int /\ v.votes <= votes'[1].votes
        <3> SUFFICES ASSUME NEW k \in DOMAIN votes'
                     PROVE  votes'[k].votes \in Int /\ votes'[k].votes <= votes'[1].votes
            BY DEF Range
        <3>1. votes'[k].votes \in Int
            BY <2>4, EntryTyped DEF ListOK, Range
        <3> QED
            BY <2>4, <3>1 DEF ListOK
    <2>8. /\ votes[i] \in Range(votes) /\ best \in Ip /\ votes[i].votes \in 1 .. MaxVotes
          /\ votes'[1].votes \in Int
        BY <2>5, <2>6, <2>7, EntryTyped DEF Earned, ListOK, Range
    <2>9. \A j \in DOMAIN votes : votes[j].votes <= votes[i].votes
        <3> SUFFICES ASSUME NEW j \in DOMAIN votes
                     PROVE  votes[j].votes <= votes[i].votes
            OBVIOUS
        <3>1. votes[j].votes \in 1 .. MaxVotes
            BY EntryTyped DEF Earned, ListOK, Range
        <3>2. CASE votes[j].votes > 1
            <4>1. PICK v \in Range(votes') : v.votes + 1 = votes[j].votes
                BY <2>4, <3>2
            <4> QED
                BY <2>6, <2>7, <2>8, <4>1
        <3> QED
            BY <2>8, <3>1, <3>2
    <2>10. heard[best] > MinVotes /\ quiet'[best] <= MaxVotes - MinVotes
        <3>1. /\ heard[best] >= AtMost(MinVotes + 1, votes[i].votes)
              /\ votes[i].votes + quiet[best] <= MaxVotes
            BY <2>6, <2>8 DEF Earned
        <3>2. heard[best] \in Int /\ quiet[best] \in Int
            BY <2>8 DEF Earned
        <3>3. quiet'[best] = AtMost(MaxVotes, quiet[best] + 1)
            BY <2>1, <2>8 DEF Maintain
        <3> QED
            BY <2>3, <2>6, <2>8, <3>1, <3>2, <3>3, SMTT(30) DEF AtMost
    <2> QED
        BY <2>2, <2>6, <2>9, <2>10 DEF IsValidForIp
<1> QED
    BY <1>1, VotesEarned, PTL DEF Spec, AdoptionEarned

================================================================================
