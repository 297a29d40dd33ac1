------------------------------- MODULE Identity -------------------------------
(***************************************************************************)
(* Our own address and id.  Every response says which IPv4 address its     *)
(* sender sees us at; IPV4Consensus (src/common/ipv4_addr_src.rs) counts   *)
(* these votes, and periodic_ip4_maintenance (src/dht/dht.rs) takes a new  *)
(* id when the old one does not fit the address with the most.  Responders *)
(* with an id that fits their address, and those they name, go to the      *)
(* routing storage, which a new id empties.                                *)
(*                                                                         *)
(* The storage is the set of nodes it holds, and what it has no room for   *)
(* or prunes disappears in Forget (NodeBucketStorage has the details).  An *)
(* action is what runs under one lock of the state.                        *)
(***************************************************************************)
EXTENDS Integers, Sequences, FiniteSets, Functions

CONSTANTS Ip,        \* IPv4 addresses
          NodeId,    \* ids
          ValidFor,  \* ValidFor[id]: the addresses that BEP 42 allows id for
          MinVotes,  \* IPV4Consensus's min_votes, 2 by default
          MaxVotes,  \* its max_votes, 10 by default
          NoIp       \* None

\* With max_votes = min_votes the decay, which runs before the best address is
\* read, would leave every address short of min_votes.
ASSUME IdentityAssumption ==
    /\ NoIp \notin Ip
    /\ ValidFor \in [NodeId -> SUBSET Ip]
    /\ \A ip \in Ip : \E id \in NodeId : ip \in ValidFor[id]
    /\ MinVotes \in Nat /\ MaxVotes \in Nat /\ MinVotes < MaxVotes

VARIABLES our_id,    \* the state's, and the one both tables are centred on
          nodes,     \* the routing storage
          votes,     \* IPV4Consensus's list
          heard,     \* history: how often each address was named (to MinVotes + 1)
          quiet,     \* and how many intervals ended since it was last (to MaxVotes)
          truth,     \* the address everybody sees us at from now on, if any
          told       \* how often it was named in this interval (to MinVotes + 1)

vars == <<our_id, nodes, votes, heard, quiet, truth, told>>

Node == [id : NodeId, ip : Ip]
IPV4Vote == [ip : Ip, votes : 1 .. MaxVotes]

AtMost(bound, n) == IF n > bound THEN bound ELSE n

IsValidForIp(id, ip) == ip \in ValidFor[id]

----------------------------------------------------------------------------
(* IPV4Consensus.                                                          *)

\* Where sort_by, which is stable, puts the i-th vote.
Place(list, i) ==
    Cardinality({j \in DOMAIN list :
        \/ list[j].votes > list[i].votes
        \/ list[j].votes = list[i].votes /\ j <= i})

SortedByVotes(list) ==
    [k \in DOMAIN list |-> list[CHOOSE i \in DOMAIN list : Place(list, i) = k]]

\* Faulty variant: the list is sorted for new addresses only.
VotedUnsorted(list, ip) ==
    LET at == {i \in DOMAIN list : list[i].ip = ip}
    IN  IF at = {} THEN SortedByVotes(Append(list, [ip |-> ip, votes |-> 1]))
        ELSE [i \in DOMAIN list |->
                 IF i \in at THEN [list[i] EXCEPT !.votes = AtMost(MaxVotes, @ + 1)]
                             ELSE list[i]]

\* add_vote
Voted(list, ip) ==
    LET at == {i \in DOMAIN list : list[i].ip = ip}
    IN  IF at = {} THEN Append(list, [ip |-> ip, votes |-> 1])
        ELSE SortedByVotes([i \in DOMAIN list |->
                 IF i \in at THEN [list[i] EXCEPT !.votes = AtMost(MaxVotes, @ + 1)]
                             ELSE list[i]])

\* Faulty variant: nothing decays.
NotDecayed(list) == list

\* The entries of list at the places in kept, in their order.
Retained(list, kept) ==
    [k \in 1 .. Cardinality(kept) |->
        list[CHOOSE i \in kept : Cardinality({j \in kept : j <= i}) = k]]

\* decay
Decayed(list) ==
    LET less == [i \in DOMAIN list |-> [list[i] EXCEPT !.votes = @ - 1]]
    IN  Retained(less, {i \in DOMAIN list : less[i].votes > 0})

\* Faulty variant: the first address is best, however few name it.
FirstIpv4(list) == IF list = <<>> THEN NoIp ELSE list[1].ip

\* get_best_ipv4
BestIpv4(list) ==
    IF list # <<>> /\ list[1].votes >= MinVotes THEN list[1].ip ELSE NoIp

----------------------------------------------------------------------------
(* The routing storage, as far as it is needed here.                       *)

\* add_or_update: a record keeps its address; our own id gets none.
Stored(S, id, ip) ==
    IF id = our_id \/ \E n \in S : n.id = id THEN S
    ELSE S \cup {[id |-> id, ip |-> ip]}

----------------------------------------------------------------------------
\* DHT::new with a consensus that has no votes yet: a given id or a random one.
Init ==
    /\ our_id \in NodeId
    /\ nodes = {}
    /\ votes = <<>>
    /\ heard = [ip \in Ip |-> 0]
    /\ quiet = [ip \in Ip |-> 0]
    /\ truth = NoIp
    /\ told = 0

\* What a response may say of our address.
Claims == IF truth = NoIp THEN Ip \cup {NoIp} ELSE {truth, NoIp}

\* A response from author at addr, under the first lock.
HandleReply(author, addr, claim) ==
    /\ claim \in Claims
    /\ IsValidForIp(author, addr)
    /\ IF claim = NoIp
       THEN UNCHANGED <<votes, heard, quiet, told>>
       ELSE /\ votes' = Voted(votes, claim)
            /\ heard' = [heard EXCEPT ![claim] = AtMost(MinVotes + 1, @ + 1)]
            /\ quiet' = [quiet EXCEPT ![claim] = 0]
            /\ told' = IF claim = truth THEN AtMost(MinVotes + 1, told + 1) ELSE told
    /\ nodes' = Stored(nodes, author, addr)
    /\ UNCHANGED <<our_id, truth>>

\* Faulty variant: who is named is taken at its word.
AddSeenUnchecked(id, ip) ==
    /\ nodes' = Stored(nodes, id, ip)
    /\ UNCHANGED <<our_id, votes, heard, quiet, truth, told>>

\* A node that a find_node response names, under the second lock, or the sender
\* of a request that is not read-only (common_request_handling).
AddSeen(id, ip) ==
    /\ IsValidForIp(id, ip)
    /\ nodes' = Stored(nodes, id, ip)
    /\ UNCHANGED <<our_id, votes, heard, quiet, truth, told>>

\* One turn of periodic_ip4_maintenance.  from_ip draws an id that fits.
Maintain ==
    /\ votes' = Decayed(votes)
    /\ LET best == BestIpv4(votes')
       IN  IF best = NoIp \/ IsValidForIp(our_id, best)
           THEN UNCHANGED <<our_id, nodes>>
           ELSE /\ \E new_id \in NodeId : IsValidForIp(new_id, best) /\ our_id' = new_id
                /\ nodes' = {}
    /\ quiet' = [ip \in Ip |-> AtMost(MaxVotes, quiet[ip] + 1)]
    /\ told' = 0
    /\ UNCHANGED <<heard, truth>>

\* The storage displaces or prunes a node.
Forget(n) ==
    /\ nodes' = nodes \ {n}
    /\ UNCHANGED <<our_id, votes, heard, quiet, truth, told>>

\* From now on all the world sees us at ip.
Settle(ip) ==
    /\ truth = NoIp
    /\ truth' = ip
    /\ UNCHANGED <<our_id, nodes, votes, heard, quiet, told>>

Next ==
    \/ \E id \in NodeId, ip \in Ip :
           \/ \E claim \in Ip \cup {NoIp} : HandleReply(id, ip, claim)
           \/ AddSeen(id, ip)
    \/ Maintain
    \/ \E n \in nodes : Forget(n)
    \/ \E ip \in Ip : Settle(ip)

\* The loop sleeps ten seconds and takes its turn, whatever came in between.
\* Nothing obliges anybody to answer.
Spec == Init /\ [][Next]_vars /\ WF_vars(Maintain)

----------------------------------------------------------------------------
(* Properties.                                                             *)

\* The list names an address once, the most voted-for first, although only a
\* vote for a known address sorts it (ipv4_addr_src.rs:96-123).
TypeOK ==
    /\ our_id \in NodeId
    /\ nodes \subseteq Node
    /\ votes \in Seq(IPV4Vote)
    /\ \A i, j \in DOMAIN votes : i < j => /\ votes[i].ip # votes[j].ip
                                          /\ votes[i].votes >= votes[j].votes
    /\ heard \in [Ip -> 0 .. MinVotes + 1]
    /\ quiet \in [Ip -> 0 .. MaxVotes]
    /\ truth \in Ip \cup {NoIp}
    /\ told \in 0 .. MinVotes + 1

\* Whoever is in the routing storage has an id that fits the address we would
\* ping it at, is there once, and is not us, also after a change of our id while
\* answers are on their way (dht.rs:344-355, 712-734, 830-854).
StorageFits ==
    /\ \A n \in nodes : n.ip \in ValidFor[n.id] /\ n.id # our_id
    /\ \A n, o \in nodes : n.id = o.id => n = o

\* We take a new id only for an address that the old one does not fit, that more
\* than MinVotes responses named, none with more votes, and at least one
\* of them in the last MaxVotes - MinVotes intervals (ipv4_addr_src.rs:80-123).
AdoptionEarned ==
    [][our_id' # our_id =>
         \E ip \in ValidFor[our_id'] :
             /\ ip \notin ValidFor[our_id]
             /\ heard[ip] > MinVotes
             /\ quiet'[ip] <= MaxVotes - MinVotes
             /\ \E i \in DOMAIN votes :
                    /\ votes[i].ip = ip
                    /\ \A j \in DOMAIN votes : votes[j].votes <= votes[i].votes]_vars

\* Answers outrun the decay now and then: some intervals bring one more than
\* MinVotes, and any number of others may bring none.
Bursts == []<><<Maintain /\ told > MinVotes>>_vars

\* If in the end all responses name one address, whatever else was voted for is
\* forgotten, also when nobody answers any more; and if answers come in bursts
\* our id comes to fit that address and stays so, whatever the votes were
\* before and however many are lost in between (ipv4_addr_src.rs:118-125,
\* dht.rs:712-734).
Settles ==
    \A ip \in Ip :
        /\ truth = ip ~> [](\A i \in DOMAIN votes : votes[i].ip = ip)
        /\ Bursts => (truth = ip ~> [](ip \in ValidFor[our_id]))
=============================================================================
