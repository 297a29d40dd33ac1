------------------------------- MODULE Packets -------------------------------
(***************************************************************************)
(* Messages from the builder to the wire and back: src/packets/builder.rs, *)
(* public.rs (Message) and internal.rs (DHTMessage, what serde and bencode *)
(* make of it).  A builder, a message and a dictionary on the wire are     *)
(* functions from the fields that are set to their values; a key of a      *)
(* dictionary is called after the field it carries.  Lists of nodes and    *)
(* peers are sequences of their addresses, and an address is IPv4 or IPv6: *)
(* 6 or 18 bytes, and 20 more for a node's id.  An interval is a Duration: *)
(* whole seconds and what is left.  Dictionaries also come from elsewhere. *)
(***************************************************************************)
EXTENDS Integers, Sequences, FiniteSetsExt, Functions

CONSTANTS Value,        \* Value[f]: what setter f may be given
          Foreign,      \* dictionaries that other programs send
          Cap,          \* MAX_SCRAPE_INTERVAL, 21600
          Modulus,      \* 2^64: as u64 wraps negative numbers around
          Fallback,     \* a transaction id drawn at random
          SenderPort,   \* the UDP port that a request is sent from
          None,         \* not yet there, or not known
          Failed        \* an Err

VARIABLES type,     \* the kind of message that is built: <<y, kind>>
          builder,  \* MessageBuilder
          message,  \* a Message that was built, or parsed and is sent on
          wire,     \* its dictionary, or one from elsewhere
          result    \* what the receiver makes of that

packetVars == <<type, builder, message, wire, result>>

\* The function g with f set to v, and set unless it is.
Setting(g, f, v) == [h \in DOMAIN g \cup {f} |-> IF h = f THEN v ELSE g[h]]
Defaulting(g, f, v) == IF f \in DOMAIN g THEN g ELSE Setting(g, f, v)

RequestKind == {"ping", "find_node", "get_peers", "announce_peer", "sample_infohashes"}

\* BuilderMessageType.
Types ==
    ({"q", "r"} \X RequestKind) \cup {<<"e", "error">>}

Target == {"sender_id", "target"}

\* The fields of the wire's argument structs, those of type Option excepted; the
\* builder requires the same, and gives port a default.
Mandatory(y, kind) ==
    CASE y = "e" -> {"code", "description"}
      [] y \in {"q", "r"} /\ kind = "ping" -> {"sender_id"}
      [] y = "q" /\ kind = "announce_peer" -> Target \cup {"token", "port"}
      [] y = "q" /\ kind \notin {"ping", "announce_peer"} -> Target
      [] y = "r" /\ kind = "get_peers" -> {"sender_id", "token"}
      [] y = "r" /\ kind = "find_node" -> {"sender_id", "nodes"}
      [] y = "r" /\ kind = "sample_infohashes" -> {"sender_id", "interval", "nodes",
                                                   "num_infohashes", "samples"}

\* The fields that are Options.
Optional(y, kind) ==
    CASE y = "q" /\ kind = "announce_peer" -> {"implied_port"}
      [] y = "r" /\ kind = "get_peers" -> {"nodes", "peers"}
      [] OTHER -> {}

Common == {"transaction_id", "version", "requester_ip", "read_only"}

\* The addresses of a list; one that was put together from bytes of two nodes is
\* an IPv4 address, but nobody's.
Address == {"v4", "v6", "misread"}

\* What Rust's types and serde's guarantee of a field's value, in a message and
\* on the wire.
Typed(f, v) ==
    CASE f \in {"read_only", "implied_port"} -> v \in BOOLEAN
      [] f = "interval" -> v \in [secs : Nat, nanos : Nat]
      [] f = "requester_ip" -> v \in {"v4", "v6"}
      [] f \in {"nodes", "peers"} -> v \in Seq(Address)
      [] f \in {"sender_id", "target", "samples"} -> v \notin {None, "wrong length"}
      [] OTHER -> TRUE

TypedOnWire(f, v) ==
    CASE f \in {"read_only", "implied_port", "interval"} -> v \in Int
      [] f \in {"nodes", "peers"} -> v \in Seq(Address)
      [] f \in {"sender_id", "target", "samples"} -> v # None
      [] OTHER -> TRUE

ASSUME PacketsAssumption ==
    /\ Cap \in Nat /\ Modulus \in Nat /\ Modulus > 2 * Cap
    /\ SenderPort \in Nat
    /\ \A f \in DOMAIN Value : \A v \in Value[f] : Typed(f, v)
    /\ \A w \in Foreign :
         /\ w.y \in {"q", "r", "e"}
         /\ DOMAIN w.head \subseteq Common
         /\ \A f \in DOMAIN w.head : TypedOnWire(f, w.head[f])
         /\ \A f \in DOMAIN w.args : TypedOnWire(f, w.args[f])

\* A response to announce_peer is one to ping.
BuiltKind == IF type = <<"r", "announce_peer">> THEN "ping" ELSE type[2]

----------------------------------------------------------------------------
(* The builder.                                                            *)

\* The common fields that end up in a message of each type.
HeadOf(y) ==
    CASE y = "q" -> {"transaction_id", "version", "read_only"}
      [] y = "r" -> {"transaction_id", "version", "requester_ip"}
      [] y = "e" -> {"transaction_id"}

\* required_or_error, and the combinations that are refused.
Refused ==
    \/ \E f \in Mandatory(type[1], BuiltKind) \ {"port"} : f \notin DOMAIN builder
    \/ type[1] # "q" /\ "transaction_id" \notin DOMAIN builder
    \/ /\ type = <<"r", "get_peers">>
       /\ {"nodes", "peers"} \cap DOMAIN builder = {}
    \/ /\ type = <<"q", "announce_peer">>
       /\ "port" \notin DOMAIN builder /\ "implied_port" \in DOMAIN builder
       /\ ~builder["implied_port"]

\* Faulty variant: a port that is not given is 0, and not implied.
NotImplied(given) == Defaulting(given, "port", 0)

\* A port that is not given is 0, and implied unless that was said already.
Implied(given) ==
    IF "port" \in DOMAIN given THEN given
    ELSE Defaulting(Setting(given, "port", 0), "implied_port", TRUE)

\* The arguments of the message: peers take precedence over nodes.
Arguments ==
    LET kind == BuiltKind
        read == Mandatory(type[1], kind) \cup Optional(type[1], kind)
        given == Restrict(builder, read \cap DOMAIN builder)
    IN  IF type = <<"q", "announce_peer">> THEN Implied(given)
        ELSE IF type = <<"r", "get_peers">> /\ "peers" \in DOMAIN builder
        THEN Restrict(given, DOMAIN given \ {"nodes"})
        ELSE given

\* A request without a transaction id gets a random one.
CommonFields ==
    LET given == Restrict(builder, HeadOf(type[1]) \cap DOMAIN builder)
    IN  Defaulting(given, "transaction_id", Fallback)

Built == [y |-> type[1], kind |-> BuiltKind, head |-> CommonFields, args |-> Arguments]

----------------------------------------------------------------------------
(* The codec.                                                              *)

\* One field of a message on the wire: booleans are numbers there, and the
\* interval of a sample is its whole seconds, capped.
Encoded(f, v) ==
    CASE f \in {"read_only", "implied_port"} -> IF v THEN 1 ELSE 0
      [] f = "interval" -> Min({v.secs, Cap})
      [] OTHER -> v

EncodedAll(g) == [f \in DOMAIN g |-> Encoded(f, g[f])]

\* Message::into_serde_message.  Only requests name their kind.
IntoSerdeMessage(m) ==
    [y |-> m.y, q |-> IF m.y = "q" THEN m.kind ELSE None,
     head |-> EncodedAll(m.head), args |-> EncodedAll(m.args)]

\* Faulty variant: the variants of a response in another order.
VariantsByName == <<"find_node", "get_peers", "ping", "sample_infohashes">>

\* DHTResponseSpecific is untagged: the first variant that fits is taken.
Variants == <<"get_peers", "sample_infohashes", "find_node", "ping">>

\* Faulty variant: the receiver does without the sender's id.
FitsAnonymous(w, kind) == Mandatory(w.y, kind) \ {"sender_id"} \subseteq DOMAIN w.args

Fits(w, kind) == Mandatory(w.y, kind) \subseteq DOMAIN w.args

\* The kinds a dictionary can be read as: one or none.
Kinds(w) ==
    CASE w.y = "q" -> {kind \in RequestKind \cap {w.q} : Fits(w, kind)}
      [] w.y = "r" -> LET fitting == {i \in DOMAIN Variants : Fits(w, Variants[i])}
                      IN  {Variants[i] : i \in {j \in fitting : j = Min(fitting)}}
      [] w.y = "e" -> {kind \in {"error"} : Fits(w, kind)}

\* The arguments that are read: of values and nodes only the former, and
\* neither need be there.
Read(w, kind) ==
    LET some == (Mandatory(w.y, kind) \cup Optional(w.y, kind)) \cap DOMAIN w.args
    IN  IF <<w.y, kind>> # <<"r", "get_peers">> THEN Restrict(w.args, some)
        ELSE IF "peers" \in some THEN Restrict(w.args, some \ {"nodes"})
        ELSE Defaulting(Restrict(w.args, some), "nodes", <<>>)

Ipv6s(v, places) == {i \in places : v[i] = "v6"}

\* Where the n-th node of a list begins in its bytes: an IPv4 node takes 26, an
\* IPv6 node 38.
Offset(v, n) == 26 * (n - 1) + 12 * Cardinality(Ipv6s(v, 1 .. n - 1))

\* Where the last one ends.
Bytes(v) == Offset(v, Len(v) + 1)

\* bytes_to_sockaddr, bytes_to_nodes4, bytes_to_peers and Id::from_bytes accept.
\* IPv6 addresses are written but not read; of nodes only the bytes are counted.
Readable(f, v) ==
    CASE f = "requester_ip" -> v = "v4"
      [] f = "nodes" -> Bytes(v) % 26 = 0
      [] f = "peers" -> \A i \in DOMAIN v : v[i] # "v6"
      [] f \in {"sender_id", "target", "samples"} -> v # "wrong length"
      [] OTHER -> TRUE

\* bytes_to_nodes4: the nodes that were written where one is read, and are IPv4.
ReadAsIpv4(v, i) == {n \in DOMAIN v : Offset(v, n) = 26 * (i - 1) /\ v[n] # "v6"}

NodesRead(v) ==
    [i \in 1 .. Bytes(v) \div 26 |->
        IF ReadAsIpv4(v, i) = {} THEN "misread" ELSE v[CHOOSE n \in ReadAsIpv4(v, i) : TRUE]]

Decoded(f, v) ==
    CASE f = "read_only" -> v >= 1
      [] f = "implied_port" -> v # 0
      [] f = "interval" -> [secs |-> v % Modulus, nanos |-> 0]
      [] f = "nodes" -> NodesRead(v)
      [] OTHER -> v

DecodedAll(g) == [f \in DOMAIN g |-> Decoded(f, g[f])]

\* Message::from_serde_message, after serde found the variant.
FromSerdeMessage(w, kind) ==
    LET args == Read(w, kind)
    IN  IF /\ \A f \in DOMAIN args : Readable(f, args[f])
           /\ \A f \in DOMAIN w.head : Readable(f, w.head[f])
        THEN [y |-> w.y, kind |-> kind, head |-> DecodedAll(w.head), args |-> DecodedAll(args)]
        ELSE Failed

\* Message::from_bytes.
FromBytes(w) ==
    IF Kinds(w) = {} THEN Failed ELSE FromSerdeMessage(w, CHOOSE kind \in Kinds(w) : TRUE)

\* Message::get_author_id.
AuthorId(m) ==
    IF m.y \in {"q", "r"} /\ "sender_id" \in DOMAIN m.args THEN m.args["sender_id"] ELSE None

----------------------------------------------------------------------------
\* MessageBuilder::new.
PacketsInit ==
    /\ type \in Types
    /\ builder = <<>>
    /\ message = None /\ wire = None /\ result = None

\* A setter; those that no build function of this type reads change nothing.
Set(f, v) ==
    /\ message = None /\ wire = None
    /\ f \in Common \cup Mandatory(type[1], BuiltKind) \cup Optional(type[1], BuiltKind)
    /\ builder' = Setting(builder, f, v)
    /\ UNCHANGED <<type, message, wire, result>>

\* build.
Build ==
    /\ message = None /\ wire = None
    /\ message' = IF Refused THEN Failed ELSE Built
    /\ UNCHANGED <<type, builder, wire, result>>

\* to_bytes.
Send ==
    /\ message \notin {None, Failed} /\ wire = None
    /\ wire' = IntoSerdeMessage(message)
    /\ UNCHANGED <<type, builder, message, result>>

\* A dictionary from elsewhere arrives.
Arrive(w) ==
    /\ builder = <<>> /\ message = None /\ wire = None
    /\ wire' = w
    /\ UNCHANGED <<type, builder, message, result>>

Receive ==
    /\ wire # None /\ result = None
    /\ result' = FromBytes(wire)
    /\ UNCHANGED <<type, builder, message, wire>>

\* What was understood is sent on.
SendOn ==
    /\ result \notin {None, Failed} /\ message = None
    /\ message' = result /\ wire' = IntoSerdeMessage(result)
    /\ result' = None
    /\ UNCHANGED <<type, builder>>

PacketsNext ==
    \/ \E f \in DOMAIN Value : \E v \in Value[f] : Set(f, v)
    \/ Build \/ Send \/ Receive \/ SendOn
    \/ \E w \in Foreign : Arrive(w)

PacketsSpec == PacketsInit /\ [][PacketsNext]_packetVars

----------------------------------------------------------------------------
(* Properties.                                                             *)

\* An IPv6 address, and one that the receiver takes offence at: thirteen nodes
\* have as many bytes as nineteen IPv4 nodes.
HasIpv6(f, v) ==
    CASE f = "requester_ip" -> v = "v6"
      [] f \in {"nodes", "peers"} -> Ipv6s(v, DOMAIN v) # {}
      [] OTHER -> FALSE

Offends(f, v) ==
    HasIpv6(f, v) /\ ~(f = "nodes" /\ Cardinality(Ipv6s(v, DOMAIN v)) % 13 = 0)

\* Some field of the message does.
Some(m, Does(_, _)) == \E g \in {m.head, m.args} : \E f \in DOMAIN g : Does(f, g[f])

\* A message, built here or understood before, is understood as what it is: the
\* kind of a response is recognised though nothing names it, and every field
\* comes out as it went in, an interval as its whole seconds, or the cap.  An
\* IPv6 address makes it unreadable, except that of thirteen nodes, which are
\* read as other nodes (public.rs:202-509, 640-668, internal.rs:85-107).
RoundTrip ==
    message \notin {None, Failed} /\ result # None =>
        IF Some(message, Offends) THEN result = Failed
        ELSE result = [message EXCEPT !.args =
                         [f \in DOMAIN @ |->
                            CASE f = "interval" ->
                                   [secs |-> Min({@[f].secs, Cap}), nanos |-> 0]
                              [] HasIpv6(f, @[f]) -> result.args[f]
                              [] OTHER -> @[f]]]

\* Whatever arrives, a request or response that is understood has an author, as
\* common_send_and_handle_response expects (dht.rs:829).
AuthorKnown ==
    result \notin {None, Failed} =>
        (result.y \in {"q", "r"} <=> AuthorId(result) # None)

\* The announce_peer handler (dht.rs:460-468): the announced port.
AnnouncedPort(args) ==
    IF "implied_port" \in DOMAIN args /\ args["implied_port"] THEN SenderPort ELSE args["port"]

\* From the setters of an announce_peer request to the handler at the other end:
\* the port announced is the one that was given, or the sender's if none was or
\* that was asked for (builder.rs:199-214).
PortAsMeant ==
    builder # <<>> /\ type = <<"q", "announce_peer">> /\ result \notin {None, Failed} =>
        AnnouncedPort(result.args) =
            IF "port" \notin DOMAIN builder THEN SenderPort
            ELSE IF "implied_port" \in DOMAIN builder /\ builder["implied_port"] THEN SenderPort
            ELSE builder["port"]
============================================================================
