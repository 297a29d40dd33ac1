------------------------------ MODULE MCPackets ------------------------------
(***************************************************************************)
(* Values that the codec treats differently, and dictionaries with every   *)
(* combination of keys.                                                    *)
(***************************************************************************)
EXTENDS Packets, TLC

\* After an IPv4 node, as many IPv6 nodes as fill nineteen IPv4 nodes.
Thirteen == [i \in 1 .. 14 |-> IF i = 1 THEN "v4" ELSE "v6"]

MCValue ==
    [transaction_id |-> {"t"}, version |-> {"v"}, requester_ip |-> {"v4", "v6"},
     read_only |-> BOOLEAN, sender_id |-> {"a"}, target |-> {"b"}, port |-> {0, 7},
     implied_port |-> BOOLEAN, token |-> {"k"}, nodes |-> {<<>>, <<"v4">>, <<"v4", "v6">>, Thirteen},
     peers |-> {<<>>, <<"v6">>, <<"v4">>}, interval |-> [secs : {0, Cap, Cap + 1}, nanos : {0, 1}],
     samples |-> {"c"}, num_infohashes |-> {1}, code |-> {1}, description |-> {"d"}]

\* Functions on some of the keys, with one of each key's values.
Dictionaries(values) ==
    LET With(key, sofar) == sofar \cup {(key :> v) @@ g : v \in values[key], g \in sofar}
    IN  FoldSet(With, {<<>>}, DOMAIN values)

Heads(values) == {("transaction_id" :> "t") @@ g : g \in Dictionaries(values)}

MCForeign ==
    [y : {"q"}, q : RequestKind \cup {"other"}, head : Heads([read_only |-> 0..2]),
     args : Dictionaries([sender_id |-> {"a", "wrong length"}, target |-> {"b"}, port |-> {7},
                          implied_port |-> 0..2, token |-> {"k"}])]
    \cup
    [y : {"r"}, q : {None}, head : Heads([requester_ip |-> {"v4", "v6"}]),
     args : Dictionaries([sender_id |-> {"a", "wrong length"}, token |-> {"k"},
                          nodes |-> {<<>>, <<"v4">>, Thirteen}, peers |-> {<<"v4">>},
                          interval |-> {-1, 3, Cap + 1}, num_infohashes |-> {1},
                          samples |-> {"c", "wrong length"}])]
    \cup
    [y : {"e"}, q : {None}, head : Heads([version |-> {"v"}]),
     args : Dictionaries([code |-> {1}, description |-> {"d"}])]
============================================================================
