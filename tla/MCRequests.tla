----------------------------- MODULE MCRequests -----------------------------
(***************************************************************************)
(* Two callers, who may draw the same transaction id, ask one node: one    *)
(* question names the node, the other does not.  An answer may fit both,   *)
(* or one, or come from another address.                                   *)
(***************************************************************************)
EXTENDS Requests, TLC

CONSTANTS c1, c2, t1, t2, a1, a2, n1, n2

FindNode == [addr |-> a1, id |-> n1, kind |-> "find_node"]
Announce == [addr |-> a1, id |-> NoId, kind |-> "announce_peer"]

Found == [tid |-> t1, addr |-> a1, author |-> n1, kind |-> "find_node"]
Announced == [tid |-> t1, addr |-> a1, author |-> n2, kind |-> "ping"]
Stray == [tid |-> t1, addr |-> a2, author |-> n1, kind |-> "find_node"]

MCRequest == {FindNode, Announce}
MCResponse == {Found, Announced, Stray}
OneRequest == {FindNode}
OneResponse == {Found}

Interchangeable == Permutations({c1, c2})
============================================================================
