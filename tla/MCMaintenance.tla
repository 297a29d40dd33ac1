---------------------------- MODULE MCMaintenance ----------------------------
(***************************************************************************)
(* Buckets of one record and two nodes, 4 and 5, of the same class around  *)
(* 0: whichever is verified first leaves the other a backup.  Node 5 may   *)
(* also be heard of at node 4's address.                                   *)
(***************************************************************************)
EXTENDS Maintenance, Ids

CONSTANTS a4, a5

MCId == {0, 4, 5}
\* MatchingPrefixBits of three-bit ids, in the form TLC evaluates fastest.
MCPrefix ==
    [a \in MCId |-> [b \in MCId |-> IF a = b THEN 3
                                   ELSE IF a \div 2 = b \div 2 THEN 2
                                   ELSE IF a \div 4 = b \div 4 THEN 1 ELSE 0]]
ASSUME PrefixIsMatchingPrefixBits ==
    \A a, b \in MCId : MCPrefix[a][b] = MatchingPrefixBits(a, b)
MCAddress == {a4, a5}
MCHome == [n \in MCId |-> IF n = 4 THEN a4 ELSE a5]
MCRumour == {<<5, a5>>, <<5, a4>>}
MCInit == TasksInit /\ our_id = 0
MCSpec == MCInit /\ [][TasksNext]_taskVars
============================================================================
