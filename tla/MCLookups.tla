------------------------------ MODULE MCLookups ------------------------------
(***************************************************************************)
(* A lookup for id 0 among 2, ..., 6 with buckets of two records, so       *)
(* that the class of 4, 5 and 6 can overflow.  2 is verified from the      *)
(* start; answers name nearer and farther nodes, in both orders, and the   *)
(* target; 4 and 6 may be verified with records older than those of the    *)
(* answers, and so displace nodes that the lookup has.                     *)
(***************************************************************************)
EXTENDS Lookups, Ids, TLC

MCId == {0, 2, 3, 4, 5, 6}
\* MatchingPrefixBits of three-bit ids, in the form TLC evaluates fastest.
MCPrefix ==
    [a \in MCId |-> [b \in MCId |-> IF a = b THEN 3
                                   ELSE IF a \div 2 = b \div 2 THEN 2
                                   ELSE IF a \div 4 = b \div 4 THEN 1 ELSE 0]]
ASSUME PrefixIsMatchingPrefixBits ==
    \A a, b \in MCId : MCPrefix[a][b] = MatchingPrefixBits(a, b)
MCDistance == [n \in MCId |-> n]
ASSUME DistanceIsXor == \A n \in MCId : MCDistance[n] = Xor(n, 0)
MCFit == {2, 4, 6}
MCSince == 2 :> 3
\* Before that, and between that and the answers.
MCInstants == {1, 4}
MCTells == [n \in MCId |-> CASE n = 2 -> {<<>>, <<4, 5>>, <<5, 4>>}
                             [] n = 3 -> {<<>>, <<2, 4>>}
                             [] n = 4 -> {<<>>, <<0, 2, 2>>}
                             [] n = 5 -> {<<>>, <<3>>, <<4, 3>>}
                             [] OTHER -> {<<>>, <<4, 5>>}]
============================================================================
