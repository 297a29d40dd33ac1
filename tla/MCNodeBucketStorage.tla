------------------------- MODULE MCNodeBucketStorage -------------------------
(***************************************************************************)
(* Storage with buckets of one record and ids 4, 5 and 6 that compete for  *)
(* class 0 around id 0, so that a promotion can displace a verified node,  *)
(* and that node an unverified one.                                        *)
(***************************************************************************)
EXTENDS NodeBucketStorage, Ids

MCId == {0, 4, 5, 6}
MCPrefix == [a \in MCId |-> [b \in MCId |-> MatchingPrefixBits(a, b)]]
============================================================================
