----------------------------- MODULE MCBuckets -----------------------------
(***************************************************************************)
(* Buckets over six 3-bit ids, with two instants and so with ties, and a   *)
(* capacity of two.  Around ids 4 and 5 class 0 has four members and can be *)
(* overfilled; around 0 to 3 three ids share a bit and force a second split. *)
(***************************************************************************)
EXTENDS Buckets

Bits == INSTANCE Ids

MCId == 0 .. 5
MCPrefix == [a \in MCId |-> [b \in MCId |-> Bits!MatchingPrefixBits(a, b)]]
============================================================================
