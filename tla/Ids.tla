-------------------------------- MODULE Ids --------------------------------
(***************************************************************************)
(* Node ids and info hashes: src/common/id.rs.  The program's ids are 160  *)
(* bits; here they are IdBits bits, written as the naturals below          *)
(* 2^IdBits, bit 1 the most significant.  Ordering of ids is the order of  *)
(* these naturals (the code compares the bytes from the most significant). *)
(***************************************************************************)
EXTENDS Naturals, FiniteSets, FiniteSetsExt

CONSTANT IdBits      \* width of an id: 160 in the program (8 * ID_SIZE)

ASSUME IdBitsAssumption == IdBits \in Nat \ {0}

AllIds == 0 .. (2^IdBits - 1)

Bit(a, i) == (a \div 2^(IdBits - i)) % 2

\* Id::xor, the DHT's distance.
Xor(a, b) ==
    MapThenSumSet(LAMBDA i : 2^(IdBits - i),
                  {i \in 1 .. IdBits : Bit(a, i) # Bit(b, i)})

\* Id::matching_prefix_bits: how many leading bits two ids share, IdBits
\* when they are equal.
MatchingPrefixBits(a, b) ==
    LET differ == {i \in 1 .. IdBits : Bit(a, i) # Bit(b, i)}
    IN  IF differ = {} THEN IdBits ELSE Min(differ) - 1

\* The n members of S that are nearest to target: sort by xor distance,
\* truncate (Buckets::get_nearest_nodes).  Two different ids are never at
\* the same distance of a third.
Nearest(S, target, n) ==
    {a \in S : Cardinality({b \in S : Xor(b, target) < Xor(a, target)}) < n}
============================================================================
