---------------------------- MODULE MCThrottler ----------------------------
(***************************************************************************)
(* Two records, three addresses that compete for them and the address that *)
(* marks blank records.                                                    *)
(***************************************************************************)
EXTENDS Throttler, TLC

CONSTANTS lo, i1, i2, i3

Interchangeable == Permutations({i1, i2, i3})
============================================================================
