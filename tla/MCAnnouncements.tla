--------------------------- MODULE MCAnnouncements ---------------------------
(***************************************************************************)
(* One torrent at a time, two info hashes, so that one evicts the other;   *)
(* two peers in a swarm and four addresses, two of them IPv6, so that peers *)
(* are evicted, filtered and, with responses of one peer, cut.  The clock  *)
(* passes two rotations of two ticks and the freshness of two.             *)
(***************************************************************************)
EXTENDS Announcements
============================================================================
