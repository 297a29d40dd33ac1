----------------------------- MODULE MCLifecycle -----------------------------
(***************************************************************************)
(* A call and two subscribers whose channels hold two of four events.      *)
(***************************************************************************)
EXTENDS Lifecycle
============================================================================
