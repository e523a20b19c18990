----------------------------- MODULE MCLifecycle -----------------------------
(***************************************************************************)
(* Instances of Lifecycle for TLC: every request has a queue of its own.   *)
(***************************************************************************)
EXTENDS Lifecycle

OwnQueue == [r \in Requests |-> r]
=============================================================================
