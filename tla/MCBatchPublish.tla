---------------------------- MODULE MCBatchPublish ----------------------------
(***************************************************************************)
(* Instances of BatchPublish for TLC.                                      *)
(***************************************************************************)
EXTENDS BatchPublish, TLC

\* The calls are interchangeable.
Symmetry == Permutations(Calls)
=============================================================================
