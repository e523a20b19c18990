----------------------------- MODULE MCSettlement -----------------------------
(***************************************************************************)
(* Instances of Settlement for TLC.                                        *)
(***************************************************************************)
EXTENDS Settlement, TLC

\* The calls are interchangeable.
Symmetry == Permutations(Calls)
=============================================================================
