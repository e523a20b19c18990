---------------------------- MODULE MCSenderCache ----------------------------
(***************************************************************************)
(* Instances of SenderCache for TLC.                                       *)
(***************************************************************************)
EXTENDS SenderCache

CONSTANTS q1, q2  \* the entities

\* One publish goes to q2, the others to q1.
MCTarget == LET odd == CHOOSE p \in Publishers : TRUE
            IN  [p \in Publishers |-> IF p = odd THEN q2 ELSE q1]

\* Every publish goes to q1.
OneTarget == [p \in Publishers |-> q1]
=============================================================================
