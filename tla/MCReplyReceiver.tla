--------------------------- MODULE MCReplyReceiver ---------------------------
(***************************************************************************)
(* Instances of ReplyReceiver for TLC.                                     *)
(***************************************************************************)
EXTENDS ReplyReceiver

\* Every call has an id of its own; Ids is the set of requests then.
OwnId == [r \in Requests |-> r]

\* Every call uses the same id: a caller that retries with its correlation_id.
\* Ids has one element then.
SameId == [r \in Requests |-> CHOOSE i \in Ids : TRUE]
=============================================================================
