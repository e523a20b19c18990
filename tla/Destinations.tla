----------------------------- MODULE Destinations -----------------------------
(***************************************************************************)
(* The entities of Service Bus that messages go to and come from.  A name  *)
(* is the sequence of the strings it is put together from, so that a       *)
(* router's prefix is concatenated as it is in the code.                   *)
(***************************************************************************)
EXTENDS Naturals, Sequences

NoName == <<>>              \* an argument that was not given

QueueDestination(name) == [kind |-> "queue", name |-> name, subscription |-> NoName]

SubscriptionDestination(topic, subscription) ==
  [kind |-> "subscription", name |-> topic, subscription |-> subscription]

\* A prefix changes the queue or the topic, never the subscription.
AddPrefix(d, prefix) == [d EXCEPT !.name = prefix \o @]

\* The entity path, which also tells the subscriptions of a topic apart.
Path(d) == IF d.kind = "queue" THEN d.name ELSE d.name \o <<"/">> \o d.subscription
=============================================================================
