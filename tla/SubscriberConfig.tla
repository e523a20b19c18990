--------------------------- MODULE SubscriberConfig ---------------------------
(***************************************************************************)
(* What a subscriber is made from: create_subscriber with its validation,  *)
(* and what ServiceBusSubscriberConfig derives from the policy.  The verbs *)
(* that the acknowledgement middleware picks belong to FastStream.         *)
(***************************************************************************)
EXTENDS Destinations

None == "None"              \* a duration that was not given
EMPTY == "EMPTY"            \* a policy that was not given
SetupError == [error |-> "SetupError"]

AckPolicies == {"ACK_FIRST", "ACK", "REJECT_ON_ERROR", "NACK_ON_ERROR", "MANUAL"}

\* A queue, or a topic with the subscription to consume it through.
ResolveDestination(queue, topic, subscription) ==
  CASE queue # NoName /\ topic = NoName /\ subscription = NoName -> QueueDestination(queue)
    [] queue = NoName /\ topic # NoName /\ subscription # NoName ->
         SubscriptionDestination(topic, subscription)
    [] OTHER -> SetupError

\* _validate_input_for_misconfigure looks at the policy of the subscriber alone.
Misconfigured(a) ==
  \/ a.prefetch < 1 \/ a.workers < 1
  \/ a.workers > 1 /\ a.prefetch < a.workers
  \/ a.workers > 1 /\ a.policy = "ACK_FIRST"

\* Its own policy, else that of the broker, else dead-letter what fails.
EffectivePolicy(own, outer) ==
  CASE own # EMPTY -> own
    [] own = EMPTY /\ outer # EMPTY -> outer
    [] OTHER -> "REJECT_ON_ERROR"

\* Whether messages are taken for good or locked.
ReceiveAndDelete(policy) == policy = "ACK_FIRST"

ShouldRenewLocks(policy, renewal) == renewal # None /\ ~ReceiveAndDelete(policy)

\* create_subscriber for a broker whose policy is outer.
CreateSubscriber(a, outer) ==
  LET destination == ResolveDestination(a.queue, a.topic, a.subscription)
      policy == EffectivePolicy(a.policy, outer)
  IN  IF destination = SetupError \/ Misconfigured(a)
      THEN SetupError
      ELSE [destination |-> destination, prefetch |-> a.prefetch, workers |-> a.workers,
            policy |-> policy, delete |-> ReceiveAndDelete(policy),
            renew |-> ShouldRenewLocks(policy, a.renewal)]

\* The verb of the policy for a handler that returned or raised.
PolicyVerb(policy, ok) ==
  IF policy = "MANUAL" THEN "none"
  ELSE IF ok \/ policy \in {"ACK", "ACK_FIRST"} THEN "complete"
  ELSE IF policy = "REJECT_ON_ERROR" THEN "dead-letter" ELSE "abandon"
=============================================================================
