------------------------------ MODULE Publishing ------------------------------
(***************************************************************************)
(* The commands that publishes are turned into: by the broker, by a        *)
(* publisher that is called, by one that decorates a handler, and by the   *)
(* publisher that answers to reply_to.  Identifiers are names too.         *)
(***************************************************************************)
EXTENDS SubscriberConfig, FiniteSets

\* What a call may leave to the publisher; a response sets the first four.
ResponseOptions == {"subject", "session_id", "time_to_live", "scheduled_enqueue_time"}
Options == ResponseOptions \cup {"partition_key"}
NoOptions == [o \in Options |-> None]

\* Python's `value or default`.
NameOr(name, default) == IF name = NoName THEN default ELSE name
OptionsOr(own, default) == [o \in Options |-> IF own[o] = None THEN default[o] ELSE own[o]]

\* Python's `a | b` for dictionaries: b wins.
Merge(a, b) ==
  [k \in DOMAIN a \cup DOMAIN b |-> IF k \in DOMAIN b THEN b[k] ELSE a[k]]

-----------------------------------------------------------------------------
(* ServiceBusPublishCommand *)

ResolvePublishDestination(queue, topic) ==
  CASE queue # NoName /\ topic = NoName -> [kind |-> "queue", name |-> queue]
    [] queue = NoName /\ topic # NoName -> [kind |-> "topic", name |-> topic]
    [] OTHER -> SetupError

\* A command with one body; publish_batch is one with several.
Command(destination, headers, correlation, reply_to, options, timeout) ==
  [destination |-> destination, headers |-> headers, correlation |-> correlation,
   reply_to |-> reply_to, options |-> options, timeout |-> timeout]

SetDestination(cmd, queue, topic) ==
  [cmd EXCEPT !.destination = ResolvePublishDestination(queue, topic)]

\* add_headers of FastStream, with override=False: what the command has wins.
AddHeaders(cmd, headers) == [cmd EXCEPT !.headers = Merge(headers, @)]

\* Mutant: the correlation id is left to the producer.
MutAsPublishCommand(r) ==
  Command(ResolvePublishDestination(<<"fake-queue">>, NoName), r.headers, NoName,
          NoName, [o \in Options |-> IF o \in ResponseOptions THEN r.options[o] ELSE None],
          "30s")

\* A response names no destination: the one it gets here is replaced by the publisher.
AsPublishCommand(r) ==
  Command(ResolvePublishDestination(<<"fake-queue">>, NoName), r.headers, r.correlation,
          NoName, [o \in Options |-> IF o \in ResponseOptions THEN r.options[o] ELSE None],
          "30s")

-----------------------------------------------------------------------------
(* ServiceBusBroker *)

\* publish, publish_batch and request differ in what is done with the command.
BrokerPublish(a, id) ==
  Command(ResolvePublishDestination(a.queue, a.topic), a.headers,
          NameOr(a.correlation, id), a.reply_to, a.options, a.timeout)

-----------------------------------------------------------------------------
(* ServiceBusPublisher and ServiceBusFakePublisher *)

\* create_publisher, for a publisher of routers whose prefixes make up prefix.
CreatePublisher(p, prefix) ==
  LET own == ResolvePublishDestination(p.queue, p.topic)
  IN  IF own = SetupError THEN SetupError
      ELSE [destination |-> [own EXCEPT !.name = prefix \o @], headers |-> p.headers,
            reply_to |-> p.reply_to, options |-> p.options]

DefaultQueue(p) == IF p.destination.kind = "queue" THEN p.destination.name ELSE NoName
DefaultTopic(p) == IF p.destination.kind = "topic" THEN p.destination.name ELSE NoName

\* publish(): a destination given by the call replaces that of the publisher.
PublisherPublish(p, a, id) ==
  LET default == a.queue = NoName /\ a.topic = NoName
  IN  Command(ResolvePublishDestination(IF default THEN DefaultQueue(p) ELSE a.queue,
                                        IF default THEN DefaultTopic(p) ELSE a.topic),
              Merge(p.headers, a.headers), NameOr(a.correlation, id),
              NameOr(a.reply_to, p.reply_to), OptionsOr(a.options, p.options), "30s")

\* _publish(): always to the destination of the publisher.
PublishResponse(p, cmd) ==
  LET own == AddHeaders(SetDestination(cmd, DefaultQueue(p), DefaultTopic(p)), p.headers)
      answered == [own EXCEPT !.reply_to = NameOr(own.reply_to, p.reply_to)]
  IN  [answered EXCEPT !.options = OptionsOr(own.options, p.options)]

\* The answer to a message goes to its reply_to, which is the name of a queue.
PublishReply(reply_to, cmd) == SetDestination(cmd, reply_to, NoName)
=============================================================================
