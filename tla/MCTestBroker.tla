----------------------------- MODULE MCTestBroker -----------------------------
(***************************************************************************)
(* Instances of TestBroker for TLC.                                        *)
(***************************************************************************)
EXTENDS TestBroker, TLC

NoHeaders == <<>>

\* Declarations of subscribers and publishers.
Declared(queue, topic, subscription, policy, prefix, no_reply, publishers) ==
  [arguments |-> [queue |-> queue, topic |-> topic, subscription |-> subscription,
                  prefetch |-> 1, workers |-> 1, renewal |-> "300s", policy |-> policy],
   prefix |-> prefix, no_reply |-> no_reply, publishers |-> publishers]
Queue(name, policy, publishers) == Declared(name, NoName, NoName, policy, NoName, FALSE, publishers)
Topic(name, subscription, policy, prefix, publishers) ==
  Declared(NoName, name, subscription, policy, prefix, FALSE, publishers)
Publisher(queue, topic, prefix) ==
  [queue |-> queue, topic |-> topic, prefix |-> prefix, headers |-> NoHeaders,
   reply_to |-> NoName, options |-> NoOptions]

CallWith(publisher, queue, topic, reply_to, correlation) ==
  [publisher |-> publisher, queue |-> queue, topic |-> topic, reply_to |-> reply_to,
   correlation |-> correlation, headers |-> NoHeaders, options |-> NoOptions, timeout |-> "30s"]

Response(correlation) ==
  [headers |-> NoHeaders, correlation |-> correlation, options |-> NoOptions]

\* Two consumers of a queue, an answer and a decorating publisher nobody serves.
Pipeline ==
  [outer |-> EMPTY,
   subscribers |-> <<Queue(<<"orders">>, EMPTY, <<Publisher(<<"results">>, NoName, NoName)>>),
                     Queue(<<"orders">>, "ACK", <<>>),
                     Queue(<<"replies">>, "NACK_ON_ERROR", <<>>)>>,
   calls |-> {CallWith(0, <<"orders">>, NoName, <<"replies">>, <<"own">>),
              CallWith(1, NoName, NoName, NoName, NoName)},
   responses |-> {Response(NoName), Response(<<"response">>)}]

\* A topic below a router, with two consumers of one subscription, fed by a handler.
FanOut ==
  [outer |-> "ACK",
   subscribers |-> <<Queue(<<"orders">>, "REJECT_ON_ERROR",
                           <<Publisher(NoName, <<"events">>, <<"v1">>)>>),
                     Topic(<<"events">>, <<"billing">>, "NACK_ON_ERROR", <<"v1">>, <<>>),
                     Topic(<<"v1", "events">>, <<"billing">>, EMPTY, NoName, <<>>),
                     Topic(<<"events">>, <<"audit">>, "ACK_FIRST", <<"v1">>, <<>>),
                     Topic(<<"events">>, <<"audit">>, EMPTY, NoName, <<>>)>>,
   calls |-> {CallWith(0, <<"orders">>, NoName, NoName, NoName),
              CallWith(0, NoName, <<"v1", "events">>, <<"orders">>, NoName)},
   responses |-> {Response(NoName)}]

TestApplications == {Pipeline, FanOut}
=============================================================================
