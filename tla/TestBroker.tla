------------------------------ MODULE TestBroker ------------------------------
(***************************************************************************)
(* TestServiceBusBroker: publishes are calls of the handlers.  The state   *)
(* is the stack of calls that the code of a test has open: the producer    *)
(* that routes a message, the subscriber that handles it, its publishers,  *)
(* which are calls of the producer again.  An exception unwinds the stack. *)
(* Two calls made at once share nothing but the receiver of a subscriber,  *)
(* which has no state of its own.                                          *)
(***************************************************************************)
EXTENDS Parser

CONSTANTS Applications,   \* what was registered with the brokers under test
          MaxCalls,       \* bound: calls of publish, publish_batch and request
          MaxBatch        \* bound: bodies of one publish_batch

ASSUME TestBoundAssumption == MaxCalls \in Nat /\ MaxBatch \in Nat \ {0}

\* A sequence of anything.
IsSequence(s) == s \in Seq(ToSet(s))

\* An application under test is one whose declarations were accepted.
ASSUME ApplicationsAssumption ==
  \A a \in Applications :
    /\ IsSequence(a.subscribers)
    /\ \A i \in DOMAIN a.subscribers : LET s == a.subscribers[i] IN
         /\ CreateSubscriber(s.arguments, a.outer) # SetupError
         /\ IsSequence(s.arguments.queue) /\ IsSequence(s.arguments.topic)
         /\ IsSequence(s.arguments.subscription) /\ IsSequence(s.prefix) /\ IsSequence(s.publishers)
         /\ \A k \in DOMAIN s.publishers : LET p == s.publishers[k] IN
              /\ CreatePublisher(p, p.prefix) # SetupError
              /\ IsSequence(p.queue) /\ IsSequence(p.topic) /\ IsSequence(p.prefix)
    /\ \A r \in a.responses :
         r = [headers |-> r.headers, correlation |-> r.correlation, options |-> r.options]

VARIABLES
  app,          \* the application: what it registers, calls and returns
  subscribers,  \* the subscribers of all brokers, in the order of registration
  calls,        \* calls made by its code
  stack,        \* open calls, the outermost first
  exception,    \* 0: none, -1: raised, n > 0: the n-th open call is timing out
  sent,         \* messages, with who sent each and how far it is routed
  deliveries    \* every handling of a message: by whom, and what became of it

vars == <<app, subscribers, calls, stack, exception, sent, deliveries>>

Code == 0       \* a message of the code itself, not of a publisher after a delivery

-----------------------------------------------------------------------------
(* Registration *)

\* subscriber() and publisher() of the registrator, below routers whose prefixes make
\* up prefix.
Subscriber(s, outer) ==
  LET made == CreateSubscriber(s.arguments, outer)
  IN  [destination |-> AddPrefix(made.destination, s.prefix), policy |-> made.policy,
       delete |-> made.delete, no_reply |-> s.no_reply,
       publishers |-> [i \in DOMAIN s.publishers |->
                         CreatePublisher(s.publishers[i], s.publishers[i].prefix)]]

Registered(a) == [i \in DOMAIN a.subscribers |-> Subscriber(a.subscribers[i], a.outer)]

\* Whether a subscriber of d consumes what is published to destination.
Consumes(d, destination) ==
  /\ d.kind = (IF destination.kind = "queue" THEN "queue" ELSE "subscription")
  /\ d.name = destination.name

\* _matching_subscribers, as their places in subs.
Matching(subs, destination) ==
  {i \in DOMAIN subs : Consumes(subs[i].destination, destination)}

\* create_publisher_fake_subscriber: one that takes what nobody else would.
WithFake(subs, p, outer) ==
  LET queue == p.destination.kind = "queue"
      arguments == [queue |-> IF queue THEN p.destination.name ELSE NoName,
                    topic |-> IF queue THEN NoName ELSE p.destination.name,
                    subscription |-> IF queue THEN NoName ELSE <<"__test__">>,
                    prefetch |-> 1, workers |-> 1, renewal |-> "300s", policy |-> EMPTY]
  IN  IF Matching(subs, p.destination) # {} THEN subs
      ELSE Append(subs, Subscriber([arguments |-> arguments, prefix |-> NoName,
                                    no_reply |-> FALSE, publishers |-> <<>>], outer))

Publishers(subs) == FlattenSeq([i \in DOMAIN subs |-> subs[i].publishers])

\* The subscribers of an application and a fake one for each publisher that needs it.
WithFakes(own, outer) ==
  LET ps == Publishers(own)
      served[k \in 0..Len(ps)] == IF k = 0 THEN own ELSE WithFake(served[k - 1], ps[k], outer)
  IN  served[Len(ps)]

\* The brokers have started under TestServiceBusBroker.
Init ==
  /\ app \in Applications
  /\ subscribers = WithFakes(Registered(app), app.outer)
  /\ calls = 0
  /\ stack = <<>>
  /\ exception = 0
  /\ sent = <<>>
  /\ deliveries = <<>>

-----------------------------------------------------------------------------
(* FakeProducer *)

\* build_message; an identifier that is not given is made up.
BuildMessage(cmd, n) ==
  [body |-> <<<<"body">>>>, properties |-> Properties(cmd.headers),
   correlation |-> NameOr(cmd.correlation, <<"generated", n>>), reply_to |-> cmd.reply_to,
   options |-> [o \in Options |-> IF o = "subject" THEN cmd.options[o] ELSE None]]

\* _matching_subscribers for a message, and whether two of them share a path.
Matches(destination) == Matching(subscribers, destination)
SamePath(i, j) == Path(subscribers[i].destination) = Path(subscribers[j].destination)

\* Mutant: every subscriber of a topic gets the message, duplicates included.
MutTargets(destination) ==
  {i \in Matches(destination) :
     destination.kind = "queue" => \A j \in Matches(destination) : i <= j}

\* The targets of _route: the first subscriber of a queue, and of a topic one for
\* each path, the last registered.
Targets(destination) ==
  {i \in Matches(destination) :
     \A j \in Matches(destination) :
       IF destination.kind = "queue" THEN i <= j ELSE SamePath(i, j) => j <= i}

Message(cmd, by) ==
  [raw |-> BuildMessage(cmd, Len(sent) + 1), destination |-> cmd.destination, by |-> by,
   routed |-> "no", settled |-> {}, answer |-> NoName]

Top == Last(stack)
Running == stack # <<>> /\ exception = 0
Replaced(frame) == [stack EXCEPT ![Len(stack)] = frame]

\* A call of publish (n = 1) or publish_batch.
Publish(cmd, n, by) ==
  [op |-> "publish", cmd |-> cmd, left |-> n, message |-> 0, targets |-> {}, by |-> by]

\* process_message of the s-th subscriber for the message m.
Handling(m, s) ==
  [op |-> "handle", delivery |-> Len(deliveries) + 1, message |-> m, subscriber |-> s,
   stage |-> "running", replies |-> <<>>, answer |-> NoName]

Delivered(m, s) == Append(deliveries, [message |-> m, subscriber |-> s, ended |-> "no"])

\* The message under the producer has been given to all its targets, or not.
Routed(how) ==
  IF Top.message = 0 THEN sent ELSE [sent EXCEPT ![Top.message].routed = how]

\* The code of the test calls the brokers and their publishers; so may a handler.
CodeCalls ==
  /\ calls < MaxCalls /\ exception = 0
  /\ stack # <<>> => Top.op = "handle" /\ Top.stage = "running"
  /\ calls' = calls + 1

\* The command of a call; its correlation id is made up if none is given.
CodeCommand(a) ==
  LET id == <<"call", calls + 1>>
  IN  IF a.publisher = 0 THEN BrokerPublish(a, id)
      ELSE PublisherPublish(Publishers(subscribers)[a.publisher], a, id)

Publishes ==
  /\ CodeCalls
  /\ \E a \in app.calls, n \in 1..MaxBatch :
       /\ CodeCommand(a).destination # SetupError
       /\ a.publisher # 0 => n = 1
       /\ stack' = Append(stack, Publish(CodeCommand(a), n, Code))
  /\ UNCHANGED <<app, subscribers, exception, sent, deliveries>>

\* The next body of publish or publish_batch becomes a message with its targets.
Builds ==
  /\ Running /\ Top.op = "publish" /\ Top.targets = {} /\ Top.left > 0
  /\ sent' = Append(Routed("done"), Message(Top.cmd, Top.by))
  /\ stack' = Replaced([Top EXCEPT !.left = @ - 1, !.message = Len(sent) + 1,
                                   !.targets = Targets(Top.cmd.destination)])
  /\ UNCHANGED <<app, subscribers, calls, exception, deliveries>>

\* Whether the path of s was registered before that of t.
Before(s, t, destination) ==
  \E i \in Matches(destination) :
    SamePath(i, s) /\ \A j \in Matches(destination) : SamePath(j, t) => i <= j

\* One round of the loop of _route, which goes by the order of the paths.
Routes ==
  /\ Running /\ Top.op = "publish"
  /\ \E s \in Top.targets :
       /\ \A t \in Top.targets : Before(s, t, Top.cmd.destination)
       /\ stack' = Append(Replaced([Top EXCEPT !.targets = @ \ {s}]), Handling(Top.message, s))
       /\ deliveries' = Delivered(Top.message, s)
  /\ UNCHANGED <<app, subscribers, calls, exception, sent>>

PublishReturns ==
  /\ Running /\ Top.op = "publish" /\ Top.targets = {} /\ Top.left = 0
  /\ sent' = Routed("done")
  /\ stack' = Front(stack)
  /\ UNCHANGED <<app, subscribers, calls, exception, deliveries>>

-----------------------------------------------------------------------------
(* request *)

Served(cmd) ==
  /\ cmd.destination # SetupError /\ cmd.reply_to # NoName
  /\ Matches(cmd.destination) # {}

\* The first subscriber answers, of a topic too.
Requests ==
  /\ CodeCalls
  /\ \E a \in app.calls :
       LET cmd == CodeCommand(a)
           m == Len(sent) + 1
           s == Min(Matches(cmd.destination))
       IN  /\ a.publisher = 0 /\ Served(cmd)
           /\ sent' = Append(sent, Message(cmd, Code))
           /\ stack' = stack \o <<[op |-> "request", message |-> m, timeout |-> cmd.timeout,
                                   answer |-> NoName], Handling(m, s)>>
           /\ deliveries' = Delivered(m, s)
  /\ UNCHANGED <<app, subscribers, exception>>

\* Neither a queue nor a topic, no reply queue, nobody who serves it, or a request
\* through a publisher: the caller gets an error before anything is sent.
Refused ==
  /\ CodeCalls
  /\ \E a \in app.calls :
       \/ CodeCommand(a).destination = SetupError
       \/ a.publisher # 0
       \/ ~Served(CodeCommand(a))
  /\ exception' = IF stack = <<>> THEN 0 ELSE -1
  /\ UNCHANGED <<app, subscribers, stack, sent, deliveries>>

\* The result of the handler becomes the message that request returns.
RequestReturns ==
  /\ Running /\ Top.op = "request"
  /\ sent' = [sent EXCEPT ![Top.message].answer = Top.answer]
  /\ stack' = Front(stack)
  /\ UNCHANGED <<app, subscribers, calls, exception, deliveries>>

\* fail_after: a handler awaits something when the time of a request is over.
TimesOut ==
  /\ Running /\ Top.op = "handle" /\ Top.stage = "running"
  /\ \E n \in DOMAIN stack :
       /\ stack[n].op = "request" /\ stack[n].timeout # None
       /\ exception' = n
  /\ UNCHANGED <<app, subscribers, calls, stack, sent, deliveries>>

-----------------------------------------------------------------------------
(* process_message of FastStream *)

\* The receiver that a route installs records the verb on the message.  A
\* subscriber that receives and deletes has no receiver to settle with.
Settles(ok) ==
  LET s == subscribers[Top.subscriber]
  IN  /\ sent' = IF s.delete \/ PolicyVerb(s.policy, ok) = "none" THEN sent
                  ELSE [sent EXCEPT ![Top.message].settled = @ \cup {PolicyVerb(s.policy, ok)}]
      /\ deliveries' = [deliveries EXCEPT ![Top.delivery].ended = IF ok THEN "ok" ELSE "failed"]

\* The commands that a response is turned into: an answer to reply_to, and one for
\* each publisher that decorates the handler.
Replies(s, message, response) ==
  LET cmd == AsPublishCommand(response)
  IN  (IF message.reply_to = NoName \/ s.no_reply THEN <<>>
       ELSE <<PublishReply(message.reply_to, cmd)>>)
      \o [i \in DOMAIN s.publishers |-> PublishResponse(s.publishers[i], cmd)]

\* A response without a correlation id gets that of the message.
HandlerReturns ==
  /\ Running /\ Top.op = "handle" /\ Top.stage = "running"
  /\ \E r \in app.responses :
       LET message == ParseMessage(sent[Top.message].raw, <<"generated", 0>>)
           response == [r EXCEPT !.correlation = NameOr(@, message.correlation)]
       IN  stack' = Replaced(
             [Top EXCEPT !.stage = "returned", !.answer = response.correlation,
                         !.replies = Replies(subscribers[Top.subscriber], message, response)])
  /\ UNCHANGED <<app, subscribers, calls, exception, sent, deliveries>>

HandlerRaises ==
  /\ Running /\ Top.op = "handle" /\ Top.stage = "running"
  /\ exception' = -1
  /\ UNCHANGED <<app, subscribers, calls, stack, sent, deliveries>>

\* What a call of a handler raises may be caught by it.
HandlerCatches ==
  /\ exception = -1 /\ Top.op = "handle" /\ Top.stage = "running"
  /\ exception' = 0
  /\ UNCHANGED <<app, subscribers, calls, stack, sent, deliveries>>

Replying ==
  /\ Running /\ Top.op = "handle" /\ Top.replies # <<>>
  /\ stack' = Append(Replaced([Top EXCEPT !.replies = Tail(@)]),
                     Publish(Head(Top.replies), 1, Top.delivery))
  /\ UNCHANGED <<app, subscribers, calls, exception, sent, deliveries>>

\* The message is settled when everything the handler returned has been published.
Handled ==
  /\ Running /\ Top.op = "handle" /\ Top.stage = "returned" /\ Top.replies = <<>>
  /\ Settles(TRUE)
  /\ LET rest == Front(stack)
     IN  stack' = IF Last(rest).op = "request"
                  THEN [rest EXCEPT ![Len(rest)].answer = Top.answer] ELSE rest
  /\ UNCHANGED <<app, subscribers, calls, exception>>

\* Mutant: the producer logs what a handler raises and routes on.
MutUnwinds ==
  /\ exception # 0
  /\ stack' = IF Top.op = "publish" THEN stack ELSE Front(stack)
  /\ exception' = IF Len(stack) = 1 \/ Top.op = "publish" THEN 0
                  ELSE IF exception = Len(stack) THEN -1 ELSE exception
  /\ IF Top.op = "handle" THEN Settles(FALSE) ELSE UNCHANGED <<sent, deliveries>>
  /\ UNCHANGED <<app, subscribers, calls>>

\* An exception leaves the innermost call: a handler's message is settled as its
\* policy says, a message not given to all its targets stays so, and the request
\* whose time is over turns the cancellation into a TimeoutError.
Unwinds ==
  /\ exception # 0
  /\ stack' = Front(stack)
  /\ exception' = IF Len(stack) = 1 THEN 0
                  ELSE IF exception = Len(stack) THEN -1 ELSE exception
  /\ CASE Top.op = "handle" -> Settles(FALSE)
       [] Top.op = "publish" -> sent' = Routed("failed") /\ UNCHANGED deliveries
       [] Top.op = "request" -> UNCHANGED <<sent, deliveries>>
  /\ UNCHANGED <<app, subscribers, calls>>

Next ==
  \/ Publishes \/ Builds \/ Routes \/ PublishReturns
  \/ Requests \/ Refused \/ RequestReturns \/ TimesOut
  \/ HandlerReturns \/ HandlerRaises \/ HandlerCatches \/ Replying \/ Handled \/ Unwinds

Spec == Init /\ [][Next]_vars

-----------------------------------------------------------------------------
(* Properties *)

DeliveriesOf(m) == {d \in DOMAIN deliveries : deliveries[d].message = m}
MessagesOf(d) == {m \in DOMAIN sent : sent[m].by = d}
Takes(d) == subscribers[deliveries[d].subscriber]

\* A publish under test that returned has done what the service does: every queue
\* or subscription that the message goes to, however many subscribers consume it and
\* whatever their routers, had it handled once, and nobody else had it.
RoutedAsByTheService ==
  \A m \in DOMAIN sent : sent[m].routed = "done" =>
    LET reached == {i \in DOMAIN subscribers :
                      Consumes(subscribers[i].destination, sent[m].destination)}
    IN  /\ \A d \in DeliveriesOf(m) : deliveries[d].subscriber \in reached
        /\ \A i \in reached :
             Cardinality({d \in DeliveriesOf(m) :
                            Takes(d).destination = subscribers[i].destination}) = 1

\* A delivery whose handler returned, and whose answers reached every handler they
\* were for, none of which failed.
Succeeded(d) ==
  /\ deliveries[d].ended = "ok"
  /\ Cardinality(MessagesOf(d)) >= Len(Takes(d).publishers)
  /\ \A m \in MessagesOf(d) :
       sent[m].routed = "done" /\ \A e \in DeliveriesOf(m) : deliveries[e].ended = "ok"

\* A message that a test sees completed was handled to its end by a subscriber, what
\* was published for it included, unless the policy of that subscriber completes
\* failures; a test that a time limit or a failure downstream cut short never does.
CompletedMeansDone ==
  \A m \in DOMAIN sent :
    "complete" \in sent[m].settled =>
      \E d \in DeliveriesOf(m) : Takes(d).policy = "ACK" \/ Succeeded(d)

\* A response that names no correlation id carries the one of the message it answers
\* through any number of publishers, replies and requests.
CorrelationFollows ==
  \A m \in DOMAIN sent :
    /\ sent[m].answer # NoName =>
         sent[m].answer \in {sent[m].raw.correlation} \cup {r.correlation : r \in app.responses}
    /\ sent[m].by # Code =>
         LET origin == sent[deliveries[sent[m].by].message].raw.correlation
         IN  sent[m].raw.correlation \in {origin} \cup {r.correlation : r \in app.responses}
=============================================================================
