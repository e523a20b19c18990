---------------------------- MODULE TestBrokerProofs ----------------------------
(***************************************************************************)
(* Commands and messages: the two ways through a publisher agree, and a    *)
(* message made by the test broker is, to a handler, the message that the  *)
(* service would have delivered.                                           *)
(*                                                                         *)
(* The test broker, for every application, every number of open calls and  *)
(* every batch: what is always true of its stack of calls, of the messages *)
(* and of the deliveries (ShapeInv); of correlation ids (CorrelationInv);  *)
(* of what a message has been and will be delivered to (RouteInv); and of  *)
(* what a handler has published and still owes (DoneInv).                  *)
(***************************************************************************)
EXTENDS TestBroker, SequenceTheorems, FiniteSetTheorems, WellFoundedInduction, TLAPS

\* Headers that a caller passes: texts by text.
IsHeaders(h) == /\ h = [t \in DOMAIN h |-> h[t]]
                /\ \A t \in DOMAIN h : \E x : h[t] = Text(x)

-----------------------------------------------------------------------------
(* Fields of records *)

LEMMA HeadersSet ==
  ASSUME NEW d, NEW old, NEW c, NEW r, NEW o, NEW e, NEW v,
         v = [destination |-> d, headers |-> old, correlation |-> c, reply_to |-> r,
              options |-> o, timeout |-> e],
         NEW new
  PROVE  [v EXCEPT !.headers = new]
           = [destination |-> d, headers |-> new, correlation |-> c, reply_to |-> r,
              options |-> o, timeout |-> e]
OBVIOUS

LEMMA ReplyToSet ==
  ASSUME NEW d, NEW h, NEW c, NEW old, NEW o, NEW e, NEW v,
         v = [destination |-> d, headers |-> h, correlation |-> c, reply_to |-> old,
              options |-> o, timeout |-> e],
         NEW new
  PROVE  [v EXCEPT !.reply_to = new]
           = [destination |-> d, headers |-> h, correlation |-> c, reply_to |-> new,
              options |-> o, timeout |-> e]
OBVIOUS

LEMMA OptionsSet ==
  ASSUME NEW d, NEW h, NEW c, NEW r, NEW old, NEW e, NEW v,
         v = [destination |-> d, headers |-> h, correlation |-> c, reply_to |-> r,
              options |-> old, timeout |-> e],
         NEW new
  PROVE  [v EXCEPT !.options = new]
           = [destination |-> d, headers |-> h, correlation |-> c, reply_to |-> r,
              options |-> new, timeout |-> e]
OBVIOUS

-----------------------------------------------------------------------------
(* Headers on their way *)

\* Headers that were made properties are found again under their texts.
LEMMA HeadersOfProperties ==
  ASSUME NEW h, IsHeaders(h)
  PROVE  NormalizeHeaders(Properties(h)) = h
<1> DEFINE P == Properties(h)
<1>1. DOMAIN P = {Text(t) : t \in DOMAIN h} /\ \A t \in DOMAIN h : P[Text(t)] = h[t]
  BY DEF Properties, Text
<1> HIDE DEF P
<1>2. {k.text : k \in DOMAIN P} = DOMAIN h
  <2>1. \A t : Text(t).text = t
    BY DEF Text
  <2>2. {k.text : k \in {Text(t) : t \in DOMAIN h}} = DOMAIN h
    BY <2>1
  <2> QED
    BY <1>1, <2>2
<1>3. ASSUME NEW t \in DOMAIN h
      PROVE  (CHOOSE k \in DOMAIN P : k.text = t) = Text(t)
  BY <1>1 DEF Text
<1>4. \A t \in DOMAIN h : Decoded(h[t]) = h[t]
  BY DEF IsHeaders, Decoded, AsText, Text
<1>5. \A t \in DOMAIN h : Decoded(P[CHOOSE k \in DOMAIN P : k.text = t]) = h[t]
  BY <1>1, <1>3, <1>4
<1> QED
  BY <1>2, <1>5 DEF NormalizeHeaders, IsHeaders, P

\* So they are after AMQP has turned keys and values into bytes.
LEMMA HeadersOnTheWire ==
  ASSUME NEW m, IsHeaders(m.headers)
  PROVE  NormalizeHeaders(
           [k \in {AsBytes(j) : j \in DOMAIN Properties(m.headers)} |->
              AsBytes(Properties(m.headers)[AsText(k)])]) = m.headers
<1> DEFINE h == m.headers
           P == Properties(h)
           W == [k \in {AsBytes(j) : j \in DOMAIN P} |-> AsBytes(P[AsText(k)])]
           Key(t) == [text |-> t, bytes |-> TRUE, utf8 |-> TRUE]
<1>1. DOMAIN P = {Text(t) : t \in DOMAIN h} /\ \A t \in DOMAIN h : P[Text(t)] = h[t]
  BY DEF Properties, Text
<1>2. ASSUME NEW t
      PROVE  AsBytes(Text(t)) = Key(t) /\ AsText(Key(t)) = Text(t) /\ Key(t).text = t
  BY DEF AsBytes, AsText, Text
<1>3. DOMAIN W = {Key(t) : t \in DOMAIN h}
  <2>1. DOMAIN W = {AsBytes(j) : j \in DOMAIN P}
    OBVIOUS
  <2> HIDE DEF P, W, Key
  <2> QED
    BY <1>1, <1>2, <2>1
<1>4. ASSUME NEW t \in DOMAIN h
      PROVE  W[Key(t)] = AsBytes(h[t])
  <2>1. Key(t) \in {AsBytes(j) : j \in DOMAIN P}
    BY <1>3
  <2>2. W[Key(t)] = AsBytes(P[AsText(Key(t))])
    BY <2>1
  <2> QED
    BY <1>1, <1>2, <2>2
<1> HIDE DEF P, W, Key
<1>5. {k.text : k \in DOMAIN W} = DOMAIN h
  <2>1. {k.text : k \in {Key(t) : t \in DOMAIN h}} = DOMAIN h
    BY <1>2
  <2> QED
    BY <1>3, <2>1
<1>6. ASSUME NEW t \in DOMAIN h
      PROVE  (CHOOSE k \in DOMAIN W : k.text = t) = Key(t)
  BY <1>2, <1>3
<1>7. ASSUME NEW t \in DOMAIN h
      PROVE  Decoded(AsBytes(h[t])) = h[t]
  <2>1. PICK x : h[t] = Text(x)
    BY DEF IsHeaders
  <2>2. Decoded(AsBytes(Text(x))) = Text(x)
    BY DEF Decoded, AsBytes, AsText, Text
  <2> QED
    BY <2>1, <2>2
<1>8. \A t \in DOMAIN h : Decoded(W[CHOOSE k \in DOMAIN W : k.text = t]) = h[t]
  BY <1>4, <1>6, <1>7
<1>9. NormalizeHeaders(W) = h
  BY <1>5, <1>8 DEF NormalizeHeaders, IsHeaders
<1> QED
  BY <1>9 DEF W, P

-----------------------------------------------------------------------------
(* Results *)

\* A handler cannot tell a message of the test broker (testing.build_message) from
\* the one that ServiceBusParser.encode_message would have sent through the service:
\* body, headers, reply_to, correlation id and subject are the same once parsed.
THEOREM TestMessagesLookReal ==
  ASSUME NEW cmd, NEW n, NEW id,
         IsHeaders(cmd.headers), cmd.options = [o \in Options |-> cmd.options[o]],
         cmd.correlation # NoName
  PROVE  ParseMessage(BuildMessage(cmd, n), id)
           = ParseMessage(Transfer(EncodeMessage(<<"body">>, cmd, id)), id)
<1> DEFINE T == BuildMessage(cmd, n)
           E == EncodeMessage(<<"body">>, cmd, id)
           R == Transfer(E)
<1>1. T.body = <<<<"body">>>> /\ R.body = <<<<"body">>>>
  BY DEF BuildMessage, EncodeMessage, Transfer
<1>2. NormalizeHeaders(T.properties) = cmd.headers
  BY HeadersOfProperties DEF BuildMessage
<1>3. E.properties = Properties(cmd.headers)
  BY DEF EncodeMessage
<1>4. R.properties = [k \in {AsBytes(j) : j \in DOMAIN E.properties} |->
                        AsBytes(E.properties[AsText(k)])]
  BY DEF EncodeMessage, Transfer
<1>5. NormalizeHeaders(R.properties) = cmd.headers
  BY <1>3, <1>4, HeadersOnTheWire
<1>6. T.reply_to = cmd.reply_to /\ R.reply_to = cmd.reply_to
  BY DEF BuildMessage, EncodeMessage, Transfer
<1>7. T.correlation = cmd.correlation /\ R.correlation = cmd.correlation
  BY DEF BuildMessage, EncodeMessage, Transfer, NameOr
<1>8. T.options["subject"] = cmd.options["subject"] /\ R.options = cmd.options
  BY DEF BuildMessage, EncodeMessage, Transfer, Options, ResponseOptions
<1> HIDE DEF T, R, E
<1>9. ParseMessage(T, id) = ParseMessage(R, id)
  BY <1>1, <1>2, <1>5, <1>6, <1>7, <1>8 DEF ParseMessage
<1> QED
  BY <1>9 DEF T, R, E

\* A response published by a decorated handler (_publish) makes the command that
\* calling the publisher (publish) with the same values makes: destination, headers
\* and defaults are put together in two different ways in the code.
THEOREM PublishingPathsAgree ==
  ASSUME NEW p, NEW r, NEW id,
         r.correlation # NoName,
         r.options = [o \in Options |-> r.options[o]], r.options["partition_key"] = None
  PROVE  PublishResponse(p, AsPublishCommand(r))
           = PublisherPublish(p,
               [queue |-> NoName, topic |-> NoName, headers |-> r.headers,
                correlation |-> r.correlation, reply_to |-> NoName,
                options |-> r.options], id)
<1> DEFINE D == ResolvePublishDestination(DefaultQueue(p), DefaultTopic(p))
           C == AsPublishCommand(r)
           H == Merge(p.headers, r.headers)
           O == OptionsOr(r.options, p.options)
           Made == [destination |-> D, headers |-> H, correlation |-> r.correlation,
                    reply_to |-> p.reply_to, options |-> O, timeout |-> "30s"]
<1>1. C.options = r.options
  BY DEF AsPublishCommand, Command, Options, ResponseOptions
<1>2. C = [destination |-> C.destination, headers |-> r.headers,
           correlation |-> r.correlation, reply_to |-> NoName, options |-> r.options,
           timeout |-> "30s"]
  BY <1>1 DEF AsPublishCommand, Command
<1> HIDE DEF C, D
<1>3. PublishResponse(p, C) = Made
  <2> DEFINE X == SetDestination(C, DefaultQueue(p), DefaultTopic(p))
             Y == AddHeaders(X, p.headers)
             Default == p.reply_to
             Z == [Y EXCEPT !.reply_to = Default]
  <2>1. X = [destination |-> D, headers |-> r.headers, correlation |-> r.correlation,
             reply_to |-> NoName, options |-> r.options, timeout |-> "30s"]
    BY <1>2 DEF SetDestination, D
  <2> HIDE DEF X
  <2>2. Y = [X EXCEPT !.headers = H]
    BY <2>1 DEF AddHeaders
  <2> HIDE DEF Y, H
  <2>3. Y = [destination |-> D, headers |-> H, correlation |-> r.correlation,
             reply_to |-> NoName, options |-> r.options, timeout |-> "30s"]
    BY <2>1, <2>2, HeadersSet
  <2>4. NameOr(Y.reply_to, p.reply_to) = Default /\ Y.options = r.options
    BY <2>3 DEF NameOr
  <2>5. PublishResponse(p, C) = [Z EXCEPT !.options = O]
    BY <2>4 DEF PublishResponse, X, Y
  <2>6. Z = [Y EXCEPT !.reply_to = Default]
    OBVIOUS
  <2> HIDE DEF Default, Z
  <2>7. Z = [destination |-> D, headers |-> H, correlation |-> r.correlation,
             reply_to |-> Default, options |-> r.options, timeout |-> "30s"]
    BY <2>3, <2>6, ReplyToSet
  <2> HIDE DEF O
  <2>8. [Z EXCEPT !.options = O]
          = [destination |-> D, headers |-> H, correlation |-> r.correlation,
             reply_to |-> Default, options |-> O, timeout |-> "30s"]
    BY <2>7, OptionsSet
  <2> QED
    BY <2>5, <2>8 DEF Default, H, O
<1>4. PublisherPublish(p,
        [queue |-> NoName, topic |-> NoName, headers |-> r.headers,
         correlation |-> r.correlation, reply_to |-> NoName, options |-> r.options], id)
        = Made
  BY DEF PublisherPublish, Command, NameOr, D
<1> QED
  BY <1>3, <1>4 DEF C

-----------------------------------------------------------------------------
(* Sequences *)

\* An element of Seq(S) is a sequence.
LEMMA SequenceOf == ASSUME NEW S, NEW s \in Seq(S) PROVE IsSequence(s)
<1>1. /\ Len(s) \in Nat /\ s \in [1..Len(s) -> S] /\ DOMAIN s = 1..Len(s)
  BY LenProperties
<1>2. s \in [1..Len(s) -> ToSet(s)]
  BY <1>1 DEF ToSet
<1>3. s \in Seq(ToSet(s))
  BY <1>1, <1>2, SeqDef
<1> QED
  BY <1>3 DEF IsSequence

\* A sequence has a length, and its places are 1 to that length.
LEMMA SequenceHas ==
  ASSUME NEW s, IsSequence(s)
  PROVE  Len(s) \in Nat /\ DOMAIN s = 1..Len(s) /\ (s # <<>> => Len(s) > 0) /\ (s = <<>> => Len(s) = 0)
<1>1. s \in Seq(ToSet(s))
  BY DEF IsSequence
<1> QED
  BY <1>1, LenProperties, EmptySeq

\* list.append: what was there stays, the new element is the last.
LEMMA Appended ==
  ASSUME NEW s, NEW e, NEW t, IsSequence(s), t = Append(s, e)
  PROVE  /\ IsSequence(t) /\ Len(t) = Len(s) + 1 /\ Len(s) \in Nat
         /\ t[Len(s) + 1] = e /\ \A i \in 1..Len(s) : t[i] = s[i]
<1> DEFINE S == ToSet(s) \cup {e}
<1>1. s \in Seq(S) /\ e \in S
  BY SeqMonotonic DEF IsSequence
<1> HIDE DEF S
<1>2. t \in Seq(S)
  BY <1>1, AppendProperties
<1>3. IsSequence(t)
  BY <1>2, SequenceOf
<1>4. Len(t) = Len(s) + 1 /\ Len(s) \in Nat
  BY <1>1, AppendProperties, LenProperties
<1>5. t[Len(s) + 1] = e /\ \A i \in 1..Len(s) : t[i] = s[i]
  BY <1>1, AppendProperties
<1> QED
  BY <1>3, <1>4, <1>5

\* All but the last: the others keep their places.
LEMMA Popped ==
  ASSUME NEW s, NEW t, IsSequence(s), s # <<>>, t = Front(s)
  PROVE  /\ IsSequence(t) /\ Len(t) = Len(s) - 1 /\ Len(s) \in Nat /\ Len(s) > 0
         /\ \A i \in 1..Len(t) : t[i] = s[i]
<1> DEFINE S == ToSet(s)
<1>1. s \in Seq(S)
  BY DEF IsSequence
<1> HIDE DEF S
<1>2. Len(s) \in Nat /\ Len(s) > 0 /\ \A i \in 1..(Len(s) - 1) : s[i] \in S
  BY <1>1, EmptySeq, LenProperties, ElementOfSeq
<1>3. t = SubSeq(s, 1, Len(s) - 1)
  BY DEF Front
<1> DEFINE n == Len(s) - 1
<1>4. n \in Int /\ 1 \in Int /\ \A i \in 1..n : s[i] \in S
  BY <1>2
<1> HIDE DEF n
<1>5. /\ SubSeq(s, 1, n) \in Seq(S) /\ Len(SubSeq(s, 1, n)) = (IF 1 <= n THEN n - 1 + 1 ELSE 0)
      /\ \A i \in 1..(n - 1 + 1) : SubSeq(s, 1, n)[i] = s[1 + i - 1]
  BY <1>4, SubSeqProperties
<1>6. n = Len(s) - 1
  BY DEF n
<1>7. IsSequence(t)
  BY <1>3, <1>5, <1>6, SequenceOf
<1>8. Len(t) = Len(s) - 1 /\ \A i \in 1..Len(t) : t[i] = s[i]
  BY <1>2, <1>3, <1>5, <1>6
<1> QED
  BY <1>2, <1>7, <1>8

\* All but the first: each element moves up by one.
LEMMA Behead ==
  ASSUME NEW s, NEW t, IsSequence(s), s # <<>>, t = Tail(s)
  PROVE  /\ IsSequence(t) /\ Len(t) = Len(s) - 1 /\ Len(s) \in Nat /\ Len(s) > 0
         /\ Head(s) = s[1] /\ \A i \in 1..Len(t) : t[i] = s[i + 1]
<1> DEFINE S == ToSet(s)
<1>1. s \in Seq(S)
  BY DEF IsSequence
<1> HIDE DEF S
<1>2. t \in Seq(S) /\ Len(t) = Len(s) - 1 /\ \A i \in 1..Len(t) : t[i] = s[i + 1]
  BY <1>1, HeadTailProperties
<1>3. Len(s) \in Nat /\ Len(s) > 0
  BY <1>1, EmptySeq
<1>4. IsSequence(t)
  BY <1>2, SequenceOf
<1>5. Head(s) = s[1]
  BY <1>1
<1> QED
  BY <1>2, <1>3, <1>4, <1>5

\* Elements are replaced in place.
LEMMA Changed ==
  ASSUME NEW s, NEW t, IsSequence(s), t = [i \in DOMAIN s |-> t[i]]
  PROVE  IsSequence(t) /\ Len(t) = Len(s) /\ Len(s) \in Nat
<1>1. Len(s) \in Nat /\ DOMAIN s = 1..Len(s)
  BY SequenceHas
<1>2. t \in [1..Len(s) -> ToSet(t)]
  BY <1>1 DEF ToSet
<1>3. t \in Seq(ToSet(t)) /\ Len(t) = Len(s)
  BY <1>1, <1>2, SeqDef
<1> QED
  BY <1>1, <1>3 DEF IsSequence

\* Concatenation: the elements of the first, then those of the second.
LEMMA Joined ==
  ASSUME NEW s, NEW u, NEW t, IsSequence(s), IsSequence(u), t = s \o u
  PROVE  /\ IsSequence(t) /\ Len(t) = Len(s) + Len(u) /\ Len(s) \in Nat /\ Len(u) \in Nat
         /\ \A i \in 1..Len(t) : t[i] = IF i <= Len(s) THEN s[i] ELSE u[i - Len(s)]
<1> DEFINE S == ToSet(s) \cup ToSet(u)
<1>1. s \in Seq(S) /\ u \in Seq(S)
  BY SeqMonotonic DEF IsSequence
<1> HIDE DEF S
<1>2. t \in Seq(S)
  BY <1>1, ConcatProperties
<1>3. IsSequence(t)
  BY <1>2, SequenceOf
<1>4. Len(t) = Len(s) + Len(u) /\ Len(s) \in Nat /\ Len(u) \in Nat
  BY <1>1, ConcatProperties, LenProperties
<1>5. \A i \in 1..Len(t) : t[i] = IF i <= Len(s) THEN s[i] ELSE u[i - Len(s)]
  BY <1>1, <1>4, ConcatProperties
<1> QED
  BY <1>3, <1>4, <1>5

-----------------------------------------------------------------------------
(* What is registered *)

IsDestination(d) ==
  /\ d = [kind |-> d.kind, name |-> d.name, subscription |-> d.subscription]
  /\ d.kind \in {"queue", "subscription"} /\ IsSequence(d.name) /\ IsSequence(d.subscription)
  /\ d.kind = "queue" => d.subscription = NoName
IsPublisher(p) ==
  p.destination.kind \in {"queue", "topic"} /\ IsSequence(p.destination.name) /\ p.destination.name # NoName
IsSubscriber(s) ==
  /\ IsDestination(s.destination) /\ IsSequence(s.publishers)
  /\ \A k \in DOMAIN s.publishers : IsPublisher(s.publishers[k])
  /\ s.policy = "ACK_FIRST" => s.delete
AreSubscribers(subs) == IsSequence(subs) /\ \A i \in DOMAIN subs : IsSubscriber(subs[i])

\* No name is the empty sequence.
LEMMA NoSequence == IsSequence(NoName) /\ DOMAIN NoName = {} /\ NoName = <<>>
BY EmptySeq DEF IsSequence, NoName

\* A router's prefix before a name: a name that was given is still one.
LEMMA Prefixed ==
  ASSUME NEW left, NEW right, NEW whole, IsSequence(left), IsSequence(right), whole = left \o right
  PROVE  IsSequence(whole) /\ (right # <<>> => whole # <<>>)
<1>1. IsSequence(whole) /\ Len(whole) = Len(left) + Len(right) /\ Len(left) \in Nat
  BY Joined
<1>2. right # <<>> => Len(right) \in Nat /\ Len(right) > 0
  BY SequenceHas
<1> QED
  BY <1>1, <1>2, SequenceHas

\* A set of numbers that is not empty has a smallest one.
LEMMA Smallest == ASSUME NEW T \in SUBSET Nat, T # {} PROVE \E x \in T : \A y \in T : x <= y
<1> DEFINE R == OpToRel(<, Nat)
<1>1. \A x, y \in Nat : y < x => <<y, x>> \in R
  BY DEF OpToRel
<1>2. IsWellFoundedOn(R, Nat)
  BY NatLessThanWellFounded
<1> HIDE DEF R
<1>3. PICK x \in T : \A y \in T : ~(<<y, x>> \in R)
  BY <1>2, WFMin
<1>4. ASSUME NEW y \in T, y < x PROVE FALSE
  <2>1. <<y, x>> \in R
    BY <1>1, <1>4
  <2> QED
    BY <1>3, <2>1
<1> QED
  BY <1>4

\* A function of 0..last: its value for 0, and how each value follows from the one before.
Iterates(g, first, next, last) == g[0] = first /\ \A i \in 1..last : g[i] = next[<<i, g[i - 1]>>]

\* A function on 0..last is found by giving its first value and each next one.
LEMMA Recursion ==
  ASSUME NEW Values, NEW first \in Values, NEW last \in Nat,
         NEW next \in [(1..last) \X Values -> Values]
  PROVE  \E g \in [0..last -> Values] : Iterates(g, first, next, last)
<1> DEFINE Solves(g, n) == /\ g \in [0..n -> Values] /\ g[0] = first
                           /\ \A i \in 1..n : g[i] = next[<<i, g[i - 1]>>]
           Bad == {n \in 0..last : ~ \E g : Solves(g, n)}
<1>1. ASSUME Bad # {} PROVE FALSE
  <2>1. PICK n \in Bad : \A k \in Bad : n <= k
    <3>1. Bad \in SUBSET Nat
      OBVIOUS
    <3> HIDE DEF Bad
    <3> QED
      BY <1>1, <3>1, Smallest
  <2>2. n # 0
    <3>1. Solves([i \in 0..0 |-> first], 0)
      OBVIOUS
    <3> QED
      BY <3>1
  <2>3. n - 1 \in 0..last /\ n - 1 \notin Bad /\ n \in 1..last
    BY <2>1, <2>2
  <2>4. PICK g : Solves(g, n - 1)
    BY <2>3
  <2> DEFINE v == next[<<n, g[n - 1]>>]
             h == [i \in 0..n |-> IF i = n THEN v ELSE g[i]]
  <2>5. v \in Values
    BY <2>3, <2>4
  <2>6. h \in [0..n -> Values] /\ h[0] = first
    BY <2>2, <2>3, <2>4, <2>5
  <2>7. ASSUME NEW i \in 1..n PROVE h[i] = next[<<i, h[i - 1]>>]
    <3>1. i - 1 \in 0..(n - 1) /\ i - 1 # n
      BY <2>3
    <3>2. h[i - 1] = g[i - 1]
      BY <3>1
    <3>3. CASE i = n
      <4>1. h[i] = v
        BY <3>3
      <4> QED
        BY <3>2, <3>3, <4>1
    <3>4. CASE i # n
      BY <2>3, <2>4, <3>2, <3>4
    <3> QED
      BY <3>3, <3>4
  <2>8. Solves(h, n)
    BY <2>6, <2>7
  <2> QED
    BY <2>1, <2>8
<1>2. last \notin Bad
  BY <1>1
<1> QED
  BY <1>2 DEF Iterates

\* What create_publisher accepts names a queue or a topic.
LEMMA PublisherMade ==
  ASSUME NEW p, CreatePublisher(p, p.prefix) # SetupError,
         IsSequence(p.queue), IsSequence(p.topic), IsSequence(p.prefix)
  PROVE  IsPublisher(CreatePublisher(p, p.prefix))
<1> DEFINE own == ResolvePublishDestination(p.queue, p.topic)
           made == CreatePublisher(p, p.prefix)
<1>1. own # SetupError
  BY DEF CreatePublisher
<1>2. \/ own = [kind |-> "queue", name |-> p.queue] /\ p.queue # NoName
      \/ own = [kind |-> "topic", name |-> p.topic] /\ p.topic # NoName
  BY <1>1 DEF ResolvePublishDestination
<1>3. made.destination = [own EXCEPT !.name = p.prefix \o own.name]
  BY <1>1 DEF CreatePublisher
<1> DEFINE name == p.prefix \o own.name
<1> HIDE DEF own, made, name
<1>4. /\ made.destination.kind \in {"queue", "topic"}
      /\ made.destination.name = name
  <2>1. made.destination = [own EXCEPT !.name = name]
    BY <1>3 DEF name
  <2> QED
    BY <1>2, <2>1
<1>5. IsSequence(name) /\ name # NoName
  <2>1. IsSequence(own.name) /\ own.name # <<>>
    BY <1>2 DEF NoName
  <2>2. name = p.prefix \o own.name
    BY DEF name
  <2> QED
    BY <2>1, <2>2, Prefixed DEF NoName
<1> QED
  BY <1>4, <1>5 DEF IsPublisher, made

\* What create_subscriber accepts names a queue or a subscription of a topic.
LEMMA SubscriberMade ==
  ASSUME NEW s, NEW outer, CreateSubscriber(s.arguments, outer) # SetupError,
         IsSequence(s.arguments.queue), IsSequence(s.arguments.topic), IsSequence(s.arguments.subscription),
         IsSequence(s.prefix), IsSequence(s.publishers),
         \A k \in DOMAIN s.publishers :
           /\ CreatePublisher(s.publishers[k], s.publishers[k].prefix) # SetupError
           /\ IsSequence(s.publishers[k].queue) /\ IsSequence(s.publishers[k].topic)
           /\ IsSequence(s.publishers[k].prefix)
  PROVE  IsSubscriber(Subscriber(s, outer))
<1> DEFINE a == s.arguments
           made == CreateSubscriber(a, outer)
           d == ResolveDestination(a.queue, a.topic, a.subscription)
           t == Subscriber(s, outer)
<1>1. d # SetupError /\ made.destination = d
  BY DEF CreateSubscriber
<1>2. made.policy = "ACK_FIRST" => made.delete
  BY DEF CreateSubscriber, ReceiveAndDelete
<1>3. t.policy = made.policy /\ t.delete = made.delete /\ t.destination = AddPrefix(d, s.prefix)
  BY <1>1 DEF Subscriber
<1>4. t.publishers = [k \in DOMAIN s.publishers |->
                        CreatePublisher(s.publishers[k], s.publishers[k].prefix)]
  BY DEF Subscriber
<1>5. IsDestination(t.destination)
  <2>1. \/ d = [kind |-> "queue", name |-> a.queue, subscription |-> NoName]
        \/ d = [kind |-> "subscription", name |-> a.topic, subscription |-> a.subscription]
    BY <1>1 DEF ResolveDestination, QueueDestination, SubscriptionDestination
  <2>2. IsSequence(NoName)
    BY NoSequence
  <2> DEFINE name == s.prefix \o d.name
  <2>3. t.destination = [d EXCEPT !.name = name]
    BY <1>3 DEF AddPrefix
  <2>4. IsSequence(name)
    <3> DEFINE own == d.name
               prefix == s.prefix
    <3>1. IsSequence(own) /\ IsSequence(prefix) /\ name = prefix \o own
      BY <2>1
    <3> HIDE DEF own, prefix, name
    <3> QED
      BY <3>1, Prefixed
  <2>5. PICK kind, subscription :
          /\ d = [kind |-> kind, name |-> d.name, subscription |-> subscription]
          /\ kind \in {"queue", "subscription"} /\ IsSequence(subscription)
          /\ kind = "queue" => subscription = NoName
    <3>1. CASE d = [kind |-> "queue", name |-> a.queue, subscription |-> NoName]
      <4>1. d = [kind |-> "queue", name |-> d.name, subscription |-> NoName]
        BY <3>1
      <4> QED
        BY <2>2, <4>1
    <3>2. CASE d = [kind |-> "subscription", name |-> a.topic, subscription |-> a.subscription]
      <4>1. /\ d = [kind |-> "subscription", name |-> d.name, subscription |-> a.subscription]
            /\ "subscription" # "queue"
        BY <3>2
      <4> QED
        BY <4>1
    <3> QED
      BY <2>1, <3>1, <3>2
  <2> HIDE DEF a, d, made, t, name
  <2>6. t.destination = [kind |-> kind, name |-> name, subscription |-> subscription]
    BY <2>3, <2>5
  <2> QED
    BY <2>4, <2>5, <2>6 DEF IsDestination
<1>6. IsSequence(t.publishers) /\ \A k \in DOMAIN t.publishers : IsPublisher(t.publishers[k])
  <2> DEFINE ps == t.publishers
  <2>1. /\ ps = [k \in DOMAIN s.publishers |-> ps[k]]
        /\ \A k \in DOMAIN s.publishers :
             ps[k] = CreatePublisher(s.publishers[k], s.publishers[k].prefix)
    BY <1>4
  <2>2. \A k \in DOMAIN s.publishers : IsPublisher(ps[k])
    <3> TAKE k \in DOMAIN s.publishers
    <3> DEFINE p == s.publishers[k]
    <3>1. /\ CreatePublisher(p, p.prefix) # SetupError
          /\ IsSequence(p.queue) /\ IsSequence(p.topic) /\ IsSequence(p.prefix)
      OBVIOUS
    <3>2. ps[k] = CreatePublisher(p, p.prefix)
      BY <2>1
    <3> HIDE DEF p, ps
    <3> QED
      BY <3>1, <3>2, PublisherMade
  <2> HIDE DEF ps
  <2>3. IsSequence(ps)
    BY <2>1, Changed
  <2> QED
    BY <2>1, <2>2, <2>3 DEF ps
<1> HIDE DEF t, made
<1> QED
  BY <1>2, <1>3, <1>5, <1>6 DEF IsSubscriber, t

\* The subscriber made for a publisher that nobody serves.
FakeOf(p, outer) ==
  LET queue == p.destination.kind = "queue"
      arguments == [queue |-> IF queue THEN p.destination.name ELSE NoName,
                    topic |-> IF queue THEN NoName ELSE p.destination.name,
                    subscription |-> IF queue THEN NoName ELSE <<"__test__">>,
                    prefetch |-> 1, workers |-> 1, renewal |-> "300s", policy |-> EMPTY]
  IN  Subscriber([arguments |-> arguments, prefix |-> NoName,
                  no_reply |-> FALSE, publishers |-> <<>>], outer)

\* create_publisher_fake_subscriber makes a subscriber, and none that there is
\* is changed by it.
LEMMA FakeMade ==
  ASSUME NEW p, IsPublisher(p), NEW outer
  PROVE  /\ IsSubscriber(FakeOf(p, outer))
         /\ \A subs : WithFake(subs, p, outer) \in {subs, Append(subs, FakeOf(p, outer))}
<1>1. \A subs : WithFake(subs, p, outer) \in {subs, Append(subs, FakeOf(p, outer))}
  BY DEF WithFake, FakeOf
<1> DEFINE queue == p.destination.kind = "queue"
           a == [queue |-> IF queue THEN p.destination.name ELSE NoName,
                 topic |-> IF queue THEN NoName ELSE p.destination.name,
                 subscription |-> IF queue THEN NoName ELSE <<"__test__">>,
                 prefetch |-> 1, workers |-> 1, renewal |-> "300s", policy |-> EMPTY]
           s == [arguments |-> a, prefix |-> NoName, no_reply |-> FALSE, publishers |-> <<>>]
<1>2. IsSequence(NoName) /\ IsSequence(<<"__test__">>) /\ <<"__test__">> # NoName
  <2>1. \A e : <<e>> \in Seq({e}) /\ Len(<<e>>) = 1
    OBVIOUS
  <2>2. \A e : IsSequence(<<e>>) /\ <<e>> # <<>>
    BY <2>1, SequenceOf, EmptySeq
  <2> QED
    BY <2>2, NoSequence
<1>3. CreateSubscriber(a, outer) # SetupError
  <2>1. ResolveDestination(a.queue, a.topic, a.subscription) # SetupError
    <3>1. p.destination.name # NoName
      BY DEF IsPublisher
    <3> QED
      BY <1>2, <3>1 DEF ResolveDestination, QueueDestination, SubscriptionDestination, SetupError
  <2>2. ~Misconfigured(a)
    BY DEF Misconfigured, EMPTY
  <2>3. CreateSubscriber(a, outer).prefetch = 1
    BY <2>1, <2>2 DEF CreateSubscriber
  <2> QED
    BY <2>1, <2>2 DEF CreateSubscriber, SetupError
<1>4. IsSequence(a.queue) /\ IsSequence(a.topic) /\ IsSequence(a.subscription)
  BY <1>2 DEF IsPublisher
<1>5. /\ s.arguments = a /\ IsSequence(s.prefix) /\ IsSequence(s.publishers)
      /\ DOMAIN s.publishers = {}
  <2>1. s.arguments = a /\ s.prefix = NoName /\ s.publishers = <<>>
    OBVIOUS
  <2> QED
    BY <2>1, NoSequence
<1>6. FakeOf(p, outer) = Subscriber(s, outer)
  BY DEF FakeOf
<1> HIDE DEF a, s
<1>7. IsSubscriber(Subscriber(s, outer))
  BY <1>3, <1>4, <1>5, SubscriberMade
<1> QED
  BY <1>1, <1>6, <1>7

\* The publishers of all subscribers.
LEMMA PublishersAre ==
  ASSUME NEW subs, AreSubscribers(subs)
  PROVE  /\ IsSequence(Publishers(subs))
         /\ \A k \in DOMAIN Publishers(subs) : IsPublisher(Publishers(subs)[k])
<1> DEFINE ss == [i \in DOMAIN subs |-> subs[i].publishers]
           S == UNION {ToSet(ss[i]) : i \in DOMAIN subs}
           N == Len(subs)
           D(g) == [i \in 1..Len(ss) |-> IF i = 1 THEN ss[i] ELSE g[i - 1] \o ss[i]]
           f == CHOOSE g : g = D(g)
<1>1. /\ N \in Nat /\ DOMAIN subs = 1..N
      /\ \A i \in 1..N : IsSequence(subs[i].publishers)
      /\ \A i \in 1..N : \A k \in DOMAIN subs[i].publishers : IsPublisher(subs[i].publishers[k])
  BY SequenceHas DEF AreSubscribers, IsSubscriber
<1>2. /\ Len(ss) = N /\ IsSequence(ss) /\ \A i \in 1..N : ss[i] = subs[i].publishers
  <2>1. ss = [i \in DOMAIN subs |-> ss[i]] /\ IsSequence(subs)
    BY DEF AreSubscribers
  <2>2. \A i \in 1..N : ss[i] = subs[i].publishers
    BY <1>1
  <2> HIDE DEF ss
  <2> QED
    BY <2>1, <2>2, Changed
<1>3. Publishers(subs) = IF Len(ss) = 0 THEN ss ELSE f[Len(ss)]
  BY DEF Publishers, FlattenSeq
<1> HIDE DEF ss
<1>4. \A i \in 1..N : ss[i] \in Seq(S)
  <2> TAKE i \in 1..N
  <2>1. ss[i] \in Seq(ToSet(ss[i])) /\ ToSet(ss[i]) \subseteq S
    BY <1>1, <1>2 DEF IsSequence
  <2> HIDE DEF S
  <2> QED
    BY <2>1, SeqMonotonic
<1>5. \A p \in S : IsPublisher(p)
  BY <1>1, <1>2 DEF ToSet
<1> HIDE DEF S
<1>6. CASE N = 0
  <2>1. ss = <<>>
    BY <1>2, <1>6, SequenceHas
  <2>2. Publishers(subs) = <<>> /\ DOMAIN <<>> = {} /\ IsSequence(<<>>)
    BY <1>2, <1>3, <1>6, <2>1, EmptySeq DEF IsSequence
  <2> QED
    BY <2>2
<1>7. CASE N # 0
  <2> DEFINE V == Seq(S)
             step == [x \in (1..N) \X V |-> x[2] \o ss[x[1]]]
             none == <<>>
  <2> HIDE DEF V, none
  <2>1. step \in [(1..N) \X V -> V]
    BY <1>4, ConcatProperties DEF V
  <2>2. none \in V
    BY EmptySeq DEF V, none
  <2>3. PICK g \in [0..N -> V] : Iterates(g, none, step, N)
    <3> HIDE DEF step, N, none
    <3>1. N \in Nat
      BY <1>1
    <3> QED
      BY <2>1, <2>2, <3>1, Recursion
  <2>4. ASSUME NEW i \in 1..N
        PROVE  i - 1 \in 0..N /\ g[i - 1] \in V /\ g[i] = g[i - 1] \o ss[i]
    <3>1. i - 1 \in 0..N /\ g[i - 1] \in V
      BY <1>1
    <3>2. \A v \in V : step[<<i, v>>] = v \o ss[i]
      OBVIOUS
    <3> HIDE DEF step
    <3> QED
      BY <2>3, <3>1, <3>2 DEF Iterates
  <2>5. g[1] = ss[1]
    <3>1. ss[1] \in Seq(S) /\ 1 \in 1..N
      BY <1>1, <1>4, <1>7
    <3>2. <<>> \o ss[1] = ss[1]
      BY <3>1, ConcatEmptySeq
    <3>3. 1 - 1 = 0
      OBVIOUS
    <3>4. g[1] = g[1 - 1] \o ss[1]
      BY <2>4, <3>1
    <3> QED
      BY <2>3, <3>2, <3>3, <3>4 DEF Iterates, none
  <2> DEFINE h == [i \in 1..N |-> g[i]]
  <2>6. h = D(h)
    <3>1. ASSUME NEW i \in 1..N PROVE h[i] = IF i = 1 THEN ss[i] ELSE h[i - 1] \o ss[i]
      <4>1. CASE i = 1
        BY <2>5, <4>1
      <4>2. CASE i # 1
        <5>1. h[i] = g[i] /\ h[i - 1] = g[i - 1]
          BY <1>1, <4>2
        <5> QED
          BY <2>4, <4>2, <5>1
      <4> QED
        BY <4>1, <4>2
    <3> QED
      BY <1>2, <3>1
  <2>7. f = D(f)
    BY <2>6
  <2> HIDE DEF f
  <2>8. \A i \in 1..N : f[i] = IF i = 1 THEN ss[i] ELSE f[i - 1] \o ss[i]
    BY <1>2, <2>7
  <2> DEFINE Bad == {i \in 1..N : f[i] \notin V}
  <2>9. ASSUME Bad # {} PROVE FALSE
    <3>1. PICK i \in Bad : \A k \in Bad : i <= k
      <4>1. Bad \in SUBSET Nat
        OBVIOUS
      <4> HIDE DEF Bad
      <4> QED
        BY <2>9, <4>1, Smallest
    <3>2. i # 1
      BY <1>4, <2>8 DEF V
    <3>3. i - 1 \in 1..N /\ i - 1 \notin Bad
      BY <1>1, <3>1, <3>2
    <3>4. f[i - 1] \in Seq(S) /\ ss[i] \in Seq(S) /\ f[i] = f[i - 1] \o ss[i]
      BY <1>4, <2>8, <3>1, <3>2, <3>3 DEF V
    <3>5. f[i] \in V
      BY <3>4, ConcatProperties DEF V
    <3> QED
      BY <3>1, <3>5
  <2>10. f[N] \in Seq(S) /\ Publishers(subs) = f[N]
    BY <1>1, <1>2, <1>3, <1>7, <2>9 DEF V
  <2> QED
    BY <1>5, <2>10, SequenceOf, LenProperties, ElementOfSeq
<1> QED
  BY <1>6, <1>7

\* All the fake subscribers of an application's publishers are subscribers.
LEMMA FakesMade ==
  ASSUME NEW own, AreSubscribers(own), NEW outer
  PROVE  AreSubscribers(WithFakes(own, outer))
<1> DEFINE ps == Publishers(own)
           N == Len(ps)
           S == ToSet(own) \cup {FakeOf(ps[k], outer) : k \in 1..N}
           V == Seq(S)
           D(g) == [k \in 0..Len(ps) |-> IF k = 0 THEN own ELSE WithFake(g[k - 1], ps[k], outer)]
           f == CHOOSE g : g = D(g)
           step == [x \in (1..N) \X V |-> WithFake(x[2], ps[x[1]], outer)]
<1>1. WithFakes(own, outer) = f[Len(ps)]
  BY DEF WithFakes
<1>2. N \in Nat /\ DOMAIN ps = 1..N /\ \A k \in 1..N : IsPublisher(ps[k])
  BY PublishersAre, SequenceHas
<1> HIDE DEF ps
<1>3. \A k \in 1..N :
        /\ IsSubscriber(FakeOf(ps[k], outer)) /\ FakeOf(ps[k], outer) \in S
        /\ \A subs : WithFake(subs, ps[k], outer) \in {subs, Append(subs, FakeOf(ps[k], outer))}
  BY <1>2, FakeMade
<1>4. own \in Seq(S)
  <2>1. own \in Seq(ToSet(own)) /\ ToSet(own) \subseteq S
    BY DEF AreSubscribers, IsSequence
  <2> HIDE DEF S
  <2> QED
    BY <2>1, SeqMonotonic
<1>5. \A s \in S : IsSubscriber(s)
  BY <1>3 DEF AreSubscribers, ToSet
<1> HIDE DEF S
<1>6. ASSUME NEW k \in 1..N, NEW v \in V PROVE WithFake(v, ps[k], outer) \in V
  <2>1. v \in Seq(S) /\ FakeOf(ps[k], outer) \in S
    BY <1>3
  <2>2. WithFake(v, ps[k], outer) \in {v, Append(v, FakeOf(ps[k], outer))}
    BY <1>3
  <2> QED
    BY <2>1, <2>2, AppendProperties
<1> HIDE DEF V
<1>7. step \in [(1..N) \X V -> V]
  BY <1>6
<1>8. PICK g \in [0..N -> V] : Iterates(g, own, step, N)
  <2>1. own \in V
    BY <1>4 DEF V
  <2> HIDE DEF step, N
  <2> QED
    BY <1>2, <1>7, <2>1, Recursion
<1>9. ASSUME NEW k \in 1..N
      PROVE  k - 1 \in 0..N /\ g[k - 1] \in V /\ g[k] = WithFake(g[k - 1], ps[k], outer)
  <2>1. k - 1 \in 0..N /\ g[k - 1] \in V
    BY <1>2
  <2>2. \A v \in V : step[<<k, v>>] = WithFake(v, ps[k], outer)
    OBVIOUS
  <2> HIDE DEF step
  <2> QED
    BY <1>8, <2>1, <2>2 DEF Iterates
<1>10. g = D(g)
  <2>1. \A k \in 0..N : g[k] = IF k = 0 THEN own ELSE WithFake(g[k - 1], ps[k], outer)
    BY <1>2, <1>8, <1>9 DEF Iterates
  <2>2. g = [k \in 0..N |-> g[k]]
    BY <1>8
  <2> QED
    BY <2>1, <2>2
<1>11. f = D(f)
  BY <1>10
<1> HIDE DEF f
<1>12. \A k \in 0..N : f[k] = IF k = 0 THEN own ELSE WithFake(f[k - 1], ps[k], outer)
  BY <1>11
<1> DEFINE Bad == {k \in 0..N : f[k] \notin V}
<1>13. ASSUME Bad # {} PROVE FALSE
  <2>1. PICK k \in Bad : \A i \in Bad : k <= i
    <3>1. Bad \in SUBSET Nat
      BY <1>2
    <3> HIDE DEF Bad
    <3> QED
      BY <1>13, <3>1, Smallest
  <2>2. k # 0
    BY <1>4, <1>12 DEF V
  <2>3. k - 1 \in 0..N /\ k - 1 \notin Bad /\ k \in 1..N
    BY <1>2, <2>1, <2>2
  <2>4. f[k - 1] \in V /\ f[k] = WithFake(f[k - 1], ps[k], outer)
    BY <1>12, <2>2, <2>3
  <2> QED
    BY <1>6, <2>1, <2>3, <2>4
<1>14. f[N] \in Seq(S)
  BY <1>2, <1>13 DEF V
<1> QED
  BY <1>1, <1>5, <1>14, SequenceOf, LenProperties, ElementOfSeq DEF AreSubscribers

\* A test starts with subscribers that are well registered.
LEMMA InitSubscribers == Init => AreSubscribers(subscribers)
<1> SUFFICES ASSUME Init PROVE AreSubscribers(subscribers)
  OBVIOUS
<1> DEFINE own == Registered(app)
<1>1. app \in Applications /\ subscribers = WithFakes(own, app.outer)
  BY DEF Init
<1>2. /\ IsSequence(app.subscribers)
      /\ own = [i \in DOMAIN app.subscribers |-> own[i]]
      /\ \A i \in DOMAIN app.subscribers : own[i] = Subscriber(app.subscribers[i], app.outer)
  BY <1>1, ApplicationsAssumption DEF Registered
<1>3. \A i \in DOMAIN app.subscribers : IsSubscriber(own[i])
  <2> TAKE i \in DOMAIN app.subscribers
  <2> DEFINE s == app.subscribers[i]
  <2>1. /\ CreateSubscriber(s.arguments, app.outer) # SetupError
        /\ IsSequence(s.arguments.queue) /\ IsSequence(s.arguments.topic)
        /\ IsSequence(s.arguments.subscription) /\ IsSequence(s.prefix) /\ IsSequence(s.publishers)
        /\ \A k \in DOMAIN s.publishers :
             /\ CreatePublisher(s.publishers[k], s.publishers[k].prefix) # SetupError
             /\ IsSequence(s.publishers[k].queue) /\ IsSequence(s.publishers[k].topic)
             /\ IsSequence(s.publishers[k].prefix)
    BY <1>1, ApplicationsAssumption
  <2>2. own[i] = Subscriber(s, app.outer)
    BY <1>2
  <2> HIDE DEF s, own
  <2> QED
    BY <2>1, <2>2, SubscriberMade
<1> HIDE DEF own
<1>4. IsSequence(own)
  BY <1>2, Changed
<1>5. AreSubscribers(own)
  BY <1>2, <1>3, <1>4 DEF AreSubscribers
<1> QED
  BY <1>1, <1>5, FakesMade

-----------------------------------------------------------------------------
(* Calls, messages and deliveries *)

\* The calls that a test may have open, over the messages ms, the deliveries ds and
\* the subscribers ss, which are sets of places.
IsPublish(f, ms, ds, ss) ==
  /\ f.op = "publish"
  /\ f = [op |-> "publish", cmd |-> f.cmd, left |-> f.left, message |-> f.message,
          targets |-> f.targets, by |-> f.by]
  /\ f.left \in Nat /\ f.message \in {0} \cup ms /\ f.targets \subseteq ss
  /\ f.message = 0 => f.targets = {}
  /\ f.by \in {Code} \cup ds
IsRequest(f, ms) ==
  /\ f.op = "request"
  /\ f = [op |-> "request", message |-> f.message, timeout |-> f.timeout, answer |-> f.answer]
  /\ f.message \in ms
IsHandling(f, ds) ==
  /\ f.op = "handle"
  /\ f = [op |-> "handle", delivery |-> f.delivery, message |-> f.message,
          subscriber |-> f.subscriber, stage |-> f.stage, replies |-> f.replies,
          answer |-> f.answer]
  /\ f.delivery \in ds /\ f.stage \in {"running", "returned"} /\ IsSequence(f.replies)
IsCall(f, ms, ds, ss) == IsPublish(f, ms, ds, ss) \/ IsRequest(f, ms) \/ IsHandling(f, ds)

IsMessage(r) ==
  r = [raw |-> r.raw, destination |-> r.destination, by |-> r.by, routed |-> r.routed,
       settled |-> r.settled, answer |-> r.answer]
IsDelivery(r) == r = [message |-> r.message, subscriber |-> r.subscriber, ended |-> r.ended]

\* The n-th call of st handles the message of the producer's call below it.
IsNested(n, st, ds) ==
  /\ n > 1 /\ st[n - 1].op # "handle" /\ st[n - 1].message = st[n].message
  /\ ds[st[n].delivery].message = st[n].message
  /\ ds[st[n].delivery].subscriber = st[n].subscriber

\* Messages, deliveries and open calls have the parts they were made with, and each
\* handler's call is open above the call that delivers to it.
ShapeInv ==
  /\ app \in Applications /\ AreSubscribers(subscribers)
  /\ IsSequence(sent) /\ IsSequence(deliveries) /\ IsSequence(stack)
  /\ \A m \in DOMAIN sent :
       /\ IsMessage(sent[m]) /\ sent[m].by \in {Code} \cup DOMAIN deliveries
       /\ sent[m].raw.correlation # NoName
  /\ \A d \in DOMAIN deliveries :
       /\ IsDelivery(deliveries[d])
       /\ deliveries[d].message \in DOMAIN sent
       /\ deliveries[d].subscriber \in DOMAIN subscribers
  /\ \A n \in DOMAIN stack :
       /\ IsCall(stack[n], DOMAIN sent, DOMAIN deliveries, DOMAIN subscribers)
       /\ stack[n].op = "handle" => IsNested(n, stack, deliveries)
  /\ exception \in -1..Len(stack) /\ (stack = <<>> => exception = 0)

\* The innermost call is the last of the stack.
LEMMA TopIs ==
  ASSUME ShapeInv, stack # <<>>
  PROVE  /\ Len(stack) \in Nat /\ Len(stack) > 0 /\ DOMAIN stack = 1..Len(stack)
         /\ Top = stack[Len(stack)] /\ Len(stack) \in DOMAIN stack
<1>1. IsSequence(stack)
  BY DEF ShapeInv
<1>2. Len(stack) \in Nat /\ DOMAIN stack = 1..Len(stack) /\ Len(stack) > 0
  BY <1>1, SequenceHas
<1> QED
  BY <1>2 DEF Top, Last

\* The innermost call, of each kind.
LEMMA TopCall ==
  ASSUME ShapeInv, stack # <<>>
  PROVE  /\ Top.op = "publish" =>
              IsPublish(Top, DOMAIN sent, DOMAIN deliveries, DOMAIN subscribers)
         /\ Top.op = "request" => IsRequest(Top, DOMAIN sent)
         /\ Top.op = "handle" =>
              IsHandling(Top, DOMAIN deliveries) /\ IsNested(Len(stack), stack, deliveries)
         /\ Top.op \in {"publish", "request", "handle"}
<1>1. IsCall(Top, DOMAIN sent, DOMAIN deliveries, DOMAIN subscribers)
  BY TopIs DEF ShapeInv
<1>2. Top.op = "handle" => IsNested(Len(stack), stack, deliveries)
  BY TopIs DEF ShapeInv
<1> QED
  BY <1>1, <1>2 DEF IsCall, IsPublish, IsRequest, IsHandling

\* The message, delivery and subscriber of a handler's call.
LEMMA TopHandles ==
  ASSUME ShapeInv, stack # <<>>, Top.op = "handle"
  PROVE  /\ Top.delivery \in DOMAIN deliveries /\ Top.message \in DOMAIN sent
         /\ Top.subscriber \in DOMAIN subscribers /\ Len(stack) > 1
         /\ deliveries[Top.delivery].message = Top.message
         /\ deliveries[Top.delivery].subscriber = Top.subscriber
         /\ stack[Len(stack) - 1].op # "handle"
         /\ stack[Len(stack) - 1].message = Top.message
<1> DEFINE d == Top.delivery
           e == deliveries[d]
<1>1. d \in DOMAIN deliveries
  BY TopCall DEF IsHandling
<1>2. /\ Len(stack) > 1 /\ stack[Len(stack) - 1].op # "handle"
      /\ stack[Len(stack) - 1].message = Top.message
      /\ e.message = Top.message /\ e.subscriber = Top.subscriber
  BY TopCall, TopIs DEF IsNested
<1>3. e.message \in DOMAIN sent /\ e.subscriber \in DOMAIN subscribers
  BY <1>1 DEF ShapeInv
<1> QED
  BY <1>1, <1>2, <1>3

-----------------------------------------------------------------------------
(* What a step does to the stack: its first k calls stay *)

Keeps(k) ==
  /\ k \in 0..Len(stack) /\ IsSequence(stack') /\ k <= Len(stack')
  /\ \A i \in 1..k : stack'[i] = stack[i]

\* A call is made: those that were open stay.
LEMMA Pushes ==
  ASSUME ShapeInv, NEW f, stack' = Append(stack, f)
  PROVE  Keeps(Len(stack)) /\ Len(stack') = Len(stack) + 1 /\ stack'[Len(stack) + 1] = f
<1>1. IsSequence(stack)
  BY DEF ShapeInv
<1>2. IsSequence(stack') /\ Len(stack') = Len(stack) + 1 /\ Len(stack) \in Nat
  BY <1>1, Appended
<1>3. stack'[Len(stack) + 1] = f
  BY <1>1, Appended
<1>4. \A i \in 1..Len(stack) : stack'[i] = stack[i]
  BY <1>1, Appended
<1> QED
  BY <1>2, <1>3, <1>4 DEF Keeps

\* The innermost call goes on: the others keep their places.
LEMMA Puts ==
  ASSUME ShapeInv, stack # <<>>, NEW g, NEW st, st = Replaced(g)
  PROVE  /\ IsSequence(st) /\ Len(st) = Len(stack) /\ st[Len(stack)] = g
         /\ \A i \in 1..(Len(stack) - 1) : st[i] = stack[i]
<1> DEFINE n == Len(stack)
<1>1. IsSequence(stack) /\ n \in Nat /\ n > 0 /\ DOMAIN stack = 1..n
  BY TopIs DEF ShapeInv
<1>2. st = [stack EXCEPT ![n] = g]
  BY DEF Replaced
<1> HIDE DEF n
<1>3. st = [k \in DOMAIN stack |-> st[k]]
  BY <1>2
<1>4. IsSequence(st) /\ Len(st) = Len(stack)
  BY <1>1, <1>3, Changed
<1>5. st[n] = g /\ \A i \in 1..(n - 1) : st[i] = stack[i]
  BY <1>1, <1>2
<1> QED
  BY <1>4, <1>5 DEF n

\* The innermost call goes on.
LEMMA PutsOne ==
  ASSUME ShapeInv, stack # <<>>, NEW g, stack' = Replaced(g)
  PROVE  /\ Keeps(Len(stack) - 1) /\ Len(stack') = Len(stack) /\ stack'[Len(stack)] = g
<1>1. IsSequence(stack') /\ Len(stack') = Len(stack) /\ stack'[Len(stack)] = g
  BY Puts
<1>2. \A i \in 1..(Len(stack) - 1) : stack'[i] = stack[i]
  BY Puts
<1>3. Len(stack) \in Nat /\ Len(stack) > 0
  BY TopIs
<1> QED
  BY <1>1, <1>2, <1>3 DEF Keeps

\* The innermost call goes on, with a call of its own.
LEMMA PutsAndPushes ==
  ASSUME ShapeInv, stack # <<>>, NEW g, NEW h, stack' = Append(Replaced(g), h)
  PROVE  /\ Keeps(Len(stack) - 1) /\ Len(stack') = Len(stack) + 1
         /\ stack'[Len(stack)] = g /\ stack'[Len(stack) + 1] = h
<1> DEFINE st == Replaced(g)
<1>1. IsSequence(st) /\ Len(st) = Len(stack) /\ st[Len(stack)] = g
  BY Puts
<1>2. \A i \in 1..(Len(stack) - 1) : st[i] = stack[i]
  BY Puts
<1>3. Len(stack) \in Nat /\ Len(stack) > 0
  BY TopIs
<1> HIDE DEF st
<1>4. stack' = Append(st, h)
  BY DEF st
<1>5. IsSequence(stack') /\ Len(stack') = Len(st) + 1
  BY <1>1, <1>4, Appended
<1>6. stack'[Len(st) + 1] = h
  BY <1>1, <1>4, Appended
<1>7. \A i \in 1..Len(st) : stack'[i] = st[i]
  BY <1>1, <1>4, Appended
<1> QED
  BY <1>1, <1>2, <1>3, <1>5, <1>6, <1>7 DEF Keeps

\* The innermost call returns: the others stay.
LEMMA Pops ==
  ASSUME ShapeInv, stack # <<>>, stack' = Front(stack)
  PROVE  Keeps(Len(stack) - 1) /\ Len(stack') = Len(stack) - 1
<1>1. IsSequence(stack)
  BY DEF ShapeInv
<1>2. IsSequence(stack') /\ Len(stack') = Len(stack) - 1 /\ Len(stack) \in Nat /\ Len(stack) > 0
  BY <1>1, Popped
<1>3. \A i \in 1..Len(stack') : stack'[i] = stack[i]
  BY <1>1, Popped
<1> QED
  BY <1>2, <1>3 DEF Keeps

-----------------------------------------------------------------------------
(* What a step does to messages and deliveries *)

\* None is forgotten, nor where it came from and went to.
Grows ==
  /\ UNCHANGED <<app, subscribers>>
  /\ IsSequence(sent') /\ DOMAIN sent \subseteq DOMAIN sent'
  /\ IsSequence(deliveries') /\ DOMAIN deliveries \subseteq DOMAIN deliveries'
  /\ \A m \in DOMAIN sent :
       /\ IsMessage(sent'[m]) /\ sent'[m].raw = sent[m].raw /\ sent'[m].by = sent[m].by
       /\ sent'[m].destination = sent[m].destination
  /\ \A d \in DOMAIN deliveries :
       /\ IsDelivery(deliveries'[d])
       /\ deliveries'[d].message = deliveries[d].message
       /\ deliveries'[d].subscriber = deliveries[d].subscriber

\* Apart from fields that RouteInv and DoneInv follow.
SameAnswers == \A m \in DOMAIN sent : sent'[m].answer = sent[m].answer
SameRoutes == \A m \in DOMAIN sent : sent'[m].routed = sent[m].routed
SameSettled == \A m \in DOMAIN sent : sent'[m].settled = sent[m].settled
SameEnds == \A d \in DOMAIN deliveries : deliveries'[d].ended = deliveries[d].ended

\* A message with one field changed.
LEMMA MessageChanged ==
  ASSUME NEW r, IsMessage(r), NEW how, NEW a, NEW v
  PROVE  /\ [r EXCEPT !.routed = how] =
              [raw |-> r.raw, destination |-> r.destination, by |-> r.by, routed |-> how,
               settled |-> r.settled, answer |-> r.answer]
         /\ [r EXCEPT !.answer = a] =
              [raw |-> r.raw, destination |-> r.destination, by |-> r.by, routed |-> r.routed,
               settled |-> r.settled, answer |-> a]
         /\ [r EXCEPT !.settled = v] =
              [raw |-> r.raw, destination |-> r.destination, by |-> r.by, routed |-> r.routed,
               settled |-> v, answer |-> r.answer]
BY DEF IsMessage

\* Routed(how), before a message is added to it.
LEMMA Marked ==
  ASSUME ShapeInv, NEW how, Top.message \in {0} \cup DOMAIN sent, NEW R, R = Routed(how)
  PROVE  /\ IsSequence(R) /\ Len(R) = Len(sent) /\ DOMAIN R = DOMAIN sent
         /\ \A k \in DOMAIN sent :
              /\ IsMessage(R[k]) /\ R[k].raw = sent[k].raw /\ R[k].by = sent[k].by
              /\ R[k].destination = sent[k].destination
         /\ \A k \in DOMAIN sent :
              /\ R[k].settled = sent[k].settled /\ R[k].answer = sent[k].answer
              /\ R[k].routed = IF k = Top.message THEN how ELSE sent[k].routed
<1> DEFINE m == Top.message
           r == sent[m]
           e == [r EXCEPT !.routed = how]
<1>1. m \in {0} \cup DOMAIN sent /\ R = IF m = 0 THEN sent ELSE [sent EXCEPT ![m] = e]
  BY DEF Routed
<1>2. IsSequence(sent) /\ DOMAIN sent = 1..Len(sent) /\ \A k \in DOMAIN sent : IsMessage(sent[k])
  BY SequenceHas DEF ShapeInv
<1>3. CASE m = 0
  <2>1. R = sent /\ \A k \in DOMAIN sent : k # Top.message
    BY <1>1, <1>2, <1>3
  <2> QED
    BY <1>2, <2>1
<1>4. CASE m # 0
  <2>1. m \in DOMAIN sent /\ R = [sent EXCEPT ![m] = e]
    BY <1>1, <1>4
  <2>2. e = [raw |-> r.raw, destination |-> r.destination, by |-> r.by, routed |-> how,
             settled |-> r.settled, answer |-> r.answer]
    BY <1>2, <2>1, MessageChanged
  <2> HIDE DEF e, m
  <2>3. /\ IsMessage(e) /\ e.raw = sent[m].raw /\ e.by = sent[m].by
        /\ e.destination = sent[m].destination
        /\ e.settled = sent[m].settled /\ e.answer = sent[m].answer /\ e.routed = how
    BY <2>2 DEF IsMessage
  <2>4. IsSequence(R) /\ Len(R) = Len(sent) /\ DOMAIN R = DOMAIN sent
    <3>1. R = [k \in DOMAIN sent |-> R[k]]
      BY <2>1
    <3>2. IsSequence(R) /\ Len(R) = Len(sent)
      BY <1>2, <3>1, Changed
    <3> QED
      BY <3>1, <3>2
  <2>5. \A k \in DOMAIN sent :
          /\ IsMessage(R[k]) /\ R[k].raw = sent[k].raw /\ R[k].by = sent[k].by
          /\ R[k].destination = sent[k].destination
    BY <1>2, <2>1, <2>3
  <2>6. R[m] = e /\ \A k \in DOMAIN sent : k # m => R[k] = sent[k]
    BY <2>1
  <2>7. \A k \in DOMAIN sent :
              /\ R[k].settled = sent[k].settled /\ R[k].answer = sent[k].answer
              /\ R[k].routed = IF k = m THEN how ELSE sent[k].routed
    BY <2>3, <2>6
  <2> QED
    BY <2>4, <2>5, <2>7 DEF m
<1> QED
  BY <1>3, <1>4

\* A message is added after those of old, which may have been marked.
LEMMA MessageAdded ==
  ASSUME ShapeInv, NEW old, IsSequence(old), Len(old) = Len(sent),
         \A k \in DOMAIN sent :
           /\ IsMessage(old[k]) /\ old[k].raw = sent[k].raw /\ old[k].by = sent[k].by
           /\ old[k].destination = sent[k].destination,
         NEW r, sent' = Append(old, r)
  PROVE  /\ IsSequence(sent') /\ Len(sent') = Len(sent) + 1 /\ sent'[Len(sent) + 1] = r
         /\ \A k \in DOMAIN sent :
              /\ IsMessage(sent'[k]) /\ sent'[k].raw = sent[k].raw /\ sent'[k].by = sent[k].by
              /\ sent'[k].destination = sent[k].destination
         /\ \A k \in DOMAIN sent : sent'[k] = old[k]
         /\ DOMAIN sent \subseteq DOMAIN sent' /\ Len(sent) \in Nat
         /\ \A k \in DOMAIN sent' : k \in DOMAIN sent \/ k = Len(sent) + 1
<1>1. Len(sent) \in Nat /\ DOMAIN sent = 1..Len(sent)
  BY SequenceHas DEF ShapeInv
<1>2. IsSequence(sent') /\ Len(sent') = Len(old) + 1
  BY Appended
<1>3. sent'[Len(old) + 1] = r
  BY Appended
<1>4. \A k \in 1..Len(old) : sent'[k] = old[k]
  BY Appended
<1>5. DOMAIN sent' = 1..(Len(sent) + 1)
  BY <1>2, SequenceHas
<1> QED
  BY <1>1, <1>2, <1>3, <1>4, <1>5

\* build_message: a message with the command's destination and correlation id,
\* or one made up when it has none, which nothing has settled or routed.
LEMMA MadeMessage ==
  ASSUME NEW cmd, NEW by
  PROVE  LET r == Message(cmd, by) IN
         /\ IsMessage(r) /\ r.destination = cmd.destination /\ r.by = by
         /\ r.routed = "no" /\ r.settled = {} /\ r.answer = NoName
         /\ r.raw.correlation = NameOr(cmd.correlation, <<"generated", Len(sent) + 1>>)
BY DEF Message, IsMessage, BuildMessage

\* A handler's call begins.
LEMMA DeliveryAdded ==
  ASSUME ShapeInv, NEW m, NEW s, deliveries' = Delivered(m, s)
  PROVE  LET d == Len(deliveries) + 1 IN
         /\ IsSequence(deliveries') /\ Len(deliveries') = d /\ IsDelivery(deliveries'[d])
         /\ deliveries'[d].message = m /\ deliveries'[d].subscriber = s
         /\ deliveries'[d].ended = "no"
         /\ \A k \in DOMAIN deliveries : deliveries'[k] = deliveries[k]
         /\ DOMAIN deliveries \subseteq DOMAIN deliveries' /\ d \in DOMAIN deliveries'
         /\ \A k \in DOMAIN deliveries' : k \in DOMAIN deliveries \/ k = d
         /\ d \notin DOMAIN deliveries
<1> DEFINE e == [message |-> m, subscriber |-> s, ended |-> "no"]
<1>1. IsSequence(deliveries) /\ Len(deliveries) \in Nat /\ DOMAIN deliveries = 1..Len(deliveries)
  BY SequenceHas DEF ShapeInv
<1>2. deliveries' = Append(deliveries, e)
  BY DEF Delivered
<1>3. e.message = m /\ e.subscriber = s /\ e.ended = "no" /\ IsDelivery(e)
  BY DEF IsDelivery
<1> HIDE DEF e
<1>4. IsSequence(deliveries') /\ Len(deliveries') = Len(deliveries) + 1
  BY <1>1, <1>2, Appended
<1>5. deliveries'[Len(deliveries) + 1] = e
  BY <1>1, <1>2, Appended
<1>6. \A k \in 1..Len(deliveries) : deliveries'[k] = deliveries[k]
  BY <1>1, <1>2, Appended
<1>7. DOMAIN deliveries' = 1..(Len(deliveries) + 1)
  BY <1>4, SequenceHas
<1> QED
  BY <1>1, <1>3, <1>4, <1>5, <1>6, <1>7

\* A handler's call, of the message and the subscriber it is made with.
LEMMA HandlingIs ==
  ASSUME NEW m, NEW s
  PROVE  LET h == Handling(m, s) IN
         /\ h = [op |-> "handle", delivery |-> h.delivery, message |-> h.message,
                 subscriber |-> h.subscriber, stage |-> h.stage, replies |-> h.replies,
                 answer |-> h.answer]
         /\ h.op = "handle" /\ h.delivery = Len(deliveries) + 1 /\ h.message = m
         /\ h.subscriber = s /\ h.stage = "running" /\ h.replies = <<>> /\ h.answer = NoName
BY DEF Handling

\* A handler's call ends: its message may be settled, its delivery has ended.
LEMMA SettlesDoes ==
  ASSUME ShapeInv, stack # <<>>, Top.op = "handle", NEW ok \in BOOLEAN, Settles(ok),
         UNCHANGED <<app, subscribers>>
  PROVE  /\ Grows /\ SameAnswers /\ SameRoutes
         /\ DOMAIN sent' = DOMAIN sent /\ DOMAIN deliveries' = DOMAIN deliveries
         /\ \A d \in DOMAIN deliveries : deliveries'[d].ended =
              IF d = Top.delivery THEN IF ok THEN "ok" ELSE "failed" ELSE deliveries[d].ended
         /\ \A m \in DOMAIN sent : \A v :
              v \in sent'[m].settled =>
                \/ v \in sent[m].settled
                \/ /\ m = Top.message /\ ~subscribers[Top.subscriber].delete
                   /\ v = PolicyVerb(subscribers[Top.subscriber].policy, ok)
<1> DEFINE d == Top.delivery
           m == Top.message
           s == subscribers[Top.subscriber]
           verb == PolicyVerb(s.policy, ok)
           end == IF ok THEN "ok" ELSE "failed"
           r == sent[m]
           q == deliveries[d]
           rr == [r EXCEPT !.settled = r.settled \cup {verb}]
           qq == [q EXCEPT !.ended = end]
<1>1. /\ d \in DOMAIN deliveries /\ m \in DOMAIN sent
      /\ IsSequence(sent) /\ IsSequence(deliveries)
      /\ \A k \in DOMAIN sent : IsMessage(sent[k])
      /\ \A k \in DOMAIN deliveries : IsDelivery(deliveries[k])
  BY TopHandles DEF ShapeInv
<1>2. /\ deliveries' = [deliveries EXCEPT ![d] = qq]
      /\ sent' = IF s.delete \/ verb = "none" THEN sent ELSE [sent EXCEPT ![m] = rr]
  BY DEF Settles
<1>3. qq = [message |-> q.message, subscriber |-> q.subscriber, ended |-> end]
  BY <1>1 DEF IsDelivery
<1>4. rr = [raw |-> r.raw, destination |-> r.destination, by |-> r.by, routed |-> r.routed,
            settled |-> r.settled \cup {verb}, answer |-> r.answer]
  BY <1>1, MessageChanged
<1> HIDE DEF d, m, s, verb, end, rr, qq
<1>5. /\ IsMessage(rr) /\ rr.raw = sent[m].raw /\ rr.by = sent[m].by
      /\ rr.destination = sent[m].destination /\ rr.routed = sent[m].routed
      /\ rr.answer = sent[m].answer /\ rr.settled = sent[m].settled \cup {verb}
  BY <1>4 DEF IsMessage
<1>6. /\ IsDelivery(qq) /\ qq.message = deliveries[d].message
      /\ qq.subscriber = deliveries[d].subscriber /\ qq.ended = end
  BY <1>3 DEF IsDelivery
<1>7. /\ deliveries' = [k \in DOMAIN deliveries |-> deliveries'[k]]
      /\ deliveries'[d] = qq
      /\ \A k \in DOMAIN deliveries : k # d => deliveries'[k] = deliveries[k]
  BY <1>1, <1>2
<1>8. IsSequence(deliveries')
  BY <1>1, <1>7, Changed
<1>9. DOMAIN deliveries' = DOMAIN deliveries
  BY <1>7
<1>10. /\ sent' = [k \in DOMAIN sent |-> sent'[k]]
       /\ sent'[m] \in {sent[m], rr} /\ (s.delete => sent'[m] = sent[m])
       /\ \A k \in DOMAIN sent : k # m => sent'[k] = sent[k]
  <2>1. CASE s.delete \/ verb = "none"
    <3>1. sent' = sent
      BY <1>2, <2>1
    <3>2. sent = [k \in DOMAIN sent |-> sent[k]]
      BY <1>1, LenProperties DEF IsSequence
    <3> QED
      BY <3>1, <3>2
  <2>2. CASE ~(s.delete \/ verb = "none")
    <3>1. sent' = [sent EXCEPT ![m] = rr]
      BY <1>2, <2>2
    <3> QED
      BY <1>1, <2>2, <3>1
  <2> QED
    BY <2>1, <2>2
<1>11. IsSequence(sent')
  BY <1>1, <1>10, Changed
<1>12. DOMAIN sent' = DOMAIN sent
  BY <1>10
<1>13. \A k \in DOMAIN sent :
         /\ IsMessage(sent'[k]) /\ sent'[k].raw = sent[k].raw /\ sent'[k].by = sent[k].by
         /\ sent'[k].destination = sent[k].destination
         /\ sent'[k].answer = sent[k].answer /\ sent'[k].routed = sent[k].routed
  BY <1>1, <1>5, <1>10
<1>14. \A k \in DOMAIN deliveries :
         /\ IsDelivery(deliveries'[k]) /\ deliveries'[k].message = deliveries[k].message
         /\ deliveries'[k].subscriber = deliveries[k].subscriber
         /\ deliveries'[k].ended = IF k = d THEN end ELSE deliveries[k].ended
  BY <1>1, <1>6, <1>7
<1>15. \A k \in DOMAIN sent : \A v : v \in sent'[k].settled =>
         v \in sent[k].settled \/ (k = m /\ ~s.delete /\ v = verb)
  <2> TAKE k \in DOMAIN sent
  <2> TAKE v
  <2>1. CASE k = m
    BY <1>5, <1>10, <2>1
  <2>2. CASE k # m
    BY <1>10, <2>2
  <2> QED
    BY <2>1, <2>2
<1>16. Grows
  BY <1>8, <1>9, <1>11, <1>12, <1>13, <1>14 DEF Grows
<1> QED
  BY <1>9, <1>12, <1>13, <1>14, <1>15, <1>16 DEF SameAnswers, SameRoutes, d, m, s, verb, end

-----------------------------------------------------------------------------
(* What each step does *)

Here == Len(stack)          \* the place of the innermost call
Above == Len(stack) + 1     \* where a call that is made goes
Latest == Len(sent) + 1     \* the number of a message that is made
Begun == Len(deliveries) + 1    \* that of a delivery that begins

\* A step that sends and delivers nothing leaves every message and delivery.
LEMMA Unsent ==
  ASSUME ShapeInv, UNCHANGED <<app, subscribers, sent, deliveries>>
  PROVE  Grows /\ SameAnswers /\ SameRoutes /\ SameSettled /\ SameEnds
BY DEF Grows, ShapeInv, SameAnswers, SameRoutes, SameSettled, SameEnds

\* A call of the producer, of the command it is made with.
LEMMA PublishIs ==
  ASSUME NEW cmd, NEW n \in Nat, NEW by, NEW ms, NEW ds, NEW ss, by \in {Code} \cup ds
  PROVE  /\ IsPublish(Publish(cmd, n, by), ms, ds, ss)
         /\ Publish(cmd, n, by).op = "publish" /\ Publish(cmd, n, by).by = by
         /\ Publish(cmd, n, by).cmd = cmd /\ Publish(cmd, n, by).left = n
         /\ Publish(cmd, n, by).message = 0
BY DEF Publish, IsPublish

\* FakeProducer.publish and publish_batch are called by the test, or by a handler
\* that runs: nothing is sent yet.
LEMMA PublishesDoes ==
  ASSUME ShapeInv, Publishes
  PROVE  /\ UNCHANGED <<app, subscribers, sent, deliveries>> /\ exception = 0 /\ exception' = 0
         /\ stack # <<>> => Top.op = "handle" /\ Top.stage = "running"
         /\ Here \in Nat /\ Keeps(Here) /\ Len(stack') = Above
         /\ IsPublish(stack'[Above], DOMAIN sent, DOMAIN deliveries, DOMAIN subscribers)
         /\ stack'[Above].op = "publish" /\ stack'[Above].by = Code
         /\ stack'[Above].message = 0
<1>1. PICK a \in app.calls, n \in 1..MaxBatch :
        stack' = Append(stack, Publish(CodeCommand(a), n, Code))
  BY DEF Publishes
<1> DEFINE f == Publish(CodeCommand(a), n, Code)
<1>2. /\ IsPublish(f, DOMAIN sent, DOMAIN deliveries, DOMAIN subscribers)
      /\ f.op = "publish" /\ f.by = Code /\ f.message = 0
  BY PublishIs
<1> HIDE DEF f
<1>3. stack' = Append(stack, f)
  BY <1>1 DEF f
<1>4. Keeps(Len(stack)) /\ Len(stack') = Len(stack) + 1 /\ stack'[Len(stack) + 1] = f
  BY <1>3, Pushes
<1>5. Len(stack) \in Nat
  BY SequenceHas DEF ShapeInv
<1>6. /\ exception = 0 /\ exception' = 0 /\ UNCHANGED <<app, subscribers, sent, deliveries>>
      /\ stack # <<>> => Top.op = "handle" /\ Top.stage = "running"
  BY DEF Publishes, CodeCalls
<1> QED
  BY <1>2, <1>4, <1>5, <1>6 DEF Here, Above

\* The producer makes the next message of its command, which has no targets left
\* from an earlier one, and finds its targets.
LEMMA BuildsDoes ==
  ASSUME ShapeInv, Builds
  PROVE  /\ UNCHANGED <<app, subscribers, deliveries>> /\ exception = 0 /\ exception' = 0
         /\ stack # <<>> /\ Top.op = "publish" /\ Top.targets = {} /\ Top.left > 0
         /\ Here \in Nat /\ Here > 0 /\ Keeps(Here - 1) /\ Len(stack') = Here
         /\ IsPublish(Top, DOMAIN sent, DOMAIN deliveries, DOMAIN subscribers)
         /\ stack'[Here] = [op |-> "publish", cmd |-> Top.cmd, left |-> Top.left - 1,
                            message |-> Latest, targets |-> Targets(Top.cmd.destination),
                            by |-> Top.by]
         /\ Grows /\ Latest \in Nat /\ Latest # 0 /\ Latest \notin DOMAIN sent
         /\ DOMAIN sent' = DOMAIN sent \cup {Latest}
         /\ \A k \in DOMAIN sent :
              /\ sent'[k].settled = sent[k].settled /\ sent'[k].answer = sent[k].answer
              /\ sent'[k].routed = IF k = Top.message THEN "done" ELSE sent[k].routed
         /\ LET r == sent'[Latest] IN
            /\ IsMessage(r) /\ r.destination = Top.cmd.destination /\ r.by = Top.by
            /\ r.routed = "no" /\ r.settled = {} /\ r.answer = NoName
            /\ r.raw.correlation = NameOr(Top.cmd.correlation, <<"generated", Latest>>)
<1> DEFINE f == Top
           to == Top.cmd.destination
           m == Len(sent) + 1
           old == Routed("done")
           r == Message(Top.cmd, Top.by)
           g == [Top EXCEPT !.left = @ - 1, !.message = Len(sent) + 1, !.targets = Targets(to)]
           N == Len(stack)
<1>1. /\ stack # <<>> /\ Top.op = "publish" /\ exception = 0 /\ exception' = 0
      /\ Top.left > 0 /\ Top.targets = {} /\ UNCHANGED <<app, subscribers, deliveries>>
  BY DEF Builds, Running
<1>2. sent' = Append(old, r) /\ stack' = Replaced(g)
  BY DEF Builds
<1>3. IsPublish(f, DOMAIN sent, DOMAIN deliveries, DOMAIN subscribers)
  BY <1>1, TopCall
<1>4. g = [op |-> "publish", cmd |-> f.cmd, left |-> f.left - 1, message |-> m,
           targets |-> Targets(to), by |-> f.by]
  <2> DEFINE x == [f EXCEPT !.left = f.left - 1]
             y == [x EXCEPT !.message = m]
             ts == Targets(to)
  <2>1. g = [y EXCEPT !.targets = ts]
    OBVIOUS
  <2> HIDE DEF f, g, m, ts
  <2>2. x = [op |-> "publish", cmd |-> f.cmd, left |-> f.left - 1, message |-> f.message,
             targets |-> f.targets, by |-> f.by]
    BY <1>3 DEF IsPublish
  <2>3. y = [x EXCEPT !.message = m]
    OBVIOUS
  <2> HIDE DEF x, y
  <2>4. y = [op |-> "publish", cmd |-> f.cmd, left |-> f.left - 1, message |-> m,
             targets |-> f.targets, by |-> f.by]
    BY <2>2, <2>3
  <2>5. g = [op |-> "publish", cmd |-> f.cmd, left |-> f.left - 1, message |-> m,
             targets |-> ts, by |-> f.by]
    BY <2>1, <2>4
  <2> QED
    BY <2>5 DEF ts
<1>5. /\ IsMessage(r) /\ r.destination = to /\ r.by = Top.by
      /\ r.routed = "no" /\ r.settled = {} /\ r.answer = NoName
      /\ r.raw.correlation = NameOr(Top.cmd.correlation, <<"generated", m>>)
  BY MadeMessage
<1>6. f.message \in {0} \cup DOMAIN sent
  BY <1>3 DEF IsPublish
<1> HIDE DEF g, r, old
<1>7. /\ IsSequence(old) /\ Len(old) = Len(sent)
      /\ \A k \in DOMAIN sent :
           /\ IsMessage(old[k]) /\ old[k].raw = sent[k].raw /\ old[k].by = sent[k].by
           /\ old[k].destination = sent[k].destination
  BY <1>6, Marked DEF old
<1>8. \A k \in DOMAIN sent :
           /\ old[k].settled = sent[k].settled /\ old[k].answer = sent[k].answer
           /\ old[k].routed = IF k = Top.message THEN "done" ELSE sent[k].routed
  BY <1>6, Marked DEF old
<1>9. /\ IsSequence(sent') /\ Len(sent') = Len(sent) + 1 /\ sent'[Len(sent) + 1] = r
      /\ \A k \in DOMAIN sent :
           /\ IsMessage(sent'[k]) /\ sent'[k].raw = sent[k].raw /\ sent'[k].by = sent[k].by
           /\ sent'[k].destination = sent[k].destination
      /\ \A k \in DOMAIN sent : sent'[k] = old[k]
      /\ DOMAIN sent \subseteq DOMAIN sent' /\ Len(sent) \in Nat
      /\ \A k \in DOMAIN sent' : k \in DOMAIN sent \/ k = Len(sent) + 1
  BY <1>2, <1>7, MessageAdded
<1>10. m \in DOMAIN sent' /\ m \notin DOMAIN sent /\ m \in Nat /\ m # 0
  BY <1>9, SequenceHas DEF ShapeInv
<1>11. Grows
  BY <1>1, <1>9 DEF Grows, ShapeInv
<1>12. Keeps(N - 1) /\ Len(stack') = N /\ stack'[N] = g
  BY <1>1, <1>2, PutsOne
<1>13. N \in Nat /\ N > 0
  BY <1>1, TopIs
<1>14. DOMAIN sent' = DOMAIN sent \cup {m}
  BY <1>9, <1>10
<1>15. \A k \in DOMAIN sent :
         /\ sent'[k].settled = sent[k].settled /\ sent'[k].answer = sent[k].answer
         /\ sent'[k].routed = IF k = Top.message THEN "done" ELSE sent[k].routed
  BY <1>8, <1>9
<1>16. sent'[m] = r
  BY <1>9
<1> HIDE DEF m, N, to, f
<1>17. Latest = m /\ Here = N
  BY DEF m, N, Latest, Here
<1>18. g = [op |-> "publish", cmd |-> Top.cmd, left |-> Top.left - 1, message |-> m,
           targets |-> Targets(Top.cmd.destination), by |-> Top.by]
  BY <1>4 DEF f, to
<1>19. IsPublish(Top, DOMAIN sent, DOMAIN deliveries, DOMAIN subscribers)
  BY <1>3 DEF f
<1> QED
  BY <1>1, <1>5, <1>10, <1>11, <1>12, <1>13, <1>14, <1>15, <1>16, <1>17, <1>18, <1>19 DEF to

\* A call of the producer with one target less.
LEMMA PublishChanged ==
  ASSUME NEW f, NEW ms, NEW ds, NEW ss, IsPublish(f, ms, ds, ss), NEW s
  PROVE  [f EXCEPT !.targets = @ \ {s}] =
           [op |-> "publish", cmd |-> f.cmd, left |-> f.left, message |-> f.message,
            targets |-> f.targets \ {s}, by |-> f.by]
BY DEF IsPublish

\* The delivery that begins, of the call h.
Begins(h) ==
  /\ h.op = "handle" /\ h.delivery = Begun
  /\ h.stage = "running" /\ h.replies = <<>> /\ h.answer = NoName
  /\ IsHandling(h, DOMAIN deliveries')
  /\ IsSequence(deliveries') /\ DOMAIN deliveries' = DOMAIN deliveries \cup {Begun}
  /\ IsDelivery(deliveries'[Begun]) /\ deliveries'[Begun].message = h.message
  /\ deliveries'[Begun].subscriber = h.subscriber /\ deliveries'[Begun].ended = "no"
  /\ \A k \in DOMAIN deliveries : deliveries'[k] = deliveries[k]
  /\ Begun \notin DOMAIN deliveries /\ Begun # Code

\* A subscriber is given a message: a delivery that has not ended, and a call of
\* its handler.
LEMMA HandlingBegins ==
  ASSUME ShapeInv, NEW m, NEW s, deliveries' = Delivered(m, s), NEW h, h = Handling(m, s)
  PROVE  Begins(h) /\ h.message = m /\ h.subscriber = s
<1> DEFINE d == Len(deliveries) + 1
<1>1. /\ h = [op |-> "handle", delivery |-> h.delivery, message |-> h.message,
              subscriber |-> h.subscriber, stage |-> h.stage, replies |-> h.replies,
              answer |-> h.answer]
      /\ h.op = "handle" /\ h.delivery = d /\ h.message = m
      /\ h.subscriber = s /\ h.stage = "running" /\ h.replies = <<>> /\ h.answer = NoName
  BY HandlingIs
<1>2. /\ IsSequence(deliveries') /\ IsDelivery(deliveries'[d])
      /\ deliveries'[d].message = m /\ deliveries'[d].subscriber = s
      /\ deliveries'[d].ended = "no"
      /\ \A k \in DOMAIN deliveries : deliveries'[k] = deliveries[k]
      /\ DOMAIN deliveries \subseteq DOMAIN deliveries' /\ d \in DOMAIN deliveries'
      /\ \A k \in DOMAIN deliveries' : k \in DOMAIN deliveries \/ k = d
      /\ d \notin DOMAIN deliveries
  BY DeliveryAdded
<1>3. d # Code
  BY SequenceHas DEF ShapeInv, Code
<1>4. IsHandling(h, DOMAIN deliveries')
  BY <1>1, <1>2, NoSequence DEF IsHandling
<1>5. DOMAIN deliveries' = DOMAIN deliveries \cup {d}
  BY <1>2
<1> HIDE DEF d
<1>6. Begun = d
  BY DEF d, Begun
<1> QED
  BY <1>1, <1>2, <1>3, <1>4, <1>5, <1>6 DEF Begins

\* The producer gives its message to one of its targets, which is no target any
\* more: its handler's call is the innermost one.
LEMMA RoutesDoes ==
  ASSUME ShapeInv, Routes
  PROVE  /\ UNCHANGED <<app, subscribers, sent>> /\ exception = 0 /\ exception' = 0
         /\ stack # <<>> /\ Top.op = "publish"
         /\ Here \in Nat /\ Here > 0 /\ Keeps(Here - 1) /\ Len(stack') = Above
         /\ IsPublish(Top, DOMAIN sent, DOMAIN deliveries, DOMAIN subscribers)
         /\ stack'[Here] = [op |-> "publish", cmd |-> Top.cmd, left |-> Top.left,
                            message |-> Top.message,
                            targets |-> Top.targets \ {stack'[Above].subscriber},
                            by |-> Top.by]
         /\ stack'[Above].subscriber \in Top.targets /\ stack'[Above].message = Top.message
         /\ Top.message \in DOMAIN sent /\ Top.message # 0
         /\ Begins(stack'[Above]) /\ Grows
<1>1. /\ stack # <<>> /\ Top.op = "publish" /\ exception = 0 /\ exception' = 0
      /\ UNCHANGED <<app, subscribers, sent>>
  BY DEF Routes, Running
<1>2. PICK s \in Top.targets :
        /\ stack' = Append(Replaced([Top EXCEPT !.targets = @ \ {s}]), Handling(Top.message, s))
        /\ deliveries' = Delivered(Top.message, s)
  BY DEF Routes
<1> DEFINE f == Top
           m == Top.message
           g == [Top EXCEPT !.targets = @ \ {s}]
           h == Handling(m, s)
           N == Len(stack)
<1>3. IsPublish(f, DOMAIN sent, DOMAIN deliveries, DOMAIN subscribers)
  BY <1>1, TopCall
<1>4. m \in DOMAIN sent /\ m # 0
  BY <1>3 DEF IsPublish
<1>5. g = [op |-> "publish", cmd |-> f.cmd, left |-> f.left, message |-> f.message,
           targets |-> f.targets \ {s}, by |-> f.by]
  BY <1>3, PublishChanged
<1> HIDE DEF g, h
<1>6. stack' = Append(Replaced(g), h)
  BY <1>2 DEF g, h
<1>7. Keeps(N - 1) /\ Len(stack') = N + 1 /\ stack'[N] = g /\ stack'[N + 1] = h
  BY <1>1, <1>6, PutsAndPushes
<1>8. N \in Nat /\ N > 0
  BY <1>1, TopIs
<1> HIDE DEF m
<1>9. Begins(h) /\ h.message = m /\ h.subscriber = s
  <2>1. deliveries' = Delivered(m, s) /\ h = Handling(m, s)
    BY <1>2 DEF h, m
  <2> QED
    BY <2>1, HandlingBegins
<1>10. Grows
  BY <1>1, <1>9 DEF Begins, Grows, ShapeInv
<1> HIDE DEF N, f
<1>11. Here = N /\ Above = N + 1
  BY DEF N, Here, Above
<1>12. stack'[Here] = g /\ stack'[Above] = h
  BY <1>7, <1>11
<1>13. g = [op |-> "publish", cmd |-> Top.cmd, left |-> Top.left, message |-> Top.message,
            targets |-> Top.targets \ {h.subscriber}, by |-> Top.by]
  BY <1>5, <1>9 DEF f
<1>14. IsPublish(Top, DOMAIN sent, DOMAIN deliveries, DOMAIN subscribers)
  BY <1>3 DEF f
<1>15. s \in Top.targets
  BY <1>2
<1> QED
  BY <1>1, <1>4, <1>7, <1>8, <1>9, <1>10, <1>11, <1>12, <1>13, <1>14, <1>15 DEF m

\* What is made of a response keeps its correlation id.
LEMMA ResponseCorrelation ==
  ASSUME NEW p, NEW r, NEW name
  PROVE  /\ PublishResponse(p, AsPublishCommand(r)).correlation = r.correlation
         /\ PublishReply(name, AsPublishCommand(r)).correlation = r.correlation
<1> DEFINE cmd == AsPublishCommand(r)
           D == ResolvePublishDestination(DefaultQueue(p), DefaultTopic(p))
           X == SetDestination(cmd, DefaultQueue(p), DefaultTopic(p))
           Y == AddHeaders(X, p.headers)
           H == Merge(p.headers, X.headers)
           R == NameOr(Y.reply_to, p.reply_to)
           Z == [Y EXCEPT !.reply_to = R]
           O == OptionsOr(Y.options, p.options)
<1>1. /\ cmd = [destination |-> cmd.destination, headers |-> cmd.headers,
                correlation |-> cmd.correlation, reply_to |-> cmd.reply_to,
                options |-> cmd.options, timeout |-> cmd.timeout]
      /\ cmd.correlation = r.correlation
  BY DEF AsPublishCommand, Command
<1>2. PublishResponse(p, cmd) = [Z EXCEPT !.options = O]
  BY DEF PublishResponse
<1>3. X = [cmd EXCEPT !.destination = D] /\ Y = [X EXCEPT !.headers = H]
  BY DEF SetDestination, AddHeaders
<1>4. PublishReply(name, cmd).correlation = r.correlation
  BY <1>1 DEF PublishReply, SetDestination
<1>5. Z = [Y EXCEPT !.reply_to = R]
  OBVIOUS
<1> HIDE DEF cmd, D, X, Y, H, R, Z, O
<1>6. X.correlation = r.correlation
  BY <1>1, <1>3
<1>7. Y.correlation = r.correlation
  <2>1. X = [destination |-> D, headers |-> cmd.headers,
             correlation |-> cmd.correlation, reply_to |-> cmd.reply_to,
             options |-> cmd.options, timeout |-> cmd.timeout]
    BY <1>1, <1>3
  <2> QED
    BY <1>1, <1>3, <2>1
<1>8. \A f : [Y EXCEPT !.reply_to = f].correlation = Y.correlation
  OBVIOUS
<1>9. Z.correlation = r.correlation
  BY <1>5, <1>7, <1>8
<1>10. [Z EXCEPT !.options = O].correlation = Z.correlation
  OBVIOUS
<1> QED
  BY <1>2, <1>4, <1>9, <1>10 DEF cmd

\* A result is published once by each of the handler's publishers, and as a reply
\* if one is asked for, with the correlation id of the response.
LEMMA RepliesAre ==
  ASSUME NEW s, IsSequence(s.publishers), NEW message, NEW r
  PROVE  /\ IsSequence(Replies(s, message, r))
         /\ \A i \in DOMAIN Replies(s, message, r) :
              Replies(s, message, r)[i].correlation = r.correlation
         /\ Len(Replies(s, message, r)) \in Nat /\ Len(s.publishers) \in Nat
         /\ Len(Replies(s, message, r)) >= Len(s.publishers)
<1> DEFINE cmd == AsPublishCommand(r)
           own == IF message.reply_to = NoName \/ s.no_reply THEN <<>>
                  ELSE <<PublishReply(message.reply_to, cmd)>>
           ps == s.publishers
           others == [i \in DOMAIN ps |-> PublishResponse(ps[i], cmd)]
           all == Replies(s, message, r)
<1>1. all = own \o others
  BY DEF Replies
<1>2. IsSequence(own) /\ \A i \in DOMAIN own : own[i].correlation = r.correlation
  <2>1. CASE own = <<>>
    BY <2>1, NoSequence
  <2>2. CASE own = <<PublishReply(message.reply_to, cmd)>>
    <3> DEFINE c == PublishReply(message.reply_to, cmd)
    <3>1. c.correlation = r.correlation
      BY ResponseCorrelation
    <3>2. <<c>> \in Seq({c}) /\ \A i \in DOMAIN <<c>> : <<c>>[i] = c
      OBVIOUS
    <3> HIDE DEF c
    <3>3. IsSequence(<<c>>)
      BY <3>2, SequenceOf
    <3> QED
      BY <2>2, <3>1, <3>2, <3>3 DEF c
  <2> QED
    BY <2>1, <2>2
<1>3. /\ IsSequence(others) /\ Len(others) = Len(ps)
      /\ \A i \in DOMAIN others : others[i].correlation = r.correlation
  <2>1. \A i \in DOMAIN ps : others[i].correlation = r.correlation
    BY ResponseCorrelation
  <2>2. others = [i \in DOMAIN ps |-> others[i]]
    OBVIOUS
  <2> HIDE DEF others
  <2>3. IsSequence(others) /\ Len(others) = Len(ps)
    BY <2>2, Changed
  <2> QED
    BY <2>1, <2>2, <2>3
<1> HIDE DEF all, own, others
<1>4. IsSequence(all) /\ Len(all) = Len(own) + Len(others) /\ Len(own) \in Nat
      /\ Len(others) \in Nat
  BY <1>1, <1>2, <1>3, Joined
<1>5. \A i \in 1..Len(all) : all[i] = IF i <= Len(own) THEN own[i] ELSE others[i - Len(own)]
  BY <1>1, <1>2, <1>3, Joined
<1>6. /\ DOMAIN own = 1..Len(own) /\ DOMAIN others = 1..Len(others)
      /\ DOMAIN all = 1..Len(all)
  BY <1>2, <1>3, <1>4, SequenceHas
<1>7. ASSUME NEW i \in DOMAIN all PROVE all[i].correlation = r.correlation
  <2>1. CASE i <= Len(own)
    <3>1. i \in DOMAIN own /\ all[i] = own[i]
      BY <1>4, <1>5, <1>6, <2>1
    <3> QED
      BY <1>2, <3>1
  <2>2. CASE ~(i <= Len(own))
    <3>1. i - Len(own) \in DOMAIN others /\ all[i] = others[i - Len(own)]
      BY <1>4, <1>5, <1>6, <2>2
    <3> QED
      BY <1>3, <3>1
  <2> QED
    BY <2>1, <2>2
<1>8. Len(all) \in Nat /\ Len(ps) \in Nat /\ Len(all) >= Len(ps)
  BY <1>3, <1>4
<1> QED
  BY <1>4, <1>7, <1>8 DEF all

\* All that a handler's result is turned into has one correlation id.
LEMMA HandlerReturnsDoes ==
  ASSUME ShapeInv, HandlerReturns
  PROVE  LET g == stack'[Here]
             c == stack'[Here].answer
         IN  /\ UNCHANGED <<app, subscribers, sent, deliveries>> /\ exception = 0 /\ exception' = 0
             /\ stack # <<>> /\ Top.op = "handle" /\ Top.stage = "running"
             /\ Here \in Nat /\ Here > 0 /\ Keeps(Here - 1) /\ Len(stack') = Here
             /\ IsHandling(g, DOMAIN deliveries) /\ g.op = "handle"
             /\ g.delivery = Top.delivery /\ g.message = Top.message
             /\ g.subscriber = Top.subscriber /\ g.stage = "returned"
             /\ c \in {sent[Top.message].raw.correlation} \cup {r.correlation : r \in app.responses}
             /\ c # NoName
             /\ \A i \in DOMAIN g.replies : g.replies[i].correlation = c
             /\ Len(g.replies) \in Nat /\ Len(subscribers[Top.subscriber].publishers) \in Nat
             /\ Len(g.replies) >= Len(subscribers[Top.subscriber].publishers)
<1>1. /\ stack # <<>> /\ Top.op = "handle" /\ Top.stage = "running"
      /\ exception = 0 /\ exception' = 0
      /\ UNCHANGED <<app, subscribers, sent, deliveries>>
  BY DEF HandlerReturns, Running
<1> DEFINE m == Top.message
           s == subscribers[Top.subscriber]
           message == ParseMessage(sent[m].raw, <<"generated", 0>>)
           Response(r) == [r EXCEPT !.correlation = NameOr(@, message.correlation)]
           Result(r) == [Top EXCEPT !.stage = "returned", !.answer = Response(r).correlation,
                                    !.replies = Replies(s, message, Response(r))]
<1>2. PICK r \in app.responses : stack' = Replaced(Result(r))
  BY DEF HandlerReturns
<1> DEFINE c == Response(r).correlation
           rs == Replies(s, message, Response(r))
           g == Result(r)
           N == Len(stack)
<1>3. m \in DOMAIN sent /\ Top.subscriber \in DOMAIN subscribers
  BY <1>1, TopHandles
<1>4. message.correlation = sent[m].raw.correlation /\ sent[m].raw.correlation # NoName
  BY <1>3 DEF ShapeInv, ParseMessage, NameOr
<1>5. /\ c \in {sent[m].raw.correlation} \cup {q.correlation : q \in app.responses}
      /\ c # NoName
  <2>1. r = [headers |-> r.headers, correlation |-> r.correlation, options |-> r.options]
    BY ApplicationsAssumption DEF ShapeInv
  <2>2. c = NameOr(r.correlation, message.correlation)
    <3> DEFINE v == NameOr(r.correlation, message.correlation)
    <3>1. c = [r EXCEPT !.correlation = v].correlation
      OBVIOUS
    <3> HIDE DEF v, c
    <3>2. c = v
      BY <2>1, <3>1
    <3> QED
      BY <3>2 DEF v
  <2> HIDE DEF c
  <2> QED
    BY <1>4, <2>2 DEF NameOr
<1>6. /\ IsSequence(rs) /\ \A i \in DOMAIN rs : rs[i].correlation = c
      /\ Len(rs) \in Nat /\ Len(s.publishers) \in Nat /\ Len(rs) >= Len(s.publishers)
  <2>1. IsSequence(s.publishers)
    BY <1>3 DEF ShapeInv, AreSubscribers, IsSubscriber
  <2> DEFINE response == Response(r)
  <2>2. rs = Replies(s, message, response) /\ c = response.correlation
    OBVIOUS
  <2> HIDE DEF s, message, response, rs, c
  <2>3. IsSequence(Replies(s, message, response))
    BY <2>1, RepliesAre
  <2>4. \A i \in DOMAIN Replies(s, message, response) :
          Replies(s, message, response)[i].correlation = response.correlation
    BY <2>1, RepliesAre
  <2>5. /\ Len(Replies(s, message, response)) \in Nat /\ Len(s.publishers) \in Nat
        /\ Len(Replies(s, message, response)) >= Len(s.publishers)
    BY <2>1, RepliesAre
  <2> QED
    BY <2>2, <2>3, <2>4, <2>5
<1>7. IsHandling(Top, DOMAIN deliveries)
  BY <1>1, TopCall
<1>8. /\ IsHandling(g, DOMAIN deliveries) /\ g.op = "handle" /\ g.delivery = Top.delivery
      /\ g.message = Top.message /\ g.subscriber = Top.subscriber
      /\ g.replies = rs /\ g.answer = c /\ g.stage = "returned"
  <2> DEFINE f == Top
             x == [f EXCEPT !.stage = "returned"]
             y == [x EXCEPT !.answer = c]
  <2>1. g = [y EXCEPT !.replies = rs]
    OBVIOUS
  <2>2. IsHandling(f, DOMAIN deliveries)
    BY <1>7
  <2> HIDE DEF g, c, rs, f
  <2>3. x = [op |-> "handle", delivery |-> f.delivery, message |-> f.message,
             subscriber |-> f.subscriber, stage |-> "returned", replies |-> f.replies,
             answer |-> f.answer]
    BY <2>2 DEF IsHandling
  <2>4. y = [x EXCEPT !.answer = c]
    OBVIOUS
  <2> HIDE DEF x, y
  <2>5. y = [op |-> "handle", delivery |-> f.delivery, message |-> f.message,
             subscriber |-> f.subscriber, stage |-> "returned", replies |-> f.replies,
             answer |-> c]
    BY <2>3, <2>4
  <2>6. g = [op |-> "handle", delivery |-> f.delivery, message |-> f.message,
             subscriber |-> f.subscriber, stage |-> "returned", replies |-> rs, answer |-> c]
    BY <2>1, <2>5
  <2>7. f.delivery \in DOMAIN deliveries
    BY <2>2 DEF IsHandling
  <2>8. IsHandling(g, DOMAIN deliveries) /\ g.delivery = f.delivery
    BY <1>6, <2>6, <2>7 DEF IsHandling
  <2> QED
    BY <2>6, <2>8 DEF f
<1> HIDE DEF g, c, rs, Result, message, Response
<1>9. stack' = Replaced(g)
  BY <1>2 DEF g
<1>10. Keeps(N - 1) /\ Len(stack') = N /\ stack'[N] = g
  BY <1>1, <1>9, PutsOne
<1>11. N \in Nat /\ N > 0
  BY <1>1, TopIs
<1> HIDE DEF N, s
<1>12. Here = N
  BY DEF N, Here
<1> QED
  BY <1>1, <1>5, <1>6, <1>8, <1>10, <1>11, <1>12 DEF s

\* The handler's next reply is published, by a call of the producer above the
\* handler's.
LEMMA ReplyingDoes ==
  ASSUME ShapeInv, Replying
  PROVE  LET rs == Top.replies
             g == stack'[Here]
             h == stack'[Above]
         IN  /\ UNCHANGED <<app, subscribers, sent, deliveries>> /\ exception = 0 /\ exception' = 0
             /\ stack # <<>> /\ Top.op = "handle" /\ rs # <<>>
             /\ Here \in Nat /\ Here > 0 /\ Keeps(Here - 1) /\ Len(stack') = Above
             /\ IsHandling(g, DOMAIN deliveries) /\ g.op = "handle"
             /\ g.delivery = Top.delivery /\ g.message = Top.message
             /\ g.subscriber = Top.subscriber /\ g.answer = Top.answer /\ g.stage = Top.stage
             /\ Len(rs) \in Nat /\ Len(g.replies) = Len(rs) - 1
             /\ \A i \in DOMAIN g.replies : \E j \in DOMAIN rs : g.replies[i] = rs[j]
             /\ IsPublish(h, DOMAIN sent, DOMAIN deliveries, DOMAIN subscribers)
             /\ h.op = "publish" /\ h.by = Top.delivery /\ h.message = 0 /\ h.left = 1
             /\ \E j \in DOMAIN rs : h.cmd = rs[j]
<1> DEFINE f == Top
           rs == Top.replies
           rest == Tail(Top.replies)
           c == Head(Top.replies)
           g == [Top EXCEPT !.replies = Tail(@)]
           h == Publish(c, 1, Top.delivery)
           N == Len(stack)
           m == Top.message
           d == Top.delivery
<1>1. /\ stack # <<>> /\ f.op = "handle" /\ rs # <<>> /\ exception = 0 /\ exception' = 0
      /\ stack' = Append(Replaced(g), h) /\ UNCHANGED <<app, subscribers, sent, deliveries>>
  BY DEF Replying, Running
<1>2. IsHandling(f, DOMAIN deliveries)
  BY <1>1, TopCall
<1>3. d \in DOMAIN deliveries /\ m \in DOMAIN sent /\ deliveries[d].message = m
  BY <1>1, TopHandles
<1>4. /\ h.op = "publish" /\ h.by = d /\ h.cmd = c /\ h.message = 0 /\ h.left = 1
      /\ IsPublish(h, DOMAIN sent, DOMAIN deliveries, DOMAIN subscribers)
  BY <1>3, PublishIs
<1>5. g = [f EXCEPT !.replies = rest]
  OBVIOUS
<1>6. IsSequence(rs)
  BY <1>2 DEF IsHandling
<1>7. IsSequence(rest) /\ Len(rest) = Len(rs) - 1 /\ Len(rs) \in Nat /\ Len(rs) > 0 /\ c = rs[1]
  <2> HIDE DEF f, g, h, m, d
  <2>1. rest = Tail(rs)
    OBVIOUS
  <2> HIDE DEF rest
  <2>2. IsSequence(rest) /\ Len(rest) = Len(rs) - 1 /\ Len(rs) \in Nat /\ Len(rs) > 0
    BY <1>1, <1>6, <2>1, Behead
  <2>3. Head(rs) = rs[1]
    BY <1>1, <1>6, <2>1, Behead
  <2> QED
    BY <2>2, <2>3
<1>8. \A i \in 1..Len(rest) : rest[i] = rs[i + 1]
  <2> HIDE DEF f, g, h, m, d, c
  <2>1. rest = Tail(rs)
    OBVIOUS
  <2> HIDE DEF rest
  <2> QED
    BY <1>1, <1>6, <2>1, Behead
<1> HIDE DEF rs, rest, c, g, h
<1>9. DOMAIN rs = 1..Len(rs) /\ DOMAIN rest = 1..Len(rest)
  BY <1>6, <1>7, SequenceHas
<1>10. /\ IsHandling(g, DOMAIN deliveries) /\ g.op = "handle" /\ g.delivery = d /\ g.message = m
       /\ g.subscriber = Top.subscriber /\ g.replies = rest /\ g.answer = f.answer
       /\ g.stage = f.stage
  <2> HIDE DEF f
  <2>1. g = [op |-> "handle", delivery |-> f.delivery, message |-> f.message,
             subscriber |-> f.subscriber, stage |-> f.stage, replies |-> rest,
             answer |-> f.answer]
    BY <1>2, <1>5 DEF IsHandling
  <2>2. f.delivery \in DOMAIN deliveries /\ f.stage \in {"running", "returned"}
    BY <1>2 DEF IsHandling
  <2>3. IsHandling(g, DOMAIN deliveries)
    BY <1>7, <2>1, <2>2 DEF IsHandling
  <2> QED
    BY <2>1, <2>3 DEF f
<1>11. Keeps(N - 1) /\ Len(stack') = N + 1 /\ stack'[N] = g /\ stack'[N + 1] = h
  BY <1>1, PutsAndPushes
<1>12. N \in Nat /\ N > 0
  BY <1>1, TopIs
<1>13. 1 \in DOMAIN rs /\ \A i \in DOMAIN rest : i + 1 \in DOMAIN rs
  BY <1>7, <1>9
<1>14. /\ \A i \in DOMAIN rest : \E j \in DOMAIN rs : rest[i] = rs[j]
       /\ \E j \in DOMAIN rs : h.cmd = rs[j]
  BY <1>4, <1>7, <1>8, <1>9, <1>13
<1> HIDE DEF N, f, m, d
<1>15. Here = N /\ Above = N + 1
  BY DEF N, Here, Above
<1>16. rs = Top.replies
  BY DEF rs
<1> QED
  BY <1>1, <1>4, <1>7, <1>10, <1>11, <1>12, <1>14, <1>15, <1>16 DEF f, m, d

\* A call of the producer with nothing left to make or to route returns: its last
\* message is routed.
LEMMA PublishReturnsDoes ==
  ASSUME ShapeInv, PublishReturns
  PROVE  /\ UNCHANGED <<app, subscribers, deliveries>> /\ exception = 0 /\ exception' = 0
         /\ stack # <<>> /\ Top.op = "publish" /\ Top.targets = {} /\ Top.left = 0
         /\ Here \in Nat /\ Here > 0 /\ Keeps(Here - 1) /\ Len(stack') = Here - 1
         /\ IsPublish(Top, DOMAIN sent, DOMAIN deliveries, DOMAIN subscribers)
         /\ Grows /\ SameAnswers /\ SameSettled /\ DOMAIN sent' = DOMAIN sent
         /\ \A k \in DOMAIN sent :
              sent'[k].routed = IF k = Top.message THEN "done" ELSE sent[k].routed
<1>1. /\ stack # <<>> /\ Top.op = "publish" /\ exception = 0 /\ exception' = 0
      /\ Top.targets = {} /\ Top.left = 0
      /\ sent' = Routed("done") /\ stack' = Front(stack)
      /\ UNCHANGED <<app, subscribers, deliveries>>
  BY DEF PublishReturns, Running
<1>2. IsPublish(Top, DOMAIN sent, DOMAIN deliveries, DOMAIN subscribers)
  BY <1>1, TopCall
<1>3. Top.message \in {0} \cup DOMAIN sent
  BY <1>2 DEF IsPublish
<1>4. /\ IsSequence(sent') /\ DOMAIN sent' = DOMAIN sent
      /\ \A k \in DOMAIN sent :
           /\ IsMessage(sent'[k]) /\ sent'[k].raw = sent[k].raw /\ sent'[k].by = sent[k].by
           /\ sent'[k].destination = sent[k].destination
  BY <1>1, <1>3, Marked
<1>5. \A k \in DOMAIN sent :
        /\ sent'[k].settled = sent[k].settled /\ sent'[k].answer = sent[k].answer
        /\ sent'[k].routed = IF k = Top.message THEN "done" ELSE sent[k].routed
  BY <1>1, <1>3, Marked
<1>6. Grows
  BY <1>1, <1>4 DEF Grows, ShapeInv
<1>7. Keeps(Len(stack) - 1) /\ Len(stack') = Len(stack) - 1
  BY <1>1, Pops
<1>8. Len(stack) \in Nat /\ Len(stack) > 0
  BY <1>1, TopIs
<1> QED
  BY <1>1, <1>2, <1>4, <1>5, <1>6, <1>7, <1>8 DEF Here, SameAnswers, SameSettled

\* FakeProducer.request returns the answer, a message that it makes.
LEMMA RequestReturnsDoes ==
  ASSUME ShapeInv, RequestReturns
  PROVE  /\ UNCHANGED <<app, subscribers, deliveries>> /\ exception = 0 /\ exception' = 0
         /\ stack # <<>> /\ Top.op = "request"
         /\ Here \in Nat /\ Here > 0 /\ Keeps(Here - 1) /\ Len(stack') = Here - 1
         /\ Grows /\ SameRoutes /\ SameSettled /\ DOMAIN sent' = DOMAIN sent
         /\ \A k \in DOMAIN sent :
              sent'[k].answer = IF k = Top.message THEN Top.answer ELSE sent[k].answer
<1> DEFINE m == Top.message
           a == Top.answer
           r == sent[m]
           e == [r EXCEPT !.answer = a]
<1>1. /\ stack # <<>> /\ Top.op = "request" /\ exception = 0 /\ exception' = 0
      /\ sent' = [sent EXCEPT ![m] = e] /\ stack' = Front(stack)
      /\ UNCHANGED <<app, subscribers, deliveries>>
  BY DEF RequestReturns, Running
<1>2. m \in DOMAIN sent
  BY <1>1, TopCall DEF IsRequest
<1>3. IsSequence(sent) /\ \A k \in DOMAIN sent : IsMessage(sent[k])
  BY DEF ShapeInv
<1>4. e = [raw |-> r.raw, destination |-> r.destination, by |-> r.by, routed |-> r.routed,
           settled |-> r.settled, answer |-> a]
  BY <1>2, <1>3, MessageChanged
<1> HIDE DEF e, a, m
<1>5. /\ IsMessage(e) /\ e.raw = sent[m].raw /\ e.by = sent[m].by
      /\ e.destination = sent[m].destination /\ e.answer = a
      /\ e.routed = sent[m].routed /\ e.settled = sent[m].settled
  BY <1>4 DEF IsMessage
<1>6. sent' = [k \in DOMAIN sent |-> sent'[k]]
  BY <1>1
<1>7. IsSequence(sent') /\ DOMAIN sent' = DOMAIN sent
  BY <1>3, <1>6, Changed
<1>8. sent'[m] = e /\ \A k \in DOMAIN sent : k # m => sent'[k] = sent[k]
  BY <1>1, <1>2
<1>9. \A k \in DOMAIN sent :
        /\ IsMessage(sent'[k]) /\ sent'[k].raw = sent[k].raw /\ sent'[k].by = sent[k].by
        /\ sent'[k].destination = sent[k].destination
  BY <1>3, <1>5, <1>8
<1>10. \A k \in DOMAIN sent :
         /\ sent'[k].answer = IF k = m THEN a ELSE sent[k].answer
         /\ sent'[k].routed = sent[k].routed /\ sent'[k].settled = sent[k].settled
  BY <1>5, <1>8
<1>11. Grows
  BY <1>1, <1>7, <1>9 DEF Grows, ShapeInv
<1>12. Keeps(Len(stack) - 1) /\ Len(stack') = Len(stack) - 1
  BY <1>1, Pops
<1>13. Len(stack) \in Nat /\ Len(stack) > 0
  BY <1>1, TopIs
<1> QED
  BY <1>1, <1>7, <1>10, <1>11, <1>12, <1>13 DEF Here, SameRoutes, SameSettled, m, a

\* Only the innermost call ends, whatever it is.
LEMMA UnwindsDoes ==
  ASSUME ShapeInv, Unwinds
  PROVE  /\ UNCHANGED <<app, subscribers>> /\ exception # 0 /\ stack # <<>>
         /\ Here \in Nat /\ Here > 0 /\ Keeps(Here - 1) /\ Len(stack') = Here - 1
         /\ exception' \in -1..Len(stack') /\ (Here = 1 <=> exception' = 0)
         /\ Grows /\ SameAnswers
         /\ DOMAIN sent' = DOMAIN sent /\ DOMAIN deliveries' = DOMAIN deliveries
         /\ Top.op = "handle" => Settles(FALSE)
         /\ Top.op # "handle" => SameSettled /\ UNCHANGED deliveries
         /\ \A k \in DOMAIN sent :
              sent'[k].routed = IF Top.op = "publish" /\ k = Top.message THEN "failed"
                                ELSE sent[k].routed
<1>1. /\ exception # 0 /\ stack' = Front(stack)
      /\ exception' = IF Len(stack) = 1 THEN 0
                      ELSE IF exception = Len(stack) THEN -1 ELSE exception
      /\ UNCHANGED <<app, subscribers, calls>>
  BY DEF Unwinds
<1>2. stack # <<>> /\ exception \in -1..Len(stack)
  BY <1>1 DEF ShapeInv
<1>3. Len(stack) \in Nat /\ Len(stack) > 0
  BY <1>2, TopIs
<1>4. Keeps(Len(stack) - 1) /\ Len(stack') = Len(stack) - 1
  BY <1>1, <1>2, Pops
<1>5. exception' \in -1..(Len(stack) - 1) /\ (Len(stack) = 1 <=> exception' = 0)
  BY <1>1, <1>2, <1>3
<1>6. /\ UNCHANGED <<app, subscribers>> /\ exception # 0 /\ stack # <<>>
      /\ Here \in Nat /\ Here > 0 /\ Keeps(Here - 1) /\ Len(stack') = Here - 1
      /\ exception' \in -1..Len(stack') /\ (Here = 1 <=> exception' = 0)
  BY <1>1, <1>2, <1>3, <1>4, <1>5 DEF Here
<1>7. CASE Top.op = "handle"
  <2>1. Settles(FALSE)
    BY <1>7 DEF Unwinds
  <2>2. /\ Grows /\ SameAnswers /\ SameRoutes /\ DOMAIN sent' = DOMAIN sent
        /\ DOMAIN deliveries' = DOMAIN deliveries
    BY <1>1, <1>2, <1>7, <2>1, SettlesDoes
  <2> QED
    BY <1>6, <1>7, <2>1, <2>2 DEF SameRoutes
<1>8. CASE Top.op = "publish"
  <2>1. sent' = Routed("failed") /\ UNCHANGED deliveries
    BY <1>8 DEF Unwinds
  <2>2. Top.message \in {0} \cup DOMAIN sent
    BY <1>2, <1>8, TopCall DEF IsPublish
  <2>3. /\ IsSequence(sent') /\ DOMAIN sent' = DOMAIN sent
        /\ \A k \in DOMAIN sent :
             /\ IsMessage(sent'[k]) /\ sent'[k].raw = sent[k].raw /\ sent'[k].by = sent[k].by
             /\ sent'[k].destination = sent[k].destination
    BY <2>1, <2>2, Marked
  <2>4. \A k \in DOMAIN sent :
          /\ sent'[k].settled = sent[k].settled /\ sent'[k].answer = sent[k].answer
          /\ sent'[k].routed = IF k = Top.message THEN "failed" ELSE sent[k].routed
    BY <2>1, <2>2, Marked
  <2>5. Grows
    BY <1>1, <2>1, <2>3 DEF Grows, ShapeInv
  <2> QED
    BY <1>6, <1>8, <2>1, <2>3, <2>4, <2>5 DEF SameAnswers, SameSettled
<1>9. CASE Top.op = "request"
  <2>1. UNCHANGED <<app, subscribers, sent, deliveries>>
    BY <1>1, <1>9 DEF Unwinds
  <2>2. Grows /\ SameAnswers /\ SameRoutes /\ SameSettled
    BY <2>1, Unsent
  <2> QED
    BY <1>6, <1>9, <2>1, <2>2 DEF SameRoutes
<1> QED
  BY <1>2, <1>7, <1>8, <1>9, TopCall

\* The call below that of a handler gets its answer, if it is a request.
LEMMA HandledDoes ==
  ASSUME ShapeInv, Handled
  PROVE  LET f == stack[Here - 1]
             g == stack'[Here - 1]
         IN  /\ UNCHANGED <<app, subscribers>> /\ exception = 0 /\ exception' = 0 /\ Settles(TRUE)
             /\ stack # <<>> /\ Top.op = "handle" /\ Top.stage = "returned" /\ Top.replies = <<>>
             /\ Here \in Nat /\ Here > 1 /\ Keeps(Here - 2) /\ Len(stack') = Here - 1
             /\ f.message = Top.message /\ Top.message \in DOMAIN sent
             /\ IsCall(f, DOMAIN sent, DOMAIN deliveries, DOMAIN subscribers) /\ f.op # "handle"
             /\ IF f.op = "request"
                THEN /\ IsRequest(g, DOMAIN sent) /\ g.op = "request"
                     /\ g.message = Top.message /\ g.answer = Top.answer
                ELSE g = f
<1> DEFINE N == Len(stack)
           k == N - 1
           rest == Front(stack)
           f == stack[k]
           a == Top.answer
           g == [f EXCEPT !.answer = a]
<1>1. /\ stack # <<>> /\ Top.op = "handle" /\ exception = 0 /\ exception' = 0 /\ Settles(TRUE)
      /\ Top.stage = "returned" /\ Top.replies = <<>> /\ UNCHANGED <<app, subscribers>>
      /\ stack' = IF Last(rest).op = "request"
                  THEN [rest EXCEPT ![Len(rest)] = [Last(rest) EXCEPT !.answer = a]] ELSE rest
  <2>1. /\ stack # <<>> /\ Top.op = "handle" /\ exception = 0 /\ exception' = 0 /\ Settles(TRUE)
        /\ Top.stage = "returned" /\ Top.replies = <<>> /\ UNCHANGED <<app, subscribers>>
    BY DEF Handled, Running
  <2>2. stack' = IF Last(rest).op = "request"
                 THEN [rest EXCEPT ![Len(rest)].answer = a] ELSE rest
    BY DEF Handled
  <2> DEFINE q == [rest EXCEPT ![Len(rest)].answer = a]
  <2>3. q = [rest EXCEPT ![Len(rest)] = [Last(rest) EXCEPT !.answer = a]]
    BY DEF Last
  <2> QED
    BY <2>1, <2>2, <2>3
<1>2. /\ Len(stack) > 1 /\ stack[Len(stack) - 1].op # "handle"
      /\ stack[Len(stack) - 1].message = Top.message /\ Top.message \in DOMAIN sent
  BY <1>1, TopHandles
<1>3. N \in Nat /\ DOMAIN stack = 1..N /\ IsSequence(stack)
  BY <1>1, TopIs DEF ShapeInv
<1> HIDE DEF rest
<1>4. IsSequence(rest) /\ Len(rest) = k
  BY <1>1, <1>3, Popped DEF rest
<1>5. \A i \in 1..Len(rest) : rest[i] = stack[i]
  BY <1>1, <1>3, Popped DEF rest
<1>6. k \in Nat /\ k > 0 /\ k \in 1..Len(rest) /\ DOMAIN rest = 1..k /\ k \in DOMAIN stack
  BY <1>2, <1>3, <1>4, SequenceHas
<1>7. Last(rest) = f
  BY <1>4, <1>5, <1>6 DEF Last
<1>8. f.op # "handle" /\ f.message = Top.message
  BY <1>2
<1>9. IsCall(f, DOMAIN sent, DOMAIN deliveries, DOMAIN subscribers)
  BY <1>6 DEF ShapeInv
<1> HIDE DEF k, N, f, a
<1>10. CASE f.op # "request"
  <2>1. stack' = rest /\ stack' = Front(stack)
    BY <1>1, <1>7, <1>10 DEF rest
  <2>2. stack'[k] = f
    BY <1>5, <1>6, <2>1 DEF f
  <2>3. Keeps(k - 1)
    <3>1. \A i \in 1..(k - 1) : stack'[i] = stack[i]
      BY <1>4, <1>5, <1>6, <2>1
    <3>2. k - 1 \in 0..Len(stack) /\ k - 1 <= Len(stack')
      BY <1>3, <1>4, <1>6, <2>1 DEF k, N
    <3> QED
      BY <1>4, <2>1, <3>1, <3>2 DEF Keeps
  <2>4. Here - 1 = k /\ Here - 2 = k - 1
    BY <1>3 DEF Here, k, N
  <2> QED
    BY <1>1, <1>2, <1>3, <1>4, <1>8, <1>9, <1>10, <2>1, <2>2, <2>3, <2>4 DEF Here, N, f
<1>11. CASE f.op = "request"
  <2>1. stack' = [rest EXCEPT ![k] = g]
    BY <1>1, <1>4, <1>7, <1>11
  <2>2. IsRequest(f, DOMAIN sent)
    BY <1>9, <1>11 DEF IsCall, IsPublish, IsRequest, IsHandling
  <2>3. g = [op |-> "request", message |-> f.message, timeout |-> f.timeout, answer |-> a]
    BY <2>2 DEF IsRequest
  <2> HIDE DEF g
  <2>4. IsRequest(g, DOMAIN sent) /\ g.message = Top.message /\ g.answer = a /\ g.op = "request"
    BY <1>8, <2>2, <2>3 DEF IsRequest
  <2>5. stack' = [i \in DOMAIN rest |-> stack'[i]]
    BY <2>1
  <2>6. IsSequence(stack') /\ Len(stack') = k
    BY <1>4, <2>5, Changed
  <2>7. stack'[k] = g /\ \A i \in 1..k : i # k => stack'[i] = rest[i]
    BY <1>6, <2>1
  <2>8. Keeps(k - 1)
    <3>1. \A i \in 1..(k - 1) : stack'[i] = stack[i]
      BY <1>4, <1>5, <1>6, <2>7
    <3>2. k - 1 \in 0..Len(stack) /\ k - 1 <= Len(stack')
      BY <1>3, <1>6, <2>6 DEF k, N
    <3> QED
      BY <2>6, <3>1, <3>2 DEF Keeps
  <2>9. Here - 1 = k /\ Here - 2 = k - 1
    BY <1>3 DEF Here, k, N
  <2> QED
    BY <1>1, <1>2, <1>3, <1>8, <1>9, <1>11, <2>4, <2>6, <2>7, <2>8, <2>9 DEF Here, N, f, a
<1> QED
  BY <1>10, <1>11

\* A request makes a message, and its subscriber begins to handle it.
LEMMA RequestsDoes ==
  ASSUME ShapeInv, Requests
  PROVE  LET g == stack'[Above]
             h == stack'[Above + 1]
             r == sent'[Latest]
         IN  /\ UNCHANGED <<app, subscribers>> /\ exception = 0 /\ exception' = 0
             /\ stack # <<>> => Top.op = "handle" /\ Top.stage = "running"
             /\ Here \in Nat /\ Above \in Nat /\ Keeps(Here) /\ Len(stack') = Above + 1
             /\ IsRequest(g, DOMAIN sent') /\ g.op = "request" /\ g.message = Latest
             /\ g.answer = NoName
             /\ Begins(h) /\ h.message = Latest /\ h.subscriber \in DOMAIN subscribers
             /\ Grows /\ Latest \in Nat /\ Latest # 0 /\ Latest \notin DOMAIN sent
             /\ DOMAIN sent' = DOMAIN sent \cup {Latest}
             /\ \A k \in DOMAIN sent : sent'[k] = sent[k]
             /\ IsMessage(r) /\ r.by = Code /\ r.routed = "no" /\ r.settled = {}
             /\ r.answer = NoName
             /\ \E c : r.raw.correlation = NameOr(c, <<"generated", Latest>>)
<1> DEFINE m == Len(sent) + 1
           N == Len(stack)
<1>1. PICK a \in app.calls :
        LET cmd == CodeCommand(a)
            s == Min(Matches(cmd.destination))
        IN  /\ Served(cmd)
            /\ sent' = Append(sent, Message(cmd, Code))
            /\ stack' = stack \o <<[op |-> "request", message |-> m, timeout |-> cmd.timeout,
                                    answer |-> NoName], Handling(m, s)>>
            /\ deliveries' = Delivered(m, s)
  BY DEF Requests
<1> DEFINE cmd == CodeCommand(a)
           places == Matches(cmd.destination)
           s == Min(places)
           r == Message(cmd, Code)
           g == [op |-> "request", message |-> m, timeout |-> cmd.timeout, answer |-> NoName]
           h == Handling(m, s)
           two == <<g, h>>
<1>2. /\ sent' = Append(sent, r) /\ stack' = stack \o two /\ deliveries' = Delivered(m, s)
      /\ places # {} /\ exception = 0 /\ exception' = 0 /\ UNCHANGED <<app, subscribers>>
      /\ stack # <<>> => Top.op = "handle" /\ Top.stage = "running"
  BY <1>1 DEF Served, Requests, CodeCalls
<1>3. s \in DOMAIN subscribers
  <2>1. places \subseteq DOMAIN subscribers
    BY DEF Matches, Matching
  <2>2. DOMAIN subscribers = 1..Len(subscribers) /\ Len(subscribers) \in Nat
    BY SequenceHas DEF ShapeInv, AreSubscribers
  <2>3. places \in SUBSET Nat
    BY <2>1, <2>2
  <2> HIDE DEF places
  <2>4. PICK x \in places : \A y \in places : x <= y
    BY <1>2, <2>3, Smallest
  <2>5. s \in places
    BY <2>4 DEF Min
  <2> QED
    BY <2>1, <2>5
<1>4. /\ IsMessage(r) /\ r.by = Code /\ r.answer = NoName /\ r.routed = "no" /\ r.settled = {}
      /\ r.raw.correlation = NameOr(cmd.correlation, <<"generated", m>>)
  BY MadeMessage
<1>5. Begins(h) /\ h.message = m /\ h.subscriber = s
  <2> DEFINE mm == m
  <2> HIDE DEF mm, s
  <2>1. deliveries' = Delivered(mm, s) /\ h = Handling(mm, s)
    BY <1>2 DEF mm
  <2> HIDE DEF h
  <2>2. Begins(h) /\ h.message = mm /\ h.subscriber = s
    BY <2>1, HandlingBegins
  <2> QED
    BY <2>2 DEF mm
<1> HIDE DEF r, h, s, places
<1>6. /\ g.op = "request" /\ g.message = m /\ g.answer = NoName
      /\ g = [op |-> "request", message |-> g.message, timeout |-> g.timeout, answer |-> g.answer]
  OBVIOUS
<1> HIDE DEF cmd, g
<1>7. IsSequence(two) /\ Len(two) = 2 /\ two[1] = g /\ two[2] = h
  <2>1. two \in Seq({g, h}) /\ Len(two) = 2 /\ two[1] = g /\ two[2] = h
    OBVIOUS
  <2> HIDE DEF two
  <2> QED
    BY <2>1, SequenceOf
<1> HIDE DEF two
<1>8. /\ IsSequence(sent) /\ Len(sent) \in Nat /\ N \in Nat /\ IsSequence(stack)
      /\ \A k \in DOMAIN sent : IsMessage(sent[k])
  BY SequenceHas DEF ShapeInv
<1>9. /\ IsSequence(sent') /\ Len(sent') = Len(sent) + 1 /\ sent'[Len(sent) + 1] = r
      /\ \A k \in DOMAIN sent :
           /\ IsMessage(sent'[k]) /\ sent'[k].raw = sent[k].raw /\ sent'[k].by = sent[k].by
           /\ sent'[k].destination = sent[k].destination
      /\ \A k \in DOMAIN sent : sent'[k] = sent[k]
      /\ DOMAIN sent \subseteq DOMAIN sent'
      /\ \A k \in DOMAIN sent' : k \in DOMAIN sent \/ k = Len(sent) + 1
  BY <1>2, <1>8, MessageAdded
<1>10. m \in DOMAIN sent' /\ m \notin DOMAIN sent /\ m \in Nat /\ m # 0
  BY <1>8, <1>9, SequenceHas
<1>11. DOMAIN sent' = DOMAIN sent \cup {m} /\ sent'[m] = r
  BY <1>9, <1>10
<1>12. Grows
  BY <1>2, <1>5, <1>9 DEF Begins, Grows, ShapeInv
<1>13. /\ IsSequence(stack') /\ Len(stack') = N + 2
       /\ stack'[N + 1] = g /\ stack'[N + 2] = h /\ \A i \in 1..N : stack'[i] = stack[i]
  <2>1. IsSequence(stack') /\ Len(stack') = N + 2
    <3>1. stack' = stack \o two
      BY <1>2
    <3>2. IsSequence(stack') /\ Len(stack') = Len(stack) + Len(two)
      BY <1>7, <1>8, <3>1, Joined
    <3> QED
      BY <1>7, <1>8, <3>2
  <2>2. \A i \in 1..Len(stack') : stack'[i] = IF i <= Len(stack) THEN stack[i]
                                              ELSE two[i - Len(stack)]
    BY <1>2, <1>7, <1>8, Joined
  <2>3. (N + 1) - N = 1 /\ (N + 2) - N = 2 /\ ~(N + 1 <= N) /\ ~(N + 2 <= N)
    BY <1>8
  <2> QED
    BY <1>7, <1>8, <2>1, <2>2, <2>3
<1> HIDE DEF m, N
<1>14. Keeps(N)
  BY <1>8, <1>13 DEF Keeps, N
<1>15. IsRequest(g, DOMAIN sent')
  BY <1>6, <1>10 DEF IsRequest
<1>16. N + 2 = (N + 1) + 1 /\ N + 1 \in Nat
  BY <1>8
<1>17. Here = N /\ Above = N + 1 /\ Latest = m
  BY DEF Here, Above, Latest, N, m
<1>18. stack'[Above] = g /\ stack'[Above + 1] = h /\ Len(stack') = Above + 1
  BY <1>13, <1>16, <1>17
<1> QED
  BY <1>2, <1>3, <1>4, <1>5, <1>6, <1>8, <1>10, <1>11, <1>12, <1>14, <1>15, <1>16, <1>17, <1>18
     DEF N

\* The steps that change nothing but the exception.
LEMMA QuietDoes ==
  ASSUME ShapeInv, Refused \/ TimesOut \/ HandlerRaises \/ HandlerCatches \/ UNCHANGED vars
  PROVE  /\ UNCHANGED <<app, subscribers, stack, sent, deliveries>>
         /\ Here \in Nat /\ Keeps(Here) /\ Len(stack') = Here
         /\ exception' \in -1..Len(stack') /\ (Len(stack') = 0 => exception' = 0)
         /\ exception' = 0 =>
              exception = 0 \/ (stack # <<>> /\ Top.op = "handle" /\ Top.stage = "running")
<1>1. /\ Len(stack) \in Nat /\ DOMAIN stack = 1..Len(stack) /\ IsSequence(stack)
      /\ Len(stack) = 0 => stack = <<>>
      /\ exception \in -1..Len(stack) /\ (stack = <<>> => exception = 0)
  BY SequenceHas DEF ShapeInv
<1>2. /\ UNCHANGED <<app, subscribers, stack, sent, deliveries>>
      /\ exception' \in -1..Len(stack) /\ (stack = <<>> => exception' = 0)
      /\ exception' = 0 =>
           exception = 0 \/ (stack # <<>> /\ Top.op = "handle" /\ Top.stage = "running")
  <2>1. CASE Refused
    BY <1>1, <2>1 DEF Refused, CodeCalls
  <2>2. CASE TimesOut
    BY <1>1, <2>2 DEF TimesOut, Running
  <2>3. CASE HandlerRaises
    BY <1>1, <2>3 DEF HandlerRaises, Running
  <2>4. CASE HandlerCatches
    BY <1>1, <2>4 DEF HandlerCatches
  <2>5. CASE UNCHANGED vars
    BY <1>1, <2>5 DEF vars
  <2> QED
    BY <2>1, <2>2, <2>3, <2>4, <2>5
<1>3. Keeps(Len(stack)) /\ Len(stack') = Len(stack)
  BY <1>1, <1>2 DEF Keeps
<1> QED
  BY <1>1, <1>2, <1>3 DEF Here

\* A step that keeps the first k calls keeps ShapeInv, if what is new is in shape.
LEMMA ShapeStep ==
  ASSUME ShapeInv, Grows, NEW k, Keeps(k),
         \A m \in DOMAIN sent' : m \notin DOMAIN sent =>
           /\ IsMessage(sent'[m]) /\ sent'[m].by \in {Code} \cup DOMAIN deliveries'
           /\ sent'[m].raw.correlation # NoName,
         \A d \in DOMAIN deliveries' : d \notin DOMAIN deliveries =>
           /\ IsDelivery(deliveries'[d]) /\ deliveries'[d].message \in DOMAIN sent'
              /\ deliveries'[d].subscriber \in DOMAIN subscribers,
         \A n \in (k + 1)..Len(stack') :
           IsCall(stack'[n], DOMAIN sent', DOMAIN deliveries', DOMAIN subscribers),
         \A n \in (k + 1)..Len(stack') :
           stack'[n].op = "handle" => IsNested(n, stack', deliveries'),
         exception' \in -1..Len(stack'), Len(stack') = 0 => exception' = 0
  PROVE  ShapeInv'
<1>1. app' \in Applications /\ AreSubscribers(subscribers') /\ subscribers' = subscribers
  BY DEF ShapeInv, Grows
<1>2. IsSequence(sent') /\ IsSequence(deliveries') /\ IsSequence(stack')
  BY DEF Grows, Keeps
<1>3. ASSUME NEW m \in DOMAIN sent'
      PROVE  /\ IsMessage(sent'[m]) /\ sent'[m].by \in {Code} \cup DOMAIN deliveries'
             /\ sent'[m].raw.correlation # NoName
  BY DEF Grows, ShapeInv
<1>4. ASSUME NEW d \in DOMAIN deliveries'
      PROVE  /\ IsDelivery(deliveries'[d]) /\ deliveries'[d].message \in DOMAIN sent'
             /\ deliveries'[d].subscriber \in DOMAIN subscribers'
  BY <1>1 DEF Grows, ShapeInv
<1>5. Len(stack') \in Nat /\ DOMAIN stack' = 1..Len(stack') /\ Len(stack) \in Nat
      /\ DOMAIN stack = 1..Len(stack) /\ (stack' = <<>> => Len(stack') = 0)
  BY <1>2, SequenceHas DEF ShapeInv
<1>6. ASSUME NEW n \in DOMAIN stack'
      PROVE  /\ IsCall(stack'[n], DOMAIN sent', DOMAIN deliveries', DOMAIN subscribers')
             /\ stack'[n].op = "handle" => IsNested(n, stack', deliveries')
  <2>1. CASE n <= k
    <3>1. k \in 0..Len(stack) /\ \A i \in 1..k : stack'[i] = stack[i]
      BY DEF Keeps
    <3>2. n \in DOMAIN stack /\ n \in 1..k
      BY <1>5, <2>1, <3>1
    <3>3. stack'[n] = stack[n]
      BY <3>1, <3>2
    <3>4. IsCall(stack[n], DOMAIN sent, DOMAIN deliveries, DOMAIN subscribers)
      BY <3>2 DEF ShapeInv
    <3>5. IsCall(stack'[n], DOMAIN sent', DOMAIN deliveries', DOMAIN subscribers')
      BY <3>3, <3>4 DEF Grows, IsCall, IsPublish, IsRequest, IsHandling
    <3>6. ASSUME stack'[n].op = "handle" PROVE IsNested(n, stack', deliveries')
      <4>1. IsNested(n, stack, deliveries)
        BY <3>2, <3>3, <3>6 DEF ShapeInv
      <4>2. stack[n].delivery \in DOMAIN deliveries
        BY <3>3, <3>4, <3>6 DEF IsCall, IsPublish, IsRequest, IsHandling
      <4>3. n - 1 \in 1..k
        BY <3>1, <3>2, <4>1 DEF IsNested
      <4>4. stack'[n - 1] = stack[n - 1]
        BY <3>1, <4>3
      <4>5. /\ deliveries'[stack[n].delivery].message = deliveries[stack[n].delivery].message
            /\ deliveries'[stack[n].delivery].subscriber = deliveries[stack[n].delivery].subscriber
        BY <4>2 DEF Grows
      <4> QED
        BY <3>3, <4>1, <4>4, <4>5 DEF IsNested
    <3> QED
      BY <3>5, <3>6
  <2>2. CASE n > k
    <3>1. n \in (k + 1)..Len(stack')
      BY <1>5, <2>2 DEF Keeps
    <3>2. IsCall(stack'[n], DOMAIN sent', DOMAIN deliveries', DOMAIN subscribers')
      BY <1>1, <3>1
    <3> QED
      BY <3>1, <3>2
  <2> QED
    BY <1>5, <2>1, <2>2 DEF Keeps
<1>7. exception' \in -1..Len(stack') /\ (stack' = <<>> => exception' = 0)
  BY <1>5
<1> QED
  BY <1>1, <1>2, <1>3, <1>4, <1>6, <1>7 DEF ShapeInv

\* An id that is made up is a name.
LEMMA GeneratedNamed ==
  ASSUME NEW c, NEW n PROVE NameOr(c, <<"generated", n>>) # NoName
<1>1. Len(<<"generated", n>>) = 2 /\ Len(<<>>) = 0
  OBVIOUS
<1>2. <<"generated", n>> # NoName
  BY <1>1 DEF NoName
<1> QED
  BY <1>2 DEF NameOr

\* A call in the place of the innermost one, of the same message and delivery.
LEMMA NestedStays ==
  ASSUME ShapeInv, stack # <<>>, Top.op = "handle", NEW st,
         \A i \in 1..(Len(stack) - 1) : st[i] = stack[i],
         st[Len(stack)].delivery = Top.delivery, st[Len(stack)].message = Top.message,
         st[Len(stack)].subscriber = Top.subscriber
  PROVE  IsNested(Len(stack), st, deliveries)
<1>1. /\ Len(stack) > 1 /\ deliveries[Top.delivery].message = Top.message
      /\ deliveries[Top.delivery].subscriber = Top.subscriber
      /\ stack[Len(stack) - 1].op # "handle"
      /\ stack[Len(stack) - 1].message = Top.message
  BY TopHandles
<1>2. Len(stack) - 1 \in 1..(Len(stack) - 1)
  BY <1>1, TopIs
<1>3. st[Len(stack) - 1] = stack[Len(stack) - 1]
  BY <1>2
<1> QED
  BY <1>1, <1>3 DEF IsNested

\* A handler's call above the call that delivers to it.
LEMMA BeginsNested ==
  ASSUME NEW n, NEW st, Begins(st[n]), n > 1, st[n - 1].op # "handle",
         st[n - 1].message = st[n].message
  PROVE  IsNested(n, st, deliveries')
BY DEF Begins, IsNested

\* Every step keeps the stack, the messages and the deliveries in shape: one case
\* for each action, by what the lemmas above say it does.
LEMMA ShapeNext == ASSUME ShapeInv, [Next]_vars PROVE ShapeInv'
<1>1. CASE Refused \/ TimesOut \/ HandlerRaises \/ HandlerCatches \/ UNCHANGED vars
  <2>1. /\ UNCHANGED <<app, subscribers, stack, sent, deliveries>>
        /\ Here \in Nat /\ Keeps(Here) /\ Len(stack') = Here
        /\ exception' \in -1..Len(stack') /\ (Len(stack') = 0 => exception' = 0)
    BY <1>1, QuietDoes
  <2>2. (Here + 1)..Len(stack') = {} /\ Grows
    BY <2>1, Unsent
  <2> QED
    BY <2>1, <2>2, ShapeStep
<1>2. CASE Publishes
  <2>1. /\ UNCHANGED <<app, subscribers, sent, deliveries>> /\ exception' = 0
        /\ Here \in Nat /\ Keeps(Here) /\ Len(stack') = Above
        /\ IsPublish(stack'[Above], DOMAIN sent, DOMAIN deliveries, DOMAIN subscribers)
        /\ stack'[Above].op = "publish"
    BY <1>2, PublishesDoes
  <2>2. /\ (Here + 1)..Len(stack') = {Above} /\ Len(stack') # 0 /\ exception' \in -1..Len(stack')
        /\ Grows
    BY <2>1, Unsent DEF Here, Above
  <2>3. IsCall(stack'[Above], DOMAIN sent', DOMAIN deliveries', DOMAIN subscribers)
    BY <2>1 DEF IsCall
  <2> QED
    BY <2>1, <2>2, <2>3, ShapeStep
<1>3. CASE Builds
  <2> DEFINE m == Latest
             to == Top.cmd.destination
             ts == Targets(to)
             g == stack'[Here]
  <2>1. /\ UNCHANGED <<app, subscribers, deliveries>> /\ exception' = 0 /\ Top.left > 0
        /\ Here \in Nat /\ Here > 0 /\ Keeps(Here - 1) /\ Len(stack') = Here
        /\ IsPublish(Top, DOMAIN sent, DOMAIN deliveries, DOMAIN subscribers)
        /\ g = [op |-> "publish", cmd |-> Top.cmd, left |-> Top.left - 1,
                message |-> m, targets |-> ts, by |-> Top.by]
        /\ Grows /\ m # 0 /\ DOMAIN sent' = DOMAIN sent \cup {m}
        /\ IsMessage(sent'[m]) /\ sent'[m].by = Top.by
        /\ sent'[m].raw.correlation = NameOr(Top.cmd.correlation, <<"generated", m>>)
    BY <1>3, BuildsDoes
  <2>2. ts \subseteq DOMAIN subscribers
    BY DEF Targets, Matches, Matching
  <2> HIDE DEF ts, m, g
  <2>3. /\ (Here - 1 + 1)..Len(stack') = {Here} /\ Len(stack') # 0 /\ exception' \in -1..Len(stack')
    BY <2>1
  <2>4. g.op = "publish" /\ IsCall(g, DOMAIN sent', DOMAIN deliveries', DOMAIN subscribers)
    <3>1. Top.left \in Nat /\ Top.by \in {Code} \cup DOMAIN deliveries
      BY <2>1 DEF IsPublish
    <3>2. /\ g.message # 0 /\ g.left \in Nat /\ g.op = "publish"
      BY <2>1, <3>1
    <3>3. /\ g.message \in {0} \cup DOMAIN sent' /\ g.targets \subseteq DOMAIN subscribers
          /\ g.by \in {Code} \cup DOMAIN deliveries
          /\ g = [op |-> "publish", cmd |-> g.cmd, left |-> g.left, message |-> g.message,
                  targets |-> g.targets, by |-> g.by]
      BY <2>1, <2>2, <3>1
    <3>4. IsPublish(g, DOMAIN sent', DOMAIN deliveries', DOMAIN subscribers)
      BY <2>1, <3>2, <3>3 DEF IsPublish
    <3> QED
      BY <3>2, <3>4 DEF IsCall
  <2>5. \A k \in DOMAIN sent' : k \notin DOMAIN sent =>
          /\ IsMessage(sent'[k]) /\ sent'[k].by \in {Code} \cup DOMAIN deliveries'
          /\ sent'[k].raw.correlation # NoName
    <3>1. Top.by \in {Code} \cup DOMAIN deliveries
      BY <2>1 DEF IsPublish
    <3>2. sent'[m].raw.correlation # NoName
      BY <2>1, GeneratedNamed
    <3> QED
      BY <2>1, <3>1, <3>2
  <2> QED
    BY <2>1, <2>3, <2>4, <2>5, ShapeStep DEF g
<1>4. CASE Routes
  <2> DEFINE g == stack'[Here]
             h == stack'[Above]
             ts == Top.targets \ {h.subscriber}
  <2>1. /\ UNCHANGED <<app, subscribers, sent>> /\ exception' = 0
        /\ Here \in Nat /\ Here > 0 /\ Keeps(Here - 1) /\ Len(stack') = Above
        /\ IsPublish(Top, DOMAIN sent, DOMAIN deliveries, DOMAIN subscribers)
        /\ g = [op |-> "publish", cmd |-> Top.cmd, left |-> Top.left,
                message |-> Top.message, targets |-> ts, by |-> Top.by]
        /\ h.subscriber \in Top.targets /\ h.message = Top.message
        /\ Top.message \in DOMAIN sent /\ Top.message # 0
        /\ Begins(h) /\ Grows
    BY <1>4, RoutesDoes
  <2> HIDE DEF g, h
  <2>2. g.op = "publish" /\ IsCall(g, DOMAIN sent', DOMAIN deliveries', DOMAIN subscribers)
    <3>1. g.op = "publish" /\ g.message = Top.message /\ g.left = Top.left /\ g.by = Top.by
          /\ g.targets = ts /\ g.cmd = Top.cmd
      BY <2>1
    <3>2. /\ Top.left \in Nat /\ Top.targets \subseteq DOMAIN subscribers
          /\ Top.by \in {Code} \cup DOMAIN deliveries
      BY <2>1 DEF IsPublish
    <3>3. Top.by \in {Code} \cup DOMAIN deliveries' /\ ts \subseteq DOMAIN subscribers
      BY <2>1, <3>2 DEF Grows
    <3> HIDE DEF ts
    <3>4. IsPublish(g, DOMAIN sent', DOMAIN deliveries', DOMAIN subscribers)
      BY <2>1, <3>1, <3>2, <3>3 DEF IsPublish
    <3> QED
      BY <3>1, <3>4 DEF IsCall
  <2>3. h.op = "handle" /\ IsCall(h, DOMAIN sent', DOMAIN deliveries', DOMAIN subscribers)
    BY <2>1 DEF Begins, IsCall
  <2>4. g.message = h.message /\ g.op # "handle"
    BY <2>1, <2>2
  <2>5. /\ \A n \in (Here - 1 + 1)..Len(stack') : n = Here \/ n = Above
        /\ Above > 1 /\ Above - 1 = Here
        /\ Len(stack') # 0 /\ exception' \in -1..Len(stack')
    BY <2>1 DEF Here, Above
  <2>6. IsNested(Above, stack', deliveries')
    BY <2>1, <2>4, <2>5, BeginsNested DEF g, h
  <2>7. \A n \in (Here - 1 + 1)..Len(stack') :
          IsCall(stack'[n], DOMAIN sent', DOMAIN deliveries', DOMAIN subscribers)
    BY <2>2, <2>3, <2>5 DEF g, h
  <2>8. \A n \in (Here - 1 + 1)..Len(stack') :
          stack'[n].op = "handle" => IsNested(n, stack', deliveries')
    BY <2>2, <2>5, <2>6 DEF g
  <2>9. \A d \in DOMAIN deliveries' : d \notin DOMAIN deliveries =>
          /\ IsDelivery(deliveries'[d]) /\ deliveries'[d].message \in DOMAIN sent'
          /\ deliveries'[d].subscriber \in DOMAIN subscribers
    BY <2>1 DEF Begins, IsPublish
  <2> QED
    BY <2>1, <2>5, <2>7, <2>8, <2>9, ShapeStep
<1>5. CASE PublishReturns
  <2>1. /\ exception' = 0 /\ UNCHANGED deliveries
        /\ Here \in Nat /\ Here > 0 /\ Keeps(Here - 1) /\ Len(stack') = Here - 1
        /\ Grows /\ DOMAIN sent' = DOMAIN sent
    BY <1>5, PublishReturnsDoes
  <2>2. (Here - 1 + 1)..Len(stack') = {} /\ exception' \in -1..Len(stack')
    BY <2>1
  <2> QED
    BY <2>1, <2>2, ShapeStep
<1>6. CASE Requests
  <2> DEFINE g == stack'[Above]
             h == stack'[Above + 1]
             m == Latest
  <2>1. /\ UNCHANGED <<app, subscribers>> /\ exception' = 0
        /\ Here \in Nat /\ Above \in Nat /\ Keeps(Here) /\ Len(stack') = Above + 1
        /\ IsRequest(g, DOMAIN sent') /\ g.op = "request" /\ g.message = m
        /\ Begins(h) /\ h.message = m /\ h.subscriber \in DOMAIN subscribers
        /\ Grows /\ DOMAIN sent' = DOMAIN sent \cup {m}
        /\ IsMessage(sent'[m]) /\ sent'[m].by = Code
        /\ \E c : sent'[m].raw.correlation = NameOr(c, <<"generated", m>>)
    BY <1>6, RequestsDoes
  <2> HIDE DEF g, h, m
  <2>2. IsCall(g, DOMAIN sent', DOMAIN deliveries', DOMAIN subscribers)
    BY <2>1 DEF IsCall
  <2>3. h.op = "handle" /\ IsCall(h, DOMAIN sent', DOMAIN deliveries', DOMAIN subscribers)
    BY <2>1 DEF Begins, IsCall
  <2>4. /\ \A n \in (Here + 1)..Len(stack') : n = Above \/ n = Above + 1
        /\ Above + 1 > 1 /\ (Above + 1) - 1 = Above
        /\ Len(stack') # 0 /\ exception' \in -1..Len(stack')
    BY <2>1 DEF Here, Above
  <2>5. IsNested(Above + 1, stack', deliveries')
    <3> DEFINE n == Above + 1
    <3>1. n > 1 /\ n - 1 = Above /\ h = stack'[n]
      BY <2>4 DEF h
    <3> HIDE DEF n
    <3>2. IsNested(n, stack', deliveries')
      BY <2>1, <3>1, BeginsNested DEF g
    <3> QED
      BY <3>2 DEF n
  <2>6. \A n \in (Here + 1)..Len(stack') :
          IsCall(stack'[n], DOMAIN sent', DOMAIN deliveries', DOMAIN subscribers)
    BY <2>2, <2>3, <2>4 DEF g, h
  <2>7. \A n \in (Here + 1)..Len(stack') :
          stack'[n].op = "handle" => IsNested(n, stack', deliveries')
    BY <2>1, <2>4, <2>5 DEF g
  <2>8. \A d \in DOMAIN deliveries' : d \notin DOMAIN deliveries =>
          /\ IsDelivery(deliveries'[d]) /\ deliveries'[d].message \in DOMAIN sent'
          /\ deliveries'[d].subscriber \in DOMAIN subscribers
    BY <2>1 DEF Begins
  <2>9. \A k \in DOMAIN sent' : k \notin DOMAIN sent =>
          /\ IsMessage(sent'[k]) /\ sent'[k].by \in {Code} \cup DOMAIN deliveries'
          /\ sent'[k].raw.correlation # NoName
    BY <2>1, GeneratedNamed
  <2> QED
    BY <2>1, <2>4, <2>6, <2>7, <2>8, <2>9, ShapeStep
<1>7. CASE RequestReturns
  <2>1. /\ exception' = 0 /\ UNCHANGED deliveries
        /\ Here \in Nat /\ Here > 0 /\ Keeps(Here - 1) /\ Len(stack') = Here - 1
        /\ Grows /\ DOMAIN sent' = DOMAIN sent
    BY <1>7, RequestReturnsDoes
  <2>2. (Here - 1 + 1)..Len(stack') = {} /\ exception' \in -1..Len(stack')
    BY <2>1
  <2> QED
    BY <2>1, <2>2, ShapeStep
<1>8. CASE HandlerReturns
  <2> DEFINE g == stack'[Here]
  <2>1. /\ UNCHANGED <<app, subscribers, sent, deliveries>> /\ exception' = 0
        /\ stack # <<>> /\ Top.op = "handle"
        /\ Here \in Nat /\ Here > 0 /\ Keeps(Here - 1) /\ Len(stack') = Here
        /\ IsHandling(g, DOMAIN deliveries) /\ g.op = "handle"
        /\ g.delivery = Top.delivery /\ g.message = Top.message
        /\ g.subscriber = Top.subscriber
    BY <1>8, HandlerReturnsDoes
  <2>2. IsNested(Here, stack', deliveries)
    BY <2>1, NestedStays DEF Here, Keeps
  <2>3. /\ (Here - 1 + 1)..Len(stack') = {Here} /\ Len(stack') # 0 /\ exception' \in -1..Len(stack')
        /\ Grows
    BY <2>1, Unsent
  <2>4. IsCall(g, DOMAIN sent', DOMAIN deliveries', DOMAIN subscribers)
    BY <2>1 DEF IsCall
  <2> QED
    BY <2>1, <2>2, <2>3, <2>4, ShapeStep
<1>9. CASE Replying
  <2> DEFINE g == stack'[Here]
             h == stack'[Above]
  <2>1. /\ UNCHANGED <<app, subscribers, sent, deliveries>> /\ exception' = 0
        /\ stack # <<>> /\ Top.op = "handle"
        /\ Here \in Nat /\ Here > 0 /\ Keeps(Here - 1) /\ Len(stack') = Above
        /\ IsHandling(g, DOMAIN deliveries) /\ g.op = "handle"
        /\ g.delivery = Top.delivery /\ g.message = Top.message
        /\ g.subscriber = Top.subscriber
        /\ IsPublish(h, DOMAIN sent, DOMAIN deliveries, DOMAIN subscribers) /\ h.op = "publish"
    BY <1>9, ReplyingDoes
  <2>2. IsNested(Here, stack', deliveries)
    BY <2>1, NestedStays DEF Here, Keeps
  <2>3. /\ \A n \in (Here - 1 + 1)..Len(stack') : n = Here \/ n = Above
        /\ Len(stack') # 0 /\ exception' \in -1..Len(stack') /\ Grows
    BY <2>1, Unsent DEF Here, Above
  <2>4. /\ IsCall(g, DOMAIN sent', DOMAIN deliveries', DOMAIN subscribers)
        /\ IsCall(h, DOMAIN sent', DOMAIN deliveries', DOMAIN subscribers)
    BY <2>1 DEF IsCall
  <2>5. \A n \in (Here - 1 + 1)..Len(stack') :
          IsCall(stack'[n], DOMAIN sent', DOMAIN deliveries', DOMAIN subscribers)
    BY <2>3, <2>4
  <2>6. \A n \in (Here - 1 + 1)..Len(stack') :
          stack'[n].op = "handle" => IsNested(n, stack', deliveries')
    BY <2>1, <2>2, <2>3
  <2> QED
    BY <2>1, <2>3, <2>5, <2>6, ShapeStep
<1>10. CASE Handled
  <2> DEFINE f == stack[Here - 1]
             g == stack'[Here - 1]
  <2>1. /\ UNCHANGED <<app, subscribers>> /\ exception' = 0 /\ Settles(TRUE)
        /\ stack # <<>> /\ Top.op = "handle"
        /\ Here \in Nat /\ Here > 1 /\ Keeps(Here - 2) /\ Len(stack') = Here - 1
        /\ IsCall(f, DOMAIN sent, DOMAIN deliveries, DOMAIN subscribers) /\ f.op # "handle"
        /\ IF f.op = "request" THEN IsRequest(g, DOMAIN sent) /\ g.op = "request" ELSE g = f
    BY <1>10, HandledDoes
  <2>2. /\ Grows /\ DOMAIN sent' = DOMAIN sent /\ DOMAIN deliveries' = DOMAIN deliveries
    BY <2>1, SettlesDoes
  <2> HIDE DEF f, g
  <2>3. /\ IsCall(g, DOMAIN sent', DOMAIN deliveries', DOMAIN subscribers) /\ g.op # "handle"
    BY <2>1, <2>2 DEF IsCall
  <2>4. /\ \A n \in (Here - 2 + 1)..Len(stack') : n = Here - 1
        /\ Len(stack') # 0 /\ exception' \in -1..Len(stack')
    BY <2>1
  <2> QED
    BY <2>1, <2>2, <2>3, <2>4, ShapeStep DEF g
<1>11. CASE Unwinds
  <2>1. /\ Here \in Nat /\ Here > 0 /\ Keeps(Here - 1) /\ Len(stack') = Here - 1
        /\ exception' \in -1..Len(stack') /\ (Here = 1 <=> exception' = 0)
        /\ Grows /\ DOMAIN sent' = DOMAIN sent /\ DOMAIN deliveries' = DOMAIN deliveries
    BY <1>11, UnwindsDoes
  <2>2. (Here - 1 + 1)..Len(stack') = {} /\ (Len(stack') = 0 => exception' = 0)
    BY <2>1
  <2> QED
    BY <2>1, <2>2, ShapeStep
<1> QED
  BY <1>1, <1>2, <1>3, <1>4, <1>5, <1>6, <1>7, <1>8, <1>9, <1>10, <1>11 DEF Next

-----------------------------------------------------------------------------
(* Correlation ids *)

\* The correlation ids that the message m, and what is made of it, may have.
Ids(m, ms, rs) == {ms[m].raw.correlation} \cup {r.correlation : r \in rs}

MessageFollows(m, ms, ds, rs) ==
  /\ ms[m].answer # NoName => ms[m].answer \in Ids(m, ms, rs)
  /\ ms[m].by # Code => ms[m].raw.correlation \in Ids(ds[ms[m].by].message, ms, rs)

CallFollows(f, ms, ds, rs) ==
  /\ f.op = "publish" /\ f.by # Code =>
       f.cmd.correlation \in Ids(ds[f.by].message, ms, rs) \ {NoName}
  /\ f.op # "publish" /\ f.answer # NoName => f.answer \in Ids(f.message, ms, rs)
  /\ f.op = "handle" => \A i \in DOMAIN f.replies :
       f.replies[i].correlation \in Ids(f.message, ms, rs) \ {NoName}

\* What is still to be published or to become an answer follows, too.
CorrelationInv ==
  /\ \A m \in DOMAIN sent : MessageFollows(m, sent, deliveries, app.responses)
  /\ \A n \in DOMAIN stack : CallFollows(stack[n], sent, deliveries, app.responses)

\* The ids that a message may hand on do not change.
LEMMA IdsKept ==
  ASSUME Grows, NEW m \in DOMAIN sent
  PROVE  Ids(m, sent', app'.responses) = Ids(m, sent, app.responses)
BY DEF Grows, Ids

\* A call that stays follows its message as it did.
LEMMA CallKept ==
  ASSUME ShapeInv, Grows, NEW f,
         IsCall(f, DOMAIN sent, DOMAIN deliveries, DOMAIN subscribers)
  PROVE  /\ IsCall(f, DOMAIN sent', DOMAIN deliveries', DOMAIN subscribers')
         /\ (/\ f.op = "handle" => f.message \in DOMAIN sent
             /\ CallFollows(f, sent, deliveries, app.responses))
              => CallFollows(f, sent', deliveries', app'.responses)
<1>1. IsCall(f, DOMAIN sent', DOMAIN deliveries', DOMAIN subscribers')
  BY DEF Grows, IsCall, IsPublish, IsRequest, IsHandling
<1>2. ASSUME f.op # "publish", f.message \in DOMAIN sent,
             CallFollows(f, sent, deliveries, app.responses)
      PROVE  CallFollows(f, sent', deliveries', app'.responses)
  <2>1. Ids(f.message, sent', app'.responses) = Ids(f.message, sent, app.responses)
    BY <1>2, IdsKept
  <2> QED
    BY <1>2, <2>1 DEF CallFollows
<1>3. ASSUME f.op = "publish", CallFollows(f, sent, deliveries, app.responses)
      PROVE  CallFollows(f, sent', deliveries', app'.responses)
  <2>1. CASE f.by = Code
    BY <1>3, <2>1 DEF CallFollows
  <2>2. CASE f.by # Code
    <3>1. f.by \in DOMAIN deliveries
      BY <1>3, <2>2 DEF IsCall, IsPublish, IsRequest, IsHandling
    <3> DEFINE m == deliveries[f.by].message
    <3>2. m \in DOMAIN sent /\ deliveries'[f.by].message = m
      BY <3>1 DEF ShapeInv, Grows
    <3>3. Ids(m, sent', app'.responses) = Ids(m, sent, app.responses)
      BY <3>2, IdsKept
    <3> QED
      BY <1>3, <3>2, <3>3 DEF CallFollows
  <2> QED
    BY <2>1, <2>2
<1>4. f.op = "request" => f.message \in DOMAIN sent
  BY DEF IsCall, IsPublish, IsRequest, IsHandling
<1>5. f.op \in {"publish", "request", "handle"}
  BY DEF IsCall, IsPublish, IsRequest, IsHandling
<1> QED
  BY <1>1, <1>2, <1>3, <1>4, <1>5

\* The same for CorrelationInv.
LEMMA CorrelationStep ==
  ASSUME ShapeInv, CorrelationInv, Grows, NEW k, Keeps(k),
         \A m \in DOMAIN sent : \/ sent'[m].answer = sent[m].answer
                                \/ sent'[m].answer = NoName
                                \/ sent'[m].answer \in Ids(m, sent, app.responses),
         \A m \in DOMAIN sent' : m \notin DOMAIN sent =>
           MessageFollows(m, sent', deliveries', app'.responses),
         \A n \in (k + 1)..Len(stack') :
           CallFollows(stack'[n], sent', deliveries', app'.responses)
  PROVE  CorrelationInv'
<1>1. ASSUME NEW m \in DOMAIN sent
      PROVE  MessageFollows(m, sent', deliveries', app'.responses)
  <2>1. MessageFollows(m, sent, deliveries, app.responses)
    BY DEF CorrelationInv
  <2>2. sent'[m].raw = sent[m].raw /\ sent'[m].by = sent[m].by
    BY DEF Grows
  <2>3. Ids(m, sent', app'.responses) = Ids(m, sent, app.responses)
    BY IdsKept
  <2>4. sent'[m].answer # NoName => sent'[m].answer \in Ids(m, sent', app'.responses)
    BY <2>1, <2>3 DEF MessageFollows
  <2>5. ASSUME sent'[m].by # Code
        PROVE  sent'[m].raw.correlation
                 \in Ids(deliveries'[sent'[m].by].message, sent', app'.responses)
    <3> DEFINE d == sent[m].by
               o == deliveries[d].message
    <3>1. d \in DOMAIN deliveries
      BY <2>2, <2>5 DEF ShapeInv
    <3>2. o \in DOMAIN sent /\ deliveries'[d].message = o
      BY <3>1 DEF ShapeInv, Grows
    <3>3. Ids(o, sent', app'.responses) = Ids(o, sent, app.responses)
      BY <3>2, IdsKept
    <3> QED
      BY <2>1, <2>2, <2>5, <3>2, <3>3 DEF MessageFollows
  <2> QED
    BY <2>1, <2>2, <2>4, <2>5 DEF MessageFollows
<1>2. ASSUME NEW n \in DOMAIN stack'
      PROVE  CallFollows(stack'[n], sent', deliveries', app'.responses)
  <2>1. /\ Len(stack') \in Nat /\ DOMAIN stack' = 1..Len(stack') /\ Len(stack) \in Nat
        /\ DOMAIN stack = 1..Len(stack) /\ k \in 0..Len(stack)
    BY SequenceHas DEF ShapeInv, Keeps
  <2>2. CASE n <= k
    <3>1. n \in DOMAIN stack /\ stack'[n] = stack[n]
      BY <2>1, <2>2 DEF Keeps
    <3>2. IsCall(stack[n], DOMAIN sent, DOMAIN deliveries, DOMAIN subscribers)
      BY <3>1 DEF ShapeInv
    <3>3. CallFollows(stack[n], sent, deliveries, app.responses)
      BY <3>1 DEF CorrelationInv
    <3>4. stack[n].op = "handle" => stack[n].message \in DOMAIN sent
      <4> SUFFICES ASSUME stack[n].op = "handle" PROVE stack[n].message \in DOMAIN sent
        OBVIOUS
      <4>1. stack[n].delivery \in DOMAIN deliveries
        BY <3>2 DEF IsCall, IsPublish, IsRequest, IsHandling
      <4>2. deliveries[stack[n].delivery].message = stack[n].message
        BY <3>1 DEF ShapeInv, IsNested
      <4>3. \A d \in DOMAIN deliveries : deliveries[d].message \in DOMAIN sent
        BY DEF ShapeInv
      <4> QED
        BY <4>1, <4>2, <4>3
    <3> QED
      BY <3>1, <3>2, <3>3, <3>4, CallKept
  <2>3. CASE n > k
    <3>1. n \in (k + 1)..Len(stack')
      BY <2>1, <2>3
    <3> QED
      BY <3>1
  <2> QED
    BY <2>1, <2>2, <2>3
<1> QED
  BY <1>1, <1>2 DEF CorrelationInv

\* Every step keeps the correlation ids: what is new takes its id from the message
\* that the handler below was given, or from a response that the handler made.
LEMMA CorrelationNext == ASSUME ShapeInv, CorrelationInv, [Next]_vars PROVE CorrelationInv'
<1>1. CASE Refused \/ TimesOut \/ HandlerRaises \/ HandlerCatches \/ UNCHANGED vars
  <2>1. /\ UNCHANGED <<app, subscribers, sent, deliveries>>
        /\ Here \in Nat /\ Keeps(Here) /\ Len(stack') = Here
    BY <1>1, QuietDoes
  <2>2. (Here + 1)..Len(stack') = {} /\ Grows /\ SameAnswers
    BY <2>1, Unsent
  <2> QED
    BY <2>1, <2>2, CorrelationStep DEF SameAnswers
<1>2. CASE Publishes
  <2>1. /\ UNCHANGED <<app, subscribers, sent, deliveries>>
        /\ Here \in Nat /\ Keeps(Here) /\ Len(stack') = Above
        /\ stack'[Above].op = "publish" /\ stack'[Above].by = Code
    BY <1>2, PublishesDoes
  <2>2. (Here + 1)..Len(stack') = {Above} /\ Grows /\ SameAnswers
    BY <2>1, Unsent DEF Here, Above
  <2>3. CallFollows(stack'[Above], sent', deliveries', app'.responses)
    BY <2>1 DEF CallFollows
  <2> QED
    BY <2>1, <2>2, <2>3, CorrelationStep DEF SameAnswers
<1>3. CASE Builds
  <2> DEFINE m == Latest
             g == stack'[Here]
             f == Top
             ts == Targets(Top.cmd.destination)
  <2>1. /\ UNCHANGED <<app, subscribers, deliveries>> /\ stack # <<>> /\ f.op = "publish"
        /\ Here \in Nat /\ Here > 0 /\ Keeps(Here - 1) /\ Len(stack') = Here
        /\ IsPublish(f, DOMAIN sent, DOMAIN deliveries, DOMAIN subscribers)
        /\ g = [op |-> "publish", cmd |-> f.cmd, left |-> f.left - 1,
                message |-> m, targets |-> ts, by |-> f.by]
        /\ Grows /\ DOMAIN sent' = DOMAIN sent \cup {m}
        /\ \A k \in DOMAIN sent : sent'[k].answer = sent[k].answer
        /\ sent'[m].by = f.by /\ sent'[m].answer = NoName
        /\ sent'[m].raw.correlation = NameOr(f.cmd.correlation, <<"generated", m>>)
    BY <1>3, BuildsDoes
  <2> HIDE DEF m, g, ts
  <2>2. CallFollows(f, sent, deliveries, app.responses)
    BY <2>1, TopIs DEF CorrelationInv
  <2>3. IsCall(f, DOMAIN sent, DOMAIN deliveries, DOMAIN subscribers)
    BY <2>1 DEF IsCall
  <2> HIDE DEF f
  <2>4. CallFollows(f, sent', deliveries', app'.responses)
    BY <2>1, <2>2, <2>3, CallKept
  <2>5. g.op = "publish" /\ g.by = f.by /\ g.cmd = f.cmd
    BY <2>1
  <2>6. CallFollows(g, sent', deliveries', app'.responses)
    BY <2>1, <2>4, <2>5 DEF CallFollows
  <2>7. MessageFollows(m, sent', deliveries', app'.responses)
    BY <2>1, <2>4 DEF MessageFollows, CallFollows, NameOr
  <2>8. (Here - 1 + 1)..Len(stack') = {Here}
    BY <2>1
  <2>9. \A n \in (Here - 1 + 1)..Len(stack') :
          CallFollows(stack'[n], sent', deliveries', app'.responses)
    BY <2>6, <2>8 DEF g
  <2>10. \A k \in DOMAIN sent' : k \notin DOMAIN sent =>
           MessageFollows(k, sent', deliveries', app'.responses)
    BY <2>1, <2>7
  <2> QED
    BY <2>1, <2>9, <2>10, CorrelationStep
<1>4. CASE Routes
  <2> DEFINE g == stack'[Here]
             h == stack'[Above]
             f == Top
             ts == f.targets \ {h.subscriber}
  <2>1. /\ UNCHANGED <<app, subscribers, sent>> /\ stack # <<>> /\ f.op = "publish"
        /\ Here \in Nat /\ Here > 0 /\ Keeps(Here - 1) /\ Len(stack') = Above
        /\ IsPublish(f, DOMAIN sent, DOMAIN deliveries, DOMAIN subscribers)
        /\ g = [op |-> "publish", cmd |-> f.cmd, left |-> f.left,
                message |-> f.message, targets |-> ts, by |-> f.by]
        /\ Begins(h) /\ Grows
    BY <1>4, RoutesDoes
  <2> HIDE DEF g, h, ts
  <2>2. CallFollows(f, sent, deliveries, app.responses)
    BY <2>1, TopIs DEF CorrelationInv
  <2>3. IsCall(f, DOMAIN sent, DOMAIN deliveries, DOMAIN subscribers)
    BY <2>1 DEF IsCall
  <2> HIDE DEF f
  <2>4. CallFollows(f, sent', deliveries', app'.responses)
    BY <2>1, <2>2, <2>3, CallKept
  <2>5. g.op = "publish" /\ g.by = f.by /\ g.cmd = f.cmd
    BY <2>1
  <2>6. CallFollows(g, sent', deliveries', app'.responses)
    BY <2>1, <2>4, <2>5 DEF CallFollows
  <2>7. CallFollows(h, sent', deliveries', app'.responses)
    BY <2>1, NoSequence DEF Begins, CallFollows
  <2>8. \A n \in (Here - 1 + 1)..Len(stack') : n = Here \/ n = Above
    BY <2>1 DEF Here, Above
  <2>9. \A n \in (Here - 1 + 1)..Len(stack') :
          CallFollows(stack'[n], sent', deliveries', app'.responses)
    BY <2>6, <2>7, <2>8 DEF g, h
  <2> QED
    BY <2>1, <2>9, CorrelationStep
<1>5. CASE PublishReturns
  <2>1. /\ Here \in Nat /\ Here > 0 /\ Keeps(Here - 1) /\ Len(stack') = Here - 1
        /\ Grows /\ DOMAIN sent' = DOMAIN sent /\ SameAnswers
    BY <1>5, PublishReturnsDoes
  <2>2. (Here - 1 + 1)..Len(stack') = {}
    BY <2>1
  <2> QED
    BY <2>1, <2>2, CorrelationStep DEF SameAnswers
<1>6. CASE Requests
  <2> DEFINE g == stack'[Above]
             h == stack'[Above + 1]
             m == Latest
  <2>1. /\ Here \in Nat /\ Above \in Nat /\ Keeps(Here) /\ Len(stack') = Above + 1
        /\ g.op = "request" /\ g.answer = NoName /\ Begins(h)
        /\ Grows /\ DOMAIN sent' = DOMAIN sent \cup {m}
        /\ \A k \in DOMAIN sent : sent'[k] = sent[k]
        /\ sent'[m].by = Code /\ sent'[m].answer = NoName
    BY <1>6, RequestsDoes
  <2> HIDE DEF g, h, m
  <2>2. CallFollows(g, sent', deliveries', app'.responses)
    BY <2>1 DEF CallFollows
  <2>3. CallFollows(h, sent', deliveries', app'.responses)
    BY <2>1, NoSequence DEF Begins, CallFollows
  <2>4. MessageFollows(m, sent', deliveries', app'.responses)
    BY <2>1 DEF MessageFollows
  <2>5. \A n \in (Here + 1)..Len(stack') : n = Above \/ n = Above + 1
    BY <2>1 DEF Here, Above
  <2>6. \A n \in (Here + 1)..Len(stack') :
          CallFollows(stack'[n], sent', deliveries', app'.responses)
    BY <2>2, <2>3, <2>5 DEF g, h
  <2>7. \A k \in DOMAIN sent' : k \notin DOMAIN sent =>
          MessageFollows(k, sent', deliveries', app'.responses)
    BY <2>1, <2>4
  <2> QED
    BY <2>1, <2>6, <2>7, CorrelationStep
<1>7. CASE RequestReturns
  <2>1. /\ stack # <<>> /\ Top.op = "request"
        /\ Here \in Nat /\ Here > 0 /\ Keeps(Here - 1) /\ Len(stack') = Here - 1
        /\ Grows /\ DOMAIN sent' = DOMAIN sent
        /\ \A k \in DOMAIN sent :
             sent'[k].answer = IF k = Top.message THEN Top.answer ELSE sent[k].answer
    BY <1>7, RequestReturnsDoes
  <2>2. Top.answer # NoName => Top.answer \in Ids(Top.message, sent, app.responses)
    <3>1. CallFollows(Top, sent, deliveries, app.responses)
      BY <2>1, TopIs DEF CorrelationInv
    <3> QED
      BY <2>1, <3>1 DEF CallFollows
  <2>3. (Here - 1 + 1)..Len(stack') = {}
    BY <2>1
  <2> QED
    BY <2>1, <2>2, <2>3, CorrelationStep
<1>8. CASE HandlerReturns
  <2> DEFINE g == stack'[Here]
  <2>1. /\ UNCHANGED <<app, subscribers, sent, deliveries>>
        /\ Here \in Nat /\ Here > 0 /\ Keeps(Here - 1) /\ Len(stack') = Here
        /\ g.op = "handle" /\ g.message = Top.message
        /\ g.answer \in {sent[Top.message].raw.correlation} \cup {r.correlation : r \in app.responses}
        /\ g.answer # NoName
        /\ \A i \in DOMAIN g.replies : g.replies[i].correlation = g.answer
    BY <1>8, HandlerReturnsDoes
  <2>2. (Here - 1 + 1)..Len(stack') = {Here} /\ Grows /\ SameAnswers
    BY <2>1, Unsent
  <2> HIDE DEF g
  <2>3. CallFollows(g, sent', deliveries', app'.responses)
    BY <2>1 DEF CallFollows, Ids
  <2> QED
    BY <2>1, <2>2, <2>3, CorrelationStep DEF SameAnswers, g
<1>9. CASE Replying
  <2> DEFINE g == stack'[Here]
             h == stack'[Above]
             rs == Top.replies
  <2>1. /\ UNCHANGED <<app, subscribers, sent, deliveries>> /\ stack # <<>> /\ Top.op = "handle"
        /\ Here \in Nat /\ Here > 0 /\ Keeps(Here - 1) /\ Len(stack') = Above
        /\ g.op = "handle" /\ g.message = Top.message /\ g.answer = Top.answer
        /\ \A i \in DOMAIN g.replies : \E j \in DOMAIN rs : g.replies[i] = rs[j]
        /\ h.op = "publish" /\ h.by = Top.delivery
        /\ \E j \in DOMAIN rs : h.cmd = rs[j]
    BY <1>9, ReplyingDoes
  <2>2. CallFollows(Top, sent, deliveries, app.responses)
    BY <2>1, TopIs DEF CorrelationInv
  <2>3. deliveries[Top.delivery].message = Top.message
    BY <2>1, TopHandles
  <2> HIDE DEF g, h
  <2>4. \A j \in DOMAIN rs : rs[j].correlation \in Ids(Top.message, sent, app.responses) \ {NoName}
    BY <2>1, <2>2 DEF CallFollows
  <2>5. Top.answer # NoName => Top.answer \in Ids(Top.message, sent, app.responses)
    BY <2>1, <2>2 DEF CallFollows
  <2> HIDE DEF rs
  <2>6. CallFollows(g, sent', deliveries', app'.responses)
    BY <2>1, <2>4, <2>5 DEF CallFollows
  <2>7. CallFollows(h, sent', deliveries', app'.responses)
    BY <2>1, <2>3, <2>4 DEF CallFollows
  <2>8. /\ \A n \in (Here - 1 + 1)..Len(stack') : n = Here \/ n = Above
        /\ Grows /\ SameAnswers
    BY <2>1, Unsent DEF Here, Above
  <2>9. \A n \in (Here - 1 + 1)..Len(stack') :
          CallFollows(stack'[n], sent', deliveries', app'.responses)
    BY <2>6, <2>7, <2>8 DEF g, h
  <2> QED
    BY <2>1, <2>8, <2>9, CorrelationStep DEF SameAnswers
<1>10. CASE Handled
  <2> DEFINE f == stack[Here - 1]
             g == stack'[Here - 1]
  <2>1. /\ UNCHANGED <<app, subscribers>> /\ Settles(TRUE)
        /\ stack # <<>> /\ Top.op = "handle"
        /\ Here \in Nat /\ Here > 1 /\ Keeps(Here - 2) /\ Len(stack') = Here - 1
        /\ f.op # "handle" /\ Top.message \in DOMAIN sent
        /\ IsCall(f, DOMAIN sent, DOMAIN deliveries, DOMAIN subscribers)
        /\ IF f.op = "request"
           THEN g.op = "request" /\ g.message = Top.message /\ g.answer = Top.answer
           ELSE g = f
    BY <1>10, HandledDoes
  <2>2. Grows /\ SameAnswers /\ DOMAIN sent' = DOMAIN sent
    BY <2>1, SettlesDoes
  <2>3. Here - 1 \in DOMAIN stack
    BY <2>1, TopIs DEF Here
  <2>4. CallFollows(f, sent, deliveries, app.responses)
    BY <2>3 DEF CorrelationInv
  <2> HIDE DEF f, g
  <2>5. CallFollows(g, sent', deliveries', app'.responses)
    <3>1. CASE f.op = "request"
      <4>1. CallFollows(Top, sent, deliveries, app.responses)
        BY <2>1, TopIs DEF CorrelationInv
      <4>2. Ids(Top.message, sent', app'.responses) = Ids(Top.message, sent, app.responses)
        BY <2>1, <2>2, IdsKept
      <4> QED
        BY <2>1, <3>1, <4>1, <4>2 DEF CallFollows
    <3>2. CASE f.op # "request"
      BY <2>1, <2>2, <2>4, <3>2, CallKept
    <3> QED
      BY <3>1, <3>2
  <2>6. \A n \in (Here - 2 + 1)..Len(stack') : n = Here - 1
    BY <2>1
  <2> QED
    BY <2>1, <2>2, <2>5, <2>6, CorrelationStep DEF SameAnswers, g
<1>11. CASE Unwinds
  <2>1. /\ Here \in Nat /\ Here > 0 /\ Keeps(Here - 1) /\ Len(stack') = Here - 1
        /\ Grows /\ DOMAIN sent' = DOMAIN sent /\ SameAnswers
    BY <1>11, UnwindsDoes
  <2>2. (Here - 1 + 1)..Len(stack') = {}
    BY <2>1
  <2> QED
    BY <2>1, <2>2, CorrelationStep DEF SameAnswers
<1> QED
  BY <1>1, <1>2, <1>3, <1>4, <1>5, <1>6, <1>7, <1>8, <1>9, <1>10, <1>11 DEF Next

\* A test starts with nothing sent and no call open.
LEMMA ShapeInit == Init => ShapeInv /\ stack = <<>> /\ sent = <<>> /\ deliveries = <<>>
<1> SUFFICES ASSUME Init PROVE ShapeInv
  BY DEF Init
<1>1. /\ app \in Applications /\ stack = <<>> /\ sent = <<>> /\ deliveries = <<>>
      /\ exception = 0
  BY DEF Init
<1>2. AreSubscribers(subscribers)
  BY InitSubscribers
<1>3. IsSequence(<<>>) /\ DOMAIN <<>> = {} /\ Len(<<>>) = 0
  BY NoSequence DEF NoName
<1>4. 0 \in -1..Len(<<>>)
  BY <1>3
<1> QED
  BY <1>1, <1>2, <1>3, <1>4 DEF ShapeInv

\* The stack, the messages and the deliveries are always in shape.
LEMMA Shape == Spec => []ShapeInv
<1>1. Init => ShapeInv
  BY ShapeInit
<1>2. ShapeInv /\ [Next]_vars => ShapeInv'
  BY ShapeNext
<1> QED
  BY <1>1, <1>2, PTL DEF Spec

\* What a handler's result is published as, by its publishers and as a reply, and
\* what a request is answered with, has the correlation id of the message that the
\* handler was given, or that of a response which the application made: no id of
\* another message slips in, whatever calls are nested (FakeProducer, and what
\* process_message publishes).
THEOREM Correlation == Spec => []CorrelationFollows
<1>1. Init => CorrelationInv
  <2>1. DOMAIN <<>> = {}
    BY NoSequence
  <2> QED
    BY <2>1, ShapeInit DEF CorrelationInv
<1>2. ShapeInv /\ CorrelationInv /\ [Next]_vars => CorrelationInv'
  BY CorrelationNext
<1>3. CorrelationInv => CorrelationFollows
  BY DEF CorrelationInv, CorrelationFollows, MessageFollows, Ids
<1> QED
  BY <1>1, <1>2, <1>3, Shape, PTL DEF Spec

-----------------------------------------------------------------------------
(* Routes *)

\* _matching_subscribers and the targets of _route, over the subscribers ss.
PathIn(ss, i) == Path(ss[i].destination)
TargetsIn(ss, to) ==
  {i \in Matching(ss, to) :
     \A j \in Matching(ss, to) :
       IF to.kind = "queue" THEN i <= j ELSE PathIn(ss, i) = PathIn(ss, j) => j <= i}

\* The targets of a message, over the subscribers that there are.
LEMMA TargetsAre == \A to : Targets(to) = TargetsIn(subscribers, to)
BY DEF Targets, TargetsIn, Matches, SamePath, PathIn

\* Paths tell the subscriptions of a topic apart.
LEMMA PathsDiffer ==
  ASSUME NEW d, NEW e, IsDestination(d), IsDestination(e), d.kind = e.kind, d.name = e.name,
         Path(d) = Path(e)
  PROVE  d = e
<1>1. d.kind \in {"queue", "subscription"}
  BY DEF IsDestination
<1>2. CASE d.kind = "queue"
  BY <1>2 DEF IsDestination
<1>3. CASE d.kind # "queue"
  <2> DEFINE a == d.name \o <<"/">>
             s == d.subscription
             t == e.subscription
  <2>1. IsSequence(s) /\ IsSequence(t) /\ IsSequence(d.name)
    BY DEF IsDestination
  <2>2. IsSequence(<<"/">>)
    <3>1. \A x : <<x>> \in Seq({x})
      OBVIOUS
    <3> QED
      BY <3>1, SequenceOf
  <2>3. IsSequence(a)
    <3> DEFINE x == d.name
               y == <<"/">>
    <3>1. IsSequence(x) /\ IsSequence(y) /\ a = x \o y
      BY <2>1, <2>2
    <3> HIDE DEF a, x, y
    <3> QED
      BY <3>1, Joined
  <2>4. a \o s = a \o t
    BY <1>3 DEF Path
  <2> HIDE DEF a, s, t
  <2> DEFINE p == a \o s
  <2>5. /\ Len(p) = Len(a) + Len(s) /\ Len(a) \in Nat /\ Len(s) \in Nat
        /\ \A i \in 1..Len(p) : p[i] = IF i <= Len(a) THEN a[i] ELSE s[i - Len(a)]
    BY <2>1, <2>3, Joined
  <2>6. p = a \o t
    BY <2>4
  <2> HIDE DEF p
  <2>7. /\ Len(p) = Len(a) + Len(t) /\ Len(t) \in Nat
        /\ \A i \in 1..Len(p) : p[i] = IF i <= Len(a) THEN a[i] ELSE t[i - Len(a)]
    BY <2>1, <2>3, <2>6, Joined
  <2>8. Len(s) = Len(t)
    BY <2>5, <2>7
  <2>9. ASSUME NEW i \in 1..Len(s) PROVE s[i] = t[i]
    <3>1. Len(a) + i \in 1..Len(p) /\ ~(Len(a) + i <= Len(a)) /\ (Len(a) + i) - Len(a) = i
      BY <2>5
    <3> QED
      BY <2>5, <2>7, <3>1
  <2>10. s = t
    <3>1. s \in Seq(ToSet(s) \cup ToSet(t)) /\ t \in Seq(ToSet(s) \cup ToSet(t))
      <4> DEFINE S == ToSet(s) \cup ToSet(t)
      <4>1. ToSet(s) \subseteq S /\ ToSet(t) \subseteq S
        OBVIOUS
      <4> HIDE DEF S
      <4>2. s \in Seq(S) /\ t \in Seq(S)
        BY <2>1, <4>1, SeqMonotonic DEF IsSequence
      <4> QED
        BY <4>2 DEF S
    <3> QED
      BY <2>8, <2>9, <3>1, SeqEqual
  <2>11. d = [kind |-> d.kind, name |-> d.name, subscription |-> d.subscription]
         /\ e = [kind |-> e.kind, name |-> e.name, subscription |-> e.subscription]
    BY DEF IsDestination
  <2>12. d.subscription = e.subscription
    BY <2>10 DEF s, t
  <2> QED
    BY <2>11, <2>12
<1> QED
  BY <1>2, <1>3

\* Every entity that a message goes to has one target.
LEMMA TargetFor ==
  ASSUME NEW ss, AreSubscribers(ss), NEW to, NEW i \in Matching(ss, to)
  PROVE  \E t \in TargetsIn(ss, to) :
           /\ ss[t].destination = ss[i].destination
           /\ \A u \in TargetsIn(ss, to) : ss[u].destination = ss[i].destination => u = t
<1> DEFINE M == Matching(ss, to)
<1>1. /\ Len(ss) \in Nat /\ DOMAIN ss = 1..Len(ss) /\ M \subseteq DOMAIN ss
      /\ \A j \in M : ss[j].destination.kind = ss[i].destination.kind
      /\ \A j \in M : ss[j].destination.name = ss[i].destination.name
      /\ \A j \in M : ss[j].destination.kind = "queue" <=> to.kind = "queue"
  BY SequenceHas DEF AreSubscribers, Matching, Consumes
<1>2. \A j \in M : IsDestination(ss[j].destination)
  BY <1>1 DEF AreSubscribers, IsSubscriber
<1>3. CASE to.kind = "queue"
  <2>1. PICK t \in M : \A j \in M : t <= j
    <3>1. M \in SUBSET Nat /\ M # {}
      BY <1>1
    <3> HIDE DEF M
    <3> QED
      BY <3>1, Smallest
  <2>2. t \in TargetsIn(ss, to)
    BY <1>3, <2>1 DEF TargetsIn
  <2>3. ss[t].destination = ss[i].destination
    <3> DEFINE d == ss[t].destination
               e == ss[i].destination
    <3>1. IsDestination(d) /\ IsDestination(e) /\ d.kind = e.kind /\ d.name = e.name
          /\ d.kind = "queue"
      BY <1>1, <1>2, <1>3, <2>1
    <3> HIDE DEF d, e
    <3>2. d = e
      BY <3>1 DEF IsDestination
    <3> QED
      BY <3>2 DEF d, e
  <2>4. ASSUME NEW u \in TargetsIn(ss, to) PROVE u = t
    BY <1>1, <1>3, <2>1, <2>4 DEF TargetsIn
  <2> QED
    BY <2>2, <2>3, <2>4
<1>4. CASE to.kind # "queue"
  <2> DEFINE P == {j \in M : PathIn(ss, j) = PathIn(ss, i)}
             Back == {Len(ss) - j : j \in P}
  <2>1. PICK t \in P : \A j \in P : j <= t
    <3>1. Back \in SUBSET Nat /\ Back # {}
      BY <1>1
    <3>2. PICK b \in Back : \A c \in Back : b <= c
      <4> HIDE DEF Back
      <4> QED
        BY <3>1, Smallest
    <3>3. PICK t \in P : b = Len(ss) - t
      BY <3>2
    <3>4. \A j \in P : j \in Nat /\ b <= Len(ss) - j
      BY <1>1, <3>2
    <3> QED
      BY <1>1, <3>3, <3>4
  <2>2. t \in TargetsIn(ss, to)
    BY <1>4, <2>1 DEF TargetsIn
  <2>3. \A j \in P : ss[j].destination = ss[i].destination
    <3> TAKE j \in P
    <3> DEFINE d == ss[j].destination
               e == ss[i].destination
    <3>1. IsDestination(d) /\ IsDestination(e) /\ d.kind = e.kind /\ d.name = e.name
          /\ Path(d) = Path(e)
      BY <1>1, <1>2 DEF PathIn
    <3> HIDE DEF d, e
    <3>2. d = e
      BY <3>1, PathsDiffer
    <3> QED
      BY <3>2 DEF d, e
  <2>4. ASSUME NEW u \in TargetsIn(ss, to), ss[u].destination = ss[i].destination PROVE u = t
    <3>1. u \in P
      BY <2>4 DEF TargetsIn, PathIn
    <3>2. PathIn(ss, u) = PathIn(ss, t) /\ t \in M /\ u \in M
      BY <2>1, <3>1
    <3>3. t <= u /\ u <= t
      BY <1>4, <2>1, <3>1, <3>2 DEF TargetsIn
    <3> QED
      BY <1>1, <3>2, <3>3
  <2> QED
    BY <2>1, <2>2, <2>3, <2>4
<1> QED
  BY <1>3, <1>4

-----------------------------------------------------------------------------
\* Who had the message m, of the deliveries ds.
Given(m, ds) == {ds[d].subscriber : d \in {e \in DOMAIN ds : ds[e].message = m}}

\* A call of the producer that routes a message.
Routing(f) == f.op = "publish" /\ f.message # 0

\* What it has routed and what is left make up the targets.
IsOpen(f, ms, ds, ss) ==
  /\ ms[f.message].routed = "no"
  /\ f.targets \cap Given(f.message, ds) = {}
  /\ f.targets \cup Given(f.message, ds) = TargetsIn(ss, ms[f.message].destination)

IsRouted(m, ms, ds, ss) == Given(m, ds) = TargetsIn(ss, ms[m].destination)

GivenOnce(ds) ==
  \A d, e \in DOMAIN ds :
    ds[d].message = ds[e].message /\ ds[d].subscriber = ds[e].subscriber => d = e

RouteInv ==
  /\ GivenOnce(deliveries)
  /\ \A i, j \in DOMAIN stack :
       Routing(stack[i]) /\ Routing(stack[j]) /\ stack[i].message = stack[j].message => i = j
  /\ \A n \in DOMAIN stack :
       Routing(stack[n]) => IsOpen(stack[n], sent, deliveries, subscribers)
  /\ \A m \in DOMAIN sent :
       sent[m].routed = "done" => IsRouted(m, sent, deliveries, subscribers)

\* A call that routes has a message that was sent.
LEMMA RoutingIs ==
  ASSUME ShapeInv, NEW n \in DOMAIN stack, Routing(stack[n])
  PROVE  stack[n].message \in DOMAIN sent
BY DEF ShapeInv, IsCall, IsPublish, IsRequest, IsHandling, Routing

\* A message that nothing new is given of has been given to the same subscribers.
LEMMA GivenKept ==
  ASSUME Grows, NEW m, \A d \in DOMAIN deliveries' : d \notin DOMAIN deliveries =>
                         deliveries'[d].message # m
  PROVE  Given(m, deliveries') = Given(m, deliveries)
BY DEF Given, Grows

\* A step that keeps the first k calls keeps RouteInv, if it gives nobody what they
\* route, and at most the next call routes something else.
LEMMA RouteStep ==
  ASSUME ShapeInv, RouteInv, Grows, NEW k, Keeps(k), GivenOnce(deliveries'),
         \A n \in 1..k : Routing(stack[n]) =>
           /\ sent'[stack[n].message].routed = "no"
           /\ Given(stack[n].message, deliveries') = Given(stack[n].message, deliveries),
         \A n \in (k + 1)..Len(stack') : Routing(stack'[n]) =>
           /\ n = k + 1 /\ IsOpen(stack'[n], sent', deliveries', subscribers)
           /\ \A i \in 1..k : Routing(stack[i]) => stack[i].message # stack'[n].message,
         \A m \in DOMAIN sent' : sent'[m].routed = "done" =>
           IsRouted(m, sent', deliveries', subscribers)
  PROVE  RouteInv'
<1>1. /\ Len(stack') \in Nat /\ DOMAIN stack' = 1..Len(stack') /\ Len(stack) \in Nat
      /\ DOMAIN stack = 1..Len(stack) /\ k \in 0..Len(stack) /\ subscribers' = subscribers
      /\ \A i \in 1..k : stack'[i] = stack[i] /\ i \in DOMAIN stack
  BY SequenceHas DEF ShapeInv, Keeps, Grows
<1>2. ASSUME NEW n \in DOMAIN stack' PROVE n \in 1..k \/ n \in (k + 1)..Len(stack')
  BY <1>1
<1>3. ASSUME NEW n \in DOMAIN stack', Routing(stack'[n])
      PROVE  IsOpen(stack'[n], sent', deliveries', subscribers')
  <2>1. CASE n \in 1..k
    <3> DEFINE f == stack[n]
               m == f.message
    <3>1. stack'[n] = f /\ Routing(f) /\ n \in DOMAIN stack
      BY <1>1, <1>3, <2>1
    <3>2. IsOpen(f, sent, deliveries, subscribers) /\ m \in DOMAIN sent
      BY <3>1, RoutingIs DEF RouteInv
    <3>3. /\ sent'[m].routed = "no" /\ Given(m, deliveries') = Given(m, deliveries)
          /\ sent'[m].destination = sent[m].destination
      BY <2>1, <3>1, <3>2 DEF Grows
    <3> QED
      BY <1>1, <3>1, <3>2, <3>3 DEF IsOpen
  <2>2. CASE n \in (k + 1)..Len(stack')
    BY <1>1, <1>3, <2>2
  <2> QED
    BY <1>2, <2>1, <2>2
<1>4. ASSUME NEW i \in DOMAIN stack', NEW j \in DOMAIN stack', Routing(stack'[i]),
             Routing(stack'[j]), stack'[i].message = stack'[j].message
      PROVE  i = j
  <2>1. CASE i \in 1..k /\ j \in 1..k
    BY <1>1, <1>4, <2>1 DEF RouteInv
  <2>2. CASE i \in (k + 1)..Len(stack') /\ j \in (k + 1)..Len(stack')
    BY <1>4, <2>2
  <2>3. CASE i \in 1..k /\ j \in (k + 1)..Len(stack')
    BY <1>1, <1>4, <2>3
  <2>4. CASE j \in 1..k /\ i \in (k + 1)..Len(stack')
    BY <1>1, <1>4, <2>4
  <2> QED
    BY <1>2, <2>1, <2>2, <2>3, <2>4
<1>5. \A m \in DOMAIN sent' : sent'[m].routed = "done" =>
        IsRouted(m, sent', deliveries', subscribers')
  BY <1>1
<1> QED
  BY <1>3, <1>4, <1>5 DEF RouteInv

\* What is routed stays routed, as nothing is given of it any more.
LEMMA RoutedKept ==
  ASSUME Grows, NEW m \in DOMAIN sent, IsRouted(m, sent, deliveries, subscribers),
         Given(m, deliveries') = Given(m, deliveries)
  PROVE  IsRouted(m, sent', deliveries', subscribers)
BY DEF Grows, IsRouted

\* A step that makes no delivery, and finishes the routing of at most one message.
LEMMA RoutesOn ==
  ASSUME ShapeInv, RouteInv, Grows, NEW k, Keeps(k), DOMAIN sent' = DOMAIN sent,
         DOMAIN deliveries' = DOMAIN deliveries, NEW w,
         w # 0 => stack # <<>> /\ k < Len(stack) /\ Routing(Top) /\ Top.message = w,
         \A m \in DOMAIN sent : m # w => sent'[m].routed = sent[m].routed,
         w # 0 /\ sent'[w].routed = "done" => Top.targets = {},
         \A n \in (k + 1)..Len(stack') : ~Routing(stack'[n])
  PROVE  RouteInv'
<1>1. \A m : Given(m, deliveries') = Given(m, deliveries)
  BY GivenKept
<1>2. GivenOnce(deliveries')
  BY DEF RouteInv, GivenOnce, Grows
<1>3. /\ Len(stack) \in Nat /\ DOMAIN stack = 1..Len(stack) /\ k \in 0..Len(stack)
      /\ w # 0 => Top = stack[Len(stack)] /\ Len(stack) \in DOMAIN stack
      /\ \A m \in DOMAIN sent : m # 0
  BY SequenceHas, TopIs DEF ShapeInv, Keeps
<1>4. ASSUME NEW n \in 1..k, Routing(stack[n])
      PROVE  /\ sent'[stack[n].message].routed = "no"
             /\ Given(stack[n].message, deliveries') = Given(stack[n].message, deliveries)
  <2> DEFINE m == stack[n].message
  <2>1. n \in DOMAIN stack
    BY <1>3
  <2>2. m \in DOMAIN sent /\ sent[m].routed = "no"
    BY <1>4, <2>1, RoutingIs DEF RouteInv, IsOpen
  <2>3. m # w
    BY <1>3, <1>4, <2>1, <2>2 DEF RouteInv
  <2> QED
    BY <1>1, <2>2, <2>3
<1>5. ASSUME NEW m \in DOMAIN sent', sent'[m].routed = "done"
      PROVE  IsRouted(m, sent', deliveries', subscribers)
  <2>1. CASE m # w
    <3>1. IsRouted(m, sent, deliveries, subscribers)
      BY <1>5, <2>1 DEF RouteInv
    <3> QED
      BY <1>1, <3>1, RoutedKept
  <2>2. CASE m = w
    <3>1. IsOpen(Top, sent, deliveries, subscribers) /\ Top.targets = {} /\ Top.message = m
      BY <1>3, <1>5, <2>2 DEF RouteInv
    <3>2. IsRouted(m, sent, deliveries, subscribers)
      BY <3>1 DEF IsOpen, IsRouted
    <3> QED
      BY <1>1, <3>2, RoutedKept
  <2> QED
    BY <2>1, <2>2
<1> QED
  BY <1>2, <1>4, <1>5, RouteStep

\* Every step keeps the routes: only Routes delivers a message that is published,
\* and to a target that it takes away.
LEMMA RouteNext == ASSUME ShapeInv, RouteInv, [Next]_vars PROVE RouteInv'
<1>1. CASE Refused \/ TimesOut \/ HandlerRaises \/ HandlerCatches \/ UNCHANGED vars
  <2>1. /\ UNCHANGED <<app, subscribers, sent, deliveries>>
        /\ Here \in Nat /\ Keeps(Here) /\ Len(stack') = Here
    BY <1>1, QuietDoes
  <2>2. (Here + 1)..Len(stack') = {} /\ Grows /\ SameRoutes
    BY <2>1, Unsent
  <2> DEFINE w == 0
  <2>3. w = 0
    OBVIOUS
  <2> QED
    BY <2>1, <2>2, <2>3, RoutesOn DEF SameRoutes
<1>2. CASE Publishes
  <2>1. /\ UNCHANGED <<app, subscribers, sent, deliveries>>
        /\ Here \in Nat /\ Keeps(Here) /\ Len(stack') = Above
        /\ stack'[Above].message = 0
    BY <1>2, PublishesDoes
  <2>2. (Here + 1)..Len(stack') = {Above} /\ Grows /\ SameRoutes
    BY <2>1, Unsent DEF Here, Above
  <2>3. \A n \in (Here + 1)..Len(stack') : ~Routing(stack'[n])
    BY <2>1, <2>2 DEF Routing
  <2> QED
    BY <2>1, <2>2, <2>3, RoutesOn DEF SameRoutes
<1>3. CASE Builds
  <2> DEFINE m == Latest
             g == stack'[Here]
             f == Top
             ts == Targets(Top.cmd.destination)
  <2>1. /\ UNCHANGED <<app, subscribers, deliveries>> /\ stack # <<>> /\ f.op = "publish"
        /\ f.targets = {} /\ Here \in Nat /\ Here > 0 /\ Keeps(Here - 1) /\ Len(stack') = Here
        /\ g = [op |-> "publish", cmd |-> f.cmd, left |-> f.left - 1,
                message |-> m, targets |-> ts, by |-> f.by]
        /\ Grows /\ DOMAIN sent' = DOMAIN sent \cup {m} /\ m \notin DOMAIN sent
        /\ \A k \in DOMAIN sent :
             sent'[k].routed = IF k = f.message THEN "done" ELSE sent[k].routed
        /\ sent'[m].routed = "no" /\ sent'[m].destination = f.cmd.destination
    BY <1>3, BuildsDoes
  <2>2. ts = TargetsIn(subscribers, f.cmd.destination)
    BY TargetsAre
  <2>3. f = stack[Here] /\ Here \in DOMAIN stack /\ DOMAIN stack = 1..Here
    BY <2>1, TopIs DEF Here
  <2> HIDE DEF m, g, ts, f
  <2>4. \A k : Given(k, deliveries') = Given(k, deliveries)
    BY <2>1
  <2>5. Given(m, deliveries') = {}
    BY <2>1 DEF ShapeInv, Given
  <2>6. g.op = "publish" /\ g.targets = ts /\ g.message = m
    BY <2>1
  <2>7. IsOpen(g, sent', deliveries', subscribers)
    BY <2>1, <2>2, <2>5, <2>6 DEF IsOpen
  <2>8. ASSUME NEW i \in 1..(Here - 1), Routing(stack[i])
        PROVE  /\ stack[i].message \in DOMAIN sent /\ stack[i].message # f.message
               /\ sent'[stack[i].message].routed = "no"
    <3>1. i \in DOMAIN stack /\ i # Here
      BY <2>1, <2>3
    <3>2. stack[i].message \in DOMAIN sent
      BY <2>8, <3>1, RoutingIs
    <3>3. sent[stack[i].message].routed = "no"
      BY <2>8, <3>1 DEF RouteInv, IsOpen
    <3>4. stack[i].message # f.message
      BY <2>1, <2>3, <2>8, <3>1, <3>2 DEF RouteInv, Routing
    <3> QED
      BY <2>1, <3>2, <3>3, <3>4
  <2>9. ASSUME NEW k \in DOMAIN sent', sent'[k].routed = "done"
        PROVE  IsRouted(k, sent', deliveries', subscribers)
    <3>1. k \in DOMAIN sent
      BY <2>1, <2>9
    <3>2. IsRouted(k, sent, deliveries, subscribers)
      <4>1. CASE k = f.message
        <5>1. k # 0
          BY <3>1, SequenceHas DEF ShapeInv
        <5>2. Routing(f)
          BY <2>1, <4>1, <5>1 DEF Routing
        <5>3. IsOpen(f, sent, deliveries, subscribers)
          BY <2>3, <5>2 DEF RouteInv
        <5> QED
          BY <2>1, <4>1, <5>3 DEF IsOpen, IsRouted
      <4>2. CASE k # f.message
        BY <2>1, <2>9, <3>1, <4>2 DEF RouteInv
      <4> QED
        BY <4>1, <4>2
    <3> QED
      BY <2>1, <2>4, <3>1, <3>2, RoutedKept
  <2>10. (Here - 1 + 1)..Len(stack') = {Here} /\ Here = (Here - 1) + 1
    BY <2>1
  <2>11. ASSUME NEW n \in ((Here - 1) + 1)..Len(stack'), Routing(stack'[n])
         PROVE  /\ n = (Here - 1) + 1 /\ IsOpen(stack'[n], sent', deliveries', subscribers)
                /\ \A i \in 1..(Here - 1) : Routing(stack[i]) => stack[i].message # stack'[n].message
    <3>1. n = Here /\ stack'[n] = g
      BY <2>10, <2>11 DEF g
    <3> QED
      BY <2>1, <2>6, <2>7, <2>8, <2>10, <3>1
  <2>12. GivenOnce(deliveries')
    BY <2>1 DEF RouteInv
  <2> QED
    BY <2>1, <2>4, <2>8, <2>9, <2>11, <2>12, RouteStep
<1>4. CASE Routes
  <2> DEFINE g == stack'[Here]
             h == stack'[Above]
             f == Top
             d == Begun
             ts == f.targets \ {h.subscriber}
  <2>1. /\ UNCHANGED <<app, subscribers, sent>> /\ stack # <<>> /\ f.op = "publish"
        /\ Here \in Nat /\ Here > 0 /\ Keeps(Here - 1) /\ Len(stack') = Above
        /\ g = [op |-> "publish", cmd |-> f.cmd, left |-> f.left,
                message |-> f.message, targets |-> ts, by |-> f.by]
        /\ h.subscriber \in f.targets /\ h.message = f.message
        /\ f.message # 0 /\ Begins(h) /\ Grows
    BY <1>4, RoutesDoes
  <2>2. f = stack[Here] /\ Here \in DOMAIN stack /\ DOMAIN stack = 1..Here
    BY <2>1, TopIs DEF Here
  <2>3. /\ h.op = "handle" /\ DOMAIN deliveries' = DOMAIN deliveries \cup {d}
        /\ d \notin DOMAIN deliveries
        /\ deliveries'[d].message = f.message /\ deliveries'[d].subscriber = h.subscriber
        /\ \A k \in DOMAIN deliveries : deliveries'[k] = deliveries[k]
    BY <2>1 DEF Begins
  <2> HIDE DEF g, h, ts, f, d
  <2>4. Routing(f) /\ IsOpen(f, sent, deliveries, subscribers)
    BY <2>1, <2>2 DEF Routing, RouteInv
  <2>5. g.op = "publish" /\ g.targets = ts /\ g.message = f.message
    BY <2>1
  <2>6. Given(f.message, deliveries') = Given(f.message, deliveries) \cup {h.subscriber}
    BY <2>3 DEF Given
  <2>7. IsOpen(g, sent', deliveries', subscribers)
    BY <2>1, <2>4, <2>5, <2>6 DEF IsOpen, ts
  <2>8. \A m : m # f.message => Given(m, deliveries') = Given(m, deliveries)
    <3> TAKE m
    <3> HAVE m # f.message
    <3> QED
      BY <2>1, <2>3, GivenKept
  <2>9. ASSUME NEW i \in 1..(Here - 1), Routing(stack[i])
        PROVE  /\ stack[i].message # f.message /\ sent'[stack[i].message].routed = "no"
               /\ Given(stack[i].message, deliveries') = Given(stack[i].message, deliveries)
    <3>1. i \in DOMAIN stack /\ i # Here
      BY <2>1, <2>2
    <3>2. sent[stack[i].message].routed = "no"
      BY <2>9, <3>1 DEF RouteInv, IsOpen
    <3>3. stack[i].message # f.message
      BY <2>2, <2>4, <2>9, <3>1 DEF RouteInv
    <3> QED
      BY <2>1, <2>8, <3>2, <3>3
  <2>10. ASSUME NEW m \in DOMAIN sent', sent'[m].routed = "done"
         PROVE  IsRouted(m, sent', deliveries', subscribers)
    <3>1. m # f.message /\ m \in DOMAIN sent
      BY <2>1, <2>4, <2>10 DEF IsOpen
    <3>2. IsRouted(m, sent, deliveries, subscribers)
      BY <2>1, <2>10 DEF RouteInv
    <3> QED
      BY <2>1, <2>8, <3>1, <3>2, RoutedKept
  <2>11. GivenOnce(deliveries')
    <3>1. \A k \in DOMAIN deliveries :
            deliveries[k].message = f.message => deliveries[k].subscriber # h.subscriber
      BY <2>1, <2>4 DEF IsOpen, Given
    <3> QED
      BY <2>3, <3>1 DEF RouteInv, GivenOnce
  <2>12. ASSUME NEW n \in ((Here - 1) + 1)..Len(stack'), Routing(stack'[n])
         PROVE  /\ n = (Here - 1) + 1 /\ IsOpen(stack'[n], sent', deliveries', subscribers)
                /\ \A i \in 1..(Here - 1) : Routing(stack[i]) => stack[i].message # stack'[n].message
    <3>1. n = Here \/ n = Above
      BY <2>1 DEF Here, Above
    <3>2. n # Above
      BY <2>3, <2>12 DEF Routing, h
    <3>3. n = (Here - 1) + 1 /\ stack'[n] = g
      BY <2>1, <3>1, <3>2 DEF g
    <3> QED
      BY <2>5, <2>7, <2>9, <3>3
  <2> QED
    BY <2>1, <2>9, <2>10, <2>11, <2>12, RouteStep
<1>5. CASE PublishReturns
  <2> DEFINE w == Top.message
  <2>1. /\ Here \in Nat /\ Here > 0 /\ Keeps(Here - 1) /\ Len(stack') = Here - 1
        /\ UNCHANGED deliveries /\ stack # <<>> /\ Top.op = "publish" /\ Top.targets = {}
        /\ Grows /\ DOMAIN sent' = DOMAIN sent
        /\ \A k \in DOMAIN sent : sent'[k].routed = IF k = w THEN "done" ELSE sent[k].routed
    BY <1>5, PublishReturnsDoes
  <2>2. ((Here - 1) + 1)..Len(stack') = {} /\ Here - 1 < Len(stack)
    BY <2>1 DEF Here
  <2>3. w # 0 => Routing(Top) /\ Top.message = w
    BY <2>1 DEF Routing
  <2> HIDE DEF w
  <2> QED
    BY <2>1, <2>2, <2>3, RoutesOn
<1>6. CASE Requests
  <2> DEFINE g == stack'[Above]
             h == stack'[Above + 1]
             m == Latest
             d == Begun
  <2>1. /\ Here \in Nat /\ Above \in Nat /\ Keeps(Here) /\ Len(stack') = Above + 1
        /\ UNCHANGED <<app, subscribers>> /\ g.op = "request" /\ Begins(h) /\ h.message = m
        /\ Grows /\ DOMAIN sent' = DOMAIN sent \cup {m} /\ m \notin DOMAIN sent
        /\ \A k \in DOMAIN sent : sent'[k] = sent[k]
        /\ sent'[m].routed = "no"
    BY <1>6, RequestsDoes
  <2>2. /\ h.op = "handle" /\ DOMAIN deliveries' = DOMAIN deliveries \cup {d}
        /\ deliveries'[d].message = m /\ deliveries'[d].subscriber = h.subscriber
        /\ \A k \in DOMAIN deliveries : deliveries'[k] = deliveries[k]
    BY <2>1 DEF Begins
  <2> HIDE DEF g, h, m, d
  <2>3. \A k \in DOMAIN sent : Given(k, deliveries') = Given(k, deliveries)
    <3> TAKE k \in DOMAIN sent
    <3>1. k # m
      BY <2>1
    <3> QED
      BY <2>1, <2>2, <3>1, GivenKept
  <2>4. GivenOnce(deliveries')
    BY <2>1, <2>2 DEF RouteInv, GivenOnce, ShapeInv
  <2>5. ASSUME NEW i \in 1..Here, Routing(stack[i])
        PROVE  /\ sent'[stack[i].message].routed = "no"
               /\ Given(stack[i].message, deliveries') = Given(stack[i].message, deliveries)
    <3>1. i \in DOMAIN stack
      BY SequenceHas DEF ShapeInv, Here
    <3>2. stack[i].message \in DOMAIN sent /\ sent[stack[i].message].routed = "no"
      BY <2>5, <3>1, RoutingIs DEF RouteInv, IsOpen
    <3> QED
      BY <2>1, <2>3, <3>2
  <2>6. ASSUME NEW k \in DOMAIN sent', sent'[k].routed = "done"
        PROVE  IsRouted(k, sent', deliveries', subscribers)
    <3>1. k \in DOMAIN sent /\ sent[k].routed = "done"
      BY <2>1, <2>6
    <3>2. IsRouted(k, sent, deliveries, subscribers)
      BY <3>1 DEF RouteInv
    <3> QED
      BY <2>1, <2>3, <3>1, <3>2, RoutedKept
  <2>7. \A n \in (Here + 1)..Len(stack') : ~Routing(stack'[n])
    <3>1. \A n \in (Here + 1)..Len(stack') : n = Above \/ n = Above + 1
      BY <2>1 DEF Here, Above
    <3> QED
      BY <2>1, <2>2, <3>1 DEF Routing, g, h
  <2> QED
    BY <2>1, <2>4, <2>5, <2>6, <2>7, RouteStep
<1>7. CASE RequestReturns
  <2>1. /\ UNCHANGED deliveries /\ Grows /\ SameRoutes /\ DOMAIN sent' = DOMAIN sent
        /\ Here \in Nat /\ Here > 0 /\ Keeps(Here - 1) /\ Len(stack') = Here - 1
    BY <1>7, RequestReturnsDoes
  <2>2. ((Here - 1) + 1)..Len(stack') = {}
    BY <2>1
  <2> QED
    BY <2>1, <2>2, RoutesOn DEF SameRoutes
<1>8. CASE HandlerReturns
  <2>1. /\ UNCHANGED <<app, subscribers, sent, deliveries>>
        /\ Here \in Nat /\ Here > 0 /\ Keeps(Here - 1) /\ Len(stack') = Here
        /\ stack'[Here].op = "handle"
    BY <1>8, HandlerReturnsDoes
  <2>2. ((Here - 1) + 1)..Len(stack') = {Here} /\ Grows /\ SameRoutes
    BY <2>1, Unsent
  <2>3. \A n \in ((Here - 1) + 1)..Len(stack') : ~Routing(stack'[n])
    BY <2>1, <2>2 DEF Routing
  <2> QED
    BY <2>1, <2>2, <2>3, RoutesOn DEF SameRoutes
<1>9. CASE Replying
  <2>1. /\ UNCHANGED <<app, subscribers, sent, deliveries>>
        /\ Here \in Nat /\ Here > 0 /\ Keeps(Here - 1) /\ Len(stack') = Above
        /\ stack'[Here].op = "handle" /\ stack'[Above].message = 0
    BY <1>9, ReplyingDoes
  <2>2. /\ \A n \in ((Here - 1) + 1)..Len(stack') : n = Here \/ n = Above
        /\ Grows /\ SameRoutes
    BY <2>1, Unsent DEF Here, Above
  <2>3. \A n \in ((Here - 1) + 1)..Len(stack') : ~Routing(stack'[n])
    BY <2>1, <2>2 DEF Routing
  <2> QED
    BY <2>1, <2>2, <2>3, RoutesOn DEF SameRoutes
<1>10. CASE Handled
  <2> DEFINE f == stack[Here - 1]
             g == stack'[Here - 1]
  <2>1. /\ UNCHANGED <<app, subscribers>> /\ Settles(TRUE)
        /\ stack # <<>> /\ Top.op = "handle"
        /\ Here \in Nat /\ Here > 1 /\ Keeps(Here - 2) /\ Len(stack') = Here - 1
        /\ (f.op = "request" => g.op = "request") /\ (f.op # "request" => g = f)
    BY <1>10, HandledDoes
  <2>2. /\ Grows /\ SameRoutes /\ DOMAIN sent' = DOMAIN sent
        /\ DOMAIN deliveries' = DOMAIN deliveries
    BY <2>1, SettlesDoes
  <2>3. CASE f.op = "request"
    <3>1. ((Here - 2) + 1)..Len(stack') = {Here - 1}
      BY <2>1
    <3>2. \A n \in ((Here - 2) + 1)..Len(stack') : ~Routing(stack'[n])
      BY <2>1, <2>3, <3>1 DEF Routing
    <3> QED
      BY <2>1, <2>2, <3>2, RoutesOn DEF SameRoutes
  <2>4. CASE f.op # "request"
    <3>1. ((Here - 1) + 1)..Len(stack') = {}
      BY <2>1
    <3>2. \A i \in 1..(Here - 1) : i \in 1..(Here - 2) \/ i = Here - 1
      BY <2>1
    <3>3. Keeps(Here - 1)
      BY <2>1, <2>4, <3>2 DEF Keeps, Here
    <3> QED
      BY <2>1, <2>2, <3>1, <3>3, RoutesOn DEF SameRoutes
  <2> QED
    BY <2>3, <2>4
<1>11. CASE Unwinds
  <2> DEFINE w == IF Top.op = "publish" THEN Top.message ELSE 0
  <2>1. /\ stack # <<>> /\ Grows
        /\ Here \in Nat /\ Here > 0 /\ Keeps(Here - 1) /\ Len(stack') = Here - 1
        /\ DOMAIN sent' = DOMAIN sent /\ DOMAIN deliveries' = DOMAIN deliveries
        /\ \A k \in DOMAIN sent :
             sent'[k].routed = IF Top.op = "publish" /\ k = Top.message THEN "failed"
                               ELSE sent[k].routed
    BY <1>11, UnwindsDoes
  <2>2. ((Here - 1) + 1)..Len(stack') = {} /\ Here - 1 < Len(stack)
    BY <2>1 DEF Here
  <2>3. w # 0 => Routing(Top) /\ Top.message = w
    BY DEF Routing
  <2>4. w # 0 => sent'[w].routed # "done"
    <3>1. w # 0 => w \in DOMAIN sent
      BY <2>1, <2>3, TopIs, RoutingIs
    <3> QED
      BY <2>1, <3>1
  <2>5. \A m \in DOMAIN sent : m # w => sent'[m].routed = sent[m].routed
    BY <2>1
  <2> HIDE DEF w
  <2> QED
    BY <2>1, <2>2, <2>3, <2>4, <2>5, RoutesOn
<1> QED
  BY <1>1, <1>2, <1>3, <1>4, <1>5, <1>6, <1>7, <1>8, <1>9, <1>10, <1>11 DEF Next

\* A test starts with nothing to route.
LEMMA RouteInit == Init => RouteInv
<1> SUFFICES ASSUME Init PROVE RouteInv
  OBVIOUS
<1>1. DOMAIN stack = {} /\ DOMAIN sent = {} /\ DOMAIN deliveries = {}
  BY NoSequence DEF Init
<1> QED
  BY <1>1 DEF RouteInv, GivenOnce

\* The targets that are left, and those that have the message, are always the
\* targets that _route found.
LEMMA Route == Spec => []RouteInv
<1>1. ShapeInv /\ RouteInv /\ [Next]_vars => RouteInv'
  BY RouteNext
<1> QED
  BY <1>1, RouteInit, Shape, PTL DEF Spec

\* Of a message that is routed, every entity that the service would give it to has
\* had exactly one delivery.
LEMMA OneDelivery ==
  ASSUME ShapeInv, GivenOnce(deliveries), NEW m \in DOMAIN sent,
         IsRouted(m, sent, deliveries, subscribers),
         NEW i \in Matching(subscribers, sent[m].destination)
  PROVE  Cardinality({d \in DeliveriesOf(m) :
                        Takes(d).destination = subscribers[i].destination}) = 1
<1> DEFINE to == sent[m].destination
           D == {d \in DeliveriesOf(m) : Takes(d).destination = subscribers[i].destination}
           Ts == TargetsIn(subscribers, to)
<1>1. PICK t \in Ts :
        /\ subscribers[t].destination = subscribers[i].destination
        /\ \A u \in Ts : subscribers[u].destination = subscribers[i].destination => u = t
  BY TargetFor DEF ShapeInv
<1>2. Given(m, deliveries) = Ts
  BY DEF IsRouted
<1> HIDE DEF Ts
<1>3. PICK d \in DOMAIN deliveries : deliveries[d].message = m /\ deliveries[d].subscriber = t
  BY <1>1, <1>2 DEF Given
<1>4. \A e \in D : deliveries[e].message = m /\ deliveries[e].subscriber = t /\ e \in DOMAIN deliveries
  BY <1>1, <1>2 DEF Given, DeliveriesOf, Takes
<1>5. d \in D
  BY <1>1, <1>3 DEF DeliveriesOf, Takes
<1>6. D = {d}
  BY <1>3, <1>4, <1>5 DEF GivenOnce
<1> QED
  BY <1>6, FS_Singleton

\* A message that _route is done with was given once to one subscriber of each
\* entity that the service would have put it in, and to no other: a queue has one
\* consumer, each subscription of a topic has its own copy, whichever handlers
\* publish, nest and raise in between (_route, _matching_subscribers).
THEOREM RoutedAsInService == Spec => []RoutedAsByTheService
<1>1. ASSUME ShapeInv, RouteInv PROVE RoutedAsByTheService
  <2> SUFFICES ASSUME NEW m \in DOMAIN sent, sent[m].routed = "done"
               PROVE  LET reached == {i \in DOMAIN subscribers :
                                        Consumes(subscribers[i].destination, sent[m].destination)}
                      IN  /\ \A d \in DeliveriesOf(m) : deliveries[d].subscriber \in reached
                          /\ \A i \in reached :
                               Cardinality({d \in DeliveriesOf(m) :
                                  Takes(d).destination = subscribers[i].destination}) = 1
    BY DEF RoutedAsByTheService
  <2>1. IsRouted(m, sent, deliveries, subscribers) /\ GivenOnce(deliveries)
    BY <1>1 DEF RouteInv
  <2>2. \A d \in DeliveriesOf(m) :
          deliveries[d].subscriber \in Matching(subscribers, sent[m].destination)
    BY <2>1 DEF IsRouted, Given, DeliveriesOf, TargetsIn
  <2>3. \A i \in Matching(subscribers, sent[m].destination) :
          Cardinality({d \in DeliveriesOf(m) :
                         Takes(d).destination = subscribers[i].destination}) = 1
    BY <1>1, <2>1, OneDelivery
  <2> QED
    BY <2>2, <2>3 DEF Matching
<1> QED
  BY <1>1, Shape, Route, PTL

-----------------------------------------------------------------------------
(* Answers *)

\* The messages that were published for the delivery d.
MessagesBy(d, ms) == {m \in DOMAIN ms : ms[m].by = d}

\* The call above the n-th one publishes.
Sends(n, st) == n < Len(st) /\ st[n + 1].op = "publish"

\* Nothing is known of the innermost call once it has raised.
Raised(n, st, ex) == ex # 0 /\ n = Len(st)

\* The n-th call is one of a handler whose delivery has not ended; its answers are
\* those that are sent, being sent, and to be sent.
HandlesOn(n, st, ms, ds, ss, ex) ==
  LET f == st[n]
      made == MessagesBy(f.delivery, ms)
  IN  /\ ds[f.delivery].ended = "no"
      /\ f.stage = "running" => f.replies = <<>> /\ made = {}
      /\ \A m \in made :
           \/ ms[m].routed = "done"
           \/ Sends(n, st) /\ st[n + 1].message = m
           \/ Raised(n, st, ex)
      /\ f.stage = "returned" /\ ~Raised(n, st, ex) =>
           Cardinality(made) + Len(f.replies) + (IF Sends(n, st) THEN st[n + 1].left ELSE 0)
             >= Len(ss[f.subscriber].publishers)

\* The n-th call is one of the producer, for a handler that returned or for the code.
PublishesOn(n, st, ms, ds, ex) ==
  LET f == st[n]
      returned == n > 1 /\ st[n - 1].op = "handle" /\ st[n - 1].stage = "returned"
  IN  /\ f.by # Code <=> returned
      /\ f.by # Code =>
           /\ f.by = st[n - 1].delivery /\ f.left = IF f.message = 0 THEN 1 ELSE 0
           /\ f.message # 0 => ms[f.message].by = f.by
      /\ f.message # 0 => \A d \in DOMAIN ds : ds[d].message = f.message =>
           \/ ds[d].ended = "ok"
           \/ n < Len(st) /\ st[n + 1].op = "handle" /\ st[n + 1].delivery = d
           \/ Raised(n, st, ex)

OnCall(n, st, ms, ds, ss, ex) ==
  /\ st[n].op = "handle" => HandlesOn(n, st, ms, ds, ss, ex)
  /\ st[n].op = "publish" => PublishesOn(n, st, ms, ds, ex)

\* What is done was done to the end.
RoutedWell(ms, ds) ==
  \A m \in DOMAIN ms : ms[m].routed = "done" =>
    \A d \in DOMAIN ds : ds[d].message = m => ds[d].ended = "ok"
EndedWell(ms, ds, ss) ==
  \A d \in DOMAIN ds : ds[d].ended = "ok" =>
    /\ \A m \in MessagesBy(d, ms) : ms[m].routed = "done"
    /\ Cardinality(MessagesBy(d, ms)) >= Len(ss[ds[d].subscriber].publishers)
SettledWell(ms, ds, ss) ==
  \A m \in DOMAIN ms : "complete" \in ms[m].settled =>
    \E d \in DOMAIN ds :
      ds[d].message = m /\ (ds[d].ended = "ok" \/ ss[ds[d].subscriber].policy = "ACK")

DoneInv ==
  /\ \A n \in DOMAIN stack : OnCall(n, stack, sent, deliveries, subscribers, exception)
  /\ \A i, j \in DOMAIN stack :
       stack[i].op = "handle" /\ stack[j].op = "handle"
       /\ stack[i].delivery = stack[j].delivery => i = j
  /\ RoutedWell(sent, deliveries) /\ EndedWell(sent, deliveries, subscribers)
  /\ SettledWell(sent, deliveries, subscribers)

-----------------------------------------------------------------------------
\* The first k calls stay, but for the answer of a request.
Alike(k) ==
  /\ k \in 0..Len(stack) /\ k <= Len(stack') /\ IsSequence(stack')
  /\ \A i \in 1..k : /\ stack'[i].op = stack[i].op
                     /\ stack[i].op # "request" => stack'[i] = stack[i]

\* Calls that stay as they are stay alike.
LEMMA KeepsAlike == ASSUME NEW k, Keeps(k) PROVE Alike(k)
BY DEF Keeps, Alike

OksStay == \A d \in DOMAIN deliveries : deliveries[d].ended = "ok" => deliveries'[d].ended = "ok"
DonesStay == \A m \in DOMAIN sent : sent[m].routed = "done" => sent'[m].routed = "done"

\* Finitely many messages are published for a delivery.
LEMMA MadeCounted ==
  ASSUME ShapeInv, NEW d
  PROVE  IsFiniteSet(MessagesBy(d, sent)) /\ Cardinality(MessagesBy(d, sent)) \in Nat
<1>1. DOMAIN sent = 1..Len(sent) /\ Len(sent) \in Nat
  BY SequenceHas DEF ShapeInv
<1>2. IsFiniteSet(1..Len(sent))
  BY <1>1, FS_Interval
<1>3. MessagesBy(d, sent) \subseteq 1..Len(sent)
  BY <1>1 DEF MessagesBy
<1>4. IsFiniteSet(MessagesBy(d, sent))
  BY <1>2, <1>3, FS_Subset
<1> QED
  BY <1>4, FS_CardinalityType

\* A delivery for which nothing new is published has published what it had.
LEMMA MadeKept ==
  ASSUME Grows, NEW d, \A m \in DOMAIN sent' : m \notin DOMAIN sent => sent'[m].by # d
  PROVE  MessagesBy(d, sent') = MessagesBy(d, sent)
BY DEF Grows, MessagesBy

\* A producer's call that stays.
LEMMA PublishStays ==
  ASSUME ShapeInv, DoneInv, Grows, OksStay, NEW k, Alike(k), NEW n \in 1..k,
         stack[n].op = "publish",
         stack[n].message # 0 => \A d \in DOMAIN deliveries' : d \notin DOMAIN deliveries =>
           deliveries'[d].message # stack[n].message,
         \A d \in DOMAIN deliveries :
           n < Len(stack) /\ stack[n + 1].op = "handle" /\ stack[n + 1].delivery = d =>
             \/ deliveries'[d].ended = "ok"
             \/ n < Len(stack') /\ stack'[n + 1].op = "handle" /\ stack'[n + 1].delivery = d
             \/ Raised(n, stack', exception'),
         Raised(n, stack, exception) => Raised(n, stack', exception')
  PROVE  PublishesOn(n, stack', sent', deliveries', exception')
<1> DEFINE f == stack[n]
           m == f.message
<1>1. /\ Len(stack) \in Nat /\ DOMAIN stack = 1..Len(stack) /\ n \in DOMAIN stack /\ k \in Nat
      /\ n > 1 => n - 1 \in 1..k
      /\ m # 0 => m \in DOMAIN sent
  BY SequenceHas DEF Alike, ShapeInv, IsCall, IsPublish, IsRequest, IsHandling
<1>2. PublishesOn(n, stack, sent, deliveries, exception)
  BY <1>1 DEF DoneInv, OnCall
<1>3. stack'[n] = f
  BY DEF Alike
<1>4. n > 1 => /\ stack'[n - 1].op = stack[n - 1].op
               /\ stack[n - 1].op = "handle" => stack'[n - 1] = stack[n - 1]
  BY <1>1 DEF Alike
<1>5. m # 0 => sent'[m].by = sent[m].by
  BY <1>1 DEF Grows
<1>6. m # 0 => \A d \in DOMAIN deliveries' : deliveries'[d].message = m =>
        \/ deliveries'[d].ended = "ok"
        \/ n < Len(stack') /\ stack'[n + 1].op = "handle" /\ stack'[n + 1].delivery = d
        \/ Raised(n, stack', exception')
  <2> SUFFICES ASSUME m # 0, NEW d \in DOMAIN deliveries', deliveries'[d].message = m
               PROVE  \/ deliveries'[d].ended = "ok"
                      \/ n < Len(stack') /\ stack'[n + 1].op = "handle" /\ stack'[n + 1].delivery = d
                      \/ Raised(n, stack', exception')
    OBVIOUS
  <2>1. d \in DOMAIN deliveries /\ deliveries[d].message = m
    BY DEF Grows
  <2>2. \/ deliveries[d].ended = "ok"
        \/ n < Len(stack) /\ stack[n + 1].op = "handle" /\ stack[n + 1].delivery = d
        \/ Raised(n, stack, exception)
    BY <1>2, <2>1 DEF PublishesOn
  <2> QED
    BY <2>1, <2>2 DEF OksStay
<1>7. f.by # Code <=> (n > 1 /\ stack'[n - 1].op = "handle" /\ stack'[n - 1].stage = "returned")
  BY <1>2, <1>4 DEF PublishesOn
<1>8. f.by # Code => /\ f.by = stack'[n - 1].delivery /\ f.left = IF m = 0 THEN 1 ELSE 0
                     /\ m # 0 => sent'[m].by = f.by
  BY <1>2, <1>4, <1>5, <1>7 DEF PublishesOn
<1> QED
  BY <1>3, <1>6, <1>7, <1>8 DEF PublishesOn

\* What the call above a handler's does to it: nothing; or it publishes on; or it is
\* done; or something else goes on there; or it has raised.
Goes(n) ==
  \/ Raised(n, stack', exception')
  \/ stack[n].stage = "running"
  \/ /\ ~Raised(n, stack, exception)
     /\ \/ /\ Sends(n, stack) /\ Sends(n, stack')
           /\ stack'[n + 1].message = stack[n + 1].message /\ stack'[n + 1].left = stack[n + 1].left
        \/ /\ Sends(n, stack) /\ ~Sends(n, stack') /\ stack[n + 1].left = 0
           /\ stack[n + 1].message \in DOMAIN sent => sent'[stack[n + 1].message].routed = "done"
        \/ ~Sends(n, stack) /\ ~Sends(n, stack')

\* A handler's call that stays, of a delivery for which nothing new is published,
\* is as well as it was.
LEMMA HandleStays ==
  ASSUME ShapeInv, DoneInv, Grows, DonesStay, NEW k, Alike(k), NEW n \in 1..k,
         stack[n].op = "handle", deliveries'[stack[n].delivery].ended = "no",
         MessagesBy(stack[n].delivery, sent') = MessagesBy(stack[n].delivery, sent), Goes(n)
  PROVE  HandlesOn(n, stack', sent', deliveries', subscribers', exception')
<1> DEFINE f == stack[n]
           made == MessagesBy(f.delivery, sent)
           L == Len(subscribers[f.subscriber].publishers)
<1>1. n \in DOMAIN stack
  BY SequenceHas DEF Alike, ShapeInv
<1>2. HandlesOn(n, stack, sent, deliveries, subscribers, exception)
  BY <1>1 DEF DoneInv, OnCall
<1>3. stack'[n] = f /\ subscribers' = subscribers
  BY DEF Alike, Grows
<1>4. f.stage \in {"running", "returned"}
  BY <1>1 DEF ShapeInv, IsCall, IsPublish, IsRequest, IsHandling
<1>5. \A m \in made : m \in DOMAIN sent
  BY DEF MessagesBy
<1>6. \A m \in made :
        \/ sent'[m].routed = "done"
        \/ Sends(n, stack') /\ stack'[n + 1].message = m
        \/ Raised(n, stack', exception')
  <2> TAKE m \in made
  <2>1. \/ sent[m].routed = "done"
        \/ Sends(n, stack) /\ stack[n + 1].message = m
        \/ Raised(n, stack, exception)
    BY <1>2 DEF HandlesOn
  <2>2. sent[m].routed = "done" => sent'[m].routed = "done"
    BY <1>5 DEF DonesStay
  <2>3. f.stage # "running"
    BY <1>2 DEF HandlesOn
  <2> QED
    BY <1>5, <2>1, <2>2, <2>3 DEF Goes
<1>7. f.stage = "returned" /\ ~Raised(n, stack', exception') =>
        Cardinality(made) + Len(f.replies) + (IF Sends(n, stack') THEN stack'[n + 1].left ELSE 0) >= L
  <2> SUFFICES ASSUME f.stage = "returned", ~Raised(n, stack', exception')
               PROVE  Cardinality(made) + Len(f.replies)
                        + (IF Sends(n, stack') THEN stack'[n + 1].left ELSE 0) >= L
    OBVIOUS
  <2>1. ~Raised(n, stack, exception)
    BY DEF Goes
  <2>2. Cardinality(made) + Len(f.replies) + (IF Sends(n, stack) THEN stack[n + 1].left ELSE 0) >= L
    BY <1>2, <2>1 DEF HandlesOn
  <2>3. (IF Sends(n, stack') THEN stack'[n + 1].left ELSE 0)
          = (IF Sends(n, stack) THEN stack[n + 1].left ELSE 0)
    BY DEF Goes
  <2> QED
    BY <2>2, <2>3
<1>8. f.stage = "running" => f.replies = <<>> /\ made = {}
  BY <1>2 DEF HandlesOn
<1> HIDE DEF L
<1>9. L = Len(subscribers'[f.subscriber].publishers)
  BY <1>3 DEF L
<1> QED
  BY <1>3, <1>6, <1>7, <1>8, <1>9 DEF HandlesOn

\* A step that keeps the first k calls keeps DoneInv, if it keeps what is theirs and
\* the other calls, and what ended, are well.
LEMMA DoneStep ==
  ASSUME ShapeInv, DoneInv, Grows, OksStay, DonesStay, NEW k, Alike(k),
         \A n \in 1..k : stack[n].op = "handle" => deliveries'[stack[n].delivery].ended = "no",
         \A n \in 1..(k - 1) : stack[n].op = "handle" =>
           MessagesBy(stack[n].delivery, sent') = MessagesBy(stack[n].delivery, sent),
         \A n \in 1..(k - 1) : stack[n].op = "publish" /\ stack[n].message # 0 =>
           \A d \in DOMAIN deliveries' : d \notin DOMAIN deliveries =>
             deliveries'[d].message # stack[n].message,
         \A n \in 1..Len(stack') : n >= k =>
           OnCall(n, stack', sent', deliveries', subscribers', exception'),
         \A i \in 1..Len(stack'), j \in (k + 1)..Len(stack') :
           stack'[i].op = "handle" /\ stack'[j].op = "handle"
           /\ stack'[i].delivery = stack'[j].delivery => i = j,
         RoutedWell(sent', deliveries'), EndedWell(sent', deliveries', subscribers'),
         SettledWell(sent', deliveries', subscribers')
  PROVE  DoneInv'
<1>1. /\ Len(stack') \in Nat /\ DOMAIN stack' = 1..Len(stack') /\ Len(stack) \in Nat
      /\ DOMAIN stack = 1..Len(stack) /\ k \in 0..Len(stack) /\ k <= Len(stack')
  BY SequenceHas DEF ShapeInv, Alike
<1>2. ASSUME NEW n \in 1..(k - 1)
      PROVE  OnCall(n, stack', sent', deliveries', subscribers', exception')
  <2>1. /\ n \in 1..k /\ n + 1 \in 1..k /\ n < Len(stack) /\ n < Len(stack')
        /\ n \in DOMAIN stack /\ n + 1 \in DOMAIN stack
    BY <1>1
  <2>2. ~Raised(n, stack, exception)
    <3>1. n # Len(stack)
      <4>1. n \in Nat /\ n < Len(stack) /\ Len(stack) \in Nat
        BY <1>1, <2>1
      <4> QED
        BY <4>1
    <3> QED
      BY <3>1 DEF Raised
  <2>3. /\ stack'[n + 1].op = stack[n + 1].op
        /\ stack[n + 1].op # "request" => stack'[n + 1] = stack[n + 1]
    BY <2>1 DEF Alike
  <2>4. /\ stack'[n].op = stack[n].op
    BY <2>1 DEF Alike
  <2>5. ASSUME stack[n].op = "handle"
        PROVE  HandlesOn(n, stack', sent', deliveries', subscribers', exception')
    <3>1. Goes(n)
      BY <2>1, <2>2, <2>3 DEF Goes, Sends
    <3>2. /\ deliveries'[stack[n].delivery].ended = "no"
          /\ MessagesBy(stack[n].delivery, sent') = MessagesBy(stack[n].delivery, sent)
      BY <2>1, <2>5
    <3> QED
      BY <2>1, <2>5, <3>1, <3>2, HandleStays
  <2>6. ASSUME stack[n].op = "publish"
        PROVE  PublishesOn(n, stack', sent', deliveries', exception')
    <3>1. stack[n].message # 0 => \A d \in DOMAIN deliveries' : d \notin DOMAIN deliveries =>
            deliveries'[d].message # stack[n].message
      BY <2>6
    <3>2. ASSUME NEW d \in DOMAIN deliveries, stack[n + 1].op = "handle", stack[n + 1].delivery = d
          PROVE  n < Len(stack') /\ stack'[n + 1].op = "handle" /\ stack'[n + 1].delivery = d
      BY <2>1, <2>3, <3>2
    <3> QED
      BY <2>1, <2>2, <2>6, <3>1, <3>2, PublishStays
  <2> QED
    BY <2>4, <2>5, <2>6 DEF OnCall
<1>3. ASSUME NEW n \in DOMAIN stack'
      PROVE  OnCall(n, stack', sent', deliveries', subscribers', exception')
  BY <1>1, <1>2
<1>4. ASSUME NEW i \in DOMAIN stack', NEW j \in DOMAIN stack',
             stack'[i].op = "handle", stack'[j].op = "handle",
             stack'[i].delivery = stack'[j].delivery
      PROVE  i = j
  <2>1. CASE i > k \/ j > k
    BY <1>1, <1>4, <2>1
  <2>2. CASE i <= k /\ j <= k
    <3>1. i \in 1..k /\ j \in 1..k /\ i \in DOMAIN stack /\ j \in DOMAIN stack
      BY <1>1, <2>2
    <3>2. /\ stack[i].op = "handle" /\ stack[j].op = "handle"
          /\ stack'[i] = stack[i] /\ stack'[j] = stack[j]
      BY <1>4, <3>1 DEF Alike
    <3> QED
      BY <1>4, <3>1, <3>2 DEF DoneInv
  <2> QED
    BY <1>1, <2>1, <2>2
<1> QED
  BY <1>3, <1>4 DEF DoneInv

\* What DoneInv says of an open call.
LEMMA Opened ==
  ASSUME ShapeInv, DoneInv, NEW n \in DOMAIN stack
  PROVE  /\ stack[n].op = "handle" =>
              /\ HandlesOn(n, stack, sent, deliveries, subscribers, exception)
              /\ stack[n].delivery \in DOMAIN deliveries /\ stack[n].delivery # Code
              /\ deliveries[stack[n].delivery].ended = "no"
         /\ stack[n].op = "publish" => PublishesOn(n, stack, sent, deliveries, exception)
<1>1. OnCall(n, stack, sent, deliveries, subscribers, exception)
  BY DEF DoneInv
<1>2. stack[n].op = "handle" => stack[n].delivery \in DOMAIN deliveries
  BY DEF ShapeInv, IsCall, IsPublish, IsRequest, IsHandling
<1>3. \A d \in DOMAIN deliveries : d # Code
  BY SequenceHas DEF ShapeInv, Code
<1> QED
  BY <1>1, <1>2, <1>3 DEF OnCall, HandlesOn

\* The message that the innermost call routes has only been given to handlers that
\* have ended well: none of them is running, as none is above it.
LEMMA TopRouted ==
  ASSUME ShapeInv, DoneInv, stack # <<>>, exception = 0, Top.op = "publish", Top.message # 0
  PROVE  \A d \in DOMAIN deliveries :
           deliveries[d].message = Top.message => deliveries[d].ended = "ok"
<1>1. Top = stack[Len(stack)] /\ Len(stack) \in DOMAIN stack /\ Len(stack) \in Nat
  BY TopIs
<1>2. PublishesOn(Len(stack), stack, sent, deliveries, exception)
  BY <1>1, Opened
<1> QED
  BY <1>1, <1>2 DEF PublishesOn, Raised

\* A completed message stays the message of a handler that ended well, or of one
\* that completes what it fails on.
LEMMA SettledAs ==
  ASSUME Grows, OksStay, DoneInv, NEW m \in DOMAIN sent, "complete" \in sent[m].settled
  PROVE  \E d \in DOMAIN deliveries' :
           /\ deliveries'[d].message = m
           /\ \/ deliveries'[d].ended = "ok"
              \/ subscribers'[deliveries'[d].subscriber].policy = "ACK"
<1>1. PICK d \in DOMAIN deliveries :
        /\ deliveries[d].message = m
        /\ deliveries[d].ended = "ok" \/ subscribers[deliveries[d].subscriber].policy = "ACK"
  BY DEF DoneInv, SettledWell
<1>2. /\ d \in DOMAIN deliveries' /\ deliveries'[d].message = m
      /\ deliveries'[d].subscriber = deliveries[d].subscriber /\ subscribers' = subscribers
  BY <1>1 DEF Grows
<1>3. deliveries[d].ended = "ok" => deliveries'[d].ended = "ok"
  BY DEF OksStay
<1> QED
  BY <1>1, <1>2, <1>3

\* Nothing is completed by a step that completes nothing new.
LEMMA SettledStays ==
  ASSUME Grows, OksStay, DoneInv,
         \A m \in DOMAIN sent' : "complete" \in sent'[m].settled =>
           m \in DOMAIN sent /\ "complete" \in sent[m].settled
  PROVE  SettledWell(sent', deliveries', subscribers')
BY SettledAs DEF SettledWell

\* A step that ends no handler well leaves those that ended with what they sent.
LEMMA EndedStays ==
  ASSUME Grows, DonesStay, DoneInv,
         \A d \in DOMAIN deliveries' : deliveries'[d].ended = "ok" =>
           /\ d \in DOMAIN deliveries /\ deliveries[d].ended = "ok"
           /\ MessagesBy(d, sent') = MessagesBy(d, sent)
  PROVE  EndedWell(sent', deliveries', subscribers')
<1> SUFFICES ASSUME NEW d \in DOMAIN deliveries', deliveries'[d].ended = "ok"
             PROVE  /\ \A m \in MessagesBy(d, sent') : sent'[m].routed = "done"
                    /\ Cardinality(MessagesBy(d, sent'))
                         >= Len(subscribers'[deliveries'[d].subscriber].publishers)
  BY DEF EndedWell
<1>1. /\ d \in DOMAIN deliveries /\ deliveries[d].ended = "ok"
      /\ MessagesBy(d, sent') = MessagesBy(d, sent)
  OBVIOUS
<1>2. /\ \A m \in MessagesBy(d, sent) : sent[m].routed = "done"
      /\ Cardinality(MessagesBy(d, sent)) >= Len(subscribers[deliveries[d].subscriber].publishers)
  BY <1>1 DEF DoneInv, EndedWell
<1>3. deliveries'[d].subscriber = deliveries[d].subscriber /\ subscribers' = subscribers
  BY <1>1 DEF Grows
<1>4. \A m \in MessagesBy(d, sent) : sent'[m].routed = "done"
  BY <1>2 DEF DonesStay, MessagesBy
<1> QED
  BY <1>1, <1>2, <1>3, <1>4

\* A step that routes only what its handlers have ended well.
LEMMA RoutedStays ==
  ASSUME Grows, OksStay, DoneInv,
         \A m \in DOMAIN sent' : sent'[m].routed = "done" =>
           /\ m \in DOMAIN sent
           /\ \/ sent[m].routed = "done"
              \/ \A d \in DOMAIN deliveries :
                   deliveries[d].message = m => deliveries[d].ended = "ok"
           /\ \A d \in DOMAIN deliveries' :
                d \notin DOMAIN deliveries => deliveries'[d].message # m
  PROVE  RoutedWell(sent', deliveries')
<1> SUFFICES ASSUME NEW m \in DOMAIN sent', sent'[m].routed = "done",
                    NEW d \in DOMAIN deliveries', deliveries'[d].message = m
             PROVE  deliveries'[d].ended = "ok"
  BY DEF RoutedWell
<1>1. d \in DOMAIN deliveries /\ deliveries[d].message = m
  BY DEF Grows
<1>2. deliveries[d].ended = "ok"
  BY <1>1 DEF DoneInv, RoutedWell
<1> QED
  BY <1>1, <1>2 DEF OksStay

\* The handlers whose calls stay are distinct.
LEMMA DeliveriesApart ==
  ASSUME ShapeInv, DoneInv, stack # <<>>, Top.op = "handle", NEW n \in 1..(Len(stack) - 1),
         stack[n].op = "handle"
  PROVE  stack[n].delivery # Top.delivery
<1>1. /\ Top = stack[Len(stack)] /\ Len(stack) \in DOMAIN stack /\ Len(stack) \in Nat
      /\ DOMAIN stack = 1..Len(stack)
  BY TopIs
<1>2. n \in DOMAIN stack /\ n < Len(stack)
  BY <1>1
<1>3. n # Len(stack)
  BY <1>1, <1>2
<1> QED
  BY <1>1, <1>2, <1>3 DEF DoneInv

\* A step that neither sends nor delivers.
LEMMA DoneStill ==
  ASSUME ShapeInv, DoneInv, UNCHANGED <<app, subscribers, sent, deliveries>>, NEW k, Keeps(k),
         \A n \in 1..Len(stack') : n >= k =>
           OnCall(n, stack', sent', deliveries', subscribers', exception'),
         \A i \in 1..Len(stack'), j \in (k + 1)..Len(stack') :
           stack'[i].op = "handle" /\ stack'[j].op = "handle"
           /\ stack'[i].delivery = stack'[j].delivery => i = j
  PROVE  DoneInv'
<1>1. Grows /\ Alike(k) /\ OksStay /\ DonesStay
  BY Unsent, KeepsAlike DEF OksStay, DonesStay
<1>2. \A n \in 1..k : n \in DOMAIN stack
  BY SequenceHas DEF ShapeInv, Keeps
<1>3. \A n \in 1..k : stack[n].op = "handle" => deliveries'[stack[n].delivery].ended = "no"
  BY <1>2, Opened
<1>4. RoutedWell(sent', deliveries') /\ EndedWell(sent', deliveries', subscribers')
      /\ SettledWell(sent', deliveries', subscribers')
  BY DEF DoneInv
<1>5. \A n \in 1..(k - 1) : stack[n].op = "handle" =>
        MessagesBy(stack[n].delivery, sent') = MessagesBy(stack[n].delivery, sent)
  OBVIOUS
<1>6. \A n \in 1..(k - 1) : stack[n].op = "publish" /\ stack[n].message # 0 =>
        \A d \in DOMAIN deliveries' : d \notin DOMAIN deliveries =>
          deliveries'[d].message # stack[n].message
  OBVIOUS
<1> QED
  BY <1>1, <1>3, <1>4, <1>5, <1>6, DoneStep

\* An exception that is raised or caught, and a call that is refused, sends and
\* ends nothing.
LEMMA QuietDone ==
  ASSUME ShapeInv, DoneInv,
         Refused \/ TimesOut \/ HandlerRaises \/ HandlerCatches \/ UNCHANGED vars
  PROVE  DoneInv'
<1>1. /\ UNCHANGED <<app, subscribers, stack, sent, deliveries>>
      /\ Here \in Nat /\ Keeps(Here) /\ Len(stack') = Here
      /\ exception' = 0 =>
           exception = 0 \/ (stack # <<>> /\ Top.op = "handle" /\ Top.stage = "running")
  BY QuietDoes
<1>2. Grows /\ Alike(Here) /\ OksStay /\ DonesStay
  BY <1>1, Unsent, KeepsAlike DEF OksStay, DonesStay
<1>3. ASSUME Here # 0 PROVE OnCall(Here, stack', sent', deliveries', subscribers', exception')
  <2>1. Here \in 1..Here /\ Here \in DOMAIN stack /\ stack # <<>> /\ Top = stack[Here]
    BY <1>1, <1>3, TopIs, SequenceHas DEF Here, ShapeInv
  <2>2. ~(Here < Len(stack)) /\ ~(Here < Len(stack')) /\ Here = Len(stack) /\ Here = Len(stack')
    BY <1>1 DEF Here
  <2>3. ASSUME stack[Here].op = "handle"
        PROVE  HandlesOn(Here, stack', sent', deliveries', subscribers', exception')
    <3>1. deliveries'[stack[Here].delivery].ended = "no"
      BY <1>1, <2>1, <2>3, Opened
    <3>2. Goes(Here)
      BY <1>1, <2>1, <2>2 DEF Goes, Sends, Raised
    <3>3. MessagesBy(stack[Here].delivery, sent') = MessagesBy(stack[Here].delivery, sent)
      BY <1>1
    <3> QED
      BY <1>2, <2>1, <2>3, <3>1, <3>2, <3>3, HandleStays
  <2>4. ASSUME stack[Here].op = "publish"
        PROVE  PublishesOn(Here, stack', sent', deliveries', exception')
    <3>1. Raised(Here, stack, exception) => Raised(Here, stack', exception')
      BY <1>1, <2>1, <2>2, <2>4 DEF Raised
    <3>2. \A d \in DOMAIN deliveries' : d \in DOMAIN deliveries
      BY <1>1
    <3> QED
      BY <1>2, <2>1, <2>2, <2>4, <3>1, <3>2, PublishStays
  <2> QED
    BY <1>1, <2>3, <2>4 DEF OnCall
<1>4. \A n \in 1..Len(stack') : n >= Here => n = Here /\ Here # 0
  BY <1>1
<1>5. (Here + 1)..Len(stack') = {}
  BY <1>1
<1> QED
  BY <1>1, <1>3, <1>4, <1>5, DoneStill

\* A publish that the test or a handler makes itself is no reply, and has made no
\* message yet.
LEMMA PublishesDone == ASSUME ShapeInv, DoneInv, Publishes PROVE DoneInv'
<1> DEFINE g == stack'[Above]
<1>1. /\ UNCHANGED <<app, subscribers, sent, deliveries>>
      /\ stack # <<>> => Top.op = "handle" /\ Top.stage = "running"
      /\ Here \in Nat /\ Keeps(Here) /\ Len(stack') = Above
      /\ g.op = "publish" /\ g.by = Code /\ g.message = 0
  BY PublishesDoes
<1>2. Grows /\ Alike(Here) /\ OksStay /\ DonesStay
  BY <1>1, Unsent, KeepsAlike DEF OksStay, DonesStay
<1>3. Here # 0 => /\ Here \in DOMAIN stack /\ stack # <<>> /\ stack[Here] = Top
                  /\ stack'[Here] = stack[Here] /\ Here \in 1..Here
  BY <1>1, TopIs, SequenceHas DEF ShapeInv, Here, Keeps
<1>4. ASSUME Here # 0 PROVE OnCall(Here, stack', sent', deliveries', subscribers', exception')
  <2>1. deliveries'[stack[Here].delivery].ended = "no" /\ Goes(Here)
    BY <1>1, <1>3, <1>4, Opened DEF Goes
  <2>2. MessagesBy(stack[Here].delivery, sent') = MessagesBy(stack[Here].delivery, sent)
    BY <1>1
  <2>3. HandlesOn(Here, stack', sent', deliveries', subscribers', exception')
    BY <1>1, <1>2, <1>3, <1>4, <2>1, <2>2, HandleStays
  <2> QED
    BY <1>1, <1>3, <1>4, <2>3 DEF OnCall
<1>5. OnCall(Above, stack', sent', deliveries', subscribers', exception')
  <2>1. Above > 1 => Above - 1 = Here /\ Here # 0
    BY <1>1 DEF Here, Above
  <2>2. ~(Above > 1 /\ stack'[Above - 1].op = "handle" /\ stack'[Above - 1].stage = "returned")
    BY <1>1, <1>3, <2>1
  <2>3. PublishesOn(Above, stack', sent', deliveries', exception')
    BY <1>1, <2>2 DEF PublishesOn
  <2> QED
    BY <1>1, <2>3 DEF OnCall
<1>6. \A n \in 1..Len(stack') : n >= Here => (n = Here /\ Here # 0) \/ n = Above
  BY <1>1 DEF Here, Above
<1>7. (Here + 1)..Len(stack') = {Above}
  BY <1>1 DEF Here, Above
<1> QED
  BY <1>1, <1>4, <1>5, <1>6, <1>7, DoneStill

\* A call of the producer below a handler's call that goes on.
LEMMA BelowHandling ==
  ASSUME ShapeInv, DoneInv, UNCHANGED <<app, subscribers, sent, deliveries>>, exception = 0,
         stack # <<>>, Top.op = "handle", Keeps(Len(stack) - 1), Len(stack') >= Len(stack),
         stack'[Len(stack)].op = "handle", stack'[Len(stack)].delivery = Top.delivery
  PROVE  /\ Len(stack) - 1 \in 1..(Len(stack) - 1)
         /\ OnCall(Len(stack) - 1, stack', sent', deliveries', subscribers', exception')
<1> DEFINE N == Len(stack)
           n == N - 1
<1>1. /\ N \in Nat /\ N > 1 /\ Top = stack[N] /\ n \in 1..n /\ n \in DOMAIN stack
      /\ n + 1 = N /\ n < Len(stack) /\ n < Len(stack') /\ stack[n].op # "handle"
  BY TopIs, TopHandles, SequenceHas DEF Keeps
<1> HIDE DEF N
<1>2. Grows /\ Alike(n) /\ OksStay /\ DonesStay
  BY Unsent, KeepsAlike DEF OksStay, DonesStay, N
<1> HIDE DEF n
<1>3. stack'[n] = stack[n]
  BY <1>1 DEF Keeps, n, N
<1>4. stack'[N].op = "handle" /\ stack'[N].delivery = Top.delivery
  BY DEF N
<1>5. ASSUME stack[n].op = "publish"
      PROVE  PublishesOn(n, stack', sent', deliveries', exception')
  <2>1. ~Raised(n, stack, exception)
    BY DEF Raised
  <2>2. \A d \in DOMAIN deliveries :
          n < Len(stack) /\ stack[n + 1].op = "handle" /\ stack[n + 1].delivery = d =>
            n < Len(stack') /\ stack'[n + 1].op = "handle" /\ stack'[n + 1].delivery = d
    BY <1>1, <1>4
  <2>3. \A d \in DOMAIN deliveries' : d \in DOMAIN deliveries
    OBVIOUS
  <2> QED
    BY <1>1, <1>2, <1>5, <2>1, <2>2, <2>3, PublishStays
<1>6. OnCall(n, stack', sent', deliveries', subscribers', exception')
  BY <1>1, <1>3, <1>5 DEF OnCall
<1> QED
  BY <1>1, <1>6 DEF n, N

\* A handler that returns owes one message for each reply that its result is turned
\* into, and has published none of them yet.
LEMMA HandlerReturnsDone == ASSUME ShapeInv, DoneInv, HandlerReturns PROVE DoneInv'
<1> DEFINE g == stack'[Here]
           f == Top
           made == MessagesBy(Top.delivery, sent)
           L == Len(subscribers[Top.subscriber].publishers)
<1>1. /\ UNCHANGED <<app, subscribers, sent, deliveries>> /\ exception = 0 /\ exception' = 0
      /\ stack # <<>> /\ f.op = "handle" /\ f.stage = "running"
      /\ Here \in Nat /\ Here > 0 /\ Keeps(Here - 1) /\ Len(stack') = Here
      /\ g.op = "handle" /\ g.delivery = f.delivery /\ g.subscriber = f.subscriber
      /\ g.stage = "returned" /\ Len(g.replies) \in Nat /\ L \in Nat /\ Len(g.replies) >= L
  BY HandlerReturnsDoes
<1>2. Here - 1 \in 1..(Here - 1) /\ OnCall(Here - 1, stack', sent', deliveries', subscribers', exception')
  BY <1>1, BelowHandling DEF Here
<1>3. f = stack[Here] /\ Here \in DOMAIN stack
  BY <1>1, TopIs DEF Here
<1> HIDE DEF g
<1>4. /\ made = {} /\ deliveries[f.delivery].ended = "no"
  BY <1>1, <1>3, Opened DEF HandlesOn
<1>5. OnCall(Here, stack', sent', deliveries', subscribers', exception')
  <2>1. ~Sends(Here, stack') /\ ~Raised(Here, stack', exception')
    BY <1>1 DEF Sends, Raised
  <2>2. MessagesBy(g.delivery, sent') = {} /\ deliveries'[g.delivery].ended = "no"
    BY <1>1, <1>4
  <2>3. Cardinality({}) = 0
    BY FS_EmptySet
  <2>4. Cardinality(MessagesBy(g.delivery, sent')) + Len(g.replies) + 0
          >= Len(subscribers'[g.subscriber].publishers)
    BY <1>1, <2>2, <2>3
  <2>5. HandlesOn(Here, stack', sent', deliveries', subscribers', exception')
    BY <1>1, <2>1, <2>2, <2>4 DEF HandlesOn, g
  <2> QED
    BY <1>1, <2>5 DEF OnCall, g
<1>6. \A n \in 1..Len(stack') : n >= Here - 1 => n = Here - 1 \/ n = Here
  BY <1>1
<1>7. ((Here - 1) + 1)..Len(stack') = {Here}
  BY <1>1
<1>8. ASSUME NEW i \in 1..Len(stack'), stack'[i].op = "handle", stack'[i].delivery = g.delivery
      PROVE  i = Here
  <2> SUFFICES ASSUME i # Here PROVE FALSE
    OBVIOUS
  <2>1. i \in 1..(Here - 1) /\ stack'[i] = stack[i]
    BY <1>1 DEF Keeps
  <2>2. i \in 1..(Len(stack) - 1)
    BY <2>1 DEF Here
  <2> QED
    BY <1>1, <1>8, <2>1, <2>2, DeliveriesApart
<1> QED
  BY <1>1, <1>2, <1>5, <1>6, <1>7, <1>8, DoneStill DEF g

\* A reply less is owed, and the call that publishes it is above the handler's.
LEMMA ReplyingDone == ASSUME ShapeInv, DoneInv, Replying PROVE DoneInv'
<1> DEFINE g == stack'[Here]
           h == stack'[Above]
           f == Top
           rs == Top.replies
           made == MessagesBy(Top.delivery, sent)
           L == Len(subscribers[Top.subscriber].publishers)
<1>1. /\ UNCHANGED <<app, subscribers, sent, deliveries>> /\ exception = 0 /\ exception' = 0
      /\ stack # <<>> /\ f.op = "handle" /\ rs # <<>>
      /\ Here \in Nat /\ Here > 0 /\ Keeps(Here - 1) /\ Len(stack') = Above
      /\ g.op = "handle" /\ g.delivery = f.delivery /\ g.subscriber = f.subscriber
      /\ g.stage = f.stage /\ Len(rs) \in Nat /\ Len(g.replies) = Len(rs) - 1
      /\ h.op = "publish" /\ h.by = f.delivery /\ h.message = 0 /\ h.left = 1
  BY ReplyingDoes
<1>2. Here - 1 \in 1..(Here - 1) /\ OnCall(Here - 1, stack', sent', deliveries', subscribers', exception')
  BY <1>1, BelowHandling DEF Here, Above
<1>3. f = stack[Here] /\ Here \in DOMAIN stack
  BY <1>1, TopIs DEF Here
<1>4. HandlesOn(Here, stack, sent, deliveries, subscribers, exception)
      /\ deliveries[f.delivery].ended = "no" /\ f.delivery # Code
  BY <1>1, <1>3, Opened
<1>5. f.stage = "returned"
  <2>1. f.stage \in {"running", "returned"}
    BY <1>1, TopCall DEF IsHandling
  <2> QED
    BY <1>1, <1>3, <1>4, <2>1 DEF HandlesOn
<1>6. ~Sends(Here, stack) /\ ~Raised(Here, stack, exception)
  BY <1>1 DEF Sends, Raised, Here
<1>7. \A m \in made : sent[m].routed = "done"
  BY <1>3, <1>4, <1>6 DEF HandlesOn
<1>8. Cardinality(made) + Len(rs) + 0 >= L
  BY <1>3, <1>4, <1>5, <1>6 DEF HandlesOn
<1>9. Cardinality(made) \in Nat
  BY MadeCounted
<1>10. Here < Len(stack') /\ Here + 1 = Above /\ Above - 1 = Here
  BY <1>1 DEF Here, Above
<1> HIDE DEF g, h, f, rs
<1>11. OnCall(Here, stack', sent', deliveries', subscribers', exception')
  <2>1. Sends(Here, stack') /\ stack'[Here + 1].left = 1
    BY <1>1, <1>10 DEF Sends, h
  <2>2. MessagesBy(g.delivery, sent') = made /\ deliveries'[g.delivery].ended = "no"
        /\ subscribers'[g.subscriber] = subscribers[f.subscriber]
    BY <1>1, <1>4 DEF f
  <2>3. Cardinality(made) + Len(g.replies) + 1 >= L
    <3> DEFINE c == Cardinality(made)
    <3> HIDE DEF c, made, L
    <3>1. c \in Nat /\ c + Len(rs) + 0 >= L /\ Len(rs) \in Nat
      BY <1>1, <1>8, <1>9 DEF c
    <3>2. c + Len(g.replies) + 1 = c + Len(rs) + 0
      BY <1>1, <3>1
    <3>3. c + Len(g.replies) + 1 >= L
      BY <3>1, <3>2
    <3> QED
      BY <3>3 DEF c
  <2>4. L = Len(subscribers'[g.subscriber].publishers)
    BY <2>2 DEF f
  <2> HIDE DEF made, L
  <2>5. \A m \in made : sent'[m].routed = "done"
    BY <1>1, <1>7
  <2>6. HandlesOn(Here, stack', sent', deliveries', subscribers', exception')
    BY <1>1, <1>5, <2>1, <2>2, <2>3, <2>4, <2>5 DEF HandlesOn, g
  <2> QED
    BY <1>1, <2>6 DEF OnCall, g
<1>12. OnCall(Above, stack', sent', deliveries', subscribers', exception')
  <2>1. Above > 1 /\ stack'[Above - 1] = g
    BY <1>1, <1>10 DEF g
  <2>2. PublishesOn(Above, stack', sent', deliveries', exception')
    BY <1>1, <1>4, <1>5, <2>1 DEF PublishesOn, h
  <2> QED
    BY <1>1, <2>2 DEF OnCall, h
<1>13. \A n \in 1..Len(stack') : n >= Here - 1 => n = Here - 1 \/ n = Here \/ n = Above
  BY <1>1 DEF Here, Above
<1>14. \A j \in ((Here - 1) + 1)..Len(stack') : j = Here \/ j = Above
  BY <1>1 DEF Here, Above
<1>15. ASSUME NEW i \in 1..Len(stack'), stack'[i].op = "handle", stack'[i].delivery = g.delivery
      PROVE  i = Here
  <2> SUFFICES ASSUME i # Here PROVE FALSE
    OBVIOUS
  <2>1. i # Above
    BY <1>1, <1>15 DEF h
  <2>2. i \in 1..(Here - 1) /\ stack'[i] = stack[i]
    BY <1>1, <2>1 DEF Keeps, Here, Above
  <2>3. i \in 1..(Len(stack) - 1)
    BY <2>2 DEF Here
  <2> QED
    BY <1>1, <1>15, <2>2, <2>3, DeliveriesApart DEF f
<1>16. ASSUME NEW i \in 1..Len(stack'), NEW j \in ((Here - 1) + 1)..Len(stack'),
              stack'[i].op = "handle", stack'[j].op = "handle",
              stack'[i].delivery = stack'[j].delivery
       PROVE  i = j
  <2>1. j = Here
    BY <1>1, <1>14, <1>16 DEF h
  <2> QED
    BY <1>15, <1>16, <2>1 DEF g
<1> QED
  BY <1>1, <1>2, <1>11, <1>12, <1>13, <1>16, DoneStill

\* A call of the producer below the innermost call, which is no handler's or raises.
LEMMA BelowPublish ==
  ASSUME ShapeInv, DoneInv, Grows, OksStay, stack # <<>>, NEW n, n = Len(stack) - 1, Alike(n),
         n > 0, stack[n].op = "publish",
         (Top.op # "handle" /\ exception = 0) \/ Raised(n, stack', exception'),
         stack[n].message # 0 => \A d \in DOMAIN deliveries' : d \notin DOMAIN deliveries =>
           deliveries'[d].message # stack[n].message
  PROVE  PublishesOn(n, stack', sent', deliveries', exception')
<1>1. /\ Len(stack) \in Nat /\ n \in 1..n /\ n + 1 = Len(stack) /\ Top = stack[n + 1]
      /\ n < Len(stack)
  BY TopIs
<1>2. Raised(n, stack, exception) => Raised(n, stack', exception')
  BY <1>1 DEF Raised
<1>3. \A d \in DOMAIN deliveries :
        n < Len(stack) /\ stack[n + 1].op = "handle" /\ stack[n + 1].delivery = d =>
          \/ deliveries'[d].ended = "ok"
          \/ n < Len(stack') /\ stack'[n + 1].op = "handle" /\ stack'[n + 1].delivery = d
          \/ Raised(n, stack', exception')
  BY <1>1
<1> QED
  BY <1>1, <1>2, <1>3, PublishStays

\* A delivery that begins.
LEMMA BeginsOn ==
  ASSUME NEW n, Begins(stack'[n]), \A m \in DOMAIN sent' : sent'[m].by # Begun
  PROVE  OnCall(n, stack', sent', deliveries', subscribers', exception')
<1> DEFINE h == stack'[n]
<1>1. /\ h.op = "handle" /\ h.delivery = Begun /\ h.stage = "running" /\ h.replies = <<>>
      /\ deliveries'[Begun].ended = "no"
  BY DEF Begins
<1>2. MessagesBy(Begun, sent') = {}
  BY DEF MessagesBy
<1> QED
  BY <1>1, <1>2 DEF OnCall, HandlesOn

\* A message made for a delivery is one that the handler below was owed.
LEMMA BuildsDone == ASSUME ShapeInv, RouteInv, DoneInv, Builds PROVE DoneInv'
<1> DEFINE m == Latest
           g == stack'[Here]
           f == Top
           k == Here - 1
           ts == Targets(Top.cmd.destination)
<1>1. /\ UNCHANGED <<app, subscribers, deliveries>> /\ exception = 0 /\ exception' = 0
      /\ stack # <<>> /\ f.op = "publish" /\ f.left > 0
      /\ Here \in Nat /\ Here > 0 /\ Keeps(k) /\ Len(stack') = Here
      /\ g = [op |-> "publish", cmd |-> f.cmd, left |-> f.left - 1,
              message |-> m, targets |-> ts, by |-> f.by]
      /\ IsPublish(f, DOMAIN sent, DOMAIN deliveries, DOMAIN subscribers)
      /\ Grows /\ DOMAIN sent' = DOMAIN sent \cup {m} /\ m \notin DOMAIN sent /\ m # 0
      /\ \A i \in DOMAIN sent :
           /\ sent'[i].settled = sent[i].settled
           /\ sent'[i].routed = IF i = f.message THEN "done" ELSE sent[i].routed
      /\ sent'[m].by = f.by /\ sent'[m].routed = "no" /\ sent'[m].settled = {}
  BY BuildsDoes
<1>2. f = stack[Here] /\ Here \in DOMAIN stack /\ DOMAIN stack = 1..Here /\ Here = Len(stack)
  BY <1>1, TopIs DEF Here
<1>3. PublishesOn(Here, stack, sent, deliveries, exception)
  BY <1>1, <1>2, Opened
<1> HIDE DEF m, ts, f, g
<1>4. g.op = "publish" /\ g.left = f.left - 1 /\ g.message = m /\ g.by = f.by
  BY <1>1
<1>5. Alike(k) /\ OksStay /\ DonesStay
  BY <1>1, KeepsAlike DEF OksStay, DonesStay
<1>6. f.by # Code => f.by \in DOMAIN deliveries /\ deliveries[f.by].ended = "no"
  <2> SUFFICES ASSUME f.by # Code PROVE f.by \in DOMAIN deliveries /\ deliveries[f.by].ended = "no"
    OBVIOUS
  <2>1. Here > 1 /\ stack[Here - 1].op = "handle" /\ stack[Here - 1].delivery = f.by
    BY <1>2, <1>3 DEF PublishesOn
  <2>2. Here - 1 \in DOMAIN stack
    BY <1>1, <1>2, <2>1
  <2> QED
    BY <2>1, <2>2, Opened
<1>7. \A d : d # f.by => MessagesBy(d, sent') = MessagesBy(d, sent)
  <2> TAKE d
  <2> HAVE d # f.by
  <2> QED
    BY <1>1, MadeKept
<1>8. ASSUME NEW n \in 1..(k - 1), stack[n].op = "handle"
      PROVE  MessagesBy(stack[n].delivery, sent') = MessagesBy(stack[n].delivery, sent)
  <2>1. n \in DOMAIN stack /\ Here - 1 \in DOMAIN stack /\ n < Here - 1
    BY <1>1, <1>2
  <2>2. n # Here - 1
    BY <1>1, <2>1
  <2>3. stack[n].delivery # f.by
    BY <1>2, <1>3, <1>8, <2>1, <2>2, Opened DEF PublishesOn, DoneInv
  <2> QED
    BY <1>7, <2>3
<1>9. ASSUME k > 0 PROVE OnCall(k, stack', sent', deliveries', subscribers', exception')
  <2>1. /\ k \in 1..k /\ k \in DOMAIN stack /\ k + 1 = Here /\ k < Len(stack) /\ k < Len(stack')
        /\ Here > 1
    BY <1>1, <1>2, <1>9
  <2>2. stack'[k] = stack[k]
    BY <2>1, <1>1 DEF Keeps
  <2>3. ASSUME stack[k].op = "publish"
        PROVE  PublishesOn(k, stack', sent', deliveries', exception')
    <3>1. \A d \in DOMAIN deliveries' : d \in DOMAIN deliveries
      BY <1>1
    <3>2. k = Len(stack) - 1 /\ Top.op # "handle"
      BY <1>1, <1>2 DEF f
    <3> QED
      BY <1>1, <1>5, <1>9, <2>3, <3>1, <3>2, BelowPublish
  <2>4. ASSUME stack[k].op = "handle", stack[k].stage = "running"
        PROVE  HandlesOn(k, stack', sent', deliveries', subscribers', exception')
    <3>1. f.by = Code
      BY <1>2, <1>3, <2>4 DEF PublishesOn
    <3>2. MessagesBy(stack[k].delivery, sent') = MessagesBy(stack[k].delivery, sent)
      BY <1>7, <2>1, <2>4, <3>1, Opened
    <3>3. deliveries'[stack[k].delivery].ended = "no"
      BY <1>1, <2>1, <2>4, Opened
    <3>4. Goes(k)
      BY <2>4 DEF Goes
    <3> QED
      BY <1>1, <1>5, <2>1, <2>4, <3>2, <3>3, <3>4, HandleStays
  <2>5. ASSUME stack[k].op = "handle", stack[k].stage = "returned"
        PROVE  HandlesOn(k, stack', sent', deliveries', subscribers', exception')
    <3> DEFINE b == stack[k]
               made == MessagesBy(b.delivery, sent)
               L == Len(subscribers[b.subscriber].publishers)
    <3>1. f.by # Code
      BY <1>2, <1>3, <2>1, <2>5 DEF PublishesOn
    <3>2. f.by = b.delivery /\ f.left = IF f.message = 0 THEN 1 ELSE 0
      BY <1>2, <1>3, <3>1 DEF PublishesOn
    <3>3. f.message = 0 /\ f.left = 1
      BY <1>1, <3>2
    <3>4. HandlesOn(k, stack, sent, deliveries, subscribers, exception)
      BY <2>1, <2>5, Opened
    <3>5. /\ Sends(k, stack) /\ stack[k + 1] = f /\ ~Raised(k, stack, exception)
          /\ Sends(k, stack') /\ stack'[k + 1] = g
      BY <1>1, <1>2, <1>4, <2>1 DEF Sends, Raised, g
    <3>6. Cardinality(made) + Len(b.replies) + 1 >= L
      BY <2>5, <3>3, <3>4, <3>5 DEF HandlesOn
    <3>7. MessagesBy(b.delivery, sent') = made \cup {m}
      BY <1>1, <3>2 DEF MessagesBy, Grows
    <3>8. Cardinality(made \cup {m}) = Cardinality(made) + 1 /\ Cardinality(made) \in Nat
      <4>1. m \notin made
        BY <1>1 DEF MessagesBy
      <4>2. IsFiniteSet(made) /\ Cardinality(made) \in Nat
        BY MadeCounted
      <4> HIDE DEF made
      <4> QED
        BY <4>1, <4>2, FS_AddElement
    <3>9. Len(b.replies) \in Nat
      <4>1. IsSequence(b.replies)
        BY <2>1, <2>5 DEF ShapeInv, IsCall, IsPublish, IsRequest, IsHandling
      <4> QED
        BY <4>1, SequenceHas
    <3>10. Cardinality(made \cup {m}) + Len(b.replies) + (f.left - 1) >= L
      <4> DEFINE c == Cardinality(made)
                 e == Cardinality(made \cup {m})
                 r == Len(b.replies)
                 l == f.left - 1
      <4>1. c \in Nat /\ e = c + 1 /\ r \in Nat /\ l = 0 /\ c + r + 1 >= L
        BY <3>3, <3>6, <3>8, <3>9
      <4> HIDE DEF c, e, r, l, L
      <4>2. e + r + l = c + r + 1
        BY <4>1
      <4>3. e + r + l >= L
        BY <4>1, <4>2
      <4> QED
        BY <4>3 DEF e, r, l
    <3>11. /\ deliveries'[b.delivery].ended = "no" /\ b.stage = "returned"
           /\ \A i \in made : i \in DOMAIN sent /\ sent[i].routed = "done"
      <4>1. \A i \in made : i \in DOMAIN sent /\ i # 0
        BY SequenceHas DEF MessagesBy, ShapeInv
      <4> QED
        BY <1>1, <2>5, <3>3, <3>4, <3>5, <4>1 DEF HandlesOn
    <3>12. \A i \in made : sent'[i].routed = "done"
      BY <1>5, <3>11 DEF DonesStay
    <3>13. \A i \in made \cup {m} : sent'[i].routed = "done" \/ (Sends(k, stack') /\ g.message = i)
      BY <1>4, <3>5, <3>12
    <3>14. L = Len(subscribers'[b.subscriber].publishers)
      BY <1>1
    <3>15. stack'[k] = b /\ g.left = f.left - 1
      BY <1>4, <2>2
    <3> HIDE DEF b, L, made
    <3> QED
      BY <3>5, <3>7, <3>10, <3>11, <3>13, <3>14, <3>15 DEF HandlesOn
  <2>6. stack[k].op = "handle" => stack[k].stage \in {"running", "returned"}
    BY <2>1 DEF ShapeInv, IsCall, IsPublish, IsRequest, IsHandling
  <2> QED
    BY <2>2, <2>3, <2>4, <2>5, <2>6 DEF OnCall
<1>10. OnCall(Here, stack', sent', deliveries', subscribers', exception')
  <2>1. Here > 1 => stack'[Here - 1] = stack[Here - 1]
    BY <1>1 DEF Keeps
  <2>2. f.by # Code => f.left - 1 = 0
    BY <1>1, <1>2, <1>3 DEF PublishesOn
  <2>3. \A d \in DOMAIN deliveries' : deliveries'[d].message # m
    BY <1>1 DEF ShapeInv
  <2>4. f.by # Code <=> (Here > 1 /\ stack[Here - 1].op = "handle" /\ stack[Here - 1].stage = "returned")
    BY <1>2, <1>3 DEF PublishesOn
  <2>5. f.by # Code => f.by = stack[Here - 1].delivery
    BY <1>2, <1>3 DEF PublishesOn
  <2>6. PublishesOn(Here, stack', sent', deliveries', exception')
    BY <1>1, <1>4, <2>1, <2>2, <2>3, <2>4, <2>5 DEF PublishesOn, g
  <2> QED
    BY <1>4, <2>6 DEF OnCall, g
<1>11. EndedWell(sent', deliveries', subscribers')
  <2>1. ASSUME NEW d \in DOMAIN deliveries', deliveries'[d].ended = "ok"
        PROVE  /\ d \in DOMAIN deliveries /\ deliveries[d].ended = "ok"
               /\ MessagesBy(d, sent') = MessagesBy(d, sent)
    <3>1. d \in DOMAIN deliveries /\ deliveries[d].ended = "ok" /\ d # Code
      BY <1>1, <2>1, SequenceHas DEF ShapeInv, Code
    <3>2. d # f.by
      BY <1>6, <3>1
    <3> QED
      BY <1>7, <3>1, <3>2
  <2> QED
    BY <1>1, <1>5, <2>1, EndedStays
<1>12. RoutedWell(sent', deliveries')
  <2>1. ASSUME NEW i \in DOMAIN sent', sent'[i].routed = "done"
        PROVE  /\ i \in DOMAIN sent
               /\ \/ sent[i].routed = "done"
                  \/ \A d \in DOMAIN deliveries :
                       deliveries[d].message = i => deliveries[d].ended = "ok"
    <3>1. i \in DOMAIN sent /\ i # 0
      BY <1>1, <2>1, SequenceHas DEF ShapeInv
    <3>2. i = f.message => \A d \in DOMAIN deliveries :
                             deliveries[d].message = i => deliveries[d].ended = "ok"
      BY <1>1, <3>1, TopRouted DEF f
    <3> QED
      BY <1>1, <2>1, <3>1, <3>2
  <2>2. \A d \in DOMAIN deliveries' : d \in DOMAIN deliveries
    BY <1>1
  <2> QED
    BY <1>1, <1>5, <2>1, <2>2, RoutedStays
<1>13. SettledWell(sent', deliveries', subscribers')
  <2>1. \A i \in DOMAIN sent' : "complete" \in sent'[i].settled =>
           i \in DOMAIN sent /\ "complete" \in sent[i].settled
    BY <1>1
  <2> QED
    BY <1>1, <1>5, <2>1, SettledStays
<1>14. \A n \in 1..k : stack[n].op = "handle" => deliveries'[stack[n].delivery].ended = "no"
  <2>1. \A n \in 1..k : n \in DOMAIN stack
    BY <1>1, <1>2
  <2> QED
    BY <1>1, <2>1, Opened
<1>15. \A n \in 1..(k - 1) : stack[n].op = "publish" /\ stack[n].message # 0 =>
         \A d \in DOMAIN deliveries' : d \notin DOMAIN deliveries =>
           deliveries'[d].message # stack[n].message
  BY <1>1
<1>16. ASSUME NEW n \in 1..Len(stack'), n >= k
       PROVE  OnCall(n, stack', sent', deliveries', subscribers', exception')
  <2>1. (n = k /\ k > 0) \/ n = Here
    BY <1>1, <1>16
  <2> QED
    BY <1>9, <1>10, <2>1
<1>17. \A j \in (k + 1)..Len(stack') : stack'[j].op # "handle"
  <2>1. \A j \in (k + 1)..Len(stack') : j = Here
    BY <1>1
  <2> QED
    BY <1>4, <2>1 DEF g
<1> HIDE DEF k
<1> QED
  BY <1>1, <1>5, <1>8, <1>11, <1>12, <1>13, <1>14, <1>15, <1>16, <1>17, DoneStep

\* A handler that is given a message has not ended, and has published nothing.
LEMMA RoutesDone == ASSUME ShapeInv, RouteInv, DoneInv, Routes PROVE DoneInv'
<1> DEFINE g == stack'[Here]
           h == stack'[Above]
           f == Top
           d == Begun
           k == Here - 1
           ts == f.targets \ {h.subscriber}
<1>1. /\ UNCHANGED <<app, subscribers, sent>> /\ exception = 0 /\ exception' = 0
      /\ stack # <<>> /\ f.op = "publish"
      /\ Here \in Nat /\ Here > 0 /\ Keeps(k) /\ Len(stack') = Above
      /\ g = [op |-> "publish", cmd |-> f.cmd, left |-> f.left,
              message |-> f.message, targets |-> ts, by |-> f.by]
      /\ f.message \in DOMAIN sent /\ f.message # 0 /\ Begins(h) /\ Grows
  BY RoutesDoes
<1>2. /\ f = stack[Here] /\ Here \in DOMAIN stack /\ DOMAIN stack = 1..Here /\ Here = Len(stack)
      /\ Above = Here + 1 /\ Above - 1 = Here /\ Here < Above
  BY <1>1, TopIs DEF Here, Above
<1>3. /\ h.op = "handle" /\ h.delivery = d /\ DOMAIN deliveries' = DOMAIN deliveries \cup {d}
      /\ d \notin DOMAIN deliveries /\ d # Code /\ deliveries'[d].ended = "no"
      /\ deliveries'[d].message = h.message
      /\ \A e \in DOMAIN deliveries : deliveries'[e] = deliveries[e]
  BY <1>1 DEF Begins
<1>4. h.message = f.message
  BY <1>1, RoutesDoes
<1> HIDE DEF g, h, ts, f, d
<1>5. g.op = "publish" /\ g.left = f.left /\ g.message = f.message /\ g.by = f.by
  BY <1>1
<1>6. Alike(k) /\ OksStay /\ DonesStay
  BY <1>1, <1>3, KeepsAlike DEF OksStay, DonesStay
<1>7. \A n \in 1..k : n \in DOMAIN stack /\ n # Here /\ stack'[n] = stack[n]
  <2> TAKE n \in 1..k
  <2>1. Here \in Nat /\ DOMAIN stack = 1..Here
    BY <1>1, <1>2
  <2>2. n \in DOMAIN stack /\ n # Here
    BY <2>1
  <2>3. stack'[n] = stack[n]
    BY <1>1 DEF Keeps
  <2> QED
    BY <2>2, <2>3
<1>8. ASSUME NEW n \in 1..k, stack[n].op = "publish", stack[n].message # 0
      PROVE  \A e \in DOMAIN deliveries' : e \notin DOMAIN deliveries =>
               deliveries'[e].message # stack[n].message
  <2>1. stack[n].message # f.message
    BY <1>1, <1>2, <1>7, <1>8 DEF RouteInv, Routing
  <2> QED
    BY <1>3, <1>4, <2>1
<1>9. \A n \in 1..k : stack[n].op = "handle" => deliveries'[stack[n].delivery].ended = "no"
  BY <1>3, <1>7, Opened
<1>10. ASSUME k > 0 PROVE OnCall(k, stack', sent', deliveries', subscribers', exception')
  <2>1. k \in 1..k /\ k + 1 = Here /\ k < Len(stack) /\ k < Len(stack') /\ k = Len(stack) - 1
    BY <1>1, <1>2, <1>10
  <2>2. ASSUME stack[k].op = "publish"
        PROVE  PublishesOn(k, stack', sent', deliveries', exception')
    <3>1. Top.op # "handle"
      BY <1>1 DEF f
    <3>2. stack[k].message # 0 => \A e \in DOMAIN deliveries' : e \notin DOMAIN deliveries =>
            deliveries'[e].message # stack[k].message
      BY <1>8, <2>1, <2>2
    <3> QED
      BY <1>1, <1>6, <1>10, <2>1, <2>2, <3>1, <3>2, BelowPublish
  <2>3. ASSUME stack[k].op = "handle"
        PROVE  HandlesOn(k, stack', sent', deliveries', subscribers', exception')
    <3>1. Sends(k, stack) /\ Sends(k, stack') /\ stack[k + 1] = f /\ stack'[k + 1] = g
      BY <1>1, <1>2, <1>5, <2>1 DEF Sends, g
    <3>2. Goes(k)
      BY <1>1, <1>5, <3>1 DEF Goes, Raised
    <3>3. MessagesBy(stack[k].delivery, sent') = MessagesBy(stack[k].delivery, sent)
      BY <1>1
    <3>4. deliveries'[stack[k].delivery].ended = "no"
      BY <1>9, <2>1, <2>3
    <3> QED
      BY <1>1, <1>6, <2>1, <2>3, <3>2, <3>3, <3>4, HandleStays
  <2> QED
    BY <1>7, <2>1, <2>2, <2>3 DEF OnCall
<1>11. OnCall(Here, stack', sent', deliveries', subscribers', exception')
  <2>1. PublishesOn(Here, stack, sent, deliveries, exception)
    BY <1>1, <1>2, Opened
  <2>2. Here > 1 => stack'[Here - 1] = stack[Here - 1]
    BY <1>1, <1>7
  <2>3. \A e \in DOMAIN deliveries : deliveries[e].message = f.message => deliveries[e].ended = "ok"
    BY <1>1, TopRouted DEF f
  <2>4. \A e \in DOMAIN deliveries' : deliveries'[e].message = g.message =>
          \/ deliveries'[e].ended = "ok"
          \/ Here < Len(stack') /\ stack'[Here + 1].op = "handle" /\ stack'[Here + 1].delivery = e
    BY <1>1, <1>2, <1>3, <1>5, <2>3 DEF h
  <2>5. f.by # Code <=> (Here > 1 /\ stack[Here - 1].op = "handle" /\ stack[Here - 1].stage = "returned")
    BY <1>2, <2>1 DEF PublishesOn
  <2>6. f.by # Code => /\ f.by = stack[Here - 1].delivery /\ f.left = (IF f.message = 0 THEN 1 ELSE 0)
                       /\ sent'[f.message].by = f.by
    BY <1>1, <1>2, <2>1 DEF PublishesOn
  <2>7. PublishesOn(Here, stack', sent', deliveries', exception')
    BY <1>1, <1>5, <2>2, <2>4, <2>5, <2>6 DEF PublishesOn, g
  <2> QED
    BY <1>5, <2>7 DEF OnCall, g
<1>12. OnCall(Above, stack', sent', deliveries', subscribers', exception')
  <2>1. Begins(stack'[Above])
    BY <1>1 DEF h
  <2>2. \A m \in DOMAIN sent' : sent'[m].by # Begun
    BY <1>1, <1>3 DEF ShapeInv, d
  <2> QED
    BY <2>1, <2>2, BeginsOn
<1>13. EndedWell(sent', deliveries', subscribers')
  <2>1. \A e \in DOMAIN deliveries' : deliveries'[e].ended = "ok" =>
          /\ e \in DOMAIN deliveries /\ deliveries[e].ended = "ok"
          /\ MessagesBy(e, sent') = MessagesBy(e, sent)
    BY <1>1, <1>3
  <2> QED
    BY <1>1, <1>6, <2>1, EndedStays
<1>14. RoutedWell(sent', deliveries')
  <2>1. sent[f.message].routed = "no"
    BY <1>1, <1>2 DEF RouteInv, IsOpen, Routing
  <2>2. \A m \in DOMAIN sent' : sent'[m].routed = "done" =>
          /\ m \in DOMAIN sent /\ sent[m].routed = "done"
          /\ \A e \in DOMAIN deliveries' : e \notin DOMAIN deliveries => deliveries'[e].message # m
    BY <1>1, <1>3, <1>4, <2>1
  <2> QED
    BY <1>1, <1>6, <2>2, RoutedStays
<1>15. SettledWell(sent', deliveries', subscribers')
  BY <1>1, <1>6, SettledStays
<1>16. \A n \in 1..(k - 1) : stack[n].op = "publish" /\ stack[n].message # 0 =>
         \A e \in DOMAIN deliveries' : e \notin DOMAIN deliveries =>
           deliveries'[e].message # stack[n].message
  <2>1. \A n \in 1..(k - 1) : n \in 1..k
    BY <1>1
  <2> QED
    BY <1>8, <2>1
<1>17. \A n \in 1..(k - 1) : stack[n].op = "handle" =>
         MessagesBy(stack[n].delivery, sent') = MessagesBy(stack[n].delivery, sent)
  BY <1>1
<1>18. ASSUME NEW n \in 1..Len(stack'), n >= k
       PROVE  OnCall(n, stack', sent', deliveries', subscribers', exception')
  <2>1. (n = k /\ k > 0) \/ n = Here \/ n = Above
    <3>1. Here \in Nat /\ Above = Here + 1 /\ Len(stack') = Above
      BY <1>1, <1>2
    <3> QED
      BY <1>18, <3>1
  <2> QED
    BY <1>10, <1>11, <1>12, <2>1
<1>19. ASSUME NEW i \in 1..Len(stack'), NEW j \in (k + 1)..Len(stack'), stack'[i].op = "handle",
              stack'[j].op = "handle", stack'[i].delivery = stack'[j].delivery
       PROVE  i = j
  <2>1. (i \in 1..k \/ i = Here \/ i = Above) /\ (j = Here \/ j = Above)
    <3>1. Here \in Nat /\ Above = Here + 1 /\ Len(stack') = Above
      BY <1>1, <1>2
    <3> QED
      BY <3>1
  <2>2. i # Here /\ j = Above
    BY <1>5, <1>19, <2>1 DEF g
  <2>3. ASSUME i \in 1..k PROVE FALSE
    <3>1. stack[i].op = "handle" /\ stack[i].delivery = d
      BY <1>3, <1>7, <1>19, <2>2, <2>3 DEF h
    <3>2. stack[i].delivery \in DOMAIN deliveries
      BY <1>7, <2>3, <3>1, Opened
    <3> QED
      BY <1>3, <3>1, <3>2
  <2> QED
    BY <2>1, <2>2, <2>3
<1> HIDE DEF k
<1> QED
  BY <1>1, <1>6, <1>9, <1>13, <1>14, <1>15, <1>16, <1>17, <1>18, <1>19, DoneStep

\* A call that is not a handler's returns.
LEMMA ReturnsDone ==
  ASSUME ShapeInv, RouteInv, DoneInv, PublishReturns \/ RequestReturns
  PROVE  DoneInv'
<1> DEFINE f == Top
           k == Here - 1
           w == IF f.op = "publish" THEN f.message ELSE 0
<1>1. /\ UNCHANGED <<app, subscribers, deliveries>> /\ exception = 0 /\ exception' = 0
      /\ stack # <<>> /\ f.op # "handle"
      /\ Here \in Nat /\ Here > 0 /\ Keeps(k) /\ Len(stack') = k
      /\ Grows /\ SameSettled /\ DOMAIN sent' = DOMAIN sent
      /\ f.op = "publish" => f.left = 0
  <2>1. CASE PublishReturns
    BY <2>1, PublishReturnsDoes
  <2>2. CASE RequestReturns
    BY <2>2, RequestReturnsDoes
  <2> QED
    BY <2>1, <2>2
<1>2. \A m \in DOMAIN sent : sent'[m].routed = IF m = w THEN "done" ELSE sent[m].routed
  <2>1. CASE PublishReturns
    BY <2>1, PublishReturnsDoes
  <2>2. CASE RequestReturns
    <3>1. f.op = "request" /\ SameRoutes
      BY <2>2, RequestReturnsDoes
    <3>2. \A m \in DOMAIN sent : m # 0
      BY SequenceHas DEF ShapeInv
    <3> QED
      BY <3>1, <3>2 DEF SameRoutes
  <2> QED
    BY <2>1, <2>2
<1>3. /\ f = stack[Here] /\ Here \in DOMAIN stack /\ DOMAIN stack = 1..Here /\ Here = Len(stack)
  BY <1>1, TopIs DEF Here
<1> HIDE DEF f
<1>4. Alike(k) /\ OksStay /\ DonesStay
  BY <1>1, <1>2, KeepsAlike DEF OksStay, DonesStay
<1>5. \A d : MessagesBy(d, sent') = MessagesBy(d, sent)
  BY <1>1, MadeKept
<1>6. \A n \in 1..k : n \in DOMAIN stack /\ stack'[n] = stack[n]
  BY <1>1, <1>3 DEF Keeps
<1>7. \A n \in 1..k : stack[n].op = "handle" => deliveries'[stack[n].delivery].ended = "no"
  BY <1>1, <1>6, Opened
<1>8. ASSUME k > 0 PROVE OnCall(k, stack', sent', deliveries', subscribers', exception')
  <2>1. k \in 1..k /\ k + 1 = Here /\ k < Len(stack) /\ ~(k < Len(stack')) /\ k = Len(stack) - 1
    BY <1>1, <1>3, <1>8
  <2>2. ASSUME stack[k].op = "publish"
        PROVE  PublishesOn(k, stack', sent', deliveries', exception')
    <3>1. Top.op # "handle" /\ \A d \in DOMAIN deliveries' : d \in DOMAIN deliveries
      BY <1>1 DEF f
    <3> QED
      BY <1>1, <1>4, <1>8, <2>1, <2>2, <3>1, BelowPublish
  <2>3. ASSUME stack[k].op = "handle"
        PROVE  HandlesOn(k, stack', sent', deliveries', subscribers', exception')
    <3>1. ~Sends(k, stack') /\ stack[k + 1] = f /\ ~Raised(k, stack, exception)
      BY <1>1, <1>3, <2>1 DEF Sends, Raised
    <3>2. Sends(k, stack) => f.op = "publish"
      BY <3>1 DEF Sends
    <3>3. Goes(k)
      BY <1>1, <1>2, <3>1, <3>2 DEF Goes
    <3>4. deliveries'[stack[k].delivery].ended = "no"
      BY <1>7, <2>1, <2>3
    <3> QED
      BY <1>1, <1>4, <1>5, <2>1, <2>3, <3>3, <3>4, HandleStays
  <2> QED
    BY <1>6, <2>1, <2>2, <2>3 DEF OnCall
<1>9. EndedWell(sent', deliveries', subscribers')
  BY <1>1, <1>4, <1>5, EndedStays
<1>10. RoutedWell(sent', deliveries')
  <2>1. \A m \in DOMAIN sent : m # 0
    BY SequenceHas DEF ShapeInv
  <2>2. ASSUME NEW m \in DOMAIN sent', sent'[m].routed = "done"
        PROVE  \/ sent[m].routed = "done"
               \/ \A d \in DOMAIN deliveries :
                    deliveries[d].message = m => deliveries[d].ended = "ok"
    <3>1. m = w => f.op = "publish" /\ f.message # 0 /\ f.message = m
      BY <1>1, <2>1
    <3>2. m = w => \A d \in DOMAIN deliveries :
                     deliveries[d].message = m => deliveries[d].ended = "ok"
      BY <1>1, <3>1, TopRouted DEF f
    <3> QED
      BY <1>1, <1>2, <2>2, <3>2
  <2>3. \A d \in DOMAIN deliveries' : d \in DOMAIN deliveries
    BY <1>1
  <2> QED
    BY <1>1, <1>4, <2>2, <2>3, RoutedStays
<1>11. SettledWell(sent', deliveries', subscribers')
  BY <1>1, <1>4, SettledStays DEF SameSettled
<1>12. ASSUME NEW n \in 1..Len(stack'), n >= k
       PROVE  OnCall(n, stack', sent', deliveries', subscribers', exception')
  <2>1. n = k /\ k > 0
    BY <1>1, <1>12
  <2> QED
    BY <1>8, <2>1
<1>13. (k + 1)..Len(stack') = {}
  BY <1>1
<1>14. \A d \in DOMAIN deliveries' : d \in DOMAIN deliveries
  BY <1>1
<1> HIDE DEF k
<1> QED
  BY <1>1, <1>4, <1>5, <1>7, <1>9, <1>10, <1>11, <1>12, <1>13, <1>14, DoneStep

\* A request gives its message to a handler as _route does.
LEMMA RequestsDone == ASSUME ShapeInv, RouteInv, DoneInv, Requests PROVE DoneInv'
<1> DEFINE g == stack'[Above]
           h == stack'[Above + 1]
           m == Latest
           d == Begun
           k == Here
<1>1. /\ UNCHANGED <<app, subscribers>> /\ exception = 0 /\ exception' = 0
      /\ stack # <<>> => Top.op = "handle" /\ Top.stage = "running"
      /\ Here \in Nat /\ Keeps(k) /\ Len(stack') = Above + 1
      /\ g.op = "request" /\ Begins(h) /\ h.message = m
      /\ Grows /\ DOMAIN sent' = DOMAIN sent \cup {m} /\ m \notin DOMAIN sent
      /\ \A i \in DOMAIN sent : sent'[i] = sent[i]
      /\ sent'[m].by = Code /\ sent'[m].routed = "no" /\ sent'[m].settled = {}
  BY RequestsDoes
<1>2. /\ h.op = "handle" /\ h.delivery = d /\ DOMAIN deliveries' = DOMAIN deliveries \cup {d}
      /\ d \notin DOMAIN deliveries /\ d # Code /\ deliveries'[d].ended = "no"
      /\ deliveries'[d].message = h.message
      /\ \A e \in DOMAIN deliveries : deliveries'[e] = deliveries[e]
  BY <1>1 DEF Begins
<1>3. k # 0 => Top = stack[k] /\ stack # <<>> /\ k \in 1..k
  BY <1>1, TopIs, SequenceHas DEF ShapeInv, Here
<1>4. Above = Here + 1 /\ Here = Len(stack) /\ DOMAIN stack = 1..Here
  BY SequenceHas DEF Here, Above, ShapeInv
<1> HIDE DEF g, h, m, d
<1>5. Alike(k) /\ OksStay /\ DonesStay
  BY <1>1, <1>2, KeepsAlike DEF OksStay, DonesStay
<1>6. \A n \in 1..k : n \in DOMAIN stack /\ stack'[n] = stack[n]
  BY <1>1, <1>4 DEF Keeps
<1>7. \A n \in 1..k : stack[n].op = "handle" => deliveries'[stack[n].delivery].ended = "no"
  BY <1>2, <1>6, Opened
<1>8. \A e : e # Code => MessagesBy(e, sent') = MessagesBy(e, sent)
  <2> TAKE e
  <2> HAVE e # Code
  <2> QED
    BY <1>1, MadeKept
<1>9. \A n \in 1..k : stack[n].op = "handle" =>
        MessagesBy(stack[n].delivery, sent') = MessagesBy(stack[n].delivery, sent)
  BY <1>6, <1>8, Opened
<1>10. ASSUME k # 0 PROVE OnCall(k, stack', sent', deliveries', subscribers', exception')
  <2>1. k \in 1..k /\ stack[k].op = "handle" /\ stack[k].stage = "running"
    BY <1>1, <1>3, <1>10
  <2>2. Goes(k) /\ deliveries'[stack[k].delivery].ended = "no"
        /\ MessagesBy(stack[k].delivery, sent') = MessagesBy(stack[k].delivery, sent)
    BY <1>7, <1>9, <2>1 DEF Goes
  <2>3. HandlesOn(k, stack', sent', deliveries', subscribers', exception')
    BY <1>1, <1>5, <2>1, <2>2, HandleStays
  <2> QED
    BY <1>6, <2>1, <2>3 DEF OnCall
<1>11. OnCall(Above, stack', sent', deliveries', subscribers', exception')
  BY <1>1 DEF OnCall, g
<1>12. OnCall(Above + 1, stack', sent', deliveries', subscribers', exception')
  <2>1. Begins(stack'[Above + 1])
    BY <1>1 DEF h
  <2>2. \A i \in DOMAIN sent' : sent'[i].by # Begun
    BY <1>1, <1>2 DEF ShapeInv, d
  <2> QED
    BY <2>1, <2>2, BeginsOn
<1>13. EndedWell(sent', deliveries', subscribers')
  <2>1. \A e \in DOMAIN deliveries' : deliveries'[e].ended = "ok" =>
          /\ e \in DOMAIN deliveries /\ deliveries[e].ended = "ok" /\ e # Code
    BY <1>2, SequenceHas DEF ShapeInv, Code
  <2> QED
    BY <1>1, <1>5, <1>8, <2>1, EndedStays
<1>14. RoutedWell(sent', deliveries')
  <2>1. \A i \in DOMAIN sent' : sent'[i].routed = "done" =>
          /\ i \in DOMAIN sent /\ sent[i].routed = "done"
          /\ \A e \in DOMAIN deliveries' : e \notin DOMAIN deliveries => deliveries'[e].message # i
    BY <1>1, <1>2
  <2> QED
    BY <1>1, <1>5, <2>1, RoutedStays
<1>15. SettledWell(sent', deliveries', subscribers')
  <2>1. \A i \in DOMAIN sent' : "complete" \in sent'[i].settled =>
          i \in DOMAIN sent /\ "complete" \in sent[i].settled
    BY <1>1
  <2> QED
    BY <1>1, <1>5, <2>1, SettledStays
<1>16. ASSUME NEW n \in 1..(k - 1), stack[n].op = "publish", stack[n].message # 0
       PROVE  \A e \in DOMAIN deliveries' : e \notin DOMAIN deliveries =>
                deliveries'[e].message # stack[n].message
  <2>1. n \in DOMAIN stack
    BY <1>1, <1>4
  <2>2. stack[n].message \in DOMAIN sent
    BY <1>16, <2>1, RoutingIs DEF Routing
  <2> QED
    BY <1>1, <1>2, <2>2
<1>17. \A n \in 1..(k - 1) : stack[n].op = "handle" =>
         MessagesBy(stack[n].delivery, sent') = MessagesBy(stack[n].delivery, sent)
  <2>1. \A n \in 1..(k - 1) : n \in 1..k
    BY <1>1
  <2> QED
    BY <1>9, <2>1
<1>18. ASSUME NEW n \in 1..Len(stack'), n >= k
       PROVE  OnCall(n, stack', sent', deliveries', subscribers', exception')
  <2>1. (n = k /\ k # 0) \/ n = Above \/ n = Above + 1
    BY <1>1, <1>4, <1>18
  <2> QED
    BY <1>10, <1>11, <1>12, <2>1
<1>19. ASSUME NEW i \in 1..Len(stack'), NEW j \in (k + 1)..Len(stack'), stack'[i].op = "handle",
              stack'[j].op = "handle", stack'[i].delivery = stack'[j].delivery
       PROVE  i = j
  <2>1. (i \in 1..k \/ i = Above \/ i = Above + 1) /\ (j = Above \/ j = Above + 1)
    BY <1>1, <1>4
  <2>2. i # Above /\ j = Above + 1
    BY <1>1, <1>19, <2>1 DEF g
  <2>3. ASSUME i \in 1..k PROVE FALSE
    <3>1. stack[i].op = "handle" /\ stack[i].delivery = d
      BY <1>2, <1>6, <1>19, <2>2, <2>3 DEF h
    <3>2. stack[i].delivery \in DOMAIN deliveries
      BY <1>6, <2>3, <3>1, Opened
    <3> QED
      BY <1>2, <3>1, <3>2
  <2> QED
    BY <2>1, <2>2, <2>3
<1> HIDE DEF k
<1> QED
  BY <1>1, <1>5, <1>7, <1>13, <1>14, <1>15, <1>16, <1>17, <1>18, <1>19, DoneStep

\* What is left to show when the innermost call, a handler's, ends.
LEMMA HandlingEnds ==
  ASSUME ShapeInv, RouteInv, DoneInv, stack # <<>>, Top.op = "handle", NEW ok \in BOOLEAN,
         Settles(ok), UNCHANGED <<app, subscribers>>
  PROVE  /\ Grows /\ OksStay /\ DonesStay
         /\ Top.delivery \in DOMAIN deliveries /\ deliveries[Top.delivery].ended = "no"
         /\ deliveries'[Top.delivery].ended = IF ok THEN "ok" ELSE "failed"
         /\ \A d \in DOMAIN deliveries :
              d # Top.delivery => deliveries'[d].ended = deliveries[d].ended
         /\ \A n \in 1..(Len(stack) - 1) : stack[n].op = "handle" =>
              deliveries'[stack[n].delivery].ended = "no"
         /\ DOMAIN sent' = DOMAIN sent /\ DOMAIN deliveries' = DOMAIN deliveries
         /\ \A d : MessagesBy(d, sent') = MessagesBy(d, sent)
         /\ RoutedWell(sent', deliveries') /\ SettledWell(sent', deliveries', subscribers')
<1> DEFINE t == Top.delivery
           s == subscribers[Top.subscriber]
<1>1. /\ Grows /\ SameRoutes
      /\ DOMAIN sent' = DOMAIN sent /\ DOMAIN deliveries' = DOMAIN deliveries
      /\ \A d \in DOMAIN deliveries : deliveries'[d].ended =
           IF d = t THEN IF ok THEN "ok" ELSE "failed" ELSE deliveries[d].ended
  BY SettlesDoes
<1>2. \A m \in DOMAIN sent : \A v : v \in sent'[m].settled =>
        \/ v \in sent[m].settled
        \/ m = Top.message /\ ~s.delete /\ v = PolicyVerb(s.policy, ok)
  BY SettlesDoes
<1>3. /\ Top = stack[Len(stack)] /\ Len(stack) \in DOMAIN stack /\ DOMAIN stack = 1..Len(stack)
      /\ Len(stack) \in Nat
  BY TopIs
<1>4. t \in DOMAIN deliveries /\ deliveries[t].ended = "no"
  BY <1>3, Opened
<1>5. deliveries[t].message = Top.message /\ deliveries[t].subscriber = Top.subscriber
      /\ Top.subscriber \in DOMAIN subscribers
  BY TopHandles
<1>6. s.policy = "ACK_FIRST" => s.delete
  BY <1>5 DEF ShapeInv, AreSubscribers, IsSubscriber
<1> HIDE DEF t, s
<1>7. OksStay /\ DonesStay
  BY <1>1, <1>4 DEF OksStay, DonesStay, SameRoutes
<1>8. \A d : MessagesBy(d, sent') = MessagesBy(d, sent)
  BY <1>1, MadeKept
<1>9. ASSUME NEW n \in 1..(Len(stack) - 1), stack[n].op = "handle"
      PROVE  deliveries'[stack[n].delivery].ended = "no"
  <2>1. n \in DOMAIN stack
    BY <1>3
  <2>2. stack[n].delivery # t
    BY <1>9, DeliveriesApart DEF t
  <2> QED
    BY <1>1, <1>9, <2>1, <2>2, Opened
<1>10. RoutedWell(sent', deliveries')
  <2>1. \A m \in DOMAIN sent' : sent'[m].routed = "done" => m \in DOMAIN sent /\ sent[m].routed = "done"
    BY <1>1 DEF SameRoutes
  <2>2. \A d \in DOMAIN deliveries' : d \in DOMAIN deliveries
    BY <1>1
  <2> QED
    BY <1>1, <1>7, <2>1, <2>2, RoutedStays
<1>11. SettledWell(sent', deliveries', subscribers')
  <2> SUFFICES ASSUME NEW m \in DOMAIN sent', "complete" \in sent'[m].settled
               PROVE  \E d \in DOMAIN deliveries' :
                        /\ deliveries'[d].message = m
                        /\ \/ deliveries'[d].ended = "ok"
                           \/ subscribers'[deliveries'[d].subscriber].policy = "ACK"
    BY DEF SettledWell
  <2>1. m \in DOMAIN sent
    BY <1>1
  <2>2. CASE "complete" \in sent[m].settled
    BY <1>1, <1>7, <2>1, <2>2, SettledAs
  <2>3. CASE "complete" \notin sent[m].settled
    <3>1. m = Top.message /\ ~s.delete /\ "complete" = PolicyVerb(s.policy, ok)
      BY <1>2, <2>1, <2>3
    <3>2. ~ok => s.policy = "ACK"
      BY <1>6, <3>1 DEF PolicyVerb
    <3>3. /\ t \in DOMAIN deliveries' /\ deliveries'[t].message = m
          /\ deliveries'[t].subscriber = Top.subscriber /\ subscribers' = subscribers
      BY <1>1, <1>4, <1>5, <3>1 DEF Grows
    <3>4. ok => deliveries'[t].ended = "ok"
      BY <1>1, <1>4
    <3>5. ~ok => subscribers'[deliveries'[t].subscriber].policy = "ACK"
      BY <3>2, <3>3 DEF s
    <3> QED
      BY <3>3, <3>4, <3>5
  <2> QED
    BY <2>2, <2>3
<1>12. \A d \in DOMAIN deliveries : d # t => deliveries'[d].ended = deliveries[d].ended
  BY <1>1
<1>13. deliveries'[t].ended = IF ok THEN "ok" ELSE "failed"
  BY <1>1, <1>4
<1> QED
  BY <1>1, <1>4, <1>7, <1>8, <1>9, <1>10, <1>11, <1>12, <1>13 DEF t

\* A handler whose replies are all published ends well: its message may be
\* completed, since what it was turned into was sent.
LEMMA HandledDone == ASSUME ShapeInv, RouteInv, DoneInv, Handled PROVE DoneInv'
<1> DEFINE f == stack[Here - 1]
           g == stack'[Here - 1]
           t == Top.delivery
           k == Here - 1
<1>1. /\ UNCHANGED <<app, subscribers>> /\ exception = 0 /\ exception' = 0 /\ Settles(TRUE)
      /\ stack # <<>> /\ Top.op = "handle" /\ Top.stage = "returned" /\ Top.replies = <<>>
      /\ Here \in Nat /\ Here > 1 /\ Keeps(Here - 2) /\ Len(stack') = Here - 1
      /\ f.op # "handle"
      /\ (f.op = "request" => g.op = "request") /\ (f.op # "request" => g = f)
  BY HandledDoes
<1>2. /\ Grows /\ OksStay /\ DonesStay
      /\ t \in DOMAIN deliveries /\ deliveries[t].ended = "no" /\ deliveries'[t].ended = "ok"
      /\ \A d \in DOMAIN deliveries : d # t => deliveries'[d].ended = deliveries[d].ended
      /\ \A n \in 1..(Len(stack) - 1) : stack[n].op = "handle" =>
           deliveries'[stack[n].delivery].ended = "no"
      /\ DOMAIN sent' = DOMAIN sent /\ DOMAIN deliveries' = DOMAIN deliveries
      /\ \A d : MessagesBy(d, sent') = MessagesBy(d, sent)
      /\ RoutedWell(sent', deliveries') /\ SettledWell(sent', deliveries', subscribers')
  BY <1>1, HandlingEnds
<1>3. /\ Top = stack[Here] /\ Here \in DOMAIN stack /\ Here = Len(stack) /\ DOMAIN stack = 1..Here
  BY <1>1, TopIs DEF Here
<1>4. Alike(k)
  <2>1. \A i \in 1..k : i \in 1..(Here - 2) \/ i = k
    BY <1>1
  <2>2. \A i \in 1..(Here - 2) : stack'[i] = stack[i]
    BY <1>1 DEF Keeps
  <2>3. k \in 0..Len(stack) /\ k <= Len(stack') /\ IsSequence(stack')
    BY <1>1, <1>3 DEF Keeps
  <2> QED
    BY <1>1, <2>1, <2>2, <2>3 DEF Alike
<1>5. OnCall(k, stack', sent', deliveries', subscribers', exception')
  <2>1. /\ k \in 1..k /\ k + 1 = Here /\ k < Len(stack) /\ stack'[k].op = stack[k].op
        /\ stack[k].op # "handle"
    BY <1>1, <1>3
  <2>2. ASSUME stack[k].op = "publish"
        PROVE  PublishesOn(k, stack', sent', deliveries', exception')
    <3>1. \A d \in DOMAIN deliveries' : d \in DOMAIN deliveries
      BY <1>2
    <3>2. \A d \in DOMAIN deliveries :
            k < Len(stack) /\ stack[k + 1].op = "handle" /\ stack[k + 1].delivery = d =>
              deliveries'[d].ended = "ok"
      BY <1>2, <1>3, <2>1
    <3>3. ~Raised(k, stack, exception)
      BY <1>1 DEF Raised
    <3> QED
      BY <1>2, <1>4, <2>1, <2>2, <3>1, <3>2, <3>3, PublishStays
  <2> QED
    BY <2>1, <2>2 DEF OnCall
<1>6. EndedWell(sent', deliveries', subscribers')
  <2> SUFFICES ASSUME NEW d \in DOMAIN deliveries', deliveries'[d].ended = "ok"
               PROVE  /\ \A m \in MessagesBy(d, sent') : sent'[m].routed = "done"
                      /\ Cardinality(MessagesBy(d, sent'))
                           >= Len(subscribers'[deliveries'[d].subscriber].publishers)
    BY DEF EndedWell
  <2>1. d \in DOMAIN deliveries /\ MessagesBy(d, sent') = MessagesBy(d, sent)
        /\ deliveries'[d].subscriber = deliveries[d].subscriber /\ subscribers' = subscribers
    BY <1>2 DEF Grows
  <2>2. /\ \A m \in MessagesBy(d, sent) : sent[m].routed = "done"
        /\ Cardinality(MessagesBy(d, sent)) >= Len(subscribers[deliveries[d].subscriber].publishers)
    <3>1. CASE d # t
      BY <1>2, <2>1, <3>1 DEF DoneInv, EndedWell
    <3>2. CASE d = t
      <4> DEFINE made == MessagesBy(t, sent)
                 L == Len(subscribers[Top.subscriber].publishers)
      <4>1. HandlesOn(Here, stack, sent, deliveries, subscribers, exception)
        BY <1>1, <1>3, Opened
      <4>2. ~Sends(Here, stack) /\ ~Raised(Here, stack, exception)
        BY <1>1, <1>3 DEF Sends, Raised
      <4>3. \A m \in made : sent[m].routed = "done"
        BY <1>3, <4>1, <4>2 DEF HandlesOn
      <4>4. Cardinality(made) + Len(Top.replies) + 0 >= L
        BY <1>1, <1>3, <4>1, <4>2 DEF HandlesOn
      <4>5. Len(Top.replies) = 0 /\ Cardinality(made) \in Nat
        BY <1>1, MadeCounted, NoSequence, SequenceHas
      <4>6. Cardinality(made) >= L
        <5> DEFINE c == Cardinality(made)
                   r == Len(Top.replies)
        <5>1. c + r + 0 >= L /\ r = 0 /\ c \in Nat
          BY <4>4, <4>5
        <5> HIDE DEF c, r, L
        <5>2. c + r + 0 = c
          BY <5>1
        <5>3. c >= L
          BY <5>1, <5>2
        <5> QED
          BY <5>3 DEF c
      <4>7. deliveries[t].subscriber = Top.subscriber
        BY <1>1, TopHandles
      <4> QED
        BY <3>2, <4>3, <4>6, <4>7
    <3> QED
      BY <3>1, <3>2
  <2>3. \A m \in MessagesBy(d, sent) : sent'[m].routed = "done"
    BY <1>2, <2>2 DEF DonesStay, MessagesBy
  <2> QED
    BY <2>1, <2>2, <2>3
<1>7. ASSUME NEW n \in 1..Len(stack'), n >= k
      PROVE  OnCall(n, stack', sent', deliveries', subscribers', exception')
  <2>1. n = k
    BY <1>1, <1>7
  <2> QED
    BY <1>5, <2>1
<1>8. (k + 1)..Len(stack') = {} /\ \A d \in DOMAIN deliveries' : d \in DOMAIN deliveries
  BY <1>1, <1>2
<1>9. \A n \in 1..k : stack[n].op = "handle" => deliveries'[stack[n].delivery].ended = "no"
  BY <1>2, <1>3
<1> HIDE DEF k, t
<1> QED
  BY <1>2, <1>4, <1>6, <1>7, <1>8, <1>9, DoneStep

\* A handler's call that an exception leaves ends badly: its message is completed
\* only by the policies that complete what fails.
LEMMA UnwindsDone == ASSUME ShapeInv, RouteInv, DoneInv, Unwinds PROVE DoneInv'
<1> DEFINE f == Top
           k == Here - 1
<1>1. /\ UNCHANGED <<app, subscribers>> /\ exception # 0 /\ stack # <<>>
      /\ Here \in Nat /\ Here > 0 /\ Keeps(k) /\ Len(stack') = k
      /\ Here = 1 <=> exception' = 0
      /\ Grows /\ DOMAIN sent' = DOMAIN sent /\ DOMAIN deliveries' = DOMAIN deliveries
      /\ f.op = "handle" => Settles(FALSE)
      /\ f.op # "handle" => SameSettled /\ UNCHANGED deliveries
  BY UnwindsDoes
<1>2. \A m \in DOMAIN sent :
        sent'[m].routed = IF f.op = "publish" /\ m = f.message THEN "failed" ELSE sent[m].routed
  BY UnwindsDoes
<1>3. /\ f = stack[Here] /\ Here \in DOMAIN stack /\ Here = Len(stack) /\ DOMAIN stack = 1..Here
      /\ k = Len(stack) - 1
  BY <1>1, TopIs DEF Here
<1>4. Alike(k) /\ \A n \in 1..k : n \in DOMAIN stack /\ stack'[n] = stack[n]
  BY <1>1, <1>3, KeepsAlike DEF Keeps
<1>5. \A d : MessagesBy(d, sent') = MessagesBy(d, sent)
  BY <1>1, MadeKept
<1>6. DonesStay
  <2>1. \A m \in DOMAIN sent : m # 0
    BY SequenceHas DEF ShapeInv
  <2>2. ASSUME NEW m \in DOMAIN sent, f.op = "publish", m = f.message PROVE sent[m].routed = "no"
    <3>1. Routing(stack[Here]) /\ Here \in DOMAIN stack /\ stack[Here].message = m
      BY <1>3, <2>1, <2>2 DEF Routing
    <3> QED
      BY <3>1 DEF RouteInv, IsOpen
  <2> QED
    BY <1>2, <2>2 DEF DonesStay
<1>7. /\ OksStay /\ RoutedWell(sent', deliveries') /\ SettledWell(sent', deliveries', subscribers')
      /\ \A n \in 1..k : stack[n].op = "handle" => deliveries'[stack[n].delivery].ended = "no"
      /\ \A d \in DOMAIN deliveries' : deliveries'[d].ended = "ok" => deliveries[d].ended = "ok"
  <2>1. CASE f.op = "handle"
    <3>1. /\ OksStay /\ RoutedWell(sent', deliveries')
          /\ SettledWell(sent', deliveries', subscribers')
          /\ \A n \in 1..(Len(stack) - 1) : stack[n].op = "handle" =>
               deliveries'[stack[n].delivery].ended = "no"
      BY <1>1, <2>1, HandlingEnds
    <3>2. /\ deliveries'[f.delivery].ended = "failed"
          /\ \A d \in DOMAIN deliveries :
               d # f.delivery => deliveries'[d].ended = deliveries[d].ended
      BY <1>1, <2>1, HandlingEnds
    <3>3. \A d \in DOMAIN deliveries' : deliveries'[d].ended = "ok" => deliveries[d].ended = "ok"
      BY <1>1, <3>2
    <3> QED
      BY <1>3, <3>1, <3>3
  <2>2. CASE f.op # "handle"
    <3>1. OksStay /\ \A n \in 1..k : stack[n].op = "handle" =>
                       deliveries'[stack[n].delivery].ended = "no"
      BY <1>1, <1>4, <2>2, Opened DEF OksStay
    <3>2. \A m \in DOMAIN sent' : sent'[m].routed = "done" =>
            m \in DOMAIN sent /\ sent[m].routed = "done"
      BY <1>1, <1>2
    <3>3. \A d \in DOMAIN deliveries' : d \in DOMAIN deliveries
      BY <1>1
    <3>4. RoutedWell(sent', deliveries')
      BY <1>1, <3>1, <3>2, <3>3, RoutedStays
    <3>5. SettledWell(sent', deliveries', subscribers')
      BY <1>1, <2>2, <3>1, SettledStays DEF SameSettled
    <3> QED
      BY <1>1, <2>2, <3>1, <3>4, <3>5
  <2> QED
    BY <2>1, <2>2
<1>8. EndedWell(sent', deliveries', subscribers')
  BY <1>1, <1>5, <1>6, <1>7, EndedStays
<1>9. ASSUME k > 0 PROVE OnCall(k, stack', sent', deliveries', subscribers', exception')
  <2>1. k \in 1..k /\ Raised(k, stack', exception')
    BY <1>1, <1>9 DEF Raised
  <2>2. \A d \in DOMAIN deliveries' : d \in DOMAIN deliveries
    BY <1>1
  <2>3. ASSUME stack[k].op = "publish"
        PROVE  PublishesOn(k, stack', sent', deliveries', exception')
    BY <1>1, <1>3, <1>4, <1>7, <1>9, <2>1, <2>2, <2>3, BelowPublish
  <2>4. ASSUME stack[k].op = "handle"
        PROVE  HandlesOn(k, stack', sent', deliveries', subscribers', exception')
    <3>1. Goes(k) /\ deliveries'[stack[k].delivery].ended = "no"
      BY <1>7, <2>1, <2>4 DEF Goes
    <3> QED
      BY <1>1, <1>4, <1>5, <1>6, <2>1, <2>4, <3>1, HandleStays
  <2> QED
    BY <1>4, <2>1, <2>3, <2>4 DEF OnCall
<1>10. ASSUME NEW n \in 1..Len(stack'), n >= k
       PROVE  OnCall(n, stack', sent', deliveries', subscribers', exception')
  <2>1. n = k /\ k > 0
    BY <1>1, <1>10
  <2> QED
    BY <1>9, <2>1
<1>11. (k + 1)..Len(stack') = {} /\ \A d \in DOMAIN deliveries' : d \in DOMAIN deliveries
  BY <1>1
<1> HIDE DEF k, f
<1> QED
  BY <1>1, <1>4, <1>5, <1>6, <1>7, <1>8, <1>10, <1>11, DoneStep

\* Every step keeps what is known of answers: one case for each action.
LEMMA DoneNext == ASSUME ShapeInv, RouteInv, DoneInv, [Next]_vars PROVE DoneInv'
BY QuietDone, PublishesDone, BuildsDone, RoutesDone, ReturnsDone, RequestsDone,
   HandlerReturnsDone, ReplyingDone, HandledDone, UnwindsDone DEF Next

\* A test starts with nothing delivered.
LEMMA DoneInit == Init => DoneInv
<1> SUFFICES ASSUME Init PROVE DoneInv
  OBVIOUS
<1>1. DOMAIN stack = {} /\ DOMAIN sent = {} /\ DOMAIN deliveries = {}
  BY NoSequence DEF Init
<1> QED
  BY <1>1 DEF DoneInv, RoutedWell, EndedWell, SettledWell

\* What a handler has published and still owes is always what it was turned into.
LEMMA Done == Spec => []DoneInv
<1>1. ShapeInv /\ RouteInv /\ DoneInv /\ [Next]_vars => DoneInv'
  BY DoneNext
<1> QED
  BY <1>1, DoneInit, Shape, Route, PTL DEF Spec

\* A delivery that ended well succeeded, what was published for it included.
LEMMA EndedSucceeded ==
  ASSUME DoneInv, NEW d \in DOMAIN deliveries, deliveries[d].ended = "ok"
  PROVE  Succeeded(d)
<1>1. MessagesBy(d, sent) = MessagesOf(d)
  BY DEF MessagesBy, MessagesOf
<1>2. /\ \A i \in MessagesOf(d) : i \in DOMAIN sent /\ sent[i].routed = "done"
      /\ Cardinality(MessagesOf(d)) >= Len(Takes(d).publishers)
  BY <1>1 DEF DoneInv, EndedWell, Takes, MessagesOf
<1>3. \A i \in MessagesOf(d) : \A e \in DeliveriesOf(i) : deliveries[e].ended = "ok"
  BY <1>2 DEF DoneInv, RoutedWell, DeliveriesOf
<1> QED
  BY <1>2, <1>3 DEF Succeeded

\* A publish under test that returned succeeded in every handler, and in the handlers
\* of all that the results of those were published as, however deep: an exception of
\* a handler is lost only if a handler catches it around a publish of its own.
PublishedToTheEnd ==
  \A m \in DOMAIN sent :
    sent[m].routed = "done" => \A d \in DeliveriesOf(m) : Succeeded(d)

\* FakeProducer.publish and publish_batch: _route lets the exception of a handler
\* through, and a handler that replies lets through that of whoever gets the reply.
THEOREM FailuresReachTheTest == Spec => []PublishedToTheEnd
<1>1. ASSUME DoneInv PROVE PublishedToTheEnd
  <2>1. ASSUME NEW m \in DOMAIN sent, sent[m].routed = "done", NEW d \in DeliveriesOf(m)
        PROVE  d \in DOMAIN deliveries /\ deliveries[d].ended = "ok"
    BY <1>1, <2>1 DEF DoneInv, RoutedWell, DeliveriesOf
  <2> QED
    BY <1>1, <2>1, EndedSucceeded DEF PublishedToTheEnd
<1> QED
  BY <1>1, Done, PTL

\* A message is completed only when a handler of it has ended well, all its
\* publishers having published its result to handlers that ended well in their
\* turn, or when the subscriber's policy completes what it fails on: the exception
\* of a handler that a reply was routed to reaches the handler that replied before
\* that one's own message is settled (process_message, and the settlement that
\* _route gives to the receiver).
THEOREM CompletedWasDone == Spec => []CompletedMeansDone
<1>1. ASSUME DoneInv PROVE CompletedMeansDone
  <2> SUFFICES ASSUME NEW m \in DOMAIN sent, "complete" \in sent[m].settled
               PROVE  \E d \in DeliveriesOf(m) : Takes(d).policy = "ACK" \/ Succeeded(d)
    BY DEF CompletedMeansDone
  <2>1. PICK d \in DOMAIN deliveries :
          /\ deliveries[d].message = m
          /\ deliveries[d].ended = "ok" \/ subscribers[deliveries[d].subscriber].policy = "ACK"
    BY <1>1 DEF DoneInv, SettledWell
  <2>2. d \in DeliveriesOf(m)
    BY <2>1 DEF DeliveriesOf
  <2>3. deliveries[d].ended = "ok" => Succeeded(d)
    BY <1>1, EndedSucceeded
  <2> QED
    BY <2>1, <2>2, <2>3 DEF Takes
<1> QED
  BY <1>1, Done, PTL
================================================================================
