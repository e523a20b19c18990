------------------------------ MODULE Lifecycle ------------------------------
(***************************************************************************)
(* ServiceBusBroker over its connection: connect, start and stop drive the *)
(* subscribers, the producer with a reply receiver for every reply queue,  *)
(* the client and the credential the broker owns, while requests and pings *)
(* go on.  start() may fail after some subscribers, every await of stop()  *)
(* may be cancelled, and the application may call either again at any      *)
(* time.  Clients are numbered; the links of a client close with it.  What *)
(* happens inside a subscriber, a reply receiver and the sender table is   *)
(* in Subscriber, ReplyReceiver and SenderCache.                           *)
(***************************************************************************)
EXTENDS Naturals, FiniteSets

CONSTANTS Subscribers, Queues,  \* reply queues
          Requests, QueueOf,    \* QueueOf[r]: the reply_to of the request r
          NoTarget,
          OwnsCredential,       \* a namespace was given and no credential
          MaxClients, MaxStarts \* bounds: connections, calls of start()

ASSUME QueueAssumption == QueueOf \in [Requests -> Queues]
ASSUME TargetAssumption == NoTarget \notin Subscribers \cup Queues
ASSUME BoundAssumption == MaxClients \in Nat /\ MaxStarts \in Nat /\ OwnsCredential \in BOOLEAN

VARIABLES
  call,        \* the await start() or stop() is at, "none" between calls
  target,      \* the subscriber or the reply receiver it stops
  left,        \* those the call has still to reach
  connection,  \* broker._connection is set
  producer,    \* ServiceBusProducer._connected
  client,      \* ServiceBusConnectionState._client, 0 for None
  connected,   \* and its _connected
  clients,     \* clients made so far
  open,        \* those that are not closed
  credentials, \* credentials whose close() was not called, named by their client
  probe,       \* the client when the first probe was registered, 0 before
  receiver,    \* receiver[s]: the client of the _receiver of s, 0 for None
  tasks,       \* tasks[s]: consume tasks of s
  running,     \* the subscribers whose running is True
  reply,       \* reply[q]: the client of the receive task of q, 0 for none
  req,         \* req[r]: where the request r is
  starts,
  up,          \* start() returned and stop() was not called since
  cut,         \* a stop() was cancelled and none ran to its end since
  late         \* subscribers with tasks whose last stop() reached graceful_timeout

callVars == <<call, target, left>>
stateVars == <<client, connected, clients, open, credentials>>
endpointVars == <<probe, receiver, tasks, running>>
requestVars == <<reply, req>>
history == <<starts, up, cut, late>>
vars == <<callVars, connection, producer, stateVars, endpointVars, requestVars, history>>

Init ==
  /\ call = "none" /\ target = NoTarget /\ left = {}
  /\ connection = FALSE /\ producer = FALSE
  /\ client = 0 /\ connected = FALSE /\ clients = 0 /\ open = {} /\ credentials = {}
  /\ probe = 0
  /\ receiver = [s \in Subscribers |-> 0] /\ tasks = [s \in Subscribers |-> 0]
  /\ running = {}
  /\ reply = [q \in Queues |-> 0] /\ req = [r \in Requests |-> "new"]
  /\ starts = 0 /\ up = FALSE /\ cut = FALSE /\ late = {}

-----------------------------------------------------------------------------
(* connect and start *)

\* state.connect(): the factory makes a client, and a credential if it owns one.
StateConnects ==
  /\ connected' = TRUE
  /\ IF client # 0
     THEN UNCHANGED <<client, clients, open, credentials>>
     ELSE /\ clients < MaxClients
          /\ clients' = clients + 1 /\ client' = clients' /\ open' = open \cup {clients'}
          /\ credentials' = credentials \cup (IF OwnsCredential THEN {clients'} ELSE {})

\* connect() does nothing while the broker has a connection.
Connects ==
  IF connection THEN UNCHANGED <<connection, producer, stateVars>>
  ELSE connection' = TRUE /\ producer' = TRUE /\ StateConnects

Connect ==
  /\ call = "none" /\ ~connection
  /\ Connects
  /\ UNCHANGED <<callVars, endpointVars, requestVars, history>>

StartBegins ==
  /\ call = "none" /\ starts < MaxStarts
  /\ Connects
  /\ call' = "starting" /\ left' = Subscribers /\ starts' = starts + 1
  /\ UNCHANGED <<target, endpointVars, requestVars, up, cut, late>>

\* start() of a subscriber, up to the await of its start signal: a new receiver,
\* a probe for ping() and one more consume task, whatever it had before.
SubscriberStarts(s) ==
  /\ call = "starting" /\ s \in left
  /\ left' = left \ {s}
  /\ receiver' = [receiver EXCEPT ![s] = client]
  /\ probe' = IF probe = 0 THEN client ELSE probe
  /\ tasks' = [tasks EXCEPT ![s] = @ + 1] /\ running' = running \cup {s}
  /\ UNCHANGED <<call, target, connection, producer, stateVars, requestVars, history>>

StartEnds ==
  /\ call = "starting" /\ left = {}
  /\ call' = "none" /\ up' = TRUE
  /\ UNCHANGED <<target, left, connection, producer, stateVars, endpointVars, requestVars,
                 starts, cut, late>>

\* The start signal does not come in time, or start() is cancelled.
StartFails ==
  /\ call = "starting" /\ left # Subscribers
  /\ call' = "none" /\ left' = {}
  /\ UNCHANGED <<target, connection, producer, stateVars, endpointVars, requestVars, history>>

-----------------------------------------------------------------------------
(* broker.request and ping *)

\* Mutant: requests are refused only once the connection is gone.
MutAccepted == connected

\* ServiceBusProducer.request looks at its own flag, receiver.start() at the one
\* of the connection.
Accepted == producer /\ connected

Request(r) ==
  /\ req[r] = "new" /\ Accepted
  /\ req' = [req EXCEPT ![r] = "waiting"]
  /\ reply' = [reply EXCEPT ![QueueOf[r]] = IF @ = 0 THEN client ELSE @]
  /\ UNCHANGED <<callVars, connection, producer, stateVars, endpointVars, history>>

\* A reply, an error or the timeout.
RequestEnds(r) ==
  /\ req[r] = "waiting"
  /\ req' = [req EXCEPT ![r] = "ended"]
  /\ UNCHANGED <<callVars, connection, producer, stateVars, endpointVars, reply, history>>

\* Mutant: a probe keeps the client it was registered with.
MutProbed == probe

\* The first probe opens its receiver on the client of the moment.
Probed == client

\* What ping() tells when the service answers: without a probe, the flag.
Ping == connection /\ client # 0 /\ IF probe = 0 THEN connected ELSE Probed \in open

-----------------------------------------------------------------------------
(* stop *)

StopBegins ==
  /\ call = "none"
  /\ call' = "draining" /\ left' = Subscribers /\ up' = FALSE
  /\ UNCHANGED <<target, connection, producer, stateVars, endpointVars, requestVars, starts, cut,
                 late>>

\* The handlers of s have ended; its tasks are cancelled.
Drained(s) ==
  /\ call = "draining" /\ s \in left
  /\ tasks' = [tasks EXCEPT ![s] = 0] /\ running' = running \ {s} /\ late' = late \ {s}
  /\ call' = "closing" /\ target' = s /\ left' = left \ {s}
  /\ UNCHANGED <<connection, producer, stateVars, probe, receiver, requestVars, starts, up, cut>>

\* graceful_timeout ends the wait, for _read_lock, where running is still on, or for
\* the handlers; the tasks are not cancelled.
DrainTimesOut(s) ==
  /\ call = "draining" /\ s \in left /\ tasks[s] > 0
  /\ running' \in {running, running \ {s}} /\ late' = late \cup {s}
  /\ call' = "closing" /\ target' = s /\ left' = left \ {s}
  /\ UNCHANGED <<connection, producer, stateVars, probe, receiver, tasks, requestVars, starts,
                 up, cut>>

\* A task that stop() left behind gets back to the head of its loop.
LeftTaskEnds(s) ==
  /\ s \notin running /\ tasks[s] > 0
  /\ tasks' = [tasks EXCEPT ![s] = @ - 1] /\ late' = IF tasks[s] = 1 THEN late \ {s} ELSE late
  /\ UNCHANGED <<callVars, connection, producer, stateVars, probe, receiver, running,
                 requestVars, starts, up, cut>>

ReceiverClosed ==
  /\ call = "closing"
  /\ receiver' = [receiver EXCEPT ![target] = 0]
  /\ call' = "draining" /\ target' = NoTarget
  /\ UNCHANGED <<left, connection, producer, stateVars, probe, tasks, running, requestVars,
                 history>>

\* producer.disconnect(): no request gets past its first line from here on.
ProducerDisconnects ==
  /\ call = "draining" /\ left = {}
  /\ producer' = FALSE
  /\ call' = "replies" /\ left' = Queues
  /\ UNCHANGED <<target, connection, stateVars, endpointVars, requestVars, history>>

\* Mutant: the receive task ends when no request needs it any more.
MutJoined(q) ==
  /\ call = "replies" /\ q \in left
  /\ \A r \in Requests : QueueOf[r] = q => req[r] # "waiting"
  /\ reply' = [reply EXCEPT ![q] = 0]
  /\ call' = "failing" /\ target' = q /\ left' = left \ {q}
  /\ UNCHANGED <<connection, producer, stateVars, endpointVars, req, history>>

\* stop() of the reply receiver of q has cancelled and joined its task; a
\* cancellation of the join is swallowed, so this always goes on.
Joined(q) ==
  /\ call = "replies" /\ q \in left
  /\ reply' = [reply EXCEPT ![q] = 0]
  /\ call' = "failing" /\ target' = q /\ left' = left \ {q}
  /\ UNCHANGED <<connection, producer, stateVars, endpointVars, req, history>>

\* Its link is closed: the requests that wait are failed.
WaitersFailed ==
  /\ call = "failing"
  /\ req' = [r \in Requests |->
               IF QueueOf[r] = target /\ req[r] = "waiting" THEN "ended" ELSE req[r]]
  /\ call' = "replies" /\ target' = NoTarget
  /\ UNCHANGED <<left, connection, producer, stateVars, endpointVars, reply, history>>

SendersClose ==
  /\ call = "replies" /\ left = {}
  /\ call' = "senders"
  /\ UNCHANGED <<target, left, connection, producer, stateVars, endpointVars, requestVars,
                 history>>

SendersClosed ==
  /\ call = "senders"
  /\ call' = "client"
  /\ UNCHANGED <<target, left, connection, producer, stateVars, endpointVars, requestVars,
                 history>>

\* _client_factory.close() drops its credential, even if its close() does not end.
ClientClosed ==
  /\ call = "client"
  /\ open' = open \ {client} /\ credentials' = credentials \ {client}
  /\ call' = "credential"
  /\ UNCHANGED <<target, left, connection, producer, client, connected, clients, endpointVars,
                 requestVars, history>>

\* Mutant: the broker keeps _connection.
MutStopEnds ==
  /\ call = "credential"
  /\ client' = 0 /\ connected' = FALSE
  /\ call' = "none" /\ cut' = FALSE
  /\ UNCHANGED <<target, left, connection, producer, clients, open, credentials, endpointVars,
                 requestVars, starts, up, late>>

\* The rest is a run of assignments.
StopEnds ==
  /\ call = "credential"
  /\ client' = 0 /\ connected' = FALSE /\ connection' = FALSE
  /\ call' = "none" /\ cut' = FALSE
  /\ UNCHANGED <<target, left, producer, clients, open, credentials, endpointVars, requestVars,
                 starts, up, late>>

\* stop() is cancelled at an await of its own, at the one for handlers after running
\* is off; a later stop() begins anew.
StopCancelled ==
  /\ call \in {"draining", "closing", "failing", "senders", "client", "credential"}
  /\ call = "draining" => left # {}
  /\ call = "credential" => OwnsCredential
  /\ \/ UNCHANGED running
     \/ call = "draining" /\ \E s \in left : running' = running \ {s}
  /\ call' = "none" /\ target' = NoTarget /\ left' = {} /\ cut' = TRUE
  /\ UNCHANGED <<connection, producer, stateVars, probe, receiver, tasks, requestVars, starts,
                 up, late>>

-----------------------------------------------------------------------------
StopSteps ==
  \/ \E s \in Subscribers : Drained(s) \/ DrainTimesOut(s)
  \/ ReceiverClosed \/ ProducerDisconnects
  \/ \E q \in Queues : Joined(q)
  \/ WaitersFailed \/ SendersClose \/ SendersClosed \/ ClientClosed \/ StopEnds

Next ==
  \/ Connect \/ StartBegins \/ StartEnds \/ StartFails
  \/ \E s \in Subscribers : SubscriberStarts(s) \/ LeftTaskEnds(s)
  \/ \E r \in Requests : Request(r) \/ RequestEnds(r)
  \/ StopBegins \/ StopSteps \/ StopCancelled

Spec == Init /\ [][Next]_vars

\* The awaits of stop() end, the ones for handlers by graceful_timeout; requests need
\* not, and nothing calls start or stop.
FairSpec == Spec /\ WF_vars(StopSteps)

-----------------------------------------------------------------------------
(* Properties *)

StopCalls == {"draining", "closing", "replies", "failing", "senders", "client", "credential"}

\* Every variable of the model of the broker has its type.
TypeOK ==
  /\ call \in StopCalls \cup {"none", "starting"}
  /\ target \in Subscribers \cup Queues \cup {NoTarget}
  /\ left \subseteq Subscribers \/ left \subseteq Queues
  /\ connection \in BOOLEAN /\ producer \in BOOLEAN /\ connected \in BOOLEAN /\ up \in BOOLEAN
  /\ cut \in BOOLEAN
  /\ clients \in 0..MaxClients /\ client \in 0..clients /\ probe \in 0..clients
  /\ open \subseteq 1..clients /\ credentials \subseteq 1..clients
  /\ receiver \in [Subscribers -> 0..clients] /\ tasks \in [Subscribers -> 0..MaxStarts]
  /\ running \subseteq Subscribers /\ late \subseteq Subscribers
  /\ reply \in [Queues -> 0..clients]
  /\ req \in [Requests -> {"new", "waiting", "ended"}]
  /\ starts \in 0..MaxStarts 

\* Whatever came before, start() that failed or ran twice, stop() cancelled at any
\* await or cut short by graceful_timeout, requests at any time: a stop() that runs to
\* its end leaves no client, credential, receiver or request behind, and no task but
\* those of a subscriber whose handlers outlasted graceful_timeout in that stop().
StopReleasesEverything ==
  ~connection =>
    /\ open = {} /\ credentials = {} /\ client = 0 /\ ~producer
    /\ \A s \in Subscribers : receiver[s] = 0 /\ (tasks[s] > 0 => s \in late)
    /\ \A q \in Queues : reply[q] = 0
    /\ \A r \in Requests : req[r] # "waiting"

\* After start(), the first or one after a complete stop(), every endpoint uses the
\* client of the moment, that client is open, a loop of every subscriber runs, and
\* requests are served, also beside the tasks that graceful_timeout left in between.
StartedIsServed ==
  up /\ ~cut =>
    /\ client \in open /\ producer
    /\ \A s \in Subscribers : receiver[s] = client /\ tasks[s] > 0 /\ s \in running
    /\ \A r \in Requests : req[r] = "waiting" => reply[QueueOf[r]] = client

\* ping() can tell a broker that is up, restarted or not, from one that is stopped.
PingTellsUp == (up /\ ~cut => Ping) /\ (~connection => ~Ping)

\* stop() ends, however long requests would wait for their replies.
StopCompletes == call \in StopCalls ~> call = "none"
=============================================================================
