--------------------------- MODULE LifecycleProofs ---------------------------
(***************************************************************************)
(* Theorems about Lifecycle for any number of subscribers, reply queues,   *)
(* requests, connections and starts.                                       *)
(***************************************************************************)
EXTENDS Lifecycle, TLAPS

\* From the end of producer.disconnect() on, and from the end of its loop over the
\* reply receivers.
Disconnected == {"replies", "failing", "senders", "client", "credential"}
RepliesStopped == {"senders", "client", "credential"}

\* What the call under way has still to reach is of the right kind, and up is over
\* once stop() has begun.
CallInv ==
  /\ call \in {"none", "starting", "draining", "closing"} => left \subseteq Subscribers
  /\ call \in {"replies", "failing"} => left \subseteq Queues
  /\ call \in RepliesStopped => left = {}
  /\ call = "closing" => target \in Subscribers
  /\ call = "failing" => target \in Queues
  /\ call = "starting" => connection
  /\ up => call \in {"none", "starting"}

\* A broker with a connection has one client, the only one that may be open; the
\* other parts name it or nothing.
ClientInv ==
  /\ connection <=> client # 0
  /\ connected <=> connection
  /\ producer => connection
  /\ open \subseteq {client} /\ credentials \subseteq {client}
  /\ \A q \in Queues : reply[q] \in {0, client}

\* stop() has passed the subscriber s, or the reply receiver of q.
Passed(s) == (call \in {"draining", "closing"} /\ s \notin left) \/ call \in Disconnected
ReplyPassed(q) == (call \in {"replies", "failing"} /\ q \notin left) \/ call \in RepliesStopped

\* The requests of q are about to be failed.
Failing(q) == call = "failing" /\ target = q

\* How far a stop() has come: what it is past stays released.
StopInv ==
  /\ \A s \in Subscribers : Passed(s) =>
       /\ tasks[s] > 0 => s \in late
       /\ receiver[s] = 0 \/ (call = "closing" /\ target = s)
  /\ call \in Disconnected => ~producer
  /\ \A q \in Queues : ReplyPassed(q) => reply[q] = 0
  /\ \A r \in Requests :
       ReplyPassed(QueueOf[r]) => req[r] # "waiting" \/ Failing(QueueOf[r])
  /\ call = "credential" => open = {} /\ credentials = {}

\* Without a stop() that was cut short: what a connection promises, before stop()
\* takes it away, and how far a start() has come.
ServeInv ==
  ~cut =>
    /\ connection /\ call # "credential" => client \in open
    /\ connection /\ call \notin Disconnected => producer
    /\ \A r \in Requests : req[r] = "waiting" =>
         reply[QueueOf[r]] = client \/ Failing(QueueOf[r])
    /\ \A s \in Subscribers : up \/ (call = "starting" /\ s \notin left) =>
         connection /\ receiver[s] = client /\ tasks[s] > 0 /\ s \in running
    /\ up => connection

\* Each start() adds at most one task to a subscriber.
TaskInv ==
  \A s \in Subscribers :
    tasks[s] <= starts /\ (call = "starting" /\ s \in left => tasks[s] < starts)

IInv ==
  /\ TypeOK /\ CallInv /\ ClientInv /\ StopInv /\ ServeInv /\ TaskInv
  /\ StopReleasesEverything

Flags ==
  /\ connection \in BOOLEAN /\ producer \in BOOLEAN /\ connected \in BOOLEAN /\ up \in BOOLEAN
  /\ cut \in BOOLEAN

LEMMA FlagsStep == Flags /\ [Next]_vars => Flags'
<1> SUFFICES ASSUME Flags, [Next]_vars PROVE Flags'
  OBVIOUS
<1> USE DEF Next, StopSteps, vars, Connect, StartBegins, StartEnds, StartFails,
            SubscriberStarts, Request, RequestEnds, StopBegins, Drained, DrainTimesOut,
            LeftTaskEnds, ReceiverClosed, ProducerDisconnects, Joined, WaitersFailed,
            SendersClose, SendersClosed, ClientClosed, StopEnds, StopCancelled, stateVars,
            history
<1>1. up' \in BOOLEAN /\ cut' \in BOOLEAN
  BY DEF Flags
<1>2. connection' \in BOOLEAN
  BY DEF Flags, Connects
<1>3. producer' \in BOOLEAN
  BY DEF Flags, Connects
<1>4. connected' \in BOOLEAN
  BY DEF Flags, Connects, StateConnects
<1> QED
  BY <1>1, <1>2, <1>3, <1>4 DEF Flags

\* connect() makes a client for a broker that has none, and changes no other.
LEMMA ConnectsStep ==
  ASSUME TypeOK, ClientInv, Connects
  PROVE  /\ connection' /\ connected'
         /\ connection => UNCHANGED <<producer, client, open>>
         /\ ~connection => producer' /\ client' \in open'
         /\ clients' \in 0..MaxClients /\ clients <= clients' /\ client' \in 1..clients'
         /\ open' \subseteq {client'} /\ credentials' \subseteq {client'}
<1>1. connection' /\ connected' /\ (~connection => producer')
  BY DEF TypeOK, ClientInv, Connects, StateConnects, stateVars
<1>2. CASE connection
  <2>1. UNCHANGED <<producer, client, clients, open, credentials>> /\ client # 0
    BY <1>2 DEF ClientInv, Connects, stateVars
  <2>2. clients \in 0..MaxClients /\ client \in 0..clients
    BY DEF TypeOK
  <2>3. open \subseteq {client} /\ credentials \subseteq {client}
    BY DEF ClientInv
  <2> QED
    BY <1>1, <1>2, <2>1, <2>2, <2>3, BoundAssumption
<1>3. CASE ~connection
  <2>1. client = 0 /\ open = {} /\ credentials = {}
    BY <1>3 DEF TypeOK, ClientInv
  <2>2. /\ clients < MaxClients /\ clients' = clients + 1 /\ client' = clients'
        /\ open' = {clients'} /\ credentials' \subseteq {clients'}
    BY <1>3, <2>1 DEF Connects, StateConnects
  <2>3. clients' \in 0..MaxClients /\ clients <= clients' /\ client' \in 1..clients'
    BY <2>2, BoundAssumption DEF TypeOK
  <2>4. client' \in open' /\ open' \subseteq {client'} /\ credentials' \subseteq {client'}
    BY <2>2
  <2> QED
    BY <1>1, <1>3, <2>3, <2>4
<1> QED
  BY <1>2, <1>3

LEMMA IInvStep == IInv /\ [Next]_vars => IInv'
<1> SUFFICES ASSUME IInv, [Next]_vars PROVE IInv'
  OBVIOUS
<1> USE QueueAssumption, TargetAssumption, BoundAssumption
    DEF IInv, TypeOK, CallInv, ClientInv, StopInv, ServeInv, TaskInv, StopReleasesEverything,
        StopCalls, Disconnected, RepliesStopped, Passed, ReplyPassed, Failing,
        callVars, stateVars, endpointVars, requestVars, history
<1>0. Flags'
  BY FlagsStep DEF Flags
<1>1. CASE Connect
  <2>1. TypeOK'
    BY <1>0, <1>1, ConnectsStep DEF Flags, Connect
  <2>2. CallInv'
    BY <1>0, <1>1, ConnectsStep DEF Flags, Connect
  <2>3. ClientInv'
    BY <1>0, <1>1, ConnectsStep DEF Flags, Connect
  <2>4. StopInv'
    BY <1>0, <1>1, ConnectsStep DEF Flags, Connect
  <2>5. ServeInv'
    BY <1>0, <1>1, ConnectsStep DEF Flags, Connect
  <2>6. TaskInv'
    BY <1>0, <1>1, ConnectsStep DEF Flags, Connect
  <2>7. StopReleasesEverything'
    BY <1>0, <1>1, ConnectsStep DEF Flags, Connect
  <2> QED
    BY <2>1, <2>2, <2>3, <2>4, <2>5, <2>6, <2>7
<1>2. CASE StartBegins
  <2>1. TypeOK'
    BY <1>0, <1>2, ConnectsStep DEF Flags, StartBegins
  <2>2. CallInv'
    BY <1>0, <1>2, ConnectsStep DEF Flags, StartBegins
  <2>3. ClientInv'
    BY <1>0, <1>2, ConnectsStep DEF Flags, StartBegins
  <2>4. StopInv'
    BY <1>0, <1>2, ConnectsStep DEF Flags, StartBegins
  <2>5. ServeInv'
    BY <1>0, <1>2, ConnectsStep DEF Flags, StartBegins
  <2>6. TaskInv'
    BY <1>0, <1>2, ConnectsStep DEF Flags, StartBegins
  <2>7. StopReleasesEverything'
    BY <1>0, <1>2, ConnectsStep DEF Flags, StartBegins
  <2> QED
    BY <2>1, <2>2, <2>3, <2>4, <2>5, <2>6, <2>7
<1>3. CASE StartEnds
  BY <1>3 DEF StartEnds
<1>4. CASE StartFails
  BY <1>4 DEF StartFails
<1>5. ASSUME NEW s \in Subscribers, SubscriberStarts(s) PROVE IInv'
  BY <1>5 DEF SubscriberStarts
<1>6. ASSUME NEW r \in Requests, Request(r) PROVE IInv'
  BY <1>6 DEF Request, Accepted
<1>7. ASSUME NEW r \in Requests, RequestEnds(r) PROVE IInv'
  BY <1>7 DEF RequestEnds
<1>8. CASE StopBegins
  BY <1>8 DEF StopBegins
<1>9. ASSUME NEW s \in Subscribers, Drained(s) PROVE IInv'
  BY <1>9 DEF Drained
<1>10. CASE ReceiverClosed
  BY <1>10 DEF ReceiverClosed
<1>11. CASE ProducerDisconnects
  BY <1>11 DEF ProducerDisconnects
<1>12. ASSUME NEW q \in Queues, Joined(q) PROVE IInv'
  BY <1>12 DEF Joined
<1>13. CASE WaitersFailed
  BY <1>13 DEF WaitersFailed
<1>14. CASE SendersClose
  BY <1>14 DEF SendersClose
<1>15. CASE SendersClosed
  BY <1>15 DEF SendersClosed
<1>16. CASE ClientClosed
  BY <1>16 DEF ClientClosed
<1>17. CASE StopEnds
  <2>1. TypeOK'
    BY <1>0, <1>17 DEF Flags, StopEnds
  <2>2. CallInv'
    BY <1>0, <1>17 DEF Flags, StopEnds
  <2>3. ClientInv'
    BY <1>0, <1>17 DEF Flags, StopEnds
  <2>4. StopInv'
    BY <1>0, <1>17 DEF Flags, StopEnds
  <2>5. ServeInv'
    BY <1>0, <1>17 DEF Flags, StopEnds
  <2>6. TaskInv'
    BY <1>0, <1>17 DEF Flags, StopEnds
  <2>7. StopReleasesEverything'
    BY <1>0, <1>17 DEF Flags, StopEnds
  <2> QED
    BY <2>1, <2>2, <2>3, <2>4, <2>5, <2>6, <2>7
<1>18. CASE StopCancelled
  BY <1>18 DEF StopCancelled
<1>19. ASSUME NEW s \in Subscribers, DrainTimesOut(s) PROVE IInv'
  BY <1>19 DEF DrainTimesOut
<1>20. ASSUME NEW s \in Subscribers, LeftTaskEnds(s) PROVE IInv'
  BY <1>20 DEF LeftTaskEnds
<1>21. CASE UNCHANGED vars
  BY <1>21 DEF vars
<1> QED
  BY <1>1, <1>2, <1>3, <1>4, <1>5, <1>6, <1>7, <1>8, <1>9, <1>10, <1>11, <1>12, <1>13,
     <1>14, <1>15, <1>16, <1>17, <1>18, <1>19, <1>20, <1>21 DEF Next, StopSteps

LEMMA Invariant == Spec => []IInv
<1> USE QueueAssumption, TargetAssumption, BoundAssumption
<1>0. Init => Flags
  BY DEF Init, Flags
<1>1. Init => TypeOK
  BY <1>0 DEF Init, TypeOK, Flags, StopCalls
<1>2. Init => CallInv /\ ClientInv /\ StopInv /\ ServeInv /\ TaskInv /\ StopReleasesEverything
  BY DEF Init, CallInv, ClientInv, StopInv, ServeInv, TaskInv, StopReleasesEverything,
         Disconnected, RepliesStopped, Passed, ReplyPassed, Failing
<1>3. Init => IInv
  BY <1>1, <1>2 DEF IInv
<1> QED
  BY <1>3, IInvStep, PTL DEF Spec

-----------------------------------------------------------------------------
(* Results *)

\* Every variable keeps its type; in particular the calls of start() bound the
\* consume tasks of a subscriber, however often stop() is cut short.
THEOREM TypeCorrect == Spec => []TypeOK
BY Invariant, PTL DEF IInv

\* A stop() that runs to its end leaves no client, credential, receiver or request
\* behind, and tasks only of subscribers whose handlers outlasted graceful_timeout in
\* it, whatever number of cancelled or late stops and failed starts came before it.
THEOREM ReleaseSafety == Spec => []StopReleasesEverything
BY Invariant, PTL DEF IInv

\* Every endpoint of a broker that is up uses the client of the moment, that client
\* is open, a loop of every subscriber runs, and every request that waits has a
\* receive task on it.
THEOREM ServiceSafety == Spec => []StartedIsServed
<1>1. IInv => StartedIsServed
  BY DEF IInv, CallInv, ServeInv, StartedIsServed, Disconnected, Failing
<1> QED
  BY <1>1, Invariant, PTL

\* ping() answers for a broker that is up after any number of restarts, and fails
\* for one that is stopped.
THEOREM PingSafety == Spec => []PingTellsUp
<1>1. IInv => PingTellsUp
  BY DEF IInv, CallInv, ClientInv, ServeInv, PingTellsUp, Ping, Probed, Disconnected
<1> QED
  BY <1>1, Invariant, PTL

\* A connection never leaves a client of an earlier one open, nor a credential it
\* made for it, in any state of any start() or stop(): connect() makes a client only
\* when there is none.
THEOREM OneClient == Spec => [](open \subseteq {client} /\ credentials \subseteq {client})
<1>1. IInv => open \subseteq {client} /\ credentials \subseteq {client}
  BY DEF IInv, ClientInv
<1> QED
  BY <1>1, Invariant, PTL
=============================================================================
