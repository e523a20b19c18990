------------------------- MODULE ConcurrentSubscriber -------------------------
(***************************************************************************)
(* ServiceBusConcurrentSubscriber: a consume task fetches and puts into a  *)
(* buffer, a serve task starts a task for every message of the buffer, and *)
(* these wait for one of max_workers permits.  ConcurrentMixin, TasksMixin *)
(* and SubscriberUsecase.consume belong to FastStream, the queue to the    *)
(* service.  The copy <<m, n>> is the n-th delivery of message m.          *)
(***************************************************************************)
EXTENDS Integers, FiniteSets, SubscriberConfig

CONSTANTS Messages, MaxStarts,
          MaxDeliveries,   \* the entity's MaxDeliveryCount
          NoCopy,
          Scenarios        \* the arguments of create_subscriber, the policy of the
                           \* broker, how often the subscriber is started, and how
                           \* often something goes wrong

ASSUME BoundsAssumption ==
  /\ MaxStarts \in Nat /\ MaxDeliveries \in Nat \ {0}
  /\ \A s \in Scenarios : s.starts \in 0..MaxStarts /\ s.faults \in Nat

\* create_subscriber declares both as int, and refuses the ones below 1.
ASSUME ArgumentsAssumption ==
  \A s \in Scenarios : s.arguments.prefetch \in Int /\ s.arguments.workers \in Int

Copies == Messages \X (1..MaxDeliveries)
ASSUME NoCopyAssumption == NoCopy \notin Copies

Starts == 1..MaxStarts
Stopper == MaxStarts + 1     \* stop(), as the holder of _read_lock

VARIABLES
  conf,       \* the subscriber create_subscriber made
  faults,     \* how often a handler may still outlast graceful_timeout, a message
              \* max_lock_renewal_duration, or a settlement fail
  budget,     \* how often it is started
  sub,        \* start and stop, as in Subscriber
  running, starts,
  receiver,   \* the open link, named by its start; 0 when there is none
  readLock,   \* holder of _read_lock, 0 when it is free
  fetch,      \* fetch[g]: the consume task of start g
  serving,    \* the starts whose tasks are in TasksMixin.tasks
  at,         \* at[c]: the copy c, from "batch" to "gone"
  link,       \* link[c]: the receiver c can be settled over, 0 for none
  task,       \* task[c]: the consume task that has c in its batch
  mail, owner, deliveries,   \* the queue: state, holder of the lock, count
  lapsed,     \* copies whose renewal ended before they were settled
  returned    \* messages deleted by their receipt that a handler returned for

config == <<conf, budget, faults>>
stopVars == <<sub, running, receiver, starts, serving>>
copyVars == <<at, link, task>>
queueVars == <<mail, owner, deliveries>>
history == <<lapsed, returned>>
vars == <<config, stopVars, readLock, fetch, copyVars, queueVars, history>>

In(place) == {c \in Copies : at[c] = place}
Working == In("handling")      \* inside `async with self.limiter`

Created(s) == CreateSubscriber(s.arguments, s.outer)

Init ==
  /\ \E s \in {x \in Scenarios : Created(x) # SetupError} :
       conf = Created(s) /\ faults = s.faults /\ budget = s.starts
  /\ sub = "stopped" /\ running = FALSE /\ receiver = 0
  /\ starts = 0 /\ serving = {} /\ readLock = 0
  /\ fetch = [g \in Starts |-> "new"]
  /\ at = [c \in Copies |-> "unused"]
  /\ link = [c \in Copies |-> 0] /\ task = [c \in Copies |-> 0]
  /\ mail = [m \in Messages |-> "queued"]
  /\ owner = [m \in Messages |-> NoCopy]
  /\ deliveries = [m \in Messages |-> 0]
  /\ lapsed = {} /\ returned = {}

-----------------------------------------------------------------------------
(* start() and the consume task *)

\* Mutant: the subscriber keeps another receiver than the one it opened.
MutStart ==
  /\ sub = "stopped" /\ starts < budget
  /\ starts' = starts + 1 /\ receiver' = starts + 2
  /\ sub' = "started" /\ running' = TRUE
  /\ serving' = serving \cup {starts'}
  /\ fetch' = [fetch EXCEPT ![starts'] = "top"]
  /\ UNCHANGED <<config, readLock, copyVars, queueVars, history>>

\* The consume task may fetch before start_consume_task adds the serve task:
\* the buffer takes what it puts.
Start ==
  /\ sub = "stopped" /\ starts < budget
  /\ starts' = starts + 1 /\ receiver' = starts'
  /\ sub' = "started" /\ running' = TRUE
  /\ serving' = serving \cup {starts'}
  /\ fetch' = [fetch EXCEPT ![starts'] = "top"]
  /\ UNCHANGED <<config, readLock, copyVars, queueVars, history>>

\* `self._receiver.receive_messages` fails at once when the receiver is None; the
\* loop goes on after CONSUME_ERROR_BACKOFF_SECONDS.
Reads(g) ==
  IF receiver = 0
  THEN fetch' = [fetch EXCEPT ![g] = "top"] /\ UNCHANGED readLock
  ELSE fetch' = [fetch EXCEPT ![g] = "receiving"] /\ readLock' = g

LoopTop(g) ==
  /\ fetch[g] = "top"
  /\ \/ ~running /\ fetch' = [fetch EXCEPT ![g] = "done"] /\ UNCHANGED readLock
     \/ running /\ (readLock = 0 \/ receiver = 0) /\ Reads(g)
     \/ /\ running /\ readLock # 0 /\ receiver # 0
        /\ fetch' = [fetch EXCEPT ![g] = "readlock"]
        /\ UNCHANGED readLock
  /\ UNCHANGED <<config, stopVars, copyVars, queueVars, history>>

GetsReadLock(g) ==
  /\ fetch[g] = "readlock" /\ readLock = 0
  /\ Reads(g)
  /\ UNCHANGED <<config, stopVars, copyVars, queueVars, history>>

Fresh(m) == <<m, deliveries[m] + 1>>

\* The link answers with the messages S.
Receive(g, S) ==
  /\ fetch[g] = "receiving" /\ receiver # 0
  /\ S # {} /\ Cardinality(S) <= conf.prefetch /\ \A m \in S : mail[m] = "queued"
  /\ LET new == {Fresh(m) : m \in S}
     IN  /\ at' = [c \in Copies |-> IF c \in new THEN "batch" ELSE at[c]]
         /\ link' = [c \in Copies |-> IF c \in new THEN receiver ELSE link[c]]
         /\ task' = [c \in Copies |-> IF c \in new THEN g ELSE task[c]]
  /\ mail' = [m \in Messages |->
                IF m \in S THEN (IF conf.delete THEN "deleted" ELSE "locked") ELSE mail[m]]
  /\ owner' = [m \in Messages |->
                 IF m \in S THEN (IF conf.delete THEN NoCopy ELSE Fresh(m)) ELSE owner[m]]
  /\ deliveries' = [m \in Messages |-> IF m \in S THEN deliveries[m] + 1 ELSE deliveries[m]]
  /\ readLock' = 0
  /\ fetch' = [fetch EXCEPT ![g] = "putting"]
  /\ UNCHANGED <<config, stopVars, history>>

\* Mutant: a fetch that fails ends the task.
MutReceiveNothing(g) ==
  /\ fetch[g] = "receiving"
  /\ fetch' = [fetch EXCEPT ![g] = "done"] /\ readLock' = 0
  /\ UNCHANGED <<config, stopVars, copyVars, queueVars, history>>

\* max_wait_time passed, the transport failed, or stop() closed the link under the
\* fetch.
ReceiveNothing(g) ==
  /\ fetch[g] = "receiving"
  /\ fetch' = [fetch EXCEPT ![g] = "top"] /\ readLock' = 0
  /\ UNCHANGED <<config, stopVars, copyVars, queueVars, history>>

\* consume_one of a message of the batch: it is registered for renewal and put
\* into the buffer, when there is room.
PutMsg(g, c) ==
  /\ fetch[g] = "putting" /\ at[c] = "batch" /\ task[c] = g
  /\ Cardinality(In("buffer")) < conf.workers
  /\ at' = [at EXCEPT ![c] = "buffer"]
  /\ fetch' = [fetch EXCEPT ![g] =
                 IF \E d \in In("batch") \ {c} : task[d] = g THEN "putting" ELSE "top"]
  /\ task' = [task EXCEPT ![c] = 0]
  /\ UNCHANGED <<config, stopVars, readLock, link, queueVars, history>>

-----------------------------------------------------------------------------
(* The serve task and the workers *)

Serve(c) ==
  /\ serving # {} /\ at[c] = "buffer"
  /\ at' = [at EXCEPT ![c] = "limiter"]
  /\ UNCHANGED <<config, stopVars, readLock, fetch, link, task, queueVars,
                 history>>

\* A permit is free: consume() drops the message if `running` is off, the parser
\* attaches the receiver of the moment, which may not be the one that holds the
\* lock.
Consume(c) ==
  /\ at[c] = "limiter" /\ Cardinality(Working) < conf.workers
  /\ at' = [at EXCEPT ![c] = IF running THEN "handling" ELSE "gone"]
  /\ link' = [link EXCEPT ![c] = IF link[c] = receiver THEN receiver ELSE 0]
  /\ UNCHANGED <<config, stopVars, readLock, fetch, task, queueVars, history>>

\* A message that is free again after its last delivery is dead-lettered.
Requeued(m) == IF deliveries[m] = MaxDeliveries THEN "dead" ELSE "queued"

Settled(m, verb) ==
  CASE verb = "complete" -> "completed" [] verb = "dead-letter" -> "dead" [] OTHER -> Requeued(m)

\* Over the open link it came over, and while its lock is held.
CanSettle(c) == link[c] # 0 /\ link[c] = receiver /\ owner[c[1]] = c

\* The handler returns or raises and the policy settles its message.  Every failure
\* to do so ends the call all the same and gives the permit back; one of the SDK
\* leaves the message locked, and registered for renewal.
HandlerEnds(c) ==
  /\ at[c] = "handling"
  /\ at' = [at EXCEPT ![c] = "gone"]
  /\ \E ok \in BOOLEAN :
       /\ returned' = returned \cup (IF ok /\ mail[c[1]] = "deleted" THEN {c[1]} ELSE {})
       /\ LET verb == PolicyVerb(conf.policy, ok)
          IN  \/ /\ CanSettle(c) /\ verb # "none" /\ UNCHANGED faults
                 /\ mail' = [mail EXCEPT ![c[1]] = Settled(c[1], verb)]
                 /\ owner' = [owner EXCEPT ![c[1]] = NoCopy]
                 /\ link' = [link EXCEPT ![c] = 0]
              \/ /\ CanSettle(c) /\ verb # "none" /\ faults > 0 /\ faults' = faults - 1
                 /\ UNCHANGED <<mail, owner, link>>
              \/ /\ ~CanSettle(c) \/ verb = "none"
                 /\ UNCHANGED <<faults, mail, owner, link>>
  /\ UNCHANGED <<conf, budget, stopVars, readLock, fetch, task, deliveries, lapsed>>

\* Mutant: messages are registered for renewal by the worker that takes them.
MutRenewed(c) == conf.renew /\ link[c] # 0 /\ link[c] = receiver /\ at[c] \notin {"batch", "buffer", "limiter"}

\* Mutant: stop() does not close the renewer.
MutRenewedForever(c) == at[c] = "batch" \/ conf.renew

\* The renewer has every message of the open link that consume_one was called
\* for; between the fetch and that call only the event loop runs, and a lock
\* lasts longer.
Renewed(c) == at[c] = "batch" \/ (conf.renew /\ link[c] # 0 /\ link[c] = receiver)

\* max_lock_renewal_duration, counted from the registration, is over, wherever the
\* copy is: in the buffer, waiting for a permit, in its handler, or behind it, when
\* its settlement failed.
RenewalEnds(m) ==
  /\ mail[m] = "locked" /\ Renewed(owner[m])
  /\ \/ at[owner[m]] = "gone" /\ UNCHANGED <<faults, lapsed>>
     \/ /\ at[owner[m]] # "batch" /\ at[owner[m]] # "gone" /\ faults > 0
        /\ faults' = faults - 1 /\ lapsed' = lapsed \cup {owner[m]}
  /\ mail' = [mail EXCEPT ![m] = Requeued(m)]
  /\ owner' = [owner EXCEPT ![m] = NoCopy]
  /\ UNCHANGED <<conf, budget, stopVars, readLock, fetch, copyVars, deliveries, returned>>

LockExpires(m) ==
  /\ mail[m] = "locked" /\ ~Renewed(owner[m])
  /\ mail' = [mail EXCEPT ![m] = Requeued(m)]
  /\ owner' = [owner EXCEPT ![m] = NoCopy]
  /\ UNCHANGED <<config, stopVars, readLock, fetch, copyVars, deliveries, history>>

-----------------------------------------------------------------------------
(* stop() *)

StopBegins ==
  /\ sub = "started"
  /\ sub' = "readlock"
  /\ UNCHANGED <<config, running, receiver, starts, serving, readLock, fetch,
                 copyVars, queueVars, history>>

StopGetsReadLock ==
  /\ sub = "readlock" /\ readLock = 0
  /\ sub' = "drain" /\ readLock' = Stopper /\ running' = FALSE
  /\ UNCHANGED <<config, receiver, starts, serving, fetch, copyVars, queueVars,
                 history>>

\* Mutant: the tasks are cancelled without waiting for the handlers.
MutDrainEnds ==
  /\ sub = "drain"
  /\ fetch' = [g \in Starts |-> IF g \in serving THEN "done" ELSE fetch[g]]
  /\ \E handed \in SUBSET In("buffer") :
       /\ Cardinality(handed) <= 1
       /\ at' = [c \in Copies |-> IF at[c] \in {"batch", "limiter"} \/ c \in handed
                                   THEN "gone" ELSE at[c]]
  /\ serving' = {} /\ readLock' = 0 /\ sub' = "closing"
  /\ UNCHANGED <<config, running, receiver, starts, link, task, queueVars, history>>

\* TasksMixin.stop cancels the tasks: what they hold is dropped, and at most one
\* message on its way to a serve task.  The buffer keeps the others: it belongs
\* to the subscriber, not to a start.
DrainEnds ==
  /\ sub = "drain" /\ Working = {}
  /\ fetch' = [g \in Starts |-> IF g \in serving THEN "done" ELSE fetch[g]]
  /\ \E handed \in SUBSET In("buffer") :
       /\ Cardinality(handed) <= 1
       /\ at' = [c \in Copies |-> IF at[c] \in {"batch", "limiter"} \/ c \in handed
                                   THEN "gone" ELSE at[c]]
  /\ serving' = {} /\ readLock' = 0 /\ sub' = "closing"
  /\ UNCHANGED <<config, running, receiver, starts, link, task, queueVars,
                 history>>

\* graceful_timeout ends the block before the tasks are cancelled.
StopTimesOut ==
  /\ faults > 0 /\ faults' = faults - 1
  /\ \/ sub = "readlock" /\ readLock # 0 /\ UNCHANGED readLock
     \/ sub = "drain" /\ Working # {} /\ readLock' = 0
  /\ sub' = "closing"
  /\ UNCHANGED <<conf, budget, running, receiver, starts, serving, fetch, copyVars,
                 queueVars, history>>

\* The renewer and the receiver are closed.
StopFinishes ==
  /\ sub = "closing"
  /\ receiver' = 0 /\ sub' = "stopped"
  /\ link' = [c \in Copies |-> IF link[c] = receiver THEN 0 ELSE link[c]]
  /\ UNCHANGED <<config, running, starts, serving, readLock, fetch, at, task, queueVars,
                 history>>

-----------------------------------------------------------------------------
Consumes(g) ==
  \/ LoopTop(g) \/ GetsReadLock(g) \/ (\E S \in SUBSET Messages : Receive(g, S))
  \/ ReceiveNothing(g) \/ \E c \in Copies : PutMsg(g, c)

Works(c) == Serve(c) \/ Consume(c) \/ HandlerEnds(c)

Stop == StopBegins \/ StopGetsReadLock \/ DrainEnds \/ StopTimesOut \/ StopFinishes

Next ==
  \/ Start \/ Stop
  \/ \E g \in Starts : Consumes(g)
  \/ \E c \in Copies : Works(c)
  \/ \E m \in Messages : LockExpires(m) \/ RenewalEnds(m)

Spec == Init /\ [][Next]_vars

\* A task that can go on does; a copy only moves forward, so that the workers need
\* no fairness one by one.  anyio.Lock is FIFO, and a link that is asked again and
\* again while messages are queued answers with some.
Fairness ==
  /\ \A g \in Starts :
       /\ WF_vars(Consumes(g)) /\ SF_vars(GetsReadLock(g))
       /\ SF_vars(\E S \in SUBSET Messages : Receive(g, S))
  /\ WF_vars(\E c \in Copies : Works(c))
  /\ SF_vars(StopGetsReadLock) /\ WF_vars(DrainEnds \/ StopFinishes)
  /\ WF_vars(\E m \in Messages : LockExpires(m) \/ (RenewalEnds(m) /\ faults' = faults))

FairSpec == Spec /\ Fairness

-----------------------------------------------------------------------------
(* Properties *)

\* Every variable of the model of ServiceBusConcurrentSubscriber has its type.
TypeOK ==
  /\ faults \in Nat /\ sub \in {"stopped", "started", "readlock", "drain", "closing"}
  /\ running \in BOOLEAN
  /\ starts \in 0..MaxStarts /\ receiver \in 0..starts /\ serving \subseteq 1..starts
  /\ readLock \in 0..Stopper
  /\ fetch \in [Starts -> {"new", "top", "readlock", "receiving", "putting", "done"}]
  /\ at \in [Copies -> {"unused", "batch", "buffer", "limiter", "handling", "gone"}]
  /\ link \in [Copies -> 0..MaxStarts] /\ task \in [Copies -> 0..MaxStarts]
  /\ mail \in [Messages -> {"queued", "locked", "deleted", "completed", "dead"}]
  /\ owner \in [Messages -> Copies \cup {NoCopy}]
  /\ deliveries \in [Messages -> 0..MaxDeliveries]
  /\ lapsed \subseteq Copies /\ returned \subseteq Messages

\* With renewed locks a message that waits for a worker or is handled is not fetched
\* again over the same link before max_lock_renewal_duration is over, however many
\* messages wait, fail to be settled or are drained: nothing bounds them, so their
\* locks have to be kept from the fetch on and not from the handler on.
NoDuplicateOnALink ==
  conf.renew =>
    \A c, d \in In("buffer") \cup In("limiter") \cup Working :
      c[1] = d[1] /\ link[c] = link[d] /\ link[c] # 0 /\ c[2] < d[2] => c \in lapsed

\* After a stop() that got to cancel its tasks, also those that an earlier stop()
\* had left behind, nothing waits for a permit or runs a handler: a later start()
\* meets at most messages that were left in the buffer.
StopEndsTheWork ==
  sub = "stopped" /\ serving = {} => In("batch") \cup In("limiter") \cup Working = {}

\* "`AckPolicy.ACK_FIRST` with `max_workers > 1` loses messages on handler failure",
\* and is refused: while the subscriber is up, a message that left the queue on
\* receipt is on its way to a handler or one returned for it.
WorkersLoseNothing ==
  sub = "started" =>
    \A m \in Messages : mail[m] = "deleted" =>
      m \in returned \/ \E c \in Copies : c[1] = m /\ at[c] \notin {"unused", "gone"}

\* While the subscriber stays up every message is settled in the end, although
\* messages wait for workers behind any number of others.
EveryMessageIsSettled ==
  sub = "started" ~>
    (\A m \in Messages : mail[m] \in {"completed", "dead", "deleted"}) \/ sub # "started"

\* stop() ends, and every message that its tasks dropped or left in the buffer
\* becomes available to other consumers.
StopReleasesMessages ==
  sub \in {"readlock", "drain"} ~>
    (sub = "stopped" /\ \A m \in Messages : mail[m] # "locked") \/ sub = "started"
=============================================================================
