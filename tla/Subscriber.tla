------------------------------ MODULE Subscriber ------------------------------
(***************************************************************************)
(* ServiceBusSubscriber with one worker: the consume loop, the queue it    *)
(* receives from (peek-lock or receive-and-delete), the settlement that    *)
(* the acknowledgement policy makes, and start and stop, with the graceful *)
(* timeout of stop.  An action is what a task does between two awaits.     *)
(* A subscriber without handlers has no loop: its tasks are callers of     *)
(* get_one and iterations.  TasksMixin.stop, SubscriberUsecase.consume and *)
(* the acknowledgement middleware belong to FastStream; the queue belongs  *)
(* to the service.                                                         *)
(***************************************************************************)
EXTENDS Naturals, FiniteSets

CONSTANTS Messages,
          Tasks,       \* consume tasks, one for each start(), or callers
          NoMessage, NoTask,
          Stopper,     \* stop(), as the holder of _read_lock
          Prefetch,    \* prefetch_count
          AckFirst,    \* AckPolicy.ACK_FIRST: receive-and-delete
          OnError,     \* the verb of the policy after an exception: "complete",
                       \* "abandon", "dead-letter"
          Renew,       \* should_renew_locks
          SlowStop,    \* may a fetch or a handler outlast graceful_timeout, once?
          MaxCalls,    \* bound: calls of start(), get_one() and __aiter__() on a
                       \* subscriber without handlers
          MaxFaults    \* bound: settlements that fail with the lock held, and handlers
                       \* that outlast max_lock_renewal_duration

ASSUME NullAssumption ==
  NoMessage \notin Messages /\ NoTask \notin Tasks /\ Stopper \notin Tasks /\ Stopper # NoTask
ASSUME ConfigAssumption ==
  /\ Prefetch \in Nat \ {0} /\ AckFirst \in BOOLEAN /\ Renew \in BOOLEAN /\ SlowStop \in BOOLEAN
  /\ Renew => ~AckFirst
  /\ MaxCalls \in Nat /\ MaxFaults \in Nat
  /\ OnError \in {"complete", "abandon", "dead-letter"}

VARIABLES
  sub,        \* start and stop: "stopped", "started", "readlock" and "drain"
              \* are the awaits of stop() under the timeout, then "closing"
  running,    \* the flag `running`
  receiver,   \* _receiver: the number of the link, 0 for None
  links,      \* links that are open
  starts,     \* calls of start() so far
  tracked,    \* TasksMixin.tasks
  readLock,   \* holder of _read_lock
  waiting,    \* waiting[w]: w itself and those that asked for it before w and
              \* wait still, {} if w does not: anyio.Lock is FIFO
  pc,         \* where the task t is
  link,       \* link[t]: the receiver t received from last
  batch,      \* batch[t]: messages of the fetch still to consume
  current,    \* current[t]: the message inside process_message
  attached,   \* attached[t]: the receiver its ServiceBusMessage settles with
  verb,       \* verb[t]: the settlement under way
  mail,       \* mail[m]: the message in the queue
  owner,      \* owner[m]: the task whose fetch holds the lock of m
  renewing,   \* messages whose locks the renewer keeps
  excused,    \* tasks whose message nobody keeps for them (see HandlesItsOwn)
  faults,     \* settlements that failed, and handlers that took too long, so far
  returned,   \* messages some handler returned for, here or elsewhere, or a caller
              \* acknowledged
  calls,      \* the subscriber has handlers
  pull,       \* pull[t]: the method the caller t is in
  slow        \* may a stop() still reach graceful_timeout?

lifeVars == <<sub, running, receiver, links, starts, tracked>>
taskVars == <<pc, link, batch, current, attached, verb>>
queueVars == <<mail, owner>>
renewVars == <<renewing, excused, faults>>
lockVars == <<readLock, waiting>>
userVars == <<returned, calls, pull>>
vars == <<lifeVars, lockVars, taskVars, queueVars, userVars, slow, renewVars>>

Waiters == Tasks \cup {Stopper}

InFlight(t) == pc[t] \in {"handling", "settling"}

Init ==
  /\ sub = "stopped" /\ running = FALSE /\ receiver = 0 /\ links = {}
  /\ starts = 0 /\ tracked = {} /\ readLock = NoTask
  /\ waiting = [w \in Waiters |-> {}]
  /\ pc = [t \in Tasks |-> "new"]
  /\ link = [t \in Tasks |-> 0]
  /\ batch = [t \in Tasks |-> {}]
  /\ current = [t \in Tasks |-> NoMessage]
  /\ attached = [t \in Tasks |-> 0]
  /\ verb = [t \in Tasks |-> "none"]
  /\ mail = [m \in Messages |-> "queued"]
  /\ owner = [m \in Messages |-> NoTask]
  /\ renewing = {} /\ excused = {} /\ faults = 0
  /\ returned = {} /\ slow = SlowStop
  /\ calls \in BOOLEAN /\ pull = [t \in Tasks |-> "none"]

-----------------------------------------------------------------------------
(* start() *)

\* Mutant: the link is not counted.
MutStart(t) ==
  /\ calls /\ sub = "stopped" /\ pc[t] = "new"
  /\ sub' = "started" /\ running' = TRUE
  /\ receiver' = starts + 1 /\ links' = links \cup {starts + 1}
  /\ tracked' = tracked \cup {t}
  /\ pc' = [pc EXCEPT ![t] = "top"]
  /\ UNCHANGED <<starts, lockVars, link, batch, current, attached, verb, queueVars,
                 userVars, slow, renewVars>>

Opens ==
  /\ sub = "stopped"
  /\ sub' = "started" /\ running' = TRUE
  /\ starts' = starts + 1
  /\ receiver' = starts + 1 /\ links' = links \cup {starts + 1}

Start(t) ==
  /\ calls /\ pc[t] = "new"
  /\ Opens
  /\ tracked' = tracked \cup {t}
  /\ pc' = [pc EXCEPT ![t] = "top"]
  /\ UNCHANGED <<lockVars, link, batch, current, attached, verb, queueVars, userVars,
                 slow, renewVars>>

CallsLeft == starts + Cardinality({t \in Tasks : pull[t] # "none"}) < MaxCalls

\* A subscriber without handlers has no consume task.
StartIdle ==
  /\ ~calls /\ CallsLeft
  /\ Opens
  /\ UNCHANGED <<tracked, taskVars, lockVars, queueVars, userVars, slow, renewVars>>

-----------------------------------------------------------------------------
(* _consume, _get_msgs, get_one and __aiter__ *)

\* What an error makes of the loop, or of a caller.
Failed == IF calls THEN "backoff" ELSE "done"

\* Under _read_lock: receive, or fail on `self._receiver` being None.
Fetch(t) ==
  IF receiver = 0
    THEN /\ pc' = [pc EXCEPT ![t] = Failed]
         /\ UNCHANGED <<readLock, link>>
    ELSE /\ pc' = [pc EXCEPT ![t] = "receiving"]
         /\ link' = [link EXCEPT ![t] = receiver]
         /\ readLock' = t

Waits(w) == waiting[w] # {}
ReadLockFree == readLock = NoTask /\ \A w \in Waiters : ~Waits(w)

JoinsQueue(w) == waiting' = [waiting EXCEPT ![w] = {v \in Waiters : Waits(v)} \cup {w}]
LeaveQueue(W) == waiting' = [w \in Waiters |-> IF w \in W THEN {} ELSE waiting[w] \ W]

\* Only _get_msgs looks at the receiver before it takes the lock.
AsksReadLock(t) ==
  \/ /\ ReadLockFree \/ (calls /\ receiver = 0)
     /\ Fetch(t)
     /\ UNCHANGED waiting
  \/ /\ ~ReadLockFree /\ (calls => receiver # 0)
     /\ pc' = [pc EXCEPT ![t] = "readlock"]
     /\ JoinsQueue(t)
     /\ UNCHANGED <<readLock, link>>

\* An iteration goes on whatever the flag says.
LoopTop(t) ==
  /\ pc[t] = "top"
  /\ \/ /\ calls /\ ~running
        /\ pc' = [pc EXCEPT ![t] = "done"]
        /\ UNCHANGED <<lockVars, link>>
     \/ (calls => running) /\ AsksReadLock(t)
  /\ UNCHANGED <<lifeVars, batch, current, attached, verb, queueVars, userVars, slow,
                 renewVars>>

\* A call of get_one, or of an iteration's first round.
PullBegins(t) ==
  /\ ~calls /\ CallsLeft /\ pc[t] = "new" /\ receiver # 0
  /\ AsksReadLock(t)
  /\ \E how \in {"get_one", "iterator"} : pull' = [pull EXCEPT ![t] = how]
  /\ UNCHANGED <<lifeVars, batch, current, attached, verb, queueVars, returned, calls,
                 slow, renewVars>>

\* The lock passes to the first that waits.
GetsLock(w) ==
  /\ readLock = NoTask /\ waiting[w] = {w}
  /\ LeaveQueue({w})

GetsReadLock(t) ==
  /\ GetsLock(t)
  /\ Fetch(t)
  /\ UNCHANGED <<lifeVars, batch, current, attached, verb, queueVars, userVars, slow,
                 renewVars>>

\* What the renewer still has when some messages were settled.
StillRenewed == {m \in renewing : mail'[m] = "locked"}

\* The renewer renews the message of a receiver that is open, while its lock lasts.
Renewable(t, m) ==
  Renew /\ receiver # 0 /\ link[t] = receiver /\ mail'[m] = "locked" /\ owner'[m] = t

Excuses(t, m) ==
  excused' = IF Renewable(t, m) /\ sub # "closing" THEN excused \ {t} ELSE excused \cup {t}

\* Mutant: the message is not registered.
MutRegisters(t, m) == renewing' = StillRenewed /\ Excuses(t, m)

\* _register_for_renewal.
Registers(t, m) ==
  /\ renewing' = StillRenewed \cup {n \in {m} : Renewable(t, n)}
  /\ Excuses(t, m)

\* The turn of m has come.
Takes(t, m, rest) ==
  /\ Registers(t, m)
  /\ current' = [current EXCEPT ![t] = m]
  /\ batch' = [batch EXCEPT ![t] = rest \ {m}]
  /\ attached' = [attached EXCEPT ![t] = IF AckFirst THEN 0 ELSE receiver]

TakesNone(t) ==
  /\ renewing' = StillRenewed /\ excused' = excused \ {t}
  /\ current' = [current EXCEPT ![t] = NoMessage]
  /\ batch' = [batch EXCEPT ![t] = {}]
  /\ attached' = [attached EXCEPT ![t] = 0]

\* The next message of the fetch: consume() drops it if the flag is off.  The
\* parser attaches the receiver of the moment, which may be None by now.
NextMessage(t, rest) ==
  \/ /\ running
     /\ \E m \in rest : Takes(t, m, rest)
     /\ pc' = [pc EXCEPT ![t] = "handling"]
  \/ /\ ~running \/ rest = {}
     /\ TakesNone(t)
     /\ pc' = [pc EXCEPT ![t] = "top"]

\* _process_one: the message is the caller's, who may ask for the next one.
NextPulled(t, rest) ==
  \/ /\ \E m \in rest : Takes(t, m, rest)
     /\ pc' = [pc EXCEPT ![t] = "held"]
  \/ /\ rest = {}
     /\ TakesNone(t)
     /\ pc' = [pc EXCEPT ![t] = IF pull[t] = "iterator" THEN "top" ELSE "done"]

NextTurn(t, rest) == IF calls THEN NextMessage(t, rest) ELSE NextPulled(t, rest)

Receive(t, S) ==
  /\ pc[t] = "receiving" /\ link[t] \in links
  /\ Cardinality(S) \in 1..(IF pull[t] = "get_one" THEN 1 ELSE Prefetch)
  /\ \A m \in S : mail[m] = "queued"
  /\ mail' = [m \in Messages |->
                IF m \in S THEN (IF AckFirst THEN "deleted" ELSE "locked") ELSE mail[m]]
  /\ owner' = [m \in Messages |-> IF m \in S THEN t ELSE owner[m]]
  /\ readLock' = NoTask
  /\ NextTurn(t, S)
  /\ UNCHANGED <<lifeVars, waiting, link, verb, userVars, slow, faults>>

\* max_wait_time passes without a message.
ReceivesNothing(t) ==
  /\ pc[t] = "receiving" /\ link[t] \in links
  /\ pc' = [pc EXCEPT ![t] = IF pull[t] = "get_one" THEN "done" ELSE "top"]
  /\ readLock' = NoTask
  /\ UNCHANGED <<lifeVars, waiting, link, batch, current, attached, verb, queueVars,
                 userVars, slow, renewVars>>

\* Mutant: the failure ends the loop.
MutReceiveFails(t) ==
  /\ pc[t] = "receiving"
  /\ pc' = [pc EXCEPT ![t] = "done"]
  /\ readLock' = NoTask
  /\ UNCHANGED <<lifeVars, waiting, link, batch, current, attached, verb, queueVars,
                 userVars, slow, renewVars>>

\* A transport failure, or stop() closed the link under the fetch: the loop goes
\* on, a caller gets the error.
ReceiveFails(t) ==
  /\ pc[t] = "receiving"
  /\ pc' = [pc EXCEPT ![t] = Failed]
  /\ readLock' = NoTask
  /\ UNCHANGED <<lifeVars, waiting, link, batch, current, attached, verb, queueVars,
                 userVars, slow, renewVars>>

BackoffEnds(t) ==
  /\ pc[t] = "backoff"
  /\ pc' = [pc EXCEPT ![t] = "top"]
  /\ UNCHANGED <<lifeVars, lockVars, link, batch, current, attached, verb, queueVars,
                 userVars, slow, renewVars>>

\* Mutant: the message is completed after an exception too.
MutHandlerEnds(t) ==
  /\ pc[t] = "handling"
  /\ returned' \in {returned, returned \cup {current[t]}}
  /\ verb' = [verb EXCEPT ![t] = "complete"]
  /\ pc' = [pc EXCEPT ![t] = "settling"]
  /\ UNCHANGED <<lifeVars, lockVars, link, batch, current, attached, queueVars, calls,
                 pull, slow, renewVars>>

\* The handler ends; the policy picks the verb, ack/nack/reject find a receiver
\* to settle with or return at once.
HandlerEnds(t) ==
  /\ pc[t] = "handling"
  /\ \/ /\ returned' = returned \cup {current[t]}
        /\ verb' = [verb EXCEPT ![t] = "complete"]
     \/ /\ UNCHANGED returned
        /\ verb' = [verb EXCEPT ![t] = OnError]
  /\ pc' = [pc EXCEPT ![t] = "settling"]
  /\ UNCHANGED <<lifeVars, lockVars, link, batch, current, attached, queueVars, calls,
                 pull, slow, renewVars>>

HoldsLock(t) == mail[current[t]] = "locked" /\ owner[current[t]] = t

Settled(v) ==
  CASE v = "complete" -> "completed" [] v = "dead-letter" -> "dead" [] OTHER -> "queued"

CanSettle(t, v) == v # "none" /\ attached[t] \in links /\ HoldsLock(t)

\* Settling with a closed receiver fails, a lost lock is swallowed.
Settles(t, v) ==
  IF CanSettle(t, v)
    THEN /\ mail' = [mail EXCEPT ![current[t]] = Settled(v)]
         /\ owner' = [owner EXCEPT ![current[t]] = NoTask]
    ELSE UNCHANGED queueVars

\* Any other error of the SDK: the message stays locked, and registered.
SettleFails(t, v) ==
  /\ CanSettle(t, v)
  /\ faults < MaxFaults /\ faults' = faults + 1
  /\ UNCHANGED queueVars

\* The acknowledgement middleware logs what fails: the loop goes on with the next
\* message in every case.
Settle(t) ==
  /\ pc[t] = "settling"
  /\ (Settles(t, verb[t]) /\ UNCHANGED faults) \/ SettleFails(t, verb[t])
  /\ verb' = [verb EXCEPT ![t] = "none"]
  /\ NextMessage(t, batch[t])
  /\ UNCHANGED <<lifeVars, lockVars, link, userVars, slow>>

\* The caller settles its message with any verb or none, and asks for the next: a
\* verb that fails leaves the message as none does.
CallerSettles(t) ==
  /\ pc[t] = "held"
  /\ \E v \in {"none", "complete", "abandon", "dead-letter"} :
       /\ Settles(t, v)
       /\ returned' = returned \cup (IF v = "complete" THEN {current[t]} ELSE {})
  /\ NextPulled(t, batch[t])
  /\ UNCHANGED <<lifeVars, lockVars, link, verb, calls, pull, slow, faults>>

\* A caller is cancelled, or leaves its iteration with messages unread.
PullAbandoned(t) ==
  /\ ~calls /\ pc[t] \in {"readlock", "receiving", "held"}
  /\ pc' = [pc EXCEPT ![t] = "done"]
  /\ batch' = [batch EXCEPT ![t] = {}]
  /\ current' = [current EXCEPT ![t] = NoMessage]
  /\ attached' = [attached EXCEPT ![t] = 0]
  /\ readLock' = IF readLock = t THEN NoTask ELSE readLock
  /\ excused' = excused \ {t}
  /\ LeaveQueue({t})
  /\ UNCHANGED <<lifeVars, link, verb, queueVars, userVars, slow, renewing, faults>>

\* Only a message whose turn has come is registered, those fetched with it that are
\* still to come are not.
LockExpires(m) ==
  /\ mail[m] = "locked" /\ m \notin renewing
  /\ mail' = [mail EXCEPT ![m] = "queued"]
  /\ owner' = [owner EXCEPT ![m] = NoTask]
  /\ UNCHANGED <<lifeVars, lockVars, taskVars, userVars, slow, renewVars>>

\* max_lock_renewal_duration is over and the lock expires: inside the handler, in the
\* hands of a caller, or after a settlement that failed.
RenewalEnds(m) ==
  /\ m \in renewing
  /\ IF \E t \in Tasks : InFlight(t) /\ current[t] = m /\ owner[m] = t
       THEN faults < MaxFaults /\ faults' = faults + 1
       ELSE UNCHANGED faults
  /\ renewing' = renewing \ {m}
  /\ excused' = excused \cup {t \in Tasks : current[t] = m}
  /\ mail' = [mail EXCEPT ![m] = "queued"]
  /\ owner' = [owner EXCEPT ![m] = NoTask]
  /\ UNCHANGED <<lifeVars, lockVars, taskVars, userVars, slow>>

\* Another consumer of the queue receives m and completes it.
TakenElsewhere(m) ==
  /\ mail[m] = "queued"
  /\ mail' = [mail EXCEPT ![m] = "completed"]
  /\ returned' = returned \cup {m}
  /\ UNCHANGED <<lifeVars, lockVars, taskVars, owner, calls, pull, slow, renewVars>>

-----------------------------------------------------------------------------
(* stop() *)

\* SubscriberUsecase.stop clears the flag and waits for handlers in flight.
Drain ==
  /\ readLock' = Stopper
  /\ sub' = "drain" /\ running' = FALSE

StopBegins ==
  /\ sub = "started"
  /\ \/ ReadLockFree /\ Drain /\ UNCHANGED waiting
     \/ /\ ~ReadLockFree
        /\ sub' = "readlock" /\ JoinsQueue(Stopper)
        /\ UNCHANGED <<running, readLock>>
  /\ UNCHANGED <<receiver, links, starts, tracked, taskVars, queueVars, userVars, slow,
                 renewVars>>

StopGetsReadLock ==
  /\ GetsLock(Stopper)
  /\ Drain
  /\ UNCHANGED <<receiver, links, starts, tracked, taskVars, queueVars, userVars, slow,
                 renewVars>>

\* Mutant: the tasks are forgotten, not cancelled.
MutDrainForgets ==
  /\ sub = "drain" /\ \A t \in Tasks : ~InFlight(t)
  /\ tracked' = {}
  /\ readLock' = NoTask /\ sub' = "closing"
  /\ UNCHANGED <<running, receiver, links, starts, waiting, taskVars, queueVars,
                 userVars, slow, renewVars>>

\* Mutant: stop() waits for the tasks to end, under the lock they need.
MutDrainJoins ==
  /\ sub = "drain" /\ \A t \in tracked : pc[t] = "done"
  /\ tracked' = {}
  /\ readLock' = NoTask /\ sub' = "closing"
  /\ UNCHANGED <<running, receiver, links, starts, waiting, taskVars, queueVars,
                 userVars, slow, renewVars>>

\* TasksMixin.stop cancels the tasks it has, and no one waits for them.
DrainEnds ==
  /\ sub = "drain" /\ \A t \in Tasks : ~InFlight(t)
  /\ pc' = [t \in Tasks |-> IF t \in tracked THEN "done" ELSE pc[t]]
  /\ tracked' = {}
  /\ readLock' = NoTask /\ LeaveQueue(tracked)
  /\ sub' = "closing"
  /\ UNCHANGED <<running, receiver, links, starts, link, batch, current, attached, verb,
                 queueVars, userVars, slow, renewVars>>

\* graceful_timeout ends the block while a fetch holds the lock, before the flag
\* is cleared, or while a handler runs, before TasksMixin.stop cancels the tasks.
StopTimesOut ==
  /\ slow /\ slow' = FALSE
  /\ \/ sub = "readlock" /\ readLock # NoTask
     \/ sub = "drain" /\ \E t \in Tasks : InFlight(t)
  /\ sub' = "closing"
  /\ readLock' = IF readLock = Stopper THEN NoTask ELSE readLock
  /\ LeaveQueue({Stopper})
  /\ excused' = excused \cup {t \in Tasks : InFlight(t)}
  /\ UNCHANGED <<running, receiver, links, starts, tracked, taskVars, queueVars, userVars,
                 renewing, faults>>

\* The renewer and the receiver are closed.
StopFinishes ==
  /\ sub = "closing"
  /\ renewing' = {} /\ excused' = excused \cup {t \in Tasks : pc[t] = "held"}
  /\ links' = links \ {receiver} /\ receiver' = 0
  /\ sub' = "stopped"
  /\ UNCHANGED <<running, starts, tracked, lockVars, taskVars, queueVars, userVars,
                 slow, faults>>

-----------------------------------------------------------------------------
\* What a task does by itself, whatever comes.
Runs(t) ==
  \/ LoopTop(t) \/ GetsReadLock(t) \/ ReceivesNothing(t) \/ ReceiveFails(t)
  \/ BackoffEnds(t) \/ HandlerEnds(t) \/ Settle(t)

Loop(t) == Runs(t) \/ \E S \in SUBSET Messages : Receive(t, S)

Pull(t) == PullBegins(t) \/ CallerSettles(t) \/ PullAbandoned(t)

Stop == StopBegins \/ StopGetsReadLock \/ DrainEnds \/ StopTimesOut \/ StopFinishes

Next ==
  \/ StartIdle \/ \E t \in Tasks : Start(t) \/ Loop(t) \/ Pull(t)
  \/ Stop
  \/ \E m \in Messages : LockExpires(m) \/ RenewalEnds(m) \/ TakenElsewhere(m)

Spec == Init /\ [][Next]_vars

\* Tasks run, handlers end, locks and renewals do, and a fetch that may get messages
\* again and again gets some (it may fail now and then).  Nothing starts or stops the
\* subscriber or makes callers go on.
Fairness ==
  /\ \A t \in Tasks :
       WF_vars(Runs(t)) /\ SF_vars(\E S \in SUBSET Messages : Receive(t, S))
  /\ WF_vars(StopGetsReadLock \/ DrainEnds \/ StopFinishes)
  /\ \A m \in Messages : WF_vars(LockExpires(m) \/ RenewalEnds(m))

FairSpec == Spec /\ Fairness

-----------------------------------------------------------------------------
(* Properties *)

\* Every variable of the model of usecase.py has its type.
TypeOK ==
  /\ sub \in {"stopped", "started", "readlock", "drain", "closing"}
  /\ running \in BOOLEAN
  /\ starts \in Nat /\ receiver \in 0..starts /\ links \subseteq 1..starts
  /\ tracked \subseteq Tasks
  /\ readLock \in Tasks \cup {NoTask, Stopper}
  /\ waiting \in [Waiters -> SUBSET Waiters]
  /\ pc \in [Tasks -> {"new", "top", "readlock", "receiving", "handling", "held", "settling",
                       "backoff", "done"}]
  /\ link \in [Tasks -> 0..starts] /\ attached \in [Tasks -> 0..starts]
  /\ batch \in [Tasks -> SUBSET Messages]
  /\ current \in [Tasks -> Messages \cup {NoMessage}]
  /\ verb \in [Tasks -> {"none", "complete", "abandon", "dead-letter"}]
  /\ mail \in [Messages -> {"queued", "locked", "deleted", "completed", "dead"}]
  /\ owner \in [Messages -> Tasks \cup {NoTask}]
  /\ renewing \subseteq Messages /\ excused \subseteq Tasks /\ faults \in 0..MaxFaults
  /\ returned \subseteq Messages /\ slow \in BOOLEAN /\ calls \in BOOLEAN
  /\ pull \in [Tasks -> {"none", "get_one", "iterator"}]

\* "Handlers to run concurrently over this subscriber": one worker, one handler,
\* unless a stop() that timed out left its task to the next start().
OneHandlerAtATime ==
  Cardinality(tracked) <= 1 => \A t, u \in Tasks : InFlight(t) /\ InFlight(u) => t = u

\* The same, of handlers whose messages came over one receiver: true of the
\* handlers that outlive a stop(), false once an old loop goes on receiving.
OneHandlerPerReceiver ==
  \A t, u \in Tasks : InFlight(t) /\ InFlight(u) /\ link[t] = link[u] => t = u

\* "Keep a message's lock alive while a slow handler runs": with renewal the message
\* inside a handler, or in the hands of a caller, is locked for the task that has it,
\* so that no other consumer and no other task handles or settles it; whatever other
\* messages lose their locks, come again, fail to be settled or go to other consumers.
\* Excused are a task whose message lost its lock, or its receiver, while it waited
\* behind others of its fetch, one that outlasts max_lock_renewal_duration or
\* graceful_timeout, and a caller that keeps its message over stop().
HandlesItsOwn ==
  Renew =>
    \A t \in Tasks : (InFlight(t) \/ pc[t] = "held") /\ t \notin excused =>
      mail[current[t]] = "locked" /\ owner[current[t]] = t

\* After a stop() that got to cancel its tasks no consume task is left that a
\* later start() would wake up, not even one of an earlier stop() that timed out.
StopEndsTheLoop ==
  calls /\ sub = "stopped" /\ tracked = {} => \A t \in Tasks : pc[t] \in {"new", "done"}

\* A message is completed only if a handler returned for it or a caller asked for
\* it, however often locks expire and other tasks receive it again.
SettledAsHandled ==
  OnError # "complete" => \A m \in Messages : mail[m] = "completed" => m \in returned

\* While the subscriber stays up every message is settled in the end: errors of
\* the link, locks that expire in the middle of a batch, settlements that fail with
\* the lock held, handlers that outlast the renewal and redelivery included.
EveryMessageIsSettled ==
  calls /\ sub = "started" ~>
    (\A m \in Messages : mail[m] \in {"completed", "dead", "deleted"}) \/ sub # "started"

\* stop() ends whoever waits for _read_lock with it, what it leaves locked in a
\* fetched batch becomes available to other consumers, and no call of get_one or
\* round of an iteration is left waiting for the lock or for a message.
StopReleasesTheBatch ==
  sub \in {"readlock", "drain"} ~>
    \/ /\ sub = "stopped" /\ \A m \in Messages : mail[m] # "locked"
       /\ ~calls => \A t \in Tasks : pc[t] \notin {"readlock", "receiving"}
    \/ sub = "started"
=============================================================================
