----------------------- MODULE ConcurrentSubscriberProofs -----------------------
(***************************************************************************)
(* Theorems about ConcurrentSubscriber for any number of messages, starts, *)
(* deliveries and workers, and any arguments that create_subscriber takes. *)
(***************************************************************************)
EXTENDS ConcurrentSubscriber, TLAPS

\* What create_subscriber lets through: a permit at least, and renewal only for
\* messages that are locked.
ConfInv ==
  /\ conf.workers \in Nat \ {0} /\ conf.prefetch \in Nat
  /\ conf.renew => ~conf.delete
  /\ budget \in 0..MaxStarts /\ starts <= budget

\* _read_lock has the holder that its users take it to have.
LockInv ==
  /\ \A g \in Starts : readLock = g <=> fetch[g] = "receiving"
  /\ readLock = Stopper <=> sub = "drain"

\* TasksMixin.tasks has every consume task that has not ended; without tasks
\* nothing is in a batch, waits for a permit or runs.
TasksInv ==
  /\ \A g \in Starts : fetch[g] \in {"new", "done"} \/ g \in serving
  /\ serving = {} => \A c \in Copies : at[c] \notin {"batch", "limiter", "handling"}

\* A message can be settled over the open receiver only, as a closed one takes its
\* links with it.
LinkInv ==
  /\ sub = "stopped" => receiver = 0
  /\ \A c \in Copies : link[c] \in {0, receiver}

\* Deliveries are counted before their copies exist.
CopiesInv ==
  /\ \A c \in Copies : at[c] # "unused" => c[2] <= deliveries[c[1]]
  /\ \A m \in Messages : mail[m] = "queued" => deliveries[m] < MaxDeliveries

\* Only the last delivery of a message can hold its lock.
OwnerInv ==
  \A m \in Messages :
    mail[m] = "locked" => owner[m] \in Copies /\ owner[m] = <<m, deliveries[m]>>

\* The renewer keeps the lock of every message of the open receiver, from the fetch
\* to the settlement or to the end of max_lock_renewal_duration.
RenewInv ==
  conf.renew =>
    \A c \in Copies : at[c] \notin {"unused", "gone"} /\ link[c] # 0 /\ c \notin lapsed =>
      mail[c[1]] = "locked" /\ owner[c[1]] = c

IInv ==
  TypeOK /\ ConfInv /\ LockInv /\ TasksInv /\ LinkInv /\ CopiesInv /\ OwnerInv /\ RenewInv

\* create_subscriber returns a subscriber with at least one permit.
LEMMA CreatedConf ==
  ASSUME NEW s \in Scenarios, Created(s) # SetupError
  PROVE  /\ Created(s).workers \in Nat \ {0} /\ Created(s).prefetch \in Nat
         /\ Created(s).renew => ~Created(s).delete
<1> DEFINE a == s.arguments
           policy == EffectivePolicy(a.policy, s.outer)
<1>1. /\ ~Misconfigured(a)
      /\ Created(s) =
           [destination |-> ResolveDestination(a.queue, a.topic, a.subscription),
            prefetch |-> a.prefetch, workers |-> a.workers, policy |-> policy,
            delete |-> ReceiveAndDelete(policy), renew |-> ShouldRenewLocks(policy, a.renewal)]
  BY DEF Created, CreateSubscriber
<1>2. a.prefetch \in Int /\ a.workers \in Int
  BY ArgumentsAssumption
<1>3. a.prefetch >= 1 /\ a.workers >= 1
  BY <1>1, <1>2 DEF Misconfigured
<1>4. ShouldRenewLocks(policy, a.renewal) => ~ReceiveAndDelete(policy)
  BY DEF ShouldRenewLocks
<1> HIDE DEF a, policy
<1> QED
  BY <1>1, <1>2, <1>3, <1>4

\* Only a fetch gives a lock, and it counts the delivery.
LEMMA OwnerStep == TypeOK /\ CopiesInv /\ OwnerInv /\ [Next]_vars => OwnerInv'
<1> SUFFICES ASSUME TypeOK, CopiesInv, OwnerInv, [Next]_vars PROVE OwnerInv'
  OBVIOUS
<1> USE DEF OwnerInv, queueVars
<1>1. ASSUME NEW g \in Starts, NEW S \in SUBSET Messages, Receive(g, S) PROVE OwnerInv'
  <2>1. \A m \in S : Fresh(m) \in Copies
    BY <1>1, BoundsAssumption DEF Receive, Fresh, Copies, TypeOK, CopiesInv
  <2>2. \A m \in Messages :
          /\ m \in S => /\ mail'[m] = "locked" => owner'[m] = Fresh(m)
                        /\ deliveries'[m] = deliveries[m] + 1
          /\ m \notin S => /\ mail'[m] = mail[m] /\ owner'[m] = owner[m]
                           /\ deliveries'[m] = deliveries[m]
    BY <1>1 DEF Receive, TypeOK
  <2> QED
    BY <2>1, <2>2 DEF Fresh
<1>2. ASSUME NEW c \in Copies, HandlerEnds(c) PROVE OwnerInv'
  <2>1. \/ UNCHANGED queueVars
        \/ \E state \in {"completed", "dead", Requeued(c[1])} :
             /\ mail' = [mail EXCEPT ![c[1]] = state]
             /\ owner' = [owner EXCEPT ![c[1]] = NoCopy]
             /\ UNCHANGED deliveries
    BY <1>2 DEF HandlerEnds, Settled
  <2>2. c[1] \in Messages /\ Requeued(c[1]) # "locked"
    BY DEF Copies, Requeued
  <2> QED
    BY <2>1, <2>2 DEF TypeOK
<1>3. ASSUME NEW m \in Messages, LockExpires(m) \/ RenewalEnds(m) PROVE OwnerInv'
  BY <1>3 DEF LockExpires, RenewalEnds, Requeued, TypeOK
<1>4. CASE UNCHANGED queueVars
  BY <1>4
<1>5. ASSUME NEW g \in Starts, Consumes(g) PROVE OwnerInv'
  BY <1>1, <1>4, <1>5 DEF Consumes, LoopTop, GetsReadLock, ReceiveNothing, PutMsg
<1>6. ASSUME NEW c \in Copies, Works(c) PROVE OwnerInv'
  BY <1>2, <1>4, <1>6 DEF Works, Serve, Consume
<1>7. CASE Start \/ Stop \/ UNCHANGED vars
  BY <1>4, <1>7 DEF Start, Stop, StopBegins, StopGetsReadLock, DrainEnds, StopTimesOut,
                    StopFinishes, vars
<1> QED
  BY <1>3, <1>5, <1>6, <1>7 DEF Next

\* At the head of its loop a task gets the lock, waits for it or ends.
LEMMA ReadsTypes ==
  ASSUME TypeOK, NEW g \in Starts, LoopTop(g) \/ GetsReadLock(g)
  PROVE  /\ fetch' \in [Starts -> {"new", "top", "readlock", "receiving", "putting", "done"}]
         /\ readLock' \in 0..Stopper
<1>1. /\ \E place \in {"top", "readlock", "receiving", "done"} :
           fetch' = [fetch EXCEPT ![g] = place]
      /\ readLock' \in {readLock, g}
  BY DEF LoopTop, GetsReadLock, Reads
<1>2. g \in 0..Stopper
  BY BoundsAssumption DEF Starts, Stopper
<1> QED
  BY <1>1, <1>2 DEF TypeOK

LEMMA IInvStep == IInv /\ [Next]_vars => IInv'
<1> SUFFICES ASSUME IInv, [Next]_vars PROVE IInv'
  OBVIOUS
<1>0. OwnerInv'
  BY OwnerStep DEF IInv
<1> USE BoundsAssumption, NoCopyAssumption
    DEF IInv, TypeOK, ConfInv, LockInv, TasksInv, LinkInv, CopiesInv, RenewInv,
        Starts, Stopper, config, stopVars, copyVars, queueVars, history
<1>1. CASE Start
  BY <1>0, <1>1 DEF Start
<1>2. CASE StopBegins
  BY <1>0, <1>2 DEF StopBegins
<1>3. CASE StopGetsReadLock
  <2>1. TypeOK'
    <3>1. running' \in BOOLEAN
      BY <1>3 DEF StopGetsReadLock
    <3> QED
      BY <1>3, <3>1 DEF StopGetsReadLock
  <2>2. ConfInv' /\ LockInv' /\ TasksInv' /\ LinkInv' /\ CopiesInv' /\ RenewInv'
    BY <1>3 DEF StopGetsReadLock
  <2> QED
    BY <1>0, <2>1, <2>2
<1>4. CASE StopTimesOut
  BY <1>0, <1>4 DEF StopTimesOut
<1>5. CASE StopFinishes
  BY <1>0, <1>5 DEF StopFinishes
<1>6. ASSUME NEW g \in Starts, LoopTop(g) PROVE IInv'
  <2>1. TypeOK' /\ ConfInv'
    <3>1. /\ fetch' \in [Starts -> {"new", "top", "readlock", "receiving", "putting", "done"}]
          /\ readLock' \in 0..Stopper
      BY <1>6, ReadsTypes
    <3>2. UNCHANGED <<config, stopVars, copyVars, queueVars, history>>
      BY <1>6 DEF LoopTop
    <3>3. running' \in BOOLEAN
      BY <3>2
    <3> QED
      BY <3>1, <3>2, <3>3
  <2>2. LockInv'
    <3>1. /\ fetch[g] = "top" /\ UNCHANGED sub
          /\ \/ \E place \in {"top", "readlock", "done"} :
                  fetch' = [fetch EXCEPT ![g] = place] /\ UNCHANGED readLock
             \/ fetch' = [fetch EXCEPT ![g] = "receiving"] /\ readLock = 0 /\ readLock' = g
      BY <1>6 DEF LoopTop, Reads
    <3>2. CASE readLock = 0 /\ readLock' = g /\ fetch' = [fetch EXCEPT ![g] = "receiving"]
      BY <3>1, <3>2
    <3>3. ASSUME NEW place \in {"top", "readlock", "done"}, UNCHANGED readLock,
                 fetch' = [fetch EXCEPT ![g] = place]
          PROVE  LockInv'
      BY <3>1, <3>3
    <3> QED
      BY <3>1, <3>2, <3>3
  <2>3. TasksInv'
    BY <1>6 DEF LoopTop, Reads
  <2>4. LinkInv' /\ CopiesInv' /\ RenewInv'
    BY <1>6 DEF LoopTop, Reads
  <2> QED
    BY <1>0, <2>1, <2>2, <2>3, <2>4
<1>7. ASSUME NEW g \in Starts, GetsReadLock(g) PROVE IInv'
  <2>1. TypeOK' /\ ConfInv'
    <3>1. /\ fetch' \in [Starts -> {"new", "top", "readlock", "receiving", "putting", "done"}]
          /\ readLock' \in 0..Stopper
      BY <1>7, ReadsTypes
    <3>2. UNCHANGED <<config, stopVars, copyVars, queueVars, history>>
      BY <1>7 DEF GetsReadLock
    <3>3. running' \in BOOLEAN
      BY <3>2
    <3> QED
      BY <3>1, <3>2, <3>3
  <2>2. LockInv'
    BY <1>7 DEF GetsReadLock, Reads
  <2>3. TasksInv'
    BY <1>7 DEF GetsReadLock, Reads
  <2>4. LinkInv' /\ CopiesInv' /\ RenewInv'
    BY <1>7 DEF GetsReadLock, Reads
  <2> QED
    BY <1>0, <2>1, <2>2, <2>3, <2>4
<1>8. ASSUME NEW g \in Starts, ReceiveNothing(g) PROVE IInv'
  BY <1>0, <1>8 DEF ReceiveNothing
<1>9. ASSUME NEW g \in Starts, NEW S \in SUBSET Messages, Receive(g, S) PROVE IInv'
  <2>1. \A c \in Copies : c = <<c[1], c[2]>> /\ c[1] \in Messages /\ c[2] \in 1..MaxDeliveries
    BY DEF Copies
  <2>2. \A m \in S : Fresh(m) \in Copies /\ Fresh(m)[1] = m /\ at[Fresh(m)] = "unused"
    BY <1>9 DEF Receive, Fresh, Copies
  <2>3. TypeOK'
    <3>1. \A m \in S : deliveries[m] + 1 \in 0..MaxDeliveries
      <4>1. \A m \in S : mail[m] = "queued"
        BY <1>9 DEF Receive
      <4> QED
        BY <4>1
    <3>2. deliveries' \in [Messages -> 0..MaxDeliveries]
      BY <1>9, <3>1 DEF Receive
    <3>3. owner' \in [Messages -> Copies \cup {NoCopy}]
      BY <1>9, <2>2 DEF Receive
    <3>4. /\ at' \in [Copies -> {"unused", "batch", "buffer", "limiter", "handling", "gone"}]
          /\ link' \in [Copies -> 0..MaxStarts] /\ task' \in [Copies -> 0..MaxStarts]
      BY <1>9 DEF Receive
    <3>5. /\ fetch' \in [Starts -> {"new", "top", "readlock", "receiving", "putting", "done"}]
          /\ readLock' \in 0..Stopper
          /\ mail' \in [Messages -> {"queued", "locked", "deleted", "completed", "dead"}]
      BY <1>9 DEF Receive
    <3>6. UNCHANGED <<sub, running, starts, receiver, serving, faults, lapsed, returned>>
      BY <1>9 DEF Receive
    <3> QED
      BY <3>2, <3>3, <3>4, <3>5, <3>6
  <2>4. ConfInv' /\ LockInv' /\ TasksInv' /\ LinkInv'
    BY <1>9 DEF Receive
  <2>5. CopiesInv'
    <3>1. \A m \in Messages :
            /\ m \in S => mail'[m] # "queued" /\ deliveries'[m] = deliveries[m] + 1
            /\ m \notin S => mail'[m] = mail[m] /\ deliveries'[m] = deliveries[m]
      BY <1>9 DEF Receive
    <3>2. ASSUME NEW c \in Copies, at'[c] # "unused" PROVE c[2] <= deliveries'[c[1]]
      <4>1. CASE at[c] # "unused"
        <5>1. c[1] \in Messages /\ c[2] \in Nat
          BY <2>1
        <5>2. c[2] <= deliveries[c[1]] /\ deliveries[c[1]] \in Nat
          BY <4>1, <5>1
        <5>3. deliveries'[c[1]] \in {deliveries[c[1]], deliveries[c[1]] + 1}
          BY <3>1, <5>1
        <5> QED
          BY <5>1, <5>2, <5>3
      <4>2. CASE \E m \in S : c = Fresh(m)
        BY <3>1, <4>2 DEF Fresh
      <4>3. at' = [d \in Copies |-> IF d \in {Fresh(m) : m \in S} THEN "batch" ELSE at[d]]
        BY <1>9 DEF Receive
      <4> QED
        BY <3>2, <4>1, <4>2, <4>3
    <3> QED
      BY <3>1, <3>2
  <2>6. RenewInv'
    BY <1>9, <2>1, <2>2 DEF Receive, Fresh
  <2> QED
    BY <1>0, <2>3, <2>4, <2>5, <2>6
<1>10. ASSUME NEW g \in Starts, NEW c \in Copies, PutMsg(g, c) PROVE IInv'
  BY <1>0, <1>10 DEF PutMsg
<1>11. ASSUME NEW c \in Copies, Serve(c) PROVE IInv'
  <2>1. TypeOK' /\ ConfInv' /\ LockInv' /\ LinkInv'
    BY <1>11 DEF Serve
  <2>2. TasksInv'
    BY <1>11 DEF Serve
  <2>3. CopiesInv' /\ RenewInv'
    BY <1>11 DEF Serve
  <2> QED
    BY <1>0, <2>1, <2>2, <2>3
<1>12. ASSUME NEW c \in Copies, Consume(c) PROVE IInv'
  BY <1>0, <1>12 DEF Consume
<1>13. ASSUME NEW c \in Copies, HandlerEnds(c) PROVE IInv'
  <2>1. c[1] \in Messages
    BY DEF Copies
  <2>2. /\ at[c] = "handling" /\ at' = [at EXCEPT ![c] = "gone"]
        /\ returned' \subseteq Messages /\ faults' \in Nat
        /\ UNCHANGED <<conf, budget, lapsed, stopVars, readLock, fetch, task, deliveries>>
    BY <1>13, <2>1 DEF HandlerEnds
  <2>3. \/ UNCHANGED <<mail, owner, link>>
        \/ /\ owner[c[1]] = c
           /\ \E state \in {"completed", "dead", Requeued(c[1])} :
                mail' = [mail EXCEPT ![c[1]] = state]
           /\ owner' = [owner EXCEPT ![c[1]] = NoCopy]
           /\ link' = [link EXCEPT ![c] = 0]
    BY <1>13 DEF HandlerEnds, Settled, CanSettle
  <2>4. TypeOK'
    <3>1. Requeued(c[1]) \in {"queued", "dead"}
      BY DEF Requeued
    <3>2. CASE UNCHANGED <<mail, owner, link>>
      BY <2>2, <3>2
    <3>3. CASE ~UNCHANGED <<mail, owner, link>>
      <4>1. PICK state \in {"completed", "dead", Requeued(c[1])} :
              mail' = [mail EXCEPT ![c[1]] = state]
        BY <2>3, <3>3
      <4>2. /\ owner' = [owner EXCEPT ![c[1]] = NoCopy]
            /\ link' = [link EXCEPT ![c] = 0]
        BY <2>3, <3>3
      <4> QED
        BY <2>1, <2>2, <3>1, <4>1, <4>2
    <3> QED
      BY <3>2, <3>3
  <2>5. ConfInv' /\ LockInv' /\ TasksInv' /\ LinkInv'
    BY <2>2, <2>3
  <2>6. CopiesInv'
    BY <2>1, <2>2, <2>3 DEF Requeued
  <2>7. RenewInv'
    <3> SUFFICES ASSUME conf.renew, NEW d \in Copies,
                        at'[d] \notin {"unused", "gone"}, link'[d] # 0,
                        d \notin lapsed'
                 PROVE  mail'[d[1]] = "locked" /\ owner'[d[1]] = d
      BY <2>2
    <3>1. d # c /\ at[d] \notin {"unused", "gone"}
      BY <2>2
    <3>2. link[d] # 0
      BY <2>3, <3>1
    <3>3. mail[d[1]] = "locked" /\ owner[d[1]] = d
      BY <2>2, <3>1, <3>2
    <3>4. CASE UNCHANGED <<mail, owner, link>>
      BY <3>3, <3>4
    <3>5. CASE ~UNCHANGED <<mail, owner, link>>
      <4>1. owner[c[1]] = c
        BY <2>3, <3>5
      <4>2. d[1] \in Messages /\ d[1] # c[1]
        BY <3>1, <3>3, <4>1 DEF Copies
      <4>3. mail'[d[1]] = mail[d[1]] /\ owner'[d[1]] = owner[d[1]]
        BY <2>3, <3>5, <4>2
      <4> QED
        BY <3>3, <4>3
    <3> QED
      BY <3>4, <3>5
  <2> QED
    BY <1>0, <2>4, <2>5, <2>6, <2>7
<1>14. CASE DrainEnds
  BY <1>0, <1>14 DEF DrainEnds, Working, In
<1>15. ASSUME NEW m \in Messages, LockExpires(m) PROVE IInv'
  BY <1>0, <1>15 DEF LockExpires, Renewed, Requeued
<1>16. ASSUME NEW m \in Messages, RenewalEnds(m) PROVE IInv'
  <2>1. owner[m] \in Copies
    BY <1>16 DEF RenewalEnds, OwnerInv
  <2>2. TypeOK'
    BY <1>16, <2>1 DEF RenewalEnds, Requeued
  <2>3. ConfInv' /\ LockInv' /\ TasksInv' /\ LinkInv'
    BY <1>16 DEF RenewalEnds
  <2>4. CopiesInv' /\ RenewInv'
    BY <1>16, <2>1 DEF RenewalEnds, Renewed, Requeued
  <2> QED
    BY <1>0, <2>2, <2>3, <2>4
<1>17. CASE UNCHANGED vars
  BY <1>0, <1>17 DEF vars
<1> QED
  BY <1>1, <1>2, <1>3, <1>4, <1>5, <1>6, <1>7, <1>8, <1>9, <1>10, <1>11, <1>12, <1>13,
     <1>14, <1>15, <1>16, <1>17 DEF Next, Consumes, Works, Stop

LEMMA Invariant == Spec => []IInv
<1>1. Init => IInv
  <2> SUFFICES ASSUME Init PROVE IInv
    OBVIOUS
  <2>1. PICK s \in Scenarios : /\ Created(s) # SetupError
                               /\ conf = Created(s) /\ faults = s.faults /\ budget = s.starts
    BY DEF Init
  <2>2. ConfInv
    BY <2>1, CreatedConf, BoundsAssumption DEF Init, ConfInv
  <2>3. TypeOK
    <3>1. running \in BOOLEAN
      BY DEF Init
    <3> QED
      BY <2>1, <3>1, BoundsAssumption DEF Init, TypeOK, Starts, Stopper
  <2>4. LockInv /\ TasksInv /\ LinkInv /\ CopiesInv /\ OwnerInv /\ RenewInv
    BY BoundsAssumption
       DEF Init, LockInv, TasksInv, LinkInv, CopiesInv, OwnerInv, RenewInv, Starts, Stopper
  <2> QED
    BY <2>2, <2>3, <2>4 DEF IInv
<1> QED
  BY <1>1, IInvStep, PTL DEF Spec

-----------------------------------------------------------------------------
(* Results *)

\* Every variable keeps its type.
THEOREM TypeCorrect == Spec => []TypeOK
BY Invariant, PTL DEF IInv

\* With renewal a message that waits for a permit or is handled is not fetched again
\* over the same link before max_lock_renewal_duration is over for it, counted from
\* its fetch, whatever else waits, times out or fails to be settled.
THEOREM DuplicateSafety == Spec => []NoDuplicateOnALink
<1>1. ASSUME IInv PROVE NoDuplicateOnALink
  <2> SUFFICES ASSUME conf.renew,
                      NEW c \in In("buffer") \cup In("limiter") \cup Working,
                      NEW d \in In("buffer") \cup In("limiter") \cup Working,
                      c[1] = d[1], link[c] = link[d], link[c] # 0, c[2] < d[2],
                      c \notin lapsed
               PROVE  FALSE
    BY DEF NoDuplicateOnALink
  <2>1. /\ c \in Copies /\ at[c] \notin {"unused", "gone"}
        /\ d \in Copies /\ at[d] \notin {"unused", "gone"}
    BY DEF Working, In
  <2>2. mail[c[1]] = "locked" /\ owner[c[1]] = c
    BY <1>1, <2>1 DEF IInv, RenewInv
  <2>3. c[1] \in Messages /\ c[2] \in Nat /\ d[2] \in Nat
    BY <2>1 DEF Copies
  <2>4. c[2] = deliveries[c[1]]
    BY <1>1, <2>2, <2>3 DEF IInv, OwnerInv
  <2>5. d[2] <= deliveries[c[1]]
    BY <1>1, <2>1 DEF IInv, CopiesInv
  <2> QED
    BY <2>3, <2>4, <2>5
<1> QED
  BY <1>1, Invariant, PTL

\* A stop() that got to cancel its tasks leaves nothing that waits for a permit or runs.
THEOREM StopSafety == Spec => []StopEndsTheWork
<1>1. IInv => StopEndsTheWork
  BY DEF IInv, TasksInv, StopEndsTheWork, Working, In
<1> QED
  BY <1>1, Invariant, PTL

\* The consume tasks of several starts never receive at the same time, and none does
\* while stop() waits for handlers under the lock.
THEOREM FetchSafety ==
  Spec => [](\A g \in Starts : fetch[g] = "receiving" =>
               sub # "drain" /\ \A h \in Starts : fetch[h] = "receiving" => g = h)
<1>1. IInv => \A g \in Starts : fetch[g] = "receiving" =>
                sub # "drain" /\ \A h \in Starts : fetch[h] = "receiving" => g = h
  BY BoundsAssumption DEF IInv, LockInv, Starts, Stopper
<1> QED
  BY <1>1, Invariant, PTL
=============================================================================
