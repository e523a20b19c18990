--------------------------- MODULE SubscriberProofs ---------------------------
(***************************************************************************)
(* Theorems about Subscriber for any number of messages, tasks, starts and *)
(* callers, any prefetch count and policy.                                 *)
(***************************************************************************)
EXTENDS Subscriber, FiniteSetTheorems, TLAPS

\* _read_lock has the holder that its users take it to have, and those that wait
\* for it do nothing else.
LockInv ==
  /\ \A t \in Tasks : readLock = t <=> pc[t] = "receiving"
  /\ readLock = Stopper <=> sub = "drain"
  /\ \A t \in Tasks : Waits(t) => pc[t] = "readlock"
  /\ Waits(Stopper) => sub = "readlock"

\* TasksMixin.tasks has every consume task that has not ended; a subscriber without
\* handlers has none.
TrackedInv ==
  /\ IsFiniteSet(tracked)
  /\ \A t \in tracked : pc[t] # "new"
  /\ IF calls THEN \A t \in Tasks : pc[t] \in {"new", "done"} \/ t \in tracked
              ELSE tracked = {} /\ \A t \in Tasks : ~InFlight(t) /\ pc[t] # "backoff"

\* A task has its message in hand, apart from the rest of the fetch.
BatchInv ==
  \A t \in Tasks : pc[t] \in {"handling", "settling", "held"} =>
    current[t] \in Messages /\ current[t] \notin batch[t]

\* A message that is about to be completed was handled.
VerbInv ==
  OnError # "complete" =>
    \A t \in Tasks : pc[t] = "settling" /\ verb[t] = "complete" => current[t] \in returned

Single == \A t, u \in tracked : t = u

Has(t) == InFlight(t) \/ pc[t] = "held"

\* Nobody else has what the renewer keeps for a task; a stop() closes the renewer when
\* no handler runs that it did not give up on.
RenewInv ==
  /\ \A m \in renewing : mail[m] = "locked"
  /\ Renew => \A t \in Tasks : Has(t) /\ t \notin excused =>
       current[t] \in renewing /\ owner[current[t]] = t
  /\ sub = "closing" => \A t \in Tasks : InFlight(t) => t \in excused

IInv ==
  TypeOK /\ LockInv /\ TrackedInv /\ BatchInv /\ VerbInv /\ RenewInv /\ SettledAsHandled

\* A turn changes what the renewer has, and who is excused, for its own task only.
LEMMA TurnRenews ==
  ASSUME NEW t \in Tasks, NEW rest \in SUBSET Messages,
         NextMessage(t, rest) \/ NextPulled(t, rest),
         renewing \subseteq Messages, excused \subseteq Tasks
  PROVE  /\ renewing' \subseteq Messages /\ excused' \subseteq Tasks
         /\ \A m \in renewing' : mail'[m] = "locked"
         /\ \A m \in renewing : mail'[m] = "locked" => m \in renewing'
         /\ \A u \in Tasks \ {t} : u \in excused' <=> u \in excused
<1>1. CASE \E m \in rest : Takes(t, m, rest)
  <2>1. PICK m \in rest : Takes(t, m, rest)
    BY <1>1
  <2>2. /\ renewing' = StillRenewed \cup {n \in {m} : Renewable(t, n)}
        /\ excused' \in {excused \ {t}, excused \cup {t}}
    BY <2>1 DEF Takes, Registers, Excuses
  <2>3. Renewable(t, m) => mail'[m] = "locked"
    BY DEF Renewable
  <2> QED
    BY <2>2, <2>3 DEF StillRenewed
<1>2. CASE TakesNone(t)
  BY <1>2 DEF TakesNone, StillRenewed
<1> QED
  BY <1>1, <1>2 DEF NextMessage, NextPulled

\* A turn keeps the types of what a task has.
LEMMA TurnTypes ==
  ASSUME TypeOK, NEW t \in Tasks, NEW rest \in SUBSET Messages,
         NextMessage(t, rest) \/ NextPulled(t, rest)
  PROVE  /\ pc' \in [Tasks -> {"new", "top", "readlock", "receiving", "handling", "held",
                               "settling", "backoff", "done"}]
         /\ attached' \in [Tasks -> 0..starts]
         /\ batch' \in [Tasks -> SUBSET Messages]
         /\ current' \in [Tasks -> Messages \cup {NoMessage}]
<1>1. pc' \in [Tasks -> {"new", "top", "readlock", "receiving", "handling", "held",
                         "settling", "backoff", "done"}]
  BY DEF TypeOK, NextMessage, NextPulled
<1>2. (\E m \in rest : Takes(t, m, rest)) \/ TakesNone(t)
  BY DEF NextMessage, NextPulled
<1>3. attached' \in [Tasks -> 0..starts]
  BY <1>2 DEF TypeOK, Takes, TakesNone
<1>4. \/ \E m \in rest : /\ current' = [current EXCEPT ![t] = m]
                         /\ batch' = [batch EXCEPT ![t] = rest \ {m}]
      \/ current' = [current EXCEPT ![t] = NoMessage] /\ batch' = [batch EXCEPT ![t] = {}]
  BY <1>2 DEF Takes, TakesNone
<1>5. /\ batch' \in [Tasks -> SUBSET Messages]
      /\ current' \in [Tasks -> Messages \cup {NoMessage}]
  BY <1>4 DEF TypeOK
<1> QED
  BY <1>1, <1>3, <1>5

\* A task that takes a message has it for itself, or is excused.
LEMMA TakenIsKept ==
  ASSUME NEW t \in Tasks, NEW m, NEW rest, Takes(t, m, rest),
         current \in [Tasks -> Messages \cup {NoMessage}]
  PROVE  /\ t \notin excused' => current'[t] \in renewing' /\ owner'[current'[t]] = t
         /\ sub = "closing" => t \in excused'
<1>1. current'[t] = m
  BY DEF Takes
<1>2. t \notin excused' => Renewable(t, m) /\ sub # "closing"
  BY DEF Takes, Registers, Excuses
<1>3. Renewable(t, m) => m \in renewing' /\ owner'[m] = t
  BY DEF Takes, Registers, Renewable
<1> QED
  BY <1>1, <1>2, <1>3

LEMMA IInvStep == IInv /\ [Next]_vars => IInv'
<1> SUFFICES ASSUME IInv, [Next]_vars PROVE IInv'
  OBVIOUS
<1> USE NullAssumption, ConfigAssumption
    DEF IInv, TypeOK, LockInv, TrackedInv, BatchInv, VerbInv, RenewInv, Has,
        SettledAsHandled, InFlight, Waiters, Waits,
        lifeVars, lockVars, taskVars, queueVars, userVars, renewVars
<1>1. CASE StartIdle
  BY <1>1 DEF StartIdle, Opens
<1>2. ASSUME NEW t \in Tasks, Start(t) PROVE IInv'
  BY <1>2, FS_AddElement DEF Start, Opens
<1>3. ASSUME NEW t \in Tasks, LoopTop(t) PROVE IInv'
  <2>1. TypeOK'
    BY <1>3 DEF LoopTop, AsksReadLock, ReadLockFree, JoinsQueue, Fetch, Failed
  <2>2. LockInv'
    BY <1>3 DEF LoopTop, AsksReadLock, ReadLockFree, JoinsQueue, Fetch, Failed
  <2>3. TrackedInv'
    BY <1>3 DEF LoopTop, AsksReadLock, ReadLockFree, JoinsQueue, Fetch, Failed
  <2>4. BatchInv' /\ VerbInv'
    BY <1>3 DEF LoopTop, AsksReadLock, ReadLockFree, JoinsQueue, Fetch, Failed
  <2>5. RenewInv'
    BY <1>3 DEF LoopTop, AsksReadLock, ReadLockFree, JoinsQueue, Fetch, Failed
  <2>6. SettledAsHandled'
    BY <1>3 DEF LoopTop, AsksReadLock, ReadLockFree, JoinsQueue, Fetch, Failed
  <2> QED
    BY <2>1, <2>2, <2>3, <2>4, <2>5, <2>6
<1>4. ASSUME NEW t \in Tasks, GetsReadLock(t) PROVE IInv'
  <2>1. TrackedInv'
    <3>1. pc[t] = "readlock" /\ (calls => t \in tracked)
      BY <1>4 DEF GetsReadLock, GetsLock
    <3>2. \/ pc' = [pc EXCEPT ![t] = "receiving"]
          \/ calls /\ pc' = [pc EXCEPT ![t] = "backoff"]
          \/ ~calls /\ pc' = [pc EXCEPT ![t] = "done"]
      BY <1>4 DEF GetsReadLock, Fetch, Failed
    <3>3. UNCHANGED <<tracked, calls>>
      BY <1>4 DEF GetsReadLock
    <3>4. CASE calls
      BY <3>1, <3>2, <3>3, <3>4
    <3>5. CASE ~calls
      BY <3>1, <3>2, <3>3, <3>5
    <3> QED
      BY <3>4, <3>5
  <2>2. TypeOK' /\ LockInv' /\ BatchInv' /\ VerbInv' /\ RenewInv' /\ SettledAsHandled'
    BY <1>4 DEF GetsReadLock, GetsLock, LeaveQueue, Fetch, Failed
  <2> QED
    BY <2>1, <2>2
<1>5. ASSUME NEW t \in Tasks, NEW S \in SUBSET Messages, Receive(t, S) PROVE IInv'
  <2>1. TypeOK'
    <3>1. /\ pc' \in [Tasks -> {"new", "top", "readlock", "receiving", "handling", "held",
                                "settling", "backoff", "done"}]
          /\ attached' \in [Tasks -> 0..starts]
      BY <1>5, TurnTypes DEF Receive, NextTurn
    <3>2. /\ batch' \in [Tasks -> SUBSET Messages]
          /\ current' \in [Tasks -> Messages \cup {NoMessage}]
      BY <1>5, TurnTypes DEF Receive, NextTurn
    <3>3. /\ mail' \in [Messages -> {"queued", "locked", "deleted", "completed", "dead"}]
          /\ owner' \in [Messages -> Tasks \cup {NoTask}]
          /\ readLock' = NoTask
      BY <1>5 DEF Receive
    <3>4. UNCHANGED <<lifeVars, waiting, link, verb, userVars, slow, faults>>
      BY <1>5 DEF Receive
    <3>5. renewing' \subseteq Messages /\ excused' \subseteq Tasks
      BY <1>5, TurnRenews DEF Receive, NextTurn
    <3>6. /\ running' \in BOOLEAN /\ slow' \in BOOLEAN /\ calls' \in BOOLEAN
          /\ waiting' \in [Waiters -> SUBSET Waiters] /\ UNCHANGED <<starts, faults>>
      BY <3>4
    <3>7. /\ readLock' \in Tasks \cup {NoTask, Stopper} /\ link' \in [Tasks -> 0..starts']
          /\ receiver' \in 0..starts' /\ links' \subseteq 1..starts'
      BY <3>3, <3>4
    <3> QED
      BY <3>1, <3>2, <3>3, <3>4, <3>5, <3>6, <3>7
  <2>2. LockInv'
    BY <1>5 DEF Receive, NextTurn, NextMessage, NextPulled, Takes, TakesNone
  <2>3. TrackedInv'
    BY <1>5 DEF Receive, NextTurn, NextMessage, NextPulled, Takes, TakesNone
  <2>4. BatchInv' /\ VerbInv'
    BY <1>5 DEF Receive, NextTurn, NextMessage, NextPulled, Takes, TakesNone
  <2>5. RenewInv'
    <3>1. NextMessage(t, S) \/ NextPulled(t, S)
      BY <1>5 DEF Receive, NextTurn
    <3>2. /\ \A m \in renewing' : mail'[m] = "locked"
          /\ \A m \in renewing : mail'[m] = "locked" => m \in renewing'
          /\ \A u \in Tasks \ {t} : u \in excused' <=> u \in excused
      BY <3>1, TurnRenews
    <3>3. \A m \in Messages : \/ mail'[m] = mail[m] /\ owner'[m] = owner[m]
                              \/ mail[m] = "queued"
      BY <1>5 DEF Receive
    <3>4. UNCHANGED sub /\ pc[t] = "receiving"
      BY <1>5 DEF Receive
    <3>5. \A u \in Tasks \ {t} : pc'[u] = pc[u] /\ current'[u] = current[u]
      BY <3>1 DEF NextMessage, NextPulled, Takes, TakesNone
    <3>6. ASSUME Renew, NEW u \in Tasks \ {t}, Has(u)', u \notin excused'
          PROVE  current'[u] \in renewing' /\ owner'[current'[u]] = u
      <4>1. Has(u) /\ u \notin excused
        BY <3>2, <3>5, <3>6
      <4>2. current[u] \in renewing /\ owner[current[u]] = u
        BY <3>6, <4>1
      <4>3. current[u] \in Messages /\ mail[current[u]] = "locked"
        BY <4>2
      <4> QED
        BY <3>2, <3>3, <3>5, <4>2, <4>3
    <3>7. ASSUME Has(t)'
          PROVE  /\ t \notin excused' => current'[t] \in renewing' /\ owner'[current'[t]] = t
                 /\ sub = "closing" => t \in excused'
      <4>1. PICK m \in S : Takes(t, m, S)
        BY <3>1, <3>7 DEF NextMessage, NextPulled
      <4> QED
        BY <4>1, TakenIsKept
    <3>8. sub' = "closing" => \A u \in Tasks : InFlight(u)' => u \in excused'
      BY <3>2, <3>4, <3>5, <3>7
    <3> QED
      BY <3>2, <3>6, <3>7, <3>8
  <2>6. SettledAsHandled'
    BY <1>5 DEF Receive, NextTurn, NextMessage, NextPulled, Takes, TakesNone
  <2> QED
    BY <2>1, <2>2, <2>3, <2>4, <2>5, <2>6
<1>6. ASSUME NEW t \in Tasks, ReceivesNothing(t) PROVE IInv'
  BY <1>6 DEF ReceivesNothing
<1>7. ASSUME NEW t \in Tasks, ReceiveFails(t) PROVE IInv'
  BY <1>7 DEF ReceiveFails, Failed
<1>8. ASSUME NEW t \in Tasks, BackoffEnds(t) PROVE IInv'
  BY <1>8 DEF BackoffEnds
<1>9. ASSUME NEW t \in Tasks, HandlerEnds(t) PROVE IInv'
  BY <1>9 DEF HandlerEnds
<1>10. ASSUME NEW t \in Tasks, Settle(t) PROVE IInv'
  <2>1. TypeOK'
    <3>0. NextMessage(t, batch[t]) /\ batch[t] \in SUBSET Messages
      BY <1>10 DEF Settle
    <3>1. /\ pc' \in [Tasks -> {"new", "top", "readlock", "receiving", "handling", "held",
                                "settling", "backoff", "done"}]
          /\ attached' \in [Tasks -> 0..starts]
          /\ batch' \in [Tasks -> SUBSET Messages]
          /\ current' \in [Tasks -> Messages \cup {NoMessage}]
      BY <3>0, TurnTypes
    <3>2. renewing' \subseteq Messages /\ excused' \subseteq Tasks
      BY <3>0, TurnRenews
    <3>3. /\ mail' \in [Messages -> {"queued", "locked", "deleted", "completed", "dead"}]
          /\ owner' \in [Messages -> Tasks \cup {NoTask}]
      BY <1>10 DEF Settle, Settles, SettleFails, CanSettle, Settled, HoldsLock
    <3>4. UNCHANGED <<lifeVars, lockVars, link, userVars, slow>> /\ faults' \in 0..MaxFaults
      BY <1>10 DEF Settle, SettleFails
    <3>5. verb' \in [Tasks -> {"none", "complete", "abandon", "dead-letter"}]
      BY <1>10 DEF Settle
    <3>6. running' \in BOOLEAN /\ slow' \in BOOLEAN /\ calls' \in BOOLEAN
      BY <3>4
    <3> QED
      BY <3>1, <3>2, <3>3, <3>4, <3>5, <3>6
  <2>2. LockInv'
    BY <1>10 DEF Settle, Settles, SettleFails, CanSettle, Settled, HoldsLock, NextMessage,
           Takes, TakesNone
  <2>3. TrackedInv'
    BY <1>10 DEF Settle, Settles, SettleFails, CanSettle, Settled, HoldsLock, NextMessage,
           Takes, TakesNone
  <2>4. BatchInv' /\ VerbInv'
    BY <1>10 DEF Settle, Settles, SettleFails, CanSettle, Settled, HoldsLock, NextMessage,
           Takes, TakesNone
  <2>5. RenewInv'
    BY <1>10 DEF Settle, Settles, SettleFails, CanSettle, Settled, HoldsLock, NextMessage,
           Takes, TakesNone,
           Registers, Excuses, Renewable, StillRenewed
  <2>6. SettledAsHandled'
    BY <1>10 DEF Settle, Settles, SettleFails, CanSettle, Settled, HoldsLock, NextMessage,
           Takes, TakesNone
  <2> QED
    BY <2>1, <2>2, <2>3, <2>4, <2>5, <2>6
<1>11. ASSUME NEW t \in Tasks, PullBegins(t) PROVE IInv'
  <2>1. TypeOK'
    BY <1>11 DEF PullBegins, AsksReadLock, ReadLockFree, JoinsQueue, Fetch, Failed
  <2>2. LockInv'
    BY <1>11 DEF PullBegins, AsksReadLock, ReadLockFree, JoinsQueue, Fetch, Failed
  <2>3. TrackedInv'
    BY <1>11 DEF PullBegins, AsksReadLock, ReadLockFree, JoinsQueue, Fetch, Failed
  <2>4. BatchInv' /\ VerbInv'
    BY <1>11 DEF PullBegins, AsksReadLock, ReadLockFree, JoinsQueue, Fetch, Failed
  <2>5. RenewInv'
    BY <1>11 DEF PullBegins, AsksReadLock, ReadLockFree, JoinsQueue, Fetch, Failed
  <2>6. SettledAsHandled'
    BY <1>11 DEF PullBegins, AsksReadLock, ReadLockFree, JoinsQueue, Fetch, Failed
  <2> QED
    BY <2>1, <2>2, <2>3, <2>4, <2>5, <2>6
<1>12. ASSUME NEW t \in Tasks, CallerSettles(t) PROVE IInv'
  <2>1. TypeOK'
    <3>0. NextPulled(t, batch[t]) /\ batch[t] \in SUBSET Messages
      BY <1>12 DEF CallerSettles
    <3>1. /\ pc' \in [Tasks -> {"new", "top", "readlock", "receiving", "handling", "held",
                                "settling", "backoff", "done"}]
          /\ attached' \in [Tasks -> 0..starts]
          /\ batch' \in [Tasks -> SUBSET Messages]
          /\ current' \in [Tasks -> Messages \cup {NoMessage}]
      BY <3>0, TurnTypes
    <3>2. renewing' \subseteq Messages /\ excused' \subseteq Tasks
      BY <3>0, TurnRenews
    <3>3. /\ mail' \in [Messages -> {"queued", "locked", "deleted", "completed", "dead"}]
          /\ owner' \in [Messages -> Tasks \cup {NoTask}]
      BY <1>12 DEF CallerSettles, Settles, CanSettle, Settled, HoldsLock
    <3>4. UNCHANGED <<lifeVars, lockVars, link, verb, calls, pull, slow, faults>>
      BY <1>12 DEF CallerSettles
    <3>5. returned' \subseteq Messages
      BY <1>12 DEF CallerSettles, CanSettle, HoldsLock
    <3>6. running' \in BOOLEAN /\ slow' \in BOOLEAN /\ calls' \in BOOLEAN
      BY <3>4
    <3> QED
      BY <3>1, <3>2, <3>3, <3>4, <3>5, <3>6
  <2>2. LockInv'
    BY <1>12 DEF CallerSettles, Settles, CanSettle, Settled, HoldsLock, NextPulled, Takes,
           TakesNone
  <2>3. TrackedInv'
    BY <1>12 DEF CallerSettles, Settles, CanSettle, Settled, HoldsLock, NextPulled, Takes,
           TakesNone
  <2>4. BatchInv' /\ VerbInv'
    BY <1>12 DEF CallerSettles, Settles, CanSettle, Settled, HoldsLock, NextPulled, Takes,
           TakesNone
  <2>5. RenewInv'
    BY <1>12 DEF CallerSettles, Settles, CanSettle, Settled, HoldsLock, NextPulled, Takes,
           TakesNone,
           Registers, Excuses, Renewable, StillRenewed
  <2>6. SettledAsHandled'
    BY <1>12 DEF CallerSettles, Settles, CanSettle, Settled, HoldsLock, NextPulled, Takes,
           TakesNone
  <2> QED
    BY <2>1, <2>2, <2>3, <2>4, <2>5, <2>6
<1>13. ASSUME NEW t \in Tasks, PullAbandoned(t) PROVE IInv'
  BY <1>13 DEF PullAbandoned, LeaveQueue
<1>14. CASE StopBegins
  <2>1. TypeOK'
    <3>1. running' \in BOOLEAN
      BY <1>14 DEF StopBegins, Drain
    <3>2. waiting' \in [Waiters -> SUBSET Waiters]
      BY <1>14 DEF StopBegins, JoinsQueue
    <3> QED
      BY <1>14, <3>1, <3>2 DEF StopBegins, Drain
  <2>2. LockInv' /\ TrackedInv' /\ BatchInv' /\ VerbInv' /\ RenewInv' /\ SettledAsHandled'
    BY <1>14 DEF StopBegins, ReadLockFree, Drain, JoinsQueue
  <2> QED
    BY <2>1, <2>2
<1>15. CASE StopGetsReadLock
  <2>1. TypeOK'
    BY <1>15 DEF StopGetsReadLock, GetsLock, LeaveQueue, Drain
  <2>2. LockInv'
    BY <1>15 DEF StopGetsReadLock, GetsLock, LeaveQueue, Drain
  <2>3. TrackedInv'
    BY <1>15 DEF StopGetsReadLock, GetsLock, LeaveQueue, Drain
  <2>4. BatchInv' /\ VerbInv'
    BY <1>15 DEF StopGetsReadLock, GetsLock, LeaveQueue, Drain
  <2>5. RenewInv'
    BY <1>15 DEF StopGetsReadLock, GetsLock, LeaveQueue, Drain
  <2>6. SettledAsHandled'
    BY <1>15 DEF StopGetsReadLock, GetsLock, LeaveQueue, Drain
  <2> QED
    BY <2>1, <2>2, <2>3, <2>4, <2>5, <2>6
<1>16. CASE DrainEnds
  <2>1. TypeOK'
    BY <1>16, FS_EmptySet DEF DrainEnds, LeaveQueue
  <2>2. LockInv'
    BY <1>16, FS_EmptySet DEF DrainEnds, LeaveQueue
  <2>3. TrackedInv'
    BY <1>16, FS_EmptySet DEF DrainEnds, LeaveQueue
  <2>4. BatchInv' /\ VerbInv'
    BY <1>16, FS_EmptySet DEF DrainEnds, LeaveQueue
  <2>5. RenewInv'
    BY <1>16, FS_EmptySet DEF DrainEnds, LeaveQueue
  <2>6. SettledAsHandled'
    BY <1>16, FS_EmptySet DEF DrainEnds, LeaveQueue
  <2> QED
    BY <2>1, <2>2, <2>3, <2>4, <2>5, <2>6
<1>17. CASE StopTimesOut
  <2>1. TypeOK'
    BY <1>17 DEF StopTimesOut, LeaveQueue
  <2>2. LockInv'
    BY <1>17 DEF StopTimesOut, LeaveQueue
  <2>3. TrackedInv'
    BY <1>17 DEF StopTimesOut, LeaveQueue
  <2>4. BatchInv' /\ VerbInv'
    BY <1>17 DEF StopTimesOut, LeaveQueue
  <2>5. RenewInv'
    BY <1>17 DEF StopTimesOut, LeaveQueue
  <2>6. SettledAsHandled'
    BY <1>17 DEF StopTimesOut, LeaveQueue
  <2> QED
    BY <2>1, <2>2, <2>3, <2>4, <2>5, <2>6
<1>18. CASE StopFinishes
  BY <1>18 DEF StopFinishes
<1>19. ASSUME NEW m \in Messages, LockExpires(m) PROVE IInv'
  BY <1>19 DEF LockExpires
<1>20. ASSUME NEW m \in Messages, RenewalEnds(m) PROVE IInv'
  BY <1>20 DEF RenewalEnds
<1>21. ASSUME NEW m \in Messages, TakenElsewhere(m) PROVE IInv'
  BY <1>21 DEF TakenElsewhere
<1>22. CASE UNCHANGED vars
  BY <1>22 DEF vars
<1> QED
  BY <1>1, <1>2, <1>3, <1>4, <1>5, <1>6, <1>7, <1>8, <1>9, <1>10, <1>11,
     <1>12, <1>13, <1>14, <1>15, <1>16, <1>17, <1>18, <1>19, <1>20, <1>21, <1>22
     DEF Next, Loop, Runs, Pull, Stop

LEMMA Invariant == Spec => []IInv
<1>1. Init => IInv
  <2> SUFFICES ASSUME Init PROVE IInv
    OBVIOUS
  <2>1. running \in BOOLEAN /\ slow \in BOOLEAN /\ calls \in BOOLEAN
    BY ConfigAssumption DEF Init
  <2>2. TypeOK
    <3>1. faults \in 0..MaxFaults
      BY ConfigAssumption DEF Init
    <3> QED
      BY <2>1, <3>1 DEF Init, TypeOK
  <2>3. LockInv /\ BatchInv /\ VerbInv /\ RenewInv /\ SettledAsHandled
    BY NullAssumption
       DEF Init, LockInv, BatchInv, VerbInv, RenewInv, Has, SettledAsHandled, InFlight,
           Waiters, Waits
  <2>4. TrackedInv
    BY FS_EmptySet DEF Init, TrackedInv, InFlight
  <2> QED
    BY <2>2, <2>3, <2>4 DEF IInv
<1> QED
  BY <1>1, IInvStep, PTL DEF Spec

LEMMA AtMostOne == ASSUME IsFiniteSet(tracked), Cardinality(tracked) <= 1 PROVE Single
<1> SUFFICES ASSUME NEW t \in tracked, NEW u \in tracked, t # u PROVE FALSE
  BY DEF Single
<1>1. Cardinality(tracked) \in Nat
  BY FS_CardinalityType
<1>2. IsFiniteSet(tracked \ {t}) /\ Cardinality(tracked \ {t}) = Cardinality(tracked) - 1
  BY FS_RemoveElement
<1>3. tracked \ {t} = {}
  BY <1>1, <1>2, FS_EmptySet
<1> QED
  BY <1>3

-----------------------------------------------------------------------------
(* Results *)

\* Every variable keeps its type, for any number of messages, tasks and starts.
THEOREM TypeCorrect == Spec => []TypeOK
BY Invariant, PTL DEF IInv

\* One handler runs at a time, whatever the prefetch count, the policy, the restarts,
\* the expired locks and the errors of the link, unless a stop() that timed out left
\* a second task in TasksMixin.tasks.
THEOREM HandlerSafety == Spec => []OneHandlerAtATime
<1>1. IInv => OneHandlerAtATime
  <2> SUFFICES ASSUME IInv, Cardinality(tracked) <= 1,
                      NEW t \in Tasks, NEW u \in Tasks, InFlight(t), InFlight(u)
               PROVE  t = u
    BY DEF OneHandlerAtATime
  <2>1. t \in tracked /\ u \in tracked
    BY DEF IInv, TrackedInv, InFlight
  <2>2. Single
    BY AtMostOne DEF IInv, TrackedInv
  <2> QED
    BY <2>1, <2>2 DEF Single
<1> QED
  BY <1>1, Invariant, PTL

\* A stop() that got to cancel its tasks leaves no consume task to wake up at the
\* next start(), after any history of stops that timed out.
THEOREM StopSafety == Spec => []StopEndsTheLoop
<1>1. IInv => StopEndsTheLoop
  BY DEF IInv, TrackedInv, StopEndsTheLoop
<1> QED
  BY <1>1, Invariant, PTL

\* With renewal the message inside a handler, or in the hands of a caller, is locked
\* for the task that has it, over any number of fetches, restarts, failed settlements
\* and other consumers, but for the tasks that HandlesItsOwn excuses: for them a fetch
\* may find the message again.
THEOREM OwnMessageSafety == Spec => []HandlesItsOwn
<1>1. IInv => HandlesItsOwn
  BY DEF IInv, RenewInv, Has, HandlesItsOwn
<1> QED
  BY <1>1, Invariant, PTL

\* A message is completed only if a handler returned for it or a caller asked for it.
THEOREM SettlementSafety == Spec => []SettledAsHandled
BY Invariant, PTL DEF IInv

\* Calls of get_one, iterations and the consume loop never receive at the same time,
\* and none of them receives while stop() waits for handlers under the lock.
THEOREM FetchSafety ==
  Spec => [](\A t \in Tasks : pc[t] = "receiving" =>
               sub # "drain" /\ \A u \in Tasks : pc[u] = "receiving" => t = u)
<1>1. IInv => \A t \in Tasks : pc[t] = "receiving" =>
                sub # "drain" /\ \A u \in Tasks : pc[u] = "receiving" => t = u
  BY NullAssumption DEF IInv, LockInv
<1> QED
  BY <1>1, Invariant, PTL

-----------------------------------------------------------------------------
(* When no stop() times out *)

\* A start() then finds no task of an earlier one.
PromptInv ==
  /\ ~slow
  /\ Single
  /\ sub \in {"stopped", "closing"} => tracked = {}

LEMMA PromptStep == ASSUME IInv, PromptInv, [Next]_vars PROVE PromptInv'
<1> USE DEF PromptInv, Single, lifeVars, userVars
<1>1. ASSUME NEW t \in Tasks, Start(t) PROVE PromptInv'
  BY <1>1 DEF Start, Opens
<1>2. CASE StartIdle
  BY <1>2 DEF StartIdle, Opens, IInv, TrackedInv
<1>3. ASSUME NEW t \in Tasks, Loop(t) \/ Pull(t) PROVE PromptInv'
  BY <1>3 DEF Loop, Runs, LoopTop, GetsReadLock, Receive, ReceivesNothing, ReceiveFails,
              BackoffEnds, HandlerEnds, Settle, Pull, PullBegins, CallerSettles, PullAbandoned
<1>4. CASE Stop
  BY <1>4 DEF Stop, StopBegins, StopGetsReadLock, Drain, DrainEnds, StopTimesOut, StopFinishes
<1>5. ASSUME NEW m \in Messages, LockExpires(m) \/ RenewalEnds(m) \/ TakenElsewhere(m)
      PROVE  PromptInv'
  BY <1>5 DEF LockExpires, RenewalEnds, TakenElsewhere
<1>6. CASE UNCHANGED vars
  BY <1>6 DEF vars
<1> QED
  BY <1>1, <1>2, <1>3, <1>4, <1>5, <1>6 DEF Next

\* What max_workers promises of one worker, over any number of restarts: only a stop()
\* that reaches graceful_timeout can put a second handler on a receiver.
THEOREM PromptStopsKeepOneHandler == ASSUME ~SlowStop PROVE Spec => []OneHandlerPerReceiver
<1>1. Init => PromptInv
  BY DEF Init, PromptInv, Single
<1>2. IInv /\ PromptInv /\ [Next]_vars => PromptInv'
  BY PromptStep
<1>3. IInv /\ PromptInv => OneHandlerPerReceiver
  BY DEF IInv, PromptInv, TrackedInv, Single, OneHandlerPerReceiver, InFlight
<1> QED
  BY <1>1, <1>2, <1>3, Invariant, PTL DEF Spec
=============================================================================
