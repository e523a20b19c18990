-------------------------- MODULE SenderCacheProofs --------------------------
(***************************************************************************)
(* Theorems about SenderCache for all publishers, entities, senders and    *)
(* numbers of connections.                                                 *)
(***************************************************************************)
EXTENDS SenderCache, TLAPS

LEMMA EnterTypes ==
  ASSUME TypeOK, NEW p \in Publishers, NEW s \in Senders, Enter(p, s)
  PROVE  /\ holder' \in [Senders -> Publishers \cup {NoPublisher}]
         /\ uses' \in [Publishers -> Senders \cup {NoSender}]
         /\ pc' \in [Publishers -> {"idle", "want", "queued", "sending", "done", "failed"}]
BY DEF TypeOK, Enter

\* A publish that gets past the table leaves the table as it was, or adds one
\* new open sender under an entity that had none, or fails.
LEMMA TableSteps ==
  ASSUME TypeOK, NEW p \in Publishers, UseCached(p) \/ Create(p) \/ NoClient(p)
  PROVE  \/ UNCHANGED senderVars /\ \E s \in Senders : Enter(p, s)
         \/ UNCHANGED <<senderVars, holder, uses>> /\ pc' = [pc EXCEPT ![p] = "failed"]
         \/ \E s \in Senders :
              /\ Enter(p, s)
              /\ open' = open \cup {s}
              /\ cache[Target[p]] = NoSender
              /\ cache' = [cache EXCEPT ![Target[p]] = s]
              /\ origin' = [origin EXCEPT ![s] = client]
<1> USE TargetAssumption, NullAssumption DEF TypeOK
<1>1. CASE UseCached(p)
  BY <1>1 DEF UseCached
<1>2. CASE Create(p)
  BY <1>2 DEF Create, NewSender
<1>3. CASE NoClient(p)
  BY <1>3 DEF NoClient
<1> QED
  BY <1>1, <1>2, <1>3

LEMMA TypeStep == TypeOK /\ [Next]_vars => TypeOK'
<1> SUFFICES ASSUME TypeOK, [Next]_vars PROVE TypeOK'
  OBVIOUS
<1> USE TargetAssumption, NullAssumption
<1>1. ASSUME NEW p \in Publishers, Publish(p) \/ GetsSendersLock(p) PROVE TypeOK'
  <2>1. UNCHANGED connVars /\ (UseCached(p) \/ Create(p) \/ NoClient(p))
    BY <1>1 DEF Publish, GetsSendersLock
  <2>2. Target[p] \in Entities
    OBVIOUS
  <2>3. CASE UNCHANGED senderVars /\ \E s \in Senders : Enter(p, s)
    BY <2>1, <2>3, EnterTypes DEF TypeOK, senderVars, connVars
  <2>4. CASE UNCHANGED <<senderVars, holder, uses>> /\ pc' = [pc EXCEPT ![p] = "failed"]
    BY <2>1, <2>4 DEF TypeOK, senderVars, connVars
  <2>5. ASSUME NEW s \in Senders, Enter(p, s), open' = open \cup {s},
               cache' = [cache EXCEPT ![Target[p]] = s],
               origin' = [origin EXCEPT ![s] = client]
        PROVE  TypeOK'
    BY <2>1, <2>2, <2>5, EnterTypes DEF TypeOK, connVars
  <2> QED
    BY <2>1, <2>3, <2>4, <2>5, TableSteps
<1>2. ASSUME NEW p \in Publishers,
             PublishWaits(p) \/ GetsEntryLock(p) \/ SendReturns(p) \/ SendFails(p) \/ Cancelled(p)
      PROVE  TypeOK'
  BY <1>2 DEF TypeOK, PublishWaits, GetsEntryLock, SendReturns, SendFails, Cancelled,
              connVars, senderVars
<1>3. CASE Connect
  BY <1>3 DEF TypeOK, Connect, senderVars, pubVars
<1>4. CASE DisconnectBegins \/ DisconnectEnds
  BY <1>4 DEF TypeOK, DisconnectBegins, DisconnectEnds, Cached, senderVars, pubVars
<1>5. ASSUME NEW s \in Senders, CloseSender(s) PROVE TypeOK'
  BY <1>5 DEF TypeOK, CloseSender, pubVars
<1>6. CASE UNCHANGED vars
  BY <1>6 DEF TypeOK, vars, connVars, senderVars, pubVars
<1> QED
  BY <1>1, <1>2, <1>3, <1>4, <1>5, <1>6 DEF Next, Sending, Connection

\* Every variable keeps its type, for any number of publishes and connections.
THEOREM TypeCorrect == Spec => []TypeOK
<1>1. Init => TypeOK
  BY DEF Init, TypeOK
<1> QED
  BY <1>1, TypeStep, PTL DEF Spec

-----------------------------------------------------------------------------
(* The table of senders *)

\* Outside the iteration of disconnect every cached sender is open; inside it,
\* those not yet reached are.
TableInv ==
  /\ open \subseteq Cached
  /\ open = IF disc = "closing" THEN toClose ELSE Cached

LEMMA TableStep == TypeOK /\ TableInv /\ [Next]_vars => TableInv'
<1> SUFFICES ASSUME TypeOK, TableInv, [Next]_vars PROVE TableInv'
  OBVIOUS
<1> USE TargetAssumption, NullAssumption DEF TableInv
<1>1. ASSUME NEW p \in Publishers, Publish(p) \/ GetsSendersLock(p) PROVE TableInv'
  <2>1. UNCHANGED connVars /\ (UseCached(p) \/ Create(p) \/ NoClient(p))
    BY <1>1 DEF Publish, GetsSendersLock
  <2>2. CASE UNCHANGED senderVars
    BY <2>1, <2>2 DEF senderVars, connVars, Cached
  <2>3. ASSUME ~UNCHANGED senderVars PROVE disc # "closing"
    BY <1>1, <2>3 DEF Publish, GetsSendersLock, SendersLockBusy, UseCached, NoClient
  <2>4. ASSUME NEW s \in Senders, open' = open \cup {s}, cache[Target[p]] = NoSender,
               cache' = [cache EXCEPT ![Target[p]] = s], disc # "closing"
        PROVE  TableInv'
    <3>1. Cached' = Cached \cup {s}
      BY <2>4 DEF Cached, TypeOK
    <3> QED
      BY <2>1, <2>4, <3>1 DEF connVars
  <2> QED
    BY <2>1, <2>2, <2>3, <2>4, TableSteps DEF senderVars
<1>2. ASSUME NEW p \in Publishers,
             PublishWaits(p) \/ GetsEntryLock(p) \/ SendReturns(p) \/ SendFails(p) \/ Cancelled(p)
      PROVE  TableInv'
  BY <1>2 DEF PublishWaits, GetsEntryLock, SendReturns, SendFails, Cancelled,
              connVars, senderVars, Cached
<1>3. CASE Connect \/ DisconnectBegins \/ DisconnectEnds
  BY <1>3 DEF Connect, DisconnectBegins, DisconnectEnds, Cached, senderVars
<1>4. ASSUME NEW s \in Senders, CloseSender(s) PROVE TableInv'
  <2>1. CASE toClose = {s}
    <3>1. Cached' = {}
      BY <1>4, <2>1 DEF CloseSender, Cached
    <3> QED
      BY <1>4, <2>1, <3>1 DEF CloseSender
  <2>2. CASE toClose # {s}
    BY <1>4, <2>2 DEF CloseSender, Cached
  <2> QED
    BY <2>1, <2>2
<1>5. CASE UNCHANGED vars
  BY <1>5 DEF vars, connVars, senderVars, Cached
<1> QED
  BY <1>1, <1>2, <1>3, <1>4, <1>5 DEF Next, Sending, Connection

\* Double-checked locking loses no sender: one that was not closed can be found
\* in the table, and the table does not change under disconnect.
THEOREM TableSafety == Spec => [](OpenSenderIsCached /\ TableStableWhileClosing)
<1>1. Init => TableInv
  BY DEF Init, TableInv, Cached
<1>2. TypeOK /\ TableInv => OpenSenderIsCached /\ TableStableWhileClosing
  BY DEF TypeOK, TableInv, Cached, OpenSenderIsCached, TableStableWhileClosing
<1> QED
  BY <1>1, <1>2, TypeCorrect, TableStep, PTL DEF Spec

-----------------------------------------------------------------------------
(* The lock of an entry *)

\* The lock of an entry and the publish that sends through it agree.
LockInv ==
  /\ \A p \in Publishers : pc[p] = "sending" => uses[p] \in Senders /\ holder[uses[p]] = p
  /\ \A p \in Publishers : pc[p] = "queued" => uses[p] \in Senders
  /\ \A s \in Senders : holder[s] # NoPublisher => pc[holder[s]] = "sending" /\ uses[holder[s]] = s

LEMMA LockStep == TypeOK /\ LockInv /\ [Next]_vars => LockInv'
<1> SUFFICES ASSUME TypeOK, LockInv, [Next]_vars PROVE LockInv'
  OBVIOUS
<1> USE TargetAssumption, NullAssumption DEF TypeOK, LockInv
<1>1. ASSUME NEW p \in Publishers, NEW s \in Senders, pc[p] \in {"idle", "want"}, Enter(p, s)
      PROVE  LockInv'
  BY <1>1 DEF Enter
<1>2. ASSUME NEW p \in Publishers, pc[p] \in {"idle", "want", "queued"}, UNCHANGED <<holder, uses>>,
             pc' = [pc EXCEPT ![p] = "failed"] \/ pc' = [pc EXCEPT ![p] = "want"]
      PROVE  LockInv'
  BY <1>2
<1>3. ASSUME NEW p \in Publishers, Publish(p) \/ GetsSendersLock(p) PROVE LockInv'
  <2>1. pc[p] \in {"idle", "want"} /\ (UseCached(p) \/ Create(p) \/ NoClient(p))
    BY <1>3 DEF Publish, GetsSendersLock
  <2> QED
    BY <2>1, <1>1, <1>2, TableSteps
<1>4. ASSUME NEW p \in Publishers, PublishWaits(p) \/ Cancelled(p) PROVE LockInv'
  BY <1>4, <1>2 DEF PublishWaits, Cancelled
<1>5. ASSUME NEW p \in Publishers, GetsEntryLock(p) PROVE LockInv'
  BY <1>5 DEF GetsEntryLock
<1>6. ASSUME NEW p \in Publishers, SendReturns(p) \/ SendFails(p) PROVE LockInv'
  BY <1>6 DEF SendReturns, SendFails
<1>7. CASE UNCHANGED pubVars
  BY <1>7 DEF pubVars
<1> QED
  BY <1>3, <1>4, <1>5, <1>6, <1>7
     DEF Next, Sending, Connection, Connect, DisconnectBegins, DisconnectEnds, CloseSender, vars

\* Two publishes are never inside one sender, and no lock outlives its publish.
THEOREM LockSafety == Spec => []SendsAreSerialised
<1>1. Init => LockInv
  BY NullAssumption DEF Init, LockInv
<1>2. TypeOK /\ LockInv => SendsAreSerialised
  BY DEF TypeOK, LockInv, SendsAreSerialised
<1> QED
  BY <1>1, <1>2, TypeCorrect, LockStep, PTL DEF Spec
=============================================================================
