----------------------------- MODULE SenderCache -----------------------------
(***************************************************************************)
(* ServiceBusConnectionState: one client at a time and the senders it      *)
(* gave, cached by entity, each behind a lock of its own; publishes run    *)
(* while broker.stop() disconnects and broker.start() connects again.      *)
(* asyncio locks are FIFO and taking a free one does not yield, so an      *)
(* action is what a task does between two awaits.                          *)
(***************************************************************************)
EXTENDS Naturals

CONSTANTS Publishers,  \* calls of publish, publish_batch or request
          Entities,    \* (destination type, name) pairs
          Target,      \* Target[p]: the entity p sends to
          Senders,     \* ServiceBusSender objects the SDK may create
          NoSender, NoPublisher,
          MaxClients   \* bound: how often the broker connects

ASSUME TargetAssumption == Target \in [Publishers -> Entities]
ASSUME NullAssumption == NoSender \notin Senders /\ NoPublisher \notin Publishers
ASSUME BoundAssumption == MaxClients \in Nat

VARIABLES
  client,   \* _client: the number of the connection, 0 for None
  opened,   \* clients made so far
  disc,     \* disconnect: "idle", "closing" the senders under _senders_lock,
            \* or awaiting the close of the "client" and its credential
  toClose,  \* the senders disconnect has still to close
  cache,    \* _senders: entity -> sender
  origin,   \* origin[s]: the client that made s, 0 before that
  open,     \* senders whose close() was not called
  holder,   \* holder[s]: the publish that holds the lock of the entry of s
  uses,     \* uses[p]: the entry p got from _get_sender_entry
  pc        \* where the publish p is

connVars == <<client, opened, disc, toClose>>
senderVars == <<cache, origin, open>>
pubVars == <<holder, uses, pc>>
vars == <<connVars, senderVars, pubVars>>

Init ==
  /\ client = 0 /\ opened = 0 /\ disc = "idle" /\ toClose = {}
  /\ cache = [e \in Entities |-> NoSender]
  /\ origin = [s \in Senders |-> 0]
  /\ open = {}
  /\ holder = [s \in Senders |-> NoPublisher]
  /\ uses = [p \in Publishers |-> NoSender]
  /\ pc = [p \in Publishers |-> "idle"]

-----------------------------------------------------------------------------
(* sender() and _get_sender_entry *)

\* Mutant: no lock around the sender.
MutEnter(p, s) ==
  /\ uses' = [uses EXCEPT ![p] = s]
  /\ holder' = [holder EXCEPT ![s] = p]
  /\ pc' = [pc EXCEPT ![p] = "sending"]

\* `async with entry.lock`: send at once, or queue behind the others.
Enter(p, s) ==
  /\ uses' = [uses EXCEPT ![p] = s]
  /\ IF holder[s] = NoPublisher /\ ~\E q \in Publishers : pc[q] = "queued" /\ uses[q] = s
       THEN /\ holder' = [holder EXCEPT ![s] = p]
            /\ pc' = [pc EXCEPT ![p] = "sending"]
       ELSE /\ pc' = [pc EXCEPT ![p] = "queued"]
            /\ UNCHANGED holder

UseCached(p) ==
  /\ cache[Target[p]] # NoSender
  /\ Enter(p, cache[Target[p]])
  /\ UNCHANGED senderVars

\* A sender made from self.client is cached.
NewSender(p) ==
  \E s \in Senders :
    /\ origin[s] = 0
    /\ origin' = [origin EXCEPT ![s] = client]
    /\ open' = open \cup {s}
    /\ cache' = [cache EXCEPT ![Target[p]] = s]
    /\ Enter(p, s)

\* The body under _senders_lock, for an entity without a sender.
Create(p) == cache[Target[p]] = NoSender /\ client # 0 /\ NewSender(p)

\* self.client raises IncorrectState.
NoClient(p) ==
  /\ cache[Target[p]] = NoSender /\ client = 0
  /\ pc' = [pc EXCEPT ![p] = "failed"]
  /\ UNCHANGED <<senderVars, holder, uses>>

\* _senders_lock is held, or another task waits for it.
SendersLockBusy == disc = "closing" \/ \E q \in Publishers : pc[q] = "want"

Publish(p) ==
  /\ pc[p] = "idle"
  /\ UseCached(p) \/ (~SendersLockBusy /\ (Create(p) \/ NoClient(p)))
  /\ UNCHANGED connVars

PublishWaits(p) ==
  /\ pc[p] = "idle" /\ cache[Target[p]] = NoSender /\ SendersLockBusy
  /\ pc' = [pc EXCEPT ![p] = "want"]
  /\ UNCHANGED <<connVars, senderVars, holder, uses>>

\* Mutant: no second look at the table.
MutNoRecheck(p) ==
  /\ pc[p] = "want" /\ disc # "closing"
  /\ (client # 0 /\ NewSender(p)) \/ NoClient(p)
  /\ UNCHANGED connVars

\* "Another task may have created it while we waited": look again.
GetsSendersLock(p) ==
  /\ pc[p] = "want" /\ disc # "closing"
  /\ UseCached(p) \/ Create(p) \/ NoClient(p)
  /\ UNCHANGED connVars

GetsEntryLock(p) ==
  /\ pc[p] = "queued" /\ holder[uses[p]] = NoPublisher
  /\ holder' = [holder EXCEPT ![uses[p]] = p]
  /\ pc' = [pc EXCEPT ![p] = "sending"]
  /\ UNCHANGED <<connVars, senderVars, uses>>

\* The SDK sends through a sender that is open and whose client is.
SendReturns(p) ==
  /\ pc[p] = "sending" /\ uses[p] \in open /\ origin[uses[p]] = client
  /\ holder' = [holder EXCEPT ![uses[p]] = NoPublisher]
  /\ pc' = [pc EXCEPT ![p] = "done"]
  /\ UNCHANGED <<connVars, senderVars, uses>>

\* Mutant: the lock of the entry is kept after an error.
MutSendFails(p) ==
  /\ pc[p] = "sending"
  /\ pc' = [pc EXCEPT ![p] = "failed"]
  /\ UNCHANGED <<connVars, senderVars, holder, uses>>

\* A link error, a closed sender or client, a cancellation.
SendFails(p) ==
  /\ pc[p] = "sending"
  /\ holder' = [holder EXCEPT ![uses[p]] = NoPublisher]
  /\ pc' = [pc EXCEPT ![p] = "failed"]
  /\ UNCHANGED <<connVars, senderVars, uses>>

\* The timeout or a cancellation hits a call that waits for a lock.
Cancelled(p) ==
  /\ pc[p] \in {"want", "queued"}
  /\ pc' = [pc EXCEPT ![p] = "failed"]
  /\ UNCHANGED <<connVars, senderVars, holder, uses>>

-----------------------------------------------------------------------------
(* connect() and disconnect() *)

Connect ==
  /\ client = 0 /\ disc = "idle" /\ opened < MaxClients
  /\ client' = opened + 1 /\ opened' = opened + 1
  /\ UNCHANGED <<disc, toClose, senderVars, pubVars>>

Cached == {cache[e] : e \in Entities} \ {NoSender}

\* With no sender to close the lock is given back without a wait.
DisconnectBegins ==
  /\ client # 0 /\ disc = "idle" /\ \A p \in Publishers : pc[p] # "want"
  /\ toClose' = Cached
  /\ disc' = IF Cached = {} THEN "client" ELSE "closing"
  /\ UNCHANGED <<client, opened, senderVars, pubVars>>

\* Mutant: the close waits until no task waits for _senders_lock.
MutCloseSender(s) ==
  /\ disc = "closing" /\ s \in toClose /\ \A p \in Publishers : pc[p] # "want"
  /\ open' = open \ {s}
  /\ toClose' = toClose \ {s}
  /\ IF toClose = {s}
       THEN cache' = [e \in Entities |-> NoSender] /\ disc' = "client"
       ELSE UNCHANGED <<cache, disc>>
  /\ UNCHANGED <<client, opened, origin, pubVars>>

\* Mutant: the table loses its keys with the senders.
MutClearsKeys(s) ==
  /\ disc = "closing" /\ s \in toClose
  /\ open' = open \ {s}
  /\ toClose' = toClose \ {s}
  /\ IF toClose = {s}
       THEN cache' = [e \in {} |-> NoSender] /\ disc' = "client"
       ELSE UNCHANGED <<cache, disc>>
  /\ UNCHANGED <<client, opened, origin, pubVars>>

\* `entry.sender.close()`, without the lock of the entry; after the last one
\* the table is cleared and _senders_lock released.
CloseSender(s) ==
  /\ disc = "closing" /\ s \in toClose
  /\ open' = open \ {s}
  /\ toClose' = toClose \ {s}
  /\ IF toClose = {s}
       THEN cache' = [e \in Entities |-> NoSender] /\ disc' = "client"
       ELSE UNCHANGED <<cache, disc>>
  /\ UNCHANGED <<client, opened, origin, pubVars>>

DisconnectEnds ==
  /\ disc = "client"
  /\ disc' = "idle" /\ client' = 0
  /\ UNCHANGED <<opened, toClose, senderVars, pubVars>>

-----------------------------------------------------------------------------
Sending(p) ==
  \/ Publish(p) \/ PublishWaits(p) \/ GetsSendersLock(p) \/ GetsEntryLock(p)
  \/ SendReturns(p) \/ SendFails(p) \/ Cancelled(p)

Connection ==
  Connect \/ DisconnectBegins \/ (\E s \in Senders : CloseSender(s)) \/ DisconnectEnds

Next == (\E p \in Publishers : Sending(p)) \/ Connection

Spec == Init /\ [][Next]_vars

\* Woken tasks run, the SDK's calls return; nothing forces a cancellation, a
\* connect or a disconnect.
Fairness ==
  /\ \A p \in Publishers :
       /\ WF_vars(GetsSendersLock(p)) /\ WF_vars(GetsEntryLock(p))
       /\ WF_vars(SendReturns(p) \/ SendFails(p))
  /\ WF_vars(\E s \in Senders : CloseSender(s)) /\ WF_vars(DisconnectEnds)

FairSpec == Spec /\ Fairness

-----------------------------------------------------------------------------
(* Properties *)

\* Every variable of the model of state.py has its type.
TypeOK ==
  /\ client \in Nat /\ opened \in Nat
  /\ disc \in {"idle", "closing", "client"}
  /\ toClose \subseteq Senders
  /\ cache \in [Entities -> Senders \cup {NoSender}]
  /\ origin \in [Senders -> Nat]
  /\ open \subseteq Senders
  /\ holder \in [Senders -> Publishers \cup {NoPublisher}]
  /\ uses \in [Publishers -> Senders \cup {NoSender}]
  /\ pc \in [Publishers -> {"idle", "want", "queued", "sending", "done", "failed"}]

\* No sender is lost: one that was not closed is in _senders, where the next
\* disconnect finds it.  Two publishes that waited for _senders_lock together
\* do not each make a sender for one entity.
OpenSenderIsCached == \A s \in open : \E e \in Entities : cache[e] = s

\* "Concurrent publishes to the same entity are serialised": no two of them are
\* inside one sender, which the SDK does not make safe for that, and no lock
\* stays with a publish that has ended.
SendsAreSerialised ==
  /\ \A p, q \in Publishers :
       pc[p] = "sending" /\ pc[q] = "sending" /\ uses[p] = uses[q] => p = q
  /\ \A s \in Senders : holder[s] # NoPublisher =>
       pc[holder[s]] = "sending" /\ uses[holder[s]] = s

\* The table does not change under the iteration of disconnect: what is cached
\* and open is what the iteration has still to reach.
TableStableWhileClosing == disc = "closing" => toClose = open \cap Cached

\* After a reconnect the cache holds senders of the new client only: what
\* tests/test_offline_coverage.py::test_connection_state_recreates_senders_after_reconnect says.
CachedSenderIsCurrent == client # 0 => \A s \in Cached : origin[s] = client

\* A publish that waits for a lock ends: the locks of the table and of the
\* entries are never waited for in a circle with disconnect.
WaitingPublishEnds ==
  \A p \in Publishers : pc[p] \in {"want", "queued"} ~> pc[p] \in {"done", "failed"}

\* disconnect ends although it closes senders that publishes are using.
DisconnectCompletes == disc = "closing" ~> disc = "idle"
=============================================================================
