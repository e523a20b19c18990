------------------------------ MODULE Settlement ------------------------------
(***************************************************************************)
(* ServiceBusMessage: the settlement of one message that the service       *)
(* delivers again and again until it is settled.  Each delivery is an      *)
(* object of its own; the handler, the tasks it started and at last the    *)
(* acknowledgement policy call ack, nack, reject and defer on it, in any   *)
(* order, also after its lock was lost and a later delivery holds the      *)
(* message.  A call suspends once, inside the SDK.                         *)
(***************************************************************************)
EXTENDS Naturals

CONSTANTS Calls,         \* calls of the settlement methods
          MaxDeliveries  \* MaxDeliveryCount of the entity

ASSUME BoundAssumption == MaxDeliveries \in Nat

Verbs == {"ack", "nack", "reject", "defer"}

VARIABLES
  mail,       \* the message in the entity
  delivery,   \* number of the last delivery: it holds the lock of the message
  attached,   \* deliveries with a receiver attached to them
  committed,  \* committed[d]: StreamMessage.committed of the delivery d
  settled,    \* deliveries the SDK has marked as settled
  pc,         \* where the call c is
  target,     \* target[c]: the delivery c was made on
  verb        \* verb[c]: the method c calls

callVars == <<pc, target, verb>>
vars == <<mail, delivery, attached, committed, settled, callVars>>

Init ==
  /\ mail = "queued" /\ delivery = 0
  /\ attached = {} /\ settled = {}
  /\ committed = [d \in 1..MaxDeliveries |-> "none"]
  /\ pc = [c \in Calls |-> "idle"]
  /\ target = [c \in Calls |-> 0]
  /\ verb = [c \in Calls |-> "none"]

Holds(d) == mail = "locked" /\ delivery = d

\* The entity delivers the message; its receiver may be closed by the time the
\* parser attaches it.
Receive ==
  /\ mail = "queued" /\ delivery < MaxDeliveries
  /\ mail' = "locked"
  /\ delivery' = delivery + 1
  /\ \E S \in SUBSET {delivery + 1} : attached' = attached \cup S
  /\ UNCHANGED <<committed, settled, callVars>>

LockExpires ==
  /\ mail = "locked"
  /\ mail' = "queued"
  /\ UNCHANGED <<delivery, attached, committed, settled, callVars>>


\* Mutant: defer is recorded like the other verbs.
MutCommitted(d, v) == [committed EXCEPT ![d] = IF @ = "none" THEN v ELSE @]

\* super().ack() and its like record the first verb of a delivery.
Committed(d, v) ==
  [committed EXCEPT ![d] = IF v # "defer" /\ @ = "none" THEN v ELSE @]

\* Mutant: `settled` is computed and not looked at.
MutReachesSDK(d, v) == d \in attached

\* ack, nack and reject are no-ops after the first of them; all are without a
\* receiver.  defer does not look at `committed`.
ReachesSDK(d, v) == d \in attached /\ (v = "defer" \/ committed[d] = "none")

\* The method up to its await.
Call(c, d, v) ==
  /\ pc[c] = "idle" /\ d \in 1..delivery
  /\ committed' = Committed(d, v)
  /\ pc' = [pc EXCEPT ![c] = IF ReachesSDK(d, v) THEN "settling" ELSE "returned"]
  /\ target' = [target EXCEPT ![c] = d]
  /\ verb' = [verb EXCEPT ![c] = v]
  /\ UNCHANGED <<mail, delivery, attached, settled>>

Outcome == [ack |-> "completed", nack |-> "queued", reject |-> "dead", defer |-> "deferred"]

\* The service settles the message; its answer may get lost.
Settles(c) ==
  /\ pc[c] = "settling" /\ target[c] \notin settled /\ Holds(target[c])
  /\ mail' = Outcome[verb[c]]
  /\ \/ settled' = settled \cup {target[c]} /\ pc' = [pc EXCEPT ![c] = "returned"]
     \/ UNCHANGED settled /\ pc' = [pc EXCEPT ![c] = "raised"]
  /\ UNCHANGED <<delivery, attached, committed, target, verb>>

\* One of LOST_LOCK_ERRORS is logged: the lock is lost or the message settled.
LockLost(c) ==
  /\ pc[c] = "settling" /\ (target[c] \in settled \/ ~Holds(target[c]))
  /\ pc' = [pc EXCEPT ![c] = "returned"]
  /\ UNCHANGED <<mail, delivery, attached, committed, settled, target, verb>>

\* Any other error reaches the caller.
SettleFails(c) ==
  /\ pc[c] = "settling"
  /\ pc' = [pc EXCEPT ![c] = "raised"]
  /\ UNCHANGED <<mail, delivery, attached, committed, settled, target, verb>>

Next ==
  \/ Receive \/ LockExpires
  \/ \E c \in Calls :
       \/ \E d \in 1..MaxDeliveries, v \in Verbs : Call(c, d, v)
       \/ Settles(c) \/ LockLost(c) \/ SettleFails(c)

Spec == Init /\ [][Next]_vars

-----------------------------------------------------------------------------
(* Properties *)

\* Every variable of the model of message.py has its type.
TypeOK ==
  /\ mail \in {"queued", "locked", "completed", "dead", "deferred"}
  /\ delivery \in 0..MaxDeliveries
  /\ attached \subseteq 1..delivery /\ settled \subseteq attached
  /\ committed \in [1..MaxDeliveries -> {"none", "ack", "nack", "reject"}]
  /\ pc \in [Calls -> {"idle", "settling", "returned", "raised"}]
  /\ target \in [Calls -> 0..MaxDeliveries]
  /\ verb \in [Calls -> Verbs \cup {"none"}]

\* A message that left the entity was completed or dead-lettered by the first
\* verb called on the delivery that held its lock: later verbs, the policy's
\* included, and those of earlier deliveries do not overtake it.
FirstVerbSettles ==
  /\ mail = "completed" => committed[delivery] = "ack"
  /\ mail = "dead" => committed[delivery] = "reject"
=============================================================================
