--------------------------- MODULE SettlementProofs ---------------------------
(***************************************************************************)
(* Settlement for any number of deliveries of a message and of calls on    *)
(* them: the first verb of the delivery that holds the lock settles it.    *)
(***************************************************************************)
EXTENDS Settlement, TLAPS

\* What a call that waits for the SDK knows: its delivery has a receiver and,
\* unless it defers, its verb is the one that was recorded.
CallInv ==
  \A c \in Calls : pc[c] = "settling" =>
    /\ verb[c] \in Verbs /\ target[c] \in attached
    /\ verb[c] # "defer" => committed[target[c]] = verb[c]

Inv == TypeOK /\ CallInv /\ FirstVerbSettles

\* A method either reaches the SDK as the first verb or leaves `committed` be.
LEMMA CallStep ==
  ASSUME Inv, NEW c \in Calls, NEW d \in 1..MaxDeliveries, NEW v \in Verbs, Call(c, d, v)
  PROVE  Inv'
<1> USE BoundAssumption DEF Inv
<1>1. TypeOK'
  BY DEF TypeOK, Call, Committed, Verbs
<1>2. \A e \in 1..MaxDeliveries : committed[e] # "none" => committed'[e] = committed[e]
  BY DEF TypeOK, Call, Committed
<1>3. CallInv'
  <2> SUFFICES ASSUME NEW b \in Calls, (pc[b] = "settling")'
               PROVE  (/\ verb[b] \in Verbs /\ target[b] \in attached
                       /\ verb[b] # "defer" => committed[target[b]] = verb[b])'
    BY DEF CallInv
  <2>1. CASE b = c
    BY <2>1 DEF TypeOK, Call, Committed, ReachesSDK, Verbs
  <2>2. CASE b # c
    <3>1. /\ pc[b] = "settling" /\ verb'[b] = verb[b] /\ target'[b] = target[b]
          /\ attached' = attached
      BY <2>2 DEF TypeOK, Call
    <3>2. target[b] \in 1..MaxDeliveries /\ (verb[b] # "defer" => committed[target[b]] # "none")
      BY <3>1 DEF TypeOK, CallInv, Verbs
    <3> QED
      BY <1>2, <3>1, <3>2 DEF CallInv
  <2> QED
    BY <2>1, <2>2
<1>4. FirstVerbSettles'
  <2>1. mail' = mail /\ delivery' = delivery /\ delivery \in 1..MaxDeliveries
    BY DEF TypeOK, Call
  <2> QED
    BY <1>2, <2>1 DEF FirstVerbSettles
<1> QED
  BY <1>1, <1>3, <1>4

LEMMA InvStep == Inv /\ [Next]_vars => Inv'
<1> SUFFICES ASSUME Inv, [Next]_vars PROVE Inv'
  OBVIOUS
<1> USE BoundAssumption DEF Inv
<1>1. CASE Receive
  <2>1. attached \subseteq attached' /\ attached' \subseteq 1..delivery'
    BY <1>1 DEF Receive, TypeOK
  <2> QED
    BY <1>1, <2>1 DEF Receive, TypeOK, CallInv, FirstVerbSettles, callVars
<1>2. CASE LockExpires
  BY <1>2 DEF LockExpires, TypeOK, CallInv, FirstVerbSettles, callVars
<1>3. ASSUME NEW c \in Calls, NEW d \in 1..MaxDeliveries, NEW v \in Verbs, Call(c, d, v)
      PROVE  Inv'
  BY <1>3, CallStep
<1>4. ASSUME NEW c \in Calls, Settles(c) PROVE Inv'
  <2>1. /\ verb[c] \in Verbs /\ target[c] \in attached /\ target[c] = delivery
        /\ verb[c] # "defer" => committed[delivery] = verb[c]
    BY <1>4 DEF Settles, Holds, CallInv
  <2>2. /\ mail' \in {"queued", "completed", "dead", "deferred"}
        /\ mail' = "completed" => verb[c] = "ack"
        /\ mail' = "dead" => verb[c] = "reject"
    BY <1>4, <2>1 DEF Settles, Outcome, Verbs
  <2> QED
    BY <1>4, <2>1, <2>2 DEF Settles, TypeOK, CallInv, FirstVerbSettles
<1>5. ASSUME NEW c \in Calls, LockLost(c) \/ SettleFails(c) PROVE Inv'
  BY <1>5 DEF LockLost, SettleFails, TypeOK, CallInv, FirstVerbSettles
<1>6. CASE UNCHANGED vars
  BY <1>6 DEF vars, callVars, TypeOK, CallInv, FirstVerbSettles
<1> QED
  BY <1>1, <1>2, <1>3, <1>4, <1>5, <1>6 DEF Next

LEMMA Invariant == Spec => []Inv
<1>1. Init => Inv
  BY BoundAssumption DEF Init, Inv, TypeOK, CallInv, FirstVerbSettles
<1> QED
  BY <1>1, InvStep, PTL DEF Spec

\* Every variable keeps its type, for any number of deliveries and calls.
THEOREM TypeCorrect == Spec => []TypeOK
BY Invariant, PTL DEF Inv

\* For any number of deliveries and of calls on each, in any order: what takes
\* the message out of the entity is the first verb of the delivery that holds
\* its lock.
THEOREM FirstVerb == Spec => []FirstVerbSettles
BY Invariant, PTL DEF Inv
=============================================================================
