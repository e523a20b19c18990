----------------------------- MODULE BatchPublish -----------------------------
(***************************************************************************)
(* ServiceBusProducer.publish_batch and _pack: calls that publish lists of *)
(* messages to one entity, each packing its list into batches that fit     *)
(* the frame of the service and sending them one by one with the sender of *)
(* the entity locked.  A message is its size; <<c, i>> is the i-th of c.   *)
(***************************************************************************)
EXTENDS Naturals, Sequences, FiniteSets

CONSTANTS Calls,      \* calls of publish_batch for one entity
          NoCall,
          Limit,      \* max_size_in_bytes of a batch, in units
          MaxLength   \* bound: messages of one call

ASSUME NullAssumption == NoCall \notin Calls
ASSUME BoundAssumption == Limit \in Nat \ {0} /\ MaxLength \in Nat

VARIABLES
  sizes,    \* sizes[c]: the sizes of the messages of c
  pc,       \* where the call c is
  lock,     \* the call that has the sender
  batch,    \* batch[c]: the batch that _pack fills
  batches,  \* batches[c]: the full ones, then those still to send
  entity    \* the messages the service accepted, in order

vars == <<sizes, pc, lock, batch, batches, entity>>

\* A message may be larger than a batch.
Lists == UNION {[1..n -> 1..Limit + 1] : n \in 0..MaxLength}

\* The messages from..to of a list, and what the SDK counts as their size: _pack
\* adds them in the order of the list.
EmptyBatch(i) == [from |-> i, to |-> i - 1, size |-> 0]
Grown(b, size) == [from |-> b.from, to |-> b.to + 1, size |-> b.size + size]

Init ==
  /\ sizes \in [Calls -> Lists]
  /\ pc = [c \in Calls |-> "idle"]
  /\ lock = NoCall
  /\ batch = [c \in Calls |-> EmptyBatch(1)]
  /\ batches = [c \in Calls |-> <<>>]
  /\ entity = <<>>

-----------------------------------------------------------------------------
(* publish_batch *)

\* No message, no call of the service.
Empty(c) ==
  /\ pc[c] = "idle" /\ sizes[c] = <<>>
  /\ pc' = [pc EXCEPT ![c] = "done"]
  /\ UNCHANGED <<sizes, lock, batch, batches, entity>>

Encoded(c) ==
  /\ pc[c] = "idle" /\ sizes[c] # <<>>
  /\ pc' = [pc EXCEPT ![c] = "waiting"]
  /\ UNCHANGED <<sizes, lock, batch, batches, entity>>

GetsSender(c) ==
  /\ pc[c] = "waiting" /\ lock = NoCall
  /\ lock' = c
  /\ pc' = [pc EXCEPT ![c] = "packing"]
  /\ UNCHANGED <<sizes, batch, batches, entity>>

-----------------------------------------------------------------------------
(* _pack *)

\* The message that the loop over the messages is at.
Turn(c) == batch[c].to + 1

\* add_message raises if the batch would outgrow Limit.
Fits(c) == batch[c].size + sizes[c][Turn(c)] <= Limit

Add(c) ==
  /\ pc[c] = "packing" /\ Turn(c) \in DOMAIN sizes[c] /\ Fits(c)
  /\ batch' = [batch EXCEPT ![c] = Grown(@, sizes[c][Turn(c)])]
  /\ UNCHANGED <<sizes, pc, lock, batches, entity>>

\* Mutant: the message that did not fit is not added to the new batch.
MutOverflowDrops(c) ==
  /\ pc[c] = "packing" /\ Turn(c) \in DOMAIN sizes[c] /\ ~Fits(c)
  /\ sizes[c][Turn(c)] <= Limit
  /\ batches' = [batches EXCEPT ![c] = Append(@, batch[c])]
  /\ batch' = [batch EXCEPT ![c] = EmptyBatch(Turn(c) + 1)]
  /\ UNCHANGED <<sizes, pc, lock, entity>>

\* Mutant: the new batch starts as full as the old one.
MutOverflowKeepsSize(c) ==
  /\ pc[c] = "packing" /\ Turn(c) \in DOMAIN sizes[c] /\ ~Fits(c)
  /\ sizes[c][Turn(c)] <= Limit
  /\ batches' = [batches EXCEPT ![c] = Append(@, batch[c])]
  /\ batch' = [batch EXCEPT ![c] =
                 [from |-> Turn(c), to |-> Turn(c), size |-> batch[c].size]]
  /\ UNCHANGED <<sizes, pc, lock, entity>>

\* The message starts the next batch, unless it fits no batch at all.
Overflow(c) ==
  /\ pc[c] = "packing" /\ Turn(c) \in DOMAIN sizes[c] /\ ~Fits(c)
  /\ sizes[c][Turn(c)] <= Limit
  /\ batches' = [batches EXCEPT ![c] = Append(@, batch[c])]
  /\ batch' = [batch EXCEPT ![c] = Grown(EmptyBatch(Turn(c)), sizes[c][Turn(c)])]
  /\ UNCHANGED <<sizes, pc, lock, entity>>

\* The list is packed to its end before the first batch is sent.
Packed(c) ==
  /\ pc[c] = "packing" /\ batch[c].to = Len(sizes[c])
  /\ batches' = [batches EXCEPT ![c] =
                   IF batch[c].from <= batch[c].to THEN Append(@, batch[c]) ELSE @]
  /\ pc' = [pc EXCEPT ![c] = "sending"]
  /\ UNCHANGED <<sizes, lock, batch, entity>>

-----------------------------------------------------------------------------
(* Sending *)

Content(c, b) == [k \in 1..(b.to + 1 - b.from) |-> <<c, b.from + k - 1>>]

\* The service takes a batch whole and in order.
Accept(c) == entity' = entity \o Content(c, Head(batches[c]))

\* Mutant: the sender is released between two batches.
MutSends(c) ==
  /\ pc[c] = "sending"
  /\ Accept(c)
  /\ batches' = [batches EXCEPT ![c] = Tail(@)]
  /\ lock' = NoCall
  /\ pc' = [pc EXCEPT ![c] = IF Tail(batches[c]) = <<>> THEN "done" ELSE "sending"]
  /\ UNCHANGED <<sizes, batch>>

Sends(c) ==
  /\ pc[c] = "sending"
  /\ Accept(c)
  /\ batches' = [batches EXCEPT ![c] = Tail(@)]
  /\ IF Tail(batches[c]) = <<>>
       THEN lock' = NoCall /\ pc' = [pc EXCEPT ![c] = "done"]
       ELSE UNCHANGED <<lock, pc>>
  /\ UNCHANGED <<sizes, batch>>

\* A message too large, an error of the link, a cancellation: the caller is not
\* told which batches were sent, and the last of them may have been accepted.
Fails(c) ==
  /\ pc[c] \in {"waiting", "packing", "sending"}
  /\ pc' = [pc EXCEPT ![c] = "failed"]
  /\ lock' = IF lock = c THEN NoCall ELSE lock
  /\ \/ UNCHANGED entity
     \/ pc[c] = "sending" /\ Accept(c)
  /\ batches' = [batches EXCEPT ![c] = <<>>]
  /\ UNCHANGED <<sizes, batch>>

Pack(c) == Add(c) \/ Overflow(c) \/ Packed(c)

Next ==
  \E c \in Calls :
    Empty(c) \/ Encoded(c) \/ GetsSender(c) \/ Pack(c) \/ Sends(c) \/ Fails(c)

Spec == Init /\ [][Next]_vars

-----------------------------------------------------------------------------
(* Properties *)

\* Every variable of the model of publish_batch has its type, and a batch its limit.
TypeOK ==
  /\ sizes \in [Calls -> Lists]
  /\ pc \in [Calls -> {"idle", "waiting", "packing", "sending", "done", "failed"}]
  /\ lock \in Calls \cup {NoCall}
  /\ batch \in [Calls -> [from : 1..MaxLength + 1, to : 0..MaxLength, size : 0..Limit]]
  /\ batches \in [Calls -> Seq([from : 1..MaxLength, to : 1..MaxLength, size : 0..Limit])]
  /\ entity \in Seq(Calls \X (1..MaxLength))

\* Where the messages of c are in the entity.
Of(c) == {i \in DOMAIN entity : entity[i][1] = c}

\* Whatever batches a list is cut into and wherever a send fails, the service
\* has a prefix of the list, each message once and in order, all of it when the
\* call returned, and nothing of a list with a message that fits no batch: the
\* caller can shrink it and publish the list again without a duplicate.
SentInOrder ==
  \A c \in Calls :
    LET sent == {entity[i][2] : i \in Of(c)} IN
    /\ \A i, j \in Of(c) : i < j => entity[i][2] < entity[j][2]
    /\ \E n \in 0..Len(sizes[c]) : sent = 1..n
    /\ pc[c] = "done" => sent = DOMAIN sizes[c]
    /\ (\E i \in DOMAIN sizes[c] : sizes[c][i] > Limit) => sent = {}

\* The messages of two calls to one entity do not mix, however many batches
\* each of them is cut into.
BatchesNotInterleaved ==
  \A i, k \in DOMAIN entity :
    entity[i][1] = entity[k][1] => \A j \in i..k : entity[j][1] = entity[i][1]

\* Total(s)[n] is the size of the first n messages of s.
Total(s) == LET t[n \in 0..Len(s)] == IF n = 0 THEN 0 ELSE t[n - 1] + s[n] IN t
Weight(s, i, j) == Total(s)[j] - Total(s)[i - 1]

\* The places at which s can be cut so that every piece fits a batch.
Cuts(s) ==
  {C \in SUBSET (1..Len(s) - 1) :
     \A i \in DOMAIN s : \A j \in i..Len(s) :
       Weight(s, i, j) > Limit => C \cap i..(j - 1) # {}}

\* "Publish several messages in as few service calls as possible": every batch
\* fits, and no other way to cut the list, its order kept, takes fewer batches.
FewestSends ==
  \A c \in Calls :
    pc[c] = "sending" /\ Of(c) = {} =>
      /\ \A k \in DOMAIN batches[c] :
           Weight(sizes[c], batches[c][k].from, batches[c][k].to) <= Limit
      /\ \A C \in Cuts(sizes[c]) : Len(batches[c]) <= Cardinality(C) + 1
=============================================================================
