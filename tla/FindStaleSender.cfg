\* A publish between the close of the senders and the end of disconnect.
CONSTANTS
  q1 = q1
  q2 = q2
  Entities = {q1, q2}
  Publishers = {p1, p2}
  Senders = {s1, s2}
  Target <- OneTarget
  NoSender = NoSender
  NoPublisher = NoPublisher
  MaxClients = 2
SPECIFICATION Spec
INVARIANT CachedSenderIsCurrent
CHECK_DEADLOCK FALSE
