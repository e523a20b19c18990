\* Three publishes to two entities, over one reconnect.
CONSTANTS
  q1 = q1
  q2 = q2
  Entities = {q1, q2}
  Publishers = {p1, p2, p3}
  Senders = {s1, s2, s3}
  Target <- MCTarget
  NoSender = NoSender
  NoPublisher = NoPublisher
  MaxClients = 2
SPECIFICATION FairSpec
INVARIANTS
  TypeOK
  OpenSenderIsCached
  SendsAreSerialised
PROPERTIES
  WaitingPublishEnds
  DisconnectCompletes
CHECK_DEADLOCK FALSE
