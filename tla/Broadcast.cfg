CONSTANTS
  Clients = {c1, c2}
  Capacity = 2
  Shots = 4
  SocketRoom = 1
SPECIFICATION FairSpec
INVARIANTS
  TypeOK
  StreamIsSound
  EveryFrameAccounted
  CountsEveryRelay
PROPERTIES
  ReceiversReadALossyLog
  ProducerNeverWaits
  CatchesUp
CHECK_DEADLOCK FALSE
