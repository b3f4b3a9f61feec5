SPECIFICATION FairSpec
CONSTANTS
  Envs <- ForwardEnvs
  Rooms <- OneRoom
  EventId <- ForwardEventId
  Room <- ForwardRoom
  Delivery <- ForwardDelivery
  Bytes <- ForwardBytes
  Sender <- ForwardSender
  CoalesceKey <- ForwardKeys
  NoKey = "nokey"
  Inbound = {}
  RingCapacity = 2
  RingByteBudget = 4
  WriteBehindBuffer = 2
  MaxBatch = 1
  RecentCapacity = 5
  ForwardBuffer = 2
  HasForwarder = TRUE
  MaxInFlight = 1
  MaxEpoch = 1

  
PROPERTIES
  AcceptedIsPersisted
  
CHECK_DEADLOCK FALSE
