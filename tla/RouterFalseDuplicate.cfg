SPECIFICATION Spec
CONSTANTS
  Envs <- IngestEnvs
  Rooms <- TwoRooms
  EventId <- IngestEventId
  Room <- IngestRoom
  Delivery <- IngestDelivery
  Bytes <- IngestBytes
  Sender <- IngestSender
  CoalesceKey <- IngestKey
  NoKey = "nokey"
  Inbound <- IngestInbound
  RingCapacity = 1
  RingByteBudget = 8
  WriteBehindBuffer = 2
  MaxBatch = 2
  RecentCapacity = 3
  ForwardBuffer = 1
  HasForwarder = FALSE
  MaxInFlight = 2
  MaxEpoch = 2
INVARIANT
  DuplicateHasCopy
CHECK_DEADLOCK FALSE
