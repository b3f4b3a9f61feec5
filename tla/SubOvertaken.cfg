SPECIFICATION SubSpec
CONSTANTS
  Envs <- SeamEnvs
  Rooms <- OneRoom
  EventId <- SeamEventId
  Room <- SeamRoom
  Delivery <- SeamDelivery
  Bytes <- SeamBytes
  Sender <- SeamSender
  CoalesceKey <- SeamKey
  NoKey = "nokey"
  Inbound = {}
  RingCapacity = 1
  RingByteBudget = 8
  WriteBehindBuffer = 2
  MaxBatch = 2
  RecentCapacity = 4
  ForwardBuffer = 1
  HasForwarder = FALSE
  MaxInFlight = 2
  MaxEpoch = 1
  Subs <- SeamSubs
  SubRoom <- SeamSubRoom
  Wants <- SeamWants
  SubscriberBuffer = 2
  DeepReplayPage = 1
INVARIANT
  NoGap
CHECK_DEADLOCK FALSE
