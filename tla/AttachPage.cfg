SPECIFICATION AttachSpec
CONSTANTS
  Envs <- PageEnvs
  Rooms <- OneRoom
  EventId <- PageEventId
  Room <- PageRoom
  Delivery <- PageDelivery
  Bytes <- PageBytes
  Sender <- PageSender
  CoalesceKey <- PageKey
  NoKey = "nokey"
  Inbound = {}
  RingCapacity = 1
  RingByteBudget = 8
  WriteBehindBuffer = 1
  MaxBatch = 1
  RecentCapacity = 4
  ForwardBuffer = 1
  HasForwarder = FALSE
  MaxInFlight = 1
  MaxEpoch = 2
  Subs <- AttachSubs
  SubRoom <- AttachSubRoom
  Wants <- PageWants
  SubscriberBuffer = 1
  DeepReplayPage = 1
  PageSize = 1
  PageScanStep = 1
  PastStarts = TRUE
INVARIANTS
  WrittenInOrder
  PageCounts
CHECK_DEADLOCK FALSE
