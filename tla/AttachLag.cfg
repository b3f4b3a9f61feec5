SPECIFICATION AttachSpec
CONSTANTS
  Envs <- AttachEnvs
  Rooms <- OneRoom
  EventId <- AttachEventId
  Room <- AttachRoom
  Delivery <- AttachDelivery
  Bytes <- AttachBytes
  Sender <- AttachSender
  CoalesceKey <- AttachKey
  NoKey = "nokey"
  Inbound = {}
  RingCapacity = 1
  RingByteBudget = 8
  WriteBehindBuffer = 1
  MaxBatch = 1
  RecentCapacity = 4
  ForwardBuffer = 1
  HasForwarder = FALSE
  MaxInFlight = 1
  MaxEpoch = 1
  Subs <- AttachSubs
  SubRoom <- AttachSubRoom
  Wants <- AttachWants
  SubscriberBuffer = 1
  DeepReplayPage = 1
  PageSize = 1
  PageScanStep = 2
  PastStarts = TRUE
INVARIANTS
  ResumeCovers
CHECK_DEADLOCK FALSE
