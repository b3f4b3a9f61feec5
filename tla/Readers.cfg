SPECIFICATION MCSpec
CONSTANTS
  Envs <- ShortEnvs
  Rooms <- OneRoom
  EventId <- ShortEventId
  Room <- ShortRoom
  Delivery <- ShortDelivery
  Bytes <- ShortBytes
  Sender <- ShortSender
  CoalesceKey <- ShortKey
  NoKey = "nokey"
  Inbound = {}
  RingCapacity = 1
  RingByteBudget = 8
  WriteBehindBuffer = 2
  MaxBatch = 2
  RecentCapacity = 4
  ForwardBuffer = 1
  HasForwarder = FALSE
  MaxInFlight = 1
  MaxEpoch = 2
  Subs <- SeamSubs
  SubRoom <- SeamSubRoom
  Wants <- ShortWants
  SubscriberBuffer = 1
  DeepReplayPage = 1
  Consumers = {"h", "n"}
  Native = {"n"}
  Scenes <- MCScenes
  ScanLimit = 2
  Candidates = 2
  ScanCap = 2
  Budget = 1
  Nothing = Nothing
INVARIANTS
  InOrder
  NoGap
  OwedOnce
  ClosedFormIsLoop
  DurableSuffixIntact
PROPERTIES
  CatchesUp
  EveryRequestShown
CHECK_DEADLOCK FALSE
