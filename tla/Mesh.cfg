SPECIFICATION MCSpec
CONSTANTS
  nA = nA
  nB = nB
  nC = nC
  eX = eX
  eY = eY
  rP = rP
  rQ = rQ
  c1 = c1
  c2 = c2
  c3 = c3
  f1 = f1
  f2 = f2
  f3 = f3
  NoState = NoState
  WindowBits = 2
  Budgets <- MCBudgets
  NoLease = NoLease
  Receivers = {rP, rQ}
  Connections = {c1, c2, c3}
  Client <- MCClient
  Frames = {f1, f2, f3}
  Recipient <- MCRecipient
  OverIpc = {f1, f3}
  ReceiverLimit = 2
  FrameLimit = 2
  QueueCapacity = 1
  Nobody = Nobody
  Nodes = {nA, nB, nC}
  Events = {eX, eY}
  PeerQueue = 1
  MaxAttempts = 2
  SuspectAfter = 2
  Scenarios <- MCScenarios
INVARIANTS
  OpenedOnce
  NoRollback
  LeaseOwnsEntry
  ConfirmedIsHeld
  OfferedOnce
PROPERTIES
  LowerServed
  SwitchRecovers
  MeshConverges
CHECK_DEADLOCK FALSE
