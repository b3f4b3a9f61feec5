SPECIFICATION MCSpec
CONSTANTS
  None = None
  TakeoverSince = 0
  Peers = {"p", "q"}
  Procs <- MCProcs
  PeerOf <- MCPeerOf
  Cards = {c}
  Submissions = {"s"}
  Artifacts = {"x", "y"}
  Reviews = {"v"}
  PullRequests = {"r1", "r2"}
  Lanes = {"l"}
  Workspaces = {"w"}
  Repos = {"g"}
  Ttl = 1
  Targets = {"open", "in_progress", "review", "closed"}
  Workloads <- MCWorkloads
  MaxClaims = 2
  Readers = {r1, r2}
  PageSize = 1
  MaxStamp = 3
  MaxStamping = 1
  MaxCrashes = 1
INVARIANTS
  LeaseWhole
  LeaseBounded
  JudgementsBound
  
PROPERTIES
  HandoverOnRecord
  LateIsHarmless
  AcceptedStands
CHECK_DEADLOCK FALSE
