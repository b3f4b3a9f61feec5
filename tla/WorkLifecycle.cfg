SPECIFICATION MCSpec
CONSTANTS
  None = None
  Procs <- MCProcs
  Commits = {1, 2}
  Scenes <- MCScenes
  PullRequests = {"r1"}
  MaxCrashes = 1
  NoName = NoName
  Targets <- MCTargets
  Queues <- MCQueues
  Rollups <- MCRollups
  PendingTimeout = 1
  GateNow = 3
  MaxReruns = 1
INVARIANTS
  
  CardIsTrue
  NoRedderThanBase
  GreenRerunsUnblock
PROPERTIES
  RetiredIsSettled
  
  MergeReconciled
CHECK_DEADLOCK FALSE
