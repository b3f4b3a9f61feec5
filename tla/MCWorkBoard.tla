---------------------------- MODULE MCWorkBoard -----------------------------
(***************************************************************************)
(* The workloads WorkBoard is checked on: who holds a card, what becomes   *)
(* of its pull request, submissions with their reviews, and coordination;  *)
(* and, in a workload of their own, the readers of the cached projection.  *)
(***************************************************************************)
EXTENDS WorkBoard, WorkBoardCache

MCPeerOf == [p1 |-> "p", p2 |-> "p", q1 |-> "q"]

MCProcs == DOMAIN MCPeerOf

Custody ==
  [verbs |-> {"create", "claim", "heartbeat", "release", "state", "select"},
   procs |-> {"p1", "q1"}, events |-> 5, clock |-> 2]

Shipping ==
  [verbs |-> {"create", "claim", "state", "link", "relink", "merge"},
   procs |-> {"p1", "q1"}, events |-> 5, clock |-> 2]

Reviewing ==
  [verbs |-> {"create", "claim", "submit", "handoff", "review"},
   procs |-> {"p1", "p2", "q1"}, events |-> 7, clock |-> 1]

Coordinating ==
  [verbs |-> {"create", "claim", "hat", "coordinate"},
   procs |-> {"p1", "q1"}, events |-> 4, clock |-> 1]

\* The board's callers are quiet and the cache is read.
Caching == [verbs |-> {}, procs |-> {}, events |-> 0, clock |-> 0]

MCWorkloads == {Custody, Shipping, Reviewing, Coordinating, Caching}

mcVars == <<boardVars, cacheVars>>

MCInit == BoardInit /\ CacheInit

MCNext ==
  \/ workload # Caching /\ BoardNext /\ UNCHANGED cacheVars
  \/ workload = Caching /\ CacheNext /\ UNCHANGED boardVars

MCSpec == MCInit /\ [][MCNext]_mcVars
=============================================================================
