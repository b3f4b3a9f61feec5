----------------------------- MODULE MCReaders -----------------------------
(***************************************************************************)
(* What a daemon's readers are told: a ring by itself, a stream over the   *)
(* router, or the turns of an agent's sessions.  A scene without sessions  *)
(* leaves the stage to the ring or the stream.                             *)
(***************************************************************************)
EXTENDS MCBusSubscription, AgentDelivery

\* More mentions than one turn may read lie above the oldest request of a hook;
\* a native feed restarts over a backlog; two sessions share the marker.
MCScenes ==
  {[plan |-> <<>>, sessions |-> {}, drops |-> 0],
   [plan |-> <<"request", "mention", "mention", "request", "room", "request">>, sessions |-> {"h"}, drops |-> 2],
   [plan |-> <<"room", "request", "request", "stream", "request", "request">>, sessions |-> {"n"}, drops |-> 2],
   [plan |-> <<"request", "request", "request">>, sessions |-> {"h", "n"}, drops |-> 0]}

\* Durables and lossy events of several sizes in a ring of two slots and four bytes.
HotEnvs == 1..5

VARIABLES
  alone,     \* whether the ring is driven by itself
  hot, loop, pushed, unsaved

Ring == INSTANCE MCHotRing WITH
  Envs <- HotEnvs, EventId <- <<1, 2, 3, 4, 5>>, Room <- [e \in HotEnvs |-> "a"],
  Delivery <- <<"durable", "live", "live", "live", "durable">>, Bytes <- <<1, 5, 1, 1, 3>>,
  RingCapacity <- 2, RingByteBudget <- 4

hotVars == <<hot, loop, pushed, unsaved>>
readerVars == <<alone, hotVars, allVars, deliveryVars>>

MCInit ==
  /\ SubInit /\ DeliveryInit /\ Ring!RingInit
  /\ alone \in {FALSE, scene.sessions = {}}

MCNext ==
  \/ alone /\ Ring!RingNext /\ UNCHANGED <<alone, allVars, deliveryVars>>
  \/ ~alone /\ scene.sessions = {} /\ SubNext /\ UNCHANGED <<alone, hotVars, deliveryVars>>
  \/ scene.sessions # {} /\ DeliveryNext /\ UNCHANGED <<alone, hotVars, allVars>>

\* No stream is open in the other parts, and no session is fair without a turn.
MCSpec ==
  /\ MCInit /\ [][MCNext]_readerVars
  /\ \A s \in Subs : WF_allVars(StreamStep(s))
  /\ DeliveryFairness

\* The closed form of eviction keeps exactly the slots the loop of
\* evict_to_capacity keeps (ring.rs:119-146).
ClosedFormIsLoop == Ring!ClosedFormIsLoop

\* The durables of a ring are the newest durables pushed: none is missing between
\* two that are present, so deep replay up to the ring's oldest slot leaves no
\* hole (ring.rs:114-117).
DurableSuffixIntact == Ring!DurableSuffixIntact
=============================================================================
