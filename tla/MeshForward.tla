---------------------------- MODULE MeshForward -----------------------------
(***************************************************************************)
(* Durable events spreading over a mesh of daemons: the routed forwarder   *)
(* (airc-lib/src/route_forwarder.rs) with its per-peer workers, acks,      *)
(* retries and delivery ledger, the inbound bridge that publishes what     *)
(* arrives (router_bridge.rs), and the backfill a new connection starts    *)
(* (backfill.rs).  A router is what EventRouter promises of it: the events *)
(* it holds, the ids it takes for duplicates and the tap it feeds.         *)
(***************************************************************************)
EXTENDS Naturals, Sequences, FiniteSets, Bags

CONSTANTS
  Nobody,       \* no origin, no item, no pass
  Nodes,        \* daemons
  Events,       \* durable events
  PeerQueue,    \* peer_queue_capacity
  MaxAttempts,  \* max_attempts
  SuspectAfter, \* SUSPECT_UNACKED_ATTEMPTS
  Scenarios     \* meshes to explore: the links discovery connects and those up,
                \* the daemon a scope publishes each event on, the daemons with
                \* a scope on the channel, and bounds on the faults (lost frames,
                \* lost and late acks, failed publishes and passes) and on the
                \* connections dropped

ASSUME MeshAssumption ==
  /\ {PeerQueue, MaxAttempts, SuspectAfter} \subseteq Nat \ {0}
  /\ \A s \in Scenarios :
       /\ \A l \in s.links : l \subseteq Nodes /\ Cardinality(l) = 2
       /\ DOMAIN s.home \subseteq Events /\ s.bound \subseteq Nodes
       /\ \A e \in DOMAIN s.home : s.home[e] \in Nodes
       /\ s.up \subseteq s.links /\ {s.faults, s.flaps} \subseteq Nat

VARIABLES
  scenario,  \* the mesh
  up,        \* the connected links
  held,      \* daemon -> events its router holds
  recent,    \* daemon -> events publish_if_new answers Duplicate for
  tap,       \* daemon -> the forward tap: events with the link they came over
  peerQueue, \* <<daemon, peer>> -> the ordered queue of the peer's worker
  worker,    \* <<daemon, peer>> -> what forward_one is doing
  unacked,   \* <<daemon, peer>> -> attempts_since_ack
  wire,      \* frames and acks on their way
  pass,      \* <<daemon, peer>> -> the backfill pass: pending bit and frames left
  confirmed, \* forwards answered delivered
  reported,  \* <<daemon, peer, event>> a diagnostic says may be missing there
  jobs,      \* deliveries between the mark of the id and the end of the publish
  hollow,    \* <<daemon, event>> called a duplicate while its publish was running
  offers,    \* bag of <<daemon, event>>: the events a router offered its tap
  faults, flaps

workerVars == <<peerQueue, worker, unacked>>
routerVars == <<held, recent, tap, offers>>
inboundVars == <<jobs, hollow>>
meshVars == <<scenario, up, routerVars, workerVars, inboundVars, wire, pass, confirmed, reported, faults, flaps>>

Ways == {w \in Nodes \X Nodes : w[1] # w[2]}
Linked(w) == {w[1], w[2]} \in up
Back(w) == <<w[2], w[1]>>

MeshInit ==
  /\ scenario \in Scenarios
  /\ up = scenario.up
  /\ held = [n \in Nodes |-> {}]
  /\ recent = [n \in Nodes |-> {}]
  /\ tap = [n \in Nodes |-> <<>>]
  /\ offers = EmptyBag
  /\ peerQueue = [w \in Ways |-> <<>>]
  /\ worker = [w \in Ways |-> Nobody]
  /\ unacked = [w \in Ways |-> 0]
  /\ wire = {}
  /\ pass = [w \in Ways |-> Nobody]
  /\ confirmed = {}
  /\ reported = {}
  /\ jobs = {}
  /\ hollow = {}
  /\ faults = 0
  /\ flaps = 0

\* A budgeted fault.
Fault == faults < scenario.faults /\ faults' = faults + 1

\* publish_from: the router holds the event and offers it to the tap.
Publish(n, e, origin) ==
  /\ held' = [held EXCEPT ![n] = @ \cup {e}]
  /\ recent' = [recent EXCEPT ![n] = @ \cup {e}]
  /\ tap' = [tap EXCEPT ![n] = Append(@, [event |-> e, origin |-> origin])]
  /\ offers' = offers (+) SetToBag({<<n, e>>})

\* A scope sends.
PublishLocal(e) ==
  /\ e \notin recent[scenario.home[e]]
  /\ Publish(scenario.home[e], e, Nobody)
  /\ UNCHANGED <<scenario, up, inboundVars, workerVars, wire, pass, confirmed, reported, faults, flaps>>

(***************************************************************************)
(* drain_loop and the workers.                                             *)
(***************************************************************************)
\* One item of the tap goes to the queue of every connected peer but the one
\* it came from; a full queue is reported.
DrainLoop(n) ==
  /\ tap[n] # <<>>
  /\ LET item == Head(tap[n])
         ways == {w \in Ways : w[1] = n /\ Linked(w) /\ w[2] # item.origin}
         fits == {w \in ways : Len(peerQueue[w]) < PeerQueue}
     IN  /\ peerQueue' = [w \in Ways |->
                            IF w \in fits THEN Append(peerQueue[w], item.event) ELSE peerQueue[w]]
         /\ reported' = reported \cup {<<n, w[2], item.event>> : w \in ways \ fits}
  /\ tap' = [tap EXCEPT ![n] = Tail(@)]
  /\ UNCHANGED <<scenario, up, held, recent, offers, inboundVars, worker, unacked, wire, pass, confirmed, faults, flaps>>

\* The worker takes the next item.
PeerWorker(w) ==
  /\ worker[w] = Nobody
  /\ peerQueue[w] # <<>>
  /\ worker' = [worker EXCEPT ![w] = [event |-> Head(peerQueue[w]), attempt |-> 1, awaiting |-> FALSE]]
  /\ peerQueue' = [peerQueue EXCEPT ![w] = Tail(@)]
  /\ UNCHANGED <<scenario, up, routerVars, inboundVars, unacked, wire, pass, confirmed, reported, faults, flaps>>

\* The next attempt of forward_one, or its final diagnostic.
Continue(w) ==
  IF worker[w].attempt < MaxAttempts
  THEN /\ worker' = [worker EXCEPT ![w].attempt = @ + 1, ![w].awaiting = FALSE]
       /\ UNCHANGED reported
  ELSE /\ worker' = [worker EXCEPT ![w] = Nobody]
       /\ reported' = reported \cup {<<w[1], w[2], worker[w].event>>}

\* An attempt: the frame is flushed to the live connection, or there is none.
ForwardOne(w) ==
  /\ worker[w] # Nobody
  /\ ~worker[w].awaiting
  /\ IF Linked(w)
     THEN /\ wire' = wire \cup {[kind |-> "frame", way |-> w, event |-> worker[w].event]}
          /\ unacked' = [unacked EXCEPT ![w] = @ + 1]
          /\ worker' = [worker EXCEPT ![w].awaiting = TRUE]
          /\ UNCHANGED reported
     ELSE Continue(w) /\ UNCHANGED <<wire, unacked>>
  /\ UNCHANGED <<scenario, up, routerVars, inboundVars, peerQueue, pass, confirmed, faults, flaps>>

\* wait_for_ack: an ack for another event, or after the timeout, is nobody's.
WaitForAck(ack) ==
  LET w == Back(ack.way)
  IN  /\ wire' = wire \ {ack}
      /\ IF worker[w] # Nobody /\ worker[w].awaiting /\ worker[w].event = ack.event
         THEN /\ unacked' = [unacked EXCEPT ![w] = 0]
              /\ IF ack.outcome = "failed" THEN Continue(w) /\ UNCHANGED confirmed
                 ELSE /\ worker' = [worker EXCEPT ![w] = Nobody]
                      /\ confirmed' = IF ack.outcome = "delivered"
                                      THEN confirmed \cup {<<w[1], w[2], ack.event>>} ELSE confirmed
                      /\ UNCHANGED reported
         ELSE UNCHANGED <<unacked, worker, confirmed, reported>>
      /\ UNCHANGED <<scenario, up, routerVars, inboundVars, peerQueue, pass, faults, flaps>>

\* The frame of a forward, its delivery or its ack.
OnItsWay(w) ==
  \/ \E msg \in wire : msg.event = worker[w].event /\ msg.way \in {w, Back(w)}
  \/ \E job \in jobs : <<job.from, job.node, job.event, job.source>> = <<w[1], w[2], worker[w].event, "frame">>

\* ack_timeout: there is no ack to come, or it is late.
AckTimeout(w) ==
  /\ worker[w] # Nobody
  /\ worker[w].awaiting
  /\ IF OnItsWay(w) THEN Fault ELSE UNCHANGED faults
  /\ Continue(w)
  /\ UNCHANGED <<scenario, up, routerVars, inboundVars, peerQueue, unacked, wire, pass, confirmed, flaps>>

\* Route refresh drops the connection of a suspect peer.
PurgeSuspect(w) ==
  /\ Linked(w)
  /\ unacked[w] >= SuspectAfter
  /\ up' = up \ {{w[1], w[2]}}
  /\ unacked' = [unacked EXCEPT ![w] = 0]
  /\ wire' = {msg \in wire : msg.way \notin {w, Back(w)}}
  /\ UNCHANGED <<scenario, routerVars, inboundVars, peerQueue, worker, pass, confirmed, reported, faults, flaps>>

(***************************************************************************)
(* The inbound bridge.                                                     *)
(***************************************************************************)
\* The pass ends: at once again if a connection arrived meanwhile.
EndPass(w) ==
  pass' = [pass EXCEPT ![w] =
             IF pass[w].pending THEN [pending |-> FALSE, left |-> Nobody] ELSE Nobody]

\* The verdict on a frame: an ack to its sender, or the next frame of the pass.
Verdict(job, outcome, others) ==
  LET w == <<job.node, job.from>>
  IN  IF job.source = "frame"
      THEN /\ wire' = others \cup
                IF Linked(w) THEN {[kind |-> "ack", way |-> w, event |-> job.event, outcome |-> outcome]}
                             ELSE {}
           /\ UNCHANGED <<pass, reported>>
      ELSE /\ wire' = others
           /\ IF outcome = "delivered"
              THEN pass' = [pass EXCEPT ![w].left = @ \ {job.event}] /\ UNCHANGED reported
              ELSE /\ EndPass(w)
                   /\ reported' = reported \cup {<<job.from, job.node, e>> : e \in pass[w].left}

Stored(n) == IF n \in scenario.bound THEN "delivered" ELSE "unknown_channel"

\* Slip: a duplicate is offered to the tap again.
DuplicateForwarded(job, others) ==
  /\ job.event \in recent[job.node]
  /\ Publish(job.node, job.event, job.from)
  /\ Verdict(job, Stored(job.node), others)
  /\ UNCHANGED inboundVars

\* publish_if_new_from of a marked id: the copy that is there, or is being
\* published, stands for this one.
Duplicate(job, others) ==
  /\ job.event \in recent[job.node]
  /\ hollow' = IF \E j \in jobs : j.node = job.node /\ j.event = job.event
               THEN hollow \cup {<<job.node, job.event>>} ELSE hollow
  /\ Verdict(job, Stored(job.node), others)
  /\ UNCHANGED <<routerVars, jobs>>

\* deliver, up to the first await: the id is marked.
Deliver(job, others) ==
  /\ \A j \in jobs : <<j.node, j.from, j.source>> # <<job.node, job.from, job.source>>
  /\ \/ Duplicate(job, others)
     \/ /\ job.event \notin recent[job.node]
        /\ recent' = [recent EXCEPT ![job.node] = @ \cup {job.event}]
        /\ jobs' = jobs \cup {job}
        /\ wire' = others
        /\ UNCHANGED <<held, tap, offers, hollow, pass, reported>>
  /\ UNCHANGED <<scenario, up, workerVars, confirmed, faults, flaps>>

\* Slip: the id of a failed publish stays marked.
UnmarkNot(job) == UNCHANGED recent

Unmark(job) == recent' = [recent EXCEPT ![job.node] = @ \ {job.event}]

\* The publish ends, or fails and unmarks the id.
DeliverEnds(job) ==
  /\ jobs' = jobs \ {job}
  /\ \/ /\ Publish(job.node, job.event, job.from)
        /\ Verdict(job, Stored(job.node), wire)
        /\ UNCHANGED faults
     \/ /\ Fault
        /\ Unmark(job)
        /\ Verdict(job, "failed", wire)
        /\ UNCHANGED <<held, tap, offers>>
  /\ UNCHANGED <<scenario, up, workerVars, hollow, confirmed, flaps>>

\* The ingest loop of a connection takes a frame.
ReceiveFrame(frame) ==
  Deliver([node |-> frame.way[2], from |-> frame.way[1], event |-> frame.event, source |-> "frame"],
          wire \ {frame})

\* A frame or an ack is lost.
LoseMessage(msg) ==
  /\ Fault
  /\ wire' = wire \ {msg}
  /\ UNCHANGED <<scenario, up, routerVars, inboundVars, workerVars, pass, confirmed, reported, flaps>>

(***************************************************************************)
(* Connections and backfill.                                               *)
(***************************************************************************)
\* Slip: a connection arriving during a pass is taken to be covered by it.
RequestBackfillOnce(w) ==
  IF pass[w] = Nobody THEN [pending |-> FALSE, left |-> Nobody] ELSE pass[w]

\* request_backfill: a pass, or another one once the present pass ends.
RequestBackfill(w) ==
  IF pass[w] = Nobody THEN [pending |-> FALSE, left |-> Nobody] ELSE [pass[w] EXCEPT !.pending = TRUE]

\* Discovery connects a link: both ends ask the other for its history.
Connect(link) ==
  /\ link \notin up
  /\ up' = up \cup {link}
  /\ pass' = [w \in Ways |-> IF {w[1], w[2]} = link THEN RequestBackfill(w) ELSE pass[w]]
  /\ UNCHANGED <<scenario, routerVars, inboundVars, workerVars, wire, confirmed, reported, faults, flaps>>

\* A connection drops, with what was on it.
Disconnect(link) ==
  /\ link \in up
  /\ flaps < scenario.flaps
  /\ flaps' = flaps + 1
  /\ up' = up \ {link}
  /\ wire' = {msg \in wire : {msg.way[1], msg.way[2]} # link}
  /\ UNCHANGED <<scenario, routerVars, inboundVars, workerVars, pass, confirmed, reported, faults>>

\* backfill_all_from_peer asks for the history of the channels it has a scope
\* on; without a connection the pass just ends, and a peer that cannot answer
\* leaves it incomplete.
BackfillPage(w) ==
  /\ pass[w] # Nobody
  /\ pass[w].left = Nobody
  /\ IF ~Linked(w) \/ w[1] \notin scenario.bound
     THEN EndPass(w) /\ UNCHANGED <<reported, faults>>
     ELSE \/ /\ w[2] \in scenario.bound
             /\ pass' = [pass EXCEPT ![w].left = held[w[2]]]
             /\ UNCHANGED <<reported, faults>>
          \/ /\ IF w[2] \in scenario.bound THEN Fault ELSE UNCHANGED faults
             /\ EndPass(w)
             /\ reported' = reported \cup {<<w[2], w[1], e>> : e \in DOMAIN scenario.home}
  /\ UNCHANGED <<scenario, up, routerVars, inboundVars, workerVars, wire, confirmed, flaps>>

\* The frames of the page are delivered one by one.
BackfillDeliver(w) ==
  /\ pass[w] # Nobody
  /\ pass[w].left \notin {Nobody, {}}
  /\ \E e \in pass[w].left :
       Deliver([node |-> w[1], from |-> w[2], event |-> e, source |-> "page"], wire)

BackfillSettled(w) ==
  /\ pass[w] # Nobody
  /\ pass[w].left = {}
  /\ EndPass(w)
  /\ UNCHANGED <<scenario, up, routerVars, inboundVars, workerVars, wire, confirmed, reported, faults, flaps>>

ForwarderStep ==
  \/ \E n \in Nodes : DrainLoop(n)
  \/ \E w \in Ways :
       \/ PeerWorker(w) \/ ForwardOne(w) \/ AckTimeout(w) \/ BackfillPage(w)
       \/ BackfillDeliver(w) \/ BackfillSettled(w)
  \/ \E job \in jobs : DeliverEnds(job)
  \/ \E msg \in wire :
       \/ msg.kind = "frame" /\ ReceiveFrame(msg)
       \/ msg.kind = "ack" /\ WaitForAck(msg)
  \/ \E link \in scenario.links : Connect(link)

MeshNext ==
  \/ \E e \in DOMAIN scenario.home : PublishLocal(e)
  \/ ForwarderStep
  \/ \E w \in Ways : PurgeSuspect(w)
  \/ \E msg \in wire : LoseMessage(msg)
  \/ \E link \in scenario.links : Disconnect(link)

\* Tasks and timers run, and discovery redials what is down.
MeshSpec == MeshInit /\ [][MeshNext]_meshVars /\ WF_meshVars(ForwarderStep)

(***************************************************************************)
(* Properties.                                                             *)
(***************************************************************************)
\* Truthful delivery: a forward answered delivered is held by the router of the
\* peer, on a machine with a scope on the channel, whatever failed, was retried
\* or came by backfill first; only an answer given for a publish that is still
\* running (DuplicateHasCopy of EventRouter) is not covered.
ConfirmedIsHeld ==
  \A c \in confirmed :
    c[2] \in scenario.bound /\ (c[3] \in held[c[2]] \/ <<c[2], c[3]>> \in hollow)

\* A terminating flood: a router offers an event to its tap once, so retries,
\* echoes and backfill never start it round the mesh again.
OfferedOnce == \A o \in BagToSet(offers) : offers[o] = 1

\* In the end connected daemons with a scope hold each other's events, but for what some
\* diagnostic named: a queue that was full, a forward given up, a pass that did
\* not complete.  Nothing is dropped silently, and the mesh comes to rest.
MeshConverges ==
  <>[]\A w \in Ways : Linked(w) /\ w[2] \in scenario.bound =>
        \A e \in held[w[1]] :
          e \in held[w[2]] \/ <<w[1], w[2], e>> \in reported \/ <<w[2], e>> \in hollow
=============================================================================
