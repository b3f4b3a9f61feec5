----------------------------- MODULE MeshProofs -----------------------------
(***************************************************************************)
(* A terminating flood and truthful acks, for every mesh: any number of    *)
(* daemons, links, events, faults and flaps, any queue and retry limits.   *)
(*                                                                         *)
(* The inductive invariant ties the ids a router has marked to the events  *)
(* it holds and the publishes still running: an id is marked exactly while *)
(* one of the two is there, and never for both.                            *)
(***************************************************************************)
EXTENDS MeshForward, AddressedSwitch, TLAPS

\* Everything on the wire runs between two daemons, and so does a delivery.
MeshTypeOK ==
  /\ scenario \in Scenarios
  /\ DOMAIN held = Nodes
  /\ DOMAIN recent = Nodes
  /\ \A msg \in wire : msg.way \in Ways
  /\ \A job \in jobs : <<job.node, job.from>> \in Ways

\* Daemon n is publishing e.
Running(n, e) == \E job \in jobs : job.node = n /\ job.event = e

\* The mark of an id: set by the publish that runs or by the one that ended, and
\* one publish of an id runs at a time.
Marked ==
  /\ \A n \in Nodes : \A e \in recent[n] : e \in held[n] \/ Running(n, e)
  /\ \A n \in Nodes : \A e \in held[n] : e \in recent[n] /\ ~Running(n, e)
  /\ \A job \in jobs : job.event \in recent[job.node]
  /\ \A j, k \in jobs : j.node = k.node /\ j.event = k.event => j = k

\* What the tap was offered is held.
OfferedIsHeld == \A n \in Nodes : \A e : <<n, e>> \in BagToSet(offers) => e \in held[n]

Has(n, e) == n \in scenario.bound /\ (e \in held[n] \/ <<n, e>> \in hollow)

\* An ack on its way says what is so at its sender.
AckIsTrue ==
  \A msg \in wire :
    msg.kind = "ack" /\ msg.outcome = "delivered" => Has(msg.way[1], msg.event)

MeshInv ==
  /\ MeshTypeOK
  /\ Marked
  /\ OfferedIsHeld
  /\ OfferedOnce
  /\ AckIsTrue
  /\ ConfirmedIsHeld

(***************************************************************************)
(* One more offer in the bag.                                              *)
(***************************************************************************)
LEMMA OneMore ==
  ASSUME NEW B, NEW x, x \notin BagToSet(B), \A o \in BagToSet(B) : B[o] = 1
  PROVE  LET C == B (+) SetToBag({x})
         IN  BagToSet(C) = BagToSet(B) \cup {x} /\ \A o \in BagToSet(C) : C[o] = 1
<1> DEFINE C == B (+) SetToBag({x})
<1>1. BagToSet(C) = BagToSet(B) \cup {x}
  BY Zenon DEF BagToSet, SetToBag, (+)
<1>2. ASSUME NEW o \in BagToSet(C)
      PROVE  C[o] = 1
  <2>1. CASE o = x
    BY <2>1 DEF BagToSet, SetToBag, (+)
  <2>2. CASE o # x
    BY <1>1, <2>2 DEF BagToSet, SetToBag, (+)
  <2> QED
    BY Zenon, <2>1, <2>2
<1> QED
  BY Zenon, <1>1, <1>2

\* No router holds or offers anything yet.
LEMMA MeshInitially == MeshInit => MeshInv
BY Zenon DEF MeshInit, MeshInv, MeshTypeOK, Marked, Running, OfferedIsHeld, OfferedOnce, AckIsTrue,
       ConfirmedIsHeld, EmptyBag, SetToBag, BagToSet

(***************************************************************************)
(* Publishing.                                                             *)
(***************************************************************************)
\* publish_from of an event the router does not hold, and that no other delivery
\* is publishing once it ends: it is offered for the first time.
LEMMA PublishKeeps ==
  ASSUME MeshInv, NEW n \in Nodes, NEW e, NEW origin, e \notin held[n],
         Publish(n, e, origin), jobs' = {job \in jobs : ~(job.node = n /\ job.event = e)}
  PROVE  /\ DOMAIN held' = Nodes /\ DOMAIN recent' = Nodes
         /\ held' = [held EXCEPT ![n] = @ \cup {e}]
         /\ Marked' /\ OfferedIsHeld' /\ OfferedOnce'
<1> USE DEF MeshInv, MeshTypeOK
<1>1. /\ held' = [held EXCEPT ![n] = @ \cup {e}]
      /\ recent' = [recent EXCEPT ![n] = @ \cup {e}]
      /\ offers' = offers (+) SetToBag({<<n, e>>})
  BY Zenon DEF Publish
<1>2. <<n, e>> \notin BagToSet(offers)
  BY Zenon DEF OfferedIsHeld
<1>3. BagToSet(offers') = BagToSet(offers) \cup {<<n, e>>} /\ OfferedOnce'
  BY <1>1, <1>2, OneMore DEF OfferedOnce
<1>4. OfferedIsHeld'
  BY Zenon, <1>1, <1>3 DEF OfferedIsHeld
<1>5. Marked'
  BY <1>1 DEF Marked, Running
<1> QED
  BY Zenon, <1>1, <1>3, <1>4, <1>5

\* A scope sends an event whose id is not marked.
LEMMA PublishLocalKeeps ==
  ASSUME MeshInv, NEW e \in DOMAIN scenario.home, PublishLocal(e)
  PROVE  MeshInv'
<1> DEFINE n == scenario.home[e]
<1> USE DEF MeshInv, MeshTypeOK, PublishLocal, inboundVars
<1>1. n \in Nodes
  BY Zenon, MeshAssumption
<1>2. e \notin held[n] /\ jobs' = {job \in jobs : ~(job.node = n /\ job.event = e)}
  BY <1>1 DEF Marked
<1>3. /\ DOMAIN held' = Nodes /\ DOMAIN recent' = Nodes
      /\ held' = [held EXCEPT ![n] = @ \cup {e}]
      /\ Marked' /\ OfferedIsHeld' /\ OfferedOnce'
  BY Zenon, <1>1, <1>2, PublishKeeps
<1>4. MeshTypeOK'
  BY Zenon, <1>3
<1>5. AckIsTrue' /\ ConfirmedIsHeld'
  BY Zenon, <1>1, <1>3, MeshAssumption DEF AckIsTrue, ConfirmedIsHeld, Has
<1> QED
  BY Zenon, <1>3, <1>4, <1>5

(***************************************************************************)
(* The inbound bridge.                                                     *)
(***************************************************************************)
\* The verdict adds at most one ack, from the daemon the delivery is at.
LEMMA VerdictAcks ==
  ASSUME NEW job, NEW outcome, NEW others, Verdict(job, outcome, others)
  PROVE  \A msg \in wire' :
           \/ msg \in others
           \/ /\ msg.way = <<job.node, job.from>> /\ msg.event = job.event
              /\ msg.outcome = outcome
BY DEF Verdict

\* deliver of a marked id: the answer stands on what the router holds, or on the
\* publish that is running and is remembered as such; and of a new id, which
\* nothing holds and nobody is publishing.
LEMMA DeliverKeeps ==
  ASSUME MeshInv, NEW job, NEW others, others \subseteq wire,
         <<job.node, job.from>> \in Ways, Deliver(job, others)
  PROVE  MeshInv'
<1> USE DEF MeshInv, MeshTypeOK
<1>1. job.node \in Nodes
  BY Zenon DEF Ways
<1>2. UNCHANGED <<scenario, confirmed, held, offers>>
  BY Zenon DEF Deliver, Duplicate, routerVars
<1>3. OfferedIsHeld' /\ OfferedOnce'
  BY Zenon, <1>2 DEF OfferedIsHeld, OfferedOnce
<1>4. CASE Duplicate(job, others)
  <2>1. /\ recent' = recent /\ jobs' = jobs /\ hollow \subseteq hollow'
        /\ job.event \in held[job.node] \/ <<job.node, job.event>> \in hollow'
    BY Zenon, <1>1, <1>4 DEF Duplicate, routerVars, Marked, Running
  <2>2. \A msg \in wire' :
          \/ msg \in wire
          \/ /\ msg.way = <<job.node, job.from>> /\ msg.event = job.event
             /\ msg.outcome = Stored(job.node)
    BY <1>4, VerdictAcks DEF Duplicate
  <2>3. MeshTypeOK'
    BY Zenon, <1>2, <2>1, <2>2
  <2>4. Marked'
    BY <1>2, <2>1 DEF Marked, Running
  <2>5. AckIsTrue'
    BY <1>2, <2>1, <2>2 DEF AckIsTrue, Has, Stored
  <2>6. ConfirmedIsHeld'
    BY Zenon, <1>2, <2>1 DEF ConfirmedIsHeld
  <2> QED
    BY Zenon, <1>3, <2>3, <2>4, <2>5, <2>6
<1>5. CASE ~Duplicate(job, others)
  <2>1. /\ job.event \notin recent[job.node]
        /\ recent' = [recent EXCEPT ![job.node] = @ \cup {job.event}]
        /\ jobs' = jobs \cup {job}
        /\ wire' = others /\ hollow' = hollow
    BY Zenon, <1>5 DEF Deliver
  <2>2. MeshTypeOK'
    BY Zenon, <1>1, <1>2, <2>1
  <2>3. \A n \in Nodes : \A e : Running(n, e)' <=> Running(n, e) \/ (n = job.node /\ e = job.event)
    BY Zenon, <2>1 DEF Running
  <2>4. Marked'
    BY <1>1, <1>2, <2>1, <2>3 DEF Marked
  <2>5. AckIsTrue' /\ ConfirmedIsHeld'
    BY Zenon, <1>2, <2>1 DEF AckIsTrue, ConfirmedIsHeld, Has
  <2> QED
    BY Zenon, <1>3, <2>2, <2>4, <2>5
<1> QED
  BY Zenon, <1>4, <1>5

\* The end of a delivery: what was running is held and is offered for the first
\* time, or its mark is taken back and nothing of it stays.
LEMMA DeliverEndsKeeps ==
  ASSUME MeshInv, NEW job \in jobs, DeliverEnds(job)
  PROVE  MeshInv'
<1> USE DEF MeshInv, MeshTypeOK
<1>1. job.node \in Nodes /\ <<job.node, job.from>> \in Ways
  BY Zenon DEF Ways
<1>2. UNCHANGED <<scenario, confirmed, hollow>> /\ jobs' = jobs \ {job}
  BY Zenon DEF DeliverEnds
<1>3. job.event \notin held[job.node]
  BY <1>1 DEF Marked, Running
<1>4. jobs' = {j \in jobs : ~(j.node = job.node /\ j.event = job.event)}
  BY Zenon, <1>2 DEF Marked
<1>5. CASE Publish(job.node, job.event, job.from) /\ Verdict(job, Stored(job.node), wire)
  <2>1. /\ DOMAIN held' = Nodes /\ DOMAIN recent' = Nodes
        /\ held' = [held EXCEPT ![job.node] = @ \cup {job.event}]
        /\ Marked' /\ OfferedIsHeld' /\ OfferedOnce'
    BY Zenon, <1>1, <1>3, <1>4, <1>5, PublishKeeps
  <2>2. \A msg \in wire' :
          \/ msg \in wire
          \/ /\ msg.way = <<job.node, job.from>> /\ msg.event = job.event
             /\ msg.outcome = Stored(job.node)
    BY Zenon, <1>5, VerdictAcks
  <2>3. MeshTypeOK'
    BY Zenon, <1>1, <1>2, <2>1, <2>2
  <2>4. AckIsTrue'
    BY <1>1, <1>2, <2>1, <2>2 DEF AckIsTrue, Has, Stored
  <2>5. ConfirmedIsHeld'
    BY ZenonT(30), <1>1, <1>2, <2>1, MeshAssumption DEF ConfirmedIsHeld
  <2> QED
    BY Zenon, <2>1, <2>3, <2>4, <2>5
<1>6. CASE Unmark(job) /\ Verdict(job, "failed", wire) /\ UNCHANGED <<held, tap, offers>>
  <2>1. recent' = [recent EXCEPT ![job.node] = @ \ {job.event}]
    BY Zenon, <1>6 DEF Unmark
  <2>2. \A msg \in wire' :
          msg \in wire \/ (msg.way = <<job.node, job.from>> /\ msg.outcome = "failed")
    BY <1>6, VerdictAcks
  <2>3. MeshTypeOK'
    BY <1>1, <1>2, <1>6, <2>1, <2>2
  <2>4. Marked'
    BY <1>1, <1>3, <1>4, <1>6, <2>1 DEF Marked, Running
  <2>5. OfferedIsHeld' /\ OfferedOnce' /\ ConfirmedIsHeld'
    BY Zenon, <1>2, <1>6 DEF OfferedIsHeld, OfferedOnce, ConfirmedIsHeld
  <2>6. AckIsTrue'
    BY Zenon, <1>2, <1>6, <2>2 DEF AckIsTrue, Has
  <2> QED
    BY Zenon, <2>3, <2>4, <2>5, <2>6
<1> QED
  BY Zenon, <1>5, <1>6 DEF DeliverEnds

(***************************************************************************)
(* The forwarder, backfill and the connections.                            *)
(***************************************************************************)
\* A step that leaves the routers and the bridge alone and puts nothing but
\* frames on the wire.
LEMMA OthersKeep ==
  ASSUME MeshInv, UNCHANGED <<scenario, held, recent, offers, jobs, hollow, confirmed>>,
         \A msg \in wire' : msg \in wire \/ (msg.kind = "frame" /\ msg.way \in Ways)
  PROVE  MeshInv'
BY DEF MeshInv, MeshTypeOK, Marked, Running, OfferedIsHeld, OfferedOnce, AckIsTrue, Has,
       ConfirmedIsHeld

\* An ack the worker was waiting for: what it says is so.
LEMMA WaitForAckKeeps ==
  ASSUME MeshInv, NEW ack \in wire, ack.kind = "ack", WaitForAck(ack)
  PROVE  MeshInv'
<1> USE DEF MeshInv, MeshTypeOK
<1>1. UNCHANGED <<scenario, held, recent, offers, jobs, hollow>> /\ wire' \subseteq wire
  BY Zenon DEF WaitForAck, routerVars, inboundVars
<1>2. \/ confirmed' = confirmed
      \/ /\ ack.outcome = "delivered"
         /\ confirmed' = confirmed \cup {<<ack.way[2], ack.way[1], ack.event>>}
  BY Zenon DEF WaitForAck, Back
<1>3. ack.outcome = "delivered" => Has(ack.way[1], ack.event)
  BY Zenon DEF AckIsTrue
<1>4. ASSUME NEW c \in confirmed'
      PROVE  Has(c[2], c[3])
  <2>1. CASE c \in confirmed
    BY Zenon, <2>1 DEF ConfirmedIsHeld, Has
  <2>2. CASE c \notin confirmed
    <3>1. c = <<ack.way[2], ack.way[1], ack.event>> /\ ack.outcome = "delivered"
      BY Zenon, <1>2, <2>2
    <3>2. c[2] = ack.way[1] /\ c[3] = ack.event
      BY Zenon, <3>1
    <3> QED
      BY Zenon, <1>3, <3>1, <3>2
  <2> QED
    BY Zenon, <2>1, <2>2
<1>5. ConfirmedIsHeld'
  BY Zenon, <1>1, <1>4 DEF ConfirmedIsHeld, Has
<1>6. MeshTypeOK' /\ Marked' /\ OfferedIsHeld' /\ OfferedOnce' /\ AckIsTrue'
  BY <1>1 DEF Marked, Running, OfferedIsHeld, OfferedOnce, AckIsTrue, Has
<1> QED
  BY Zenon, <1>5, <1>6

\* Every step of the routers and the links keeps MeshInv.
LEMMA MeshStep ==
  ASSUME MeshInv, [MeshNext]_meshVars
  PROVE  MeshInv'
<1> DEFINE Quiet == /\ UNCHANGED <<scenario, held, recent, offers, jobs, hollow, confirmed>>
                    /\ \A msg \in wire' : msg \in wire \/ (msg.kind = "frame" /\ msg.way \in Ways)
<1>1. CASE UNCHANGED meshVars
  <2>1. Quiet
    BY Zenon, <1>1 DEF meshVars, routerVars, inboundVars
  <2> QED
    BY Zenon, <2>1, OthersKeep
<1>2. ASSUME NEW n \in Nodes, DrainLoop(n)
      PROVE  Quiet
  BY Zenon, <1>2 DEF DrainLoop, inboundVars
<1>3. ASSUME NEW w \in Ways,
             PeerWorker(w) \/ ForwardOne(w) \/ AckTimeout(w) \/ BackfillPage(w)
               \/ BackfillSettled(w) \/ PurgeSuspect(w)
      PROVE  Quiet
  <2>1. CASE ForwardOne(w)
    BY <2>1 DEF ForwardOne, routerVars, inboundVars
  <2>2. CASE PeerWorker(w) \/ AckTimeout(w)
    BY Zenon, <2>2 DEF PeerWorker, AckTimeout, routerVars, inboundVars
  <2>3. CASE BackfillPage(w) \/ BackfillSettled(w)
    BY Zenon, <2>3 DEF BackfillPage, BackfillSettled, routerVars, inboundVars
  <2>4. CASE PurgeSuspect(w)
    BY Zenon, <2>4 DEF PurgeSuspect, routerVars, inboundVars
  <2> QED
    BY Zenon, <1>3, <2>1, <2>2, <2>3, <2>4
<1>4. ASSUME NEW link, Connect(link) \/ Disconnect(link)
      PROVE  Quiet
  BY Zenon, <1>4 DEF Connect, Disconnect, routerVars, inboundVars
<1>5. ASSUME NEW msg \in wire, LoseMessage(msg)
      PROVE  Quiet
  BY Zenon, <1>5 DEF LoseMessage, routerVars, inboundVars
<1>6. ASSUME NEW w \in Ways, BackfillDeliver(w)
      PROVE  MeshInv'
  <2>1. PICK e \in pass[w].left :
          Deliver([node |-> w[1], from |-> w[2], event |-> e, source |-> "page"], wire)
    BY Zenon, <1>6 DEF BackfillDeliver
  <2>2. <<w[1], w[2]>> \in Ways
    BY Zenon DEF Ways
  <2> QED
    BY Zenon, <2>1, <2>2, DeliverKeeps
<1>7. ASSUME NEW msg \in wire, msg.kind = "frame", ReceiveFrame(msg)
      PROVE  MeshInv'
  <2>1. <<msg.way[2], msg.way[1]>> \in Ways
    BY Zenon DEF MeshInv, MeshTypeOK, Ways
  <2> QED
    BY Zenon, <1>7, <2>1, DeliverKeeps DEF ReceiveFrame
<1>8. Quiet => MeshInv'
  BY Zenon, OthersKeep
<1> HIDE DEF Quiet
<1>9. CASE ForwarderStep
  <2>1. ASSUME NEW n \in Nodes, DrainLoop(n) PROVE MeshInv'
    BY Zenon, <1>2, <1>8, <2>1
  <2>2. ASSUME NEW w \in Ways,
               \/ PeerWorker(w) \/ ForwardOne(w) \/ AckTimeout(w) \/ BackfillPage(w)
               \/ BackfillDeliver(w) \/ BackfillSettled(w)
        PROVE  MeshInv'
    BY Zenon, <1>3, <1>6, <1>8, <2>2
  <2>3. ASSUME NEW job \in jobs, DeliverEnds(job) PROVE MeshInv'
    BY Zenon, <2>3, DeliverEndsKeeps
  <2>4. ASSUME NEW msg \in wire,
               \/ msg.kind = "frame" /\ ReceiveFrame(msg)
               \/ msg.kind = "ack" /\ WaitForAck(msg)
        PROVE  MeshInv'
    BY Zenon, <1>7, <2>4, WaitForAckKeeps
  <2>5. ASSUME NEW link \in scenario.links, Connect(link) PROVE MeshInv'
    BY Zenon, <1>4, <1>8, <2>5
  <2> QED
    BY Zenon, <1>9, <2>1, <2>2, <2>3, <2>4, <2>5 DEF ForwarderStep
<1>10. CASE MeshNext /\ ~ForwarderStep
  <2>1. ASSUME NEW e \in DOMAIN scenario.home, PublishLocal(e) PROVE MeshInv'
    BY Zenon, <2>1, PublishLocalKeeps
  <2> QED
    BY Zenon, <1>3, <1>4, <1>5, <1>8, <1>10, <2>1 DEF MeshNext
<1> QED
  BY Zenon, <1>1, <1>9, <1>10

\* The inductive invariant of the mesh.
THEOREM MeshInvariant == MeshSpec => []MeshInv
BY MeshInitially, MeshStep, PTL DEF MeshSpec

\* A router offers an event to its tap once (OfferedOnce), so the flood ends
\* whatever is retried, echoed or backfilled: the mark of an id outlives the
\* offer, and is taken back only by a publish that failed before it.
THEOREM FloodTerminates == MeshSpec => []OfferedOnce
<1>1. MeshInv => OfferedOnce
  BY Zenon DEF MeshInv
<1> QED
  BY <1>1, MeshInvariant, PTL

\* A forward answered delivered is held by the peer, or the answer was given for
\* a publish still running there (ConfirmedIsHeld).
THEOREM AcksAreTrue == MeshSpec => []ConfirmedIsHeld
<1>1. MeshInv => ConfirmedIsHeld
  BY Zenon DEF MeshInv
<1> QED
  BY <1>1, MeshInvariant, PTL

(***************************************************************************)
(* The addressed switch: one lease per receiver, for every number of       *)
(* receivers, connections and frames and every limit of the switch.        *)
(***************************************************************************)
\* The parts of the switch the leases depend on.
SwitchTypeOK ==
  /\ entries \in [Receivers -> Connections \cup {NoLease}]
  /\ serving \in [Connections -> {"new", "leased", "closed"}]
  /\ inbox \in [Connections -> Seq(Frames)]
  /\ writing \in [Connections -> Frames \cup {NoLease}]

\* Registered means leased by a connection of that receiver, and the other way
\* round; a connection without a lease holds no frame.
SwitchInv == SwitchTypeOK /\ LeaseOwnsEntry

\* The switch starts with nothing registered and nothing in flight.
LEMMA SwitchInitially == SwitchInit => SwitchInv
  BY SwitchAssumption DEF SwitchInit, SwitchInv, SwitchTypeOK, LeaseOwnsEntry, Owned

\* register refuses a receiver that is owned, so the entry it writes was free and
\* no other connection of that client is leased (addressed_switch.rs, register).
LEMMA RegisterKeeps ==
  ASSUME SwitchInv, NEW c \in Connections, Register(c)
  PROVE  SwitchInv'
<1>1. Client[c] \in Receivers /\ c # NoLease
  BY Zenon, SwitchAssumption
<1>2. inbox' = inbox /\ writing' = writing /\ serving[c] = "new"
  BY Zenon DEF Register
<1>3. CASE Client[c] \in Owned \/ Cardinality(Owned) >= ReceiverLimit
  <2>1. serving' = [serving EXCEPT ![c] = "closed"] /\ entries' = entries
    BY Zenon, <1>3 DEF Register
  <2>2. \A p \in Owned : entries[p] # c
    BY Zenon, <1>2 DEF SwitchInv, LeaseOwnsEntry
  <2> QED
    BY <1>2, <2>1, <2>2 DEF SwitchInv, SwitchTypeOK, LeaseOwnsEntry, Owned
<1>4. CASE ~(Client[c] \in Owned \/ Cardinality(Owned) >= ReceiverLimit)
  <2>1. /\ serving' = [serving EXCEPT ![c] = "leased"]
        /\ entries' = [entries EXCEPT ![Client[c]] = c]
    BY Zenon, <1>4 DEF Register
  <2>2. entries[Client[c]] = NoLease
    BY Zenon, <1>1, <1>4 DEF Owned
  <2>3. \A d \in Connections : serving[d] = "leased" => Client[d] # Client[c]
    BY Zenon, <2>2, SwitchAssumption DEF SwitchInv, LeaseOwnsEntry
  <2>4. SwitchTypeOK'
    BY Zenon, <1>1, <1>2, <2>1 DEF SwitchInv, SwitchTypeOK
  <2>5. \A p \in Receivers : entries'[p] # NoLease =>
          serving'[entries'[p]] = "leased" /\ Client[entries'[p]] = p
    BY <1>1, <1>2, <2>1 DEF SwitchInv, SwitchTypeOK, LeaseOwnsEntry, Owned
  <2>6. \A d \in Connections : serving'[d] = "leased" => entries'[Client[d]] = d
    BY <1>1, <2>1, <2>3, SwitchAssumption DEF SwitchInv, SwitchTypeOK, LeaseOwnsEntry
  <2>7. \A d \in Connections : serving'[d] # "leased" => inbox'[d] = <<>> /\ writing'[d] = NoLease
    BY Zenon, <1>2, <2>1 DEF SwitchInv, SwitchTypeOK, LeaseOwnsEntry
  <2> QED
    BY Zenon, <2>4, <2>5, <2>6, <2>7 DEF SwitchInv, LeaseOwnsEntry, Owned
<1> QED
  BY Zenon, <1>3, <1>4

\* A connection that ends takes its own entry, queue and frame with it and leaves
\* those of others alone (Drop for ReceiverLease).
LEMMA CloseKeeps ==
  ASSUME SwitchInv, NEW c \in Connections, Close(c)
  PROVE  SwitchInv'
<1>1. /\ serving' = [serving EXCEPT ![c] = "closed"]
      /\ entries' = [p \in Receivers |-> IF entries[p] = c THEN NoLease ELSE entries[p]]
      /\ inbox' = [inbox EXCEPT ![c] = <<>>]
      /\ writing' = [writing EXCEPT ![c] = NoLease]
  BY Zenon DEF Close
<1>2. SwitchTypeOK'
  BY <1>1 DEF SwitchInv, SwitchTypeOK
<1>3. \A p \in Receivers : entries'[p] # NoLease =>
        serving'[entries'[p]] = "leased" /\ Client[entries'[p]] = p
  BY <1>1 DEF SwitchInv, SwitchTypeOK, LeaseOwnsEntry, Owned
<1>4. \A d \in Connections : serving'[d] = "leased" => entries'[Client[d]] = d
  BY ZenonT(30), <1>1, SwitchAssumption DEF SwitchInv, SwitchTypeOK, LeaseOwnsEntry
<1>5. \A d \in Connections : serving'[d] # "leased" => inbox'[d] = <<>> /\ writing'[d] = NoLease
  BY Zenon, <1>1 DEF SwitchInv, SwitchTypeOK, LeaseOwnsEntry
<1> QED
  BY Zenon, <1>2, <1>3, <1>4, <1>5 DEF SwitchInv, LeaseOwnsEntry, Owned

\* A step that touches only queues and writes of leased connections.
LEMMA FramesKeep ==
  ASSUME SwitchInv,
         UNCHANGED <<entries, serving>>,
         inbox' \in [Connections -> Seq(Frames)],
         writing' \in [Connections -> Frames \cup {NoLease}],
         \A d \in Connections : serving[d] # "leased" =>
           (inbox[d] = <<>> => inbox'[d] = <<>>) /\ (writing[d] = NoLease => writing'[d] = NoLease)
  PROVE  SwitchInv'
  BY Zenon DEF SwitchInv, SwitchTypeOK, LeaseOwnsEntry, Owned

\* A frame enters the inbox of the connection the registry names, which is leased
\* (addressed_switch.rs, under the lock that found the entry).
LEMMA AdmitKeeps ==
  ASSUME SwitchInv, NEW f \in Frames, Admit(f)
  PROVE  SwitchInv'
<1> DEFINE c == entries[Recipient[f]]
<1>1. Recipient[f] \in Receivers /\ c \in Connections \cup {NoLease}
  BY Zenon, SwitchAssumption DEF SwitchInv, SwitchTypeOK
<1>2. UNCHANGED <<entries, serving>> /\ writing' = writing
  BY Zenon DEF Admit
<1>3. inbox' = inbox \/ (c # NoLease /\ inbox' = [inbox EXCEPT ![c] = Append(@, f)])
  BY Zenon DEF Admit
<1>4. c # NoLease => c \in Connections /\ serving[c] = "leased"
  BY Zenon, <1>1 DEF SwitchInv, LeaseOwnsEntry, Owned
<1> HIDE DEF c
<1>5. inbox' \in [Connections -> Seq(Frames)]
  <2>1. \A d \in Connections : Append(inbox[d], f) \in Seq(Frames)
    BY DEF SwitchInv, SwitchTypeOK
  <2> QED
    BY Zenon, <1>3, <1>4, <2>1 DEF SwitchInv, SwitchTypeOK
<1>6. \A d \in Connections : serving[d] # "leased" => inbox'[d] = inbox[d]
  BY Zenon, <1>3, <1>4 DEF SwitchInv, SwitchTypeOK
<1> QED
  BY Zenon, <1>2, <1>5, <1>6, FramesKeep DEF SwitchInv, SwitchTypeOK

\* serve_live takes the next frame of its own queue only.
LEMMA TakeNextKeeps ==
  ASSUME SwitchInv, NEW c \in Connections, TakeNext(c)
  PROVE  SwitchInv'
<1>1. /\ UNCHANGED <<entries, serving>> /\ serving[c] = "leased"
      /\ inbox[c] # <<>> /\ inbox' = [inbox EXCEPT ![c] = Tail(@)]
      /\ writing' = writing \/ writing' = [writing EXCEPT ![c] = Head(inbox[c])]
  BY Zenon DEF TakeNext
<1>2. inbox[c] \in Seq(Frames)
  BY Zenon DEF SwitchInv, SwitchTypeOK
<1>3. Head(inbox[c]) \in Frames /\ Tail(inbox[c]) \in Seq(Frames)
  BY <1>1, <1>2
<1>4. inbox' \in [Connections -> Seq(Frames)] /\ writing' \in [Connections -> Frames \cup {NoLease}]
  BY Zenon, <1>1, <1>3 DEF SwitchInv, SwitchTypeOK
<1>5. \A d \in Connections : serving[d] # "leased" => inbox'[d] = inbox[d] /\ writing'[d] = writing[d]
  BY Zenon, <1>1 DEF SwitchInv, SwitchTypeOK
<1> QED
  BY Zenon, <1>1, <1>4, <1>5, FramesKeep

\* A write that ends leaves its connection with nothing to write.
LEMMA WriteDoneKeeps ==
  ASSUME SwitchInv, NEW c \in Connections, WriteDone(c)
  PROVE  SwitchInv'
<1>1. UNCHANGED <<entries, serving, inbox>> /\ writing' = [writing EXCEPT ![c] = NoLease]
  BY Zenon DEF WriteDone
<1> QED
  BY Zenon, <1>1, FramesKeep DEF SwitchInv, SwitchTypeOK

\* Every step of the switch keeps SwitchInv.
LEMMA SwitchStep ==
  ASSUME SwitchInv, [SwitchNext]_switchVars
  PROVE  SwitchInv'
<1>1. CASE UNCHANGED <<entries, serving, inbox, writing>>
  BY Zenon, <1>1 DEF SwitchInv, SwitchTypeOK, LeaseOwnsEntry, Owned
<1>2. ASSUME NEW c \in Connections,
             TakeNext(c) \/ WriteFails(c) \/ ReadEnds(c) \/ Register(c) \/ HangUp(c) \/ WriteDone(c)
      PROVE  SwitchInv'
  <2>1. CASE TakeNext(c)
    BY Zenon, <2>1, TakeNextKeeps
  <2>2. CASE WriteFails(c) \/ ReadEnds(c)
    BY Zenon, <2>2, CloseKeeps DEF WriteFails, ReadEnds
  <2>3. CASE Register(c)
    BY Zenon, <2>3, RegisterKeeps
  <2>4. CASE HangUp(c)
    BY Zenon, <2>4, <1>1 DEF HangUp
  <2>5. CASE WriteDone(c)
    BY Zenon, <2>5, WriteDoneKeeps
  <2> QED
    BY <1>2, <2>1, <2>2, <2>3, <2>4, <2>5
<1>3. ASSUME NEW f \in Frames,
             ForwardTimeout(f) \/ DeadlineElapses(f) \/ Admit(f) \/ ForwardEnds(f)
      PROVE  SwitchInv'
  <2>1. CASE Admit(f)
    BY Zenon, <2>1, AdmitKeeps
  <2>2. CASE ForwardTimeout(f) \/ ForwardEnds(f) \/ DeadlineElapses(f)
    BY Zenon, <2>2, <1>1 DEF ForwardTimeout, ForwardEnds, DeadlineElapses
  <2> QED
    BY Zenon, <1>3, <2>1, <2>2
<1>4. CASE UNCHANGED switchVars
  BY Zenon, <1>1, <1>4 DEF switchVars
<1> QED
  BY Zenon, <1>2, <1>3, <1>4 DEF SwitchNext, DaemonStep

\* A receiver has at most one live lease, the registered one, and only leased
\* connections hold frames, whatever connections register, end, stall or lose
\* their client in any order (addressed_switch.rs: register, Drop for ReceiverLease).
THEOREM SwitchLeases == SwitchSpec => []LeaseOwnsEntry
<1>1. SwitchInit => SwitchInv
  BY Zenon, SwitchInitially
<1>2. SwitchInv /\ [SwitchNext]_switchVars => SwitchInv'
  BY Zenon, SwitchStep
<1>3. SwitchInv => LeaseOwnsEntry
  BY Zenon DEF SwitchInv
<1> QED
  BY <1>1, <1>2, <1>3, PTL DEF SwitchSpec
=============================================================================
