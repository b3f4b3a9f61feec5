---------------------------- MODULE EventRouter ----------------------------
(***************************************************************************)
(* The owner-core event router without its subscribers: publish and        *)
(* publish_if_new (airc-bus/src/router.rs), the write-behind task          *)
(* (router/write_behind.rs), the generational sequence (seq.rs), the       *)
(* forward tap (router.rs) and a daemon crash followed by a restart.       *)
(*                                                                         *)
(* A publish is an async task that runs to completion or dies with the     *)
(* process.  Each action is one stretch of it that no other task can split:*)
(* a mutex section, one channel operation, one atomic, one sink call.      *)
(* stage[e] is the point the task of e has reached.                        *)
(***************************************************************************)
EXTENDS HotRing, Sequences

CONSTANTS
  Inbound,            \* envelopes that enter through publish_if_new
  Sender,             \* Envs -> publishing peer
  CoalesceKey,        \* Envs -> coalesce_key, NoKey when absent
  NoKey,
  WriteBehindBuffer,  \* slots of the write-behind queue
  MaxBatch,           \* MAX_BATCH
  RecentCapacity,     \* RECENT_PUBLISH_IDS_CAPACITY
  ForwardBuffer,      \* slots of the forward queue
  HasForwarder,       \* whether a route layer ever installs a forward sink
  MaxInFlight,        \* bound: publish tasks running at once
  MaxEpoch            \* bound: daemon starts

ASSUME EventRouterAssumption ==
  /\ Inbound \subseteq Envs
  /\ WriteBehindBuffer \in Nat \ {0}
  /\ MaxBatch \in Nat \ {0}
  /\ RecentCapacity \in Nat \ {0}
  /\ ForwardBuffer \in Nat \ {0}
  /\ HasForwarder \in BOOLEAN
  /\ MaxInFlight \in Nat \ {0}
  /\ MaxEpoch \in Nat \ {0}

VARIABLES
  epoch,      \* persisted epoch, bumped at every start
  counter,    \* SeqSource.counter
  stage,      \* Envs -> Stages
  seqOf,      \* Envs -> owner-stamped seq
  recent,     \* RecentEventIds.order; its range is RecentEventIds.seen
  ring,       \* Rooms -> hot ring
  pushes,     \* Rooms -> pushes so far in this process
  ephemeral,  \* Rooms -> coalesced latest values
  queue,      \* write-behind queue
  writer,     \* write-behind task: "recv", "fill", "append" or "unpin"
  batch,      \* the batch the writer retains
  sink,       \* rows of the durable tier
  forwardTx,  \* whether the forward sink is installed
  forward,    \* forward queue
  latest,     \* ForwardLatest: newest value per forward key
  emitted     \* items the forwarder resolved for the wire

seqVars == <<epoch, counter, seqOf>>
cacheVars == <<ring, pushes, ephemeral>>
writerVars == <<queue, writer, batch>>
forwardVars == <<forwardTx, forward, latest, emitted>>
routerVars == <<seqVars, stage, recent, cacheVars, writerVars, sink, forwardVars>>

(***************************************************************************)
(* Stages of a publish task.                                               *)
(***************************************************************************)
Admitted == {"admitted", "stamped", "recorded", "delivered"}
InFlight == Admitted \cup {"probing", "fresh", "failing", "queued", "put"}
Visible == {"delivered", "queued", "put", "done"}
Stages == InFlight \cup {"new", "done", "rejected", "duplicate", "lost"}

SinkIds == Ids(sink)
Queued == {queue[i] : i \in DOMAIN queue}
Batched == {batch[i] : i \in DOMAIN batch}
RecentIds == {recent[i] : i \in DOMAIN recent}

\* Reserved but not yet filled slots of the write-behind queue.
Permits == {e \in Envs : IsDurable(e) /\ stage[e] \in Admitted}

HasSlot == Len(queue) + Cardinality(Permits) < WriteBehindBuffer

CanRun == Cardinality({e \in Envs : stage[e] \in InFlight}) < MaxInFlight

Init ==
  /\ epoch = 1 /\ counter = 0
  /\ stage = [e \in Envs |-> "new"]
  /\ seqOf = [e \in Envs |-> Unstamped]
  /\ recent = <<>>
  /\ ring = [r \in Rooms |-> {}]
  /\ pushes = [r \in Rooms |-> 0]
  /\ ephemeral = [r \in Rooms |-> {}]
  /\ queue = <<>> /\ writer = "recv" /\ batch = <<>>
  /\ sink = {}
  /\ forwardTx = FALSE /\ forward = <<>> /\ latest = {} /\ emitted = {}

(***************************************************************************)
(* publish_if_new: mark the id, probe the sink, publish or unmark.         *)
(***************************************************************************)
RecentInsert(ids, id) ==
  IF \E i \in DOMAIN ids : ids[i] = id THEN ids
  ELSE IF Len(ids) = RecentCapacity THEN Append(Tail(ids), id)
  ELSE Append(ids, id)

\* seen.remove answers whether order.retain has anything to drop; an id is in
\* the window at most once.
RecentRemove(ids, id) ==
  IF \E i \in DOMAIN ids : ids[i] = id
  THEN LET i == CHOOSE i \in DOMAIN ids : ids[i] = id
       IN  SubSeq(ids, 1, i - 1) \o SubSeq(ids, i + 1, Len(ids))
  ELSE ids

\* A frame arrives, first or again after its sender was told it failed or the
\* daemon died.  The echo of a local publish exists once that publish is over.
Arrives(e) ==
  /\ e \in Inbound
  /\ stage[e] \in {"new", "rejected", "lost"}
  /\ \A f \in Envs \ Inbound :
        EventId[f] = EventId[e] => stage[f] \in {"done", "lost"}
  /\ CanRun

\* Slip: the id is looked up but recorded only when the publish goes through.
MarkNewLate(e) ==
  /\ Arrives(e)
  /\ stage' = [stage EXCEPT ![e] =
                 IF EventId[e] \in RecentIds THEN "duplicate" ELSE "probing"]
  /\ UNCHANGED <<seqVars, recent, cacheVars, writerVars, sink, forwardVars>>

MarkNew(e) ==
  /\ Arrives(e)
  /\ IF EventId[e] \in RecentIds
     THEN stage' = [stage EXCEPT ![e] = "duplicate"]
     ELSE stage' = [stage EXCEPT ![e] = "probing"]
  /\ recent' = RecentInsert(recent, EventId[e])
  /\ UNCHANGED <<seqVars, cacheVars, writerVars, sink, forwardVars>>

ProbeSink(e) ==
  /\ stage[e] = "probing"
  /\ stage' = [stage EXCEPT ![e] =
                 IF EventId[e] \in SinkIds THEN "duplicate" ELSE "fresh"]
  /\ UNCHANGED <<seqVars, recent, cacheVars, writerVars, sink, forwardVars>>

ProbeError(e) ==
  /\ stage[e] = "probing"
  /\ stage' = [stage EXCEPT ![e] = "failing"]
  /\ UNCHANGED <<seqVars, recent, cacheVars, writerVars, sink, forwardVars>>

Unmark(e) ==
  /\ stage[e] = "failing"
  /\ recent' = RecentRemove(recent, EventId[e])
  /\ stage' = [stage EXCEPT ![e] = "rejected"]
  /\ UNCHANGED <<seqVars, cacheVars, writerVars, sink, forwardVars>>

(***************************************************************************)
(* publish_from.                                                           *)
(***************************************************************************)
Ready(e) == IF e \in Inbound THEN stage[e] = "fresh"
                             ELSE stage[e] = "new" /\ CanRun

\* try_reserve before anything is exposed.
Reserve(e) ==
  /\ Ready(e) /\ IsDurable(e) /\ HasSlot
  /\ stage' = [stage EXCEPT ![e] = "admitted"]
  /\ UNCHANGED <<seqVars, recent, cacheVars, writerVars, sink, forwardVars>>

\* WriteBehindSaturated: nothing was mutated; publish_if_new still unmarks.
Shed(e) ==
  /\ Ready(e) /\ IsDurable(e) /\ ~HasSlot
  /\ stage' = [stage EXCEPT ![e] = IF e \in Inbound THEN "failing" ELSE "rejected"]
  /\ UNCHANGED <<seqVars, recent, cacheVars, writerVars, sink, forwardVars>>

\* seq.next(), outside every lock.
Stamp(e) ==
  /\ IF IsDurable(e) THEN stage[e] = "admitted" ELSE Ready(e)
  /\ seqOf' = [seqOf EXCEPT ![e] = <<epoch, counter>>]
  /\ counter' = counter + 1
  /\ stage' = [stage EXCEPT ![e] = "stamped"]
  /\ UNCHANGED <<epoch, recent, cacheVars, writerVars, sink, forwardVars>>

Record(e) ==
  /\ stage[e] = "stamped"
  /\ recent' = RecentInsert(recent, EventId[e])
  /\ stage' = [stage EXCEPT ![e] = "recorded"]
  /\ UNCHANGED <<seqVars, cacheVars, writerVars, sink, forwardVars>>

\* coalesce: overwrite the entry of the same key; an envelope without a key
\* is keyed by its event id.
Coalesce(cache, e) ==
  {f \in cache : \/ CoalesceKey[f] # CoalesceKey[e]
                 \/ CoalesceKey[e] = NoKey /\ EventId[f] # EventId[e]} \cup {e}

\* The locked section: ring or ephemeral cache (fan-out is in BusSubscription).
Deliver(e) ==
  /\ stage[e] = "recorded"
  /\ IF IsEphemeralLatest(e)
     THEN /\ ephemeral' = [ephemeral EXCEPT ![Room[e]] = Coalesce(@, e)]
          /\ UNCHANGED <<ring, pushes>>
     ELSE /\ ring' = [ring EXCEPT ![Room[e]] = Push(@, pushes[Room[e]] + 1, e)]
          /\ pushes' = [pushes EXCEPT ![Room[e]] = @ + 1]
          /\ UNCHANGED ephemeral
  /\ stage' = [stage EXCEPT ![e] =
                 IF Delivery[e] = "live" THEN "done" ELSE "delivered"]
  /\ UNCHANGED <<seqVars, recent, writerVars, sink, forwardVars>>

\* permit.send, off the lock.
Enqueue(e) ==
  /\ IsDurable(e) /\ stage[e] = "delivered"
  /\ queue' = Append(queue, e)
  /\ stage' = [stage EXCEPT ![e] = "queued"]
  /\ UNCHANGED <<seqVars, recent, cacheVars, writer, batch, sink, forwardVars>>

(***************************************************************************)
(* offer_to_forward_sink and the forwarder's end of it.                    *)
(***************************************************************************)
Coalescable(e) == IsEphemeralLatest(e) /\ CoalesceKey[e] # NoKey
ForwardKey(e) == <<Room[e], Sender[e], CoalesceKey[e]>>
SameKey(e) == {f \in latest : ForwardKey(f) = ForwardKey(e)}

Offering(e) == stage[e] = IF IsDurable(e) THEN "queued" ELSE "delivered"

NotOffered(e) ==
  /\ Offering(e) /\ ~forwardTx
  /\ stage' = [stage EXCEPT ![e] = "done"]
  /\ UNCHANGED <<seqVars, recent, cacheVars, writerVars, sink, forwardVars>>

\* The value lands in the map before its wake is enqueued.
PutLatest(e) ==
  /\ Offering(e) /\ forwardTx /\ Coalescable(e)
  /\ latest' = (latest \ SameKey(e)) \cup {e}
  /\ stage' = [stage EXCEPT ![e] = "put"]
  /\ UNCHANGED <<seqVars, recent, cacheVars, writerVars, sink,
                 forwardTx, forward, emitted>>

\* try_send: a full queue drops the item, or for a coalesced one the wake.
SendForward(e) ==
  /\ \/ stage[e] = "put"
     \/ Offering(e) /\ forwardTx /\ ~Coalescable(e)
  /\ forward' = IF Len(forward) < ForwardBuffer THEN Append(forward, e) ELSE forward
  /\ stage' = [stage EXCEPT ![e] = "done"]
  /\ UNCHANGED <<seqVars, recent, cacheVars, writerVars, sink,
                 forwardTx, latest, emitted>>

SetForwardSink ==
  /\ HasForwarder /\ ~forwardTx
  /\ forwardTx' = TRUE
  /\ UNCHANGED <<seqVars, stage, recent, cacheVars, writerVars, sink,
                 forward, latest, emitted>>

\* Slip: the queued item goes on the wire instead of its key's newest value.
ResolveAtEnqueue(e) == {e}

\* What a dequeued item puts on the wire: itself, or its key's newest value.
Resolve(e) == IF Coalescable(e) THEN SameKey(e) ELSE {e}

DrainForward ==
  /\ forward # <<>>
  /\ forward' = Tail(forward)
  /\ emitted' = emitted \cup Resolve(Head(forward))
  /\ latest' = latest \ Resolve(Head(forward))
  /\ UNCHANGED <<seqVars, stage, recent, cacheVars, writerVars, sink, forwardTx>>

(***************************************************************************)
(* run_write_behind.                                                       *)
(***************************************************************************)
\* Slip: the newest queued item is taken first.
WriterRecvNewest ==
  /\ writer = "recv" /\ queue # <<>>
  /\ batch' = <<queue[Len(queue)]>>
  /\ queue' = SubSeq(queue, 1, Len(queue) - 1)
  /\ writer' = "fill"
  /\ UNCHANGED <<seqVars, stage, recent, cacheVars, sink, forwardVars>>

WriterRecv ==
  /\ writer = "recv" /\ queue # <<>>
  /\ batch' = <<Head(queue)>>
  /\ queue' = Tail(queue)
  /\ writer' = "fill"
  /\ UNCHANGED <<seqVars, stage, recent, cacheVars, sink, forwardVars>>

WriterTryRecv ==
  /\ writer = "fill" /\ Len(batch) < MaxBatch /\ queue # <<>>
  /\ batch' = Append(batch, Head(queue))
  /\ queue' = Tail(queue)
  /\ UNCHANGED <<seqVars, stage, recent, cacheVars, writer, sink, forwardVars>>

WriterClose ==
  /\ writer = "fill" /\ (Len(batch) = MaxBatch \/ queue = <<>>)
  /\ writer' = "append"
  /\ UNCHANGED <<seqVars, stage, recent, cacheVars, queue, batch, sink, forwardVars>>

\* Slip: only the last row of the batch reaches the table.
PersistLastRow(rows, q) == IF q = <<>> THEN rows ELSE rows \cup {q[Len(q)]}

\* append is idempotent on event_id: a row whose id is stored is not stored.
Persist(rows, q) ==
  rows \cup {q[i] : i \in {i \in DOMAIN q :
               /\ EventId[q[i]] \notin Ids(rows)
               /\ \A j \in 1..(i - 1) : EventId[q[j]] # EventId[q[i]]}}

AppendOk ==
  /\ writer = "append"
  /\ sink' = Persist(sink, batch)
  /\ writer' = "unpin"
  /\ UNCHANGED <<seqVars, stage, recent, cacheVars, queue, batch, forwardVars>>

\* Slip: a failed batch is treated as confirmed.
AppendErrorUnpins(n) ==
  /\ writer = "append" /\ n \in 0..(Len(batch) - 1)
  /\ sink' = Persist(sink, SubSeq(batch, 1, n))
  /\ writer' = "unpin"
  /\ UNCHANGED <<seqVars, stage, recent, cacheVars, queue, batch, forwardVars>>

\* Slip: a failed batch is dropped.
AppendErrorDropsBatch(n) ==
  /\ writer = "append" /\ n \in 0..(Len(batch) - 1)
  /\ sink' = Persist(sink, SubSeq(batch, 1, n))
  /\ writer' = "recv" /\ batch' = <<>>
  /\ UNCHANGED <<seqVars, stage, recent, cacheVars, queue, forwardVars>>

\* append_batch fails after n rows went in; the same batch is retried.
AppendError(n) ==
  /\ writer = "append"
  /\ n \in 0..(Len(batch) - 1)
  /\ sink' = Persist(sink, SubSeq(batch, 1, n))
  /\ UNCHANGED <<seqVars, stage, recent, cacheVars, writerVars, forwardVars>>

\* One item of the confirmed batch: lock its shard, mark it persisted.
Unpin ==
  /\ writer = "unpin"
  /\ ring' = [ring EXCEPT ![Room[Head(batch)]] =
                MarkPersisted(@, EventId[Head(batch)])]
  /\ batch' = Tail(batch)
  /\ writer' = IF Tail(batch) = <<>> THEN "recv" ELSE "unpin"
  /\ UNCHANGED <<seqVars, stage, recent, pushes, ephemeral, queue, sink, forwardVars>>

(***************************************************************************)
(* The daemon dies and starts again: RAM is lost, the epoch is bumped.     *)
(***************************************************************************)
Restart ==
  /\ epoch < MaxEpoch
  /\ epoch' = epoch + 1
  /\ counter' = 0
  /\ stage' = [e \in Envs |-> IF stage[e] \in InFlight THEN "lost" ELSE stage[e]]
  /\ recent' = <<>>
  /\ ring' = [r \in Rooms |-> {}]
  /\ pushes' = [r \in Rooms |-> 0]
  /\ ephemeral' = [r \in Rooms |-> {}]
  /\ queue' = <<>> /\ writer' = "recv" /\ batch' = <<>>
  /\ forwardTx' = FALSE /\ forward' = <<>> /\ latest' = {}
  /\ UNCHANGED <<seqOf, sink, emitted>>

PublishIfNew(e) == MarkNew(e) \/ ProbeSink(e) \/ ProbeError(e) \/ Unmark(e)
Offer(e) == NotOffered(e) \/ PutLatest(e) \/ SendForward(e)

\* Everything a publish does but the locked section.
PublishOutside(e) ==
  \/ PublishIfNew(e)
  \/ Reserve(e) \/ Shed(e) \/ Stamp(e) \/ Record(e) \/ Enqueue(e) \/ Offer(e)

WriteBehind ==
  \/ WriterRecv \/ WriterTryRecv \/ WriterClose
  \/ AppendOk \/ (\E n \in 0..MaxBatch : AppendError(n))
  \/ Unpin

Next ==
  \/ \E e \in Envs : PublishOutside(e) \/ Deliver(e)
  \/ WriteBehind
  \/ SetForwardSink \/ DrainForward
  \/ Restart

Spec == Init /\ [][Next]_routerVars

(***************************************************************************)
(* Fairness.  A spawned task that can take a step takes it, so every step  *)
(* of a publish that has started, of the writer and of the forwarder is    *)
(* weakly fair.  Whether a call starts, whether the process dies and       *)
(* whether a sink call fails are the environment's choice; of the sink the *)
(* code's retry-forever loop assumes that it does not refuse for ever.     *)
(***************************************************************************)
Started(e) == stage[e] \in InFlight

Fairness ==
  /\ \A e \in Envs :
       /\ WF_routerVars(Started(e) /\ (PublishOutside(e) \/ Deliver(e)))
  /\ WF_routerVars(WriterRecv \/ WriterTryRecv \/ WriterClose \/ Unpin)
  /\ SF_routerVars(AppendOk)
  /\ WF_routerVars(DrainForward)

FairSpec == Spec /\ Fairness

(***************************************************************************)
(* Properties                                                              *)
(***************************************************************************)
Writers == {"recv", "fill", "append", "unpin"}

\* Every variable holds a value of its kind.
TypeOK ==
  /\ epoch \in Nat \ {0}
  /\ counter \in Nat
  /\ stage \in [Envs -> Stages]
  /\ seqOf \in [Envs -> Seqs]
  /\ recent \in Seq(Ids(Envs))
  /\ ring \in [Rooms -> SUBSET Slots]
  /\ pushes \in [Rooms -> Nat]
  /\ ephemeral \in [Rooms -> SUBSET Envs]
  /\ queue \in Seq(Envs)
  /\ writer \in Writers
  /\ batch \in Seq(Envs)
  /\ sink \in SUBSET Envs
  /\ forwardTx \in BOOLEAN
  /\ forward \in Seq(Envs)
  /\ latest \in SUBSET Envs
  /\ emitted \in SUBSET Envs

\* A durable event the running daemon accepted and fanned out.
Accepted(e) == IsDurable(e) /\ stage[e] \in Visible /\ seqOf[e][1] = epoch

PinnedIn(r, e) == \E s \in ring[r] : s.env = e /\ s.pinned

\* "In the ring (pinned) or already in the sink - never neither"
\* (router.rs:20-22): at every instant a durable event that was fanned out is
\* pinned in its ring or its row is stored.
NeverNeither ==
  \A e \in Envs : Accepted(e) => PinnedIn(Room[e], e) \/ EventId[e] \in SinkIds

(***************************************************************************)
(* Why NeverNeither is preserved: the parts of its inductive invariant.    *)
(***************************************************************************)
\* A slot sits in its room's ring, only durables are pinned, and an unpinned
\* durable is stored already.
SlotsSound ==
  \A r \in Rooms : \A s \in ring[r] :
     /\ Room[s.env] = r
     /\ s.pinned => IsDurable(s.env)
     /\ IsDurable(s.env) /\ ~s.pinned => EventId[s.env] \in SinkIds

\* The writer holds a batch outside recv, and unpins only a stored one.
BatchSound ==
  /\ writer # "recv" => batch # <<>>
  /\ writer = "unpin" => Ids(Batched) \subseteq SinkIds

\* What waits for the writer was accepted by this start.
BacklogAccepted == \A e \in Queued \cup Batched : Accepted(e)

\* Every stamp given so far is before the next one.
StampsBelow == \A e \in Envs : SeqBefore(seqOf[e], <<epoch, counter>>)

\* A publish between its stamp and its hand-over was stamped by this start.
StampedNow ==
  \A e \in Envs :
     stage[e] \in {"stamped", "recorded", "delivered"} => seqOf[e][1] = epoch

\* The inductive invariant behind "never neither", which as it stands is not
\* inductive: an unpin must know that the row is stored, a restart that no
\* earlier stamp carries the new epoch.
DurabilityInv ==
  /\ TypeOK /\ SlotsSound /\ BatchSound /\ BacklogAccepted
  /\ StampsBelow /\ StampedNow /\ NeverNeither

\* No pinned event without a writer responsible for it (router.rs:599-602):
\* its publisher holds a permit, or it is in the queue or the retained batch.
PinnedHasWriter ==
  \A r \in Rooms : \A s \in ring[r] :
     s.pinned => stage[s.env] = "delivered" \/ s.env \in Queued \cup Batched

\* A stamp is above every stamp ever given, by this start or an earlier one,
\* lost events included, although the counter starts again at 0 (seq.rs:5-10).
FreshStamp ==
  [][\A e, f \in Envs :
       seqOf'[e] # seqOf[e] => SeqBefore(seqOf[f], seqOf'[e])]_routerVars

\* An event enters the router once: two arrivals of one id are never both
\* fanned out by one daemon start, and never one after the other's row was
\* already stored by an earlier start (router.rs:754-763).
AtMostOnce ==
  \A e, f \in Envs :
     /\ e # f /\ EventId[e] = EventId[f]
     /\ stage[e] \in Visible /\ stage[f] \in Visible
     => /\ seqOf[e][1] # seqOf[f][1]
        /\ SeqBefore(seqOf[e], seqOf[f]) => e \notin sink

\* What a reader can find of durable events: the rings and the sink.
Readable == SinkIds \cup
  UNION {Ids({e \in RingEnvs(ring[r]) : IsDurable(e)}) : r \in Rooms}

Log == INSTANCE DurableLog WITH
  LogIds <- Ids(Envs), start <- epoch, readable <- Readable, stored <- SinkIds

\* The router implements DurableLog: an accepted durable event stays readable
\* from the ring or the sink through every eviction, append failure and unpin,
\* and a restart loses only what was not stored.
ImplementsDurableLog == Log!Spec

\* A crash loses a tail and nothing but a tail (seq.rs:6-8): if an event's row
\* is stored, so is every event the same start accepted before it.
StoredIsPrefix ==
  \A e, f \in Envs :
     /\ IsDurable(e) /\ stage[e] \in Visible
     /\ f \in sink
     /\ seqOf[e][1] = seqOf[f][1] /\ SeqBefore(seqOf[e], seqOf[f])
     => EventId[e] \in SinkIds

\* Failure never abandons pinned work (write_behind.rs:9): every accepted
\* durable event is stored, and its pin released, unless the daemon dies.
AcceptedIsPersisted ==
  \A e \in Envs :
     stage[e] = "delivered" /\ IsDurable(e)
       ~> \/ EventId[e] \in SinkIds /\ ~PinnedIn(Room[e], e)
          \/ seqOf[e][1] < epoch

\* The forwarder never emits a coalesced value when a newer one of its key was
\* already offered (router.rs:226-229), however long its wake sat in the queue.
EmitsNewest ==
  [][\A e \in emitted' \ emitted :
       Coalescable(e) =>
         \A f \in Envs :
            /\ Coalescable(f) /\ ForwardKey(f) = ForwardKey(e)
            /\ stage[f] \in {"put", "done"} /\ SeqBefore(seqOf[e], seqOf[f])
            => f \in emitted]_routerVars

\* A coalesced value whose wake found the queue full still has a wake queued:
\* "the value is in the map and an earlier wake is still queued"
\* (router.rs:540-542). It does not hold: the queue may be full of other items.
CoalescedHasWake ==
  \A e \in latest :
     \/ stage[e] = "put"
     \/ \E i \in DOMAIN forward :
          Coalescable(forward[i]) /\ ForwardKey(forward[i]) = ForwardKey(e)

\* Duplicate is answered only for an event that went through this router, is
\* stored, or is on its way in: "the existing copy stands" (router.rs:288-291).
DuplicateHasCopy ==
  \A e \in Envs :
     stage[e] = "duplicate" =>
       \/ EventId[e] \in SinkIds
       \/ \E f \in Envs : /\ EventId[f] = EventId[e]
                          /\ stage[f] \in InFlight \cup Visible
=============================================================================
