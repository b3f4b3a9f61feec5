------------------------- MODULE EventRouterProofs -------------------------
(***************************************************************************)
(* Theorems about EventRouter, for every set of publishes and rooms and    *)
(* every capacity: the type invariant, "in the ring or in the sink - never *)
(* neither", the freshness of stamps across restarts, and that the router  *)
(* implements DurableLog.                                                  *)
(***************************************************************************)
EXTENDS EventRouter, TLAPS, WellFoundedInduction, SequenceTheorems

(***************************************************************************)
(* What eviction may and may not do to a ring, for every capacity, byte    *)
(* budget and set of envelopes.                                            *)
(***************************************************************************)
\* Eviction only removes slots (evict_to_capacity pops or removes, ring.rs:119-146).
LEMMA EvictOnlyRemoves ==
  ASSUME NEW R
  PROVE  EvictToCapacity(R) \subseteq R
  BY Zenon DEF EvictToCapacity, DropLossy, DropFront

\* A pinned slot survives eviction: the front loop stops at it and the second
\* loop takes lossy slots only (ring.rs:119-146).
LEMMA EvictKeepsPinned ==
  ASSUME NEW R \in SUBSET Slots,
         NEW s \in R, s.pinned, IsDurable(s.env)
  PROVE  s \in EvictToCapacity(R)
<1>1. s.pos <= s.pos
  BY DEF Slots
<1>2. s \in UpTo(R, s)
  BY Zenon, <1>1 DEF UpTo
<1>3. s \in DropFront(R)
  BY Zenon, <1>2 DEF DropFront
<1> QED
  BY Zenon, <1>3 DEF EvictToCapacity, DropLossy

\* push leaves a slot for a durable envelope, pinned, and every slot it leaves
\* was there or is the new one (ring.rs:82-87).
LEMMA PushSlots ==
  ASSUME NEW R \in SUBSET Slots, NEW p \in Nat, NEW e \in Envs
  PROVE  /\ Push(R, p, e) \in SUBSET Slots
         /\ \A t \in Push(R, p, e) :
              t \in R \/ (t.env = e /\ t.pinned = IsDurable(e))
         /\ IsDurable(e) => \E t \in Push(R, p, e) : t.env = e /\ t.pinned
         /\ \A s \in R : s.pinned /\ IsDurable(s.env) => s \in Push(R, p, e)
<1> DEFINE new == [pos |-> p, env |-> e, pinned |-> IsDurable(e)]
<1> DEFINE full == R \cup {new}
<1>1. new \in Slots
  BY Zenon DEF Slots, IsDurable
<1>2. full \in SUBSET Slots
  BY Zenon, <1>1
<1>3. Push(R, p, e) = EvictToCapacity(full)
  BY Zenon DEF Push
<1>4. \A s \in full : s.pinned /\ IsDurable(s.env) => s \in EvictToCapacity(full)
  <2> HIDE DEF full
  <2> QED BY Zenon, <1>2, EvictKeepsPinned
<1>5. EvictToCapacity(full) \subseteq full
  BY Zenon, EvictOnlyRemoves
<1>6. new.pinned = IsDurable(e) /\ new.env = e
  BY Zenon
<1> HIDE DEF new
<1> QED
  BY Zenon, <1>2, <1>3, <1>4, <1>5, <1>6

\* mark_persisted keeps every pinned slot of another event, invents none, and
\* unpins only slots of the confirmed event (ring.rs:92-99).
LEMMA MarkPersistedSlots ==
  ASSUME NEW R \in SUBSET Slots, NEW id
  PROVE  /\ MarkPersisted(R, id) \in SUBSET Slots
         /\ \A t \in MarkPersisted(R, id) :
              \E s \in R : /\ t.env = s.env
                           /\ t = s \/ (~t.pinned /\ EventId[t.env] = id)
         /\ \A s \in R : s.pinned /\ IsDurable(s.env) /\ EventId[s.env] # id
                           => s \in MarkPersisted(R, id)
<1> DEFINE first == FirstWithId(R, id)
<1> DEFINE freed == {[s EXCEPT !.pinned = FALSE] : s \in first}
<1> DEFINE full == (R \ first) \cup freed
<1>1. \A s \in first : s \in R /\ EventId[s.env] = id
  BY Zenon DEF FirstWithId
<1>2. \A t \in freed : \E s \in R : /\ t \in Slots /\ t.env = s.env
                                    /\ ~t.pinned /\ EventId[t.env] = id
  <2> SUFFICES ASSUME NEW s \in first
               PROVE  LET t == [s EXCEPT !.pinned = FALSE]
                      IN  /\ t \in Slots /\ t.env = s.env
                          /\ ~t.pinned /\ EventId[t.env] = id
    BY ZenonT(30), <1>1
  <2> HIDE DEF first
  <2> QED BY Zenon, <1>1 DEF Slots
<1>3. full \in SUBSET Slots
  BY Zenon, <1>2
<1>4. MarkPersisted(R, id) = EvictToCapacity(full)
  BY Zenon DEF MarkPersisted
<1>5. EvictToCapacity(full) \subseteq full
  BY Zenon, EvictOnlyRemoves
<1>6. \A s \in full : s.pinned /\ IsDurable(s.env) => s \in EvictToCapacity(full)
  <2> HIDE DEF full
  <2> QED BY Zenon, <1>3, EvictKeepsPinned
<1> HIDE DEF freed, first
<1> QED
  BY Zenon, <1>1, <1>2, <1>3, <1>4, <1>5, <1>6

(***************************************************************************)
(* Naturals, ids, the recent window and the rows of a batch.               *)
(***************************************************************************)

\* A non-empty set of naturals has a least element.
LEMMA LeastNatural ==
  ASSUME NEW T \in SUBSET Nat, T # {}
  PROVE  \E x \in T : \A y \in T : x <= y
<1>1. \E x \in T : \A y \in T : ~(<<y, x>> \in OpToRel(<, Nat))
  BY NatLessThanWellFounded, WFMin, Zenon
<1>2. \A x, y \in Nat : ~(<<y, x>> \in OpToRel(<, Nat)) => x <= y
  BY DEF OpToRel
<1> QED BY <1>1, <1>2, Zenon

\* The id of an envelope is one of the ids (EventId, envelope.rs).
LEMMA IdInIds ==
  ASSUME NEW E, NEW e \in E
  PROVE  EventId[e] \in Ids(E)
  BY Zenon DEF Ids

\* The recent window stays a sequence of ids whatever is inserted or removed
\* (RecentEventIds::insert and remove, router.rs:162-184).
LEMMA RecentType ==
  ASSUME NEW S, NEW ids \in Seq(S), NEW id \in S
  PROVE  /\ RecentInsert(ids, id) \in Seq(S)
         /\ RecentRemove(ids, id) \in Seq(S)
<1>1. RecentInsert(ids, id) \in Seq(S)
  <2>1. CASE ids = <<>>
    BY <2>1, EventRouterAssumption DEF RecentInsert
  <2>2. CASE ids # <<>>
    <3>1. Tail(ids) \in Seq(S)
      BY <2>2
    <3> QED BY <3>1 DEF RecentInsert
  <2> QED BY Zenon, <2>1, <2>2
<1>2. RecentRemove(ids, id) \in Seq(S)
  <2>1. CASE ~ \E i \in DOMAIN ids : ids[i] = id
    BY Zenon, <2>1 DEF RecentRemove
  <2>2. CASE \E i \in DOMAIN ids : ids[i] = id
    <3> DEFINE i == CHOOSE i \in DOMAIN ids : ids[i] = id
    <3>1. i \in 1..Len(ids)
      BY <2>2
    <3> HIDE DEF i
    <3>2. SubSeq(ids, 1, i - 1) \in Seq(S) /\ SubSeq(ids, i + 1, Len(ids)) \in Seq(S)
      BY <3>1
    <3>3. RecentRemove(ids, id) = SubSeq(ids, 1, i - 1) \o SubSeq(ids, i + 1, Len(ids))
      BY <2>2, Zenon DEF RecentRemove, i
    <3> QED BY <3>2, <3>3
  <2> QED BY Zenon, <2>1, <2>2
<1> QED BY Zenon, <1>1, <1>2

\* Persist adds rows of the batch only (append_batch, sink.rs and bus_sink.rs).
LEMMA PersistRows ==
  ASSUME NEW rows \in SUBSET Envs, NEW q \in Seq(Envs)
  PROVE  /\ Persist(rows, q) \in SUBSET Envs
         /\ rows \subseteq Persist(rows, q)
         /\ Persist(rows, q) \subseteq rows \cup {q[i] : i \in DOMAIN q}
  BY DEF Persist

\* A successful append stores every id of the batch: the first item of each id
\* goes in unless the id is stored already.
LEMMA PersistStoresAll ==
  ASSUME NEW rows \in SUBSET Envs, NEW q \in Seq(Envs), NEW i \in DOMAIN q
  PROVE  EventId[q[i]] \in Ids(Persist(rows, q))
<1> DEFINE id == EventId[q[i]]
<1> DEFINE T == {j \in DOMAIN q : EventId[q[j]] = id}
<1>1. T \in SUBSET Nat /\ T # {}
  OBVIOUS
<1>2. PICK j \in T : \A k \in T : j <= k
  <2> HIDE DEF T
  <2> QED BY Zenon, <1>1, LeastNatural
<1>3. CASE id \in Ids(rows)
  BY Zenon, <1>3 DEF Persist, Ids
<1>4. CASE id \notin Ids(rows)
  <2>1. \A k \in 1..(j - 1) : EventId[q[k]] # EventId[q[j]]
    BY <1>2
  <2>2. q[j] \in Persist(rows, q)
    BY Zenon, <1>2, <1>4, <2>1 DEF Persist
  <2> QED BY Zenon, <1>2, <2>2 DEF Ids
<1> QED BY Zenon, <1>3, <1>4

(***************************************************************************)
(* The type invariant.                                                     *)
(***************************************************************************)
\* Each step of a publish task outside the locked section keeps the types.
LEMMA TypePublish ==
  ASSUME TypeOK, NEW e \in Envs, PublishOutside(e)
  PROVE  TypeOK'
<1> USE DEF TypeOK, seqVars, cacheVars, writerVars, forwardVars, Stages, InFlight, Admitted
<1>1. CASE MarkNew(e)
  <2>1. recent' \in Seq(Ids(Envs))
    BY <1>1, RecentType, IdInIds, Zenon DEF MarkNew
  <2> QED BY Zenon, <1>1, <2>1 DEF MarkNew
<1>2. CASE ProbeSink(e)
  BY Zenon, <1>2 DEF ProbeSink
<1>3. CASE ProbeError(e)
  BY Zenon, <1>3 DEF ProbeError
<1>4. CASE Unmark(e)
  <2>1. recent' \in Seq(Ids(Envs))
    BY <1>4, RecentType, IdInIds, Zenon DEF Unmark
  <2> QED BY Zenon, <1>4, <2>1 DEF Unmark
<1>5. CASE Reserve(e)
  BY Zenon, <1>5 DEF Reserve
<1>6. CASE Shed(e)
  BY Zenon, <1>6 DEF Shed
<1>7. CASE Stamp(e)
  BY SMTT(20), <1>7 DEF Stamp, Seqs
<1>8. CASE Record(e)
  <2>1. recent' \in Seq(Ids(Envs))
    BY <1>8, RecentType, IdInIds, Zenon DEF Record
  <2> QED BY Zenon, <1>8, <2>1 DEF Record
<1>9. CASE Enqueue(e)
  BY <1>9 DEF Enqueue
<1>10. CASE NotOffered(e)
  BY Zenon, <1>10 DEF NotOffered
<1>11. CASE PutLatest(e)
  BY Zenon, <1>11 DEF PutLatest
<1>12. CASE SendForward(e)
  BY <1>12 DEF SendForward
<1> QED
  BY <1>1, <1>2, <1>3, <1>4, <1>5, <1>6, <1>7, <1>8, <1>9, <1>10, <1>11, <1>12, Zenon
  DEF PublishOutside, PublishIfNew, Offer

\* The locked section keeps the types.
LEMMA TypeDeliver ==
  ASSUME TypeOK, NEW e \in Envs, Deliver(e)
  PROVE  TypeOK'
<1> USE DEF TypeOK, seqVars, cacheVars, writerVars, forwardVars
<1>1. Room[e] \in Rooms /\ Room \in [Envs -> Rooms]
  BY Zenon, EnvelopesAssumption
<1>2. stage' \in [Envs -> Stages]
  BY Zenon DEF Deliver, Stages, InFlight, Admitted
<1>3. CASE IsEphemeralLatest(e)
  <2>1. Coalesce(ephemeral[Room[e]], e) \in SUBSET Envs
    BY Zenon, <1>1 DEF Coalesce
  <2>2. ephemeral' \in [Rooms -> SUBSET Envs]
    BY <1>1, <1>3, <2>1, Zenon DEF Deliver
  <2> QED BY Zenon, <1>2, <1>3, <2>2 DEF Deliver
<1>4. CASE ~IsEphemeralLatest(e)
  <2>1. ring[Room[e]] \in SUBSET Slots /\ pushes[Room[e]] + 1 \in Nat
    BY <1>1
  <2>2. Push(ring[Room[e]], pushes[Room[e]] + 1, e) \in SUBSET Slots
    BY <2>1, PushSlots
  <2>3. /\ ring' = [ring EXCEPT ![Room[e]] = Push(ring[Room[e]], pushes[Room[e]] + 1, e)]
        /\ pushes' = [pushes EXCEPT ![Room[e]] = pushes[Room[e]] + 1]
    BY Zenon, <1>4 DEF Deliver
  <2>4. ring' \in [Rooms -> SUBSET Slots] /\ pushes' \in [Rooms -> Nat]
    BY <1>1, <2>1, <2>2, <2>3, Zenon
  <2> QED BY Zenon, <1>2, <1>4, <2>4 DEF Deliver
<1> QED BY Zenon, <1>3, <1>4

\* Every step of the write-behind task keeps the types; an unpin finds an
\* item in its batch.
LEMMA TypeWriter ==
  ASSUME TypeOK, BatchSound, WriteBehind
  PROVE  TypeOK'
<1> USE DEF TypeOK, seqVars, cacheVars, writerVars, forwardVars, Writers
<1>1. CASE WriterRecv
  BY <1>1 DEF WriterRecv
<1>2. CASE WriterTryRecv
  BY <1>2 DEF WriterTryRecv
<1>3. CASE WriterClose
  BY Zenon, <1>3 DEF WriterClose
<1>4. CASE AppendOk
  <2>1. sink' \in SUBSET Envs
    BY Zenon, <1>4, PersistRows DEF AppendOk
  <2> QED BY Zenon, <1>4, <2>1 DEF AppendOk
<1>5. ASSUME NEW n \in 0..MaxBatch, AppendError(n)
      PROVE  TypeOK'
  <2> DEFINE rows == SubSeq(batch, 1, n)
  <2>1. rows \in Seq(Envs)
    <3>1. n \in 0..Len(batch)
      BY <1>5 DEF AppendError
    <3> QED BY <3>1, SubSeqProperties
  <2>2. sink' = Persist(sink, rows)
    BY Zenon, <1>5 DEF AppendError
  <2> HIDE DEF rows
  <2>3. Persist(sink, rows) \in SUBSET Envs
    BY Zenon, <2>1, PersistRows
  <2> QED BY Zenon, <1>5, <2>2, <2>3 DEF AppendError
<1>6. CASE Unpin
  <2>1. batch # <<>> /\ Head(batch) \in Envs /\ Tail(batch) \in Seq(Envs)
    BY <1>6 DEF Unpin, BatchSound
  <2>2. Room[Head(batch)] \in Rooms
    BY Zenon, <2>1, EnvelopesAssumption
  <2>3. MarkPersisted(ring[Room[Head(batch)]], EventId[Head(batch)]) \in SUBSET Slots
    BY <2>2, MarkPersistedSlots
  <2>4. ring' \in [Rooms -> SUBSET Slots]
    <3>1. ring' = [ring EXCEPT ![Room[Head(batch)]] =
                     MarkPersisted(ring[Room[Head(batch)]], EventId[Head(batch)])]
      BY Zenon, <1>6 DEF Unpin
    <3> QED BY Zenon, <2>2, <2>3, <3>1
  <2> QED BY Zenon, <1>6, <2>1, <2>4 DEF Unpin
<1> QED BY <1>1, <1>2, <1>3, <1>4, <1>5, <1>6, Zenon DEF WriteBehind

\* So do the forwarder's steps and a restart.
LEMMA TypeForwardRestart ==
  ASSUME TypeOK, SetForwardSink \/ DrainForward \/ Restart
  PROVE  TypeOK'
<1> USE DEF TypeOK, seqVars, cacheVars, writerVars, forwardVars
<1>1. CASE SetForwardSink
  BY Zenon, <1>1 DEF SetForwardSink
<1>2. CASE DrainForward
  <2>1. Head(forward) \in Envs /\ Tail(forward) \in Seq(Envs)
    BY <1>2 DEF DrainForward
  <2>2. Resolve(Head(forward)) \in SUBSET Envs
    BY Zenon, <2>1 DEF Resolve, SameKey
  <2> QED BY Zenon, <1>2, <2>1, <2>2 DEF DrainForward
<1>3. CASE Restart
  <2>1. stage' \in [Envs -> Stages]
    BY Zenon, <1>3 DEF Restart, Stages
  <2>2. epoch' \in Nat \ {0} /\ counter' \in Nat
    BY <1>3 DEF Restart
  <2>3. /\ ring' \in [Rooms -> SUBSET Slots]
        /\ pushes' \in [Rooms -> Nat]
        /\ ephemeral' \in [Rooms -> SUBSET Envs]
    BY Zenon, <1>3 DEF Restart
  <2>4. /\ recent' \in Seq(Ids(Envs)) /\ queue' \in Seq(Envs)
        /\ batch' \in Seq(Envs) /\ forward' \in Seq(Envs)
    BY <1>3 DEF Restart
  <2>5. /\ writer' \in Writers /\ forwardTx' \in BOOLEAN /\ latest' \in SUBSET Envs
        /\ seqOf' = seqOf /\ sink' = sink /\ emitted' = emitted
    BY <1>3, Zenon DEF Restart, Writers
  <2> QED BY Zenon, <2>1, <2>2, <2>3, <2>4, <2>5
<1> QED BY Zenon, <1>1, <1>2, <1>3

(***************************************************************************)
(* The rest of the inductive invariant.  A step is looked at by what it    *)
(* leaves alone: most leave the rings and the sink alone and move one      *)
(* publish to a stage that is no less visible.                             *)
(***************************************************************************)
\* A publish that is visible stays so until the daemon dies, and only the
\* locked section makes a durable one visible (publish_from, router.rs:594-741).
LEMMA StageOfPublish ==
  ASSUME TypeOK, NEW e \in Envs, PublishOutside(e), NEW f \in Envs
  PROVE  /\ stage[f] \in Visible => stage'[f] \in Visible /\ seqOf'[f] = seqOf[f]
         /\ IsDurable(f) /\ stage'[f] \in Visible => stage[f] \in Visible
         /\ UNCHANGED <<epoch, ring, sink, writer, batch>>
<1> USE DEF TypeOK, seqVars, cacheVars, writerVars, forwardVars, Stages, InFlight,
            Admitted, Visible
<1>1. CASE MarkNew(e)
  BY Zenon, <1>1 DEF MarkNew, Arrives
<1>2. CASE ProbeSink(e)
  BY Zenon, <1>2 DEF ProbeSink
<1>3. CASE ProbeError(e)
  BY Zenon, <1>3 DEF ProbeError
<1>4. CASE Unmark(e)
  BY Zenon, <1>4 DEF Unmark
<1>5. CASE Reserve(e)
  BY Zenon, <1>5 DEF Reserve, Ready
<1>6. CASE Shed(e)
  BY Zenon, <1>6 DEF Shed, Ready
<1>7. CASE Stamp(e)
  BY Zenon, <1>7 DEF Stamp, Ready
<1>8. CASE Record(e)
  BY Zenon, <1>8 DEF Record
<1>9. CASE Enqueue(e)
  BY Zenon, <1>9 DEF Enqueue
<1>10. CASE NotOffered(e)
  BY Zenon, <1>10 DEF NotOffered, Offering
<1>11. CASE PutLatest(e)
  BY Zenon, <1>11 DEF PutLatest, Offering
<1>12. CASE SendForward(e)
  BY Zenon, <1>12 DEF SendForward, Offering
<1> QED
  BY <1>1, <1>2, <1>3, <1>4, <1>5, <1>6, <1>7, <1>8, <1>9, <1>10, <1>11, <1>12, Zenon
  DEF PublishOutside, PublishIfNew, Offer

\* What a publish adds to the queue is a durable event it made visible before
\* (permit.send after the locked section, router.rs:716-720).
LEMMA QueueOfPublish ==
  ASSUME TypeOK, NEW e \in Envs, PublishOutside(e)
  PROVE  \/ queue' = queue
         \/ /\ queue' = Append(queue, e)
            /\ IsDurable(e) /\ stage[e] = "delivered"
  BY Zenon DEF PublishOutside, PublishIfNew, Offer, MarkNew, ProbeSink, ProbeError, Unmark,
         Reserve, Shed, Stamp, Record, Enqueue, NotOffered, PutLatest, SendForward,
         writerVars

\* Only Stamp gives a stamp, the next one, and moves its publish to "stamped"
\* (seq.next, router.rs:617-619).
LEMMA StampOfPublish ==
  ASSUME TypeOK, NEW e \in Envs, PublishOutside(e)
  PROVE  /\ \/ seqOf' = seqOf /\ counter' = counter
            \/ /\ seqOf' = [seqOf EXCEPT ![e] = <<epoch, counter>>]
               /\ counter' = counter + 1
               /\ stage[e] \notin {"stamped", "recorded", "delivered"}
         /\ \A f \in Envs : stage'[f] \in {"stamped", "recorded", "delivered"} =>
              \/ stage[f] \in {"stamped", "recorded", "delivered"} /\ seqOf'[f] = seqOf[f]
              \/ seqOf'[f] = <<epoch, counter>>
<1> USE DEF TypeOK, seqVars
<1>1. CASE Stamp(e)
  BY Zenon, <1>1 DEF Stamp, Ready
<1>2. CASE Record(e)
  BY Zenon, <1>2 DEF Record
<1>3. CASE PublishIfNew(e) \/ Reserve(e) \/ Shed(e) \/ Enqueue(e) \/ Offer(e)
  BY Zenon, <1>3 DEF PublishIfNew, Offer, MarkNew, ProbeSink, ProbeError, Unmark, Reserve,
              Shed, Enqueue, NotOffered, PutLatest, SendForward
<1> QED BY Zenon, <1>1, <1>2, <1>3 DEF PublishOutside

\* The stamp order is the one the code's Ord gives (Cursor, envelope.rs:257-269).
LEMMA SeqOrder ==
  ASSUME NEW a \in Seqs, NEW n \in Nat, NEW k \in Nat
  PROVE  /\ SeqBefore(a, <<n, k>>) => SeqBefore(a, <<n, k + 1>>)
         /\ SeqBefore(a, <<n, k>>) => SeqBefore(a, <<n + 1, 0>>)
         /\ SeqBefore(a, <<n, k>>) => a[1] # n + 1
         /\ SeqBefore(<<n, k>>, <<n, k + 1>>)
  BY DEF Seqs, SeqBefore

\* What waits for the writer is an accepted envelope.
LEMMA BacklogEnvs ==
  ASSUME DurabilityInv
  PROVE  \A f \in Queued \cup Batched : f \in Envs /\ Accepted(f)
<1>1. queue \in Seq(Envs) /\ batch \in Seq(Envs)
  BY Zenon DEF DurabilityInv, TypeOK
<1>2. \A f \in Queued \cup Batched : f \in Envs
  BY <1>1 DEF Queued, Batched
<1> QED BY Zenon, <1>2 DEF DurabilityInv, BacklogAccepted

\* A step of a publish outside the locked section preserves the invariant.
LEMMA InvPublish ==
  ASSUME DurabilityInv, NEW e \in Envs, PublishOutside(e)
  PROVE  DurabilityInv'
<1>1. TypeOK /\ TypeOK'
  BY Zenon, TypePublish DEF DurabilityInv
<1>2. \A f \in Envs :
        /\ stage[f] \in Visible => stage'[f] \in Visible /\ seqOf'[f] = seqOf[f]
        /\ IsDurable(f) /\ stage'[f] \in Visible => stage[f] \in Visible
  BY Zenon, <1>1, StageOfPublish
<1>3. UNCHANGED <<epoch, ring, sink, writer, batch>>
  BY Zenon, <1>1, StageOfPublish
<1>4. \A f \in Envs : Accepted(f) => Accepted(f)'
  BY Zenon, <1>2, <1>3 DEF Accepted
<1>5. \A f \in Envs : Accepted(f)' => Accepted(f)
  BY Zenon, <1>2, <1>3 DEF Accepted
<1>6. SlotsSound'
  BY Zenon, <1>3 DEF DurabilityInv, SlotsSound, SinkIds
<1>7. BatchSound'
  BY Zenon, <1>3 DEF DurabilityInv, BatchSound, Batched, SinkIds
<1>8. BacklogAccepted'
  <2>1. \A f \in Batched' : Accepted(f)'
    <3>1. Batched' = Batched
      BY Zenon, <1>3 DEF Batched
    <3> QED BY Zenon, <1>4, <3>1, BacklogEnvs
  <2>2. \A f \in Queued' : f \in Queued \/ (f = e /\ IsDurable(e) /\ stage[e] = "delivered")
    <3>1. queue \in Seq(Envs)
      BY Zenon, <1>1 DEF TypeOK
    <3>2. CASE queue' = queue
      BY Zenon, <3>2 DEF Queued
    <3>3. CASE queue' = Append(queue, e) /\ IsDurable(e) /\ stage[e] = "delivered"
      BY <3>1, <3>3 DEF Queued
    <3> QED BY Zenon, <1>1, <3>2, <3>3, QueueOfPublish
  <2>3. IsDurable(e) /\ stage[e] = "delivered" => Accepted(e)
    BY Zenon DEF DurabilityInv, StampedNow, Accepted, Visible
  <2>4. \A f \in Queued : f \in Envs /\ Accepted(f)
    BY Zenon, BacklogEnvs
  <2> QED BY Zenon, <1>4, <2>1, <2>2, <2>3, <2>4 DEF BacklogAccepted
<1>9. StampsBelow'
  <2>1. \A f \in Envs : seqOf[f] \in Seqs /\ SeqBefore(seqOf[f], <<epoch, counter>>)
    BY <1>1, Zenon DEF DurabilityInv, StampsBelow, TypeOK
  <2>2. epoch \in Nat /\ counter \in Nat /\ DOMAIN seqOf = Envs
    BY Zenon, <1>1 DEF TypeOK
  <2>3. CASE seqOf' = seqOf /\ counter' = counter
    BY Zenon, <1>3, <2>1, <2>3 DEF StampsBelow
  <2>4. CASE seqOf' = [seqOf EXCEPT ![e] = <<epoch, counter>>] /\ counter' = counter + 1
    <3>1. \A f \in Envs : SeqBefore(seqOf[f], <<epoch, counter + 1>>)
      BY <2>1, <2>2, SeqOrder, Zenon
    <3>2. SeqBefore(<<epoch, counter>>, <<epoch, counter + 1>>)
      BY <2>2 DEF SeqBefore
    <3> QED BY Zenon, <1>3, <2>2, <2>4, <3>1, <3>2 DEF StampsBelow
  <2> QED BY Zenon, <1>1, <2>3, <2>4, StampOfPublish
<1>10. StampedNow'
  BY <1>1, <1>3, StampOfPublish DEF DurabilityInv, StampedNow
<1>11. NeverNeither'
  BY Zenon, <1>3, <1>5 DEF DurabilityInv, NeverNeither, PinnedIn, SinkIds
<1> QED BY Zenon, <1>1, <1>6, <1>7, <1>8, <1>9, <1>10, <1>11 DEF DurabilityInv

\* The locked section adds at most a slot for its own event, pinned if it is
\* durable, and keeps every pinned slot (router.rs:640-713).
LEMMA DeliverSlots ==
  ASSUME TypeOK, NEW e \in Envs, Deliver(e)
  PROVE  /\ \A r \in Rooms : \A t \in ring'[r] :
              \/ t \in ring[r]
              \/ r = Room[e] /\ t.env = e /\ t.pinned = IsDurable(e)
         /\ \A r \in Rooms : \A s \in ring[r] :
              s.pinned /\ IsDurable(s.env) => s \in ring'[r]
         /\ IsDurable(e) => \E t \in ring'[Room[e]] : t.env = e /\ t.pinned
<1>1. Room[e] \in Rooms /\ Room \in [Envs -> Rooms]
  BY Zenon, EnvelopesAssumption
<1> DEFINE R == ring[Room[e]]
<1> DEFINE p == pushes[Room[e]] + 1
<1>2. R \in SUBSET Slots /\ p \in Nat
  BY <1>1 DEF TypeOK
<1>3. /\ \A t \in Push(R, p, e) : t \in R \/ (t.env = e /\ t.pinned = IsDurable(e))
      /\ IsDurable(e) => \E t \in Push(R, p, e) : t.env = e /\ t.pinned
      /\ \A s \in R : s.pinned /\ IsDurable(s.env) => s \in Push(R, p, e)
  BY <1>2, PushSlots
<1>4. \/ ring' = ring /\ ~IsDurable(e)
      \/ ring' = [ring EXCEPT ![Room[e]] = Push(R, p, e)]
  BY Zenon DEF Deliver, IsDurable, IsEphemeralLatest
<1> HIDE DEF R, p
<1>5. \A r \in Rooms : \A t \in ring'[r] :
        \/ t \in ring[r]
        \/ r = Room[e] /\ t.env = e /\ t.pinned = IsDurable(e)
  BY Zenon, <1>1, <1>3, <1>4 DEF TypeOK, R
<1>6. \A r \in Rooms : \A s \in ring[r] : s.pinned /\ IsDurable(s.env) => s \in ring'[r]
  BY <1>1, <1>3, <1>4, ZenonT(30) DEF TypeOK, R
<1>7. IsDurable(e) => \E t \in ring'[Room[e]] : t.env = e /\ t.pinned
  BY Zenon, <1>1, <1>3, <1>4 DEF TypeOK
<1> QED BY Zenon, <1>5, <1>6, <1>7

\* The locked section preserves the invariant: it pins what it makes visible
\* and evicts nothing pinned (router.rs:640-713).
LEMMA InvDeliver ==
  ASSUME DurabilityInv, NEW e \in Envs, Deliver(e)
  PROVE  DurabilityInv'
<1>1. TypeOK /\ TypeOK'
  BY Zenon, TypeDeliver DEF DurabilityInv
<1>2. /\ UNCHANGED <<epoch, counter, seqOf, sink, queue, writer, batch>>
      /\ stage' = [stage EXCEPT ![e] = stage'[e]]
      /\ stage[e] = "recorded" /\ stage'[e] \in {"done", "delivered"}
  BY Zenon, <1>1 DEF Deliver, TypeOK, seqVars, writerVars
<1>3. \A f \in Envs : Accepted(f) => Accepted(f)'
  BY <1>1, <1>2, Zenon DEF Accepted, Visible, TypeOK
<1>4. \A f \in Envs : f # e /\ Accepted(f)' => Accepted(f)
  BY Zenon, <1>1, <1>2 DEF Accepted, TypeOK
<1>5. Room[e] \in Rooms /\ Room \in [Envs -> Rooms]
  BY Zenon, EnvelopesAssumption
<1>6. /\ \A r \in Rooms : \A t \in ring'[r] :
           \/ t \in ring[r]
           \/ r = Room[e] /\ t.env = e /\ t.pinned = IsDurable(e)
      /\ \A r \in Rooms : \A s \in ring[r] :
           s.pinned /\ IsDurable(s.env) => s \in ring'[r]
      /\ IsDurable(e) => \E t \in ring'[Room[e]] : t.env = e /\ t.pinned
  BY Zenon, <1>1, DeliverSlots
<1>7. SlotsSound'
  <2>1. SinkIds' = SinkIds /\ SlotsSound
    BY Zenon, <1>2 DEF DurabilityInv, SinkIds
  <2> QED BY <1>6, <2>1 DEF SlotsSound
<1>8. BatchSound'
  BY Zenon, <1>2 DEF DurabilityInv, BatchSound, Batched, SinkIds
<1>9. BacklogAccepted'
  <2>1. Queued' = Queued /\ Batched' = Batched
    BY Zenon, <1>2 DEF Queued, Batched
  <2> QED BY Zenon, <1>3, <2>1, BacklogEnvs DEF BacklogAccepted
<1>10. StampsBelow'
  BY Zenon, <1>2 DEF DurabilityInv, StampsBelow
<1>11. StampedNow'
  BY Zenon, <1>1, <1>2 DEF DurabilityInv, StampedNow, TypeOK
<1>12. NeverNeither'
  <2> SUFFICES ASSUME NEW f \in Envs, Accepted(f)'
               PROVE  PinnedIn(Room[f], f)' \/ EventId[f] \in SinkIds'
    BY Zenon DEF NeverNeither
  <2>1. CASE f = e
    BY Zenon, <1>6, <2>1 DEF Accepted, PinnedIn
  <2>2. CASE f # e
    <3>1. PinnedIn(Room[f], f) \/ EventId[f] \in SinkIds
      BY Zenon, <1>4, <2>2 DEF DurabilityInv, NeverNeither
    <3>2. PinnedIn(Room[f], f) => PinnedIn(Room[f], f)'
      BY Zenon, <1>5, <1>6 DEF DurabilityInv, SlotsSound, PinnedIn
    <3> QED BY Zenon, <1>2, <3>1, <3>2 DEF SinkIds
  <2> QED BY Zenon, <2>1, <2>2
<1> QED BY Zenon, <1>1, <1>7, <1>8, <1>9, <1>10, <1>11, <1>12 DEF DurabilityInv

\* Taking items off the queue preserves the invariant (write_behind.rs:20-29).
LEMMA InvTake ==
  ASSUME DurabilityInv, TypeOK', WriterRecv \/ WriterTryRecv \/ WriterClose
  PROVE  DurabilityInv'
<1>1. TypeOK
  BY Zenon DEF DurabilityInv
<1>2. UNCHANGED <<epoch, counter, seqOf, stage, ring, sink>>
  BY Zenon DEF WriterRecv, WriterTryRecv, WriterClose, seqVars, cacheVars
<1>3. queue \in Seq(Envs) /\ batch \in Seq(Envs)
  BY Zenon, <1>1 DEF TypeOK
<1>4. Queued' \cup Batched' \subseteq Queued \cup Batched
  <2>1. CASE WriterRecv
    BY <1>3, <2>1 DEF WriterRecv, Queued, Batched
  <2>2. CASE WriterTryRecv
    BY <1>3, <2>2 DEF WriterTryRecv, Queued, Batched
  <2>3. CASE WriterClose
    BY Zenon, <2>3 DEF WriterClose, Queued, Batched
  <2> QED BY Zenon, <2>1, <2>2, <2>3
<1>5. BatchSound'
  <2>1. writer' # "unpin" /\ writer' # "recv"
    BY Zenon DEF WriterRecv, WriterTryRecv, WriterClose
  <2>2. CASE WriterRecv
    BY Zenon, <2>1, <2>2 DEF WriterRecv, BatchSound
  <2>3. CASE WriterTryRecv
    <3>1. Head(queue) \in Envs
      BY <1>3, <2>3 DEF WriterTryRecv
    <3>2. Append(batch, Head(queue)) # <<>>
      BY <1>3, <3>1, AppendProperties
    <3> QED BY Zenon, <2>1, <2>3, <3>2 DEF WriterTryRecv, BatchSound
  <2>4. CASE WriterClose
    BY Zenon, <2>1, <2>4 DEF WriterClose, DurabilityInv, BatchSound
  <2> QED BY Zenon, <2>2, <2>3, <2>4
<1>6. SlotsSound' /\ StampsBelow' /\ StampedNow' /\ NeverNeither'
  BY Zenon, <1>2 DEF DurabilityInv, SlotsSound, StampsBelow, StampedNow, NeverNeither,
              Accepted, PinnedIn, SinkIds
<1>7. BacklogAccepted'
  BY Zenon, <1>2, <1>4 DEF DurabilityInv, BacklogAccepted, Accepted
<1> QED BY Zenon, <1>5, <1>6, <1>7 DEF DurabilityInv

\* Storing rows preserves the invariant, all of the batch or part of it
\* (write_behind.rs:37-60).
LEMMA InvAppend ==
  ASSUME DurabilityInv, TypeOK',
         AppendOk \/ \E n \in 0..MaxBatch : AppendError(n)
  PROVE  DurabilityInv'
<1>1. /\ UNCHANGED <<epoch, counter, seqOf, stage, ring, queue, batch>>
      /\ writer = "append"
  BY Zenon DEF AppendOk, AppendError, seqVars, cacheVars, writerVars
<1>2. sink \in SUBSET Envs /\ batch \in Seq(Envs)
  BY Zenon DEF DurabilityInv, TypeOK
<1>3. SinkIds \subseteq SinkIds'
  BY Zenon DEF AppendOk, AppendError, SinkIds, Ids, Persist
<1>4. SlotsSound' /\ StampsBelow' /\ StampedNow' /\ NeverNeither'
  BY Zenon, <1>1, <1>3 DEF DurabilityInv, SlotsSound, StampsBelow, StampedNow, NeverNeither,
                    Accepted, PinnedIn
<1>5. BacklogAccepted'
  BY <1>1 DEF DurabilityInv, BacklogAccepted, Accepted, Queued, Batched
<1>6. BatchSound'
  <2>1. batch # <<>>
    BY Zenon, <1>1 DEF DurabilityInv, BatchSound
  <2>2. CASE AppendOk
    <3>1. \A i \in DOMAIN batch : EventId[batch[i]] \in Ids(Persist(sink, batch))
      BY <1>2, PersistStoresAll, Zenon
    <3>2. Ids(Batched) \subseteq Ids(Persist(sink, batch))
      <4> HIDE <2>2
      <4> SUFFICES ASSUME NEW f \in Batched
                   PROVE  EventId[f] \in Ids(Persist(sink, batch))
        BY Zenon DEF Ids
      <4> QED BY Zenon, <3>1 DEF Batched
    <3>3. sink' = Persist(sink, batch) /\ batch' = batch
      BY Zenon, <1>1, <2>2 DEF AppendOk
    <3> QED BY <2>1, <3>2, <3>3, Zenon DEF BatchSound, SinkIds, Batched
  <2>3. CASE \E n \in 0..MaxBatch : AppendError(n)
    BY <1>1, <2>1, <2>3, Zenon DEF AppendError, writerVars, BatchSound
  <2> QED BY Zenon, <2>2, <2>3
<1> QED BY Zenon, <1>4, <1>5, <1>6 DEF DurabilityInv

\* An unpin changes slots of the item's event only: it unpins one, and evicts
\* no pinned slot of another event (write_behind.rs:62-71).
LEMMA UnpinSlots ==
  ASSUME TypeOK, batch # <<>>, Unpin
  PROVE  LET id == EventId[Head(batch)]
         IN  /\ \A r \in Rooms : \A t \in ring'[r] :
                  \E s \in ring[r] : /\ t.env = s.env
                                     /\ t = s \/ (~t.pinned /\ EventId[t.env] = id)
             /\ \A r \in Rooms : \A s \in ring[r] :
                  s.pinned /\ IsDurable(s.env) /\ EventId[s.env] # id => s \in ring'[r]
<1> DEFINE h == Head(batch)
<1> DEFINE r0 == Room[h]
<1> DEFINE R == ring[r0]
<1> DEFINE id == EventId[h]
<1>1. h \in Envs
  BY DEF TypeOK
<1>2. r0 \in Rooms
  BY Zenon, <1>1, EnvelopesAssumption
<1>3. R \in SUBSET Slots
  BY Zenon, <1>2 DEF TypeOK
<1>4. ring' = [ring EXCEPT ![r0] = MarkPersisted(R, id)]
  BY Zenon DEF Unpin
<1> HIDE DEF h, r0, R, id
<1>5. /\ \A t \in MarkPersisted(R, id) :
           \E s \in R : /\ t.env = s.env
                        /\ t = s \/ (~t.pinned /\ EventId[t.env] = id)
      /\ \A s \in R : s.pinned /\ IsDurable(s.env) /\ EventId[s.env] # id
                        => s \in MarkPersisted(R, id)
  BY <1>3, MarkPersistedSlots
<1>6. \A r \in Rooms : \A t \in ring'[r] :
        \E s \in ring[r] : /\ t.env = s.env
                           /\ t = s \/ (~t.pinned /\ EventId[t.env] = id)
  BY <1>2, <1>4, <1>5, Zenon DEF TypeOK, R
<1>7. \A r \in Rooms : \A s \in ring[r] :
        s.pinned /\ IsDurable(s.env) /\ EventId[s.env] # id => s \in ring'[r]
  BY Zenon, <1>2, <1>4, <1>5 DEF TypeOK, R
<1> QED BY Zenon, <1>6, <1>7 DEF id, h

\* Unpinning preserves the invariant: the item's row is stored, so every slot
\* the step unpins, and may then evict, has its id in the sink
\* (write_behind.rs:62-71).
LEMMA InvUnpin ==
  ASSUME DurabilityInv, TypeOK', Unpin
  PROVE  DurabilityInv'
<1>1. TypeOK /\ batch \in Seq(Envs) /\ batch # <<>> /\ Ids(Batched) \subseteq SinkIds
  BY Zenon DEF DurabilityInv, TypeOK, BatchSound, Unpin
<1> DEFINE h == Head(batch)
<1> DEFINE id == EventId[h]
<1>2. h \in Batched /\ h \in Envs
  BY <1>1 DEF Batched
<1>3. id \in SinkIds
  BY Zenon, <1>1, <1>2 DEF Ids
<1>4. Room \in [Envs -> Rooms]
  BY Zenon, EnvelopesAssumption
<1>5. /\ \A r \in Rooms : \A t \in ring'[r] :
           \E s \in ring[r] : /\ t.env = s.env
                              /\ t = s \/ (~t.pinned /\ EventId[t.env] = id)
      /\ \A r \in Rooms : \A s \in ring[r] :
           s.pinned /\ IsDurable(s.env) /\ EventId[s.env] # id => s \in ring'[r]
  BY Zenon, <1>1, UnpinSlots
<1>6. /\ UNCHANGED <<epoch, counter, seqOf, stage, sink, queue>>
      /\ batch' = Tail(batch)
      /\ writer' \in {"recv", "unpin"} /\ (writer' = "unpin" => batch' # <<>>)
  BY Zenon DEF Unpin, seqVars
<1> HIDE DEF h, id
<1>7. SlotsSound'
  <2> SUFFICES ASSUME NEW r \in Rooms, NEW t \in ring'[r]
               PROVE  /\ Room[t.env] = r
                      /\ t.pinned => IsDurable(t.env)
                      /\ IsDurable(t.env) /\ ~t.pinned => EventId[t.env] \in SinkIds'
    BY Zenon DEF SlotsSound
  <2>1. PICK s \in ring[r] : t.env = s.env /\ (t = s \/ (~t.pinned /\ EventId[t.env] = id))
    BY Zenon, <1>5
  <2>2. /\ Room[s.env] = r
        /\ s.pinned => IsDurable(s.env)
        /\ IsDurable(s.env) /\ ~s.pinned => EventId[s.env] \in SinkIds
    BY Zenon DEF DurabilityInv, SlotsSound
  <2>3. SinkIds' = SinkIds
    BY Zenon, <1>6 DEF SinkIds
  <2> QED BY Zenon, <1>3, <2>1, <2>2, <2>3
<1>8. Batched' \subseteq Batched
  BY <1>1, <1>6 DEF Batched
<1>9. BatchSound'
  BY <1>1, <1>6, <1>8, Zenon DEF BatchSound, SinkIds, Ids
<1>10. BacklogAccepted'
  BY Zenon, <1>6, <1>8 DEF DurabilityInv, BacklogAccepted, Accepted, Queued
<1>11. StampsBelow' /\ StampedNow'
  BY Zenon, <1>6 DEF DurabilityInv, StampsBelow, StampedNow
<1>12. NeverNeither'
  <2> SUFFICES ASSUME NEW f \in Envs, Accepted(f)', EventId[f] \notin SinkIds'
               PROVE  PinnedIn(Room[f], f)'
    BY Zenon DEF NeverNeither
  <2>1. EventId[f] \notin SinkIds /\ Accepted(f)
    BY Zenon, <1>6 DEF SinkIds, Accepted
  <2>2. PinnedIn(Room[f], f) /\ EventId[f] # id
    BY Zenon, <1>3, <2>1 DEF DurabilityInv, NeverNeither
  <2> QED BY <1>4, <1>5, <2>1, <2>2 DEF PinnedIn, Accepted
<1> QED BY <1>7, <1>9, <1>10, <1>11, <1>12, Zenon DEF DurabilityInv

\* A restart preserves the invariant: nothing visible carries the new epoch.
LEMMA InvRestart ==
  ASSUME DurabilityInv, TypeOK', Restart
  PROVE  DurabilityInv'
<1>1. TypeOK
  BY Zenon DEF DurabilityInv
<1>2. /\ epoch' = epoch + 1 /\ counter' = 0 /\ seqOf' = seqOf
      /\ ring' = [r \in Rooms |-> {}]
      /\ queue' = <<>> /\ batch' = <<>> /\ writer' = "recv"
      /\ \A e \in Envs : stage'[e] \notin InFlight
  BY Zenon DEF Restart, InFlight, Admitted
<1>3. \A e \in Envs : /\ SeqBefore(seqOf[e], <<epoch + 1, 0>>)
                      /\ seqOf[e][1] # epoch + 1
  BY <1>1, SeqOrder, Zenon DEF DurabilityInv, StampsBelow, TypeOK
<1>4. \A e \in Envs : ~Accepted(e)'
  BY <1>2, <1>3, Zenon DEF Accepted
<1>5. SlotsSound' /\ BatchSound' /\ BacklogAccepted'
  <2>1. \A r \in Rooms : ring'[r] = {}
    BY Zenon, <1>2
  <2>2. Queued' = {} /\ Batched' = {}
    BY <1>2 DEF Queued, Batched
  <2> QED BY Zenon, <1>2, <2>1, <2>2 DEF SlotsSound, BatchSound, BacklogAccepted
<1>6. StampsBelow'
  BY Zenon, <1>2, <1>3 DEF StampsBelow
<1>7. StampedNow'
  BY Zenon, <1>2 DEF StampedNow, InFlight, Admitted
<1>8. NeverNeither'
  BY Zenon, <1>4 DEF NeverNeither
<1> QED BY Zenon, <1>5, <1>6, <1>7, <1>8 DEF DurabilityInv

\* The router starts in the invariant.
LEMMA InvInit == Init => DurabilityInv
<1> SUFFICES ASSUME Init PROVE DurabilityInv
  BY Zenon
<1>1. TypeOK
  <2>1. /\ stage \in [Envs -> Stages] /\ seqOf \in [Envs -> Seqs]
        /\ epoch \in Nat \ {0} /\ counter \in Nat
    BY DEF Init, Stages, Seqs, Unstamped
  <2>2. /\ ring \in [Rooms -> SUBSET Slots] /\ pushes \in [Rooms -> Nat]
        /\ ephemeral \in [Rooms -> SUBSET Envs]
    BY Zenon DEF Init
  <2>3. /\ recent \in Seq(Ids(Envs)) /\ queue \in Seq(Envs)
        /\ batch \in Seq(Envs) /\ forward \in Seq(Envs)
    BY DEF Init
  <2>4. /\ writer \in Writers /\ sink \in SUBSET Envs /\ forwardTx \in BOOLEAN
        /\ latest \in SUBSET Envs /\ emitted \in SUBSET Envs
    BY Zenon DEF Init, Writers
  <2> QED BY Zenon, <2>1, <2>2, <2>3, <2>4 DEF TypeOK
<1>2. SlotsSound /\ BatchSound /\ BacklogAccepted
  <2>1. /\ \A r \in Rooms : ring[r] = {}
        /\ writer = "recv"
    BY Zenon DEF Init
  <2>2. Queued = {} /\ Batched = {}
    BY DEF Init, Queued, Batched
  <2> QED BY Zenon, <2>1, <2>2 DEF SlotsSound, BatchSound, BacklogAccepted
<1>3. StampsBelow /\ StampedNow
  BY DEF Init, StampsBelow, StampedNow, SeqBefore, Unstamped
<1>4. NeverNeither
  BY Zenon DEF Init, NeverNeither, Accepted, Visible
<1> QED BY Zenon, <1>1, <1>2, <1>3, <1>4 DEF DurabilityInv

\* The invariant depends on the sequence, the publishes, the rings and the
\* writer only.
LEMMA InvFrame ==
  ASSUME DurabilityInv, TypeOK',
         UNCHANGED <<epoch, counter, seqOf, stage, ring, queue, writer, batch, sink>>
  PROVE  DurabilityInv'
<1>1. SlotsSound'
  BY Zenon DEF DurabilityInv, SlotsSound, SinkIds
<1>2. BatchSound'
  BY Zenon DEF DurabilityInv, BatchSound, Batched, SinkIds
<1>3. BacklogAccepted'
  BY DEF DurabilityInv, BacklogAccepted, Accepted, Queued, Batched
<1>4. StampsBelow' /\ StampedNow'
  BY Zenon DEF DurabilityInv, StampsBelow, StampedNow
<1>5. NeverNeither'
  BY Zenon DEF DurabilityInv, NeverNeither, Accepted, PinnedIn, SinkIds
<1> QED BY Zenon, <1>1, <1>2, <1>3, <1>4, <1>5 DEF DurabilityInv

\* Every step of the router preserves the invariant.
LEMMA InvStep ==
  ASSUME DurabilityInv, [Next]_routerVars
  PROVE  DurabilityInv'
<1>1. TypeOK /\ BatchSound
  BY Zenon DEF DurabilityInv
<1>2. ASSUME NEW e \in Envs, PublishOutside(e)
      PROVE  DurabilityInv'
  BY Zenon, <1>2, InvPublish
<1>3. ASSUME NEW e \in Envs, Deliver(e)
      PROVE  DurabilityInv'
  BY Zenon, <1>3, InvDeliver
<1>4. CASE WriteBehind
  <2>1. TypeOK'
    BY Zenon, <1>1, <1>4, TypeWriter
  <2> QED BY Zenon, <1>4, <2>1, InvTake, InvAppend, InvUnpin DEF WriteBehind
<1>5. CASE SetForwardSink \/ DrainForward
  <2>1. TypeOK'
    BY Zenon, <1>1, <1>5, TypeForwardRestart
  <2>2. UNCHANGED <<epoch, counter, seqOf, stage, ring, queue, writer, batch, sink>>
    BY Zenon, <1>5 DEF SetForwardSink, DrainForward, seqVars, cacheVars, writerVars
  <2> QED BY Zenon, <2>1, <2>2, InvFrame
<1>6. CASE Restart
  BY Zenon, <1>1, <1>6, TypeForwardRestart, InvRestart
<1>7. CASE UNCHANGED routerVars
  <2>1. TypeOK'
    BY Zenon, <1>1, <1>7 DEF routerVars, seqVars, cacheVars, writerVars, forwardVars, TypeOK
  <2>2. UNCHANGED <<epoch, counter, seqOf, stage, ring, queue, writer, batch, sink>>
    BY Zenon, <1>7 DEF routerVars, seqVars, cacheVars, writerVars
  <2> QED BY Zenon, <2>1, <2>2, InvFrame
<1> QED BY Zenon, <1>2, <1>3, <1>4, <1>5, <1>6, <1>7 DEF Next

\* The inductive invariant holds of every execution.
THEOREM RouterInvariant == Spec => []DurabilityInv
  BY InvInit, InvStep, PTL DEF Spec

\* The router's state is well typed in every execution, whatever the publishes,
\* rooms, capacities and failures.
THEOREM RouterTypeCorrect == Spec => []TypeOK
<1>1. DurabilityInv => TypeOK
  BY Zenon DEF DurabilityInv
<1> QED BY <1>1, RouterInvariant, PTL

\* "In the ring (pinned) or already in the sink - never neither"
\* (router.rs:20-22), for every number of publishers, every ring capacity and
\* byte budget, every batch size, and any number of append failures and
\* restarts.
THEOREM RouterNeverNeither == Spec => []NeverNeither
<1>1. DurabilityInv => NeverNeither
  BY Zenon DEF DurabilityInv
<1> QED BY <1>1, RouterInvariant, PTL

\* No stamp is ever given twice or out of order: a new one is above every one
\* given before, by this start or an earlier one, lost events included
\* (seq.rs:5-10).
THEOREM RouterFreshStamp == Spec => FreshStamp
<1> DEFINE Fresh == \A e, f \in Envs :
                      seqOf'[e] # seqOf[e] => SeqBefore(seqOf[f], seqOf'[e])
<1>1. ASSUME DurabilityInv, [Next]_routerVars
      PROVE  [Fresh]_routerVars
  <2>1. ASSUME NEW g \in Envs, PublishOutside(g)
        PROVE  Fresh
    <3>1. TypeOK /\ StampsBelow
      BY Zenon, <1>1 DEF DurabilityInv
    <3>2. CASE seqOf' = seqOf
      BY Zenon, <3>2
    <3>3. CASE seqOf' = [seqOf EXCEPT ![g] = <<epoch, counter>>]
      BY <3>1, <3>3, Zenon DEF TypeOK, StampsBelow
    <3> QED BY <2>1, <3>1, <3>2, <3>3, StampOfPublish, Zenon
  <2>2. CASE WriteBehind
    BY Zenon, <2>2 DEF WriteBehind, WriterRecv, WriterTryRecv, WriterClose, AppendOk, AppendError,
                Unpin, seqVars
  <2>3. CASE (\E g \in Envs : Deliver(g)) \/ SetForwardSink \/ DrainForward \/ Restart
    BY <2>3, Zenon DEF Deliver, SetForwardSink, DrainForward, Restart, seqVars
  <2> QED BY <1>1, <2>1, <2>2, <2>3, Zenon DEF Next
<1>2. Fresh <=> \A e, f \in Envs :
                  seqOf'[e] # seqOf[e] => SeqBefore(seqOf[f], seqOf'[e])
  BY Zenon
<1> HIDE DEF Fresh
<1> QED BY <1>1, <1>2, RouterInvariant, PTL DEF Spec, FreshStamp

(***************************************************************************)
(* The router implements DurableLog.                                       *)
(***************************************************************************)
\* A reader finds a durable event in a ring or in the sink.
LEMMA ReadableIff ==
  ASSUME NEW id
  PROVE  id \in Readable <=>
           \/ id \in SinkIds
           \/ \E r \in Rooms : \E s \in ring[r] : IsDurable(s.env) /\ EventId[s.env] = id
  BY DEF Readable, RingEnvs, Ids

\* The same of the state a step leads to.
LEMMA ReadableIffNext ==
  ASSUME NEW id
  PROVE  id \in Readable' <=>
           \/ id \in SinkIds'
           \/ \E r \in Rooms : \E s \in ring'[r] : IsDurable(s.env) /\ EventId[s.env] = id
  BY DEF Readable, SinkIds, RingEnvs, Ids

\* An accepted event is readable (never neither).
LEMMA AcceptedReadable ==
  ASSUME DurabilityInv, NEW e \in Envs, Accepted(e)
  PROVE  EventId[e] \in Readable
<1>1. Room[e] \in Rooms
  BY Zenon, EnvelopesAssumption
<1>2. PinnedIn(Room[e], e) \/ EventId[e] \in SinkIds
  BY Zenon DEF DurabilityInv, NeverNeither
<1> QED BY <1>1, <1>2, ReadableIff DEF PinnedIn, Accepted

\* The locked section accepts its event and makes none unreadable.
LEMMA RefineDeliver ==
  ASSUME DurabilityInv, NEW e \in Envs, Deliver(e)
  PROVE  Log!Next \/ UNCHANGED Log!logVars
<1>1. TypeOK /\ SlotsSound
  BY Zenon DEF DurabilityInv
<1>2. UNCHANGED <<epoch, sink>> /\ SinkIds' = SinkIds
  BY Zenon DEF Deliver, seqVars, SinkIds
<1>3. Room[e] \in Rooms
  BY Zenon, EnvelopesAssumption
<1>4. /\ \A r \in Rooms : \A t \in ring'[r] :
           \/ t \in ring[r]
           \/ r = Room[e] /\ t.env = e /\ t.pinned = IsDurable(e)
      /\ \A r \in Rooms : \A s \in ring[r] :
           s.pinned /\ IsDurable(s.env) => s \in ring'[r]
  BY <1>1, DeliverSlots, Zenon
<1>5. \A id \in Readable : id \in Readable'
  <2> SUFFICES ASSUME NEW id \in Readable PROVE id \in Readable'
    BY Zenon
  <2>1. CASE id \in SinkIds
    BY <1>2, <2>1, ReadableIffNext, Zenon
  <2>2. ASSUME NEW r \in Rooms, NEW s \in ring[r], IsDurable(s.env), EventId[s.env] = id
        PROVE  id \in Readable'
    <3>1. s.pinned \/ id \in SinkIds
      BY Zenon, <1>1, <2>2 DEF SlotsSound
    <3> QED BY <1>2, <1>4, <2>2, <3>1, ReadableIffNext, Zenon
  <2> QED BY Zenon, <2>1, <2>2, ReadableIff
<1>6. \A id \in Readable' : id \in Readable \/ (IsDurable(e) /\ id = EventId[e])
  <2> SUFFICES ASSUME NEW id \in Readable'
               PROVE  id \in Readable \/ (IsDurable(e) /\ id = EventId[e])
    BY Zenon
  <2>1. CASE id \in SinkIds'
    BY Zenon, <1>2, <2>1, ReadableIff
  <2>2. ASSUME NEW r \in Rooms, NEW s \in ring'[r], IsDurable(s.env), EventId[s.env] = id
        PROVE  id \in Readable \/ (IsDurable(e) /\ id = EventId[e])
    BY <1>4, <2>2, ReadableIff, Zenon
  <2> QED BY Zenon, <2>1, <2>2, ReadableIffNext
<1>7. CASE IsDurable(e)
  <2>1. EventId[e] \in Readable'
    BY <1>1, <1>3, <1>7, DeliverSlots, ReadableIffNext
  <2>2. Readable' = Readable \cup {EventId[e]}
    BY Zenon, <1>5, <1>6, <2>1
  <2>3. EventId[e] \in Ids(Envs)
    BY Zenon, IdInIds
  <2> QED BY <1>2, <2>2, <2>3, Zenon DEF Log!Next, Log!Accept
<1>8. CASE ~IsDurable(e)
  BY Zenon, <1>2, <1>5, <1>6, <1>8 DEF Log!logVars
<1> QED BY Zenon, <1>7, <1>8

\* A group commit, whole or partial, keeps the rows and adds rows of the batch
\* (write_behind.rs:37-60).
LEMMA AppendRows ==
  ASSUME TypeOK, AppendOk \/ \E n \in 0..MaxBatch : AppendError(n)
  PROVE  sink \subseteq sink' /\ sink' \subseteq sink \cup Batched
<1>0. sink \in SUBSET Envs /\ batch \in Seq(Envs)
  BY Zenon DEF TypeOK
<1>1. CASE AppendOk
  BY Zenon, <1>0, <1>1, PersistRows DEF AppendOk, Batched
<1>2. ASSUME NEW n \in 0..MaxBatch, AppendError(n)
      PROVE  sink \subseteq sink' /\ sink' \subseteq sink \cup Batched
  <2> DEFINE rows == SubSeq(batch, 1, n)
  <2>1. n \in 0..Len(batch) /\ sink' = Persist(sink, rows)
    BY <1>0, <1>2 DEF AppendError
  <2>2. rows \in Seq(Envs) /\ Len(rows) = n
    BY <1>0, <2>1, SubSeqProperties
  <2>3. \A i \in 1..n : rows[i] = batch[i] /\ i \in DOMAIN batch
    BY <1>0, <2>1
  <2> HIDE DEF rows
  <2>4. DOMAIN rows = 1..n
    BY <2>2
  <2>5. sink \subseteq sink' /\ sink' \subseteq sink \cup {rows[i] : i \in DOMAIN rows}
    BY Zenon, <1>0, <2>1, <2>2, PersistRows
  <2> QED BY Zenon, <2>3, <2>4, <2>5 DEF Batched
<1> QED BY Zenon, <1>1, <1>2

\* A group commit, whole or partial, stores readable events and changes nothing
\* a reader can find.
LEMMA RefineAppend ==
  ASSUME DurabilityInv, AppendOk \/ \E n \in 0..MaxBatch : AppendError(n)
  PROVE  Log!Next
<1>1. sink \in SUBSET Envs /\ batch \in Seq(Envs)
  BY Zenon DEF DurabilityInv, TypeOK
<1>2. UNCHANGED <<epoch, ring>>
  BY Zenon DEF AppendOk, AppendError, seqVars, cacheVars
<1>3. \A f \in Batched : f \in Envs /\ EventId[f] \in Readable
  BY Zenon, BacklogEnvs, AcceptedReadable
<1>4. sink \subseteq sink' /\ sink' \subseteq sink \cup Batched
  BY Zenon, AppendRows DEF DurabilityInv
<1>5. SinkIds \subseteq SinkIds' /\ SinkIds' \subseteq Readable
  BY Zenon, <1>3, <1>4, ReadableIff DEF SinkIds, Ids
<1>6. Readable' = Readable
  BY <1>2, <1>5, ReadableIff, ReadableIffNext, Zenon
<1>7. SinkIds' = SinkIds \cup SinkIds' /\ SinkIds' \in SUBSET Readable
  BY Zenon, <1>5
<1> QED BY Zenon, <1>2, <1>6, <1>7 DEF Log!Next, Log!Store

\* Unpinning, and the eviction it sets off, is invisible: what it may remove is
\* stored.
LEMMA RefineUnpin ==
  ASSUME DurabilityInv, Unpin
  PROVE  UNCHANGED Log!logVars
<1>1. /\ TypeOK /\ SlotsSound /\ batch \in Seq(Envs) /\ batch # <<>>
      /\ Ids(Batched) \subseteq SinkIds
  BY Zenon DEF DurabilityInv, TypeOK, BatchSound, Unpin
<1>2. UNCHANGED <<epoch, sink>> /\ SinkIds' = SinkIds
  BY Zenon DEF Unpin, seqVars, SinkIds
<1> DEFINE id == EventId[Head(batch)]
<1>3. id \in SinkIds
  <2>1. Head(batch) \in Batched
    BY <1>1 DEF Batched
  <2> QED BY Zenon, <1>1, <2>1 DEF Ids
<1>4. /\ \A r \in Rooms : \A t \in ring'[r] :
           \E s \in ring[r] : /\ t.env = s.env
                              /\ t = s \/ (~t.pinned /\ EventId[t.env] = id)
      /\ \A r \in Rooms : \A s \in ring[r] :
           s.pinned /\ IsDurable(s.env) /\ EventId[s.env] # id => s \in ring'[r]
  BY <1>1, UnpinSlots, Zenon
<1> HIDE DEF id
<1>5. ASSUME NEW i \in Readable PROVE i \in Readable'
  <2>1. CASE i \in SinkIds
    BY <1>2, <2>1, ReadableIffNext, Zenon
  <2>2. ASSUME NEW r \in Rooms, NEW s \in ring[r], IsDurable(s.env), EventId[s.env] = i
        PROVE  i \in Readable'
    <3>1. i \in SinkIds \/ s \in ring'[r]
      BY <1>1, <1>3, <1>4, <2>2, Zenon DEF SlotsSound
    <3> QED BY Zenon, <1>2, <2>2, <3>1, ReadableIffNext
  <2> QED BY <2>1, <2>2, ReadableIff, Zenon
<1>6. ASSUME NEW i \in Readable' PROVE i \in Readable
  <2>1. CASE i \in SinkIds'
    BY Zenon, <1>2, <2>1, ReadableIff
  <2>2. ASSUME NEW r \in Rooms, NEW s \in ring'[r], IsDurable(s.env), EventId[s.env] = i
        PROVE  i \in Readable
    <3>1. PICK t \in ring[r] : s.env = t.env
      BY <1>4, <2>2, Zenon
    <3> QED BY <2>2, <3>1, ReadableIff, Zenon
  <2> QED BY Zenon, <2>1, <2>2, ReadableIffNext
<1> QED BY Zenon, <1>2, <1>5, <1>6 DEF Log!logVars

\* A restart leaves readable what was stored.
LEMMA RefineRestart ==
  ASSUME DurabilityInv, Restart
  PROVE  Log!Next
<1>1. /\ epoch' = epoch + 1 /\ SinkIds' = SinkIds
      /\ ring' = [r \in Rooms |-> {}]
  BY Zenon DEF Restart, SinkIds
<1>2. Readable' = SinkIds
  BY <1>1, ReadableIffNext, Zenon
<1> QED BY Zenon, <1>1, <1>2 DEF Log!Next, Log!Crash

\* The router implements DurableLog for every value of the constants: an
\* accepted durable event stays readable through every eviction, append failure
\* and unpin, only readable events are stored, and a restart loses only what
\* was not stored (router.rs:20-22, write_behind.rs:6-9).
THEOREM RouterImplementsDurableLog == Spec => ImplementsDurableLog
<1>1. Init => Log!Init
  <2> SUFFICES ASSUME Init PROVE Log!Init
    BY Zenon
  <2>1. SinkIds = {}
    BY Zenon DEF Init, SinkIds, Ids
  <2>2. \A r \in Rooms : ring[r] = {}
    BY Zenon DEF Init
  <2>3. Readable = {}
    BY Zenon, <2>1, <2>2, ReadableIff
  <2> QED BY Zenon, <2>1, <2>3 DEF Init, Log!Init
<1>2. ASSUME DurabilityInv, [Next]_routerVars
      PROVE  [Log!Next]_(Log!logVars)
  <2>1. ASSUME UNCHANGED <<epoch, ring, sink>>
        PROVE  UNCHANGED Log!logVars
    BY Zenon, <2>1 DEF Log!logVars, Readable, SinkIds
  <2>2. ASSUME NEW e \in Envs, PublishOutside(e)
        PROVE  UNCHANGED <<epoch, ring, sink>>
    <3>1. TypeOK
      BY Zenon, <1>2 DEF DurabilityInv
    <3> QED BY Zenon, <2>2, <3>1, StageOfPublish
  <2>3. ASSUME NEW e \in Envs, Deliver(e)
        PROVE  Log!Next \/ UNCHANGED Log!logVars
    BY Zenon, <1>2, <2>3, RefineDeliver
  <2>4. CASE WriterRecv \/ WriterTryRecv \/ WriterClose \/ SetForwardSink \/ DrainForward
    <3>1. UNCHANGED <<epoch, ring, sink>>
      BY Zenon, <2>4 DEF WriterRecv, WriterTryRecv, WriterClose, SetForwardSink, DrainForward,
                  seqVars, cacheVars
    <3> QED BY Zenon, <2>1, <3>1
  <2>5. CASE AppendOk \/ \E n \in 0..MaxBatch : AppendError(n)
    BY Zenon, <1>2, <2>5, RefineAppend
  <2>6. CASE Unpin
    BY Zenon, <1>2, <2>6, RefineUnpin
  <2>7. CASE Restart
    BY Zenon, <1>2, <2>7, RefineRestart
  <2>8. CASE UNCHANGED routerVars
    BY Zenon, <2>1, <2>8 DEF routerVars, seqVars, cacheVars
  <2> QED
    BY <1>2, <2>1, <2>2, <2>3, <2>4, <2>5, <2>6, <2>7, <2>8 DEF Next, WriteBehind
<1> QED BY <1>1, <1>2, RouterInvariant, PTL DEF Spec, ImplementsDurableLog, Log!Spec
=============================================================================
