----------------------------- MODULE OrderProofs -----------------------------
(***************************************************************************)
(* Order.  A publish takes its stamp before the locked section and hands   *)
(* its item to the writer and to the forwarder after it, so publishes that *)
(* overlap may be stored, or offered, against their stamps.  For publishes *)
(* that follow one another the order is kept everywhere: a crash loses a   *)
(* tail only, and the forwarder never emits a superseded value.            *)
(***************************************************************************)
EXTENDS IngestProofs

OneByOne == MaxInFlight = 1 /\ IsFiniteSet(Envs)

OneAtATime ==
  \A e, f \in Envs : stage[e] \in InFlight /\ stage[f] \in InFlight => e = f

Stamped == {"stamped", "recorded", "delivered", "queued", "put"}

\* The publish in flight has the newest stamp.
NewestInFlight ==
  \A e, f \in Envs : stage[e] \in Stamped => ~SeqBefore(seqOf[e], seqOf[f])

\* What waits for the writer, oldest first.
Backlog == batch \o queue

BacklogOrdered ==
  /\ \A e \in Queued \cup Batched : stage[e] \in {"queued", "done"}
  /\ \A i, j \in DOMAIN Backlog :
       i < j => ~SeqBefore(seqOf[Backlog[j]], seqOf[Backlog[i]])
  /\ writer = "recv" => batch = <<>>

\* An accepted event that is not stored is with its publisher or the writer.
UnstoredWaits ==
  \A e \in Envs : Accepted(e) /\ EventId[e] \notin SinkIds
                  => stage[e] = "delivered" \/ e \in Queued \cup Batched

\* A stored publish is never stamped again.
StoredIsOver ==
  \A e \in sink : stage[e] \notin {"new", "fresh", "admitted", "stamped", "recorded", "delivered"}

OrderInv ==
  /\ OneAtATime /\ NewestInFlight /\ BacklogOrdered /\ UnstoredWaits
  /\ StoredIsOver /\ StoredIsPrefix

\* The values the forwarder holds were offered, and none has a newer one of its
\* key that was.
LatestIsNewest ==
  /\ ~forwardTx => latest = {}
  /\ \A e \in latest :
       /\ Coalescable(e) /\ stage[e] \in {"put", "done"}
       /\ \A f \in Envs : /\ Coalescable(f) /\ ForwardKey(f) = ForwardKey(e)
                          /\ stage[f] \in {"put", "done"}
                          => ~SeqBefore(seqOf[e], seqOf[f])

\* A publish starts only when no other runs.
LEMMA StartsAlone ==
  ASSUME OneByOne, TypeOK, NEW e \in Envs, PublishOutside(e), stage[e] \notin InFlight
  PROVE  \A f \in Envs : stage[f] \notin InFlight
<1> DEFINE T == {f \in Envs : stage[f] \in InFlight}
<1>1. CanRun
  <2>1. CASE PublishIfNew(e)
    BY Zenon, <2>1 DEF PublishIfNew, MarkNew, Arrives, ProbeSink, ProbeError, Unmark, InFlight
  <2>2. CASE Reserve(e) \/ Shed(e) \/ Stamp(e) \/ Record(e)
    BY Zenon, <2>2 DEF Reserve, Shed, Stamp, Record, Ready, InFlight, Admitted
  <2>3. CASE Enqueue(e) \/ Offer(e)
    BY Zenon, <2>3 DEF Enqueue, Offer, NotOffered, PutLatest, SendForward, Offering, InFlight,
                Admitted
  <2> QED BY Zenon, <2>1, <2>2, <2>3 DEF PublishOutside
<1>2. IsFiniteSet(T) /\ Cardinality(T) \in Nat
  BY Zenon, FS_Subset, FS_CardinalityType DEF OneByOne
<1>3. Cardinality(T) = 0
  BY <1>1, <1>2 DEF CanRun, OneByOne
<1>4. T = {}
  BY Zenon, <1>2, <1>3, FS_EmptySet
<1> QED BY Zenon, <1>4

\* So the step of a publish, and the locked section, find no other in flight.
LEMMA RunsAlone ==
  ASSUME OneByOne, DurabilityInv, OneAtATime, NEW e \in Envs,
         PublishOutside(e) \/ Deliver(e)
  PROVE  /\ \A f \in Envs \ {e} : /\ stage[f] \notin InFlight /\ stage'[f] = stage[f]
                                  /\ seqOf'[f] = seqOf[f]
         /\ OneAtATime'
<1>1. TypeOK
  BY Zenon DEF DurabilityInv
<1>2. \A f \in Envs \ {e} : stage'[f] = stage[f] /\ seqOf'[f] = seqOf[f]
  <2>1. CASE PublishOutside(e)
    BY Zenon, <1>1, <2>1, StepOfPublish
  <2>2. CASE Deliver(e)
    BY Zenon, <1>1, <2>2 DEF Deliver, TypeOK, seqVars
  <2> QED BY Zenon, <2>1, <2>2
<1>3. \A f \in Envs \ {e} : stage[f] \notin InFlight
  <2>1. CASE stage[e] \in InFlight
    BY Zenon, <2>1 DEF OneAtATime
  <2>2. CASE stage[e] \notin InFlight
    <3>1. PublishOutside(e)
      BY Zenon, <2>2 DEF Deliver, InFlight, Admitted
    <3> QED BY Zenon, <1>1, <2>2, <3>1, StartsAlone
  <2> QED BY Zenon, <2>1, <2>2
<1>4. OneAtATime'
  BY Zenon, <1>2, <1>3 DEF OneAtATime
<1> QED BY Zenon, <1>2, <1>3, <1>4

\* No stamp is after the next one.
LEMMA NothingAfterNext ==
  ASSUME DurabilityInv, NEW f \in Envs
  PROVE  /\ ~SeqBefore(<<epoch, counter>>, seqOf[f])
         /\ ~SeqBefore(seqOf[f], seqOf[f])
         /\ ~SeqBefore(<<epoch, counter>>, <<epoch, counter>>)
<1>1. seqOf[f] \in Seqs /\ SeqBefore(seqOf[f], <<epoch, counter>>)
      /\ epoch \in Nat /\ counter \in Nat
  BY Zenon DEF DurabilityInv, TypeOK, StampsBelow
<1> QED BY <1>1 DEF Seqs, SeqBefore

\* What waits for the writer, by position.
LEMMA BacklogSeq ==
  ASSUME TypeOK
  PROVE  /\ Backlog \in Seq(Envs) /\ DOMAIN Backlog = 1..(Len(batch) + Len(queue))
         /\ \A i \in 1..Len(batch) : Backlog[i] = batch[i]
         /\ \A i \in 1..Len(queue) : Backlog[Len(batch) + i] = queue[i]
         /\ \A i \in DOMAIN Backlog : Backlog[i] \in Queued \cup Batched
         /\ \A e \in Queued \cup Batched : \E i \in DOMAIN Backlog : Backlog[i] = e
<1>1. /\ queue \in Seq(Envs) /\ batch \in Seq(Envs)
      /\ Len(queue) \in Nat /\ Len(batch) \in Nat
      /\ DOMAIN queue = 1..Len(queue) /\ DOMAIN batch = 1..Len(batch)
  BY DEF TypeOK
<1>2. /\ Backlog \in Seq(Envs) /\ Len(Backlog) = Len(batch) + Len(queue)
      /\ \A i \in 1..(Len(batch) + Len(queue)) :
           Backlog[i] = IF i <= Len(batch) THEN batch[i] ELSE queue[i - Len(batch)]
  BY Zenon, <1>1, ConcatProperties DEF Backlog
<1>3. DOMAIN Backlog = 1..(Len(batch) + Len(queue))
  BY <1>2
<1>4. \A i \in 1..Len(batch) : Backlog[i] = batch[i]
  BY <1>1, <1>2
<1>5. ASSUME NEW i \in 1..Len(queue)
      PROVE  Backlog[Len(batch) + i] = queue[i] /\ Len(batch) + i \in DOMAIN Backlog
  <2>1. /\ Len(batch) + i \in 1..(Len(batch) + Len(queue))
        /\ ~(Len(batch) + i <= Len(batch)) /\ (Len(batch) + i) - Len(batch) = i
    BY <1>1
  <2> QED BY Zenon, <1>2, <1>3, <2>1
<1>6. ASSUME NEW i \in DOMAIN Backlog
      PROVE  Backlog[i] \in Queued \cup Batched
  <2>1. CASE i <= Len(batch)
    BY <1>1, <1>3, <1>4, <2>1 DEF Batched
  <2>2. CASE ~(i <= Len(batch))
    <3>1. i - Len(batch) \in DOMAIN queue /\ Backlog[i] = queue[i - Len(batch)]
      BY <1>1, <1>2, <1>3, <2>2
    <3> QED BY Zenon, <3>1 DEF Queued
  <2> QED BY Zenon, <2>1, <2>2
<1>7. ASSUME NEW e \in Queued \cup Batched
      PROVE  \E i \in DOMAIN Backlog : Backlog[i] = e
  <2>1. CASE e \in Batched
    <3>1. PICK i \in DOMAIN batch : batch[i] = e
      BY Zenon, <2>1 DEF Batched
    <3>2. i \in DOMAIN Backlog /\ Backlog[i] = e
      BY <1>1, <1>3, <1>4, <3>1
    <3> QED BY Zenon, <3>2
  <2>2. CASE e \in Queued
    <3>1. PICK i \in DOMAIN queue : queue[i] = e
      BY Zenon, <2>2 DEF Queued
    <3> QED BY Zenon, <1>1, <1>5, <3>1
  <2> QED BY Zenon, <2>1, <2>2
<1> QED BY SMTT(20), <1>2, <1>3, <1>4, <1>5, <1>6, <1>7

\* Enqueueing appends to the backlog, taking an item off the queue leaves it as
\* it is, and unpinning drops its head.
LEMMA BacklogMoves ==
  ASSUME NEW S, NEW b \in Seq(S), NEW q \in Seq(S)
  PROVE  /\ \A x \in S : b \o Append(q, x) = Append(b \o q, x)
         /\ q # <<>> => /\ <<Head(q)>> \o Tail(q) = <<>> \o q
                        /\ Append(b, Head(q)) \o Tail(q) = b \o q
         /\ b # <<>> => Tail(b) \o q = Tail(b \o q)
<1>1. ASSUME NEW x \in S
      PROVE  b \o Append(q, x) = Append(b \o q, x)
  <2>1. Append(q, x) = q \o <<x>> /\ Append(b \o q, x) = (b \o q) \o <<x>>
    OBVIOUS
  <2>2. <<x>> \in Seq(S)
    OBVIOUS
  <2> QED BY <2>1, <2>2, ConcatAssociative
<1>2. ASSUME q # <<>>
      PROVE  /\ <<Head(q)>> \o Tail(q) = <<>> \o q
             /\ Append(b, Head(q)) \o Tail(q) = b \o q
  <2>1. PICK h \in S : h = Head(q)
    BY <1>2
  <2>2. PICK t \in Seq(S) : t = Tail(q)
    BY <1>2, HeadTailProperties, Zenon
  <2>3. <<h>> \in Seq(S) /\ <<h>> \o t \in Seq(S)
    OBVIOUS
  <2>4. <<h>> \o t = q
    <3>1. Len(t) = Len(q) - 1 /\ Len(q) \in Nat \ {0} /\ \A i \in 1..Len(t) : t[i] = q[i + 1]
      BY <1>2, <2>2, HeadTailProperties
    <3>2. h = q[1]
      BY <1>2, <2>1
    <3>3. /\ Len(<<h>> \o t) = Len(q)
          /\ \A i \in 1..Len(q) : (<<h>> \o t)[i] = IF i <= 1 THEN h ELSE t[i - 1]
      BY <3>1
    <3>4. ASSUME NEW i \in 1..Len(q) PROVE (<<h>> \o t)[i] = q[i]
      <4>1. CASE i = 1
        BY <3>2, <3>3, <4>1
      <4>2. CASE i # 1
        <5>1. i - 1 \in 1..Len(t) /\ (i - 1) + 1 = i /\ ~(i <= 1)
          BY <3>1, <4>2
        <5> QED BY Zenon, <3>1, <3>3, <5>1
      <4> QED BY Zenon, <4>1, <4>2
    <3> QED BY Zenon, <2>3, <3>3, <3>4, SeqEqual
  <2>5. <<>> \o q = q
    BY Zenon, ConcatEmptySeq
  <2>6. Append(b, h) = b \o <<h>>
    OBVIOUS
  <2>7. (b \o <<h>>) \o t = b \o (<<h>> \o t)
    BY <2>3, ConcatAssociative
  <2> QED BY SMTT(20), <2>1, <2>2, <2>4, <2>5, <2>6, <2>7
<1>3. ASSUME b # <<>>
      PROVE  Tail(b) \o q = Tail(b \o q)
  <2>1. PICK t \in Seq(S) : t = Tail(b)
    BY <1>3, HeadTailProperties, Zenon
  <2>2. Len(t) = Len(b) - 1 /\ Len(b) \in Nat \ {0} /\ \A i \in 1..Len(t) : t[i] = b[i + 1]
    BY <1>3, <2>1, HeadTailProperties
  <2>3. PICK c \in Seq(S) : c = b \o q
    BY Zenon, ConcatProperties
  <2>4. /\ Len(c) = Len(b) + Len(q)
        /\ \A i \in 1..Len(c) : c[i] = IF i <= Len(b) THEN b[i] ELSE q[i - Len(b)]
    BY <2>3, ConcatProperties
  <2>5. c # <<>>
    BY <2>2, <2>4
  <2>6. /\ Tail(c) \in Seq(S) /\ Len(Tail(c)) = Len(c) - 1
        /\ \A i \in 1..Len(Tail(c)) : Tail(c)[i] = c[i + 1]
    BY Zenon, <2>5, HeadTailProperties
  <2>7. /\ t \o q \in Seq(S) /\ Len(t \o q) = Len(t) + Len(q)
        /\ \A i \in 1..(Len(t) + Len(q)) :
             (t \o q)[i] = IF i <= Len(t) THEN t[i] ELSE q[i - Len(t)]
    BY Zenon, ConcatProperties
  <2>8. Len(t \o q) = Len(Tail(c)) /\ Len(q) \in Nat
    BY SMTT(20), <2>2, <2>4, <2>6, <2>7
  <2>9. ASSUME NEW i \in 1..Len(t \o q) PROVE (t \o q)[i] = Tail(c)[i]
    <3>1. /\ i + 1 \in 1..Len(c) /\ Tail(c)[i] = c[i + 1] /\ i \in 1..(Len(t) + Len(q))
      BY <2>2, <2>4, <2>6, <2>7, <2>8
    <3>2. CASE i <= Len(t)
      BY SMTT(20), <2>2, <2>4, <2>7, <3>1, <3>2
    <3>3. CASE ~(i <= Len(t))
      <4>1. ~(i + 1 <= Len(b)) /\ (i + 1) - Len(b) = i - Len(t)
        BY <2>2, <3>3
      <4>2. c[i + 1] = q[(i + 1) - Len(b)]
        BY Zenon, <2>4, <3>1, <4>1
      <4> QED BY SMTT(20), <2>7, <3>1, <3>3, <4>1, <4>2
    <3> QED BY Zenon, <3>2, <3>3
  <2>10. t \o q = Tail(c)
    BY ZenonT(30), <2>6, <2>7, <2>8, <2>9, SeqEqual
  <2> QED BY Zenon, <2>1, <2>3, <2>10
<1> QED BY Zenon, <1>1, <1>2, <1>3

\* A publish hands its item over with the newest stamp, so the backlog stays in
\* order, and a publish that is stored or waits is not stamped again.
LEMMA OrderPublish ==
  ASSUME OneByOne, DurabilityInv, OrderInv, NEW e \in Envs, PublishOutside(e)
  PROVE  OrderInv'
<1>1. /\ TypeOK /\ TypeOK' /\ OneAtATime /\ NewestInFlight /\ BacklogOrdered
      /\ UnstoredWaits /\ StoredIsOver /\ StoredIsPrefix
  BY Zenon, TypePublish DEF DurabilityInv, OrderInv
<1>2. /\ Arrival(e) \/ Answer(e) \/ Start(e) \/ Advance(e) \/ Finish(e)
      /\ \/ seqOf'[e] = seqOf[e] /\ stage'[e] # "stamped"
         \/ seqOf'[e] = <<epoch, counter>> /\ stage'[e] = "stamped"
      /\ UNCHANGED <<epoch, sink>> /\ SinkIds' = SinkIds
  BY Zenon, <1>1, StepOfPublish DEF SinkIds
<1>3. /\ \A f \in Envs \ {e} : /\ stage[f] \notin InFlight /\ stage'[f] = stage[f]
                               /\ seqOf'[f] = seqOf[f]
      /\ OneAtATime'
  BY Zenon, <1>1, RunsAlone
<1>4. NewestInFlight'
  <2> SUFFICES ASSUME NEW g \in Envs, NEW f \in Envs, stage'[g] \in Stamped
               PROVE  ~SeqBefore(seqOf'[g], seqOf'[f])
    BY Zenon DEF NewestInFlight
  <2>1. g = e
    BY Zenon, <1>3 DEF Stamped, InFlight, Admitted
  <2>2. CASE seqOf'[e] = <<epoch, counter>>
    BY Zenon, <1>3, <2>1, <2>2, NothingAfterNext
  <2>3. CASE seqOf'[e] = seqOf[e] /\ stage'[e] # "stamped"
    <3>1. stage[e] \in Stamped
      BY Zenon, <1>2, <2>1, <2>3 DEF Stamped, Arrival, Answer, Start, Advance, Finish
    <3>2. seqOf'[f] = seqOf[f]
      BY Zenon, <1>3, <2>3
    <3> QED BY <1>1, <2>1, <2>3, <3>1, <3>2 DEF NewestInFlight
  <2> QED BY Zenon, <1>2, <2>2, <2>3
<1>5. UNCHANGED <<writer, batch>> /\ Batched' = Batched
  BY Zenon, <1>1, StageOfPublish DEF Batched
<1>6. queue' = queue \/ Enqueue(e)
  BY Zenon DEF PublishOutside, PublishIfNew, Offer, MarkNew, ProbeSink, ProbeError, Unmark,
         Reserve, Shed, Stamp, Record, NotOffered, PutLatest, SendForward, writerVars
<1>7. ASSUME NEW f \in Queued \cup Batched
      PROVE  f \in Envs /\ stage'[f] \in {"queued", "done"} /\ seqOf'[f] = seqOf[f]
  <2>1. f \in Envs /\ stage[f] \in {"queued", "done"}
    BY Zenon, <1>1, BacklogEnvs DEF BacklogOrdered
  <2>2. f = e => stage'[e] \in {"queued", "done"}
    BY Zenon, <1>2, <2>1 DEF Arrival, Answer, Start, Advance, Finish
  <2> QED BY Zenon, <1>2, <1>3, <2>1, <2>2
<1>8. BacklogOrdered'
  <2>1. CASE queue' = queue
    <3>1. Queued' = Queued /\ Backlog' = Backlog
      BY Zenon, <1>5, <2>1 DEF Queued, Backlog
    <3>2. \A i \in DOMAIN Backlog : seqOf'[Backlog[i]] = seqOf[Backlog[i]]
      BY Zenon, <1>1, <1>7, BacklogSeq
    <3> QED BY <1>1, <1>5, <1>7, <3>1, <3>2 DEF BacklogOrdered
  <2>2. CASE Enqueue(e)
    <3>1. /\ stage[e] = "delivered" /\ stage'[e] = "queued" /\ queue' = Append(queue, e)
          /\ queue \in Seq(Envs) /\ batch \in Seq(Envs) /\ seqOf' = seqOf
      BY Zenon, <1>1, <2>2 DEF Enqueue, TypeOK, seqVars
    <3>2. Queued' = Queued \cup {e}
      BY SMTT(20), <3>1 DEF Queued
    <3>3. Backlog' = Append(Backlog, e)
      BY <1>5, <3>1, BacklogMoves DEF Backlog
    <3>4. PICK n \in Nat : n = Len(Backlog) /\ DOMAIN Backlog = 1..n
      BY <1>1, BacklogSeq
    <3>5. /\ DOMAIN Backlog' = 1..(n + 1) /\ Backlog'[n + 1] = e
          /\ \A i \in 1..n : Backlog'[i] = Backlog[i]
      BY <1>1, <3>3, <3>4, BacklogSeq
    <3>6. \A i \in 1..n : Backlog[i] \in Envs
      BY <1>1, <3>4, BacklogSeq
    <3>7. \A f \in Envs : ~SeqBefore(seqOf[e], seqOf[f])
      BY Zenon, <1>1, <3>1 DEF NewestInFlight, Stamped
    <3>8. ASSUME NEW i \in 1..(n + 1), NEW j \in 1..(n + 1), i < j
          PROVE  ~SeqBefore(seqOf[Backlog'[j]], seqOf[Backlog'[i]])
      <4>1. i \in 1..n
        BY <3>8
      <4>2. CASE j = n + 1
        BY SMTT(20), <3>5, <3>6, <3>7, <4>1, <4>2
      <4>3. CASE j \in 1..n
        BY SMTT(20), <1>1, <3>4, <3>5, <3>8, <4>1, <4>3 DEF BacklogOrdered
      <4> QED BY <4>2, <4>3
    <3>9. \A i, j \in DOMAIN Backlog' :
            i < j => ~SeqBefore(seqOf'[Backlog'[j]], seqOf'[Backlog'[i]])
      BY Zenon, <3>1, <3>5, <3>8
    <3> QED BY SMTT(20), <1>1, <1>5, <1>7, <3>1, <3>2, <3>9 DEF BacklogOrdered
  <2> QED BY Zenon, <1>6, <2>1, <2>2
<1>9. UnstoredWaits'
  <2> SUFFICES ASSUME NEW f \in Envs, Accepted(f)', EventId[f] \notin SinkIds'
               PROVE  stage'[f] = "delivered" \/ f \in Queued' \cup Batched'
    BY Zenon DEF UnstoredWaits
  <2>1. IsDurable(f) /\ Accepted(f)
    <3>1. IsDurable(f) /\ stage'[f] \in Visible /\ seqOf'[f][1] = epoch
      BY Zenon, <1>2 DEF Accepted
    <3>2. stage[f] \in Visible
      BY Zenon, <1>1, <3>1, StageOfPublish
    <3>3. seqOf'[f] = seqOf[f]
      BY Zenon, <1>1, <3>2, StageOfPublish
    <3> QED BY Zenon, <3>1, <3>2, <3>3 DEF Accepted
  <2>2. stage[f] = "delivered" \/ f \in Queued \cup Batched
    BY ZenonT(30), <1>1, <1>2, <2>1 DEF UnstoredWaits
  <2> QED BY SMTT(20), <1>1, <1>5, <2>1, <2>2, HandsOver
<1>10. StoredIsOver'
  <2>1. e \in sink => stage'[e] \notin {"new", "fresh", "admitted", "stamped", "recorded", "delivered"}
    <3> SUFFICES ASSUME e \in sink
                 PROVE  stage'[e] \notin {"new", "fresh", "admitted", "stamped", "recorded", "delivered"}
      BY Zenon
    <3>1. EventId[e] \in SinkIds
      BY Zenon DEF SinkIds, Ids
    <3> QED BY Zenon, <1>1, <1>2, <3>1 DEF StoredIsOver, Arrival, Answer, Start, Advance, Finish
  <2>2. sink \subseteq Envs
    BY Zenon, <1>1 DEF TypeOK
  <2> QED BY SMTT(20), <1>1, <1>2, <1>3, <2>1, <2>2 DEF StoredIsOver
<1>11. StoredIsPrefix'
  <2> SUFFICES ASSUME NEW g \in Envs, NEW f \in Envs, IsDurable(g), stage'[g] \in Visible,
                      f \in sink, seqOf'[g][1] = seqOf'[f][1],
                      SeqBefore(seqOf'[g], seqOf'[f])
               PROVE  EventId[g] \in SinkIds
    BY Zenon, <1>2 DEF StoredIsPrefix
  <2>1. stage[g] \in Visible /\ seqOf'[g] = seqOf[g]
    BY Zenon, <1>1, StageOfPublish
  <2>2. seqOf'[f] = seqOf[f]
    BY Zenon, <1>2, <1>3, <1>10 DEF StoredIsOver
  <2> QED BY Zenon, <1>1, <2>1, <2>2 DEF StoredIsPrefix
<1> QED BY SMTT(20), <1>3, <1>4, <1>8, <1>9, <1>10, <1>11 DEF OrderInv

\* What the locked section makes visible is newer than all that is stored.
LEMMA OrderDeliver ==
  ASSUME OneByOne, DurabilityInv, OrderInv, NEW e \in Envs, Deliver(e)
  PROVE  OrderInv'
<1>1. /\ TypeOK /\ OneAtATime /\ NewestInFlight /\ BacklogOrdered
      /\ UnstoredWaits /\ StoredIsOver /\ StoredIsPrefix
  BY Zenon DEF DurabilityInv, OrderInv
<1>2. /\ UNCHANGED <<epoch, seqOf, queue, writer, batch, sink>>
      /\ stage[e] = "recorded"
      /\ stage'[e] = IF Delivery[e] = "live" THEN "done" ELSE "delivered"
  BY Zenon, <1>1 DEF Deliver, TypeOK, seqVars, writerVars
<1>3. /\ \A f \in Envs \ {e} : stage[f] \notin InFlight /\ stage'[f] = stage[f]
      /\ OneAtATime'
  BY Zenon, <1>1, RunsAlone
<1>4. /\ SinkIds' = SinkIds /\ Queued' = Queued /\ Batched' = Batched /\ Backlog' = Backlog
      /\ sink \subseteq Envs
  BY Zenon, <1>1, <1>2 DEF SinkIds, Queued, Batched, Backlog, TypeOK
<1>5. \A f \in Envs : ~SeqBefore(seqOf[e], seqOf[f])
  BY Zenon, <1>1, <1>2 DEF NewestInFlight, Stamped
<1>6. NewestInFlight'
  <2>1. \A g \in Envs : stage'[g] \in Stamped => g = e
    BY Zenon, <1>3 DEF Stamped, InFlight, Admitted
  <2> QED BY Zenon, <1>2, <1>5, <2>1 DEF NewestInFlight
<1>7. BacklogOrdered'
  <2>1. \A f \in Queued \cup Batched : f \in Envs /\ f # e
    BY Zenon, <1>1, <1>2, BacklogEnvs DEF BacklogOrdered
  <2> QED BY SMTT(20), <1>1, <1>2, <1>3, <1>4, <2>1 DEF BacklogOrdered
<1>8. UnstoredWaits'
  <2> SUFFICES ASSUME NEW f \in Envs, Accepted(f)', EventId[f] \notin SinkIds
               PROVE  stage'[f] = "delivered" \/ f \in Queued \cup Batched
    BY Zenon, <1>4 DEF UnstoredWaits
  <2>1. CASE f = e
    BY Zenon, <1>2, <2>1 DEF Accepted, IsDurable
  <2>2. CASE f # e
    <3>1. Accepted(f)
      BY Zenon, <1>2, <1>3, <2>2 DEF Accepted
    <3> QED BY Zenon, <1>1, <1>3, <2>2, <3>1 DEF UnstoredWaits
  <2> QED BY Zenon, <2>1, <2>2
<1>9. StoredIsOver'
  <2>1. e \notin sink
    BY Zenon, <1>1, <1>2 DEF StoredIsOver
  <2> QED BY SMTT(20), <1>1, <1>2, <1>3, <1>4, <2>1 DEF StoredIsOver
<1>10. StoredIsPrefix'
  <2> SUFFICES ASSUME NEW g \in Envs, NEW f \in Envs, IsDurable(g), stage'[g] \in Visible,
                      f \in sink, seqOf[g][1] = seqOf[f][1], SeqBefore(seqOf[g], seqOf[f])
               PROVE  EventId[g] \in SinkIds
    BY Zenon, <1>2, <1>4 DEF StoredIsPrefix
  <2>1. g # e
    BY Zenon, <1>5
  <2> QED BY Zenon, <1>1, <1>3, <2>1 DEF StoredIsPrefix
<1> QED BY SMTT(20), <1>3, <1>6, <1>7, <1>8, <1>9, <1>10 DEF OrderInv

\* The items of two sequences are those of their concatenation.
LEMMA ConcatRange ==
  ASSUME NEW S, NEW b \in Seq(S), NEW q \in Seq(S)
  PROVE  \A x \in S : ((\E i \in DOMAIN q : q[i] = x) \/ (\E i \in DOMAIN b : b[i] = x))
                 <=> \E i \in DOMAIN (b \o q) : (b \o q)[i] = x
<1>1. PICK c \in Seq(S) : c = b \o q
  BY Zenon, ConcatProperties
<1>2. /\ Len(c) = Len(b) + Len(q) /\ Len(b) \in Nat /\ Len(q) \in Nat
      /\ DOMAIN c = 1..(Len(b) + Len(q)) /\ DOMAIN b = 1..Len(b) /\ DOMAIN q = 1..Len(q)
      /\ \A i \in 1..(Len(b) + Len(q)) : c[i] = IF i <= Len(b) THEN b[i] ELSE q[i - Len(b)]
  BY <1>1, ConcatProperties
<1>3. ASSUME NEW i \in DOMAIN c
      PROVE  (\E j \in DOMAIN q : c[i] = q[j]) \/ (\E j \in DOMAIN b : c[i] = b[j])
  <2>1. CASE i <= Len(b)
    BY <1>2, <2>1
  <2>2. CASE ~(i <= Len(b))
    <3>1. i - Len(b) \in DOMAIN q /\ c[i] = q[i - Len(b)]
      BY <1>2, <2>2
    <3> QED BY Zenon, <3>1
  <2> QED BY Zenon, <2>1, <2>2
<1>4. ASSUME NEW j \in DOMAIN q PROVE \E i \in DOMAIN c : c[i] = q[j]
  <2>1. /\ j + Len(b) \in DOMAIN c /\ ~(j + Len(b) <= Len(b)) /\ (j + Len(b)) - Len(b) = j
    BY <1>2
  <2> QED BY Zenon, <1>2, <2>1
<1>5. ASSUME NEW j \in DOMAIN b PROVE \E i \in DOMAIN c : c[i] = b[j]
  <2>1. j \in DOMAIN c /\ j <= Len(b)
    BY <1>2
  <2> QED BY Zenon, <1>2, <2>1
<1>6. \A x \in S : ((\E i \in DOMAIN q : q[i] = x) \/ (\E i \in DOMAIN b : b[i] = x))
                    <=> \E i \in DOMAIN c : c[i] = x
  BY <1>3, <1>4, <1>5
<1> QED BY Zenon, <1>1, <1>6

\* Taking items off the queue keeps the backlog; unpinning drops its head, which
\* is stored (write_behind.rs:20-29, 62-71).
LEMMA OrderTake ==
  ASSUME DurabilityInv, OrderInv, TypeOK', WriterRecv \/ WriterTryRecv \/ WriterClose \/ Unpin
  PROVE  OrderInv'
<1>1. /\ TypeOK /\ BatchSound /\ OneAtATime /\ NewestInFlight /\ BacklogOrdered
      /\ UnstoredWaits /\ StoredIsOver /\ StoredIsPrefix
      /\ queue \in Seq(Envs) /\ batch \in Seq(Envs)
      /\ queue' \in Seq(Envs) /\ batch' \in Seq(Envs)
  BY SMTT(20) DEF DurabilityInv, OrderInv, TypeOK
<1>2. UNCHANGED <<epoch, seqOf, stage, sink>> /\ SinkIds' = SinkIds
  BY Zenon DEF WriterRecv, WriterTryRecv, WriterClose, Unpin, seqVars, SinkIds
<1>3. writer' = "recv" => batch' = <<>>
  BY Zenon DEF WriterRecv, WriterTryRecv, WriterClose, Unpin
<1>4. /\ \A x \in Envs : x \in Queued \cup Batched <=> \E i \in DOMAIN Backlog : Backlog[i] = x
      /\ Queued \cup Batched \subseteq Envs /\ Backlog \in Seq(Envs)
      /\ \A x \in Envs : x \in (Queued \cup Batched)' <=> \E i \in DOMAIN Backlog' : Backlog'[i] = x
      /\ (Queued \cup Batched)' \subseteq Envs /\ Backlog' \in Seq(Envs)
  <2>1. /\ \A x \in Envs : x \in Queued \cup Batched <=> \E i \in DOMAIN Backlog : Backlog[i] = x
        /\ Queued \cup Batched \subseteq Envs /\ Backlog \in Seq(Envs)
    <3>1. PICK b \in Seq(Envs), q \in Seq(Envs) : b = batch /\ q = queue
      BY Zenon, <1>1
    <3>2. \A x \in Envs : ((\E i \in DOMAIN q : q[i] = x) \/ (\E i \in DOMAIN b : b[i] = x))
                          <=> \E i \in DOMAIN (b \o q) : (b \o q)[i] = x
      BY ConcatRange
    <3>3. Backlog = b \o q
      BY Zenon, <3>1 DEF Backlog
    <3>4. \A x : x \in Queued \cup Batched <=> (\E i \in DOMAIN q : q[i] = x) \/ (\E i \in DOMAIN b : b[i] = x)
      BY Zenon, <3>1 DEF Queued, Batched
    <3>5. b \o q \in Seq(Envs) /\ \A x : x \in Queued \cup Batched => x \in Envs
      BY SMTT(20), <3>4, ConcatProperties
    <3> QED BY SMTT(20), <3>2, <3>3, <3>4, <3>5
  <2>2. /\ \A x \in Envs : x \in (Queued \cup Batched)' <=> \E i \in DOMAIN Backlog' : Backlog'[i] = x
        /\ (Queued \cup Batched)' \subseteq Envs /\ Backlog' \in Seq(Envs)
    <3>1. PICK b \in Seq(Envs), q \in Seq(Envs) : b = batch' /\ q = queue'
      BY Zenon, <1>1
    <3>2. \A x \in Envs : ((\E i \in DOMAIN q : q[i] = x) \/ (\E i \in DOMAIN b : b[i] = x))
                          <=> \E i \in DOMAIN (b \o q) : (b \o q)[i] = x
      BY SMTT(20), ConcatRange
    <3>3. Backlog' = b \o q
      BY Zenon, <3>1 DEF Backlog
    <3>4. \A x : x \in (Queued \cup Batched)' <=> (\E i \in DOMAIN q : q[i] = x) \/ (\E i \in DOMAIN b : b[i] = x)
      BY Zenon, <3>1 DEF Queued, Batched
    <3>5. b \o q \in Seq(Envs) /\ \A x : x \in (Queued \cup Batched)' => x \in Envs
      BY SMTT(20), <3>4, ConcatProperties
    <3> QED BY SMTT(20), <3>2, <3>3, <3>4, <3>5
  <2> QED BY Zenon, <2>1, <2>2
<1>5. /\ \A f \in Queued \cup Batched :
           f \in (Queued \cup Batched)' \/ EventId[f] \in SinkIds
      /\ (Queued \cup Batched)' \subseteq Queued \cup Batched
      /\ \A i, j \in DOMAIN Backlog' :
           i < j => ~SeqBefore(seqOf[Backlog'[j]], seqOf[Backlog'[i]])
  <2>1. CASE Backlog' = Backlog
    BY Zenon, <1>1, <1>4, <2>1 DEF BacklogOrdered
  <2>2. CASE Unpin
    <3>1. /\ batch # <<>> /\ batch' = Tail(batch) /\ queue' = queue
          /\ Ids(Batched) \subseteq SinkIds
      BY Zenon, <1>1, <2>2 DEF Unpin, BatchSound
    <3>2. Backlog' = Tail(Backlog)
      BY Zenon, <1>1, <3>1, BacklogMoves DEF Backlog
    <3>3. PICK n \in Nat : n = Len(Backlog) /\ DOMAIN Backlog = 1..n
      BY <1>4
    <3>4. n # 0 /\ Backlog[1] = batch[1] /\ 1 \in DOMAIN batch
      BY <1>1, <3>1, <3>3, BacklogSeq
    <3>5. /\ DOMAIN Backlog' = 1..(n - 1)
          /\ \A i \in 1..(n - 1) : Backlog'[i] = Backlog[i + 1]
      BY <1>4, <3>2, <3>3, <3>4
    <3>6. \A i \in 1..(n - 1) : i + 1 \in 1..n
      BY <3>3
    <3>7. EventId[Backlog[1]] \in SinkIds
      BY Zenon, <3>1, <3>4 DEF Batched, Ids
    <3>8. ASSUME NEW i \in 1..n, i # 1
          PROVE  Backlog[i] \in (Queued \cup Batched)'
      <4>1. i - 1 \in 1..(n - 1) /\ (i - 1) + 1 = i
        BY <3>3, <3>8
      <4>2. Backlog[i] \in Envs /\ Backlog'[i - 1] = Backlog[i]
        BY <1>4, <3>3, <3>5, <4>1
      <4> QED BY Zenon, <1>4, <3>5, <4>1, <4>2
    <3>9. ASSUME NEW i \in 1..(n - 1), NEW j \in 1..(n - 1), i < j
          PROVE  ~SeqBefore(seqOf[Backlog'[j]], seqOf[Backlog'[i]])
      <4>1. i + 1 < j + 1
        BY <3>9
      <4> QED BY ZenonT(30), <1>1, <3>3, <3>5, <3>6, <4>1 DEF BacklogOrdered
    <3>10. (Queued \cup Batched)' \subseteq Queued \cup Batched
      BY ZenonT(30), <1>4, <3>3, <3>5, <3>6
    <3> QED BY ZenonT(30), <1>4, <3>3, <3>5, <3>7, <3>8, <3>9, <3>10
  <2>3. WriterRecv => Backlog' = Backlog
    BY Zenon, <1>1, BacklogMoves DEF WriterRecv, BacklogOrdered, Backlog
  <2>4. WriterTryRecv => Backlog' = Backlog
    BY <1>1, BacklogMoves DEF WriterTryRecv, Backlog
  <2>5. WriterClose => Backlog' = Backlog
    BY Zenon DEF WriterClose, Backlog
  <2> QED BY <2>1, <2>2, <2>3, <2>4, <2>5
<1>6. BacklogOrdered'
  <2>1. \A f \in (Queued \cup Batched)' : stage'[f] \in {"queued", "done"}
    BY Zenon, <1>1, <1>2, <1>5 DEF BacklogOrdered
  <2> QED BY Zenon, <1>2, <1>3, <1>5, <2>1 DEF BacklogOrdered
<1>7. UnstoredWaits'
  <2>1. \A f \in Envs : Accepted(f)' => Accepted(f)
    BY Zenon, <1>2 DEF Accepted
  <2> QED BY Zenon, <1>1, <1>2, <1>5, <2>1 DEF UnstoredWaits
<1>8. OneAtATime' /\ NewestInFlight' /\ StoredIsOver' /\ StoredIsPrefix'
  BY Zenon, <1>1, <1>2 DEF OneAtATime, NewestInFlight, StoredIsOver, StoredIsPrefix
<1> QED BY Zenon, <1>6, <1>7, <1>8 DEF OrderInv

\* A group commit stores the backlog from its front: whatever is older than a
\* row it stores is stored, or in front of it (write_behind.rs:37-60).
LEMMA OrderAppend ==
  ASSUME DurabilityInv, OrderInv, AppendOk \/ \E n \in 0..MaxBatch : AppendError(n)
  PROVE  OrderInv'
<1>1. /\ TypeOK /\ OneAtATime /\ NewestInFlight /\ BacklogOrdered
      /\ UnstoredWaits /\ StoredIsOver /\ StoredIsPrefix
      /\ sink \in SUBSET Envs /\ batch \in Seq(Envs)
  BY Zenon DEF DurabilityInv, OrderInv, TypeOK
<1>2. /\ UNCHANGED <<epoch, seqOf, stage, queue, batch>> /\ writer' # "recv"
      /\ Queued' = Queued /\ Batched' = Batched /\ Backlog' = Backlog
  BY Zenon DEF AppendOk, AppendError, seqVars, writerVars, Queued, Batched, Backlog
<1>3. PICK m \in 0..Len(batch) :
        /\ sink \subseteq sink' /\ sink' \subseteq sink \cup {batch[i] : i \in 1..m}
        /\ \A i \in 1..m : EventId[batch[i]] \in SinkIds'
  <2>1. CASE AppendOk
    <3>1. sink' = Persist(sink, batch) /\ DOMAIN batch = 1..Len(batch) /\ Len(batch) \in Nat
      BY <1>1, <2>1 DEF AppendOk
    <3>2. \A i \in DOMAIN batch : EventId[batch[i]] \in Ids(Persist(sink, batch))
      BY Zenon, <1>1, PersistStoresAll
    <3>3. sink \subseteq sink' /\ sink' \subseteq sink \cup {batch[i] : i \in 1..Len(batch)}
      BY Zenon, <1>1, <3>1, PersistRows
    <3> QED BY <3>1, <3>2, <3>3 DEF SinkIds
  <2>2. ASSUME NEW n \in 0..MaxBatch, AppendError(n)
        PROVE  \E m \in 0..Len(batch) :
                 /\ sink \subseteq sink' /\ sink' \subseteq sink \cup {batch[i] : i \in 1..m}
                 /\ \A i \in 1..m : EventId[batch[i]] \in SinkIds'
    <3> DEFINE rows == SubSeq(batch, 1, n)
    <3>1. n \in 0..Len(batch) /\ sink' = Persist(sink, rows)
      BY <1>1, <2>2 DEF AppendError
    <3>2. rows \in Seq(Envs) /\ Len(rows) = n
      BY <1>1, <3>1, SubSeqProperties
    <3>3. \A i \in 1..n : rows[i] = batch[i]
      BY <1>1, <3>1
    <3> HIDE DEF rows
    <3>4. DOMAIN rows = 1..n
      BY <3>2
    <3>5. sink \subseteq sink' /\ sink' \subseteq sink \cup {rows[i] : i \in DOMAIN rows}
      BY Zenon, <1>1, <3>1, <3>2, PersistRows
    <3>6. \A i \in DOMAIN rows : EventId[rows[i]] \in Ids(Persist(sink, rows))
      BY Zenon, <1>1, <3>2, PersistStoresAll
    <3>7. sink' \subseteq sink \cup {batch[i] : i \in 1..n}
      BY Zenon, <3>3, <3>4, <3>5
    <3>8. \A i \in 1..n : EventId[batch[i]] \in SinkIds'
      BY Zenon, <3>1, <3>3, <3>4, <3>6 DEF SinkIds
    <3> QED BY Zenon, <3>1, <3>5, <3>7, <3>8
  <2> QED BY Zenon, <2>1, <2>2
<1>4. SinkIds \subseteq SinkIds'
  BY Zenon, <1>3 DEF SinkIds, Ids
<1>5. /\ DOMAIN Backlog = 1..(Len(batch) + Len(queue))
      /\ \A i \in 1..Len(batch) : Backlog[i] = batch[i]
      /\ \A e \in Queued \cup Batched : \E i \in DOMAIN Backlog : Backlog[i] = e
      /\ Len(batch) \in Nat /\ Len(queue) \in Nat
  BY <1>1, BacklogSeq DEF TypeOK
<1>6. OneAtATime' /\ NewestInFlight' /\ BacklogOrdered'
  BY Zenon, <1>1, <1>2 DEF OneAtATime, NewestInFlight, BacklogOrdered
<1>7. UnstoredWaits'
  <2>1. \A f \in Envs : Accepted(f)' => Accepted(f)
    BY Zenon, <1>2 DEF Accepted
  <2> QED BY Zenon, <1>1, <1>2, <1>4, <2>1 DEF UnstoredWaits
<1>8. StoredIsOver'
  <2>1. \A i \in 1..m : batch[i] \in Batched
    BY <1>1 DEF Batched
  <2> QED BY Zenon, <1>1, <1>2, <1>3, <2>1 DEF StoredIsOver, BacklogOrdered
<1>9. StoredIsPrefix'
  <2> SUFFICES ASSUME NEW e \in Envs, NEW f \in Envs, IsDurable(e), stage[e] \in Visible,
                      f \in sink', seqOf[e][1] = seqOf[f][1], SeqBefore(seqOf[e], seqOf[f]),
                      EventId[e] \notin SinkIds'
               PROVE  FALSE
    BY Zenon, <1>2 DEF StoredIsPrefix
  <2>1. f \notin sink /\ EventId[e] \notin SinkIds
    BY Zenon, <1>1, <1>4 DEF StoredIsPrefix
  <2>2. PICK i \in 1..m : batch[i] = f
    BY Zenon, <1>3, <2>1
  <2>3. i \in DOMAIN Backlog /\ Backlog[i] = f /\ f \in Batched
    BY <1>1, <1>5, <2>2 DEF Batched
  <2>4. Accepted(e)
    BY Zenon, <2>3, BacklogEnvs DEF Accepted
  <2>5. stage[e] # "delivered"
    BY Zenon, <1>1 DEF NewestInFlight, Stamped
  <2>6. PICK j \in DOMAIN Backlog : Backlog[j] = e
    BY Zenon, <1>1, <1>5, <2>1, <2>4, <2>5 DEF UnstoredWaits
  <2>7. ~(i < j)
    BY Zenon, <1>1, <2>3, <2>6 DEF BacklogOrdered
  <2>8. i # j
    BY Zenon, <2>3, <2>6, NothingAfterNext
  <2>9. j \in 1..m /\ batch[j] = e
    BY <1>5, <2>2, <2>6, <2>7, <2>8
  <2> QED BY Zenon, <1>3, <2>9
<1> QED BY Zenon, <1>6, <1>7, <1>8, <1>9 DEF OrderInv

\* The forwarder's steps leave the order alone, and a restart leaves what is
\* stored as it was.
LEMMA OrderOther ==
  ASSUME DurabilityInv, OrderInv,
         SetForwardSink \/ DrainForward \/ Restart \/ UNCHANGED routerVars
  PROVE  OrderInv'
<1>1. /\ TypeOK /\ OneAtATime /\ NewestInFlight /\ BacklogOrdered
      /\ UnstoredWaits /\ StoredIsOver /\ StoredIsPrefix /\ StampsBelow
  BY Zenon DEF DurabilityInv, OrderInv
<1>2. CASE UNCHANGED <<epoch, seqOf, stage, queue, writer, batch, sink>>
  <2>1. /\ Queued' = Queued /\ Batched' = Batched /\ Backlog' = Backlog /\ SinkIds' = SinkIds
    BY Zenon, <1>2 DEF Queued, Batched, Backlog, SinkIds
  <2>2. OneAtATime' /\ NewestInFlight' /\ BacklogOrdered'
    BY Zenon, <1>1, <1>2, <2>1 DEF OneAtATime, NewestInFlight, BacklogOrdered
  <2>3. UnstoredWaits' /\ StoredIsOver' /\ StoredIsPrefix'
    BY Zenon, <1>1, <1>2, <2>1 DEF UnstoredWaits, Accepted, StoredIsOver, StoredIsPrefix
  <2> QED BY Zenon, <2>2, <2>3 DEF OrderInv
<1>3. CASE Restart
  <2>1. /\ epoch' = epoch + 1 /\ seqOf' = seqOf /\ sink' = sink
        /\ queue' = <<>> /\ batch' = <<>>
        /\ \A e \in Envs : stage'[e] = IF stage[e] \in InFlight THEN "lost" ELSE stage[e]
    BY Zenon, <1>3 DEF Restart
  <2>2. \A e \in Envs : stage'[e] \notin InFlight
    BY Zenon, <2>1 DEF InFlight, Admitted
  <2>3. OneAtATime' /\ NewestInFlight'
    BY Zenon, <2>2 DEF OneAtATime, NewestInFlight, Stamped, InFlight, Admitted
  <2>4. Queued' = {} /\ Batched' = {} /\ DOMAIN Backlog' = {}
    BY <2>1 DEF Queued, Batched, Backlog
  <2>5. BacklogOrdered'
    BY Zenon, <2>1, <2>4 DEF BacklogOrdered
  <2>6. UnstoredWaits'
    <3>1. \A e \in Envs : seqOf[e][1] # epoch + 1
      BY <1>1, SeqOrder, Zenon DEF StampsBelow, TypeOK
    <3> QED BY Zenon, <2>1, <3>1 DEF UnstoredWaits, Accepted
  <2>7. SinkIds' = SinkIds /\ sink \subseteq Envs
    BY Zenon, <1>1, <2>1 DEF SinkIds, TypeOK
  <2>8. StoredIsOver'
    BY Zenon, <1>1, <2>1, <2>7 DEF StoredIsOver
  <2>9. StoredIsPrefix'
    <3>1. \A e \in Envs : stage'[e] \in Visible => stage[e] \in Visible
      BY Zenon, <2>1 DEF Visible
    <3> QED BY Zenon, <1>1, <2>1, <2>7, <3>1 DEF StoredIsPrefix
  <2> QED BY <2>3, <2>5, <2>6, <2>8, <2>9 DEF OrderInv
<1>4. SetForwardSink \/ DrainForward \/ UNCHANGED routerVars
        => UNCHANGED <<epoch, seqOf, stage, queue, writer, batch, sink>>
  BY Zenon DEF SetForwardSink, DrainForward, routerVars, seqVars, writerVars
<1> QED BY Zenon, <1>2, <1>3, <1>4

\* The router starts in order.
LEMMA OrderInit == Init => OrderInv
<1> SUFFICES ASSUME Init PROVE OrderInv
  BY Zenon
<1>1. \A e \in Envs : stage[e] = "new"
  BY Zenon DEF Init
<1>2. sink = {} /\ queue = <<>> /\ batch = <<>>
  BY Zenon DEF Init
<1>3. Queued = {} /\ Batched = {} /\ DOMAIN Backlog = {}
  BY <1>2 DEF Queued, Batched, Backlog
<1>4. OneAtATime /\ NewestInFlight
  BY Zenon, <1>1 DEF OneAtATime, NewestInFlight, Stamped, InFlight, Admitted
<1>5. BacklogOrdered
  BY Zenon, <1>2, <1>3 DEF BacklogOrdered
<1>6. UnstoredWaits /\ StoredIsOver /\ StoredIsPrefix
  BY Zenon, <1>1, <1>2 DEF UnstoredWaits, Accepted, Visible, StoredIsOver, StoredIsPrefix
<1> QED BY Zenon, <1>4, <1>5, <1>6 DEF OrderInv

\* The order is kept in every execution whose publishes follow one another.
THEOREM OrderInvariant ==
  ASSUME OneByOne
  PROVE  Spec => []OrderInv
<1>1. DurabilityInv /\ OrderInv /\ [Next]_routerVars => OrderInv'
  <2> SUFFICES ASSUME DurabilityInv, OrderInv, [Next]_routerVars PROVE OrderInv'
    BY Zenon
  <2>1. TypeOK'
    BY Zenon, InvStep DEF DurabilityInv
  <2> QED BY <2>1, OrderPublish, OrderDeliver, OrderTake, OrderAppend, OrderOther
          DEF Next, WriteBehind
<1> QED BY <1>1, OrderInit, RouterInvariant, PTL DEF Spec

\* A crash loses a tail and nothing but a tail (seq.rs:6-8): if an event is
\* stored, so is every event the same start accepted before it, through any
\* number of partial appends, retries and restarts.
THEOREM CrashLosesTailOnly ==
  ASSUME OneByOne
  PROVE  Spec => []StoredIsPrefix
<1>1. OrderInv => StoredIsPrefix
  BY Zenon DEF OrderInv
<1> QED BY <1>1, OrderInvariant, PTL

(***************************************************************************)
(* The forwarder.                                                          *)
(***************************************************************************)
\* A step of a publish keeps the newest value per key: what it puts is newer
\* than what was offered before (offer_to_forward_sink, router.rs:517-560).
LEMMA LatestPublish ==
  ASSUME OneByOne, DurabilityInv, OrderInv, LatestIsNewest,
         NEW e \in Envs, PublishOutside(e) \/ Deliver(e)
  PROVE  LatestIsNewest'
<1>1. TypeOK /\ NewestInFlight /\ OneAtATime /\ latest \subseteq Envs
  BY Zenon DEF DurabilityInv, OrderInv, TypeOK
<1>2. \A f \in Envs \ {e} : stage'[f] = stage[f] /\ seqOf'[f] = seqOf[f]
  BY Zenon, <1>1, RunsAlone
<1>3. CASE PutLatest(e)
  <2>1. /\ seqOf' = seqOf /\ forwardTx' = forwardTx /\ forwardTx /\ Coalescable(e)
        /\ stage'[e] = "put" /\ stage[e] = "delivered"
        /\ latest' = (latest \ SameKey(e)) \cup {e}
    BY Zenon, <1>1, <1>3 DEF PutLatest, Offering, seqVars, TypeOK, Coalescable,
                      IsEphemeralLatest, IsDurable
  <2>2. \A f \in Envs : ~SeqBefore(seqOf[e], seqOf[f])
    BY Zenon, <1>1, <2>1 DEF NewestInFlight, Stamped
  <2>3. ASSUME NEW g \in latest', g # e
        PROVE  /\ g \in latest /\ ForwardKey(g) # ForwardKey(e)
               /\ Coalescable(g) /\ stage'[g] \in {"put", "done"}
    BY <1>1, <1>2, <2>1, <2>3 DEF SameKey, LatestIsNewest
  <2>4. ASSUME NEW g \in latest', NEW f \in Envs, Coalescable(f),
               ForwardKey(f) = ForwardKey(g), stage'[f] \in {"put", "done"}
        PROVE  ~SeqBefore(seqOf[g], seqOf[f])
    <3>1. CASE g = e
      BY Zenon, <2>2, <3>1
    <3>2. CASE g # e
      BY Zenon, <1>2, <2>3, <2>4, <3>2 DEF LatestIsNewest
    <3> QED BY Zenon, <3>1, <3>2
  <2> QED BY Zenon, <2>1, <2>3, <2>4 DEF LatestIsNewest
<1>4. CASE UNCHANGED <<forwardTx, latest>> /\ (stage'[e] \in {"put", "done"} /\ Coalescable(e)
                         => stage[e] \in {"put", "done"} \/ ~forwardTx)
  <2>1. /\ stage[e] \in {"put", "done"} => stage'[e] \in {"put", "done"} /\ seqOf'[e] = seqOf[e]
        /\ stage'[e] \in {"put", "done"} => seqOf'[e] = seqOf[e]
    <3>1. CASE PublishOutside(e)
      BY Zenon, <1>1, <3>1, StepOfPublish DEF Arrival, Answer, Start, Advance, Finish
    <3>2. CASE Deliver(e)
      BY Zenon, <1>1, <3>2 DEF Deliver, seqVars
    <3> QED BY Zenon, <3>1, <3>2
  <2>2. CASE ~forwardTx
    BY Zenon, <1>4, <2>2 DEF LatestIsNewest
  <2>3. CASE forwardTx
    <3>1. \A f \in Envs : stage[f] \in {"put", "done"}
            => stage'[f] \in {"put", "done"} /\ seqOf'[f] = seqOf[f]
      BY Zenon, <1>2, <2>1
    <3>2. \A f \in Envs : stage'[f] \in {"put", "done"} /\ Coalescable(f)
            => stage[f] \in {"put", "done"} /\ seqOf'[f] = seqOf[f]
      BY Zenon, <1>2, <1>4, <2>1, <2>3
    <3> QED BY <1>1, <1>4, <2>3, <3>1, <3>2 DEF LatestIsNewest
  <2> QED BY Zenon, <2>2, <2>3
<1>5. \/ PutLatest(e)
      \/ UNCHANGED <<forwardTx, latest>> /\ (stage'[e] \in {"put", "done"} /\ Coalescable(e)
                         => stage[e] \in {"put", "done"} \/ ~forwardTx)
  <2> USE <1>1 DEF TypeOK, forwardVars
  <2>1. CASE PublishIfNew(e)
    BY Zenon, <2>1 DEF PublishIfNew, MarkNew, ProbeSink, ProbeError, Unmark
  <2>2. CASE Reserve(e) \/ Shed(e) \/ Stamp(e) \/ Record(e)
    BY Zenon, <2>2 DEF Reserve, Shed, Stamp, Record
  <2>3. CASE Enqueue(e) \/ NotOffered(e) \/ SendForward(e)
    BY Zenon, <2>3 DEF Enqueue, NotOffered, SendForward
  <2>4. CASE Deliver(e)
    BY Zenon, <2>4 DEF Deliver, Coalescable, IsEphemeralLatest
  <2> QED BY <2>1, <2>2, <2>3, <2>4 DEF PublishOutside, Offer
<1> QED BY Zenon, <1>3, <1>4, <1>5

\* The other steps only take values out, or install the sink while it is empty.
LEMMA LatestOther ==
  ASSUME LatestIsNewest,
         WriteBehind \/ SetForwardSink \/ DrainForward \/ Restart \/ UNCHANGED routerVars
  PROVE  LatestIsNewest'
<1>1. CASE UNCHANGED <<seqOf, stage>> /\ latest' \subseteq latest /\ (forwardTx => forwardTx')
  BY Zenon, <1>1 DEF LatestIsNewest
<1>2. CASE WriteBehind
  <2>1. UNCHANGED <<seqOf, stage, latest, forwardTx>>
    BY Zenon, <1>2 DEF WriteBehind, WriterRecv, WriterTryRecv, WriterClose, AppendOk,
                AppendError, Unpin, seqVars, forwardVars
  <2> QED BY Zenon, <1>1, <2>1
<1>3. CASE SetForwardSink \/ DrainForward \/ UNCHANGED routerVars
  <2>1. UNCHANGED <<seqOf, stage>> /\ latest' \subseteq latest /\ (forwardTx => forwardTx')
    BY <1>3 DEF SetForwardSink, DrainForward, routerVars, seqVars, forwardVars
  <2> QED BY Zenon, <1>1, <2>1
<1>4. CASE Restart
  BY Zenon, <1>4 DEF Restart, LatestIsNewest
<1> QED BY Zenon, <1>2, <1>3, <1>4

\* The forwarder never emits a value when a newer one of its key was offered
\* (router.rs:226-229), however long its wake sat in the queue and whatever the
\* queue dropped.
THEOREM NeverEmitsSuperseded ==
  ASSUME OneByOne
  PROVE  Spec => EmitsNewest
<1> DEFINE Fresh ==
      \A e \in emitted' \ emitted :
        Coalescable(e) =>
          \A f \in Envs :
            /\ Coalescable(f) /\ ForwardKey(f) = ForwardKey(e)
            /\ stage[f] \in {"put", "done"} /\ SeqBefore(seqOf[e], seqOf[f])
            => f \in emitted
<1>1. Init => LatestIsNewest
  BY Zenon DEF Init, LatestIsNewest
<1>2. DurabilityInv /\ OrderInv /\ LatestIsNewest /\ [Next]_routerVars => LatestIsNewest'
  <2> SUFFICES ASSUME DurabilityInv, OrderInv, LatestIsNewest, [Next]_routerVars
               PROVE  LatestIsNewest'
    BY Zenon
  <2> QED BY Zenon, LatestPublish, LatestOther DEF Next
<1>3. LatestIsNewest /\ [Next]_routerVars => [Fresh]_routerVars
  <2> SUFFICES ASSUME LatestIsNewest, [Next]_routerVars PROVE [Fresh]_routerVars
    BY Zenon
  <2>1. CASE DrainForward
    <3>1. emitted' = emitted \cup Resolve(Head(forward))
      BY Zenon, <2>1 DEF DrainForward
    <3> QED BY Zenon, <3>1 DEF Resolve, SameKey, LatestIsNewest
  <2>2. CASE emitted' = emitted
    BY Zenon, <2>2
  <2>3. ASSUME NEW e \in Envs, PublishOutside(e) \/ Deliver(e) PROVE emitted' = emitted
    <3>1. CASE PublishIfNew(e)
      BY Zenon, <3>1 DEF PublishIfNew, MarkNew, ProbeSink, ProbeError, Unmark, forwardVars
    <3>2. CASE Reserve(e) \/ Shed(e) \/ Stamp(e) \/ Record(e) \/ Enqueue(e) \/ Deliver(e)
      BY Zenon, <3>2 DEF Reserve, Shed, Stamp, Record, Enqueue, Deliver, forwardVars
    <3>3. CASE Offer(e)
      BY Zenon, <3>3 DEF Offer, NotOffered, PutLatest, SendForward, forwardVars
    <3> QED BY Zenon, <2>3, <3>1, <3>2, <3>3 DEF PublishOutside
  <2>4. CASE WriteBehind \/ SetForwardSink \/ Restart
    BY Zenon, <2>4 DEF WriteBehind, WriterRecv, WriterTryRecv, WriterClose, AppendOk, AppendError,
                Unpin, SetForwardSink, Restart, forwardVars
  <2> QED BY <2>1, <2>2, <2>3, <2>4 DEF Next
<1>4. Fresh <=> \A e \in emitted' \ emitted :
                   Coalescable(e) =>
                     \A f \in Envs :
                       /\ Coalescable(f) /\ ForwardKey(f) = ForwardKey(e)
                       /\ stage[f] \in {"put", "done"} /\ SeqBefore(seqOf[e], seqOf[f])
                       => f \in emitted
  BY Zenon
<1> HIDE DEF Fresh
<1> QED BY <1>1, <1>2, <1>3, <1>4, OrderInvariant, RouterInvariant, PTL DEF Spec, EmitsNewest
=============================================================================
