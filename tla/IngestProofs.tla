---------------------------- MODULE IngestProofs ----------------------------
(***************************************************************************)
(* What publish_if_new and the write-behind task add to "never neither":   *)
(* one event enters the router once, and a pinned slot always has somebody *)
(* who will store it.  Both turn on one fact: in one daemon start, at most *)
(* one publish holds an event id, and while it does the id is in the       *)
(* window of recent ids.  It is true as long as the window keeps the ids   *)
(* that arrive and local publishes mint fresh ids, which the theorems      *)
(* assume.                                                                 *)
(***************************************************************************)
EXTENDS EventRouterProofs, FiniteSetTheorems

\* The window keeps every id that arrives (RECENT_PUBLISH_IDS_CAPACITY).
WindowFits == IsFiniteSet(Ids(Envs)) /\ Cardinality(Ids(Envs)) <= RecentCapacity

\* A local publish mints its id.
LocalIdsDistinct ==
  \A e, f \in Envs \ Inbound : EventId[e] = EventId[f] => e = f

\* The publishes that hold their id in this start.
Holds(e) == stage[e] \in InFlight \/ (stage[e] = "done" /\ seqOf[e][1] = epoch)

OneHolder ==
  \A e, f \in Envs : EventId[e] = EventId[f] /\ Holds(e) /\ Holds(f) => e = f

\* An id that is held is in the window; a local publish puts it there when it
\* is recorded.
HeldIsRecent ==
  \A e \in Envs : Holds(e) /\ (e \in Inbound \/ stage[e] \notin {"admitted", "stamped"})
                  => EventId[e] \in RecentIds

NoRepeats == \A i, j \in DOMAIN recent : recent[i] = recent[j] => i = j

\* An echo exists once the local publish is over, and only arrivals are probed.
LocalsFirst ==
  \A e \in Inbound, f \in Envs \ Inbound :
    EventId[e] = EventId[f] /\ stage[e] # "new" => stage[f] \in {"done", "lost"}

LocalStages ==
  \A f \in Envs \ Inbound : stage[f] \notin {"probing", "fresh", "failing", "duplicate"}

\* Between the probe of the sink and the locked section the id is not stored.
Unstored == {"fresh", "admitted", "stamped", "recorded"}
NotStoredYet ==
  /\ \A e \in Envs : stage[e] \in Unstored => EventId[e] \notin SinkIds
  /\ \A e \in sink : stage[e] # "new"

StampedHere ==
  \A e \in Envs :
    stage[e] \in {"stamped", "recorded", "delivered", "queued", "put"} => seqOf[e][1] = epoch

IngestInv ==
  /\ OneHolder /\ HeldIsRecent /\ NoRepeats /\ LocalsFirst /\ LocalStages
  /\ NotStoredYet /\ StampedHere /\ AtMostOnce

\* A slot is of a publish this start made visible, and a publish has one slot.
SlotsOfThisStart ==
  \A r \in Rooms : \A s \in ring[r] :
    /\ stage[s.env] \in Visible /\ seqOf[s.env][1] = epoch
    /\ \A t \in ring[r] : t.env = s.env => t = s

WriterInv ==
  SlotsOfThisStart /\ PinnedHasWriter /\ (writer = "recv" => batch = <<>>)

(***************************************************************************)
(* The window of recent ids.                                               *)
(***************************************************************************)
\* A sequence without repetitions is no longer than the set it draws from.
LEMMA NoRepeatsBound ==
  ASSUME NEW S, IsFiniteSet(S), NEW q \in Seq(S),
         \A i, j \in DOMAIN q : q[i] = q[j] => i = j
  PROVE  Len(q) <= Cardinality(S)
<1>1. DOMAIN q = 1..Len(q) /\ Len(q) \in Nat
  OBVIOUS
<1>2. q \in [1..Len(q) -> S]
  OBVIOUS
<1>3. q \in Injection(1..Len(q), S)
  BY Zenon, <1>1, <1>2 DEF Injection, IsInjective
<1>4. Cardinality(1..Len(q)) <= Cardinality(S)
  BY Zenon, <1>3, FS_Injection
<1>5. Cardinality(1..Len(q)) = Len(q)
  BY SMTT(20), <1>1, FS_Interval
<1> QED BY Zenon, <1>4, <1>5

\* While the window fits, an insert adds its id and drops none
\* (RecentEventIds::insert, router.rs:162-173).
LEMMA RecentInsertAdds ==
  ASSUME WindowFits, recent \in Seq(Ids(Envs)), NoRepeats, NEW id \in Ids(Envs),
         recent' = RecentInsert(recent, id)
  PROVE  NoRepeats' /\ RecentIds' = RecentIds \cup {id}
<1>1. CASE id \in RecentIds
  <2>1. recent' = recent
    BY Zenon, <1>1 DEF RecentIds, RecentInsert
  <2> QED BY Zenon, <1>1, <2>1 DEF NoRepeats, RecentIds
<1>2. CASE id \notin RecentIds
  <2> DEFINE S == Ids(Envs) \ {id}
  <2>1. IsFiniteSet(S) /\ Cardinality(S) = Cardinality(Ids(Envs)) - 1
    BY Zenon, FS_RemoveElement DEF WindowFits
  <2>2. recent \in Seq(S)
    <3>1. \A i \in 1..Len(recent) : recent[i] \in S
      BY <1>2 DEF RecentIds
    <3> HIDE DEF S
    <3> QED BY <3>1
  <2>3. Len(recent) <= Cardinality(S)
    <3> HIDE DEF S
    <3> QED BY Zenon, <2>1, <2>2, NoRepeatsBound DEF NoRepeats
  <2>4. Cardinality(Ids(Envs)) \in Nat /\ Cardinality(Ids(Envs)) <= RecentCapacity
    BY Zenon, FS_CardinalityType DEF WindowFits
  <2>5. Len(recent) # RecentCapacity
    BY <2>1, <2>3, <2>4, EventRouterAssumption
  <2>6. recent' = Append(recent, id)
    BY Zenon, <1>2, <2>5 DEF RecentInsert, RecentIds
  <2>7. /\ DOMAIN recent' = 1..(Len(recent) + 1)
        /\ recent'[Len(recent) + 1] = id
        /\ \A i \in 1..Len(recent) : recent'[i] = recent[i]
    BY <2>6
  <2>8. DOMAIN recent = 1..Len(recent) /\ Len(recent) \in Nat
    OBVIOUS
  <2>9. \A i \in 1..Len(recent) : recent[i] # id
    BY Zenon, <1>2, <2>8 DEF RecentIds
  <2> QED BY <2>7, <2>8, <2>9 DEF NoRepeats, RecentIds
<1> QED BY Zenon, <1>1, <1>2

\* A remove takes its id out and no other (RecentEventIds::remove,
\* router.rs:175-184).
LEMMA RecentRemoveTakes ==
  ASSUME recent \in Seq(Ids(Envs)), NoRepeats, NEW id \in Ids(Envs),
         recent' = RecentRemove(recent, id)
  PROVE  NoRepeats' /\ RecentIds \ {id} \subseteq RecentIds'
<1>1. CASE ~ \E i \in DOMAIN recent : recent[i] = id
  BY Zenon, <1>1 DEF RecentRemove, NoRepeats, RecentIds
<1>2. CASE \E i \in DOMAIN recent : recent[i] = id
  <2> DEFINE i == CHOOSE i \in DOMAIN recent : recent[i] = id
  <2> DEFINE n == Len(recent)
  <2>1. i \in 1..n /\ n \in Nat /\ recent[i] = id /\ DOMAIN recent = 1..n
    BY <1>2
  <2>2. recent' = SubSeq(recent, 1, i - 1) \o SubSeq(recent, i + 1, n)
    BY <1>2, Zenon DEF RecentRemove
  <2> HIDE DEF i
  <2>3. /\ DOMAIN recent' = 1..(n - 1)
        /\ \A k \in 1..(n - 1) : recent'[k] = recent[IF k < i THEN k ELSE k + 1]
    <3> DEFINE a == SubSeq(recent, 1, i - 1)
    <3> DEFINE b == SubSeq(recent, i + 1, n)
    <3>1. /\ a \in Seq(Ids(Envs)) /\ Len(a) = i - 1
          /\ \A k \in 1..(i - 1) : a[k] = recent[k]
      BY <2>1
    <3>2. /\ b \in Seq(Ids(Envs)) /\ Len(b) = n - i
          /\ \A k \in 1..(n - i) : b[k] = recent[k + i]
      <4>1. \A k \in (i + 1)..n : recent[k] \in Ids(Envs)
        BY <2>1
      <4>2. /\ b \in Seq(Ids(Envs))
            /\ Len(b) = IF i + 1 <= n THEN n - (i + 1) + 1 ELSE 0
            /\ \A k \in 1..(n - (i + 1) + 1) : b[k] = recent[(i + 1) + k - 1]
        BY <2>1, <4>1, SubSeqProperties
      <4> HIDE DEF b
      <4>3. n - (i + 1) + 1 = n - i /\ \A k \in Int : (i + 1) + k - 1 = k + i
        BY <2>1
      <4>4. Len(b) = n - i
        <5>1. Len(b) = IF i + 1 <= n THEN n - (i + 1) + 1 ELSE 0
          BY Zenon, <4>2
        <5> HIDE DEF n
        <5> QED BY <2>1, <5>1
      <4>5. ASSUME NEW k \in 1..(n - i) PROVE b[k] = recent[k + i]
        <5>1. k \in 1..(n - (i + 1) + 1) /\ k \in Int
          BY <4>3
        <5> QED BY <4>2, <4>3, <5>1, Zenon
      <4> QED BY Zenon, <4>2, <4>4, <4>5
    <3> HIDE DEF a, b
    <3>3. /\ DOMAIN (a \o b) = 1..(Len(a) + Len(b))
          /\ \A k \in 1..(Len(a) + Len(b)) :
               (a \o b)[k] = IF k <= Len(a) THEN a[k] ELSE b[k - Len(a)]
      <4>1. a \o b \in Seq(Ids(Envs)) /\ Len(a \o b) = Len(a) + Len(b)
        BY Zenon, <3>1, <3>2, ConcatProperties
      <4> QED BY <3>1, <3>2, <4>1, ConcatProperties
    <3>4. recent' = a \o b
      BY Zenon, <2>2 DEF a, b
    <3>5. ASSUME NEW k \in 1..(n - 1)
          PROVE  recent'[k] = recent[IF k < i THEN k ELSE k + 1]
      <4>1. CASE k < i
        BY <2>1, <3>1, <3>2, <3>3, <3>4, <4>1
      <4>2. CASE ~(k < i)
        <5>1. k - (i - 1) \in 1..(n - i) /\ k - (i - 1) + i = k + 1 /\ ~(k <= i - 1)
          BY <2>1, <4>2
        <5>2. k \in 1..(Len(a) + Len(b)) /\ ~(k <= Len(a)) /\ k - Len(a) = k - (i - 1)
          BY <2>1, <3>1, <3>2, <4>2
        <5>3. (a \o b)[k] = b[k - (i - 1)]
          BY Zenon, <3>3, <5>2
        <5>4. b[k - (i - 1)] = recent[k + 1]
          BY Zenon, <3>2, <5>1
        <5> QED BY Zenon, <3>4, <4>2, <5>3, <5>4
      <4> QED BY Zenon, <4>1, <4>2
    <3>6. Len(a) + Len(b) = n - 1
      BY <2>1, <3>1, <3>2
    <3> QED BY Zenon, <3>3, <3>4, <3>5, <3>6
  <2>4. NoRepeats'
    <3> SUFFICES ASSUME NEW k \in 1..(n - 1), NEW l \in 1..(n - 1),
                        recent'[k] = recent'[l]
                 PROVE  k = l
      BY Zenon, <2>3 DEF NoRepeats
    <3> DEFINE at(m) == IF m < i THEN m ELSE m + 1
    <3>1. at(k) \in 1..n /\ at(l) \in 1..n
      BY <2>1
    <3>2. recent[at(k)] = recent[at(l)]
      BY Zenon, <2>3
    <3>3. at(k) = at(l)
      <4> HIDE DEF at
      <4> QED BY Zenon, <2>1, <3>1, <3>2 DEF NoRepeats
    <3> QED BY <2>1, <3>3
  <2>5. ASSUME NEW k \in 1..n, recent[k] # id
        PROVE  recent[k] \in RecentIds'
    <3>1. CASE k < i
      BY <2>1, <2>3, <3>1 DEF RecentIds
    <3>2. CASE k > i
      <4>1. k - 1 \in 1..(n - 1) /\ ~(k - 1 < i)
        BY <2>1, <3>2
      <4>2. recent'[k - 1] = recent[k]
        BY <2>1, <2>3, <4>1
      <4> QED BY Zenon, <2>3, <4>1, <4>2 DEF RecentIds
    <3> QED BY <2>1, <2>5, <3>1, <3>2
  <2> QED BY <2>1, <2>4, <2>5 DEF RecentIds
<1> QED BY Zenon, <1>1, <1>2

(***************************************************************************)
(* What one step of a publish does to its stage.                           *)
(***************************************************************************)
\* publish_if_new takes an arrival on or turns it away (router.rs:764-776).
Arrival(e) ==
  /\ e \in Inbound /\ stage[e] \in {"new", "rejected", "lost"}
  /\ \A f \in Envs \ Inbound : EventId[f] = EventId[e] => stage[f] \in {"done", "lost"}
  /\ \/ stage'[e] = "probing" /\ EventId[e] \notin RecentIds
     \/ stage'[e] = "duplicate"

\* It answers the probe, or gives up (router.rs:777-803).
Answer(e) ==
  \/ /\ stage[e] = "probing"
     /\ \/ stage'[e] \in {"duplicate", "failing"}
        \/ stage'[e] = "fresh" /\ EventId[e] \notin SinkIds
  \/ stage[e] = "fresh" /\ stage'[e] = "failing"
  \/ stage[e] = "failing" /\ stage'[e] = "rejected"

\* A local publish starts, or is shed; an arrival is published.
Start(e) ==
  IF e \in Inbound THEN stage[e] = "fresh" /\ stage'[e] \in {"admitted", "stamped"}
                   ELSE stage[e] = "new" /\ stage'[e] \in {"admitted", "stamped", "rejected"}

\* Before the locked section, and after it.
Advance(e) ==
  \/ stage[e] = "admitted" /\ stage'[e] = "stamped"
  \/ stage[e] = "stamped" /\ stage'[e] = "recorded"
Finish(e) ==
  \/ stage[e] = "delivered" /\ stage'[e] \in {"queued", "put", "done"}
  \/ stage[e] \in {"queued", "put"} /\ stage'[e] = "done"

\* Every step of a publish outside the locked section is one of these, of its
\* own stage only, and only "stamped" gets a stamp (router.rs:594-803).
LEMMA StepOfPublish ==
  ASSUME TypeOK, NEW e \in Envs, PublishOutside(e)
  PROVE  /\ Arrival(e) \/ Answer(e) \/ Start(e) \/ Advance(e) \/ Finish(e)
         /\ \A f \in Envs \ {e} : stage'[f] = stage[f] /\ seqOf'[f] = seqOf[f]
         /\ \/ seqOf'[e] = seqOf[e] /\ stage'[e] # "stamped"
            \/ seqOf'[e] = <<epoch, counter>> /\ stage'[e] = "stamped"
         /\ UNCHANGED <<epoch, sink>>
<1> USE DEF TypeOK, seqVars
<1>1. CASE MarkNew(e)
  BY Zenon, <1>1 DEF MarkNew, Arrives, Arrival
<1>2. CASE ProbeSink(e)
  BY Zenon, <1>2 DEF ProbeSink, Answer
<1>3. CASE ProbeError(e)
  BY Zenon, <1>3 DEF ProbeError, Answer
<1>4. CASE Unmark(e)
  BY Zenon, <1>4 DEF Unmark, Answer
<1>5. CASE Reserve(e)
  BY Zenon, <1>5 DEF Reserve, Ready, Start
<1>6. CASE Shed(e)
  BY Zenon, <1>6 DEF Shed, Ready, Start, Answer
<1>7. CASE Stamp(e)
  BY Zenon, <1>7 DEF Stamp, Ready, Start, Advance
<1>8. CASE Record(e)
  BY Zenon, <1>8 DEF Record, Advance
<1>9. CASE Enqueue(e)
  BY Zenon, <1>9 DEF Enqueue, Finish
<1>10. CASE NotOffered(e)
  BY Zenon, <1>10 DEF NotOffered, Offering, Finish
<1>11. CASE PutLatest(e)
  BY Zenon, <1>11 DEF PutLatest, Offering, Finish, Coalescable, IsEphemeralLatest, IsDurable
<1>12. CASE SendForward(e)
  BY Zenon, <1>12 DEF SendForward, Offering, Finish
<1> QED
  BY <1>1, <1>2, <1>3, <1>4, <1>5, <1>6, <1>7, <1>8, <1>9, <1>10, <1>11, <1>12, Zenon
  DEF PublishOutside, PublishIfNew, Offer

\* While the window fits, marking and recording add the id to it and only the
\* unmark of a failed arrival takes it out (router.rs:619, 764-803).
LEMMA WindowOfPublish ==
  ASSUME WindowFits, TypeOK, NoRepeats, NEW e \in Envs, PublishOutside(e)
  PROVE  /\ NoRepeats'
         /\ \A id \in RecentIds :
              id \in RecentIds' \/ (id = EventId[e] /\ stage[e] = "failing"
                                                    /\ stage'[e] = "rejected")
         /\ stage'[e] = "probing" \/ stage'[e] = "recorded" => EventId[e] \in RecentIds'
<1>1. EventId[e] \in Ids(Envs) /\ recent \in Seq(Ids(Envs)) /\ DOMAIN stage = Envs
  BY Zenon, IdInIds DEF TypeOK
<1>2. CASE recent' = RecentInsert(recent, EventId[e])
  <2>1. NoRepeats' /\ RecentIds' = RecentIds \cup {EventId[e]}
    BY Zenon, <1>1, <1>2, RecentInsertAdds
  <2> QED BY Zenon, <2>1
<1>3. CASE Unmark(e)
  <2>1. /\ recent' = RecentRemove(recent, EventId[e])
        /\ stage[e] = "failing" /\ stage'[e] = "rejected"
    BY Zenon, <1>1, <1>3 DEF Unmark
  <2> QED BY Zenon, <1>1, <2>1, RecentRemoveTakes
<1>4. CASE recent' = recent /\ stage'[e] # "probing" /\ stage'[e] # "recorded"
  <2>1. RecentIds' = RecentIds
    BY Zenon, <1>4 DEF RecentIds
  <2>2. NoRepeats'
    BY Zenon, <1>4 DEF NoRepeats
  <2> QED BY Zenon, <1>4, <2>1, <2>2
<1>5. \/ recent' = RecentInsert(recent, EventId[e])
      \/ Unmark(e)
      \/ recent' = recent /\ stage'[e] # "probing" /\ stage'[e] # "recorded"
  <2> USE <1>1
  <2>1. CASE PublishIfNew(e)
    BY Zenon, <2>1 DEF PublishIfNew, MarkNew, ProbeSink, ProbeError
  <2>2. CASE Reserve(e) \/ Shed(e) \/ Stamp(e) \/ Record(e)
    BY Zenon, <2>2 DEF Reserve, Shed, Stamp, Record
  <2>3. CASE Enqueue(e) \/ Offer(e)
    BY Zenon, <2>3 DEF Enqueue, Offer, NotOffered, PutLatest, SendForward
  <2> QED BY Zenon, <2>1, <2>2, <2>3 DEF PublishOutside
<1> QED BY Zenon, <1>2, <1>3, <1>4, <1>5

(***************************************************************************)
(* One holder per id.                                                      *)
(***************************************************************************)
\* A publish comes to hold its id by arriving while the window does not have
\* it, or as a local publish whose id nobody arrived with.
LEMMA NewHolder ==
  ASSUME DurabilityInv, IngestInv, LocalIdsDistinct,
         NEW e \in Envs, PublishOutside(e), Holds(e)', ~Holds(e),
         NEW f \in Envs, EventId[f] = EventId[e], f # e
  PROVE  ~Holds(f)
<1> USE DEF IngestInv
<1>1. TypeOK /\ epoch' = epoch
  BY Zenon, StepOfPublish DEF DurabilityInv
<1>2. stage[e] \notin InFlight
  BY Zenon DEF Holds
<1>3. CASE Arrival(e)
  <2>1. stage'[e] = "probing"
    BY Zenon, <1>3 DEF Arrival, Holds, InFlight, Admitted
  <2>2. EventId[f] \notin RecentIds
    BY Zenon, <1>3, <2>1 DEF Arrival
  <2>3. CASE f \in Inbound
    BY Zenon, <2>2, <2>3 DEF HeldIsRecent
  <2>4. CASE f \notin Inbound
    <3>1. stage[f] \in {"done", "lost"}
      BY Zenon, <1>3, <2>4 DEF Arrival
    <3> QED BY Zenon, <2>2, <3>1 DEF HeldIsRecent
  <2> QED BY Zenon, <2>3, <2>4
<1>4. CASE Start(e)
  <2>1. e \notin Inbound /\ stage[e] = "new"
    BY Zenon, <1>2, <1>4 DEF Start, InFlight
  <2>2. f \in Inbound
    BY Zenon, <2>1 DEF LocalIdsDistinct
  <2>3. stage[f] = "new"
    BY Zenon, <2>1, <2>2 DEF LocalsFirst
  <2> QED BY Zenon, <2>3 DEF Holds, InFlight, Admitted
<1>5. CASE Answer(e) \/ Advance(e) \/ Finish(e)
  BY Zenon, <1>2, <1>5 DEF Answer, Advance, Finish, InFlight, Admitted
<1> QED BY Zenon, <1>1, <1>3, <1>4, <1>5, StepOfPublish

\* The id has one holder after a step of a publish, and the window has it.
LEMMA HoldersOfPublish ==
  ASSUME WindowFits, LocalIdsDistinct, DurabilityInv, IngestInv,
         NEW e \in Envs, PublishOutside(e)
  PROVE  OneHolder' /\ HeldIsRecent' /\ NoRepeats'
<1>1. /\ TypeOK /\ OneHolder /\ HeldIsRecent /\ NoRepeats /\ StampedHere
      /\ epoch' = epoch
      /\ \A f \in Envs \ {e} : stage'[f] = stage[f] /\ seqOf'[f] = seqOf[f]
  BY Zenon, StepOfPublish DEF DurabilityInv, IngestInv
<1>2. \A f \in Envs \ {e} : Holds(f)' <=> Holds(f)
  BY Zenon, <1>1 DEF Holds
<1>3. \A f \in Envs : f # e /\ EventId[f] = EventId[e] /\ Holds(e)' => ~Holds(f)
  <2>1. CASE Holds(e)
    BY Zenon, <1>1, <2>1 DEF OneHolder
  <2>2. CASE ~Holds(e)
    BY Zenon, <2>2, NewHolder
  <2> QED BY Zenon, <2>1, <2>2
<1>4. OneHolder'
  <2> SUFFICES ASSUME NEW f \in Envs, NEW g \in Envs, EventId[f] = EventId[g],
                      Holds(f)', Holds(g)'
               PROVE  f = g
    BY Zenon DEF OneHolder
  <2>1. CASE f = e \/ g = e
    BY Zenon, <1>2, <1>3, <2>1
  <2>2. CASE f # e /\ g # e
    BY Zenon, <1>1, <1>2, <2>2 DEF OneHolder
  <2> QED BY Zenon, <2>1, <2>2
<1>5. /\ NoRepeats'
      /\ \A id \in RecentIds :
           id \in RecentIds' \/ (id = EventId[e] /\ stage[e] = "failing"
                                                 /\ stage'[e] = "rejected")
      /\ stage'[e] = "probing" \/ stage'[e] = "recorded" => EventId[e] \in RecentIds'
  BY Zenon, <1>1, WindowOfPublish
<1>6. HeldIsRecent'
  <2> SUFFICES ASSUME NEW f \in Envs, Holds(f)',
                      f \in Inbound \/ stage'[f] \notin {"admitted", "stamped"}
               PROVE  EventId[f] \in RecentIds'
    BY Zenon DEF HeldIsRecent
  <2>1. CASE f # e
    <3>1. EventId[f] \in RecentIds
      BY Zenon, <1>1, <1>2, <2>1 DEF HeldIsRecent
    <3>2. ~(EventId[f] = EventId[e] /\ stage[e] = "failing")
      BY Zenon, <1>1, <1>2, <2>1 DEF OneHolder, Holds, InFlight
    <3> QED BY Zenon, <1>5, <3>1, <3>2
  <2>2. CASE f = e /\ (stage'[e] = "probing" \/ stage'[e] = "recorded")
    BY Zenon, <1>5, <2>2
  <2>3. CASE f = e /\ stage'[e] # "probing" /\ stage'[e] # "recorded"
    <3>1. /\ Holds(e) /\ stage'[e] # "rejected"
          /\ e \in Inbound \/ stage[e] \notin {"admitted", "stamped"}
      <4>1. stage'[e] \notin {"rejected", "duplicate"}
        BY Zenon, <2>3 DEF Holds, InFlight, Admitted
      <4>2. stage[e] \in {"delivered", "queued", "put"} => Holds(e)
        BY Zenon DEF Holds, InFlight, Admitted
      <4>3. CASE Arrival(e)
        BY Zenon, <2>3, <4>1, <4>3 DEF Arrival
      <4>4. CASE Answer(e)
        <5>1. stage[e] \in {"probing", "fresh"}
          BY Zenon, <4>1, <4>4 DEF Answer
        <5> QED BY Zenon, <4>1, <5>1 DEF Holds, InFlight
      <4>5. CASE Start(e)
        BY Zenon, <2>3, <4>1, <4>5 DEF Start, Holds, InFlight
      <4>6. CASE Advance(e)
        BY Zenon, <2>3, <4>1, <4>6 DEF Advance, Holds, InFlight, Admitted
      <4>7. CASE Finish(e)
        BY Zenon, <2>3, <4>1, <4>2, <4>7 DEF Finish
      <4> QED BY Zenon, <1>1, <4>3, <4>4, <4>5, <4>6, <4>7, StepOfPublish
    <3> QED BY Zenon, <1>1, <1>5, <2>3, <3>1 DEF HeldIsRecent
  <2> QED BY Zenon, <2>1, <2>2, <2>3
<1> QED BY Zenon, <1>4, <1>5, <1>6

(***************************************************************************)
(* The rest of the ingest invariant.                                       *)
(***************************************************************************)
\* A step of a publish outside the locked section preserves it.
LEMMA IngestPublish ==
  ASSUME WindowFits, LocalIdsDistinct, DurabilityInv, IngestInv,
         NEW e \in Envs, PublishOutside(e)
  PROVE  IngestInv'
<1>1. /\ TypeOK /\ LocalsFirst /\ LocalStages /\ NotStoredYet /\ StampedHere /\ AtMostOnce
      /\ UNCHANGED <<epoch, sink>> /\ SinkIds' = SinkIds
      /\ \A f \in Envs \ {e} : stage'[f] = stage[f] /\ seqOf'[f] = seqOf[f]
      /\ \/ seqOf'[e] = seqOf[e] /\ stage'[e] # "stamped"
         \/ seqOf'[e] = <<epoch, counter>> /\ stage'[e] = "stamped"
  BY Zenon, StepOfPublish DEF DurabilityInv, IngestInv, SinkIds
<1>2. Arrival(e) \/ Answer(e) \/ Start(e) \/ Advance(e) \/ Finish(e)
  BY Zenon, <1>1, StepOfPublish
<1>3. Inbound \subseteq Envs /\ sink \subseteq Envs
  BY Zenon, <1>1, EventRouterAssumption DEF TypeOK
<1>4. LocalsFirst'
  <2> SUFFICES ASSUME NEW a \in Inbound, NEW f \in Envs \ Inbound,
                      EventId[a] = EventId[f], stage'[a] # "new"
               PROVE  stage'[f] \in {"done", "lost"}
    BY Zenon DEF LocalsFirst
  <2>1. CASE a # e /\ f # e
    BY <1>1, <1>3, <2>1 DEF LocalsFirst
  <2>2. CASE a = e
    <3>1. stage[f] \in {"done", "lost"}
      BY Zenon, <1>1, <1>2, <2>2 DEF LocalsFirst, Arrival, Answer, Start, Advance, Finish
    <3> QED BY Zenon, <1>1, <2>2, <3>1
  <2>3. CASE f = e
    <3>1. stage[e] \in {"done", "lost"}
      BY Zenon, <1>1, <1>3, <2>3 DEF LocalsFirst
    <3> QED BY Zenon, <1>2, <2>3, <3>1 DEF Arrival, Answer, Start, Advance, Finish
  <2> QED BY Zenon, <2>1, <2>2, <2>3
<1>5. LocalStages'
  <2>1. e \notin Inbound => stage'[e] \notin {"probing", "fresh", "failing", "duplicate"}
    BY Zenon, <1>1, <1>2 DEF LocalStages, Arrival, Answer, Start, Advance, Finish
  <2> QED BY Zenon, <1>1, <2>1 DEF LocalStages
<1>6. NotStoredYet'
  <2>1. stage'[e] \in Unstored => EventId[e] \notin SinkIds
    <3>1. CASE stage[e] \in Unstored
      BY Zenon, <1>1, <3>1 DEF NotStoredYet
    <3>2. CASE Answer(e) /\ stage[e] \notin Unstored
      BY Zenon, <3>2 DEF Answer, Unstored
    <3>3. CASE Start(e) /\ e \notin Inbound
      <4> SUFFICES ASSUME NEW h \in sink, EventId[h] = EventId[e] PROVE FALSE
        BY Zenon DEF SinkIds, Ids
      <4>1. stage[e] = "new" /\ stage[h] # "new"
        BY Zenon, <1>1, <3>3 DEF Start, NotStoredYet
      <4>2. h \in Inbound
        BY Zenon, <1>3, <3>3, <4>1 DEF LocalIdsDistinct
      <4> QED BY Zenon, <1>1, <3>3, <4>1, <4>2 DEF LocalsFirst
    <3> QED BY Zenon, <1>2, <3>1, <3>2, <3>3 DEF Arrival, Start, Advance, Finish, Unstored
  <2>2. stage'[e] # "new"
    BY Zenon, <1>2 DEF Arrival, Answer, Start, Advance, Finish
  <2> QED BY Zenon, <1>1, <1>3, <2>1, <2>2 DEF NotStoredYet
<1>7. StampedHere'
  <2>1. stage'[e] \in {"stamped", "recorded", "delivered", "queued", "put"}
          => seqOf'[e][1] = epoch
    BY <1>1, <1>2 DEF StampedHere, Arrival, Answer, Start, Advance, Finish
  <2> QED BY Zenon, <1>1, <2>1 DEF StampedHere
<1>8. AtMostOnce'
  <2>1. stage'[e] \in Visible => stage[e] \in Visible /\ seqOf'[e] = seqOf[e]
    BY Zenon, <1>1, <1>2 DEF Visible, Arrival, Answer, Start, Advance, Finish
  <2>2. \A f \in Envs : stage'[f] \in Visible => stage[f] \in Visible /\ seqOf'[f] = seqOf[f]
    BY Zenon, <1>1, <2>1
  <2> QED BY <1>1, <2>2 DEF AtMostOnce
<1> QED BY SMTT(20), <1>4, <1>5, <1>6, <1>7, <1>8, HoldersOfPublish DEF IngestInv

\* So does the locked section: no other copy of the event is visible in this
\* start, and no earlier copy is stored (router.rs:640-713).
LEMMA IngestDeliver ==
  ASSUME DurabilityInv, IngestInv, NEW e \in Envs, Deliver(e)
  PROVE  IngestInv'
<1>1. /\ TypeOK /\ OneHolder /\ HeldIsRecent /\ NoRepeats /\ LocalsFirst /\ LocalStages
      /\ NotStoredYet /\ StampedHere /\ AtMostOnce /\ StampsBelow
  BY Zenon DEF DurabilityInv, IngestInv
<1>2. /\ UNCHANGED <<epoch, seqOf, recent, sink>>
      /\ stage[e] = "recorded" /\ stage'[e] \in {"done", "delivered"}
      /\ \A f \in Envs \ {e} : stage'[f] = stage[f]
  BY Zenon, <1>1 DEF Deliver, TypeOK, seqVars
<1>3. Inbound \subseteq Envs /\ sink \subseteq Envs /\ SinkIds' = SinkIds
      /\ RecentIds' = RecentIds
  BY Zenon, <1>1, <1>2, EventRouterAssumption DEF TypeOK, SinkIds, RecentIds
<1>4. seqOf[e][1] = epoch /\ Holds(e)
  BY Zenon, <1>1, <1>2 DEF StampedHere, Holds, InFlight, Admitted
<1>5. \A f \in Envs : Holds(f)' => Holds(f)
  BY Zenon, <1>2, <1>4 DEF Holds
<1>6. OneHolder' /\ NoRepeats'
  BY Zenon, <1>1, <1>2, <1>5 DEF OneHolder, NoRepeats
<1>7. HeldIsRecent'
  BY Zenon, <1>1, <1>2, <1>3, <1>4, <1>5 DEF HeldIsRecent
<1>8. LocalsFirst' /\ LocalStages'
  BY <1>1, <1>2, <1>3 DEF LocalsFirst, LocalStages
<1>9. NotStoredYet' /\ StampedHere'
  BY Zenon, <1>1, <1>2, <1>3, <1>4 DEF NotStoredYet, StampedHere, Unstored
<1>10. AtMostOnce'
  <2>1. ASSUME NEW f \in Envs, f # e, EventId[f] = EventId[e], stage[f] \in Visible
        PROVE  /\ seqOf[f][1] # seqOf[e][1] /\ ~SeqBefore(seqOf[e], seqOf[f])
               /\ f \notin sink
    <3>1. ~Holds(f)
      BY Zenon, <1>1, <1>4, <2>1 DEF OneHolder
    <3>2. seqOf[f][1] # epoch
      BY Zenon, <2>1, <3>1 DEF Holds, Visible, InFlight, Admitted
    <3>3. SeqBefore(seqOf[f], <<epoch, counter>>) /\ seqOf[f] \in Seqs /\ seqOf[e] \in Seqs
      BY Zenon, <1>1 DEF StampsBelow, TypeOK
    <3>4. ~SeqBefore(seqOf[e], seqOf[f])
      BY SMTT(20), <1>1, <1>4, <3>2, <3>3 DEF SeqBefore, Seqs, TypeOK
    <3>5. f \notin sink
      BY Zenon, <1>1, <1>2, <2>1 DEF NotStoredYet, Unstored, SinkIds, Ids
    <3> QED BY Zenon, <1>4, <3>2, <3>4, <3>5
  <2> SUFFICES ASSUME NEW f \in Envs, NEW g \in Envs, f # g, EventId[f] = EventId[g],
                      stage'[f] \in Visible, stage'[g] \in Visible
               PROVE  /\ seqOf[f][1] # seqOf[g][1]
                      /\ SeqBefore(seqOf[f], seqOf[g]) => f \notin sink
    BY Zenon, <1>2 DEF AtMostOnce
  <2>2. CASE f # e /\ g # e
    BY Zenon, <1>1, <1>2, <2>2 DEF AtMostOnce
  <2>3. CASE f = e
    BY Zenon, <1>2, <2>1, <2>3
  <2>4. CASE g = e
    BY Zenon, <1>2, <2>1, <2>4
  <2> QED BY Zenon, <2>2, <2>3, <2>4
<1> QED BY Zenon, <1>6, <1>7, <1>8, <1>9, <1>10 DEF IngestInv

\* So do the write-behind task, the forwarder and a restart.  What the writer
\* stores is a copy this start made visible.
LEMMA IngestOther ==
  ASSUME DurabilityInv, IngestInv,
         WriteBehind \/ SetForwardSink \/ DrainForward \/ Restart \/ UNCHANGED routerVars
  PROVE  IngestInv'
<1>1. /\ TypeOK /\ OneHolder /\ HeldIsRecent /\ NoRepeats /\ LocalsFirst /\ LocalStages
      /\ NotStoredYet /\ StampedHere /\ AtMostOnce /\ StampsBelow
  BY Zenon DEF DurabilityInv, IngestInv
<1>2. ASSUME UNCHANGED <<epoch, seqOf, stage, recent>>
      PROVE  /\ OneHolder' /\ HeldIsRecent' /\ NoRepeats' /\ LocalsFirst'
             /\ LocalStages' /\ StampedHere'
  <2>1. \A e : Holds(e)' <=> Holds(e)
    BY Zenon, <1>2 DEF Holds
  <2>2. RecentIds' = RecentIds
    BY Zenon, <1>2 DEF RecentIds
  <2>3. OneHolder' /\ HeldIsRecent'
    BY Zenon, <1>1, <1>2, <2>1, <2>2 DEF OneHolder, HeldIsRecent
  <2> QED BY Zenon, <1>1, <1>2, <2>3 DEF NoRepeats, LocalsFirst, LocalStages, StampedHere
<1>3. CASE UNCHANGED <<epoch, seqOf, stage, recent, sink>>
  <2>1. NotStoredYet' /\ AtMostOnce'
    BY Zenon, <1>1, <1>3 DEF NotStoredYet, AtMostOnce, SinkIds
  <2> QED BY Zenon, <1>2, <1>3, <2>1 DEF IngestInv
<1>4. CASE AppendOk \/ \E n \in 0..MaxBatch : AppendError(n)
  <2>1. UNCHANGED <<epoch, seqOf, stage, recent>>
    BY Zenon, <1>4 DEF AppendOk, AppendError, seqVars
  <2>2. sink \subseteq sink' /\ sink' \subseteq sink \cup Batched
    BY Zenon, <1>1, <1>4, AppendRows
  <2>3. \A h \in Batched : h \in Envs /\ stage[h] \in Visible /\ seqOf[h][1] = epoch
    BY Zenon, BacklogEnvs DEF Accepted
  <2>4. \A h \in Batched : Holds(h)
    BY Zenon, <2>3 DEF Holds, Visible, InFlight, Admitted
  <2>5. NotStoredYet'
    <3>1. \A h \in sink' : stage'[h] # "new"
      BY Zenon, <1>1, <2>1, <2>2, <2>3 DEF NotStoredYet, Visible
    <3>2. ASSUME NEW e \in Envs, stage'[e] \in Unstored, NEW h \in sink',
                 EventId[h] = EventId[e]
          PROVE  FALSE
      <4>1. stage[e] \in Unstored /\ Holds(e)
        BY Zenon, <2>1, <3>2 DEF Unstored, Holds, InFlight, Admitted
      <4>2. h \notin sink
        BY Zenon, <1>1, <3>2, <4>1 DEF NotStoredYet, SinkIds, Ids
      <4>3. h = e
        BY SMTT(20), <1>1, <2>2, <2>3, <2>4, <3>2, <4>1, <4>2 DEF OneHolder
      <4> QED BY Zenon, <2>2, <2>3, <4>1, <4>2, <4>3 DEF Unstored, Visible
    <3> QED BY Zenon, <3>1, <3>2 DEF NotStoredYet, SinkIds, Ids
  <2>6. AtMostOnce'
    <3> SUFFICES ASSUME NEW e \in Envs, NEW f \in Envs, e # f, EventId[e] = EventId[f],
                        stage[e] \in Visible, stage[f] \in Visible
                 PROVE  /\ seqOf[e][1] # seqOf[f][1]
                        /\ SeqBefore(seqOf[e], seqOf[f]) => e \notin sink'
      BY Zenon, <2>1 DEF AtMostOnce
    <3>1. /\ seqOf[e][1] # seqOf[f][1]
          /\ SeqBefore(seqOf[e], seqOf[f]) => e \notin sink
      BY Zenon, <1>1 DEF AtMostOnce
    <3>2. ASSUME e \in Batched, SeqBefore(seqOf[e], seqOf[f])
          PROVE  FALSE
      <4>1. seqOf[e][1] = epoch
        BY Zenon, <2>3, <3>2
      <4>2. SeqBefore(seqOf[f], <<epoch, counter>>) /\ seqOf[f] \in Seqs /\ seqOf[e] \in Seqs
        BY Zenon, <1>1 DEF StampsBelow, TypeOK
      <4> QED BY SMTT(20), <1>1, <3>1, <3>2, <4>1, <4>2 DEF SeqBefore, Seqs, TypeOK
    <3> QED BY Zenon, <2>2, <3>1, <3>2
  <2> QED BY Zenon, <1>2, <2>1, <2>5, <2>6 DEF IngestInv
<1>5. CASE Restart
  <2>1. /\ epoch' = epoch + 1 /\ seqOf' = seqOf /\ sink' = sink /\ recent' = <<>>
        /\ \A e \in Envs :
             stage'[e] = IF stage[e] \in InFlight THEN "lost" ELSE stage[e]
    BY Zenon, <1>5 DEF Restart
  <2>2. \A e \in Envs : seqOf[e][1] # epoch + 1 /\ stage'[e] \notin InFlight
    <3>1. \A e \in Envs : seqOf[e][1] # epoch + 1
      BY <1>1, SeqOrder, Zenon DEF StampsBelow, TypeOK
    <3> QED BY Zenon, <2>1, <3>1 DEF InFlight, Admitted
  <2>3. \A e \in Envs : ~Holds(e)'
    BY Zenon, <2>1, <2>2 DEF Holds
  <2>4. OneHolder' /\ HeldIsRecent' /\ NoRepeats'
    BY <2>1, <2>3 DEF OneHolder, HeldIsRecent, NoRepeats
  <2>5. Inbound \subseteq Envs /\ sink \subseteq Envs
    BY Zenon, <1>1, EventRouterAssumption DEF TypeOK
  <2>6. LocalsFirst' /\ LocalStages'
    BY Zenon, <1>1, <2>1, <2>5 DEF LocalsFirst, LocalStages, InFlight, Admitted
  <2>7. NotStoredYet' /\ StampedHere'
    BY Zenon, <1>1, <2>1, <2>2, <2>5 DEF NotStoredYet, StampedHere, InFlight, Admitted, Unstored
  <2>8. AtMostOnce'
    <3>1. \A e \in Envs : stage'[e] \in Visible => stage[e] \in Visible
      BY Zenon, <2>1 DEF Visible
    <3> QED BY Zenon, <1>1, <2>1, <3>1 DEF AtMostOnce
  <2> QED BY Zenon, <2>4, <2>6, <2>7, <2>8 DEF IngestInv
<1>6. CASE WriterRecv \/ WriterTryRecv \/ WriterClose \/ Unpin
  BY Zenon, <1>3, <1>6 DEF WriterRecv, WriterTryRecv, WriterClose, Unpin, seqVars
<1>7. CASE SetForwardSink \/ DrainForward \/ UNCHANGED routerVars
  BY Zenon, <1>3, <1>7 DEF SetForwardSink, DrainForward, routerVars, seqVars
<1> QED BY Zenon, <1>4, <1>5, <1>6, <1>7 DEF WriteBehind

\* The router starts in the ingest invariant.
LEMMA IngestInit == Init => IngestInv
<1> SUFFICES ASSUME Init PROVE IngestInv
  BY Zenon
<1>1. \A e \in Envs : stage[e] = "new"
  BY Zenon DEF Init
<1>2. sink = {} /\ recent = <<>>
  BY Zenon DEF Init
<1>3. \A e \in Envs : ~Holds(e)
  BY Zenon, <1>1 DEF Holds, InFlight, Admitted
<1>4. OneHolder /\ HeldIsRecent /\ NoRepeats
  BY <1>2, <1>3 DEF OneHolder, HeldIsRecent, NoRepeats
<1>5. LocalsFirst /\ LocalStages
  BY Zenon, <1>1, EventRouterAssumption DEF LocalsFirst, LocalStages
<1>6. NotStoredYet /\ StampedHere
  BY Zenon, <1>1, <1>2 DEF NotStoredYet, StampedHere, Unstored
<1>7. AtMostOnce
  BY Zenon, <1>1 DEF AtMostOnce, Visible
<1> QED BY Zenon, <1>4, <1>5, <1>6, <1>7 DEF IngestInv

\* The ingest invariant holds of every execution in which the window keeps
\* every id and local publishes mint fresh ones.
THEOREM IngestInvariant ==
  ASSUME WindowFits, LocalIdsDistinct
  PROVE  Spec => []IngestInv
<1>1. DurabilityInv /\ IngestInv /\ [Next]_routerVars => IngestInv'
  <2> SUFFICES ASSUME DurabilityInv, IngestInv, [Next]_routerVars PROVE IngestInv'
    BY Zenon
  <2> QED BY Zenon, IngestPublish, IngestDeliver, IngestOther DEF Next
<1> QED BY <1>1, IngestInit, RouterInvariant, PTL DEF Spec

\* An event enters the router once (router.rs:754-763): for any number of
\* arrivals of one id on any number of links, with failed probes, shed
\* publishes, failed appends and restarts, one start fans out at most one of
\* them, and none whose row an earlier start stored.
THEOREM EventsEnterOnce ==
  ASSUME WindowFits, LocalIdsDistinct
  PROVE  Spec => []AtMostOnce
<1>1. IngestInv => AtMostOnce
  BY Zenon DEF IngestInv
<1> QED BY <1>1, IngestInvariant, PTL

(***************************************************************************)
(* Every pinned slot has somebody who will store it.                       *)
(***************************************************************************)
\* The locked section adds one slot (ring.rs:82-87).
LEMMA DeliverOneSlot ==
  ASSUME TypeOK, NEW e \in Envs, Deliver(e), NEW r \in Rooms,
         NEW s \in ring'[r], NEW t \in ring'[r]
  PROVE  s \in ring[r] \/ t \in ring[r] \/ s = t
<1> DEFINE R == ring[Room[e]]
<1> DEFINE p == pushes[Room[e]] + 1
<1> DEFINE new == [pos |-> p, env |-> e, pinned |-> IsDurable(e)]
<1>1. Room[e] \in Rooms /\ DOMAIN ring = Rooms
  BY Zenon, EnvelopesAssumption DEF TypeOK
<1>2. Push(R, p, e) \subseteq R \cup {new}
  BY Zenon, EvictOnlyRemoves DEF Push
<1>3. ring' = ring \/ ring' = [ring EXCEPT ![Room[e]] = Push(R, p, e)]
  BY Zenon DEF Deliver
<1> HIDE DEF new, p
<1>4. CASE ring' = [ring EXCEPT ![Room[e]] = Push(R, p, e)] /\ r = Room[e]
  <2>1. s \in R \cup {new} /\ t \in R \cup {new}
    BY Zenon, <1>1, <1>2, <1>4
  <2> QED BY Zenon, <1>4, <2>1
<1>5. CASE ring'[r] = ring[r]
  BY Zenon, <1>5
<1> QED BY Zenon, <1>1, <1>3, <1>4, <1>5

\* mark_persisted leaves the first slot of the id unpinned, and no publish has
\* two slots if none had before (ring.rs:92-99).
LEMMA MarkPersistedFirst ==
  ASSUME NEW R \in SUBSET Slots, NEW id, NEW t \in MarkPersisted(R, id)
  PROVE  /\ t.pinned => t \in R /\ t \notin FirstWithId(R, id)
         /\ (\A a, b \in R : a.env = b.env => a = b) =>
              \A u \in MarkPersisted(R, id) : u.env = t.env => u = t
<1> DEFINE first == FirstWithId(R, id)
<1> DEFINE freed == {[s EXCEPT !.pinned = FALSE] : s \in first}
<1>1. MarkPersisted(R, id) \subseteq (R \ first) \cup freed
  BY Zenon, EvictOnlyRemoves DEF MarkPersisted
<1>2. first \subseteq R
  BY Zenon DEF FirstWithId
<1> HIDE DEF first
<1>3. \A x \in freed : \E s \in first : x.env = s.env /\ ~x.pinned
                                        /\ x = [s EXCEPT !.pinned = FALSE]
  BY Zenon, <1>2 DEF Slots
<1> HIDE DEF freed
<1>4. t.pinned => t \in R /\ t \notin first
  BY Zenon, <1>1, <1>3
<1>5. ASSUME \A a, b \in R : a.env = b.env => a = b,
             NEW u \in MarkPersisted(R, id), u.env = t.env
      PROVE  u = t
  <2>1. CASE t \in R \ first /\ u \in R \ first
    BY Zenon, <1>5, <2>1
  <2>2. \A x \in R \ first : \A y \in freed : x.env # y.env
    BY <1>2, <1>3, <1>5, Zenon
  <2>3. CASE t \in freed /\ u \in freed
    <3>1. PICK s \in first : t.env = s.env /\ t = [s EXCEPT !.pinned = FALSE]
      BY Zenon, <1>3, <2>3
    <3>2. PICK v \in first : u.env = v.env /\ u = [v EXCEPT !.pinned = FALSE]
      BY Zenon, <1>3, <2>3
    <3>3. s = v
      BY Zenon, <1>2, <1>5, <3>1, <3>2
    <3> QED BY Zenon, <3>1, <3>2, <3>3
  <2> QED BY Zenon, <1>1, <1>5, <2>1, <2>2, <2>3
<1> QED BY Zenon, <1>4, <1>5 DEF first

\* A durable publish leaves "delivered" by handing its item to the queue, and
\* nothing a publish does takes an item out (router.rs:716-720).
LEMMA HandsOver ==
  ASSUME TypeOK, NEW e \in Envs, PublishOutside(e)
  PROVE  /\ Queued \subseteq Queued'
         /\ \A f \in Envs : IsDurable(f) /\ stage[f] = "delivered"
              => stage'[f] = "delivered" \/ f \in Queued'
<1>1. queue \in Seq(Envs) /\ DOMAIN stage = Envs
  BY Zenon DEF TypeOK
<1>2. CASE queue' = Append(queue, e)
  <2>1. Queued \subseteq Queued' /\ e \in Queued'
    BY <1>1, <1>2 DEF Queued
  <2> QED BY Zenon, <2>1, StepOfPublish
<1>3. CASE queue' = queue
  <2>1. Queued \subseteq Queued'
    BY Zenon, <1>3 DEF Queued
  <2>2. ~Enqueue(e)
    <3>1. Len(Append(queue, e)) # Len(queue)
      BY <1>1
    <3> QED BY Zenon, <1>3, <3>1 DEF Enqueue
  <2>3. IsDurable(e) => stage[e] # "delivered"
    <3> USE <1>1
    <3>1. CASE PublishIfNew(e)
      BY Zenon, <3>1 DEF PublishIfNew, MarkNew, Arrives, ProbeSink, ProbeError, Unmark
    <3>2. CASE Reserve(e) \/ Shed(e) \/ Stamp(e) \/ Record(e)
      BY Zenon, <3>2 DEF Reserve, Shed, Stamp, Record, Ready
    <3>3. CASE Offer(e)
      BY Zenon, <3>3 DEF Offer, NotOffered, PutLatest, SendForward, Offering
    <3> QED BY Zenon, <2>2, <3>1, <3>2, <3>3 DEF PublishOutside
  <2> QED BY Zenon, <2>1, <2>3, StepOfPublish
<1> QED BY Zenon, <1>2, <1>3, QueueOfPublish

\* The writer invariant survives every step of a publish.
LEMMA WriterPublish ==
  ASSUME DurabilityInv, WriterInv, NEW e \in Envs, PublishOutside(e)
  PROVE  WriterInv'
<1>1. TypeOK /\ SlotsSound /\ SlotsOfThisStart /\ PinnedHasWriter
  BY Zenon DEF DurabilityInv, WriterInv
<1>2. /\ UNCHANGED <<epoch, ring, writer, batch>>
      /\ \A f \in Envs : stage[f] \in Visible => stage'[f] \in Visible /\ seqOf'[f] = seqOf[f]
  BY Zenon, <1>1, StageOfPublish
<1>3. \A r \in Rooms : \A s \in ring[r] : s.env \in Envs
  BY <1>1 DEF TypeOK, Slots
<1>4. SlotsOfThisStart'
  BY Zenon, <1>1, <1>2, <1>3 DEF SlotsOfThisStart
<1>5. PinnedHasWriter'
  <2>1. /\ Queued \subseteq Queued'
        /\ \A f \in Envs : IsDurable(f) /\ stage[f] = "delivered"
             => stage'[f] = "delivered" \/ f \in Queued'
    BY Zenon, <1>1, HandsOver
  <2>2. Batched' = Batched
    BY Zenon, <1>2 DEF Batched
  <2> SUFFICES ASSUME NEW r \in Rooms, NEW s \in ring[r], s.pinned
               PROVE  stage'[s.env] = "delivered" \/ s.env \in Queued' \cup Batched'
    BY Zenon, <1>2 DEF PinnedHasWriter
  <2>3. s.env \in Envs /\ IsDurable(s.env)
    BY Zenon, <1>1, <1>3 DEF SlotsSound
  <2>4. stage[s.env] = "delivered" \/ s.env \in Queued \cup Batched
    BY Zenon, <1>1 DEF PinnedHasWriter
  <2> QED BY Zenon, <2>1, <2>2, <2>3, <2>4
<1> QED BY Zenon, <1>2, <1>4, <1>5 DEF WriterInv

\* The locked section's slot has its publisher.
LEMMA WriterDeliver ==
  ASSUME DurabilityInv, IngestInv, WriterInv, NEW e \in Envs, Deliver(e)
  PROVE  WriterInv'
<1>1. TypeOK /\ SlotsOfThisStart /\ PinnedHasWriter /\ StampedHere
  BY Zenon DEF DurabilityInv, WriterInv, IngestInv
<1>2. /\ UNCHANGED <<epoch, seqOf, queue, writer, batch>>
      /\ stage[e] = "recorded"
      /\ stage'[e] = IF Delivery[e] = "live" THEN "done" ELSE "delivered"
      /\ \A f \in Envs \ {e} : stage'[f] = stage[f]
  BY Zenon, <1>1 DEF Deliver, TypeOK, seqVars, writerVars
<1>3. \A r \in Rooms : \A s \in ring[r] : s.env \in Envs /\ s.env # e
  <2>1. \A r \in Rooms : \A s \in ring[r] : s.env \in Envs
    BY <1>1 DEF TypeOK, Slots
  <2>2. \A r \in Rooms : \A s \in ring[r] : stage[s.env] \in Visible
    BY Zenon, <1>1 DEF SlotsOfThisStart
  <2>3. "recorded" \notin Visible
    BY Zenon DEF Visible
  <2> QED BY <1>2, <2>1, <2>2, <2>3, Zenon
<1>4. \A r \in Rooms : \A t \in ring'[r] :
        \/ t \in ring[r]
        \/ t.env = e /\ t.pinned = IsDurable(e)
  BY <1>1, DeliverSlots
<1>5. \A r \in Rooms : \A s, t \in ring'[r] : s \in ring[r] \/ t \in ring[r] \/ s = t
  BY Zenon, <1>1, DeliverOneSlot
<1>6. seqOf[e][1] = epoch
  BY Zenon, <1>1, <1>2 DEF StampedHere
<1>7. SlotsOfThisStart'
  <2> SUFFICES ASSUME NEW r \in Rooms, NEW s \in ring'[r]
               PROVE  /\ stage'[s.env] \in Visible /\ seqOf[s.env][1] = epoch
                      /\ \A t \in ring'[r] : t.env = s.env => t = s
    BY Zenon, <1>2 DEF SlotsOfThisStart
  <2>1. CASE s \in ring[r]
    BY Zenon, <1>1, <1>2, <1>3, <1>4, <2>1 DEF SlotsOfThisStart
  <2>2. CASE s \notin ring[r]
    BY SMTT(20), <1>2, <1>3, <1>4, <1>5, <1>6, <2>2 DEF Visible
  <2> QED BY Zenon, <2>1, <2>2
<1>8. PinnedHasWriter'
  <2>1. Queued' = Queued /\ Batched' = Batched
    BY Zenon, <1>2 DEF Queued, Batched
  <2> SUFFICES ASSUME NEW r \in Rooms, NEW s \in ring'[r], s.pinned
               PROVE  stage'[s.env] = "delivered" \/ s.env \in Queued \cup Batched
    BY Zenon, <2>1 DEF PinnedHasWriter
  <2>2. CASE s \in ring[r]
    BY Zenon, <1>1, <1>2, <1>3, <2>2 DEF PinnedHasWriter
  <2>3. CASE s \notin ring[r]
    BY Zenon, <1>2, <1>4, <2>3 DEF IsDurable
  <2> QED BY Zenon, <2>2, <2>3
<1> QED BY Zenon, <1>2, <1>7, <1>8 DEF WriterInv

\* An unpin finds the only slot of its item: no other publish holds the id, so
\* no slot it leaves pinned has lost its writer (write_behind.rs:62-71).
LEMMA WriterUnpin ==
  ASSUME DurabilityInv, IngestInv, WriterInv, Unpin
  PROVE  WriterInv'
<1>1. /\ TypeOK /\ SlotsSound /\ SlotsOfThisStart /\ PinnedHasWriter /\ OneHolder
      /\ batch \in Seq(Envs) /\ batch # <<>> /\ writer = "unpin"
  BY Zenon DEF DurabilityInv, TypeOK, BatchSound, WriterInv, IngestInv, Unpin
<1> DEFINE h == Head(batch)
<1> DEFINE r0 == Room[h]
<1> DEFINE R == ring[r0]
<1> DEFINE id == EventId[h]
<1>2. h \in Envs /\ h \in Batched /\ Accepted(h)
  <2>1. h \in Batched
    BY <1>1 DEF Batched
  <2> QED BY Zenon, <2>1, BacklogEnvs
<1>3. r0 \in Rooms /\ R \in SUBSET Slots /\ DOMAIN ring = Rooms
  BY Zenon, <1>1, <1>2, EnvelopesAssumption DEF TypeOK
<1>4. /\ ring' = [ring EXCEPT ![r0] = MarkPersisted(R, id)]
      /\ UNCHANGED <<epoch, seqOf, stage, queue>>
      /\ batch' = Tail(batch)
      /\ writer' = "recv" => batch' = <<>>
  BY Zenon DEF Unpin, seqVars
<1>5. \A g \in Batched : g = h \/ g \in Batched'
  <2>1. \A i \in DOMAIN batch : batch[i] = h \/ \E j \in DOMAIN Tail(batch) : Tail(batch)[j] = batch[i]
    <3> SUFFICES ASSUME NEW i \in DOMAIN batch, i # 1
                 PROVE  \E j \in DOMAIN Tail(batch) : Tail(batch)[j] = batch[i]
      BY <1>1
    <3>1. i - 1 \in DOMAIN Tail(batch) /\ Tail(batch)[i - 1] = batch[i]
      BY <1>1
    <3> QED BY Zenon, <3>1
  <2> QED BY Zenon, <1>4, <2>1 DEF Batched
<1> HIDE DEF h, r0, R, id
<1>6. ASSUME NEW t \in MarkPersisted(R, id)
      PROVE  \E s \in R : t.env = s.env
  BY <1>3, MarkPersistedSlots
<1>7. ASSUME NEW t \in MarkPersisted(R, id), t.pinned
      PROVE  t \in R /\ t \notin FirstWithId(R, id)
  BY Zenon, <1>3, <1>7, MarkPersistedFirst
<1>8. \A a, b \in R : a.env = b.env => a = b
  BY Zenon, <1>1, <1>3 DEF SlotsOfThisStart, R
<1>9. ASSUME NEW t \in MarkPersisted(R, id), t.pinned
      PROVE  t.env # h
  <2> SUFFICES ASSUME t.env = h PROVE FALSE
    BY Zenon
  <2>1. t \in R
    BY Zenon, <1>7, <1>9
  <2>2. ASSUME NEW u \in R, EventId[u.env] = id
        PROVE  u = t
    <3>1. u.env \in Envs /\ stage[u.env] \in Visible /\ seqOf[u.env][1] = epoch
      BY Zenon, <1>1, <1>3 DEF SlotsOfThisStart, R, Slots
    <3>2. Holds(u.env) /\ Holds(h)
      BY Zenon, <1>2, <3>1 DEF Holds, Accepted, Visible, InFlight, Admitted
    <3>3. u.env = h
      BY Zenon, <1>1, <1>2, <2>2, <3>1, <3>2 DEF OneHolder, id
    <3> QED BY Zenon, <1>8, <2>1, <3>3
  <2>3. t \in FirstWithId(R, id)
    <3>1. t.pos <= t.pos
      BY <1>3, <2>1 DEF Slots
    <3> QED BY Zenon, <2>1, <2>2, <3>1 DEF FirstWithId, id
  <2> QED BY Zenon, <1>7, <1>9, <2>3
<1>10. SlotsOfThisStart'
  <2> SUFFICES ASSUME NEW r \in Rooms, NEW s \in ring'[r]
               PROVE  /\ stage[s.env] \in Visible /\ seqOf[s.env][1] = epoch
                      /\ \A t \in ring'[r] : t.env = s.env => t = s
    BY Zenon, <1>4 DEF SlotsOfThisStart
  <2>1. CASE r = r0
    <3>1. ring'[r] = MarkPersisted(R, id)
      BY Zenon, <1>3, <1>4, <2>1
    <3>2. \A t \in ring'[r] : t.env = s.env => t = s
      BY <1>3, <1>8, <3>1, MarkPersistedFirst
    <3>3. PICK u \in R : s.env = u.env
      BY Zenon, <1>6, <3>1
    <3> QED BY Zenon, <1>1, <1>3, <3>2, <3>3 DEF SlotsOfThisStart, R
  <2>2. CASE r # r0
    BY Zenon, <1>1, <1>3, <1>4, <2>2 DEF SlotsOfThisStart
  <2> QED BY Zenon, <2>1, <2>2
<1>11. PinnedHasWriter'
  <2> SUFFICES ASSUME NEW r \in Rooms, NEW s \in ring'[r], s.pinned
               PROVE  stage[s.env] = "delivered" \/ s.env \in Queued \cup Batched'
    BY Zenon, <1>4 DEF PinnedHasWriter, Queued
  <2>1. s \in ring[r] /\ s.env # h
    <3>1. CASE r = r0
      <4>1. s \in MarkPersisted(R, id)
        BY Zenon, <1>3, <1>4, <3>1
      <4> QED BY Zenon, <1>7, <1>9, <3>1, <4>1 DEF R
    <3>2. CASE r # r0
      BY <1>1, <1>3, <1>4, <3>2 DEF SlotsSound, r0
    <3> QED BY Zenon, <3>1, <3>2
  <2> QED BY Zenon, <1>1, <1>5, <2>1 DEF PinnedHasWriter
<1> QED BY Zenon, <1>4, <1>10, <1>11 DEF WriterInv

\* Taking items, storing rows and the other steps lose no item.
LEMMA WriterOther ==
  ASSUME DurabilityInv, WriterInv,
         \/ WriterRecv \/ WriterTryRecv \/ WriterClose
         \/ AppendOk \/ \E n \in 0..MaxBatch : AppendError(n)
         \/ SetForwardSink \/ DrainForward \/ Restart \/ UNCHANGED routerVars
  PROVE  WriterInv'
<1>1. /\ TypeOK /\ SlotsOfThisStart /\ PinnedHasWriter /\ (writer = "recv" => batch = <<>>)
      /\ queue \in Seq(Envs) /\ batch \in Seq(Envs)
  BY Zenon DEF DurabilityInv, WriterInv, TypeOK
<1>2. ASSUME UNCHANGED <<epoch, seqOf, stage, ring>>,
             Queued \cup Batched \subseteq Queued' \cup Batched',
             writer' = "recv" => batch' = <<>>
      PROVE  WriterInv'
  <2>1. SlotsOfThisStart'
    BY Zenon, <1>1, <1>2 DEF SlotsOfThisStart
  <2>2. PinnedHasWriter'
    BY Zenon, <1>1, <1>2 DEF PinnedHasWriter
  <2> QED BY Zenon, <1>2, <2>1, <2>2 DEF WriterInv
<1>3. ASSUME queue # <<>>, queue' = Tail(queue)
      PROVE  \A e \in Queued : e = Head(queue) \/ e \in Queued'
  <2> SUFFICES ASSUME NEW i \in DOMAIN queue
               PROVE  queue[i] = Head(queue) \/ queue[i] \in Queued'
    BY Zenon DEF Queued
  <2>1. CASE i = 1
    BY <1>1, <1>3, <2>1
  <2>2. CASE i # 1
    <3>1. i - 1 \in DOMAIN queue' /\ queue'[i - 1] = queue[i]
      BY <1>1, <1>3, <2>2
    <3> QED BY Zenon, <3>1 DEF Queued
  <2> QED BY Zenon, <2>1, <2>2
<1>4. CASE WriterRecv
  <2>1. /\ queue # <<>> /\ queue' = Tail(queue) /\ batch' = <<Head(queue)>>
        /\ batch = <<>> /\ writer' # "recv"
    BY Zenon, <1>1, <1>4 DEF WriterRecv
  <2>2. Batched = {} /\ Batched' = {Head(queue)}
    BY <2>1 DEF Batched
  <2>3. UNCHANGED <<epoch, seqOf, stage, ring>>
    BY Zenon, <1>4 DEF WriterRecv, seqVars, cacheVars
  <2> QED BY Zenon, <1>2, <1>3, <2>1, <2>2, <2>3
<1>5. CASE WriterTryRecv
  <2>1. /\ queue # <<>> /\ queue' = Tail(queue) /\ batch' = Append(batch, Head(queue))
        /\ writer' # "recv"
    BY Zenon, <1>5 DEF WriterTryRecv
  <2>2. Head(queue) \in Envs
    BY <1>1, <2>1
  <2>3. Batched \subseteq Batched' /\ Head(queue) \in Batched'
    <3>1. PICK x \in Envs : x = Head(queue)
      BY Zenon, <2>2
    <3>2. /\ DOMAIN batch' = 1..(Len(batch) + 1) /\ Len(batch) \in Nat
          /\ DOMAIN batch = 1..Len(batch)
          /\ batch'[Len(batch) + 1] = x
          /\ \A i \in 1..Len(batch) : batch'[i] = batch[i]
      BY <1>1, <2>1, <3>1
    <3>3. Len(batch) + 1 \in DOMAIN batch' /\ \A i \in DOMAIN batch : i \in DOMAIN batch'
      BY <3>2
    <3> QED BY Zenon, <3>1, <3>2, <3>3 DEF Batched
  <2>4. UNCHANGED <<epoch, seqOf, stage, ring>>
    BY Zenon, <1>5 DEF WriterTryRecv, seqVars, cacheVars
  <2> QED BY SMTT(20), <1>2, <1>3, <2>1, <2>3, <2>4
<1>6. CASE UNCHANGED <<epoch, seqOf, stage, ring, queue, batch>> /\ (writer' # "recv" \/ writer' = writer)
  <2>1. Queued' = Queued /\ Batched' = Batched
    BY Zenon, <1>6 DEF Queued, Batched
  <2> QED BY Zenon, <1>1, <1>2, <1>6, <2>1
<1>7. CASE WriterClose \/ AppendOk \/ \E n \in 0..MaxBatch : AppendError(n)
  BY Zenon, <1>6, <1>7 DEF WriterClose, AppendOk, AppendError, seqVars, cacheVars, writerVars
<1>8. CASE SetForwardSink \/ DrainForward \/ UNCHANGED routerVars
  BY Zenon, <1>6, <1>8 DEF SetForwardSink, DrainForward, routerVars, seqVars, cacheVars, writerVars
<1>9. CASE Restart
  <2>1. (\A r \in Rooms : ring'[r] = {}) /\ batch' = <<>>
    BY Zenon, <1>9 DEF Restart
  <2> QED BY Zenon, <2>1 DEF WriterInv, SlotsOfThisStart, PinnedHasWriter
<1> QED BY Zenon, <1>4, <1>5, <1>7, <1>8, <1>9

\* No pinned event without a writer responsible for it (router.rs:599-602), for
\* every queue and batch size, ring capacity and byte budget, and any number of
\* append failures and restarts.
THEOREM PinsHaveWriters ==
  ASSUME WindowFits, LocalIdsDistinct
  PROVE  Spec => []PinnedHasWriter
<1>1. Init => WriterInv
  <2> SUFFICES ASSUME Init PROVE WriterInv
    BY Zenon
  <2>1. (\A r \in Rooms : ring[r] = {}) /\ batch = <<>>
    BY Zenon DEF Init
  <2> QED BY Zenon, <2>1 DEF WriterInv, SlotsOfThisStart, PinnedHasWriter
<1>2. DurabilityInv /\ IngestInv /\ WriterInv /\ [Next]_routerVars => WriterInv'
  <2> SUFFICES ASSUME DurabilityInv, IngestInv, WriterInv, [Next]_routerVars
               PROVE  WriterInv'
    BY Zenon
  <2> QED BY Zenon, WriterPublish, WriterDeliver, WriterUnpin, WriterOther DEF Next, WriteBehind
<1>3. WriterInv => PinnedHasWriter
  BY Zenon DEF WriterInv
<1> QED BY <1>1, <1>2, <1>3, IngestInvariant, RouterInvariant, PTL DEF Spec

=============================================================================
