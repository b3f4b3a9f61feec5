-------------------------- MODULE BusSubscription --------------------------
(***************************************************************************)
(* Subscriptions to the event router (airc-bus/src/router/subscribe.rs)    *)
(* composed with the router itself: a publish's locked section also fans   *)
(* out, a subscription registers and snapshots under the same lock, pages  *)
(* the sink, replays its snapshot and then drains its live channel.        *)
(***************************************************************************)
EXTENDS EventRouter, SequencesExt

CONSTANTS
  Subs,               \* subscribers, one stream each at a time
  SubRoom,            \* Subs -> Rooms
  Wants,              \* Subs -> the envelopes the filter matches
  SubscriberBuffer,   \* slots of a live channel
  DeepReplayPage      \* DEEP_REPLAY_PAGE

ASSUME BusSubscriptionAssumption ==
  /\ SubRoom \in [Subs -> Rooms]
  /\ Wants \in [Subs -> SUBSET Envs]
  /\ SubscriberBuffer \in Nat \ {0}
  /\ DeepReplayPage \in Nat \ {0}

VARIABLE sub          \* Subs -> state of the stream

allVars == <<routerVars, sub>>

Matches(s, e) == Room[e] = SubRoom[s] /\ e \in Wants[s]

\* A sequence number after every cursor: ring_oldest of an empty ring.
NoOldest == <<MaxEpoch + 1, 0>>

\* No stream.  skip is what a live-only subscription chose not to read.
Off == [phase |-> "off", from |-> Unstamped, high |-> Unstamped, skip |-> {},
        oldest |-> NoOldest, snap |-> <<>>, page |-> <<>>, full |-> TRUE,
        pageFrom |-> Unstamped, failed |-> FALSE, rx |-> <<>>, lagged |-> FALSE,
        out |-> <<>>]

Registered(s) == sub[s].phase # "off"

SubInit == Init /\ sub = [s \in Subs |-> Off]

(***************************************************************************)
(* Step 1: register and snapshot the ring under one lock.                  *)
(***************************************************************************)
PosOrder(slots) ==
  LET sorted == SetToSortSeq(slots, LAMBDA s, t : s.pos < t.pos)
  IN  [i \in DOMAIN sorted |-> sorted[i].env]

ReplayAfter(slots, c) == PosOrder({s \in slots : SeqBefore(c, seqOf[s.env])})

OldestCursor(slots) == IF slots = {} THEN NoOldest ELSE seqOf[Oldest(slots).env]

\* subscribe from a cursor: the transcript start or an event's own cursor.
Cursors(r) == {Unstamped} \cup {seqOf[e] : e \in {f \in Envs : Room[f] = r}}

\* A stream just registered: the snapshot of its ring is all it holds.
Replaying(s, c) ==
  [Off EXCEPT !.phase = "deep", !.from = c, !.high = c, !.pageFrom = c,
              !.snap = ReplayAfter(ring[SubRoom[s]], c),
              !.oldest = OldestCursor(ring[SubRoom[s]])]

Subscribe(s, c) ==
  /\ ~Registered(s)
  /\ c \in Cursors(SubRoom[s])
  /\ sub' = [sub EXCEPT ![s] = Replaying(s, c)]
  /\ UNCHANGED routerVars

\* subscribe_live_with_lag: no history.
SubscribeLive(s) ==
  /\ ~Registered(s)
  /\ sub' = [sub EXCEPT ![s] = [Off EXCEPT
               !.phase = "live",
               !.skip = {e \in Envs : stage[e] \in Visible} \cup sink]]
  /\ UNCHANGED routerVars

(***************************************************************************)
(* Steps 2 to 4.  Emit is the gate of all three legs.                      *)
(***************************************************************************)
\* Slip: a leg yields without the high-watermark gate.
EmitUngated(st, e) == [st EXCEPT !.high = seqOf[e], !.out = Append(@, e)]

Emit(st, e) == IF SeqBefore(st.high, seqOf[e])
               THEN [st EXCEPT !.high = seqOf[e], !.out = Append(@, e)]
               ELSE st

\* DurableSink::page: the first rows of the room strictly after a cursor.
SinkPage(r, c, n) ==
  LET rows == {e \in sink : Room[e] = r /\ SeqBefore(c, seqOf[e])}
      sorted == SetToSortSeq(rows, LAMBDA e, f : SeqBefore(seqOf[e], seqOf[f]))
  IN  SubSeq(sorted, 1, IF Len(sorted) < n THEN Len(sorted) ELSE n)

\* Slip: the next page is asked for from the same cursor.
FetchPageAgain(s) ==
  LET rows == SinkPage(SubRoom[s], sub[s].pageFrom, DeepReplayPage)
  IN  /\ sub[s].phase = "deep" /\ sub[s].page = <<>> /\ sub[s].full
      /\ sub' = [sub EXCEPT ![s].page = rows,
                            ![s].full = Len(rows) >= DeepReplayPage]
      /\ UNCHANGED routerVars

FetchPage(s) ==
  LET rows == SinkPage(SubRoom[s], sub[s].pageFrom, DeepReplayPage)
  IN  /\ sub[s].phase = "deep" /\ sub[s].page = <<>> /\ sub[s].full
      /\ sub' = [sub EXCEPT ![s].page = rows,
                            ![s].full = Len(rows) >= DeepReplayPage,
                            ![s].pageFrom = IF rows = <<>> THEN @ ELSE seqOf[Last(rows)]]
      /\ UNCHANGED routerVars

\* A failed page query reads as a short page.
FetchError(s) ==
  /\ sub[s].phase = "deep" /\ sub[s].page = <<>> /\ sub[s].full
  /\ sub' = [sub EXCEPT ![s].full = FALSE, ![s].failed = TRUE]
  /\ UNCHANGED routerVars

\* One row of the page: hand off at the ring's window, else gate and filter.
DeepRow(s) ==
  LET e == Head(sub[s].page)
      st == [sub[s] EXCEPT !.page = Tail(@)]
  IN  /\ sub[s].phase = "deep" /\ sub[s].page # <<>>
      /\ sub' = [sub EXCEPT ![s] =
                   IF ~SeqBefore(seqOf[e], st.oldest)
                   THEN [st EXCEPT !.phase = "ring", !.page = <<>>]
                   ELSE IF e \in Wants[s] THEN Emit(st, e) ELSE st]
      /\ UNCHANGED routerVars

DeepDone(s) ==
  /\ sub[s].phase = "deep" /\ sub[s].page = <<>> /\ ~sub[s].full
  /\ sub' = [sub EXCEPT ![s].phase = "ring"]
  /\ UNCHANGED routerVars

RingRow(s) ==
  LET e == Head(sub[s].snap)
      st == [sub[s] EXCEPT !.snap = Tail(@)]
  IN  /\ sub[s].phase = "ring" /\ sub[s].snap # <<>>
      /\ sub' = [sub EXCEPT ![s] = IF e \in Wants[s] THEN Emit(st, e) ELSE st]
      /\ UNCHANGED routerVars

RingDone(s) ==
  /\ sub[s].phase = "ring" /\ sub[s].snap = <<>>
  /\ sub' = [sub EXCEPT ![s].phase = "live"]
  /\ UNCHANGED routerVars

LiveRecv(s) ==
  /\ sub[s].phase = "live" /\ sub[s].rx # <<>>
  /\ sub' = [sub EXCEPT ![s] = Emit([sub[s] EXCEPT !.rx = Tail(@)], Head(sub[s].rx))]
  /\ UNCHANGED routerVars

\* The stream is dropped: its guard unregisters it.
DropStream(s) ==
  /\ Registered(s)
  /\ sub' = [sub EXCEPT ![s] = Off]
  /\ UNCHANGED routerVars

(***************************************************************************)
(* The publish side.                                                       *)
(***************************************************************************)
\* Slip: a stream registers for live pushes only once its replay is over.
FanOutToLive(e) ==
  sub' = [s \in Subs |->
            IF ~(sub[s].phase = "live" /\ Matches(s, e)) THEN sub[s]
            ELSE IF Len(sub[s].rx) < SubscriberBuffer
            THEN [sub[s] EXCEPT !.rx = Append(@, e)]
            ELSE [sub[s] EXCEPT !.lagged = TRUE]]

\* try_send to every matching registration; a full channel flags a lag.
FanOut(e) ==
  sub' = [s \in Subs |->
            IF ~(Registered(s) /\ Matches(s, e)) THEN sub[s]
            ELSE IF Len(sub[s].rx) < SubscriberBuffer
            THEN [sub[s] EXCEPT !.rx = Append(@, e)]
            ELSE [sub[s] EXCEPT !.lagged = TRUE]]

Publish(e) == Deliver(e) /\ FanOut(e)

\* The process dies: its streams end.
SubRestart == Restart /\ sub' = [s \in Subs |-> Off]

StreamStep(s) ==
  \/ FetchPage(s) \/ FetchError(s) \/ DeepRow(s) \/ DeepDone(s)
  \/ RingRow(s) \/ RingDone(s) \/ LiveRecv(s)

SubNext ==
  \/ \E e \in Envs : PublishOutside(e) /\ UNCHANGED sub
  \/ \E e \in Envs : Publish(e)
  \/ (WriteBehind \/ SetForwardSink \/ DrainForward) /\ UNCHANGED sub
  \/ SubRestart
  \/ \E s \in Subs : \/ \E c \in Cursors(SubRoom[s]) : Subscribe(s, c)
                     \/ SubscribeLive(s)
                     \/ StreamStep(s)
                     \/ DropStream(s)

SubSpec == SubInit /\ [][SubNext]_allVars

\* A consumer that keeps polling its stream; nothing is asked of the router.
SubFairSpec == SubSpec /\ \A s \in Subs : WF_allVars(StreamStep(s))

(***************************************************************************)
(* Properties                                                              *)
(***************************************************************************)
\* A stream yields cursors in strictly increasing order: nothing twice, and
\* nothing behind what its consumer already holds as its resume point
\* (subscribe.rs:18-22).
InOrder ==
  \A s \in Subs : \A i, j \in DOMAIN sub[s].out :
     i < j => SeqBefore(seqOf[sub[s].out[i]], seqOf[sub[s].out[j]])

\* The durable events a stream must carry: on its filter, after its cursor,
\* accepted by this start or stored.
Owed(s, e) ==
  /\ Registered(s)
  /\ IsDurable(e) /\ Matches(s, e) /\ e \notin sub[s].skip
  /\ Accepted(e) \/ e \in sink
  /\ SeqBefore(sub[s].from, seqOf[e])

\* The stream "yields every envelope on the filter strictly after from_cursor
\* with no gap at the replay-live seam" (subscribe.rs:8-9): once it has
\* yielded a cursor, it has yielded every durable event before it, unless a
\* live push was dropped (the lag flag) or a sink page failed.
NoGap ==
  \A s \in Subs : \A e \in Envs :
     /\ Owed(s, e) /\ ~sub[s].lagged /\ ~sub[s].failed
     /\ ~SeqBefore(sub[s].high, seqOf[e])
     => Contains(sub[s].out, e)

\* And it gets there: a polled stream yields every durable event owed, or it
\* lags, its sink page fails, or it is dropped.
CatchesUp ==
  \A s \in Subs : \A e \in {f \in Envs : IsDurable(f)} :
     Owed(s, e) ~> \/ Contains(sub[s].out, e)
                   \/ sub[s].lagged \/ sub[s].failed \/ ~Registered(s)
=============================================================================
