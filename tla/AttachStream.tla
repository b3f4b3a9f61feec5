---------------------------- MODULE AttachStream ----------------------------
(***************************************************************************)
(* An attach: the daemon task that streams one room (stream_attach) or a   *)
(* set of rooms (stream_attach_set, airc-daemon/src/server.rs) to an IPC   *)
(* client.  It registers every room at the live edge, serves one page of   *)
(* history for a start in the past, then writes live events, and it        *)
(* re-subscribes a room whose live channel dropped a push from that room's *)
(* resume point.  One task is modelled: tasks share only the router.       *)
(***************************************************************************)
EXTENDS BusSubscription

CONSTANTS
  PageSize,       \* ATTACH_PAGE
  PageScanStep,   \* PAGE_SCAN_STEP
  PastStarts      \* whether the client asks for a start in the past

ASSUME AttachStreamAssumption ==
  PageSize \in Nat \ {0} /\ PageScanStep \in Nat \ {0} /\ PastStarts \in BOOLEAN

VARIABLE att      \* the task

attachVars == <<allVars, att>>

All(v) == [s \in Subs |-> v]

\* The walk of attach_page.  NoOldest stands for an absent upper bound.
NoWalk == [sub |-> {}, at |-> "ring", before |-> NoOldest, through |-> Unstamped,
           found |-> <<>>, tail |-> <<>>, oldest |-> NoOldest]

\* resume and seen are RoomSub.resume (from) and seen_through; skip is what a
\* live start leaves out; cur is the event being written.
Detached ==
  [phase |-> "idle", live |-> All(TRUE), bookmark |-> All(Unstamped),
   edge |-> All("unread"), resume |-> All(Unstamped), seen |-> All(Unstamped),
   skip |-> All({}), pages |-> {}, walk |-> NoWalk, skipped |-> All(0),
   taken |-> All(0), cur |-> {}, written |-> <<>>,
   check |-> {}, paused |-> {}, relagged |-> {}, failed |-> FALSE]

AttachInit == SubInit /\ att = Detached

(***************************************************************************)
(* Registration: read the head, then register at the live edge.            *)
(***************************************************************************)
Bookmarks(r) ==
  {Unstamped} \cup {seqOf[e] : e \in {f \in Envs : Room[f] = r /\ stage[f] \in Visible}}

\* A request: each room starts at the live edge or after a bookmark.
Attach(live, mark) ==
  /\ att.phase = "idle"
  /\ PastStarts \/ \A s \in Subs : live[s]
  /\ \A s \in Subs : mark[s] \in IF live[s] THEN {Unstamped} ELSE Bookmarks(SubRoom[s])
  /\ att' = [Detached EXCEPT !.phase = "register", !.live = live, !.bookmark = mark,
                             !.pages = {s \in Subs : ~live[s]}]
  /\ UNCHANGED allVars

ReadHead(s) ==
  LET slots == ring[SubRoom[s]]
  IN  /\ att.phase = "register" /\ att.edge[s] = "unread"
      /\ \A t \in Subs : att.edge[t] # "unread" => Registered(t)
      /\ att' = IF slots = {} THEN [att EXCEPT !.edge[s] = "sink"]
                ELSE [att EXCEPT !.edge[s] = "read",
                                 !.resume[s] = seqOf[Newest(slots).env]]
      /\ UNCHANGED allVars

LastN(q, n) == SubSeq(q, IF Len(q) < n THEN 1 ELSE Len(q) - n + 1, Len(q))

\* page_tail: the newest n rows of the room strictly before a cursor, oldest
\* first.
SinkTail(r, c, n) ==
  LET rows == {e \in sink : Room[e] = r /\ SeqBefore(seqOf[e], c)}
      sorted == SetToSortSeq(rows, LAMBDA e, f : SeqBefore(seqOf[e], seqOf[f]))
  IN  LastN(sorted, n)

\* An error reads as no head.
ReadSinkHead(s) ==
  /\ att.phase = "register" /\ att.edge[s] = "sink"
  /\ \E head \in {Unstamped} \cup
                 {seqOf[e] : e \in ToSet(SinkTail(SubRoom[s], NoOldest, 1))} :
       att' = [att EXCEPT !.edge[s] = "read", !.resume[s] = head]
  /\ UNCHANGED allVars

\* The last registration is followed by the ack.
RegisterRoom(s) ==
  /\ att.phase = "register" /\ att.edge[s] = "read"
  /\ SubscribeLive(s)
  /\ att' = [att EXCEPT
       !.phase = IF \A t \in Subs \ {s} : Registered(t) THEN "page" ELSE @,
       !.skip[s] = IF att.live[s] THEN {e \in Envs : stage[e] \in Visible} \cup sink
                                  ELSE {}]

(***************************************************************************)
(* attach_page: walk backward from the tip, one durable_tail_before a step.*)
(***************************************************************************)
\* Slip: the row the bookmark names is read again.
ScanAtBookmark(s, w, rows) ==
  LET stop == {i \in DOMAIN rows : SeqBefore(seqOf[rows[i]], att.bookmark[s])}
      fresh == SubSeq(rows, Max({0} \cup stop) + 1, Len(rows))
  IN  [w EXCEPT !.at = IF stop # {} \/ Len(rows) < PageScanStep THEN "done" ELSE "ring",
                !.through = IF @ = Unstamped /\ rows # <<>> THEN seqOf[Last(rows)] ELSE @,
                !.found = SelectSeq(fresh, LAMBDA e : e \in Wants[s]) \o @,
                !.before = IF rows = <<>> THEN @ ELSE seqOf[rows[1]]]

\* Newest first down to the bookmark; the walk goes on after a full step.
Scan(s, w, rows) ==
  LET stop == {i \in DOMAIN rows : ~SeqBefore(att.bookmark[s], seqOf[rows[i]])}
      fresh == SubSeq(rows, Max({0} \cup stop) + 1, Len(rows))
  IN  [w EXCEPT !.at = IF stop # {} \/ Len(rows) < PageScanStep THEN "done" ELSE "ring",
                !.through = IF @ = Unstamped /\ rows # <<>> THEN seqOf[Last(rows)] ELSE @,
                !.found = SelectSeq(fresh, LAMBDA e : e \in Wants[s]) \o @,
                !.before = IF rows = <<>> THEN @ ELSE seqOf[rows[1]]]

\* A finished walk writes its newest PageSize events and counts the rest; the
\* room's resume point moves to the tip the walk started from.
Paged(s, w) ==
  IF w.at # "done" THEN [att EXCEPT !.walk = w]
  ELSE LET page == LastN(w.found, PageSize)
           tip == w.through # Unstamped
       IN  [att EXCEPT !.walk = NoWalk, !.pages = @ \ {s},
                       !.written = @ \o page,
                       !.skipped[s] = Len(w.found) - Len(page),
                       !.resume[s] = IF tip THEN w.through ELSE @,
                       !.seen[s] = IF tip THEN w.through ELSE @]

\* The hot leg, under the shard lock.
WalkRing(s) ==
  LET w == att.walk
      slots == ring[SubRoom[s]]
      tail == PosOrder({t \in slots : IsDurable(t.env) /\ SeqBefore(seqOf[t.env], w.before)})
  IN  /\ att.phase = "page" /\ s \in att.pages /\ w.sub \in {{}, {s}} /\ w.at = "ring"
      /\ att' = IF Len(tail) >= PageScanStep
                THEN Paged(s, Scan(s, [w EXCEPT !.sub = {s}], LastN(tail, PageScanStep)))
                ELSE [att EXCEPT !.walk = [w EXCEPT !.sub = {s}, !.at = "sink",
                                             !.tail = tail, !.oldest = OldestCursor(slots)]]
      /\ UNCHANGED allVars

\* The rest from the sink, strictly before the ring's window and the bound.
WalkSink(s) ==
  LET w == att.walk
      gate == IF SeqBefore(w.before, w.oldest) THEN w.before ELSE w.oldest
      rows == SinkTail(SubRoom[s], gate, PageScanStep - Len(w.tail))
  IN  /\ att.phase = "page" /\ w.sub = {s} /\ w.at = "sink"
      /\ att' = Paged(s, Scan(s, w, rows \o w.tail))
      /\ UNCHANGED allVars

PagesDone ==
  /\ att.phase = "page" /\ att.pages = {}
  /\ att' = [att EXCEPT !.phase = "loop"]
  /\ UNCHANGED allVars

(***************************************************************************)
(* The live loop.                                                          *)
(***************************************************************************)
\* The task polls a stream only when it wants the next event of it.
Poll(s) ==
  /\ att.phase = "loop" /\ att.taken[s] = Len(sub[s].out)
  /\ StreamStep(s)
  /\ att' = [att EXCEPT !.failed = @ \/ sub'[s].failed]

\* Slip: an event the page carried is written again.
TakeUngated(s) ==
  LET e == sub[s].out[att.taken[s] + 1]
  IN  /\ att.phase = "loop" /\ att.taken[s] < Len(sub[s].out)
      /\ att' = [att EXCEPT !.taken[s] = @ + 1, !.phase = "write",
                            !.cur = {<<s, e>>}, !.resume[s] = seqOf[e]]
      /\ UNCHANGED allVars

\* An event the page carried is passed over, with no look at the lag flag.
Take(s) ==
  LET e == sub[s].out[att.taken[s] + 1]
  IN  /\ att.phase = "loop" /\ att.taken[s] < Len(sub[s].out)
      /\ att' = IF IsDurable(e) /\ ~SeqBefore(att.seen[s], seqOf[e])
                THEN [att EXCEPT !.taken[s] = @ + 1]
                ELSE [att EXCEPT !.taken[s] = @ + 1, !.phase = "write",
                                 !.cur = {<<s, e>>}, !.resume[s] = seqOf[e]]
      /\ UNCHANGED allVars

Wrote ==
  /\ att.phase = "write"
  /\ att' = [att EXCEPT !.phase = "check", !.check = Subs, !.cur = {},
                        !.written = @ \o SetToSeq({p[2] : p \in att.cur})]
  /\ UNCHANGED allVars

(***************************************************************************)
(* resubscribe_lagged, one room at a time (a single-room attach has one).  *)
(***************************************************************************)
Visited(s) == [att EXCEPT !.check = @ \ {s},
                          !.phase = IF att.check \subseteq {s} THEN "loop" ELSE @]

NotLagged(s) ==
  /\ att.phase = "check" /\ s \in att.check
  /\ ~sub[s].lagged \/ s \in att.paused
  /\ att' = Visited(s)
  /\ UNCHANGED allVars

\* Slip: a lagged room goes back to the live edge.
ResubscribeAtEdge(s) ==
  /\ att.phase = "check" /\ s \in att.check
  /\ sub[s].lagged \/ s \in att.paused
  /\ sub' = [sub EXCEPT ![s] = [Off EXCEPT !.phase = "live"]]
  /\ att' = [Visited(s) EXCEPT !.taken[s] = 0, !.paused = @ \ {s}, !.relagged = @ \cup {s}]
  /\ UNCHANGED routerVars

Resubscribe(s) ==
  /\ att.phase = "check" /\ s \in att.check
  /\ sub[s].lagged \/ s \in att.paused
  /\ sub' = [sub EXCEPT ![s] = Replaying(s, att.resume[s])]
  /\ att' = [Visited(s) EXCEPT !.taken[s] = 0, !.paused = @ \ {s}, !.relagged = @ \cup {s}]
  /\ UNCHANGED routerVars

\* A quick re-lag: the stale stream goes now, the room comes back later.
Pause(s) ==
  /\ att.phase = "check" /\ s \in att.check
  /\ sub[s].lagged /\ s \in att.relagged \ att.paused
  /\ sub' = [sub EXCEPT ![s] = Off]
  /\ att' = [Visited(s) EXCEPT !.taken[s] = 0, !.paused = @ \cup {s}]
  /\ UNCHANGED routerVars

\* Slip: a pause has no timer and waits for the next event of the stream.
PauseEndsNever(s) == att.phase = "loop" /\ s \in att.paused /\ UNCHANGED attachVars

\* The pause timer fires: resubscribe_lagged starts with the room it is for.
PauseEnds(s) ==
  /\ att.phase = "loop" /\ s \in att.paused
  /\ sub' = [sub EXCEPT ![s] = Replaying(s, att.resume[s])]
  /\ att' = [att EXCEPT !.taken[s] = 0, !.paused = @ \ {s}, !.check = Subs \ {s},
                        !.phase = IF Subs = {s} THEN "loop" ELSE "check"]
  /\ UNCHANGED routerVars

\* The client hangs up, the daemon shuts down or a page read fails.
Detach ==
  /\ att.phase \notin {"idle", "gone"}
  /\ att' = [Detached EXCEPT !.phase = "gone"]
  /\ sub' = All(Off)
  /\ UNCHANGED routerVars

AttachRestart ==
  SubRestart /\ att' = [Detached EXCEPT !.phase = IF att.phase = "idle" THEN @ ELSE "gone"]

AttachStep(s) ==
  \/ ReadHead(s) \/ ReadSinkHead(s) \/ RegisterRoom(s)
  \/ WalkRing(s) \/ WalkSink(s)
  \/ Poll(s) \/ Take(s)
  \/ NotLagged(s) \/ Resubscribe(s) \/ Pause(s) \/ PauseEnds(s)

AttachTask == PagesDone \/ Wrote \/ \E s \in Subs : AttachStep(s)

AttachNext ==
  \/ \E e \in Envs : PublishOutside(e) /\ UNCHANGED <<sub, att>>
  \/ \E e \in Envs : Publish(e) /\ UNCHANGED att
  \/ WriteBehind /\ UNCHANGED <<sub, att>>
  \/ \E live \in [Subs -> BOOLEAN] :
       \E mark \in [Subs -> UNION {Bookmarks(r) : r \in Rooms}] : Attach(live, mark)
  \/ AttachTask
  \/ Detach
  \/ AttachRestart

AttachSpec == AttachInit /\ [][AttachNext]_attachVars

\* The task runs whenever it can; nothing is asked of the router, and a page
\* query that keeps failing is the environment's choice.
AttachFairSpec == AttachSpec /\ WF_attachVars(AttachTask)

(***************************************************************************)
(* Properties                                                              *)
(***************************************************************************)
\* The durable events the task must bring to its client.
Due(s, e) ==
  /\ att.phase \in {"page", "loop", "write", "check"}
  /\ IsDurable(e) /\ Matches(s, e) /\ e \notin att.skip[s]
  /\ Accepted(e) \/ e \in sink
  /\ SeqBefore(att.bookmark[s], seqOf[e])

Brought(e) == Contains(att.written, e) \/ \E p \in att.cur : p[2] = e

\* No durable event is written twice on one attach, and within a room they
\* are written in cursor order: page, live stream and every lag replay
\* (server.rs:602-605 "Live events the page already carried ... are not
\* written twice").
WrittenInOrder ==
  \A i, j \in DOMAIN att.written :
     LET e == att.written[i]  f == att.written[j]
     IN  i < j /\ IsDurable(e) /\ IsDurable(f) /\ Room[e] = Room[f]
           => SeqBefore(seqOf[e], seqOf[f])

\* The summary is exact: between the bookmark and the page's tip, what the
\* page does not carry is what it says it left out (server.rs:1063-1065).
PageCounts ==
  \A s \in Subs : ~att.live[s] /\ s \notin att.pages =>
     att.skipped[s] = Cardinality({e \in Envs :
        Due(s, e) /\ ~SeqBefore(att.seen[s], seqOf[e]) /\ ~Brought(e)})

\* "Dropped a live push: break to re-resume from the last cursor we sent (no
\* gap)" (server.rs:692-696): a room's resume point never passes a durable
\* event that its client did not get.
CoveredFrom(s) ==
  \A e \in Envs :
     /\ Due(s, e) /\ s \notin att.pages /\ ~att.failed
     /\ SeqBefore(att.seen[s], seqOf[e]) /\ ~SeqBefore(att.resume[s], seqOf[e])
     => Brought(e)

ResumeCovers == \A s \in Subs : CoveredFrom(s)

\* The same for rooms attached at the live edge.
LiveResumeCovers == \A s \in Subs : att.live[s] => CoveredFrom(s)

\* A live attach brings its client every durable event accepted after it
\* registered, however often its channel overflows (server.rs:568-576).
LiveDelivers ==
  \A s \in Subs : \A e \in {f \in Envs : IsDurable(f)} :
     Due(s, e) /\ att.live[s] ~> Brought(e) \/ att.failed \/ att.phase = "gone"
=============================================================================
