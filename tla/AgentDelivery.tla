--------------------------- MODULE AgentDelivery ---------------------------
(***************************************************************************)
(* Delivery of a feed to the sessions of one agent (airc-lib               *)
(* agent_delivery, agent_feed; the turns of airc-cli agent_hook and        *)
(* join_feed).  A turn takes the consumer's lock, reads the tip, loads or  *)
(* seeds the consumer's row, scans one live page, shows it with a page of  *)
(* history, and acknowledges: read marker first, then the row.  It may end *)
(* between any two of these.                                               *)
(*                                                                         *)
(* A cursor is a position of the feed, 0 the start of time.  The rooms of  *)
(* a consumer do not change, and its row is not from before read markers.  *)
(* The count and the newest page of room events that open a history are    *)
(* left out: they settle nothing by themselves.                            *)
(***************************************************************************)
EXTENDS Integers, Sequences, FiniteSets, SequencesExt

CONSTANTS
  Consumers,   \* sessions of the agent
  Native,      \* those that are native feeds (airc join); the others are hooks
  Scenes,      \* what happens: the kinds of the events, the sessions, early ends
  ScanLimit,   \* events of one live scan
  Candidates,  \* candidates one turn may read for its history
  ScanCap,     \* SCAN_CAP, the most events any scan returns
  Budget,      \* events one turn shows live, and requests of its history
  Nothing      \* no row, no turn, no marker, no progress

\* Native sessions are sessions, a request can be shown, and a scan past an
\* exclusive top can return something besides that top.
ASSUME DeliveryAssumption ==
  /\ Native \subseteq Consumers
  /\ Budget \in Nat \ {0} /\ Candidates \in Nat \ {0}
  /\ ScanCap \in Nat \ {0, 1}
  /\ ScanLimit \in 1..ScanCap

VARIABLES
  scene,     \* the scene that is played
  tail,      \* how many of its events are published
  marker,    \* the agent's read marker
  row,       \* Consumers -> persisted State
  turn,      \* Consumers -> the turn that holds the consumer's lock
  attached,  \* native sessions whose process has announced its history
  told,      \* Consumers -> requests shown so far
  kept,      \* Consumers -> requests shown in turns that were acknowledged
  origin,    \* Consumers -> where the consumer's obligations start
  drops      \* turns and processes that ended early

deliveryVars == <<scene, tail, marker, row, turn, attached, told, kept, origin, drops>>

Larger(a, b) == IF a > b THEN a ELSE b
FirstOf(S, n) == {i \in S : Cardinality({j \in S : j <= i}) <= n}
LastOf(S, n) == {i \in S : Cardinality({j \in S : j >= i}) <= n}

\* Requests are addressed to this agent; a mention opens with the name of another
\* one, which only the exact predicate tells from a request; frames of a stream
\* are no part of an agent's feed.
Feed == {i \in 1..tail : scene.plan[i] # "stream"}
Requests == {i \in Feed : scene.plan[i] = "request"}
Addressees == {i \in Feed : scene.plan[i] \in {"request", "mention"}}

\* State::scan_from
ScanFrom(s) == Larger(s.live, s.boundary)

\* State::ensure_unsearched
EnsureUnsearched(s) ==
  IF s.summarized < s.boundary /\ s.unsearched = <<>>
  THEN [s EXCEPT !.unsearched = <<[after |-> s.summarized, top |-> s.boundary, exclusive |-> FALSE]>>]
  ELSE s

\* A new consumer starts at the agent's marker; an agent that never read gets
\* one page of its history.
Seed(tip) ==
  LET summarized == IF marker = Nothing THEN 0 ELSE marker
      boundary == Larger(summarized, tip)
  IN  EnsureUnsearched([live |-> boundary, boundary |-> boundary, summarized |-> summarized,
                        unsearched |-> <<>>, onePage |-> marker = Nothing])

\* scan_agent_feed_in_channels, forward.
ScanForward(after, through) ==
  LET found == {i \in Feed : after < i /\ i <= through}
      page == FirstOf(found, ScanLimit)
  IN  IF after > through THEN [events |-> {}, scanned |-> after]
      ELSE [events |-> page, scanned |-> IF page = found THEN through ELSE Max(page)]

\* scan_agent_feed_in_channels, newest first, with the store's addressee filter.
ScanTail(through, limit) == LastOf({i \in Addressees : i <= through}, limit)

\* Slip: a re-attach starts its list of ranges over.
AttachAfresh(s, tip) ==
  LET readThrough == ScanFrom(s)
      base == IF s.summarized >= s.boundary THEN [s EXCEPT !.summarized = readThrough] ELSE s
  IN  IF tip > readThrough
      THEN [base EXCEPT !.boundary = tip,
                        !.unsearched = <<[after |-> readThrough, top |-> tip, exclusive |-> FALSE]>>]
      ELSE [base EXCEPT !.boundary = readThrough]

\* What arrived while detached becomes history; live does not move.
Attach(s, tip) ==
  LET settled == s.summarized >= s.boundary
      readThrough == ScanFrom(s)
      base == IF settled THEN [s EXCEPT !.summarized = readThrough, !.unsearched = <<>>] ELSE s
  IN  IF tip > readThrough
      THEN [base EXCEPT !.boundary = tip,
                        !.unsearched = Append(@, [after |-> readThrough, top |-> tip, exclusive |-> FALSE])]
      ELSE [base EXCEPT !.boundary = readThrough]

\* The part of a range below a cursor that was shown or read.
Below(range, cursor) == [after |-> range.after, top |-> cursor, exclusive |-> TRUE]

\* Slip: a range shrinks by what it shows only, not by what was read in it.
RemainderUnread(range, scanned, shown, reachedStart) ==
  IF scanned \cap Requests # shown THEN <<Below(range, Min(shown))>>
  ELSE IF reachedStart THEN <<>> ELSE <<range>>

\* What of a range is left once the requests of one scan of it are shown.
Remainder(range, scanned, shown, reachedStart) ==
  IF scanned \cap Requests # shown THEN <<Below(range, Min(shown))>>
  ELSE IF reachedStart THEN <<>> ELSE <<Below(range, Min(scanned))>>

\* One iteration of the loop of addressed_history.
SearchRange(page, range) ==
  LET room == Budget - Cardinality(page.shown)
      limit == Min({page.budget + (IF range.exclusive THEN 1 ELSE 0), ScanCap})
      found == ScanTail(range.top, limit)
      reachedStart == Cardinality(found) < limit \/ \E i \in found : i <= range.after
      scanned == {i \in found : i > range.after /\ (range.exclusive => i < range.top)}
      shown == LastOf(scanned \cap Requests, room)
      left == Remainder(range, scanned, shown, reachedStart)
  IN  IF page.stopped \/ page.budget = 0 \/ room = 0
      THEN [page EXCEPT !.left = Append(@, range), !.stopped = TRUE]
      ELSE [shown |-> page.shown \cup shown,
            budget |-> Larger(page.budget - Cardinality(scanned), 0),
            left |-> page.left \o left,
            stopped |-> left # <<>>]

\* The next page of requests in the unsettled history: oldest range first, and
\* in a range newest first.
AddressedHistory(s) ==
  FoldLeft(SearchRange,
           [shown |-> {}, budget |-> Min({Candidates, ScanCap}), left |-> <<>>, stopped |-> FALSE],
           s.unsearched)

\* delivery_end and prefix: the live events shown, and how far that delivers.
LiveShown(t) == FirstOf(t.events, Budget)
Delivered(t) ==
  IF t.events = {} THEN t.state.live
  ELSE IF LiveShown(t) = t.events THEN t.scanned ELSE Max(LiveShown(t))

\* acknowledge: the row after a turn that showed its output.  left is Nothing if
\* no history was looked at.
Acknowledged(t) ==
  LET s == [t.state EXCEPT !.live = Delivered(t)]
  IN  IF t.left = Nothing THEN s
      ELSE IF s.onePage
      THEN [s EXCEPT !.onePage = FALSE, !.summarized = s.boundary, !.unsearched = <<>>]
      ELSE [s EXCEPT !.summarized = IF t.left = <<>> THEN s.boundary ELSE @, !.unsearched = t.left]

DeliveryInit ==
  /\ scene \in Scenes
  /\ tail = 0
  /\ marker = Nothing
  /\ row = [c \in Consumers |-> Nothing]
  /\ turn = [c \in Consumers |-> Nothing]
  /\ attached = {}
  /\ told = [c \in Consumers |-> {}]
  /\ kept = [c \in Consumers |-> {}]
  /\ origin = [c \in Consumers |-> 0]
  /\ drops = 0

\* The next event is stored.
Post ==
  /\ tail < Len(scene.plan)
  /\ tail' = tail + 1
  /\ UNCHANGED <<scene, marker, row, turn, attached, told, kept, origin, drops>>

\* A turn starts: the lock of the consumer, then the newest cursor of its rooms.
\* A native feed attaches and announces once per process, a hook always announces.
ReadTip(c) ==
  /\ c \in scene.sessions /\ turn[c] = Nothing
  /\ turn' = [turn EXCEPT ![c] = [phase |-> "tip", tip |-> tail, attaching |-> c \in Native \ attached,
                                  announce |-> c \notin Native \cap attached]]
  /\ UNCHANGED <<scene, tail, marker, row, attached, told, kept, origin, drops>>

\* prepare_delivery_owned after its tip: load or seed, re-attach if one scan does
\* not reach the tip, scan.  Rows persisted on the way are the one kept here.
Prepare(c) ==
  /\ turn[c] # Nothing /\ turn[c].phase = "tip"
  /\ LET tip == turn[c].tip
         loaded == IF row[c] = Nothing THEN Seed(tip) ELSE EnsureUnsearched(row[c])
         behind == ScanForward(ScanFrom(loaded), tip).scanned < tip
         state == IF turn[c].attaching \/ behind THEN Attach(loaded, tip) ELSE loaded
         scan == ScanForward(ScanFrom(state), Larger(ScanFrom(state), tip))
     IN  /\ row' = [row EXCEPT ![c] = state]
         /\ turn' = [turn EXCEPT ![c] = [phase |-> "prepared", announce |-> turn[c].announce,
                                         state |-> state, events |-> scan.events, scanned |-> scan.scanned]]
         /\ origin' = [origin EXCEPT ![c] = IF row[c] = Nothing THEN state.summarized ELSE @]
  /\ UNCHANGED <<scene, tail, marker, attached, told, kept, drops>>

\* history_summary and the flushed output.
Show(c) ==
  /\ turn[c] # Nothing /\ turn[c].phase = "prepared"
  /\ LET t == turn[c]
         history == IF t.announce /\ t.state.summarized < t.state.boundary
                    THEN AddressedHistory(t.state)
                    ELSE [shown |-> {}, left |-> Nothing]
         out == (LiveShown(t) \cap Requests) \cup history.shown
     IN  /\ turn' = [turn EXCEPT ![c] = [phase |-> "shown", state |-> t.state, events |-> t.events,
                                         scanned |-> t.scanned, left |-> history.left, out |-> out]]
         /\ told' = [told EXCEPT ![c] = @ \cup out]
  /\ UNCHANGED <<scene, tail, marker, row, attached, kept, origin, drops>>

\* acknowledge, first write: the marker moves forward only.
AdvanceMarker(c) ==
  /\ turn[c] # Nothing /\ turn[c].phase = "shown"
  /\ marker' = IF marker = Nothing THEN Delivered(turn[c]) ELSE Larger(marker, Delivered(turn[c]))
  /\ turn' = [turn EXCEPT ![c].phase = "marked"]
  /\ UNCHANGED <<scene, tail, row, attached, told, kept, origin, drops>>

\* acknowledge, second write: the row; then the lock is given back.  One page
\* settles what it left out by design, so the obligations start anew after it.
SaveRow(c) ==
  /\ turn[c] # Nothing /\ turn[c].phase = "marked"
  /\ LET t == turn[c]
     IN  /\ row' = [row EXCEPT ![c] = Acknowledged(t)]
         /\ kept' = [kept EXCEPT ![c] = @ \cup t.out]
         /\ origin' = [origin EXCEPT ![c] = IF t.state.onePage /\ t.left # Nothing THEN t.state.boundary ELSE @]
  /\ attached' = attached \cup {c}
  /\ turn' = [turn EXCEPT ![c] = Nothing]
  /\ UNCHANGED <<scene, tail, marker, told, drops>>

\* A turn fails, or a process ends, in a turn or between two.
Drop(c) ==
  /\ c \in scene.sessions /\ drops < scene.drops
  /\ drops' = drops + 1
  /\ turn' = [turn EXCEPT ![c] = Nothing]
  /\ attached' \in {attached, attached \ {c}}
  /\ UNCHANGED <<scene, tail, marker, row, told, kept, origin>>

TurnStep(c) == ReadTip(c) \/ Prepare(c) \/ Show(c) \/ AdvanceMarker(c) \/ SaveRow(c)

DeliveryNext == Post \/ \E c \in Consumers : TurnStep(c) \/ Drop(c)

\* An agent at work keeps calling its hook. Its next step is always enabled, so
\* this is weak fairness of TurnStep.
DeliveryFairness ==
  \A c \in Consumers \ Native : c \in scene.sessions => []<><<TurnStep(c)>>_deliveryVars

DeliverySpec == DeliveryInit /\ [][DeliveryNext]_deliveryVars /\ DeliveryFairness

(***************************************************************************)
(* Properties.                                                             *)
(***************************************************************************)
\* A range still owes the request e.
Owes(range, e) == range.after < e /\ (IF range.exclusive THEN e < range.top ELSE e <= range.top)

\* Every request is owed until it is shown, and acknowledged output is not shown
\* again: whatever turn ends early, re-attaches, pages or settles, a request the
\* consumer has read past was shown to it or lies in a range it will still search
\* ("no settlement buries an addressed request not yet emitted"; the page that
\* stands for an old backlog is the exception), and no turn shows a request of an
\* acknowledged turn of the same consumer.
OwedOnce ==
  \A c \in Consumers :
    /\ row[c] # Nothing =>
         \A e \in Requests : origin[c] < e /\ e <= ScanFrom(row[c]) =>
           e \in told[c] \/ \E range \in Range(row[c].unsearched) : Owes(range, e)
    /\ turn[c] # Nothing /\ turn[c].phase = "shown" => turn[c].out \cap kept[c] = {}

\* The requests consumer c was not shown yet.
Unread(c) == {e \in Requests : e > origin[c]} \ told[c]

\* Every request reaches a hook that keeps being called: no mix of mentions of
\* others, re-attaches, full pages and turns that end early keeps one unread.
EveryRequestShown ==
  \A c \in Consumers \ Native : row[c] # Nothing /\ Unread(c) # {} ~> Unread(c) = {}
=============================================================================
