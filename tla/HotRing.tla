------------------------------ MODULE HotRing ------------------------------
(***************************************************************************)
(* One channel's hot ring (airc-bus/src/ring.rs).  The ring is a set of    *)
(* slots ordered by pos, the push index, so the VecDeque's front is the    *)
(* slot of least pos.  Eviction is written in closed form: which slots the *)
(* code's loop removes, stated for each slot from the ring the loop starts *)
(* from.  MCHotRing runs the loop itself beside it.                        *)
(***************************************************************************)
EXTENDS Envelopes, FiniteSetsExt

CONSTANTS
  RingCapacity,     \* capacity.max(1)
  RingByteBudget    \* byte_budget

ASSUME HotRingAssumption ==
  /\ RingCapacity \in Nat \ {0}
  /\ RingByteBudget \in Nat

Slots == [pos : Nat, env : Envs, pinned : BOOLEAN]

RetainedBytes(ring) == MapThenSumSet(LAMBDA s : Bytes[s.env], ring)

OverBounds(ring) ==
  \/ Cardinality(ring) > RingCapacity
  \/ Cardinality(ring) > 1 /\ RetainedBytes(ring) > RingByteBudget

From(ring, s) == {t \in ring : t.pos >= s.pos}
UpTo(ring, s) == {t \in ring : t.pos <= s.pos}
Lossy(ring) == {s \in ring : ~IsDurable(s.env)}

\* The front is popped while it is unpinned and the ring is over a bound.
DropFront(ring) ==
  {s \in ring : ~( /\ \A t \in UpTo(ring, s) : ~t.pinned
                   /\ OverBounds(From(ring, s)))}

\* Slip: any unpinned slot goes behind a pinned front, durables included.
DropAnyUnpinned(ring) ==
  {s \in ring :
     LET left == {t \in ring : t.pinned \/ t.pos >= s.pos}
     IN  s.pinned \/ ~OverBounds(left)}

\* Slip: the newest slot is not spared from the byte bound.
DropLossyNewestToo(ring) ==
  {s \in ring : IsDurable(s.env) \/
     ~OverBounds((ring \ UpTo(Lossy(ring), s)) \cup {s})}

\* Behind a pinned front only lossy slots go, oldest first, and the newest
\* slot only when the count is over.
DropLossy(ring) ==
  {s \in ring :
     LET left == (ring \ UpTo(Lossy(ring), s)) \cup {s}
     IN  ~( /\ ~IsDurable(s.env)
            /\ OverBounds(left)
            /\ \/ \E t \in left : t.pos > s.pos
               \/ Cardinality(left) > RingCapacity)}

EvictToCapacity(ring) == DropLossy(DropFront(ring))

\* push: pinned exactly when durable, then evict.
Push(ring, p, e) ==
  EvictToCapacity(ring \cup {[pos |-> p, env |-> e, pinned |-> IsDurable(e)]})

\* mark_persisted unpins the FIRST slot with this event id, then evicts.
FirstWithId(ring, id) ==
  {s \in ring : /\ EventId[s.env] = id
                /\ \A t \in ring : EventId[t.env] = id => s.pos <= t.pos}

MarkPersisted(ring, id) ==
  LET first == FirstWithId(ring, id)
  IN  EvictToCapacity((ring \ first) \cup {[s EXCEPT !.pinned = FALSE] : s \in first})

PinnedCount(ring) == Cardinality({s \in ring : s.pinned})
RingEnvs(ring) == {s.env : s \in ring}

Oldest(ring) == CHOOSE s \in ring : \A t \in ring : s.pos <= t.pos
Newest(ring) == CHOOSE s \in ring : \A t \in ring : s.pos >= t.pos
=============================================================================
