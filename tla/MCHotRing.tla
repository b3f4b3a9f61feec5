----------------------------- MODULE MCHotRing -----------------------------
(***************************************************************************)
(* A ring by itself, driven by every order of pushes and persistence       *)
(* confirmations, with the loop of evict_to_capacity running beside the    *)
(* closed form.                                                            *)
(***************************************************************************)
EXTENDS HotRing, SequencesExt

VARIABLES
  hot,       \* the ring of HotRing
  loop,      \* the same ring as a VecDeque, evicted by the code's loop
  pushed,    \* envelopes in push order
  unsaved    \* durable envelopes pushed and not yet confirmed persisted

hotVars == <<hot, loop, pushed, unsaved>>

\* evict_to_capacity as the code writes it: one removal per iteration.
RECURSIVE LoopEvict(_)
LoopEvict(q) ==
  LET lossy == {i \in DOMAIN q : ~IsDurable(q[i].env)}
      first == Min(lossy)
  IN  CASE ~OverBounds(ToSet(q)) -> q
        [] OverBounds(ToSet(q)) /\ ~Head(q).pinned -> LoopEvict(Tail(q))
        [] OverBounds(ToSet(q)) /\ Head(q).pinned ->
             IF lossy # {} /\ (first < Len(q) \/ Len(q) > RingCapacity)
             THEN LoopEvict(RemoveAt(q, first))
             ELSE q

LoopPush(q, p, e) ==
  LoopEvict(Append(q, [pos |-> p, env |-> e, pinned |-> IsDurable(e)]))

LoopMarkPersisted(q, id) ==
  LET i == SelectInSeq(q, LAMBDA s : EventId[s.env] = id)
  IN  LoopEvict(IF i = 0 THEN q ELSE [q EXCEPT ![i].pinned = FALSE])

RingInit ==
  /\ hot = {} /\ loop = <<>> /\ pushed = <<>> /\ unsaved = {}

PushEnv(e) ==
  /\ ~Contains(pushed, e)
  /\ hot' = Push(hot, Len(pushed) + 1, e)
  /\ loop' = LoopPush(loop, Len(pushed) + 1, e)
  /\ pushed' = Append(pushed, e)
  /\ unsaved' = IF IsDurable(e) THEN unsaved \cup {e} ELSE unsaved

Confirm(e) ==
  /\ e \in unsaved
  /\ hot' = MarkPersisted(hot, EventId[e])
  /\ loop' = LoopMarkPersisted(loop, EventId[e])
  /\ unsaved' = unsaved \ {e}
  /\ UNCHANGED pushed

RingNext == \E e \in Envs : PushEnv(e) \/ Confirm(e)

(***************************************************************************)
(* Properties                                                              *)
(***************************************************************************)

\* The closed form of EvictToCapacity keeps exactly the slots the loop of
\* evict_to_capacity keeps (ring.rs:119-146).
ClosedFormIsLoop == hot = ToSet(loop)

\* The durables of the ring are the newest durables pushed: none is missing
\* between two that are present, so deep replay up to the ring's oldest slot
\* leaves no hole (ring.rs:114-117).
DurableSuffixIntact ==
  \A i, j \in DOMAIN pushed :
     /\ i < j
     /\ IsDurable(pushed[i]) /\ IsDurable(pushed[j])
     /\ pushed[i] \in RingEnvs(hot)
     => pushed[j] \in RingEnvs(hot)
=============================================================================
