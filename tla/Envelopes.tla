----------------------------- MODULE Envelopes -----------------------------
(***************************************************************************)
(* The envelopes the owner-core router handles (airc-bus/src/envelope.rs), *)
(* abstracted to the fields the router's control depends on.  An element   *)
(* of Envs is one publish call: two elements with the same EventId are two *)
(* arrivals of the same event (a transport echo, a frame on two links, a   *)
(* retransmission).                                                        *)
(*                                                                         *)
(* A cursor is (seq, event_id).  The owner stamps a fresh seq on every     *)
(* publish, so seq alone orders the cursors of one router; event_id breaks *)
(* no tie here and a cursor is its seq.                                    *)
(***************************************************************************)
EXTENDS Integers, FiniteSets

CONSTANTS
  Envs,        \* publish calls
  Rooms,       \* channels
  EventId,     \* Envs -> sender-minted event ids
  Room,        \* Envs -> Rooms
  Delivery,    \* Envs -> Classes
  Bytes        \* Envs -> retained_bytes of the envelope

\* The delivery classes the router tells apart.  EphemeralWindow,
\* RequestResponse and StreamChunk are all ringed and fanned out, never
\* persisted, forwarded or coalesced: one class, "live".
Classes == {"durable", "latest", "live"}

ASSUME EnvelopesAssumption ==
  /\ Room \in [Envs -> Rooms]
  /\ Delivery \in [Envs -> Classes]
  /\ Bytes \in [Envs -> Nat]
  /\ DOMAIN EventId = Envs

IsDurable(e) == Delivery[e] = "durable"
IsEphemeralLatest(e) == Delivery[e] = "latest"

Ids(E) == {EventId[e] : e \in E}

\* Generational order: the epoch dominates, the counter orders within it.
\* Unstamped is epoch 0, the "never started" sentinel.
Seqs == Nat \X Nat
Unstamped == <<0, 0>>
SeqBefore(a, b) == \/ a[1] < b[1]
                   \/ a[1] = b[1] /\ a[2] < b[2]
=============================================================================
