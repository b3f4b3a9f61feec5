---------------------------- MODULE DurableLog -----------------------------
(***************************************************************************)
(* What the router promises of durable events, whatever it does inside: an *)
(* accepted event is readable for as long as the process lives, storing    *)
(* never makes one unreadable, only readable events are stored, and a      *)
(* restart brings back exactly what was stored, under a later start number.*)
(***************************************************************************)
EXTENDS Naturals

CONSTANT LogIds

VARIABLES
  start,      \* which start of the daemon is running
  readable,   \* ids of the durable events a reader can find
  stored      \* ids that survive a crash

logVars == <<start, readable, stored>>

Init == start = 1 /\ readable = {} /\ stored = {}

Accept(id) ==
  /\ readable' = readable \cup {id}
  /\ UNCHANGED <<start, stored>>

\* A group commit: readable events become stored, all of the group or part.
Store(S) ==
  /\ stored' = stored \cup S
  /\ UNCHANGED <<start, readable>>

Crash ==
  /\ start' = start + 1
  /\ readable' = stored
  /\ UNCHANGED stored

Next ==
  \/ \E id \in LogIds : Accept(id)
  \/ \E S \in SUBSET readable : Store(S)
  \/ Crash

Spec == Init /\ [][Next]_logVars
=============================================================================
