---------------------------- MODULE MCAddressed -----------------------------
(***************************************************************************)
(* Budgets for AddressedSessions: a window that frames overtake and repeat *)
(* each other in, and lost messages and restarts around few frames.        *)
(***************************************************************************)
EXTENDS AddressedSessions

MCBudgets ==
  {[seals |-> 4, rekeys |-> 0, restarts |-> 0, losses |-> 0],
   [seals |-> 2, rekeys |-> 1, restarts |-> 1, losses |-> 0],
   [seals |-> 1, rekeys |-> 1, restarts |-> 1, losses |-> 1],
   [seals |-> 0, rekeys |-> 0, restarts |-> 2, losses |-> 1]}
=============================================================================
