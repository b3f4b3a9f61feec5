------------------------------- MODULE MCMesh -------------------------------
(***************************************************************************)
(* What daemons and identities say to each other, one conversation per     *)
(* behaviour: sealed sessions between two identities, the switch that      *)
(* hands addressed frames to local receivers, or events spreading over     *)
(* the links.                                                              *)
(***************************************************************************)
EXTENDS MCAddressed, AddressedSwitch, MeshForward, TLC

CONSTANTS nA, nB, nC, eX, eY, rP, rQ, c1, c2, c3, f1, f2, f3

\* Two connections of one receiver and one of another.
MCClient == (c1 :> rP) @@ (c2 :> rP) @@ (c3 :> rQ)
MCRecipient == (f1 :> rP) @@ (f2 :> rP) @@ (f3 :> rQ)

Pair == {{nA, nB}}
Chain == {{nA, nB}, {nB, nC}}
Triangle == {{nA, nB}, {nB, nC}, {nA, nC}}

\* A pair that flaps, two events on a pair with one queue slot, a late link of
\* a chain, and a triangle with a daemon no scope of which reads the channel.
MCScenarios == {
  [links |-> Pair, up |-> {}, home |-> (eX :> nA), bound |-> {nA, nB}, faults |-> 1, flaps |-> 2],
  [links |-> Pair, up |-> Pair, home |-> (eX :> nA) @@ (eY :> nA), bound |-> {nA, nB}, faults |-> 1, flaps |-> 0],
  [links |-> Chain, up |-> Pair, home |-> (eX :> nA), bound |-> {nA, nB, nC}, faults |-> 1, flaps |-> 0],
  [links |-> Triangle, up |-> Triangle, home |-> (eX :> nA), bound |-> {nA, nC}, faults |-> 1, flaps |-> 0]}

VARIABLE talk  \* the conversation: "sessions", "switch" or "forward"

mcVars == <<talk, addressedVars, switchVars, meshVars>>

MCInit ==
  /\ AddressedInit /\ SwitchInit /\ MeshInit
  /\ \/ talk = "sessions" /\ scenario = CHOOSE s \in Scenarios : TRUE
     \/ talk = "switch" /\ scenario = (CHOOSE s \in Scenarios : TRUE) /\ budget = CHOOSE b \in Budgets : TRUE
     \/ talk = "forward" /\ budget = CHOOSE b \in Budgets : TRUE

MCNext ==
  /\ \/ talk = "sessions" /\ AddressedNext /\ UNCHANGED <<switchVars, meshVars>>
     \/ talk = "switch" /\ SwitchNext /\ UNCHANGED <<addressedVars, meshVars>>
     \/ talk = "forward" /\ MeshNext /\ UNCHANGED <<addressedVars, switchVars>>
  /\ UNCHANGED talk

\* The fairness of each module while its conversation is the one.
MCFairness ==
  /\ \A i \in Peers : /\ WF_addressedVars(talk = "sessions" /\ AwaitSession(i))
                      /\ WF_addressedVars(talk = "sessions" /\ ReceiveFor(i))
  /\ WF_switchVars(talk = "switch" /\ DaemonStep)
  /\ WF_meshVars(talk = "forward" /\ ForwarderStep)

MCSpec == MCInit /\ [][MCNext]_mcVars /\ MCFairness
=============================================================================
