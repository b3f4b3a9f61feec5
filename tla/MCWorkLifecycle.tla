-------------------------- MODULE MCWorkLifecycle ---------------------------
(***************************************************************************)
(* The scenes WorkLifecycle is checked on: claims and closes around a      *)
(* retirement, a card shipped through its pull request, a resident that    *)
(* stages a clone, and a tick of the merge gate, which has state of its    *)
(* own and takes its steps in the Gating scene alone.                      *)
(***************************************************************************)
EXTENDS WorkLifecycle, MergeGate

Retiring ==
  [ops |-> [a |-> {"claim", "reopen", "close"}, b |-> {"cleanup"}],
   start |-> {None}, commits |-> 2, world |-> {"elsewhere"}]

Shipping ==
  [ops |-> [a |-> {"claim", "start", "review", "link"}, b |-> {"merge"}],
   start |-> {"linked"}, commits |-> 1, world |-> {}]

Staging ==
  [ops |-> [a |-> {"claim", "close"}, b |-> {"stage"}],
   start |-> {None, "linked", "torn"}, commits |-> 1, world |-> {"mirror", "ignored"}]

Gating == [ops |-> [x \in {"a", "b"} |-> {}], start |-> {None}, commits |-> 0, world |-> {}]

MCScenes == {Retiring, Shipping, Staging, Gating}

MCProcs == {"a", "b"}
Run(name, conclusion, started) ==
  [name |-> name, conclusion |-> conclusion, completed |-> conclusion # NoName, started |-> started]

\* Red, green and red again, still running since a while and since now, red
\* without a name, red without a start, and green at the second red's time.
Runs ==
  {Run("t", "failure", 1), Run("t", "success", 2), Run("t", "failure", 2), Run("t", NoName, 1),
   Run("t", NoName, 3), Run(NoName, "failure", 1), Run("t", "failure", NoName)}

MCRollups ==
  {<<>>, <<Run("t", "failure", 1)>>, <<Run("t", "failure", 1), Run("t", "success", 2)>>}

View(state, conflicting, target, checks) ==
  [state |-> state, conflicting |-> conflicting, target |-> target, checks |-> checks]

Views ==
  {View("open", FALSE, t, <<r, s>>) : t \in {"main", "next", NoName}, r, s \in Runs}
    \cup {View(st, cf, "main", <<>>) : st \in {"open", "closed", "merged"}, cf \in BOOLEAN}

\* A card alone, or after one whose red check had the base of main fetched.
MCQueues ==
  {<<v>> : v \in Views}
    \cup {<<View("open", FALSE, "main", <<Run("t", "failure", 1)>>), v>> : v \in Views}

MCTargets == {"main", "next"}

\* The gate has its cards in its own scene only.
MCInit ==
  /\ LifecycleInit
  /\ IF scene = Gating THEN GateInit
     ELSE /\ prs = <<>> /\ outcome = NoName /\ reruns = 0
          /\ bases = [t \in Targets |-> <<>>]
          /\ observed = [t \in Targets |-> {<<>>}]
          /\ baselines = [t \in {} |-> {}]

MCNext ==
  \/ LifecycleNext /\ UNCHANGED gateVars
  \/ GateNext /\ UNCHANGED lifecycleVars

MCSpec == MCInit /\ [][MCNext]_<<lifecycleVars, gateVars>> /\ LifecycleFairness
=============================================================================
