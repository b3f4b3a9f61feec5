----------------------------- MODULE MergeGate ------------------------------
(***************************************************************************)
(* The merge gate (airc-cli/src/merger.rs): one tick of the merger looks   *)
(* at the pull requests of the Review cards in turn and merges the ones    *)
(* whose checks are no redder than their own base.  The failures of a base *)
(* are fetched once per target and kept for the tick; the forge goes on    *)
(* running checks meanwhile.                                               *)
(***************************************************************************)
EXTENDS Naturals, Sequences

CONSTANTS
  NoName,        \* a check without a name, a start or a conclusion
  Targets,       \* base branches at a revision: keys of the baseline cache
  Queues,        \* the pull requests of the Review cards, as pr_view answers
  Rollups,       \* the lists of check runs a revision may have
  PendingTimeout,\* pending_timeout_ms; 0 turns the bypass off
  GateNow,       \* now_ms, read once per tick
  MaxReruns      \* bound on what the forge reruns during the tick

\* The pull requests a tick may meet.
PrViews == UNION {{q[i] : i \in DOMAIN q} : q \in Queues}

\* What pr_view parses: a run's start is a time or missing, and a pull request
\* has its own target or none.
ASSUME MergeGateAssumption ==
  /\ PendingTimeout \in Nat /\ GateNow \in Nat
  /\ NoName \notin Nat
  /\ \A q \in Queues : q \in Seq(PrViews)
  /\ \A view \in PrViews :
       /\ view.target \in Targets \cup {NoName}
       /\ \A i \in DOMAIN view.checks : view.checks[i].started \in Nat \cup {NoName}
  /\ \A runs \in Rollups : \A i \in DOMAIN runs : runs[i].started \in Nat \cup {NoName}

VARIABLES
  prs,       \* the pull requests still to look at, in board order
  bases,     \* target -> the check runs the forge has for it now
  baselines, \* target -> failing names, for the targets fetched in this tick
  observed,  \* target -> every run list it had during the tick
  outcome,   \* the last pull request looked at and what was decided
  reruns

gateVars == <<prs, bases, baselines, observed, outcome, reruns>>

Failing(run) == run.conclusion = "failure"

\* Neither verdict and not completed.
Pending(run) == run.conclusion \notin {"success", "failure"} /\ ~run.completed

\* A run that can be placed among the runs of its check.
Dated(run) == run.name # NoName /\ run.started # NoName

\* Slip: the first run of a check keeps its word.
SupersedesNever(later, earlier) == FALSE

\* A same-named run that provably started later.
Supersedes(later, earlier) ==
  /\ Dated(later) /\ Dated(earlier)
  /\ later.name = earlier.name
  /\ later.started > earlier.started

CurrentRuns(runs) ==
  {runs[i] : i \in {k \in DOMAIN runs : \A j \in DOMAIN runs : ~Supersedes(runs[j], runs[k])}}

BaselineFailingNames(runs) ==
  {run.name : run \in {r \in CurrentRuns(runs) : Failing(r) /\ r.name # NoName}}

\* saturating_sub, against a clock that may be behind the forge's.
TimedOut(run) ==
  /\ PendingTimeout > 0
  /\ run.started # NoName
  /\ GateNow > run.started
  /\ GateNow - run.started > PendingTimeout

EvaluateGhView(view, allowance) ==
  LET current == CurrentRuns(view.checks)
  IN  IF view.state = "merged" THEN "already_merged"
      ELSE IF view.state # "open" \/ view.conflicting THEN "not_ready"
      ELSE IF \E r \in current : Failing(r) /\ r.name \notin allowance THEN "not_ready"
      ELSE IF \E r \in current : Pending(r) /\ ~TimedOut(r) THEN "not_ready"
      ELSE "green"

GateInit ==
  /\ prs \in Queues
  /\ bases \in [Targets -> Rollups]
  /\ baselines = [t \in {} |-> {}]
  /\ observed = [t \in Targets |-> {bases[t]}]
  /\ outcome = NoName
  /\ reruns = 0

\* Slip: the tick has one baseline, that of the first target it met.
AllowancesShared(t) ==
  IF DOMAIN baselines # {} THEN {baselines[u] : u \in DOMAIN baselines}
  ELSE {BaselineFailingNames(bases[t]), {}}

\* The allowance check_pr_gate uses for a target: cached, or fetched now (an
\* error is an empty allowance).
Allowances(t) ==
  IF t \in DOMAIN baselines THEN {baselines[t]} ELSE {BaselineFailingNames(bases[t]), {}}

\* check_pr_gate: the base is asked for only when the strict gate refuses.
CheckPrGateOf(view) ==
  LET alone == EvaluateGhView(view, {})
  IN  IF alone # "not_ready" \/ view.target = NoName
      THEN outcome' = [view |-> view, gate |-> alone] /\ UNCHANGED baselines
      ELSE \E allowance \in Allowances(view.target) :
             /\ baselines' = [t \in DOMAIN baselines \cup {view.target} |->
                                IF t = view.target THEN allowance ELSE baselines[t]]
             /\ outcome' = [view |-> view, gate |-> EvaluateGhView(view, allowance)]

\* tick_once: the next card; a failed query skips it.
TickCard ==
  /\ prs # <<>>
  /\ \/ CheckPrGateOf(Head(prs))
     \/ outcome' = [view |-> Head(prs), gate |-> "skip"] /\ UNCHANGED baselines
  /\ prs' = Tail(prs)
  /\ UNCHANGED <<bases, observed, reruns>>

\* The forge reruns the checks of a base during the tick.
ForgeReruns ==
  /\ prs # <<>>
  /\ reruns < MaxReruns
  /\ \E t \in Targets, runs \in Rollups :
       /\ bases' = [bases EXCEPT ![t] = runs]
       /\ observed' = [observed EXCEPT ![t] = @ \cup {runs}]
  /\ reruns' = reruns + 1
  /\ UNCHANGED <<prs, baselines, outcome>>

GateNext == TickCard \/ ForgeReruns

GateSpec == GateInit /\ [][GateNext]_gateVars

(***************************************************************************)
(* Properties.                                                             *)
(***************************************************************************)
\* The last word on a check: its runs that no later one of the name follows,
\* a run without name or start being nobody's predecessor or successor.
LastWord(runs, i) ==
  \/ ~Dated(runs[i])
  \/ \A j \in DOMAIN runs :
       runs[j].name = runs[i].name /\ runs[j].started # NoName => runs[j].started <= runs[i].started

\* A pull request is merged only if it is no redder than its own base: whatever
\* order the cards come in, whatever failed to be fetched and whatever the
\* forge reran meanwhile, a check whose last word is red was red, as its last
\* word, on this very target at some moment of the tick, and nothing younger
\* than the timeout is still running.
NoRedderThanBase ==
  outcome # NoName /\ outcome.gate = "green" =>
    LET view == outcome.view
        runs == view.checks
        RedOnBase(name) ==
          /\ view.target # NoName
          /\ name # NoName
          /\ \E seenRuns \in observed[view.target] : \E k \in DOMAIN seenRuns :
               seenRuns[k].name = name /\ Failing(seenRuns[k]) /\ LastWord(seenRuns, k)
    IN  /\ view.state = "open" /\ ~view.conflicting
        /\ \A i \in DOMAIN runs : LastWord(runs, i) =>
             /\ Failing(runs[i]) => RedOnBase(runs[i].name)
             /\ Pending(runs[i]) => runs[i].started # NoName /\ runs[i].started + PendingTimeout < GateNow

\* A rerun that is green unblocks: a pull request whose every check ends in a
\* success is merged whatever its earlier runs were, and needs no base for it.
GreenRerunsUnblock ==
  outcome # NoName /\ outcome.gate # "skip" /\ outcome.view.state = "open" /\ ~outcome.view.conflicting =>
    LET runs == outcome.view.checks
    IN  (\A i \in DOMAIN runs : LastWord(runs, i) => runs[i].conclusion = "success")
          => outcome.gate = "green"
=============================================================================
