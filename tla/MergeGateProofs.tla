--------------------------- MODULE MergeGateProofs --------------------------
(***************************************************************************)
(* What a tick of the merge gate promises, for every queue of cards, every *)
(* history of the bases and any number of reruns.  The invariant that      *)
(* carries it: the baseline cached for a target is empty or the failing    *)
(* names of a run list that target had during the tick.                    *)
(***************************************************************************)
EXTENDS MergeGate, TLAPS

GateTypeOK ==
  /\ prs \in Seq(PrViews)
  /\ bases \in [Targets -> Rollups]
  /\ observed \in [Targets -> SUBSET Rollups]
  /\ DOMAIN baselines \subseteq Targets
  /\ \A t \in Targets : bases[t] \in observed[t]
  /\ outcome # NoName => outcome.view \in PrViews

\* An allowance for target t: nothing, or what some run list t had was red on.
AllowedOn(t, allowance) ==
  allowance = {} \/ \E runs \in observed[t] : allowance = BaselineFailingNames(runs)

BaselinesSound == \A t \in DOMAIN baselines : AllowedOn(t, baselines[t])

GateInv ==
  /\ GateTypeOK
  /\ BaselinesSound
  /\ NoRedderThanBase
  /\ GreenRerunsUnblock

Timed(runs) == \A i \in DOMAIN runs : runs[i].started \in Nat \cup {NoName}

\* current_check_runs keeps exactly the runs that are the last word on their
\* check: pairwise supersession and the latest start agree.
LEMMA CurrentIsLastWord ==
  ASSUME NEW runs, Timed(runs), NEW i \in DOMAIN runs
  PROVE  LastWord(runs, i) <=> \A j \in DOMAIN runs : ~Supersedes(runs[j], runs[i])
<1>1. CASE ~Dated(runs[i])
  BY <1>1 DEF LastWord, Supersedes
<1>2. CASE Dated(runs[i])
  <2>1. NoName \notin Nat /\ runs[i].name # NoName /\ runs[i].started \in Nat
    BY <1>2, MergeGateAssumption DEF Dated, Timed
  <2>2. ASSUME NEW j \in DOMAIN runs
        PROVE  ~Supersedes(runs[j], runs[i])
                 <=> (runs[j].name = runs[i].name /\ runs[j].started # NoName
                        => runs[j].started <= runs[i].started)
    <3>1. CASE runs[j].started = NoName
      BY <3>1, <2>1 DEF Supersedes, Dated
    <3>2. CASE runs[j].started \in Nat
      <4>1. runs[j].started > runs[i].started <=> ~(runs[j].started <= runs[i].started)
        BY <3>2, <2>1
      <4> QED BY <4>1, <3>2, <2>1, <1>2 DEF Supersedes, Dated
    <3> QED BY <3>1, <3>2, <2>2 DEF Timed
  <2> QED BY <2>2, <1>2 DEF LastWord
<1> QED BY <1>1, <1>2

\* current_runs as a set: exactly the runs that are the last word on their name.
LEMMA CurrentRunIs ==
  ASSUME NEW runs, Timed(runs)
  PROVE  /\ \A i \in DOMAIN runs : LastWord(runs, i) => runs[i] \in CurrentRuns(runs)
         /\ \A r \in CurrentRuns(runs) : \E i \in DOMAIN runs : r = runs[i] /\ LastWord(runs, i)
BY CurrentIsLastWord DEF CurrentRuns

\* A name in the allowance of a target was red there, as the last word.
LEMMA AllowedIsRed ==
  ASSUME GateTypeOK, NEW t \in Targets, NEW allowance, AllowedOn(t, allowance),
         NEW name \in allowance
  PROVE  /\ name # NoName
         /\ \E seenRuns \in observed[t] : \E k \in DOMAIN seenRuns :
              seenRuns[k].name = name /\ Failing(seenRuns[k]) /\ LastWord(seenRuns, k)
<1>1. PICK runs \in observed[t] : allowance = BaselineFailingNames(runs)
  BY DEF AllowedOn
<1>2. Timed(runs)
  BY MergeGateAssumption DEF GateTypeOK, Timed
<1>3. PICK r \in CurrentRuns(runs) : Failing(r) /\ r.name # NoName /\ name = r.name
  BY <1>1 DEF BaselineFailingNames
<1>4. PICK k \in DOMAIN runs : r = runs[k] /\ LastWord(runs, k)
  BY <1>2, CurrentRunIs
<1> QED BY <1>3, <1>4

\* What evaluate_gh_view says when it says green, and when it must say it.
LEMMA GreenMeans ==
  ASSUME NEW view \in PrViews, NEW allowance, EvaluateGhView(view, allowance) = "green"
  PROVE  /\ view.state = "open" /\ ~view.conflicting
         /\ \A i \in DOMAIN view.checks : LastWord(view.checks, i) =>
              /\ Failing(view.checks[i]) => view.checks[i].name \in allowance
              /\ Pending(view.checks[i]) => /\ view.checks[i].started # NoName
                                            /\ view.checks[i].started + PendingTimeout < GateNow
<1> DEFINE runs == view.checks
<1>1. Timed(runs)
  BY MergeGateAssumption DEF Timed
<1>2. view.state = "open" /\ ~view.conflicting
  BY DEF EvaluateGhView
<1>3. \A r \in CurrentRuns(runs) : Failing(r) => r.name \in allowance
  BY DEF EvaluateGhView
<1>4. \A r \in CurrentRuns(runs) : Pending(r) => TimedOut(r)
  BY DEF EvaluateGhView
<1>5. ASSUME NEW i \in DOMAIN runs, TimedOut(runs[i])
      PROVE  runs[i].started # NoName /\ runs[i].started + PendingTimeout < GateNow
  <2>1. runs[i].started \in Nat
    BY <1>1, <1>5 DEF TimedOut, Timed
  <2> QED BY <2>1, <1>5, MergeGateAssumption DEF TimedOut
<1> HIDE DEF runs
<1>6. \A i \in DOMAIN runs : LastWord(runs, i) => runs[i] \in CurrentRuns(runs)
  BY <1>1, CurrentRunIs
<1> QED BY <1>2, <1>3, <1>4, <1>5, <1>6 DEF runs

\* evaluate_gh_view is green when every check's last word is success.
LEMMA GreenWhenGreen ==
  ASSUME NEW view \in PrViews, NEW allowance, view.state = "open", ~view.conflicting,
         \A i \in DOMAIN view.checks :
           LastWord(view.checks, i) => view.checks[i].conclusion = "success"
  PROVE  EvaluateGhView(view, allowance) = "green"
<1>1. Timed(view.checks)
  BY MergeGateAssumption DEF Timed
<1>2. \A r \in CurrentRuns(view.checks) : r.conclusion = "success"
  BY <1>1, CurrentRunIs
<1> QED BY <1>2 DEF EvaluateGhView, Failing, Pending

(***************************************************************************)
(* One card of the tick.                                                   *)
(***************************************************************************)
\* A decision made with an allowance of the view's own target keeps both
\* promises.
LEMMA DecisionIsSound ==
  ASSUME GateTypeOK, observed' = observed, NEW view \in PrViews, NEW allowance,
         \/ allowance = {}
         \/ view.target \in Targets /\ view.target # NoName /\ AllowedOn(view.target, allowance),
         outcome' = [view |-> view, gate |-> EvaluateGhView(view, allowance)]
  PROVE  NoRedderThanBase' /\ GreenRerunsUnblock'
<1>1. outcome'.view = view /\ outcome'.gate = EvaluateGhView(view, allowance)
  OBVIOUS
<1>2. ASSUME EvaluateGhView(view, allowance) = "green"
      PROVE  NoRedderThanBase'
  <2>1. /\ view.state = "open" /\ ~view.conflicting
        /\ \A i \in DOMAIN view.checks : LastWord(view.checks, i) =>
              /\ Failing(view.checks[i]) => view.checks[i].name \in allowance
              /\ Pending(view.checks[i]) => /\ view.checks[i].started # NoName
                                            /\ view.checks[i].started + PendingTimeout < GateNow
    BY <1>2, GreenMeans
  <2>2. ASSUME NEW name \in allowance
        PROVE  /\ view.target # NoName
               /\ name # NoName
               /\ \E seenRuns \in observed[view.target] : \E k \in DOMAIN seenRuns :
                    seenRuns[k].name = name /\ Failing(seenRuns[k]) /\ LastWord(seenRuns, k)
    BY <2>2, AllowedIsRed
  <2> QED BY <2>1, <2>2, <1>1 DEF NoRedderThanBase
<1>3. NoRedderThanBase'
  BY <1>1, <1>2 DEF NoRedderThanBase
<1>4. GreenRerunsUnblock'
  BY <1>1, GreenWhenGreen DEF GreenRerunsUnblock
<1> QED BY <1>3, <1>4

\* check_pr_gate, with or without the read of the base's red checks: what it
\* caches is sound, and what it answers is justified by the view it read.
LEMMA CheckPrGateKeeps ==
  ASSUME GateInv, NEW view \in PrViews, CheckPrGateOf(view), UNCHANGED <<bases, observed>>
  PROVE  /\ DOMAIN baselines' \subseteq Targets
         /\ BaselinesSound'
         /\ outcome'.view = view
         /\ NoRedderThanBase' /\ GreenRerunsUnblock'
<1> DEFINE alone == EvaluateGhView(view, {})
<1> USE DEF GateInv
<1>1. CASE alone # "not_ready" \/ view.target = NoName
  <2>1. outcome' = [view |-> view, gate |-> alone] /\ UNCHANGED baselines
    BY <1>1 DEF CheckPrGateOf
  <2>2. NoRedderThanBase' /\ GreenRerunsUnblock'
    BY <2>1, DecisionIsSound
  <2> QED BY <2>1, <2>2 DEF GateTypeOK, BaselinesSound, AllowedOn
<1>2. CASE ~(alone # "not_ready" \/ view.target = NoName)
  <2>1. PICK allowance \in Allowances(view.target) :
             /\ baselines' = [t \in DOMAIN baselines \cup {view.target} |->
                                IF t = view.target THEN allowance ELSE baselines[t]]
             /\ outcome' = [view |-> view, gate |-> EvaluateGhView(view, allowance)]
    BY <1>2 DEF CheckPrGateOf
  <2>2. view.target \in Targets /\ view.target # NoName
    BY <1>2, MergeGateAssumption
  <2>3. AllowedOn(view.target, allowance)
    BY <2>1, <2>2 DEF Allowances, AllowedOn, BaselinesSound, GateTypeOK
  <2>4. NoRedderThanBase' /\ GreenRerunsUnblock'
    BY <2>1, <2>2, <2>3, DecisionIsSound
  <2>5. DOMAIN baselines' \subseteq Targets
    BY <2>1, <2>2 DEF GateTypeOK
  <2>6. \A t \in DOMAIN baselines' : AllowedOn(t, baselines'[t])
    BY <2>1, <2>3 DEF BaselinesSound
  <2>7. BaselinesSound'
    BY <2>6 DEF BaselinesSound, AllowedOn
  <2>8. outcome'.view = view
    BY <2>1
  <2> QED BY <2>4, <2>5, <2>7, <2>8
<1> QED BY <1>1, <1>2

\* One card of a tick keeps GateInv.
LEMMA TickCardKeeps == GateInv /\ TickCard => GateInv'
<1> SUFFICES ASSUME GateInv, TickCard PROVE GateInv'
  OBVIOUS
<1> DEFINE view == Head(prs)
<1>1. view \in PrViews /\ prs' \in Seq(PrViews)
  BY DEF GateInv, GateTypeOK, TickCard
<1>2. UNCHANGED <<bases, observed>>
  BY DEF TickCard
<1>3. CASE CheckPrGateOf(view)
  <2> HIDE DEF view
  <2>1. /\ DOMAIN baselines' \subseteq Targets
        /\ BaselinesSound' /\ outcome'.view = view
        /\ NoRedderThanBase' /\ GreenRerunsUnblock'
    BY <1>1, <1>2, <1>3, CheckPrGateKeeps
  <2>2. GateTypeOK'
    BY <1>1, <1>2, <2>1 DEF GateInv, GateTypeOK
  <2> QED BY <2>1, <2>2 DEF GateInv
<1>4. CASE outcome' = [view |-> view, gate |-> "skip"] /\ UNCHANGED baselines
  <2>1. NoRedderThanBase' /\ GreenRerunsUnblock'
    BY <1>4 DEF NoRedderThanBase, GreenRerunsUnblock
  <2>2. GateTypeOK'
    BY <1>1, <1>2, <1>4 DEF GateInv, GateTypeOK
  <2>3. BaselinesSound'
    BY <1>2, <1>4 DEF GateInv, BaselinesSound, AllowedOn
  <2> QED BY <2>1, <2>2, <2>3 DEF GateInv
<1> QED BY <1>3, <1>4 DEF TickCard

\* Checks of a base re-run during the tick keep GateInv: what an earlier read
\* allowed was red when it was read.
LEMMA ForgeRerunsKeeps == GateInv /\ ForgeReruns => GateInv'
<1> SUFFICES ASSUME GateInv, ForgeReruns PROVE GateInv'
  OBVIOUS
<1>1. PICK t \in Targets, runs \in Rollups :
           /\ bases' = [bases EXCEPT ![t] = runs]
           /\ observed' = [observed EXCEPT ![t] = @ \cup {runs}]
  BY Zenon DEF ForgeReruns
<1>2. UNCHANGED <<prs, baselines, outcome>>
  BY DEF ForgeReruns
<1>3. GateTypeOK'
  BY <1>1, <1>2 DEF GateInv, GateTypeOK
<1>4. \A u \in Targets : observed[u] \subseteq observed'[u]
  BY <1>1 DEF GateInv, GateTypeOK
<1>5. BaselinesSound'
  BY <1>2, <1>4 DEF GateInv, GateTypeOK, BaselinesSound, AllowedOn
<1>6. GreenRerunsUnblock'
  BY <1>2 DEF GateInv, GreenRerunsUnblock
<1>7. NoRedderThanBase'
  <2>1. outcome # NoName => outcome.view.target \in Targets \cup {NoName}
    BY MergeGateAssumption DEF GateInv, GateTypeOK
  <2>2. NoRedderThanBase
    BY DEF GateInv
  <2> QED BY <1>2, <1>4, <2>1, <2>2 DEF NoRedderThanBase
<1> QED BY <1>3, <1>5, <1>6, <1>7 DEF GateInv

\* GateInv holds throughout a tick.
THEOREM GateInvariant == GateSpec => []GateInv
<1>1. GateInit => GateInv
  <2> SUFFICES ASSUME GateInit PROVE GateInv
    OBVIOUS
  <2>1. GateTypeOK
    BY MergeGateAssumption DEF GateInit, GateTypeOK
  <2> QED BY <2>1 DEF GateInit, GateInv, BaselinesSound, NoRedderThanBase, GreenRerunsUnblock
<1>2. GateInv /\ UNCHANGED gateVars => GateInv'
  BY DEF GateInv, GateTypeOK, BaselinesSound, AllowedOn, NoRedderThanBase, GreenRerunsUnblock,
         gateVars
<1>3. GateInv /\ [GateNext]_gateVars => GateInv'
  BY <1>2, TickCardKeeps, ForgeRerunsKeeps DEF GateNext
<1> QED BY <1>1, <1>3, PTL DEF GateSpec

\* The merger never makes a base redder: what check_pr_gate lets through fails
\* only checks that were failing, as the last word, on its own target.
THEOREM NeverRedder == GateSpec => []NoRedderThanBase
BY GateInvariant, PTL DEF GateInv

\* A pull request whose reruns all ended in a success is never held back by
\* the runs they supersede (current_check_runs in evaluate_gh_view).
THEOREM RerunsUnblock == GateSpec => []GreenRerunsUnblock
BY GateInvariant, PTL DEF GateInv
=============================================================================
