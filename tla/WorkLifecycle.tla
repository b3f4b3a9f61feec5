---------------------------- MODULE WorkLifecycle ---------------------------
(***************************************************************************)
(* The commands that move a card and its checkout together: `airc work     *)
(* claim`, `state`, `close`, `link`, `merge` and `cleanup`                 *)
(* (airc-cli/src/work_commands.rs, work_commands_gh.rs) and the merger     *)
(* (merger.rs).  The board is reduced to the one card: its state, owner    *)
(* and pull request, and how many review cards name it; WorkBoard models   *)
(* the rest of the board.  The forge keeps one branch and its pull         *)
(* requests.                                                               *)
(***************************************************************************)
EXTENDS WorkCheckout

CONSTANTS
  Scenes,       \* what a behaviour may do: the commands each process runs
                \* (ops), the trees it may start with (start), how many commits
                \* people make (commits), and what goes on around (world)
  PullRequests, \* pull request numbers
  MaxCrashes    \* bound on killed commands

\* Nobody is a value of its own: no process, pull request, ref or tree, and a
\* machine elsewhere is none of ours.
ASSUME LifecycleAssumption ==
  /\ None \notin Procs
  /\ None \notin PullRequests
  /\ \A log \in SUBSET Commits : None # log
  /\ None \notin Trees
  /\ "elsewhere" \notin Procs \cup {None}

VARIABLES
  card,     \* the card on the board
  forge,    \* pull request -> "none", "open", "merged" or "closed"
  crashes,  \* commands killed so far
  scene     \* the member of Scenes this behaviour keeps to

lifecycleVars == <<checkoutVars, card, forge, crashes, scene>>

States == {"open", "claimed", "in_progress", "review", "merged", "closed"}

Settled == {"review", "merged", "closed"}

Terminal == {"merged", "closed"}

LifecycleInit ==
  /\ CheckoutInit
  /\ card = [state |-> "open", owner |-> None, pr |-> None, siblings |-> 0, locked |-> TRUE]
  /\ forge = [r \in PullRequests |-> "none"]
  /\ crashes = 0
  /\ scene \in Scenes
  /\ (IF Exists THEN tree.kind ELSE None) \in scene.start

\* A board event of process x, and whether x holds the lifecycle lock.
Publish(x, state, owner, pr) ==
  card' = [card EXCEPT !.state = state, !.owner = owner, !.pr = pr, !.locked = lock = x]

StoreSame == UNCHANGED <<treeVars, forgeVars, mirrorVars>>

\* run_claim and run_state: the lock is held from before the board is read
\* until the command returns.
BeginLocked(x, op) ==
  /\ op \in scene.ops[x]
  /\ TakeLock(x, op)
  /\ UNCHANGED <<card, forge, crashes, scene>>
  /\ StoreSame

(***************************************************************************)
(* airc work claim.                                                        *)
(***************************************************************************)
ClaimGate(x) ==
  /\ pc[x] = "claim"
  /\ IF card.owner = x /\ card.state \notin Terminal
     THEN Goto(x, "spawn") /\ UNCHANGED <<lock, seen>>
     ELSE IF card.state \in Settled THEN Finish(x)
     ELSE Goto(x, "publish_claim") /\ Remember(x, card.owner) /\ UNCHANGED lock
  /\ UNCHANGED <<card, forge, crashes, scene>>
  /\ StoreSame

\* The release of the claim that was read, then the claim: it wins unless
\* somebody else's claim stands meanwhile on a card that is not terminal.
PublishClaim(x) ==
  /\ pc[x] = "publish_claim"
  /\ IF card.owner \in {None, x, seen[x]} \/ card.state \in Terminal
     THEN Publish(x, "claimed", x, card.pr) ELSE UNCHANGED card
  /\ Goto(x, "spawn")
  /\ UNCHANGED <<lock, seen, forge, crashes, scene>>
  /\ StoreSame

\* spawn_claim_worktree: none for a card whose pull request is not known to be
\* settled; the projection learns that from an observer, or not at all.
SpawnClaimWorktree(x) ==
  /\ pc[x] = "spawn"
  /\ \/ card.pr # None /\ UNCHANGED <<tree, branch>>
     \/ /\ card.pr # None => forge[card.pr] \in {"merged", "closed"}
        /\ EnsureWorktree
  /\ Finish(x)
  /\ UNCHANGED <<card, forge, crashes, scene, aside, recovery, forgeVars, mirrorVars>>

(***************************************************************************)
(* airc work state.                                                        *)
(***************************************************************************)
StateOpen(x) ==
  /\ pc[x] = "reopen"
  /\ Publish(x, "open", None, card.pr)
  /\ Finish(x)
  /\ UNCHANGED <<forge, crashes, scene>>
  /\ StoreSame

StateInProgress(x) ==
  /\ pc[x] = "start"
  /\ Publish(x, "in_progress", card.owner, card.pr)
  /\ Finish(x)
  /\ UNCHANGED <<forge, crashes, scene>>
  /\ StoreSame

\* close_transition_allowed_from_card, for a card that is not itself a review.
CloseGate(x) ==
  /\ pc[x] = "close"
  /\ IF card.state \in {"merged", "open", "claimed"}
     THEN Goto(x, "publish_close") /\ UNCHANGED <<lock, seen>> ELSE Finish(x)
  /\ UNCHANGED <<card, forge, crashes, scene>>
  /\ StoreSame

\* The cleanup that follows runs under the lock the command already holds.
PublishClose(x) ==
  /\ pc[x] = "publish_close"
  /\ Publish(x, "closed", card.owner, card.pr)
  /\ IF Exists THEN Goto(x, "reread") /\ UNCHANGED <<lock, seen>> ELSE Finish(x)
  /\ UNCHANGED <<forge, crashes, scene>>
  /\ StoreSame

\* open_pr_and_link up to `gh pr create`: nothing to do for a linked card, an
\* error without a tree whose HEAD is pushed, and the forge refuses a second
\* open pull request of the branch.
OpenPr(x) ==
  /\ pc[x] = "review"
  /\ IF card.pr # None
     THEN Goto(x, "publish_review") /\ UNCHANGED <<lock, seen, forge>>
     ELSE \/ /\ Exists
             /\ remote = tree.log
             /\ \A r \in PullRequests : forge[r] # "open"
             /\ \E r \in PullRequests :
                  /\ forge[r] = "none"
                  /\ forge' = [forge EXCEPT ![r] = "open"]
                  /\ Goto(x, "publish_link") /\ Remember(x, r) /\ UNCHANGED lock
          \/ Finish(x) /\ UNCHANGED forge
  /\ UNCHANGED <<card, crashes, scene>>
  /\ StoreSame

PublishLink(x) ==
  /\ pc[x] \in {"publish_link", "record_link"}
  /\ Publish(x, "review", card.owner, seen[x])
  /\ IF pc[x] = "publish_link" THEN Goto(x, "sibling") /\ UNCHANGED <<lock, seen>> ELSE Finish(x)
  /\ UNCHANGED <<forge, crashes, scene>>
  /\ StoreSame

\* auto_spawn_review_card: any review card of this parent wins.
SpawnReviewCard(x) ==
  /\ pc[x] = "sibling"
  /\ card' = [card EXCEPT !.siblings = IF @ = 0 THEN 1 ELSE @]
  /\ Goto(x, "publish_review")
  /\ UNCHANGED <<lock, seen, forge, crashes, scene>>
  /\ StoreSame

PublishReview(x) ==
  /\ pc[x] = "publish_review"
  /\ Publish(x, "review", card.owner, card.pr)
  /\ Finish(x)
  /\ UNCHANGED <<forge, crashes, scene>>
  /\ StoreSame

\* airc work link: an existing pull request, open or not; no lock.
LinkExistingPr(x) ==
  /\ "link" \in scene.ops[x]
  /\ pc[x] = "idle"
  /\ card.pr = None
  /\ \E r \in PullRequests : forge[r] # "none" /\ Remember(x, r)
  /\ Goto(x, "record_link")
  /\ UNCHANGED <<lock, card, forge, crashes, scene>>
  /\ StoreSame

(***************************************************************************)
(* Merging: `airc work merge` and each tick of the merger.                 *)
(***************************************************************************)
\* Slip: a pull request that is no longer open is not ready.
MergeGateOpenOnly(x) ==
  /\ "merge" \in scene.ops[x]
  /\ pc[x] = "idle"
  /\ card.state = "review"
  /\ card.pr # None
  /\ forge[card.pr] = "open"
  /\ Goto(x, "gh_merge")
  /\ Remember(x, card.pr)
  /\ UNCHANGED <<lock, card, forge, crashes, scene>>
  /\ StoreSame

\* Slip: any pull request that is no longer open counts as merged.
MergeGateNotOpen(x) ==
  /\ "merge" \in scene.ops[x]
  /\ pc[x] = "idle"
  /\ card.state = "review"
  /\ card.pr # None
  /\ Goto(x, IF forge[card.pr] = "open" THEN "gh_merge" ELSE "publish_merged")
  /\ Remember(x, card.pr)
  /\ UNCHANGED <<lock, card, forge, crashes, scene>>
  /\ StoreSame

\* evaluate: a Review card with a pull request.  An open one that passes the
\* gate is merged, one that is merged already is reconciled.
CheckPrGate(x) ==
  /\ "merge" \in scene.ops[x]
  /\ pc[x] = "idle"
  /\ card.state = "review"
  /\ card.pr # None
  /\ \/ forge[card.pr] = "open" /\ Goto(x, "gh_merge")
     \/ forge[card.pr] = "merged" /\ Goto(x, "publish_merged")
  /\ Remember(x, card.pr)
  /\ UNCHANGED <<lock, card, forge, crashes, scene>>
  /\ StoreSame

\* The forge squashes the branch into the integration branch and deletes it.
ForgeMerges(r) ==
  /\ forge' = [forge EXCEPT ![r] = "merged"]
  /\ upstream' = upstream \cup (IF remote = None THEN {} ELSE remote)
  /\ remote' = None
  /\ UNCHANGED <<treeVars, tracking, fetched, mirrorVars>>

GhMerge(x) ==
  /\ pc[x] = "gh_merge"
  /\ IF forge[seen[x]] = "open"
     THEN ForgeMerges(seen[x]) /\ Goto(x, "publish_merged") /\ UNCHANGED <<lock, seen>>
     ELSE Finish(x) /\ UNCHANGED forge /\ StoreSame
  /\ UNCHANGED <<card, crashes, scene>>

\* mark_merged_and_reclaim, then the cleanup without a held lock.
MarkMerged(x) ==
  /\ pc[x] = "publish_merged"
  /\ Publish(x, "merged", card.owner, seen[x])
  /\ Goto(x, "trylock")
  /\ UNCHANGED <<lock, seen, forge, crashes, scene>>
  /\ StoreSame

(***************************************************************************)
(* airc work cleanup --force, and the way into retirement.                 *)
(***************************************************************************)
\* classify_worktree: a settled card and a clean tree.
CleanupScan(x) ==
  /\ "cleanup" \in scene.ops[x]
  /\ pc[x] = "idle"
  /\ card.state \in Terminal
  /\ Exists /\ Clean
  /\ Goto(x, "trylock")
  /\ UNCHANGED <<lock, seen, card, forge, crashes, scene>>
  /\ StoreSame

\* Slip: the snapshot the caller acted on is good enough.
RereadBoardNever(x) ==
  /\ pc[x] = "reread"
  /\ Goto(x, "probe")
  /\ UNCHANGED <<lock, seen, card, forge, crashes, scene>>
  /\ StoreSame

\* retire_under_lifecycle: the board again, now under the lock.
RereadBoard(x) ==
  /\ pc[x] = "reread"
  /\ IF card.state \in Terminal THEN Goto(x, "probe") /\ UNCHANGED <<lock, seen>> ELSE Finish(x)
  /\ UNCHANGED <<card, forge, crashes, scene>>
  /\ StoreSame

(***************************************************************************)
(* The world: the forge's own users, other machines, and kills.            *)
(***************************************************************************)
ForgeUserMerges(r) ==
  /\ forge[r] = "open"
  /\ ForgeMerges(r)
  /\ UNCHANGED <<procVars, card, crashes, scene>>

ForgeUserCloses(r) ==
  /\ forge[r] = "open"
  /\ forge' = [forge EXCEPT ![r] = "closed"]
  /\ UNCHANGED <<procVars, card, crashes, scene>>
  /\ StoreSame

\* A peer on another machine takes the card or reopens it: no lock of ours.
ElsewhereClaims ==
  /\ "elsewhere" \in scene.world
  /\ card.state \notin Settled
  /\ Publish("elsewhere", "claimed", "elsewhere", card.pr)
  /\ UNCHANGED <<procVars, forge, crashes, scene>>
  /\ StoreSame

ElsewhereReopens ==
  /\ "elsewhere" \in scene.world
  /\ Publish("elsewhere", "open", None, card.pr)
  /\ UNCHANGED <<procVars, forge, crashes, scene>>
  /\ StoreSame

\* A killed command: the system drops its file lock.
Kill(x) ==
  /\ pc[x] # "idle"
  /\ crashes < MaxCrashes
  /\ crashes' = crashes + 1
  /\ Finish(x)
  /\ UNCHANGED <<card, forge, scene>>
  /\ StoreSame
(***************************************************************************)
(* The specification.                                                      *)
(***************************************************************************)
Board == <<card, forge, crashes, scene>>

RetireStep(x) ==
  \/ TryLock(x)
  \/ RetireProbe(x)
  \/ RetireRecover(x)
  \/ RetireRecheck(x)
  \/ ReleaseSubmodules(x)
  \/ RemoveWorktree(x)
  \/ RetireBranch(x)

StageStep(x) ==
  \/ StageDecide(x)
  \/ SalvageTorn(x)
  \/ PublishClone(x)
  \/ MoveAside(x)
  \/ PlaceClone(x)

\* A command that runs takes its next step.
CommandStep(x) ==
  \/ RetireStep(x) /\ UNCHANGED Board
  \/ StageStep(x) /\ UNCHANGED Board
  \/ ClaimGate(x)
  \/ PublishClaim(x)
  \/ SpawnClaimWorktree(x)
  \/ StateOpen(x)
  \/ StateInProgress(x)
  \/ CloseGate(x)
  \/ PublishClose(x)
  \/ OpenPr(x)
  \/ PublishLink(x)
  \/ SpawnReviewCard(x)
  \/ PublishReview(x)
  \/ GhMerge(x)
  \/ MarkMerged(x)
  \/ RereadBoard(x)

BeginCommand(x) ==
  \/ \E op \in {"claim", "reopen", "start", "close", "review"} : BeginLocked(x, op)
  \/ "stage" \in scene.ops[x] /\ EnsureCardClone(x) /\ UNCHANGED Board
  \/ LinkExistingPr(x)
  \/ CheckPrGate(x)
  \/ CleanupScan(x)

WorkStep ==
  \/ Edit
  \/ Cardinality(Known) < scene.commits /\ Commit
  \/ Push
  \/ "ignored" \in scene.world /\ Generate
  \/ WorkInSubmodule
  \/ Fetch

MirrorStep ==
  /\ "mirror" \in scene.world
  /\ CloneMirror \/ FetchMirror \/ PublishMirror

LifecycleNext ==
  \/ \E x \in Procs : BeginCommand(x) \/ CommandStep(x) \/ Kill(x)
  \/ WorkStep /\ UNCHANGED Board
  \/ MirrorStep /\ UNCHANGED Board
  \/ \E r \in PullRequests : ForgeUserMerges(r) \/ ForgeUserCloses(r)
  \/ ElsewhereClaims
  \/ ElsewhereReopens

LifecycleSpec == LifecycleInit /\ [][LifecycleNext]_lifecycleVars

\* A running command goes on, and the merger's ticker brings it back to the
\* board.
LifecycleFairness ==
  \A x \in Procs : WF_lifecycleVars(CommandStep(x)) /\ WF_lifecycleVars(CheckPrGate(x))

LifecycleFairSpec == LifecycleSpec /\ LifecycleFairness

(***************************************************************************)
(* Properties.                                                             *)
(***************************************************************************)
\* The commits some ref or tree still reaches as they were made.
Reachable ==
  UNION ((IF Exists THEN {tree.log} ELSE {}) \cup {t.log : t \in aside} \cup recovery
         \cup {r \in {branch, remote} : r # None})

\* No work is ever lost. Every commit stays reachable through a squash merge that
\* deletes the remote branch, the removal of the checkout, the deletion of its
\* branch and the move to a clone, those made while retirement was already
\* running included (the recovery ref and the checks of retire). A tree with work
\* that is not committed, or that lives only in a submodule, stays or is moved
\* aside whole (no --force anywhere).
WorkSurvives ==
  [][/\ Reachable \subseteq Reachable'
     /\ /\ Exists
        /\ tree.dirty \/ tree.sub = "unique"
        => IF tree' = None THEN tree \in aside'
           ELSE tree.sub = "unique" => tree'.sub = "unique"]_lifecycleVars

\* A checkout is retired only while its card is Merged or Closed: no claim or
\* state change made under the lifecycle lock slips between the board re-read
\* and the removal (retire_under_lifecycle).
RetiredIsSettled ==
  [][Exists /\ tree' = None /\ aside' = aside
     => card.state \in Terminal \/ ~card.locked]_lifecycleVars

\* The card says nothing of the forge that is not so: it is Merged only if its
\* pull request is, for every path to Merged goes through a gate that saw the
\* merge or made it, and Review is not advertised before there is a pull request.
CardIsTrue ==
  /\ card.state = "merged" => forge[card.pr] = "merged"
  /\ card.state = "review" => card.pr # None

\* A mirror under its own name holds what the real remote has and none of the
\* local branches it was cloned with, whoever dies while building it.
MirrorWhole == mirror # None => mirror = {"remote"}

\* A pull request merged at the forge, by a user or by a merger that died
\* before it could say so, takes its card out of Review.
MergeReconciled ==
  \A r \in PullRequests :
    (card.state = "review" /\ card.pr = r /\ forge[r] = "merged")
      ~> (card.state # "review" \/ card.pr # r)
=============================================================================
