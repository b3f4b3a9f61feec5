---------------------------- MODULE WorkCheckout ----------------------------
(***************************************************************************)
(* The checkout of one card on one machine: its lifecycle lock             *)
(* (airc-lib/src/work_worktree.rs), its creation as a linked worktree by   *)
(* the CLI or as a card clone by a resident, the move of an old linked     *)
(* tree to a clone, and its retirement once the card is settled            *)
(* (airc-cli/src/worktree_retirement.rs).                                  *)
(*                                                                         *)
(* Every step is one git or filesystem call, so people and agents working  *)
(* inside the tree interleave with all of them: they hold no lock.  A tree *)
(* is what would be lost with it; a commit is a name, and a ref is the set *)
(* of commits it reaches.                                                  *)
(***************************************************************************)
EXTENDS Naturals, FiniteSets

CONSTANTS
  None,     \* the absent value
  Procs,    \* processes that use the checkout
  Commits   \* commits people can make (a bound on them)

VARIABLES
  tree,      \* the checkout at the card's path, or None
  aside,     \* trees moved to .retired
  branch,    \* the card's branch in the source repository, or None
  tracking,  \* its upstream tracking ref, or None
  remote,    \* the branch at the forge, or None
  upstream,  \* commits whose patches the forge's integration branch has
  fetched,   \* those the local copy of that branch has
  recovery,  \* the refs under refs/airc/retired
  mirror,    \* the node's mirror of the repository: None or what it holds
  staging,   \* what a creator of the mirror has built, None if nothing
  lock,      \* holder of the card's lifecycle lock, or None
  pc,        \* where each process is
  seen       \* what it remembers: a HEAD, an owner or a pull request

treeVars == <<tree, aside, branch, recovery>>
forgeVars == <<tracking, remote, upstream, fetched>>
mirrorVars == <<mirror, staging>>
procVars == <<lock, pc, seen>>
checkoutVars == <<treeVars, forgeVars, mirrorVars, procVars>>

Trees ==
  [kind : {"linked", "clone", "torn"}, log : SUBSET Commits, dirty : BOOLEAN,
   ignored : BOOLEAN, sub : {"none", "pristine", "unique"}]

Tree(kind, log) ==
  [kind |-> kind, log |-> log, dirty |-> FALSE, ignored |-> FALSE, sub |-> "none"]

\* A machine may start with nothing, with a linked worktree made before card
\* clones existed, or with the remains of a clone killed half way.
CheckoutInit ==
  /\ tree \in {None, Tree("linked", {}), Tree("torn", {})}
  /\ branch = IF tree = Tree("linked", {}) THEN {} ELSE None
  /\ aside = {} /\ recovery = {}
  /\ tracking = None /\ remote = None /\ upstream = {} /\ fetched = {}
  /\ mirror = None /\ staging = None
  /\ lock = None
  /\ pc = [x \in Procs |-> "idle"]
  /\ seen = [x \in Procs |-> None]

Exists == tree # None

Goto(x, label) == pc' = [pc EXCEPT ![x] = label]

Remember(x, v) == seen' = [seen EXCEPT ![x] = v]

\* The command returns: its lock guard, if it has one, is dropped.
Finish(x) ==
  /\ pc' = [pc EXCEPT ![x] = "idle"]
  /\ seen' = [seen EXCEPT ![x] = None]
  /\ lock' = IF lock = x THEN None ELSE lock

(***************************************************************************)
(* People and agents at work in the tree.                                  *)
(***************************************************************************)
Workable == Exists /\ tree.kind \in {"linked", "clone"}

Edit ==
  /\ Workable
  /\ tree' = [tree EXCEPT !.dirty = TRUE]
  /\ UNCHANGED <<aside, branch, recovery, forgeVars, mirrorVars, procVars>>

\* Every commit anywhere: in refs, in trees, in trees moved aside.
Known ==
  UNION ((IF Exists THEN {tree.log} ELSE {}) \cup {t.log : t \in aside}
         \cup recovery
         \cup {r \in {branch, remote, tracking} : r # None} \cup {upstream})

Commit ==
  /\ Workable
  /\ tree.dirty
  /\ \E c \in Commits \ Known :
       /\ tree' = [tree EXCEPT !.log = @ \cup {c}, !.dirty = FALSE]
       /\ branch' = IF tree.kind = "linked" THEN tree.log \cup {c} ELSE branch
  /\ UNCHANGED <<aside, recovery, forgeVars, mirrorVars, procVars>>

\* git push, with or without -u; never forced.
Push ==
  /\ Workable
  /\ tree.log # {}
  /\ remote # None => remote \subseteq tree.log
  /\ remote' = tree.log
  /\ tracking' \in {tree.log, IF tracking = None THEN None ELSE tree.log}
  /\ UNCHANGED <<treeVars, upstream, fetched, mirrorVars, procVars>>

Generate ==
  /\ Workable
  /\ tree' = [tree EXCEPT !.ignored = TRUE]
  /\ UNCHANGED <<aside, branch, recovery, forgeVars, mirrorVars, procVars>>

WorkInSubmodule ==
  /\ Workable
  /\ tree.sub = "pristine"
  /\ tree' = [tree EXCEPT !.sub = "unique"]
  /\ UNCHANGED <<aside, branch, recovery, forgeVars, mirrorVars, procVars>>

Fetch ==
  /\ fetched # upstream
  /\ fetched' = upstream
  /\ UNCHANGED <<treeVars, tracking, remote, upstream, mirrorVars, procVars>>

(***************************************************************************)
(* The lifecycle lock.                                                     *)
(***************************************************************************)
\* lifecycle_lock: waits for the holder.
TakeLock(x, label) ==
  /\ pc[x] = "idle"
  /\ lock = None
  /\ lock' = x
  /\ Goto(x, label)
  /\ UNCHANGED seen

\* try_lifecycle_lock: a claim or state change in flight retains the tree.
TryLock(x) ==
  /\ pc[x] = "trylock"
  /\ IF Exists /\ lock = None
     THEN lock' = x /\ Goto(x, "reread") /\ UNCHANGED seen
     ELSE Finish(x)
  /\ UNCHANGED <<treeVars, forgeVars, mirrorVars>>

(***************************************************************************)
(* ensure_worktree: `git worktree add -b`, which an existing branch fails. *)
(***************************************************************************)
EnsureWorktree ==
  IF Exists \/ branch # None THEN UNCHANGED <<tree, branch>>
  ELSE /\ \E sub \in {"none", "pristine"} : tree' = [Tree("linked", {}) EXCEPT !.sub = sub]
       /\ branch' = {}

(***************************************************************************)
(* Retirement.                                                             *)
(***************************************************************************)
\* probe_dirty_status_at: nothing uncommitted, and every commit at the
\* upstream or, without one, in the integration branch by patch.
Clean == ~tree.dirty /\ (IF tracking # None THEN tree.log \subseteq tracking
                         ELSE tree.log \subseteq fetched)

RetireProbe(x) ==
  /\ pc[x] = "probe"
  /\ IF Exists /\ tree.kind = "linked" /\ Clean /\ ~tree.ignored
     THEN Goto(x, "recover") /\ UNCHANGED <<lock, seen>>
     ELSE Finish(x)
  /\ UNCHANGED <<treeVars, forgeVars, mirrorVars>>

\* Slip: no recovery ref, the branch was pushed after all.
RetireRecoverNothing(x) ==
  /\ pc[x] = "recover"
  /\ Exists
  /\ Goto(x, "recheck") /\ Remember(x, tree.log)
  /\ UNCHANGED <<lock, treeVars, forgeVars, mirrorVars>>

\* HEAD is read and kept under refs/airc/retired. Nobody removes a tree without the lock.
RetireRecover(x) ==
  /\ pc[x] = "recover"
  /\ Exists
  /\ recovery' = recovery \cup {tree.log}
  /\ Goto(x, "recheck") /\ Remember(x, tree.log)
  /\ UNCHANGED <<lock, tree, aside, branch, forgeVars, mirrorVars>>

RetireRecheck(x) ==
  /\ pc[x] = "recheck"
  /\ IF Exists /\ tree.log = seen[x]
     THEN Goto(x, "submodules") /\ UNCHANGED <<lock, seen>> ELSE Finish(x)
  /\ UNCHANGED <<treeVars, forgeVars, mirrorVars>>

\* release_submodules: every repository under modules/ is examined, and deinit
\* without --force refuses one that changed since.
ReleaseSubmodules(x) ==
  /\ pc[x] = "submodules"
  /\ IF Exists /\ tree.sub # "unique"
     THEN /\ tree' = [tree EXCEPT !.sub = "none"]
          /\ Goto(x, "remove") /\ UNCHANGED <<lock, seen>>
     ELSE Finish(x) /\ UNCHANGED tree
  /\ UNCHANGED <<aside, branch, recovery, forgeVars, mirrorVars>>

\* `git worktree remove` without --force: git refuses a dirty tree, and takes
\* ignored files with it.
RemoveWorktree(x) ==
  /\ pc[x] = "remove"
  /\ IF Exists /\ ~tree.dirty /\ tree.sub = "none"
     THEN tree' = None /\ Goto(x, "branch") /\ UNCHANGED <<lock, seen>>
     ELSE Finish(x) /\ UNCHANGED tree
  /\ UNCHANGED <<aside, branch, recovery, forgeVars, mirrorVars>>

\* retire_branch: still the recovered HEAD, and `git branch -d` finds it merged
\* into its upstream.
RetireBranch(x) ==
  /\ pc[x] = "branch"
  /\ branch' = IF branch = seen[x] /\ branch \subseteq (IF tracking = None THEN {} ELSE tracking)
               THEN None ELSE branch
  /\ Finish(x)
  /\ UNCHANGED <<tree, aside, recovery, forgeVars, mirrorVars>>

(***************************************************************************)
(* The mirror: one creator at a time, published by rename.                 *)
(***************************************************************************)
\* Slip: the clone is published before the prune-fetch.
CloneMirrorInPlace ==
  /\ mirror = None
  /\ mirror' = {"remote", "local"}
  /\ UNCHANGED <<staging, treeVars, forgeVars, procVars>>

\* clone --mirror of the local clone: the source's own branches come along.
CloneMirror ==
  /\ mirror = None
  /\ staging' = {"remote", "local"}
  /\ UNCHANGED <<mirror, treeVars, forgeVars, procVars>>

\* fetch --prune from the real origin, or its failure.
FetchMirror ==
  /\ mirror = None
  /\ staging # None
  /\ staging' \in {{"remote"}, None}
  /\ UNCHANGED <<mirror, treeVars, forgeVars, procVars>>

PublishMirror ==
  /\ mirror = None
  /\ staging = {"remote"}
  /\ mirror' = staging
  /\ staging' = None
  /\ UNCHANGED <<treeVars, forgeVars, procVars>>

(***************************************************************************)
(* ensure_card_clone, under the lifecycle lock.                            *)
(***************************************************************************)
EnsureCardClone(x) ==
  /\ mirror # None
  /\ TakeLock(x, "stage")
  /\ UNCHANGED <<treeVars, forgeVars, mirrorVars>>

\* A torn or absent path is allocated afresh; a clean, pushed linked tree is
\* migrated; everything else is reused as it is.
StageDecide(x) ==
  /\ pc[x] = "stage"
  /\ CASE ~Exists -> Goto(x, "publish") /\ UNCHANGED <<lock, seen>>
       [] Exists /\ tree.kind = "torn" -> Goto(x, "salvage") /\ UNCHANGED <<lock, seen>>
       [] /\ Exists /\ tree.kind = "linked" /\ ~tree.dirty
          /\ tree.log \subseteq (IF remote = None THEN {} ELSE remote) ->
            Goto(x, "aside") /\ Remember(x, tree.log) /\ UNCHANGED lock
       [] OTHER -> Finish(x)
  /\ UNCHANGED <<treeVars, forgeVars, mirrorVars>>

\* Staging::recover moves the torn directory away first, once the clone could be
\* staged.
SalvageTorn(x) ==
  /\ pc[x] = "salvage"
  /\ \/ /\ Exists /\ tree.kind = "torn"
        /\ aside' = aside \cup {tree} /\ tree' = None
        /\ Goto(x, "publish") /\ Remember(x, tree) /\ UNCHANGED lock
     \/ Finish(x) /\ UNCHANGED <<aside, tree>>
  /\ UNCHANGED <<branch, recovery, forgeVars, mirrorVars>>

\* Staging::publish; when it fails, a torn directory moved away goes back.
PublishClone(x) ==
  /\ pc[x] = "publish"
  /\ \/ ~Exists /\ tree' = Tree("clone", {}) /\ UNCHANGED aside
     \/ IF ~Exists /\ seen[x] # None THEN tree' = seen[x] /\ aside' = aside \ {seen[x]}
        ELSE UNCHANGED <<tree, aside>>
  /\ Finish(x)
  /\ UNCHANGED <<branch, recovery, forgeVars, mirrorVars>>

\* migrate_linked_checkout: the clone is prepared, the old tree is moved away
\* whole; a failure to prepare or to move leaves it where it is.
MoveAside(x) ==
  /\ pc[x] = "aside"
  /\ \/ /\ Exists
        /\ aside' = aside \cup {tree}
        /\ tree' = None
        /\ Goto(x, "place")
        /\ UNCHANGED <<lock, seen>>
     \/ Finish(x) /\ UNCHANGED <<tree, aside>>
  /\ UNCHANGED <<branch, recovery, forgeVars, mirrorVars>>

\* The clone takes the path, or the old tree goes back.
PlaceClone(x) ==
  /\ pc[x] = "place"
  /\ ~Exists
  /\ \/ tree' = Tree("clone", seen[x]) /\ UNCHANGED aside
     \/ \E old \in {t \in aside : t.kind = "linked"} : tree' = old /\ aside' = aside \ {old}
  /\ Finish(x)
  /\ UNCHANGED <<branch, recovery, forgeVars, mirrorVars>>
=============================================================================
