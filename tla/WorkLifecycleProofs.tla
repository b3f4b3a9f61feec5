------------------------- MODULE WorkLifecycleProofs ------------------------
(***************************************************************************)
(* What holds of WorkLifecycle for any number of processes, pull requests, *)
(* commits and kills and for any set of scenes: the card tells the truth   *)
(* about the forge, a mirror is whole, a checkout is retired only under a  *)
(* settled card, and no commit is ever lost.                               *)
(*                                                                         *)
(* The inductive invariant says who holds the lifecycle lock at which      *)
(* label, what a process remembers there, and where the linked tree and    *)
(* its branch can be: there is at most one linked tree, at the path or     *)
(* aside, and the branch is its HEAD.                                      *)
(***************************************************************************)
EXTENDS WorkLifecycle, TLAPS

\* The labels reached only with the lifecycle lock held.
LockedLabels ==
  {"claim", "publish_claim", "spawn", "reopen", "start", "close", "publish_close", "review",
   "publish_link", "sibling", "publish_review", "reread", "probe", "recover", "recheck",
   "submodules", "remove", "branch", "stage", "salvage", "publish", "aside", "place"}

Labels == LockedLabels \cup {"idle", "record_link", "gh_merge", "publish_merged", "trylock"}

Refs == {None} \cup SUBSET Commits

Owners == Procs \cup {None, "elsewhere"}

CardType ==
  card \in [state : States, owner : Owners, pr : PullRequests \cup {None}, siblings : Nat,
            locked : BOOLEAN]

\* What a process remembers is told by its label; elsewhere it is not used.
Memories == Owners \cup PullRequests \cup (SUBSET Commits) \cup Trees

TypesHold ==
  /\ tree \in Trees \cup {None}
  /\ aside \in SUBSET Trees
  /\ branch \in Refs
  /\ remote \in Refs
  /\ recovery \in SUBSET SUBSET Commits
  /\ lock \in Procs \cup {None}
  /\ pc \in [Procs -> Labels]
  /\ seen \in [Procs -> Memories]
  /\ CardType
  /\ forge \in [PullRequests -> {"none", "open", "merged", "closed"}]

\* The lock a label implies is held.
LockHeld == \A x \in Procs : pc[x] \in LockedLabels => lock = x

TornTree == Tree("torn", {})

Remembered ==
  \A x \in Procs :
    /\ pc[x] \in {"idle", "stage", "salvage"} => seen[x] = None
    /\ pc[x] = "publish" => seen[x] \in {None, TornTree}
    /\ pc[x] \in {"publish_link", "record_link", "gh_merge", "publish_merged"}
         => seen[x] \in PullRequests
    /\ pc[x] \in {"recheck", "submodules", "remove", "branch"} => seen[x] \in recovery
    /\ pc[x] \in {"aside", "place"} => seen[x] \in SUBSET Commits

LinkedHere == tree # None /\ tree.kind = "linked"

NoneLinkedAside == \A t \in aside : t.kind # "linked"

\* At most one linked tree, and its HEAD is the branch; at most one torn tree,
\* which nobody can have worked in.
OneLinked ==
  /\ LinkedHere => branch = tree.log /\ NoneLinkedAside
  /\ \A t \in aside : t.kind = "linked" => branch = t.log
  /\ \A t, u \in aside : t.kind = "linked" /\ u.kind = "linked" => t = u
  /\ tree # None /\ tree.kind = "torn" => tree = TornTree /\ tree \notin aside
  /\ \A t \in aside : t.kind = "torn" => t = TornTree
  /\ \A x \in Procs :
       /\ pc[x] \in {"recover", "recheck", "submodules", "remove", "aside"} => LinkedHere
       /\ pc[x] = "branch" => tree = None /\ NoneLinkedAside

\* A card that a retirement has read as settled stays so, but for what is
\* published without the lock.
ReadAsSettled ==
  \A x \in Procs :
    pc[x] \in {"probe", "recover", "recheck", "submodules", "remove"}
      => card.state \in Terminal \/ ~card.locked

GateSawIt ==
  /\ card.state = "merged" => card.pr # None
  /\ \A x \in Procs :
       /\ pc[x] \in {"sibling", "publish_review"} => card.pr # None
       /\ pc[x] = "publish_merged" => forge[seen[x]] = "merged"

\* What this machine still reaches of a commit.
Kept(c) ==
  \/ tree # None /\ c \in tree.log
  \/ \E t \in aside : c \in t.log
  \/ \E r \in recovery : c \in r
  \/ branch # None /\ c \in branch

\* What was pushed from here is still here.
PushedIsKept == remote # None => \A c \in remote : Kept(c)

LifecycleInv ==
  /\ TypesHold
  /\ LockHeld
  /\ Remembered
  /\ OneLinked
  /\ ReadAsSettled
  /\ GateSawIt
  /\ CardIsTrue
  /\ MirrorWhole
  /\ PushedIsKept

(***************************************************************************)
(* What a board event and an edit leave of the records they touch.         *)
(***************************************************************************)
LEMMA PublishSets ==
  ASSUME CardType, NEW x, NEW state \in States, NEW owner \in Owners,
         NEW pr \in PullRequests \cup {None}, Publish(x, state, owner, pr)
  PROVE  /\ CardType'
         /\ card'.state = state
         /\ card'.pr = pr
         /\ card'.locked => lock = x
BY Zenon DEF CardType, Publish

\* What an edit, a commit or a new checkout leaves is a checkout again.
LEMMA TreeStays ==
  ASSUME NEW t \in Trees, NEW log \in SUBSET Commits, NEW sub \in {"none", "pristine", "unique"}
  PROVE  /\ [t EXCEPT !.dirty = TRUE] \in Trees
         /\ [t EXCEPT !.ignored = TRUE] \in Trees
         /\ [t EXCEPT !.sub = sub] \in Trees
         /\ [t EXCEPT !.log = log, !.dirty = FALSE] \in Trees
         /\ \A kind \in {"linked", "clone", "torn"} : Tree(kind, log) \in Trees
BY Zenon DEF Trees, Tree

\* An edit leaves a checkout with its kind and its HEAD.
LEMMA EditStays ==
  ASSUME NEW t \in Trees,
         NEW u \in {[t EXCEPT !.dirty = TRUE], [t EXCEPT !.ignored = TRUE], [t EXCEPT !.sub = "unique"]}
  PROVE  u \in Trees /\ u.kind = t.kind /\ u.log = t.log
<1>1. u \in Trees
  BY Zenon DEF Trees
<1>2. u.kind = t.kind /\ u.log = t.log
  BY Zenon DEF Trees
<1> QED
  BY Zenon, <1>1, <1>2

\* A commit leaves a checkout of its kind, with the new HEAD.
LEMMA CommitStays ==
  ASSUME NEW t \in Trees, NEW c \in Commits,
         NEW u \in {[t EXCEPT !.log = @ \cup {c}, !.dirty = FALSE]}
  PROVE  u \in Trees /\ u.kind = t.kind /\ u.log = t.log \cup {c}
<1>1. t.log \cup {c} \in SUBSET Commits
  BY Zenon DEF Trees
<1>2. u \in Trees
  BY Zenon, <1>1 DEF Trees
<1>3. u.kind = t.kind /\ u.log = t.log \cup {c}
  BY Zenon DEF Trees
<1> QED
  BY Zenon, <1>2, <1>3

\* ensure_worktree leaves an existing checkout or branch alone, or makes a
\* linked worktree on a new branch.
LEMMA EnsureMakes ==
  ASSUME EnsureWorktree
  PROVE  \/ UNCHANGED <<tree, branch>>
         \/ /\ tree = None /\ branch = None
            /\ tree' \in Trees /\ tree'.kind = "linked" /\ tree'.log = {}
            /\ branch' = {}
<1>1. \A sub \in {"none", "pristine"} :
        LET t == [Tree("linked", {}) EXCEPT !.sub = sub]
        IN  t \in Trees /\ t.kind = "linked" /\ t.log = {}
  BY Zenon DEF Tree, Trees
<1>2. CASE Exists \/ branch # None
  BY Zenon, <1>2 DEF EnsureWorktree
<1>3. CASE ~(Exists \/ branch # None)
  <2>1. PICK sub \in {"none", "pristine"} : tree' = [Tree("linked", {}) EXCEPT !.sub = sub]
    BY Zenon, <1>3 DEF EnsureWorktree
  <2> QED
    BY Zenon, <1>1, <1>3, <2>1 DEF EnsureWorktree, Exists
<1> QED
  BY Zenon, <1>2, <1>3

\* The initial states, whatever the machine starts with.
LEMMA InitHolds ==
  ASSUME LifecycleInit
  PROVE  LifecycleInv
<1> USE LifecycleAssumption DEF LifecycleInit, CheckoutInit, LifecycleInv
<1>1. Tree("linked", {}) \in Trees /\ Tree("torn", {}) \in Trees
  BY Zenon DEF Tree, Trees
<1>2. TypesHold
  BY Zenon, <1>1 DEF TypesHold, Refs, Labels, Memories, Owners, CardType, States
<1>3. LockHeld /\ Remembered /\ ReadAsSettled /\ GateSawIt
  BY Zenon DEF LockHeld, LockedLabels, Remembered, ReadAsSettled, GateSawIt
<1>4. OneLinked
  BY SMTT(20) DEF OneLinked, LinkedHere, NoneLinkedAside, TornTree, Tree
<1>5. CardIsTrue /\ MirrorWhole /\ PushedIsKept
  BY Zenon DEF CardIsTrue, MirrorWhole, PushedIsKept
<1> QED
  BY Zenon, <1>2, <1>3, <1>4, <1>5

(***************************************************************************)
(* Retirement.  The lock keeps everybody else from removing or replacing   *)
(* the tree between the probe and the removal; the commits people make     *)
(* meanwhile are on the branch, which is deleted only if it is still the   *)
(* HEAD the recovery ref keeps.                                            *)
(***************************************************************************)
LEMMA RetireKeeps ==
  ASSUME LifecycleInv, NEW x \in Procs, RetireStep(x), UNCHANGED Board
  PROVE  LifecycleInv'
<1> USE LifecycleAssumption
    DEF LifecycleInv, TypesHold, CardType, LockHeld, LockedLabels, Labels, Board, Exists, Finish, Goto,
        treeVars, forgeVars, mirrorVars
<1>1. CASE TryLock(x)
  BY <1>1 DEF TryLock, Memories, Owners, Remembered, OneLinked, LinkedHere, NoneLinkedAside,
              ReadAsSettled, GateSawIt, CardIsTrue, MirrorWhole, PushedIsKept, Kept
<1>2. CASE RetireProbe(x)
  BY <1>2 DEF RetireProbe, Memories, Owners, Remembered, OneLinked, LinkedHere, NoneLinkedAside,
              ReadAsSettled, GateSawIt, CardIsTrue, MirrorWhole, PushedIsKept, Kept
<1>3. CASE RetireRecover(x)
  <2> USE <1>3 DEF RetireRecover, Remember
  <2>1. tree.log \in SUBSET Commits
    BY Zenon DEF Trees
  <2>2. TypesHold' /\ LockHeld' /\ MirrorWhole' /\ CardIsTrue'
    BY <2>1 DEF Memories, CardIsTrue, MirrorWhole
  <2>3. Remembered' /\ ReadAsSettled' /\ GateSawIt'
    BY <2>1 DEF Remembered, ReadAsSettled, GateSawIt
  <2>4. OneLinked' /\ PushedIsKept'
    BY DEF OneLinked, LinkedHere, NoneLinkedAside, PushedIsKept, Kept
  <2> QED
    BY Zenon, <2>2, <2>3, <2>4
<1>4. CASE RetireRecheck(x)
  BY <1>4 DEF RetireRecheck, Memories, Owners, Remembered, OneLinked, LinkedHere, NoneLinkedAside,
              ReadAsSettled, GateSawIt, CardIsTrue, MirrorWhole, PushedIsKept, Kept
<1>5. CASE ReleaseSubmodules(x)
  <2> USE <1>5 DEF ReleaseSubmodules
  <2> tree # None => [tree EXCEPT !.sub = "none"] \in Trees
    BY Zenon, TreeStays
  <2>1. /\ tree' \in Trees \cup {None}
        /\ tree' = None <=> tree = None
        /\ tree # None => tree'.kind = tree.kind /\ tree'.log = tree.log
    BY DEF Trees
  <2>2. tree # None /\ tree.kind # "linked" => tree' = tree
    BY Zenon DEF OneLinked, LinkedHere
  <2>3. TypesHold' /\ LockHeld' /\ MirrorWhole' /\ CardIsTrue'
    BY <2>1 DEF Memories, Owners, CardIsTrue, MirrorWhole
  <2>4. Remembered' /\ ReadAsSettled' /\ GateSawIt'
    BY DEF Remembered, ReadAsSettled, GateSawIt
  <2>5. OneLinked' /\ PushedIsKept'
    BY <2>1, <2>2 DEF OneLinked, LinkedHere, NoneLinkedAside, PushedIsKept, Kept
  <2> QED
    BY Zenon, <2>3, <2>4, <2>5
<1>6. CASE RemoveWorktree(x)
  <2> USE <1>6 DEF RemoveWorktree
  <2>1. TypesHold' /\ LockHeld' /\ MirrorWhole' /\ CardIsTrue'
    BY DEF Memories, Owners, CardIsTrue, MirrorWhole
  <2>2. Remembered' /\ ReadAsSettled' /\ GateSawIt'
    BY DEF Remembered, ReadAsSettled, GateSawIt
  <2>3. OneLinked'
    BY DEF OneLinked, LinkedHere, NoneLinkedAside
  <2>4. LinkedHere /\ branch = tree.log
    BY Zenon DEF OneLinked
  <2>5. PushedIsKept'
    BY Zenon, <2>4 DEF PushedIsKept, Kept, Refs, LinkedHere, Trees
  <2> QED
    BY Zenon, <2>1, <2>2, <2>3, <2>5
<1>7. CASE RetireBranch(x)
  <2> USE <1>7 DEF RetireBranch
  <2>1. TypesHold' /\ LockHeld' /\ MirrorWhole' /\ CardIsTrue'
    BY DEF Refs, Memories, Owners, CardIsTrue, MirrorWhole
  <2>2. Remembered' /\ ReadAsSettled' /\ GateSawIt'
    BY DEF Remembered, ReadAsSettled, GateSawIt
  <2>3. OneLinked'
    BY DEF OneLinked, LinkedHere, NoneLinkedAside
  <2>4. seen[x] \in recovery
    BY Zenon DEF Remembered
  <2>5. PushedIsKept'
    BY <2>4 DEF PushedIsKept, Kept
  <2> QED
    BY Zenon, <2>1, <2>2, <2>3, <2>5
<1> HIDE DEF LifecycleInv
<1> QED
  BY Zenon, <1>1, <1>2, <1>3, <1>4, <1>5, <1>6, <1>7 DEF RetireStep

(***************************************************************************)
(* Staging a card clone.  A torn tree is a value of its own; the linked    *)
(* tree moved aside keeps its branch, and is the only one to go back.      *)
(***************************************************************************)
LEMMA StageKeeps ==
  ASSUME LifecycleInv, NEW x \in Procs, StageStep(x), UNCHANGED Board
  PROVE  LifecycleInv'
<1> USE LifecycleAssumption
    DEF LifecycleInv, TypesHold, CardType, LockHeld, LockedLabels, Labels, Board, Exists, Finish, Goto,
        treeVars, forgeVars, mirrorVars
<1>1. CASE StageDecide(x)
  <2> USE <1>1 DEF StageDecide, Remember
  <2>1. tree # None => tree.log \in SUBSET Commits
    BY Zenon DEF Trees
  <2>2. TypesHold' /\ LockHeld' /\ MirrorWhole' /\ CardIsTrue'
    BY <2>1 DEF Memories, Owners, CardIsTrue, MirrorWhole
  <2>3. Remembered' /\ ReadAsSettled' /\ GateSawIt'
    BY <2>1 DEF Remembered, ReadAsSettled, GateSawIt
  <2>4. OneLinked' /\ PushedIsKept'
    BY DEF OneLinked, LinkedHere, NoneLinkedAside, PushedIsKept, Kept
  <2> QED
    BY Zenon, <2>2, <2>3, <2>4
<1>2. CASE SalvageTorn(x)
  <2> USE <1>2 DEF SalvageTorn, Remember
  <2>1. TypesHold' /\ LockHeld' /\ MirrorWhole' /\ CardIsTrue'
    BY DEF Memories, Owners, CardIsTrue, MirrorWhole
  <2>2. Remembered' /\ ReadAsSettled' /\ GateSawIt'
    BY DEF Remembered, ReadAsSettled, GateSawIt, OneLinked
  <2>3. OneLinked'
    BY DEF OneLinked, LinkedHere, NoneLinkedAside
  <2>4. PushedIsKept'
    BY DEF PushedIsKept, Kept
  <2> QED
    BY Zenon, <2>1, <2>2, <2>3, <2>4
<1>3. CASE PublishClone(x)
  <2> USE <1>3 DEF PublishClone
  <2>1. /\ Tree("clone", {}) \in Trees /\ Tree("clone", {}).kind = "clone"
        /\ TornTree \in Trees /\ TornTree.kind = "torn" /\ TornTree.log = {}
    BY Zenon DEF Tree, Trees, TornTree
  <2>2. seen[x] \in {None, TornTree}
    BY Zenon DEF Remembered
  <2>3. \/ tree' = tree /\ aside' = aside
        \/ tree = None /\ tree' = Tree("clone", {}) /\ aside' = aside
        \/ tree = None /\ tree' = TornTree /\ aside' = aside \ {TornTree}
    BY Zenon, <2>2
  <2>4. TypesHold' /\ LockHeld' /\ MirrorWhole' /\ CardIsTrue'
    BY <2>1, <2>3 DEF Memories, Owners, CardIsTrue, MirrorWhole
  <2>5. Remembered' /\ ReadAsSettled' /\ GateSawIt'
    BY DEF Remembered, ReadAsSettled, GateSawIt
  <2>6. OneLinked'
    BY <2>1, <2>3 DEF OneLinked, LinkedHere, NoneLinkedAside
  <2>7. PushedIsKept'
    BY <2>1, <2>3 DEF PushedIsKept, Kept
  <2> QED
    BY Zenon, <2>4, <2>5, <2>6, <2>7
<1>4. CASE MoveAside(x)
  <2> USE <1>4 DEF MoveAside
  <2>1. TypesHold' /\ LockHeld' /\ MirrorWhole' /\ CardIsTrue'
    BY DEF Memories, Owners, CardIsTrue, MirrorWhole
  <2>2. Remembered' /\ ReadAsSettled' /\ GateSawIt'
    BY DEF Remembered, ReadAsSettled, GateSawIt
  <2>3. OneLinked'
    BY DEF OneLinked, LinkedHere, NoneLinkedAside
  <2>4. PushedIsKept'
    BY DEF PushedIsKept, Kept
  <2> QED
    BY Zenon, <2>1, <2>2, <2>3, <2>4
<1>5. CASE PlaceClone(x)
  <2> USE <1>5 DEF PlaceClone
  <2>1. seen[x] \in SUBSET Commits
    BY Zenon DEF Remembered
  <2>2. Tree("clone", seen[x]) \in Trees /\ Tree("clone", seen[x]).kind = "clone"
    BY Zenon, <2>1 DEF Tree, Trees
  <2>3. TypesHold' /\ LockHeld' /\ MirrorWhole' /\ CardIsTrue'
    BY <2>2 DEF Memories, Owners, CardIsTrue, MirrorWhole
  <2>4. Remembered' /\ ReadAsSettled' /\ GateSawIt'
    BY DEF Remembered, ReadAsSettled, GateSawIt
  <2>5. OneLinked'
    BY <2>2 DEF OneLinked, LinkedHere, NoneLinkedAside
  <2>6. PushedIsKept'
    BY DEF PushedIsKept, Kept
  <2> QED
    BY Zenon, <2>3, <2>4, <2>5, <2>6
<1> HIDE DEF LifecycleInv
<1> QED
  BY Zenon, <1>1, <1>2, <1>3, <1>4, <1>5 DEF StageStep

(***************************************************************************)
(* The steps that publish.  With the lock held by a retirement, whatever   *)
(* another process publishes is published without it.                      *)
(***************************************************************************)
Publishes(x) ==
  \/ PublishClaim(x)
  \/ StateOpen(x)
  \/ StateInProgress(x)
  \/ PublishClose(x)
  \/ PublishLink(x)
  \/ PublishReview(x)
  \/ MarkMerged(x)

\* What they have in common: the checkout and the forge stay, the card says
\* Merged of a merged pull request and Review of some pull request, and x goes
\* to a label that asks nothing new of the checkout.
LEMMA PublishesFrame ==
  ASSUME LifecycleInv, NEW x \in Procs, Publishes(x)
  PROVE  /\ StoreSame /\ UNCHANGED forge
         /\ CardType' /\ CardIsTrue'
         /\ card' = card \/ (card'.locked => lock = x)
         /\ card.pr # None => card'.pr # None
         /\ card'.state = "merged" => card'.pr # None
         /\ \/ Finish(x)
            \/ /\ UNCHANGED <<lock, seen>>
               /\ \/ pc[x] = "publish_claim" /\ Goto(x, "spawn")
                  \/ pc[x] = "publish_close" /\ Goto(x, "reread")
                  \/ pc[x] = "publish_link" /\ Goto(x, "sibling") /\ card'.pr # None
                  \/ pc[x] = "publish_merged" /\ Goto(x, "trylock")
         /\ pc[x] \in LockedLabels \cup {"record_link", "publish_merged"}
         /\ pc[x] \notin {"probe", "recover", "recheck", "submodules", "remove"}
<1> USE LifecycleAssumption DEF LifecycleInv, TypesHold
<1>0. /\ card.pr \in PullRequests \cup {None} /\ card.owner \in Owners
      /\ x \in Owners /\ None \in Owners
      /\ {"claimed", "open", "in_progress", "closed", "review", "merged"} \subseteq States
  BY Zenon DEF CardType, Owners, States
<1>1. CASE PublishClaim(x)
  <2>1. card' = card \/ Publish(x, "claimed", x, card.pr)
    BY Zenon, <1>1 DEF PublishClaim
  <2>2. CASE card' = card
    BY Zenon, <1>1, <2>2 DEF PublishClaim, StoreSame, CardType, GateSawIt, CardIsTrue, LockedLabels
  <2>3. CASE Publish(x, "claimed", x, card.pr)
    <3>1. CardType' /\ card'.state = "claimed" /\ card'.pr = card.pr /\ (card'.locked => lock = x)
      BY <1>0, <2>3, PublishSets
    <3> QED
      BY Zenon, <1>1, <3>1 DEF PublishClaim, CardIsTrue, LockedLabels
  <2> QED
    BY Zenon, <2>1, <2>2, <2>3
<1>2. CASE StateOpen(x)
  <2>1. CardType' /\ card'.state = "open" /\ card'.pr = card.pr /\ (card'.locked => lock = x)
    BY <1>0, <1>2, PublishSets DEF StateOpen
  <2> QED
    BY Zenon, <1>2, <2>1 DEF StateOpen, CardIsTrue, LockedLabels
<1>3. CASE StateInProgress(x)
  <2>1. CardType' /\ card'.state = "in_progress" /\ card'.pr = card.pr /\ (card'.locked => lock = x)
    BY <1>0, <1>3, PublishSets DEF StateInProgress
  <2> QED
    BY Zenon, <1>3, <2>1 DEF StateInProgress, CardIsTrue, LockedLabels
<1>4. CASE PublishClose(x)
  <2>1. CardType' /\ card'.state = "closed" /\ card'.pr = card.pr /\ (card'.locked => lock = x)
    BY <1>0, <1>4, PublishSets DEF PublishClose
  <2> QED
    BY Zenon, <1>4, <2>1 DEF PublishClose, CardIsTrue, LockedLabels
<1>5. CASE PublishLink(x)
  <2>1. seen[x] \in PullRequests
    BY Zenon, <1>5 DEF PublishLink, Remembered
  <2>2. CardType' /\ card'.state = "review" /\ card'.pr = seen[x] /\ (card'.locked => lock = x)
    BY <1>0, <1>5, <2>1, PublishSets DEF PublishLink
  <2> QED
    BY Zenon, <1>5, <2>1, <2>2 DEF PublishLink, CardIsTrue, LockedLabels
<1>6. CASE PublishReview(x)
  <2>1. CardType' /\ card'.state = "review" /\ card'.pr = card.pr /\ (card'.locked => lock = x)
    BY <1>0, <1>6, PublishSets DEF PublishReview
  <2> QED
    BY Zenon, <1>6, <2>1 DEF PublishReview, GateSawIt, CardIsTrue, LockedLabels
<1>7. CASE MarkMerged(x)
  <2>1. seen[x] \in PullRequests /\ forge[seen[x]] = "merged"
    BY Zenon, <1>7 DEF MarkMerged, Remembered, GateSawIt
  <2>2. CardType' /\ card'.state = "merged" /\ card'.pr = seen[x] /\ (card'.locked => lock = x)
    BY <1>0, <1>7, <2>1, PublishSets DEF MarkMerged
  <2> QED
    BY Zenon, <1>7, <2>1, <2>2 DEF MarkMerged, CardIsTrue, LockedLabels
<1> HIDE DEF LifecycleInv
<1> QED
  BY Zenon, <1>1, <1>2, <1>3, <1>4, <1>5, <1>6, <1>7 DEF Publishes

\* The step that publishes a card event and mirrors it keeps LifecycleInv.
LEMMA PublishesKeeps ==
  ASSUME LifecycleInv, NEW x \in Procs, Publishes(x)
  PROVE  LifecycleInv'
<1> USE LifecycleAssumption, PublishesFrame
    DEF LifecycleInv, TypesHold, LockHeld, LockedLabels, Labels, Finish, Goto, StoreSame,
        treeVars, forgeVars, mirrorVars
<1>1. TypesHold' /\ LockHeld' /\ MirrorWhole' /\ CardIsTrue'
  BY DEF Memories, Owners, MirrorWhole
<1>2. Remembered' /\ GateSawIt'
  BY DEF Remembered, GateSawIt
<1>3. ReadAsSettled'
  BY DEF ReadAsSettled
<1>4. OneLinked' /\ PushedIsKept'
  BY DEF OneLinked, LinkedHere, NoneLinkedAside, PushedIsKept, Kept
<1> QED
  BY Zenon, <1>1, <1>2, <1>3, <1>4

(***************************************************************************)
(* The other steps of a command, and its beginning.                        *)
(***************************************************************************)
LEMMA CommandKeeps ==
  ASSUME LifecycleInv, NEW x \in Procs, CommandStep(x)
  PROVE  LifecycleInv'
<1> USE LifecycleAssumption
    DEF LifecycleInv, TypesHold, LockHeld, LockedLabels, Labels, Exists, Finish, Goto, StoreSame,
        treeVars, forgeVars, mirrorVars
<1>1. CASE ClaimGate(x)
  <2> USE <1>1 DEF ClaimGate, Remember
  <2>1. card.owner \in Memories /\ None \in Memories
    BY Zenon DEF CardType, Memories, Owners
  <2>2. TypesHold' /\ LockHeld' /\ MirrorWhole' /\ CardIsTrue'
    BY <2>1 DEF CardType, CardIsTrue, MirrorWhole
  <2>3. Remembered' /\ ReadAsSettled' /\ GateSawIt'
    BY DEF Remembered, ReadAsSettled, GateSawIt
  <2>4. OneLinked' /\ PushedIsKept'
    BY DEF OneLinked, LinkedHere, NoneLinkedAside, PushedIsKept, Kept
  <2> QED
    BY Zenon, <2>2, <2>3, <2>4
<1>2. CASE SpawnClaimWorktree(x)
  <2> USE <1>2 DEF SpawnClaimWorktree
  <2>1. \/ UNCHANGED <<tree, branch>>
        \/ /\ tree = None /\ branch = None
           /\ tree' \in Trees /\ tree'.kind = "linked" /\ tree'.log = {}
           /\ branch' = {}
    BY Zenon, EnsureMakes
  <2>2. TypesHold' /\ LockHeld' /\ MirrorWhole' /\ CardIsTrue'
    BY <2>1 DEF CardType, Refs, Memories, Owners, CardIsTrue, MirrorWhole
  <2>3. Remembered' /\ ReadAsSettled' /\ GateSawIt'
    BY DEF Remembered, ReadAsSettled, GateSawIt
  <2>4. NoneLinkedAside \/ branch # None
    BY DEF OneLinked, NoneLinkedAside, Trees
  <2>5. OneLinked'
    <3>1. CASE UNCHANGED <<tree, branch>>
      BY <3>1 DEF OneLinked, LinkedHere, NoneLinkedAside
    <3>2. CASE /\ tree = None /\ branch = None
               /\ tree' \in Trees /\ tree'.kind = "linked" /\ tree'.log = {}
               /\ branch' = {}
      BY <2>4, <3>2 DEF OneLinked, LinkedHere, NoneLinkedAside
    <3> QED
      BY Zenon, <2>1, <3>1, <3>2
  <2>6. PushedIsKept'
    BY <2>1 DEF PushedIsKept, Kept
  <2> QED
    BY Zenon, <2>2, <2>3, <2>5, <2>6
<1>3. CASE CloseGate(x)
  BY <1>3 DEF CloseGate, CardType, Memories, Owners, Remembered, OneLinked, LinkedHere,
              NoneLinkedAside, ReadAsSettled, GateSawIt, CardIsTrue, MirrorWhole, PushedIsKept, Kept
<1>4. CASE OpenPr(x)
  <2> USE <1>4 DEF OpenPr, Remember
  <2>1. \A r \in PullRequests : forge[r] = "merged" => forge'[r] = "merged"
    OBVIOUS
  <2>2. TypesHold' /\ LockHeld' /\ MirrorWhole'
    BY DEF CardType, Memories, Owners, MirrorWhole
  <2>3. CardIsTrue' /\ GateSawIt'
    <3>1. CardIsTrue'
      <4>1. card.state = "merged" => card.pr \in PullRequests
        BY Zenon DEF GateSawIt, CardType
      <4> QED
        BY Zenon, <2>1, <4>1 DEF CardIsTrue
    <3>2. GateSawIt'
      BY <2>1 DEF GateSawIt, Remembered
    <3> QED
      BY Zenon, <3>1, <3>2
  <2>4. Remembered' /\ ReadAsSettled'
    BY DEF Remembered, ReadAsSettled
  <2>5. OneLinked' /\ PushedIsKept'
    BY DEF OneLinked, LinkedHere, NoneLinkedAside, PushedIsKept, Kept
  <2> QED
    BY Zenon, <2>2, <2>3, <2>4, <2>5
<1>5. CASE SpawnReviewCard(x)
  <2> USE <1>5 DEF SpawnReviewCard
  <2>1. CardType' /\ card'.state = card.state /\ card'.pr = card.pr /\ card'.locked = card.locked
    BY Zenon DEF CardType
  <2>2. TypesHold' /\ LockHeld' /\ MirrorWhole' /\ CardIsTrue'
    BY <2>1 DEF Memories, Owners, CardIsTrue, MirrorWhole
  <2>3. Remembered' /\ ReadAsSettled' /\ GateSawIt'
    BY <2>1 DEF Remembered, ReadAsSettled, GateSawIt
  <2>4. OneLinked' /\ PushedIsKept'
    BY DEF OneLinked, LinkedHere, NoneLinkedAside, PushedIsKept, Kept
  <2> QED
    BY Zenon, <2>2, <2>3, <2>4
<1>6. CASE GhMerge(x)
  <2> USE <1>6 DEF GhMerge, ForgeMerges
  <2>1. seen[x] \in PullRequests
    BY Zenon DEF Remembered
  <2>2. /\ \A r \in PullRequests : forge[r] = "merged" => forge'[r] = "merged"
        /\ \/ Finish(x)
           \/ Goto(x, "publish_merged") /\ UNCHANGED <<lock, seen>> /\ forge'[seen[x]] = "merged"
        /\ UNCHANGED <<treeVars, mirrorVars>>
        /\ remote' = remote \/ remote' = None
        /\ forge' \in [PullRequests -> {"none", "open", "merged", "closed"}]
    BY <2>1
  <2>3. TypesHold' /\ LockHeld' /\ MirrorWhole'
    BY <2>2 DEF CardType, Refs, Memories, Owners, MirrorWhole
  <2>4. CardIsTrue'
    <3>1. card.state = "merged" => card.pr \in PullRequests
      BY Zenon DEF GateSawIt, CardType
    <3> QED
      BY Zenon, <2>2, <3>1 DEF CardIsTrue
  <2>5. Remembered' /\ ReadAsSettled' /\ GateSawIt'
    BY <2>1, <2>2 DEF Remembered, ReadAsSettled, GateSawIt
  <2>6. OneLinked' /\ PushedIsKept'
    BY <2>2 DEF OneLinked, LinkedHere, NoneLinkedAside, PushedIsKept, Kept
  <2> QED
    BY Zenon, <2>3, <2>4, <2>5, <2>6
<1>7. CASE RereadBoard(x)
  BY <1>7 DEF RereadBoard, CardType, Memories, Owners, Remembered, OneLinked, LinkedHere,
              NoneLinkedAside, ReadAsSettled, GateSawIt, CardIsTrue, MirrorWhole, PushedIsKept, Kept
<1> QED
  BY Zenon, <1>1, <1>2, <1>3, <1>4, <1>5, <1>6, <1>7, RetireKeeps, StageKeeps, PublishesKeeps
     DEF CommandStep, Publishes

\* A command's start, and a command killed anywhere, keep LifecycleInv.
LEMMA BeginKeeps ==
  ASSUME LifecycleInv, NEW x \in Procs, BeginCommand(x) \/ Kill(x)
  PROVE  LifecycleInv'
<1> USE LifecycleAssumption
    DEF LifecycleInv, TypesHold, CardType, LockHeld, LockedLabels, Labels, Exists, Goto, StoreSame, Remember,
        treeVars, forgeVars, mirrorVars, MirrorWhole, CardIsTrue
<1>1. ASSUME NEW op \in {"claim", "reopen", "start", "close", "review"}, BeginLocked(x, op)
      PROVE  LifecycleInv'
  BY <1>1 DEF BeginLocked, TakeLock, Remembered, OneLinked, LinkedHere, NoneLinkedAside,
              ReadAsSettled, GateSawIt, PushedIsKept, Kept
<1>2. CASE EnsureCardClone(x) /\ UNCHANGED Board
  BY <1>2 DEF EnsureCardClone, TakeLock, Board, Remembered, OneLinked, LinkedHere, NoneLinkedAside,
              ReadAsSettled, GateSawIt, PushedIsKept, Kept
<1>3. CASE LinkExistingPr(x)
  BY <1>3 DEF LinkExistingPr, Memories, Remembered, OneLinked, LinkedHere, NoneLinkedAside,
              ReadAsSettled, GateSawIt, PushedIsKept, Kept
<1>4. CASE CheckPrGate(x)
  BY <1>4 DEF CheckPrGate, Memories, Remembered, OneLinked, LinkedHere, NoneLinkedAside,
              ReadAsSettled, GateSawIt, PushedIsKept, Kept
<1>5. CASE CleanupScan(x)
  BY <1>5 DEF CleanupScan, Remembered, OneLinked, LinkedHere, NoneLinkedAside,
              ReadAsSettled, GateSawIt, PushedIsKept, Kept
<1>6. CASE Kill(x)
  BY <1>6 DEF Kill, Finish, Memories, Owners, Remembered, OneLinked, LinkedHere, NoneLinkedAside,
              ReadAsSettled, GateSawIt, PushedIsKept, Kept
<1> HIDE DEF LifecycleInv
<1> QED
  BY Zenon, <1>1, <1>2, <1>3, <1>4, <1>5, <1>6 DEF BeginCommand

(***************************************************************************)
(* People at work, the mirror's creators, the forge's users, and others.   *)
(***************************************************************************)
LEMMA WorkKeeps ==
  ASSUME LifecycleInv, WorkStep \/ MirrorStep, UNCHANGED Board
  PROVE  LifecycleInv'
<1> USE LifecycleAssumption
    DEF LifecycleInv, TypesHold, Board, Exists, Workable, treeVars, forgeVars, mirrorVars, procVars
<1>1. CASE Edit \/ Generate \/ WorkInSubmodule
  <2> USE <1>1 DEF Edit, Generate, WorkInSubmodule
  <2>1. tree \in Trees /\ tree.kind \in {"linked", "clone"} /\ tree.log \in SUBSET Commits
    BY Zenon DEF Trees
  <2>2. tree' \in {[tree EXCEPT !.dirty = TRUE], [tree EXCEPT !.ignored = TRUE],
                   [tree EXCEPT !.sub = "unique"]}
    BY Zenon
  <2>3. tree' \in Trees /\ tree'.kind = tree.kind /\ tree'.log = tree.log
    <3> HIDE <1>1 DEF LifecycleInv, Edit, Generate, WorkInSubmodule
    <3> QED
      BY Zenon, <2>1, <2>2, EditStays
  <2>4. TypesHold' /\ LockHeld' /\ MirrorWhole' /\ CardIsTrue'
    BY <2>3 DEF CardType, LockHeld, CardIsTrue, MirrorWhole
  <2>5. Remembered' /\ ReadAsSettled' /\ GateSawIt'
    BY Zenon DEF Remembered, ReadAsSettled, GateSawIt
  <2>6. OneLinked' /\ PushedIsKept'
    BY <2>1, <2>3 DEF OneLinked, LinkedHere, NoneLinkedAside, PushedIsKept, Kept
  <2> QED
    BY Zenon, <2>4, <2>5, <2>6
<1>2. CASE Commit
  <2> USE <1>2 DEF Commit
  <2>1. tree \in Trees /\ tree.kind \in {"linked", "clone"}
    BY Zenon
  <2>2. PICK c \in Commits \ Known :
          /\ tree' = [tree EXCEPT !.log = @ \cup {c}, !.dirty = FALSE]
          /\ branch' = IF tree.kind = "linked" THEN tree.log \cup {c} ELSE branch
    BY Zenon
  <2>3. tree' \in Trees /\ tree'.kind = tree.kind /\ tree'.log = tree.log \cup {c}
    <3>1. c \in Commits /\ tree' \in {[tree EXCEPT !.log = @ \cup {c}, !.dirty = FALSE]}
      BY Zenon, <2>2
    <3> HIDE <1>2 DEF LifecycleInv, Commit
    <3> QED
      BY Zenon, <2>1, <3>1, CommitStays
  <2>4. branch' \in Refs
    BY <2>1, <2>2 DEF Refs, Trees
  <2>5. TypesHold' /\ LockHeld' /\ MirrorWhole' /\ CardIsTrue'
    BY Zenon, <2>3, <2>4 DEF CardType, LockHeld, CardIsTrue, MirrorWhole
  <2>6. Remembered' /\ ReadAsSettled' /\ GateSawIt'
    BY Zenon DEF Remembered, ReadAsSettled, GateSawIt
  <2>7. OneLinked' /\ PushedIsKept'
    BY <2>1, <2>2, <2>3 DEF OneLinked, LinkedHere, NoneLinkedAside, PushedIsKept, Kept
  <2> QED
    BY Zenon, <2>5, <2>6, <2>7
<1>3. CASE Push
  <2> USE <1>3 DEF Push
  <2>1. tree \in Trees /\ tree.log \in SUBSET Commits
    BY Zenon DEF Trees
  <2>2. TypesHold' /\ LockHeld' /\ MirrorWhole' /\ CardIsTrue'
    BY Zenon, <2>1 DEF CardType, Refs, LockHeld, CardIsTrue, MirrorWhole
  <2>3. Remembered' /\ ReadAsSettled' /\ GateSawIt'
    BY Zenon DEF Remembered, ReadAsSettled, GateSawIt
  <2>4. OneLinked' /\ PushedIsKept'
    BY Zenon DEF OneLinked, LinkedHere, NoneLinkedAside, PushedIsKept, Kept
  <2> QED
    BY Zenon, <2>2, <2>3, <2>4
<1>4. CASE Fetch \/ MirrorStep
  <2> USE <1>4 DEF Fetch, MirrorStep, CloneMirror, FetchMirror, PublishMirror
  <2>1. TypesHold' /\ LockHeld' /\ MirrorWhole' /\ CardIsTrue'
    BY DEF CardType, LockHeld, CardIsTrue, MirrorWhole
  <2>2. Remembered' /\ ReadAsSettled' /\ GateSawIt'
    BY Zenon DEF Remembered, ReadAsSettled, GateSawIt
  <2>3. OneLinked' /\ PushedIsKept'
    BY DEF OneLinked, LinkedHere, NoneLinkedAside, PushedIsKept, Kept
  <2> QED
    BY Zenon, <2>1, <2>2, <2>3
<1> HIDE DEF LifecycleInv
<1> QED
  BY Zenon, <1>1, <1>2, <1>3, <1>4 DEF WorkStep

\* What people do on the forge and on other machines keeps LifecycleInv.
LEMMA WorldKeeps ==
  ASSUME LifecycleInv,
         \/ \E r \in PullRequests : ForgeUserMerges(r) \/ ForgeUserCloses(r)
         \/ ElsewhereClaims
         \/ ElsewhereReopens
  PROVE  LifecycleInv'
<1> USE LifecycleAssumption
    DEF LifecycleInv, TypesHold, StoreSame, treeVars, forgeVars, mirrorVars, procVars
<1>1. ASSUME NEW r \in PullRequests, ForgeUserMerges(r) \/ ForgeUserCloses(r)
      PROVE  LifecycleInv'
  <2> USE <1>1 DEF ForgeUserMerges, ForgeUserCloses, ForgeMerges
  <2>1. /\ \A s \in PullRequests : forge[s] = "merged" => forge'[s] = "merged"
        /\ forge' \in [PullRequests -> {"none", "open", "merged", "closed"}]
        /\ UNCHANGED <<treeVars, mirrorVars, procVars, card>>
        /\ remote' = remote \/ remote' = None
    OBVIOUS
  <2>2. TypesHold' /\ LockHeld' /\ MirrorWhole'
    BY Zenon, <2>1 DEF CardType, Refs, LockHeld, MirrorWhole
  <2>3. CardIsTrue'
    <3>1. card.state = "merged" => card.pr \in PullRequests
      BY Zenon DEF GateSawIt, CardType
    <3> QED
      BY Zenon, <2>1, <3>1 DEF CardIsTrue
  <2>4. Remembered' /\ ReadAsSettled' /\ GateSawIt'
    BY Zenon, <2>1 DEF Remembered, ReadAsSettled, GateSawIt
  <2>5. OneLinked' /\ PushedIsKept'
    BY <2>1 DEF OneLinked, LinkedHere, NoneLinkedAside, PushedIsKept, Kept
  <2> QED
    BY Zenon, <2>2, <2>3, <2>4, <2>5
<1>2. CASE ElsewhereClaims \/ ElsewhereReopens
  <2> USE <1>2 DEF ElsewhereClaims, ElsewhereReopens
  <2>1. /\ CardType' /\ card'.state \in {"claimed", "open"} /\ card'.pr = card.pr
        /\ card'.locked => lock = "elsewhere"
    <3>1. /\ card.pr \in PullRequests \cup {None} /\ "elsewhere" \in Owners /\ None \in Owners
          /\ "claimed" \in States /\ "open" \in States
      BY Zenon DEF CardType, Owners, States
    <3> QED
      BY <3>1, PublishSets
  <2>2. ~card'.locked
    BY Zenon, <2>1
  <2>3. TypesHold' /\ LockHeld' /\ MirrorWhole' /\ CardIsTrue'
    BY <2>1 DEF LockHeld, CardIsTrue, MirrorWhole
  <2>4. Remembered' /\ ReadAsSettled' /\ GateSawIt'
    BY Zenon, <2>1, <2>2 DEF Remembered, ReadAsSettled, GateSawIt
  <2>5. OneLinked' /\ PushedIsKept'
    BY DEF OneLinked, LinkedHere, NoneLinkedAside, PushedIsKept, Kept
  <2> QED
    BY Zenon, <2>3, <2>4, <2>5
<1> QED
  BY Zenon, <1>1, <1>2

\* Every step of the commands and of the world keeps LifecycleInv.
LEMMA LifecycleStep ==
  ASSUME LifecycleInv, [LifecycleNext]_lifecycleVars
  PROVE  LifecycleInv'
<1>1. CASE UNCHANGED lifecycleVars
  BY <1>1 DEF lifecycleVars, checkoutVars, treeVars, forgeVars, mirrorVars, procVars,
              LifecycleInv, TypesHold, CardType, LockHeld, Remembered, OneLinked, LinkedHere,
              NoneLinkedAside, ReadAsSettled, GateSawIt, CardIsTrue, MirrorWhole, PushedIsKept, Kept
<1>2. CASE LifecycleNext
  BY Zenon, <1>2, BeginKeeps, CommandKeeps, WorkKeeps, WorldKeeps DEF LifecycleNext
<1> QED
  BY Zenon, <1>1, <1>2

(***************************************************************************)
(* The theorems.                                                           *)
(***************************************************************************)
\* LifecycleInv holds in every state of the machine, its forge and its board.
THEOREM LifecycleInvariant == LifecycleSpec => []LifecycleInv
BY InitHolds, LifecycleStep, PTL DEF LifecycleSpec

\* Merged on the board is merged at the forge, and Review has a pull request
\* (CardIsTrue): nobody who published it can have missed the gate, and what the
\* forge merged stays merged.
THEOREM CardTellsTruth == LifecycleSpec => []CardIsTrue
<1>1. LifecycleInv => CardIsTrue
  BY Zenon DEF LifecycleInv
<1> QED
  BY <1>1, LifecycleInvariant, PTL

\* A mirror that can be seen holds the remote's branches only (MirrorWhole).
THEOREM MirrorIsWhole == LifecycleSpec => []MirrorWhole
<1>1. LifecycleInv => MirrorWhole
  BY Zenon DEF LifecycleInv
<1> QED
  BY <1>1, LifecycleInvariant, PTL

\* The steps that touch the trees, the branch or the recovery refs.
TreeMoves(x) ==
  \/ RetireRecover(x)
  \/ ReleaseSubmodules(x)
  \/ RemoveWorktree(x)
  \/ RetireBranch(x)
  \/ SalvageTorn(x)
  \/ PublishClone(x)
  \/ MoveAside(x)
  \/ PlaceClone(x)
  \/ SpawnClaimWorktree(x)

TreeEdits == Edit \/ Generate \/ WorkInSubmodule \/ Commit

\* The steps that change a checkout: edits, and the commands that move it.
LEMMA TreeSteps ==
  ASSUME LifecycleInv, [LifecycleNext]_lifecycleVars
  PROVE  UNCHANGED treeVars \/ TreeEdits \/ \E x \in Procs : TreeMoves(x)
<1> USE DEF StoreSame, TreeMoves, TreeEdits
<1>1. ASSUME NEW x \in Procs, CommandStep(x)
      PROVE  UNCHANGED treeVars \/ TreeMoves(x)
  <2>1. CASE RetireStep(x)
    BY Zenon, <2>1 DEF RetireStep, TryLock, RetireProbe, RetireRecheck
  <2>2. CASE StageStep(x)
    BY Zenon, <2>2 DEF StageStep, StageDecide
  <2>3. CASE Publishes(x)
    BY Zenon, <2>3, PublishesFrame
  <2>4. CASE ~RetireStep(x) /\ ~StageStep(x) /\ ~Publishes(x)
    BY Zenon, <1>1, <2>4 DEF CommandStep, Publishes, ClaimGate, CloseGate, OpenPr, SpawnReviewCard,
                      GhMerge, ForgeMerges, RereadBoard
  <2> QED
    BY Zenon, <2>1, <2>2, <2>3, <2>4
<1>2. ASSUME NEW x \in Procs, BeginCommand(x) \/ Kill(x)
      PROVE  UNCHANGED treeVars
  BY Zenon, <1>2 DEF BeginCommand, BeginLocked, EnsureCardClone, LinkExistingPr, CheckPrGate,
              CleanupScan, Kill
<1>3. CASE WorkStep \/ MirrorStep
  BY Zenon, <1>3 DEF WorkStep, Push, Fetch, MirrorStep, CloneMirror, FetchMirror, PublishMirror
<1>4. ASSUME NEW r \in PullRequests, ForgeUserMerges(r) \/ ForgeUserCloses(r)
      PROVE  UNCHANGED treeVars
  BY Zenon, <1>4 DEF ForgeUserMerges, ForgeUserCloses, ForgeMerges
<1>5. CASE ElsewhereClaims \/ ElsewhereReopens
  BY Zenon, <1>5 DEF ElsewhereClaims, ElsewhereReopens
<1>6. CASE UNCHANGED lifecycleVars
  BY Zenon, <1>6 DEF lifecycleVars, checkoutVars
<1> QED
  BY Zenon, <1>1, <1>2, <1>3, <1>4, <1>5, <1>6 DEF LifecycleNext

\* An edit leaves the tree where it is and takes nothing out of it.
LEMMA EditsGrow ==
  ASSUME TypesHold, TreeEdits
  PROVE  /\ tree \in Trees /\ tree' \in Trees
         /\ tree.log \subseteq tree'.log
         /\ tree.sub = "unique" => tree'.sub = "unique"
<1>1. tree \in Trees /\ tree.log \in SUBSET Commits
  BY Zenon DEF TypesHold, TreeEdits, Edit, Generate, WorkInSubmodule, Commit, Workable, Exists, Trees
<1>2. CASE Edit \/ Generate \/ WorkInSubmodule
  <2>1. tree' \in {[tree EXCEPT !.dirty = TRUE], [tree EXCEPT !.ignored = TRUE],
                   [tree EXCEPT !.sub = "unique"]}
    BY Zenon, <1>2 DEF Edit, Generate, WorkInSubmodule
  <2>2. tree' \in Trees
    BY Zenon, <1>1, <2>1, TreeStays
  <2> QED
    BY Zenon, <1>1, <2>1, <2>2 DEF Trees
<1>3. CASE Commit
  <2>1. PICK d \in Commits : tree' = [tree EXCEPT !.log = @ \cup {d}, !.dirty = FALSE]
    BY Zenon, <1>3 DEF Commit
  <2>2. tree' = [tree EXCEPT !.log = tree.log \cup {d}, !.dirty = FALSE]
    BY Zenon, <1>1, <2>1 DEF Trees
  <2>3. tree' \in Trees
    BY Zenon, <1>1, <2>2, TreeStays
  <2> QED
    BY Zenon, <1>1, <2>2, <2>3 DEF Trees
<1> QED
  BY Zenon, <1>1, <1>2, <1>3 DEF TreeEdits

\* A tree leaves its path in three ways only: removed by a retirement that got
\* past the probe and found it clean, or moved aside whole.
LEMMA TreeLeaves ==
  ASSUME LifecycleInv, [LifecycleNext]_lifecycleVars, Exists, tree' = None
  PROVE  \/ /\ \E x \in Procs : pc[x] = "remove"
            /\ ~tree.dirty /\ tree.sub = "none"
         \/ tree \in aside' /\ aside' # aside
<1> USE LifecycleAssumption DEF LifecycleInv, TypesHold, Exists
<1>1. CASE UNCHANGED treeVars
  BY Zenon, <1>1 DEF treeVars
<1>2. CASE TreeEdits
  BY Zenon, <1>2, EditsGrow
<1>3. ASSUME NEW x \in Procs, TreeMoves(x), ~RemoveWorktree(x)
      PROVE  tree \in aside' /\ aside' # aside
  <2>1. ReleaseSubmodules(x) => tree' # None
    <3>1. [tree EXCEPT !.sub = "none"] \in Trees
      BY Zenon, TreeStays
    <3> QED
      BY Zenon, <3>1 DEF ReleaseSubmodules
  <2>2. SpawnClaimWorktree(x) => tree' = tree
    BY Zenon DEF SpawnClaimWorktree, EnsureWorktree
  <2>3. SalvageTorn(x) \/ MoveAside(x)
    BY Zenon, <1>3, <2>1, <2>2 DEF TreeMoves, RetireRecover, RetireBranch, PublishClone, PlaceClone
  <2> QED
    BY Zenon, <2>3 DEF SalvageTorn, MoveAside, OneLinked, LinkedHere, NoneLinkedAside
<1>4. ASSUME NEW x \in Procs, RemoveWorktree(x)
      PROVE  pc[x] = "remove" /\ ~tree.dirty /\ tree.sub = "none"
  BY Zenon, <1>4 DEF RemoveWorktree
<1> QED
  BY Zenon, <1>1, <1>2, <1>3, <1>4, TreeSteps

\* A checkout is removed only under a card that was read as Merged or Closed
\* under the lifecycle lock and that nobody holding it has moved since
\* (RetiredIsSettled).
THEOREM RetirementIsSettled == LifecycleSpec => RetiredIsSettled
<1>1. ASSUME LifecycleInv, [LifecycleNext]_lifecycleVars
      PROVE  [Exists /\ tree' = None /\ aside' = aside
              => card.state \in Terminal \/ ~card.locked]_lifecycleVars
  <2> SUFFICES ASSUME Exists, tree' = None, aside' = aside
               PROVE  card.state \in Terminal \/ ~card.locked
    BY Zenon
  <2> QED
    BY Zenon, <1>1, TreeLeaves DEF LifecycleInv, ReadAsSettled
<1> QED
  BY <1>1, LifecycleInvariant, PTL DEF LifecycleSpec, RetiredIsSettled

\* No step of anybody loses a commit this machine has.
LEMMA KeptStays ==
  ASSUME LifecycleInv, [LifecycleNext]_lifecycleVars, NEW c, Kept(c)
  PROVE  Kept(c)'
<1> USE LifecycleAssumption DEF LifecycleInv, TypesHold, Exists
<1>1. CASE UNCHANGED treeVars
  BY Zenon, <1>1 DEF treeVars, Kept
<1>2. CASE TreeEdits
  <2>1. tree \in Trees /\ UNCHANGED <<aside, recovery>>
    BY Zenon, <1>2 DEF TreeEdits, Edit, Generate, WorkInSubmodule, Commit, Workable
  <2>2. tree' # None /\ tree.log \subseteq tree'.log
    BY Zenon, <1>2, EditsGrow
  <2>3. \/ branch' = branch
        \/ tree.kind = "linked" /\ branch' # None /\ tree.log \subseteq branch'
    <3>1. \A d \in Commits : tree.log \cup {d} \in SUBSET Commits
      BY Zenon, <2>1 DEF Trees
    <3> QED
      BY ZenonT(30), <1>2, <3>1 DEF TreeEdits, Edit, Generate, WorkInSubmodule, Commit
  <2>4. tree.kind = "linked" => branch = tree.log
    BY Zenon, <2>1 DEF OneLinked, LinkedHere
  <2> QED
    BY <2>1, <2>2, <2>3, <2>4 DEF Kept
<1>3. ASSUME NEW x \in Procs, TreeMoves(x)
      PROVE  Kept(c)'
  <2>1. CASE RetireRecover(x)
    BY Zenon, <2>1 DEF RetireRecover, Kept
  <2>2. CASE ReleaseSubmodules(x)
    <3>1. tree # None => tree' # None /\ tree'.log = tree.log
      <4>1. tree # None => [tree EXCEPT !.sub = "none"] \in Trees
        BY Zenon, TreeStays
      <4> QED
        BY <2>2, <4>1 DEF ReleaseSubmodules, Trees
    <3> QED
      BY Zenon, <2>2, <3>1 DEF ReleaseSubmodules, Kept
  <2>3. CASE RemoveWorktree(x)
    <3>1. LinkedHere /\ branch = tree.log /\ branch # None
      BY Zenon, <2>3 DEF RemoveWorktree, OneLinked, LinkedHere, Trees
    <3> QED
      BY Zenon, <2>3, <3>1 DEF RemoveWorktree, Kept
  <2>4. CASE RetireBranch(x)
    <3>1. seen[x] \in recovery
      BY Zenon, <2>4 DEF RetireBranch, Remembered
    <3> QED
      BY <2>4, <3>1 DEF RetireBranch, Kept
  <2>5. CASE SalvageTorn(x) \/ MoveAside(x)
    BY Zenon, <2>5 DEF SalvageTorn, MoveAside, Kept
  <2>6. CASE PublishClone(x)
    <3>1. seen[x] = None \/ (seen[x] = TornTree /\ TornTree.log = {})
      BY Zenon, <2>6 DEF PublishClone, Remembered, TornTree, Tree
    <3> QED
      BY Zenon, <2>6, <3>1 DEF PublishClone, Kept
  <2>7. CASE PlaceClone(x)
    BY <2>7 DEF PlaceClone, Kept
  <2>8. CASE SpawnClaimWorktree(x)
    BY Zenon, <2>8 DEF SpawnClaimWorktree, EnsureWorktree, Kept
  <2> QED
    BY Zenon, <1>3, <2>1, <2>2, <2>3, <2>4, <2>5, <2>6, <2>7, <2>8 DEF TreeMoves
<1> QED
  BY Zenon, <1>1, <1>2, <1>3, TreeSteps

\* What some ref or tree reaches is what this machine keeps and what is pushed.
LEMMA ReachableIsKept ==
  ASSUME NEW c
  PROVE  c \in Reachable <=> Kept(c) \/ (remote # None /\ c \in remote)
BY Zenon DEF Reachable, Kept, Exists

\* Work only a tree has stays with the tree.
LEMMA UncommittedStays ==
  ASSUME LifecycleInv, [LifecycleNext]_lifecycleVars, Exists, tree.dirty \/ tree.sub = "unique"
  PROVE  IF tree' = None THEN tree \in aside' ELSE tree.sub = "unique" => tree'.sub = "unique"
<1> USE LifecycleAssumption DEF LifecycleInv, TypesHold, Exists
<1>1. CASE tree' = None
  BY Zenon, <1>1, TreeLeaves
<1>2. ASSUME tree' # None, tree.sub = "unique"
      PROVE  tree'.sub = "unique"
  <2>1. CASE UNCHANGED treeVars
    BY Zenon, <1>2, <2>1 DEF treeVars
  <2>2. CASE TreeEdits
    BY Zenon, <1>2, <2>2, EditsGrow
  <2>3. ASSUME NEW x \in Procs, TreeMoves(x)
        PROVE  tree' = tree
    BY Zenon, <1>2, <2>3 DEF TreeMoves, RetireRecover, ReleaseSubmodules, RemoveWorktree, RetireBranch,
                      SalvageTorn, PublishClone, MoveAside, PlaceClone, SpawnClaimWorktree,
                      EnsureWorktree
  <2> QED
    BY Zenon, <1>2, <2>1, <2>2, <2>3, TreeSteps
<1> QED
  BY Zenon, <1>1, <1>2

\* No commit and no uncommitted work is ever lost (WorkSurvives), whatever people,
\* commands, kills and the forge do, and however many commits are made while a
\* retirement is running.
THEOREM NoWorkIsLost == LifecycleSpec => WorkSurvives
<1>1. ASSUME LifecycleInv, [LifecycleNext]_lifecycleVars
      PROVE  Reachable \subseteq Reachable'
  <2> SUFFICES ASSUME NEW c, c \in Reachable
               PROVE  c \in Reachable'
    BY Zenon
  <2>1. Kept(c)
    BY Zenon, <1>1, ReachableIsKept DEF LifecycleInv, PushedIsKept
  <2>2. Kept(c)'
    BY Zenon, <1>1, <2>1, KeptStays
  <2> QED
    BY <2>2 DEF Reachable, Kept, Exists
<1>2. ASSUME LifecycleInv, [LifecycleNext]_lifecycleVars
      PROVE  [/\ Reachable \subseteq Reachable'
              /\ /\ Exists
                 /\ tree.dirty \/ tree.sub = "unique"
                 => IF tree' = None THEN tree \in aside'
                    ELSE tree.sub = "unique" => tree'.sub = "unique"]_lifecycleVars
  BY Zenon, <1>1, <1>2, UncommittedStays
<1> QED
  BY <1>2, LifecycleInvariant, PTL DEF LifecycleSpec, WorkSurvives
=============================================================================
