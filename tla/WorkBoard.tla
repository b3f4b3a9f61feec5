----------------------------- MODULE WorkBoard ------------------------------
(***************************************************************************)
(* The SDK operations on a room's work board (airc-lib/src/work.rs), run   *)
(* by several peers at once.  An operation reads the board, decides, and   *)
(* then publishes one or two events; other peers publish between the read  *)
(* and each of its publishes, and a peer may die between them.  board is   *)
(* the projection of everything published; WorkBoardCache shows what a     *)
(* cached read of it returns.                                              *)
(***************************************************************************)
EXTENDS WorkProjection, FiniteSets

CONSTANTS
  Peers,        \* the peers of the room
  Procs,        \* the processes that call the SDK
  PeerOf,       \* process -> the peer it signs as
  Cards,        \* ids create_work_card can mint
  Submissions,  \* submission ids
  Artifacts,    \* content hashes
  Reviews,      \* review ids
  PullRequests, \* pull requests of the forge
  Lanes,        \* lane ids
  Workspaces,   \* workspace ids
  Repos,        \* repositories that have a manager hat
  Ttl,          \* ttl_ms of every claim
  Targets,      \* states change_work_card_state is asked for
  Workloads,    \* what a behaviour may do: records of the operations used
                \* (verbs), by which processes (procs), and bounds on the
                \* events published (events) and on the clock (clock)
  MaxClaims     \* bound on the claims minted

ASSUME WorkBoardAssumption ==
  /\ {Ttl, MaxClaims, TakeoverSince} \subseteq Nat
  /\ PeerOf \in [Procs -> Peers]
  /\ Targets \subseteq CardStates
  /\ None \notin Peers \cup Cards \cup PullRequests \cup Nat

VARIABLES
  board,     \* the projection of the room's log
  now,       \* wall clock
  minted,    \* claim id -> the peer that minted it
  pending,   \* process -> the events its running operation still has to publish
  workload,  \* the member of Workloads this behaviour keeps to
  published  \* number of events published

boardVars == <<board, now, minted, pending, workload, published>>

BoardInit ==
  /\ board = EmptyBoard
  /\ now = 0
  /\ minted = <<>>
  /\ pending = [x \in Procs |-> <<>>]
  /\ workload \in Workloads
  /\ published = 0

\* Process x starts operation verb, which will publish the events.
Begin(x, verb, events) ==
  /\ verb \in workload.verbs
  /\ x \in workload.procs
  /\ pending[x] = <<>>
  /\ published + Len(events) <= workload.events
  /\ pending' = [pending EXCEPT ![x] = events]
  /\ UNCHANGED <<board, now, minted, workload, published>>

\* The claims a peer calls its own: all it minted, those that lost included.
ClaimsOf(p) == {i \in DOMAIN minted : minted[i] = p}

OnBoard == DOMAIN board.cards

(***************************************************************************)
(* The claim gate.                                                         *)
(***************************************************************************)
OwnerResumes(card, p) ==
  IF card.owner # p \/ IsTerminal(card.state) THEN None ELSE card.claim

ClaimGate(card, p) ==
  IF OwnerResumes(card, p) # None THEN "resume"
  ELSE IF IsSettled(card.state) THEN "refused"
  ELSE IF card.claim = None THEN "fresh"
  ELSE "takeover"

Claim(p, c) == [kind |-> "claimed", card |-> c, by |-> p, claim |-> None, ttl |-> Ttl, at |-> None]

Release(p, c, i) == [kind |-> "released", card |-> c, by |-> p, claim |-> i, at |-> None]

Heartbeat(p, c, i) ==
  [kind |-> "heartbeat", card |-> c, by |-> p, claim |-> i, ttl |-> Ttl, at |-> None]

\* claim_work_card_with_provenance_in, once its gate has read the board.
ClaimEvents(p, c) ==
  CASE ClaimGate(board.cards[c], p) = "resume"   -> <<Heartbeat(p, c, board.cards[c].claim)>>
    [] ClaimGate(board.cards[c], p) = "takeover" -> <<Release(p, c, board.cards[c].claim), Claim(p, c)>>
    [] ClaimGate(board.cards[c], p) = "fresh"    -> <<Claim(p, c)>>
    [] OTHER -> <<>>

ClaimWorkCard(x) ==
  \E c \in OnBoard :
    /\ ClaimEvents(PeerOf[x], c) # <<>>
    /\ Begin(x, "claim", ClaimEvents(PeerOf[x], c))

(***************************************************************************)
(* The other card operations: the card must be on the board.               *)
(***************************************************************************)
CreateWorkCard(x) ==
  \E c \in Cards \ OnBoard, lane \in {None} \cup DOMAIN board.lanes :
    /\ \A q \in Procs : pending[q] # <<>> => Head(pending[q]).card # c
    /\ Begin(x, "create",
         <<[kind |-> "created", card |-> c, by |-> PeerOf[x], reviews |-> None, lane |-> lane, at |-> now]>>)

HeartbeatWorkClaim(x) ==
  \E c \in OnBoard : \E i \in ClaimsOf(PeerOf[x]) : Begin(x, "heartbeat", <<Heartbeat(PeerOf[x], c, i)>>)

ReleaseWorkClaim(x) ==
  \E c \in OnBoard : \E i \in ClaimsOf(PeerOf[x]) : Begin(x, "release", <<Release(PeerOf[x], c, i)>>)

SelectWorkClaim(x) ==
  \E c \in OnBoard :
    LET card == board.cards[c]
    IN  /\ card.owner = PeerOf[x]
        /\ card.expires > now
        /\ ~IsSettled(card.state)
        /\ Begin(x, "select",
             <<[kind |-> "updated", card |-> c, by |-> PeerOf[x], claim |-> card.claim, at |-> now]>>)

ChangeWorkCardState(x) ==
  \E c \in OnBoard, s \in Targets :
    Begin(x, "state", <<[kind |-> "state", card |-> c, by |-> PeerOf[x], state |-> s, at |-> now]>>)

LinkCardPullRequest(x) ==
  \E c \in OnBoard, r \in PullRequests :
    Begin(x, "link", <<[kind |-> "linked", card |-> c, by |-> PeerOf[x], pr |-> r, at |-> now]>>)

RelinkCardPullRequest(x) ==
  \E c \in OnBoard, r \in PullRequests :
    /\ ~IsTerminal(board.cards[c].state)
    /\ board.cards[c].pr \notin {None, r}
    /\ Begin(x, "relink", <<[kind |-> "relinked", card |-> c, by |-> PeerOf[x], pr |-> r, at |-> now]>>)

\* The merger, or a reader that finds the linked pull request merged.
MarkPullRequestMerged(x) ==
  \E c \in OnBoard :
    /\ board.cards[c].pr # None
    /\ Begin(x, "merge", <<[kind |-> "merged", card |-> c, by |-> PeerOf[x],
                            pr |-> board.cards[c].pr, at |-> now]>>)

(***************************************************************************)
(* Submissions and reviews: validated against the board that was read.     *)
(***************************************************************************)
SubmitWork(x) ==
  \E c \in OnBoard, id \in Submissions, a \in Artifacts : \E i \in ClaimsOf(PeerOf[x]) :
    LET s == [kind |-> "submitted", submission |-> id, card |-> c, claim |-> i,
              artifact |-> a, by |-> PeerOf[x], at |-> now]
    IN  /\ SubmissionsNamed(board.cards[c], id) = {}
        /\ SubmissionVerdict(board.cards[c], s) = "ok"
        /\ Begin(x, "submit", <<s>>)

EnsureSubmissionReview(x) ==
  \E c \in OnBoard, id \in Submissions :
    LET e == [kind |-> "requested", card |-> ReviewCardId(c, id), reviews |-> c,
              submission |-> id, by |-> PeerOf[x], lane |-> None, at |-> now]
    IN  /\ e.card \notin DOMAIN board.requests
        /\ RequestVerdict(board, e) = "ok"
        /\ Begin(x, "handoff", <<e>>)

ReviewWorkSubmission(x) ==
  \E rc \in OnBoard, id \in Submissions, a \in Artifacts, v \in Reviews,
     outcome \in {"passed", "failed"} :
    \E i \in ClaimsOf(PeerOf[x]) :
      LET r == [kind |-> "reviewed", review |-> v, card |-> board.cards[rc].reviews,
                submission |-> id, artifact |-> a, reviewCard |-> rc, claim |-> i,
                by |-> PeerOf[x], outcome |-> outcome, at |-> now]
      IN  /\ r.card # None
          /\ v \notin DOMAIN board.reviews
          /\ ReviewVerdict(board, r) = "ok"
          /\ Begin(x, "review", <<r>>)

(***************************************************************************)
(* Coordination: operations that publish without reading the board.        *)
(***************************************************************************)
CreateWorkLane(x) ==
  \E l \in Lanes \ DOMAIN board.lanes :
    Begin(x, "coordinate", <<[kind |-> "lane", card |-> None, lane |-> l, state |-> "active"]>>)

ChangeWorkLaneState(x) ==
  \E l \in DOMAIN board.lanes, s \in {"active", "closed"} :
    Begin(x, "coordinate", <<[kind |-> "lane_state", card |-> None, lane |-> l, state |-> s]>>)

RequestWorkspace(x) ==
  \E w \in Workspaces \ DOMAIN board.workspaces, c \in OnBoard : \E i \in ClaimsOf(PeerOf[x]) :
    Begin(x, "coordinate",
      <<[kind |-> "workspace", card |-> c, workspace |-> w, claim |-> i, by |-> PeerOf[x]]>>)

\* allocate_workspace, heartbeat_workspace and release_workspace.
ReportWorkspace(x) ==
  \E w \in DOMAIN board.workspaces, s \in {"allocated", "active", "released"} :
    Begin(x, "coordinate",
      <<[kind |-> "workspace_state", card |-> None, workspace |-> w, state |-> s]>>)

ClaimManagerHat(x) ==
  \E r \in Repos :
    Begin(x, "hat", <<[kind |-> "hat", card |-> None, repo |-> r, by |-> PeerOf[x],
                       ttl |-> Ttl, at |-> now]>>)

ReleaseManagerHat(x) ==
  \E r \in Repos :
    Begin(x, "hat", <<[kind |-> "hat_off", card |-> None, repo |-> r, by |-> PeerOf[x]]>>)

ReportAgentAvailability(x) ==
  \E r \in Repos, s \in {"ready", "busy"} :
    Begin(x, "hat", <<[kind |-> "available", card |-> None, repo |-> r, by |-> PeerOf[x],
                       state |-> s, ttl |-> Ttl, at |-> now]>>)

(***************************************************************************)
(* Publishing.  Claims, releases and heartbeats read the clock here; the   *)
(* claim id is minted here.                                                *)
(***************************************************************************)
Stamped(e) ==
  IF e.kind = "claimed" THEN [e EXCEPT !.at = now, !.claim = Len(minted) + 1]
  ELSE IF e.kind \in {"released", "heartbeat"} THEN [e EXCEPT !.at = now]
  ELSE e

PublishWorkEvent(x) ==
  /\ pending[x] # <<>>
  /\ published < workload.events
  /\ Head(pending[x]).kind = "claimed" => Len(minted) < MaxClaims
  /\ LET e == Stamped(Head(pending[x]))
     IN  /\ board' = Apply(board, e)
         /\ minted' = IF e.kind = "claimed" THEN Append(minted, PeerOf[x]) ELSE minted
  /\ pending' = [pending EXCEPT ![x] = Tail(@)]
  /\ published' = published + 1
  /\ UNCHANGED <<now, workload>>

\* The process dies: what it had not published is never published.
Crash(x) ==
  /\ pending[x] # <<>>
  /\ pending' = [pending EXCEPT ![x] = <<>>]
  /\ UNCHANGED <<board, now, minted, workload, published>>

Tick ==
  /\ now < workload.clock
  /\ now' = now + 1
  /\ UNCHANGED <<board, minted, pending, workload, published>>

BoardNext ==
  \/ \E x \in Procs :
       \/ ClaimWorkCard(x)
       \/ CreateWorkCard(x)
       \/ HeartbeatWorkClaim(x)
       \/ ReleaseWorkClaim(x)
       \/ SelectWorkClaim(x)
       \/ ChangeWorkCardState(x)
       \/ LinkCardPullRequest(x)
       \/ RelinkCardPullRequest(x)
       \/ MarkPullRequestMerged(x)
       \/ SubmitWork(x)
       \/ EnsureSubmissionReview(x)
       \/ ReviewWorkSubmission(x)
       \/ CreateWorkLane(x)
       \/ ChangeWorkLaneState(x)
       \/ RequestWorkspace(x)
       \/ ReportWorkspace(x)
       \/ ClaimManagerHat(x)
       \/ ReleaseManagerHat(x)
       \/ ReportAgentAvailability(x)
       \/ PublishWorkEvent(x)
       \/ Crash(x)
  \/ Tick

BoardSpec == BoardInit /\ [][BoardNext]_boardVars

(***************************************************************************)
(* Properties.                                                             *)
(***************************************************************************)
CardNow(c) == board.cards[c]
CardThen(c) == board'.cards[c]

\* The parts of a claim come and go together, and Open means nobody holds the
\* card: end_claim is the one place a claim ends, for a release and for a
\* reopen, and a takeover that dies after its release leaves a free card. A
\* claim is held by the peer that minted it.
LeaseWhole ==
  \A c \in OnBoard :
    LET card == CardNow(c)
    IN  /\ card.owner = IF card.claim = None THEN None ELSE minted[card.claim]
        /\ card.expires = None <=> card.claim = None
        /\ card.selected = None <=> card.claim = None
        /\ card.state = "open" => card.claim = None

\* A holder that falls silent lapses within its ttl: however often claims,
\* heartbeats and the renewals of renew_owner_lease follow each other, a lease
\* never ends later than one ttl from now.
LeaseBounded ==
  \A c \in OnBoard : CardNow(c).expires # None => CardNow(c).expires <= now + Ttl

\* A card passes from one peer to another only through a release or a reopen on
\* the record: no claim replaces a standing claim of someone else, lapsed or
\* not, unless the card was Merged or Closed (apply_card_claimed).
HandoverOnRecord ==
  [][\A c \in OnBoard :
       /\ CardNow(c).owner # None
       /\ CardThen(c).owner \notin {None, CardNow(c).owner}
       => IsTerminal(CardNow(c).state)]_boardVars

Lease(card) == <<card.owner, card.claim, card.expires, card.selected>>

\* Events that lost their race are harmless when they land late. The lease of a
\* holder changes only by the holder's own event, by a release that names this
\* very claim, or by a reopen: the heartbeats, releases and submissions of a
\* claim that lost, and repeated review handoffs, leave it alone. A relink
\* decided before a merge or a close changes nothing after it. And a former
\* manager's release takes no hat from the present one.
LateIsHarmless ==
  [][\A x \in Procs :
       LET e == Head(pending[x])
       IN  published' # published /\ pending'[x] # pending[x] =>
             /\ \A c \in OnBoard :
                  /\ CardNow(c).claim # None /\ Lease(CardThen(c)) # Lease(CardNow(c))
                     => /\ e.card = c
                        /\ \/ e.by = CardNow(c).owner
                           \/ e.kind = "released" /\ e.claim = CardNow(c).claim
                           \/ e.kind = "state" /\ e.state = "open"
                           \/ IsTerminal(CardNow(c).state)
                  /\ e.kind = "relinked" /\ IsTerminal(CardNow(c).state)
                     => CardThen(c) = CardNow(c)
             /\ \A r \in DOMAIN board.hats :
                  (r \in DOMAIN board'.hats => board'.hats[r].manager # board.hats[r].manager)
                  => \/ e.kind = "hat_off" /\ e.by = board.hats[r].manager
                     \/ e.kind = "hat" /\ board'.hats[r].manager = e.by]_boardVars

\* What was accepted stands. The candidates of a card only grow, at the front,
\* by one with an id of its own: a retry read from a stale board keeps the first
\* publication (same_candidate). A recorded judgement is never replaced or
\* withdrawn, whoever publishes its review id again and whatever became of the
\* reviewer's claim.
AcceptedStands ==
  [][/\ \A c \in OnBoard :
          LET was == CardNow(c).submissions
              is == CardThen(c).submissions
          IN  \/ is = was
              \/ /\ Tail(is) = was
                 /\ SubmissionsNamed(CardNow(c), Head(is).submission) = {}
     /\ \A v \in DOMAIN board.reviews :
          /\ v \in DOMAIN board'.reviews
          /\ board'.reviews[v] = board.reviews[v]]_boardVars

\* A judgement is of one accepted candidate of the parent of its review card,
\* with that candidate's artifact, by somebody who held the review card.
JudgementsBound ==
  \A v \in DOMAIN board.reviews :
    LET r == board.reviews[v]
    IN  /\ board.cards[r.reviewCard].reviews = r.card
        /\ minted[r.claim] = r.by
        /\ \E s \in Accepted(board, r.card, r.submission) : s.artifact = r.artifact

\* A claim never takes a card out of Merged or Closed: reopening is an explicit
\* state transition (the comment of claim_gate_for). It does not hold: the gate
\* reads the board before the claim is published, and the card may close between.
ClaimNeverReopens ==
  [][\A x \in Procs, c \in OnBoard :
       /\ published' # published
       /\ pending'[x] # pending[x]
       /\ Head(pending[x]).kind = "claimed"
       /\ IsTerminal(CardNow(c).state)
       => IsTerminal(CardThen(c).state)]_boardVars
=============================================================================
