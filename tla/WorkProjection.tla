--------------------------- MODULE WorkProjection ---------------------------
(***************************************************************************)
(* The work board of one room as a fold of work events                     *)
(* (airc-work/src/projection/apply.rs and the validations of event.rs).    *)
(* A board is a record of maps; Apply(b, e) is the board after event e.    *)
(* An event that names a card, lane or workspace the board does not have   *)
(* is skipped, as every reader of a complete board skips it                *)
(* (apply_windowed).  Titles, bodies, priorities, repositories and the     *)
(* updated_at stamps decide nothing here and are left out; a peer signs    *)
(* its own events, so the author checks of replay.rs always agree.         *)
(***************************************************************************)
EXTENDS Naturals, Sequences

CONSTANTS
  None,           \* the absent value of every Option
  TakeoverSince   \* TAKEOVER_ON_RECORD_SINCE_MS

CardStates == {"open", "claimed", "in_progress", "blocked", "review", "merged", "closed"}

IsSettled(state) == state \in {"review", "merged", "closed"}

\* matches!(state, Merged | Closed), the test the folds use.
IsTerminal(state) == state \in {"merged", "closed"}

\* A map with one more entry, or with one entry replaced.
With(f, k, v) == [x \in DOMAIN f \cup {k} |-> IF x = k THEN v ELSE f[x]]

Without(f, k) == [x \in DOMAIN f \ {k} |-> f[x]]

EmptyMap == [x \in {} |-> None]

EmptyBoard ==
  [cards |-> EmptyMap, requests |-> EmptyMap, reviews |-> EmptyMap,
   requestRefusals |-> EmptyMap, reviewRefusals |-> EmptyMap,
   lanes |-> EmptyMap, workspaces |-> EmptyMap, hats |-> EmptyMap,
   availability |-> EmptyMap]

HasCard(b, c) == c \in DOMAIN b.cards

SetCard(b, c, card) == [b EXCEPT !.cards = With(@, c, card)]

(***************************************************************************)
(* Cards and claims.                                                       *)
(***************************************************************************)
NewCard(parent) ==
  [state |-> "open", owner |-> None, claim |-> None, selected |-> None,
   expires |-> None, beat |-> None, pr |-> None, reviews |-> parent,
   submissions |-> <<>>, refusal |-> None]

\* Slip: a reopen or a release forgets the owner and keeps the lease.
EndClaimKeepingLease(card) ==
  [card EXCEPT !.owner = None, !.claim = None, !.selected = None]

EndClaim(card) ==
  [card EXCEPT !.owner = None, !.claim = None, !.selected = None, !.expires = None]

SaturatingSub(a, b) == IF a > b THEN a - b ELSE 0

\* Slip: the renewal forgets to move the beat it is measured from.
RenewOwnerLeaseKeepingBeat(card, actor, at) ==
  IF card.owner # actor \/ card.claim = None THEN card
  ELSE [card EXCEPT !.expires = at + SaturatingSub(card.expires, card.beat)]

RenewOwnerLease(card, actor, at) ==
  IF card.owner # actor \/ card.claim = None \/ card.expires = None \/ card.beat = None
  THEN card
  ELSE LET renewed == at + SaturatingSub(card.expires, card.beat)
       IN  IF renewed > card.expires
           THEN [card EXCEPT !.expires = renewed, !.beat = at]
           ELSE card

\* A board that already has the card refuses the event (DuplicateCard); card
\* ids are minted fresh, so only the review handoff meets that case.
ApplyCardCreated(b, e) ==
  IF HasCard(b, e.card) THEN b
  ELSE LET added == SetCard(b, e.card, NewCard(e.reviews))
       IN  IF e.lane \in DOMAIN b.lanes
           THEN [added EXCEPT !.lanes[e.lane].cards = Append(@, e.card)]
           ELSE added

\* Slip: first write wins only while the lease runs, whoever claims next.
ApplyCardClaimedOnLapse(card, e) ==
  IF card.expires # None /\ card.expires > e.at THEN card
  ELSE [card EXCEPT !.state = "claimed", !.owner = e.by, !.claim = e.claim,
                    !.selected = e.at, !.expires = e.at + e.ttl, !.beat = e.at]

ApplyCardClaimed(card, e) ==
  IF \/ card.expires # None /\ card.expires > e.at
     \/ /\ e.at >= TakeoverSince
        /\ card.claim # None
        /\ card.owner \notin {None, e.by}
        /\ ~IsTerminal(card.state)
  THEN card
  ELSE [card EXCEPT !.state = "claimed", !.owner = e.by, !.claim = e.claim,
                    !.selected = e.at, !.expires = e.at + e.ttl, !.beat = e.at]

ApplyClaimHeartbeat(card, e) ==
  IF card.claim # e.claim THEN card
  ELSE [card EXCEPT !.expires = e.at + e.ttl, !.beat = e.at]

\* Slip: a release ends whatever claim the card carries.
ApplyClaimReleasedAnyClaim(card, e) ==
  EndClaim([card EXCEPT !.state =
              IF @ \in {"claimed", "in_progress", "blocked"} THEN "open" ELSE @])

ApplyClaimReleased(card, e) ==
  IF card.claim # e.claim THEN card
  ELSE EndClaim([card EXCEPT !.state =
                   IF @ \in {"claimed", "in_progress", "blocked"} THEN "open" ELSE @])

ApplyCardUpdated(card, e) ==
  IF /\ e.claim # None
     /\ card.claim = e.claim
     /\ card.owner = e.by
     /\ card.expires # None
     /\ card.expires > e.at
     /\ ~IsSettled(card.state)
     /\ (card.selected = None \/ card.selected <= e.at)
  THEN [card EXCEPT !.selected = e.at]
  ELSE card

ApplyCardStateChanged(card, e) ==
  LET moved == [card EXCEPT !.state = e.state]
  IN  IF e.state = "open" THEN EndClaim(moved) ELSE RenewOwnerLease(moved, e.by, e.at)

(***************************************************************************)
(* Submissions, review handoffs and reviews.                               *)
(***************************************************************************)
SameCandidate(s, t) ==
  /\ s.submission = t.submission
  /\ s.card = t.card
  /\ s.claim = t.claim
  /\ s.artifact = t.artifact
  /\ s.by = t.by

\* The submission of the card with this id, or the empty set.
SubmissionsNamed(card, id) ==
  {card.submissions[i] : i \in {j \in DOMAIN card.submissions :
                                  card.submissions[j].submission = id}}

\* What validate_for_card answers: "ok" or the reason of the refusal.
SubmissionVerdict(card, s) ==
  IF SubmissionsNamed(card, s.submission) # {}
  THEN IF \E t \in SubmissionsNamed(card, s.submission) : SameCandidate(t, s)
       THEN "ok" ELSE "ConflictingId"
  ELSE IF card.owner # s.by \/ card.claim # s.claim THEN "WrongClaim"
  ELSE IF IsTerminal(card.state) THEN "SettledCard"
  ELSE IF card.expires = None THEN "ExpiredClaim"
  ELSE IF s.at >= card.expires THEN "ExpiredClaim"
  ELSE "ok"

\* The newest submission is first.
ApplyWorkSubmitted(card, s) ==
  IF \E i \in DOMAIN card.submissions : SameCandidate(card.submissions[i], s) THEN card
  ELSE IF SubmissionVerdict(card, s) # "ok"
  THEN [card EXCEPT !.refusal = SubmissionVerdict(card, s)]
  ELSE RenewOwnerLease([card EXCEPT !.submissions = <<s>> \o @], s.by, s.at)

\* submission_review_card_id: one id per candidate, the same on every machine.
ReviewCardId(parent, submission) == <<parent, submission>>

Accepted(b, c, id) == IF HasCard(b, c) THEN SubmissionsNamed(b.cards[c], id) ELSE {}

RequestVerdict(b, e) ==
  LET existing == b.cards[e.card]
      candidates == Accepted(b, e.reviews, e.submission)
  IN  IF candidates = {} THEN "UnknownSubmission"
      ELSE IF \E s \in candidates : s.by # e.by THEN "RequestorMismatch"
      ELSE IF e.card # ReviewCardId(e.reviews, e.submission) THEN "WrongReviewCard"
      ELSE IF ~HasCard(b, e.card) THEN "ok"
      ELSE IF \/ existing.reviews # e.reviews
              \/ e.card \notin DOMAIN b.requests
              \/ b.requests[e.card] # e.submission
           THEN "ConflictingId" ELSE "ok"

ApplyReviewRequested(b, e) ==
  IF RequestVerdict(b, e) # "ok"
  THEN [b EXCEPT !.requestRefusals = With(@, e.card, RequestVerdict(b, e))]
  ELSE LET made == IF HasCard(b, e.card) THEN b
                   ELSE [ApplyCardCreated(b, e) EXCEPT
                           !.requests = With(@, e.card, e.submission)]
       IN  [made EXCEPT !.requestRefusals = Without(@, e.card)]

\* same_judgement: everything but the author's clock.
SameJudgement(r, s) == [r EXCEPT !.at = s.at] = s

\* Slip: a retry with the id of a recorded review is judged like a new one.
ReviewVerdictOfRetry(b, r) ==
  LET reviewCard == b.cards[r.reviewCard]
  IN  IF Accepted(b, r.card, r.submission) = {} THEN "UnknownSubmission"
      ELSE IF ~HasCard(b, r.reviewCard) THEN "WrongReviewCard"
      ELSE IF reviewCard.owner # r.by \/ reviewCard.claim # r.claim THEN "WrongClaim"
      ELSE "ok"

\* What validate_for_board answers for a review.
ReviewVerdict(b, r) ==
  LET reviewCard == b.cards[r.reviewCard]
      candidates == Accepted(b, r.card, r.submission)
  IN  IF r.review \in DOMAIN b.reviews
      THEN IF SameJudgement(b.reviews[r.review], r) THEN "ok" ELSE "ConflictingId"
      ELSE IF candidates = {} THEN "UnknownSubmission"
      ELSE IF \E s \in candidates : s.artifact # r.artifact THEN "ArtifactMismatch"
      ELSE IF ~HasCard(b, r.reviewCard) THEN "WrongReviewCard"
      ELSE IF reviewCard.reviews # r.card THEN "WrongReviewCard"
      ELSE IF /\ r.reviewCard \in DOMAIN b.requests
              /\ b.requests[r.reviewCard] # r.submission THEN "WrongReviewCard"
      ELSE IF reviewCard.owner # r.by \/ reviewCard.claim # r.claim THEN "WrongClaim"
      ELSE IF IsSettled(reviewCard.state) THEN "SettledReviewCard"
      ELSE IF reviewCard.expires = None THEN "ExpiredClaim"
      ELSE IF r.at >= reviewCard.expires THEN "ExpiredClaim"
      ELSE "ok"

\* Slip: the judgement published last stands.
ApplyReviewedLastWins(b, r) == [b EXCEPT !.reviews = With(@, r.review, r)]

ApplyReviewed(b, r) ==
  IF ReviewVerdict(b, r) # "ok"
  THEN [b EXCEPT !.reviewRefusals = With(@, r.card, ReviewVerdict(b, r))]
  ELSE IF r.review \in DOMAIN b.reviews THEN b
  ELSE [b EXCEPT !.reviews = With(@, r.review, r)]

(***************************************************************************)
(* Pull requests.                                                          *)
(***************************************************************************)
ApplyPullRequestLinked(card, e) == [card EXCEPT !.pr = e.pr, !.state = "review"]

ApplyPullRequestRelinked(card, e) ==
  IF IsTerminal(card.state) THEN card
  ELSE [card EXCEPT !.pr = e.pr, !.state = "review"]

ApplyPullRequestMerged(card, e) == [card EXCEPT !.pr = e.pr, !.state = "merged"]

(***************************************************************************)
(* Lanes, workspaces, hats and availability.                               *)
(***************************************************************************)
ApplyLaneCreated(b, e) ==
  IF e.lane \in DOMAIN b.lanes THEN b
  ELSE [b EXCEPT !.lanes = With(@, e.lane, [state |-> e.state, cards |-> <<>>])]

ApplyLaneStateChanged(b, e) ==
  IF e.lane \notin DOMAIN b.lanes THEN b
  ELSE [b EXCEPT !.lanes[e.lane].state = e.state]

ApplyWorkspaceRequested(b, e) ==
  IF ~HasCard(b, e.card) THEN b
  ELSE [b EXCEPT !.workspaces =
          With(@, e.workspace, [card |-> e.card, claim |-> e.claim, owner |-> e.by,
                                status |-> "requested", released |-> FALSE])]

\* WorkspaceAllocated, WorkspaceHeartbeat and WorkspaceReleased.
ApplyWorkspaceStatus(b, e) ==
  IF e.workspace \notin DOMAIN b.workspaces THEN b
  ELSE [b EXCEPT !.workspaces[e.workspace].status = e.state,
                 !.workspaces[e.workspace].released = @ \/ e.state = "released"]

ApplyManagerHatClaimed(b, e) ==
  [b EXCEPT !.hats = With(@, e.repo, [manager |-> e.by, expires |-> e.at + e.ttl])]

ApplyManagerHatReleased(b, e) ==
  IF e.repo \in DOMAIN b.hats /\ b.hats[e.repo].manager = e.by
  THEN [b EXCEPT !.hats = Without(@, e.repo)] ELSE b

ApplyAvailability(b, e) ==
  [b EXCEPT !.availability = With(@, <<e.repo, e.by>>,
                                  [state |-> e.state, expires |-> e.at + e.ttl])]

(***************************************************************************)
(* The dispatch.                                                           *)
(***************************************************************************)
CardAfter(card, e) ==
  CASE e.kind = "updated"   -> ApplyCardUpdated(card, e)
    [] e.kind = "claimed"   -> ApplyCardClaimed(card, e)
    [] e.kind = "heartbeat" -> ApplyClaimHeartbeat(card, e)
    [] e.kind = "released"  -> ApplyClaimReleased(card, e)
    [] e.kind = "state"     -> ApplyCardStateChanged(card, e)
    [] e.kind = "submitted" -> ApplyWorkSubmitted(card, e)
    [] e.kind = "linked"    -> ApplyPullRequestLinked(card, e)
    [] e.kind = "relinked"  -> ApplyPullRequestRelinked(card, e)
    [] e.kind = "merged"    -> ApplyPullRequestMerged(card, e)

Apply(b, e) ==
  CASE e.kind = "created"         -> ApplyCardCreated(b, e)
    [] e.kind = "requested"       -> ApplyReviewRequested(b, e)
    [] e.kind = "reviewed"        -> ApplyReviewed(b, e)
    [] e.kind = "lane"            -> ApplyLaneCreated(b, e)
    [] e.kind = "lane_state"      -> ApplyLaneStateChanged(b, e)
    [] e.kind = "workspace"       -> ApplyWorkspaceRequested(b, e)
    [] e.kind = "workspace_state" -> ApplyWorkspaceStatus(b, e)
    [] e.kind = "hat"             -> ApplyManagerHatClaimed(b, e)
    [] e.kind = "hat_off"         -> ApplyManagerHatReleased(b, e)
    [] e.kind = "available"       -> ApplyAvailability(b, e)
    [] OTHER -> IF HasCard(b, e.card) THEN SetCard(b, e.card, CardAfter(b.cards[e.card], e))
                ELSE b
=============================================================================
