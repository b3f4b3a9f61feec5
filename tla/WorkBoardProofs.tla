--------------------------- MODULE WorkBoardProofs --------------------------
(***************************************************************************)
(* What the room's board promises for every set of peers, processes and    *)
(* cards and every interleaving of their reads and publishes.  BoardInv    *)
(* says, for every card, that its lease is whole and measured from its     *)
(* last beat; for every event still to be published, that its author       *)
(* minted the claim it names and its stamp is not ahead of the clock; and  *)
(* for every judgement, that the board still shows what it was made of.    *)
(***************************************************************************)
EXTENDS WorkBoard, SequenceTheorems, TLAPS

BoardFields ==
  {"cards", "requests", "reviews", "requestRefusals", "reviewRefusals",
   "lanes", "workspaces", "hats", "availability"}

CardFields ==
  {"state", "owner", "claim", "selected", "expires", "beat", "pr", "reviews",
   "submissions", "refusal"}

CardKinds ==
  {"updated", "claimed", "heartbeat", "released", "state", "submitted", "linked",
   "relinked", "merged"}

BoardKinds ==
  {"created", "requested", "reviewed", "lane", "lane_state", "workspace",
   "workspace_state", "hat", "hat_off", "available"}

IsSeq(s) == s \in Seq({s[i] : i \in DOMAIN s})

\* A card at time t, the claims being m: the conjuncts of LeaseWhole, and a
\* lease that ends within one ttl of a beat that is not in the future.
CardOK(card, m, t) ==
  /\ DOMAIN card = CardFields
  /\ IsSeq(card.submissions)
  /\ card.claim \in DOMAIN m \cup {None}
  /\ card.owner = IF card.claim = None THEN None ELSE m[card.claim]
  /\ card.expires = None <=> card.claim = None
  /\ card.selected = None <=> card.claim = None
  /\ card.state = "open" => card.claim = None
  /\ card.expires # None =>
       card.expires \in Nat /\ card.beat \in 0..t /\ card.expires <= card.beat + Ttl

\* An event process x has still to publish.
EventOK(x, e) ==
  /\ e.kind \in CardKinds \cup BoardKinds
  /\ e.kind = "claimed" => e = Claim(PeerOf[x], e.card)
  /\ e.kind = "released" => e = Release(PeerOf[x], e.card, e.claim)
  /\ e.kind = "heartbeat" => /\ e = Heartbeat(PeerOf[x], e.card, e.claim)
                             /\ e.claim \in ClaimsOf(PeerOf[x])
  /\ e.kind \in {"state", "submitted", "updated"} => e.by = PeerOf[x] /\ e.at \in 0..now
  /\ e.kind = "reviewed" => e.by = PeerOf[x] /\ e.claim \in ClaimsOf(PeerOf[x])

EventsOK(x, s) ==
  \/ s = <<>>
  \/ s = <<s[1]>> /\ EventOK(x, s[1])
  \/ s = <<s[1], s[2]>> /\ EventOK(x, s[1]) /\ EventOK(x, s[2])

PendingOK ==
  /\ DOMAIN pending = Procs
  /\ \A x \in Procs : EventsOK(x, pending[x])

CardsOK == \A c \in OnBoard : CardOK(board.cards[c], minted, now)

JudgementsOK ==
  /\ \A v \in DOMAIN board.reviews :
       board.reviews[v].reviewCard \in OnBoard /\ board.reviews[v].claim \in DOMAIN minted
  /\ JudgementsBound

BoardTypeOK == now \in Nat /\ minted \in Seq(Peers) /\ DOMAIN board = BoardFields

BoardInv == BoardTypeOK /\ PendingOK /\ CardsOK /\ JudgementsOK

(***************************************************************************)
(* What one event does to the card it names.                               *)
(***************************************************************************)
\* What AcceptedStands and JudgementsBound rest on.
WorkStands(card, after) ==
  /\ after.reviews = card.reviews
  /\ \/ after.submissions = card.submissions
     \/ /\ Tail(after.submissions) = card.submissions
        /\ SubmissionsNamed(card, Head(after.submissions).submission) = {}
  /\ \A id : SubmissionsNamed(card, id) \subseteq SubmissionsNamed(after, id)

\* What LateIsHarmless and HandoverOnRecord say of one card.
CustodyKept(card, e, after) ==
  /\ card.claim # None /\ Lease(after) # Lease(card)
     => \/ e.by = card.owner
        \/ e.kind = "released" /\ e.claim = card.claim
        \/ e.kind = "state" /\ e.state = "open"
        \/ IsTerminal(card.state)
  /\ e.kind = "relinked" /\ IsTerminal(card.state) => after = card
  /\ card.owner # None /\ after.owner \notin {None, card.owner} => IsTerminal(card.state)

\* A card whose submissions and reviews stay keeps its accepted work.
LEMMA SameSubmissions ==
  ASSUME NEW card, NEW after, after.submissions = card.submissions, after.reviews = card.reviews
  PROVE  WorkStands(card, after)
BY Zenon DEF WorkStands, SubmissionsNamed

\* A card that keeps its lease and its work, whatever else changes on it.
LEMMA LeaseUntouched ==
  ASSUME NEW card, NEW m, NEW t, NEW e, NEW after, CardOK(card, m, t),
         DOMAIN after = CardFields, Lease(after) = Lease(card), after.beat = card.beat,
         after.submissions = card.submissions, after.state # "open" \/ after.state = card.state,
         e.kind # "relinked" \/ ~IsTerminal(card.state)
  PROVE  CardOK(after, m, t) /\ CustodyKept(card, e, after)
<1>1. /\ after.owner = card.owner /\ after.claim = card.claim
      /\ after.expires = card.expires /\ after.selected = card.selected
  BY Zenon DEF Lease
<1>2. CardOK(after, m, t)
  BY Zenon, <1>1 DEF CardOK
<1>3. CustodyKept(card, e, after)
  BY Zenon, <1>1 DEF CustodyKept
<1> QED BY Zenon, <1>2, <1>3

\* An event the projection ignores on a card.
LEMMA NothingChanges ==
  ASSUME NEW card, NEW m, NEW t, NEW e, CardOK(card, m, t)
  PROVE  CardOK(card, m, t) /\ WorkStands(card, card) /\ CustodyKept(card, e, card)
BY Zenon, SameSubmissions DEF CustodyKept

\* A card just created has no lease and no work.
LEMMA NewCardOK ==
  ASSUME NEW m \in Seq(Peers), NEW t \in Nat, NEW parent
  PROVE  CardOK(NewCard(parent), m, t)
<1>1. IsSeq(<<>>)
  BY DEF IsSeq
<1> QED BY Zenon, <1>1 DEF CardOK, NewCard, CardFields

\* end_claim, after whatever the event did to the state.
LEMMA EndClaimOK ==
  ASSUME NEW card, NEW m, NEW t, CardOK(card, m, t), NEW s
  PROVE  LET after == EndClaim([card EXCEPT !.state = s])
         IN  /\ CardOK(after, m, t) /\ WorkStands(card, after)
             /\ after.owner = None
<1> DEFINE moved == [card EXCEPT !.state = s]
           after == EndClaim(moved)
<1>1. DOMAIN moved = CardFields /\ moved.submissions = card.submissions /\ moved.reviews = card.reviews
  BY Zenon DEF CardOK, CardFields
<1> HIDE DEF moved
<1>2. /\ DOMAIN after = CardFields /\ after.submissions = card.submissions
      /\ after.reviews = card.reviews
      /\ after.owner = None /\ after.claim = None /\ after.selected = None /\ after.expires = None
  BY Zenon, <1>1 DEF EndClaim, CardFields
<1> HIDE DEF after
<1>3. CardOK(after, m, t)
  BY Zenon, <1>2 DEF CardOK
<1>4. WorkStands(card, after)
  BY Zenon, <1>2, SameSubmissions
<1> QED BY Zenon, <1>2, <1>3, <1>4 DEF after, moved

\* renew_owner_lease: the lease still ends within one ttl of the new beat.
LEMMA RenewOK ==
  ASSUME NEW card, NEW m, NEW t \in Nat, CardOK(card, m, t), NEW actor, NEW at \in 0..t
  PROVE  LET after == RenewOwnerLease(card, actor, at)
         IN  /\ CardOK(after, m, t) /\ WorkStands(card, after)
             /\ after.owner = card.owner /\ after.claim = card.claim
             /\ Lease(after) # Lease(card) => card.owner = actor
<1> DEFINE after == RenewOwnerLease(card, actor, at)
           renewed == at + SaturatingSub(card.expires, card.beat)
<1>1. CASE after = card
  BY Zenon, <1>1, SameSubmissions
<1>2. CASE after # card
  <2>1. /\ card.owner = actor /\ card.claim # None /\ card.expires # None
        /\ after = [card EXCEPT !.expires = renewed, !.beat = at]
    BY Zenon, <1>2 DEF RenewOwnerLease
  <2>2. /\ DOMAIN after = CardFields /\ after.submissions = card.submissions
        /\ after.reviews = card.reviews /\ after.owner = card.owner /\ after.claim = card.claim
        /\ after.selected = card.selected /\ after.state = card.state
        /\ after.expires = renewed /\ after.beat = at
    BY Zenon, <2>1 DEF CardOK, CardFields
  <2>3. renewed \in Nat /\ renewed <= at + Ttl
    BY <2>1, WorkBoardAssumption DEF CardOK, SaturatingSub
  <2>4. renewed # None
    BY Zenon, <2>3, WorkBoardAssumption
  <2> HIDE DEF after, renewed
  <2>5. CardOK(after, m, t)
    BY Zenon, <2>1, <2>2, <2>3, <2>4 DEF CardOK
  <2>6. WorkStands(card, after)
    BY Zenon, <2>2, SameSubmissions
  <2> QED BY Zenon, <2>1, <2>2, <2>5, <2>6 DEF after
<1> QED BY Zenon, <1>1, <1>2

\* The claims are numbered as they are minted, and the clock runs forward.
LEMMA CardOKLater ==
  ASSUME NEW card, NEW m \in Seq(Peers), NEW p \in Peers, NEW t \in Nat, CardOK(card, m, t)
  PROVE  CardOK(card, Append(m, p), t) /\ CardOK(card, m, t + 1)
<1>1. /\ DOMAIN m \subseteq DOMAIN Append(m, p)
      /\ \A i \in DOMAIN m : Append(m, p)[i] = m[i]
  OBVIOUS
<1>2. 0..t \subseteq 0..(t + 1)
  OBVIOUS
<1> QED BY Zenon, <1>1, <1>2 DEF CardOK

\* apply_card_claimed: the winner's lease is whole, and only a released, an own
\* or a terminal card has a winner.
LEMMA ClaimedOK ==
  ASSUME NEW card, NEW m \in Seq(Peers), NEW t \in Nat, CardOK(card, m, t), NEW p \in Peers,
         NEW e, e.kind = "claimed", e.by = p, e.claim = Len(m) + 1, e.at = t, e.ttl = Ttl
  PROVE  LET after == ApplyCardClaimed(card, e)
         IN  /\ CardOK(after, Append(m, p), t) /\ WorkStands(card, after)
             /\ TakeoverSince = 0 => CustodyKept(card, e, after)
<1> DEFINE after == ApplyCardClaimed(card, e)
<1>1. CASE after = card
  BY Zenon, <1>1, NothingChanges, CardOKLater
<1>2. CASE after # card
  <2>1. /\ after = [card EXCEPT !.state = "claimed", !.owner = e.by, !.claim = e.claim,
                                !.selected = e.at, !.expires = e.at + e.ttl, !.beat = e.at]
        /\ ~(/\ e.at >= TakeoverSince
             /\ card.claim # None
             /\ card.owner \notin {None, e.by}
             /\ ~IsTerminal(card.state))
    BY Zenon, <1>2 DEF ApplyCardClaimed
  <2>2. /\ DOMAIN after = CardFields /\ after.submissions = card.submissions
        /\ after.reviews = card.reviews /\ after.owner = p /\ after.claim = Len(m) + 1
        /\ after.selected = t /\ after.state = "claimed"
        /\ after.expires = t + Ttl /\ after.beat = t
    BY <2>1 DEF CardOK, CardFields
  <2>3. /\ t # None /\ t + Ttl \in Nat /\ t + Ttl # None /\ Len(m) + 1 # None /\ p # None
        /\ Len(m) + 1 \in DOMAIN Append(m, p) /\ Append(m, p)[Len(m) + 1] = p
        /\ t \in 0..t /\ t + Ttl <= t + Ttl
    BY WorkBoardAssumption
  <2> HIDE DEF after
  <2>4. CardOK(after, Append(m, p), t)
    BY Zenon, <2>2, <2>3 DEF CardOK
  <2>5. WorkStands(card, after)
    BY Zenon, <2>2, SameSubmissions
  <2>6. ASSUME TakeoverSince = 0, card.claim # None
        PROVE  e.by = card.owner \/ IsTerminal(card.state)
    <3>1. card.owner # None
      BY <2>6, WorkBoardAssumption DEF CardOK
    <3>2. e.at >= TakeoverSince
      BY <2>6
    <3> QED BY Zenon, <2>1, <2>6, <3>1, <3>2
  <2>7. card.owner # None => card.claim # None
    BY Zenon DEF CardOK
  <2>8. TakeoverSince = 0 => CustodyKept(card, e, after)
    BY Zenon, <2>2, <2>6, <2>7 DEF CustodyKept
  <2> QED BY Zenon, <2>4, <2>5, <2>8 DEF after
<1> QED BY Zenon, <1>1, <1>2

\* apply_claim_heartbeat: only the holder minted the claim it names.
LEMMA HeartbeatOK ==
  ASSUME NEW card, NEW m \in Seq(Peers), NEW t \in Nat, CardOK(card, m, t),
         NEW e, e.kind = "heartbeat", e.claim \in DOMAIN m, m[e.claim] = e.by, e.at = t, e.ttl = Ttl
  PROVE  LET after == ApplyClaimHeartbeat(card, e)
         IN  CardOK(after, m, t) /\ WorkStands(card, after) /\ CustodyKept(card, e, after)
<1> DEFINE after == ApplyClaimHeartbeat(card, e)
<1>1. CASE card.claim # e.claim
  BY Zenon, <1>1, NothingChanges DEF ApplyClaimHeartbeat
<1>2. CASE card.claim = e.claim
  <2>1. after = [card EXCEPT !.expires = e.at + e.ttl, !.beat = e.at]
    BY Zenon, <1>2 DEF ApplyClaimHeartbeat
  <2>2. /\ DOMAIN after = CardFields /\ after.submissions = card.submissions
        /\ after.reviews = card.reviews /\ after.owner = card.owner /\ after.claim = card.claim
        /\ after.selected = card.selected /\ after.state = card.state
        /\ after.expires = t + Ttl /\ after.beat = t
    BY Zenon, <2>1 DEF CardOK, CardFields
  <2>3. t + Ttl \in Nat /\ t + Ttl # None /\ t \in 0..t /\ t + Ttl <= t + Ttl /\ card.claim # None
    BY <1>2, WorkBoardAssumption
  <2> HIDE DEF after
  <2>4. CardOK(after, m, t)
    BY Zenon, <2>2, <2>3 DEF CardOK
  <2>5. WorkStands(card, after)
    BY Zenon, <2>2, SameSubmissions
  <2>6. e.by = card.owner
    BY Zenon, <1>2, <2>3 DEF CardOK
  <2>7. CustodyKept(card, e, after)
    BY Zenon, <2>2, <2>6 DEF CustodyKept
  <2> QED BY Zenon, <2>4, <2>5, <2>7 DEF after
<1> QED BY Zenon, <1>1, <1>2

\* apply_claim_released: a release that does not name the standing claim is
\* nothing, and one that does leaves a free card.
LEMMA ReleasedOK ==
  ASSUME NEW card, NEW m, NEW t, CardOK(card, m, t), NEW e, e.kind = "released"
  PROVE  LET after == ApplyClaimReleased(card, e)
         IN  CardOK(after, m, t) /\ WorkStands(card, after) /\ CustodyKept(card, e, after)
<1> DEFINE after == ApplyClaimReleased(card, e)
<1>1. CASE card.claim # e.claim
  BY Zenon, <1>1, NothingChanges DEF ApplyClaimReleased
<1>2. CASE card.claim = e.claim
  <2>1. PICK s : after = EndClaim([card EXCEPT !.state = s])
    BY Zenon, <1>2 DEF ApplyClaimReleased
  <2>2. CardOK(after, m, t) /\ WorkStands(card, after) /\ after.owner = None
    BY <2>1, EndClaimOK
  <2>3. CustodyKept(card, e, after)
    BY Zenon, <1>2, <2>2 DEF CustodyKept
  <2> QED BY Zenon, <2>2, <2>3
<1> QED BY Zenon, <1>1, <1>2

\* apply_card_updated: a selection moves the holder's own mark.
LEMMA UpdatedOK ==
  ASSUME NEW card, NEW m, NEW t \in Nat, CardOK(card, m, t),
         NEW e, e.kind = "updated", e.at \in 0..t
  PROVE  LET after == ApplyCardUpdated(card, e)
         IN  CardOK(after, m, t) /\ WorkStands(card, after) /\ CustodyKept(card, e, after)
<1> DEFINE after == ApplyCardUpdated(card, e)
<1>1. CASE after = card
  BY Zenon, <1>1, NothingChanges
<1>2. CASE after # card
  <2>1. /\ after = [card EXCEPT !.selected = e.at]
        /\ card.owner = e.by /\ card.claim # None
    BY Zenon, <1>2 DEF ApplyCardUpdated
  <2>2. /\ DOMAIN after = CardFields /\ after.submissions = card.submissions
        /\ after.reviews = card.reviews /\ after.owner = card.owner /\ after.claim = card.claim
        /\ after.expires = card.expires /\ after.state = card.state
        /\ after.beat = card.beat /\ after.selected = e.at
    BY Zenon, <2>1 DEF CardOK, CardFields
  <2>3. e.at # None
    BY WorkBoardAssumption
  <2> HIDE DEF after
  <2>4. CardOK(after, m, t)
    BY Zenon, <2>1, <2>2, <2>3 DEF CardOK
  <2>5. WorkStands(card, after)
    BY Zenon, <2>2, SameSubmissions
  <2>6. CustodyKept(card, e, after)
    BY Zenon, <2>1, <2>2 DEF CustodyKept
  <2> QED BY Zenon, <2>4, <2>5, <2>6 DEF after
<1> QED BY Zenon, <1>1, <1>2

\* apply_card_state_changed: a reopen ends the claim, any other move renews it
\* for its owner.
LEMMA StateChangedOK ==
  ASSUME NEW card, NEW m, NEW t \in Nat, CardOK(card, m, t),
         NEW e, e.kind = "state", e.at \in 0..t
  PROVE  LET after == ApplyCardStateChanged(card, e)
         IN  CardOK(after, m, t) /\ WorkStands(card, after) /\ CustodyKept(card, e, after)
<1> DEFINE after == ApplyCardStateChanged(card, e)
           moved == [card EXCEPT !.state = e.state]
<1>1. CASE e.state = "open"
  <2>1. after = EndClaim(moved)
    BY Zenon, <1>1 DEF ApplyCardStateChanged
  <2>2. CardOK(after, m, t) /\ WorkStands(card, after) /\ after.owner = None
    BY <2>1, EndClaimOK
  <2>3. CustodyKept(card, e, after)
    BY Zenon, <1>1, <2>2 DEF CustodyKept
  <2> QED BY Zenon, <2>2, <2>3
<1>2. CASE e.state # "open"
  <2>1. after = RenewOwnerLease(moved, e.by, e.at)
    BY Zenon, <1>2 DEF ApplyCardStateChanged
  <2>2. /\ DOMAIN moved = CardFields /\ moved.submissions = card.submissions
        /\ moved.reviews = card.reviews /\ Lease(moved) = Lease(card) /\ moved.owner = card.owner
        /\ moved.beat = card.beat /\ moved.state = e.state
    BY Zenon DEF CardOK, CardFields, Lease
  <2> HIDE DEF moved, after
  <2>3. CardOK(moved, m, t)
    BY Zenon, <1>2, <2>2, LeaseUntouched
  <2>4. /\ CardOK(after, m, t) /\ WorkStands(moved, after) /\ after.owner = moved.owner
        /\ Lease(after) # Lease(moved) => moved.owner = e.by
    BY <2>1, <2>3, RenewOK
  <2>5. WorkStands(card, after)
    <3>1. \A id : SubmissionsNamed(moved, id) = SubmissionsNamed(card, id)
      BY Zenon, <2>2 DEF SubmissionsNamed
    <3> QED BY Zenon, <2>2, <2>4, <3>1 DEF WorkStands
  <2>6. CustodyKept(card, e, after)
    BY Zenon, <2>2, <2>4 DEF CustodyKept
  <2> QED BY Zenon, <2>4, <2>5, <2>6 DEF after
<1> QED BY Zenon, <1>1, <1>2

\* A sequence is a function on an initial segment of the positive integers.
LEMMA SeqIsSeq ==
  ASSUME NEW R, NEW q \in Seq(R)
  PROVE  IsSeq(q)
<1> DEFINE S == {q[j] : j \in DOMAIN q}
<1>1. Len(q) \in Nat /\ DOMAIN q = 1..Len(q) /\ q \in [1..Len(q) -> R]
  OBVIOUS
<1>2. \A j \in DOMAIN q : q[j] \in S
  BY Zenon
<1> HIDE DEF S
<1>3. q \in [1..Len(q) -> S]
  BY Zenon, <1>1, <1>2
<1>4. q \in Seq(S)
  BY <1>1, <1>3, SeqDef
<1> QED BY Zenon, <1>4 DEF IsSeq, S

\* The sequence with one more candidate at its front.
LEMMA FrontGrows ==
  ASSUME NEW was, IsSeq(was), NEW s
  PROVE  LET is == <<s>> \o was
         IN  /\ IsSeq(is) /\ Head(is) = s /\ Tail(is) = was
             /\ \A i \in DOMAIN was : i + 1 \in DOMAIN is /\ is[i + 1] = was[i]
<1> DEFINE R == {was[i] : i \in DOMAIN was} \cup {s}
           is == <<s>> \o was
<1>1. was \in Seq(R) /\ <<s>> \in Seq(R)
  BY DEF IsSeq
<1>2. /\ is \in Seq(R) /\ Len(is) = Len(was) + 1
      /\ is[1] = s /\ \A i \in 1..Len(was) : is[i + 1] = was[i]
  BY <1>1
<1>4. IsSeq(is)
  BY Zenon, <1>2, SeqIsSeq
<1>5. Head(is) = s
  BY <1>2
<1>6. Tail(is) = was
  <2>1. Tail(is) \in Seq(R) /\ Len(Tail(is)) = Len(was)
    BY <1>2, <1>1
  <2>2. \A i \in 1..Len(was) : Tail(is)[i] = was[i]
    BY <1>2, <1>1
  <2> QED BY <2>1, <2>2, <1>1
<1> QED BY <1>1, <1>2, <1>4, <1>5, <1>6

\* apply_work_submitted: the new candidate goes to the front, with an id that
\* no candidate of the card has.
LEMMA SubmittedOK ==
  ASSUME NEW card, NEW m, NEW t \in Nat, CardOK(card, m, t),
         NEW e, e.kind = "submitted", e.at \in 0..t
  PROVE  LET after == ApplyWorkSubmitted(card, e)
         IN  CardOK(after, m, t) /\ WorkStands(card, after) /\ CustodyKept(card, e, after)
<1> DEFINE after == ApplyWorkSubmitted(card, e)
           grown == [card EXCEPT !.submissions = <<e>> \o @]
<1>1. CASE after = card
  BY Zenon, <1>1, NothingChanges
<1>2. CASE after = [card EXCEPT !.refusal = SubmissionVerdict(card, e)]
  <2>1. /\ DOMAIN after = CardFields /\ after.submissions = card.submissions
        /\ after.reviews = card.reviews /\ Lease(after) = Lease(card)
        /\ after.beat = card.beat /\ after.state = card.state
    BY Zenon, <1>2 DEF CardOK, CardFields, Lease
  <2> HIDE DEF after
  <2> QED BY Zenon, <2>1, LeaseUntouched, SameSubmissions DEF after
<1>3. CASE /\ ~\E i \in DOMAIN card.submissions : SameCandidate(card.submissions[i], e)
           /\ SubmissionVerdict(card, e) = "ok"
           /\ after = RenewOwnerLease(grown, e.by, e.at)
  <2>1. SubmissionsNamed(card, e.submission) = {}
    BY Zenon, <1>3 DEF SubmissionVerdict, SubmissionsNamed
  <2>2. /\ DOMAIN grown = CardFields /\ grown.submissions = <<e>> \o card.submissions
        /\ grown.reviews = card.reviews /\ Lease(grown) = Lease(card) /\ grown.owner = card.owner
        /\ grown.claim = card.claim /\ grown.expires = card.expires
        /\ grown.selected = card.selected /\ grown.beat = card.beat /\ grown.state = card.state
    BY Zenon DEF CardOK, CardFields, Lease
  <2>3. /\ IsSeq(grown.submissions) /\ Head(grown.submissions) = e
        /\ Tail(grown.submissions) = card.submissions
        /\ \A i \in DOMAIN card.submissions :
             i + 1 \in DOMAIN grown.submissions
             /\ grown.submissions[i + 1] = card.submissions[i]
    <3> DEFINE was == card.submissions
               is == <<e>> \o was
    <3>1. IsSeq(was)
      BY Zenon DEF CardOK
    <3> HIDE DEF was
    <3>2. /\ IsSeq(is) /\ Head(is) = e /\ Tail(is) = was
          /\ \A i \in DOMAIN was : i + 1 \in DOMAIN is /\ is[i + 1] = was[i]
      BY Zenon, <3>1, FrontGrows
    <3>3. grown.submissions = is
      BY Zenon, <2>2 DEF was
    <3> HIDE DEF is, grown
    <3> QED BY Zenon, <3>2, <3>3 DEF was
  <2> HIDE DEF grown, after
  <2>4. CardOK(grown, m, t)
    BY Zenon, <2>2, <2>3 DEF CardOK
  <2>5. \A id : SubmissionsNamed(card, id) \subseteq SubmissionsNamed(grown, id)
    BY <2>3 DEF SubmissionsNamed
  <2>6. /\ CardOK(after, m, t) /\ WorkStands(grown, after)
        /\ after.submissions = grown.submissions /\ after.owner = grown.owner
        /\ Lease(after) # Lease(grown) => grown.owner = e.by
    <3>1. after.submissions = grown.submissions
      BY Zenon, <1>3, <2>2 DEF RenewOwnerLease, CardFields
    <3> QED BY <1>3, <2>4, <3>1, RenewOK
  <2>7. WorkStands(card, after)
    BY SMTT(20), <2>1, <2>2, <2>3, <2>5, <2>6 DEF WorkStands
  <2>8. CustodyKept(card, e, after)
    BY Zenon, <2>2, <2>6 DEF CustodyKept
  <2> QED BY Zenon, <2>6, <2>7, <2>8 DEF after
<1> QED BY Zenon, <1>1, <1>2, <1>3 DEF ApplyWorkSubmitted

\* The folds of a pull request's events leave the lease alone.
LEMMA PullRequestOK ==
  ASSUME NEW card, NEW m, NEW t, CardOK(card, m, t),
         NEW e, e.kind \in {"linked", "relinked", "merged"}
  PROVE  LET after == CardAfter(card, e)
         IN  CardOK(after, m, t) /\ WorkStands(card, after) /\ CustodyKept(card, e, after)
<1> DEFINE after == CardAfter(card, e)
<1>1. CASE after = card
  BY Zenon, <1>1, NothingChanges
<1>2. CASE after # card
  <2>1. PICK s \in {"review", "merged"} : after = [card EXCEPT !.pr = e.pr, !.state = s]
    BY Zenon, <1>2 DEF CardAfter, ApplyPullRequestLinked, ApplyPullRequestRelinked,
                ApplyPullRequestMerged
  <2>2. e.kind = "relinked" => ~IsTerminal(card.state)
    BY Zenon, <1>2 DEF CardAfter, ApplyPullRequestRelinked
  <2>3. /\ DOMAIN after = CardFields /\ after.submissions = card.submissions
        /\ after.reviews = card.reviews /\ Lease(after) = Lease(card)
        /\ after.beat = card.beat /\ after.state = s
    BY Zenon, <2>1 DEF CardOK, CardFields, Lease
  <2> HIDE DEF after
  <2> QED BY Zenon, <2>2, <2>3, LeaseUntouched, SameSubmissions DEF after
<1> QED BY Zenon, <1>1, <1>2

(***************************************************************************)
(* What one event does to the board.                                       *)
(***************************************************************************)
CardsMove(b, e, a) ==
  \/ a.cards = b.cards
  \/ /\ e.kind \in {"created", "requested"}
     /\ e.card \notin DOMAIN b.cards
     /\ a.cards = With(b.cards, e.card, NewCard(e.reviews))
  \/ /\ e.kind \in CardKinds
     /\ e.card \in DOMAIN b.cards
     /\ a.cards = With(b.cards, e.card, CardAfter(b.cards[e.card], e))

ReviewsMove(b, e, a) ==
  \/ a.reviews = b.reviews
  \/ /\ e.kind = "reviewed"
     /\ ReviewVerdict(b, e) = "ok"
     /\ e.review \notin DOMAIN b.reviews
     /\ a.reviews = With(b.reviews, e.review, e)
     /\ a.cards = b.cards

HatsMove(b, e, a) ==
  \/ a.hats = b.hats
  \/ /\ e.kind = "hat"
     /\ a.hats = With(b.hats, e.repo, [manager |-> e.by, expires |-> e.at + e.ttl])
  \/ /\ e.kind = "hat_off"
     /\ e.repo \in DOMAIN b.hats
     /\ b.hats[e.repo].manager = e.by
     /\ a.hats = Without(b.hats, e.repo)

BoardMoves(b, e, a) ==
  DOMAIN a = BoardFields /\ CardsMove(b, e, a) /\ ReviewsMove(b, e, a) /\ HatsMove(b, e, a)

\* What an event leaves alone when it only touches other maps.
LEMMA OtherMaps ==
  ASSUME NEW b, NEW e, NEW a, DOMAIN a = BoardFields,
         a.cards = b.cards, a.reviews = b.reviews, a.hats = b.hats
  PROVE  BoardMoves(b, e, a)
BY Zenon DEF BoardMoves, CardsMove, ReviewsMove, HatsMove

\* CardCreated adds a card, or nothing when the id is taken.
LEMMA CreatedMoves ==
  ASSUME NEW b, DOMAIN b = BoardFields, NEW e
  PROVE  LET a == ApplyCardCreated(b, e)
         IN  /\ DOMAIN a = BoardFields /\ a.reviews = b.reviews /\ a.hats = b.hats
             /\ a.cards = IF e.card \in DOMAIN b.cards THEN b.cards
                          ELSE With(b.cards, e.card, NewCard(e.reviews))
<1> DEFINE added == SetCard(b, e.card, NewCard(e.reviews))
           a == ApplyCardCreated(b, e)
<1>1. /\ DOMAIN added = BoardFields /\ added.reviews = b.reviews /\ added.hats = b.hats
      /\ added.cards = With(b.cards, e.card, NewCard(e.reviews))
  BY Zenon DEF SetCard, BoardFields
<1> HIDE DEF added
<1>2. CASE HasCard(b, e.card)
  BY Zenon, <1>2 DEF ApplyCardCreated, HasCard
<1>3. CASE ~HasCard(b, e.card) /\ a = added
  BY Zenon, <1>1, <1>3 DEF HasCard
<1>4. CASE /\ ~HasCard(b, e.card)
           /\ a = [added EXCEPT !.lanes[e.lane].cards = Append(@, e.card)]
  BY Zenon, <1>1, <1>4 DEF HasCard, BoardFields
<1> QED BY Zenon, <1>2, <1>3, <1>4 DEF ApplyCardCreated, added

\* ReviewRequested touches the work card and the board's requests only.
LEMMA RequestedMoves ==
  ASSUME NEW b, DOMAIN b = BoardFields, NEW e, e.kind = "requested"
  PROVE  BoardMoves(b, e, ApplyReviewRequested(b, e))
<1> DEFINE created == ApplyCardCreated(b, e)
           a == ApplyReviewRequested(b, e)
<1>1. CASE RequestVerdict(b, e) # "ok"
  <2>1. a = [b EXCEPT !.requestRefusals = With(@, e.card, RequestVerdict(b, e))]
    BY Zenon, <1>1 DEF ApplyReviewRequested
  <2> QED BY Zenon, <2>1, OtherMaps DEF BoardFields
<1>2. CASE RequestVerdict(b, e) = "ok" /\ HasCard(b, e.card)
  <2>1. a = [b EXCEPT !.requestRefusals = Without(@, e.card)]
    BY Zenon, <1>2 DEF ApplyReviewRequested
  <2> QED BY Zenon, <2>1, OtherMaps DEF BoardFields
<1>3. CASE RequestVerdict(b, e) = "ok" /\ ~HasCard(b, e.card)
  <2> DEFINE made == [created EXCEPT !.requests = With(@, e.card, e.submission)]
  <2>1. a = [made EXCEPT !.requestRefusals = Without(@, e.card)]
    BY Zenon, <1>3 DEF ApplyReviewRequested
  <2>2. /\ DOMAIN created = BoardFields /\ created.reviews = b.reviews /\ created.hats = b.hats
        /\ created.cards = With(b.cards, e.card, NewCard(e.reviews))
    BY Zenon, <1>3, CreatedMoves DEF HasCard
  <2> HIDE DEF created
  <2>3. /\ DOMAIN made = BoardFields /\ made.reviews = b.reviews /\ made.hats = b.hats
        /\ made.cards = With(b.cards, e.card, NewCard(e.reviews))
    BY Zenon, <2>2 DEF BoardFields
  <2> HIDE DEF made
  <2>4. /\ DOMAIN a = BoardFields /\ a.reviews = b.reviews /\ a.hats = b.hats
        /\ a.cards = With(b.cards, e.card, NewCard(e.reviews))
    BY Zenon, <2>1, <2>3 DEF BoardFields
  <2> QED BY Zenon, <1>3, <2>4 DEF BoardMoves, CardsMove, ReviewsMove, HatsMove, HasCard
<1> QED BY Zenon, <1>1, <1>2, <1>3

\* Reviewed touches the work card and the request it answers only.
LEMMA ReviewedMoves ==
  ASSUME NEW b, DOMAIN b = BoardFields, NEW e, e.kind = "reviewed"
  PROVE  BoardMoves(b, e, ApplyReviewed(b, e))
<1> DEFINE a == ApplyReviewed(b, e)
<1>1. CASE ReviewVerdict(b, e) # "ok"
  <2>1. a = [b EXCEPT !.reviewRefusals = With(@, e.card, ReviewVerdict(b, e))]
    BY Zenon, <1>1 DEF ApplyReviewed
  <2> QED BY Zenon, <2>1, OtherMaps DEF BoardFields
<1>2. CASE ReviewVerdict(b, e) = "ok" /\ e.review \in DOMAIN b.reviews
  BY Zenon, <1>2, OtherMaps DEF ApplyReviewed
<1>3. CASE ReviewVerdict(b, e) = "ok" /\ e.review \notin DOMAIN b.reviews
  <2>1. a = [b EXCEPT !.reviews = With(@, e.review, e)]
    BY Zenon, <1>3 DEF ApplyReviewed
  <2>2. /\ DOMAIN a = BoardFields /\ a.cards = b.cards /\ a.hats = b.hats
        /\ a.reviews = With(b.reviews, e.review, e)
    BY Zenon, <2>1 DEF BoardFields
  <2> QED BY Zenon, <1>3, <2>2 DEF BoardMoves, CardsMove, ReviewsMove, HatsMove
<1> QED BY Zenon, <1>1, <1>2, <1>3

\* The manager hat's events touch no card.
LEMMA HatMoves ==
  ASSUME NEW b, DOMAIN b = BoardFields, NEW e
  PROVE  /\ e.kind = "hat" => BoardMoves(b, e, ApplyManagerHatClaimed(b, e))
         /\ e.kind = "hat_off" => BoardMoves(b, e, ApplyManagerHatReleased(b, e))
<1>1. ASSUME e.kind = "hat" PROVE BoardMoves(b, e, ApplyManagerHatClaimed(b, e))
  <2> DEFINE hat == [manager |-> e.by, expires |-> e.at + e.ttl]
             a == ApplyManagerHatClaimed(b, e)
  <2>1. /\ DOMAIN a = BoardFields /\ a.cards = b.cards /\ a.reviews = b.reviews
        /\ a.hats = With(b.hats, e.repo, hat)
    BY Zenon DEF ApplyManagerHatClaimed, BoardFields
  <2> QED BY Zenon, <1>1, <2>1 DEF BoardMoves, CardsMove, ReviewsMove, HatsMove
<1>2. ASSUME e.kind = "hat_off" PROVE BoardMoves(b, e, ApplyManagerHatReleased(b, e))
  <2> DEFINE a == ApplyManagerHatReleased(b, e)
  <2>1. CASE e.repo \in DOMAIN b.hats /\ b.hats[e.repo].manager = e.by
    <3>1. /\ DOMAIN a = BoardFields /\ a.cards = b.cards /\ a.reviews = b.reviews
          /\ a.hats = Without(b.hats, e.repo)
      BY Zenon, <2>1 DEF ApplyManagerHatReleased, BoardFields
    <3> QED BY Zenon, <1>2, <2>1, <3>1 DEF BoardMoves, CardsMove, ReviewsMove, HatsMove
  <2>2. CASE ~(e.repo \in DOMAIN b.hats /\ b.hats[e.repo].manager = e.by)
    BY Zenon, <2>2, OtherMaps DEF ApplyManagerHatReleased
  <2> QED BY Zenon, <2>1, <2>2
<1> QED BY Zenon, <1>1, <1>2

\* The dispatch: whatever the event, at most one card, one judgement and one
\* hat move, each the way its fold says.
LEMMA ApplyMoves ==
  ASSUME NEW b, DOMAIN b = BoardFields, NEW e, e.kind \in CardKinds \cup BoardKinds
  PROVE  BoardMoves(b, e, Apply(b, e))
<1> DEFINE a == Apply(b, e)
<1>1. CASE e.kind = "created"
  <2> DEFINE d == ApplyCardCreated(b, e)
  <2>1. a = d
    BY Zenon, <1>1 DEF Apply
  <2>2. /\ DOMAIN d = BoardFields /\ d.reviews = b.reviews /\ d.hats = b.hats
        /\ d.cards = IF e.card \in DOMAIN b.cards THEN b.cards
                     ELSE With(b.cards, e.card, NewCard(e.reviews))
    BY Zenon, CreatedMoves
  <2> HIDE DEF d
  <2>3. BoardMoves(b, e, d)
    BY Zenon, <1>1, <2>2 DEF BoardMoves, CardsMove, ReviewsMove, HatsMove
  <2> QED BY Zenon, <2>1, <2>3
<1>2. CASE e.kind = "requested"
  BY Zenon, <1>2, RequestedMoves DEF Apply
<1>3. CASE e.kind = "reviewed"
  BY Zenon, <1>3, ReviewedMoves DEF Apply
<1>4. CASE e.kind = "lane"
  <2>1. a = ApplyLaneCreated(b, e)
    BY Zenon, <1>4 DEF Apply
  <2>2. DOMAIN a = BoardFields /\ a.cards = b.cards /\ a.reviews = b.reviews /\ a.hats = b.hats
    BY Zenon, <2>1 DEF ApplyLaneCreated, BoardFields
  <2> QED BY Zenon, <2>2, OtherMaps
<1>5. CASE e.kind = "lane_state"
  <2>1. a = ApplyLaneStateChanged(b, e)
    BY Zenon, <1>5 DEF Apply
  <2>2. DOMAIN a = BoardFields /\ a.cards = b.cards /\ a.reviews = b.reviews /\ a.hats = b.hats
    BY Zenon, <2>1 DEF ApplyLaneStateChanged, BoardFields
  <2> QED BY Zenon, <2>2, OtherMaps
<1>6. CASE e.kind = "workspace"
  <2>1. a = ApplyWorkspaceRequested(b, e)
    BY Zenon, <1>6 DEF Apply
  <2>2. DOMAIN a = BoardFields /\ a.cards = b.cards /\ a.reviews = b.reviews /\ a.hats = b.hats
    BY Zenon, <2>1 DEF ApplyWorkspaceRequested, BoardFields
  <2> QED BY Zenon, <2>2, OtherMaps
<1>7. CASE e.kind = "workspace_state"
  <2>1. a = ApplyWorkspaceStatus(b, e)
    BY Zenon, <1>7 DEF Apply
  <2>2. DOMAIN a = BoardFields /\ a.cards = b.cards /\ a.reviews = b.reviews /\ a.hats = b.hats
    BY Zenon, <2>1 DEF ApplyWorkspaceStatus, BoardFields
  <2> QED BY Zenon, <2>2, OtherMaps
<1>8. CASE e.kind = "hat"
  BY Zenon, <1>8, HatMoves DEF Apply
<1>9. CASE e.kind = "hat_off"
  BY Zenon, <1>9, HatMoves DEF Apply
<1>10. CASE e.kind = "available"
  <2>1. a = ApplyAvailability(b, e)
    BY Zenon, <1>10 DEF Apply
  <2>2. DOMAIN a = BoardFields /\ a.cards = b.cards /\ a.reviews = b.reviews /\ a.hats = b.hats
    BY Zenon, <2>1 DEF ApplyAvailability, BoardFields
  <2> QED BY Zenon, <2>2, OtherMaps
<1>11. CASE e.kind \in CardKinds
  <2>1. a = IF HasCard(b, e.card) THEN SetCard(b, e.card, CardAfter(b.cards[e.card], e)) ELSE b
    BY Zenon, <1>11 DEF Apply, CardKinds
  <2>2. CASE HasCard(b, e.card)
    <3> DEFINE after == CardAfter(b.cards[e.card], e)
    <3>1. a = [b EXCEPT !.cards = With(@, e.card, after)]
      BY Zenon, <2>1, <2>2 DEF SetCard
    <3>2. /\ DOMAIN a = BoardFields /\ a.reviews = b.reviews /\ a.hats = b.hats
          /\ a.cards = With(b.cards, e.card, after)
      BY Zenon, <3>1 DEF BoardFields
    <3> HIDE DEF a, after
    <3> QED BY Zenon, <1>11, <2>2, <3>2 DEF BoardMoves, CardsMove, ReviewsMove, HatsMove, HasCard, a, after
  <2>3. CASE ~HasCard(b, e.card)
    BY Zenon, <2>1, <2>3, OtherMaps
  <2> QED BY Zenon, <2>2, <2>3
<1> QED BY Zenon, <1>1, <1>2, <1>3, <1>4, <1>5, <1>6, <1>7, <1>8, <1>9, <1>10, <1>11 DEF BoardKinds

(***************************************************************************)
(* Publishing keeps BoardInv.                                              *)
(***************************************************************************)
\* What a publish by x relates: the event as stamped, the claims after it, and
\* the board after it.
Publishes(x, e) ==
  /\ e = Stamped(Head(pending[x]))
  /\ board' = Apply(board, e)
  /\ minted' = IF e.kind = "claimed" THEN Append(minted, PeerOf[x]) ELSE minted
  /\ now' = now
  /\ pending' = [pending EXCEPT ![x] = Tail(@)]

\* The event as it goes out: stamped by its author with the clock it was
\* published or decided at, and a claim of its author's.
SentOK(x, e) ==
  /\ e.kind \in CardKinds \cup BoardKinds
  /\ e.kind \in {"claimed", "heartbeat"} => e.by = PeerOf[x] /\ e.at = now /\ e.ttl = Ttl
  /\ e.kind = "claimed" => e.claim = Len(minted) + 1
  /\ e.kind \in {"heartbeat", "reviewed"} => /\ e.by = PeerOf[x]
                                             /\ e.claim \in DOMAIN minted
                                             /\ minted[e.claim] = e.by
  /\ e.kind \in {"state", "submitted", "updated"} => e.by = PeerOf[x] /\ e.at \in 0..now

\* The head and the rest of a well-formed queue of events.
LEMMA HeadIsOK ==
  ASSUME NEW x \in Procs, NEW s, EventsOK(x, s), s # <<>>
  PROVE  EventOK(x, Head(s)) /\ EventsOK(x, Tail(s))
<1>1. CASE s = <<s[1]>> /\ EventOK(x, s[1])
  <2>1. Head(s) = s[1] /\ Tail(s) = <<>>
    <3>1. PICK a : a = s[1]
      BY Zenon
    <3>2. s = <<a>>
      BY Zenon, <1>1, <3>1
    <3> QED BY <3>1, <3>2
  <2> QED BY Zenon, <1>1, <2>1 DEF EventsOK
<1>2. CASE s = <<s[1], s[2]>> /\ EventOK(x, s[1]) /\ EventOK(x, s[2])
  <2>1. Head(s) = s[1] /\ Tail(s) = <<s[2]>>
    <3>1. PICK a, b : a = s[1] /\ b = s[2]
      BY Zenon
    <3>2. s = <<a, b>>
      BY Zenon, <1>2, <3>1
    <3> QED BY <3>1, <3>2
  <2>2. Tail(s)[1] = s[2]
    BY <2>1
  <2> QED BY Zenon, <1>2, <2>1, <2>2 DEF EventsOK
<1> QED BY Zenon, <1>1, <1>2 DEF EventsOK

\* Stamping an event at publication keeps its kind, card and author.
LEMMA StampedIsOK ==
  ASSUME BoardTypeOK, NEW x \in Procs, NEW h, EventOK(x, h)
  PROVE  LET e == Stamped(h)
         IN  /\ SentOK(x, e) /\ e.kind = h.kind
             /\ h.kind \in CardKinds => e.card = h.card /\ e.by = h.by
             /\ h.kind # "claimed" => e.claim = h.claim
             /\ h.kind \notin {"claimed", "released", "heartbeat"} => e = h
<1> DEFINE e == Stamped(h)
<1>0. now \in Nat /\ minted \in Seq(Peers) /\ PeerOf[x] \in Peers
  BY Zenon, WorkBoardAssumption DEF BoardTypeOK
<1>1. CASE h.kind = "claimed"
  <2>1. h = Claim(PeerOf[x], h.card)
    BY Zenon, <1>1 DEF EventOK
  <2>2. e = [h EXCEPT !.at = now, !.claim = Len(minted) + 1]
    BY Zenon, <1>1 DEF Stamped
  <2>3. /\ e.kind = "claimed" /\ e.card = h.card /\ e.by = PeerOf[x] /\ h.by = PeerOf[x]
        /\ e.ttl = Ttl /\ e.at = now /\ e.claim = Len(minted) + 1
    BY <2>1, <2>2 DEF Claim
  <2> QED BY Zenon, <1>1, <2>3 DEF SentOK, CardKinds
<1>2. CASE h.kind = "released"
  <2>1. h = Release(PeerOf[x], h.card, h.claim)
    BY Zenon, <1>2 DEF EventOK
  <2>2. e = [h EXCEPT !.at = now]
    BY Zenon, <1>2 DEF Stamped
  <2>3. /\ e.kind = "released" /\ e.card = h.card /\ e.by = PeerOf[x] /\ h.by = PeerOf[x]
        /\ e.at = now /\ e.claim = h.claim
    BY <2>1, <2>2 DEF Release
  <2> QED BY Zenon, <1>2, <2>3 DEF SentOK, CardKinds
<1>3. CASE h.kind = "heartbeat"
  <2>1. h = Heartbeat(PeerOf[x], h.card, h.claim) /\ h.claim \in ClaimsOf(PeerOf[x])
    BY Zenon, <1>3 DEF EventOK
  <2>2. e = [h EXCEPT !.at = now]
    BY Zenon, <1>3 DEF Stamped
  <2>3. /\ e.kind = "heartbeat" /\ e.card = h.card /\ e.by = PeerOf[x] /\ h.by = PeerOf[x]
        /\ e.ttl = Ttl /\ e.at = now /\ e.claim = h.claim
    BY <2>1, <2>2 DEF Heartbeat
  <2> QED BY Zenon, <1>3, <2>1, <2>3 DEF SentOK, CardKinds, ClaimsOf
<1>4. CASE h.kind \notin {"claimed", "released", "heartbeat"}
  <2>1. e = h
    BY Zenon, <1>4 DEF Stamped
  <2> QED BY Zenon, <1>4, <2>1 DEF SentOK, EventOK, ClaimsOf
<1> QED BY Zenon, <1>1, <1>2, <1>3, <1>4

\* The card an event names, after the event.
LEMMA CardAfterOK ==
  ASSUME BoardTypeOK, NEW x \in Procs, NEW e, SentOK(x, e), e.kind \in CardKinds,
         NEW card, CardOK(card, minted, now)
  PROVE  LET after == CardAfter(card, e)
             m == IF e.kind = "claimed" THEN Append(minted, PeerOf[x]) ELSE minted
         IN  /\ CardOK(after, m, now) /\ WorkStands(card, after)
             /\ TakeoverSince = 0 => CustodyKept(card, e, after)
<1>0. now \in Nat /\ minted \in Seq(Peers) /\ PeerOf[x] \in Peers
  BY Zenon, WorkBoardAssumption DEF BoardTypeOK
<1>1. CASE e.kind = "claimed"
  <2>1. CardAfter(card, e) = ApplyCardClaimed(card, e)
    BY Zenon, <1>1 DEF CardAfter
  <2> QED BY Zenon, <1>0, <1>1, <2>1, ClaimedOK DEF SentOK
<1>2. CASE e.kind = "heartbeat"
  <2>1. CardAfter(card, e) = ApplyClaimHeartbeat(card, e)
    BY Zenon, <1>2 DEF CardAfter
  <2> QED BY Zenon, <1>0, <1>2, <2>1, HeartbeatOK DEF SentOK
<1>3. CASE e.kind = "released"
  <2>1. CardAfter(card, e) = ApplyClaimReleased(card, e)
    BY Zenon, <1>3 DEF CardAfter
  <2> QED BY Zenon, <1>3, <2>1, ReleasedOK
<1>4. CASE e.kind = "updated"
  <2>1. CardAfter(card, e) = ApplyCardUpdated(card, e)
    BY Zenon, <1>4 DEF CardAfter
  <2> QED BY Zenon, <1>0, <1>4, <2>1, UpdatedOK DEF SentOK
<1>5. CASE e.kind = "state"
  <2>1. CardAfter(card, e) = ApplyCardStateChanged(card, e)
    BY Zenon, <1>5 DEF CardAfter
  <2> QED BY Zenon, <1>0, <1>5, <2>1, StateChangedOK DEF SentOK
<1>6. CASE e.kind = "submitted"
  <2>1. CardAfter(card, e) = ApplyWorkSubmitted(card, e)
    BY Zenon, <1>6 DEF CardAfter
  <2> QED BY Zenon, <1>0, <1>6, <2>1, SubmittedOK DEF SentOK
<1>7. CASE e.kind \in {"linked", "relinked", "merged"}
  BY <1>7, PullRequestOK
<1> QED BY Zenon, <1>1, <1>2, <1>3, <1>4, <1>5, <1>6, <1>7 DEF CardKinds

\* Every card after the event: a card that was on the board stands as the folds
\* say, and a new one has the shape of a new one.
LEMMA CardsAfter ==
  ASSUME BoardTypeOK, CardsOK, NEW x \in Procs, NEW e, SentOK(x, e), Publishes(x, e)
  PROVE  /\ CardsOK'
         /\ OnBoard \subseteq OnBoard'
         /\ \A c \in OnBoard : WorkStands(board.cards[c], board'.cards[c])
         /\ \A c \in OnBoard : board'.cards[c] # board.cards[c] =>
              /\ e.card = c /\ e.kind \in CardKinds
              /\ TakeoverSince = 0 => CustodyKept(board.cards[c], e, board'.cards[c])
<1> DEFINE m == IF e.kind = "claimed" THEN Append(minted, PeerOf[x]) ELSE minted
<1>0. now \in Nat /\ minted \in Seq(Peers) /\ PeerOf[x] \in Peers
  BY Zenon, WorkBoardAssumption DEF BoardTypeOK
<1>1. minted' = m /\ now' = now /\ CardsMove(board, e, board')
  BY Zenon, ApplyMoves DEF Publishes, BoardTypeOK, SentOK, BoardMoves
<1>2. \A c \in OnBoard : CardOK(board.cards[c], m, now)
  BY Zenon, <1>0, CardOKLater DEF CardsOK
<1>3. m \in Seq(Peers)
  BY <1>0
<1> HIDE DEF m
<1>4. CASE board'.cards = board.cards
  <2>1. CardsOK' /\ OnBoard \subseteq OnBoard'
    BY Zenon, <1>1, <1>2, <1>4 DEF CardsOK, OnBoard
  <2> QED BY Zenon, <1>4, <2>1, SameSubmissions
<1>5. CASE /\ e.card \notin DOMAIN board.cards
           /\ board'.cards = With(board.cards, e.card, NewCard(e.reviews))
  <2>1. /\ DOMAIN board'.cards = OnBoard \cup {e.card}
        /\ board'.cards[e.card] = NewCard(e.reviews)
        /\ \A c \in OnBoard : board'.cards[c] = board.cards[c]
    BY Zenon, <1>5 DEF With, OnBoard
  <2>2. CardOK(NewCard(e.reviews), m, now)
    BY Zenon, <1>0, <1>3, NewCardOK
  <2>3. CardsOK' /\ OnBoard \subseteq OnBoard'
    BY Zenon, <1>1, <1>2, <2>1, <2>2 DEF CardsOK, OnBoard
  <2> QED BY Zenon, <2>1, <2>3, SameSubmissions
<1>6. CASE /\ e.kind \in CardKinds
           /\ e.card \in DOMAIN board.cards
           /\ board'.cards = With(board.cards, e.card, CardAfter(board.cards[e.card], e))
  <2> DEFINE after == CardAfter(board.cards[e.card], e)
  <2>1. /\ DOMAIN board'.cards = OnBoard
        /\ board'.cards[e.card] = after
        /\ \A c \in OnBoard : c # e.card => board'.cards[c] = board.cards[c]
    BY Zenon, <1>6 DEF With, OnBoard
  <2>2. CardOK(board.cards[e.card], minted, now)
    BY Zenon, <1>6 DEF CardsOK, OnBoard
  <2>3. /\ CardOK(after, m, now) /\ WorkStands(board.cards[e.card], after)
        /\ TakeoverSince = 0 => CustodyKept(board.cards[e.card], e, after)
    BY Zenon, <1>6, <2>2, CardAfterOK DEF m
  <2> HIDE DEF after
  <2>4. CardsOK' /\ OnBoard \subseteq OnBoard'
    BY Zenon, <1>1, <1>2, <2>1, <2>3 DEF CardsOK, OnBoard
  <2> QED BY Zenon, <1>6, <2>1, <2>3, <2>4, SameSubmissions
<1> QED BY Zenon, <1>1, <1>4, <1>5, <1>6 DEF CardsMove

\* A judgement is recorded from what the board showed, and the board still
\* shows it afterwards.
LEMMA JudgementsAfter ==
  ASSUME BoardTypeOK, CardsOK, JudgementsOK, NEW x \in Procs, NEW e, SentOK(x, e), Publishes(x, e)
  PROVE  JudgementsOK'
<1>0. minted \in Seq(Peers) /\ PeerOf[x] \in Peers
  BY Zenon, WorkBoardAssumption DEF BoardTypeOK
<1>1. ReviewsMove(board, e, board')
  BY Zenon, ApplyMoves DEF Publishes, BoardTypeOK, SentOK, BoardMoves
<1>2. /\ OnBoard \subseteq OnBoard'
      /\ \A c \in OnBoard : WorkStands(board.cards[c], board'.cards[c])
  BY Zenon, CardsAfter
<1>3. DOMAIN minted \subseteq DOMAIN minted' /\ \A i \in DOMAIN minted : minted'[i] = minted[i]
  BY <1>0 DEF Publishes
<1>4. \A c, id : Accepted(board, c, id) \subseteq Accepted(board', c, id)
  BY Zenon, <1>2 DEF Accepted, HasCard, OnBoard, WorkStands
<1>5. ASSUME NEW r, r.reviewCard \in OnBoard, board.cards[r.reviewCard].reviews = r.card,
             r.claim \in DOMAIN minted, minted[r.claim] = r.by,
             \E s \in Accepted(board, r.card, r.submission) : s.artifact = r.artifact
      PROVE  /\ r.reviewCard \in OnBoard' /\ r.claim \in DOMAIN minted'
             /\ board'.cards[r.reviewCard].reviews = r.card
             /\ minted'[r.claim] = r.by
             /\ \E s \in Accepted(board', r.card, r.submission) : s.artifact = r.artifact
  <2>1. board'.cards[r.reviewCard].reviews = board.cards[r.reviewCard].reviews
    BY Zenon, <1>2, <1>5 DEF WorkStands
  <2> QED BY Zenon, <1>2, <1>3, <1>4, <1>5, <2>1
<1>6. CASE board'.reviews = board.reviews
  BY <1>5, <1>6 DEF JudgementsOK, JudgementsBound
<1>7. CASE /\ e.kind = "reviewed"
           /\ ReviewVerdict(board, e) = "ok"
           /\ e.review \notin DOMAIN board.reviews
           /\ board'.reviews = With(board.reviews, e.review, e)
  <2>1. /\ DOMAIN board'.reviews = DOMAIN board.reviews \cup {e.review}
        /\ board'.reviews[e.review] = e
        /\ \A v \in DOMAIN board.reviews : board'.reviews[v] = board.reviews[v]
    BY Zenon, <1>7 DEF With
  <2>2. /\ e.reviewCard \in OnBoard /\ board.cards[e.reviewCard].reviews = e.card
        /\ \E s \in Accepted(board, e.card, e.submission) : s.artifact = e.artifact
    BY Zenon, <1>7 DEF ReviewVerdict, HasCard, OnBoard
  <2>3. e.claim \in DOMAIN minted /\ minted[e.claim] = e.by
    BY Zenon, <1>7 DEF SentOK
  <2> QED BY SMTT(20), <1>5, <2>1, <2>2, <2>3 DEF JudgementsOK, JudgementsBound
<1> QED BY Zenon, <1>1, <1>6, <1>7 DEF ReviewsMove

\* What x has yet to publish stays as it should be while the claims and the
\* clock grow.
LEMMA EventsOKLater ==
  ASSUME BoardTypeOK, NEW y \in Procs, NEW s, EventsOK(y, s),
         now' \in Nat, now <= now',
         DOMAIN minted \subseteq DOMAIN minted', \A i \in DOMAIN minted : minted'[i] = minted[i]
  PROVE  EventsOK(y, s)'
<1>1. \A p : ClaimsOf(p) \subseteq ClaimsOf(p)'
  BY Zenon DEF ClaimsOf
<1>2. 0..now \subseteq 0..now'
  BY DEF BoardTypeOK
<1>3. \A e : EventOK(y, e) => EventOK(y, e)'
  BY Zenon, <1>1, <1>2 DEF EventOK
<1> QED BY Zenon, <1>3 DEF EventsOK

\* What a publication appends to the room.
LEMMA PublishIs ==
  ASSUME BoardInv, NEW x \in Procs, PublishWorkEvent(x)
  PROVE  LET e == Stamped(Head(pending[x]))
         IN  Publishes(x, e) /\ SentOK(x, e) /\ EventOK(x, Head(pending[x]))
<1>1. EventOK(x, Head(pending[x]))
  BY Zenon, HeadIsOK DEF BoardInv, PendingOK, PublishWorkEvent
<1>2. SentOK(x, Stamped(Head(pending[x])))
  BY Zenon, <1>1, StampedIsOK DEF BoardInv
<1> QED BY Zenon, <1>1, <1>2 DEF Publishes, PublishWorkEvent

\* Publishing the next pending event keeps BoardInv.
LEMMA PublishKeeps ==
  ASSUME BoardInv, NEW x \in Procs, PublishWorkEvent(x)
  PROVE  BoardInv'
<1> DEFINE e == Stamped(Head(pending[x]))
<1>1. Publishes(x, e) /\ SentOK(x, e)
  BY Zenon, PublishIs
<1> HIDE DEF e
<1>2. CardsOK' /\ JudgementsOK'
  BY Zenon, <1>1, CardsAfter, JudgementsAfter DEF BoardInv
<1>3. now \in Nat /\ minted \in Seq(Peers) /\ PeerOf[x] \in Peers
  BY Zenon, WorkBoardAssumption DEF BoardInv, BoardTypeOK
<1>4. BoardMoves(board, e, board')
  BY Zenon, <1>1, ApplyMoves DEF Publishes, BoardInv, BoardTypeOK, SentOK
<1>5. BoardTypeOK'
  BY <1>1, <1>3, <1>4 DEF Publishes, BoardTypeOK, BoardMoves
<1>6. /\ now' \in Nat /\ now <= now'
      /\ DOMAIN minted \subseteq DOMAIN minted' /\ \A i \in DOMAIN minted : minted'[i] = minted[i]
  BY <1>1, <1>3 DEF Publishes
<1>7. PendingOK'
  <2>1. DOMAIN pending' = Procs /\ pending'[x] = Tail(pending[x])
    BY Zenon, <1>1 DEF Publishes, BoardInv, PendingOK
  <2>2. \A y \in Procs : y # x => pending'[y] = pending[y]
    BY Zenon, <1>1 DEF Publishes, BoardInv, PendingOK
  <2>3. EventsOK(x, Tail(pending[x])) /\ \A y \in Procs : EventsOK(y, pending[y])
    BY Zenon, HeadIsOK DEF BoardInv, PendingOK, PublishWorkEvent
  <2>4. PICK tail : tail = Tail(pending[x])
    BY Zenon
  <2>5. EventsOK(x, tail)'
    BY Zenon, <1>6, <2>3, <2>4, EventsOKLater DEF BoardInv
  <2>6. ASSUME NEW y \in Procs, y # x PROVE EventsOK(y, pending[y])'
    <3>1. PICK s : s = pending[y]
      BY Zenon
    <3>2. EventsOK(y, s)'
      BY Zenon, <1>6, <2>3, <3>1, EventsOKLater DEF BoardInv
    <3>3. pending'[y] = s
      BY Zenon, <2>2, <2>6, <3>1
    <3> QED BY Zenon, <3>2, <3>3
  <2>7. EventsOK(x, pending[x])'
    BY Zenon, <2>1, <2>4, <2>5
  <2> QED BY Zenon, <2>1, <2>6, <2>7 DEF PendingOK
<1> QED BY Zenon, <1>2, <1>5, <1>7 DEF BoardInv

\* Time passing keeps BoardInv: leases are bounded by what was recorded.
LEMMA TickKeeps == BoardInv /\ Tick => BoardInv'
<1> SUFFICES ASSUME BoardInv, Tick PROVE BoardInv'
  BY Zenon
<1>1. /\ now' = now + 1 /\ now \in Nat /\ minted \in Seq(Peers)
      /\ UNCHANGED <<board, minted, pending>>
  BY Zenon DEF Tick, BoardInv, BoardTypeOK
<1>2. BoardTypeOK' /\ JudgementsOK'
  BY <1>1 DEF BoardInv, BoardTypeOK, JudgementsOK, JudgementsBound, OnBoard
<1>3. CardsOK'
  <2>1. \A c \in OnBoard : CardOK(board.cards[c], minted, now + 1)
    <3> SUFFICES ASSUME NEW c \in OnBoard PROVE CardOK(board.cards[c], minted, now + 1)
      BY Zenon
    <3>1. 0..now \subseteq 0..(now + 1)
      BY <1>1
    <3> QED BY Zenon, <3>1 DEF BoardInv, CardsOK, CardOK
  <2> QED BY Zenon, <1>1, <2>1 DEF CardsOK, OnBoard
<1>4. PendingOK'
  <2>1. ASSUME NEW y \in Procs PROVE EventsOK(y, pending[y])'
    <3>1. PICK s : s = pending[y]
      BY Zenon
    <3>2. EventsOK(y, s)'
      BY <1>1, <3>1, EventsOKLater DEF BoardInv, PendingOK
    <3> QED BY Zenon, <1>1, <3>1, <3>2
  <2> QED BY Zenon, <1>1, <2>1 DEF BoardInv, PendingOK
<1> QED BY Zenon, <1>2, <1>3, <1>4 DEF BoardInv

\* What a process has pending is right whatever else happens, as long as the
\* clock and the claims minted stand.
LEMMA EventsStay ==
  ASSUME UNCHANGED <<now, minted>>, NEW y, NEW q, EventsOK(y, q)
  PROVE  EventsOK(y, q)'
<1>1. ClaimsOf(PeerOf[y])' = ClaimsOf(PeerOf[y])
  BY Zenon DEF ClaimsOf
<1>2. ASSUME NEW e, EventOK(y, e) PROVE EventOK(y, e)'
  BY Zenon, <1>1, <1>2 DEF EventOK
<1> QED BY Zenon, <1>2 DEF EventsOK

(***************************************************************************)
(* Starting an operation, and dying in it, changes what is pending only.   *)
(***************************************************************************)
LEMMA PendingKeeps ==
  ASSUME BoardInv, NEW x \in Procs, NEW s, EventsOK(x, s),
         pending' = [pending EXCEPT ![x] = s], UNCHANGED <<board, now, minted>>
  PROVE  BoardInv'
<1>1. BoardTypeOK' /\ CardsOK' /\ JudgementsOK'
  BY Zenon DEF BoardInv, BoardTypeOK, CardsOK, JudgementsOK, JudgementsBound, OnBoard
<1>2. \A y, q : EventsOK(y, q) => EventsOK(y, q)'
  BY Zenon, EventsStay
<1>3. DOMAIN pending' = Procs /\ \A y \in Procs : pending'[y] = IF y = x THEN s ELSE pending[y]
  BY Zenon DEF BoardInv, PendingOK
<1>4. \A y \in Procs : EventsOK(y, pending'[y])
  BY Zenon, <1>3 DEF BoardInv, PendingOK
<1>5. PendingOK'
  BY Zenon, <1>2, <1>3, <1>4 DEF PendingOK
<1> QED BY Zenon, <1>1, <1>5 DEF BoardInv

\* A command that goes on to publish one event keeps BoardInv.
LEMMA BeginKeeps ==
  ASSUME BoardInv, NEW x \in Procs, NEW verb, NEW e, EventOK(x, e), Begin(x, verb, <<e>>)
  PROVE  BoardInv'
<1>1. EventsOK(x, <<e>>)
  BY Zenon DEF EventsOK
<1> QED BY Zenon, <1>1, PendingKeeps DEF Begin

\* The claim gate: a resume names the owner's own claim.
LEMMA ClaimKeeps ==
  ASSUME BoardInv, NEW x \in Procs, ClaimWorkCard(x)
  PROVE  BoardInv'
<1>1. PICK c \in OnBoard : /\ ClaimEvents(PeerOf[x], c) # <<>>
                           /\ Begin(x, "claim", ClaimEvents(PeerOf[x], c))
  BY Zenon DEF ClaimWorkCard
<1> DEFINE p == PeerOf[x]
           card == board.cards[c]
           i == card.claim
           s == ClaimEvents(p, c)
<1>2. CardOK(card, minted, now) /\ p \in Peers /\ p # None
  BY Zenon, WorkBoardAssumption DEF BoardInv, CardsOK
<1>3. EventOK(x, Claim(p, c))
  BY Zenon DEF EventOK, Claim, CardKinds
<1>4. EventOK(x, Release(p, c, i))
  BY Zenon DEF EventOK, Release, CardKinds
<1>5. CASE ClaimGate(card, p) = "resume"
  <2>1. s = <<Heartbeat(p, c, i)>>
    BY Zenon, <1>5 DEF ClaimEvents
  <2>2. card.owner = p /\ card.claim # None
    BY Zenon, <1>5 DEF ClaimGate, OwnerResumes
  <2>3. i \in ClaimsOf(p)
    BY Zenon, <1>2, <2>2 DEF CardOK, ClaimsOf
  <2>4. EventOK(x, Heartbeat(p, c, i))
    BY Zenon, <2>3 DEF EventOK, Heartbeat, CardKinds
  <2>5. Begin(x, "claim", <<Heartbeat(p, c, i)>>)
    BY Zenon, <1>1, <2>1
  <2> QED BY Zenon, <2>4, <2>5, BeginKeeps
<1>6. CASE ClaimGate(card, p) = "takeover"
  <2>1. s = <<Release(p, c, i), Claim(p, c)>>
    BY Zenon, <1>6 DEF ClaimEvents
  <2>2. EventsOK(x, <<Release(p, c, i), Claim(p, c)>>)
    BY Zenon, <1>3, <1>4 DEF EventsOK
  <2> QED BY Zenon, <1>1, <2>1, <2>2, PendingKeeps DEF Begin
<1>7. CASE ClaimGate(card, p) = "fresh"
  <2>1. s = <<Claim(p, c)>>
    BY Zenon, <1>7 DEF ClaimEvents
  <2> QED BY Zenon, <1>1, <1>3, <2>1, BeginKeeps
<1>8. CASE ClaimGate(card, p) \notin {"resume", "takeover", "fresh"}
  <2>1. s = <<>>
    BY Zenon, <1>8 DEF ClaimEvents
  <2> QED BY Zenon, <1>1, <2>1
<1> QED BY Zenon, <1>5, <1>6, <1>7, <1>8

\* Every other operation publishes one event, stamped no later than now and
\* with a claim its author minted.
LEMMA OperationKeeps ==
  ASSUME BoardInv, NEW x \in Procs,
         \/ CreateWorkCard(x) \/ HeartbeatWorkClaim(x) \/ ReleaseWorkClaim(x)
         \/ SelectWorkClaim(x) \/ ChangeWorkCardState(x) \/ LinkCardPullRequest(x)
         \/ RelinkCardPullRequest(x) \/ MarkPullRequestMerged(x) \/ SubmitWork(x)
         \/ EnsureSubmissionReview(x) \/ ReviewWorkSubmission(x)
         \/ CreateWorkLane(x) \/ ChangeWorkLaneState(x) \/ RequestWorkspace(x)
         \/ ReportWorkspace(x) \/ ClaimManagerHat(x) \/ ReleaseManagerHat(x)
         \/ ReportAgentAvailability(x)
  PROVE  BoardInv'
<1>0. now \in 0..now
  BY DEF BoardInv, BoardTypeOK
<1> SUFFICES \E verb, e : EventOK(x, e) /\ Begin(x, verb, <<e>>)
  BY Zenon, BeginKeeps
<1> USE DEF CardKinds, BoardKinds
<1>1. CASE CreateWorkCard(x)
  BY Zenon, <1>1 DEF CreateWorkCard, EventOK
<1>2. CASE HeartbeatWorkClaim(x)
  BY Zenon, <1>2 DEF HeartbeatWorkClaim, EventOK, Heartbeat
<1>3. CASE ReleaseWorkClaim(x)
  BY Zenon, <1>3 DEF ReleaseWorkClaim, EventOK, Release
<1>4. CASE SelectWorkClaim(x)
  BY Zenon, <1>0, <1>4 DEF SelectWorkClaim, EventOK
<1>5. CASE ChangeWorkCardState(x)
  BY Zenon, <1>0, <1>5 DEF ChangeWorkCardState, EventOK
<1>6. CASE LinkCardPullRequest(x)
  BY Zenon, <1>6 DEF LinkCardPullRequest, EventOK
<1>7. CASE RelinkCardPullRequest(x)
  BY Zenon, <1>7 DEF RelinkCardPullRequest, EventOK
<1>8. CASE MarkPullRequestMerged(x)
  BY Zenon, <1>8 DEF MarkPullRequestMerged, EventOK
<1>9. CASE SubmitWork(x)
  BY <1>0, <1>9 DEF SubmitWork, EventOK
<1>10. CASE EnsureSubmissionReview(x)
  BY ZenonT(30), <1>10 DEF EnsureSubmissionReview, EventOK
<1>11. CASE ReviewWorkSubmission(x)
  BY <1>11 DEF ReviewWorkSubmission, EventOK
<1>12. CASE CreateWorkLane(x)
  BY Zenon, <1>12 DEF CreateWorkLane, EventOK
<1>13. CASE ChangeWorkLaneState(x)
  BY Zenon, <1>13 DEF ChangeWorkLaneState, EventOK
<1>14. CASE RequestWorkspace(x)
  BY Zenon, <1>14 DEF RequestWorkspace, EventOK
<1>15. CASE ReportWorkspace(x)
  BY Zenon, <1>15 DEF ReportWorkspace, EventOK
<1>16. CASE ClaimManagerHat(x)
  BY Zenon, <1>16 DEF ClaimManagerHat, EventOK
<1>17. CASE ReleaseManagerHat(x)
  BY Zenon, <1>17 DEF ReleaseManagerHat, EventOK
<1>18. CASE ReportAgentAvailability(x)
  BY Zenon, <1>18 DEF ReportAgentAvailability, EventOK
<1> QED BY Zenon, <1>1, <1>2, <1>3, <1>4, <1>5, <1>6, <1>7, <1>8, <1>9, <1>10, <1>11, <1>12, <1>13,
           <1>14, <1>15, <1>16, <1>17, <1>18

\* Dying in an operation forgets what was pending.
LEMMA CrashKeeps ==
  ASSUME BoardInv, NEW x \in Procs, Crash(x)
  PROVE  BoardInv'
<1>1. EventsOK(x, <<>>)
  BY Zenon DEF EventsOK
<1> QED BY Zenon, <1>1, PendingKeeps DEF Crash

\* BoardInv holds in every state of the room.
THEOREM BoardInvariant == BoardSpec => []BoardInv
<1>1. BoardInit => BoardInv
  <2> SUFFICES ASSUME BoardInit PROVE BoardInv
    BY Zenon
  <2>1. /\ DOMAIN board = BoardFields /\ DOMAIN board.cards = {} /\ DOMAIN board.reviews = {}
    BY Zenon DEF BoardInit, EmptyBoard, EmptyMap, BoardFields
  <2>2. BoardTypeOK
    BY <2>1 DEF BoardInit, BoardTypeOK
  <2>3. PendingOK
    BY Zenon DEF BoardInit, PendingOK, EventsOK
  <2> QED BY Zenon, <2>1, <2>2, <2>3 DEF BoardInv, CardsOK, JudgementsOK, JudgementsBound, OnBoard
<1>2. BoardInv /\ UNCHANGED boardVars => BoardInv'
  <2> SUFFICES ASSUME BoardInv, UNCHANGED boardVars PROVE BoardInv'
    BY Zenon
  <2>1. BoardTypeOK' /\ CardsOK' /\ JudgementsOK'
    BY Zenon DEF boardVars, BoardInv, BoardTypeOK, CardsOK, JudgementsOK, JudgementsBound, OnBoard
  <2>2. \A y, q : EventsOK(y, q) => EventsOK(y, q)'
    BY Zenon, EventsStay DEF boardVars
  <2>3. PendingOK'
    BY Zenon, <2>2 DEF boardVars, BoardInv, PendingOK
  <2> QED BY Zenon, <2>1, <2>3 DEF BoardInv
<1>3. BoardInv /\ BoardNext => BoardInv'
  BY Zenon, ClaimKeeps, OperationKeeps, PublishKeeps, CrashKeeps, TickKeeps DEF BoardNext
<1> QED BY <1>1, <1>2, <1>3, PTL DEF BoardSpec

\* The lease of a card is whole in every state: owner, claim, expiry and
\* selection come and go together, and an Open card has none (end_claim).
THEOREM LeasesAreWhole == BoardSpec => []LeaseWhole
<1>1. BoardInv => LeaseWhole
  <2> SUFFICES ASSUME BoardInv PROVE LeaseWhole
    BY Zenon
  <2>1. \A c \in OnBoard : CardOK(CardNow(c), minted, now)
    BY Zenon DEF BoardInv, CardsOK, CardNow
  <2>2. \A c \in OnBoard :
          LET card == CardNow(c)
          IN  /\ card.owner = IF card.claim = None THEN None ELSE minted[card.claim]
              /\ card.expires = None <=> card.claim = None
              /\ card.selected = None <=> card.claim = None
              /\ card.state = "open" => card.claim = None
    BY Zenon, <2>1 DEF CardOK
  <2> QED BY Zenon, <2>2 DEF LeaseWhole
<1> QED BY <1>1, BoardInvariant, PTL

\* No chain of claims, heartbeats and renewals makes a lease outlive one ttl
\* (renew_owner_lease measures from the last beat).
THEOREM LeasesLapse == BoardSpec => []LeaseBounded
<1>1. BoardInv => LeaseBounded
  <2> SUFFICES ASSUME BoardInv, NEW c \in OnBoard, CardNow(c).expires # None
               PROVE  CardNow(c).expires <= now + Ttl
    BY Zenon DEF LeaseBounded
  <2> DEFINE card == board.cards[c]
  <2>1. card.expires \in Nat /\ card.beat \in 0..now /\ card.expires <= card.beat + Ttl
    BY Zenon DEF BoardInv, CardsOK, CardOK, CardNow
  <2>2. now \in Nat /\ Ttl \in Nat
    BY Zenon, WorkBoardAssumption DEF BoardInv, BoardTypeOK
  <2> QED BY <2>1, <2>2 DEF CardNow
<1> QED BY <1>1, BoardInvariant, PTL

\* Every recorded judgement stays bound to an accepted candidate, its artifact
\* and a claim its author minted (validate_for_board).
THEOREM JudgementsStayBound == BoardSpec => []JudgementsBound
BY BoardInvariant, PTL DEF BoardInv, JudgementsOK

(***************************************************************************)
(* Action properties.                                                      *)
(***************************************************************************)
\* Only a publish changes the board.
LEMMA OnlyPublishes ==
  ASSUME BoardInv, [BoardNext]_boardVars
  PROVE  \/ board' = board /\ published' = published
         \/ \E x \in Procs : PublishWorkEvent(x)
<1>1. CASE UNCHANGED boardVars
  BY Zenon, <1>1 DEF boardVars
<1>2. CASE Tick
  BY Zenon, <1>2 DEF Tick
<1>3. ASSUME NEW x \in Procs,
             \/ ClaimWorkCard(x) \/ CreateWorkCard(x) \/ HeartbeatWorkClaim(x)
             \/ ReleaseWorkClaim(x) \/ SelectWorkClaim(x) \/ ChangeWorkCardState(x)
             \/ LinkCardPullRequest(x) \/ RelinkCardPullRequest(x) \/ MarkPullRequestMerged(x)
      PROVE  board' = board /\ published' = published
  BY Zenon, <1>3 DEF Begin, ClaimWorkCard, CreateWorkCard, HeartbeatWorkClaim, ReleaseWorkClaim,
       SelectWorkClaim, ChangeWorkCardState, LinkCardPullRequest, RelinkCardPullRequest,
       MarkPullRequestMerged
<1>4. ASSUME NEW x \in Procs,
             \/ SubmitWork(x) \/ EnsureSubmissionReview(x) \/ ReviewWorkSubmission(x)
             \/ CreateWorkLane(x) \/ ChangeWorkLaneState(x) \/ RequestWorkspace(x)
             \/ ReportWorkspace(x) \/ ClaimManagerHat(x) \/ ReleaseManagerHat(x)
             \/ ReportAgentAvailability(x)
      PROVE  board' = board /\ published' = published
  <2> USE DEF Begin
  <2>1. CASE SubmitWork(x)
    BY <2>1 DEF SubmitWork
  <2>2. CASE EnsureSubmissionReview(x)
    BY Zenon, <2>2 DEF EnsureSubmissionReview
  <2>3. CASE ReviewWorkSubmission(x)
    BY <2>3 DEF ReviewWorkSubmission
  <2>4. CASE CreateWorkLane(x) \/ ChangeWorkLaneState(x) \/ RequestWorkspace(x)
             \/ ReportWorkspace(x)
    BY Zenon, <2>4 DEF CreateWorkLane, ChangeWorkLaneState, RequestWorkspace, ReportWorkspace
  <2>5. CASE ClaimManagerHat(x) \/ ReleaseManagerHat(x) \/ ReportAgentAvailability(x)
    BY Zenon, <2>5 DEF ClaimManagerHat, ReleaseManagerHat, ReportAgentAvailability
  <2> QED BY Zenon, <1>4, <2>1, <2>2, <2>3, <2>4, <2>5
<1>5. ASSUME NEW x \in Procs, Crash(x) PROVE board' = board /\ published' = published
  BY Zenon, <1>5 DEF Crash
<1> QED BY Zenon, <1>1, <1>2, <1>3, <1>4, <1>5 DEF BoardNext

\* What was accepted stands, whoever repeats it and however late: candidates
\* only grow at the front and judgements are never replaced or withdrawn.
THEOREM AcceptedStandsAlways == BoardSpec => AcceptedStands
<1> DEFINE Stands ==
      /\ \A c \in OnBoard :
           LET was == CardNow(c).submissions
               is == CardThen(c).submissions
           IN  \/ is = was
               \/ /\ Tail(is) = was
                  /\ SubmissionsNamed(CardNow(c), Head(is).submission) = {}
      /\ \A v \in DOMAIN board.reviews :
           /\ v \in DOMAIN board'.reviews
           /\ board'.reviews[v] = board.reviews[v]
<1>1. BoardInv /\ [BoardNext]_boardVars => Stands
  <2> SUFFICES ASSUME BoardInv, [BoardNext]_boardVars PROVE Stands
    BY Zenon
  <2>1. CASE board' = board
    BY Zenon, <2>1 DEF CardNow, CardThen
  <2>2. ASSUME NEW x \in Procs, PublishWorkEvent(x) PROVE Stands
    <3> DEFINE e == Stamped(Head(pending[x]))
    <3>1. Publishes(x, e) /\ SentOK(x, e)
      BY Zenon, <2>2, PublishIs
    <3> HIDE DEF e
    <3>2. \A c \in OnBoard : WorkStands(board.cards[c], board'.cards[c])
      BY Zenon, <3>1, CardsAfter DEF BoardInv
    <3>3. ReviewsMove(board, e, board')
      BY Zenon, <3>1, ApplyMoves DEF Publishes, BoardInv, BoardTypeOK, SentOK, BoardMoves
    <3>4. \A v \in DOMAIN board.reviews :
            v \in DOMAIN board'.reviews /\ board'.reviews[v] = board.reviews[v]
      BY Zenon, <3>3 DEF ReviewsMove, With
    <3> QED BY Zenon, <3>2, <3>4 DEF WorkStands, CardNow, CardThen
  <2> QED BY Zenon, <2>1, <2>2, OnlyPublishes
<1> QED BY <1>1, BoardInvariant, PTL DEF BoardSpec, AcceptedStands

\* What HandoverOnRecord says of one step.
HandedOver ==
  \A c \in OnBoard :
    /\ CardNow(c).owner # None
    /\ CardThen(c).owner \notin {None, CardNow(c).owner}
    => IsTerminal(CardNow(c).state)

\* For events written since the takeover rule (TAKEOVER_ON_RECORD_SINCE_MS; the
\* clock starts after it): a card passes from peer to peer only through a
\* release or a reopen on the record.
THEOREM HandoversAreOnRecord ==
  ASSUME TakeoverSince = 0
  PROVE  BoardSpec => HandoverOnRecord
<1>1. BoardInv /\ [BoardNext]_boardVars => HandedOver
  <2> SUFFICES ASSUME BoardInv, [BoardNext]_boardVars PROVE HandedOver
    BY Zenon
  <2>1. CASE board' = board
    BY Zenon, <2>1 DEF HandedOver, CardNow, CardThen
  <2>2. ASSUME NEW x \in Procs, PublishWorkEvent(x) PROVE HandedOver
    <3> DEFINE e == Stamped(Head(pending[x]))
    <3>1. Publishes(x, e) /\ SentOK(x, e)
      BY Zenon, <2>2, PublishIs
    <3> HIDE DEF e
    <3>2. \A c \in OnBoard : board'.cards[c] # board.cards[c] =>
            CustodyKept(board.cards[c], e, board'.cards[c])
      BY Zenon, <3>1, CardsAfter DEF BoardInv
    <3> QED BY Zenon, <3>2 DEF HandedOver, CustodyKept, CardNow, CardThen
  <2> QED BY Zenon, <2>1, <2>2, OnlyPublishes
<1> QED BY <1>1, BoardInvariant, PTL DEF BoardSpec, HandoverOnRecord, HandedOver

\* What LateIsHarmless says of one step.
Harmless ==
  \A x \in Procs :
    LET e == Head(pending[x])
    IN  published' # published /\ pending'[x] # pending[x] =>
          /\ \A c \in OnBoard :
               /\ CardNow(c).claim # None /\ Lease(CardThen(c)) # Lease(CardNow(c))
                  => /\ e.card = c
                     /\ \/ e.by = CardNow(c).owner
                        \/ e.kind = "released" /\ e.claim = CardNow(c).claim
                        \/ e.kind = "state" /\ e.state = "open"
                        \/ IsTerminal(CardNow(c).state)
               /\ e.kind = "relinked" /\ IsTerminal(CardNow(c).state)
                  => CardThen(c) = CardNow(c)
          /\ \A r \in DOMAIN board.hats :
               (r \in DOMAIN board'.hats => board'.hats[r].manager # board.hats[r].manager)
               => \/ e.kind = "hat_off" /\ e.by = board.hats[r].manager
                  \/ e.kind = "hat" /\ board'.hats[r].manager = e.by

\* A publication by whoever no longer holds the lease changes no live lease.
LEMMA PublishIsHarmless ==
  ASSUME BoardInv, TakeoverSince = 0, NEW x \in Procs, PublishWorkEvent(x)
  PROVE  Harmless
<1> DEFINE h == Head(pending[x])
           e == Stamped(h)
<1>1. Publishes(x, e) /\ SentOK(x, e) /\ EventOK(x, h)
  BY Zenon, PublishIs
<1>2. /\ e.kind = h.kind
      /\ h.kind \in CardKinds => e.card = h.card /\ e.by = h.by
      /\ h.kind # "claimed" => e.claim = h.claim
      /\ h.kind \notin {"claimed", "released", "heartbeat"} => e = h
  BY Zenon, <1>1, StampedIsOK DEF BoardInv
<1>3. \A y \in Procs : pending'[y] # pending[y] => y = x
  BY Zenon, <1>1 DEF Publishes, BoardInv, PendingOK
<1> HIDE DEF e, h
<1>4. \A c \in OnBoard : board'.cards[c] # board.cards[c] =>
        /\ e.card = c /\ e.kind \in CardKinds
        /\ CustodyKept(board.cards[c], e, board'.cards[c])
  BY Zenon, <1>1, CardsAfter DEF BoardInv
<1>5. ASSUME NEW c \in OnBoard, CardNow(c).claim # None, Lease(CardThen(c)) # Lease(CardNow(c))
      PROVE  /\ h.card = c
             /\ \/ h.by = CardNow(c).owner
                \/ h.kind = "released" /\ h.claim = CardNow(c).claim
                \/ h.kind = "state" /\ h.state = "open"
                \/ IsTerminal(CardNow(c).state)
  <2>1. board'.cards[c] # board.cards[c]
    BY Zenon, <1>5 DEF CardNow, CardThen, Lease
  <2>2. h.card = c /\ e.by = h.by
    BY Zenon, <1>2, <1>4, <2>1
  <2>3. \/ e.by = CardNow(c).owner
        \/ e.kind = "released" /\ e.claim = CardNow(c).claim
        \/ e.kind = "state" /\ e.state = "open"
        \/ IsTerminal(CardNow(c).state)
    BY Zenon, <1>4, <1>5, <2>1 DEF CustodyKept, CardNow, CardThen
  <2>4. (e.kind = "released" => e.claim = h.claim) /\ (e.kind = "state" => e.state = h.state)
    BY Zenon, <1>2
  <2> QED BY Zenon, <1>2, <2>2, <2>3, <2>4
<1>6. ASSUME NEW c \in OnBoard, h.kind = "relinked", IsTerminal(CardNow(c).state)
      PROVE  CardThen(c) = CardNow(c)
  BY Zenon, <1>2, <1>4, <1>6 DEF CustodyKept, CardNow, CardThen
<1>7. ASSUME NEW r \in DOMAIN board.hats,
             r \in DOMAIN board'.hats => board'.hats[r].manager # board.hats[r].manager
      PROVE  \/ h.kind = "hat_off" /\ h.by = board.hats[r].manager
             \/ h.kind = "hat" /\ board'.hats[r].manager = h.by
  <2>1. HatsMove(board, e, board')
    BY Zenon, <1>1, ApplyMoves DEF Publishes, BoardInv, BoardTypeOK, SentOK, BoardMoves
  <2>2. CASE board'.hats = board.hats
    BY Zenon, <1>7, <2>2
  <2>3. CASE /\ e.kind = "hat"
             /\ board'.hats = With(board.hats, e.repo, [manager |-> e.by, expires |-> e.at + e.ttl])
    <3>1. \A s \in DOMAIN board.hats :
            /\ s \in DOMAIN board'.hats
            /\ s # e.repo => board'.hats[s] = board.hats[s]
            /\ s = e.repo => board'.hats[s].manager = e.by
      BY <2>3 DEF With
    <3> QED BY Zenon, <1>2, <1>7, <2>3, <3>1
  <2>4. CASE /\ e.kind = "hat_off"
             /\ board.hats[e.repo].manager = e.by
             /\ board'.hats = Without(board.hats, e.repo)
    <3>1. \A s \in DOMAIN board.hats :
            s # e.repo => s \in DOMAIN board'.hats /\ board'.hats[s] = board.hats[s]
      BY Zenon, <2>4 DEF Without
    <3> QED BY Zenon, <1>2, <1>7, <2>4, <3>1
  <2> QED BY Zenon, <2>1, <2>2, <2>3, <2>4 DEF HatsMove
<1> QED BY <1>3, <1>5, <1>6, <1>7 DEF Harmless, h

\* Under the takeover rule an event that lost its race changes no lease, no
\* settled pull request and no hat that is not its author's to change.
THEOREM LateEventsAreHarmless ==
  ASSUME TakeoverSince = 0
  PROVE  BoardSpec => LateIsHarmless
<1>1. BoardInv /\ [BoardNext]_boardVars => Harmless
  <2>1. published' = published => Harmless
    BY Zenon DEF Harmless
  <2> QED BY Zenon, <2>1, OnlyPublishes, PublishIsHarmless
<1> QED BY <1>1, BoardInvariant, PTL DEF BoardSpec, LateIsHarmless, Harmless
=============================================================================
