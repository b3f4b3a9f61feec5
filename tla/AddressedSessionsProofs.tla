----------------------- MODULE AddressedSessionsProofs ----------------------
(***************************************************************************)
(* Sealed frames are opened at most once and no responder is rolled back,  *)
(* for every replay window and any number of frames, re-keys, restarts and *)
(* lost messages.                                                          *)
(*                                                                         *)
(* The argument is freshness.  A key is spent at a peer once the peer has  *)
(* set up a session from it: the initiator no longer awaits its init, the  *)
(* responder has accepted it.  Spent keys stay spent, and no step sets up  *)
(* a session from one, so a counter starts at zero and a replay window     *)
(* empty only for a key no frame was sealed or opened under.               *)
(***************************************************************************)
EXTENDS AddressedSessions, TLAPS

AddressedTypeOK ==
  /\ session \in [Peers -> Sessions \cup {NoState}]
  /\ pending \in [Peers -> Inits \cup {NoState}]
  /\ accepted \in [Peers -> Acceptances \cup {NoState}]
  /\ lastIssued \in [Peers -> Nat]
  /\ incarnation \in [Peers -> Nat]
  /\ now \in Nat \ {0}
  /\ handshakes \subseteq Inits \cup Resps
  /\ \A f \in sealed : f.key \in Resps /\ f.from \in Peers /\ f.ctr \in Nat

\* An init of this process or of an earlier one, whose clock was behind.
Issued(i) ==
  LET p == i.from
  IN  \/ i.born = incarnation[p] /\ i.issued <= lastIssued[p]
      \/ /\ i.born < incarnation[p] /\ i.issued < now
         /\ lastIssued[p] > 0 => i.issued < lastIssued[p]

\* The init of key k was completed by its initiator, or will never be.
Completed(k) ==
  LET p == k.init.from
  IN  /\ pending[p] # k.init
      /\ \/ k.init.born < incarnation[p]
         \/ k.init.born = incarnation[p] /\ k.init.issued <= lastIssued[p]

\* The responder has given the answer k, or its process is gone.
Answered(k) ==
  LET q == Other(k.init.from)
  IN  \/ k.born < incarnation[q]
      \/ /\ k.born = incarnation[q]
         /\ accepted[q] # NoState
         /\ k.init.issued <= accepted[q].init.issued

Spent(p, k) == IF k.init.from = p THEN Completed(k) ELSE Answered(k)

\* What is on its way was issued, or answered.
OnTheWay ==
  \A msg \in handshakes :
    /\ msg \in Inits => Issued(msg)
    /\ msg \in Resps => Issued(msg.init) /\ Answered(msg)

\* A pending init is the last its process issued.
PendingIsLast(p) ==
  pending[p] # NoState =>
    /\ pending[p].from = p
    /\ pending[p].born = incarnation[p]
    /\ pending[p].issued = lastIssued[p]
    /\ lastIssued[p] > 0

AcceptedOnce(p) ==
  accepted[p] # NoState =>
    /\ accepted[p].init.from = Other(p)
    /\ Issued(accepted[p].init)
    /\ accepted[p].resp = [kind |-> "resp", init |-> accepted[p].init, born |-> incarnation[p]]

\* A session comes from the last accepted init, or from an answer to the last
\* completed one.
SessionIsSpent(p) ==
  session[p] # NoState =>
    LET k == session[p].key
    IN  /\ Spent(p, k)
        /\ Answered(k)
        /\ k.init.from # p => accepted[p] # NoState /\ k = accepted[p].resp
        /\ k.init.from = p => /\ k.init.born = incarnation[p]
                              /\ pending[p] = NoState => k.init.issued = lastIssued[p]
                              /\ lastIssued[p] > 0

ManagersSound == \A p \in Peers : PendingIsLast(p) /\ AcceptedOnce(p) /\ SessionIsSpent(p)

\* The counters of a session are past those of the frames sealed under its key.
CountersAhead ==
  \A f \in sealed :
    /\ Spent(f.from, f.key)
    /\ session[f.from] # NoState /\ session[f.from].key = f.key => f.ctr < session[f.from].ctr

\* The replay window of s knows counter c.
Seen(s, c) ==
  /\ s.highest # NoState
  /\ c <= s.highest
  /\ s.highest - c < WindowBits => c \in s.window

WindowKnows ==
  \A f \in BagToSet(opened) :
    LET p == Other(f.from)
    IN  /\ f \in sealed
        /\ Spent(p, f.key)
        /\ session[p] # NoState /\ session[p].key = f.key => Seen(session[p], f.ctr)

AddressedInv ==
  /\ AddressedTypeOK
  /\ OnTheWay
  /\ ManagersSound
  /\ CountersAhead
  /\ WindowKnows
  /\ OpenedOnce

(***************************************************************************)
(* Freshness.                                                              *)
(***************************************************************************)
LEMMA TwoPeers ==
  ASSUME NEW p \in Peers
  PROVE  /\ Other(p) \in Peers /\ Other(p) # p /\ Other(Other(p)) = p
         /\ \A q \in Peers : q # p => q = Other(p)
BY DEF Peers, Other, Lower, Higher

\* How a manager changes: it goes on, forgetting its pending init or issuing one
\* later than all before, and accepting only later inits; or it starts again
\* when the clock is past all it issued.
Grows ==
  /\ now <= now'
  /\ \A p \in Peers :
       \/ /\ incarnation'[p] = incarnation[p]
          /\ \/ lastIssued'[p] = lastIssued[p] /\ pending'[p] \in {pending[p], NoState}
             \/ /\ lastIssued'[p] > lastIssued[p] /\ lastIssued'[p] >= now
                /\ pending'[p].issued = lastIssued'[p] /\ pending'[p].born = incarnation[p]
          /\ accepted[p] # NoState
               => accepted'[p] # NoState /\ accepted[p].init.issued <= accepted'[p].init.issued
       \/ /\ incarnation'[p] = incarnation[p] + 1
          /\ pending'[p] = NoState /\ lastIssued'[p] = 0
          /\ lastIssued[p] < now'

\* What was issued, completed or answered is so for ever.
LEMMA Freshness ==
  ASSUME AddressedTypeOK, AddressedTypeOK', Grows
  PROVE  /\ \A i \in Inits : Issued(i) => Issued(i)'
         /\ \A k \in Resps : (Completed(k) => Completed(k)') /\ (Answered(k) => Answered(k)')
         /\ \A k \in Resps : \A p \in Peers : Spent(p, k) => Spent(p, k)'
<1>1. ASSUME NEW i \in Inits, Issued(i)
      PROVE  Issued(i)'
  <2>1. i.from \in Peers /\ i.born \in Nat /\ i.issued \in Nat
    BY Zenon DEF Inits
  <2> QED
    BY <1>1, <2>1 DEF Issued, Grows, AddressedTypeOK
<1>2. ASSUME NEW k \in Resps, Completed(k)
      PROVE  Completed(k)'
  <2>1. /\ k.init \in Inits /\ k.init.from \in Peers /\ k.init.born \in Nat
        /\ k.init.issued \in Nat /\ k.init # NoState
    BY Zenon, NoStateAssumption DEF Resps, Inits
  <2> QED
    BY <1>2, <2>1 DEF Completed, Grows, AddressedTypeOK
<1>3. ASSUME NEW k \in Resps, Answered(k)
      PROVE  Answered(k)'
  <2> DEFINE q == Other(k.init.from)
  <2>1. q \in Peers /\ k.born \in Nat /\ k.init.issued \in Nat
    BY Zenon, TwoPeers DEF Resps, Inits
  <2>2. CASE k.born < incarnation[q]
    <3>1. k.born < incarnation'[q]
      BY <2>1, <2>2 DEF Grows, AddressedTypeOK
    <3> QED
      BY Zenon, <3>1 DEF Answered
  <2>3. CASE /\ k.born = incarnation[q] /\ accepted[q] # NoState
             /\ k.init.issued <= accepted[q].init.issued
    <3>1. CASE incarnation'[q] = incarnation[q] + 1
      BY <2>1, <2>3, <3>1 DEF Answered, AddressedTypeOK
    <3>2. CASE incarnation'[q] = incarnation[q]
      <4>1. accepted'[q] # NoState /\ accepted[q].init.issued <= accepted'[q].init.issued
        BY <2>1, <2>3, <3>2 DEF Grows, AddressedTypeOK
      <4>2. accepted[q].init.issued \in Nat /\ accepted'[q].init.issued \in Nat
        BY Zenon, <2>1, <2>3, <4>1 DEF AddressedTypeOK, Acceptances, Inits
      <4> QED
        BY <2>1, <2>3, <3>2, <4>1, <4>2 DEF Answered
    <3> QED
      BY Zenon, <2>1, <3>1, <3>2 DEF Grows
  <2> QED
    BY Zenon, <1>3, <2>2, <2>3 DEF Answered
<1> QED
  BY Zenon, <1>1, <1>2, <1>3 DEF Spent

\* One more frame in the bag of those opened.
LEMMA OneMoreFrame ==
  ASSUME NEW B, NEW x, x \notin BagToSet(B), \A o \in BagToSet(B) : B[o] = 1
  PROVE  LET C == B (+) SetToBag({x})
         IN  BagToSet(C) = BagToSet(B) \cup {x} /\ \A o \in BagToSet(C) : C[o] = 1
<1> DEFINE C == B (+) SetToBag({x})
<1>1. BagToSet(C) = BagToSet(B) \cup {x}
  BY Zenon DEF BagToSet, SetToBag, (+)
<1>2. ASSUME NEW o \in BagToSet(C)
      PROVE  C[o] = 1
  <2>1. CASE o = x
    BY <2>1 DEF BagToSet, SetToBag, (+)
  <2>2. CASE o # x
    BY <1>1, <2>2 DEF BagToSet, SetToBag, (+)
  <2> QED
    BY Zenon, <2>1, <2>2
<1> QED
  BY Zenon, <1>1, <1>2

\* No handshake, session or frame exists yet.
LEMMA AddressedInitially == AddressedInit => AddressedInv
BY NoStateAssumption DEF AddressedInit, AddressedInv, AddressedTypeOK, OnTheWay, ManagersSound,
   PendingIsLast, AcceptedOnce, SessionIsSpent, CountersAhead, WindowKnows, OpenedOnce, EmptyBag, SetToBag, BagToSet

(***************************************************************************)
(* Steps that leave the managers' handshakes alone.                        *)
(***************************************************************************)
\* The frames stay good while sessions stay.
LEMMA Idle ==
  ASSUME AddressedInv,
         UNCHANGED <<session, pending, accepted, lastIssued, incarnation, now, sealed, opened>>,
         handshakes' \subseteq handshakes
  PROVE  AddressedInv'
<1> USE DEF AddressedInv
<1>1. AddressedTypeOK'
  BY Zenon DEF AddressedTypeOK
<1>2. \A k : /\ Issued(k)' <=> Issued(k)
             /\ Completed(k)' <=> Completed(k)
             /\ Answered(k)' <=> Answered(k)
             /\ \A q : Spent(q, k)' <=> Spent(q, k)
  BY DEF Issued, Completed, Answered, Spent
<1>3. OnTheWay' /\ ManagersSound'
  BY <1>2 DEF OnTheWay, ManagersSound, PendingIsLast, AcceptedOnce, SessionIsSpent
<1>4. CountersAhead'
  BY Zenon, <1>2 DEF CountersAhead
<1>5. WindowKnows' /\ OpenedOnce'
  BY Zenon, <1>2 DEF WindowKnows, OpenedOnce
<1> QED
  BY <1>1, <1>3, <1>4, <1>5

\* seal_for: the counter is past every frame of this key, so the frame is new.
LEMMA SealForKeeps ==
  ASSUME AddressedInv, NEW p \in Peers, SealFor(p)
  PROVE  AddressedInv'
<1> DEFINE s == session[p]
           frame == [key |-> s.key, from |-> p, ctr |-> s.ctr, body |-> Cardinality(sealed)]
<1> USE DEF AddressedInv
<1>1. /\ s \in Sessions /\ session' = [session EXCEPT ![p].ctr = @ + 1]
      /\ sealed' = sealed \cup {frame}
      /\ UNCHANGED <<pending, accepted, lastIssued, incarnation, now, handshakes, opened>>
  BY Zenon DEF SealFor, AddressedTypeOK
<1>2. /\ session'[p] \in Sessions /\ session'[p].key = s.key /\ session'[p].ctr = s.ctr + 1
      /\ session'[p].highest = s.highest /\ session'[p].window = s.window
      /\ \A q \in Peers : q # p => session'[q] = session[q]
      /\ session' \in [Peers -> Sessions \cup {NoState}]
  BY <1>1 DEF Sessions, AddressedTypeOK
<1>3. s.key \in Resps /\ s.ctr \in Nat /\ s # NoState /\ session'[p] # NoState
  BY <1>1, <1>2, NoStateAssumption DEF Sessions
<1>4. AddressedTypeOK'
  BY <1>1, <1>2, <1>3 DEF AddressedTypeOK
<1>5. \A k : /\ Completed(k)' <=> Completed(k)
             /\ Answered(k)' <=> Answered(k)
             /\ \A q : Spent(q, k)' <=> Spent(q, k)
  BY <1>1 DEF Completed, Answered, Spent
<1>6. OnTheWay'
  BY Zenon, <1>1 DEF OnTheWay, Issued, Answered
<1>7. ManagersSound'
  <2>1. \A q \in Peers : PendingIsLast(q)' /\ AcceptedOnce(q)'
    BY Zenon, <1>1 DEF ManagersSound, PendingIsLast, AcceptedOnce, Issued
  <2>2. \A q \in Peers : SessionIsSpent(q)'
    BY <1>1, <1>2, <1>3, <1>5 DEF ManagersSound, SessionIsSpent
  <2> QED
    BY Zenon, <2>1, <2>2 DEF ManagersSound
<1>8. CountersAhead'
  <2>1. \A f \in sealed : f.ctr \in Nat /\ f.from \in Peers
    BY Zenon DEF AddressedTypeOK
  <2>2. ASSUME NEW f \in sealed, f.from = p, session'[p].key = f.key
        PROVE  f.ctr < session'[p].ctr
    <3>1. f.ctr < s.ctr
      BY Zenon, <1>2, <1>3, <2>2 DEF CountersAhead
    <3> QED
      BY <1>2, <1>3, <2>1, <3>1
  <2>3. Spent(p, frame.key) /\ frame.ctr < session'[p].ctr
    BY <1>2, <1>3 DEF ManagersSound, SessionIsSpent
  <2>4. ASSUME NEW f \in sealed
        PROVE  /\ Spent(f.from, f.key)'
               /\ session'[f.from] # NoState /\ session'[f.from].key = f.key
                    => f.ctr < session'[f.from].ctr
    <3>1. CASE f.from = p
      BY <1>5, <2>2, <3>1 DEF CountersAhead
    <3>2. CASE f.from # p
      BY <1>2, <1>5, <2>1, <3>2 DEF CountersAhead
    <3> QED
      BY Zenon, <3>1, <3>2
  <2>5. frame.from = p /\ Spent(p, s.key)' /\ frame.key = s.key
    BY <1>1, <1>5, <2>3
  <2>6. ASSUME NEW f, f = frame
        PROVE  /\ Spent(f.from, f.key)'
               /\ session'[f.from] # NoState /\ session'[f.from].key = f.key
                    => f.ctr < session'[f.from].ctr
    BY <1>5, <2>3, <2>5, <2>6
  <2> QED
    BY Zenon, <1>1, <2>4, <2>6 DEF CountersAhead
<1>9. WindowKnows'
  <2>1. \A f \in BagToSet(opened) : Other(f.from) \in Peers
    BY Zenon, TwoPeers DEF WindowKnows, AddressedTypeOK
  <2> QED
    BY <1>1, <1>2, <1>3, <1>5, <2>1 DEF WindowKnows, Seen
<1>10. OpenedOnce'
  <2>1. \A f \in sealed : f.key = frame.key /\ f.from = p => f.ctr < s.ctr /\ f.ctr \in Nat
    BY Zenon, <1>3 DEF CountersAhead, AddressedTypeOK
  <2>2. \A f \in sealed : ~(f.key = frame.key /\ f.from = frame.from /\ f.ctr = frame.ctr)
    BY <1>3, <2>1
  <2> QED
    BY <1>1, <2>2 DEF OpenedOnce
<1> QED
  BY <1>4, <1>6, <1>7, <1>8, <1>9, <1>10

\* receive_addressed of a frame that opens: the replay window did not know its
\* counter and does now, and forgets none that it could still be asked for.
LEMMA OpenFromKeeps ==
  ASSUME AddressedInv, NEW p \in Peers, NEW frame \in sealed, frame.from = Other(p),
         OpenFrom(p, frame)
  PROVE  AddressedInv'
<1> DEFINE s == session[p]
           t == RecordCounter(s, frame.ctr)
<1> USE DEF AddressedInv
<1>1. /\ s \in Sessions /\ s.key = frame.key /\ frame.ctr \in Nat
      /\ session' = [session EXCEPT ![p] = t]
      /\ opened' = opened (+) SetToBag({frame})
      /\ UNCHANGED <<pending, accepted, lastIssued, incarnation, now, handshakes, sealed>>
  BY Zenon DEF OpenFrom, Opens, AddressedTypeOK
<1>2. /\ t \in Sessions /\ t.key = s.key /\ t.ctr = s.ctr
      /\ t.highest \in Nat /\ t.highest >= frame.ctr
      /\ t.highest = IF s.highest = NoState THEN frame.ctr ELSE Later(s.highest, frame.ctr)
      /\ t.window = {c \in s.window \cup {frame.ctr} : t.highest - c < WindowBits}
  <2>1. s.highest # NoState => s.highest \in Nat
    BY Zenon, <1>1 DEF Sessions
  <2> DEFINE top == IF s.highest = NoState THEN frame.ctr ELSE Later(s.highest, frame.ctr)
             left == {c \in s.window \cup {frame.ctr} : top - c < WindowBits}
  <2>2. top \in Nat /\ top >= frame.ctr
    BY <1>1, <2>1 DEF Later
  <2>3. left \in SUBSET Nat
    BY Zenon, <1>1 DEF Sessions
  <2>4. t = [s EXCEPT !.highest = top, !.window = left]
    BY Zenon, <1>1 DEF RecordCounter, Sessions
  <2> QED
    BY ZenonT(30), <1>1, <2>2, <2>3, <2>4 DEF Sessions
<1>3. /\ session'[p] = t /\ t # NoState /\ s # NoState
      /\ \A q \in Peers : q # p => session'[q] = session[q]
      /\ session' \in [Peers -> Sessions \cup {NoState}]
  BY Zenon, <1>1, <1>2, NoStateAssumption DEF AddressedTypeOK
<1>4. AddressedTypeOK'
  BY Zenon, <1>1, <1>3 DEF AddressedTypeOK
<1>5. \A k : /\ Completed(k)' <=> Completed(k)
             /\ Answered(k)' <=> Answered(k)
             /\ \A q : Spent(q, k)' <=> Spent(q, k)
  BY <1>1 DEF Completed, Answered, Spent
<1>6. OnTheWay'
  BY <1>1 DEF OnTheWay, Issued, Answered
<1>7. ManagersSound'
  <2>1. \A q \in Peers : PendingIsLast(q)' /\ AcceptedOnce(q)'
    BY Zenon, <1>1 DEF ManagersSound, PendingIsLast, AcceptedOnce, Issued
  <2>2. \A q \in Peers : SessionIsSpent(q)'
    BY <1>1, <1>2, <1>3, <1>5 DEF ManagersSound, SessionIsSpent
  <2> QED
    BY Zenon, <2>1, <2>2 DEF ManagersSound
<1>8. CountersAhead'
  BY ZenonT(30), <1>1, <1>2, <1>3, <1>5 DEF CountersAhead, AddressedTypeOK
<1>9. ASSUME NEW c \in Nat, Seen(s, c)
      PROVE  Seen(t, c)
  <2>1. s.highest \in Nat /\ t.highest >= s.highest
    BY <1>1, <1>2, <1>9 DEF Seen, Sessions, Later
  <2> QED
    BY SMTT(20), <1>2, <1>9, <2>1, AddressedAssumption, NoStateAssumption DEF Seen
<1>10. Seen(t, frame.ctr)
  BY Zenon, <1>1, <1>2, NoStateAssumption DEF Seen
<1>11. frame \notin BagToSet(opened)
  <2>1. WouldAccept(s, frame.ctr)
    BY Zenon DEF OpenFrom
  <2>2. ~Seen(s, frame.ctr)
    BY Zenon, <2>1 DEF WouldAccept, Seen
  <2>3. Other(frame.from) = p
    BY Zenon, TwoPeers
  <2> QED
    BY <1>1, <1>3, <2>2, <2>3 DEF WindowKnows
<1>12. /\ BagToSet(opened') = BagToSet(opened) \cup {frame}
       /\ \A f \in BagToSet(opened') : opened'[f] = 1
  BY <1>1, <1>11, OneMoreFrame DEF OpenedOnce
<1>13. WindowKnows'
  <2>1. ASSUME NEW f \in BagToSet(opened)
        PROVE  LET q == Other(f.from)
               IN  /\ f \in sealed'
                   /\ Spent(q, f.key)'
                   /\ session'[q] # NoState /\ session'[q].key = f.key => Seen(session'[q], f.ctr)
    <3>1. f \in sealed /\ Other(f.from) \in Peers /\ f.ctr \in Nat
      BY Zenon, TwoPeers DEF WindowKnows, AddressedTypeOK
    <3>2. CASE Other(f.from) = p
      BY SMTT(20), <1>1, <1>2, <1>3, <1>5, <1>9, <3>1, <3>2 DEF WindowKnows
    <3>3. CASE Other(f.from) # p
      BY <1>1, <1>3, <1>5, <3>1, <3>3 DEF WindowKnows
    <3> QED
      BY Zenon, <3>2, <3>3
  <2>2. Other(frame.from) = p /\ Spent(p, frame.key)
    BY Zenon, <1>1, <1>3, TwoPeers DEF ManagersSound, SessionIsSpent
  <2> QED
    BY Zenon, <1>1, <1>3, <1>5, <1>10, <1>12, <2>1, <2>2 DEF WindowKnows
<1>14. OpenedOnce'
  BY SMTT(20), <1>1, <1>12 DEF OpenedOnce
<1> QED
  BY SMTT(20), <1>4, <1>6, <1>7, <1>8, <1>13, <1>14

(***************************************************************************)
(* Handshakes.                                                             *)
(***************************************************************************)
\* The parts of the invariant about frames, after a step of p's manager that
\* either keeps its session or sets one up from a key that was not spent.
LEMMA FramesStay ==
  ASSUME AddressedInv, AddressedTypeOK', Grows, UNCHANGED <<sealed, opened>>, NEW p \in Peers,
         \A q \in Peers \ {p} : session'[q] = session[q],
         \/ session'[p] = session[p]
         \/ session'[p] = NoState
         \/ ~Spent(p, session'[p].key)
  PROVE  CountersAhead' /\ WindowKnows' /\ OpenedOnce'
<1> USE DEF AddressedInv
<1>1. \A f \in sealed : f.from \in Peers /\ Other(f.from) \in Peers /\ f.key \in Resps
  BY Zenon, TwoPeers DEF AddressedTypeOK
<1>2. \A f \in sealed : \A q \in Peers : Spent(q, f.key) => Spent(q, f.key)'
  BY Zenon, <1>1, Freshness
<1>3. CountersAhead'
  BY <1>1, <1>2 DEF CountersAhead
<1>4. WindowKnows'
  BY Zenon, <1>1, <1>2 DEF WindowKnows
<1> QED
  BY Zenon, <1>3, <1>4 DEF OpenedOnce

\* What was sent stays issued and answered, and a peer whose manager does not
\* move stays sound.
LEMMA OthersStay ==
  ASSUME AddressedInv, AddressedTypeOK', Grows
  PROVE  /\ \A msg \in handshakes :
              /\ msg \in Inits => Issued(msg)'
              /\ msg \in Resps => Issued(msg.init)' /\ Answered(msg)'
         /\ \A q \in Peers :
              /\ session'[q] = session[q] /\ pending'[q] = pending[q] /\ accepted'[q] = accepted[q]
              /\ lastIssued'[q] = lastIssued[q] /\ incarnation'[q] = incarnation[q]
              => PendingIsLast(q)' /\ AcceptedOnce(q)' /\ SessionIsSpent(q)'
<1> USE DEF AddressedInv
<1>1. ASSUME NEW msg \in handshakes
      PROVE  /\ msg \in Inits => Issued(msg)'
             /\ msg \in Resps => Issued(msg.init)' /\ Answered(msg)'
  <2>1. CASE msg \in Inits /\ msg \notin Resps
    BY Zenon, <2>1, Freshness DEF OnTheWay
  <2>2. CASE msg \in Resps /\ msg \notin Inits
    <3>1. msg.init \in Inits
      BY Zenon, <2>2 DEF Resps
    <3> QED
      BY Zenon, <2>2, <3>1, Freshness DEF OnTheWay
  <2>3. ~(msg \in Inits /\ msg \in Resps)
    BY Zenon DEF Inits, Resps
  <2> QED
    BY Zenon, <2>1, <2>2, <2>3
<1>2. ASSUME NEW q \in Peers,
             session'[q] = session[q], pending'[q] = pending[q], accepted'[q] = accepted[q],
             lastIssued'[q] = lastIssued[q], incarnation'[q] = incarnation[q]
      PROVE  PendingIsLast(q)' /\ AcceptedOnce(q)' /\ SessionIsSpent(q)'
  <2>1. PendingIsLast(q)'
    BY Zenon, <1>2 DEF ManagersSound, PendingIsLast
  <2>2. AcceptedOnce(q)'
    <3>1. accepted[q] # NoState => accepted[q].init \in Inits
      BY Zenon DEF AddressedTypeOK, Acceptances
    <3> QED
      BY Zenon, <1>2, <3>1, Freshness DEF ManagersSound, AcceptedOnce
  <2>3. SessionIsSpent(q)'
    <3>1. session[q] # NoState => session[q].key \in Resps
      BY Zenon DEF AddressedTypeOK, Sessions
    <3> QED
      BY Zenon, <1>2, <3>1, Freshness DEF ManagersSound, SessionIsSpent
  <2> QED
    BY Zenon, <2>1, <2>2, <2>3
<1> QED
  BY Zenon, <1>1, <1>2

\* ensure_handshake: the init issued is later than every earlier one.
LEMMA EnsureHandshakeKeeps ==
  ASSUME AddressedInv, NEW p \in Peers, EnsureHandshake(p),
         handshakes' \in {handshakes, handshakes \cup {pending'[p]}},
         UNCHANGED <<incarnation, now, sealed, opened>>
  PROVE  AddressedInv'
<1> DEFINE issued == Later(now, lastIssued[p] + 1)
           init == [kind |-> "init", from |-> p, born |-> incarnation[p], issued |-> issued]
<1> USE DEF AddressedInv
<1>1. CASE pending[p] # NoState
  <2>1. UNCHANGED <<session, pending, accepted, lastIssued>>
    BY Zenon, <1>1 DEF EnsureHandshake, managerVars
  <2>2. CASE handshakes' = handshakes
    BY Zenon, <2>1, <2>2, Idle
  <2>3. CASE handshakes' = handshakes \cup {pending[p]}
    <3>1. pending[p] \in Inits /\ pending[p] \notin Resps /\ Issued(pending[p])
      BY <1>1 DEF AddressedTypeOK, ManagersSound, PendingIsLast, Issued, Inits, Resps
    <3>2. \A k : /\ Issued(k)' <=> Issued(k)
                 /\ Completed(k)' <=> Completed(k)
                 /\ Answered(k)' <=> Answered(k)
                 /\ \A q : Spent(q, k)' <=> Spent(q, k)
      BY <2>1 DEF Issued, Completed, Answered, Spent
    <3>3. AddressedTypeOK'
      BY Zenon, <2>1, <2>3, <3>1 DEF AddressedTypeOK
    <3>4. OnTheWay'
      BY Zenon, <2>1, <2>3, <3>1, <3>2 DEF OnTheWay
    <3>5. ManagersSound' /\ CountersAhead'
      BY <2>1, <3>2 DEF ManagersSound, PendingIsLast, AcceptedOnce, SessionIsSpent, CountersAhead
    <3>6. WindowKnows' /\ OpenedOnce'
      BY Zenon, <2>1, <3>2 DEF WindowKnows, OpenedOnce
    <3> QED
      BY <3>3, <3>4, <3>5, <3>6
  <2> QED
    BY Zenon, <2>1, <2>2, <2>3
<1>2. CASE pending[p] = NoState
  <2>1. /\ pending' = [pending EXCEPT ![p] = init]
        /\ lastIssued' = [lastIssued EXCEPT ![p] = issued]
        /\ UNCHANGED <<session, accepted>>
    BY Zenon, <1>2 DEF EnsureHandshake
  <2>2. /\ issued \in Nat /\ issued >= now /\ issued > lastIssued[p] /\ issued > 0
        /\ init \in Inits /\ init \notin Resps /\ init # NoState
    BY NoStateAssumption DEF AddressedTypeOK, Later, Inits, Resps
  <2>3. AddressedTypeOK'
    BY Zenon, <2>1, <2>2 DEF AddressedTypeOK
  <2>4. Grows
    BY <2>1, <2>2 DEF Grows, AddressedTypeOK, Acceptances, Inits
  <2>5. Issued(pending[p])'
    <3>1. /\ pending'[p].from = p /\ pending'[p].born = incarnation'[p]
          /\ pending'[p].issued = lastIssued'[p]
      BY Zenon, <2>1 DEF AddressedTypeOK
    <3>2. lastIssued'[p] \in Nat
      BY Zenon, <2>3 DEF AddressedTypeOK
    <3> QED
      BY <3>1, <3>2 DEF Issued
  <2>6. OnTheWay'
    <3>1. pending'[p] \notin Resps
      BY Zenon, <2>1, <2>2 DEF AddressedTypeOK
    <3> QED
      BY <2>3, <2>4, <2>5, <3>1, OthersStay DEF OnTheWay
  <2>7. PendingIsLast(p)' /\ AcceptedOnce(p)' /\ SessionIsSpent(p)'
    <3>1. PendingIsLast(p)'
      BY Zenon, <2>1, <2>2 DEF PendingIsLast, AddressedTypeOK
    <3>2. accepted[p] # NoState => accepted[p].init \in Inits
      BY Zenon DEF AddressedTypeOK, Acceptances
    <3>3. AcceptedOnce(p)'
      BY <2>1, <2>3, <2>4, <3>2, Freshness DEF ManagersSound, AcceptedOnce
    <3>4. session[p] # NoState => session[p].key \in Resps
      BY ZenonT(30) DEF AddressedTypeOK, Sessions
    <3>5. SessionIsSpent(p)'
      BY SMTT(20), <2>1, <2>2, <2>3, <2>4, <3>4, Freshness DEF ManagersSound, SessionIsSpent, AddressedTypeOK
    <3> QED
      BY Zenon, <3>1, <3>3, <3>5
  <2>8. ManagersSound'
    <3>1. \A q \in Peers : q # p => /\ pending'[q] = pending[q] /\ lastIssued'[q] = lastIssued[q]
      BY Zenon, <2>1 DEF AddressedTypeOK
    <3> QED
      BY SMTT(20), <2>1, <2>3, <2>4, <2>7, <3>1, OthersStay DEF ManagersSound
  <2>9. CountersAhead' /\ WindowKnows' /\ OpenedOnce'
    BY Zenon, <2>1, <2>3, <2>4, FramesStay
  <2> QED
    BY Zenon, <2>3, <2>6, <2>7, <2>8, <2>9
<1> QED
  BY Zenon, <1>1, <1>2

\* on_init: a duplicate gets the same answer; a newer init is answered under a key
\* that this process has never answered with.
LEMMA OnInitKeeps ==
  ASSUME AddressedInv, NEW init \in handshakes, init \in Inits, NEW p \in Peers, p = Other(init.from),
         OnInit(p, init), UNCHANGED <<incarnation, now, sealed, opened>>
  PROVE  AddressedInv'
<1> USE DEF AddressedInv
<1>1. init.from = Other(p) /\ init.from \in Peers /\ init.from # p /\ Issued(init)
  BY Zenon, TwoPeers DEF Inits, OnTheWay
<1>2. CASE accepted[p] # NoState /\ init = accepted[p].init
  <2>1. /\ handshakes' = handshakes \cup {accepted[p].resp}
        /\ UNCHANGED <<session, pending, accepted, lastIssued>>
    BY Zenon, <1>2 DEF OnInit, managerVars
  <2>2. PICK r \in Resps : r = accepted[p].resp
    BY Zenon, <1>2 DEF AddressedTypeOK, Acceptances
  <2>3. r.init = init /\ r.born = incarnation[p] /\ r \notin Inits
    <3>1. r = [kind |-> "resp", init |-> init, born |-> incarnation[p]]
      BY Zenon, <1>2, <2>2 DEF ManagersSound, AcceptedOnce
    <3> QED
      BY Zenon, <3>1 DEF Inits
  <2>4. Answered(r) /\ Issued(r.init)
    <3>1. init.issued <= accepted[p].init.issued
      BY <1>2 DEF Inits
    <3> QED
      BY ZenonT(30), <1>1, <1>2, <2>3, <3>1 DEF Answered
  <2>5. AddressedTypeOK'
    BY Zenon, <2>1, <2>2 DEF AddressedTypeOK
  <2>6. \A k : /\ Issued(k)' <=> Issued(k)
               /\ Completed(k)' <=> Completed(k)
               /\ Answered(k)' <=> Answered(k)
               /\ \A q : Spent(q, k)' <=> Spent(q, k)
    BY SMTT(20), <2>1 DEF Issued, Completed, Answered, Spent
  <2>7. OnTheWay'
    BY ZenonT(30), <2>1, <2>2, <2>3, <2>4, <2>6 DEF OnTheWay
  <2>8. ManagersSound' /\ CountersAhead'
    BY ZenonT(30), <2>1, <2>6 DEF ManagersSound, PendingIsLast, AcceptedOnce, SessionIsSpent, CountersAhead
  <2>9. WindowKnows' /\ OpenedOnce'
    BY Zenon, <2>1, <2>6 DEF WindowKnows, OpenedOnce
  <2> QED
    BY <2>5, <2>7, <2>8, <2>9
<1>3. CASE ~(accepted[p] # NoState /\ init = accepted[p].init)
  <2>1. PICK r : r = [kind |-> "resp", init |-> init, born |-> incarnation[p]]
    BY Zenon
  <2>2. /\ r \in Resps /\ r \notin Inits /\ r.init = init /\ r.born = incarnation[p]
        /\ incarnation[p] \in Nat /\ init.issued \in Nat
    BY Zenon, <2>1 DEF Resps, Inits, AddressedTypeOK
  <2>3. /\ pending' = [pending EXCEPT ![p] = NoState]
        /\ accepted' = [accepted EXCEPT ![p] = [init |-> init, resp |-> r]]
        /\ session' = [session EXCEPT ![p] = Derive(r)]
        /\ handshakes' = handshakes \cup {r}
        /\ lastIssued' = lastIssued
        /\ accepted[p] # NoState => init.issued > accepted[p].init.issued
    BY Zenon, <1>3, <2>1 DEF OnInit, InstallResponder
  <2>4. /\ Derive(r) \in Sessions /\ Derive(r) # NoState /\ Derive(r).key = r
        /\ [init |-> init, resp |-> r] \in Acceptances
        /\ [init |-> init, resp |-> r] # NoState
    BY <2>2, NoStateAssumption DEF Derive, Sessions, Acceptances
  <2>5. AddressedTypeOK'
    BY Zenon, <2>2, <2>3, <2>4 DEF AddressedTypeOK
  <2>6. accepted[p] # NoState => accepted[p].init.issued \in Nat
    BY Zenon DEF AddressedTypeOK, Acceptances, Inits
  <2>7. Grows
    <3>1. \A q \in Peers : accepted[q] # NoState => accepted[q].init.issued \in Nat
      BY Zenon DEF AddressedTypeOK, Acceptances, Inits
    <3> QED
      BY <2>2, <2>3, <2>4, <3>1 DEF Grows, AddressedTypeOK
  <2>8. ~Spent(p, r)
    <3>1. r.init.from # p /\ Other(r.init.from) = p
      BY Zenon, <1>1, <2>2
    <3>2. ~(r.born < incarnation[p])
      BY <2>2
    <3>3. accepted[p] # NoState => ~(r.init.issued <= accepted[p].init.issued)
      BY <2>2, <2>3, <2>6
    <3> QED
      BY Zenon, <3>1, <3>2, <3>3 DEF Spent, Answered
  <2>9. /\ session'[p] = Derive(r) /\ accepted'[p] = [init |-> init, resp |-> r]
        /\ pending'[p] = NoState /\ incarnation'[p] = incarnation[p]
    BY Zenon, <2>3 DEF AddressedTypeOK
  <2>10. Answered(r)' /\ Spent(p, r)'
    BY <1>1, <2>2, <2>4, <2>9 DEF Answered, Spent
  <2>11. Issued(init)'
    BY SMTT(20), <1>1, <2>5, <2>7, Freshness
  <2>12. OnTheWay'
    BY SMTT(20), <2>2, <2>3, <2>5, <2>7, <2>10, <2>11, OthersStay DEF OnTheWay
  <2>13. PendingIsLast(p)' /\ AcceptedOnce(p)' /\ SessionIsSpent(p)'
    <3>1. PendingIsLast(p)'
      BY Zenon, <2>9 DEF PendingIsLast
    <3>2. AcceptedOnce(p)'
      <4>1. accepted'[p].init = init /\ accepted'[p].resp = r
        BY <2>9
      <4>2. r = [kind |-> "resp", init |-> accepted'[p].init, born |-> incarnation'[p]]
        BY Zenon, <2>1, <2>9, <4>1
      <4> QED
        BY Zenon, <1>1, <2>11, <4>1, <4>2 DEF AcceptedOnce
    <3>3. SessionIsSpent(p)'
      BY SMTT(20), <1>1, <2>2, <2>4, <2>9, <2>10 DEF SessionIsSpent
    <3> QED
      BY Zenon, <3>1, <3>2, <3>3
  <2>14. \A q \in Peers : q # p => session'[q] = session[q] /\ pending'[q] = pending[q] /\ accepted'[q] = accepted[q]
    BY Zenon, <2>3 DEF AddressedTypeOK
  <2>15. ManagersSound'
    BY SMTT(20), <2>3, <2>5, <2>7, <2>13, <2>14, OthersStay DEF ManagersSound
  <2>16. CountersAhead' /\ WindowKnows' /\ OpenedOnce'
    BY SMTT(20), <2>4, <2>5, <2>7, <2>8, <2>9, <2>14, FramesStay
  <2> QED
    BY Zenon, <2>5, <2>12, <2>15, <2>16
<1> QED
  BY Zenon, <1>2, <1>3

\* on_resp: the init was still awaited, so its key sets up a session here for the
\* first time, and the other side has answered it.
LEMMA OnRespKeeps ==
  ASSUME AddressedInv, NEW resp \in handshakes, resp \in Resps, NEW p \in Peers, p = resp.init.from,
         OnResp(p, resp), UNCHANGED <<incarnation, now, sealed, opened>>
  PROVE  AddressedInv'
<1> USE DEF AddressedInv
<1>1. /\ pending[p] = resp.init
      /\ pending' = [pending EXCEPT ![p] = NoState]
      /\ session' = [session EXCEPT ![p] = Derive(resp)]
      /\ UNCHANGED <<accepted, lastIssued, handshakes>>
  BY Zenon DEF OnResp
<1>2. /\ Derive(resp) \in Sessions /\ Derive(resp) # NoState /\ Derive(resp).key = resp
      /\ resp.init \in Inits /\ resp.init # NoState
  BY NoStateAssumption DEF Derive, Sessions, Resps
<1>3. AddressedTypeOK'
  BY Zenon, <1>1, <1>2 DEF AddressedTypeOK
<1>4. Grows
  BY <1>1 DEF Grows, AddressedTypeOK, Acceptances, Inits
<1>5. /\ resp.init.born = incarnation[p] /\ resp.init.issued = lastIssued[p] /\ lastIssued[p] > 0
      /\ lastIssued[p] \in Nat
  BY Zenon, <1>1, <1>2 DEF ManagersSound, PendingIsLast, AddressedTypeOK
<1>6. ~Spent(p, resp)
  BY Zenon, <1>1 DEF Spent, Completed
<1>7. session'[p] = Derive(resp) /\ pending'[p] = NoState
  BY Zenon, <1>1 DEF AddressedTypeOK
<1>8. Answered(resp)'
  BY Zenon, <1>3, <1>4, Freshness DEF OnTheWay
<1>9. Spent(p, resp)'
  BY <1>1, <1>2, <1>5, <1>7 DEF Spent, Completed
<1>10. OnTheWay'
  BY Zenon, <1>1, <1>3, <1>4, OthersStay DEF OnTheWay
<1>11. PendingIsLast(p)' /\ AcceptedOnce(p)' /\ SessionIsSpent(p)'
  <2>1. PendingIsLast(p)'
    BY Zenon, <1>7 DEF PendingIsLast
  <2>2. AcceptedOnce(p)'
    BY Zenon, <1>1 DEF ManagersSound, AcceptedOnce, Issued
  <2>3. SessionIsSpent(p)'
    BY SMTT(20), <1>1, <1>2, <1>5, <1>7, <1>8, <1>9 DEF SessionIsSpent
  <2> QED
    BY Zenon, <2>1, <2>2, <2>3
<1>12. \A q \in Peers : q # p => session'[q] = session[q] /\ pending'[q] = pending[q]
  BY Zenon, <1>1 DEF AddressedTypeOK
<1>13. ManagersSound'
  BY SMTT(20), <1>1, <1>3, <1>4, <1>11, <1>12, OthersStay DEF ManagersSound
<1>14. CountersAhead' /\ WindowKnows' /\ OpenedOnce'
  BY SMTT(20), <1>2, <1>3, <1>4, <1>6, <1>7, <1>12, FramesStay
<1> QED
  BY SMTT(20), <1>3, <1>10, <1>13, <1>14

\* A restart forgets the sessions, and its clock is past every init it issued.
LEMMA RestartKeeps ==
  ASSUME AddressedInv, NEW p \in Peers, Restart(p)
  PROVE  AddressedInv'
<1> USE DEF AddressedInv
<1>1. /\ incarnation' = [incarnation EXCEPT ![p] = @ + 1]
      /\ session' = [session EXCEPT ![p] = NoState]
      /\ pending' = [pending EXCEPT ![p] = NoState]
      /\ accepted' = [accepted EXCEPT ![p] = NoState]
      /\ lastIssued' = [lastIssued EXCEPT ![p] = 0]
      /\ now' = Later(now, lastIssued[p]) + 1
      /\ UNCHANGED <<handshakes, sealed, opened>>
  BY Zenon DEF Restart
<1>2. AddressedTypeOK'
  BY <1>1 DEF AddressedTypeOK, Later
<1>3. Grows
  BY <1>1 DEF Grows, AddressedTypeOK, Acceptances, Inits, Later
<1>4. session'[p] = NoState /\ pending'[p] = NoState /\ accepted'[p] = NoState
  BY Zenon, <1>1 DEF AddressedTypeOK
<1>5. \A q \in Peers : q # p =>
        /\ session'[q] = session[q] /\ pending'[q] = pending[q] /\ accepted'[q] = accepted[q]
        /\ lastIssued'[q] = lastIssued[q] /\ incarnation'[q] = incarnation[q]
  BY Zenon, <1>1 DEF AddressedTypeOK
<1>6. OnTheWay'
  BY Zenon, <1>1, <1>2, <1>3, OthersStay DEF OnTheWay
<1>7. ManagersSound'
  BY ZenonT(30), <1>2, <1>3, <1>4, <1>5, OthersStay
     DEF ManagersSound, PendingIsLast, AcceptedOnce, SessionIsSpent
<1>8. CountersAhead' /\ WindowKnows' /\ OpenedOnce'
  BY SMTT(20), <1>1, <1>2, <1>3, <1>4, <1>5, FramesStay
<1> QED
  BY Zenon, <1>2, <1>6, <1>7, <1>8

\* Every step of the managers, the wire and the receiver keeps AddressedInv.
LEMMA AddressedStep ==
  ASSUME AddressedInv, [AddressedNext]_addressedVars
  PROVE  AddressedInv'
<1> USE DEF managerVars
<1>1. CASE UNCHANGED addressedVars
  BY Zenon, <1>1, Idle DEF addressedVars
<1>2. ASSUME NEW p \in Peers, SendAddressed(p) \/ DeadlineExceeded(p)
      PROVE  AddressedInv'
  BY Zenon, <1>2, Idle DEF SendAddressed, DeadlineExceeded
<1>3. ASSUME NEW p \in Peers, Rekey(p) \/ RekeyFails(p), UNCHANGED <<incarnation, now, sealed, opened>>
      PROVE  AddressedInv'
  BY Zenon, <1>3, EnsureHandshakeKeeps DEF Rekey, RekeyFails
<1>4. ASSUME NEW p \in Peers, AwaitSession(p)
      PROVE  AddressedInv'
  BY Zenon, <1>3, <1>4 DEF AwaitSession
<1>5. ASSUME NEW p \in Peers, NEW frame \in sealed, RekeyUnopened(p, frame)
      PROVE  AddressedInv'
  BY Zenon, <1>3, <1>5 DEF RekeyUnopened
<1>6. ASSUME NEW msg \in handshakes, Lose(msg)
      PROVE  AddressedInv'
  <2>1. /\ UNCHANGED <<session, pending, accepted, lastIssued, incarnation, now, sealed, opened>>
        /\ handshakes' \subseteq handshakes
    BY Zenon, <1>6 DEF Lose
  <2> QED
    BY Zenon, <2>1, Idle
<1>7. ASSUME NEW msg \in handshakes, ReceiveHandshake(msg)
      PROVE  AddressedInv'
  <2>1. msg \in Inits \cup Resps /\ UNCHANGED <<incarnation, now, sealed, opened>>
    BY Zenon, <1>7 DEF ReceiveHandshake, AddressedInv, AddressedTypeOK
  <2>2. CASE msg.kind = "init" /\ OnInit(Other(msg.from), msg)
    <3>1. msg \in Inits /\ Other(msg.from) \in Peers
      BY Zenon, <2>1, <2>2, TwoPeers DEF Inits, Resps
    <3> QED
      BY Zenon, <2>1, <2>2, <3>1, OnInitKeeps
  <2>3. CASE msg.kind = "resp" /\ OnResp(msg.init.from, msg)
    <3>1. msg \in Resps /\ msg.init.from \in Peers
      BY Zenon, <2>1, <2>3 DEF Inits, Resps
    <3> QED
      BY Zenon, <2>1, <2>3, <3>1, OnRespKeeps
  <2> QED
    BY Zenon, <1>7, <2>2, <2>3 DEF ReceiveHandshake
<1>8. CASE AddressedNext
  BY SMTT(20), <1>2, <1>4, <1>5, <1>6, <1>7, <1>8, SealForKeeps, OpenFromKeeps, RestartKeeps DEF AddressedNext
<1> QED
  BY Zenon, <1>1, <1>8

\* The inductive invariant of the sessions.
THEOREM AddressedInvariant == AddressedSpec => []AddressedInv
BY AddressedInitially, AddressedStep, PTL DEF AddressedSpec

\* No counter is used twice under a key and no frame is opened twice (OpenedOnce),
\* whatever is repeated, reordered or lost, and whoever restarts or re-keys.
THEOREM FramesOpenOnce == AddressedSpec => []OpenedOnce
<1>1. AddressedInv => OpenedOnce
  BY Zenon DEF AddressedInv
<1> QED
  BY <1>1, AddressedInvariant, PTL

\* A responder is never rolled back to an older init (NoRollback): the init both
\* sides run on is the last one issued, and an answer given in this life of the
\* responder is to an init no later than the one it accepted last.
THEOREM RespondersStay == AddressedSpec => []NoRollback
<1>1. ASSUME AddressedInv
      PROVE  NoRollback
  <2> USE <1>1 DEF AddressedInv
  <2> SUFFICES ASSUME NEW p \in Peers,
                      session[p] # NoState, session[Other(p)] # NoState, pending[p] = NoState,
                      session[p].key.init.from = p, session[Other(p)].key.init.from = p,
                      session[p].key.born = incarnation[Other(p)]
               PROVE  session[p].key = session[Other(p)].key
    BY Zenon DEF NoRollback
  <2> DEFINE q == Other(p)
             k == session[p].key
             last == accepted[q].init
  <2>1. q \in Peers /\ q # p /\ Other(q) = p
    BY Zenon, TwoPeers
  <2>2. /\ accepted[q] # NoState /\ session[q].key = accepted[q].resp
        /\ accepted[q].resp = [kind |-> "resp", init |-> last, born |-> incarnation[q]]
        /\ last.from = p /\ Issued(last) /\ last \in Inits
    BY ZenonT(30), <2>1 DEF ManagersSound, SessionIsSpent, AcceptedOnce, AddressedTypeOK, Acceptances
  <2>3. /\ k \in Resps /\ k.init \in Inits
        /\ k.init.born = incarnation[p] /\ k.init.issued = lastIssued[p] /\ lastIssued[p] > 0
        /\ Answered(k)
    <3>1. session[p] \in Sessions
      BY Zenon DEF AddressedTypeOK
    <3>2. k \in Resps /\ k.init \in Inits
      BY Zenon, <3>1 DEF Sessions, Resps
    <3>3. SessionIsSpent(p)
      BY Zenon DEF ManagersSound
    <3> QED
      BY Zenon, <3>2, <3>3 DEF SessionIsSpent
  <2>4. k.init.issued <= last.issued
    BY SMTT(20), <2>1, <2>2, <2>3 DEF Answered, AddressedTypeOK
  <2>5. last.born = incarnation[p] /\ last.issued = k.init.issued
    <3>1. /\ last.issued \in Nat /\ last.born \in Nat /\ k.init.issued \in Nat
          /\ lastIssued[p] \in Nat /\ incarnation[p] \in Nat
      BY Zenon, <2>2, <2>3 DEF Inits, AddressedTypeOK
    <3>2. \/ last.born = incarnation[p] /\ last.issued <= lastIssued[p]
          \/ last.born < incarnation[p] /\ last.issued < lastIssued[p]
      BY Zenon, <2>2, <2>3 DEF Issued
    <3> QED
      BY <2>3, <2>4, <3>1, <3>2
  <2>6. last = k.init
    <3>1. \A i \in Inits : i = [kind |-> "init", from |-> i.from, born |-> i.born,
                                issued |-> i.issued]
      BY DEF Inits
    <3>2. last.from = k.init.from /\ last.born = k.init.born /\ last.issued = k.init.issued
      BY Zenon, <2>2, <2>3, <2>5
    <3> QED
      BY Zenon, <2>2, <2>3, <3>1, <3>2
  <2>7. k = [kind |-> "resp", init |-> k.init, born |-> k.born]
    BY Zenon, <2>3 DEF Resps
  <2> QED
    BY Zenon, <2>2, <2>6, <2>7
<1> QED
  BY <1>1, AddressedInvariant, PTL
=============================================================================
