------------------------- MODULE AddressedSessions --------------------------
(***************************************************************************)
(* Addressed delivery between two identities (airc-lib/src/addressed over  *)
(* airc-protocol's SessionManager): a send waits for a session, sending    *)
(* its handshake init again and again, then seals; a receiver answers      *)
(* inits, completes its own, opens sealed frames at most once and re-keys  *)
(* on a frame it cannot open.  Frames take any route: they are reordered,  *)
(* repeated and lost.  A process may restart, losing all of this state.    *)
(*                                                                         *)
(* A fresh ephemeral is named by what makes it fresh: an init by its       *)
(* initiator, incarnation and issue time, a response by the init it signs  *)
(* and the responder's incarnation, which answers an init afresh once at   *)
(* most.  Init and response together are the key.                          *)
(***************************************************************************)
EXTENDS Naturals, FiniteSets, Bags

CONSTANTS
  NoState,     \* Option::None
  WindowBits,  \* counters the replay window covers
  Budgets      \* bounds on the frames sealed, the inits sent for frames that
               \* do not open, the restarts and the handshake messages lost

ASSUME AddressedAssumption ==
  WindowBits \in Nat \ {0} /\ Budgets \subseteq [seals : Nat, rekeys : Nat, restarts : Nat, losses : Nat]

VARIABLES
  session,   \* peer -> its session with the other: key, next counter, window
  pending,   \* peer -> the init it awaits an answer to
  accepted,  \* peer -> the last init it accepted, with the answer it gave
  lastIssued,\* peer -> last_issued_ms
  incarnation, \* peer -> how often it restarted
  now,       \* the wall clock
  waiting,   \* peers whose send_addressed has neither sealed nor expired
  handshakes, \* handshake messages on their way, each any number of times
  sealed,    \* every frame ever sealed: each may arrive at any time, repeatedly
  opened,    \* bag of the frames opened into the inbox
  budget, rekeys, losses

managerVars == <<session, pending, accepted, lastIssued>>
addressedVars == <<managerVars, incarnation, now, waiting, handshakes, sealed, opened, budget, rekeys, losses>>

\* The two identities, by the order of their ids.
Lower == 1
Higher == 2
Peers == {Lower, Higher}
Other(p) == Lower + Higher - p

\* HandshakeInit and HandshakeResp, the session of a peer, and what it keeps of
\* the init it accepted.
Inits == [kind : {"init"}, from : Peers, born : Nat, issued : Nat]
Resps == [kind : {"resp"}, init : Inits, born : Nat]
Sessions == [key : Resps, ctr : Nat, highest : Nat \cup {NoState}, window : SUBSET Nat]
Acceptances == [init : Inits, resp : Resps]

ASSUME NoStateAssumption ==
  /\ NoState \notin Nat
  /\ NoState \notin Inits
  /\ NoState \notin Sessions
  /\ NoState \notin Acceptances

Later(a, b) == IF a > b THEN a ELSE b

AddressedInit ==
  /\ session = [p \in Peers |-> NoState]
  /\ pending = [p \in Peers |-> NoState]
  /\ accepted = [p \in Peers |-> NoState]
  /\ lastIssued = [p \in Peers |-> 0]
  /\ incarnation = [p \in Peers |-> 0]
  /\ now = 1
  /\ waiting = {}
  /\ handshakes = {}
  /\ sealed = {}
  /\ opened = EmptyBag
  /\ budget \in Budgets
  /\ rekeys = 0
  /\ losses = 0

\* StreamSession::derive, with the default ReplayWindow.
Derive(resp) == [key |-> resp, ctr |-> 0, highest |-> NoState, window |-> {}]

\* Slip: what fell out of the window is taken for unseen.
WouldAcceptOld(s, ctr) == s.highest # NoState /\ ctr <= s.highest => ctr \notin s.window

\* would_accept: above the highest counter, or unseen in the window below it.
WouldAccept(s, ctr) ==
  s.highest # NoState /\ ctr <= s.highest => s.highest - ctr < WindowBits /\ ctr \notin s.window

\* record: the window slides to the highest counter.
RecordCounter(s, ctr) ==
  LET top == IF s.highest = NoState THEN ctr ELSE Later(s.highest, ctr)
  IN  [s EXCEPT !.highest = top,
                !.window = {c \in @ \cup {ctr} : top - c < WindowBits}]

\* begin_handshake_inner with reuse: the outstanding init, or a new one whose
\* issue time is past every earlier one of this process.
EnsureHandshake(p) ==
  IF pending[p] # NoState THEN UNCHANGED managerVars
  ELSE LET issued == Later(now, lastIssued[p] + 1)
       IN  /\ pending' = [pending EXCEPT ![p] =
                            [kind |-> "init", from |-> p, born |-> incarnation[p], issued |-> issued]]
           /\ lastIssued' = [lastIssued EXCEPT ![p] = issued]
           /\ UNCHANGED <<session, accepted>>

\* rekey: the init goes out ...
Rekey(p) ==
  /\ EnsureHandshake(p)
  /\ handshakes' = handshakes \cup {pending'[p]}
  /\ UNCHANGED losses

\* ... or the write fails and the init stays pending.
RekeyFails(p) ==
  /\ losses < budget.losses
  /\ losses' = losses + 1
  /\ EnsureHandshake(p)
  /\ UNCHANGED handshakes

\* send_addressed starts.
SendAddressed(p) ==
  /\ p \notin waiting
  /\ waiting' = waiting \cup {p}
  /\ UNCHANGED <<managerVars, incarnation, now, handshakes, sealed, opened, rekeys, losses, budget>>

\* await_session: the retry timer fires while there is no session; a failed
\* write fails the send.
AwaitSession(p) ==
  /\ p \in waiting
  /\ session[p] = NoState
  /\ \/ Rekey(p) /\ UNCHANGED waiting
     \/ RekeyFails(p) /\ waiting' = waiting \ {p}
  /\ UNCHANGED <<incarnation, now, sealed, opened, rekeys, budget>>

\* send_addressed_by with a session: seal_for and the write.
SealFor(p) ==
  /\ p \in waiting
  /\ session[p] # NoState
  /\ Cardinality(sealed) < budget.seals
  /\ sealed' = sealed \cup {[key |-> session[p].key, from |-> p, ctr |-> session[p].ctr,
                             body |-> Cardinality(sealed)]}
  /\ session' = [session EXCEPT ![p].ctr = @ + 1]
  /\ waiting' = waiting \ {p}
  /\ UNCHANGED <<pending, accepted, lastIssued, incarnation, now, handshakes, opened, rekeys, losses, budget>>

\* The deadline of send_addressed.
DeadlineExceeded(p) ==
  /\ p \in waiting
  /\ waiting' = waiting \ {p}
  /\ UNCHANGED <<managerVars, incarnation, now, handshakes, sealed, opened, rekeys, losses, budget>>

\* Ours to them completes instead.
Crossed(p) == pending[p] # NoState /\ p < Other(p)

\* The session p derives as the responder, and its answer.
InstallResponder(p, init) ==
  LET resp == [kind |-> "resp", init |-> init, born |-> incarnation[p]]
  IN  /\ pending' = [pending EXCEPT ![p] = NoState]
      /\ accepted' = [accepted EXCEPT ![p] = [init |-> init, resp |-> resp]]
      /\ session' = [session EXCEPT ![p] = Derive(resp)]
      /\ handshakes' = handshakes \cup {resp}
      /\ UNCHANGED lastIssued

\* Slip: an init of any age is accepted.
OnInitOfAnyAge(p, init) ==
  /\ ~Crossed(p)
  /\ IF accepted[p] # NoState /\ init = accepted[p].init
     THEN handshakes' = handshakes \cup {accepted[p].resp} /\ UNCHANGED managerVars
     ELSE InstallResponder(p, init)

\* Slip: the higher id does not yield either.
OnInitNeverYielding(p, init) ==
  /\ pending[p] = NoState
  /\ IF accepted[p] # NoState /\ init = accepted[p].init
     THEN handshakes' = handshakes \cup {accepted[p].resp} /\ UNCHANGED managerVars
     ELSE /\ accepted[p] # NoState => init.issued > accepted[p].init.issued
          /\ InstallResponder(p, init)

\* on_init: a duplicate gets the answer already given, an init not newer than
\* the last accepted is refused, a newer one replaces the session.
OnInit(p, init) ==
  /\ ~Crossed(p)
  /\ IF accepted[p] # NoState /\ init = accepted[p].init
     THEN handshakes' = handshakes \cup {accepted[p].resp} /\ UNCHANGED managerVars
     ELSE /\ accepted[p] # NoState => init.issued > accepted[p].init.issued
          /\ InstallResponder(p, init)

\* on_resp: an answer to another init leaves the pending one awaited.
OnResp(p, resp) ==
  /\ pending[p] = resp.init
  /\ pending' = [pending EXCEPT ![p] = NoState]
  /\ session' = [session EXCEPT ![p] = Derive(resp)]
  /\ UNCHANGED <<accepted, lastIssued, handshakes>>

\* receive_addressed on a handshake step.
ReceiveHandshake(msg) ==
  /\ msg \in handshakes
  /\ \/ msg.kind = "init" /\ OnInit(Other(msg.from), msg)
     \/ msg.kind = "resp" /\ OnResp(msg.init.from, msg)
  /\ UNCHANGED <<incarnation, now, waiting, sealed, opened, rekeys, losses, budget>>

Opens(p, frame) == session[p] # NoState /\ session[p].key = frame.key

\* receive_addressed on a sealed frame that opens; a replay is dropped.
OpenFrom(p, frame) ==
  /\ Opens(p, frame)
  /\ WouldAccept(session[p], frame.ctr)
  /\ session' = [session EXCEPT ![p] = RecordCounter(@, frame.ctr)]
  /\ opened' = opened (+) SetToBag({frame})
  /\ UNCHANGED <<pending, accepted, lastIssued, incarnation, now, waiting, handshakes, sealed, rekeys, losses, budget>>

\* ... and on one that does not: NoSession or AeadFailed.
RekeyUnopened(p, frame) ==
  /\ ~Opens(p, frame)
  /\ rekeys < budget.rekeys
  /\ rekeys' = rekeys + 1
  /\ Rekey(p) \/ RekeyFails(p)
  /\ UNCHANGED <<incarnation, now, waiting, sealed, opened, budget>>

\* A handshake message lost on its way.
Lose(msg) ==
  /\ msg \in handshakes
  /\ losses < budget.losses
  /\ losses' = losses + 1
  /\ handshakes' = handshakes \ {msg}
  /\ UNCHANGED <<managerVars, incarnation, now, waiting, sealed, opened, rekeys, budget>>

\* A restart: the manager starts empty, and comes up at a later time than any
\* it has signed.
Restart(p) ==
  /\ incarnation[Lower] + incarnation[Higher] < budget.restarts
  /\ incarnation' = [incarnation EXCEPT ![p] = @ + 1]
  /\ session' = [session EXCEPT ![p] = NoState]
  /\ pending' = [pending EXCEPT ![p] = NoState]
  /\ accepted' = [accepted EXCEPT ![p] = NoState]
  /\ lastIssued' = [lastIssued EXCEPT ![p] = 0]
  /\ now' = Later(now, lastIssued[p]) + 1
  /\ waiting' = waiting \ {p}
  /\ UNCHANGED <<handshakes, sealed, opened, rekeys, losses, budget>>

AddressedNext ==
  \/ \E p \in Peers :
       \/ SendAddressed(p) \/ AwaitSession(p) \/ SealFor(p) \/ DeadlineExceeded(p) \/ Restart(p)
       \/ \E frame \in {f \in sealed : f.from = Other(p)} : OpenFrom(p, frame) \/ RekeyUnopened(p, frame)
  \/ \E msg \in handshakes : ReceiveHandshake(msg) \/ Lose(msg)

\* The handshake messages p is waiting for: its init at the other end, and
\* whatever answers it.
ReceiveFor(p) ==
  \E msg \in handshakes :
    /\ pending[p] = IF msg.kind = "init" THEN msg ELSE msg.init
    /\ ReceiveHandshake(msg)

\* The retry timer fires until the session is there, and what is sent again
\* and again arrives, as does the answer.
AddressedFairness ==
  \A p \in Peers : WF_addressedVars(AwaitSession(p)) /\ WF_addressedVars(ReceiveFor(p))

AddressedSpec == AddressedInit /\ [][AddressedNext]_addressedVars /\ AddressedFairness

(***************************************************************************)
(* Properties.                                                             *)
(***************************************************************************)
\* Every frame is one: no counter is used for two frames of one side under one
\* key, for a session is never set up a second time from the handshake that made
\* it, and delivery is at most once per frame (deliver_opened), whatever the
\* routes repeat and reorder and whichever side restarts or re-keys in between.
OpenedOnce ==
  /\ \A f, g \in sealed : f.key = g.key /\ f.from = g.from /\ f.ctr = g.ctr => f = g
  /\ \A frame \in BagToSet(opened) : opened[frame] = 1

\* An init that is late or repeated rolls no responder back: once p completed
\* an init with the process the other side is running, and has started no other,
\* a session the other side has from any init of p is that very one.
NoRollback ==
  \A p \in Peers :
    LET mine == session[p]
        theirs == session[Other(p)]
    IN  /\ mine # NoState /\ theirs # NoState /\ pending[p] = NoState
        /\ mine.key.init.from = p /\ theirs.key.init.from = p
        /\ mine.key.born = incarnation[Other(p)]
        => mine.key = theirs.key

\* A send of the lower id that does not expire gets its session: lost inits and
\* answers are sent again, crossing inits yield, a restarted peer answers.
LowerServed == Lower \in waiting ~> (session[Lower] # NoState \/ Lower \notin waiting)

\* Every send that does not expire gets its session, the higher id's too.
EverySenderServed ==
  \A p \in Peers : p \in waiting ~> (session[p] # NoState \/ p \notin waiting)
=============================================================================
