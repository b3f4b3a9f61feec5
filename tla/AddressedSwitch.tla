--------------------------- MODULE AddressedSwitch --------------------------
(***************************************************************************)
(* The daemon's switch for addressed frames: one bounded inbox per local   *)
(* receiver, owned by the connection that holds its lease, and one budget  *)
(* of frames for the node (airc-daemon/src/addressed_switch.rs), with the  *)
(* connections that drain the inboxes (addressed_connection.rs).           *)
(***************************************************************************)
EXTENDS Naturals, Sequences, FiniteSets

CONSTANTS
  NoLease,       \* no entry, no frame
  Receivers,     \* local peers
  Connections,   \* connections: their number bounds the reconnects
  Client,        \* connection -> the peer it proves to be
  Frames,        \* addressed frames
  Recipient,     \* frame -> its target
  OverIpc,       \* frames of local senders; the others come from a transport
  ReceiverLimit, FrameLimit, QueueCapacity

ASSUME SwitchAssumption ==
  /\ Client \in [Connections -> Receivers]
  /\ Recipient \in [Frames -> Receivers]
  /\ NoLease \notin Connections \cup Frames
  /\ OverIpc \subseteq Frames
  /\ {ReceiverLimit, FrameLimit, QueueCapacity} \subseteq Nat \ {0}

VARIABLES
  entries, \* receiver -> the connection whose lease is registered
  serving, \* connection -> "new", "leased", "closed"
  inbox,   \* connection -> its queue
  writing, \* connection -> the frame write_queued is writing
  gone,    \* connections whose client hung up or died
  frame,   \* frame -> "new", "queued", "writing", "forwarding", "done"
  elapsed, \* frames past their deadline
  permits  \* what is left of the node's budget

switchVars == <<entries, serving, inbox, writing, gone, frame, elapsed, permits>>

SwitchInit ==
  /\ entries = [p \in Receivers |-> NoLease]
  /\ serving = [c \in Connections |-> "new"]
  /\ inbox = [c \in Connections |-> <<>>]
  /\ writing = [c \in Connections |-> NoLease]
  /\ gone = {}
  /\ frame = [f \in Frames |-> "new"]
  /\ elapsed = {}
  /\ permits = FrameLimit

Owned == {p \in Receivers : entries[p] # NoLease}

\* Slip: a second lease replaces the first, which nobody ends.
RegisterOver(c) ==
  /\ serving[c] = "new"
  /\ serving' = [serving EXCEPT ![c] = "leased"]
  /\ entries' = [entries EXCEPT ![Client[c]] = c]
  /\ UNCHANGED <<inbox, writing, gone, frame, elapsed, permits>>

\* An authenticated connection registers, or is refused: ReceiverBusy or
\* ReceiverLimit.
Register(c) ==
  /\ serving[c] = "new"
  /\ IF Client[c] \in Owned \/ Cardinality(Owned) >= ReceiverLimit
     THEN /\ serving' = [serving EXCEPT ![c] = "closed"]
          /\ UNCHANGED entries
     ELSE /\ serving' = [serving EXCEPT ![c] = "leased"]
          /\ entries' = [entries EXCEPT ![Client[c]] = c]
  /\ UNCHANGED <<inbox, writing, gone, frame, elapsed, permits>>

\* A frame is admitted: to the inbox of its owner under the lock that found it,
\* refused under pressure, or, with no owner, handed to the forwarder when a
\* local sender sent it.
Admit(f) ==
  /\ frame[f] = "new"
  /\ LET c == entries[Recipient[f]]
         owned == c # NoLease
         refused == \/ f \in elapsed
                    \/ permits = 0
                    \/ owned /\ Len(inbox[c]) >= QueueCapacity
                    \/ ~owned /\ f \notin OverIpc
     IN  IF refused THEN frame' = [frame EXCEPT ![f] = "done"] /\ UNCHANGED <<inbox, permits>>
         ELSE /\ permits' = permits - 1
              /\ IF owned THEN /\ frame' = [frame EXCEPT ![f] = "queued"]
                               /\ inbox' = [inbox EXCEPT ![c] = Append(@, f)]
                 ELSE /\ frame' = [frame EXCEPT ![f] = "forwarding"]
                      /\ UNCHANGED inbox
  /\ UNCHANGED <<entries, serving, writing, gone, elapsed>>

\* The forwarder answers, or its caller's deadline cancels it.
ForwardEnds(f) ==
  /\ frame[f] = "forwarding"
  /\ frame' = [frame EXCEPT ![f] = "done"]
  /\ permits' = permits + 1
  /\ UNCHANGED <<entries, serving, inbox, writing, gone, elapsed>>

ForwardTimeout(f) == f \in elapsed /\ ForwardEnds(f)

\* The connection ends and drops its lease: the entry goes if it is its own,
\* and with the queue and the frame being written their permits come back.
Close(c) ==
  LET dropped == {f \in Frames : f = writing[c] \/ \E i \in 1..Len(inbox[c]) : inbox[c][i] = f}
  IN  /\ serving' = [serving EXCEPT ![c] = "closed"]
      /\ entries' = [p \in Receivers |-> IF entries[p] = c THEN NoLease ELSE entries[p]]
      /\ inbox' = [inbox EXCEPT ![c] = <<>>]
      /\ writing' = [writing EXCEPT ![c] = NoLease]
      /\ frame' = [f \in Frames |-> IF f \in dropped THEN "done" ELSE frame[f]]
      /\ permits' = permits + Cardinality(dropped)

\* serve_live takes the next frame; one past its deadline is skipped.
TakeNext(c) ==
  /\ serving[c] = "leased"
  /\ writing[c] = NoLease
  /\ inbox[c] # <<>>
  /\ c \notin gone
  /\ LET f == Head(inbox[c])
     IN  IF f \in elapsed
         THEN /\ frame' = [frame EXCEPT ![f] = "done"]
              /\ permits' = permits + 1
              /\ UNCHANGED writing
         ELSE /\ frame' = [frame EXCEPT ![f] = "writing"]
              /\ writing' = [writing EXCEPT ![c] = f]
              /\ UNCHANGED permits
  /\ inbox' = [inbox EXCEPT ![c] = Tail(@)]
  /\ UNCHANGED <<entries, serving, gone, elapsed>>

\* The client reads the frame in time.
WriteDone(c) ==
  /\ writing[c] # NoLease
  /\ c \notin gone
  /\ frame' = [frame EXCEPT ![writing[c]] = "done"]
  /\ writing' = [writing EXCEPT ![c] = NoLease]
  /\ permits' = permits + 1
  /\ UNCHANGED <<entries, serving, inbox, gone, elapsed>>

\* Slip: only a broken socket ends a write.
WriteFailsBroken(c) ==
  /\ writing[c] # NoLease
  /\ c \in gone
  /\ Close(c)
  /\ UNCHANGED <<gone, elapsed>>

\* The socket is broken, or the write outlives the frame's deadline and the
\* stream may hold half a frame: the connection closes.
WriteFails(c) ==
  /\ writing[c] # NoLease
  /\ writing[c] \in elapsed \/ c \in gone
  /\ Close(c)
  /\ UNCHANGED <<gone, elapsed>>

\* Between frames, the end of the client's stream ends the connection.
ReadEnds(c) ==
  /\ serving[c] = "leased"
  /\ writing[c] = NoLease
  /\ c \in gone
  /\ Close(c)
  /\ UNCHANGED <<gone, elapsed>>

\* The client hangs up or dies.
HangUp(c) ==
  /\ serving[c] = "leased"
  /\ c \notin gone
  /\ gone' = gone \cup {c}
  /\ UNCHANGED <<entries, serving, inbox, writing, frame, elapsed, permits>>

\* A deadline passes.
DeadlineElapses(f) ==
  /\ f \notin elapsed
  /\ elapsed' = elapsed \cup {f}
  /\ UNCHANGED <<entries, serving, inbox, writing, gone, frame, permits>>

\* What clocks and the daemon's tasks do by themselves; no client has to read, to
\* hang up or to come back.
DaemonStep ==
  \/ \E c \in Connections : TakeNext(c) \/ WriteFails(c) \/ ReadEnds(c)
  \/ \E f \in Frames : ForwardTimeout(f) \/ DeadlineElapses(f)

SwitchNext ==
  \/ DaemonStep
  \/ \E c \in Connections : Register(c) \/ HangUp(c) \/ WriteDone(c)
  \/ \E f \in Frames : Admit(f) \/ ForwardEnds(f)

SwitchSpec == SwitchInit /\ [][SwitchNext]_switchVars /\ WF_switchVars(DaemonStep)

(***************************************************************************)
(* Properties.                                                             *)
(***************************************************************************)
\* A receiver has one live lease, the registered one: register refuses a second
\* connection, so dropping a lease never unroutes another (Drop for
\* ReceiverLease), and every queued frame has a connection that will drain it.
LeaseOwnsEntry ==
  /\ \A p \in Owned : serving[entries[p]] = "leased" /\ Client[entries[p]] = p
  /\ \A c \in Connections : serving[c] = "leased" => entries[Client[c]] = c
  /\ \A c \in Connections : serving[c] # "leased" => inbox[c] = <<>> /\ writing[c] = NoLease

\* The switch recovers from its clients. Every frame the node admits gives its
\* permit back, and once frames stop arriving the whole budget is there again,
\* whether or not any client ever reads: write_queued holds the permit through the
\* write and the frame's deadline ends the write. And a client that is gone does
\* not keep its peer busy: its lease ends, so the next connection of that peer is
\* not refused for ever.
SwitchRecovers ==
  /\ permits < FrameLimit ~> permits = FrameLimit
  /\ gone # {} ~> \A c \in gone : entries[Client[c]] # c
=============================================================================
