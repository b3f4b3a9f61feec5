--------------------------- MODULE MCAttachStream ---------------------------
(***************************************************************************)
(* One attach over one room.                                               *)
(***************************************************************************)
EXTENDS AttachStream

OneRoom == {"a"}
\* Two durables and two lossy events: enough pushes to overflow a one-slot
\* channel, re-subscribe and overflow it again.
AttachEnvs == 1..4
AttachEventId == <<1, 2, 3, 4>>
AttachRoom == [e \in AttachEnvs |-> "a"]
AttachDelivery == <<"live", "durable", "live", "durable">>
AttachBytes == [e \in AttachEnvs |-> 1]
AttachSender == [e \in AttachEnvs |-> "p"]
AttachKey == [e \in AttachEnvs |-> "nokey"]
AttachSubs == {"s"}
AttachSubRoom == [s \in AttachSubs |-> "a"]
AttachWants == [s \in AttachSubs |-> AttachEnvs]

\* Three durables: more history than one page holds.
PageEnvs == 1..3
PageEventId == <<1, 2, 3>>
PageRoom == [e \in PageEnvs |-> "a"]
PageDelivery == <<"durable", "durable", "durable">>
PageBytes == [e \in PageEnvs |-> 1]
PageSender == [e \in PageEnvs |-> "p"]
PageKey == [e \in PageEnvs |-> "nokey"]
PageWants == [s \in AttachSubs |-> PageEnvs]
=============================================================================
