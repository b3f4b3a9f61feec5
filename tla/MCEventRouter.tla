--------------------------- MODULE MCEventRouter ---------------------------
(***************************************************************************)
(* The workloads EventRouter is checked on.                                *)
(***************************************************************************)
EXTENDS EventRouter

TwoRooms == {"a", "b"}
OneRoom == {"a"}

\* Durability and ingest over two rooms: a local publish 1 whose echo arrives on two links as 2
\* and 3, and local publishes 4 and 5.
IngestEnvs == 1..5
IngestInbound == {2, 3}
IngestEventId == <<"x", "x", "x", "y", "z">>
IngestRoom == <<"a", "a", "a", "a", "b">>
IngestDelivery == [e \in IngestEnvs |-> "durable"]
IngestBytes == [e \in IngestEnvs |-> 1]
IngestSender == [e \in IngestEnvs |-> "p"]
IngestKey == [e \in IngestEnvs |-> "nokey"]

\* Forwarding: two durable publishes, two coalesced values of one key, and one of
\* the same name from another sender.
ForwardEnvs == 1..5
ForwardEventId == <<1, 2, 3, 4, 5>>
ForwardRoom == [e \in ForwardEnvs |-> "a"]
ForwardDelivery == <<"durable", "latest", "latest", "latest", "durable">>
ForwardBytes == <<1, 5, 1, 1, 3>>
ForwardSender == <<"p", "p", "p", "q", "p">>
ForwardKeys == <<"nokey", "k", "k", "k", "nokey">>
=============================================================================
