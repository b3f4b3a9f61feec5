------------------------- MODULE MCBusSubscription -------------------------
(***************************************************************************)
(* One room and one subscriber over the router.                            *)
(***************************************************************************)
EXTENDS BusSubscription

OneRoom == {"a"}

SeamEnvs == 1..4
SeamEventId == <<1, 2, 3, 4>>
SeamRoom == [e \in SeamEnvs |-> "a"]
SeamDelivery == <<"durable", "durable", "live", "durable">>
SeamBytes == [e \in SeamEnvs |-> 1]
SeamSender == [e \in SeamEnvs |-> "p"]
SeamKey == [e \in SeamEnvs |-> "nokey"]
SeamSubs == {"s"}
SeamSubRoom == [s \in SeamSubs |-> "a"]
SeamWants == [s \in SeamSubs |-> SeamEnvs]

\* Two durables and a lossy event, for the runs with a restart or liveness.
ShortEnvs == 1..3
ShortEventId == <<1, 2, 3>>
ShortRoom == [e \in ShortEnvs |-> "a"]
ShortDelivery == <<"durable", "durable", "live">>
ShortBytes == [e \in ShortEnvs |-> 1]
ShortSender == [e \in ShortEnvs |-> "p"]
ShortKey == [e \in ShortEnvs |-> "nokey"]
ShortWants == [s \in SeamSubs |-> {1, 2}]
=============================================================================
