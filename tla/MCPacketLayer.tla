---------------------------- MODULE MCPacketLayer ----------------------------
(* Instances of PacketLayer for TLC. *)
EXTENDS PacketLayer, TLC

CONSTANTS client, server, data, limit, notice, ping

MCOnceFrame == {data, notice}
MCDataOnly == {data}
MCRepeatFrame == {limit}
MCNoAckFrame == {notice}
MCNone == {}

\* Bounds: how many packets each end may number.
MCTwoAndNone == [p \in Peer |-> IF p = Client THEN 2 ELSE 0]
MCThreeAndNone == [p \in Peer |-> IF p = Client THEN 3 ELSE 0]
=============================================================================
