-------------------------- MODULE MCStreamTransport --------------------------
(* Instances of StreamTransport for TLC. *)
EXTENDS StreamTransport

CONSTANTS client, server, nostream

\* In none of the instances does opening a stream overwrite one in use.
ASSUME KeysApartHere == KeysApart

MCPing == [type |-> "PING"]
MCNone == {}

\* The first stream a client opens; the IDs of its first two, and the index of the second.
MCOneStream == {0}
MCTwoStreams == {0, 1, 4}

\* The first stream a server opens has ID 1, and its index touches key 0.
MCServerStream == {0, 1}

\* Bounds by peer: packets, bytes submitted on a stream, streams opened.
MCZero == [p \in Peer |-> 0]
MCOne == [p \in Peer |-> 1]
MCClientOne == [p \in Peer |-> IF p = Client THEN 1 ELSE 0]
MCServerOne == [p \in Peer |-> IF p = Server THEN 1 ELSE 0]
MCTwoAndTwo == [p \in Peer |-> 2]
MCOneAndTwo == [p \in Peer |-> IF p = Server THEN 2 ELSE 1]
MCClientTwo == [p \in Peer |-> IF p = Client THEN 2 ELSE 0]
MCClientThree == [p \in Peer |-> IF p = Client THEN 3 ELSE 0]
MCTwoAndOne == [p \in Peer |-> IF p = Client THEN 2 ELSE 1]
MCThreeAndOne == [p \in Peer |-> IF p = Client THEN 3 ELSE 1]
MCThreeAndTwo == [p \in Peer |-> IF p = Client THEN 3 ELSE 2]
MCClientSix == [p \in Peer |-> IF p = Client THEN 6 ELSE 0]

MCNoFin == {FALSE}
MCFins == {FALSE, TRUE}
MCFinOnly == {TRUE}

MCSizesOne == {1}
MCSizesOneTwo == {1, 2}
MCSizesThree == {3}
MCSizesZeroThree == {0, 3}
=============================================================================
