----------------------- MODULE MCConnectionLifecycle -----------------------
(* Instances of ConnectionLifecycle for TLC. *)
EXTENDS ConnectionLifecycle, TLC

CONSTANTS client, server

\* Bounds: how many descriptors each end hands out.
MCConnections == [p \in Peer |-> IF p = Client THEN 1 ELSE 2]

\* Bounds: how many packets a connection of each end numbers.
MCPktNum == [p \in Peer |-> IF p = Client THEN 3 ELSE 2]
=============================================================================
