--------------------------- MODULE SessionPromise ---------------------------
(***************************************************************************)
(* What a connection promises its two applications, whatever packets make  *)
(* it: a client opens only what a server has accepted, and an end that did *)
(* not ask for the close finds itself closed only after the other end did. *)
(***************************************************************************)
CONSTANTS Client, Server

VARIABLE view     \* what each end makes of the connection

Other(p) == IF p = Client THEN Server ELSE Client

Become(p, from, to) ==
    /\ view[p] \in from
    /\ view' = [view EXCEPT ![p] = to]

PromiseInit == view = [p \in {Client, Server} |-> "none"]

Create == Become(Client, {"none"}, "opening")

Accept == view[Client] # "none" /\ \E to \in {"open", "closing"} : Become(Server, {"none"}, to)

Open == view[Server] # "none" /\ \E to \in {"open", "closing"} : Become(Client, {"opening"}, to)

Close(p) == Become(p, {"open"}, "closing")

\* The alarm or an ACK ends the wait of an end that closes.
WaitEnds(p) == Become(p, {"closing"}, "closed")

ClosedByPeer(p) == /\ view[Other(p)] \in {"closing", "closed"}
                   /\ Become(p, {"open", "closing"}, "closed")

PromiseNext ==
    \/ Create
    \/ Accept
    \/ Open
    \/ \E p \in {Client, Server} : Close(p) \/ WaitEnds(p) \/ ClosedByPeer(p)

PromiseSpec == PromiseInit /\ [][PromiseNext]_view
=============================================================================
