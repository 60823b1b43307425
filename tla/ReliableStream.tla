---------------------------- MODULE ReliableStream ----------------------------
(***************************************************************************)
(* What a stream of a connection promises its two applications, whatever   *)
(* the network does: the bytes one end submits reach the other end's       *)
(* callback once each and in the order in which they were submitted.       *)
(*                                                                         *)
(* The i-th byte submitted on a stream, in one direction, is the number i. *)
(***************************************************************************)
EXTENDS Naturals, Sequences

CONSTANTS
    Peer,          \* the two ends
    Other(_),      \* the end a peer talks to
    StreamID,
    Lengths        \* the lengths of what is submitted or delivered at once

VARIABLES
    submitted,     \* how many bytes a peer's application submitted on a stream
    delivered      \* the bytes its callback was given

streamVars == <<submitted, delivered>>

\* The bytes first, first + 1, ... of a stream.
Bytes(first, length) == [i \in 1 .. length |-> first + i - 1]

Init ==
    /\ submitted = [p \in Peer |-> [s \in StreamID |-> 0]]
    /\ delivered = [p \in Peer |-> [s \in StreamID |-> <<>>]]

Submit(p, s, length) ==
    /\ submitted' = [submitted EXCEPT ![p][s] = @ + length]
    /\ UNCHANGED delivered

\* The callback is given the next bytes the other end submitted.
Deliver(p, s, length) ==
    /\ Len(delivered[p][s]) + length <= submitted[Other(p)][s]
    /\ delivered' = [delivered EXCEPT ![p][s] =
                        @ \o Bytes(Len(@) + 1, length)]
    /\ UNCHANGED submitted

Next == \E p \in Peer, s \in StreamID, length \in Lengths :
            Submit(p, s, length) \/ Deliver(p, s, length)

Spec == Init /\ [][Next]_streamVars
=============================================================================
