---------------------------- MODULE StreamClosing ----------------------------
(***************************************************************************)
(* Closing of streams, on top of StreamTransport: CloseStream, which tells *)
(* the peer at once, whatever of the stream still waits in unsentBuf, and  *)
(* the handler of RESET_STREAM.  The state of a stream decides nothing in  *)
(* the handlers of the other frames: data of a closed stream is delivered  *)
(* like any other, and a new Stream under its key makes it a running one.  *)
(***************************************************************************)
EXTENDS StreamTransport

VARIABLES
    finState,    \* the keys of streamIDToStream whose state is FIN
    closedBy,    \* history: the streams the application closed
    ended        \* history: how often RESET_STREAM told the callback of the end

closeVars == <<finState, closedBy, ended>>
closingVars == <<allVars, closeVars>>

ClosingInit ==
    /\ StreamInit
    /\ finState = [p \in Peer |-> {}]
    /\ closedBy = [p \in Peer |-> {}]
    /\ ended = [p \in Peer |-> [s \in StreamID |-> 0]]

-----------------------------------------------------------------------------
\* Mutant: the final size is that of what the application submitted.
FinalSizeSubmitted(p, s) == submitted[p][s]

\* GetFinalSizeByStreamID: what was cut into frames so far.
FinalSize(p, s) == streams[p][s].offset

Reset(p, s) == [type |-> "RESET_STREAM", stream |-> s, value |-> FinalSize(p, s)]

\* Mutant: the buffers of the stream that wait are dropped.
CloseStreamDropping(p, s) ==
    /\ phase[p] = "recv" /\ Idle(p)
    /\ s \in usedStreamID[p] \ closedBy[p]
    /\ InBounds(Reset(p, s))
    /\ QueuePacket(p, Reset(p, s))
    /\ unsentBuf' = [unsentBuf EXCEPT ![p] = SelectSeq(@, LAMBDA buf : buf.stream # s)]
    /\ finState' = [finState EXCEPT ![p] = @ \cup {s}]
    /\ closedBy' = [closedBy EXCEPT ![p] = @ \cup {s}]
    /\ UNCHANGED <<streams, usedStreamID, flowVars, handlerVars, historyVars, ended>>

\* QUIC::CloseStream.  The application closes a stream it knows, once.
CloseStream(p, s) ==
    /\ phase[p] = "recv" /\ Idle(p)
    /\ s \in usedStreamID[p] \ closedBy[p]
    /\ InBounds(Reset(p, s))
    /\ QueuePacket(p, Reset(p, s))
    /\ finState' = [finState EXCEPT ![p] = @ \cup {s}]
    /\ closedBy' = [closedBy EXCEPT ![p] = @ \cup {s}]
    /\ UNCHANGED <<streamVars, ended>>

\* Mutant: a packet that was received is handled again.
ReceiveResetAgain(p, pkt) ==
    /\ phase[p] = "recv" /\ Idle(p)
    /\ pkt \in inFlight[p]
    /\ pkt.frame.type = "RESET_STREAM"
    /\ RecordPacket(p, pkt) /\ CountHandled(p, pkt)
    /\ finState' = [finState EXCEPT ![p] = @ \cup {pkt.frame.stream}]
    /\ ended' = [ended EXCEPT ![p][pkt.frame.stream] = @ + 1]
    /\ UNCHANGED <<phase, nowPktNum, pendingPackets, toSendPktNum, notACKedSentPkt,
                   ackedSentPktNum, networkVars, issued, streamVars, closedBy>>

\* The callback is told of the end, whatever was delivered: the final size is not read.
\* Both ways in which the handler records the packet lead to its ACK.
ReceiveReset(p, pkt) ==
    /\ Idle(p)
    /\ pkt.frame.type = "RESET_STREAM"
    /\ ReceivePacket(p, pkt)
    /\ finState' = [finState EXCEPT ![p] = @ \cup {pkt.frame.stream}]
    /\ ended' = [ended EXCEPT ![p][pkt.frame.stream] = @ + 1]
    /\ UNCHANGED <<streamVars, closedBy>>

-----------------------------------------------------------------------------
(***************************************************************************)
(* The steps of StreamTransport.  The application submits nothing on a     *)
(* stream it closed.  A new Stream is RUNNING: CreateStream puts it under  *)
(* the index, and InsertStream under the ID.                               *)
(***************************************************************************)
NewIDs(p) == usedStreamID'[p] \ usedStreamID[p]

Running(p, keys) == finState' = [finState EXCEPT ![p] = @ \ keys]

StreamStep(p) ==
    /\ \/ /\ \E bidirectional \in BOOLEAN : CreateStream(p, bidirectional)
          /\ Running(p, {id \div 4 : id \in NewIDs(p)})
       \/ /\ \E pkt \in inFlight[p] : Receive(p, pkt)
          /\ Running(p, NewIDs(p))
       \/ /\ \/ \E s \in StreamID \ closedBy[p], length \in Sizes, fin \in Fins :
                    SendData(p, s, length, fin)
             \/ DeliverBuffered(p)
             \/ RaiseLimits(p)
             \/ QueueReply(p)
             \/ PassStep(p)
             \/ FinishPass(p)
          /\ UNCHANGED finState
    /\ UNCHANGED <<closedBy, ended>>

ClosingEndpoint(p) ==
    \/ StreamStep(p)
    \/ \E s \in StreamID : CloseStream(p, s)
    \/ \E pkt \in inFlight[p] : ReceiveReset(p, pkt)

ClosingNext == \E p \in Peer : ClosingEndpoint(p)

ClosingSpec == ClosingInit /\ [][ClosingNext]_closingVars

-----------------------------------------------------------------------------
(* Properties.                                                             *)

ClosingTypeOK ==
    /\ StreamTypeOK
    /\ finState \in [Peer -> SUBSET StreamID]
    /\ closedBy \in [Peer -> SUBSET StreamID]
    /\ ended \in [Peer -> [StreamID -> Nat]]

\* However often RESET_STREAM is sent again or repeated by the network, the callback is
\* told once of the end of a stream, and only if the peer closed it (quic.cc:910-944).
EndToldOnce ==
    \A p \in Peer, s \in StreamID :
        ended[p][s] <= IF s \in closedBy[Other(p)] THEN 1 ELSE 0

\* The final size in a RESET_STREAM frame counts the bytes of the STREAM frames that were
\* numbered before it, so that a receiver could tell which ones are missing
\* (connection.hh:411-431).
FinalSizeIsSent ==
    \A p \in Peer : \A reset \in issued[p] :
        reset.frame.type = "RESET_STREAM" =>
            LET before == {pkt \in issued[p] : /\ pkt.frame.type = "STREAM"
                                              /\ pkt.frame.stream = reset.frame.stream
                                              /\ pkt.pktNum < reset.pktNum}
            IN  reset.frame.value = SumFunction([pkt \in before |-> pkt.frame.length])
=============================================================================
