------------------------- MODULE StreamClosing_proofs -------------------------
(***************************************************************************)
(* Theorems about StreamClosing, for every value of its constants.         *)
(***************************************************************************)
EXTENDS StreamClosing, StreamTransport_proofs

\* The steps of StreamTransport are among those StreamClosing builds on.
LEMMA StreamStepIsStreamEndpoint ==
  ASSUME NEW p \in Peer, StreamStep(p)
  PROVE  StreamEndpoint(p)
BY DEF StreamStep, StreamEndpoint

\* Every step of StreamClosing is a step of the packets below it, or leaves them alone.
LEMMA ClosingStepIsStep ==
  ASSUME NEW p \in Peer, ClosingEndpoint(p)
  PROVE  Next \/ UNCHANGED vars
<1>1. CASE StreamStep(p)
  BY <1>1, StreamStepIsStreamEndpoint, StreamStepIsStep
<1>2. ASSUME NEW s \in StreamID, CloseStream(p, s) PROVE Next
  BY <1>2, QueueingIsStep DEF CloseStream
<1>3. ASSUME NEW pkt \in inFlight[p], ReceiveReset(p, pkt) PROVE Next
  BY <1>3 DEF ReceiveReset, Next, Endpoint
<1> QED
  BY <1>1, <1>2, <1>3 DEF ClosingEndpoint

\* Closing streams leaves the packet layer as it is specified.
THEOREM ClosingUsesPackets == ClosingSpec => Spec
<1>1. ClosingInit => Init
  BY DEF ClosingInit, StreamInit
<1>2. [ClosingNext]_closingVars => [Next]_vars
  BY ClosingStepIsStep DEF ClosingNext, closingVars, allVars
<1> QED
  BY <1>1, <1>2, PTL DEF ClosingSpec, Spec

\* So the bookkeeping of packets is right with RESET_STREAM frames among them.
THEOREM ClosingBookkeeping == ClosingSpec => []PacketInv
BY ClosingUsesPackets, BookkeepingCorrect, PTL

-----------------------------------------------------------------------------
(* Types.                                                                  *)

\* A packet with a RESET_STREAM frame, of those a peer issued.
Resets(p) == {pkt \in issued[p] : pkt.frame.type = "RESET_STREAM"}

\* Such a frame is one of the protocol, and its handler tests for duplicates.
LEMMA ResetFrames ==
  ASSUME NEW pkt \in Packet, pkt.frame.type = "RESET_STREAM"
  PROVE  /\ pkt.frame \in ResetFrame
         /\ pkt.frame.stream \in StreamID
         /\ pkt.frame \in OnceFrame
         /\ pkt.frame \notin RepeatFrame
<1>1. pkt.frame \in OnceFrame \cup RepeatFrame \cup {Ping}
  BY DEF Packet, Frame
<1>2. pkt.frame \notin LimitFrame /\ pkt.frame \notin StreamFrame /\ pkt.frame # Ping
  BY StreamFrameAssumption DEF LimitFrame, StreamFrame
<1>3. pkt.frame \in ResetFrame
  BY <1>1, <1>2, StreamFrameAssumption
<1> QED
  BY <1>1, <1>2, <1>3, StreamFrameAssumption DEF ResetFrame

\* The types of what StreamClosing adds.
CloseTypeOK ==
  /\ finState \in [Peer -> SUBSET StreamID]
  /\ closedBy \in [Peer -> SUBSET StreamID]
  /\ ended \in [Peer -> [StreamID -> Nat]]

\* The state of the streams, and of their ends, is of its type in every reachable state.
THEOREM ClosingTypeCorrect == ClosingSpec => []ClosingTypeOK
<1> DEFINE Typed == TransportTypeOK /\ HistoryTypeOK /\ CloseTypeOK
<1>1. ClosingInit => Typed
  BY StreamInitTyped DEF ClosingInit, CloseTypeOK
<1>2. TypeOK /\ Typed /\ [ClosingNext]_closingVars => Typed'
  <2> SUFFICES ASSUME TypeOK, Typed, [ClosingNext]_closingVars PROVE Typed'
    OBVIOUS
  <2>1. StreamTypeOK
    BY DEF StreamTypeOK
  <2>2. ASSUME UNCHANGED streamVars PROVE TransportTypeOK' /\ HistoryTypeOK'
    BY <2>2 DEF TransportTypeOK, HistoryTypeOK, streamVars, flowVars, handlerVars,
       historyVars
  <2>3. CASE UNCHANGED closingVars
    <3>1. CloseTypeOK'
      BY <2>3 DEF CloseTypeOK, closingVars, closeVars
    <3> QED
      BY <2>2, <2>3, <3>1 DEF closingVars, allVars
  <2>4. ASSUME NEW p \in Peer, StreamStep(p) PROVE Typed'
    <3>1. TransportTypeOK' /\ HistoryTypeOK'
      BY <2>1, <2>4, StreamStepIsStreamEndpoint, StreamStepTyped
    <3>2. UNCHANGED <<closedBy, ended>>
      BY <2>4 DEF StreamStep
    <3>3. UNCHANGED finState \/ \E keys : Running(p, keys)
      BY <2>4 DEF StreamStep
    <3> QED
      BY <3>1, <3>2, <3>3 DEF CloseTypeOK, Running
  <2>5. ASSUME NEW p \in Peer, NEW s \in StreamID, CloseStream(p, s) PROVE Typed'
    BY <2>2, <2>5 DEF CloseStream, CloseTypeOK
  <2>6. ASSUME NEW p \in Peer, NEW pkt \in inFlight[p], ReceiveReset(p, pkt) PROVE Typed'
    <3>1. pkt.frame.stream \in StreamID
      BY <2>6, ResetFrames DEF TypeOK, ReceiveReset
    <3> QED
      BY <2>2, <2>6, <3>1 DEF ReceiveReset, CloseTypeOK
  <2> QED
    BY <2>3, <2>4, <2>5, <2>6 DEF ClosingNext, ClosingEndpoint
<1>3. TypeOK /\ Typed => ClosingTypeOK
  BY DEF ClosingTypeOK, StreamTypeOK, CloseTypeOK
<1>4. ClosingSpec => []TypeOK
  BY ClosingUsesPackets, TypeCorrect, PTL
<1> QED
  BY <1>1, <1>2, <1>3, <1>4, PTL DEF ClosingSpec

-----------------------------------------------------------------------------
(* The end of a stream.                                                    *)

\* The strengthening that makes EndToldOnce inductive: a stream is reset by one packet,
\* issued when the application closed it, and its end was told if that was recorded.
EndInv ==
  \A p \in Peer :
    /\ \A pkt \in Resets(p) : pkt.frame.stream \in closedBy[p]
    /\ \A a, b \in Resets(p) : a.frame.stream = b.frame.stream => a = b
    /\ \A s \in StreamID :
          \/ ended[p][s] = 0
          \/ /\ ended[p][s] = 1
             /\ \E pkt \in Resets(Other(p)) :
                   pkt.frame.stream = s /\ pkt.pktNum \in recPktNum[p]

\* A step issues one packet, under the next number, or none, and records one or none.
LEMMA HistoryStep ==
  ASSUME NEW p \in Peer, Endpoint(p)
  PROVE  /\ \/ issued' = issued
            \/ \E frame : issued' = [issued EXCEPT ![p] = @ \cup {NewPacket(p, frame)}]
         /\ \/ recPktNum' = recPktNum
            \/ \E n : recPktNum' = [recPktNum EXCEPT ![p] = @ \cup {n}]
<1>1. ASSUME NEW frame, AddPacket(p, frame) \/ AddPacketToFront(p, frame)
      PROVE  issued' = [issued EXCEPT ![p] = @ \cup {NewPacket(p, frame)}]
  BY <1>1 DEF AddPacket, AddPacketToFront, Enqueue
<1>2. CASE \E frame \in OnceFrame \cup RepeatFrame :
               QueuePacket(p, frame) \/ EndPassWithPacket(p, frame)
  BY <1>1, <1>2 DEF QueuePacket, EndPassWithPacket
<1>3. CASE Probe(p)
  BY <1>1, <1>3 DEF Probe
<1>4. CASE \E pkt \in inFlight[p] : ReceivePacket(p, pkt)
  BY <1>4 DEF ReceivePacket, RecordPacket
<1>5. CASE \/ \E acked \in acksInFlight[p] : ReceiveAck(p, acked)
           \/ StartSending(p)
           \/ SkipAcked(p)
           \/ EndPass(p)
  BY <1>5 DEF ReceiveAck, StartSending, SkipAcked, EndPass, connectionVars
<1>6. CASE \/ \E kept \in BOOLEAN : SendFront(p, kept)
           \/ \E kept \in BOOLEAN, due \in SUBSET Retransmittable(p) :
                  AckAndRetransmit(p, kept, due)
  BY <1>6 DEF SendFront, AckAndRetransmit
<1> QED
  BY <1>2, <1>3, <1>4, <1>5, <1>6 DEF Endpoint

\* No packet is lost from what was issued, nor a number from what was recorded.
LEMMA HistoryGrows ==
  ASSUME TypeOK, [Next]_vars
  PROVE  \A q \in Peer :
            /\ issued[q] \subseteq issued'[q]
            /\ \A pkt \in issued'[q] : pkt \in issued[q] \/ pkt.pktNum = nowPktNum[q] + 1
            /\ issued'[q] = issued[q] \/ \E pkt : issued'[q] = issued[q] \cup {pkt}
            /\ recPktNum[q] \subseteq recPktNum'[q]
<1>1. CASE UNCHANGED vars
  BY <1>1 DEF vars, connectionVars
<1>2. ASSUME NEW p \in Peer, Endpoint(p), NEW q \in Peer
      PROVE  /\ issued[q] \subseteq issued'[q]
             /\ \A pkt \in issued'[q] : pkt \in issued[q] \/ pkt.pktNum = nowPktNum[q] + 1
             /\ issued'[q] = issued[q] \/ \E pkt : issued'[q] = issued[q] \cup {pkt}
             /\ recPktNum[q] \subseteq recPktNum'[q]
  <2>1. /\ issued \in [Peer -> SUBSET Packet] /\ DOMAIN recPktNum = Peer
    BY DEF TypeOK
  <2>2. /\ issued[q] \subseteq issued'[q]
        /\ \A pkt \in issued'[q] : pkt \in issued[q] \/ pkt.pktNum = nowPktNum[q] + 1
        /\ issued'[q] = issued[q] \/ \E pkt : issued'[q] = issued[q] \cup {pkt}
    <3>1. CASE issued' = issued
      BY <3>1
    <3>2. ASSUME NEW frame, issued' = [issued EXCEPT ![p] = @ \cup {NewPacket(p, frame)}]
          PROVE  /\ issued[q] \subseteq issued'[q]
                 /\ \A pkt \in issued'[q] :
                        pkt \in issued[q] \/ pkt.pktNum = nowPktNum[q] + 1
                 /\ issued'[q] = issued[q] \/ \E pkt : issued'[q] = issued[q] \cup {pkt}
      <4>1. NewPacket(p, frame).pktNum = nowPktNum[p] + 1
        BY DEF NewPacket
      <4>2. issued'[q] = IF q = p THEN issued[p] \cup {NewPacket(p, frame)} ELSE issued[q]
        BY <2>1, <3>2
      <4> QED
        BY <4>1, <4>2
    <3> QED
      BY <1>2, <3>1, <3>2, HistoryStep
  <2>3. recPktNum[q] \subseteq recPktNum'[q]
    <3>1. CASE recPktNum' = recPktNum
      BY <3>1
    <3>2. CASE \E n : recPktNum' = [recPktNum EXCEPT ![p] = @ \cup {n}]
      <4>1. PICK n : recPktNum' = [recPktNum EXCEPT ![p] = @ \cup {n}]
        BY <3>2
      <4> QED
        BY <2>1, <4>1
    <3> QED
      BY <1>2, <3>1, <3>2, HistoryStep
  <2> QED
    BY <2>2, <2>3
<1> QED
  BY <1>1, <1>2 DEF Next

\* The steps of StreamTransport issue no RESET_STREAM frame.
LEMMA StreamStepIssuesNoReset ==
  ASSUME StreamTypeOK, NEW p \in Peer, StreamEndpoint(p)
  PROVE  \A q \in Peer : \A pkt \in issued'[q] :
             pkt \in issued[q] \/ pkt.frame.type # "RESET_STREAM"
<1> DEFINE Issues == \E frame : /\ frame.type # "RESET_STREAM"
                                /\ AddPacket(p, frame) \/ AddPacketToFront(p, frame)
<1>1. CASE issued' = issued
  BY <1>1
<1>2. CASE Issues
  BY <1>2, IssuedPackets DEF StreamTypeOK
<1>3. \A queue : /\ DataFrame(p, queue).type # "RESET_STREAM"
                 /\ CreditRequest(p, queue).type # "RESET_STREAM"
  BY DEF DataFrame, CreditRequest
<1>4. ASSUME NEW s \in StreamID, NEW length \in Sizes, NEW fin \in Fins,
             SendData(p, s, length, fin)
      PROVE  issued' = issued \/ Issues
  <2> DEFINE queue == Append(unsentBuf[p], [stream |-> s, first |-> submitted[p][s] + 1,
                                            length |-> length, fin |-> fin])
  <2>1. \/ AddPacket(p, DataFrame(p, queue))
        \/ AddPacket(p, CreditRequest(p, queue))
        \/ issued' = issued
    BY <1>4 DEF SendData, QueuePacket, vars
  <2> HIDE DEF queue
  <2> QED
    BY <1>3, <2>1
<1>5. ASSUME FinishPass(p) PROVE issued' = issued \/ Issues
  <2>1. \/ AddPacket(p, DataFrame(p, unsentBuf[p]))
        \/ AddPacket(p, CreditRequest(p, unsentBuf[p]))
        \/ issued' = issued
    BY <1>5 DEF FinishPass, EndPassWithPacket, EndPass
  <2> QED
    BY <1>3, <2>1
<1>6. ASSUME QueueReply(p) PROVE issued' = issued \/ Issues
  <2>1. Head(replies[p]) \in Reply /\ AddPacket(p, Head(replies[p]))
    BY <1>6 DEF QueueReply, QueuePacket, StreamTypeOK, TransportTypeOK
  <2>2. Head(replies[p]).type # "RESET_STREAM"
    BY <2>1 DEF Reply
  <2> QED
    BY <2>1, <2>2
<1>7. ASSUME PassStep(p) PROVE issued' = issued \/ Issues
  <2>1. CASE Probe(p)
    <3>1. AddPacketToFront(p, Ping) /\ Ping.type # "RESET_STREAM"
      BY <2>1, StreamFrameAssumption DEF Probe
    <3> QED
      BY <3>1
  <2>2. issued' = issued \/ Probe(p)
    BY <1>7 DEF PassStep, ReceiveAck, StartSending, SkipAcked, SendFront, AckAndRetransmit
  <2> QED
    BY <2>1, <2>2
<1>8. ASSUME \/ \E bidirectional \in BOOLEAN : CreateStream(p, bidirectional)
             \/ DeliverBuffered(p)
             \/ RaiseLimits(p)
      PROVE  issued' = issued
  BY <1>8 DEF CreateStream, DeliverBuffered, RaiseLimits, vars
<1>9. ASSUME NEW pkt \in inFlight[p], Receive(p, pkt) PROVE issued' = issued
  <2>1. CASE ReceiveOverLimit(p, pkt)
    BY <2>1 DEF ReceiveOverLimit, vars
  <2>2. CASE ReceivePacket(p, pkt)
    BY <2>2 DEF ReceivePacket
  <2> QED
    BY <1>9, <2>1, <2>2 DEF Receive, ReceiveStream, ReceiveMaxData, ReceiveMaxStreamData,
       ReceiveStreamDataBlocked, ReceiveDataBlocked
<1> HIDE DEF Issues
<1> QED
  BY <1>1, <1>2, <1>4, <1>5, <1>6, <1>7, <1>8, <1>9 DEF StreamEndpoint

\* A step that issues no reset and tells no end keeps EndInv.
LEMMA OtherStepsKeepEnds ==
  ASSUME TypeOK, [Next]_vars, EndInv, UNCHANGED <<closedBy, ended>>,
         \A q \in Peer : \A pkt \in issued'[q] :
             pkt \in issued[q] \/ pkt.frame.type # "RESET_STREAM"
  PROVE  EndInv'
<1>1. \A q \in Peer : Resets(q)' = Resets(q) /\ recPktNum[q] \subseteq recPktNum'[q]
  BY HistoryGrows DEF Resets
<1>2. \A q \in Peer : Other(q) \in Peer
  BY OtherPeer
<1> QED
  BY <1>1, <1>2 DEF EndInv

\* An application closes a stream once, so the packet that says so is the only one.
LEMMA CloseStreamKeepsEnds ==
  ASSUME TypeOK, CloseTypeOK, [Next]_vars, EndInv,
         NEW p \in Peer, NEW s \in StreamID, CloseStream(p, s)
  PROVE  EndInv'
<1> DEFINE new == NewPacket(p, Reset(p, s))
<1>1. /\ s \notin closedBy[p]
      /\ closedBy' = [closedBy EXCEPT ![p] = @ \cup {s}]
      /\ issued' = [issued EXCEPT ![p] = @ \cup {new}]
      /\ UNCHANGED <<ended, recPktNum>>
  BY DEF CloseStream, QueuePacket, AddPacket, Enqueue
<1>2. new.frame.type = "RESET_STREAM" /\ new.frame.stream = s
  BY DEF NewPacket, Reset
<1> HIDE DEF new
<1>3. \A q \in Peer : Resets(q)' = IF q = p THEN Resets(q) \cup {new} ELSE Resets(q)
  BY <1>1, <1>2 DEF Resets, TypeOK
<1>4. \A q \in Peer : closedBy'[q] = IF q = p THEN closedBy[q] \cup {s} ELSE closedBy[q]
  BY <1>1 DEF CloseTypeOK
<1>5. \A q \in Peer : Other(q) \in Peer
  BY OtherPeer
<1>6. ASSUME NEW q \in Peer
      PROVE  /\ \A pkt \in Resets(q)' : pkt.frame.stream \in closedBy'[q]
             /\ \A a, b \in Resets(q)' : a.frame.stream = b.frame.stream => a = b
  <2>1. /\ \A pkt \in Resets(q) : pkt.frame.stream \in closedBy[q]
        /\ \A a, b \in Resets(q) : a.frame.stream = b.frame.stream => a = b
    BY DEF EndInv
  <2> DEFINE mine == Resets(q)
  <2>2. CASE q = p
    <3>1. Resets(q)' = mine \cup {new} /\ closedBy'[q] = closedBy[q] \cup {s}
      BY <1>3, <1>4, <2>2
    <3>2. \A pkt \in mine : pkt.frame.stream # new.frame.stream
      BY <1>1, <1>2, <2>1, <2>2
    <3> HIDE DEF mine
    <3> QED
      BY <1>2, <2>1, <3>1, <3>2 DEF mine
  <2>3. CASE q # p
    BY <1>3, <1>4, <2>1, <2>3
  <2> QED
    BY <2>2, <2>3
<1>7. ASSUME NEW q \in Peer, NEW t \in StreamID
      PROVE  \/ ended'[q][t] = 0
             \/ /\ ended'[q][t] = 1
                /\ \E pkt \in Resets(Other(q))' :
                      pkt.frame.stream = t /\ pkt.pktNum \in recPktNum'[q]
  BY <1>1, <1>3, <1>5 DEF EndInv
<1> QED
  BY <1>6, <1>7 DEF EndInv

\* A packet that is read for the first time was not told of before.
LEMMA ReceiveResetKeepsEnds ==
  ASSUME PacketInv, CloseTypeOK, EndInv,
         NEW p \in Peer, NEW pkt \in inFlight[p], ReceiveReset(p, pkt)
  PROVE  EndInv'
<1> DEFINE s == pkt.frame.stream
<1>1. pkt \in Resets(Other(p)) /\ pkt.frame.type = "RESET_STREAM"
  <2>1. inFlight[Other(Other(p))] \subseteq issued[Other(p)] /\ Other(Other(p)) = p
    BY OtherPeer, PeersAssumption DEF PacketInv, KnownPackets, Peer, Other
  <2> QED
    BY <2>1 DEF ReceiveReset, Resets
<1>2. s \in StreamID /\ pkt.frame \in OnceFrame /\ pkt.frame \notin RepeatFrame
  BY <1>1, ResetFrames DEF PacketInv, TypeOK
<1>3. /\ pkt.pktNum \notin recPktNum[p]
      /\ recPktNum' = [recPktNum EXCEPT ![p] = @ \cup {pkt.pktNum}]
      /\ UNCHANGED <<issued, closedBy>>
      /\ ended' = [ended EXCEPT ![p][s] = @ + 1]
  BY <1>2 DEF ReceiveReset, ReceivePacket, Handles, HaveReceivedPkt, RecordPacket
<1> HIDE DEF s
<1>4. ended[p][s] = 0
  <2>1. \A other \in Resets(Other(p)) : other.frame.stream = s => other = pkt
    BY <1>1, OtherPeer DEF EndInv, s
  <2> QED
    BY <1>2, <1>3, <2>1 DEF EndInv
<1>5. \A q \in Peer : /\ Resets(q)' = Resets(q)
                      /\ recPktNum[q] \subseteq recPktNum'[q]
                      /\ Other(q) \in Peer
  BY <1>3, OtherPeer DEF Resets, PacketInv, TypeOK
<1>6. pkt.pktNum \in recPktNum'[p]
  BY <1>3 DEF PacketInv, TypeOK
<1>7. \A q \in Peer, t \in StreamID :
          ended'[q][t] = IF q = p /\ t = s THEN 1 ELSE ended[q][t]
  BY <1>2, <1>3, <1>4 DEF CloseTypeOK
<1>8. ASSUME NEW q \in Peer, NEW t \in StreamID
      PROVE  \/ ended'[q][t] = 0
             \/ /\ ended'[q][t] = 1
                /\ \E other \in Resets(Other(q))' :
                      other.frame.stream = t /\ other.pktNum \in recPktNum'[q]
  <2>1. CASE q = p /\ t = s
    BY <1>1, <1>5, <1>6, <1>7, <2>1 DEF s
  <2>2. CASE ~(q = p /\ t = s)
    BY <1>5, <1>7, <2>2 DEF EndInv
  <2> QED
    BY <2>1, <2>2
<1> QED
  BY <1>3, <1>5, <1>8 DEF EndInv

\* The callback is told of the end of a stream at most once, and only of one that the
\* peer closed, however often RESET_STREAM is sent, repeated and delayed.
THEOREM EndIsToldOnce == ClosingSpec => []EndToldOnce
<1>1. ClosingInit => EndInv
  BY DEF ClosingInit, StreamInit, Init, EndInv, Resets
<1>2. PacketInv /\ ClosingTypeOK /\ EndInv /\ [ClosingNext]_closingVars => EndInv'
  <2> SUFFICES ASSUME PacketInv, ClosingTypeOK, EndInv, [ClosingNext]_closingVars
               PROVE  EndInv'
    OBVIOUS
  <2>1. StreamTypeOK /\ TypeOK /\ CloseTypeOK
    BY DEF ClosingTypeOK, CloseTypeOK, StreamTypeOK
  <2>2. [Next]_vars
    BY ClosingStepIsStep DEF ClosingNext, closingVars, allVars
  <2>3. CASE UNCHANGED closingVars
    BY <2>1, <2>2, <2>3, OtherStepsKeepEnds DEF closingVars, closeVars, allVars, vars
  <2>4. ASSUME NEW p \in Peer, StreamStep(p) PROVE EndInv'
    <3>1. UNCHANGED <<closedBy, ended>>
      BY <2>4 DEF StreamStep
    <3> QED
      BY <2>1, <2>2, <2>4, <3>1, StreamStepIsStreamEndpoint, StreamStepIssuesNoReset,
         OtherStepsKeepEnds
  <2>5. ASSUME NEW p \in Peer, NEW s \in StreamID, CloseStream(p, s) PROVE EndInv'
    BY <2>1, <2>2, <2>5, CloseStreamKeepsEnds
  <2>6. ASSUME NEW p \in Peer, NEW pkt \in inFlight[p], ReceiveReset(p, pkt) PROVE EndInv'
    BY <2>1, <2>6, ReceiveResetKeepsEnds
  <2> QED
    BY <2>3, <2>4, <2>5, <2>6 DEF ClosingNext, ClosingEndpoint
<1>3. CloseTypeOK /\ EndInv => EndToldOnce
  BY OtherPeer DEF EndInv, EndToldOnce, CloseTypeOK
<1>4. ClosingTypeOK => CloseTypeOK
  BY DEF ClosingTypeOK, CloseTypeOK
<1> QED
  BY <1>1, <1>2, <1>3, <1>4, ClosingTypeCorrect, ClosingBookkeeping, PTL DEF ClosingSpec

-----------------------------------------------------------------------------
(* What the streams deliver, with closing.                                 *)

\* Closing a stream, and being told of it, is neutral to delivery.
LEMMA ClosingIsNeutral ==
  ASSUME StreamTypeOK, PacketInv, NEW p \in Peer,
         \/ \E s \in StreamID : CloseStream(p, s)
         \/ \E pkt \in inFlight[p] : ReceiveReset(p, pkt)
  PROVE  Neutral /\ UNCHANGED streamVars
<1>1. ASSUME UNCHANGED streamVars, NoDataMoves PROVE Neutral
  BY <1>1 DEF streamVars, handlerVars, historyVars, Neutral, SamePart
<1>2. ASSUME NEW s \in StreamID, CloseStream(p, s) PROVE Neutral /\ UNCHANGED streamVars
  <2>1. /\ AddPacket(p, Reset(p, s)) /\ Reset(p, s).type # "STREAM"
        /\ UNCHANGED recPktNum /\ UNCHANGED streamVars
    BY <1>2 DEF CloseStream, QueuePacket, Reset
  <2>2. NoDataMoves
    BY <2>1, OtherFrameQueued DEF StreamTypeOK
  <2> QED
    BY <1>1, <2>1, <2>2
<1>3. ASSUME NEW pkt \in inFlight[p], ReceiveReset(p, pkt)
      PROVE  Neutral /\ UNCHANGED streamVars
  <2>1. /\ pkt.frame.type # "STREAM" /\ ReceivePacket(p, pkt) /\ UNCHANGED streamVars
    BY <1>3 DEF ReceiveReset
  <2>2. NoDataMoves
    BY <2>1, OtherFrameRead
  <2> QED
    BY <1>1, <2>1, <2>2
<1> QED
  BY <1>2, <1>3

\* The invariant of delivery holds whatever streams are closed meanwhile.
THEOREM ClosingDelivers == ClosingSpec /\ [][EntriesKept]_allVars => []DeliveryInv
<1>1. ClosingInit => DeliveryInv
  BY DeliveryInitially DEF ClosingInit
<1>2. ClosingTypeOK /\ ClosingTypeOK' /\ PacketInv /\ DeliveryInv
         /\ [ClosingNext]_closingVars /\ [EntriesKept]_allVars => DeliveryInv'
  <2> SUFFICES ASSUME ClosingTypeOK, ClosingTypeOK', PacketInv, DeliveryInv,
                      [ClosingNext]_closingVars, [EntriesKept]_allVars
               PROVE  DeliveryInv'
    OBVIOUS
  <2>1. StreamTypeOK /\ StreamTypeOK' /\ TypeOK /\ TypeOK'
    BY DEF ClosingTypeOK, StreamTypeOK
  <2>2. CASE UNCHANGED allVars
    <3>1. UNCHANGED <<streams, usedStreamID, unsentBuf, submitted, delivered, current,
                      issued, recPktNum>>
      BY <2>2 DEF allVars, vars, streamVars, handlerVars, historyVars, connectionVars
    <3>2. Neutral
      BY <3>1 DEF Neutral, SamePart, NoDataMoves
    <3> QED
      BY <2>1, <3>2, NeutralKeepsDelivery
  <2>3. CASE ~UNCHANGED allVars
    <3>1. PICK p \in Peer : ClosingEndpoint(p)
      BY <2>3 DEF ClosingNext, closingVars
    <3>2. CASE StreamStep(p)
      BY <2>1, <2>3, <3>2, StreamStepIsStreamEndpoint, StepKeepsDelivery
    <3>3. CASE \/ \E s \in StreamID : CloseStream(p, s)
               \/ \E pkt \in inFlight[p] : ReceiveReset(p, pkt)
      BY <2>1, <3>3, ClosingIsNeutral, NeutralKeepsDelivery
    <3> QED
      BY <3>1, <3>2, <3>3 DEF ClosingEndpoint
  <2> QED
    BY <2>2, <2>3
<1> QED
  BY <1>1, <1>2, ClosingTypeCorrect, ClosingBookkeeping, PTL DEF ClosingSpec

\* So a closed stream's buffers are still sent, once each and in order, and what its
\* receiver acknowledged is kept.
THEOREM ClosingKeepsData ==
  ClosingSpec /\ [][EntriesKept]_allVars => []UnsentFollowsSent /\ []RecordedIsKept
<1>1. ClosingTypeOK /\ DeliveryInv => UnsentFollowsSent /\ RecordedIsKept
  BY DeliveryMeansUnsent DEF ClosingTypeOK, DeliveryInv
<1> QED
  BY <1>1, ClosingDelivers, ClosingTypeCorrect, PTL

-----------------------------------------------------------------------------
(* Final sizes.                                                            *)

\* The packets a peer issued with data of a stream, and what they hold.
Data(p, s) == {pkt \in issued[p] : pkt.frame.type = "STREAM" /\ pkt.frame.stream = s}
Sent(p, s) == SumFunction([pkt \in Data(p, s) |-> pkt.frame.length])

\* The strengthening that makes FinalSizeIsSent inductive: at any time the send offset
\* counts the bytes of the packets issued, of which there are finitely many.
SizeInv ==
  \A p \in Peer : /\ IsFiniteSet(issued[p])
                  /\ \A s \in StreamID : streams[p][s].offset = Sent(p, s)

\* Neither the packets with data nor the offsets change.
SizesStay ==
  \A p \in Peer, s \in StreamID :
    /\ streams'[p][s].offset = streams[p][s].offset
    /\ Data(p, s)' = Data(p, s)

\* A neutral step changes no size,
LEMMA NeutralSizes ==
  ASSUME NoDataMoves, \A p \in Peer, s \in StreamID : SamePart(p, s)
  PROVE  SizesStay
BY DEF NoDataMoves, SamePart, SizesStay, Data

\* and neither does delivering.
LEMMA DeliveringSizes ==
  ASSUME StreamTypeOK, PacketInv, DeliveryInv, NEW p \in Peer,
         \/ \E pkt \in inFlight[p] : ReceiveStream(p, pkt)
         \/ DeliverBuffered(p)
  PROVE  SizesStay
<1>1. streams \in [Peer -> [StreamID -> Stream]]
  BY DEF StreamTypeOK, TransportTypeOK
<1>2. ASSUME NEW s \in StreamID, NEW st, streams' = [streams EXCEPT ![p][s] = st],
             st.offset = streams[p][s].offset, UNCHANGED issued
      PROVE  SizesStay
  BY <1>1, <1>2 DEF SizesStay, Data
<1>3. ASSUME NEW pkt \in inFlight[p], ReceiveStream(p, pkt)
      PROVE  SizesStay
  <2> DEFINE s == pkt.frame.stream
             found == FoundStream(p, s)
  <2>1. s \in StreamID
    BY <1>3, FrameRead DEF ReceiveStream, StreamTypeOK, StreamFrame
  <2>2. found \in Stream /\ found.offset = streams[p][s].offset
    BY <2>1, FoundFresh, FoundStreamTyped DEF DeliveryInv, StreamTypeOK
  <2>3. UNCHANGED issued
    BY <1>3 DEF ReceiveStream, ReceivePacket
  <2>4. PICK st : /\ streams' = [streams EXCEPT ![p][s] = st]
                  /\ \/ st = [found EXCEPT !.expOffset = @ + pkt.frame.length]
                     \/ st = [found EXCEPT !.buffered = @ \cup {pkt.frame}]
    BY <1>3 DEF ReceiveStream, ReceiveInOrder, ReceiveDisorder
  <2> HIDE DEF found, s
  <2>5. st.offset = found.offset
    BY <2>2, <2>4 DEF Stream
  <2> QED
    BY <1>2, <2>1, <2>2, <2>3, <2>4, <2>5
<1>4. CASE DeliverBuffered(p)
  <2> DEFINE s == current[p]
  <2>1. s \in StreamID /\ UNCHANGED issued
    BY <1>4 DEF DeliverBuffered, StreamTypeOK, TransportTypeOK, vars
  <2>2. PICK frame : streams' = [streams EXCEPT ![p][s].buffered = @ \ {frame},
                                                ![p][s].expOffset = @ + frame.length]
    BY <1>4 DEF DeliverBuffered
  <2> DEFINE old == streams[p][s]
             removed == [old EXCEPT !.buffered = @ \ {frame}]
             st == [removed EXCEPT !.expOffset = @ + frame.length]
             once == [streams EXCEPT ![p][s] = removed]
  <2>3. old \in Stream
    BY <1>1, <2>1
  <2>4. st.offset = old.offset
    BY <2>3 DEF Stream
  <2>5. streams' = [once EXCEPT ![p][s].expOffset = @ + frame.length]
    BY <2>2
  <2>6. once[p][s] = removed
    <3> HIDE DEF removed, s
    <3> QED
      BY <1>1, <2>1
  <2>7. streams' = [streams EXCEPT ![p][s] = st]
    <3>1. st = [removed EXCEPT !.expOffset = @ + frame.length]
      OBVIOUS
    <3>2. streams' = [once EXCEPT ![p][s] = st]
      <4> HIDE DEF once, removed, st
      <4> QED
        BY <2>5, <2>6, <3>1
    <3> HIDE DEF removed, st, s
    <3> QED
      BY <1>1, <2>1, <3>2
  <2> HIDE DEF st, s
  <2> QED
    BY <1>2, <2>1, <2>4, <2>7
<1> QED
  BY <1>3, <1>4

\* The bytes in a set of chunks, and one chunk more.
TotalLength(pkts) == SumFunction([pkt \in pkts |-> pkt.frame.length])

LEMMA OneChunkMore ==
  ASSUME NEW D, IsFiniteSet(D), \A pkt \in D : pkt.frame.length \in Int,
         NEW new, new \notin D, new.frame.length \in Int
  PROVE  TotalLength(D \cup {new}) = TotalLength(D) + new.frame.length
<1>1. PICK f, g : /\ f = [pkt \in D |-> pkt.frame.length]
                 /\ g = [pkt \in D \cup {new} |-> pkt.frame.length]
  OBVIOUS
<1>2. Extends(g, new, f, D)
  BY <1>1 DEF Extends
<1>3. SumFunction(g) = SumFunction(f) + g[new]
  BY <1>2, SumInsert
<1>4. g[new] = new.frame.length
  BY <1>1
<1> QED
  BY <1>1, <1>3, <1>4 DEF TotalLength

\* A step that changes no size, or cuts a chunk off and issues it, keeps SizeInv.
LEMMA StepKeepsSizes ==
  ASSUME StreamTypeOK, PacketInv, SizeInv, [Next]_vars,
         \/ SizesStay
         \/ \E p \in Peer, queue \in Seq(UnsentBuffer) : Cuts(p, queue)
  PROVE  SizeInv'
<1>1. ASSUME NEW p \in Peer PROVE IsFiniteSet(issued'[p])
  <2>1. IsFiniteSet(issued[p])
    BY DEF SizeInv
  <2>2. issued'[p] = issued[p] \/ \E pkt : issued'[p] = issued[p] \cup {pkt}
    BY HistoryGrows DEF StreamTypeOK
  <2> QED
    BY <2>1, <2>2, FS_AddElement
<1>2. CASE SizesStay
  <2>1. \A p \in Peer, s \in StreamID : Sent(p, s)' = Sent(p, s)
    BY <1>2 DEF SizesStay, Sent
  <2> QED
    BY <1>1, <1>2, <2>1 DEF SizeInv, SizesStay
<1>3. ASSUME NEW p \in Peer, NEW queue \in Seq(UnsentBuffer), Cuts(p, queue)
      PROVE  SizeInv'
  <2> DEFINE s == Head(queue).stream
             length == ChunkLength(queue)
             now == streams[p][s].offset + length
             new == NewPacket(p, DataFrame(p, queue))
  <2>1. s \in StreamID /\ length \in Nat
    BY <1>3, CuttingTyped DEF Cuts
  <2>2. /\ new.frame.type = "STREAM" /\ new.frame.stream = s
        /\ new.frame.length = length
        /\ new.pktNum = nowPktNum[p] + 1
    BY DEF NewPacket, DataFrame
  <2>3. /\ streams \in [Peer -> [StreamID -> Stream]]
        /\ issued \in [Peer -> SUBSET Packet]
        /\ nowPktNum[p] \in Nat
    BY BoundAssumption DEF StreamTypeOK, TransportTypeOK, TypeOK
  <2>4. streams' = [streams EXCEPT ![p][s].offset = now]
    BY <1>3 DEF Cuts
  <2>5. issued' = [issued EXCEPT ![p] = @ \cup {new}]
    BY <1>3 DEF Cuts
  <2> HIDE DEF new
  <2>6. new \notin issued[p]
    <3>1. \A pkt \in issued[p] : pkt.pktNum <= nowPktNum[p]
      BY DEF PacketInv, KnownPackets
    <3> QED
      BY <2>2, <2>3, <3>1
  <2>7. \A q \in Peer, t \in StreamID :
           /\ streams'[q][t].offset = IF q = p /\ t = s THEN now ELSE streams[q][t].offset
           /\ Data(q, t)' = IF q = p /\ t = s THEN Data(p, s) \cup {new} ELSE Data(q, t)
    <3> HIDE DEF s, now
    <3>1. streams'[p][s].offset = now
      BY <2>1, <2>3, <2>4 DEF Stream
    <3>2. \A q \in Peer, t \in StreamID :
             streams'[q][t].offset = IF q = p /\ t = s THEN now ELSE streams[q][t].offset
      BY <2>1, <2>3, <2>4, <3>1, FieldChanged
    <3>3. \A q \in Peer, t \in StreamID :
             Data(q, t)' = IF q = p /\ t = s THEN Data(p, s) \cup {new} ELSE Data(q, t)
      BY <2>2, <2>3, <2>5 DEF Data
    <3> QED
      BY <3>2, <3>3
  <2>8. Sent(p, s)' = Sent(p, s) + length
    <3> DEFINE D == Data(p, s)
    <3>1. IsFiniteSet(D) /\ new \notin D
      <4>1. D \subseteq issued[p] /\ IsFiniteSet(issued[p])
        BY DEF Data, SizeInv
      <4> HIDE DEF D
      <4> QED
        BY <2>6, <4>1, FS_Subset
    <3>2. \A pkt \in D : pkt.frame.length \in Int
      BY IssuedFrame DEF Data, StreamTypeOK
    <3>3. Data(p, s)' = D \cup {new}
      <4> HIDE DEF s
      <4> QED
        BY <2>1, <2>7
    <3> HIDE DEF D
    <3>4. new.frame.length \in Int
      BY <2>1, <2>2
    <3>5. TotalLength(D \cup {new}) = TotalLength(D) + new.frame.length
      BY <3>1, <3>2, <3>4, OneChunkMore
    <3>6. Sent(p, s) = TotalLength(D) /\ Sent(p, s)' = TotalLength(D \cup {new})
      BY <3>3 DEF Sent, D, TotalLength
    <3> QED
      BY <2>2, <3>5, <3>6
  <2>9. \A q \in Peer, t \in StreamID : streams'[q][t].offset = Sent(q, t)'
    <3> TAKE q \in Peer, t \in StreamID
    <3>1. streams[q][t].offset = Sent(q, t)
      BY DEF SizeInv
    <3>2. CASE q = p /\ t = s
      <4>1. streams'[q][t].offset = Sent(p, s) + length
        BY <2>7, <3>1, <3>2
      <4> QED
        BY <2>8, <3>2, <4>1
    <3>3. CASE ~(q = p /\ t = s)
      <4> HIDE DEF s
      <4>1. Data(q, t)' = Data(q, t)
        BY <2>7, <3>3
      <4>2. Sent(q, t)' = Sent(q, t)
        BY <4>1 DEF Sent
      <4> QED
        BY <2>7, <3>1, <3>3, <4>2
    <3> QED
      BY <3>2, <3>3
  <2> QED
    BY <1>1, <2>9 DEF SizeInv
<1> QED
  BY <1>2, <1>3

\* A step of the streams is one of the two.
LEMMA StreamStepSizes ==
  ASSUME StreamTypeOK, PacketInv, DeliveryInv, EntriesKept, NEW p \in Peer,
         StreamEndpoint(p)
  PROVE  SizesStay \/ \E queue \in Seq(UnsentBuffer) : Cuts(p, queue)
<1>1. ASSUME NEW bidirectional \in BOOLEAN, CreateStream(p, bidirectional)
      PROVE  SizesStay
  BY <1>1, OpeningIsNeutral, NeutralSizes DEF DeliveryInv, Neutral
<1>2. CASE \/ \E s \in StreamID, length \in Sizes, fin \in Fins : SendData(p, s, length, fin)
           \/ FinishPass(p)
  <2>1. PICK queue \in Seq(UnsentBuffer) : Cuts(p, queue) \/ Keeps(p, queue)
    BY <1>2, SendingEffect DEF DeliveryInv
  <2>2. CASE Keeps(p, queue)
    BY <2>2, NeutralSizes DEF Keeps, SamePart
  <2> QED
    BY <2>1, <2>2
<1>3. ASSUME NEW pkt \in inFlight[p], Receive(p, pkt)
      PROVE  SizesStay
  <2>1. CASE ReceiveStream(p, pkt)
    BY <2>1, DeliveringSizes
  <2>2. CASE ~ReceiveStream(p, pkt)
    BY <1>3, <2>2, ReadingIsNeutral, NeutralSizes DEF DeliveryInv, Neutral
  <2> QED
    BY <2>1, <2>2
<1>4. CASE DeliverBuffered(p)
  BY <1>4, DeliveringSizes
<1>5. CASE RaiseLimits(p) \/ QueueReply(p) \/ PassStep(p)
  BY <1>5, EndingIsNeutral, NeutralSizes DEF Neutral
<1> QED
  BY <1>1, <1>2, <1>3, <1>4, <1>5 DEF StreamEndpoint

\* What a RESET_STREAM frame said stays true: data that is issued later is numbered
\* above it.
LEMMA OldFinalSizes ==
  ASSUME PacketInv, FinalSizeIsSent, [Next]_vars, NEW p \in Peer,
         NEW reset \in issued[p], reset.frame.type = "RESET_STREAM"
  PROVE  reset.frame.value =
            SumFunction([pkt \in {pkt \in issued'[p] :
                                     /\ pkt.frame.type = "STREAM"
                                     /\ pkt.frame.stream = reset.frame.stream
                                     /\ pkt.pktNum < reset.pktNum} |-> pkt.frame.length])
<1> DEFINE Before(packets) == {pkt \in packets : /\ pkt.frame.type = "STREAM"
                                                 /\ pkt.frame.stream = reset.frame.stream
                                                 /\ pkt.pktNum < reset.pktNum}
<1>1. /\ reset.pktNum <= nowPktNum[p]
      /\ nowPktNum[p] \in Nat
      /\ \A pkt \in issued[p] : pkt.pktNum \in Nat
  BY BoundAssumption DEF PacketInv, KnownPackets, TypeOK, Packet, PktNum
<1>2. Before(issued'[p]) = Before(issued[p])
  BY <1>1, HistoryGrows DEF PacketInv
<1>3. reset.frame.value = SumFunction([pkt \in Before(issued[p]) |-> pkt.frame.length])
  BY DEF FinalSizeIsSent
<1> HIDE DEF Before
<1>4. reset.frame.value = SumFunction([pkt \in Before(issued'[p]) |-> pkt.frame.length])
  BY <1>2, <1>3
<1> QED
  BY <1>4 DEF Before

\* A new one counts all the data its sender issued.
LEMMA NewFinalSize ==
  ASSUME StreamTypeOK, PacketInv, SizeInv, NEW p \in Peer, NEW s \in StreamID,
         CloseStream(p, s), NEW reset \in issued'[p] \ issued[p]
  PROVE  /\ reset.frame.type = "RESET_STREAM" /\ reset.frame.stream = s
         /\ reset.frame.value =
               SumFunction([pkt \in {pkt \in issued'[p] :
                                        /\ pkt.frame.type = "STREAM"
                                        /\ pkt.frame.stream = reset.frame.stream
                                        /\ pkt.pktNum < reset.pktNum} |-> pkt.frame.length])
<1> DEFINE new == NewPacket(p, Reset(p, s))
<1>1. issued' = [issued EXCEPT ![p] = @ \cup {new}]
  BY DEF CloseStream, QueuePacket, AddPacket, Enqueue
<1>2. /\ new.frame.type = "RESET_STREAM" /\ new.frame.stream = s
      /\ new.frame.value = streams[p][s].offset
      /\ new.pktNum = nowPktNum[p] + 1
  BY DEF NewPacket, Reset, FinalSize
<1> HIDE DEF new
<1>3. issued'[p] = issued[p] \cup {new} /\ reset = new
  BY <1>1 DEF StreamTypeOK, TypeOK
<1>4. \A pkt \in issued[p] : pkt.pktNum < new.pktNum
  <2>1. nowPktNum[p] \in Nat
    BY BoundAssumption DEF PacketInv, TypeOK
  <2>2. \A pkt \in issued[p] : pkt.pktNum \in Nat /\ pkt.pktNum <= nowPktNum[p]
    BY BoundAssumption DEF PacketInv, KnownPackets, TypeOK, Packet, PktNum
  <2> QED
    BY <1>2, <2>1, <2>2
<1>5. {pkt \in issued'[p] : /\ pkt.frame.type = "STREAM"
                            /\ pkt.frame.stream = reset.frame.stream
                            /\ pkt.pktNum < reset.pktNum} = Data(p, s)
  BY <1>2, <1>3, <1>4 DEF Data
<1>6. reset.frame.value = SumFunction([pkt \in Data(p, s) |-> pkt.frame.length])
  BY <1>2, <1>3 DEF SizeInv, Sent
<1> QED
  BY <1>2, <1>3, <1>5, <1>6

\* The final size of a stream counts the bytes of the STREAM frames numbered before the
\* RESET_STREAM frame that says it, as long as no stream in use is overwritten.
THEOREM FinalSizesAreSent ==
  ClosingSpec /\ [][EntriesKept]_allVars => []FinalSizeIsSent
<1> DEFINE Inv == SizeInv /\ FinalSizeIsSent
<1>1. ClosingInit => Inv
  <2> SUFFICES ASSUME ClosingInit PROVE Inv
    OBVIOUS
  <2>1. \A p \in Peer : issued[p] = {} /\ \A s \in StreamID : streams[p][s].offset = 0
    BY DEF ClosingInit, StreamInit, Init, DefaultStream
  <2>2. \A p \in Peer, s \in StreamID : Sent(p, s) = 0
    <3> TAKE p \in Peer, s \in StreamID
    <3> DEFINE f == [pkt \in {} |-> pkt.frame.length]
    <3>1. Data(p, s) = {}
      BY <2>1 DEF Data
    <3>2. Sent(p, s) = SumFunction(f)
      BY <3>1 DEF Sent
    <3>3. SumFunction(f) = SumFunctionOnSet(f, {})
      BY DEF SumFunction
    <3>4. f \in [{} -> Int] /\ IsFiniteSet({})
      BY FS_EmptySet
    <3> HIDE DEF f
    <3> QED
      BY <3>2, <3>3, <3>4, SumRecursion
  <2>3. SizeInv
    BY <2>1, <2>2, FS_EmptySet DEF SizeInv
  <2>4. FinalSizeIsSent
    BY <2>1 DEF FinalSizeIsSent
  <2> QED
    BY <2>3, <2>4
<1>2. ClosingTypeOK /\ PacketInv /\ DeliveryInv /\ Inv
         /\ [ClosingNext]_closingVars /\ [EntriesKept]_allVars => Inv'
  <2> SUFFICES ASSUME ClosingTypeOK, PacketInv, DeliveryInv, Inv,
                      [ClosingNext]_closingVars, [EntriesKept]_allVars
               PROVE  Inv'
    OBVIOUS
  <2>1. StreamTypeOK /\ [Next]_vars
    BY ClosingStepIsStep DEF ClosingTypeOK, ClosingNext, closingVars, allVars
  <2>2. CASE UNCHANGED allVars
    <3>1. UNCHANGED <<streams, issued>>
      BY <2>2 DEF allVars, vars, streamVars
    <3>2. SizesStay
      BY <3>1 DEF SizesStay, Data
    <3>3. SizeInv'
      BY <2>1, <3>2, StepKeepsSizes
    <3>4. FinalSizeIsSent'
      BY <3>1 DEF FinalSizeIsSent
    <3> QED
      BY <3>3, <3>4
  <2>3. CASE ~UNCHANGED allVars
    <3>1. PICK p \in Peer : ClosingEndpoint(p)
      BY <2>3 DEF ClosingNext, closingVars
    <3>2. EntriesKept
      BY <2>3
    <3>3. SizesStay \/ \E queue \in Seq(UnsentBuffer) : Cuts(p, queue)
      <4>1. CASE StreamStep(p)
        BY <2>1, <3>2, <4>1, StreamStepIsStreamEndpoint, StreamStepSizes
      <4>2. CASE \/ \E s \in StreamID : CloseStream(p, s)
                 \/ \E pkt \in inFlight[p] : ReceiveReset(p, pkt)
        BY <2>1, <4>2, ClosingIsNeutral, NeutralSizes DEF Neutral
      <4> QED
        BY <3>1, <4>1, <4>2 DEF ClosingEndpoint
    <3>4. SizeInv'
      BY <2>1, <3>3, StepKeepsSizes
    <3>5. ASSUME NEW q \in Peer, NEW reset \in issued'[q], reset.frame.type = "RESET_STREAM"
          PROVE  reset.frame.value =
                    SumFunction([pkt \in {pkt \in issued'[q] :
                                     /\ pkt.frame.type = "STREAM"
                                     /\ pkt.frame.stream = reset.frame.stream
                                     /\ pkt.pktNum < reset.pktNum} |-> pkt.frame.length])
      <4>1. CASE reset \in issued[q]
        BY <2>1, <3>5, <4>1, OldFinalSizes
      <4>2. CASE reset \notin issued[q]
        <5>1. ~StreamStep(p)
          BY <2>1, <3>5, <4>2, StreamStepIsStreamEndpoint, StreamStepIssuesNoReset
        <5>2. ~(\E pkt \in inFlight[p] : ReceiveReset(p, pkt))
          BY <4>2 DEF ReceiveReset, ReceivePacket
        <5>3. PICK s \in StreamID : CloseStream(p, s)
          BY <3>1, <5>1, <5>2 DEF ClosingEndpoint
        <5>4. q = p
          BY <4>2, <5>3
             DEF CloseStream, QueuePacket, AddPacket, Enqueue, PacketInv, TypeOK
        <5>5. reset \in issued'[p] \ issued[p]
          BY <4>2, <5>4
        <5> QED
          BY <2>1, <5>3, <5>4, <5>5, NewFinalSize
      <4> QED
        BY <4>1, <4>2
    <3>6. FinalSizeIsSent'
      BY <3>5 DEF FinalSizeIsSent
    <3> QED
      BY <3>4, <3>6
  <2> QED
    BY <2>2, <2>3
<1>3. Inv => FinalSizeIsSent
  OBVIOUS
<1> QED
  BY <1>1, <1>2, <1>3, ClosingDelivers, ClosingTypeCorrect, ClosingBookkeeping, PTL
     DEF ClosingSpec

-----------------------------------------------------------------------------
(* When no stream in use is overwritten.                                   *)

\* Closing streams opens none, so the keys that are apart stay apart.
THEOREM ClosingKeepsEntries == KeysApart => (ClosingSpec => [][EntriesKept]_allVars)
<1> SUFFICES ASSUME KeysApart PROVE ClosingSpec => [][EntriesKept]_allVars
  OBVIOUS
<1>1. ClosingInit => OnlyPossible
  BY DEF ClosingInit, StreamInit, Init, OnlyPossible
<1>2. ASSUME ClosingTypeOK, NEW p \in Peer, ClosingEndpoint(p), PacketInv, OnlyPossible
      PROVE  OnlyPossible' /\ EntriesKept
  <2>1. StreamTypeOK
    BY <1>2 DEF ClosingTypeOK
  <2>2. CASE StreamStep(p)
    BY <1>2, <2>1, <2>2, StreamStepIsStreamEndpoint, StepIsPossible, StepKeepsEntries
  <2>3. CASE \/ \E s \in StreamID : CloseStream(p, s)
             \/ \E pkt \in inFlight[p] : ReceiveReset(p, pkt)
    <3>1. Neutral /\ UNCHANGED streamVars
      BY <1>2, <2>1, <2>3, ClosingIsNeutral
    <3> QED
      BY <1>2, <3>1 DEF Neutral, NoDataMoves, OnlyPossible, EntriesKept, streamVars
  <2> QED
    BY <1>2, <2>2, <2>3 DEF ClosingEndpoint
<1>3. ClosingTypeOK /\ PacketInv /\ OnlyPossible /\ [ClosingNext]_closingVars
         => OnlyPossible' /\ [EntriesKept]_allVars
  <2> SUFFICES ASSUME ClosingTypeOK, PacketInv, OnlyPossible, [ClosingNext]_closingVars
               PROVE  OnlyPossible' /\ [EntriesKept]_allVars
    OBVIOUS
  <2>1. CASE UNCHANGED closingVars
    BY <2>1 DEF closingVars, allVars, vars, streamVars, OnlyPossible
  <2>2. CASE ClosingNext
    BY <1>2, <2>2 DEF ClosingNext
  <2> QED
    BY <2>1, <2>2
<1> QED
  BY <1>1, <1>3, ClosingTypeCorrect, ClosingBookkeeping, PTL DEF ClosingSpec

\* So there the bytes of streams that are closed, and the sizes said of them, are right
\* in every behaviour.
THEOREM ClosingWhereKeysApart ==
  KeysApart => (ClosingSpec => []FinalSizeIsSent /\ []UnsentFollowsSent /\ []RecordedIsKept)
<1> SUFFICES ASSUME KeysApart
             PROVE  ClosingSpec => []FinalSizeIsSent /\ []UnsentFollowsSent /\ []RecordedIsKept
  OBVIOUS
<1>1. ClosingSpec => [][EntriesKept]_allVars
  BY ClosingKeepsEntries
<1> QED
  BY <1>1, FinalSizesAreSent, ClosingKeepsData, PTL

=============================================================================
