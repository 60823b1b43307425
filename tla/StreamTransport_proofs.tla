------------------------ MODULE StreamTransport_proofs ------------------------
(***************************************************************************)
(* Theorems about StreamTransport, for every value of its constants: types,*)
(* the limit of the connection, what the streams deliver, the FINs, and    *)
(* that a sender stays within the limits of its receiver.                  *)
(*                                                                         *)
(* GenerateStreamID stores the new Stream under an index, a key that may   *)
(* be the ID of a stream in use, whose state is then lost.  The theorems   *)
(* about delivery hold of every behaviour in which that does not happen    *)
(* (EntriesKept), and KeysApart says of the constants when it cannot.      *)
(***************************************************************************)
EXTENDS StreamTransport, PacketLayer_proofs, SumTheorems

\* Queueing a packet is a step of PacketLayer when its frame is within the bounds.
LEMMA QueueingIsStep ==
  ASSUME NEW p \in Peer, NEW frame, InBounds(frame),
         QueuePacket(p, frame) \/ EndPassWithPacket(p, frame)
  PROVE  Next
BY DEF InBounds, Next, Endpoint

\* Reading a packet, whatever its frame, is a step of PacketLayer or none.
LEMMA ReceivingIsStep ==
  ASSUME NEW p \in Peer, NEW pkt \in inFlight[p], Receive(p, pkt)
  PROVE  Next \/ UNCHANGED vars
<1>1. CASE ReceiveOverLimit(p, pkt)
  BY <1>1 DEF ReceiveOverLimit
<1>2. CASE ReceivePacket(p, pkt)
  BY <1>2 DEF Next, Endpoint
<1> QED
  BY <1>1, <1>2 DEF Receive, ReceiveStream, ReceiveMaxData, ReceiveMaxStreamData,
     ReceiveStreamDataBlocked, ReceiveDataBlocked

\* Every step of the streams is a step of the packets below them, or leaves them alone.
LEMMA StreamStepIsStep ==
  ASSUME NEW p \in Peer, StreamEndpoint(p)
  PROVE  Next \/ UNCHANGED vars
<1>1. ASSUME NEW bidirectional \in BOOLEAN, CreateStream(p, bidirectional)
      PROVE  UNCHANGED vars
  BY <1>1 DEF CreateStream
<1>2. ASSUME NEW s \in StreamID, NEW length \in Sizes, NEW fin \in Fins,
             SendData(p, s, length, fin)
      PROVE  Next \/ UNCHANGED vars
  BY <1>2, QueueingIsStep DEF SendData
<1>3. ASSUME NEW pkt \in inFlight[p], Receive(p, pkt)
      PROVE  Next \/ UNCHANGED vars
  BY <1>3, ReceivingIsStep
<1>4. CASE DeliverBuffered(p) \/ RaiseLimits(p)
  BY <1>4 DEF DeliverBuffered, RaiseLimits
<1>5. CASE QueueReply(p)
  BY <1>5, QueueingIsStep DEF QueueReply
<1>6. CASE PassStep(p)
  BY <1>6 DEF PassStep, Next, Endpoint
<1>7. CASE FinishPass(p)
  <2>1. CASE EndPass(p)
    BY <2>1 DEF Next, Endpoint
  <2> QED
    BY <1>7, <2>1, QueueingIsStep DEF FinishPass
<1> QED
  BY <1>1, <1>2, <1>3, <1>4, <1>5, <1>6, <1>7 DEF StreamEndpoint

\* The streams run on the packet layer as it is specified: StreamTransport, with its
\* application, its frames and its flow control, implements PacketLayer.
THEOREM StreamsUsePackets == StreamSpec => Spec
<1>1. StreamInit => Init
  BY DEF StreamInit
<1>2. [StreamNext]_allVars => [Next]_vars
  BY StreamStepIsStep DEF StreamNext, allVars
<1> QED
  BY <1>1, <1>2, PTL DEF StreamSpec, Spec

\* So the bookkeeping of packets is right under streams too.
THEOREM StreamBookkeeping == StreamSpec => []PacketInv
BY StreamsUsePackets, BookkeepingCorrect, PTL

-----------------------------------------------------------------------------
(* Types.                                                                  *)

\* A frame that is read is a frame of the protocol.
LEMMA FrameRead ==
  ASSUME TypeOK, NEW p \in Peer, NEW pkt \in inFlight[p]
  PROVE  /\ pkt.frame.type = "STREAM" => pkt.frame \in StreamFrame
         /\ pkt.frame.type \notin {"STREAM", "RESET_STREAM"} /\ pkt.frame # Ping =>
                pkt.frame \in LimitFrame
<1>1. pkt.frame \in Frame
  BY DEF TypeOK, Packet
<1> QED
  BY <1>1, StreamFrameAssumption DEF Frame, StreamFrame, LimitFrame, ResetFrame

\* A stream, or a buffer, with one of its fields changed.
LEMMA StreamUpdated ==
  ASSUME NEW st \in Stream, NEW n \in Nat, NEW frames \in SUBSET StreamFrame
  PROVE  /\ [st EXCEPT !.offset = n] \in Stream
         /\ [st EXCEPT !.expOffset = n] \in Stream
         /\ [st EXCEPT !.maxRecv = n] \in Stream
         /\ [st EXCEPT !.maxSend = n] \in Stream
         /\ [st EXCEPT !.buffered = frames] \in Stream
BY DEF Stream

\* So is a waiting buffer whose beginning was cut off.
LEMMA BufferUpdated ==
  ASSUME NEW buf \in UnsentBuffer, NEW m \in Nat, NEW n \in Nat
  PROVE  [buf EXCEPT !.length = m, !.first = n] \in UnsentBuffer
BY DEF UnsentBuffer

\* The buffers that remain are buffers, whatever was cut from the first.
LEMMA CuttingTyped ==
  ASSUME NEW queue \in Seq(UnsentBuffer), queue # <<>>
  PROVE  /\ ChunkLength(queue) \in Nat
         /\ Head(queue).stream \in StreamID
         /\ AfterChunk(queue) \in Seq(UnsentBuffer)
<1>1. Head(queue) \in UnsentBuffer /\ queue[1] = Head(queue)
  OBVIOUS
<1>2. ChunkLength(queue) \in Nat /\ Head(queue).stream \in StreamID
  BY <1>1, SizeAssumption DEF ChunkLength, Smaller, UnsentBuffer
<1>3. CASE Head(queue).length <= ChunkLength(queue)
  BY <1>2, <1>3 DEF AfterChunk
<1>4. CASE ~(Head(queue).length <= ChunkLength(queue))
  <2> DEFINE sent == ChunkLength(queue)
  <2> DEFINE rest == [queue[1] EXCEPT !.length = @ - sent, !.first = @ + sent]
  <2>1. rest \in UnsentBuffer
    <3>1. /\ queue[1].length - sent \in Nat
          /\ queue[1].first + sent \in Nat
      BY <1>1, <1>2, <1>4 DEF UnsentBuffer
    <3> QED
      BY <1>1, <3>1, BufferUpdated
  <2>2. AfterChunk(queue) = [queue EXCEPT ![1] = rest]
    BY <1>1, <1>4 DEF AfterChunk
  <2> HIDE DEF rest
  <2>3. [queue EXCEPT ![1] = rest] \in Seq(UnsentBuffer)
    BY <2>1
  <2> QED
    BY <1>2, <2>2, <2>3
<1> QED
  BY <1>3, <1>4

\* Whatever GetPktFromUnsentBuf does with the buffers keeps the types.
LEMMA TakingTyped ==
  ASSUME TransportTypeOK, NEW p \in Peer, NEW queue \in Seq(UnsentBuffer),
         \/ TakeChunk(p, queue)
         \/ AskForCredit(p, queue)
         \/ LeaveWaiting(p, queue)
  PROVE  /\ streams' \in [Peer -> [StreamID -> Stream]]
         /\ unsentBuf' \in [Peer -> Seq(UnsentBuffer)]
         /\ congestedByFlow' \in [Peer -> 0 .. BlockedTries]
<1>1. CASE TakeChunk(p, queue)
  <2>1. PICK s \in StreamID, n \in Nat :
            streams' = [streams EXCEPT ![p][s].offset = @ + n]
    BY <1>1, CuttingTyped DEF TakeChunk
  <2>2. streams[p][s] \in Stream
    BY DEF TransportTypeOK
  <2>3. [streams[p][s] EXCEPT !.offset = @ + n] \in Stream
    <3>1. streams[p][s].offset + n \in Nat
      BY <2>2 DEF Stream
    <3> QED
      BY <2>2, <3>1, StreamUpdated
  <2>4. streams' \in [Peer -> [StreamID -> Stream]]
    BY <2>1, <2>3 DEF TransportTypeOK
  <2> QED
    BY <1>1, <2>4, CuttingTyped DEF TakeChunk, TransportTypeOK
<1>2. CASE AskForCredit(p, queue)
  BY <1>2, SizeAssumption DEF AskForCredit, TransportTypeOK
<1>3. CASE LeaveWaiting(p, queue)
  <2>1. congestedByFlow[p] \in 0 .. BlockedTries /\ BlockedTries \in Nat
    BY SizeAssumption DEF TransportTypeOK
  <2>2. CASE UNCHANGED congestedByFlow
    BY <1>3, <2>2 DEF LeaveWaiting, TransportTypeOK
  <2>3. CASE /\ congestedByFlow[p] < BlockedTries
             /\ congestedByFlow' = [congestedByFlow EXCEPT ![p] = @ + 1]
    <3>1. congestedByFlow[p] + 1 \in 0 .. BlockedTries
      BY <2>1, <2>3
    <3>2. congestedByFlow' \in [Peer -> 0 .. BlockedTries]
      BY <2>3, <3>1 DEF TransportTypeOK
    <3> QED
      BY <1>3, <3>2 DEF LeaveWaiting, TransportTypeOK
  <2> QED
    BY <1>3, <2>2, <2>3 DEF LeaveWaiting
<1> QED
  BY <1>1, <1>2, <1>3

\* The callback is given bytes.
LEMMA DeliverTyped ==
  ASSUME HistoryTypeOK, NEW p \in Peer, NEW frame \in StreamFrame, Deliver(p, frame)
  PROVE  HistoryTypeOK'
<1>1. /\ frame.stream \in StreamID
      /\ frame.first \in Nat /\ frame.first >= 1 /\ frame.length \in Nat
  BY SizeAssumption DEF StreamFrame
<1>2. Bytes(frame.first, frame.length) \in Seq(Nat)
  <2>1. \A i \in 1 .. frame.length : frame.first + i - 1 \in Nat
    BY <1>1
  <2> QED
    BY <1>1, <2>1 DEF Bytes
<1>3. delivered' \in [Peer -> [StreamID -> Seq(Nat)]]
  <2>1. delivered[p][frame.stream] \o Bytes(frame.first, frame.length) \in Seq(Nat)
    BY <1>1, <1>2 DEF HistoryTypeOK
  <2> QED
    BY <1>1, <2>1 DEF HistoryTypeOK, Deliver
<1>4. finTold' \in [Peer -> SUBSET (StreamID \X Nat)]
  <2>1. <<frame.stream, frame.first + frame.length - 1>> \in StreamID \X Nat
    BY <1>1
  <2> QED
    BY <2>1 DEF HistoryTypeOK, Deliver
<1> QED
  BY <1>3, <1>4 DEF HistoryTypeOK, Deliver

\* The stream the handler finds is a stream.
LEMMA FoundStreamTyped ==
  ASSUME TransportTypeOK, NEW p \in Peer, NEW s \in StreamID
  PROVE  /\ NewStream \in Stream
         /\ FoundStream(p, s) \in Stream
         /\ FoundStream(p, s).expOffset \in Nat
         /\ FoundStream(p, s).buffered \in SUBSET StreamFrame
<1>1. DefaultStream \in Stream
  BY DEF DefaultStream, Stream
<1>2. NewStream \in Stream
  BY SizeAssumption DEF NewStream, DefaultStream, Stream
<1>3. FoundStream(p, s) \in Stream
  BY <1>2 DEF FoundStream, TransportTypeOK
<1> QED
  BY <1>2, <1>3 DEF Stream

\* Reading a STREAM frame keeps the types,
LEMMA ReceiveStreamTyped ==
  ASSUME StreamTypeOK, NEW p \in Peer, NEW pkt \in inFlight[p], ReceiveStream(p, pkt)
  PROVE  TransportTypeOK' /\ HistoryTypeOK'
<1> DEFINE frame == pkt.frame
           st == FoundStream(p, frame.stream)
<1>1. frame \in StreamFrame
  BY FrameRead DEF StreamTypeOK, ReceiveStream
<1>2. frame.stream \in StreamID /\ frame.length \in Nat
  BY <1>1, SizeAssumption DEF StreamFrame
<1>3. /\ st \in Stream /\ st.expOffset + frame.length \in Nat
      /\ st.buffered \cup {frame} \in SUBSET StreamFrame
  BY <1>1, <1>2, FoundStreamTyped DEF StreamTypeOK
<1>4. /\ [st EXCEPT !.expOffset = @ + frame.length] \in Stream
      /\ [st EXCEPT !.buffered = @ \cup {frame}] \in Stream
  BY <1>3, StreamUpdated
<1>5. streams' \in [Peer -> [StreamID -> Stream]]
  <2> HIDE DEF st
  <2>1. CASE ReceiveInOrder(p, pkt)
    <3>1. streams' = [streams EXCEPT ![p][frame.stream] =
                         [st EXCEPT !.expOffset = @ + frame.length]]
      BY <2>1 DEF ReceiveInOrder, st
    <3> QED
      BY <1>2, <1>4, <3>1 DEF StreamTypeOK, TransportTypeOK
  <2>2. CASE ReceiveDisorder(p, pkt)
    <3>1. streams' = [streams EXCEPT ![p][frame.stream] =
                         [st EXCEPT !.buffered = @ \cup {frame}]]
      BY <2>2 DEF ReceiveDisorder, st
    <3> QED
      BY <1>2, <1>4, <3>1 DEF StreamTypeOK, TransportTypeOK
  <2> QED
    BY <2>1, <2>2 DEF ReceiveStream
<1>6. HistoryTypeOK'
  <2>1. CASE ReceiveInOrder(p, pkt)
    BY <1>1, <2>1, DeliverTyped DEF StreamTypeOK, ReceiveInOrder
  <2>2. CASE ReceiveDisorder(p, pkt)
    BY <2>2 DEF StreamTypeOK, ReceiveDisorder, HistoryTypeOK, historyVars
  <2> QED
    BY <2>1, <2>2 DEF ReceiveStream
<1> QED
  BY <1>2, <1>5, <1>6 DEF StreamTypeOK, TransportTypeOK, ReceiveStream, flowVars

\* and so does handing over a frame that had waited.
LEMMA DeliverBufferedTyped ==
  ASSUME StreamTypeOK, NEW p \in Peer, DeliverBuffered(p)
  PROVE  TransportTypeOK' /\ HistoryTypeOK'
<1> DEFINE s == current[p]
<1>1. s \in StreamID
  BY DEF StreamTypeOK, TransportTypeOK, DeliverBuffered
<1>2. PICK frame \in NextInBuffer(p, s) :
          /\ Deliver(p, frame)
          /\ streams' = [streams EXCEPT ![p][s].buffered = @ \ {frame},
                                        ![p][s].expOffset = @ + frame.length]
  BY DEF DeliverBuffered
<1> DEFINE st == streams[p][s]
           removed == [st EXCEPT !.buffered = @ \ {frame}]
           advanced == [removed EXCEPT !.expOffset = @ + frame.length]
<1>3. st \in Stream /\ st.expOffset \in Nat /\ st.buffered \in SUBSET StreamFrame
  BY <1>1 DEF StreamTypeOK, TransportTypeOK, Stream
<1>4. frame \in StreamFrame /\ frame.length \in Nat
  BY <1>3, SizeAssumption DEF NextInBuffer, StreamFrame
<1>5. removed \in Stream
  BY <1>3, StreamUpdated
<1>6. advanced \in Stream
  <2>1. removed.expOffset + frame.length \in Nat
    BY <1>4, <1>5 DEF Stream
  <2> HIDE DEF removed
  <2> QED
    BY <1>5, <2>1, StreamUpdated
<1> DEFINE once == [streams EXCEPT ![p][s].buffered = @ \ {frame}]
<1>7. once \in [Peer -> [StreamID -> Stream]] /\ once[p][s] = removed
  <2> HIDE DEF removed
  <2>1. once = [streams EXCEPT ![p][s] = removed]
    BY DEF removed
  <2> HIDE DEF once
  <2> QED
    BY <1>1, <1>5, <2>1 DEF StreamTypeOK, TransportTypeOK
<1>8. streams' \in [Peer -> [StreamID -> Stream]]
  <2>1. streams' = [once EXCEPT ![p][s].expOffset = @ + frame.length]
    BY <1>2
  <2> HIDE DEF once
  <2>2. streams' = [once EXCEPT ![p][s] = advanced]
    BY <1>1, <1>7, <2>1
  <2> HIDE DEF advanced
  <2> QED
    BY <1>1, <1>6, <1>7, <2>2
<1>9. HistoryTypeOK'
  BY <1>2, <1>4, DeliverTyped DEF StreamTypeOK
<1> QED
  BY <1>8, <1>9 DEF StreamTypeOK, TransportTypeOK, DeliverBuffered, flowVars, handlerVars

\* A raised limit is a number.
LEMMA RaisedTyped ==
  ASSUME NEW limit \in Nat
  PROVE  Raised(limit) \in Nat /\ Larger(limit, Raised(limit)) \in Nat
BY DEF Raised, Larger

\* What is answered to a peer whose limits are raised.
LEMMA LimitReplies ==
  ASSUME NEW n \in Nat
  PROVE  /\ [type |-> "MAX_DATA", value |-> n] \in Reply
         /\ \A s \in StreamID :
               [type |-> "MAX_STREAM_DATA", stream |-> s, value |-> n] \in Reply
BY DEF Reply

\* The handler that ends keeps the types.
LEMMA RaiseLimitsTyped ==
  ASSUME StreamTypeOK, NEW p \in Peer, RaiseLimits(p)
  PROVE  TransportTypeOK' /\ HistoryTypeOK'
<1> DEFINE s == current[p]
           st == streams[p][s]
           streamLimit == [type |-> "MAX_STREAM_DATA", stream |-> s,
                           value |-> Raised(st.maxRecv)]
           allLimit == [type |-> "MAX_DATA", value |-> Raised(maxRecvSize[p])]
<1>1. s \in StreamID
  BY DEF StreamTypeOK, TransportTypeOK, RaiseLimits
<1>2. st \in Stream /\ st.maxRecv \in Nat /\ maxRecvSize[p] \in Nat
  BY <1>1 DEF StreamTypeOK, TransportTypeOK, Stream
<1>3. streams' \in [Peer -> [StreamID -> Stream]]
  <2>1. CASE streams' = streams
    BY <2>1 DEF StreamTypeOK, TransportTypeOK
  <2>2. CASE streams' = [streams EXCEPT ![p][s].maxRecv = Larger(@, Raised(@))]
    <3>1. [st EXCEPT !.maxRecv = Larger(@, Raised(@))] \in Stream
      BY <1>2, RaisedTyped, StreamUpdated
    <3> QED
      BY <1>1, <2>2, <3>1 DEF StreamTypeOK, TransportTypeOK
  <2> QED
    BY <2>1, <2>2 DEF RaiseLimits
<1>4. maxRecvSize' \in [Peer -> Nat]
  <2>1. Larger(maxRecvSize[p], Raised(maxRecvSize[p])) \in Nat
    BY <1>2, RaisedTyped
  <2> QED
    BY <2>1 DEF StreamTypeOK, TransportTypeOK, RaiseLimits
<1>5. replies' \in [Peer -> Seq(Reply)]
  <2>1. streamLimit \in Reply /\ allLimit \in Reply
    BY <1>1, <1>2, RaisedTyped, LimitReplies
  <2> HIDE DEF streamLimit, allLimit
  <2>2. /\ <<>> \in Seq(Reply) /\ <<streamLimit>> \in Seq(Reply)
        /\ <<allLimit>> \in Seq(Reply)
    BY <2>1
  <2>3. PICK a \in Seq(Reply) : \E b \in Seq(Reply) :
            replies' = [replies EXCEPT ![p] = a \o b]
    BY <2>2 DEF RaiseLimits, streamLimit, allLimit
  <2> QED
    BY <2>3 DEF StreamTypeOK, TransportTypeOK
<1> QED
  BY <1>3, <1>4, <1>5 DEF StreamTypeOK, TransportTypeOK, HistoryTypeOK, RaiseLimits,
     historyVars

\* Reading a frame of flow control, or one beyond the limits.
LEMMA ReceiveTyped ==
  ASSUME StreamTypeOK, NEW p \in Peer, NEW pkt \in inFlight[p], Receive(p, pkt)
  PROVE  TransportTypeOK' /\ HistoryTypeOK'
<1> USE DEF StreamTypeOK
<1> DEFINE frame == pkt.frame
<1>1. CASE ReceiveStream(p, pkt)
  BY <1>1, ReceiveStreamTyped
<1>2. CASE ReceiveOverLimit(p, pkt)
  <2>1. frame.stream \in StreamID
    BY <1>2, FrameRead DEF ReceiveOverLimit, StreamFrame
  <2>2. FoundStream(p, frame.stream) \in Stream
    BY <2>1, FoundStreamTyped
  <2> QED
    BY <1>2, <2>1, <2>2 DEF ReceiveOverLimit, InsertStream, TransportTypeOK, HistoryTypeOK,
       flowVars, historyVars
<1>3. frame.type \in {"MAX_DATA", "DATA_BLOCKED"} => frame.value \in Nat
  BY FrameRead, SizeAssumption, StreamFrameAssumption DEF LimitFrame
<1>4. frame.type \in {"MAX_STREAM_DATA", "STREAM_DATA_BLOCKED"} =>
          frame.value \in Nat /\ frame.stream \in StreamID
  BY FrameRead, SizeAssumption, StreamFrameAssumption DEF LimitFrame
<1>5. CASE ReceiveMaxData(p, pkt)
  <2>1. Larger(maxSendSize[p], frame.value) \in Nat
    BY <1>3, <1>5 DEF ReceiveMaxData, Larger, TransportTypeOK
  <2> QED
    BY <1>5, <2>1 DEF ReceiveMaxData, TransportTypeOK, HistoryTypeOK, handlerVars,
       historyVars
<1>6. CASE ReceiveMaxStreamData(p, pkt)
  <2>1. frame.stream \in StreamID /\ frame.value \in Nat
    BY <1>4, <1>6 DEF ReceiveMaxStreamData
  <2> DEFINE st == streams[p][frame.stream]
  <2>2. st \in Stream /\ st.maxSend \in Nat
    BY <2>1 DEF TransportTypeOK, Stream
  <2>3. [st EXCEPT !.maxSend = Larger(@, frame.value)] \in Stream
    BY <2>1, <2>2, StreamUpdated DEF Larger
  <2>4. streams' \in [Peer -> [StreamID -> Stream]]
    BY <1>6, <2>1, <2>3 DEF ReceiveMaxStreamData, TransportTypeOK
  <2> QED
    BY <1>6, <2>4 DEF ReceiveMaxStreamData, TransportTypeOK, HistoryTypeOK, flowVars,
       handlerVars, historyVars
<1>7. CASE ReceiveStreamDataBlocked(p, pkt)
  <2>1. frame.stream \in StreamID /\ frame.value \in Nat
    BY <1>4, <1>7 DEF ReceiveStreamDataBlocked
  <2> DEFINE st == streams[p][frame.stream]
             limit == st.maxRecv + frame.value
             reply == [type |-> "MAX_STREAM_DATA", stream |-> frame.stream,
                       value |-> limit]
  <2>2. st \in Stream /\ limit \in Nat
    <3>1. st \in Stream
      BY <2>1 DEF TransportTypeOK
    <3>2. st.maxRecv \in Nat
      BY <3>1 DEF Stream
    <3> QED
      BY <2>1, <3>1, <3>2
  <2>3. [st EXCEPT !.maxRecv = limit] \in Stream
    BY <2>2, StreamUpdated
  <2>4. streams' \in [Peer -> [StreamID -> Stream]]
    BY <1>7, <2>1, <2>3 DEF ReceiveStreamDataBlocked, TransportTypeOK
  <2>5. reply \in Reply
    BY <2>1, <2>2, LimitReplies
  <2>6. replies' \in [Peer -> Seq(Reply)]
    <3>1. replies' = [replies EXCEPT ![p] = <<reply>>]
      BY <1>7 DEF ReceiveStreamDataBlocked
    <3> HIDE DEF reply
    <3> QED
      BY <2>5, <3>1 DEF TransportTypeOK
  <2> QED
    BY <1>7, <2>4, <2>6 DEF ReceiveStreamDataBlocked, TransportTypeOK, HistoryTypeOK,
       flowVars, historyVars
<1>8. CASE ReceiveDataBlocked(p, pkt)
  <2> DEFINE limit == maxRecvSize[p] + frame.value
             reply == [type |-> "MAX_DATA", value |-> limit]
  <2>1. limit \in Nat
    BY <1>3, <1>8 DEF ReceiveDataBlocked, TransportTypeOK
  <2>2. reply \in Reply
    BY <2>1, LimitReplies
  <2>3. replies' \in [Peer -> Seq(Reply)]
    <3>1. replies' = [replies EXCEPT ![p] = <<reply>>]
      BY <1>8 DEF ReceiveDataBlocked
    <3> HIDE DEF reply
    <3> QED
      BY <2>2, <3>1 DEF TransportTypeOK
  <2> QED
    BY <1>8, <2>1, <2>3 DEF ReceiveDataBlocked, TransportTypeOK, HistoryTypeOK,
       historyVars
<1> QED
  BY <1>1, <1>2, <1>5, <1>6, <1>7, <1>8 DEF Receive

\* Submitting a buffer, whether it is cut, waits or asks for credit.
LEMMA SendDataTyped ==
  ASSUME StreamTypeOK, NEW p \in Peer, NEW s \in StreamID, NEW length \in Sizes,
         NEW fin \in Fins, SendData(p, s, length, fin)
  PROVE  TransportTypeOK' /\ HistoryTypeOK'
<1> DEFINE buf == [stream |-> s, first |-> submitted[p][s] + 1, length |-> length,
                   fin |-> fin]
           queue == Append(unsentBuf[p], buf)
<1>1. length \in Nat /\ fin \in BOOLEAN /\ submitted[p][s] \in Nat
  BY SizeAssumption DEF StreamTypeOK, HistoryTypeOK
<1>2. buf \in UnsentBuffer
  BY <1>1 DEF UnsentBuffer
<1>3. queue \in Seq(UnsentBuffer)
  BY <1>2 DEF StreamTypeOK, TransportTypeOK
<1>4. \/ TakeChunk(p, queue)
      \/ AskForCredit(p, queue)
      \/ LeaveWaiting(p, queue)
  BY DEF SendData
<1>5. /\ streams' \in [Peer -> [StreamID -> Stream]]
      /\ unsentBuf' \in [Peer -> Seq(UnsentBuffer)]
      /\ congestedByFlow' \in [Peer -> 0 .. BlockedTries]
  <2> HIDE DEF queue
  <2> QED
    BY <1>3, <1>4, TakingTyped DEF StreamTypeOK
<1>6. submitted' \in [Peer -> [StreamID -> Nat]]
  <2>1. submitted' = [submitted EXCEPT ![p][s] = @ + length]
    BY DEF SendData
  <2> QED
    BY <1>1, <2>1 DEF StreamTypeOK, HistoryTypeOK
<1>7. finSaid' \in [Peer -> SUBSET (StreamID \X Nat)]
  <2>1. <<s, submitted[p][s] + length>> \in StreamID \X Nat
    BY <1>1
  <2>2. finSaid' = [finSaid EXCEPT ![p] =
                       IF fin THEN @ \cup {<<s, submitted[p][s] + length>>} ELSE @]
    BY DEF SendData
  <2> QED
    BY <2>1, <2>2 DEF StreamTypeOK, HistoryTypeOK
<1>8. UNCHANGED <<usedStreamID, maxSendSize, maxRecvSize, handlerVars, delivered, finTold>>
  BY DEF SendData
<1> QED
  BY <1>5, <1>6, <1>7, <1>8 DEF StreamTypeOK, TransportTypeOK, HistoryTypeOK, handlerVars

\* The end of a pass.
LEMMA FinishPassTyped ==
  ASSUME StreamTypeOK, NEW p \in Peer, FinishPass(p)
  PROVE  TransportTypeOK' /\ HistoryTypeOK'
<1>1. unsentBuf[p] \in Seq(UnsentBuffer)
  BY DEF StreamTypeOK, TransportTypeOK
<1>2. \/ TakeChunk(p, unsentBuf[p])
      \/ AskForCredit(p, unsentBuf[p])
      \/ LeaveWaiting(p, unsentBuf[p])
  BY DEF FinishPass
<1>3. /\ streams' \in [Peer -> [StreamID -> Stream]]
      /\ unsentBuf' \in [Peer -> Seq(UnsentBuffer)]
      /\ congestedByFlow' \in [Peer -> 0 .. BlockedTries]
  BY <1>1, <1>2, TakingTyped DEF StreamTypeOK
<1>4. UNCHANGED <<usedStreamID, maxSendSize, maxRecvSize, handlerVars, historyVars>>
  BY DEF FinishPass
<1> QED
  BY <1>3, <1>4 DEF StreamTypeOK, TransportTypeOK, HistoryTypeOK, handlerVars, historyVars

\* A key of the map is a number, so a new stream can be stored under it.
LEMMA CreateStreamTyped ==
  ASSUME StreamTypeOK, NEW p \in Peer, NEW bidirectional \in BOOLEAN,
         CreateStream(p, bidirectional)
  PROVE  TransportTypeOK' /\ HistoryTypeOK'
<1> DEFINE id(index) == GeneratedID(index, StreamType(p, bidirectional))
<1>1. PICK index \in StreamID :
          /\ id(index) \in StreamID
          /\ usedStreamID' = [usedStreamID EXCEPT ![p] = @ \cup {id(index)}]
          /\ streams' = [streams EXCEPT ![p][index] = NewStream]
  BY DEF CreateStream
<1> HIDE DEF id
<1>2. NewStream \in Stream
  BY FoundStreamTyped DEF StreamTypeOK
<1>3. /\ streams' \in [Peer -> [StreamID -> Stream]]
      /\ usedStreamID' \in [Peer -> SUBSET StreamID]
  BY <1>1, <1>2 DEF StreamTypeOK, TransportTypeOK
<1>4. UNCHANGED <<flowVars, unsentBuf, handlerVars, historyVars>>
  BY DEF CreateStream
<1> QED
  BY <1>3, <1>4 DEF StreamTypeOK, TransportTypeOK, HistoryTypeOK, flowVars, handlerVars,
     historyVars

\* Queueing a reply takes it off the list, and the list stays one of replies.
LEMMA QueueReplyTyped ==
  ASSUME StreamTypeOK, NEW p \in Peer, QueueReply(p)
  PROVE  TransportTypeOK' /\ HistoryTypeOK'
<1>1. replies[p] \in Seq(Reply) /\ replies[p] # <<>>
  BY DEF StreamTypeOK, TransportTypeOK, QueueReply
<1>2. Tail(replies[p]) \in Seq(Reply)
  BY <1>1
<1>3. replies' \in [Peer -> Seq(Reply)]
  BY <1>2 DEF StreamTypeOK, TransportTypeOK, QueueReply
<1> QED
  BY <1>3 DEF StreamTypeOK, TransportTypeOK, HistoryTypeOK, QueueReply, flowVars,
     historyVars

\* A step of the streams keeps their types.
LEMMA StreamStepTyped ==
  ASSUME StreamTypeOK, NEW p \in Peer, StreamEndpoint(p)
  PROVE  TransportTypeOK' /\ HistoryTypeOK'
<1>1. ASSUME NEW bidirectional \in BOOLEAN, CreateStream(p, bidirectional)
      PROVE  TransportTypeOK' /\ HistoryTypeOK'
  BY <1>1, CreateStreamTyped
<1>2. ASSUME NEW s \in StreamID, NEW length \in Sizes, NEW fin \in Fins,
             SendData(p, s, length, fin)
      PROVE  TransportTypeOK' /\ HistoryTypeOK'
  BY <1>2, SendDataTyped
<1>3. ASSUME NEW pkt \in inFlight[p], Receive(p, pkt)
      PROVE  TransportTypeOK' /\ HistoryTypeOK'
  BY <1>3, ReceiveTyped
<1>4. CASE DeliverBuffered(p)
  BY <1>4, DeliverBufferedTyped
<1>5. CASE RaiseLimits(p)
  BY <1>5, RaiseLimitsTyped
<1>6. CASE QueueReply(p)
  BY <1>6, QueueReplyTyped
<1>7. CASE PassStep(p)
  BY <1>7 DEF PassStep, StreamTypeOK, TransportTypeOK, HistoryTypeOK, streamVars,
     flowVars, handlerVars, historyVars
<1>8. CASE FinishPass(p)
  BY <1>8, FinishPassTyped
<1> QED
  BY <1>1, <1>2, <1>3, <1>4, <1>5, <1>6, <1>7, <1>8 DEF StreamEndpoint

\* The streams start well typed.
LEMMA StreamInitTyped == StreamInit => TransportTypeOK /\ HistoryTypeOK
<1> SUFFICES ASSUME StreamInit PROVE TransportTypeOK /\ HistoryTypeOK
  OBVIOUS
<1>1. DefaultStream \in Stream
  BY DEF DefaultStream, Stream
<1> QED
  BY <1>1, SizeAssumption DEF StreamInit, TransportTypeOK, HistoryTypeOK

\* The state of the streams is of its type in every reachable state: no limit goes
\* below zero, and no handler leaves a stream, a buffer or a reply malformed.
THEOREM StreamTypeCorrect == StreamSpec => []StreamTypeOK
<1> DEFINE Typed == TransportTypeOK /\ HistoryTypeOK
<1>1. TypeOK /\ Typed /\ [StreamNext]_allVars => Typed'
  <2> SUFFICES ASSUME TypeOK, Typed, [StreamNext]_allVars PROVE Typed'
    OBVIOUS
  <2>1. StreamTypeOK
    BY DEF StreamTypeOK
  <2>2. CASE UNCHANGED streamVars
    BY <2>2 DEF TransportTypeOK, HistoryTypeOK, streamVars, flowVars, handlerVars,
       historyVars
  <2>3. ASSUME NEW p \in Peer, StreamEndpoint(p) PROVE Typed'
    BY <2>1, <2>3, StreamStepTyped
  <2> QED
    BY <2>2, <2>3 DEF StreamNext, allVars
<1>2. TypeOK /\ Typed => StreamTypeOK
  BY DEF StreamTypeOK
<1>3. StreamSpec => []TypeOK
  BY StreamsUsePackets, TypeCorrect, PTL
<1> QED
  BY <1>1, <1>2, <1>3, StreamInitTyped, PTL DEF StreamSpec

-----------------------------------------------------------------------------
(* The connection's limit.                                                 *)

\* The limits on their way to a peer, in packets or in replies a handler has yet to
\* queue, were all granted: none exceeds the limit now enforced.
LimitsOnTheWay ==
  \A p \in Peer :
    /\ \A pkt \in issued[p] :
          pkt.frame.type = "MAX_DATA" => pkt.frame.value <= maxRecvSize[p]
    /\ \A i \in DOMAIN replies[p] :
          replies[p][i].type = "MAX_DATA" => replies[p][i].value <= maxRecvSize[p]

\* The strengthening that makes ConnectionLimitIsGranted inductive.
LimitInv == LimitsOnTheWay /\ ConnectionLimitIsGranted

\* What a step of endpoint p must do to keep LimitInv.
KeepsLimits(p) ==
  /\ \A q \in Peer : maxRecvSize'[q] >= maxRecvSize[q]
  /\ \A q \in Peer : \A pkt \in issued'[q] :
        \/ pkt \in issued[q]
        \/ pkt.frame.type = "MAX_DATA" => pkt.frame.value <= maxRecvSize[q]
  /\ \A q \in Peer : \A i \in DOMAIN replies'[q] :
        \/ q # p /\ i \in DOMAIN replies[q] /\ replies'[q][i] = replies[q][i]
        \/ replies'[q][i].type = "MAX_DATA" => replies'[q][i].value <= maxRecvSize'[q]
  /\ \A q \in Peer : maxSendSize'[q] <= maxRecvSize[Other(q)]

\* A step that only raises the enforced limits, and promises and obeys no more than
\* they allow, keeps LimitInv.
LEMMA KeepingLimits ==
  ASSUME StreamTypeOK, StreamTypeOK', LimitInv, NEW p \in Peer, KeepsLimits(p)
  PROVE  LimitInv'
<1> USE OtherPeer
<1>1. \A q \in Peer : /\ maxRecvSize[q] \in Nat /\ maxRecvSize'[q] \in Nat
                      /\ maxSendSize'[q] \in Nat
                      /\ maxRecvSize'[q] >= maxRecvSize[q]
  BY DEF StreamTypeOK, TransportTypeOK, KeepsLimits
<1>2. ASSUME NEW q \in Peer, NEW pkt \in issued'[q], pkt.frame.type = "MAX_DATA"
      PROVE  pkt.frame.value <= maxRecvSize'[q]
  <2>1. pkt.frame \in LimitFrame
    <3>1. pkt.frame \in Frame
      <4>1. issued'[q] \subseteq Packet
        BY DEF StreamTypeOK, TypeOK
      <4> QED
        BY <4>1 DEF Packet
    <3> QED
      BY <1>2, <3>1, StreamFrameAssumption DEF Frame, StreamFrame, ResetFrame
  <2>2. pkt.frame.value \in Nat
    BY <1>2, <2>1, SizeAssumption DEF LimitFrame
  <2>3. pkt.frame.value <= maxRecvSize[q]
    BY <1>2 DEF KeepsLimits, LimitInv, LimitsOnTheWay
  <2> QED
    BY <1>1, <2>2, <2>3
<1>3. ASSUME NEW q \in Peer, NEW i \in DOMAIN replies'[q],
             replies'[q][i].type = "MAX_DATA"
      PROVE  replies'[q][i].value <= maxRecvSize'[q]
  <2>1. replies'[q][i] \in Reply
    <3>1. replies'[q] \in Seq(Reply)
      BY DEF StreamTypeOK, TransportTypeOK
    <3> QED
      BY <3>1
  <2>2. replies'[q][i].value \in Nat
    BY <2>1 DEF Reply
  <2>3. CASE i \in DOMAIN replies[q] /\ replies'[q][i] = replies[q][i]
    <3>1. replies'[q][i].value <= maxRecvSize[q]
      BY <1>3, <2>3 DEF LimitInv, LimitsOnTheWay
    <3> QED
      BY <1>1, <2>2, <3>1
  <2> QED
    BY <1>3, <2>3 DEF KeepsLimits
<1>4. \A q \in Peer : maxSendSize'[q] <= maxRecvSize'[Other(q)]
  BY <1>1 DEF KeepsLimits
<1> QED
  BY <1>2, <1>3, <1>4 DEF LimitInv, LimitsOnTheWay, ConnectionLimitIsGranted

\* A step that queues no MAX_DATA frame and leaves the limits and replies alone.
LEMMA OtherFramesKeepLimits ==
  ASSUME StreamTypeOK, StreamTypeOK', LimitInv, NEW p \in Peer,
         UNCHANGED <<maxSendSize, maxRecvSize, replies>>,
         \A q \in Peer : \A pkt \in issued'[q] :
             pkt \in issued[q] \/ pkt.frame.type # "MAX_DATA"
  PROVE  LimitInv'
<1>1. \A q \in Peer : maxRecvSize[q] \in Nat
  BY DEF StreamTypeOK, TransportTypeOK
<1>2. KeepsLimits(p)
  BY <1>1 DEF KeepsLimits, LimitInv, LimitsOnTheWay, ConnectionLimitIsGranted
<1> QED
  BY <1>2, KeepingLimits

\* The packets a step adds to those issued.
LEMMA IssuedPackets ==
  ASSUME TypeOK, NEW p \in Peer, NEW frame,
         AddPacket(p, frame) \/ AddPacketToFront(p, frame)
  PROVE  \A q \in Peer : \A pkt \in issued'[q] :
             pkt \in issued[q] \/ (q = p /\ pkt.frame = frame)
<1>1. issued' = [issued EXCEPT ![p] = @ \cup {NewPacket(p, frame)}]
  BY DEF AddPacket, AddPacketToFront, Enqueue
<1>2. NewPacket(p, frame).frame = frame
  BY DEF NewPacket
<1> QED
  BY <1>1, <1>2 DEF TypeOK

\* Cutting a buffer or asking for credit queues a STREAM or a BLOCKED frame.
LEMMA SendingKeepsLimits ==
  ASSUME StreamTypeOK, StreamTypeOK', LimitInv, NEW p \in Peer,
         \/ \E s \in StreamID, length \in Sizes, fin \in Fins :
                SendData(p, s, length, fin)
         \/ FinishPass(p)
  PROVE  LimitInv'
<1>1. UNCHANGED <<maxSendSize, maxRecvSize, replies>>
  BY DEF SendData, FinishPass, handlerVars
<1>2. \A queue : /\ DataFrame(p, queue).type # "MAX_DATA"
                 /\ CreditRequest(p, queue).type # "MAX_DATA"
  BY DEF DataFrame, CreditRequest
<1>3. CASE issued' = issued
  BY <1>1, <1>3, OtherFramesKeepLimits
<1>4. CASE \E frame : AddPacket(p, frame) /\ frame.type # "MAX_DATA"
  <2>1. PICK frame : AddPacket(p, frame) /\ frame.type # "MAX_DATA"
    BY <1>4
  <2>2. \A q \in Peer : \A pkt \in issued'[q] :
           pkt \in issued[q] \/ pkt.frame.type # "MAX_DATA"
    BY <2>1, IssuedPackets DEF StreamTypeOK
  <2> QED
    BY <1>1, <2>2, OtherFramesKeepLimits
<1>5. issued' = issued \/ \E frame : AddPacket(p, frame) /\ frame.type # "MAX_DATA"
  <2>1. ASSUME NEW s \in StreamID, NEW length \in Sizes, NEW fin \in Fins,
               SendData(p, s, length, fin)
        PROVE  issued' = issued \/ \E frame : AddPacket(p, frame) /\ frame.type # "MAX_DATA"
    <3> DEFINE queue == Append(unsentBuf[p], [stream |-> s, first |-> submitted[p][s] + 1,
                                              length |-> length, fin |-> fin])
    <3>1. \/ AddPacket(p, DataFrame(p, queue))
          \/ AddPacket(p, CreditRequest(p, queue))
          \/ issued' = issued
      BY <2>1 DEF SendData, QueuePacket, vars
    <3> HIDE DEF queue
    <3> QED
      BY <1>2, <3>1
  <2>2. CASE FinishPass(p)
    <3>1. \/ AddPacket(p, DataFrame(p, unsentBuf[p]))
          \/ AddPacket(p, CreditRequest(p, unsentBuf[p]))
          \/ issued' = issued
      BY <2>2 DEF FinishPass, EndPassWithPacket, EndPass
    <3> QED
      BY <1>2, <3>1
  <2> QED
    BY <2>1, <2>2
<1> QED
  BY <1>3, <1>4, <1>5

\* The steps of PacketLayer queue no frame but PINGs.
LEMMA PassKeepsLimits ==
  ASSUME StreamTypeOK, StreamTypeOK', LimitInv, NEW p \in Peer, PassStep(p)
  PROVE  LimitInv'
<1>1. UNCHANGED <<maxSendSize, maxRecvSize, replies>>
  BY DEF PassStep, streamVars, flowVars, handlerVars
<1>2. CASE issued' = issued
  BY <1>1, <1>2, OtherFramesKeepLimits
<1>3. CASE Probe(p)
  <2>1. AddPacketToFront(p, Ping)
    BY <1>3 DEF Probe
  <2>2. Ping.type # "MAX_DATA"
    BY StreamFrameAssumption
  <2>3. \A q \in Peer : \A pkt \in issued'[q] :
           pkt \in issued[q] \/ pkt.frame.type # "MAX_DATA"
    BY <2>1, <2>2, IssuedPackets DEF StreamTypeOK
  <2> QED
    BY <1>1, <2>3, OtherFramesKeepLimits
<1>4. issued' = issued \/ Probe(p)
  BY DEF PassStep, ReceiveAck, StartSending, SkipAcked, SendFront, AckAndRetransmit
<1> QED
  BY <1>2, <1>3, <1>4

\* Reading a packet raises the sender's limit to one that was granted, or grants more.
LEMMA ReceivingKeepsLimits ==
  ASSUME StreamTypeOK, StreamTypeOK', PacketInv, LimitInv, NEW p \in Peer,
         NEW pkt \in inFlight[p], Receive(p, pkt)
  PROVE  LimitInv'
<1> USE OtherPeer
<1> DEFINE frame == pkt.frame
<1>1. issued' = issued
  BY DEF Receive, ReceiveStream, ReceiveOverLimit, ReceiveMaxData, ReceiveMaxStreamData,
     ReceiveStreamDataBlocked, ReceiveDataBlocked, ReceivePacket, vars
<1>2. \A q \in Peer : maxRecvSize[q] \in Nat /\ maxSendSize[q] \in Nat
  BY DEF StreamTypeOK, TransportTypeOK
<1>3. ASSUME UNCHANGED <<maxSendSize, maxRecvSize, replies>> PROVE LimitInv'
  BY <1>1, <1>3, OtherFramesKeepLimits
<1>4. CASE ReceiveStream(p, pkt)
  BY <1>3, <1>4 DEF ReceiveStream, flowVars
<1>5. CASE ReceiveOverLimit(p, pkt)
  BY <1>3, <1>5 DEF ReceiveOverLimit, flowVars
<1>6. CASE ReceiveMaxStreamData(p, pkt)
  BY <1>3, <1>6 DEF ReceiveMaxStreamData, flowVars, handlerVars
<1>7. CASE ReceiveMaxData(p, pkt)
  <2>1. /\ frame.type = "MAX_DATA"
        /\ maxSendSize' = [maxSendSize EXCEPT ![p] = Larger(@, frame.value)]
        /\ UNCHANGED <<maxRecvSize, replies>>
    BY <1>7 DEF ReceiveMaxData, handlerVars
  <2>2. pkt \in issued[Other(p)]
    BY DEF PacketInv, KnownPackets
  <2>3. frame.value <= maxRecvSize[Other(p)]
    BY <2>1, <2>2 DEF LimitInv, LimitsOnTheWay
  <2>4. \A q \in Peer : maxSendSize'[q] <= maxRecvSize[Other(q)]
    BY <2>1, <2>3 DEF Larger, LimitInv, ConnectionLimitIsGranted, StreamTypeOK,
       TransportTypeOK
  <2>5. KeepsLimits(p)
    BY <1>1, <1>2, <2>1, <2>4 DEF KeepsLimits, LimitInv, LimitsOnTheWay
  <2> QED
    BY <2>5, KeepingLimits
<1>8. CASE ReceiveStreamDataBlocked(p, pkt)
  <2>1. PICK reply :
           /\ reply.type = "MAX_STREAM_DATA"
           /\ replies' = [replies EXCEPT ![p] = <<reply>>]
           /\ UNCHANGED <<maxRecvSize, maxSendSize>>
    BY <1>8 DEF ReceiveStreamDataBlocked, flowVars
  <2>2. \A q \in Peer : \A i \in DOMAIN replies'[q] :
          \/ q # p /\ i \in DOMAIN replies[q] /\ replies'[q][i] = replies[q][i]
          \/ replies'[q][i].type # "MAX_DATA"
    BY <2>1 DEF StreamTypeOK, TransportTypeOK
  <2>3. KeepsLimits(p)
    BY <1>1, <1>2, <2>1, <2>2 DEF KeepsLimits, LimitInv, ConnectionLimitIsGranted
  <2> QED
    BY <2>3, KeepingLimits
<1>9. CASE ReceiveDataBlocked(p, pkt)
  <2> DEFINE limit == maxRecvSize[p] + frame.value
  <2>1. /\ maxRecvSize' = [maxRecvSize EXCEPT ![p] = limit]
        /\ replies' = [replies EXCEPT ![p] = <<[type |-> "MAX_DATA", value |-> limit]>>]
        /\ UNCHANGED maxSendSize
    BY <1>9 DEF ReceiveDataBlocked
  <2>2. frame.value \in Nat
    BY <1>9, FrameRead, SizeAssumption, StreamFrameAssumption
       DEF ReceiveDataBlocked, LimitFrame, StreamTypeOK
  <2>3. limit >= maxRecvSize[p]
    BY <1>2, <2>2
  <2>4. /\ \A q \in Peer : maxRecvSize'[q] >= maxRecvSize[q]
        /\ maxRecvSize'[p] = limit
    BY <1>2, <2>1, <2>3 DEF StreamTypeOK, TransportTypeOK
  <2> HIDE DEF limit
  <2>5. \A q \in Peer : \A i \in DOMAIN replies'[q] :
          \/ q # p /\ i \in DOMAIN replies[q] /\ replies'[q][i] = replies[q][i]
          \/ replies'[q][i].type = "MAX_DATA" => replies'[q][i].value <= maxRecvSize'[q]
    <3> DEFINE reply == [type |-> "MAX_DATA", value |-> limit]
    <3>1. reply.value <= maxRecvSize'[p]
      BY <1>2, <2>4 DEF StreamTypeOK, TransportTypeOK
    <3>2. replies' = [replies EXCEPT ![p] = <<reply>>]
      BY <2>1
    <3> HIDE DEF reply
    <3> QED
      BY <3>1, <3>2 DEF StreamTypeOK, TransportTypeOK
  <2>6. KeepsLimits(p)
    BY <1>1, <1>2, <2>1, <2>4, <2>5 DEF KeepsLimits, LimitInv, ConnectionLimitIsGranted
  <2> QED
    BY <2>6, KeepingLimits
<1> QED
  BY <1>4, <1>5, <1>6, <1>7, <1>8, <1>9 DEF Receive

\* The handler that ends grants more before it says so.
LEMMA RaisingKeepsLimits ==
  ASSUME StreamTypeOK, StreamTypeOK', LimitInv, NEW p \in Peer, RaiseLimits(p)
  PROVE  LimitInv'
<1> USE OtherPeer
<1> DEFINE raised == Raised(maxRecvSize[p])
           s == current[p]
           streamLimit == [type |-> "MAX_STREAM_DATA", stream |-> s,
                           value |-> Raised(streams[p][s].maxRecv)]
           allLimit == [type |-> "MAX_DATA", value |-> raised]
<1>1. \A q \in Peer : maxRecvSize[q] \in Nat /\ maxSendSize[q] \in Nat
  BY DEF StreamTypeOK, TransportTypeOK
<1>2. raised \in Nat
  BY <1>1, RaisedTyped
<1>3. UNCHANGED <<issued, maxSendSize>>
  BY DEF RaiseLimits, vars
<1>4. PICK a \in {<<>>, <<streamLimit>>}, b \in {<<>>, <<allLimit>>} :
         /\ replies' = [replies EXCEPT ![p] = a \o b]
         /\ b # <<>> => maxRecvSize' = [maxRecvSize EXCEPT ![p] = Larger(@, raised)]
  BY DEF RaiseLimits
<1>5. \/ UNCHANGED maxRecvSize
      \/ maxRecvSize' = [maxRecvSize EXCEPT ![p] = Larger(@, raised)]
  BY DEF RaiseLimits
<1>6. \A q \in Peer : maxRecvSize'[q] >= maxRecvSize[q]
  <2> HIDE DEF raised
  <2>1. Larger(maxRecvSize[p], raised) >= maxRecvSize[p]
    BY <1>1, <1>2 DEF Larger
  <2>2. maxRecvSize \in [Peer -> Nat]
    BY DEF StreamTypeOK, TransportTypeOK
  <2> QED
    BY <1>1, <1>5, <2>1, <2>2
<1>7. b # <<>> => raised <= maxRecvSize'[p]
  BY <1>1, <1>2, <1>4 DEF Larger, StreamTypeOK, TransportTypeOK
<1>8. streamLimit.type # "MAX_DATA" /\ allLimit.value = raised
  OBVIOUS
<1> HIDE DEF streamLimit, allLimit, raised
<1>9. \A i \in DOMAIN (a \o b) :
        (a \o b)[i] = streamLimit \/ (b # <<>> /\ (a \o b)[i] = allLimit)
  <2>1. CASE a = <<>> /\ b = <<>>
    BY <2>1
  <2>2. CASE a = <<streamLimit>> /\ b = <<>>
    BY <2>2
  <2>3. CASE a = <<>> /\ b = <<allLimit>>
    BY <2>3
  <2>4. CASE a = <<streamLimit>> /\ b = <<allLimit>>
    BY <2>4
  <2> QED
    BY <2>1, <2>2, <2>3, <2>4
<1>10. \A q \in Peer : \A i \in DOMAIN replies'[q] :
         \/ q # p /\ i \in DOMAIN replies[q] /\ replies'[q][i] = replies[q][i]
         \/ replies'[q][i].type = "MAX_DATA" => replies'[q][i].value <= maxRecvSize'[q]
  <2>1. \A q \in Peer : replies'[q] = IF q = p THEN a \o b ELSE replies[q]
    BY <1>4 DEF StreamTypeOK, TransportTypeOK
  <2> QED
    BY <1>7, <1>8, <1>9, <2>1
<1>11. KeepsLimits(p)
  BY <1>1, <1>3, <1>6, <1>10 DEF KeepsLimits, LimitInv, ConnectionLimitIsGranted
<1> QED
  BY <1>11, KeepingLimits

\* A reply that is queued was granted when it was made.
LEMMA ReplyingKeepsLimits ==
  ASSUME StreamTypeOK, StreamTypeOK', LimitInv, NEW p \in Peer, QueueReply(p)
  PROVE  LimitInv'
<1> USE OtherPeer
<1> DEFINE queue == replies[p]
<1>1. /\ queue # <<>> /\ queue \in Seq(Reply)
      /\ AddPacket(p, Head(queue))
      /\ replies' = [replies EXCEPT ![p] = Tail(queue)]
      /\ UNCHANGED <<maxSendSize, maxRecvSize>>
  BY DEF QueueReply, QueuePacket, flowVars, StreamTypeOK, TransportTypeOK
<1>2. \A q \in Peer : maxRecvSize[q] \in Nat
  BY DEF StreamTypeOK, TransportTypeOK
<1>3. \A i \in DOMAIN queue :
        queue[i].type = "MAX_DATA" => queue[i].value <= maxRecvSize[p]
  BY DEF LimitInv, LimitsOnTheWay
<1>4. \A q \in Peer : replies'[q] = IF q = p THEN Tail(queue) ELSE replies[q]
  BY <1>1 DEF StreamTypeOK, TransportTypeOK
<1> HIDE DEF queue
<1>5. Head(queue).type = "MAX_DATA" => Head(queue).value <= maxRecvSize[p]
  BY <1>1, <1>3
<1>6. \A i \in DOMAIN Tail(queue) : i + 1 \in DOMAIN queue /\ Tail(queue)[i] = queue[i + 1]
  BY <1>1
<1>7. \A q \in Peer : \A i \in DOMAIN replies'[q] :
        \/ q # p /\ i \in DOMAIN replies[q] /\ replies'[q][i] = replies[q][i]
        \/ replies'[q][i].type = "MAX_DATA" => replies'[q][i].value <= maxRecvSize'[q]
  <2>1. \A i \in DOMAIN Tail(queue) :
          Tail(queue)[i].type = "MAX_DATA" => Tail(queue)[i].value <= maxRecvSize[p]
    BY <1>3, <1>6
  <2> QED
    BY <1>1, <1>4, <2>1
<1>8. \A q \in Peer : \A pkt \in issued'[q] :
        \/ pkt \in issued[q]
        \/ pkt.frame.type = "MAX_DATA" => pkt.frame.value <= maxRecvSize[q]
  BY <1>1, <1>5, IssuedPackets DEF StreamTypeOK
<1>9. KeepsLimits(p)
  BY <1>1, <1>2, <1>7, <1>8 DEF KeepsLimits, LimitInv, ConnectionLimitIsGranted
<1> QED
  BY <1>9, KeepingLimits

\* A step of the streams keeps LimitInv.
LEMMA StreamStepKeepsLimits ==
  ASSUME StreamTypeOK, StreamTypeOK', PacketInv, LimitInv, NEW p \in Peer, StreamEndpoint(p)
  PROVE  LimitInv'
<1>1. CASE \/ \E bidirectional \in BOOLEAN : CreateStream(p, bidirectional)
           \/ DeliverBuffered(p)
  <2>1. UNCHANGED <<maxSendSize, maxRecvSize, replies, issued>>
    BY <1>1 DEF CreateStream, DeliverBuffered, vars, flowVars, handlerVars
  <2> QED
    BY <2>1, OtherFramesKeepLimits
<1>2. CASE \/ \E s \in StreamID, length \in Sizes, fin \in Fins :
                  SendData(p, s, length, fin)
           \/ FinishPass(p)
  BY <1>2, SendingKeepsLimits
<1>3. ASSUME NEW pkt \in inFlight[p], Receive(p, pkt) PROVE LimitInv'
  BY <1>3, ReceivingKeepsLimits
<1>4. CASE RaiseLimits(p)
  BY <1>4, RaisingKeepsLimits
<1>5. CASE QueueReply(p)
  BY <1>5, ReplyingKeepsLimits
<1>6. CASE PassStep(p)
  BY <1>6, PassKeepsLimits
<1> QED
  BY <1>1, <1>2, <1>3, <1>4, <1>5, <1>6 DEF StreamEndpoint

\* Nothing is promised at the start.
LEMMA LimitInvInitially == StreamInit => LimitInv
<1> SUFFICES ASSUME StreamInit PROVE LimitInv
  OBVIOUS
<1>1. \A p \in Peer : issued[p] = {} /\ replies[p] = <<>>
  BY DEF StreamInit, Init
<1> QED
  BY <1>1, OtherPeer, SizeAssumption
     DEF StreamInit, LimitInv, LimitsOnTheWay, ConnectionLimitIsGranted

\* A sender never obeys a connection limit its receiver does not enforce, in whatever
\* order limits and requests for credit arrive and however often they are repeated.
THEOREM ConnectionLimitGranted == StreamSpec => []ConnectionLimitIsGranted
<1>1. StreamTypeOK /\ StreamTypeOK' /\ PacketInv /\ LimitInv /\ [StreamNext]_allVars
         => LimitInv'
  <2> SUFFICES ASSUME StreamTypeOK, StreamTypeOK', PacketInv, LimitInv,
                      [StreamNext]_allVars
               PROVE  LimitInv'
    OBVIOUS
  <2>1. CASE UNCHANGED allVars
    BY <2>1 DEF allVars, vars, streamVars, flowVars, handlerVars, LimitInv,
       LimitsOnTheWay, ConnectionLimitIsGranted
  <2>2. ASSUME NEW p \in Peer, StreamEndpoint(p) PROVE LimitInv'
    BY <2>2, StreamStepKeepsLimits
  <2> QED
    BY <2>1, <2>2 DEF StreamNext
<1>2. LimitInv => ConnectionLimitIsGranted
  BY DEF LimitInv
<1> QED
  BY <1>1, <1>2, LimitInvInitially, StreamTypeCorrect, StreamBookkeeping, PTL DEF StreamSpec

-----------------------------------------------------------------------------
(* Streams in use.                                                         *)

\* No stream in use is overwritten when another one comes into use.
EntriesKept ==
  \A p \in Peer : \A s \in usedStreamID[p] :
     usedStreamID'[p] # usedStreamID[p] => streams'[p][s] = streams[p][s]

-----------------------------------------------------------------------------
(* Nothing deliverable waits.                                              *)

\* A stream that did not exist has nothing in its buffer.
LEMMA NewStreamEmpty ==
  /\ NewStream.offset = 0
  /\ NewStream.expOffset = 0
  /\ NewStream.buffered = {}
BY DEF NewStream, DefaultStream

\* A step that changes the limit, or the send offset, of one stream.
LEMMA FieldChanged ==
  ASSUME NEW before \in [Peer -> [StreamID -> Stream]], NEW after, NEW p \in Peer,
         NEW s \in StreamID, NEW n,
         \/ after = [before EXCEPT ![p][s].offset = n]
         \/ after = [before EXCEPT ![p][s].maxRecv = n]
         \/ after = [before EXCEPT ![p][s].maxSend = n]
  PROVE  \A q \in Peer, t \in StreamID :
            /\ after[q][t].buffered = before[q][t].buffered
            /\ after[q][t].expOffset = before[q][t].expOffset
            /\ \/ after[q][t].offset = before[q][t].offset
               \/ /\ q = p /\ t = s
                  /\ after = [before EXCEPT ![p][s].offset = n]
                  /\ after[q][t].offset = n
<1> DEFINE st == before[p][s]
<1>1. PICK new :
         /\ \/ new = [st EXCEPT !.offset = n]
            \/ new = [st EXCEPT !.maxRecv = n]
            \/ new = [st EXCEPT !.maxSend = n]
         /\ after = [before EXCEPT ![p][s] = new]
         /\ new = [st EXCEPT !.offset = n] => after = [before EXCEPT ![p][s].offset = n]
  OBVIOUS
<1>2. /\ new.buffered = st.buffered
      /\ new.expOffset = st.expOffset
      /\ \/ new.offset = st.offset
         \/ after = [before EXCEPT ![p][s].offset = n] /\ new.offset = n
  <2>1. st \in Stream
    OBVIOUS
  <2> QED
    BY <1>1, <2>1 DEF Stream
<1>3. \A q \in Peer, t \in StreamID :
         after[q][t] = IF q = p /\ t = s THEN new ELSE before[q][t]
  BY <1>1
<1> QED
  BY <1>2, <1>3

\* A step that leaves the streams of p alone, but for limits and new streams, makes
\* nothing deliverable.
LEMMA WaitingKept ==
  ASSUME NothingDeliverableWaits, UNCHANGED current,
         \A p \in Peer, s \in StreamID :
             \/ streams'[p][s].buffered = {}
             \/ /\ streams'[p][s].buffered = streams[p][s].buffered
                /\ streams'[p][s].expOffset = streams[p][s].expOffset
  PROVE  NothingDeliverableWaits'
BY DEF NothingDeliverableWaits, NextInBuffer

\* SendData and the end of a pass look at buffers.
LEMMA SendingFromQueue ==
  ASSUME StreamTypeOK, NEW p \in Peer,
         \/ \E s \in StreamID, length \in Sizes, fin \in Fins :
                SendData(p, s, length, fin)
         \/ FinishPass(p)
  PROVE  \E queue \in Seq(UnsentBuffer) :
            \/ TakeChunk(p, queue)
            \/ AskForCredit(p, queue)
            \/ LeaveWaiting(p, queue)
<1>1. ASSUME NEW s \in StreamID, NEW length \in Sizes, NEW fin \in Fins,
             SendData(p, s, length, fin)
      PROVE  \E queue \in Seq(UnsentBuffer) :
                \/ TakeChunk(p, queue)
                \/ AskForCredit(p, queue)
                \/ LeaveWaiting(p, queue)
  <2> DEFINE buf == [stream |-> s, first |-> submitted[p][s] + 1, length |-> length,
                     fin |-> fin]
             queue == Append(unsentBuf[p], buf)
  <2>1. buf \in UnsentBuffer
    BY SizeAssumption DEF StreamTypeOK, HistoryTypeOK, UnsentBuffer
  <2>2. queue \in Seq(UnsentBuffer)
    BY <2>1 DEF StreamTypeOK, TransportTypeOK
  <2>3. \/ TakeChunk(p, queue)
        \/ AskForCredit(p, queue)
        \/ LeaveWaiting(p, queue)
    BY <1>1 DEF SendData
  <2> HIDE DEF queue
  <2> QED
    BY <2>2, <2>3
<1>2. CASE FinishPass(p)
  BY <1>2 DEF FinishPass, StreamTypeOK, TransportTypeOK
<1> QED
  BY <1>1, <1>2

\* The stream a limit is said of.
LEMMA LimitStream ==
  ASSUME TypeOK, NEW p \in Peer, NEW pkt \in inFlight[p],
         pkt.frame.type \in {"MAX_STREAM_DATA", "STREAM_DATA_BLOCKED"}
  PROVE  pkt.frame.stream \in StreamID
BY FrameRead, StreamFrameAssumption DEF LimitFrame

\* A step of the streams keeps NothingDeliverableWaits.
LEMMA StepLeavesNothingWaiting ==
  ASSUME StreamTypeOK, NothingDeliverableWaits, NEW p \in Peer, StreamEndpoint(p)
  PROVE  NothingDeliverableWaits'
<1> USE DEF StreamTypeOK
<1>0. /\ streams \in [Peer -> [StreamID -> Stream]]
      /\ current \in [Peer -> StreamID \cup {NoStream}]
  BY DEF TransportTypeOK
<1>1. ASSUME NEW bidirectional \in BOOLEAN, CreateStream(p, bidirectional)
      PROVE  NothingDeliverableWaits'
  <2>1. PICK index \in StreamID : streams' = [streams EXCEPT ![p][index] = NewStream]
    BY <1>1 DEF CreateStream
  <2>2. UNCHANGED current
    BY <1>1 DEF CreateStream, handlerVars
  <2>3. \A q \in Peer, s \in StreamID :
            streams'[q][s] = streams[q][s] \/ streams'[q][s] = NewStream
    BY <1>0, <2>1
  <2> QED
    BY <2>2, <2>3, NewStreamEmpty, WaitingKept
<1>2. CASE \/ \E s \in StreamID, length \in Sizes, fin \in Fins : SendData(p, s, length, fin)
           \/ FinishPass(p)
  <2>1. UNCHANGED current
    BY <1>2 DEF SendData, FinishPass, handlerVars
  <2>2. PICK queue \in Seq(UnsentBuffer) :
           \/ TakeChunk(p, queue)
           \/ AskForCredit(p, queue)
           \/ LeaveWaiting(p, queue)
    BY <1>2, SendingFromQueue
  <2>3. CASE TakeChunk(p, queue)
    <3>1. Head(queue).stream \in StreamID
      BY <2>3, CuttingTyped DEF TakeChunk
    <3>2. \E n : streams' = [streams EXCEPT ![p][Head(queue).stream].offset = n]
      BY <2>3 DEF TakeChunk
    <3>3. \A q \in Peer, s \in StreamID :
             /\ streams'[q][s].buffered = streams[q][s].buffered
             /\ streams'[q][s].expOffset = streams[q][s].expOffset
      BY <1>0, <3>1, <3>2, FieldChanged
    <3> QED
      BY <2>1, <3>3, WaitingKept
  <2>4. CASE UNCHANGED streams
    BY <2>1, <2>4, WaitingKept
  <2> QED
    BY <2>2, <2>3, <2>4 DEF AskForCredit, LeaveWaiting
<1>3. ASSUME NEW pkt \in inFlight[p], Receive(p, pkt)
      PROVE  NothingDeliverableWaits'
  <2> DEFINE s == pkt.frame.stream
  <2>1. CASE ReceiveStream(p, pkt)
    <3>1. PICK st : streams' = [streams EXCEPT ![p][s] = st]
      BY <2>1 DEF ReceiveStream, ReceiveInOrder, ReceiveDisorder
    <3>2. current' = [current EXCEPT ![p] = s] /\ current[p] = NoStream
      BY <2>1 DEF ReceiveStream, Idle
    <3>3. s \in StreamID
      BY <2>1, FrameRead DEF ReceiveStream, StreamFrame
    <3>4. \A q \in Peer, t \in StreamID :
             q # p \/ t # s => streams'[q][t] = streams[q][t]
      BY <1>0, <3>1
    <3>5. \A q \in Peer : current'[q] = IF q = p THEN s ELSE current[q]
      BY <1>0, <3>2
    <3>6. \A t \in StreamID : current[p] # t
      BY <3>2, StreamAssumption
    <3> QED
      BY <3>4, <3>5, <3>6 DEF NothingDeliverableWaits, NextInBuffer
  <2>2. CASE ReceiveOverLimit(p, pkt)
    <3>1. streams' = [streams EXCEPT ![p][s] = FoundStream(p, s)] /\ UNCHANGED current
      BY <2>2 DEF ReceiveOverLimit, InsertStream
    <3>2. \A q \in Peer, t \in StreamID :
             streams'[q][t] = streams[q][t] \/ streams'[q][t] = NewStream
      BY <1>0, <3>1 DEF FoundStream
    <3> QED
      BY <3>1, <3>2, NewStreamEmpty, WaitingKept
  <2>3. CASE ReceiveMaxData(p, pkt) \/ ReceiveDataBlocked(p, pkt)
    BY <2>3, WaitingKept DEF ReceiveMaxData, ReceiveDataBlocked, handlerVars
  <2>4. CASE ReceiveMaxStreamData(p, pkt) \/ ReceiveStreamDataBlocked(p, pkt)
    <3>1. UNCHANGED current
      BY <2>4 DEF ReceiveMaxStreamData, ReceiveStreamDataBlocked, handlerVars
    <3>2. s \in StreamID
      BY <2>4, LimitStream DEF ReceiveMaxStreamData, ReceiveStreamDataBlocked
    <3>3. PICK n : \/ streams' = [streams EXCEPT ![p][s].maxRecv = n]
                   \/ streams' = [streams EXCEPT ![p][s].maxSend = n]
      BY <2>4 DEF ReceiveMaxStreamData, ReceiveStreamDataBlocked
    <3>4. \A q \in Peer, t \in StreamID :
             /\ streams'[q][t].buffered = streams[q][t].buffered
             /\ streams'[q][t].expOffset = streams[q][t].expOffset
      <4> HIDE DEF s
      <4>1. CASE streams' = [streams EXCEPT ![p][s].maxRecv = n]
        BY <1>0, <3>2, <4>1, FieldChanged
      <4>2. CASE streams' = [streams EXCEPT ![p][s].maxSend = n]
        BY <1>0, <3>2, <4>2, FieldChanged
      <4> QED
        BY <3>3, <4>1, <4>2
    <3> QED
      BY <3>1, <3>4, WaitingKept
  <2> QED
    BY <1>3, <2>1, <2>2, <2>3, <2>4 DEF Receive
<1>4. CASE DeliverBuffered(p)
  <2> DEFINE s == current[p]
  <2>1. PICK frame :
          streams' = [streams EXCEPT ![p][s].buffered = @ \ {frame},
                                     ![p][s].expOffset = @ + frame.length]
    BY <1>4 DEF DeliverBuffered
  <2>2. UNCHANGED current
    BY <1>4 DEF DeliverBuffered, handlerVars
  <2>3. \A q \in Peer, t \in StreamID :
           q # p \/ t # s => streams'[q][t] = streams[q][t]
    BY <1>0, <2>1
  <2> QED
    BY <2>2, <2>3 DEF NothingDeliverableWaits, NextInBuffer
<1>5. CASE RaiseLimits(p)
  <2> DEFINE s == current[p]
  <2>1. /\ current' = [current EXCEPT ![p] = NoStream]
        /\ NextInBuffer(p, s) = {}
    BY <1>5 DEF RaiseLimits, NothingDeliverable
  <2>2. UNCHANGED streams \/ \E limit : streams' = [streams EXCEPT ![p][s].maxRecv = limit]
    BY <1>5 DEF RaiseLimits
  <2>3. \A q \in Peer, t \in StreamID :
           /\ streams'[q][t].buffered = streams[q][t].buffered
           /\ streams'[q][t].expOffset = streams[q][t].expOffset
    <3>1. s \in StreamID
      BY <1>0, <1>5 DEF RaiseLimits
    <3> HIDE DEF s
    <3>2. CASE UNCHANGED streams
      BY <3>2
    <3>3. CASE \E limit : streams' = [streams EXCEPT ![p][s].maxRecv = limit]
      BY <1>0, <3>1, <3>3, FieldChanged
    <3> QED
      BY <2>2, <3>2, <3>3
  <2>4. \A q \in Peer, t \in StreamID : NextInBuffer(q, t)' = NextInBuffer(q, t)
    BY <2>3 DEF NextInBuffer
  <2> QED
    BY <1>0, <2>1, <2>4 DEF NothingDeliverableWaits
<1>6. CASE QueueReply(p) \/ PassStep(p)
  BY <1>6, WaitingKept DEF QueueReply, PassStep, streamVars, handlerVars
<1> QED
  BY <1>1, <1>2, <1>3, <1>4, <1>5, <1>6 DEF StreamEndpoint

\* GetBufferedStream leaves no frame behind that could be delivered: not on the stream
\* of the handler that ends, and not on the others, whatever is opened or overwritten.
THEOREM NothingWaitsDeliverable == StreamSpec => []NothingDeliverableWaits
<1>1. StreamInit => NothingDeliverableWaits
  BY DEF StreamInit, NothingDeliverableWaits, NextInBuffer, DefaultStream
<1>2. StreamTypeOK /\ NothingDeliverableWaits /\ [StreamNext]_allVars
         => NothingDeliverableWaits'
  <2> SUFFICES ASSUME StreamTypeOK, NothingDeliverableWaits, [StreamNext]_allVars
               PROVE  NothingDeliverableWaits'
    OBVIOUS
  <2>1. CASE UNCHANGED allVars
    BY <2>1 DEF allVars, streamVars, handlerVars, NothingDeliverableWaits, NextInBuffer
  <2>2. ASSUME NEW p \in Peer, StreamEndpoint(p) PROVE NothingDeliverableWaits'
    BY <2>2, StepLeavesNothingWaiting
  <2> QED
    BY <2>1, <2>2 DEF StreamNext
<1> QED
  BY <1>1, <1>2, StreamTypeCorrect, PTL DEF StreamSpec

-----------------------------------------------------------------------------
(* The buffers that wait.                                                  *)

\* The buffers of stream s, and where one of them ends.
Mine(queue, s) == {i \in DOMAIN queue : queue[i].stream = s}
Ends(queue, i) == queue[i].first + queue[i].length

\* The buffers of stream s hold, in order and without a gap, the bytes from sent + 1 to
\* total: UnsentFollowsSent without its sums, and what keeps it so.
Covers(queue, s, sent, total) ==
  /\ sent <= total
  /\ Mine(queue, s) = {} => sent = total
  /\ \A i \in Mine(queue, s) : sent < queue[i].first /\ Ends(queue, i) <= total + 1
  /\ \A i, j \in Mine(queue, s) : i < j => Ends(queue, i) <= queue[j].first
  /\ \A i \in Mine(queue, s) :
        (\A j \in Mine(queue, s) : i <= j) => queue[i].first = sent + 1
  /\ \A i, j \in Mine(queue, s) :
        i < j /\ (\A k \in Mine(queue, s) : k <= i \/ j <= k)
            => queue[j].first = Ends(queue, i)
  /\ \A i \in Mine(queue, s) :
        (\A j \in Mine(queue, s) : j <= i) => Ends(queue, i) = total + 1

\* Buffers are numbers where numbers are expected.
LEMMA BufferTyped ==
  ASSUME NEW queue \in Seq(UnsentBuffer), NEW i \in DOMAIN queue
  PROVE  /\ i \in Nat /\ i >= 1 /\ i <= Len(queue)
         /\ queue[i] \in UnsentBuffer
         /\ queue[i].first \in Nat /\ queue[i].length \in Nat
         /\ Ends(queue, i) \in Nat
<1>1. i \in Nat /\ i >= 1 /\ i <= Len(queue) /\ queue[i] \in UnsentBuffer
  OBVIOUS
<1> QED
  BY <1>1 DEF UnsentBuffer, Ends

\* A buffer submitted on the stream goes on where the others end; one of another
\* stream changes nothing.
LEMMA CoversAppended ==
  ASSUME NEW queue \in Seq(UnsentBuffer), NEW s, NEW sent \in Nat, NEW total \in Nat,
         Covers(queue, s, sent, total), NEW buf \in UnsentBuffer,
         buf.stream = s => buf.first = total + 1
  PROVE  Covers(Append(queue, buf), s, sent,
                IF buf.stream = s THEN total + buf.length ELSE total)
<1> DEFINE longer == Append(queue, buf)
           last == Len(queue) + 1
<1>1. /\ longer \in Seq(UnsentBuffer) /\ last \in Nat
      /\ DOMAIN longer = DOMAIN queue \cup {last}
      /\ \A i \in DOMAIN queue : longer[i] = queue[i] /\ i < last
      /\ longer[last] = buf
  OBVIOUS
<1>2. buf.length \in Nat /\ buf.first \in Nat
  BY DEF UnsentBuffer
<1>3. /\ \A i \in Mine(queue, s) : /\ i \in DOMAIN queue /\ i < last /\ i \in Nat
                                   /\ longer[i].first = queue[i].first
                                   /\ longer[i].length = queue[i].length
                                   /\ Ends(longer, i) = Ends(queue, i)
                                   /\ queue[i].first \in Nat /\ queue[i].length \in Nat
                                   /\ Ends(queue, i) \in Nat
      /\ Mine(longer, s) = Mine(queue, s) \cup (IF buf.stream = s THEN {last} ELSE {})
  BY <1>1, BufferTyped DEF Mine, Ends
<1>4. Ends(longer, last) = buf.first + buf.length
  BY <1>1 DEF Ends
<1>5. CASE buf.stream # s
  BY <1>3, <1>5 DEF Covers
<1>6. CASE buf.stream = s
  <2> DEFINE all == Mine(longer, s)
             old == Mine(queue, s)
             end == total + buf.length
  <2>1. all = old \cup {last} /\ buf.first = total + 1 /\ end \in Nat
    BY <1>2, <1>3, <1>6
  <2>2. sent <= end /\ all # {}
    BY <1>2, <2>1 DEF Covers
  <2>3. /\ longer[last].first = total + 1
        /\ Ends(longer, last) = end + 1
    BY <1>1, <1>2, <1>4, <2>1
  <2> HIDE DEF all, longer, last, end
  <2>4. \A i \in old : /\ sent < queue[i].first
                       /\ Ends(queue, i) <= total + 1
    BY DEF Covers
  <2>5. \A i \in all : sent < longer[i].first /\ Ends(longer, i) <= end + 1
    <3>1. total + 1 <= end + 1 /\ sent < total + 1
      BY <1>2 DEF Covers, end
    <3> HIDE DEF old
    <3> QED
      BY <1>2, <1>3, <2>1, <2>3, <2>4, <3>1 DEF old
  <2>6. \A i, j \in all : i < j => Ends(longer, i) <= longer[j].first
    <3> SUFFICES ASSUME NEW i \in all, NEW j \in all, i < j
                 PROVE  Ends(longer, i) <= longer[j].first
      OBVIOUS
    <3>1. CASE j = last
      BY <1>1, <1>3, <2>1, <2>3, <2>4, <3>1
    <3>2. CASE j # last
      BY <1>1, <1>3, <2>1, <3>2 DEF Covers
    <3> QED
      BY <3>1, <3>2
  <2>7. \A i \in all : (\A j \in all : i <= j) => longer[i].first = sent + 1
    <3> SUFFICES ASSUME NEW i \in all, \A j \in all : i <= j
                 PROVE  longer[i].first = sent + 1
      OBVIOUS
    <3>1. CASE i = last
      <4>1. old = {}
        BY <1>1, <1>3, <2>1, <3>1
      <4> QED
        BY <2>3, <3>1, <4>1 DEF Covers
    <3>2. CASE i # last
      BY <1>3, <2>1, <3>2 DEF Covers
    <3> QED
      BY <3>1, <3>2
  <2>8. \A i, j \in all : i < j /\ (\A k \in all : k <= i \/ j <= k)
                             => longer[j].first = Ends(longer, i)
    <3> SUFFICES ASSUME NEW i \in all, NEW j \in all, i < j,
                        \A k \in all : k <= i \/ j <= k
                 PROVE  longer[j].first = Ends(longer, i)
      OBVIOUS
    <3>1. i \in old
      BY <1>1, <1>3, <2>1
    <3>2. CASE j = last
      <4>1. \A k \in old : k <= i
        BY <1>1, <1>3, <2>1, <3>2
      <4>2. Ends(queue, i) = total + 1
        BY <3>1, <4>1 DEF Covers
      <4> QED
        BY <1>3, <2>3, <3>1, <3>2, <4>2
    <3>3. CASE j # last
      BY <1>3, <2>1, <3>1, <3>3 DEF Covers
    <3> QED
      BY <3>2, <3>3
  <2>9. \A i \in all : (\A j \in all : j <= i) => Ends(longer, i) = end + 1
    BY <1>1, <1>3, <2>1, <2>3
  <2> QED
    BY <1>6, <2>2, <2>5, <2>6, <2>7, <2>8, <2>9 DEF Covers, all, longer, end
<1> QED
  BY <1>5, <1>6

\* A chunk of the first buffer begins where what was sent ends, and is of what was
\* submitted.
LEMMA CoversHead ==
  ASSUME NEW queue \in Seq(UnsentBuffer), queue # <<>>, NEW sent \in Nat,
         NEW total \in Nat, Covers(queue, Head(queue).stream, sent, total)
  PROVE  /\ Head(queue).first = sent + 1
         /\ ChunkLength(queue) \in Nat
         /\ ChunkLength(queue) <= Head(queue).length
         /\ sent + ChunkLength(queue) <= total
<1> DEFINE s == Head(queue).stream
<1>1. /\ 1 \in DOMAIN queue /\ queue[1] = Head(queue)
      /\ \A i \in DOMAIN queue : 1 <= i
  OBVIOUS
<1>2. 1 \in Mine(queue, s) /\ \A i \in Mine(queue, s) : 1 <= i
  BY <1>1 DEF Mine
<1>3. /\ queue[1].first = sent + 1
      /\ Ends(queue, 1) <= total + 1
  BY <1>2 DEF Covers
<1>4. queue[1].length \in Nat /\ queue[1].first \in Nat
  BY <1>1, BufferTyped
<1>5. ChunkLength(queue) \in Nat /\ ChunkLength(queue) <= Head(queue).length
  BY <1>1, <1>4, SizeAssumption DEF ChunkLength, Smaller
<1>6. sent + 1 + queue[1].length <= total + 1
  BY <1>3 DEF Ends
<1> QED
  BY <1>1, <1>3, <1>4, <1>5, <1>6

\* Cutting a chunk off moves the beginning of what waits, of the chunk's stream.
LEMMA CoversCut ==
  ASSUME NEW queue \in Seq(UnsentBuffer), queue # <<>>, NEW s, NEW sent \in Nat,
         NEW total \in Nat, Covers(queue, s, sent, total)
  PROVE  Covers(AfterChunk(queue), s,
                IF Head(queue).stream = s THEN sent + ChunkLength(queue) ELSE sent, total)
<1> DEFINE cut == ChunkLength(queue)
           now == IF Head(queue).stream = s THEN sent + cut ELSE sent
           rest == AfterChunk(queue)
<1>1. /\ 1 \in DOMAIN queue /\ queue[1] = Head(queue) /\ queue[1] \in UnsentBuffer
      /\ queue[1].first \in Nat /\ queue[1].length \in Nat
  <2>1. 1 \in DOMAIN queue /\ queue[1] = Head(queue)
    OBVIOUS
  <2> QED
    BY <2>1, BufferTyped
<1>2. cut \in Nat /\ cut <= queue[1].length
  BY <1>1, SizeAssumption DEF ChunkLength, Smaller
<1>3. 1 \in Mine(queue, s) <=> Head(queue).stream = s
  BY <1>1 DEF Mine
<1>4. Head(queue).stream = s => queue[1].first = sent + 1 /\ sent + cut <= total
  BY <1>1, CoversHead
<1>5. \A i \in Mine(queue, s) : /\ i \in DOMAIN queue /\ i \in Nat /\ i >= 1
                                /\ queue[i].first \in Nat /\ queue[i].length \in Nat
                                /\ Ends(queue, i) \in Nat
  BY BufferTyped DEF Mine
<1>6. CASE queue[1].length <= cut
  <2>1. rest = Tail(queue) /\ cut = queue[1].length
    BY <1>1, <1>2, <1>6 DEF AfterChunk
  <2>2. /\ \A i \in Mine(rest, s) : /\ i \in Nat /\ i + 1 \in Mine(queue, s)
                                    /\ rest[i] = queue[i + 1]
                                    /\ Ends(rest, i) = Ends(queue, i + 1)
        /\ \A i \in Mine(queue, s) : i # 1 => i - 1 \in Mine(rest, s)
    BY <2>1 DEF Mine, Ends
  <2>3. 1 \in Mine(queue, s) => Ends(queue, 1) = now + 1
    BY <1>1, <1>2, <1>3, <1>4, <2>1 DEF Ends
  <2>4. now \in Nat
    BY <1>2
  <2> HIDE DEF now, cut, rest
  <2>5. now <= total
    BY <1>4 DEF now, Covers
  <2>6. Mine(rest, s) = {} => now = total
    <3> SUFFICES ASSUME Mine(rest, s) = {} PROVE now = total
      OBVIOUS
    <3>1. Mine(queue, s) \subseteq {1}
      BY <2>2
    <3>2. CASE 1 \in Mine(queue, s)
      <4>1. Ends(queue, 1) = total + 1
        BY <1>5, <3>1, <3>2 DEF Covers
      <4> QED
        BY <2>3, <2>4, <3>2, <4>1
    <3>3. CASE 1 \notin Mine(queue, s)
      BY <1>3, <3>1, <3>3 DEF Covers, now
    <3> QED
      BY <3>2, <3>3
  <2>7. \A i \in Mine(rest, s) : now < rest[i].first /\ Ends(rest, i) <= total + 1
    <3> TAKE i \in Mine(rest, s)
    <3>1. i \in Nat /\ i + 1 \in Mine(queue, s) /\ i + 1 > 1
      <4>1. i \in DOMAIN rest
        BY DEF Mine
      <4>2. i >= 1
        BY <2>1, <4>1
      <4> QED
        BY <2>2, <4>2
    <3>2. 1 \in Mine(queue, s) => Ends(queue, 1) <= queue[i + 1].first
      BY <3>1 DEF Covers
    <3>3. 1 \notin Mine(queue, s) => now = sent
      BY <1>3 DEF now
    <3>4. sent < queue[i + 1].first /\ Ends(queue, i + 1) <= total + 1
      BY <3>1 DEF Covers
    <3>5. queue[i + 1].first \in Nat
      BY <1>5, <3>1
    <3>6. now < queue[i + 1].first
      BY <2>3, <2>4, <3>2, <3>3, <3>4, <3>5
    <3> QED
      BY <2>2, <3>4, <3>6
  <2>8. \A i, j \in Mine(rest, s) : i < j => Ends(rest, i) <= rest[j].first
    <3> TAKE i, j \in Mine(rest, s)
    <3>1. /\ i + 1 \in Mine(queue, s) /\ j + 1 \in Mine(queue, s)
          /\ i \in Nat /\ j \in Nat
      BY <2>2
    <3>2. i < j => i + 1 < j + 1
      BY <3>1
    <3> QED
      BY <2>2, <3>1, <3>2 DEF Covers
  <2>9. \A i \in Mine(rest, s) : (\A j \in Mine(rest, s) : i <= j) => rest[i].first = now + 1
    <3> SUFFICES ASSUME NEW i \in Mine(rest, s), \A j \in Mine(rest, s) : i <= j
                 PROVE  rest[i].first = now + 1
      OBVIOUS
    <3>1. i \in Nat /\ i + 1 \in Mine(queue, s) /\ i >= 1
      <4>1. i \in DOMAIN rest
        BY DEF Mine
      <4> QED
        BY <2>1, <2>2, <4>1
    <3>2. \A k \in Mine(queue, s) : k # 1 => i + 1 <= k
      <4> TAKE k \in Mine(queue, s)
      <4> SUFFICES ASSUME k # 1 PROVE i + 1 <= k
        OBVIOUS
      <4>1. i <= k - 1
        BY <2>2
      <4> QED
        BY <1>5, <3>1, <4>1
    <3>3. CASE 1 \in Mine(queue, s)
      <4>1. \A k \in Mine(queue, s) : k <= 1 \/ i + 1 <= k
        BY <1>5, <3>2
      <4>2. 1 < i + 1
        BY <3>1
      <4>3. queue[i + 1].first = Ends(queue, 1)
        BY <3>1, <3>3, <4>1, <4>2 DEF Covers
      <4> QED
        BY <2>2, <2>3, <3>3, <4>3
    <3>4. CASE 1 \notin Mine(queue, s)
      <4>1. \A k \in Mine(queue, s) : i + 1 <= k
        BY <3>2, <3>4
      <4>2. queue[i + 1].first = sent + 1
        BY <3>1, <4>1 DEF Covers
      <4> QED
        BY <1>3, <2>2, <3>4, <4>2 DEF now
    <3> QED
      BY <3>3, <3>4
  <2>10. \A i, j \in Mine(rest, s) :
            i < j /\ (\A k \in Mine(rest, s) : k <= i \/ j <= k)
               => rest[j].first = Ends(rest, i)
    <3> SUFFICES ASSUME NEW i \in Mine(rest, s), NEW j \in Mine(rest, s), i < j,
                        \A k \in Mine(rest, s) : k <= i \/ j <= k
                 PROVE  rest[j].first = Ends(rest, i)
      OBVIOUS
    <3>1. /\ i + 1 \in Mine(queue, s) /\ j + 1 \in Mine(queue, s)
          /\ i \in Nat /\ j \in Nat /\ i + 1 < j + 1
      BY <2>2
    <3>2. \A k \in Mine(queue, s) : k <= i + 1 \/ j + 1 <= k
      <4> TAKE k \in Mine(queue, s)
      <4>1. k = 1 => k <= i + 1
        BY <3>1
      <4>2. k # 1 => k - 1 <= i \/ j <= k - 1
        BY <2>2
      <4> QED
        BY <1>5, <3>1, <4>1, <4>2
    <3>3. queue[j + 1].first = Ends(queue, i + 1)
      BY <3>1, <3>2 DEF Covers
    <3> QED
      BY <2>2, <3>3
  <2>11. \A i \in Mine(rest, s) : (\A j \in Mine(rest, s) : j <= i) => Ends(rest, i) = total + 1
    <3> SUFFICES ASSUME NEW i \in Mine(rest, s), \A j \in Mine(rest, s) : j <= i
                 PROVE  Ends(rest, i) = total + 1
      OBVIOUS
    <3>1. i + 1 \in Mine(queue, s) /\ i \in Nat
      BY <2>2
    <3>2. \A k \in Mine(queue, s) : k <= i + 1
      <4> TAKE k \in Mine(queue, s)
      <4>1. k # 1 => k - 1 <= i
        BY <2>2
      <4> QED
        BY <1>5, <3>1, <4>1
    <3> QED
      BY <2>2, <3>1, <3>2 DEF Covers
  <2> QED
    BY <2>5, <2>6, <2>7, <2>8, <2>9, <2>10, <2>11 DEF Covers, now, cut, rest
<1>7. CASE ~(queue[1].length <= cut)
  <2> DEFINE buf == [queue[1] EXCEPT !.length = @ - cut, !.first = @ + cut]
  <2>1. rest = [queue EXCEPT ![1] = buf]
    BY <1>1, <1>7 DEF AfterChunk
  <2>2. /\ buf.stream = queue[1].stream
        /\ buf.first = queue[1].first + cut
        /\ buf.length = queue[1].length - cut
    BY <1>1 DEF UnsentBuffer
  <2>3. buf.first + buf.length = queue[1].first + queue[1].length
    BY <1>1, <1>2, <2>2
  <2> HIDE DEF buf, cut, rest
  <2>4. /\ DOMAIN rest = DOMAIN queue
        /\ \A i \in DOMAIN queue : rest[i] = IF i = 1 THEN buf ELSE queue[i]
    BY <2>1
  <2>5. /\ Mine(rest, s) = Mine(queue, s)
        /\ \A i \in Mine(queue, s) : /\ Ends(rest, i) = Ends(queue, i)
                                     /\ i # 1 => rest[i].first = queue[i].first
    BY <2>2, <2>3, <2>4 DEF Mine, Ends
  <2>6. CASE Head(queue).stream # s
    BY <1>3, <2>5, <2>6 DEF Covers, cut, rest
  <2>7. CASE Head(queue).stream = s
    <3>1. /\ 1 \in Mine(queue, s)
          /\ rest[1].first = now + 1
          /\ now \in Nat /\ now <= total
      BY <1>1, <1>2, <1>3, <1>4, <2>2, <2>4, <2>7
    <3>2. Ends(queue, 1) > now
      <4>1. Ends(queue, 1) = sent + 1 + queue[1].length
        BY <1>4, <2>7 DEF Ends
      <4> QED
        BY <1>1, <1>2, <1>7, <2>7, <4>1
    <3> HIDE DEF now
    <3>3. \A i \in Mine(queue, s) : i # 1 => queue[i].first > now
      <4> TAKE i \in Mine(queue, s)
      <4> SUFFICES ASSUME i # 1 PROVE queue[i].first > now
        OBVIOUS
      <4>1. 1 < i
        BY <1>5
      <4>2. Ends(queue, 1) <= queue[i].first
        BY <3>1, <4>1 DEF Covers
      <4> QED
        BY <1>5, <3>1, <3>2, <4>2
    <3>4. \A i \in Mine(rest, s) : now < rest[i].first /\ Ends(rest, i) <= total + 1
      BY <2>5, <3>1, <3>3 DEF Covers
    <3>5. \A i, j \in Mine(rest, s) : i < j => Ends(rest, i) <= rest[j].first
      <4> SUFFICES ASSUME NEW i \in Mine(queue, s), NEW j \in Mine(queue, s), i < j
                   PROVE  Ends(rest, i) <= rest[j].first
        BY <2>5
      <4>1. j # 1
        BY <1>5
      <4> QED
        BY <2>5, <4>1 DEF Covers
    <3>6. \A i \in Mine(rest, s) :
             (\A j \in Mine(rest, s) : i <= j) => rest[i].first = now + 1
      <4> SUFFICES ASSUME NEW i \in Mine(queue, s), \A j \in Mine(queue, s) : i <= j
                   PROVE  rest[i].first = now + 1
        BY <2>5
      <4>1. i = 1
        BY <1>5, <3>1
      <4> QED
        BY <3>1, <4>1
    <3>7. \A i, j \in Mine(rest, s) :
             i < j /\ (\A k \in Mine(rest, s) : k <= i \/ j <= k)
                => rest[j].first = Ends(rest, i)
      <4> SUFFICES ASSUME NEW i \in Mine(queue, s), NEW j \in Mine(queue, s), i < j,
                          \A k \in Mine(queue, s) : k <= i \/ j <= k
                   PROVE  rest[j].first = Ends(rest, i)
        BY <2>5
      <4>1. j # 1
        BY <1>5
      <4> QED
        BY <2>5, <4>1 DEF Covers
    <3>8. \A i \in Mine(rest, s) :
             (\A j \in Mine(rest, s) : j <= i) => Ends(rest, i) = total + 1
      BY <2>5 DEF Covers
    <3>9. Mine(rest, s) # {}
      BY <2>5, <3>1
    <3> QED
      BY <3>1, <3>4, <3>5, <3>6, <3>7, <3>8, <3>9 DEF Covers, now, cut, rest
  <2> QED
    BY <2>6, <2>7
<1> QED
  BY <1>6, <1>7

\* So the lengths of the buffers of a stream add up to what was submitted and not sent.
LEMMA CoversAdds ==
  ASSUME NEW queue \in Seq(UnsentBuffer), NEW s, NEW sent \in Nat, NEW total \in Nat,
         Covers(queue, s, sent, total)
  PROVE  /\ total = sent + SumFunction([j \in Mine(queue, s) |-> queue[j].length])
         /\ \A i \in Mine(queue, s) :
               queue[i].first =
                  sent + SumFunction([j \in {k \in Mine(queue, s) : k < i} |->
                                         queue[j].length]) + 1
<1> DEFINE lengths == [j \in DOMAIN queue |-> queue[j].length]
           mine == Mine(queue, s)
           Upto(n) == {i \in mine : i <= n}
           Sum(n) == SumFunctionOnSet(lengths, Upto(n))
           Reached(n) ==
              \/ Upto(n) = {} /\ Sum(n) = 0
              \/ \E i \in Upto(n) : /\ \A j \in Upto(n) : j <= i
                                    /\ Sum(n) = Ends(queue, i) - sent - 1
           Good == {n \in Nat : Reached(n)}
<1>1. IsFiniteSet(DOMAIN queue) /\ lengths \in [DOMAIN queue -> Int]
  <2>1. DOMAIN queue = 1 .. Len(queue) /\ Len(queue) \in Int /\ 1 \in Int
    OBVIOUS
  <2>2. IsFiniteSet(1 .. Len(queue))
    BY <2>1, FS_Interval
  <2>3. \A j \in DOMAIN queue : queue[j].length \in Int
    BY BufferTyped
  <2> QED
    BY <2>1, <2>2, <2>3
<1>2. \A i \in mine : /\ i \in DOMAIN queue /\ i \in Nat /\ i >= 1 /\ i <= Len(queue)
                      /\ lengths[i] = queue[i].length
                      /\ queue[i].length \in Nat /\ queue[i].first \in Nat
                      /\ Ends(queue, i) \in Nat
                      /\ Ends(queue, i) = queue[i].first + queue[i].length
  BY BufferTyped DEF Mine, Ends
<1>3. \A n : Upto(n) \in SUBSET DOMAIN queue
  BY <1>2
<1>4. SumFunctionOnSet(lengths, {}) = 0
  <2> HIDE DEF lengths
  <2> QED
    BY <1>1, SumRecursion
<1>5. ASSUME NEW n \in Nat, n + 1 \in mine
      PROVE  Sum(n + 1) = queue[n + 1].length + Sum(n) /\ Upto(n + 1) = Upto(n) \cup {n + 1}
  <2>1. /\ n + 1 \in Upto(n + 1)
        /\ Upto(n + 1) \ {n + 1} = Upto(n)
    <3>1. \A i \in mine : i \in Nat
      BY <1>2
    <3> HIDE DEF mine
    <3> QED
      BY <1>5, <3>1
  <2> DEFINE T == Upto(n + 1)
  <2>2. T \in SUBSET DOMAIN queue
    BY <1>3
  <2>3. n + 1 \in T
    BY <2>1
  <2> HIDE DEF T, lengths, mine
  <2>4. SumFunctionOnSet(lengths, T) = lengths[n + 1] + SumFunctionOnSet(lengths, T \ {n + 1})
    BY <1>1, <2>2, <2>3, SumRemove
  <2>5. lengths[n + 1] = queue[n + 1].length
    BY <1>2, <1>5
  <2> QED
    BY <2>1, <2>4, <2>5 DEF T
<1>6. 0 \in Good
  <2>1. Upto(0) = {}
    <3>1. \A i \in mine : i \in Nat /\ i >= 1
      BY <1>2
    <3> HIDE DEF mine
    <3> QED
      BY <3>1
  <2> QED
    BY <1>4, <2>1
<1> HIDE DEF lengths
<1>7. ASSUME NEW n \in Good PROVE n + 1 \in Good
  <2>1. n \in Nat /\ Reached(n)
    OBVIOUS
  <2>2. CASE n + 1 \notin mine
    <3>1. Upto(n + 1) = Upto(n)
      BY <1>2, <2>1, <2>2
    <3> HIDE DEF Upto
    <3> QED
      BY <2>1, <3>1
  <2>3. CASE n + 1 \in mine
    <3> DEFINE m == n + 1
    <3>1. Sum(m) = queue[m].length + Sum(n) /\ Upto(m) = Upto(n) \cup {m}
      BY <1>5, <2>1, <2>3
    <3>2. m \in Upto(m) /\ \A j \in Upto(m) : j <= m
      BY <2>1, <2>3
    <3>3. \A k \in mine : k <= n \/ m <= k
      BY <1>2, <2>1
    <3>4. Sum(m) = Ends(queue, m) - sent - 1
      <4>1. CASE Upto(n) = {} /\ Sum(n) = 0
        <5>1. \A k \in mine : m <= k
          BY <1>2, <3>3, <4>1
        <5>2. queue[m].first = sent + 1
          <6> HIDE DEF m
          <6> QED
            BY <2>3, <5>1 DEF Covers, m
        <5> HIDE DEF Sum, Upto, m, mine
        <5>3. Ends(queue, m) = sent + 1 + queue[m].length /\ queue[m].length \in Nat
          BY <1>2, <2>3, <5>2 DEF m
        <5> QED
          BY <3>1, <4>1, <5>3
      <4>2. ASSUME NEW i \in Upto(n), \A j \in Upto(n) : j <= i,
                   Sum(n) = Ends(queue, i) - sent - 1
            PROVE  Sum(m) = Ends(queue, m) - sent - 1
        <5>1. i \in mine /\ i < m
          BY <1>2, <2>1, <4>2
        <5>2. \A k \in mine : k <= i \/ m <= k
          BY <3>3, <4>2
        <5>3. queue[m].first = Ends(queue, i)
          <6> HIDE DEF m
          <6> QED
            BY <2>3, <5>1, <5>2 DEF Covers, m
        <5> HIDE DEF Sum, Upto, m, mine
        <5>4. /\ Ends(queue, m) = Ends(queue, i) + queue[m].length
              /\ queue[m].length \in Nat /\ Ends(queue, i) \in Nat
          BY <1>2, <2>3, <5>1, <5>3 DEF m
        <5> QED
          BY <3>1, <4>2, <5>4
      <4> QED
        BY <2>1, <4>1, <4>2
    <3> HIDE DEF Sum, Upto
    <3> QED
      BY <2>1, <3>2, <3>4
  <2> QED
    BY <2>2, <2>3
<1>8. \A n \in Nat : Reached(n)
  <2> HIDE DEF Reached
  <2>1. Good \in SUBSET Nat
    OBVIOUS
  <2> HIDE DEF Good
  <2>2. Good = Nat
    BY <1>6, <1>7, <2>1, NaturalInduction
  <2> QED
    BY <2>2 DEF Good
<1>9. \A T \in SUBSET DOMAIN queue :
         SumFunction([j \in T |-> queue[j].length]) = SumFunctionOnSet(lengths, T)
  <2> TAKE T \in SUBSET DOMAIN queue
  <2>1. [j \in T |-> queue[j].length] = [j \in T |-> lengths[j]]
    BY DEF lengths
  <2> QED
    BY <1>1, <2>1, SumOfPart
<1>10. total = sent + SumFunction([j \in mine |-> queue[j].length])
  <2> DEFINE n == Len(queue)
  <2>1. Upto(n) = mine /\ n \in Nat /\ mine \in SUBSET DOMAIN queue
    BY <1>2
  <2>2. SumFunction([j \in mine |-> queue[j].length]) = Sum(n)
    <3>1. SumFunction([j \in mine |-> queue[j].length]) = SumFunctionOnSet(lengths, mine)
      <4> HIDE DEF mine
      <4> QED
        BY <1>9, <2>1
    <3> QED
      BY <2>1, <3>1
  <2>3. Reached(n)
    BY <1>8, <2>1
  <2> HIDE DEF n
  <2>4. CASE mine = {} /\ Sum(n) = 0
    BY <2>2, <2>4 DEF Covers
  <2>5. ASSUME NEW i \in mine, \A j \in mine : j <= i, Sum(n) = Ends(queue, i) - sent - 1
        PROVE  total = sent + Sum(n)
    <3>1. Ends(queue, i) = total + 1
      BY <2>5 DEF Covers
    <3> HIDE DEF Sum
    <3> QED
      BY <2>5, <3>1
  <2> QED
    BY <2>1, <2>2, <2>3, <2>4, <2>5
<1>11. ASSUME NEW i \in mine
       PROVE  queue[i].first =
                 sent + SumFunction([j \in {k \in mine : k < i} |-> queue[j].length]) + 1
  <2> DEFINE n == i - 1
             T == {k \in mine : k < i}
  <2>1. Upto(n) = T /\ n \in Nat /\ T \in SUBSET DOMAIN queue
    BY <1>2
  <2>2. SumFunction([j \in T |-> queue[j].length]) = Sum(n)
    <3>1. SumFunction([j \in T |-> queue[j].length]) = SumFunctionOnSet(lengths, T)
      <4> HIDE DEF T
      <4> QED
        BY <1>9, <2>1
    <3> QED
      BY <2>1, <3>1
  <2>3. Reached(n)
    BY <1>8, <2>1
  <2>4. ASSUME T = {}, Sum(n) = 0 PROVE queue[i].first = sent + Sum(n) + 1
    <3>1. \A k \in mine : i <= k
      BY <1>2, <2>4
    <3>2. queue[i].first = sent + 1
      BY <3>1 DEF Covers
    <3> HIDE DEF Sum
    <3> QED
      BY <2>4, <3>2
  <2>5. ASSUME NEW h \in T, \A j \in T : j <= h, Sum(n) = Ends(queue, h) - sent - 1
        PROVE  queue[i].first = sent + Sum(n) + 1
    <3>1. h \in mine /\ h < i /\ \A k \in mine : k <= h \/ i <= k
      BY <1>2, <2>5
    <3>2. queue[i].first = Ends(queue, h)
      BY <3>1 DEF Covers
    <3>3. Ends(queue, h) \in Nat
      BY <1>2, <3>1
    <3> HIDE DEF Sum
    <3> QED
      BY <2>5, <3>2, <3>3
  <2> HIDE DEF Sum, n, T, Upto
  <2>6. queue[i].first = sent + Sum(n) + 1
    BY <2>1, <2>3, <2>4, <2>5
  <2>7. SumFunction([j \in T |-> queue[j].length]) = Sum(n)
    BY <2>2
  <2> QED
    BY <2>6, <2>7 DEF T
<1> QED
  BY <1>10, <1>11

-----------------------------------------------------------------------------
(* The inductive invariant of delivery.                                    *)

\* A stream that is not in use holds nothing, whatever limits it was given; handlers,
\* buffers and applications know streams in use only.
UnusedIsFresh ==
  \A p \in Peer :
    /\ current[p] \in usedStreamID[p] \cup {NoStream}
    /\ \A i \in DOMAIN unsentBuf[p] : unsentBuf[p][i].stream \in usedStreamID[p]
    /\ \A s \in StreamID \ usedStreamID[p] :
          /\ streams[p][s].offset = 0
          /\ streams[p][s].expOffset = 0
          /\ streams[p][s].buffered = {}
          /\ submitted[p][s] = 0
          /\ delivered[p][s] = <<>>

\* The waiting buffers hold what was submitted and not sent.
BuffersCover ==
  \A p \in Peer, s \in StreamID :
      Covers(unsentBuf[p], s, streams[p][s].offset, submitted[p][s])

\* A STREAM frame is of what was sent, and its bytes are those its offset says.
FramesSent ==
  \A p \in Peer : \A pkt \in issued[p] :
      pkt.frame.type = "STREAM" =>
          /\ pkt.frame.stream \in usedStreamID[p]
          /\ pkt.frame.first = pkt.frame.offset + 1
          /\ pkt.frame.offset + pkt.frame.length <= streams[p][pkt.frame.stream].offset

\* The callback was given the bytes before expOffset, and the frames that wait in a
\* stream's buffer are frames of that stream.
FramesHeld ==
  \A p \in Peer, s \in StreamID :
    /\ Len(delivered[p][s]) = streams[p][s].expOffset
    /\ \A frame \in streams[p][s].buffered :
          frame.stream = s /\ \E pkt \in issued[Other(p)] : pkt.frame = frame

\* The invariant of delivery.
DeliveryInv == /\ UnusedIsFresh
               /\ BuffersCover
               /\ FramesSent
               /\ FramesHeld
               /\ RecordedIsKept

\* The state of the streams that delivery depends on.
SamePart(p, s) ==
  /\ streams'[p][s].offset = streams[p][s].offset
  /\ streams'[p][s].expOffset = streams[p][s].expOffset
  /\ streams'[p][s].buffered = streams[p][s].buffered

\* No STREAM packet is added to those issued, and none to those recorded.
NoDataMoves ==
  /\ \A p \in Peer : issued[p] \subseteq issued'[p]
  /\ \A p \in Peer : \A pkt \in issued'[p] :
        pkt.frame.type = "STREAM" =>
            /\ pkt \in issued[p]
            /\ pkt.pktNum \in recPktNum'[Other(p)] => pkt.pktNum \in recPktNum[Other(p)]

\* What most steps do to delivery: nothing, but for streams that come into use.
Neutral ==
  /\ UNCHANGED <<unsentBuf, submitted, delivered>>
  /\ \A p \in Peer : /\ usedStreamID[p] \subseteq usedStreamID'[p]
                     /\ current'[p] \in {current[p], NoStream}
  /\ \A p \in Peer, s \in StreamID : SamePart(p, s)
  /\ NoDataMoves

\* A packet with a STREAM frame.
LEMMA IssuedFrame ==
  ASSUME TypeOK, NEW p \in Peer, NEW pkt \in issued[p], pkt.frame.type = "STREAM"
  PROVE  /\ pkt.frame \in StreamFrame
         /\ pkt.frame.stream \in StreamID
         /\ pkt.frame.offset \in Nat /\ pkt.frame.length \in Nat
         /\ pkt.frame.first \in Nat
<1>1. pkt.frame \in Frame
  BY DEF TypeOK, Packet
<1>2. pkt.frame \in StreamFrame
  BY <1>1, StreamFrameAssumption DEF Frame, StreamFrame, LimitFrame, ResetFrame
<1> QED
  BY <1>2, SizeAssumption DEF StreamFrame

\* The parts of a stream are what they are for.
LEMMA StreamTyped ==
  ASSUME StreamTypeOK, NEW p \in Peer, NEW s \in StreamID
  PROVE  /\ streams[p][s] \in Stream
         /\ streams[p][s].offset \in Nat /\ streams[p][s].expOffset \in Nat
         /\ streams[p][s].buffered \subseteq StreamFrame
         /\ submitted[p][s] \in Nat
         /\ delivered[p][s] \in Seq(Nat)
         /\ unsentBuf[p] \in Seq(UnsentBuffer)
BY DEF StreamTypeOK, TransportTypeOK, HistoryTypeOK, Stream

\* A step that changes only limits and streams that come into use keeps what is said
\* of frames.
LEMMA SamePartsKeepFrames ==
  ASSUME FramesSent, FramesHeld, RecordedIsKept, TypeOK, TypeOK', NoDataMoves,
         UNCHANGED delivered,
         \A p \in Peer : usedStreamID[p] \subseteq usedStreamID'[p],
         \A p \in Peer, s \in StreamID : SamePart(p, s)
  PROVE  FramesSent' /\ FramesHeld' /\ RecordedIsKept'
<1> USE OtherPeer
<1>1. FramesSent'
  <2> SUFFICES ASSUME NEW p \in Peer, NEW pkt \in issued'[p], pkt.frame.type = "STREAM"
               PROVE  /\ pkt.frame.stream \in usedStreamID'[p]
                      /\ pkt.frame.first = pkt.frame.offset + 1
                      /\ pkt.frame.offset + pkt.frame.length
                             <= streams'[p][pkt.frame.stream].offset
    BY DEF FramesSent
  <2>1. pkt \in issued[p]
    BY DEF NoDataMoves
  <2>2. pkt.frame.stream \in StreamID
    BY <2>1, IssuedFrame
  <2> QED
    BY <2>1, <2>2 DEF FramesSent, SamePart
<1>2. FramesHeld'
  BY DEF FramesHeld, SamePart, NoDataMoves
<1>3. RecordedIsKept'
  <2> SUFFICES ASSUME NEW p \in Peer, NEW pkt \in issued'[Other(p)],
                      HaveReceivedPkt(p, pkt)', pkt.frame.type = "STREAM"
               PROVE  \/ pkt.frame \in streams'[p][pkt.frame.stream].buffered
                      \/ pkt.frame.offset + pkt.frame.length
                             <= streams'[p][pkt.frame.stream].expOffset
    BY DEF RecordedIsKept
  <2>1. pkt \in issued[Other(p)] /\ HaveReceivedPkt(p, pkt)
    BY DEF NoDataMoves, HaveReceivedPkt
  <2>2. pkt.frame.stream \in StreamID
    BY <2>1, IssuedFrame
  <2> QED
    BY <2>1, <2>2 DEF RecordedIsKept, SamePart
<1> QED
  BY <1>1, <1>2, <1>3

\* A neutral step keeps the invariant.
LEMMA NeutralKeepsDelivery ==
  ASSUME DeliveryInv, TypeOK, TypeOK', Neutral
  PROVE  DeliveryInv'
<1>1. UnusedIsFresh'
  BY DEF DeliveryInv, UnusedIsFresh, Neutral, SamePart
<1>2. BuffersCover'
  BY DEF DeliveryInv, BuffersCover, Neutral, SamePart
<1>3. FramesSent' /\ FramesHeld' /\ RecordedIsKept'
  BY SamePartsKeepFrames DEF DeliveryInv, Neutral
<1> QED
  BY <1>1, <1>2, <1>3 DEF DeliveryInv

\* Packets with other frames are queued,
LEMMA OtherFrameQueued ==
  ASSUME TypeOK, NEW p \in Peer, NEW frame, frame.type # "STREAM", UNCHANGED recPktNum,
         AddPacket(p, frame) \/ AddPacketToFront(p, frame)
  PROVE  NoDataMoves
<1>1. issued' = [issued EXCEPT ![p] = @ \cup {NewPacket(p, frame)}]
  BY DEF AddPacket, AddPacketToFront, Enqueue
<1>2. \A q \in Peer : issued[q] \subseteq issued'[q]
  BY <1>1 DEF TypeOK
<1>3. \A q \in Peer : \A pkt \in issued'[q] : pkt.frame.type = "STREAM" => pkt \in issued[q]
  BY IssuedPackets
<1> QED
  BY <1>2, <1>3 DEF NoDataMoves

\* and read.
LEMMA OtherFrameRead ==
  ASSUME PacketInv, NEW p \in Peer, NEW pkt \in inFlight[p], pkt.frame.type # "STREAM",
         ReceivePacket(p, pkt)
  PROVE  NoDataMoves
<1> USE OtherPeer
<1>1. /\ issued' = issued
      /\ recPktNum' = [recPktNum EXCEPT ![p] = @ \cup {pkt.pktNum}]
  BY DEF ReceivePacket, RecordPacket
<1>2. pkt \in issued[Other(p)]
  BY DEF PacketInv, KnownPackets
<1>3. \A x \in issued[Other(p)] : x.frame.type = "STREAM" => x.pktNum # pkt.pktNum
  BY <1>2 DEF PacketInv, NumberNamesOnePacket
<1>4. ASSUME NEW q \in Peer, NEW x \in issued[q], x.frame.type = "STREAM",
             x.pktNum \in recPktNum'[Other(q)]
      PROVE  x.pktNum \in recPktNum[Other(q)]
  <2>1. recPktNum \in [Peer -> SUBSET PktNum]
    BY DEF PacketInv, TypeOK
  <2>2. CASE Other(q) = p
    BY <1>1, <1>3, <1>4, <2>1, <2>2
  <2>3. CASE Other(q) # p
    BY <1>1, <1>4, <2>1, <2>3
  <2> QED
    BY <2>2, <2>3
<1> QED
  BY <1>1, <1>4 DEF NoDataMoves

\* A stream that comes into use is as fresh as it was, and none in use is lost.
LEMMA FoundFresh ==
  ASSUME UnusedIsFresh, NEW p \in Peer, NEW s \in StreamID
  PROVE  /\ FoundStream(p, s).offset = streams[p][s].offset
         /\ FoundStream(p, s).expOffset = streams[p][s].expOffset
         /\ FoundStream(p, s).buffered = streams[p][s].buffered
BY NewStreamEmpty DEF FoundStream, UnusedIsFresh

\* One stream of p takes another value that is the same to delivery.
LEMMA OnePartSame ==
  ASSUME StreamTypeOK, NEW p \in Peer, NEW s \in StreamID, NEW st,
         streams' = [streams EXCEPT ![p][s] = st],
         st.offset = streams[p][s].offset,
         st.expOffset = streams[p][s].expOffset,
         st.buffered = streams[p][s].buffered
  PROVE  \A q \in Peer, t \in StreamID : SamePart(q, t)
<1>1. streams \in [Peer -> [StreamID -> Stream]]
  BY DEF StreamTypeOK, TransportTypeOK
<1>2. \A q \in Peer, t \in StreamID :
         streams'[q][t] = IF q = p /\ t = s THEN st ELSE streams[q][t]
  BY <1>1
<1> QED
  BY <1>2 DEF SamePart

\* A limit of one stream changes.
LEMMA LimitOfPartSame ==
  ASSUME StreamTypeOK, NEW p \in Peer, NEW s \in StreamID, NEW n,
         \/ streams' = [streams EXCEPT ![p][s].maxRecv = n]
         \/ streams' = [streams EXCEPT ![p][s].maxSend = n]
  PROVE  \A q \in Peer, t \in StreamID : SamePart(q, t)
<1> DEFINE st == streams[p][s]
<1>1. st \in Stream
  BY DEF StreamTypeOK, TransportTypeOK
<1>2. PICK new : /\ new = [st EXCEPT !.maxRecv = n] \/ new = [st EXCEPT !.maxSend = n]
                 /\ streams' = [streams EXCEPT ![p][s] = new]
  OBVIOUS
<1>3. new.offset = st.offset /\ new.expOffset = st.expOffset /\ new.buffered = st.buffered
  BY <1>1, <1>2 DEF Stream
<1> QED
  BY <1>2, <1>3, OnePartSame

\* The steps that are neutral to delivery.
LEMMA OpeningIsNeutral ==
  ASSUME StreamTypeOK, UnusedIsFresh, EntriesKept, NEW p \in Peer,
         NEW bidirectional \in BOOLEAN, CreateStream(p, bidirectional)
  PROVE  Neutral
<1> DEFINE id(index) == GeneratedID(index, StreamType(p, bidirectional))
<1>1. PICK index \in StreamID :
          /\ id(index) \notin usedStreamID[p]
          /\ usedStreamID' = [usedStreamID EXCEPT ![p] = @ \cup {id(index)}]
          /\ streams' = [streams EXCEPT ![p][index] = NewStream]
  BY DEF CreateStream
<1> HIDE DEF id
<1>2. /\ streams \in [Peer -> [StreamID -> Stream]]
      /\ usedStreamID \in [Peer -> SUBSET StreamID]
  BY DEF StreamTypeOK, TransportTypeOK
<1>3. usedStreamID'[p] # usedStreamID[p] /\ streams'[p][index] = NewStream
  BY <1>1, <1>2
<1>4. NewStream = streams[p][index] \/ index \notin usedStreamID[p]
  BY <1>3 DEF EntriesKept
<1>5. /\ NewStream.offset = streams[p][index].offset
      /\ NewStream.expOffset = streams[p][index].expOffset
      /\ NewStream.buffered = streams[p][index].buffered
  BY <1>4, NewStreamEmpty DEF UnusedIsFresh
<1>6. \A q \in Peer, t \in StreamID : SamePart(q, t)
  BY <1>1, <1>5, OnePartSame
<1>7. UNCHANGED <<unsentBuf, submitted, delivered, current, issued, recPktNum>>
  BY DEF CreateStream, handlerVars, historyVars, vars, connectionVars
<1> QED
  BY <1>1, <1>2, <1>6, <1>7 DEF Neutral, NoDataMoves

\* Reading a frame that holds no data,
LEMMA ReadingIsNeutral ==
  ASSUME StreamTypeOK, PacketInv, UnusedIsFresh, NEW p \in Peer,
         NEW pkt \in inFlight[p], Receive(p, pkt), ~ReceiveStream(p, pkt)
  PROVE  Neutral
<1> DEFINE s == pkt.frame.stream
<1>1. usedStreamID \in [Peer -> SUBSET StreamID]
  BY DEF StreamTypeOK, TransportTypeOK
<1>2. CASE ReceiveOverLimit(p, pkt)
  <2>1. s \in StreamID
    BY <1>2, FrameRead DEF StreamTypeOK, ReceiveOverLimit, StreamFrame
  <2>2. /\ streams' = [streams EXCEPT ![p][s] = FoundStream(p, s)]
        /\ usedStreamID' = [usedStreamID EXCEPT ![p] = @ \cup {s}]
        /\ UNCHANGED <<unsentBuf, submitted, delivered, current, issued, recPktNum>>
    BY <1>2 DEF ReceiveOverLimit, InsertStream, historyVars, vars, connectionVars
  <2>3. \A q \in Peer, t \in StreamID : SamePart(q, t)
    <3> HIDE DEF s
    <3> QED
      BY <2>1, <2>2, FoundFresh, OnePartSame
  <2> QED
    BY <1>1, <2>2, <2>3 DEF Neutral, NoDataMoves
<1>3. CASE ReceiveMaxData(p, pkt) \/ ReceiveDataBlocked(p, pkt)
  <2>1. NoDataMoves
    BY <1>3, OtherFrameRead DEF ReceiveMaxData, ReceiveDataBlocked
  <2>2. UNCHANGED <<streams, usedStreamID, unsentBuf, submitted, delivered, current>>
    BY <1>3 DEF ReceiveMaxData, ReceiveDataBlocked, handlerVars, historyVars
  <2> QED
    BY <2>1, <2>2 DEF Neutral, SamePart
<1>4. CASE ReceiveMaxStreamData(p, pkt) \/ ReceiveStreamDataBlocked(p, pkt)
  <2>1. NoDataMoves
    BY <1>4, OtherFrameRead DEF ReceiveMaxStreamData, ReceiveStreamDataBlocked
  <2>2. UNCHANGED <<usedStreamID, unsentBuf, submitted, delivered, current>>
    BY <1>4 DEF ReceiveMaxStreamData, ReceiveStreamDataBlocked, handlerVars, historyVars
  <2>3. s \in StreamID
    BY <1>4, LimitStream DEF StreamTypeOK, ReceiveMaxStreamData, ReceiveStreamDataBlocked
  <2>4. PICK n : \/ streams' = [streams EXCEPT ![p][s].maxRecv = n]
                 \/ streams' = [streams EXCEPT ![p][s].maxSend = n]
    BY <1>4 DEF ReceiveMaxStreamData, ReceiveStreamDataBlocked
  <2> HIDE DEF s
  <2>5. \A q \in Peer, t \in StreamID : SamePart(q, t)
    BY <2>3, <2>4, LimitOfPartSame
  <2> QED
    BY <2>1, <2>2, <2>5 DEF Neutral
<1> QED
  BY <1>2, <1>3, <1>4 DEF Receive

\* and the end of a handler, or a step of the packets, change nothing delivery depends on.
LEMMA EndingIsNeutral ==
  ASSUME StreamTypeOK, NEW p \in Peer,
         RaiseLimits(p) \/ QueueReply(p) \/ PassStep(p)
  PROVE  Neutral
<1>1. CASE RaiseLimits(p)
  <2>1. /\ current' = [current EXCEPT ![p] = NoStream]
        /\ current \in [Peer -> StreamID \cup {NoStream}]
        /\ current[p] # NoStream
    BY <1>1 DEF RaiseLimits, StreamTypeOK, TransportTypeOK
  <2>2. current[p] \in StreamID /\ \A q \in Peer : current'[q] \in {current[q], NoStream}
    BY <2>1
  <2>3. UNCHANGED <<usedStreamID, unsentBuf, submitted, delivered, issued, recPktNum>>
    BY <1>1 DEF RaiseLimits, historyVars, vars, connectionVars
  <2>4. CASE UNCHANGED streams
    BY <2>2, <2>3, <2>4 DEF Neutral, SamePart, NoDataMoves
  <2>5. ASSUME NEW n, streams' = [streams EXCEPT ![p][current[p]].maxRecv = n]
        PROVE  Neutral
    <3> DEFINE s == current[p]
    <3>1. \A q \in Peer, t \in StreamID : SamePart(q, t)
      <4>1. s \in StreamID /\ streams' = [streams EXCEPT ![p][s].maxRecv = n]
        BY <2>2, <2>5
      <4> HIDE DEF s
      <4> QED
        BY <4>1, LimitOfPartSame
    <3> QED
      BY <2>2, <2>3, <3>1 DEF Neutral, NoDataMoves
  <2> QED
    BY <1>1, <2>4, <2>5 DEF RaiseLimits
<1>2. CASE QueueReply(p)
  <2>1. AddPacket(p, Head(replies[p])) /\ UNCHANGED recPktNum /\ replies[p] # <<>>
    BY <1>2 DEF QueueReply, QueuePacket
  <2>2. Head(replies[p]) \in Reply
    BY <2>1 DEF StreamTypeOK, TransportTypeOK
  <2>3. Head(replies[p]).type # "STREAM"
    BY <2>2 DEF Reply
  <2>4. NoDataMoves
    BY <2>1, <2>3, OtherFrameQueued DEF StreamTypeOK
  <2> QED
    BY <1>2, <2>4 DEF QueueReply, historyVars, Neutral, SamePart
<1>3. CASE PassStep(p)
  <2>1. UNCHANGED <<streams, usedStreamID, unsentBuf, submitted, delivered, current>>
    BY <1>3 DEF PassStep, streamVars, handlerVars, historyVars
  <2>2. UNCHANGED recPktNum
    BY <1>3 DEF PassStep, ReceiveAck, StartSending, Probe, SkipAcked, SendFront,
       AckAndRetransmit, connectionVars
  <2>3. CASE issued' = issued
    BY <2>1, <2>2, <2>3 DEF Neutral, SamePart, NoDataMoves
  <2>4. CASE Probe(p)
    <3>1. AddPacketToFront(p, Ping) /\ Ping.type # "STREAM"
      BY <2>4, StreamFrameAssumption DEF Probe
    <3>2. NoDataMoves
      BY <2>2, <3>1, OtherFrameQueued DEF StreamTypeOK
    <3> QED
      BY <2>1, <3>2 DEF Neutral, SamePart
  <2>5. issued' = issued \/ Probe(p)
    BY <1>3 DEF PassStep, ReceiveAck, StartSending, SkipAcked, SendFront, AckAndRetransmit
  <2> QED
    BY <2>3, <2>4, <2>5
<1> QED
  BY <1>1, <1>2, <1>3

-----------------------------------------------------------------------------
(* Sending.                                                                *)

\* A frame takes the beginning of the first buffer of `queue`.
Cuts(p, queue) ==
  /\ queue # <<>>
  /\ unsentBuf' = [unsentBuf EXCEPT ![p] = AfterChunk(queue)]
  /\ streams' = [streams EXCEPT ![p][Head(queue).stream].offset = @ + ChunkLength(queue)]
  /\ issued' = [issued EXCEPT ![p] = @ \cup {NewPacket(p, DataFrame(p, queue))}]

\* No frame does.
Keeps(p, queue) ==
  /\ unsentBuf' = [unsentBuf EXCEPT ![p] = queue]
  /\ UNCHANGED streams
  /\ NoDataMoves

\* What GetPktFromUnsentBuf does to the buffers and the packets.
LEMMA TakingEffect ==
  ASSUME StreamTypeOK, NEW p \in Peer, NEW queue, UNCHANGED recPktNum,
         \/ /\ TakeChunk(p, queue)
            /\ AddPacket(p, DataFrame(p, queue))
         \/ /\ AskForCredit(p, queue)
            /\ AddPacket(p, CreditRequest(p, queue))
         \/ LeaveWaiting(p, queue) /\ UNCHANGED issued
  PROVE  Cuts(p, queue) \/ Keeps(p, queue)
<1>1. CASE TakeChunk(p, queue) /\ AddPacket(p, DataFrame(p, queue))
  BY <1>1 DEF TakeChunk, AddPacket, Enqueue, Cuts
<1>2. CASE AskForCredit(p, queue) /\ AddPacket(p, CreditRequest(p, queue))
  <2>1. CreditRequest(p, queue).type # "STREAM"
    BY DEF CreditRequest
  <2>2. NoDataMoves
    BY <1>2, <2>1, OtherFrameQueued DEF StreamTypeOK
  <2> QED
    BY <1>2, <2>2 DEF AskForCredit, Keeps
<1>3. CASE LeaveWaiting(p, queue) /\ UNCHANGED issued
  BY <1>3 DEF LeaveWaiting, Keeps, NoDataMoves
<1> QED
  BY <1>1, <1>2, <1>3

\* The buffers a step looks at, the one just submitted among them, are of streams in
\* use, and hold what was submitted and not sent.
LEMMA SendingEffect ==
  ASSUME StreamTypeOK, UnusedIsFresh, BuffersCover, NEW p \in Peer,
         \/ \E s \in StreamID, length \in Sizes, fin \in Fins :
                SendData(p, s, length, fin)
         \/ FinishPass(p)
  PROVE  /\ UNCHANGED <<usedStreamID, current, delivered, recPktNum>>
         /\ \A q \in Peer, s \in StreamID :
               q # p \/ s \notin usedStreamID[q] => submitted'[q][s] = submitted[q][s]
         /\ \A s \in StreamID : submitted[p][s] <= submitted'[p][s]
         /\ \E queue \in Seq(UnsentBuffer) :
               /\ \A s \in StreamID :
                     /\ submitted'[p][s] \in Nat
                     /\ Covers(queue, s, streams[p][s].offset, submitted'[p][s])
               /\ \A i \in DOMAIN queue : queue[i].stream \in usedStreamID[p]
               /\ Cuts(p, queue) \/ Keeps(p, queue)
<1>1. /\ unsentBuf[p] \in Seq(UnsentBuffer)
      /\ \A s \in StreamID : streams[p][s].offset \in Nat /\ submitted[p][s] \in Nat
      /\ submitted \in [Peer -> [StreamID -> Nat]]
  <2>1. submitted \in [Peer -> [StreamID -> Nat]] /\ unsentBuf[p] \in Seq(UnsentBuffer)
    BY DEF StreamTypeOK, TransportTypeOK, HistoryTypeOK
  <2>2. \A s \in StreamID : streams[p][s].offset \in Nat /\ submitted[p][s] \in Nat
    BY StreamTyped
  <2> QED
    BY <2>1, <2>2
<1>2. /\ \A i \in DOMAIN unsentBuf[p] : unsentBuf[p][i].stream \in usedStreamID[p]
      /\ \A s \in StreamID : Covers(unsentBuf[p], s, streams[p][s].offset, submitted[p][s])
  BY DEF UnusedIsFresh, BuffersCover
<1>3. ASSUME NEW s \in StreamID, NEW length \in Sizes, NEW fin \in Fins,
             SendData(p, s, length, fin)
      PROVE  /\ UNCHANGED <<usedStreamID, current, delivered, recPktNum>>
             /\ \A q \in Peer, t \in StreamID :
                   q # p \/ t \notin usedStreamID[q] => submitted'[q][t] = submitted[q][t]
             /\ \A t \in StreamID : submitted[p][t] <= submitted'[p][t]
             /\ \E queue \in Seq(UnsentBuffer) :
                   /\ \A t \in StreamID :
                         /\ submitted'[p][t] \in Nat
                         /\ Covers(queue, t, streams[p][t].offset, submitted'[p][t])
                   /\ \A i \in DOMAIN queue : queue[i].stream \in usedStreamID[p]
                   /\ Cuts(p, queue) \/ Keeps(p, queue)
  <2> DEFINE buf == [stream |-> s, first |-> submitted[p][s] + 1, length |-> length,
                     fin |-> fin]
             queue == Append(unsentBuf[p], buf)
  <2>1. /\ buf \in UnsentBuffer
        /\ buf.stream = s /\ buf.first = submitted[p][s] + 1 /\ buf.length = length
        /\ length \in Nat
    BY <1>1, SizeAssumption DEF UnsentBuffer
  <2>2. /\ UNCHANGED <<usedStreamID, current, delivered, recPktNum>>
        /\ submitted' = [submitted EXCEPT ![p][s] = @ + length]
        /\ s \in usedStreamID[p]
    BY <1>3 DEF SendData, handlerVars, QueuePacket, vars, connectionVars
  <2>3. \/ /\ TakeChunk(p, queue)
           /\ AddPacket(p, DataFrame(p, queue))
        \/ /\ AskForCredit(p, queue)
           /\ AddPacket(p, CreditRequest(p, queue))
        \/ LeaveWaiting(p, queue) /\ UNCHANGED issued
    BY <1>3 DEF SendData, QueuePacket, vars
  <2> HIDE DEF buf
  <2>4. queue \in Seq(UnsentBuffer)
    BY <1>1, <2>1
  <2>5. \A i \in DOMAIN queue : queue[i].stream \in usedStreamID[p]
    BY <1>1, <1>2, <2>1, <2>2
  <2>6. \A q \in Peer, t \in StreamID :
           submitted'[q][t] = IF q = p /\ t = s THEN submitted[p][s] + length
                              ELSE submitted[q][t]
    BY <1>1, <2>2
  <2>7. \A t \in StreamID : Covers(queue, t, streams[p][t].offset, submitted'[p][t])
    <3> TAKE t \in StreamID
    <3>1. Covers(queue, t, streams[p][t].offset,
                 IF buf.stream = t THEN submitted[p][t] + buf.length ELSE submitted[p][t])
      <4>1. buf.stream = t => buf.first = submitted[p][t] + 1
        BY <2>1
      <4>2. Covers(unsentBuf[p], t, streams[p][t].offset, submitted[p][t])
        BY <1>2
      <4>3. streams[p][t].offset \in Nat /\ submitted[p][t] \in Nat
        BY <1>1
      <4> QED
        BY <1>1, <2>1, <4>1, <4>2, <4>3, CoversAppended
    <3>2. submitted'[p][t] = IF buf.stream = t THEN submitted[p][t] + buf.length
                             ELSE submitted[p][t]
      BY <2>1, <2>6
    <3> QED
      BY <3>1, <3>2
  <2> HIDE DEF queue
  <2>8. Cuts(p, queue) \/ Keeps(p, queue)
    BY <2>2, <2>3, TakingEffect
  <2>9. \A t \in StreamID : /\ submitted'[p][t] \in Nat
                            /\ submitted[p][t] <= submitted'[p][t]
    BY <1>1, <2>1, <2>6
  <2>10. \A q \in Peer, t \in StreamID :
            q # p \/ t \notin usedStreamID[q] => submitted'[q][t] = submitted[q][t]
    BY <2>2, <2>6
  <2> QED
    BY <2>2, <2>4, <2>5, <2>7, <2>8, <2>9, <2>10
<1>4. CASE FinishPass(p)
  <2> DEFINE queue == unsentBuf[p]
  <2>1. /\ UNCHANGED <<usedStreamID, current, delivered, recPktNum, submitted>>
        /\ \/ /\ TakeChunk(p, queue)
              /\ AddPacket(p, DataFrame(p, queue))
           \/ /\ AskForCredit(p, queue)
              /\ AddPacket(p, CreditRequest(p, queue))
           \/ LeaveWaiting(p, queue) /\ UNCHANGED issued
    BY <1>4 DEF FinishPass, EndPass, EndPassWithPacket, handlerVars, historyVars,
       connectionVars
  <2>2. Cuts(p, queue) \/ Keeps(p, queue)
    BY <2>1, TakingEffect
  <2> QED
    BY <1>1, <1>2, <2>1, <2>2
<1> QED
  BY <1>3, <1>4

\* What is left of the buffers is of the streams they were of.
LEMMA CutStreams ==
  ASSUME NEW queue \in Seq(UnsentBuffer), queue # <<>>
  PROVE  \A i \in DOMAIN AfterChunk(queue) : \E j \in DOMAIN queue :
            AfterChunk(queue)[i].stream = queue[j].stream
<1> DEFINE sent == ChunkLength(queue)
<1>1. CASE AfterChunk(queue) = Tail(queue)
  BY <1>1
<1>2. CASE AfterChunk(queue) = [queue EXCEPT ![1].length = @ - sent, ![1].first = @ + sent]
  <2>1. 1 \in DOMAIN queue /\ queue[1] \in UnsentBuffer
    OBVIOUS
  <2> DEFINE buf == [queue[1] EXCEPT !.length = @ - sent, !.first = @ + sent]
  <2>2. AfterChunk(queue) = [queue EXCEPT ![1] = buf] /\ buf.stream = queue[1].stream
    BY <1>2, <2>1 DEF UnsentBuffer
  <2> HIDE DEF buf
  <2> QED
    BY <2>1, <2>2
<1> QED
  BY <1>1, <1>2 DEF AfterChunk

\* SendData and the end of a pass keep the invariant.
LEMMA SendingKeepsDelivery ==
  ASSUME StreamTypeOK, StreamTypeOK', PacketInv, DeliveryInv, NEW p \in Peer,
         \/ \E s \in StreamID, length \in Sizes, fin \in Fins :
                SendData(p, s, length, fin)
         \/ FinishPass(p)
  PROVE  DeliveryInv'
<1> USE OtherPeer DEF DeliveryInv
<1>1. /\ UNCHANGED <<usedStreamID, current, delivered, recPktNum>>
      /\ \A q \in Peer, s \in StreamID :
            q # p \/ s \notin usedStreamID[q] => submitted'[q][s] = submitted[q][s]
  BY SendingEffect
<1>2. PICK queue \in Seq(UnsentBuffer) :
         /\ \A s \in StreamID :
               /\ submitted'[p][s] \in Nat
               /\ Covers(queue, s, streams[p][s].offset, submitted'[p][s])
         /\ \A i \in DOMAIN queue : queue[i].stream \in usedStreamID[p]
         /\ Cuts(p, queue) \/ Keeps(p, queue)
  BY SendingEffect
<1>3. /\ unsentBuf \in [Peer -> Seq(UnsentBuffer)]
      /\ streams \in [Peer -> [StreamID -> Stream]]
      /\ usedStreamID \in [Peer -> SUBSET StreamID]
      /\ issued \in [Peer -> SUBSET Packet]
      /\ TypeOK /\ TypeOK'
  BY DEF StreamTypeOK, TransportTypeOK, TypeOK
<1>4. CASE Keeps(p, queue)
  <2>1. \A q \in Peer : unsentBuf'[q] = IF q = p THEN queue ELSE unsentBuf[q]
    BY <1>3, <1>4 DEF Keeps
  <2>2. \A q \in Peer, s \in StreamID : SamePart(q, s)
    BY <1>4 DEF Keeps, SamePart
  <2>3. UnusedIsFresh'
    <3>1. \A i \in DOMAIN unsentBuf'[p] : unsentBuf'[p][i].stream \in usedStreamID[p]
      BY <1>2, <2>1
    <3>2. \A q \in Peer : q # p => unsentBuf'[q] = unsentBuf[q]
      BY <2>1
    <3> QED
      BY <1>1, <2>2, <3>1, <3>2 DEF UnusedIsFresh, SamePart
  <2>4. BuffersCover'
    BY <1>1, <1>2, <2>1, <2>2 DEF BuffersCover, SamePart
  <2>5. FramesSent' /\ FramesHeld' /\ RecordedIsKept'
    BY <1>1, <1>3, <1>4, <2>2, SamePartsKeepFrames DEF Keeps
  <2> QED
    BY <2>3, <2>4, <2>5
<1>5. CASE Cuts(p, queue)
  <2> DEFINE s == Head(queue).stream
             length == ChunkLength(queue)
             now == streams[p][s].offset + length
             frame == DataFrame(p, queue)
             new == NewPacket(p, frame)
             rest == AfterChunk(queue)
  <2>1. queue # <<>> /\ Head(queue) = queue[1] /\ 1 \in DOMAIN queue
    BY <1>5 DEF Cuts
  <2>2. s \in StreamID /\ length \in Nat /\ s \in usedStreamID[p]
    BY <1>2, <2>1, CuttingTyped
  <2>3. Head(queue).first = streams[p][s].offset + 1 /\ streams[p][s].offset \in Nat
    <3>1. streams[p][s].offset \in Nat
      BY <2>2, StreamTyped
    <3> QED
      BY <1>2, <2>1, <2>2, <3>1, CoversHead
  <2>4. /\ frame.type = "STREAM" /\ frame.stream = s
        /\ frame.first = frame.offset + 1
        /\ frame.offset = streams[p][s].offset
        /\ frame.offset + frame.length = now
    BY <2>3 DEF DataFrame
  <2>5. /\ new.pktNum = nowPktNum[p] + 1 /\ new.frame = frame
        /\ \A q \in Peer : issued'[q] = IF q = p THEN issued[p] \cup {new} ELSE issued[q]
    BY <1>3, <1>5 DEF NewPacket, Cuts
  <2>6. new.pktNum \notin recPktNum'[Other(p)]
    <3>1. \A n \in recPktNum[Other(p)] : n <= nowPktNum[p]
      BY DEF PacketInv, KnownPackets
    <3>2. nowPktNum[p] \in Nat
      BY BoundAssumption DEF PacketInv, TypeOK
    <3> QED
      BY <1>1, <2>5, <3>1, <3>2
  <2> HIDE DEF frame, new
  <2>7. /\ \A q \in Peer, t \in StreamID :
              /\ streams'[q][t].expOffset = streams[q][t].expOffset
              /\ streams'[q][t].buffered = streams[q][t].buffered
              /\ streams'[q][t].offset = IF q = p /\ t = s THEN now
                                         ELSE streams[q][t].offset
    <3>1. streams' = [streams EXCEPT ![p][s].offset = now]
      BY <1>5 DEF Cuts
    <3> HIDE DEF s, now
    <3>2. streams'[p][s].offset = now
      BY <1>3, <2>2, <3>1 DEF Stream
    <3> QED
      BY <1>3, <2>2, <3>1, <3>2, FieldChanged
  <2>8. \A q \in Peer : unsentBuf'[q] = IF q = p THEN rest ELSE unsentBuf[q]
    BY <1>3, <1>5 DEF Cuts
  <2>9. UnusedIsFresh'
    <3>1. \A i \in DOMAIN rest : rest[i].stream \in usedStreamID[p]
      BY <1>2, <2>1, CutStreams
    <3> HIDE DEF s, rest, now
    <3> QED
      BY <1>1, <2>2, <2>7, <2>8, <3>1 DEF UnusedIsFresh
  <2>10. BuffersCover'
    <3>1. \A t \in StreamID : Covers(rest, t, streams'[p][t].offset, submitted'[p][t])
      <4> TAKE t \in StreamID
      <4>1. streams[p][t].offset \in Nat
        BY StreamTyped
      <4>2. Covers(rest, t, IF s = t THEN streams[p][t].offset + length
                            ELSE streams[p][t].offset, submitted'[p][t])
        BY <1>2, <2>1, <4>1, CoversCut
      <4>3. streams'[p][t].offset = IF s = t THEN streams[p][t].offset + length
                                    ELSE streams[p][t].offset
        <5> HIDE DEF s, length
        <5> QED
          BY <2>7
      <4> QED
        BY <4>2, <4>3
    <3> HIDE DEF s, rest, now
    <3> QED
      BY <1>1, <2>7, <2>8, <3>1 DEF BuffersCover
  <2>11. FramesSent'
    <3> SUFFICES ASSUME NEW q \in Peer, NEW pkt \in issued'[q], pkt.frame.type = "STREAM"
                 PROVE  /\ pkt.frame.stream \in usedStreamID'[q]
                        /\ pkt.frame.first = pkt.frame.offset + 1
                        /\ pkt.frame.offset + pkt.frame.length
                               <= streams'[q][pkt.frame.stream].offset
      BY DEF FramesSent
    <3> HIDE DEF s, length
    <3>1. CASE pkt \in issued[q]
      <4> DEFINE t == pkt.frame.stream
                 end == pkt.frame.offset + pkt.frame.length
      <4>1. t \in StreamID /\ end \in Nat
        BY <1>3, <3>1, IssuedFrame
      <4>2. /\ t \in usedStreamID[q] /\ pkt.frame.first = pkt.frame.offset + 1
            /\ end <= streams[q][t].offset
        BY <3>1 DEF FramesSent
      <4>3. streams[q][t].offset \in Nat /\ streams[q][t].offset <= streams'[q][t].offset
        <5>1. streams[q][t].offset \in Nat
          BY <4>1, StreamTyped
        <5> HIDE DEF t
        <5> QED
          BY <2>2, <2>3, <2>7, <4>1, <5>1
      <4>4. streams'[q][t].offset \in Nat
        <5> HIDE DEF t
        <5> QED
          BY <2>2, <2>3, <2>7, <4>1, <4>3
      <4>5. end <= streams'[q][t].offset
        <5> HIDE DEF t, end
        <5> QED
          BY <4>1, <4>2, <4>3, <4>4
      <4> QED
        BY <1>1, <4>2, <4>5
    <3>2. CASE q = p /\ pkt = new
      <4>1. streams'[p][s].offset = now /\ now \in Nat
        <5>1. now \in Nat
          BY <2>2, <2>3
        <5> HIDE DEF now
        <5> QED
          BY <2>2, <2>7, <5>1
      <4> HIDE DEF now
      <4> QED
        BY <1>1, <2>2, <2>4, <2>5, <3>2, <4>1
    <3> QED
      BY <2>5, <3>1, <3>2
  <2>12. FramesHeld'
    <3> HIDE DEF s, now
    <3> QED
      BY <1>1, <2>5, <2>7 DEF FramesHeld
  <2>13. RecordedIsKept'
    <3> SUFFICES ASSUME NEW q \in Peer, NEW pkt \in issued'[Other(q)],
                        HaveReceivedPkt(q, pkt)', pkt.frame.type = "STREAM"
                 PROVE  \/ pkt.frame \in streams'[q][pkt.frame.stream].buffered
                        \/ pkt.frame.offset + pkt.frame.length
                               <= streams'[q][pkt.frame.stream].expOffset
      BY DEF RecordedIsKept
    <3>1. pkt \in issued[Other(q)]
      BY <2>5, <2>6 DEF HaveReceivedPkt
    <3>2. pkt.frame.stream \in StreamID
      BY <1>3, <3>1, IssuedFrame
    <3>3. HaveReceivedPkt(q, pkt)
      BY <1>1 DEF HaveReceivedPkt
    <3> HIDE DEF s, now
    <3> QED
      BY <2>7, <3>1, <3>2, <3>3 DEF RecordedIsKept
  <2> QED
    BY <2>9, <2>10, <2>11, <2>12, <2>13
<1> QED
  BY <1>2, <1>4, <1>5

-----------------------------------------------------------------------------
(* Receiving.                                                              *)

\* One stream of p goes forward: it comes into use if it was not, and what its callback
\* is given and what waits in its buffer change together.
LEMMA ForwardKeepsDelivery ==
  ASSUME StreamTypeOK, DeliveryInv, NEW p \in Peer, NEW s \in StreamID, NEW st,
         streams' = [streams EXCEPT ![p][s] = st],
         st.offset = streams[p][s].offset,
         st.expOffset \in Nat /\ streams[p][s].expOffset <= st.expOffset,
         UNCHANGED <<unsentBuf, submitted, issued>>,
         usedStreamID' = [usedStreamID EXCEPT ![p] = @ \cup {s}],
         \A q \in Peer : current'[q] = current[q] \/ (q = p /\ current'[q] = s),
         \A q \in Peer, t \in StreamID :
             q # p \/ t # s => delivered'[q][t] = delivered[q][t],
         Len(delivered'[p][s]) = st.expOffset,
         \A f \in st.buffered :
             \/ f \in streams[p][s].buffered
             \/ f.stream = s /\ \E x \in issued[Other(p)] : x.frame = f,
         \A f \in streams[p][s].buffered \ st.buffered :
             f.offset + f.length <= st.expOffset,
         \A q \in Peer : \A x \in issued[Other(q)] :
             x.frame.type = "STREAM" /\ x.pktNum \in recPktNum'[q] =>
                 \/ x.pktNum \in recPktNum[q]
                 \/ /\ q = p /\ x.frame.stream = s
                    /\ \/ x.frame \in st.buffered
                       \/ x.frame.offset + x.frame.length <= st.expOffset
  PROVE  DeliveryInv'
<1> USE OtherPeer DEF DeliveryInv
<1>1. /\ streams \in [Peer -> [StreamID -> Stream]]
      /\ usedStreamID \in [Peer -> SUBSET StreamID]
      /\ TypeOK
  BY DEF StreamTypeOK, TransportTypeOK
<1>2. /\ \A q \in Peer, t \in StreamID :
            streams'[q][t] = IF q = p /\ t = s THEN st ELSE streams[q][t]
      /\ \A q \in Peer : usedStreamID'[q] = IF q = p THEN usedStreamID[p] \cup {s}
                                            ELSE usedStreamID[q]
  BY <1>1
<1>3. \A q \in Peer, t \in StreamID : streams'[q][t].offset = streams[q][t].offset
  BY <1>2
<1>4. UnusedIsFresh'
  BY <1>2 DEF UnusedIsFresh
<1>5. BuffersCover'
  BY <1>3 DEF BuffersCover
<1>6. FramesSent'
  <2> SUFFICES ASSUME NEW q \in Peer, NEW pkt \in issued[q], pkt.frame.type = "STREAM"
               PROVE  /\ pkt.frame.stream \in usedStreamID'[q]
                      /\ pkt.frame.first = pkt.frame.offset + 1
                      /\ pkt.frame.offset + pkt.frame.length
                             <= streams'[q][pkt.frame.stream].offset
    BY DEF FramesSent
  <2>1. pkt.frame.stream \in StreamID
    BY <1>1, IssuedFrame
  <2> QED
    BY <1>2, <1>3, <2>1 DEF FramesSent
<1>7. FramesHeld'
  <2> SUFFICES ASSUME NEW q \in Peer, NEW t \in StreamID
               PROVE  /\ Len(delivered'[q][t]) = streams'[q][t].expOffset
                      /\ \A f \in streams'[q][t].buffered :
                            f.stream = t /\ \E x \in issued[Other(q)] : x.frame = f
    BY DEF FramesHeld
  <2>1. CASE q = p /\ t = s
    BY <1>2, <2>1 DEF FramesHeld
  <2>2. CASE q # p \/ t # s
    BY <1>2, <2>2 DEF FramesHeld
  <2> QED
    BY <2>1, <2>2
<1>8. RecordedIsKept'
  <2> SUFFICES ASSUME NEW q \in Peer, NEW pkt \in issued[Other(q)],
                      HaveReceivedPkt(q, pkt)', pkt.frame.type = "STREAM"
               PROVE  \/ pkt.frame \in streams'[q][pkt.frame.stream].buffered
                      \/ pkt.frame.offset + pkt.frame.length
                             <= streams'[q][pkt.frame.stream].expOffset
    BY DEF RecordedIsKept
  <2> DEFINE t == pkt.frame.stream
             end == pkt.frame.offset + pkt.frame.length
  <2>1. t \in StreamID /\ end \in Nat
    BY <1>1, IssuedFrame
  <2>2. CASE HaveReceivedPkt(q, pkt)
    <3>1. \/ pkt.frame \in streams[q][t].buffered
          \/ end <= streams[q][t].expOffset
      BY <2>2 DEF RecordedIsKept
    <3> HIDE DEF t
    <3>2. CASE q = p /\ t = s
      <4>1. streams'[q][t] = st /\ streams[q][t] = streams[p][s]
        BY <1>2, <3>2
      <4>2. streams[p][s].expOffset \in Nat
        BY StreamTyped
      <4>3. CASE end <= streams[p][s].expOffset
        <5> HIDE DEF end
        <5>1. end <= st.expOffset
          BY <2>1, <4>2, <4>3
        <5> QED
          BY <4>1, <5>1 DEF t, end
      <4>4. CASE pkt.frame \in streams[p][s].buffered
        BY <4>1, <4>4 DEF t
      <4> QED
        BY <3>1, <4>1, <4>3, <4>4
    <3>3. CASE q # p \/ t # s
      <4>1. streams'[q][t] = streams[q][t]
        BY <1>2, <2>1, <3>3
      <4> QED
        BY <3>1, <4>1 DEF t
    <3> QED
      BY <3>2, <3>3
  <2>3. CASE ~HaveReceivedPkt(q, pkt)
    <3>1. /\ q = p /\ t = s
          /\ \/ pkt.frame \in st.buffered
             \/ end <= st.expOffset
      BY <2>3 DEF HaveReceivedPkt
    <3>2. streams'[p][s] = st
      BY <1>2
    <3> QED
      BY <3>1, <3>2
  <2> QED
    BY <2>2, <2>3
<1> QED
  BY <1>4, <1>5, <1>6, <1>7, <1>8

\* The callback is given as many bytes as the frame holds.
LEMMA DeliverLengthens ==
  ASSUME StreamTypeOK, NEW p \in Peer, NEW frame \in StreamFrame, Deliver(p, frame)
  PROVE  /\ \A q \in Peer, t \in StreamID :
               q # p \/ t # frame.stream => delivered'[q][t] = delivered[q][t]
         /\ delivered'[p][frame.stream] =
               delivered[p][frame.stream] \o Bytes(frame.first, frame.length)
         /\ Len(delivered'[p][frame.stream]) =
               Len(delivered[p][frame.stream]) + frame.length
<1>1. frame.stream \in StreamID /\ frame.length \in Nat /\ frame.first \in Nat
  BY SizeAssumption DEF StreamFrame
<1>2. delivered \in [Peer -> [StreamID -> Seq(Nat)]]
  BY DEF StreamTypeOK, HistoryTypeOK
<1> DEFINE more == Bytes(frame.first, frame.length)
<1>3. more \in Seq(Nat) /\ Len(more) = frame.length
  <2>1. \A i \in 1 .. frame.length : frame.first + i - 1 \in Nat
    BY <1>1
  <2> QED
    BY <1>1, <2>1 DEF Bytes
<1>4. delivered' = [delivered EXCEPT ![p][frame.stream] = @ \o more]
  BY DEF Deliver
<1> HIDE DEF more
<1>5. /\ \A q \in Peer, t \in StreamID :
            q # p \/ t # frame.stream => delivered'[q][t] = delivered[q][t]
      /\ delivered'[p][frame.stream] = delivered[p][frame.stream] \o more
  BY <1>1, <1>2, <1>4
<1>6. delivered[p][frame.stream] \in Seq(Nat)
  BY <1>1, <1>2
<1>7. Len(delivered[p][frame.stream] \o more) = Len(delivered[p][frame.stream]) + Len(more)
  <2>1. \A a, b \in Seq(Nat) : Len(a \o b) = Len(a) + Len(b)
    OBVIOUS
  <2> QED
    BY <1>3, <1>6, <2>1, Zenon
<1> QED
  BY <1>3, <1>5, <1>7 DEF more

\* Reading a STREAM frame within the limits keeps the invariant,
LEMMA ReceivingKeepsDelivery ==
  ASSUME StreamTypeOK, PacketInv, DeliveryInv, NEW p \in Peer, NEW pkt \in inFlight[p],
         ReceiveStream(p, pkt)
  PROVE  DeliveryInv'
<1> USE OtherPeer
<1> DEFINE frame == pkt.frame
           s == frame.stream
           found == FoundStream(p, s)
<1>1. frame \in StreamFrame /\ frame.type = "STREAM" /\ pkt \in issued[Other(p)]
  <2>1. frame.type = "STREAM" /\ pkt \in issued[Other(p)]
    BY DEF ReceiveStream, PacketInv, KnownPackets
  <2> QED
    BY <2>1, IssuedFrame DEF StreamTypeOK
<1>2. /\ s \in StreamID /\ frame.length \in Nat /\ frame.offset \in Nat
      /\ frame.offset + frame.length \in Nat
  BY <1>1, SizeAssumption DEF StreamFrame
<1>3. /\ found.offset = streams[p][s].offset
      /\ found.expOffset = streams[p][s].expOffset
      /\ found.buffered = streams[p][s].buffered
      /\ found \in Stream /\ found.expOffset \in Nat
  BY <1>2, FoundFresh, FoundStreamTyped DEF DeliveryInv, StreamTypeOK
<1>4. /\ UNCHANGED <<unsentBuf, submitted, issued>>
      /\ usedStreamID' = [usedStreamID EXCEPT ![p] = @ \cup {s}]
      /\ recPktNum' = [recPktNum EXCEPT ![p] = @ \cup {pkt.pktNum}]
      /\ current' = [current EXCEPT ![p] = s]
  BY DEF ReceiveStream, ReceiveInOrder, ReceiveDisorder, Deliver, historyVars,
     ReceivePacket, RecordPacket
<1>5. \A q \in Peer : current'[q] = current[q] \/ (q = p /\ current'[q] = s)
  BY <1>4 DEF StreamTypeOK, TransportTypeOK
<1>6. \A q \in Peer : \A x \in issued[Other(q)] :
         x.frame.type = "STREAM" /\ x.pktNum \in recPktNum'[q] =>
             x.pktNum \in recPktNum[q] \/ (q = p /\ x = pkt)
  <2>1. recPktNum \in [Peer -> SUBSET PktNum]
    BY DEF PacketInv, TypeOK
  <2>2. \A x \in issued[Other(p)] : x.pktNum = pkt.pktNum => x = pkt
    BY <1>1 DEF PacketInv, NumberNamesOnePacket
  <2> QED
    BY <1>4, <2>1, <2>2
<1>7. CASE ReceiveInOrder(p, pkt)
  <2> DEFINE st == [found EXCEPT !.expOffset = @ + frame.length]
  <2>1. /\ streams' = [streams EXCEPT ![p][s] = st]
        /\ frame.offset = found.expOffset
        /\ Deliver(p, frame)
    BY <1>7 DEF ReceiveInOrder
  <2>2. /\ st.offset = streams[p][s].offset
        /\ st.expOffset = streams[p][s].expOffset + frame.length
        /\ st.buffered = streams[p][s].buffered
    BY <1>3 DEF Stream
  <2> HIDE DEF found, st, frame
  <2>3. /\ st.expOffset \in Nat /\ streams[p][s].expOffset <= st.expOffset
        /\ frame.offset + frame.length <= st.expOffset
    BY <1>2, <1>3, <2>1, <2>2
  <2>4. /\ \A q \in Peer, t \in StreamID :
              q # p \/ t # s => delivered'[q][t] = delivered[q][t]
        /\ Len(delivered'[p][s]) = st.expOffset
    <3>1. Len(delivered[p][s]) = streams[p][s].expOffset
      BY <1>2 DEF DeliveryInv, FramesHeld
    <3> QED
      BY <1>1, <2>1, <2>2, <3>1, DeliverLengthens
  <2>5. \A q \in Peer : \A x \in issued[Other(q)] :
           x.frame.type = "STREAM" /\ x.pktNum \in recPktNum'[q] =>
               \/ x.pktNum \in recPktNum[q]
               \/ /\ q = p /\ x.frame.stream = s
                  /\ \/ x.frame \in st.buffered
                     \/ x.frame.offset + x.frame.length <= st.expOffset
    BY <1>6, <2>3 DEF frame
  <2> HIDE DEF s
  <2> QED
    BY <1>2, <1>4, <1>5, <2>1, <2>2, <2>3, <2>4, <2>5, ForwardKeepsDelivery
<1>8. CASE ReceiveDisorder(p, pkt)
  <2> DEFINE st == [found EXCEPT !.buffered = @ \cup {frame}]
  <2>1. /\ streams' = [streams EXCEPT ![p][s] = st]
        /\ UNCHANGED delivered
    BY <1>8 DEF ReceiveDisorder, historyVars
  <2>2. /\ st.offset = streams[p][s].offset
        /\ st.expOffset = streams[p][s].expOffset
        /\ st.buffered = streams[p][s].buffered \cup {frame}
    BY <1>3 DEF Stream
  <2> HIDE DEF found, st, frame
  <2>3. st.expOffset \in Nat /\ streams[p][s].expOffset <= st.expOffset
    BY <1>3, <2>2
  <2>4. Len(delivered'[p][s]) = st.expOffset
    BY <1>2, <2>1, <2>2 DEF DeliveryInv, FramesHeld
  <2>5. \A f \in st.buffered :
           \/ f \in streams[p][s].buffered
           \/ f.stream = s /\ \E x \in issued[Other(p)] : x.frame = f
    BY <1>1, <2>2 DEF frame
  <2>6. \A q \in Peer : \A x \in issued[Other(q)] :
           x.frame.type = "STREAM" /\ x.pktNum \in recPktNum'[q] =>
               \/ x.pktNum \in recPktNum[q]
               \/ /\ q = p /\ x.frame.stream = s
                  /\ \/ x.frame \in st.buffered
                     \/ x.frame.offset + x.frame.length <= st.expOffset
    BY <1>6, <2>2 DEF frame
  <2>7. \A f \in streams[p][s].buffered \ st.buffered :
           f.offset + f.length <= st.expOffset
    BY <2>2
  <2>8. \A q \in Peer, t \in StreamID :
           q # p \/ t # s => delivered'[q][t] = delivered[q][t]
    BY <2>1
  <2>9. streams' = [streams EXCEPT ![p][s] = st] /\ st.offset = streams[p][s].offset
    BY <2>1, <2>2
  <2> HIDE DEF s
  <2> QED
    BY <1>2, <1>4, <1>5, <2>3, <2>4, <2>5, <2>6, <2>7, <2>8, <2>9, ForwardKeepsDelivery
<1> QED
  BY <1>7, <1>8 DEF ReceiveStream

\* and so does going on with a frame that had waited.
LEMMA BufferedKeepsDelivery ==
  ASSUME StreamTypeOK, PacketInv, DeliveryInv, NEW p \in Peer, DeliverBuffered(p)
  PROVE  DeliveryInv'
<1> DEFINE s == current[p]
<1>1. PICK frame \in NextInBuffer(p, s) :
          /\ Deliver(p, frame)
          /\ streams' = [streams EXCEPT ![p][s].buffered = @ \ {frame},
                                        ![p][s].expOffset = @ + frame.length]
  BY DEF DeliverBuffered
<1>2. s \in usedStreamID[p] /\ s \in StreamID
  BY DEF DeliveryInv, UnusedIsFresh, DeliverBuffered, StreamTypeOK, TransportTypeOK
<1>3. /\ frame \in streams[p][s].buffered /\ frame \in StreamFrame
      /\ frame.offset = streams[p][s].expOffset
      /\ frame.stream = s
      /\ frame.length \in Nat /\ streams[p][s].expOffset \in Nat
  <2>1. /\ frame \in streams[p][s].buffered
        /\ frame.offset = streams[p][s].expOffset
    BY DEF NextInBuffer
  <2>2. frame.stream = s
    BY <1>2, <2>1 DEF DeliveryInv, FramesHeld
  <2>3. frame \in StreamFrame /\ streams[p][s].expOffset \in Nat
    <3> HIDE DEF s
    <3> QED
      BY <1>2, <2>1, StreamTyped
  <2> QED
    BY <2>1, <2>2, <2>3, SizeAssumption DEF StreamFrame
<1> DEFINE old == streams[p][s]
           st == [[old EXCEPT !.buffered = @ \ {frame}]
                       EXCEPT !.expOffset = @ + frame.length]
<1>4. /\ st.offset = old.offset
      /\ st.buffered = old.buffered \ {frame}
      /\ st.expOffset = old.expOffset + frame.length
  <2>1. old \in Stream
    BY <1>2 DEF StreamTypeOK, TransportTypeOK
  <2> QED
    BY <2>1 DEF Stream
<1>5. streams' = [streams EXCEPT ![p][s] = st]
  <2> DEFINE removed == [old EXCEPT !.buffered = @ \ {frame}]
             once == [streams EXCEPT ![p][s] = removed]
  <2>1. streams \in [Peer -> [StreamID -> Stream]]
    BY DEF StreamTypeOK, TransportTypeOK
  <2>2. streams' = [once EXCEPT ![p][s].expOffset = @ + frame.length]
    BY <1>1
  <2>3. once[p][s] = removed
    <3> HIDE DEF removed, s
    <3> QED
      BY <1>2, <2>1
  <2>4. st = [removed EXCEPT !.expOffset = @ + frame.length]
    OBVIOUS
  <2>5. streams' = [once EXCEPT ![p][s] = st]
    <3> HIDE DEF once, removed, st
    <3> QED
      BY <2>2, <2>3, <2>4
  <2> HIDE DEF removed, st, s
  <2> QED
    BY <1>2, <2>1, <2>5
<1>6. /\ UNCHANGED <<unsentBuf, submitted, issued, recPktNum, usedStreamID, current>>
  BY <1>1 DEF DeliverBuffered, vars, connectionVars, handlerVars, Deliver
<1>7. usedStreamID' = [usedStreamID EXCEPT ![p] = @ \cup {s}]
  <2>1. usedStreamID \in [Peer -> SUBSET StreamID]
    BY DEF StreamTypeOK, TransportTypeOK
  <2>2. usedStreamID[p] \cup {s} = usedStreamID[p]
    BY <1>2
  <2> HIDE DEF s
  <2> QED
    BY <1>6, <2>1, <2>2
<1> HIDE DEF s, st
<1>8. /\ \A q \in Peer, t \in StreamID :
            q # p \/ t # s => delivered'[q][t] = delivered[q][t]
      /\ Len(delivered'[p][s]) = st.expOffset
  <2>1. Len(delivered[p][s]) = streams[p][s].expOffset
    BY <1>2 DEF DeliveryInv, FramesHeld
  <2>2. /\ \A q \in Peer, t \in StreamID :
              q # p \/ t # frame.stream => delivered'[q][t] = delivered[q][t]
        /\ Len(delivered'[p][frame.stream]) =
              Len(delivered[p][frame.stream]) + frame.length
    BY <1>1, <1>3, DeliverLengthens
  <2> QED
    BY <1>3, <1>4, <2>1, <2>2
<1>9. /\ st.expOffset \in Nat /\ streams[p][s].expOffset <= st.expOffset
      /\ frame.offset + frame.length <= st.expOffset
  BY <1>3, <1>4
<1>10. \A f \in streams[p][s].buffered \ st.buffered : f.offset + f.length <= st.expOffset
  BY <1>4, <1>9
<1>11. \A f \in st.buffered : f \in streams[p][s].buffered
  BY <1>4
<1>12. \A q \in Peer : \A x \in issued[Other(q)] :
         x.frame.type = "STREAM" /\ x.pktNum \in recPktNum'[q] => x.pktNum \in recPktNum[q]
  BY <1>6
<1> QED
  BY <1>2, <1>4, <1>5, <1>6, <1>7, <1>8, <1>9, <1>10, <1>11, <1>12, ForwardKeepsDelivery

-----------------------------------------------------------------------------
(* What the streams deliver.                                               *)

\* A step of the streams that overwrites no stream in use keeps the invariant.
LEMMA StepKeepsDelivery ==
  ASSUME StreamTypeOK, StreamTypeOK', PacketInv, DeliveryInv, EntriesKept,
         NEW p \in Peer, StreamEndpoint(p)
  PROVE  DeliveryInv'
<1> USE DEF StreamTypeOK
<1>1. ASSUME NEW bidirectional \in BOOLEAN, CreateStream(p, bidirectional)
      PROVE  DeliveryInv'
  BY <1>1, OpeningIsNeutral, NeutralKeepsDelivery DEF DeliveryInv
<1>2. CASE \/ \E s \in StreamID, length \in Sizes, fin \in Fins : SendData(p, s, length, fin)
           \/ FinishPass(p)
  BY <1>2, SendingKeepsDelivery
<1>3. ASSUME NEW pkt \in inFlight[p], Receive(p, pkt)
      PROVE  DeliveryInv'
  <2>1. CASE ReceiveStream(p, pkt)
    BY <2>1, ReceivingKeepsDelivery
  <2>2. CASE ~ReceiveStream(p, pkt)
    BY <1>3, <2>2, ReadingIsNeutral, NeutralKeepsDelivery DEF DeliveryInv
  <2> QED
    BY <2>1, <2>2
<1>4. CASE DeliverBuffered(p)
  BY <1>4, BufferedKeepsDelivery
<1>5. CASE RaiseLimits(p) \/ QueueReply(p) \/ PassStep(p)
  BY <1>5, EndingIsNeutral, NeutralKeepsDelivery
<1> QED
  BY <1>1, <1>2, <1>3, <1>4, <1>5 DEF StreamEndpoint

\* At the start nothing was submitted, sent or delivered.
LEMMA DeliveryInitially == StreamInit => DeliveryInv
<1> SUFFICES ASSUME StreamInit PROVE DeliveryInv
  OBVIOUS
<1> USE OtherPeer DEF StreamInit, Init, DefaultStream
<1>1. UnusedIsFresh
  BY DEF UnusedIsFresh
<1>2. BuffersCover
  BY DEF BuffersCover, Covers, Mine
<1>3. FramesSent /\ FramesHeld /\ RecordedIsKept
  BY DEF FramesSent, FramesHeld, RecordedIsKept
<1> QED
  BY <1>1, <1>2, <1>3 DEF DeliveryInv

\* The inductive invariant of delivery: buffers, frames on their way, frames that wait
\* and bytes the callback was given belong together, as long as no stream in use is
\* overwritten.
THEOREM DeliveryCorrect == StreamSpec /\ [][EntriesKept]_allVars => []DeliveryInv
<1>1. StreamTypeOK /\ StreamTypeOK' /\ PacketInv /\ DeliveryInv
         /\ [StreamNext]_allVars /\ [EntriesKept]_allVars => DeliveryInv'
  <2> SUFFICES ASSUME StreamTypeOK, StreamTypeOK', PacketInv, DeliveryInv,
                      [StreamNext]_allVars, [EntriesKept]_allVars
               PROVE  DeliveryInv'
    OBVIOUS
  <2>1. CASE UNCHANGED allVars
    <3>1. UNCHANGED <<streams, usedStreamID, unsentBuf, submitted, delivered, current,
                      issued, recPktNum>>
      BY <2>1 DEF allVars, vars, streamVars, handlerVars, historyVars, connectionVars
    <3>2. Neutral
      BY <3>1 DEF Neutral, SamePart, NoDataMoves
    <3> QED
      BY <3>2, NeutralKeepsDelivery DEF StreamTypeOK
  <2>2. CASE ~UNCHANGED allVars
    <3>1. PICK p \in Peer : StreamEndpoint(p)
      BY <2>2 DEF StreamNext
    <3> QED
      BY <2>2, <3>1, StepKeepsDelivery
  <2> QED
    BY <2>1, <2>2
<1> QED
  BY <1>1, DeliveryInitially, StreamTypeCorrect, StreamBookkeeping, PTL DEF StreamSpec

\* What the invariant says of the waiting buffers is what UnsentFollowsSent says.
LEMMA DeliveryMeansUnsent == StreamTypeOK /\ DeliveryInv => UnsentFollowsSent
<1> SUFFICES ASSUME StreamTypeOK, DeliveryInv, NEW p \in Peer, NEW s \in StreamID
             PROVE  LET mine == {i \in DOMAIN unsentBuf[p] : unsentBuf[p][i].stream = s}
                        Until(i) == {j \in mine : j < i}
                        Length(J) == SumFunction([j \in J |-> unsentBuf[p][j].length])
                    IN  /\ submitted[p][s] = streams[p][s].offset + Length(mine)
                        /\ \A i \in mine : unsentBuf[p][i].first =
                                    streams[p][s].offset + Length(Until(i)) + 1
  BY DEF UnsentFollowsSent
<1>1. /\ unsentBuf[p] \in Seq(UnsentBuffer)
      /\ streams[p][s].offset \in Nat /\ submitted[p][s] \in Nat
  BY StreamTyped
<1>2. Covers(unsentBuf[p], s, streams[p][s].offset, submitted[p][s])
  BY DEF DeliveryInv, BuffersCover
<1>3. Mine(unsentBuf[p], s) = {i \in DOMAIN unsentBuf[p] : unsentBuf[p][i].stream = s}
  BY DEF Mine
<1>4. /\ submitted[p][s] = streams[p][s].offset
           + SumFunction([j \in Mine(unsentBuf[p], s) |-> unsentBuf[p][j].length])
      /\ \A i \in Mine(unsentBuf[p], s) :
            unsentBuf[p][i].first = streams[p][s].offset
               + SumFunction([j \in {k \in Mine(unsentBuf[p], s) : k < i} |->
                                 unsentBuf[p][j].length]) + 1
  BY <1>1, <1>2, CoversAdds, Zenon
<1> QED
  BY <1>3, <1>4, Zenon

\* Cutting buffers into frames loses and repeats nothing.
THEOREM UnsentFollows ==
  StreamSpec /\ [][EntriesKept]_allVars => []UnsentFollowsSent
BY DeliveryCorrect, DeliveryMeansUnsent, StreamTypeCorrect, PTL

\* Whatever STREAM packet a receiver acknowledges, it delivered or holds its bytes.
THEOREM RecordedKept ==
  StreamSpec /\ [][EntriesKept]_allVars => []RecordedIsKept
<1>1. DeliveryInv => RecordedIsKept
  BY DEF DeliveryInv
<1> QED
  BY <1>1, DeliveryCorrect, PTL

-----------------------------------------------------------------------------
(* The streams deliver what ReliableStream promises.                       *)

\* A frame that is next holds the next bytes that were submitted.
LEMMA NextBytes ==
  ASSUME StreamTypeOK, DeliveryInv, NEW p \in Peer, NEW pkt \in issued[Other(p)],
         pkt.frame.type = "STREAM",
         pkt.frame.offset = streams[p][pkt.frame.stream].expOffset
  PROVE  /\ pkt.frame.first = Len(delivered[p][pkt.frame.stream]) + 1
         /\ Len(delivered[p][pkt.frame.stream]) + pkt.frame.length
                <= submitted[Other(p)][pkt.frame.stream]
<1> DEFINE s == pkt.frame.stream
           end == pkt.frame.offset + pkt.frame.length
<1>1. Other(p) \in Peer
  BY OtherPeer
<1>2. s \in StreamID /\ end \in Nat
  BY <1>1, IssuedFrame DEF StreamTypeOK
<1>3. /\ pkt.frame.first = pkt.frame.offset + 1
      /\ end <= streams[Other(p)][s].offset
  BY <1>1 DEF DeliveryInv, FramesSent
<1>4. streams[Other(p)][s].offset <= submitted[Other(p)][s]
  BY <1>1, <1>2 DEF DeliveryInv, BuffersCover, Covers
<1>5. Len(delivered[p][s]) = pkt.frame.offset
  BY <1>2 DEF DeliveryInv, FramesHeld
<1>6. streams[Other(p)][s].offset \in Nat /\ submitted[Other(p)][s] \in Nat
  <2> HIDE DEF s
  <2> QED
    BY <1>1, <1>2, StreamTyped
<1>7. end <= submitted[Other(p)][s]
  <2> HIDE DEF s, end
  <2> QED
    BY <1>2, <1>3, <1>4, <1>6
<1> QED
  BY <1>3, <1>5, <1>7

\* Handing a frame that is next to the callback is a step of ReliableStream.
LEMMA DeliverIsDeliver ==
  ASSUME StreamTypeOK, DeliveryInv, NEW p \in Peer, NEW pkt \in issued[Other(p)],
         pkt.frame.type = "STREAM",
         pkt.frame.offset = streams[p][pkt.frame.stream].expOffset,
         Deliver(p, pkt.frame)
  PROVE  Reliable!Next
<1> DEFINE frame == pkt.frame
           s == frame.stream
<1>1. s \in StreamID /\ frame.length \in 0 .. MaxField
  <2>1. frame \in StreamFrame
    BY OtherPeer, IssuedFrame DEF StreamTypeOK
  <2> QED
    BY <2>1 DEF StreamFrame
<1>2. /\ frame.first = Len(delivered[p][s]) + 1
      /\ Len(delivered[p][s]) + frame.length <= submitted[Other(p)][s]
  BY NextBytes
<1>3. delivered \in [Peer -> [StreamID -> Seq(Nat)]]
  BY DEF StreamTypeOK, HistoryTypeOK
<1>4. /\ delivered' = [delivered EXCEPT ![p][s] = @ \o Bytes(Len(@) + 1, frame.length)]
      /\ UNCHANGED submitted
  BY <1>1, <1>2, <1>3 DEF Deliver
<1>5. \A a, b : Reliable!Bytes(a, b) = Bytes(a, b)
  BY DEF Reliable!Bytes, Bytes
<1>6. Reliable!Deliver(p, s, frame.length)
  BY <1>2, <1>4, <1>5 DEF Reliable!Deliver
<1> QED
  BY <1>1, <1>6 DEF Reliable!Next

\* Every step of the streams is a step of ReliableStream, or none.
LEMMA StepIsReliable ==
  ASSUME StreamTypeOK, PacketInv, DeliveryInv, NEW p \in Peer, StreamEndpoint(p)
  PROVE  Reliable!Next \/ UNCHANGED <<submitted, delivered>>
<1>1. CASE \/ \E bidirectional \in BOOLEAN : CreateStream(p, bidirectional)
           \/ RaiseLimits(p) \/ QueueReply(p) \/ PassStep(p) \/ FinishPass(p)
  BY <1>1 DEF CreateStream, RaiseLimits, QueueReply, PassStep, FinishPass, streamVars,
     historyVars
<1>2. ASSUME NEW s \in StreamID, NEW length \in Sizes, NEW fin \in Fins,
             SendData(p, s, length, fin)
      PROVE  Reliable!Next
  <2>1. Reliable!Submit(p, s, length)
    BY <1>2 DEF SendData, Reliable!Submit
  <2> QED
    BY <2>1 DEF Reliable!Next
<1>3. ASSUME NEW pkt \in inFlight[p], Receive(p, pkt)
      PROVE  Reliable!Next \/ UNCHANGED <<submitted, delivered>>
  <2>1. CASE ReceiveStream(p, pkt) /\ ReceiveInOrder(p, pkt)
    <3>1. /\ pkt \in issued[Other(p)] /\ pkt.frame.type = "STREAM"
          /\ pkt.frame.offset = FoundStream(p, pkt.frame.stream).expOffset
          /\ Deliver(p, pkt.frame)
      BY <2>1, OtherPeer DEF ReceiveStream, ReceiveInOrder, PacketInv, KnownPackets
    <3>2. pkt.frame.stream \in StreamID
      BY <3>1, OtherPeer, IssuedFrame DEF StreamTypeOK
    <3>3. pkt.frame.offset = streams[p][pkt.frame.stream].expOffset
      BY <3>1, <3>2, FoundFresh DEF DeliveryInv
    <3> QED
      BY <3>1, <3>3, DeliverIsDeliver
  <2>2. CASE ReceiveStream(p, pkt) /\ ReceiveDisorder(p, pkt)
    BY <2>2 DEF ReceiveDisorder, historyVars
  <2>3. CASE ~ReceiveStream(p, pkt)
    BY <1>3, <2>3 DEF Receive, ReceiveOverLimit, ReceiveMaxData, ReceiveMaxStreamData,
       ReceiveStreamDataBlocked, ReceiveDataBlocked, historyVars
  <2> QED
    BY <2>1, <2>2, <2>3 DEF ReceiveStream
<1>4. CASE DeliverBuffered(p)
  <2> DEFINE s == current[p]
  <2>1. PICK frame \in NextInBuffer(p, s) : Deliver(p, frame)
    BY <1>4 DEF DeliverBuffered
  <2>2. s \in StreamID
    BY <1>4 DEF DeliverBuffered, StreamTypeOK, TransportTypeOK
  <2>3. frame \in streams[p][s].buffered /\ frame.offset = streams[p][s].expOffset
    BY DEF NextInBuffer
  <2>4. frame \in StreamFrame
    <3> HIDE DEF s
    <3> QED
      BY <2>2, <2>3, StreamTyped
  <2>5. frame.stream = s /\ \E pkt \in issued[Other(p)] : pkt.frame = frame
    BY <2>2, <2>3 DEF DeliveryInv, FramesHeld
  <2>6. PICK pkt \in issued[Other(p)] : pkt.frame = frame
    BY <2>5
  <2>7. frame.type = "STREAM"
    BY <2>4 DEF StreamFrame
  <2> HIDE DEF s
  <2> QED
    BY <2>1, <2>3, <2>5, <2>6, <2>7, DeliverIsDeliver
<1> QED
  BY <1>1, <1>2, <1>3, <1>4 DEF StreamEndpoint

\* The detailed streams implement the promise: whatever is lost, repeated, reordered,
\* retransmitted, buffered or blocked, the callback is given the submitted bytes once
\* each and in order, as long as no stream in use is overwritten.
THEOREM StreamsAreReliable ==
  StreamSpec /\ [][EntriesKept]_allVars => ReliableSpec
<1>1. StreamInit => Reliable!Init
  BY DEF StreamInit, Reliable!Init
<1>2. StreamTypeOK /\ PacketInv /\ DeliveryInv /\ [StreamNext]_allVars
         => [Reliable!Next]_<<submitted, delivered>>
  <2> SUFFICES ASSUME StreamTypeOK, PacketInv, DeliveryInv, [StreamNext]_allVars
               PROVE  [Reliable!Next]_<<submitted, delivered>>
    OBVIOUS
  <2>1. CASE UNCHANGED allVars
    BY <2>1 DEF allVars, streamVars, historyVars
  <2>2. CASE StreamNext
    BY <2>2, StepIsReliable DEF StreamNext
  <2> QED
    BY <2>1, <2>2
<1>3. Reliable!streamVars = <<submitted, delivered>>
  BY DEF Reliable!streamVars
<1> QED
  BY <1>1, <1>2, <1>3, DeliveryCorrect, StreamTypeCorrect, StreamBookkeeping, PTL
     DEF StreamSpec, ReliableSpec, Reliable!Spec, Reliable!streamVars

-----------------------------------------------------------------------------
(* When no stream in use is overwritten.                                   *)

\* Every stream that an end knows is one that an application may open.
OnlyPossible ==
  \A p \in Peer :
    /\ usedStreamID[p] \subseteq PossibleIDs
    /\ \A i \in DOMAIN unsentBuf[p] : unsentBuf[p][i].stream \in PossibleIDs
    /\ \A pkt \in issued[p] :
          pkt.frame.type = "STREAM" => pkt.frame.stream \in PossibleIDs

\* The first index that is free is below the number of streams opened.
LEMMA FirstFree ==
  ASSUME StreamTypeOK, NEW p \in Peer, NEW bidirectional \in BOOLEAN, NEW index \in Nat,
         Cardinality(OwnStreams(p)) < MaxStreams[p],
         \A i \in 0 .. index - 1 :
             GeneratedID(i, StreamType(p, bidirectional)) \in usedStreamID[p]
  PROVE  index < MaxStreams[p]
<1> DEFINE type == StreamType(p, bidirectional)
           below == 0 .. index - 1
           opened == [i \in below |-> GeneratedID(i, type)]
<1>1. /\ type \in Nat
      /\ \A i \in Nat : GeneratedID(i, type) % 2 = StreamType(p, TRUE)
  <2>1. \A i \in Nat : /\ (4 * i + 0) % 2 = 0 /\ (4 * i + 2) % 2 = 0
                       /\ (4 * i + 1) % 2 = 1 /\ (4 * i + 3) % 2 = 1
    OBVIOUS
  <2> QED
    BY <2>1 DEF StreamType, GeneratedID
<1>2. IsFiniteSet(OwnStreams(p))
  <2>1. OwnStreams(p) \subseteq 0 .. MAX_STREAM_NUM - 1
    BY StreamAssumption DEF OwnStreams, StreamTypeOK, TransportTypeOK
  <2>2. IsFiniteSet(0 .. MAX_STREAM_NUM - 1)
    <3>1. 0 \in Int /\ MAX_STREAM_NUM - 1 \in Int
      BY StreamAssumption
    <3> QED
      BY <3>1, FS_Interval
  <2> QED
    BY <2>1, <2>2, FS_Subset
<1>3. opened \in [below -> OwnStreams(p)]
  <2>1. \A i \in below : GeneratedID(i, type) \in OwnStreams(p)
    <3> TAKE i \in below
    <3>1. i \in Nat /\ GeneratedID(i, type) \in usedStreamID[p]
      OBVIOUS
    <3> HIDE DEF type
    <3> QED
      BY <1>1, <3>1 DEF OwnStreams
  <2> QED
    BY <2>1
<1>4. \A i, j \in below : opened[i] = opened[j] => i = j
  BY <1>1 DEF GeneratedID
<1>5. Cardinality(below) <= Cardinality(OwnStreams(p))
  <2> HIDE DEF opened, below
  <2>1. opened \in Injection(below, OwnStreams(p))
    BY <1>3, <1>4 DEF Injection, IsInjective
  <2> QED
    BY <1>2, <2>1, FS_Injection
<1>6. Cardinality(below) = index
  <2>1. 0 \in Int /\ index - 1 \in Int
    OBVIOUS
  <2>2. Cardinality(below) = IF 0 > index - 1 THEN 0 ELSE (index - 1) - 0 + 1
    BY <2>1, FS_Interval
  <2> HIDE DEF below
  <2> QED
    BY <2>2
<1>7. Cardinality(OwnStreams(p)) \in Nat /\ MaxStreams[p] \in Nat
  BY <1>2, FS_CardinalityType, SizeAssumption
<1> QED
  BY <1>5, <1>6, <1>7

\* What CreateStream does.
LEMMA OpeningEffect ==
  ASSUME StreamTypeOK, NEW p \in Peer, NEW bidirectional \in BOOLEAN,
         CreateStream(p, bidirectional)
  PROVE  \E index \in StreamID :
            LET id == GeneratedID(index, StreamType(p, bidirectional))
            IN  /\ id \in PossibleIDs /\ id \notin usedStreamID[p]
                /\ index < MaxStreams[p]
                /\ usedStreamID' = [usedStreamID EXCEPT ![p] = @ \cup {id}]
                /\ streams' = [streams EXCEPT ![p][index] = NewStream]
<1> DEFINE id(index) == GeneratedID(index, StreamType(p, bidirectional))
<1>1. PICK index \in StreamID :
          /\ id(index) \in StreamID /\ id(index) \notin usedStreamID[p]
          /\ \A i \in 0 .. index - 1 : id(i) \in usedStreamID[p]
          /\ usedStreamID' = [usedStreamID EXCEPT ![p] = @ \cup {id(index)}]
          /\ streams' = [streams EXCEPT ![p][index] = NewStream]
  BY DEF CreateStream
<1>2. index \in Nat
  BY StreamAssumption
<1>3. index < MaxStreams[p]
  BY <1>1, <1>2, FirstFree DEF CreateStream
<1>4. id(index) \in PossibleIDs
  BY <1>1, <1>2, <1>3, SizeAssumption DEF PossibleIDs
<1> QED
  BY <1>1, <1>3, <1>4

\* The buffers a step looks at are of possible streams.
LEMMA SendingIsPossible ==
  ASSUME StreamTypeOK, OnlyPossible, NEW p \in Peer,
         \/ \E s \in StreamID, length \in Sizes, fin \in Fins :
                SendData(p, s, length, fin)
         \/ FinishPass(p)
  PROVE  OnlyPossible'
<1>1. UNCHANGED <<usedStreamID, recPktNum>>
  <2>1. ASSUME NEW s \in StreamID, NEW length \in Sizes, NEW fin \in Fins,
               SendData(p, s, length, fin)
        PROVE  UNCHANGED <<usedStreamID, recPktNum>>
    BY <2>1 DEF SendData, QueuePacket, vars, connectionVars
  <2>2. CASE FinishPass(p)
    BY <2>2 DEF FinishPass, EndPass, EndPassWithPacket, connectionVars
  <2> QED
    BY <2>1, <2>2
<1>2. PICK queue \in Seq(UnsentBuffer) :
         /\ \A i \in DOMAIN queue : queue[i].stream \in PossibleIDs
         /\ Cuts(p, queue) \/ Keeps(p, queue)
  <2>1. ASSUME NEW s \in StreamID, NEW length \in Sizes, NEW fin \in Fins,
               SendData(p, s, length, fin)
        PROVE  \E queue \in Seq(UnsentBuffer) :
                  /\ \A i \in DOMAIN queue : queue[i].stream \in PossibleIDs
                  /\ Cuts(p, queue) \/ Keeps(p, queue)
    <3> DEFINE buf == [stream |-> s, first |-> submitted[p][s] + 1, length |-> length,
                       fin |-> fin]
               queue == Append(unsentBuf[p], buf)
    <3>1. buf \in UnsentBuffer /\ buf.stream \in PossibleIDs
      BY <2>1, SizeAssumption
         DEF SendData, OnlyPossible, StreamTypeOK, HistoryTypeOK, UnsentBuffer
    <3>2. \/ /\ TakeChunk(p, queue)
             /\ AddPacket(p, DataFrame(p, queue))
          \/ /\ AskForCredit(p, queue)
             /\ AddPacket(p, CreditRequest(p, queue))
          \/ LeaveWaiting(p, queue) /\ UNCHANGED issued
      BY <2>1 DEF SendData, QueuePacket, vars
    <3> HIDE DEF buf
    <3>3. /\ queue \in Seq(UnsentBuffer)
          /\ \A i \in DOMAIN queue : queue[i].stream \in PossibleIDs
      BY <3>1 DEF OnlyPossible, StreamTypeOK, TransportTypeOK
    <3> HIDE DEF queue
    <3>4. Cuts(p, queue) \/ Keeps(p, queue)
      BY <1>1, <3>2, TakingEffect
    <3> QED
      BY <3>3, <3>4
  <2>2. CASE FinishPass(p)
    <3> DEFINE queue == unsentBuf[p]
    <3>1. \/ /\ TakeChunk(p, queue)
             /\ AddPacket(p, DataFrame(p, queue))
          \/ /\ AskForCredit(p, queue)
             /\ AddPacket(p, CreditRequest(p, queue))
          \/ LeaveWaiting(p, queue) /\ UNCHANGED issued
      BY <2>2 DEF FinishPass, EndPass, EndPassWithPacket
    <3>2. /\ queue \in Seq(UnsentBuffer)
          /\ \A i \in DOMAIN queue : queue[i].stream \in PossibleIDs
      BY DEF OnlyPossible, StreamTypeOK, TransportTypeOK
    <3>3. Cuts(p, queue) \/ Keeps(p, queue)
      BY <1>1, <3>1, TakingEffect
    <3> QED
      BY <3>2, <3>3
  <2> QED
    BY <2>1, <2>2
<1>3. /\ unsentBuf \in [Peer -> Seq(UnsentBuffer)]
      /\ issued \in [Peer -> SUBSET Packet]
  BY DEF StreamTypeOK, TransportTypeOK, TypeOK
<1>4. CASE Keeps(p, queue)
  <2>1. \A q \in Peer : unsentBuf'[q] = IF q = p THEN queue ELSE unsentBuf[q]
    BY <1>3, <1>4 DEF Keeps
  <2> QED
    BY <1>1, <1>2, <1>4, <2>1 DEF Keeps, NoDataMoves, OnlyPossible
<1>5. CASE Cuts(p, queue)
  <2> DEFINE new == NewPacket(p, DataFrame(p, queue))
             rest == AfterChunk(queue)
  <2>1. queue # <<>> /\ Head(queue) = queue[1] /\ 1 \in DOMAIN queue
    BY <1>5 DEF Cuts
  <2>2. new.frame.stream \in PossibleIDs
    BY <1>2, <2>1 DEF NewPacket, DataFrame
  <2>3. \A i \in DOMAIN rest : rest[i].stream \in PossibleIDs
    BY <1>2, <2>1, CutStreams
  <2> HIDE DEF new, rest
  <2>4. \A q \in Peer : /\ unsentBuf'[q] = IF q = p THEN rest ELSE unsentBuf[q]
                        /\ issued'[q] = IF q = p THEN issued[p] \cup {new} ELSE issued[q]
    BY <1>3, <1>5 DEF Cuts, new, rest
  <2> QED
    BY <1>1, <2>2, <2>3, <2>4 DEF OnlyPossible
<1> QED
  BY <1>2, <1>4, <1>5

\* Only the streams the applications open are ever in use, at either end.
LEMMA StepIsPossible ==
  ASSUME StreamTypeOK, PacketInv, OnlyPossible, NEW p \in Peer, StreamEndpoint(p)
  PROVE  OnlyPossible'
<1>1. ASSUME NEW bidirectional \in BOOLEAN, CreateStream(p, bidirectional)
      PROVE  OnlyPossible'
  <2>1. PICK id \in PossibleIDs : usedStreamID' = [usedStreamID EXCEPT ![p] = @ \cup {id}]
    BY <1>1, OpeningEffect
  <2>2. UNCHANGED <<unsentBuf, issued>>
    BY <1>1 DEF CreateStream, vars
  <2> QED
    BY <2>1, <2>2 DEF OnlyPossible, StreamTypeOK, TransportTypeOK
<1>2. CASE \/ \E s \in StreamID, length \in Sizes, fin \in Fins : SendData(p, s, length, fin)
           \/ FinishPass(p)
  BY <1>2, SendingIsPossible
<1>3. ASSUME NEW pkt \in inFlight[p], Receive(p, pkt)
      PROVE  OnlyPossible'
  <2>1. UNCHANGED <<unsentBuf, issued>>
    BY <1>3 DEF Receive, ReceiveStream, ReceiveOverLimit, ReceiveMaxData,
       ReceiveMaxStreamData, ReceiveStreamDataBlocked, ReceiveDataBlocked,
       ReceivePacket, vars
  <2>2. CASE ReceiveStream(p, pkt) \/ ReceiveOverLimit(p, pkt)
    <3>1. pkt.frame.stream \in PossibleIDs
      BY <2>2, OtherPeer
         DEF ReceiveStream, ReceiveOverLimit, OnlyPossible, PacketInv, KnownPackets
    <3>2. usedStreamID' = [usedStreamID EXCEPT ![p] = @ \cup {pkt.frame.stream}]
      BY <2>2 DEF ReceiveStream, ReceiveOverLimit, InsertStream
    <3> QED
      BY <2>1, <3>1, <3>2 DEF OnlyPossible, StreamTypeOK, TransportTypeOK
  <2>3. CASE ~(ReceiveStream(p, pkt) \/ ReceiveOverLimit(p, pkt))
    <3>1. UNCHANGED usedStreamID
      BY <1>3, <2>3 DEF Receive, ReceiveMaxData, ReceiveMaxStreamData,
         ReceiveStreamDataBlocked, ReceiveDataBlocked
    <3> QED
      BY <2>1, <3>1 DEF OnlyPossible
  <2> QED
    BY <2>2, <2>3
<1>4. CASE DeliverBuffered(p)
  BY <1>4 DEF DeliverBuffered, vars, OnlyPossible
<1>5. CASE RaiseLimits(p) \/ QueueReply(p) \/ PassStep(p)
  <2>1. Neutral
    BY <1>5, EndingIsNeutral
  <2>2. UNCHANGED usedStreamID
    BY <1>5 DEF RaiseLimits, QueueReply, PassStep, streamVars
  <2> QED
    BY <2>1, <2>2 DEF Neutral, NoDataMoves, OnlyPossible
<1> QED
  BY <1>1, <1>2, <1>3, <1>4, <1>5 DEF StreamEndpoint

\* Only CreateStream could overwrite a stream in use.
LEMMA OnlyOpeningOverwrites ==
  ASSUME StreamTypeOK, NEW p \in Peer, StreamEndpoint(p),
         \A bidirectional \in BOOLEAN : CreateStream(p, bidirectional) => EntriesKept
  PROVE  EntriesKept
<1>1. /\ streams \in [Peer -> [StreamID -> Stream]]
      /\ usedStreamID \in [Peer -> SUBSET StreamID]
  BY DEF StreamTypeOK, TransportTypeOK
<1>2. ASSUME NEW pkt \in inFlight[p], ReceiveStream(p, pkt) \/ ReceiveOverLimit(p, pkt)
      PROVE  EntriesKept
  <2> DEFINE s == pkt.frame.stream
  <2>1. /\ usedStreamID' = [usedStreamID EXCEPT ![p] = @ \cup {s}]
        /\ \E st : streams' = [streams EXCEPT ![p][s] = st]
    BY <1>2 DEF ReceiveStream, ReceiveOverLimit, InsertStream, ReceiveInOrder,
       ReceiveDisorder
  <2>2. PICK st : streams' = [streams EXCEPT ![p][s] = st]
    BY <2>1
  <2> HIDE DEF s
  <2>3. ASSUME NEW q \in Peer, NEW t \in usedStreamID[q],
               usedStreamID'[q] # usedStreamID[q]
        PROVE  streams'[q][t] = streams[q][t]
    <3>1. q = p /\ s \notin usedStreamID[p]
      BY <1>1, <2>1, <2>3
    <3>2. t # s /\ t \in StreamID
      BY <1>1, <3>1
    <3> QED
      BY <1>1, <2>2, <3>2
  <2> QED
    BY <2>3 DEF EntriesKept
<1>3. CASE UNCHANGED usedStreamID
  BY <1>3 DEF EntriesKept
<1>4. \/ \E bidirectional \in BOOLEAN : CreateStream(p, bidirectional)
      \/ \E pkt \in inFlight[p] : ReceiveStream(p, pkt) \/ ReceiveOverLimit(p, pkt)
      \/ UNCHANGED usedStreamID
  BY DEF StreamEndpoint, SendData, Receive, ReceiveMaxData, ReceiveMaxStreamData,
     ReceiveStreamDataBlocked, ReceiveDataBlocked, DeliverBuffered, RaiseLimits,
     QueueReply, PassStep, FinishPass, streamVars
<1> QED
  BY <1>2, <1>3, <1>4

\* A step that makes a stream overwrites none in use, if the keys are apart.
LEMMA StepKeepsEntries ==
  ASSUME KeysApart, StreamTypeOK, OnlyPossible, NEW p \in Peer, StreamEndpoint(p)
  PROVE  EntriesKept
<1>1. /\ streams \in [Peer -> [StreamID -> Stream]]
      /\ usedStreamID \in [Peer -> SUBSET StreamID]
  BY DEF StreamTypeOK, TransportTypeOK
<1>2. ASSUME NEW bidirectional \in BOOLEAN, CreateStream(p, bidirectional)
      PROVE  EntriesKept
  <2> DEFINE id(index) == GeneratedID(index, StreamType(p, bidirectional))
  <2>1. PICK index \in StreamID :
           /\ id(index) \in PossibleIDs /\ id(index) \notin usedStreamID[p]
           /\ index < MaxStreams[p]
           /\ usedStreamID' = [usedStreamID EXCEPT ![p] = @ \cup {id(index)}]
           /\ streams' = [streams EXCEPT ![p][index] = NewStream]
    BY <1>2, OpeningEffect
  <2>2. index \notin PossibleIDs \ {id(index)}
    BY <2>1 DEF KeysApart, PossibleIDs
  <2>3. index \notin usedStreamID[p]
    BY <2>1, <2>2 DEF OnlyPossible
  <2> HIDE DEF id
  <2> QED
    BY <1>1, <2>1, <2>3 DEF EntriesKept
<1> QED
  BY <1>2, OnlyOpeningOverwrites

\* Where the keys are apart, opening a stream never loses another one's state.
THEOREM OpeningKeepsEntries == KeysApart => (StreamSpec => [][EntriesKept]_allVars)
<1> SUFFICES ASSUME KeysApart PROVE StreamSpec => [][EntriesKept]_allVars
  OBVIOUS
<1>1. StreamInit => OnlyPossible
  BY DEF StreamInit, Init, OnlyPossible
<1>2. StreamTypeOK /\ PacketInv /\ OnlyPossible /\ [StreamNext]_allVars => OnlyPossible'
  <2> SUFFICES ASSUME StreamTypeOK, PacketInv, OnlyPossible, [StreamNext]_allVars
               PROVE  OnlyPossible'
    OBVIOUS
  <2>1. CASE UNCHANGED allVars
    BY <2>1 DEF allVars, vars, streamVars, OnlyPossible
  <2>2. CASE StreamNext
    BY <2>2, StepIsPossible DEF StreamNext
  <2> QED
    BY <2>1, <2>2
<1>3. StreamTypeOK /\ OnlyPossible /\ [StreamNext]_allVars => [EntriesKept]_allVars
  BY StepKeepsEntries DEF StreamNext
<1> QED
  BY <1>1, <1>2, <1>3, StreamTypeCorrect, StreamBookkeeping, PTL DEF StreamSpec

\* So there the streams deliver what they promise, unconditionally.
THEOREM ReliableWhereKeysApart ==
  KeysApart => (StreamSpec => ReliableSpec /\ []UnsentFollowsSent /\ []RecordedIsKept)
<1> SUFFICES ASSUME KeysApart
             PROVE  StreamSpec => ReliableSpec /\ []UnsentFollowsSent /\ []RecordedIsKept
  OBVIOUS
<1>1. StreamSpec => [][EntriesKept]_allVars
  BY OpeningKeepsEntries
<1> QED
  BY <1>1, StreamsAreReliable, UnsentFollows, RecordedKept, PTL

-----------------------------------------------------------------------------
(* FINs.                                                                   *)

\* The application says a FIN while nothing waits, or with an empty buffer behind one of
\* the same stream.
FinsComeLast ==
  \A p \in Peer : \A said \in finSaid'[p] \ finSaid[p] :
      \/ unsentBuf[p] = <<>>
      \/ /\ submitted'[p] = submitted[p]
         /\ unsentBuf[p][Len(unsentBuf[p])].stream = said[1]

\* Where a buffer, or a frame, ends.
EndOf(piece) == <<piece.stream, piece.first + piece.length - 1>>

\* Every FIN in the queue is where the application said, and one behind another buffer
\* is in an empty buffer that continues it.
FinsPlaced(queue, said) ==
  \A i \in DOMAIN queue :
      queue[i].fin =>
          /\ EndOf(queue[i]) \in said
          /\ i > 1 => /\ queue[i].length = 0
                      /\ queue[i - 1].stream = queue[i].stream
                      /\ Ends(queue, i - 1) = queue[i].first

\* The last buffer of a stream ends with the last byte submitted.
LastEnds(queue, total) ==
  \A i \in DOMAIN queue :
      (\A j \in DOMAIN queue : i < j => queue[j].stream # queue[i].stream)
          => Ends(queue, i) = total[queue[i].stream] + 1

\* A frame that carries a FIN ends where the application of p put one.
FinTrue(p, frame) == frame.fin => EndOf(frame) \in finSaid[p]

\* The invariant: of what waits at p, of what p issued and of what waits at the other end.
FinInv ==
  \A p \in Peer :
    /\ FinsPlaced(unsentBuf[p], finSaid[p])
    /\ LastEnds(unsentBuf[p], submitted[p])
    /\ \A pkt \in issued[p] : pkt.frame.type = "STREAM" => FinTrue(p, pkt.frame)
    /\ \A s \in StreamID : \A frame \in streams[Other(p)][s].buffered : FinTrue(p, frame)
    /\ finTold[Other(p)] \subseteq finSaid[p]

\* One more buffer leaves every FIN at the end of what was submitted,
LEMMA FinAppended ==
  ASSUME NEW queue \in Seq(UnsentBuffer), NEW said, NEW more, NEW s \in StreamID,
         NEW total \in [StreamID -> Nat], NEW length \in Nat, NEW fin \in BOOLEAN,
         FinsPlaced(queue, said), LastEnds(queue, total),
         said \subseteq more, fin => <<s, total[s] + length>> \in more,
         fin => \/ queue = <<>>
                \/ length = 0 /\ queue[Len(queue)].stream = s
  PROVE  LET buf == [stream |-> s, first |-> total[s] + 1, length |-> length, fin |-> fin]
         IN  /\ FinsPlaced(Append(queue, buf), more)
             /\ LastEnds(Append(queue, buf), [total EXCEPT ![s] = @ + length])
<1> DEFINE buf == [stream |-> s, first |-> total[s] + 1, length |-> length, fin |-> fin]
           long == Append(queue, buf)
           n == Len(queue)
           after == [total EXCEPT ![s] = @ + length]
<1>1. /\ n \in Nat /\ DOMAIN queue = 1 .. n /\ DOMAIN long = 1 .. n + 1
      /\ long[n + 1] = buf /\ \A i \in 1 .. n : long[i] = queue[i]
  OBVIOUS
<1>2. \A i \in 1 .. n : /\ queue[i].stream \in StreamID
                        /\ Ends(queue, i) = Ends(long, i) /\ Ends(queue, i) \in Nat
  BY <1>1, BufferTyped DEF Ends, UnsentBuffer
<1>3. /\ buf.stream = s /\ buf.first = total[s] + 1 /\ buf.length = length /\ buf.fin = fin
      /\ total[s] \in Nat
  OBVIOUS
<1> HIDE DEF long, n, buf
<1>4. FinsPlaced(long, more)
  <2> SUFFICES ASSUME NEW i \in DOMAIN long, long[i].fin
               PROVE  /\ EndOf(long[i]) \in more
                      /\ i > 1 => /\ long[i].length = 0
                                  /\ long[i - 1].stream = long[i].stream
                                  /\ Ends(long, i - 1) = long[i].first
    BY DEF FinsPlaced
  <2>1. CASE i \in 1 .. n
    <3>1. i > 1 => i - 1 \in 1 .. n
      BY <1>1, <2>1
    <3> QED
      BY <1>1, <1>2, <2>1, <3>1 DEF FinsPlaced
  <2>2. CASE i = n + 1
    <3>1. EndOf(long[i]) = <<s, total[s] + length>>
      <4>1. (total[s] + 1) + length - 1 = total[s] + length
        BY <1>3
      <4> QED
        BY <1>1, <1>3, <2>2, <4>1 DEF EndOf
    <3>2. ASSUME i > 1
          PROVE  /\ length = 0 /\ long[n].stream = s /\ Ends(long, n) = total[s] + 1
      <4>1. n \in 1 .. n /\ queue # <<>>
        BY <1>1, <2>2, <3>2 DEF n
      <4>2. length = 0 /\ queue[n].stream = s
        BY <1>1, <1>3, <2>2, <4>1 DEF n
      <4>3. Ends(queue, n) = total[s] + 1
        BY <1>1, <4>1, <4>2 DEF LastEnds
      <4> QED
        BY <1>1, <1>2, <4>1, <4>2, <4>3
    <3>3. i - 1 = n
      BY <1>1, <2>2
    <3> QED
      BY <1>1, <1>3, <2>2, <3>1, <3>2, <3>3
  <2> QED
    BY <1>1, <2>1, <2>2
<1>5. LastEnds(long, after)
  <2> SUFFICES ASSUME NEW i \in DOMAIN long,
                      \A j \in DOMAIN long : i < j => long[j].stream # long[i].stream
               PROVE  Ends(long, i) = after[long[i].stream] + 1
    BY DEF LastEnds
  <2>1. CASE i \in 1 .. n
    <3>1. queue[i].stream # s
      BY <1>1, <1>3, <2>1
    <3>2. \A j \in 1 .. n : i < j => queue[j].stream # queue[i].stream
      BY <1>1, <2>1
    <3> QED
      BY <1>1, <1>2, <2>1, <3>1, <3>2 DEF LastEnds
  <2>2. CASE i = n + 1
    BY <1>1, <1>3, <2>2 DEF Ends
  <2> QED
    BY <1>1, <2>1, <2>2
<1> QED
  BY <1>4, <1>5 DEF long, buf

\* and so does taking a frame from the front, which has the FIN that belongs there.
LEMMA FinCut ==
  ASSUME NEW p \in Peer, NEW queue \in Seq(UnsentBuffer), queue # <<>>, NEW said, NEW total,
         FinsPlaced(queue, said), LastEnds(queue, total)
  PROVE  /\ FinsPlaced(AfterChunk(queue), said)
         /\ LastEnds(AfterChunk(queue), total)
         /\ DataFrame(p, queue).fin => EndOf(DataFrame(p, queue)) \in said
<1> DEFINE n == Len(queue)
           sent == ChunkLength(queue)
           rest == AfterChunk(queue)
<1>1. /\ n \in Nat /\ n >= 1 /\ DOMAIN queue = 1 .. n /\ Head(queue) = queue[1]
  OBVIOUS
<1>2. \A i \in 1 .. n : /\ queue[i] \in UnsentBuffer
                        /\ queue[i].first \in Nat /\ queue[i].length \in Nat
  BY <1>1, BufferTyped
<1>3. sent \in Nat /\ sent <= queue[1].length
  BY <1>1, <1>2, SizeAssumption DEF ChunkLength, Smaller
<1> HIDE DEF sent
<1>4. DataFrame(p, queue).fin => EndOf(DataFrame(p, queue)) \in said
  <2> DEFINE frame == DataFrame(p, queue)
  <2>1. /\ frame.stream = queue[1].stream /\ frame.first = queue[1].first
        /\ frame.length = sent /\ frame.fin = ChunkFin(queue)
    BY <1>1 DEF DataFrame, sent
  <2> HIDE DEF frame
  <2> SUFFICES ASSUME ChunkFin(queue) PROVE EndOf(frame) \in said
    BY <2>1 DEF frame
  <2>2. sent = queue[1].length
    BY <1>1, <1>2, SizeAssumption DEF ChunkFin, ChunkLength, Smaller, sent
  <2>3. EndOf(frame) = EndOf(queue[1])
    BY <2>1, <2>2 DEF EndOf
  <2>4. CASE n = 1
    <3>1. queue[1].fin
      BY <1>1, <2>4 DEF ChunkFin
    <3> QED
      BY <1>1, <2>3, <3>1 DEF FinsPlaced
  <2>5. CASE n > 1
    <3>1. queue[2].fin /\ 2 \in 1 .. n
      BY <1>1, <2>5 DEF ChunkFin
    <3>2. /\ EndOf(queue[2]) \in said /\ queue[2].length = 0
          /\ queue[1].stream = queue[2].stream /\ Ends(queue, 1) = queue[2].first
      <4>1. 2 > 1 /\ 2 - 1 = 1
        OBVIOUS
      <4> QED
        BY <1>1, <3>1, <4>1 DEF FinsPlaced
    <3>3. EndOf(queue[1]) = EndOf(queue[2])
      BY <1>1, <1>2, <3>1, <3>2 DEF EndOf, Ends
    <3> QED
      BY <2>3, <3>2, <3>3
  <2> QED
    BY <1>1, <2>4, <2>5
<1>5. CASE Head(queue).length <= sent
  <2>1. rest = Tail(queue)
    BY <1>5 DEF AfterChunk, sent
  <2>2. DOMAIN rest = 1 .. n - 1 /\ \A i \in 1 .. n - 1 : rest[i] = queue[i + 1]
    BY <1>1, <2>1
  <2> HIDE DEF rest
  <2>3. \A i \in 1 .. n - 1 : /\ i + 1 \in 1 .. n /\ Ends(rest, i) = Ends(queue, i + 1)
    BY <1>1, <2>2 DEF Ends
  <2>4. FinsPlaced(rest, said)
    <3> SUFFICES ASSUME NEW i \in 1 .. n - 1, rest[i].fin
                 PROVE  /\ EndOf(rest[i]) \in said
                        /\ i > 1 => /\ rest[i].length = 0
                                    /\ rest[i - 1].stream = rest[i].stream
                                    /\ Ends(rest, i - 1) = rest[i].first
      BY <2>2 DEF FinsPlaced
    <3>1. i + 1 \in DOMAIN queue /\ i + 1 > 1 /\ (i + 1) - 1 = i
      BY <1>1
    <3>2. /\ EndOf(queue[i + 1]) \in said /\ queue[i + 1].length = 0
          /\ queue[i].stream = queue[i + 1].stream
          /\ Ends(queue, i) = queue[i + 1].first
      BY <2>2, <3>1 DEF FinsPlaced
    <3>3. i > 1 => i - 1 \in 1 .. n - 1 /\ (i - 1) + 1 = i
      BY <1>1
    <3> QED
      BY <2>2, <2>3, <3>2, <3>3
  <2>5. LastEnds(rest, total)
    <3> SUFFICES ASSUME NEW i \in 1 .. n - 1,
                        \A j \in 1 .. n - 1 : i < j => rest[j].stream # rest[i].stream
                 PROVE  Ends(rest, i) = total[rest[i].stream] + 1
      BY <2>2 DEF LastEnds
    <3>1. ASSUME NEW j \in 1 .. n, i + 1 < j
          PROVE  queue[j].stream # queue[i + 1].stream
      <4>1. j - 1 \in 1 .. n - 1 /\ i < j - 1 /\ (j - 1) + 1 = j
        BY <1>1, <3>1
      <4> QED
        BY <2>2, <4>1
    <3>2. Ends(queue, i + 1) = total[queue[i + 1].stream] + 1
      BY <1>1, <2>3, <3>1 DEF LastEnds
    <3> QED
      BY <2>2, <2>3, <3>2
  <2> QED
    BY <1>4, <2>4, <2>5 DEF rest
<1>6. CASE ~(Head(queue).length <= sent)
  <2> DEFINE cut == [queue[1] EXCEPT !.length = @ - sent, !.first = @ + sent]
  <2>1. rest = [queue EXCEPT ![1] = cut]
    BY <1>1, <1>6 DEF AfterChunk, sent
  <2>2. /\ cut.stream = queue[1].stream /\ cut.fin = queue[1].fin
        /\ cut.first + cut.length = queue[1].first + queue[1].length
        /\ cut.first + cut.length - 1 = queue[1].first + queue[1].length - 1
    <3>1. queue[1] \in UnsentBuffer /\ sent \in Int
      BY <1>1, <1>2, <1>3
    <3>2. /\ cut.stream = queue[1].stream /\ cut.fin = queue[1].fin
          /\ cut.length = queue[1].length - sent /\ cut.first = queue[1].first + sent
      BY <3>1 DEF UnsentBuffer
    <3>3. queue[1].length \in Int /\ queue[1].first \in Int
      BY <3>1 DEF UnsentBuffer
    <3> HIDE DEF cut, sent
    <3> QED
      BY <3>1, <3>2, <3>3
  <2> HIDE DEF cut
  <2>3. /\ DOMAIN rest = 1 .. n /\ rest[1] = cut
        /\ \A i \in 1 .. n : i # 1 => rest[i] = queue[i]
    BY <1>1, <2>1
  <2> HIDE DEF rest
  <2>4. ASSUME NEW i \in 1 .. n
        PROVE  /\ rest[i].stream = queue[i].stream /\ rest[i].fin = queue[i].fin
               /\ Ends(rest, i) = Ends(queue, i) /\ EndOf(rest[i]) = EndOf(queue[i])
    <3>1. CASE i = 1
      BY <1>1, <2>2, <2>3, <3>1 DEF Ends, EndOf
    <3>2. CASE i # 1
      BY <1>1, <2>3, <3>2 DEF Ends, EndOf
    <3> QED
      BY <3>1, <3>2
  <2>5. FinsPlaced(rest, said)
    <3> SUFFICES ASSUME NEW i \in 1 .. n, rest[i].fin
                 PROVE  /\ EndOf(rest[i]) \in said
                        /\ i > 1 => /\ rest[i].length = 0
                                    /\ rest[i - 1].stream = rest[i].stream
                                    /\ Ends(rest, i - 1) = rest[i].first
      BY <2>3 DEF FinsPlaced
    <3>1. i > 1 => i - 1 \in 1 .. n /\ rest[i] = queue[i]
      BY <1>1, <2>3
    <3> QED
      BY <1>1, <2>4, <3>1 DEF FinsPlaced
  <2>6. LastEnds(rest, total)
    BY <1>1, <2>3, <2>4 DEF LastEnds
  <2> QED
    BY <1>4, <2>5, <2>6 DEF rest
<1> QED
  BY <1>5, <1>6

\* A step that moves no byte keeps the invariant.
LEMMA QuietKeepsFins ==
  ASSUME FinInv, UNCHANGED <<unsentBuf, submitted, finSaid, finTold>>,
         \A q \in Peer : \A pkt \in issued'[q] :
             pkt.frame.type = "STREAM" => pkt \in issued[q],
         \A q \in Peer, s \in StreamID :
             streams'[q][s].buffered \subseteq streams[q][s].buffered
  PROVE  FinInv'
<1> USE OtherPeer
<1> SUFFICES ASSUME NEW p \in Peer
             PROVE  /\ FinsPlaced(unsentBuf[p], finSaid[p])'
                    /\ LastEnds(unsentBuf[p], submitted[p])'
                    /\ \A pkt \in issued'[p] : pkt.frame.type = "STREAM" => FinTrue(p, pkt.frame)'
                    /\ \A s \in StreamID : \A frame \in streams'[Other(p)][s].buffered :
                           FinTrue(p, frame)'
                    /\ finTold'[Other(p)] \subseteq finSaid'[p]
  BY DEF FinInv
<1>1. FinsPlaced(unsentBuf[p], finSaid[p])' /\ LastEnds(unsentBuf[p], submitted[p])'
  BY DEF FinInv
<1>2. \A frame : FinTrue(p, frame)' <=> FinTrue(p, frame)
  BY DEF FinTrue
<1> QED
  BY <1>1, <1>2 DEF FinInv

\* The buffers a step looks at.
LEMMA SendingPlacesFins ==
  ASSUME StreamTypeOK, FinInv, FinsComeLast, NEW p \in Peer,
         \/ \E s \in StreamID, length \in Sizes, fin \in Fins :
                SendData(p, s, length, fin)
         \/ FinishPass(p)
  PROVE  /\ \A q \in Peer : q # p => submitted'[q] = submitted[q] /\ finSaid'[q] = finSaid[q]
         /\ finSaid[p] \subseteq finSaid'[p]
         /\ UNCHANGED <<finTold, recPktNum>>
         /\ \E queue \in Seq(UnsentBuffer) :
               /\ FinsPlaced(queue, finSaid'[p])
               /\ LastEnds(queue, submitted'[p])
               /\ Cuts(p, queue) \/ Keeps(p, queue)
<1>1. /\ unsentBuf[p] \in Seq(UnsentBuffer)
      /\ submitted \in [Peer -> [StreamID -> Nat]]
      /\ finSaid \in [Peer -> SUBSET (StreamID \X Nat)]
  BY DEF StreamTypeOK, TransportTypeOK, HistoryTypeOK
<1>2. FinsPlaced(unsentBuf[p], finSaid[p]) /\ LastEnds(unsentBuf[p], submitted[p])
  BY DEF FinInv
<1>3. ASSUME NEW s \in StreamID, NEW length \in Sizes, NEW fin \in Fins,
             SendData(p, s, length, fin)
      PROVE  /\ \A q \in Peer : q # p => submitted'[q] = submitted[q] /\ finSaid'[q] = finSaid[q]
             /\ finSaid[p] \subseteq finSaid'[p]
             /\ UNCHANGED <<finTold, recPktNum>>
             /\ \E queue \in Seq(UnsentBuffer) :
                   /\ FinsPlaced(queue, finSaid'[p])
                   /\ LastEnds(queue, submitted'[p])
                   /\ Cuts(p, queue) \/ Keeps(p, queue)
  <2> DEFINE buf == [stream |-> s, first |-> submitted[p][s] + 1, length |-> length,
                     fin |-> fin]
             queue == Append(unsentBuf[p], buf)
  <2>1. length \in Nat /\ fin \in BOOLEAN
    BY SizeAssumption
  <2>2. buf \in UnsentBuffer /\ submitted[p][s] \in Nat
    BY <1>1, <2>1 DEF UnsentBuffer
  <2>3. queue \in Seq(UnsentBuffer)
    BY <1>1, <2>2
  <2>4. /\ submitted' = [submitted EXCEPT ![p][s] = @ + length]
        /\ finSaid' = [finSaid EXCEPT ![p] =
                          IF fin THEN @ \cup {<<s, submitted[p][s] + length>>} ELSE @]
        /\ \A said \in finSaid[p] : said[1] # s
        /\ UNCHANGED finTold
    BY <1>3 DEF SendData
  <2>5. submitted'[p] = [submitted[p] EXCEPT ![s] = @ + length]
    BY <1>1, <2>4
  <2>6. /\ finSaid'[p] = IF fin THEN finSaid[p] \cup {<<s, submitted[p][s] + length>>}
                                ELSE finSaid[p]
        /\ \A q \in Peer : q # p => submitted'[q] = submitted[q] /\ finSaid'[q] = finSaid[q]
    BY <1>1, <2>4
  <2>7. ASSUME fin
        PROVE  \/ unsentBuf[p] = <<>>
               \/ length = 0 /\ unsentBuf[p][Len(unsentBuf[p])].stream = s
    <3>1. <<s, submitted[p][s] + length>> \in finSaid'[p] \ finSaid[p]
      BY <2>4, <2>6, <2>7
    <3>2. <<s, submitted[p][s] + length>>[1] = s
      OBVIOUS
    <3>3. \/ unsentBuf[p] = <<>>
          \/ /\ submitted'[p] = submitted[p]
             /\ unsentBuf[p][Len(unsentBuf[p])].stream = s
      BY <3>1, <3>2 DEF FinsComeLast
    <3>4. submitted'[p] = submitted[p] => length = 0
      <4>1. submitted'[p][s] = submitted[p][s] + length
        BY <1>1, <2>5
      <4> QED
        BY <2>1, <2>2, <4>1
    <3> QED
      BY <3>3, <3>4
  <2>8. FinsPlaced(queue, finSaid'[p]) /\ LastEnds(queue, submitted'[p])
    <3>1. submitted[p] \in [StreamID -> Nat]
      BY <1>1
    <3>2. fin => <<s, submitted[p][s] + length>> \in finSaid'[p]
      BY <2>6
    <3>3. finSaid[p] \subseteq finSaid'[p]
      BY <2>6
    <3>4. LET piece == [stream |-> s, first |-> submitted[p][s] + 1, length |-> length,
                        fin |-> fin]
          IN  /\ FinsPlaced(Append(unsentBuf[p], piece), finSaid'[p])
              /\ LastEnds(Append(unsentBuf[p], piece),
                          [submitted[p] EXCEPT ![s] = @ + length])
      <4> HIDE DEF buf, queue
      <4> QED
        BY <1>1, <1>2, <2>1, <2>7, <3>1, <3>2, <3>3, FinAppended
    <3> QED
      BY <2>5, <3>4
  <2>9. \/ /\ TakeChunk(p, queue)
           /\ QueuePacket(p, DataFrame(p, queue))
        \/ /\ AskForCredit(p, queue)
           /\ QueuePacket(p, CreditRequest(p, queue))
        \/ LeaveWaiting(p, queue) /\ UNCHANGED vars
    BY <1>3 DEF SendData
  <2> HIDE DEF queue
  <2>10. \/ TakeChunk(p, queue) /\ AddPacket(p, DataFrame(p, queue))
         \/ AskForCredit(p, queue) /\ AddPacket(p, CreditRequest(p, queue))
         \/ LeaveWaiting(p, queue) /\ UNCHANGED issued
    BY <2>9 DEF QueuePacket, vars
  <2>11. UNCHANGED recPktNum
    BY <2>9 DEF QueuePacket, vars, connectionVars
  <2>12. Cuts(p, queue) \/ Keeps(p, queue)
    BY <2>10, <2>11, TakingEffect
  <2> QED
    BY <2>3, <2>4, <2>6, <2>8, <2>11, <2>12
<1>4. CASE FinishPass(p)
  <2> DEFINE queue == unsentBuf[p]
  <2>1. UNCHANGED <<submitted, finSaid, finTold>>
    BY <1>4 DEF FinishPass, historyVars
  <2>2. \/ /\ TakeChunk(p, queue)
           /\ EndPassWithPacket(p, DataFrame(p, queue))
        \/ /\ AskForCredit(p, queue)
           /\ EndPassWithPacket(p, CreditRequest(p, queue))
        \/ LeaveWaiting(p, queue) /\ EndPass(p)
    BY <1>4 DEF FinishPass
  <2> HIDE DEF queue
  <2>3. \/ TakeChunk(p, queue) /\ AddPacket(p, DataFrame(p, queue))
        \/ AskForCredit(p, queue) /\ AddPacket(p, CreditRequest(p, queue))
        \/ LeaveWaiting(p, queue) /\ UNCHANGED issued
    BY <2>2 DEF EndPassWithPacket, EndPass
  <2>4. UNCHANGED recPktNum
    BY <2>2 DEF EndPassWithPacket, EndPass, connectionVars
  <2>5. Cuts(p, queue) \/ Keeps(p, queue)
    BY <2>3, <2>4, TakingEffect
  <2> QED
    BY <1>1, <1>2, <2>1, <2>4, <2>5 DEF queue
<1> QED
  BY <1>3, <1>4

\* Sending keeps the invariant.
LEMMA SendingKeepsFins ==
  ASSUME StreamTypeOK, FinInv, FinsComeLast, NEW p \in Peer,
         \/ \E s \in StreamID, length \in Sizes, fin \in Fins :
                SendData(p, s, length, fin)
         \/ FinishPass(p)
  PROVE  FinInv'
<1> USE OtherPeer
<1>1. PICK queue \in Seq(UnsentBuffer) :
          /\ FinsPlaced(queue, finSaid'[p])
          /\ LastEnds(queue, submitted'[p])
          /\ Cuts(p, queue) \/ Keeps(p, queue)
  BY SendingPlacesFins
<1>2. /\ \A q \in Peer : q # p => submitted'[q] = submitted[q] /\ finSaid'[q] = finSaid[q]
      /\ finSaid[p] \subseteq finSaid'[p]
      /\ UNCHANGED finTold
  BY SendingPlacesFins
<1>3. /\ unsentBuf \in [Peer -> Seq(UnsentBuffer)]
      /\ streams \in [Peer -> [StreamID -> Stream]]
      /\ issued \in [Peer -> SUBSET Packet]
  BY DEF StreamTypeOK, TransportTypeOK, TypeOK
<1>4. \A q \in Peer : /\ finSaid[q] \subseteq finSaid'[q]
                      /\ \A frame : FinTrue(q, frame) => FinTrue(q, frame)'
  BY <1>2 DEF FinTrue
<1>5. /\ \A q \in Peer : q # p => unsentBuf'[q] = unsentBuf[q]
      /\ FinsPlaced(unsentBuf'[p], finSaid'[p]) /\ LastEnds(unsentBuf'[p], submitted'[p])
      /\ \A q \in Peer : \A pkt \in issued'[q] :
            pkt.frame.type = "STREAM" =>
                pkt \in issued[q] \/ (q = p /\ FinTrue(q, pkt.frame)')
      /\ \A q \in Peer, s \in StreamID :
            streams'[q][s].buffered = streams[q][s].buffered
  <2>1. CASE Cuts(p, queue)
    <3>1. /\ queue # <<>> /\ unsentBuf' = [unsentBuf EXCEPT ![p] = AfterChunk(queue)]
          /\ issued' = [issued EXCEPT ![p] = @ \cup {NewPacket(p, DataFrame(p, queue))}]
      BY <2>1 DEF Cuts
    <3>2. /\ FinsPlaced(AfterChunk(queue), finSaid'[p])
          /\ LastEnds(AfterChunk(queue), submitted'[p])
          /\ DataFrame(p, queue).fin => EndOf(DataFrame(p, queue)) \in finSaid'[p]
      BY <1>1, <3>1, FinCut
    <3>3. NewPacket(p, DataFrame(p, queue)).frame = DataFrame(p, queue)
      BY DEF NewPacket
    <3>4. \A q \in Peer : \A pkt \in issued'[q] :
             pkt \in issued[q] \/ (q = p /\ pkt.frame = DataFrame(p, queue))
      BY <1>3, <3>1, <3>3
    <3>5. Head(queue).stream \in StreamID
      BY <3>1, CuttingTyped
    <3>6. \E n : streams' = [streams EXCEPT ![p][Head(queue).stream].offset = n]
      BY <2>1 DEF Cuts
    <3>7. \A q \in Peer, s \in StreamID : streams'[q][s].buffered = streams[q][s].buffered
      BY <1>3, <3>5, <3>6, FieldChanged
    <3> QED
      BY <1>3, <3>1, <3>2, <3>4, <3>7 DEF FinTrue
  <2>2. CASE Keeps(p, queue)
    BY <1>1, <1>3, <2>2 DEF Keeps, NoDataMoves
  <2> QED
    BY <1>1, <2>1, <2>2
<1> SUFFICES ASSUME NEW q \in Peer
             PROVE  /\ FinsPlaced(unsentBuf[q], finSaid[q])'
                    /\ LastEnds(unsentBuf[q], submitted[q])'
                    /\ \A pkt \in issued'[q] : pkt.frame.type = "STREAM" => FinTrue(q, pkt.frame)'
                    /\ \A s \in StreamID : \A frame \in streams'[Other(q)][s].buffered :
                           FinTrue(q, frame)'
                    /\ finTold'[Other(q)] \subseteq finSaid'[q]
  BY DEF FinInv
<1>6. FinsPlaced(unsentBuf'[q], finSaid'[q]) /\ LastEnds(unsentBuf'[q], submitted'[q])
  <2>1. CASE q = p
    BY <1>5, <2>1
  <2>2. CASE q # p
    <3>1. /\ unsentBuf'[q] = unsentBuf[q] /\ finSaid'[q] = finSaid[q]
          /\ submitted'[q] = submitted[q]
      BY <1>2, <1>5, <2>2
    <3>2. FinsPlaced(unsentBuf[q], finSaid[q]) /\ LastEnds(unsentBuf[q], submitted[q])
      BY DEF FinInv
    <3> QED
      BY <3>1, <3>2
  <2> QED
    BY <2>1, <2>2
<1>7. \A pkt \in issued'[q] : pkt.frame.type = "STREAM" => FinTrue(q, pkt.frame)'
  BY <1>4, <1>5 DEF FinInv
<1>8. \A s \in StreamID : \A frame \in streams'[Other(q)][s].buffered : FinTrue(q, frame)'
  BY <1>4, <1>5 DEF FinInv
<1>9. finTold'[Other(q)] \subseteq finSaid'[q]
  BY <1>2, <1>4 DEF FinInv
<1> QED
  BY <1>6, <1>7, <1>8, <1>9

\* So does handing bytes to the callback, and keeping them for later.
LEMMA ReceivingKeepsFins ==
  ASSUME StreamTypeOK, FinInv, NEW p \in Peer, NEW frame, NEW s \in StreamID, NEW st,
         FinTrue(Other(p), frame), UNCHANGED <<unsentBuf, submitted, finSaid, issued>>,
         \/ Deliver(p, frame)
         \/ UNCHANGED finTold,
         streams' = [streams EXCEPT ![p][s] = st],
         st.buffered \subseteq streams[p][s].buffered \cup {frame}
  PROVE  FinInv'
<1> USE OtherPeer
<1>1. /\ streams \in [Peer -> [StreamID -> Stream]]
      /\ finTold \in [Peer -> SUBSET (StreamID \X Nat)]
  BY DEF StreamTypeOK, TransportTypeOK, HistoryTypeOK
<1>2. \A q \in Peer : \A f : FinTrue(q, f)' <=> FinTrue(q, f)
  BY DEF FinTrue
<1>3. \A q \in Peer, t \in StreamID : \A f \in streams'[q][t].buffered :
         f \in streams[q][t].buffered \/ (q = p /\ f = frame)
  BY <1>1
<1>4. \A q \in Peer : finTold'[q] \subseteq finTold[q] \cup
         (IF q = p /\ frame.fin THEN {EndOf(frame)} ELSE {})
  BY <1>1 DEF Deliver, EndOf
<1> SUFFICES ASSUME NEW q \in Peer
             PROVE  /\ FinsPlaced(unsentBuf[q], finSaid[q])'
                    /\ LastEnds(unsentBuf[q], submitted[q])'
                    /\ \A pkt \in issued'[q] : pkt.frame.type = "STREAM" => FinTrue(q, pkt.frame)'
                    /\ \A t \in StreamID : \A f \in streams'[Other(q)][t].buffered :
                           FinTrue(q, f)'
                    /\ finTold'[Other(q)] \subseteq finSaid'[q]
  BY DEF FinInv
<1>5. FinsPlaced(unsentBuf[q], finSaid[q])' /\ LastEnds(unsentBuf[q], submitted[q])'
  BY DEF FinInv
<1>6. \A pkt \in issued'[q] : pkt.frame.type = "STREAM" => FinTrue(q, pkt.frame)'
  BY <1>2 DEF FinInv
<1>7. Other(q) = p => Other(p) = q
  OBVIOUS
<1>8. \A t \in StreamID : \A f \in streams'[Other(q)][t].buffered : FinTrue(q, f)'
  BY <1>2, <1>3, <1>7 DEF FinInv
<1>9. finTold'[Other(q)] \subseteq finSaid'[q]
  BY <1>4, <1>7 DEF FinInv, FinTrue
<1> QED
  BY <1>5, <1>6, <1>8, <1>9

\* A STREAM frame that arrives was issued by the other end.
LEMMA ArrivingKeepsFins ==
  ASSUME StreamTypeOK, PacketInv, FinInv, NEW p \in Peer, NEW pkt \in inFlight[p],
         ReceiveStream(p, pkt)
  PROVE  FinInv'
<1> USE OtherPeer
<1> DEFINE frame == pkt.frame
           s == frame.stream
           found == FoundStream(p, s)
<1>1. pkt \in issued[Other(p)] /\ frame.type = "STREAM"
  BY DEF ReceiveStream, PacketInv, KnownPackets
<1>2. s \in StreamID
  BY <1>1, IssuedFrame DEF StreamTypeOK
<1>3. found \in Stream /\ found.buffered \subseteq streams[p][s].buffered
  BY <1>2, FoundStreamTyped, NewStreamEmpty DEF StreamTypeOK, FoundStream
<1>4. FinTrue(Other(p), frame)
  BY <1>1 DEF FinInv
<1>5. UNCHANGED <<unsentBuf, submitted, finSaid, issued>>
  BY DEF ReceiveStream, ReceiveInOrder, ReceiveDisorder, Deliver, historyVars, ReceivePacket
<1>6. CASE ReceiveInOrder(p, pkt)
  <2> DEFINE st == [found EXCEPT !.expOffset = @ + frame.length]
  <2>1. Deliver(p, frame) /\ streams' = [streams EXCEPT ![p][s] = st]
    BY <1>6 DEF ReceiveInOrder
  <2>2. st.buffered \subseteq streams[p][s].buffered \cup {frame}
    BY <1>3 DEF Stream
  <2> HIDE DEF frame, s, found, st
  <2> QED
    BY <1>2, <1>4, <1>5, <2>1, <2>2, ReceivingKeepsFins
<1>7. CASE ReceiveDisorder(p, pkt)
  <2> DEFINE st == [found EXCEPT !.buffered = @ \cup {frame}]
  <2>1. UNCHANGED finTold /\ streams' = [streams EXCEPT ![p][s] = st]
    BY <1>7 DEF ReceiveDisorder, historyVars
  <2>2. st.buffered \subseteq streams[p][s].buffered \cup {frame}
    BY <1>3 DEF Stream
  <2> HIDE DEF frame, s, found, st
  <2> QED
    BY <1>2, <1>4, <1>5, <2>1, <2>2, ReceivingKeepsFins
<1> QED
  BY <1>6, <1>7 DEF ReceiveStream

\* So was one that waited.
LEMMA WaitedKeepsFins ==
  ASSUME StreamTypeOK, FinInv, NEW p \in Peer, DeliverBuffered(p)
  PROVE  FinInv'
<1> USE OtherPeer
<1> DEFINE s == current[p]
<1>1. PICK frame \in NextInBuffer(p, s) :
          /\ Deliver(p, frame)
          /\ streams' = [streams EXCEPT ![p][s].buffered = @ \ {frame},
                                        ![p][s].expOffset = @ + frame.length]
  BY DEF DeliverBuffered
<1>2. s \in StreamID
  BY DEF DeliverBuffered, StreamTypeOK, TransportTypeOK
<1>3. FinTrue(Other(p), frame)
  BY <1>1, <1>2 DEF NextInBuffer, FinInv
<1>4. UNCHANGED <<unsentBuf, submitted, finSaid, issued>>
  BY <1>1 DEF DeliverBuffered, Deliver, vars
<1>5. \E st : /\ streams' = [streams EXCEPT ![p][s] = st]
              /\ st.buffered \subseteq streams[p][s].buffered \cup {frame}
  <2> DEFINE st == [streams[p][s] EXCEPT !.buffered = @ \ {frame},
                                         !.expOffset = @ + frame.length]
  <2>1. streams \in [Peer -> [StreamID -> Stream]]
    BY DEF StreamTypeOK, TransportTypeOK
  <2>2. streams[p][s] \in Stream
    BY <1>2, <2>1
  <2>3. st.buffered = streams[p][s].buffered \ {frame}
    BY <2>2 DEF Stream
  <2>4. streams' = [streams EXCEPT ![p][s] = st]
    <3> HIDE DEF s
    <3> QED
      BY <1>1, <1>2, <2>1
  <2> QED
    BY <2>3, <2>4
<1> HIDE DEF s
<1> QED
  BY <1>1, <1>2, <1>3, <1>4, <1>5, ReceivingKeepsFins

\* The other steps move no byte.
LEMMA RestKeepsFins ==
  ASSUME StreamTypeOK, PacketInv, FinInv, NEW p \in Peer,
         \/ \E bidirectional \in BOOLEAN : CreateStream(p, bidirectional)
         \/ \E pkt \in inFlight[p] : Receive(p, pkt) /\ ~ReceiveStream(p, pkt)
         \/ RaiseLimits(p) \/ QueueReply(p) \/ PassStep(p)
  PROVE  FinInv'
<1>0. streams \in [Peer -> [StreamID -> Stream]]
  BY DEF StreamTypeOK, TransportTypeOK
<1>1. CASE \E bidirectional \in BOOLEAN : CreateStream(p, bidirectional)
  <2>1. PICK index \in StreamID : streams' = [streams EXCEPT ![p][index] = NewStream]
    BY <1>1 DEF CreateStream
  <2>2. \A q \in Peer, s \in StreamID :
           streams'[q][s] = streams[q][s] \/ streams'[q][s] = NewStream
    BY <1>0, <2>1
  <2>3. UNCHANGED <<unsentBuf, submitted, finSaid, finTold, issued>>
    BY <1>1 DEF CreateStream, historyVars, vars
  <2> QED
    BY <2>2, <2>3, NewStreamEmpty, QuietKeepsFins
<1>2. ASSUME NEW pkt \in inFlight[p], Receive(p, pkt), ~ReceiveStream(p, pkt)
      PROVE  FinInv'
  <2> DEFINE s == pkt.frame.stream
  <2>1. UNCHANGED <<unsentBuf, submitted, finSaid, finTold, issued>>
    BY <1>2 DEF Receive, ReceiveOverLimit, ReceiveMaxData, ReceiveMaxStreamData,
       ReceiveStreamDataBlocked, ReceiveDataBlocked, ReceivePacket, historyVars, vars
  <2>2. \A q \in Peer, t \in StreamID :
           streams'[q][t].buffered \subseteq streams[q][t].buffered
    <3>1. CASE ReceiveOverLimit(p, pkt)
      <4>1. streams' = [streams EXCEPT ![p][s] = FoundStream(p, s)]
        BY <3>1 DEF ReceiveOverLimit, InsertStream
      <4>2. \A q \in Peer, t \in StreamID :
               streams'[q][t] = streams[q][t] \/ streams'[q][t] = NewStream
        BY <1>0, <4>1 DEF FoundStream
      <4> QED
        BY <4>2, NewStreamEmpty
    <3>2. CASE ReceiveMaxData(p, pkt) \/ ReceiveDataBlocked(p, pkt)
      BY <3>2 DEF ReceiveMaxData, ReceiveDataBlocked
    <3>3. CASE ReceiveMaxStreamData(p, pkt) \/ ReceiveStreamDataBlocked(p, pkt)
      <4>1. s \in StreamID
        BY <3>3, LimitStream
           DEF StreamTypeOK, ReceiveMaxStreamData, ReceiveStreamDataBlocked
      <4>2. PICK n : \/ streams' = [streams EXCEPT ![p][s].maxRecv = n]
                     \/ streams' = [streams EXCEPT ![p][s].maxSend = n]
        BY <3>3 DEF ReceiveMaxStreamData, ReceiveStreamDataBlocked
      <4> HIDE DEF s
      <4>3. CASE streams' = [streams EXCEPT ![p][s].maxRecv = n]
        BY <1>0, <4>1, <4>3, FieldChanged
      <4>4. CASE streams' = [streams EXCEPT ![p][s].maxSend = n]
        BY <1>0, <4>1, <4>4, FieldChanged
      <4> QED
        BY <4>2, <4>3, <4>4
    <3> QED
      BY <1>2, <3>1, <3>2, <3>3 DEF Receive
  <2> QED
    BY <2>1, <2>2, QuietKeepsFins
<1>3. CASE RaiseLimits(p) \/ QueueReply(p) \/ PassStep(p)
  <2>1. UNCHANGED <<unsentBuf, submitted, finSaid, finTold>>
    BY <1>3 DEF RaiseLimits, QueueReply, PassStep, streamVars, historyVars
  <2>2. NoDataMoves
    BY <1>3, EndingIsNeutral DEF Neutral
  <2>3. \A q \in Peer, t \in StreamID :
           streams'[q][t].buffered = streams[q][t].buffered
    BY <1>3, EndingIsNeutral DEF Neutral, SamePart
  <2> QED
    BY <2>1, <2>2, <2>3, QuietKeepsFins DEF NoDataMoves
<1> QED
  BY <1>1, <1>2, <1>3

\* When the FIN that an application says comes last of what waits, the other end's
\* callback gets a FIN only where it was said, however the buffers are cut and whatever
\* the network does to the packets (connection.hh:997-1013 reads the flag of the buffer
\* behind the one it erases).
THEOREM FinsAreTrue == StreamSpec /\ [][FinsComeLast]_allVars => []FinTruth
<1>1. StreamInit => FinInv
  BY OtherPeer DEF StreamInit, Init, FinInv, FinsPlaced, LastEnds, DefaultStream
<1>2. StreamTypeOK /\ PacketInv /\ FinInv /\ [StreamNext]_allVars /\ [FinsComeLast]_allVars
         => FinInv'
  <2> SUFFICES ASSUME StreamTypeOK, PacketInv, FinInv, [StreamNext]_allVars,
                      [FinsComeLast]_allVars
               PROVE  FinInv'
    OBVIOUS
  <2>1. CASE UNCHANGED allVars
    <3>1. UNCHANGED <<streams, unsentBuf, submitted, finSaid, finTold, issued>>
      BY <2>1 DEF allVars, streamVars, historyVars, vars
    <3> QED
      BY <3>1, QuietKeepsFins
  <2>2. ASSUME NEW p \in Peer, StreamEndpoint(p), FinsComeLast PROVE FinInv'
    <3>1. CASE \/ \E s \in StreamID, length \in Sizes, fin \in Fins :
                      SendData(p, s, length, fin)
               \/ FinishPass(p)
      BY <2>2, <3>1, SendingKeepsFins
    <3>2. ASSUME NEW pkt \in inFlight[p], Receive(p, pkt)
          PROVE  FinInv'
      BY <3>2, ArrivingKeepsFins, RestKeepsFins
    <3>3. CASE DeliverBuffered(p)
      BY <3>3, WaitedKeepsFins
    <3>4. CASE \/ \E bidirectional \in BOOLEAN : CreateStream(p, bidirectional)
               \/ RaiseLimits(p) \/ QueueReply(p) \/ PassStep(p)
      BY <3>4, RestKeepsFins
    <3> QED
      BY <2>2, <3>1, <3>2, <3>3, <3>4 DEF StreamEndpoint
  <2> QED
    BY <2>1, <2>2 DEF StreamNext
<1>3. FinInv => FinTruth
  <2> SUFFICES ASSUME FinInv, NEW p \in Peer PROVE finTold[p] \subseteq finSaid[Other(p)]
    BY DEF FinTruth
  <2>1. Other(p) \in Peer /\ Other(Other(p)) = p
    BY OtherPeer
  <2> QED
    BY <2>1 DEF FinInv
<1> QED
  BY <1>1, <1>2, <1>3, StreamTypeCorrect, StreamBookkeeping, PTL DEF StreamSpec

-----------------------------------------------------------------------------
(* Senders and the limits of their receivers.                              *)

\* A stream that is not in use was granted no more than InsertStream will give it: no
\* request for credit overtook the stream's first frame and raised what is then reset.
UnusedAtDefault ==
  \A p \in Peer, s \in StreamID :
      s \notin usedStreamID[p] => streams[p][s].maxRecv <= MAX_STREAM_OFFSET

\* Bytes are sent only on streams that have their default limit at the other end, when
\* they are in use there.
BytesMeetDefault ==
  \A p \in Peer, s \in StreamID :
      streams[p][s].offset > 0 /\ s \in usedStreamID[Other(p)] =>
          streams[Other(p)][s].maxRecv >= MAX_STREAM_OFFSET

\* The packets with data, and two frames that share no byte.
SentData(p) == {pkt \in issued[p] : pkt.frame.type = "STREAM"}
Reach(frame) == frame.offset + frame.length
Apart(one, other) ==
  one.stream = other.stream =>
      Reach(one) <= other.offset \/ Reach(other) <= one.offset

\* The limits of streams on their way, and those obeyed, are enforced, or the default.
StreamGrants ==
  \A p \in Peer :
    /\ \A pkt \in issued[p] : pkt.frame.type = "MAX_STREAM_DATA" =>
          pkt.frame.value <= streams[p][pkt.frame.stream].maxRecv
    /\ \A i \in DOMAIN replies[p] : replies[p][i].type = "MAX_STREAM_DATA" =>
          replies[p][i].value <= streams[p][replies[p][i].stream].maxRecv
    /\ \A s \in StreamID : streams[p][s].maxSend <=
          Larger(MAX_STREAM_OFFSET, streams[Other(p)][s].maxRecv)

\* What was sent is within the limits obeyed.
SendersObey ==
  \A p \in Peer :
    /\ SentBytes(p) <= maxSendSize[p]
    /\ \A s \in StreamID : streams[p][s].offset <= streams[p][s].maxSend

\* No byte is in two packets.
FramesApart == \A p \in Peer : \A x, y \in SentData(p) : x # y => Apart(x.frame, y.frame)

\* Bytes are received once: what waits came in a packet that is recorded, and a packet
\* that is not holds none that were delivered.
ReceivedOnce ==
  \A p \in Peer, s \in StreamID :
    /\ streams[p][s].expOffset <= streams[Other(p)][s].offset
    /\ \A frame \in streams[p][s].buffered :
          \E pkt \in issued[Other(p)] : pkt.frame = frame /\ pkt.pktNum \in recPktNum[p]
    /\ \A pkt \in SentData(Other(p)) :
          (/\ pkt.frame.stream = s /\ pkt.frame.length > 0
           /\ pkt.pktNum \notin recPktNum[p])
             => streams[p][s].expOffset <= pkt.frame.offset

\* The invariant of credit.
CreditInv == StreamGrants /\ SendersObey /\ FramesApart /\ ReceivedOnce

-----------------------------------------------------------------------------
(* What a step does to the limits of a stream.                             *)

\* Stream s of p is `new` where it was `old`: what p enforces does not fall, what it
\* obeys falls only where nothing was sent, and grows only as it was granted.
LimitsGo(p, s, old, new) ==
  /\ old.maxRecv <= new.maxRecv
  /\ old.maxSend <= new.maxSend \/ (new.offset = 0 /\ new.maxSend = MAX_STREAM_OFFSET)
  /\ \/ new.maxSend <= Larger(MAX_STREAM_OFFSET, old.maxSend)
     \/ \E pkt \in issued[Other(p)] :
           /\ pkt.frame.type = "MAX_STREAM_DATA" /\ pkt.frame.stream = s
           /\ new.maxSend <= pkt.frame.value

\* The limits of a stream are numbers.
LEMMA LimitsTyped ==
  ASSUME StreamTypeOK, NEW p \in Peer, NEW s \in StreamID
  PROVE  /\ streams[p][s].maxRecv \in Nat /\ streams[p][s].maxSend \in Nat
         /\ streams[p][s].offset \in Nat /\ streams[p][s].expOffset \in Nat
         /\ MAX_STREAM_OFFSET \in Nat
<1>1. streams[p][s] \in Stream
  BY DEF StreamTypeOK, TransportTypeOK
<1> QED
  BY <1>1, SizeAssumption DEF Stream

\* A stream whose limits do not change,
LEMMA SameLimitsGo ==
  ASSUME StreamTypeOK, NEW p \in Peer, NEW s \in StreamID, NEW new,
         new.maxRecv = streams[p][s].maxRecv, new.maxSend = streams[p][s].maxSend
  PROVE  LimitsGo(p, s, streams[p][s], new)
BY LimitsTyped DEF LimitsGo, Larger

\* and one that is made where none was in use.
LEMMA NewLimitsGo ==
  ASSUME StreamTypeOK, UnusedAtDefault, NEW p \in Peer, NEW s \in StreamID,
         s \notin usedStreamID[p], NEW new, new.maxRecv = MAX_STREAM_OFFSET,
         new.maxSend = MAX_STREAM_OFFSET, new.offset = 0
  PROVE  LimitsGo(p, s, streams[p][s], new)
BY LimitsTyped DEF LimitsGo, Larger, UnusedAtDefault

\* What InsertStream makes of a stream.
LEMMA FoundLimitsGo ==
  ASSUME StreamTypeOK, UnusedAtDefault, NEW p \in Peer, NEW s \in StreamID, NEW new,
         new.maxRecv = FoundStream(p, s).maxRecv, new.maxSend = FoundStream(p, s).maxSend,
         new.offset = FoundStream(p, s).offset
  PROVE  LimitsGo(p, s, streams[p][s], new)
<1>1. CASE s \in usedStreamID[p]
  BY <1>1, SameLimitsGo DEF FoundStream
<1>2. CASE s \notin usedStreamID[p]
  BY <1>2, NewLimitsGo DEF FoundStream, NewStream, DefaultStream
<1> QED
  BY <1>1, <1>2

\* One stream of p changes.
LEMMA OneLimitGoes ==
  ASSUME StreamTypeOK, NEW p \in Peer, NEW s \in StreamID, NEW new,
         streams' = [streams EXCEPT ![p][s] = new],
         LimitsGo(p, s, streams[p][s], new)
  PROVE  \A q \in Peer, t \in StreamID : LimitsGo(q, t, streams[q][t], streams'[q][t])
<1>1. \A q \in Peer, t \in StreamID :
         streams'[q][t] = IF q = p /\ t = s THEN new ELSE streams[q][t]
  BY DEF StreamTypeOK, TransportTypeOK
<1>2. TAKE q \in Peer, t \in StreamID
<1>3. CASE q = p /\ t = s
  BY <1>1, <1>3
<1>4. CASE ~(q = p /\ t = s)
  BY <1>1, <1>4, SameLimitsGo
<1> QED
  BY <1>3, <1>4

\* The streams stay as they are.
LEMMA NoLimitGoes ==
  ASSUME StreamTypeOK, UNCHANGED streams
  PROVE  \A q \in Peer, t \in StreamID : LimitsGo(q, t, streams[q][t], streams'[q][t])
BY SameLimitsGo

\* Reading a packet moves limits as it may.
LEMMA ReceivingMovesLimits ==
  ASSUME StreamTypeOK, PacketInv, UnusedAtDefault, NEW p \in Peer,
         NEW pkt \in inFlight[p], Receive(p, pkt)
  PROVE  \A q \in Peer, t \in StreamID : LimitsGo(q, t, streams[q][t], streams'[q][t])
<1> DEFINE frame == pkt.frame
           s == frame.stream
           found == FoundStream(p, s)
<1>1. s \in StreamID => found \in Stream /\ streams[p][s] \in Stream
  BY FoundStreamTyped DEF StreamTypeOK, TransportTypeOK
<1>2. CASE ReceiveStream(p, pkt)
  <2>1. s \in StreamID /\ frame.length \in Nat
    BY <1>2, FrameRead, SizeAssumption DEF ReceiveStream, StreamFrame, StreamTypeOK
  <2>2. PICK new \in {[found EXCEPT !.expOffset = @ + frame.length],
                      [found EXCEPT !.buffered = @ \cup {frame}]} :
           streams' = [streams EXCEPT ![p][s] = new]
    BY <1>2 DEF ReceiveStream, ReceiveInOrder, ReceiveDisorder
  <2>3. /\ new.maxRecv = found.maxRecv /\ new.maxSend = found.maxSend
        /\ new.offset = found.offset
    BY <1>1, <2>1, <2>2 DEF Stream
  <2> HIDE DEF s
  <2> QED
    BY <2>1, <2>2, <2>3, FoundLimitsGo, OneLimitGoes
<1>3. CASE ReceiveOverLimit(p, pkt)
  <2>1. s \in StreamID
    BY <1>3, FrameRead DEF ReceiveOverLimit, StreamFrame, StreamTypeOK
  <2>2. streams' = [streams EXCEPT ![p][s] = FoundStream(p, s)]
    BY <1>3 DEF ReceiveOverLimit, InsertStream
  <2> HIDE DEF s
  <2> QED
    BY <2>1, <2>2, FoundLimitsGo, OneLimitGoes
<1>4. CASE ReceiveMaxData(p, pkt) \/ ReceiveDataBlocked(p, pkt)
  BY <1>4, NoLimitGoes DEF ReceiveMaxData, ReceiveDataBlocked
<1>5. CASE ReceiveMaxStreamData(p, pkt)
  <2> DEFINE new == [streams[p][s] EXCEPT !.maxSend = Larger(@, frame.value)]
  <2>1. s \in StreamID /\ pkt \in issued[Other(p)] /\ frame.type = "MAX_STREAM_DATA"
    <3>1. frame.type = "MAX_STREAM_DATA"
      BY <1>5 DEF ReceiveMaxStreamData
    <3>2. pkt \in issued[Other(p)]
      BY OtherPeer DEF PacketInv, KnownPackets
    <3>3. s \in StreamID
      BY <3>1, LimitStream DEF StreamTypeOK
    <3> QED
      BY <3>1, <3>2, <3>3
  <2>2. streams' = [streams EXCEPT ![p][s] = new]
    BY <1>5 DEF ReceiveMaxStreamData
  <2>3. /\ new.maxRecv = streams[p][s].maxRecv
        /\ new.maxSend = Larger(streams[p][s].maxSend, frame.value)
    BY <1>1, <2>1 DEF Stream
  <2>4. frame.value \in Nat
    BY <2>1, FrameRead, SizeAssumption, StreamFrameAssumption DEF LimitFrame, StreamTypeOK
  <2>5. LimitsGo(p, s, streams[p][s], new)
    <3> HIDE DEF new, s
    <3>1. new.maxSend <= Larger(MAX_STREAM_OFFSET, streams[p][s].maxSend)
             \/ new.maxSend <= frame.value
      BY <2>1, <2>3, <2>4, LimitsTyped DEF Larger
    <3>2. streams[p][s].maxSend <= new.maxSend /\ streams[p][s].maxRecv <= new.maxRecv
      BY <2>1, <2>3, <2>4, LimitsTyped DEF Larger
    <3> QED
      BY <2>1, <3>1, <3>2 DEF LimitsGo, s
  <2> HIDE DEF new, s
  <2> QED
    BY <2>1, <2>2, <2>5, OneLimitGoes
<1>6. CASE ReceiveStreamDataBlocked(p, pkt)
  <2> DEFINE new == [streams[p][s] EXCEPT !.maxRecv = streams[p][s].maxRecv + frame.value]
  <2>1. s \in StreamID /\ frame.type = "STREAM_DATA_BLOCKED"
    BY <1>6, LimitStream DEF StreamTypeOK, ReceiveStreamDataBlocked
  <2>2. streams' = [streams EXCEPT ![p][s] = new]
    BY <1>6 DEF ReceiveStreamDataBlocked
  <2>3. /\ new.maxRecv = streams[p][s].maxRecv + frame.value
        /\ new.maxSend = streams[p][s].maxSend
    BY <1>1, <2>1 DEF Stream
  <2>4. frame.value \in Nat
    BY <2>1, FrameRead, SizeAssumption, StreamFrameAssumption DEF LimitFrame, StreamTypeOK
  <2>5. LimitsGo(p, s, streams[p][s], new)
    <3> HIDE DEF new, s
    <3> QED
      BY <2>1, <2>3, <2>4, LimitsTyped DEF LimitsGo, Larger
  <2> HIDE DEF new, s
  <2> QED
    BY <2>1, <2>2, <2>5, OneLimitGoes
<1> QED
  BY <1>2, <1>3, <1>4, <1>5, <1>6 DEF Receive

\* So does every step.
LEMMA StepMovesLimits ==
  ASSUME StreamTypeOK, PacketInv, UnusedAtDefault, EntriesKept, NEW p \in Peer,
         StreamEndpoint(p)
  PROVE  \A q \in Peer, t \in StreamID : LimitsGo(q, t, streams[q][t], streams'[q][t])
<1>0. /\ streams \in [Peer -> [StreamID -> Stream]]
      /\ usedStreamID \in [Peer -> SUBSET StreamID]
      /\ current \in [Peer -> StreamID \cup {NoStream}]
  BY DEF StreamTypeOK, TransportTypeOK
<1>1. ASSUME NEW bidirectional \in BOOLEAN, CreateStream(p, bidirectional)
      PROVE  \A q \in Peer, t \in StreamID : LimitsGo(q, t, streams[q][t], streams'[q][t])
  <2> DEFINE id(index) == GeneratedID(index, StreamType(p, bidirectional))
  <2>1. PICK index \in StreamID :
            /\ id(index) \notin usedStreamID[p]
            /\ usedStreamID' = [usedStreamID EXCEPT ![p] = @ \cup {id(index)}]
            /\ streams' = [streams EXCEPT ![p][index] = NewStream]
    BY <1>1 DEF CreateStream
  <2> HIDE DEF id
  <2>2. usedStreamID'[p] # usedStreamID[p] /\ streams'[p][index] = NewStream
    BY <1>0, <2>1
  <2>3. NewStream = streams[p][index] \/ index \notin usedStreamID[p]
    BY <2>2 DEF EntriesKept
  <2>4. LimitsGo(p, index, streams[p][index], NewStream)
    <3>1. CASE NewStream = streams[p][index]
      BY <3>1, SameLimitsGo
    <3>2. CASE index \notin usedStreamID[p]
      BY <3>2, NewLimitsGo DEF NewStream, DefaultStream
    <3> QED
      BY <2>3, <3>1, <3>2
  <2> QED
    BY <2>1, <2>4, OneLimitGoes
<1>2. CASE \/ \E s \in StreamID, length \in Sizes, fin \in Fins : SendData(p, s, length, fin)
           \/ FinishPass(p)
  <2>1. PICK queue \in Seq(UnsentBuffer) :
           \/ TakeChunk(p, queue)
           \/ AskForCredit(p, queue)
           \/ LeaveWaiting(p, queue)
    BY <1>2, SendingFromQueue
  <2>2. CASE TakeChunk(p, queue)
    <3> DEFINE s == Head(queue).stream
               new == [streams[p][s] EXCEPT !.offset = @ + ChunkLength(queue)]
    <3>1. s \in StreamID
      BY <2>2, CuttingTyped DEF TakeChunk
    <3>2. streams' = [streams EXCEPT ![p][s] = new]
      BY <2>2 DEF TakeChunk
    <3>3. new.maxRecv = streams[p][s].maxRecv /\ new.maxSend = streams[p][s].maxSend
      BY <1>0, <3>1 DEF Stream
    <3> HIDE DEF new, s
    <3> QED
      BY <3>1, <3>2, <3>3, SameLimitsGo, OneLimitGoes
  <2>3. CASE UNCHANGED streams
    BY <2>3, NoLimitGoes
  <2> QED
    BY <2>1, <2>2, <2>3 DEF AskForCredit, LeaveWaiting
<1>3. ASSUME NEW pkt \in inFlight[p], Receive(p, pkt)
      PROVE  \A q \in Peer, t \in StreamID : LimitsGo(q, t, streams[q][t], streams'[q][t])
  BY <1>3, ReceivingMovesLimits
<1>4. CASE DeliverBuffered(p)
  <2> DEFINE s == current[p]
  <2>1. PICK frame :
          streams' = [streams EXCEPT ![p][s].buffered = @ \ {frame},
                                     ![p][s].expOffset = @ + frame.length]
    BY <1>4 DEF DeliverBuffered
  <2>2. s \in StreamID
    BY <1>0, <1>4 DEF DeliverBuffered
  <2> DEFINE new == [streams[p][s] EXCEPT !.buffered = @ \ {frame},
                                          !.expOffset = @ + frame.length]
  <2>3. new.maxRecv = streams[p][s].maxRecv /\ new.maxSend = streams[p][s].maxSend
    BY <1>0, <2>2 DEF Stream
  <2>4. streams' = [streams EXCEPT ![p][s] = new]
    <3> HIDE DEF s
    <3> QED
      BY <1>0, <2>1, <2>2
  <2> HIDE DEF new, s
  <2> QED
    BY <2>2, <2>3, <2>4, SameLimitsGo, OneLimitGoes
<1>5. CASE RaiseLimits(p)
  <2> DEFINE s == current[p]
             old == streams[p][s].maxRecv
             new == [streams[p][s] EXCEPT !.maxRecv = Larger(old, Raised(old))]
  <2>1. s \in StreamID
    BY <1>0, <1>5 DEF RaiseLimits
  <2>2. UNCHANGED streams \/ streams' = [streams EXCEPT ![p][s] = new]
    BY <1>5 DEF RaiseLimits
  <2>3. new.maxRecv = Larger(old, Raised(old)) /\ new.maxSend = streams[p][s].maxSend
    BY <1>0, <2>1 DEF Stream
  <2>4. old \in Nat /\ Raised(old) \in Nat
    BY <2>1, LimitsTyped, RaisedTyped
  <2>5. LimitsGo(p, s, streams[p][s], new)
    <3> HIDE DEF new, s
    <3> QED
      BY <2>1, <2>3, <2>4, LimitsTyped DEF LimitsGo, Larger
  <2> HIDE DEF new, s
  <2> QED
    BY <2>1, <2>2, <2>5, NoLimitGoes, OneLimitGoes
<1>6. CASE QueueReply(p) \/ PassStep(p)
  BY <1>6, NoLimitGoes DEF QueueReply, PassStep, streamVars
<1> QED
  BY <1>1, <1>2, <1>3, <1>4, <1>5, <1>6 DEF StreamEndpoint

-----------------------------------------------------------------------------
(* The limits of streams that are promised.                                *)

\* The limit frames on their way are of streams, with numbers.
LEMMA PromiseTyped ==
  ASSUME StreamTypeOK, NEW p \in Peer
  PROVE  /\ \A pkt \in issued[p] : pkt.frame.type = "MAX_STREAM_DATA" =>
               pkt.frame.stream \in StreamID /\ pkt.frame.value \in Nat
         /\ replies[p] \in Seq(Reply)
         /\ \A i \in DOMAIN replies[p] : replies[p][i].type = "MAX_STREAM_DATA" =>
               replies[p][i].stream \in StreamID /\ replies[p][i].value \in Nat
<1>1. ASSUME NEW pkt \in issued[p], pkt.frame.type = "MAX_STREAM_DATA"
      PROVE  pkt.frame.stream \in StreamID /\ pkt.frame.value \in Nat
  <2>1. issued[p] \subseteq Packet
    BY DEF StreamTypeOK, TypeOK
  <2>2. pkt.frame \in Frame
    BY <2>1 DEF Packet
  <2>3. pkt.frame \in LimitFrame
    BY <1>1, <2>2, StreamFrameAssumption DEF Frame, StreamFrame, ResetFrame
  <2> QED
    BY <1>1, <2>3, SizeAssumption DEF LimitFrame
<1>2. replies[p] \in Seq(Reply)
  BY DEF StreamTypeOK, TransportTypeOK
<1>3. \A i \in DOMAIN replies[p] : replies[p][i] \in Reply
  BY <1>2
<1> QED
  BY <1>1, <1>2, <1>3 DEF Reply

\* A reply that promises a stream's limit promises what is enforced.
KeptPromise(enforcing, reply) ==
  reply.type = "MAX_STREAM_DATA" =>
      reply.stream \in StreamID /\ reply.value <= enforcing[reply.stream].maxRecv

\* What a step adds to the promises: packets for replies, and replies that are kept.
StepPromises ==
  \A q \in Peer :
    /\ \A pkt \in issued'[q] : pkt.frame.type = "MAX_STREAM_DATA" =>
          pkt \in issued[q] \/ \E i \in DOMAIN replies[q] : replies[q][i] = pkt.frame
    /\ \A i \in DOMAIN replies'[q] :
          \/ \E j \in DOMAIN replies[q] : replies[q][j] = replies'[q][i]
          \/ KeptPromise(streams'[q], replies'[q][i])

\* A step that replies nothing and queues no such frame.
LEMMA NoPromise ==
  ASSUME UNCHANGED replies,
         \A q \in Peer : \A pkt \in issued'[q] :
             pkt \in issued[q] \/ pkt.frame.type # "MAX_STREAM_DATA"
  PROVE  StepPromises
BY DEF StepPromises

\* A step that makes replies only.
LEMMA RepliesPromise ==
  ASSUME StreamTypeOK, UNCHANGED issued, NEW p \in Peer, NEW made,
         replies' = [replies EXCEPT ![p] = made],
         \A i \in DOMAIN made : KeptPromise(streams'[p], made[i])
  PROVE  StepPromises
<1>1. \A q \in Peer : replies'[q] = IF q = p THEN made ELSE replies[q]
  BY DEF StreamTypeOK, TransportTypeOK
<1> QED
  BY <1>1 DEF StepPromises

\* Sending promises nothing.
LEMMA SendingPromises ==
  ASSUME StreamTypeOK, NEW p \in Peer,
         \/ \E s \in StreamID, length \in Sizes, fin \in Fins :
                SendData(p, s, length, fin)
         \/ FinishPass(p)
  PROVE  StepPromises
<1>1. UNCHANGED replies
  BY DEF SendData, FinishPass, handlerVars
<1>2. \A queue : /\ DataFrame(p, queue).type # "MAX_STREAM_DATA"
                 /\ CreditRequest(p, queue).type # "MAX_STREAM_DATA"
  BY DEF DataFrame, CreditRequest
<1>3. issued' = issued \/ \E frame : AddPacket(p, frame) /\ frame.type # "MAX_STREAM_DATA"
  <2>1. ASSUME NEW s \in StreamID, NEW length \in Sizes, NEW fin \in Fins,
               SendData(p, s, length, fin)
        PROVE  \/ issued' = issued
               \/ \E frame : AddPacket(p, frame) /\ frame.type # "MAX_STREAM_DATA"
    <3> DEFINE queue == Append(unsentBuf[p], [stream |-> s, first |-> submitted[p][s] + 1,
                                              length |-> length, fin |-> fin])
    <3>1. \/ AddPacket(p, DataFrame(p, queue))
          \/ AddPacket(p, CreditRequest(p, queue))
          \/ issued' = issued
      BY <2>1 DEF SendData, QueuePacket, vars
    <3> HIDE DEF queue
    <3> QED
      BY <1>2, <3>1
  <2>2. CASE FinishPass(p)
    <3>1. \/ AddPacket(p, DataFrame(p, unsentBuf[p]))
          \/ AddPacket(p, CreditRequest(p, unsentBuf[p]))
          \/ issued' = issued
      BY <2>2 DEF FinishPass, EndPassWithPacket, EndPass
    <3> QED
      BY <1>2, <3>1
  <2> QED
    BY <2>1, <2>2
<1>4. \A q \in Peer : \A pkt \in issued'[q] :
         pkt \in issued[q] \/ pkt.frame.type # "MAX_STREAM_DATA"
  BY <1>3, IssuedPackets DEF StreamTypeOK
<1> QED
  BY <1>1, <1>4, NoPromise

\* A request for credit is answered with the limit it is given.
LEMMA ReadingPromises ==
  ASSUME StreamTypeOK, StreamTypeOK', NEW p \in Peer, NEW pkt \in inFlight[p],
         Receive(p, pkt)
  PROVE  StepPromises
<1> DEFINE frame == pkt.frame
           s == frame.stream
<1>1. issued' = issued
  BY DEF Receive, ReceiveStream, ReceiveOverLimit, ReceiveMaxData, ReceiveMaxStreamData,
     ReceiveStreamDataBlocked, ReceiveDataBlocked, ReceivePacket, vars
<1>2. CASE UNCHANGED replies
  BY <1>1, <1>2, NoPromise
<1>3. CASE ReceiveStreamDataBlocked(p, pkt)
  <2> DEFINE limit == streams[p][s].maxRecv + frame.value
             reply == [type |-> "MAX_STREAM_DATA", stream |-> s, value |-> limit]
  <2>1. frame.type = "STREAM_DATA_BLOCKED" /\ s \in StreamID
    BY <1>3, LimitStream DEF StreamTypeOK, ReceiveStreamDataBlocked
  <2>2. /\ streams' = [streams EXCEPT ![p][s].maxRecv = limit]
        /\ replies' = [replies EXCEPT ![p] = <<reply>>]
    BY <1>3 DEF ReceiveStreamDataBlocked
  <2>3. limit \in Nat
    BY <2>1, FrameRead, SizeAssumption, StreamFrameAssumption, LimitsTyped
       DEF LimitFrame, StreamTypeOK
  <2>4. streams'[p][s].maxRecv = limit
    <3>1. streams \in [Peer -> [StreamID -> Stream]]
      BY DEF StreamTypeOK, TransportTypeOK
    <3> HIDE DEF s, limit
    <3> QED
      BY <2>1, <2>2, <3>1 DEF Stream
  <2>5. KeptPromise(streams'[p], reply)
    <3>1. reply.stream = s /\ reply.value = limit
      OBVIOUS
    <3> HIDE DEF reply, limit, s
    <3> QED
      BY <2>1, <2>3, <2>4, <3>1 DEF KeptPromise
  <2> HIDE DEF reply, limit, s
  <2>6. \A i \in DOMAIN <<reply>> : <<reply>>[i] = reply
    OBVIOUS
  <2> QED
    <3>1. replies' = [replies EXCEPT ![p] = <<reply>>]
      BY <2>2
    <3>2. \A i \in DOMAIN <<reply>> : KeptPromise(streams'[p], <<reply>>[i])
      BY <2>5, <2>6
    <3> QED
      BY <1>1, <3>1, <3>2, RepliesPromise
<1>4. CASE ReceiveDataBlocked(p, pkt)
  <2> DEFINE reply == [type |-> "MAX_DATA", value |-> maxRecvSize[p] + frame.value]
  <2>1. replies' = [replies EXCEPT ![p] = <<reply>>]
    BY <1>4 DEF ReceiveDataBlocked
  <2>2. KeptPromise(streams'[p], reply)
    BY DEF KeptPromise
  <2> HIDE DEF reply
  <2>3. \A i \in DOMAIN <<reply>> : <<reply>>[i] = reply
    OBVIOUS
  <2> QED
    BY <1>1, <2>1, <2>2, <2>3, RepliesPromise
<1> QED
  BY <1>2, <1>3, <1>4 DEF Receive, ReceiveStream, ReceiveOverLimit, ReceiveMaxData,
     ReceiveMaxStreamData, handlerVars

\* The handler that ends promises the limit it raised.
LEMMA RaisingPromises ==
  ASSUME StreamTypeOK, NEW p \in Peer, RaiseLimits(p)
  PROVE  StepPromises
<1> DEFINE s == current[p]
           old == streams[p][s].maxRecv
           streamLimit == [type |-> "MAX_STREAM_DATA", stream |-> s, value |-> Raised(old)]
           allLimit == [type |-> "MAX_DATA", value |-> Raised(maxRecvSize[p])]
<1>1. s \in StreamID /\ streams \in [Peer -> [StreamID -> Stream]]
  BY DEF RaiseLimits, StreamTypeOK, TransportTypeOK
<1>2. PICK a \in {<<>>, <<streamLimit>>}, b \in {<<>>, <<allLimit>>} :
         /\ replies' = [replies EXCEPT ![p] = a \o b]
         /\ a # <<>> => streams' = [streams EXCEPT ![p][s].maxRecv = Larger(@, Raised(@))]
  BY DEF RaiseLimits
<1>3. UNCHANGED issued
  BY DEF RaiseLimits, vars
<1>4. old \in Nat /\ Raised(old) \in Nat
  BY <1>1, LimitsTyped, RaisedTyped
<1>5. a # <<>> => KeptPromise(streams'[p], streamLimit)
  <2>1. streamLimit.stream = s /\ streamLimit.value = Raised(old)
    OBVIOUS
  <2>2. streams' = [streams EXCEPT ![p][s].maxRecv = Larger(@, Raised(@))]
           => streams'[p][s].maxRecv = Larger(old, Raised(old))
    <3> HIDE DEF s
    <3> QED
      BY <1>1 DEF Stream
  <2> HIDE DEF streamLimit, old, s
  <2> QED
    BY <1>1, <1>2, <1>4, <2>1, <2>2 DEF KeptPromise, Larger
<1>6. KeptPromise(streams'[p], allLimit)
  BY DEF KeptPromise
<1> HIDE DEF streamLimit, allLimit
<1>7. \A i \in DOMAIN (a \o b) :
        (a \o b)[i] = allLimit \/ (a # <<>> /\ (a \o b)[i] = streamLimit)
  <2>1. CASE a = <<>> /\ b = <<>>
    BY <2>1
  <2>2. CASE a = <<streamLimit>> /\ b = <<>>
    BY <2>2
  <2>3. CASE a = <<>> /\ b = <<allLimit>>
    BY <2>3
  <2>4. CASE a = <<streamLimit>> /\ b = <<allLimit>>
    BY <2>4
  <2> QED
    BY <2>1, <2>2, <2>3, <2>4
<1>8. \A i \in DOMAIN (a \o b) : KeptPromise(streams'[p], (a \o b)[i])
  BY <1>5, <1>6, <1>7
<1> QED
  BY <1>2, <1>3, <1>8, RepliesPromise

\* A step promises what is enforced.
LEMMA EveryStepPromises ==
  ASSUME StreamTypeOK, StreamTypeOK', NEW p \in Peer, StreamEndpoint(p)
  PROVE  StepPromises
<1>1. CASE \/ \E bidirectional \in BOOLEAN : CreateStream(p, bidirectional)
           \/ DeliverBuffered(p)
  <2>1. UNCHANGED <<replies, issued>>
    BY <1>1 DEF CreateStream, DeliverBuffered, vars, handlerVars
  <2> QED
    BY <2>1, NoPromise
<1>2. CASE \/ \E s \in StreamID, length \in Sizes, fin \in Fins : SendData(p, s, length, fin)
           \/ FinishPass(p)
  BY <1>2, SendingPromises
<1>3. ASSUME NEW pkt \in inFlight[p], Receive(p, pkt) PROVE StepPromises
  BY <1>3, ReadingPromises
<1>4. CASE RaiseLimits(p)
  BY <1>4, RaisingPromises
<1>5. CASE QueueReply(p)
  <2> DEFINE queue == replies[p]
  <2>1. /\ queue # <<>> /\ queue \in Seq(Reply) /\ AddPacket(p, Head(queue))
        /\ replies' = [replies EXCEPT ![p] = Tail(queue)]
    BY <1>5 DEF QueueReply, QueuePacket, StreamTypeOK, TransportTypeOK
  <2>2. \A q \in Peer : replies'[q] = IF q = p THEN Tail(queue) ELSE replies[q]
    BY <2>1 DEF StreamTypeOK, TransportTypeOK
  <2> HIDE DEF queue
  <2>3. \A i \in DOMAIN Tail(queue) : i + 1 \in DOMAIN queue /\ Tail(queue)[i] = queue[i + 1]
    BY <2>1
  <2>4. 1 \in DOMAIN queue /\ Head(queue) = queue[1]
    BY <2>1
  <2>5. \A q \in Peer : \A pkt \in issued'[q] :
           pkt \in issued[q] \/ (q = p /\ pkt.frame = Head(queue))
    BY <2>1, IssuedPackets DEF StreamTypeOK
  <2> QED
    BY <2>2, <2>3, <2>4, <2>5 DEF StepPromises, queue
<1>6. CASE PassStep(p)
  <2>1. UNCHANGED replies
    BY <1>6 DEF PassStep, streamVars, handlerVars
  <2>2. issued' = issued \/ (AddPacketToFront(p, Ping) /\ Ping.type # "MAX_STREAM_DATA")
    BY <1>6, StreamFrameAssumption DEF PassStep, ReceiveAck, StartSending, SkipAcked,
       SendFront, AckAndRetransmit, Probe
  <2>3. \A q \in Peer : \A pkt \in issued'[q] :
           pkt \in issued[q] \/ pkt.frame.type # "MAX_STREAM_DATA"
    BY <2>2, IssuedPackets DEF StreamTypeOK
  <2> QED
    BY <2>1, <2>3, NoPromise
<1> QED
  BY <1>1, <1>2, <1>3, <1>4, <1>5, <1>6 DEF StreamEndpoint

\* A step keeps what is said of the limits of streams.
LEMMA LimitsKeepGrants ==
  ASSUME StreamTypeOK, StreamTypeOK', StreamGrants, StepPromises,
         \A q \in Peer, t \in StreamID : LimitsGo(q, t, streams[q][t], streams'[q][t])
  PROVE  StreamGrants'
<1> USE OtherPeer
<1>1. \A q \in Peer, s \in StreamID :
         /\ streams[q][s].maxRecv \in Nat /\ streams'[q][s].maxRecv \in Nat
         /\ streams[q][s].maxSend \in Nat /\ streams'[q][s].maxSend \in Nat
         /\ MAX_STREAM_OFFSET \in Nat
         /\ streams[q][s].maxRecv <= streams'[q][s].maxRecv
  <2> TAKE q \in Peer, s \in StreamID
  <2>1. streams[q][s] \in Stream /\ streams'[q][s] \in Stream
    BY DEF StreamTypeOK, TransportTypeOK
  <2> QED
    BY <2>1, SizeAssumption DEF Stream, LimitsGo
<1> SUFFICES ASSUME NEW p \in Peer
             PROVE  /\ \A pkt \in issued'[p] : pkt.frame.type = "MAX_STREAM_DATA" =>
                          pkt.frame.value <= streams'[p][pkt.frame.stream].maxRecv
                    /\ \A i \in DOMAIN replies'[p] :
                          replies'[p][i].type = "MAX_STREAM_DATA" =>
                             replies'[p][i].value <= streams'[p][replies'[p][i].stream].maxRecv
                    /\ \A s \in StreamID : streams'[p][s].maxSend <=
                          Larger(MAX_STREAM_OFFSET, streams'[Other(p)][s].maxRecv)
  BY DEF StreamGrants
<1>2. ASSUME NEW pkt \in issued'[p], pkt.frame.type = "MAX_STREAM_DATA"
      PROVE  pkt.frame.value <= streams'[p][pkt.frame.stream].maxRecv
  <2>1. CASE pkt \in issued[p]
    BY <1>1, <1>2, <2>1, PromiseTyped DEF StreamGrants
  <2>2. ASSUME NEW i \in DOMAIN replies[p], replies[p][i] = pkt.frame
        PROVE  pkt.frame.value <= streams'[p][pkt.frame.stream].maxRecv
    BY <1>1, <1>2, <2>2, PromiseTyped DEF StreamGrants
  <2> QED
    BY <1>2, <2>1, <2>2 DEF StepPromises
<1>3. ASSUME NEW i \in DOMAIN replies'[p], replies'[p][i].type = "MAX_STREAM_DATA"
      PROVE  replies'[p][i].value <= streams'[p][replies'[p][i].stream].maxRecv
  <2>1. ASSUME NEW j \in DOMAIN replies[p], replies[p][j] = replies'[p][i]
        PROVE  replies'[p][i].value <= streams'[p][replies'[p][i].stream].maxRecv
    <3> DEFINE reply == replies[p][j]
    <3>1. /\ reply.type = "MAX_STREAM_DATA" /\ reply.stream \in StreamID /\ reply.value \in Nat
          /\ reply.value <= streams[p][reply.stream].maxRecv
      BY <1>3, <2>1, PromiseTyped DEF StreamGrants
    <3> HIDE DEF reply
    <3>2. reply.value <= streams'[p][reply.stream].maxRecv
      BY <1>1, <3>1
    <3> QED
      BY <2>1, <3>2 DEF reply
  <2> QED
    BY <1>3, <2>1 DEF StepPromises, KeptPromise
<1>4. ASSUME NEW s \in StreamID
      PROVE  streams'[p][s].maxSend <=
                Larger(MAX_STREAM_OFFSET, streams'[Other(p)][s].maxRecv)
  <2>1. streams[p][s].maxSend <= Larger(MAX_STREAM_OFFSET, streams[Other(p)][s].maxRecv)
    BY DEF StreamGrants
  <2>2. CASE streams'[p][s].maxSend <= Larger(MAX_STREAM_OFFSET, streams[p][s].maxSend)
    BY <1>1, <2>1, <2>2 DEF Larger
  <2>3. ASSUME NEW pkt \in issued[Other(p)], pkt.frame.type = "MAX_STREAM_DATA",
               pkt.frame.stream = s, streams'[p][s].maxSend <= pkt.frame.value
        PROVE  streams'[p][s].maxSend <=
                  Larger(MAX_STREAM_OFFSET, streams'[Other(p)][s].maxRecv)
    <3>1. pkt.frame.value \in Nat /\ pkt.frame.value <= streams[Other(p)][s].maxRecv
      BY <2>3, PromiseTyped DEF StreamGrants
    <3> QED
      BY <1>1, <2>3, <3>1 DEF Larger
  <2> QED
    BY <2>2, <2>3 DEF LimitsGo
<1> QED
  BY <1>2, <1>3, <1>4

-----------------------------------------------------------------------------
(* What was sent stays within the limits.                                  *)

\* The sums over the streams of an endpoint.
LEMMA BytesTyped ==
  ASSUME StreamTypeOK, NEW p \in Peer
  PROVE  /\ IsFiniteSet(StreamID)
         /\ [s \in StreamID |-> streams[p][s].offset] \in [StreamID -> Int]
         /\ [s \in StreamID |-> streams[p][s].expOffset] \in [StreamID -> Int]
         /\ SentBytes(p) \in Int /\ ReceivedBytes(p) \in Int
<1>1. IsFiniteSet(StreamID)
  <2>1. IsFiniteSet(0 .. MAX_STREAM_NUM - 1)
    BY StreamAssumption, FS_Interval
  <2> QED
    BY <2>1, StreamAssumption, FS_Subset
<1>2. /\ [s \in StreamID |-> streams[p][s].offset] \in [StreamID -> Int]
      /\ [s \in StreamID |-> streams[p][s].expOffset] \in [StreamID -> Int]
  BY LimitsTyped
<1> QED
  BY <1>1, <1>2, SumRecursion DEF SentBytes, ReceivedBytes, SumFunction

\* A step that sends nothing keeps them.
LEMMA OffsetsKeepObeying ==
  ASSUME StreamTypeOK, StreamTypeOK', SendersObey,
         \A q \in Peer, t \in StreamID : LimitsGo(q, t, streams[q][t], streams'[q][t]),
         \A q \in Peer, t \in StreamID : streams'[q][t].offset = streams[q][t].offset,
         \A q \in Peer : maxSendSize[q] <= maxSendSize'[q]
  PROVE  SendersObey'
<1> SUFFICES ASSUME NEW p \in Peer
             PROVE  /\ SentBytes(p)' <= maxSendSize'[p]
                    /\ \A s \in StreamID : streams'[p][s].offset <= streams'[p][s].maxSend
  BY DEF SendersObey
<1>1. maxSendSize[p] \in Int /\ maxSendSize'[p] \in Int
  BY DEF StreamTypeOK, TransportTypeOK
<1>2. SentBytes(p)' = SentBytes(p)
  <2>1. [s \in StreamID |-> streams'[p][s].offset] = [s \in StreamID |-> streams[p][s].offset]
    OBVIOUS
  <2> QED
    BY <2>1 DEF SentBytes
<1>3. SentBytes(p)' <= maxSendSize'[p]
  BY <1>1, <1>2, BytesTyped DEF SendersObey
<1>4. ASSUME NEW s \in StreamID PROVE streams'[p][s].offset <= streams'[p][s].maxSend
  <2>1. /\ streams[p][s].maxSend \in Nat /\ streams[p][s].offset \in Nat
        /\ streams[p][s].offset <= streams[p][s].maxSend
    BY LimitsTyped DEF SendersObey
  <2>2. streams'[p][s].maxSend \in Nat
    <3>1. streams'[p][s] \in Stream
      BY DEF StreamTypeOK, TransportTypeOK
    <3> QED
      BY <3>1 DEF Stream
  <2> QED
    BY <2>1, <2>2 DEF LimitsGo
<1> QED
  BY <1>3, <1>4

\* The steps that send nothing.
LEMMA NothingSent ==
  ASSUME StreamTypeOK, PacketInv, DeliveryInv, EntriesKept, NEW p \in Peer,
         \/ \E bidirectional \in BOOLEAN : CreateStream(p, bidirectional)
         \/ \E pkt \in inFlight[p] : Receive(p, pkt)
         \/ DeliverBuffered(p) \/ RaiseLimits(p) \/ QueueReply(p) \/ PassStep(p)
  PROVE  /\ \A q \in Peer, t \in StreamID : streams'[q][t].offset = streams[q][t].offset
         /\ \A q \in Peer : maxSendSize[q] <= maxSendSize'[q]
<1>0. streams \in [Peer -> [StreamID -> Stream]] /\ maxSendSize \in [Peer -> Nat]
  BY DEF StreamTypeOK, TransportTypeOK
<1>1. CASE \E bidirectional \in BOOLEAN : CreateStream(p, bidirectional)
  <2>1. UNCHANGED maxSendSize
    BY <1>1 DEF CreateStream, flowVars
  <2> QED
    BY <1>0, <1>1, <2>1, OpeningIsNeutral DEF Neutral, SamePart, DeliveryInv
<1>2. ASSUME NEW pkt \in inFlight[p], Receive(p, pkt)
      PROVE  /\ \A q \in Peer, t \in StreamID : streams'[q][t].offset = streams[q][t].offset
             /\ \A q \in Peer : maxSendSize[q] <= maxSendSize'[q]
  <2>1. CASE ReceiveStream(p, pkt)
    <3> DEFINE frame == pkt.frame
               s == frame.stream
               found == FoundStream(p, s)
    <3>1. s \in StreamID
      BY <2>1, FrameRead DEF ReceiveStream, StreamFrame, StreamTypeOK
    <3>2. PICK new \in {[found EXCEPT !.expOffset = @ + frame.length],
                        [found EXCEPT !.buffered = @ \cup {frame}]} :
             streams' = [streams EXCEPT ![p][s] = new]
      BY <2>1 DEF ReceiveStream, ReceiveInOrder, ReceiveDisorder
    <3>3. found \in Stream /\ found.offset = streams[p][s].offset
      BY <3>1, FoundStreamTyped, FoundFresh DEF StreamTypeOK, DeliveryInv
    <3>4. new.offset = streams[p][s].offset
      BY <3>2, <3>3 DEF Stream
    <3>5. UNCHANGED maxSendSize
      BY <2>1 DEF ReceiveStream, flowVars
    <3> HIDE DEF s
    <3> QED
      BY <1>0, <3>1, <3>2, <3>4, <3>5
  <2>2. CASE ~ReceiveStream(p, pkt)
    <3>1. \A q \in Peer, t \in StreamID : streams'[q][t].offset = streams[q][t].offset
      BY <1>2, <2>2, ReadingIsNeutral DEF Neutral, SamePart, DeliveryInv
    <3>2. CASE UNCHANGED maxSendSize
      BY <1>0, <3>1, <3>2
    <3>3. CASE ReceiveMaxData(p, pkt)
      <4>1. maxSendSize' = [maxSendSize EXCEPT ![p] = Larger(@, pkt.frame.value)]
        BY <3>3 DEF ReceiveMaxData
      <4>2. pkt.frame.value \in Nat
        BY <3>3, FrameRead, SizeAssumption, StreamFrameAssumption
           DEF ReceiveMaxData, LimitFrame, StreamTypeOK
      <4>3. \A q \in Peer : maxSendSize[q] <= maxSendSize'[q]
        BY <1>0, <4>1, <4>2 DEF Larger
      <4> QED
        BY <3>1, <4>3
    <3> QED
      BY <1>2, <2>2, <3>2, <3>3 DEF Receive, ReceiveOverLimit, ReceiveMaxStreamData,
         ReceiveStreamDataBlocked, ReceiveDataBlocked, flowVars
  <2> QED
    BY <2>1, <2>2
<1>3. CASE DeliverBuffered(p)
  <2> DEFINE s == current[p]
  <2>1. PICK frame :
          streams' = [streams EXCEPT ![p][s].buffered = @ \ {frame},
                                     ![p][s].expOffset = @ + frame.length]
    BY <1>3 DEF DeliverBuffered
  <2>2. s \in StreamID
    BY <1>3 DEF DeliverBuffered, StreamTypeOK, TransportTypeOK
  <2> DEFINE new == [streams[p][s] EXCEPT !.buffered = @ \ {frame},
                                          !.expOffset = @ + frame.length]
  <2>3. new.offset = streams[p][s].offset
    BY <1>0, <2>2 DEF Stream
  <2>4. streams' = [streams EXCEPT ![p][s] = new]
    <3> HIDE DEF s
    <3> QED
      BY <1>0, <2>1, <2>2
  <2>5. UNCHANGED maxSendSize
    BY <1>3 DEF DeliverBuffered, flowVars
  <2> HIDE DEF new, s
  <2> QED
    BY <1>0, <2>2, <2>3, <2>4, <2>5
<1>4. CASE RaiseLimits(p) \/ QueueReply(p) \/ PassStep(p)
  <2>1. UNCHANGED maxSendSize
    BY <1>4 DEF RaiseLimits, QueueReply, PassStep, streamVars, flowVars
  <2> QED
    BY <1>0, <1>4, <2>1, EndingIsNeutral DEF Neutral, SamePart
<1> QED
  BY <1>1, <1>2, <1>3, <1>4

\* What is sent was checked against both limits.
LEMMA SendingObeys ==
  ASSUME StreamTypeOK, StreamTypeOK', SendersObey, NEW p \in Peer,
         \/ \E s \in StreamID, length \in Sizes, fin \in Fins :
                SendData(p, s, length, fin)
         \/ FinishPass(p)
  PROVE  SendersObey'
<1>0. streams \in [Peer -> [StreamID -> Stream]] /\ maxSendSize \in [Peer -> Nat]
  BY DEF StreamTypeOK, TransportTypeOK
<1>1. UNCHANGED maxSendSize
  BY DEF SendData, FinishPass
<1>2. PICK queue \in Seq(UnsentBuffer) :
         \/ TakeChunk(p, queue)
         \/ AskForCredit(p, queue)
         \/ LeaveWaiting(p, queue)
  BY SendingFromQueue
<1>3. CASE UNCHANGED streams
  BY <1>1, <1>3 DEF SendersObey, SentBytes
<1>4. CASE TakeChunk(p, queue)
  <2> DEFINE s == Head(queue).stream
             length == ChunkLength(queue)
             now == streams[p][s].offset + length
             new == [streams[p][s] EXCEPT !.offset = now]
  <2>1. /\ queue # <<>> /\ ~Blocked(p, queue)
        /\ streams' = [streams EXCEPT ![p][s] = new]
    BY <1>4 DEF TakeChunk
  <2>2. s \in StreamID /\ length \in Nat
    BY <2>1, CuttingTyped
  <2>3. /\ ~(now > streams[p][s].maxSend)
        /\ ~(SentBytes(p) + length > maxSendSize[p])
    BY <2>1 DEF Blocked, StreamBlocked
  <2>4. new.offset = now /\ new.maxSend = streams[p][s].maxSend
    BY <1>0, <2>2 DEF Stream
  <2>5. now \in Nat
    BY <2>2, LimitsTyped
  <2> HIDE DEF s, length, new, now
  <2>6. \A q \in Peer, t \in StreamID :
           /\ streams'[q][t].offset = IF q = p /\ t = s THEN now ELSE streams[q][t].offset
           /\ streams'[q][t].maxSend = streams[q][t].maxSend
    BY <1>0, <2>1, <2>2, <2>4
  <2>7. \A q \in Peer, t \in StreamID : streams'[q][t].offset <= streams'[q][t].maxSend
    BY <2>2, <2>3, <2>5, <2>6, LimitsTyped DEF SendersObey
  <2>8. SentBytes(p)' = SentBytes(p) + length
    <3> DEFINE f == [t \in StreamID |-> streams[p][t].offset]
               g == [t \in StreamID |-> streams'[p][t].offset]
    <3>1. /\ g[s] = f[s] + length /\ \A t \in StreamID : t # s => g[t] = f[t]
          /\ g \in [StreamID -> Int]
      BY <2>2, <2>5, <2>6, LimitsTyped DEF now
    <3>2. f \in [StreamID -> Int] /\ IsFiniteSet(StreamID)
      BY BytesTyped
    <3>3. SentBytes(p) = SumFunction(f) /\ SentBytes(p)' = SumFunction(g)
      BY DEF SentBytes
    <3> HIDE DEF f, g
    <3> QED
      BY <2>2, <3>1, <3>2, <3>3, SumRaised
  <2>9. \A q \in Peer : q # p => SentBytes(q)' = SentBytes(q)
    <3> SUFFICES ASSUME NEW q \in Peer, q # p PROVE SentBytes(q)' = SentBytes(q)
      OBVIOUS
    <3>1. [t \in StreamID |-> streams'[q][t].offset] = [t \in StreamID |-> streams[q][t].offset]
      BY <2>6
    <3> QED
      BY <3>1 DEF SentBytes
  <2>10. \A q \in Peer : SentBytes(q)' <= maxSendSize'[q]
    <3> SUFFICES ASSUME NEW q \in Peer PROVE SentBytes(q)' <= maxSendSize'[q]
      OBVIOUS
    <3>1. CASE q # p
      <4>1. SentBytes(q) <= maxSendSize[q]
        BY DEF SendersObey
      <4> QED
        BY <1>1, <2>9, <3>1, <4>1
    <3>2. CASE q = p
      <4>1. SentBytes(p) + length <= maxSendSize[p]
        BY <1>0, <2>2, <2>3, BytesTyped
      <4> QED
        BY <1>1, <2>8, <3>2, <4>1
    <3> QED
      BY <3>1, <3>2
  <2> QED
    BY <2>7, <2>10 DEF SendersObey
<1> QED
  BY <1>2, <1>3, <1>4 DEF AskForCredit, LeaveWaiting

-----------------------------------------------------------------------------
(* Bytes are received once.                                                *)

\* What is recorded stays recorded.
LEMMA RecordedGrows ==
  ASSUME TypeOK, NEW p \in Peer, StreamEndpoint(p)
  PROVE  \A q \in Peer : recPktNum[q] \subseteq recPktNum'[q]
<1>1. UNCHANGED recPktNum \/ \E n : recPktNum' = [recPktNum EXCEPT ![p] = @ \cup {n}]
  <2>1. CASE \/ \E bidirectional \in BOOLEAN : CreateStream(p, bidirectional)
             \/ DeliverBuffered(p) \/ RaiseLimits(p) \/ QueueReply(p)
    BY <2>1 DEF CreateStream, DeliverBuffered, RaiseLimits, QueueReply, QueuePacket, vars,
       connectionVars
  <2>2. CASE \E s \in StreamID, length \in Sizes, fin \in Fins : SendData(p, s, length, fin)
    BY <2>2 DEF SendData, QueuePacket, vars, connectionVars
  <2>3. CASE \E pkt \in inFlight[p] : Receive(p, pkt)
    BY <2>3 DEF Receive, ReceiveStream, ReceiveOverLimit, ReceiveMaxData,
       ReceiveMaxStreamData, ReceiveStreamDataBlocked, ReceiveDataBlocked, ReceivePacket,
       RecordPacket, vars, connectionVars
  <2>4. CASE PassStep(p)
    BY <2>4 DEF PassStep, ReceiveAck, StartSending, Probe, SkipAcked, SendFront,
       AckAndRetransmit, connectionVars
  <2>5. CASE FinishPass(p)
    BY <2>5 DEF FinishPass, EndPassWithPacket, EndPass, connectionVars
  <2> QED
    BY <2>1, <2>2, <2>3, <2>4, <2>5 DEF StreamEndpoint
<1> QED
  BY <1>1 DEF TypeOK

\* A step that moves no data keeps what is said of packets,
LEMMA NeutralKeepsReceived ==
  ASSUME StreamTypeOK, FramesApart, ReceivedOnce, Neutral,
         \A q \in Peer : recPktNum[q] \subseteq recPktNum'[q]
  PROVE  FramesApart' /\ ReceivedOnce'
<1> USE OtherPeer
<1>1. \A q \in Peer : issued[q] \subseteq issued'[q] /\ SentData(q)' \subseteq SentData(q)
  BY DEF Neutral, NoDataMoves, SentData
<1>2. FramesApart'
  BY <1>1 DEF FramesApart
<1>3. ReceivedOnce'
  <2> SUFFICES ASSUME NEW p \in Peer, NEW s \in StreamID
               PROVE  /\ streams'[p][s].expOffset <= streams'[Other(p)][s].offset
                      /\ \A frame \in streams'[p][s].buffered :
                            \E pkt \in issued'[Other(p)] :
                                pkt.frame = frame /\ pkt.pktNum \in recPktNum'[p]
                      /\ \A pkt \in SentData(Other(p))' :
                            (/\ pkt.frame.stream = s /\ pkt.frame.length > 0
                             /\ pkt.pktNum \notin recPktNum'[p])
                               => streams'[p][s].expOffset <= pkt.frame.offset
    BY DEF ReceivedOnce
  <2>1. SamePart(p, s) /\ SamePart(Other(p), s)
    BY DEF Neutral
  <2> QED
    BY <1>1, <2>1 DEF ReceivedOnce, SamePart
<1> QED
  BY <1>2, <1>3

\* and so does one by which one stream of p goes forward.
LEMMA ForwardKeepsReceived ==
  ASSUME StreamTypeOK, FramesSent, FramesApart, ReceivedOnce, NEW p \in Peer,
         NEW s \in StreamID, NEW st, streams' = [streams EXCEPT ![p][s] = st],
         st.offset = streams[p][s].offset,
         UNCHANGED issued, \A q \in Peer : recPktNum[q] \subseteq recPktNum'[q],
         \/ st.expOffset = streams[p][s].expOffset
         \/ \E pkt \in SentData(Other(p)) :
               /\ pkt.pktNum \in recPktNum'[p] /\ pkt.frame.stream = s
               /\ pkt.frame.offset = streams[p][s].expOffset
               /\ st.expOffset = Reach(pkt.frame),
         \A f \in st.buffered :
            \E pkt \in issued[Other(p)] : pkt.frame = f /\ pkt.pktNum \in recPktNum'[p]
  PROVE  FramesApart' /\ ReceivedOnce'
<1> USE OtherPeer
<1>1. \A q \in Peer : SentData(q)' = SentData(q) /\ SentData(q) \subseteq issued[q]
  BY DEF SentData
<1>2. FramesApart'
  BY <1>1 DEF FramesApart
<1>3. \A q \in Peer, t \in StreamID :
         streams'[q][t] = IF q = p /\ t = s THEN st ELSE streams[q][t]
  BY DEF StreamTypeOK, TransportTypeOK
<1>4. \A q \in Peer, t \in StreamID : streams'[q][t].offset = streams[q][t].offset
  BY <1>3
<1>5. ASSUME NEW q \in Peer, NEW t \in StreamID, ~(q = p /\ t = s)
      PROVE  /\ streams'[q][t].expOffset <= streams'[Other(q)][t].offset
             /\ \A frame \in streams'[q][t].buffered :
                   \E pkt \in issued'[Other(q)] :
                       pkt.frame = frame /\ pkt.pktNum \in recPktNum'[q]
             /\ \A pkt \in SentData(Other(q))' :
                   (/\ pkt.frame.stream = t /\ pkt.frame.length > 0
                    /\ pkt.pktNum \notin recPktNum'[q])
                      => streams'[q][t].expOffset <= pkt.frame.offset
  <2>1. streams'[q][t] = streams[q][t]
    BY <1>3, <1>5
  <2> QED
    BY <1>1, <1>4, <2>1 DEF ReceivedOnce
<1>6. st.expOffset <= streams[Other(p)][s].offset
  <2>1. CASE st.expOffset = streams[p][s].expOffset
    BY <2>1 DEF ReceivedOnce
  <2>2. ASSUME NEW pkt \in SentData(Other(p)), pkt.frame.stream = s,
               st.expOffset = Reach(pkt.frame)
        PROVE  st.expOffset <= streams[Other(p)][s].offset
    BY <2>2 DEF FramesSent, SentData, Reach
  <2> QED
    BY <2>1, <2>2
<1>7. ASSUME NEW pkt \in SentData(Other(p)), pkt.frame.stream = s, pkt.frame.length > 0,
             pkt.pktNum \notin recPktNum'[p]
      PROVE  st.expOffset <= pkt.frame.offset
  <2>1. pkt.pktNum \notin recPktNum[p]
    BY <1>7
  <2>2. streams[p][s].expOffset <= pkt.frame.offset
    BY <1>7, <2>1 DEF ReceivedOnce
  <2>3. CASE st.expOffset = streams[p][s].expOffset
    BY <2>2, <2>3
  <2>4. ASSUME NEW x \in SentData(Other(p)), x.pktNum \in recPktNum'[p],
               x.frame.stream = s, x.frame.offset = streams[p][s].expOffset,
               st.expOffset = Reach(x.frame)
        PROVE  st.expOffset <= pkt.frame.offset
    <3>1. x # pkt
      BY <1>7, <2>4
    <3>2. Reach(x.frame) <= pkt.frame.offset \/ Reach(pkt.frame) <= x.frame.offset
      BY <1>7, <2>4, <3>1 DEF FramesApart, Apart
    <3>3. pkt.frame.offset \in Nat /\ pkt.frame.length \in Nat
      BY <1>1, IssuedFrame DEF StreamTypeOK, SentData
    <3>4. streams[p][s].expOffset \in Nat
      BY LimitsTyped
    <3> QED
      BY <1>7, <2>2, <2>4, <3>2, <3>3, <3>4 DEF Reach
  <2> QED
    BY <2>3, <2>4
<1>8. ReceivedOnce'
  BY <1>1, <1>3, <1>4, <1>5, <1>6, <1>7 DEF ReceivedOnce
<1> QED
  BY <1>2, <1>8

\* Reading a STREAM frame is such a step,
LEMMA ArrivingKeepsReceived ==
  ASSUME StreamTypeOK, PacketInv, DeliveryInv, FramesApart, ReceivedOnce, NEW p \in Peer,
         NEW pkt \in inFlight[p], ReceiveStream(p, pkt)
  PROVE  FramesApart' /\ ReceivedOnce'
<1> USE OtherPeer
<1> DEFINE frame == pkt.frame
           s == frame.stream
           found == FoundStream(p, s)
<1>1. frame \in StreamFrame /\ frame.type = "STREAM" /\ pkt \in issued[Other(p)]
  <2>1. frame.type = "STREAM" /\ pkt \in issued[Other(p)]
    BY DEF ReceiveStream, PacketInv, KnownPackets
  <2> QED
    BY <2>1, IssuedFrame DEF StreamTypeOK
<1>2. s \in StreamID /\ pkt \in SentData(Other(p))
  BY <1>1 DEF SentData, StreamFrame
<1>3. /\ found.offset = streams[p][s].offset
      /\ found.expOffset = streams[p][s].expOffset
      /\ found.buffered = streams[p][s].buffered
      /\ found \in Stream
  BY <1>2, FoundFresh, FoundStreamTyped DEF DeliveryInv, StreamTypeOK
<1>4. /\ UNCHANGED issued
      /\ \A q \in Peer : recPktNum[q] \subseteq recPktNum'[q]
      /\ pkt.pktNum \in recPktNum'[p]
  <2>1. UNCHANGED issued /\ recPktNum' = [recPktNum EXCEPT ![p] = @ \cup {pkt.pktNum}]
    BY DEF ReceiveStream, ReceivePacket, RecordPacket
  <2> QED
    BY <2>1 DEF StreamTypeOK, TypeOK
<1>5. \A f \in streams[p][s].buffered :
         \E x \in issued[Other(p)] : x.frame = f /\ x.pktNum \in recPktNum'[p]
  BY <1>2, <1>4 DEF ReceivedOnce
<1>6. CASE ReceiveInOrder(p, pkt)
  <2> DEFINE st == [found EXCEPT !.expOffset = @ + frame.length]
  <2>1. streams' = [streams EXCEPT ![p][s] = st] /\ frame.offset = found.expOffset
    BY <1>6 DEF ReceiveInOrder
  <2>2. /\ st.offset = streams[p][s].offset
        /\ st.expOffset = Reach(frame)
        /\ st.buffered = streams[p][s].buffered
    BY <1>3, <2>1 DEF Stream, Reach
  <2>3. \E x \in SentData(Other(p)) :
           /\ x.pktNum \in recPktNum'[p] /\ x.frame.stream = s
           /\ x.frame.offset = streams[p][s].expOffset
           /\ st.expOffset = Reach(x.frame)
    BY <1>2, <1>3, <1>4, <2>1, <2>2
  <2>4. \A f \in st.buffered :
           \E x \in issued[Other(p)] : x.frame = f /\ x.pktNum \in recPktNum'[p]
    BY <1>5, <2>2
  <2> HIDE DEF frame, s, found, st
  <2> QED
    BY <1>2, <1>4, <2>1, <2>2, <2>3, <2>4, ForwardKeepsReceived DEF DeliveryInv
<1>7. CASE ReceiveDisorder(p, pkt)
  <2> DEFINE st == [found EXCEPT !.buffered = @ \cup {frame}]
  <2>1. streams' = [streams EXCEPT ![p][s] = st]
    BY <1>7 DEF ReceiveDisorder
  <2>2. /\ st.offset = streams[p][s].offset
        /\ st.expOffset = streams[p][s].expOffset
        /\ st.buffered = streams[p][s].buffered \cup {frame}
    BY <1>3 DEF Stream
  <2>3. \A f \in st.buffered :
           \E x \in issued[Other(p)] : x.frame = f /\ x.pktNum \in recPktNum'[p]
    BY <1>1, <1>4, <1>5, <2>2
  <2> HIDE DEF frame, s, found, st
  <2> QED
    BY <1>2, <1>4, <2>1, <2>2, <2>3, ForwardKeepsReceived DEF DeliveryInv
<1> QED
  BY <1>6, <1>7 DEF ReceiveStream

\* so is going on with one that waited,
LEMMA WaitedKeepsReceived ==
  ASSUME StreamTypeOK, PacketInv, DeliveryInv, FramesApart, ReceivedOnce, NEW p \in Peer,
         DeliverBuffered(p)
  PROVE  FramesApart' /\ ReceivedOnce'
<1> USE OtherPeer
<1> DEFINE s == current[p]
<1>1. PICK frame \in NextInBuffer(p, s) :
          streams' = [streams EXCEPT ![p][s].buffered = @ \ {frame},
                                     ![p][s].expOffset = @ + frame.length]
  BY DEF DeliverBuffered
<1>2. s \in StreamID
  BY DEF DeliverBuffered, StreamTypeOK, TransportTypeOK
<1>3. frame \in streams[p][s].buffered /\ frame.offset = streams[p][s].expOffset
  BY <1>1 DEF NextInBuffer
<1>4. frame.stream = s /\ frame.type = "STREAM"
  <2>1. frame \in StreamFrame
    <3> HIDE DEF s
    <3> QED
      BY <1>2, <1>3, StreamTyped
  <2> QED
    BY <1>2, <1>3, <2>1 DEF DeliveryInv, FramesHeld, StreamFrame
<1>5. PICK pkt \in issued[Other(p)] : pkt.frame = frame /\ pkt.pktNum \in recPktNum[p]
  BY <1>2, <1>3 DEF ReceivedOnce
<1> DEFINE st == [streams[p][s] EXCEPT !.buffered = @ \ {frame},
                                       !.expOffset = @ + frame.length]
<1>6. streams[p][s] \in Stream /\ streams \in [Peer -> [StreamID -> Stream]]
  BY <1>2 DEF StreamTypeOK, TransportTypeOK
<1>7. /\ st.offset = streams[p][s].offset /\ st.expOffset = Reach(frame)
      /\ st.buffered = streams[p][s].buffered \ {frame}
  BY <1>3, <1>6 DEF Stream, Reach
<1>8. streams' = [streams EXCEPT ![p][s] = st]
  <2> HIDE DEF s
  <2> QED
    BY <1>1, <1>2, <1>6
<1>9. UNCHANGED <<issued, recPktNum>>
  BY DEF DeliverBuffered, vars, connectionVars
<1>10. \A f \in st.buffered :
          \E x \in issued[Other(p)] : x.frame = f /\ x.pktNum \in recPktNum'[p]
  BY <1>2, <1>7, <1>9 DEF ReceivedOnce
<1>11. \E x \in SentData(Other(p)) :
          /\ x.pktNum \in recPktNum'[p] /\ x.frame.stream = s
          /\ x.frame.offset = streams[p][s].expOffset
          /\ st.expOffset = Reach(x.frame)
  BY <1>3, <1>4, <1>5, <1>7, <1>9 DEF SentData
<1> HIDE DEF s, st
<1> QED
  BY <1>2, <1>7, <1>8, <1>9, <1>10, <1>11, ForwardKeepsReceived DEF DeliveryInv

\* and what is sent goes beyond all that was.
LEMMA SendingKeepsReceived ==
  ASSUME StreamTypeOK, PacketInv, DeliveryInv, FramesApart, ReceivedOnce, NEW p \in Peer,
         \/ \E s \in StreamID, length \in Sizes, fin \in Fins :
                SendData(p, s, length, fin)
         \/ FinishPass(p)
  PROVE  FramesApart' /\ ReceivedOnce'
<1> USE OtherPeer
<1>1. UNCHANGED <<usedStreamID, current, delivered, recPktNum>>
  BY SendingEffect DEF DeliveryInv
<1>2. PICK queue \in Seq(UnsentBuffer) :
         /\ \A s \in StreamID : Covers(queue, s, streams[p][s].offset, submitted'[p][s])
         /\ Cuts(p, queue) \/ Keeps(p, queue)
  BY SendingEffect DEF DeliveryInv
<1>3. /\ streams \in [Peer -> [StreamID -> Stream]]
      /\ issued \in [Peer -> SUBSET Packet]
  BY DEF StreamTypeOK, TransportTypeOK, TypeOK
<1>4. CASE Keeps(p, queue)
  <2>1. UNCHANGED streams /\ NoDataMoves
    BY <1>4 DEF Keeps
  <2>2. \A q \in Peer : issued[q] \subseteq issued'[q] /\ SentData(q)' \subseteq SentData(q)
    BY <2>1 DEF NoDataMoves, SentData
  <2>3. FramesApart'
    BY <2>2 DEF FramesApart
  <2>4. ReceivedOnce'
    <3> SUFFICES ASSUME NEW q \in Peer, NEW s \in StreamID
                 PROVE  /\ streams'[q][s].expOffset <= streams'[Other(q)][s].offset
                        /\ \A frame \in streams'[q][s].buffered :
                              \E pkt \in issued'[Other(q)] :
                                  pkt.frame = frame /\ pkt.pktNum \in recPktNum'[q]
                        /\ \A pkt \in SentData(Other(q))' :
                              (/\ pkt.frame.stream = s /\ pkt.frame.length > 0
                               /\ pkt.pktNum \notin recPktNum'[q])
                                 => streams'[q][s].expOffset <= pkt.frame.offset
      BY DEF ReceivedOnce
    <3> QED
      BY <1>1, <2>1, <2>2 DEF ReceivedOnce
  <2> QED
    BY <2>3, <2>4
<1>5. CASE Cuts(p, queue)
  <2> DEFINE s == Head(queue).stream
             length == ChunkLength(queue)
             now == streams[p][s].offset + length
             frame == DataFrame(p, queue)
             new == NewPacket(p, frame)
  <2>1. queue # <<>>
    BY <1>5 DEF Cuts
  <2>2. s \in StreamID /\ length \in Nat
    BY <2>1, CuttingTyped
  <2>3. /\ frame.stream = s /\ frame.offset = streams[p][s].offset
        /\ frame.type = "STREAM"
    BY DEF DataFrame
  <2>4. /\ new.frame = frame
        /\ \A q \in Peer : issued'[q] = IF q = p THEN issued[p] \cup {new} ELSE issued[q]
    BY <1>3, <1>5 DEF NewPacket, Cuts
  <2> HIDE DEF frame, new
  <2>5. \A q \in Peer, t \in StreamID :
            /\ streams'[q][t].expOffset = streams[q][t].expOffset
            /\ streams'[q][t].buffered = streams[q][t].buffered
            /\ streams'[q][t].offset = IF q = p /\ t = s THEN now ELSE streams[q][t].offset
    <3>1. streams' = [streams EXCEPT ![p][s].offset = now]
      BY <1>5 DEF Cuts
    <3> HIDE DEF s, now
    <3>2. streams'[p][s].offset = now
      BY <1>3, <2>2, <3>1 DEF Stream
    <3> QED
      BY <1>3, <2>2, <3>1, <3>2, FieldChanged
  <2>6. \A q \in Peer : SentData(q)' = IF q = p THEN SentData(p) \cup {new} ELSE SentData(q)
    BY <2>3, <2>4 DEF SentData
  <2>7. \A q \in Peer, t \in StreamID : streams[q][t].offset <= streams'[q][t].offset
    <3> SUFFICES ASSUME NEW q \in Peer, NEW t \in StreamID
                 PROVE  streams[q][t].offset <= streams'[q][t].offset
      OBVIOUS
    <3>1. streams[q][t].offset \in Nat
      BY LimitsTyped
    <3>2. q = p /\ t = s => streams[q][t].offset <= now
      BY <2>2, <3>1
    <3> HIDE DEF s, now
    <3> QED
      BY <2>5, <3>1, <3>2
  <2> HIDE DEF s, now, length
  <2>8. \A pkt \in SentData(p) : Apart(pkt.frame, frame) /\ Apart(frame, pkt.frame)
    BY <2>3 DEF DeliveryInv, FramesSent, SentData, Apart, Reach
  <2>9. FramesApart'
    <3> SUFFICES ASSUME NEW q \in Peer, NEW x \in SentData(q)', NEW y \in SentData(q)', x # y
                 PROVE  Apart(x.frame, y.frame)
      BY DEF FramesApart
    <3>1. CASE x \in SentData(q) /\ y \in SentData(q)
      BY <3>1 DEF FramesApart
    <3>2. CASE q = p /\ (x = new \/ y = new)
      BY <2>4, <2>6, <2>8, <3>2
    <3> QED
      BY <2>6, <3>1, <3>2
  <2>10. ReceivedOnce'
    <3> SUFFICES ASSUME NEW q \in Peer, NEW t \in StreamID
                 PROVE  /\ streams'[q][t].expOffset <= streams'[Other(q)][t].offset
                        /\ \A f \in streams'[q][t].buffered :
                              \E pkt \in issued'[Other(q)] :
                                  pkt.frame = f /\ pkt.pktNum \in recPktNum'[q]
                        /\ \A pkt \in SentData(Other(q))' :
                              (/\ pkt.frame.stream = t /\ pkt.frame.length > 0
                               /\ pkt.pktNum \notin recPktNum'[q])
                                 => streams'[q][t].expOffset <= pkt.frame.offset
      BY DEF ReceivedOnce
    <3>1. streams'[q][t].expOffset <= streams'[Other(q)][t].offset
      <4>1. /\ streams[q][t].expOffset <= streams[Other(q)][t].offset
            /\ streams[q][t].expOffset \in Nat /\ streams[Other(q)][t].offset \in Nat
        BY LimitsTyped DEF ReceivedOnce
      <4>2. streams'[Other(q)][t].offset \in Nat
        <5>1. now \in Nat
          BY <2>2, LimitsTyped DEF now
        <5> QED
          BY <2>5, <4>1, <5>1
      <4> QED
        BY <2>5, <2>7, <4>1, <4>2
    <3>2. \A f \in streams'[q][t].buffered :
             \E pkt \in issued'[Other(q)] : pkt.frame = f /\ pkt.pktNum \in recPktNum'[q]
      BY <1>1, <2>4, <2>5 DEF ReceivedOnce
    <3>3. \A pkt \in SentData(Other(q))' :
             (/\ pkt.frame.stream = t /\ pkt.frame.length > 0
              /\ pkt.pktNum \notin recPktNum'[q])
                => streams'[q][t].expOffset <= pkt.frame.offset
      <4> SUFFICES ASSUME NEW pkt \in SentData(Other(q))', pkt.frame.stream = t,
                          pkt.frame.length > 0, pkt.pktNum \notin recPktNum'[q]
                   PROVE  streams'[q][t].expOffset <= pkt.frame.offset
        OBVIOUS
      <4>1. CASE pkt \in SentData(Other(q))
        BY <1>1, <2>5, <4>1 DEF ReceivedOnce
      <4>2. CASE Other(q) = p /\ pkt = new
        BY <2>3, <2>4, <2>5, <4>2 DEF ReceivedOnce
      <4> QED
        BY <2>6, <4>1, <4>2
    <3> QED
      BY <3>1, <3>2, <3>3
  <2> QED
    BY <2>9, <2>10
<1> QED
  BY <1>2, <1>4, <1>5

-----------------------------------------------------------------------------
(* No frame is beyond the limits.                                          *)

\* What is on its way fits in the limits of who receives it.
LEMMA NothingOverLimit ==
  ASSUME StreamTypeOK, PacketInv, DeliveryInv, ConnectionLimitIsGranted, CreditInv,
         UnusedAtDefault, BytesMeetDefault, NEW p \in Peer, NEW pkt \in inFlight[p]
  PROVE  ~ReceiveOverLimit(p, pkt)
<1> USE OtherPeer
<1> SUFFICES ASSUME ReceiveOverLimit(p, pkt) PROVE FALSE
  OBVIOUS
<1> DEFINE frame == pkt.frame
           s == frame.stream
           q == Other(p)
           found == FoundStream(p, s)
<1>1. /\ frame.type = "STREAM" /\ pkt \in issued[q] /\ frame \in StreamFrame
      /\ Handles(p, pkt) /\ ~WithinLimits(p, frame)
  <2>1. /\ frame.type = "STREAM" /\ pkt \in issued[q]
        /\ Handles(p, pkt) /\ ~WithinLimits(p, frame)
    BY DEF ReceiveOverLimit, PacketInv, KnownPackets
  <2> QED
    BY <2>1, IssuedFrame DEF StreamTypeOK
<1>2. /\ s \in StreamID /\ frame.offset \in Nat /\ frame.length \in Nat
      /\ pkt \in SentData(q)
  BY <1>1, IssuedFrame DEF StreamTypeOK, SentData
<1>3. pkt.pktNum \notin recPktNum[p]
  <2>1. frame \in OnceFrame /\ frame \notin RepeatFrame
    BY <1>1, StreamFrameAssumption DEF LimitFrame
  <2> QED
    BY <1>1, <2>1 DEF Handles, HaveReceivedPkt
<1>4. frame.offset + frame.length <= streams[q][s].offset
  BY <1>1 DEF DeliveryInv, FramesSent
<1>5. /\ streams[p][s].expOffset \in Nat /\ streams[p][s].maxRecv \in Nat
      /\ streams[q][s].offset \in Nat /\ streams[q][s].maxSend \in Nat
      /\ MAX_STREAM_OFFSET \in Nat
  BY <1>2, LimitsTyped
<1>6. streams[p][s].expOffset + frame.length <= streams[q][s].offset
  <2>1. CASE frame.length > 0
    <3>1. streams[p][s].expOffset <= frame.offset
      BY <1>2, <1>3, <2>1 DEF CreditInv, ReceivedOnce
    <3> HIDE DEF frame, s, q
    <3> QED
      BY <1>2, <1>4, <1>5, <3>1
  <2>2. CASE ~(frame.length > 0)
    <3>1. streams[p][s].expOffset <= streams[q][s].offset
      BY <1>2 DEF CreditInv, ReceivedOnce
    <3>2. frame.length = 0
      BY <1>2, <2>2
    <3> HIDE DEF frame, s, q
    <3> QED
      BY <1>5, <3>1, <3>2
  <2> QED
    BY <2>1, <2>2
<1>7. frame.offset + frame.length <= found.maxRecv
  <2>1. streams[q][s].offset <= streams[q][s].maxSend
    BY <1>2 DEF CreditInv, SendersObey
  <2>2. streams[q][s].maxSend <= Larger(MAX_STREAM_OFFSET, streams[p][s].maxRecv)
    BY <1>2 DEF CreditInv, StreamGrants
  <2>3. CASE s \notin usedStreamID[p]
    <3>1. found.maxRecv = MAX_STREAM_OFFSET
      BY <2>3 DEF FoundStream, NewStream, DefaultStream
    <3>2. streams[p][s].maxRecv <= MAX_STREAM_OFFSET
      BY <1>2, <2>3 DEF UnusedAtDefault
    <3> HIDE DEF frame, s, q, found
    <3> QED
      BY <1>2, <1>4, <1>5, <2>1, <2>2, <3>1, <3>2 DEF Larger
  <2>4. CASE s \in usedStreamID[p]
    <3>1. found.maxRecv = streams[p][s].maxRecv
      BY <2>4 DEF FoundStream
    <3>2. streams[q][s].offset > 0 => streams[p][s].maxRecv >= MAX_STREAM_OFFSET
      BY <1>2, <2>4 DEF BytesMeetDefault
    <3> HIDE DEF frame, s, q, found
    <3> QED
      BY <1>2, <1>4, <1>5, <2>1, <2>2, <3>1, <3>2 DEF Larger
  <2> QED
    BY <2>3, <2>4
<1>8. ReceivedBytes(p) + frame.length <= SentBytes(q)
  <2> DEFINE received == [t \in StreamID |-> streams[p][t].expOffset]
             more == [t \in StreamID |-> IF t = s THEN received[t] + frame.length
                                         ELSE received[t]]
             sent == [t \in StreamID |-> streams[q][t].offset]
  <2>1. /\ IsFiniteSet(StreamID) /\ received \in [StreamID -> Int]
        /\ sent \in [StreamID -> Int]
    BY BytesTyped
  <2>2. \A t \in StreamID : more[t] <= sent[t]
    <3> SUFFICES ASSUME NEW t \in StreamID PROVE more[t] <= sent[t]
      OBVIOUS
    <3>1. streams[p][t].expOffset <= streams[q][t].offset
      BY DEF CreditInv, ReceivedOnce
    <3> HIDE DEF s, frame, q
    <3> QED
      BY <1>6, <3>1
  <2>3. /\ ReceivedBytes(p) = SumFunction(received) /\ SentBytes(q) = SumFunction(sent)
    BY DEF ReceivedBytes, SentBytes
  <2>4. /\ more \in [StreamID -> Int] /\ more[s] = received[s] + frame.length
        /\ \A t \in StreamID : t # s => more[t] = received[t]
    <3> HIDE DEF received, frame, s
    <3> QED
      BY <1>2, <2>1
  <2> HIDE DEF received, more, sent, s, frame, q
  <2>5. SumFunction(more) = SumFunction(received) + frame.length
    BY <1>2, <2>1, <2>4, SumRaised
  <2>6. SumFunction(more) <= SumFunction(sent)
    BY <2>1, <2>2, <2>4, SumMonotone
  <2> QED
    BY <2>3, <2>5, <2>6
<1>9. ReceivedBytes(p) + frame.length <= maxRecvSize[p]
  <2>1. SentBytes(q) <= maxSendSize[q] /\ maxSendSize[q] <= maxRecvSize[p]
    BY DEF CreditInv, SendersObey, ConnectionLimitIsGranted
  <2>2. /\ ReceivedBytes(p) \in Int /\ SentBytes(q) \in Int
        /\ maxSendSize[q] \in Int /\ maxRecvSize[p] \in Int
    BY BytesTyped DEF StreamTypeOK, TransportTypeOK
  <2> HIDE DEF frame, q
  <2> QED
    BY <1>2, <1>8, <2>1, <2>2
<1>10. found.expOffset = streams[p][s].expOffset
  BY <1>2, FoundFresh DEF DeliveryInv
<1>11. ReceivedBytes(p) - streams[p][s].expOffset + found.expOffset + frame.length
           <= maxRecvSize[p]
  <2>1. ReceivedBytes(p) \in Int
    BY BytesTyped
  <2>2. ReceivedBytes(p) - streams[p][s].expOffset + streams[p][s].expOffset + frame.length
           = ReceivedBytes(p) + frame.length
    <3> HIDE DEF frame, s
    <3> QED
      BY <1>2, <1>5, <2>1
  <2> QED
    BY <1>9, <1>10, <2>2
<1> QED
  BY <1>1, <1>7, <1>11 DEF WithinLimits

\* A step keeps the invariant of credit.
LEMMA StepKeepsCredit ==
  ASSUME StreamTypeOK, StreamTypeOK', PacketInv, DeliveryInv, CreditInv, UnusedAtDefault,
         EntriesKept, NEW p \in Peer, StreamEndpoint(p)
  PROVE  CreditInv'
<1>1. \A q \in Peer, t \in StreamID : LimitsGo(q, t, streams[q][t], streams'[q][t])
  BY StepMovesLimits
<1>2. StreamGrants'
  BY <1>1, EveryStepPromises, LimitsKeepGrants DEF CreditInv
<1>3. \A q \in Peer : recPktNum[q] \subseteq recPktNum'[q]
  BY RecordedGrows DEF StreamTypeOK
<1>4. CASE \/ \E s \in StreamID, length \in Sizes, fin \in Fins : SendData(p, s, length, fin)
           \/ FinishPass(p)
  <2>1. SendersObey'
    BY <1>4, SendingObeys DEF CreditInv
  <2>2. FramesApart' /\ ReceivedOnce'
    BY <1>4, SendingKeepsReceived DEF CreditInv
  <2> QED
    BY <1>2, <2>1, <2>2 DEF CreditInv
<1>5. CASE \/ \E bidirectional \in BOOLEAN : CreateStream(p, bidirectional)
           \/ \E pkt \in inFlight[p] : Receive(p, pkt)
           \/ DeliverBuffered(p) \/ RaiseLimits(p) \/ QueueReply(p) \/ PassStep(p)
  <2>1. SendersObey'
    BY <1>1, <1>5, NothingSent, OffsetsKeepObeying DEF CreditInv
  <2>2. FramesApart' /\ ReceivedOnce'
    <3>1. CASE \E pkt \in inFlight[p] : ReceiveStream(p, pkt)
      BY <3>1, ArrivingKeepsReceived DEF CreditInv
    <3>2. CASE DeliverBuffered(p)
      BY <3>2, WaitedKeepsReceived DEF CreditInv
    <3>3. CASE Neutral
      BY <1>3, <3>3, NeutralKeepsReceived DEF CreditInv
    <3>4. Neutral \/ DeliverBuffered(p) \/ \E pkt \in inFlight[p] : ReceiveStream(p, pkt)
      BY <1>5, OpeningIsNeutral, ReadingIsNeutral, EndingIsNeutral DEF DeliveryInv
    <3> QED
      BY <3>1, <3>2, <3>3, <3>4
  <2> QED
    BY <1>2, <2>1, <2>2 DEF CreditInv
<1> QED
  BY <1>4, <1>5 DEF StreamEndpoint

\* Nothing is sent or promised at the start.
LEMMA CreditInitially == StreamInit => CreditInv
<1> SUFFICES ASSUME StreamInit PROVE CreditInv
  OBVIOUS
<1> USE OtherPeer
<1>1. \A p \in Peer : issued[p] = {} /\ replies[p] = <<>> /\ SentData(p) = {}
  BY DEF StreamInit, Init, SentData
<1>2. \A p \in Peer, s \in StreamID :
         /\ streams[p][s].offset = 0 /\ streams[p][s].expOffset = 0
         /\ streams[p][s].maxSend = 0 /\ streams[p][s].buffered = {}
         /\ streams[p][s].maxRecv = 0
  BY DEF StreamInit, DefaultStream
<1>3. StreamGrants
  BY <1>1, <1>2, SizeAssumption DEF StreamGrants, Larger
<1>4. ASSUME NEW p \in Peer PROVE SentBytes(p) <= maxSendSize[p]
  <2> DEFINE sent == [s \in StreamID |-> streams[p][s].offset]
             Sum == SumFunctionOnSet(sent, StreamID)
  <2>1. IsFiniteSet(StreamID) /\ sent \in [StreamID -> 0 .. 0] /\ SentBytes(p) = Sum
    <3>1. IsFiniteSet(StreamID)
      <4>1. IsFiniteSet(0 .. MAX_STREAM_NUM - 1)
        BY StreamAssumption, FS_Interval
      <4> QED
        BY <4>1, StreamAssumption, FS_Subset
    <3>2. SentBytes(p) = Sum
      BY DEF SentBytes, SumFunction
    <3> QED
      BY <1>2, <3>1, <3>2
  <2>2. Cardinality(StreamID) \in Nat
    BY <2>1, FS_CardinalityType
  <2>3. maxSendSize[p] \in Nat
    BY SizeAssumption DEF StreamInit
  <2> HIDE DEF sent
  <2>4. Sum \in Nat /\ Sum <= 0 * Cardinality(StreamID)
    BY <2>1, SumBounds
  <2> QED
    BY <2>1, <2>2, <2>3, <2>4
<1>5. SendersObey
  BY <1>2, <1>4 DEF SendersObey
<1>6. FramesApart /\ ReceivedOnce
  BY <1>1, <1>2 DEF FramesApart, ReceivedOnce
<1> QED
  BY <1>3, <1>5, <1>6 DEF CreditInv

\* No sender makes its receiver close the connection with FLOW_CONTROL_ERROR.
THEOREM SendersStayWithinLimits ==
  StreamSpec /\ [][EntriesKept]_allVars /\ []UnusedAtDefault /\ []BytesMeetDefault
     => []NeverOverLimit
<1>1. StreamTypeOK /\ StreamTypeOK' /\ PacketInv /\ DeliveryInv /\ CreditInv
         /\ UnusedAtDefault /\ [StreamNext]_allVars /\ [EntriesKept]_allVars
            => CreditInv'
  <2> SUFFICES ASSUME StreamTypeOK, StreamTypeOK', PacketInv, DeliveryInv, CreditInv,
                      UnusedAtDefault, [StreamNext]_allVars, [EntriesKept]_allVars
               PROVE  CreditInv'
    OBVIOUS
  <2>1. CASE UNCHANGED allVars
    <3>1. /\ UNCHANGED <<streams, maxSendSize, replies, issued, recPktNum>>
          /\ UNCHANGED <<usedStreamID, unsentBuf, submitted, delivered, current>>
      BY <2>1 DEF allVars, vars, streamVars, flowVars, handlerVars, historyVars,
         connectionVars
    <3>2. StreamGrants' /\ FramesApart' /\ ReceivedOnce'
      BY <3>1 DEF CreditInv, StreamGrants, FramesApart, ReceivedOnce, SentData
    <3>3. SendersObey'
      BY <3>1 DEF CreditInv, SendersObey, SentBytes
    <3> QED
      BY <3>2, <3>3 DEF CreditInv
  <2>2. ASSUME NEW p \in Peer, StreamEndpoint(p), EntriesKept PROVE CreditInv'
    BY <2>2, StepKeepsCredit
  <2>3. CASE ~UNCHANGED allVars
    <3>1. PICK p \in Peer : StreamEndpoint(p)
      BY <2>3 DEF StreamNext
    <3> QED
      BY <2>2, <2>3, <3>1
  <2> QED
    BY <2>1, <2>3
<1>2. StreamTypeOK /\ PacketInv /\ DeliveryInv /\ ConnectionLimitIsGranted /\ CreditInv
         /\ UnusedAtDefault /\ BytesMeetDefault /\ NeverOverLimit /\ [StreamNext]_allVars
            => NeverOverLimit'
  <2> SUFFICES ASSUME StreamTypeOK, PacketInv, DeliveryInv, ConnectionLimitIsGranted,
                      CreditInv, UnusedAtDefault, BytesMeetDefault, NeverOverLimit,
                      [StreamNext]_allVars
               PROVE  NeverOverLimit'
    OBVIOUS
  <2>1. CASE UNCHANGED open
    BY <2>1 DEF NeverOverLimit
  <2>2. CASE UNCHANGED allVars
    BY <2>1, <2>2 DEF allVars, streamVars, handlerVars
  <2>3. ASSUME NEW p \in Peer, StreamEndpoint(p) PROVE NeverOverLimit'
    <3>1. CASE \/ \E bidirectional \in BOOLEAN : CreateStream(p, bidirectional)
               \/ \E s \in StreamID, length \in Sizes, fin \in Fins :
                     SendData(p, s, length, fin)
      BY <2>1, <3>1 DEF CreateStream, SendData, handlerVars
    <3>2. CASE \E pkt \in inFlight[p] : Receive(p, pkt)
      <4>1. PICK pkt \in inFlight[p] : Receive(p, pkt)
        BY <3>2
      <4>2. ~ReceiveOverLimit(p, pkt)
        BY NothingOverLimit
      <4>3. UNCHANGED open
        BY <4>1, <4>2 DEF Receive, ReceiveStream, ReceiveMaxData, ReceiveMaxStreamData,
           ReceiveStreamDataBlocked, ReceiveDataBlocked, streamVars, handlerVars
      <4> QED
        BY <2>1, <4>3
    <3>3. CASE DeliverBuffered(p) \/ RaiseLimits(p) \/ QueueReply(p)
      BY <2>1, <3>3 DEF DeliverBuffered, RaiseLimits, QueueReply, handlerVars
    <3>4. CASE PassStep(p) \/ FinishPass(p)
      BY <2>1, <3>4 DEF PassStep, FinishPass, streamVars, handlerVars
    <3> QED
      BY <2>3, <3>1, <3>2, <3>3, <3>4 DEF StreamEndpoint
  <2> QED
    BY <2>2, <2>3 DEF StreamNext
<1>3. StreamInit => NeverOverLimit
  BY DEF StreamInit, NeverOverLimit
<1> QED
  BY <1>1, <1>2, <1>3, CreditInitially, DeliveryCorrect, ConnectionLimitGranted,
     StreamTypeCorrect, StreamBookkeeping, PTL DEF StreamSpec

-----------------------------------------------------------------------------
(* Where streams are stored under their IDs and no stream's limit blocks.  *)

\* GenerateStreamID returns the index itself, as it does for the client's first stream,
KeysAreIDs ==
  \A p \in Peer, bidirectional \in BOOLEAN, index \in StreamID :
      LET id == GeneratedID(index, StreamType(p, bidirectional))
      IN  id \in StreamID => id = index

\* and no more is submitted on a stream than its default limit.
FitsDefault == \A p \in Peer : MaxSubmitted[p] <= MAX_STREAM_OFFSET

\* So a stream in use has its default limits or more, one that is not has no more, and
\* nobody asks for a stream's credit.
DefaultsInv ==
  /\ EveryStreamHasDefaults
  /\ UnusedAtDefault
  /\ \A p \in Peer :
       /\ \A s \in StreamID : submitted[p][s] <= MaxSubmitted[p]
       /\ \A pkt \in issued[p] : pkt.frame.type # "STREAM_DATA_BLOCKED"

\* What a step does to the streams in use and to the limits of the others.
UseGoes ==
  \A q \in Peer, t \in StreamID :
     /\ t \in usedStreamID[q] => t \in usedStreamID'[q]
     /\ t \notin usedStreamID'[q] => streams'[q][t].maxRecv = streams[q][t].maxRecv
     /\ t \in usedStreamID'[q] => \/ t \in usedStreamID[q]
                                  \/ /\ streams'[q][t].maxRecv = MAX_STREAM_OFFSET
                                     /\ streams'[q][t].maxSend = MAX_STREAM_OFFSET

\* No stream comes into use, and one that is not keeps its limit.
LEMMA NoNewUse ==
  ASSUME UNCHANGED usedStreamID,
         \A q \in Peer, t \in StreamID :
            t \notin usedStreamID[q] => streams'[q][t].maxRecv = streams[q][t].maxRecv
  PROVE  UseGoes
BY DEF UseGoes

\* One stream changes, and is in use then.
LEMMA OneInUse ==
  ASSUME StreamTypeOK, NEW p \in Peer, NEW s \in StreamID, NEW new,
         streams' = [streams EXCEPT ![p][s] = new],
         usedStreamID' = [usedStreamID EXCEPT ![p] = @ \cup {s}],
         \/ s \in usedStreamID[p]
         \/ new.maxRecv = MAX_STREAM_OFFSET /\ new.maxSend = MAX_STREAM_OFFSET
  PROVE  UseGoes
<1>1. \A q \in Peer, t \in StreamID :
         streams'[q][t] = IF q = p /\ t = s THEN new ELSE streams[q][t]
  BY DEF StreamTypeOK, TransportTypeOK
<1>2. \A q \in Peer :
         usedStreamID'[q] = IF q = p THEN usedStreamID[p] \cup {s} ELSE usedStreamID[q]
  BY DEF StreamTypeOK, TransportTypeOK
<1> QED
  BY <1>1, <1>2 DEF UseGoes

\* One stream in use changes.
LEMMA OneUsed ==
  ASSUME StreamTypeOK, NEW p \in Peer, NEW s \in StreamID, NEW new,
         streams' = [streams EXCEPT ![p][s] = new], UNCHANGED usedStreamID,
         s \in usedStreamID[p] \/ new.maxRecv = streams[p][s].maxRecv
  PROVE  UseGoes
<1>1. \A q \in Peer, t \in StreamID :
         streams'[q][t] = IF q = p /\ t = s THEN new ELSE streams[q][t]
  BY DEF StreamTypeOK, TransportTypeOK
<1> QED
  BY <1>1, NoNewUse

\* Reading a frame brings a stream into use with its default limits.
LEMMA ReceivingGoes ==
  ASSUME StreamTypeOK, PacketInv, DefaultsInv, NEW p \in Peer,
         NEW pkt \in inFlight[p], Receive(p, pkt)
  PROVE  UseGoes
<1> DEFINE frame == pkt.frame
           s == frame.stream
           found == FoundStream(p, s)
<1>1. s \in StreamID => found \in Stream /\ streams[p][s] \in Stream
  BY FoundStreamTyped DEF StreamTypeOK, TransportTypeOK
<1>2. \/ s \in usedStreamID[p]
      \/ found.maxRecv = MAX_STREAM_OFFSET /\ found.maxSend = MAX_STREAM_OFFSET
  BY DEF FoundStream, NewStream, DefaultStream
<1>3. CASE ReceiveStream(p, pkt)
  <2>1. s \in StreamID /\ frame.length \in Nat
    BY <1>3, FrameRead, SizeAssumption DEF ReceiveStream, StreamFrame, StreamTypeOK
  <2>2. PICK new \in {[found EXCEPT !.expOffset = @ + frame.length],
                      [found EXCEPT !.buffered = @ \cup {frame}]} :
           streams' = [streams EXCEPT ![p][s] = new]
    BY <1>3 DEF ReceiveStream, ReceiveInOrder, ReceiveDisorder
  <2>3. new.maxRecv = found.maxRecv /\ new.maxSend = found.maxSend
    BY <1>1, <2>1, <2>2 DEF Stream
  <2>4. usedStreamID' = [usedStreamID EXCEPT ![p] = @ \cup {s}]
    BY <1>3 DEF ReceiveStream
  <2> HIDE DEF s, found
  <2> QED
    BY <1>2, <2>1, <2>2, <2>3, <2>4, OneInUse
<1>4. CASE ReceiveOverLimit(p, pkt)
  <2>1. s \in StreamID
    BY <1>4, FrameRead DEF ReceiveOverLimit, StreamFrame, StreamTypeOK
  <2>2. /\ streams' = [streams EXCEPT ![p][s] = found]
        /\ usedStreamID' = [usedStreamID EXCEPT ![p] = @ \cup {s}]
    BY <1>4 DEF ReceiveOverLimit, InsertStream
  <2> HIDE DEF s, found
  <2> QED
    BY <1>2, <2>1, <2>2, OneInUse
<1>5. CASE ReceiveMaxData(p, pkt) \/ ReceiveDataBlocked(p, pkt)
  BY <1>5, NoNewUse DEF ReceiveMaxData, ReceiveDataBlocked
<1>6. CASE ReceiveMaxStreamData(p, pkt)
  <2> DEFINE new == [streams[p][s] EXCEPT !.maxSend = Larger(@, frame.value)]
  <2>1. s \in StreamID
    BY <1>6, LimitStream DEF StreamTypeOK, ReceiveMaxStreamData
  <2>2. streams' = [streams EXCEPT ![p][s] = new] /\ UNCHANGED usedStreamID
    BY <1>6 DEF ReceiveMaxStreamData
  <2>3. new.maxRecv = streams[p][s].maxRecv
    BY <1>1, <2>1 DEF Stream
  <2> HIDE DEF new, s
  <2> QED
    BY <2>1, <2>2, <2>3, OneUsed
<1>7. CASE ReceiveStreamDataBlocked(p, pkt)
  <2>1. pkt \in issued[Other(p)] /\ frame.type = "STREAM_DATA_BLOCKED"
    BY <1>7, OtherPeer DEF ReceiveStreamDataBlocked, PacketInv, KnownPackets
  <2> QED
    BY <2>1, OtherPeer DEF DefaultsInv
<1> QED
  BY <1>3, <1>4, <1>5, <1>6, <1>7 DEF Receive

\* Every step brings streams into use with their default limits.
LEMMA StepGoes ==
  ASSUME KeysAreIDs, StreamTypeOK, PacketInv, UnusedIsFresh, DefaultsInv, NEW p \in Peer,
         StreamEndpoint(p)
  PROVE  UseGoes
<1>0. /\ streams \in [Peer -> [StreamID -> Stream]]
      /\ usedStreamID \in [Peer -> SUBSET StreamID]
      /\ current[p] \in StreamID \cup {NoStream}
  BY DEF StreamTypeOK, TransportTypeOK
<1>1. ASSUME NEW bidirectional \in BOOLEAN, CreateStream(p, bidirectional)
      PROVE  UseGoes
  <2> DEFINE id(index) == GeneratedID(index, StreamType(p, bidirectional))
  <2>1. PICK index \in StreamID :
            /\ id(index) \in StreamID
            /\ usedStreamID' = [usedStreamID EXCEPT ![p] = @ \cup {id(index)}]
            /\ streams' = [streams EXCEPT ![p][index] = NewStream]
    BY <1>1 DEF CreateStream
  <2>2. id(index) = index
    BY <2>1 DEF KeysAreIDs
  <2>3. NewStream.maxRecv = MAX_STREAM_OFFSET /\ NewStream.maxSend = MAX_STREAM_OFFSET
    BY DEF NewStream, DefaultStream
  <2> HIDE DEF id
  <2> QED
    BY <2>1, <2>2, <2>3, OneInUse
<1>2. CASE \/ \E s \in StreamID, length \in Sizes, fin \in Fins : SendData(p, s, length, fin)
           \/ FinishPass(p)
  <2>1. UNCHANGED usedStreamID
    BY <1>2 DEF SendData, FinishPass
  <2>2. PICK queue \in Seq(UnsentBuffer) :
           \/ TakeChunk(p, queue)
           \/ AskForCredit(p, queue)
           \/ LeaveWaiting(p, queue)
    BY <1>2, SendingFromQueue
  <2>3. CASE TakeChunk(p, queue)
    <3> DEFINE s == Head(queue).stream
               new == [streams[p][s] EXCEPT !.offset = @ + ChunkLength(queue)]
    <3>1. s \in StreamID
      BY <2>3, CuttingTyped DEF TakeChunk
    <3>2. streams' = [streams EXCEPT ![p][s] = new]
      BY <2>3 DEF TakeChunk
    <3>3. new.maxRecv = streams[p][s].maxRecv
      BY <1>0, <3>1 DEF Stream
    <3> HIDE DEF new, s
    <3> QED
      BY <2>1, <3>1, <3>2, <3>3, OneUsed
  <2>4. CASE UNCHANGED streams
    BY <2>1, <2>4, NoNewUse
  <2> QED
    BY <2>2, <2>3, <2>4 DEF AskForCredit, LeaveWaiting
<1>3. ASSUME NEW pkt \in inFlight[p], Receive(p, pkt) PROVE UseGoes
  BY <1>3, ReceivingGoes
<1>4. CASE DeliverBuffered(p)
  <2> DEFINE s == current[p]
  <2>1. PICK frame :
          streams' = [streams EXCEPT ![p][s].buffered = @ \ {frame},
                                     ![p][s].expOffset = @ + frame.length]
    BY <1>4 DEF DeliverBuffered
  <2>2. s \in StreamID /\ UNCHANGED usedStreamID
    BY <1>0, <1>4 DEF DeliverBuffered
  <2> DEFINE new == [streams[p][s] EXCEPT !.buffered = @ \ {frame},
                                          !.expOffset = @ + frame.length]
  <2>3. new.maxRecv = streams[p][s].maxRecv
    BY <1>0, <2>2 DEF Stream
  <2>4. streams' = [streams EXCEPT ![p][s] = new]
    <3> HIDE DEF s
    <3> QED
      BY <1>0, <2>1, <2>2
  <2> HIDE DEF new, s
  <2> QED
    BY <2>2, <2>3, <2>4, OneUsed
<1>5. CASE RaiseLimits(p)
  <2> DEFINE s == current[p]
             old == streams[p][s].maxRecv
             new == [streams[p][s] EXCEPT !.maxRecv = Larger(old, Raised(old))]
  <2>1. s \in StreamID /\ s \in usedStreamID[p] /\ UNCHANGED usedStreamID
    BY <1>0, <1>5 DEF RaiseLimits, UnusedIsFresh
  <2>2. UNCHANGED streams \/ streams' = [streams EXCEPT ![p][s] = new]
    BY <1>5 DEF RaiseLimits
  <2> HIDE DEF new, s
  <2> QED
    BY <2>1, <2>2, NoNewUse, OneUsed
<1>6. CASE QueueReply(p) \/ PassStep(p)
  <2>1. UNCHANGED <<streams, usedStreamID>>
    BY <1>6 DEF QueueReply, PassStep, streamVars
  <2> QED
    BY <2>1, NoNewUse
<1> QED
  BY <1>1, <1>2, <1>3, <1>4, <1>5, <1>6 DEF StreamEndpoint

\* No buffer is blocked by its stream.
LEMMA StreamsDoNotBlock ==
  ASSUME FitsDefault, StreamTypeOK, DefaultsInv, NEW p \in Peer,
         NEW queue \in Seq(UnsentBuffer), queue # <<>>,
         Head(queue).stream \in usedStreamID[p],
         NEW total \in Nat, total <= MaxSubmitted[p],
         Covers(queue, Head(queue).stream, streams[p][Head(queue).stream].offset, total)
  PROVE  ~StreamBlocked(p, queue)
<1> DEFINE s == Head(queue).stream
<1>1. s \in StreamID
  BY CuttingTyped
<1>2. streams[p][s].offset \in Nat /\ streams[p][s].maxSend \in Nat
  BY <1>1, LimitsTyped
<1>3. ChunkLength(queue) \in Nat /\ streams[p][s].offset + ChunkLength(queue) <= total
  BY <1>2, CoversHead
<1>4. streams[p][s].maxSend >= MAX_STREAM_OFFSET
  BY DEF DefaultsInv, EveryStreamHasDefaults
<1>5. /\ MaxSubmitted[p] <= MAX_STREAM_OFFSET
      /\ MaxSubmitted[p] \in Nat /\ MAX_STREAM_OFFSET \in Nat
  BY SizeAssumption DEF FitsDefault
<1> HIDE DEF s
<1>6. ~(streams[p][s].offset + ChunkLength(queue) > streams[p][s].maxSend)
  BY <1>2, <1>3, <1>4, <1>5
<1> QED
  BY <1>6 DEF StreamBlocked, s

\* So no credit is asked for a stream.
LEMMA NobodyAsks ==
  ASSUME FitsDefault, StreamTypeOK, DeliveryInv, DefaultsInv, NEW p \in Peer,
         \/ \E s \in StreamID, length \in Sizes, fin \in Fins :
                SendData(p, s, length, fin)
         \/ FinishPass(p)
  PROVE  /\ \A q \in Peer, s \in StreamID : submitted'[q][s] <= MaxSubmitted[q]
         /\ \A q \in Peer : \A pkt \in issued'[q] :
               pkt \in issued[q] \/ pkt.frame.type # "STREAM_DATA_BLOCKED"
<1>0. /\ submitted \in [Peer -> [StreamID -> Nat]]
      /\ unsentBuf[p] \in Seq(UnsentBuffer)
  BY DEF StreamTypeOK, HistoryTypeOK, TransportTypeOK
<1>1. \A queue : DataFrame(p, queue).type # "STREAM_DATA_BLOCKED"
  BY DEF DataFrame
<1>2. \A queue : ~StreamBlocked(p, queue) =>
                    CreditRequest(p, queue).type # "STREAM_DATA_BLOCKED"
  BY DEF CreditRequest
<1>3. ASSUME NEW s \in StreamID, NEW length \in Sizes, NEW fin \in Fins,
             SendData(p, s, length, fin)
      PROVE  /\ \A q \in Peer, t \in StreamID : submitted'[q][t] <= MaxSubmitted[q]
             /\ \/ issued' = issued
                \/ \E frame : AddPacket(p, frame) /\ frame.type # "STREAM_DATA_BLOCKED"
  <2> DEFINE buf == [stream |-> s, first |-> submitted[p][s] + 1, length |-> length,
                     fin |-> fin]
             queue == Append(unsentBuf[p], buf)
             total == submitted[p][s] + length
  <2>1. /\ s \in usedStreamID[p] /\ total <= MaxSubmitted[p]
        /\ submitted' = [submitted EXCEPT ![p][s] = @ + length]
        /\ \/ AddPacket(p, DataFrame(p, queue))
           \/ AddPacket(p, CreditRequest(p, queue))
           \/ issued' = issued
    BY <1>3 DEF SendData, QueuePacket, vars
  <2>2. \A q \in Peer, t \in StreamID :
           submitted'[q][t] = IF q = p /\ t = s THEN total ELSE submitted[q][t]
    BY <1>0, <2>1
  <2>3. \A q \in Peer, t \in StreamID : submitted'[q][t] <= MaxSubmitted[q]
    BY <2>1, <2>2 DEF DefaultsInv
  <2>4. length \in Nat /\ fin \in BOOLEAN /\ buf \in UnsentBuffer
    BY <1>0, SizeAssumption DEF UnsentBuffer
  <2>5. /\ queue \in Seq(UnsentBuffer) /\ queue # <<>>
        /\ Head(queue) = IF unsentBuf[p] = <<>> THEN buf ELSE unsentBuf[p][1]
    <3>1. \A q \in Seq(UnsentBuffer) : \A b \in UnsentBuffer :
             /\ Append(q, b) \in Seq(UnsentBuffer) /\ Append(q, b) # <<>>
             /\ q = <<>> => Head(Append(q, b)) = b
             /\ q # <<>> => Head(Append(q, b)) = q[1]
      OBVIOUS
    <3> HIDE DEF buf
    <3> QED
      BY <1>0, <2>4, <3>1
  <2>6. Head(queue).stream \in usedStreamID[p]
    <3>1. unsentBuf[p] # <<>> => 1 \in DOMAIN unsentBuf[p]
      BY <1>0
    <3> QED
      BY <2>1, <2>5, <3>1 DEF DeliveryInv, UnusedIsFresh
  <2>7. \A t \in StreamID : Covers(queue, t, streams[p][t].offset,
                                   IF s = t THEN submitted[p][t] + length ELSE submitted[p][t])
    <3> TAKE t \in StreamID
    <3>1. Covers(unsentBuf[p], t, streams[p][t].offset, submitted[p][t])
      BY DEF DeliveryInv, BuffersCover
    <3>2. streams[p][t].offset \in Nat /\ submitted[p][t] \in Nat
      BY <1>0, LimitsTyped
    <3>3. buf.stream = s /\ buf.length = length /\ buf.first = submitted[p][s] + 1
      OBVIOUS
    <3> HIDE DEF buf
    <3> QED
      BY <1>0, <2>4, <3>1, <3>2, <3>3, CoversAppended
  <2>8. Head(queue).stream \in StreamID
    BY <2>5, CuttingTyped
  <2> HIDE DEF queue, buf
  <2>9. ~StreamBlocked(p, queue)
    <3>1. CASE s = Head(queue).stream
      <4>1. total \in Nat
        BY <1>0, <2>4
      <4> QED
        BY <2>1, <2>5, <2>6, <2>7, <2>8, <3>1, <4>1, StreamsDoNotBlock
    <3>2. CASE s # Head(queue).stream
      <4>1. /\ submitted[p][Head(queue).stream] \in Nat
            /\ submitted[p][Head(queue).stream] <= MaxSubmitted[p]
        BY <1>0, <2>8 DEF DefaultsInv
      <4> QED
        BY <2>5, <2>6, <2>7, <2>8, <3>2, <4>1, StreamsDoNotBlock
    <3> QED
      BY <3>1, <3>2
  <2> QED
    BY <1>1, <1>2, <2>1, <2>3, <2>9
<1>4. ASSUME FinishPass(p)
      PROVE  /\ \A q \in Peer, t \in StreamID : submitted'[q][t] <= MaxSubmitted[q]
             /\ \/ issued' = issued
                \/ \E frame : AddPacket(p, frame) /\ frame.type # "STREAM_DATA_BLOCKED"
  <2> DEFINE queue == unsentBuf[p]
  <2>1. /\ submitted' = submitted
        /\ \/ AddPacket(p, DataFrame(p, queue))
           \/ queue # <<>> /\ AddPacket(p, CreditRequest(p, queue))
           \/ issued' = issued
    BY <1>4 DEF FinishPass, EndPassWithPacket, EndPass, historyVars, AskForCredit, Blocked
  <2>2. ASSUME queue # <<>> PROVE ~StreamBlocked(p, queue)
    <3> DEFINE s == Head(queue).stream
    <3>1. 1 \in DOMAIN queue /\ Head(queue) = queue[1] /\ queue \in Seq(UnsentBuffer)
      BY <1>0, <2>2
    <3>2. s \in StreamID
      BY <2>2, <3>1, CuttingTyped
    <3>3. s \in usedStreamID[p]
      BY <3>1 DEF DeliveryInv, UnusedIsFresh
    <3>4. /\ submitted[p][s] \in Nat /\ submitted[p][s] <= MaxSubmitted[p]
          /\ Covers(queue, s, streams[p][s].offset, submitted[p][s])
      BY <1>0, <3>2 DEF DefaultsInv, DeliveryInv, BuffersCover
    <3> QED
      BY <2>2, <3>1, <3>3, <3>4, StreamsDoNotBlock
  <2> QED
    BY <1>1, <1>2, <2>1, <2>2 DEF DefaultsInv
<1>5. /\ \A q \in Peer, t \in StreamID : submitted'[q][t] <= MaxSubmitted[q]
      /\ \/ issued' = issued
         \/ \E frame : AddPacket(p, frame) /\ frame.type # "STREAM_DATA_BLOCKED"
  BY <1>3, <1>4
<1>6. \A q \in Peer : \A pkt \in issued'[q] :
         pkt \in issued[q] \/ pkt.frame.type # "STREAM_DATA_BLOCKED"
  BY <1>5, IssuedPackets DEF StreamTypeOK
<1> QED
  BY <1>5, <1>6

\* Nor does any other step ask for it.
LEMMA NobodyEverAsks ==
  ASSUME FitsDefault, StreamTypeOK, DeliveryInv, DefaultsInv, NEW p \in Peer,
         StreamEndpoint(p)
  PROVE  /\ \A q \in Peer, s \in StreamID : submitted'[q][s] <= MaxSubmitted[q]
         /\ \A q \in Peer : \A pkt \in issued'[q] : pkt.frame.type # "STREAM_DATA_BLOCKED"
<1>1. CASE UNCHANGED <<issued, submitted>>
  BY <1>1 DEF DefaultsInv
<1>2. CASE \/ \E s \in StreamID, length \in Sizes, fin \in Fins : SendData(p, s, length, fin)
           \/ FinishPass(p)
  BY <1>2, NobodyAsks DEF DefaultsInv
<1>3. CASE QueueReply(p)
  <2>1. /\ UNCHANGED submitted /\ AddPacket(p, Head(replies[p]))
        /\ replies[p] # <<>> /\ replies[p] \in Seq(Reply)
    BY <1>3 DEF QueueReply, QueuePacket, historyVars, StreamTypeOK, TransportTypeOK
  <2>2. Head(replies[p]).type # "STREAM_DATA_BLOCKED"
    <3>1. Head(replies[p]) \in Reply
      BY <2>1
    <3> QED
      BY <3>1 DEF Reply
  <2>3. \A q \in Peer : \A pkt \in issued'[q] :
           pkt \in issued[q] \/ pkt.frame = Head(replies[p])
    BY <2>1, IssuedPackets DEF StreamTypeOK
  <2> QED
    BY <2>1, <2>2, <2>3 DEF DefaultsInv
<1>4. CASE PassStep(p)
  <2>1. UNCHANGED submitted
    BY <1>4 DEF PassStep, streamVars, historyVars
  <2>2. issued' = issued \/ (AddPacketToFront(p, Ping) /\ Ping.type # "STREAM_DATA_BLOCKED")
    BY <1>4, StreamFrameAssumption DEF PassStep, ReceiveAck, StartSending, SkipAcked,
       SendFront, AckAndRetransmit, Probe
  <2>3. \A q \in Peer : \A pkt \in issued'[q] :
           pkt \in issued[q] \/ pkt.frame.type # "STREAM_DATA_BLOCKED"
    BY <2>2, IssuedPackets DEF StreamTypeOK
  <2> QED
    BY <2>1, <2>3 DEF DefaultsInv
<1>5. CASE \/ \E bidirectional \in BOOLEAN : CreateStream(p, bidirectional)
           \/ DeliverBuffered(p) \/ RaiseLimits(p)
  <2>1. UNCHANGED issued
    BY <1>5 DEF CreateStream, DeliverBuffered, RaiseLimits, vars
  <2>2. UNCHANGED submitted
    BY <1>5 DEF CreateStream, DeliverBuffered, Deliver, RaiseLimits, historyVars
  <2> QED
    BY <1>1, <2>1, <2>2
<1>6. CASE \E pkt \in inFlight[p] : Receive(p, pkt)
  <2>1. UNCHANGED issued
    BY <1>6 DEF Receive, ReceiveStream, ReceiveOverLimit, ReceiveMaxData,
       ReceiveMaxStreamData, ReceiveStreamDataBlocked, ReceiveDataBlocked, ReceivePacket, vars
  <2>2. UNCHANGED submitted
    BY <1>6 DEF Receive, ReceiveStream, ReceiveInOrder, ReceiveDisorder, Deliver,
       ReceiveOverLimit, ReceiveMaxData, ReceiveMaxStreamData, ReceiveStreamDataBlocked,
       ReceiveDataBlocked, historyVars
  <2> QED
    BY <1>1, <2>1, <2>2
<1> QED
  BY <1>2, <1>3, <1>4, <1>5, <1>6 DEF StreamEndpoint

\* A stream that is opened is stored where none is in use.
LEMMA OwnKeyIsFree ==
  ASSUME KeysAreIDs, StreamTypeOK, NEW p \in Peer, StreamEndpoint(p)
  PROVE  EntriesKept
<1>1. /\ streams \in [Peer -> [StreamID -> Stream]]
      /\ usedStreamID \in [Peer -> SUBSET StreamID]
  BY DEF StreamTypeOK, TransportTypeOK
<1>2. ASSUME NEW bidirectional \in BOOLEAN, CreateStream(p, bidirectional)
      PROVE  EntriesKept
  <2> DEFINE id(index) == GeneratedID(index, StreamType(p, bidirectional))
  <2>1. PICK index \in StreamID :
           /\ id(index) \in StreamID /\ id(index) \notin usedStreamID[p]
           /\ usedStreamID' = [usedStreamID EXCEPT ![p] = @ \cup {id(index)}]
           /\ streams' = [streams EXCEPT ![p][index] = NewStream]
    BY <1>2 DEF CreateStream
  <2>2. index \notin usedStreamID[p]
    BY <2>1 DEF KeysAreIDs
  <2> HIDE DEF id
  <2> QED
    BY <1>1, <2>1, <2>2 DEF EntriesKept
<1> QED
  BY <1>2, OnlyOpeningOverwrites

\* A step keeps all of it.
LEMMA StepKeepsDefaults ==
  ASSUME KeysAreIDs, FitsDefault, StreamTypeOK, StreamTypeOK', PacketInv, DeliveryInv,
         DefaultsInv, EntriesKept, NEW p \in Peer, StreamEndpoint(p)
  PROVE  DefaultsInv'
<1>1. UseGoes
  BY StepGoes DEF DeliveryInv
<1>3. UnusedAtDefault'
  BY <1>1 DEF UseGoes, DefaultsInv, UnusedAtDefault
<1>4. EveryStreamHasDefaults'
  <2> SUFFICES ASSUME NEW q \in Peer, NEW t \in StreamID, t \in usedStreamID'[q]
               PROVE  /\ streams'[q][t].maxRecv >= MAX_STREAM_OFFSET
                      /\ streams'[q][t].maxSend >= MAX_STREAM_OFFSET
    BY DEF EveryStreamHasDefaults, StreamTypeOK, TransportTypeOK
  <2>1. MAX_STREAM_OFFSET \in Nat
    BY SizeAssumption
  <2>2. CASE t \in usedStreamID[q]
    <3>1. LimitsGo(q, t, streams[q][t], streams'[q][t])
      BY StepMovesLimits DEF DefaultsInv
    <3>2. /\ streams[q][t].maxRecv >= MAX_STREAM_OFFSET
          /\ streams[q][t].maxSend >= MAX_STREAM_OFFSET
      BY <2>2 DEF DefaultsInv, EveryStreamHasDefaults
    <3>3. /\ streams[q][t].maxRecv \in Nat /\ streams[q][t].maxSend \in Nat
          /\ streams'[q][t].maxRecv \in Nat /\ streams'[q][t].maxSend \in Nat
      BY DEF StreamTypeOK, TransportTypeOK, Stream
    <3> QED
      BY <2>1, <3>1, <3>2, <3>3 DEF LimitsGo
  <2>3. CASE t \notin usedStreamID[q]
    BY <1>1, <2>1, <2>3 DEF UseGoes
  <2> QED
    BY <2>2, <2>3
<1> QED
  BY <1>3, <1>4, NobodyEverAsks DEF DefaultsInv

\* The invariant holds there.
LEMMA DefaultsKept ==
  KeysAreIDs /\ FitsDefault =>
      (StreamSpec => []DefaultsInv /\ [][EntriesKept]_allVars)
<1> SUFFICES ASSUME KeysAreIDs, FitsDefault
             PROVE  StreamSpec => []DefaultsInv /\ [][EntriesKept]_allVars
  OBVIOUS
<1>1. StreamInit => DefaultsInv
  <2> SUFFICES ASSUME StreamInit PROVE DefaultsInv
    OBVIOUS
  <2>1. DefaultStream.maxRecv <= MAX_STREAM_OFFSET
    BY SizeAssumption DEF DefaultStream
  <2>2. \A p \in Peer : MaxSubmitted[p] \in Nat
    BY SizeAssumption
  <2> QED
    BY <2>1, <2>2 DEF StreamInit, Init, DefaultsInv, EveryStreamHasDefaults, UnusedAtDefault
<1>2. StreamTypeOK /\ [StreamNext]_allVars => [EntriesKept]_allVars
  BY OwnKeyIsFree DEF StreamNext
<1>3. StreamTypeOK /\ StreamTypeOK' /\ PacketInv /\ DeliveryInv /\ DefaultsInv
         /\ [StreamNext]_allVars /\ [EntriesKept]_allVars => DefaultsInv'
  <2> SUFFICES ASSUME StreamTypeOK, StreamTypeOK', PacketInv, DeliveryInv, DefaultsInv,
                      [StreamNext]_allVars, [EntriesKept]_allVars
               PROVE  DefaultsInv'
    OBVIOUS
  <2>1. CASE UNCHANGED allVars
    BY <2>1 DEF allVars, vars, streamVars, historyVars, DefaultsInv,
       EveryStreamHasDefaults, UnusedAtDefault
  <2>2. CASE ~UNCHANGED allVars
    <3>1. EntriesKept /\ \E p \in Peer : StreamEndpoint(p)
      BY <2>2 DEF StreamNext
    <3> QED
      BY <3>1, StepKeepsDefaults
  <2> QED
    BY <2>1, <2>2
<1> QED
  BY <1>1, <1>2, <1>3, StreamTypeCorrect, StreamBookkeeping, DeliveryCorrect, PTL
     DEF StreamSpec

\* There every stream in use has its defaults,
THEOREM LimitsKeptWhereKeysAreIDs ==
  KeysAreIDs /\ FitsDefault => (StreamSpec => []EveryStreamHasDefaults)
<1> SUFFICES ASSUME KeysAreIDs, FitsDefault
             PROVE  StreamSpec => []EveryStreamHasDefaults
  OBVIOUS
<1>1. DefaultsInv => EveryStreamHasDefaults
  BY DEF DefaultsInv
<1> QED
  BY <1>1, DefaultsKept, PTL

\* and every behaviour keeps the limits, with no condition on what it does.
THEOREM WithinLimitsWhereKeysAreIDs ==
  KeysAreIDs /\ FitsDefault => (StreamSpec => []NeverOverLimit)
<1> SUFFICES ASSUME KeysAreIDs, FitsDefault PROVE StreamSpec => []NeverOverLimit
  OBVIOUS
<1>1. StreamTypeOK /\ DefaultsInv => UnusedAtDefault /\ BytesMeetDefault
  <2> SUFFICES ASSUME StreamTypeOK, DefaultsInv
               PROVE  UnusedAtDefault /\ BytesMeetDefault
    OBVIOUS
  <2>1. \A p \in Peer : Other(p) \in Peer
    BY OtherPeer
  <2> QED
    BY <2>1 DEF DefaultsInv, EveryStreamHasDefaults, BytesMeetDefault
<1> QED
  BY <1>1, DefaultsKept, StreamTypeCorrect, SendersStayWithinLimits, PTL
====
