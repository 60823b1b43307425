--------------------------- MODULE StreamTransport ---------------------------
(***************************************************************************)
(* The streams of an ESTABLISHED connection: opening them, cutting the     *)
(* application's buffers into STREAM frames, flow control, and handing the *)
(* bytes to the other application in order (classes Stream and Connection, *)
(* QUIC::SendData and the handlers of QUIC::incomingMsg).  The packets     *)
(* that carry the frames are those of PacketLayer.                         *)
(*                                                                         *)
(* A handler runs to its end before its peer does anything else.  Here the *)
(* one that delivers data takes several steps, and `current` and `replies` *)
(* keep the peer from any other step until they are done.  What the        *)
(* application does inside a callback is done when the handler has ended:  *)
(* the two differ in the order of packet numbers only.                     *)
(*                                                                         *)
(* StreamClosing adds the closing of streams; that of connections is in    *)
(* ConnectionLifecycle.  The numbers of streams stay below the point where *)
(* MAX_STREAMS frames appear (StreamAssumption).                           *)
(***************************************************************************)
EXTENDS PacketLayer

CONSTANTS
    StreamID,                \* the keys of streamIDToStream: IDs, and the indices
                             \* GenerateStreamID uses as keys
    NoStream,
    MAX_PACKET_DATA_LENGTH,  \* the constants of connection.hh, scaled down
    MAX_STREAM_OFFSET,
    MAX_CONNECTION_SIZE,
    MAX_STREAM_NUM,
    BlockedTries,            \* passes a blocked buffer waits before credit is asked (5)
    BlockedExtra,            \* what is asked on top of the frame's length (32)
    Sizes, Fins,             \* the lengths and FIN flags of the buffers the
                             \* application submits
    MaxStreams,              \* bound: the streams each peer opens
    MaxSubmitted,            \* bound: the bytes each peer submits on a stream
    MaxRequests,             \* bound: the requests for credit each peer makes
    MaxCredits,              \* bound: beyond it a peer reads no request for credit
    MaxField                 \* bound: offsets, limits and credits in a frame

StreamFrame == [type : {"STREAM"}, stream : StreamID, offset : 0 .. MaxField,
                first : 1 .. MaxField, length : 0 .. MaxField, fin : BOOLEAN]
LimitFrame ==
    [type : {"MAX_DATA", "DATA_BLOCKED"}, value : 0 .. MaxField]
        \cup [type : {"MAX_STREAM_DATA", "STREAM_DATA_BLOCKED"},
              stream : StreamID, value : 0 .. MaxField]
ResetFrame == [type : {"RESET_STREAM"}, stream : StreamID, value : 0 .. MaxField]

ASSUME StreamAssumption ==
    /\ MAX_STREAM_NUM \in Nat
    /\ StreamID \subseteq 0 .. MAX_STREAM_NUM - 1
    /\ NoStream \notin StreamID
    /\ Cardinality(StreamID) * 10 < MAX_STREAM_NUM * 7
ASSUME StreamFrameAssumption ==
    /\ StreamFrame \subseteq OnceFrame
    /\ OnceFrame \subseteq StreamFrame \cup ResetFrame
    /\ RepeatFrame = LimitFrame
    /\ NoAckFrame = {}
    /\ Ping = [type |-> "PING"]
ASSUME SizeAssumption ==
    /\ {MAX_PACKET_DATA_LENGTH, MAX_STREAM_OFFSET, MAX_CONNECTION_SIZE,
        BlockedTries, BlockedExtra, MaxField} \subseteq Nat
    /\ MAX_PACKET_DATA_LENGTH > 0
    /\ Sizes \subseteq Nat /\ Fins \subseteq BOOLEAN
    /\ {MaxStreams, MaxSubmitted, MaxRequests, MaxCredits} \subseteq [Peer -> Nat]

VARIABLES
    streams,          \* streamIDToStream; a key the map lacks is DefaultStream
    usedStreamID,     \* usedStreamID, as the set of IDs it stands for
    maxSendSize,      \* max_send_size, the connection's limits
    maxRecvSize,      \* max_recv_size
    unsentBuf,        \* unsentBuf, unsentBufStreamID, unsentBufLen, unsentBufFin
    congestedByFlow,
    current,          \* the stream whose data the handler is delivering
    replies,          \* the frames the handler has yet to queue
    open,             \* FALSE once a frame beyond the limits closed the connection
    submitted,        \* history: how many bytes the application submitted
    delivered,        \* history: the bytes the callback was given
    finSaid,          \* history: <<stream, position>> of every FIN submitted
    finTold           \* history: <<stream, position>> of every FIN the callback got

flowVars == <<maxSendSize, maxRecvSize, congestedByFlow>>
handlerVars == <<current, replies, open>>
historyVars == <<submitted, delivered, finSaid, finTold>>
streamVars == <<streams, usedStreamID, flowVars, unsentBuf, handlerVars, historyVars>>
allVars == <<vars, streamVars>>

-----------------------------------------------------------------------------
(* Class Stream.                                                           *)

\* Stream(): what operator[] of the map makes of a key it lacks.
DefaultStream == [offset |-> 0, expOffset |-> 0, maxRecv |-> 0, maxSend |-> 0,
                  buffered |-> {}]
NewStream == [DefaultStream EXCEPT !.maxRecv = MAX_STREAM_OFFSET,
                                   !.maxSend = MAX_STREAM_OFFSET]

Larger(a, b) == IF a > b THEN a ELSE b
Smaller(a, b) == IF a < b THEN a ELSE b

\* ShouldIncRecvLimit, of a stream and of the connection: 0.7 of the limit is used.
NearLimit(used, limit) == used * 10 >= limit * 7
Raised(limit) == (limit * 1414) \div 1000

SentBytes(p) == SumFunction([s \in StreamID |-> streams[p][s].offset])
ReceivedBytes(p) == SumFunction([s \in StreamID |-> streams[p][s].expOffset])

StreamInit ==
    /\ Init
    /\ streams = [p \in Peer |-> [s \in StreamID |-> DefaultStream]]
    /\ usedStreamID = [p \in Peer |-> {}]
    /\ maxSendSize = [p \in Peer |-> MAX_CONNECTION_SIZE]
    /\ maxRecvSize = [p \in Peer |-> MAX_CONNECTION_SIZE]
    /\ unsentBuf = [p \in Peer |-> <<>>]
    /\ congestedByFlow = [p \in Peer |-> 0]
    /\ current = [p \in Peer |-> NoStream]
    /\ replies = [p \in Peer |-> <<>>]
    /\ open = [p \in Peer |-> TRUE]
    /\ submitted = [p \in Peer |-> [s \in StreamID |-> 0]]
    /\ delivered = [p \in Peer |-> [s \in StreamID |-> <<>>]]
    /\ finSaid = [p \in Peer |-> {}]
    /\ finTold = [p \in Peer |-> {}]

\* No handler is under way.
Idle(p) == open[p] /\ current[p] = NoStream /\ replies[p] = <<>>

-----------------------------------------------------------------------------
(***************************************************************************)
(* Opening a stream.  GenerateStreamID takes the first index the type has  *)
(* not used, stores the new Stream under that index and returns the ID,    *)
(* which is another key unless the index is 0 and so is the type.          *)
(***************************************************************************)
StreamType(p, bidirectional) ==
    (IF p = Client THEN 0 ELSE 1) + (IF bidirectional THEN 0 ELSE 2)
GeneratedID(index, type) == 4 * index + type

OwnStreams(p) == {id \in usedStreamID[p] : id % 2 = StreamType(p, TRUE)}

CreateStream(p, bidirectional) ==
    LET type == StreamType(p, bidirectional)
        Used(index) == GeneratedID(index, type) \in usedStreamID[p]
    IN  /\ phase[p] = "recv" /\ Idle(p)
        /\ Cardinality(OwnStreams(p)) < MaxStreams[p]
        /\ \E index \in StreamID :
              /\ GeneratedID(index, type) \in StreamID
              /\ ~Used(index) /\ \A i \in 0 .. index - 1 : Used(i)
              /\ usedStreamID' = [usedStreamID EXCEPT ![p] =
                                     @ \cup {GeneratedID(index, type)}]
              /\ streams' = [streams EXCEPT ![p][index] = NewStream]
        /\ UNCHANGED <<vars, flowVars, unsentBuf, handlerVars, historyVars>>

-----------------------------------------------------------------------------
(***************************************************************************)
(* Sending: GetPktFromUnsentBuf looks at the first buffer of `queue`, and  *)
(* leaves it waiting, asks for credit, or makes a frame of its beginning.  *)
(***************************************************************************)
ChunkLength(queue) == Smaller(Head(queue).length, MAX_PACKET_DATA_LENGTH)

StreamBlocked(p, queue) ==
    LET st == streams[p][Head(queue).stream]
    IN  st.offset + ChunkLength(queue) > st.maxSend

\* Mutant: the connection's limit is not looked at.
BlockedByStreamOnly(p, queue) == queue # <<>> /\ StreamBlocked(p, queue)

Blocked(p, queue) ==
    /\ queue # <<>>
    /\ \/ StreamBlocked(p, queue)
       \/ SentBytes(p) + ChunkLength(queue) > maxSendSize[p]

\* Mutants: every chunk carries its buffer's FIN; only a chunk below the maximum does.
ChunkFinOfBuffer(queue) == Head(queue).fin
ChunkFinBelowMaximum(queue) ==
    Head(queue).length < MAX_PACKET_DATA_LENGTH /\ Head(queue).fin

\* The FIN flag is read from the first entry after the buffer's own entry was erased:
\* it is the next buffer's flag, or, when there is none, the stale bit of the vector,
\* which erasing the only entry left in place.
ChunkFin(queue) ==
    /\ Head(queue).length <= MAX_PACKET_DATA_LENGTH
    /\ queue[IF Len(queue) > 1 THEN 2 ELSE 1].fin

DataFrame(p, queue) ==
    LET buf == Head(queue)
    IN  [type |-> "STREAM", stream |-> buf.stream, first |-> buf.first,
         offset |-> streams[p][buf.stream].offset, length |-> ChunkLength(queue),
         fin |-> ChunkFin(queue)]

CreditRequest(p, queue) ==
    LET credit == ChunkLength(queue) + BlockedExtra
    IN  IF StreamBlocked(p, queue)
        THEN [type |-> "STREAM_DATA_BLOCKED", stream |-> Head(queue).stream,
              value |-> credit]
        ELSE [type |-> "DATA_BLOCKED", value |-> credit]

\* Mutant: the rest of a buffer is dropped with its first chunk.
AfterChunkWholeBuffer(queue) == Tail(queue)

\* What is left of the buffers when a frame took the beginning of the first one.
AfterChunk(queue) ==
    LET sent == ChunkLength(queue)
    IN  IF Head(queue).length <= sent
        THEN Tail(queue)
        ELSE [queue EXCEPT ![1].length = @ - sent, ![1].first = @ + sent]

\* Mutant: the send offset advanced is that of the stream SendData was called for.
TakeChunkForLast(p, queue) ==
    /\ queue # <<>> /\ ~Blocked(p, queue)
    /\ unsentBuf' = [unsentBuf EXCEPT ![p] = AfterChunk(queue)]
    /\ streams' = [streams EXCEPT ![p][queue[Len(queue)].stream].offset =
                      @ + ChunkLength(queue)]
    /\ UNCHANGED congestedByFlow

TakeChunk(p, queue) ==
    /\ queue # <<>> /\ ~Blocked(p, queue)
    /\ unsentBuf' = [unsentBuf EXCEPT ![p] = AfterChunk(queue)]
    /\ streams' = [streams EXCEPT ![p][Head(queue).stream].offset =
                      @ + ChunkLength(queue)]
    /\ UNCHANGED congestedByFlow

Requests(p) == {pkt \in issued[p] :
                   pkt.frame.type \in {"DATA_BLOCKED", "STREAM_DATA_BLOCKED"}}
Credits(p) == {pkt \in issued[p] : pkt.frame.type \in {"MAX_DATA", "MAX_STREAM_DATA"}}

MayAsk(p) == Cardinality(Requests(p)) < MaxRequests[p]

AskForCredit(p, queue) ==
    /\ Blocked(p, queue)
    /\ congestedByFlow[p] >= BlockedTries
    /\ MayAsk(p)
    /\ congestedByFlow' = [congestedByFlow EXCEPT ![p] = 0]
    /\ unsentBuf' = [unsentBuf EXCEPT ![p] = queue]
    /\ UNCHANGED streams

\* At the bound on requests a buffer waits as if its request were lost.
LeaveWaiting(p, queue) ==
    /\ \/ queue = <<>> /\ UNCHANGED congestedByFlow
       \/ /\ Blocked(p, queue)
          /\ congestedByFlow[p] < BlockedTries
          /\ congestedByFlow' = [congestedByFlow EXCEPT ![p] = @ + 1]
       \/ /\ Blocked(p, queue)
          /\ congestedByFlow[p] >= BlockedTries /\ ~MayAsk(p)
          /\ UNCHANGED congestedByFlow
    /\ unsentBuf' = [unsentBuf EXCEPT ![p] = queue]
    /\ UNCHANGED streams

\* The numbers of the frame fit in the bound.
InBounds(frame) == frame \in OnceFrame \cup RepeatFrame

\* The application submits a buffer on a stream it knows, none after a FIN.
SendData(p, s, length, fin) ==
    /\ phase[p] = "recv" /\ Idle(p)
    /\ s \in usedStreamID[p]
    /\ \A said \in finSaid[p] : said[1] # s
    /\ submitted[p][s] + length <= MaxSubmitted[p]
    /\ length > 0 \/ fin
    /\ LET buf == [stream |-> s, first |-> submitted[p][s] + 1, length |-> length,
                   fin |-> fin]
           queue == Append(unsentBuf[p], buf)
       IN  \/ /\ TakeChunk(p, queue)
              /\ InBounds(DataFrame(p, queue))
              /\ QueuePacket(p, DataFrame(p, queue))
           \/ /\ AskForCredit(p, queue)
              /\ InBounds(CreditRequest(p, queue))
              /\ QueuePacket(p, CreditRequest(p, queue))
           \/ LeaveWaiting(p, queue) /\ UNCHANGED vars
    /\ submitted' = [submitted EXCEPT ![p][s] = @ + length]
    /\ finSaid' = [finSaid EXCEPT ![p] =
                      IF fin THEN @ \cup {<<s, submitted[p][s] + length>>} ELSE @]
    /\ UNCHANGED <<usedStreamID, maxSendSize, maxRecvSize, handlerVars, delivered,
                   finTold>>

\* The end of a pass takes one packet from the waiting buffers.
FinishPass(p) ==
    /\ LET queue == unsentBuf[p]
       IN  \/ /\ TakeChunk(p, queue)
              /\ InBounds(DataFrame(p, queue))
              /\ EndPassWithPacket(p, DataFrame(p, queue))
           \/ /\ AskForCredit(p, queue)
              /\ InBounds(CreditRequest(p, queue))
              /\ EndPassWithPacket(p, CreditRequest(p, queue))
           \/ LeaveWaiting(p, queue) /\ EndPass(p)
    /\ UNCHANGED <<usedStreamID, maxSendSize, maxRecvSize, handlerVars, historyVars>>

-----------------------------------------------------------------------------
(* Receiving a STREAM frame.                                               *)

\* The stream as the handler finds it, once InsertStream has run for a new one.
FoundStream(p, s) == IF s \in usedStreamID[p] THEN streams[p][s] ELSE NewStream

\* IsRecPermitted and IsRecvPermitted.  InsertStream resets the stream first.
WithinLimits(p, frame) ==
    LET st == FoundStream(p, frame.stream)
    IN  /\ frame.offset + frame.length <= st.maxRecv
        /\ ReceivedBytes(p) - streams[p][frame.stream].expOffset + st.expOffset
              + frame.length <= maxRecvSize[p]

Bytes(first, length) == [i \in 1 .. length |-> first + i - 1]

\* streamDataReadyCallback.
Deliver(p, frame) ==
    /\ delivered' = [delivered EXCEPT ![p][frame.stream] =
                        @ \o Bytes(frame.first, frame.length)]
    /\ finTold' = [finTold EXCEPT ![p] =
                      IF frame.fin
                      THEN @ \cup {<<frame.stream, frame.first + frame.length - 1>>}
                      ELSE @]
    /\ UNCHANGED <<submitted, finSaid>>

\* Mutant: the bytes go to the callback whatever their offset.
ReceiveAnyOrder(p, pkt) ==
    LET frame == pkt.frame
        st == FoundStream(p, frame.stream)
    IN  /\ Deliver(p, frame)
        /\ streams' = [streams EXCEPT ![p][frame.stream] =
                          [st EXCEPT !.expOffset = @ + frame.length]]

\* The frame's bytes are the next ones: they go to the callback.
ReceiveInOrder(p, pkt) ==
    LET frame == pkt.frame
        st == FoundStream(p, frame.stream)
    IN  /\ frame.offset = st.expOffset
        /\ Deliver(p, frame)
        /\ streams' = [streams EXCEPT ![p][frame.stream] =
                          [st EXCEPT !.expOffset = @ + frame.length]]

\* Mutant: a disorder frame is recorded and dropped.
ReceiveDisorderDropping(p, pkt) ==
    LET frame == pkt.frame
        st == FoundStream(p, frame.stream)
    IN  /\ frame.offset # st.expOffset
        /\ streams' = [streams EXCEPT ![p][frame.stream] = st]
        /\ UNCHANGED historyVars

\* They are not: they wait in bufferedStream.
ReceiveDisorder(p, pkt) ==
    LET frame == pkt.frame
        st == FoundStream(p, frame.stream)
    IN  /\ frame.offset # st.expOffset
        /\ streams' = [streams EXCEPT ![p][frame.stream] =
                          [st EXCEPT !.buffered = @ \cup {frame}]]
        /\ UNCHANGED historyVars

ReceiveStream(p, pkt) ==
    /\ Idle(p)
    /\ pkt.frame.type = "STREAM"
    /\ WithinLimits(p, pkt.frame)
    /\ ReceivePacket(p, pkt)
    /\ usedStreamID' = [usedStreamID EXCEPT ![p] = @ \cup {pkt.frame.stream}]
    /\ ReceiveInOrder(p, pkt) \/ ReceiveDisorder(p, pkt)
    /\ current' = [current EXCEPT ![p] = pkt.frame.stream]
    /\ UNCHANGED <<flowVars, unsentBuf, replies, open>>

\* The stream a frame belongs to is made if the connection has not seen it.
InsertStream(p, s) ==
    /\ usedStreamID' = [usedStreamID EXCEPT ![p] = @ \cup {s}]
    /\ streams' = [streams EXCEPT ![p][s] = FoundStream(p, s)]

\* Mutant: the packet is recorded before the limits are checked.
RecordOverLimit(p, pkt) ==
    /\ phase[p] = "recv" /\ Idle(p)
    /\ pkt.frame.type = "STREAM"
    /\ ~WithinLimits(p, pkt.frame)
    /\ ReceivePacket(p, pkt)
    /\ InsertStream(p, pkt.frame.stream)
    /\ open' = [open EXCEPT ![p] = FALSE]
    /\ UNCHANGED <<flowVars, unsentBuf, current, replies, historyVars>>

\* A frame beyond the limits: its stream exists from now on, but the packet is not
\* recorded and the connection is closed (the exchange of CONNECTION_CLOSE packets is
\* left out: an endpoint that is not open takes no step of this module).
ReceiveOverLimit(p, pkt) ==
    /\ phase[p] = "recv" /\ Idle(p)
    /\ pkt \in inFlight[p]
    /\ pkt.frame.type = "STREAM" /\ Handles(p, pkt)
    /\ ~WithinLimits(p, pkt.frame)
    /\ InsertStream(p, pkt.frame.stream)
    /\ open' = [open EXCEPT ![p] = FALSE]
    /\ UNCHANGED <<vars, flowVars, unsentBuf, current, replies, historyVars>>

NextInBuffer(p, s) == {frame \in streams[p][s].buffered :
                          frame.offset = streams[p][s].expOffset}

\* GetBufferedStream: the handler goes on with a buffered frame that is next.  A
\* frame of its own goes through ReceiveInOrder first, so after ReceiveDisorder
\* there is none.
DeliverBuffered(p) ==
    /\ current[p] # NoStream
    /\ \E frame \in NextInBuffer(p, current[p]) :
          /\ Deliver(p, frame)
          /\ streams' = [streams EXCEPT
                ![p][current[p]].buffered = @ \ {frame},
                ![p][current[p]].expOffset = @ + frame.length]
    /\ UNCHANGED <<vars, usedStreamID, flowVars, unsentBuf, handlerVars>>

\* Mutant: the handler looks at bufferedStream no more.
NothingLooksDeliverable(p) == TRUE

NothingDeliverable(p) == NextInBuffer(p, current[p]) = {}

\* The handler ends: the receive limits are raised when most of them is used up.
RaiseLimits(p) ==
    LET s == current[p]
        st == streams[p][s]
        raiseStream == NearLimit(st.expOffset, st.maxRecv)
        raiseAll == NearLimit(ReceivedBytes(p), maxRecvSize[p])
        streamLimit == [type |-> "MAX_STREAM_DATA", stream |-> s,
                        value |-> Raised(st.maxRecv)]
        allLimit == [type |-> "MAX_DATA", value |-> Raised(maxRecvSize[p])]
    IN  /\ s # NoStream
        /\ NothingDeliverable(p)
        /\ streams' = IF raiseStream
                      THEN [streams EXCEPT ![p][s].maxRecv = Larger(@, Raised(@))]
                      ELSE streams
        /\ maxRecvSize' = IF raiseAll
                          THEN [maxRecvSize EXCEPT ![p] = Larger(@, Raised(@))]
                          ELSE maxRecvSize
        /\ replies' = [replies EXCEPT ![p] =
                          (IF raiseStream THEN <<streamLimit>> ELSE <<>>)
                              \o (IF raiseAll THEN <<allLimit>> ELSE <<>>)]
        /\ current' = [current EXCEPT ![p] = NoStream]
        /\ UNCHANGED <<vars, usedStreamID, maxSendSize, congestedByFlow, unsentBuf, open,
                       historyVars>>

\* The handler queues the packets it made.
QueueReply(p) ==
    /\ replies[p] # <<>>
    /\ InBounds(Head(replies[p]))
    /\ QueuePacket(p, Head(replies[p]))
    /\ replies' = [replies EXCEPT ![p] = Tail(@)]
    /\ UNCHANGED <<streams, usedStreamID, flowVars, unsentBuf, current, open, historyVars>>

-----------------------------------------------------------------------------
(* Receiving the frames of flow control, at every copy that arrives.       *)

ReceiveMaxData(p, pkt) ==
    /\ Idle(p)
    /\ pkt.frame.type = "MAX_DATA"
    /\ ReceivePacket(p, pkt)
    /\ maxSendSize' = [maxSendSize EXCEPT ![p] = Larger(@, pkt.frame.value)]
    /\ UNCHANGED <<streams, usedStreamID, maxRecvSize, congestedByFlow, unsentBuf,
                   handlerVars, historyVars>>

\* Mutant: the comparison of SetMaxSendOffset is turned round.
ReceiveMaxStreamDataLowering(p, pkt) ==
    /\ Idle(p)
    /\ pkt.frame.type = "MAX_STREAM_DATA"
    /\ ReceivePacket(p, pkt)
    /\ streams' = [streams EXCEPT ![p][pkt.frame.stream].maxSend =
                      Smaller(@, pkt.frame.value)]
    /\ UNCHANGED <<usedStreamID, flowVars, unsentBuf, handlerVars, historyVars>>

ReceiveMaxStreamData(p, pkt) ==
    /\ Idle(p)
    /\ pkt.frame.type = "MAX_STREAM_DATA"
    /\ ReceivePacket(p, pkt)
    /\ streams' = [streams EXCEPT ![p][pkt.frame.stream].maxSend =
                      Larger(@, pkt.frame.value)]
    /\ UNCHANGED <<usedStreamID, flowVars, unsentBuf, handlerVars, historyVars>>

\* A request for credit adds to the limit, at every copy, and is answered.
ReceiveStreamDataBlocked(p, pkt) ==
    LET s == pkt.frame.stream
        limit == streams[p][s].maxRecv + pkt.frame.value
    IN  /\ Idle(p)
        /\ pkt.frame.type = "STREAM_DATA_BLOCKED"
        /\ Cardinality(Credits(p)) < MaxCredits[p]
        /\ ReceivePacket(p, pkt)
        /\ streams' = [streams EXCEPT ![p][s].maxRecv = limit]
        /\ replies' = [replies EXCEPT ![p] =
                          <<[type |-> "MAX_STREAM_DATA", stream |-> s, value |-> limit]>>]
        /\ UNCHANGED <<usedStreamID, flowVars, unsentBuf, current, open, historyVars>>

\* Mutant: the credit is granted in the answer only.
ReceiveDataBlockedUnraised(p, pkt) ==
    LET limit == maxRecvSize[p] + pkt.frame.value
    IN  /\ Idle(p)
        /\ pkt.frame.type = "DATA_BLOCKED"
        /\ Cardinality(Credits(p)) < MaxCredits[p]
        /\ ReceivePacket(p, pkt)
        /\ replies' = [replies EXCEPT ![p] = <<[type |-> "MAX_DATA", value |-> limit]>>]
        /\ UNCHANGED <<streams, usedStreamID, flowVars, unsentBuf, current, open,
                       historyVars>>

ReceiveDataBlocked(p, pkt) ==
    LET limit == maxRecvSize[p] + pkt.frame.value
    IN  /\ Idle(p)
        /\ pkt.frame.type = "DATA_BLOCKED"
        /\ Cardinality(Credits(p)) < MaxCredits[p]
        /\ ReceivePacket(p, pkt)
        /\ maxRecvSize' = [maxRecvSize EXCEPT ![p] = limit]
        /\ replies' = [replies EXCEPT ![p] = <<[type |-> "MAX_DATA", value |-> limit]>>]
        /\ UNCHANGED <<streams, usedStreamID, maxSendSize, congestedByFlow, unsentBuf,
                       current, open, historyVars>>

Receive(p, pkt) ==
    \/ ReceiveStream(p, pkt)
    \/ ReceiveOverLimit(p, pkt)
    \/ ReceiveMaxData(p, pkt)
    \/ ReceiveMaxStreamData(p, pkt)
    \/ ReceiveStreamDataBlocked(p, pkt)
    \/ ReceiveDataBlocked(p, pkt)

-----------------------------------------------------------------------------
\* The steps of PacketLayer that no frame has a part in.
PassStep(p) ==
    /\ Idle(p)
    /\ \/ \E acked \in acksInFlight[p] : ReceiveAck(p, acked)
       \/ StartSending(p)
       \/ Probe(p)
       \/ SkipAcked(p)
       \/ \E kept \in BOOLEAN : SendFront(p, kept)
       \/ \E kept \in BOOLEAN, due \in SUBSET Retransmittable(p) :
              AckAndRetransmit(p, kept, due)
    /\ UNCHANGED streamVars

StreamEndpoint(p) ==
    \/ \E bidirectional \in BOOLEAN : CreateStream(p, bidirectional)
    \/ \E s \in StreamID, length \in Sizes, fin \in Fins : SendData(p, s, length, fin)
    \/ \E pkt \in inFlight[p] : Receive(p, pkt)
    \/ DeliverBuffered(p)
    \/ RaiseLimits(p)
    \/ QueueReply(p)
    \/ PassStep(p)
    \/ FinishPass(p)

StreamNext == \E p \in Peer : StreamEndpoint(p)

StreamSpec == StreamInit /\ [][StreamNext]_allVars

(***************************************************************************)
(* Fairness: that of PacketLayer for the passes and the packets, said of   *)
(* the steps of this module, and a handler that has begun goes on.  That   *)
(* ACKs arrive is not assumed: delivery does not depend on it.             *)
(***************************************************************************)
Lifted(p, action) == Idle(p) /\ action /\ UNCHANGED streamVars

HandlerProgress(p) == DeliverBuffered(p) \/ RaiseLimits(p) \/ QueueReply(p)

PassProgress(p) ==
    \/ Lifted(p, SkipAcked(p))
    \/ Lifted(p, \E kept \in BOOLEAN : SendFront(p, kept))
    \/ FinishPass(p)

RetransmitAll(p) ==
    Lifted(p, \E kept \in BOOLEAN : AckAndRetransmit(p, kept, Retransmittable(p)))

StreamFairness(p) ==
    /\ WF_allVars(HandlerProgress(p))
    /\ SF_allVars(Lifted(p, StartSending(p)))
    /\ WF_allVars(PassProgress(p))
    /\ SF_allVars(RetransmitAll(p))
    /\ \A n \in 1 .. MaxPktNum[p] :
          /\ SF_allVars(Lifted(p, SendKept(p, n)))
          /\ SF_allVars(\E pkt \in inFlight[Other(p)] :
                            pkt.pktNum = n /\ Receive(Other(p), pkt))

StreamFairSpec == StreamSpec /\ \A p \in Peer : StreamFairness(p)

-----------------------------------------------------------------------------
(* Properties.                                                             *)

Stream == [offset : Nat, expOffset : Nat, maxRecv : Nat, maxSend : Nat,
           buffered : SUBSET StreamFrame]
UnsentBuffer == [stream : StreamID, first : Nat, length : Nat, fin : BOOLEAN]
Reply == [type : {"MAX_DATA"}, value : Nat]
            \cup [type : {"MAX_STREAM_DATA"}, stream : StreamID, value : Nat]

TransportTypeOK ==
    /\ streams \in [Peer -> [StreamID -> Stream]]
    /\ usedStreamID \in [Peer -> SUBSET StreamID]
    /\ maxSendSize \in [Peer -> Nat] /\ maxRecvSize \in [Peer -> Nat]
    /\ unsentBuf \in [Peer -> Seq(UnsentBuffer)]
    /\ congestedByFlow \in [Peer -> 0 .. BlockedTries]
    /\ current \in [Peer -> StreamID \cup {NoStream}]
    /\ replies \in [Peer -> Seq(Reply)]
    /\ open \in [Peer -> BOOLEAN]

HistoryTypeOK ==
    /\ submitted \in [Peer -> [StreamID -> Nat]]
    /\ delivered \in [Peer -> [StreamID -> Seq(Nat)]]
    /\ finSaid \in [Peer -> SUBSET (StreamID \X Nat)]
    /\ finTold \in [Peer -> SUBSET (StreamID \X Nat)]

StreamTypeOK == TypeOK /\ TransportTypeOK /\ HistoryTypeOK

\* The IDs of the streams the two applications may open.
PossibleIDs ==
    {id \in StreamID : \E p \in Peer, bidirectional \in BOOLEAN :
        \E index \in 0 .. MaxStreams[p] - 1 :
            id = GeneratedID(index, StreamType(p, bidirectional))}

\* No index that GenerateStreamID may use as a key is the ID of another stream.  So it is,
\* for example, when only the client opens streams, bidirectional ones, and not more
\* than four: the indices are 0, 1, 2 and 3, the IDs 0, 4, 8 and 12.
KeysApart ==
    \A p \in Peer, bidirectional \in BOOLEAN, index \in StreamID :
        LET id == GeneratedID(index, StreamType(p, bidirectional))
        IN  index < MaxStreams[p] /\ id \in StreamID => index \notin PossibleIDs \ {id}

\* The streams deliver what ReliableStream promises, across loss, duplication,
\* reordering, retransmission, buffering and blocking (quic.cc:139-176, 747-909).
Reliable == INSTANCE ReliableStream WITH Lengths <- Sizes \cup 0 .. MaxField
ReliableSpec == Reliable!Spec

\* Of what a peer submitted on a stream, the part beyond the stream's send offset is
\* in the waiting buffers, in order and without a gap: cutting buffers into frames
\* loses and repeats nothing, whichever stream's buffer is at the front
\* (connection.hh:931-1041).
UnsentFollowsSent ==
    \A p \in Peer, s \in StreamID :
        LET mine == {i \in DOMAIN unsentBuf[p] : unsentBuf[p][i].stream = s}
            Until(i) == {j \in mine : j < i}
            Length(J) == SumFunction([j \in J |-> unsentBuf[p][j].length])
        IN  /\ submitted[p][s] = streams[p][s].offset + Length(mine)
            /\ \A i \in mine : unsentBuf[p][i].first =
                                    streams[p][s].offset + Length(Until(i)) + 1

\* A STREAM packet the receiver acknowledges is one whose bytes it delivered or
\* holds: the sender will never send them again (quic.cc:839-865).
RecordedIsKept ==
    \A p \in Peer : \A pkt \in issued[Other(p)] :
        (HaveReceivedPkt(p, pkt) /\ pkt.frame.type = "STREAM") =>
            LET frame == pkt.frame
            IN  \/ frame \in streams[p][frame.stream].buffered
                \/ frame.offset + frame.length <= streams[p][frame.stream].expOffset

\* When no handler is under way, no buffered frame is the next one: nothing that
\* could be delivered waits for another packet to arrive (connection.hh:121-144).
NothingDeliverableWaits ==
    \A p \in Peer, s \in StreamID :
        current[p] # s => NextInBuffer(p, s) = {}

\* The callback gets a FIN exactly where the sender's application put one
\* (quic.hh:72 "@param FIN: whether the stream ends after sending the buffer").
FinTruth == \A p \in Peer : finTold[p] \subseteq finSaid[Other(p)]

\* The connection's limit that a sender obeys never exceeds the one its receiver
\* enforces, whatever the order in which limits and requests for credit arrive, and
\* however often (quic.cc:888-905, 1046-1069, 1211-1253).
ConnectionLimitIsGranted ==
    \A p \in Peer : maxSendSize[p] <= maxRecvSize[Other(p)]

\* No frame of a sender that checked its limits (connection.hh:940 "flow control,
\* check both stream and connection limits") goes "off limit" (quic.cc:833) and makes
\* its receiver close the connection with FLOW_CONTROL_ERROR.
NeverOverLimit == \A p \in Peer : open[p]

\* connection.hh:1206-1207 "default max_recv_offset for each stream", "default
\* max_send_offset for each stream": a stream in use starts with the defaults and
\* its limits only grow.
EveryStreamHasDefaults ==
    \A p \in Peer : \A s \in usedStreamID[p] :
        /\ streams[p][s].maxRecv >= MAX_STREAM_OFFSET
        /\ streams[p][s].maxSend >= MAX_STREAM_OFFSET

\* Delivery catches up with the applications again and again, also where bytes had to
\* wait for credit; as they submit a bounded amount, all of it is delivered in the end.
EverythingDelivered ==
    []<>(\A p \in Peer, s \in StreamID :
            Len(delivered[Other(p)][s]) = submitted[p][s])

\* So does the telling of FINs.
FinArrives == []<>(\A p \in Peer : finSaid[p] \subseteq finTold[Other(p)])

=============================================================================
