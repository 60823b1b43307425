# simple-quic in TLA+

This directory specifies the protocol core of simple-quic, the QUIC transport under
`src/src/context` (`quic.cc`, `connection.hh`): how an endpoint numbers, queues, sends,
acknowledges and retransmits packets, when it may send them, how it carries the bytes of its
applications over streams with flow control, and how connections and streams are opened and closed;
and, below that, how packets and sets of packet numbers are represented. TLC checks small instances, TLAPS proves theorems for every value of
the constants.

| file | what it is |
|---|---|
| `PacketLayer.tla` | the packet bookkeeping of one connection, both ends and the network |
| `MCPacketLayer.tla` | its instances for TLC |
| `PacketLayer_proofs.tla` | its theorems |
| `ReliableStream.tla` | the abstract specification: what a stream promises |
| `StreamTransport.tla` | streams, cutting of buffers, flow control, delivery, on top of PacketLayer |
| `MCStreamTransport.tla` | its instances for TLC |
| `StreamTransport_proofs.tla` | its theorems: packets, types, limits, and what the streams deliver, up to `ReliableStream` |
| `StreamClosing.tla` | CloseStream and RESET_STREAM, on top of StreamTransport |
| `MCStreamClosing.tla`, `StreamClosing_proofs.tla` | its instance and its theorems |
| `SessionPromise.tla` | the abstract specification: what a connection promises its two ends |
| `ConnectionLifecycle.tla` | handshake, closing, and how packets find their connection |
| `MCConnectionLifecycle.tla`, `ConnectionLifecycle_proofs.tla` | its instance and its theorems |
| `Recovery.tla` | retransmission timers, PTO, PINGs and the congestion window of one end |
| `MCRecovery.tla`, `Recovery_proofs.tla` | its instance and its theorems |
| `IntervalSets.tla` | `utils::IntervalSet`: lists of intervals that stand for sets of numbers |
| `IntervalSets_proofs.tla` | theorems: its operations are those of sets of numbers |
| `WireFormat.tla` | integers, frames, headers and packets as bytes; EXTENDS IntervalSets |
| `MCWireFormat.tla`, `WireFormat_proofs.tla` | its instance and its theorems |
| `SumTheorems.tla` | theorems about the sums of the community modules, and induction |
| `*.cfg` | one per run, see below |
| `PROJECT.json` | components, runs, mutants, map to the source, findings, hazards, theorems |

Paths such as `quic.cc:784` are relative to `src/src/context`.

## 1. Inventory

An endpoint (`QUIC`, with `QUICClient` and `QUICServer`) is one thread that runs
`QUIC::SocketLoop` for ever. It reads datagrams until the socket is dry and gives each to
`incomingMsg`, then makes a pass over its connections: timers, send loop, ACK, retransmission,
one packet from the waiting buffers; then it sleeps for 100 ms. Application code runs before
`SocketLoop` starts and inside the callbacks `incomingMsg` makes; there are no other threads, so
the concurrency is that of two endpoints and the network between them.

| component | state | operations | what makes it correct |
|---|---|---|---|
| packet bookkeeping (`Connection`, `SocketLoop`) | `nowPktNum`, `pendingPackets`, `whetherNeedACK`, `toSendPktNum`, `sentPkt`, `notACKedSentPkt`, `ackedSentPktNum`, `recPktNum` | `AddPacket`, `AddPacket_to_front`, send loop, ACK handler, retransmission scan, duplicate test | no packet forgotten, none handled twice, none sent after its ACK, ACKs true, every packet settled in the end |
| streams and flow control (`Stream`, `GetPktFromUnsentBuf`, STREAM and limit handlers) | `streamIDToStream` (offsets, limits, `bufferedStream`), `usedStreamID`, `unsentBuf*`, `max_send_size`, `max_recv_size`, `congestedByFlow` | `CreateStream`, `SendData`, `InsertStream`, in-order delivery, raising limits, requests for credit | bytes delivered once, in order, and in the end; FIN where it was put; limits of the two ends agree |
| closing streams, number of streams | `streamState`, `max_*_stream_num` | `CloseStream`, RESET_STREAM, MAX_STREAMS | nothing of a closed stream lost or told twice |
| life cycle of a connection | `curState`, `connectionClosePktNum`, `startWaitForPeer`, `connections` | `CreateConnection`, INITIAL, CONNECTION_CLOSE, `CloseConnection`, 2000 ms alarm, idle close | both ends agree, ready and close callbacks once each |
| connection identifiers | `usedID` of `ConnectionIDGenerator` | `Generate`, `AddUsedConnectionID`, `EraseConnectionID` | identifiers in use are distinct |
| congestion control | `congestionWindow`, `congestionThreshold`, `congestionState`, `onFlight`, `threeTimesACK` | growth by ACK, halving, send test | what is counted in flight is in flight; the window opens again |
| timers | `PTO`, `smoothed_rtt`, `rtt_var`, `latest_rtt`, `notACKedSentPktPTO`, `idle_time` | `updateRTT`, `updatePTO`, `updateIdleTime`, PING on PTO or idle | no underflow; idle connections close |
| interval sets (`utils/interval.hh`) | sorted list of intervals | add, remove, union, difference | it is the set it stands for, in normal form |
| wire format (`payload/`, `variable_codec.cc`) | none | encode, parse | parsing inverts encoding, announced lengths are the written ones |
| sockets, helpers, example applications | - | - | thin I/O, or callbacks that submit buffers |

**Interaction.** The stream layer hands frames to the packet layer one per packet
(`GetNewPktNum`, `AddPacket`, `AddWhetherNeedACK`), from callbacks, from handlers and at the end
of a pass. The packet layer hands back a packet at every copy that arrives: the handlers of
STREAM, RESET_STREAM and CONNECTION_CLOSE test `HaveReceivedPkt` first, those of the limit
frames do not. ACKs travel in packets of their own with number 0, are never acknowledged, and
name everything received so far.

**What is hard here.** The network loses, repeats and reorders. A packet can be acknowledged
while its retransmission is queued. A handler that is not guarded against duplicates changes
limits at each copy. Limits and credits for a stream can overtake the frame that makes the
receiver create it. Which flag a frame carries depends on what else is waiting. The list
"hazards" of `PROJECT.json` gives all of these with their lines and the properties that watch
them.

## 2. The modules

### PacketLayer

One ESTABLISHED connection, its two ends (`Peer`), and the network. A frame is an uninterpreted
value of one of the classes that `incomingMsg` tells apart: `OnceFrame` (handler guarded by
`HaveReceivedPkt`), `RepeatFrame` (handled at every copy), `Ping`; `NoAckFrame` is the part of
`OnceFrame` queued with `AddWhetherNeedACK(false)`.

| in the model | in the code |
|---|---|
| `phase` | where the pass of `SocketLoop` is: reading ("recv"), the send loop ("send"), ACK and retransmission ("end"), the waiting buffers ("unsent") |
| `pendingPackets` | `pendingPackets` with `whetherNeedACK`, which always move together; the flag is `NeedACK` of the packet |
| `toSendPktNum`, `ackedSentPktNum`, `recPktNum` | the interval sets of these names, as sets of numbers |
| `notACKedSentPkt` | the timers of that list, with the packets their index finds in `sentPkt`. The list may hold several timers of a packet; an ACK removes them all, so a set stands for it |
| `inFlight`, `acksInFlight` | the datagrams the network kept. One that was kept can be read any number of times and in any order; one that is lost is never put there |
| `issued`, `handled` | history only |

Actions: `QueuePacket` (a callback or a handler queues a frame), `ReceivePacket`, `ReceiveAck`,
`StartSending`, `Probe` (a pass that begins by putting a PING at the front, because of the idle timer or
of a PTO, which may be one of another connection: `quic.cc:239`), `SkipAcked`,
`SendFront`, `AckAndRetransmit`, `EndPass`, `EndPassWithPacket`. A handler runs to its end before
anything else happens at its endpoint, and the pass is split where a choice is made.
Three things of the code are choices that may fall either way: a timer test
(`msec - remTime > 500`, an expired PTO or idle timer), leaving the send loop after a packet (the
congestion window, or `if(PTO_expired) break`), and the order in which due packets are queued
again. Every behaviour of the timers and the window is therefore a behaviour of the model. Packet
numbers start after those of the handshake.

### ReliableStream

What the two applications are promised of a stream: the bytes one submits are given to the other's
callback once each, in order. `Submit` and `Deliver` are its only steps.

### StreamTransport

EXTENDS PacketLayer and gives the frames their meaning: `OnceFrame` are STREAM frames,
`RepeatFrame` MAX_DATA, MAX_STREAM_DATA, DATA_BLOCKED and STREAM_DATA_BLOCKED. Every action is
joined with the action of PacketLayer that queues or reads its packet, so a run of the streams is a
run of the packet layer; `StreamsUsePackets` proves it.

| in the model | in the code |
|---|---|
| `streams[p][key]` | `streamIDToStream`; a key the map lacks is `DefaultStream`, which is what `operator[]` would make of it |
| `usedStreamID` | the four sets of `usedStreamID`, as IDs |
| `CreateStream` | `QUIC::CreateStream`, `GenerateStreamID`: the new `Stream` goes to the key *index*, the ID returned is 4 * index + type |
| `SendData`, `FinishPass` | `AddToUnsentBuf`, then `GetPktFromUnsentBuf`, at once or at the end of a pass |
| `TakeChunk`, `AskForCredit`, `LeaveWaiting` | the three ways `GetPktFromUnsentBuf` ends |
| `ReceiveStream`, `DeliverBuffered`, `RaiseLimits`, `QueueReply` | one run of the STREAM handler; `current` and `replies` keep the endpoint from other steps until it ends |
| `ReceiveOverLimit` | `InsertStream` for a new stream, then the `continue` after `CloseConnection(..., FLOW_CONTROL_ERROR)`; `open` becomes FALSE and the endpoint stops |
| `ReceiveMaxData`, `ReceiveMaxStreamData`, `ReceiveStreamDataBlocked`, `ReceiveDataBlocked` | the handlers of these frames |
| `submitted`, `delivered`, `finSaid`, `finTold` | history only |

The i-th byte an application submits on a stream is the number i, so a frame needs only the first of
its bytes and its length. What an application does inside a callback happens right after the
handler in the model: the handler queues its limit frames after the callback returns, so only packet
numbers differ. `StreamAssumption` keeps the number of streams below the point where the STREAM
handler would send MAX_STREAMS.

### StreamClosing

EXTENDS StreamTransport with `finState` (the keys of `streamIDToStream` in state FIN), and two
histories. `CloseStream` queues RESET_STREAM with the bytes cut so far, whatever still waits in
`unsentBuf`; `ReceiveReset` tells the callback. `StreamStep` is every step of StreamTransport, with
what it does to the state of streams: `CreateStream` makes the key *index* RUNNING, and `InsertStream`
the ID. No handler but that of RESET_STREAM reads the state.

### SessionPromise and ConnectionLifecycle

`SessionPromise` is what a connection promises, whatever packets make it: the client's side opens
only after the server accepted, and an end that did not ask for the close is closed only after the
other end began to close.

| in `ConnectionLifecycle` | in the code |
|---|---|
| `conns[p]` | the map `connections` of the endpoint, by descriptor, in the order that every search takes; a connection is a record |
| `state`, `local`, `remote`, `closePktNum` | `curState`, the two identifiers, `connectionClosePktNum` |
| `pending`, `unacked`, `rec`, `nowPktNum` | `pendingPackets`, `notACKedSentPkt`, `recPktNum`, `nowPktNum` |
| `streams` | `checkValidStream()`; true once data was sent or received |
| `inFlight[p]` | every datagram ever sent to p. It may be read at any time, repeatedly, or never; sending it again would add nothing, so there is no retransmission here |
| `aborted[p]` | `assert(foundCon != nullptr)` failed and the program is gone |
| `AcceptConnection`, `HandshakeAtClient`, `HandshakeAtServer` | the three branches of the INITIAL handler, each with the ready callback, in which the application may call `CloseConnection` |
| `ReceiveData`, `ReceiveClose`, `ReceiveAck`, `AbortOnUnknown` | the handlers of STREAM, CONNECTION_CLOSE and ACK, and their searches |
| `CreateConnection`, `CloseConnection` | the functions of these names |
| `Pass` | a pass over one connection: alarm and idle timer (`AtTimer`), the first packets of the queue, an ACK, a packet of waiting data |

`ViewOf` maps a connection to the view its end has of it, `Views` gives both, and `PromiseSpec` says
that they are a behaviour of SessionPromise.

### Recovery

One end, alone. The other end and the network are reduced to the ACKs that may come: any subset of what
waits, at any time. What PacketLayer leaves to chance is computed here.

| in `Recovery` | in the code |
|---|---|
| `phase` | where the loop is; "ack" is inside `remNeedACKPkt` |
| `notACKedSentPkt`, `copies` | the timers of the first entry of each number, in order, and of the first entry a retransmission adds to them; `notACKedSentPktPTO` runs in parallel |
| `age`, `left`, `quarter` | how long ago `remTime` is and how far ahead the PTO, in quarters of a second, and the quarter the clock shows; the clock ticks by halves. `Due` subtracts in `ClockBits` bits what `quic.cc:490` subtracts in 64 |
| `Entry`, `Refreshed` | `addNeedACKSentPkt` notes the full second (`connection.hh:478`), `remNeedACKPkt` the time to the millisecond (`connection.hh:518`) |
| `Landed`, `UpdateCongestionWindowByACK`, `UpdateOnFlightBySentPktLen`, `WhetherCanSendPkt` | the functions of these names; `Landed` is the branch of `remNeedACKPkt` for a number newly acknowledged |
| `StartPass`, `SkipAcked`, `SendPing`, `SendFront`, `LeaveLoop`, `Retransmit` | a pass; `expired` is `PTO_expired`, which the timers of other connections may set too |
| `PutPingInFront` | `GetNewPktNum` and `AddPacket_to_front` for a PING. Nothing in the code ends the PINGs. Beyond the bounds `MaxPktNum` and `MaxPings` a PING gets no number: phase "ping" says that it is at the front, and `SendPing` sends it, with what that means for `onFlight`, for the packets sent beyond the window, and for the end of the send loop |

A PING without a number has no timer and is never acknowledged: its PTO is one of `others`, what the scan
queues of it goes behind everything that waits, and what an ACK of a PING does to the window and to
`onFlight` is seen of those that have a number.

No RTT is ever sampled: `updateRTT` needs `latestACKedSentPktNum`, which nothing fills. So
`updatePTO` gives a client, whose `Initial()` sets `smoothed_rtt` and `rtt_var`, always 1500 ms. A
server's connection has a PTO of 0 from `initPTO` (`quic.cc:580`), and of 100 ms (`kGranularity`) once a
timer of it has expired and `updatePTO` ran (`quic.cc:244`), for its RTTs are 0. In quarters of a second
both are 0, and what a few milliseconds more or less decide, `others` leaves to chance: one constant
`PTO` stands for either, 6 for a client and 0 for a server. The two functions that lower the window never run (`connection.hh:580-589`).

### IntervalSets and WireFormat

`IntervalSets` has the two comparisons, `Merge` and `Complement` of `Interval`, and the operations of
`IntervalSet` as recursive functions over its list, the head of the argument being where the iterator
is; a function of two lists takes them as a pair. Where the code throws, the list stays as it is.
`numbers` is the set that the list stands for. The loop of `AddInterval` is that of
`AddIntervalSet` left after one interval, so one function stands for both.

`WireFormat` puts packets together (`AttachFrame`, `SendPacket`), encodes them into a buffer of the
length they announce, and parses it (`ReceivePacket`). A frame is an ID and fields; `Layout` gives the
kinds of its fields, from which writing (`Written`), counting (`Length`) and reading (`ReadField`)
follow, except where the code of a frame does otherwise: `WrittenID` (MAX_STREAMS, STREAMS_BLOCKED),
CRYPTO in `FrameEncodeLen`, `ParsePadding`. Reading past the end makes `ok` false. `IsFrame` says what
the constructors may be given: integers below 2^62 - 1, where `encodeVarInt` throws, identifiers of up to
255 bytes, the intervals of a set in order. A packet number has 32 bits, as in the two header classes
(`packet.hh:202`, `packet.hh:374`).

## 3. The runs

| run | question | bounds |
|---|---|---|
| `PacketSafety` | do `PacketInv` and its parts hold with every class of frame? | one sender, 3 packets, up to 2 of them PINGs |
| `PacketLiveness` | does every packet but a PING arrive and get settled? | 2 packets, 1 PING |
| `StreamOrder` | do the streams implement `ReliableStream`, and is a FIN told where it was put? | one stream, a buffer of 3 bytes cut at 2, then an empty one; 3 packets, 1 back |
| `ConnectionCredit` | does blocking on the connection's limit keep both ends in agreement? | 6 bytes against a limit of 3; 3 packets and 2 back; 1 request, 1 credit |
| `StreamClosing` | can streams be closed while data waits or is under way: is the end told once, with the right final size, no byte lost, and a frame beyond the limits left unrecorded? | streams 0 and 4 of a client; 1 byte on each in either direction; 2 packets each way |
| `StreamLive` | do bytes and FIN arrive in the end, also when they wait for credit? | one stream of the server, whose limit starts at 0; 1 byte with FIN; 2 packets and 1 back |
| `Lifecycle` | do the two ends agree on a connection, close it for a reason and in the end, and does the handshake complete? | 1 connection of the client, 2 that Initial packets open at the server; 3 packets of a client's connection and 2 of a server's; the server sends data |
| `Recovery` | does the window count what is in flight, is what is queued sent, and what is unacknowledged sent again? | 2 packets, of length 2 (data, a notice) or 1 (a PING), and PINGs without a number; window from 2, threshold 3; 1 packet beyond the window in a pass; PTO 0, a server's; a clock of 16 bits |
| `Wire` | is an interval set the set it stands for, and what is parsed what was sent? | numbers 0 to 4; packets of up to 2 of 24 frames, one at least of every class, or the set's ACK; integers on both sides of each change of size |
| `PacketPing` | violated: `EveryNeedACKSettles` | 2 packets, 1 PING |
| `FinMisplaced` | violated: `FinTruth` | two buffers waiting, 3 packets |
| `SecondStream` | violated: `EveryStreamHasDefaults` | two streams |

That a buffer blocked by the connection's limit stays in `unsentBuf` is not checked in `ConnectionCredit`
but proved for all bounds (`UnsentFollows`); `StreamLive` sees it delivered.

**Why the bounds are enough.** Three packets one way are the least that give an ACK with a gap, two
frames waiting behind a third, and a retransmission queued behind a new packet. One or two packets
back are the least for a limit frame that crosses data. Since a datagram that was kept may be read
again at any time, duplicates and delays are not bounded at all, and losses only by the number of
packets. `MaxPktNum` bounds what each peer may number, `MaxProbes` the PINGs among them,
`MaxStreams` the streams each opens, `MaxSubmitted` the bytes submitted on each stream,
`MaxRequests` the requests for credit (at the bound a blocked buffer goes on waiting, as if the
request had been lost), `MaxCredits` the limit frames a peer has issued when it stops reading
requests, and `MaxField` the numbers in a frame. The lengths and limits of `connection.hh` are
scaled down, keeping the cases apart: buffers shorter than, equal to and longer than
`MAX_PACKET_DATA_LENGTH`, limits below and above what is submitted.

In `Lifecycle` the server's second descriptor is the connection that a stray Initial packet opens, for
nobody or in its first place; three packets of a client are its two Initial packets and a
CONNECTION_CLOSE, two of a server its Initial packet and one of data or CONNECTION_CLOSE, and since
datagrams are kept for ever, every order of them occurs. In `Recovery` two packets are the least for
one that is beyond the window behind one in flight, for an ACK of one that makes the other young, for a
packet behind a notice, and for a PING that overtakes another packet; the bounds on numbers end no
stream of PINGs. Lengths 1 and 2 against a window that starts at 2 make the window full, exceeded and
below the threshold in turn. `Oldest` and `MaxOnFlight` stop counting where more
makes no difference. In `Wire` the numbers 0 to 4 allow three intervals with gaps and both
comparisons at 0, where the code tests for it, and all 32 sets are reached by every operation. A frame
that the parser reads up to the end of the packet comes last, as the program would have to place it.

Deadlock is checked in every run but `Lifecycle`: at the bounds an endpoint still goes through its
passes, and when a frame beyond the limits has stopped one end, the other goes on. In `Lifecycle` both
programs may have ended by a failed assertion.

**Fairness.** `FairSpec` assumes of an endpoint what the loop gives it: it never blocks (reads wait
10 ms, a pass sleeps 100 ms), so each step of a pass is taken, and passes that do not start with a
probe recur: a probe pushes the idle timer back, and the PTO puts one at the front only while nothing
ack-eliciting is there, where what waits for its ACK comes again. For this `NoAckFrame` has to be empty,
as it is in `PacketLiveness` and in the stream runs: `Recovery` shows what becomes of a packet behind one
that is sent without needACK. A packet that stays unacknowledged is due in some later pass
(`AckAndRetransmit` with all of `Retransmittable`). Of the network it assumes that it does not lose
every copy of a packet sent again and again, nor every ACK, and that what it kept is read: strong
fairness on `SendKept`, on `ReceivePacket` and on `ReceiveAck`, as usual for a lossy channel.
`StreamFairSpec` says the same of the steps of `StreamTransport`, and that a handler once begun goes
on; it does not assume that ACKs arrive, since delivery does not depend on them.

The `FairSpec` of ConnectionLifecycle assumes that every connection has its passes, that one of them
comes 2000 ms after `CloseConnection` (the loop never blocks, so the clock passes the alarm), and
that an Initial packet that was sent arrives: the first two are sent again until acknowledged, and
what that takes is the subject of PacketLayer. The application may do nothing at all. The `FairSpec`
of Recovery assumes that the clock goes on, that handlers and passes end, and that passes start, which
the 10 ms timeout of a read gives; `Tick` and `QuietPass` need strong fairness because ACKs may
interrupt what they wait for again and again. A `QuietPass` is one in which the idle timer does not ask
for a PING: a PING of that timer sets it to 10 s (`connection.hh:55`, `:842-858`), and passes are 100 ms
apart. Nothing is assumed of PTOs, which may be expired in every pass, nor that any ACK comes.
`EverythingIsSent` has its own condition, that passes without an expired PTO recur.

### What the violated runs show

* `FinMisplaced`. `GetPktFromUnsentBuf` erases a buffer's own entry of `unsentBufFin`
  (`connection.hh:1008-1011`) and then reads `unsentBufFin[0]` for the frame (`:1012`): the frame
  that ends a buffer carries the FIN of the buffer after it. The receiver's application is told that
  the stream ended while bytes are still to come. `StreamOrder` shows that a FIN is right as long as
  no other buffer with bytes waits.
* `SecondStream`. `GenerateStreamID` stores the new stream, with its default limits, under its
  index, and returns the ID (`connection.hh:290-297`), which is another key for every stream but a
  client's first bidirectional one. The application's stream runs on an entry with limits of 0: its
  first buffer waits for credit, and a reply on it is beyond the limits and closes the connection
  (the case in `StreamClosing`). The key *index* may also belong to a stream in use: a server that opens
  its first stream overwrites the client's stream 0.
* `PacketPing`. The PING handler records the packet in state PEER_ESTABLISHED only
  (`quic.cc:1133`). On an ESTABLISHED connection a PING is never acknowledged, so it is sent again for
  ever, and the idle close, which requires that nothing waits for an ACK, does not come.

### Disagreements met that no run shows

* `InsertStream` (`connection.hh:375-377`) assigns a new `Stream` to its ID whatever the map holds. A
  STREAM_DATA_BLOCKED frame that overtakes the first STREAM frame raises the limit of the entry it
  finds, and the raised limit is lost when the STREAM frame comes; the sender, told of the raised
  limit, goes beyond the one that is enforced. `NeverOverLimit` is therefore checked where only the
  connection's limit blocks.
* `quic.hh:60` says that `CloseStream` sends "all pending data"; RESET_STREAM is queued at once, and data
  that waits follows it. `UnsentFollowsSent` in `StreamClosing` shows that it does follow.
* A server runs the ready callback in the states it enters on the first and on the second Initial
  packet, so twice. `callback.hh:7-9` announces it when the handshake completes. `SessionPromise` has no
  count of callbacks for that reason, and a copy of CONNECTION_CLOSE that reaches a connection in CLOSED
  runs the close callback again (`quic.cc:972`).
* A client that closes in its ready callback has the state set to ESTABLISHED afterwards
  (`quic.cc:626-627`). Its view stays "closing" in `PromiseSpec`; `ClosingEnds` does not speak of it.
* A STREAM or CONNECTION_CLOSE packet for an identifier that no connection has fails an assertion
  (`quic.cc:781`), as when it overtakes the server's Initial packet. `HandshakeCompletes` and
  `ClosingEnds` except a program that is gone.
* MAX_STREAMS and STREAMS_BLOCKED are written with the ID of PADDING (`frame.hh:771`), PADDING at the end
  of a packet fails an assertion, CRYPTO counts its offset twice. `PacketRoundTrip` and `LengthsAgree`
  except these frames; of them the program sends MAX_STREAMS only.
* While a PTO of any connection is expired and the packet at the front asks for no ACK, each pass numbers
  a new PING, puts it in front (`quic.cc:307-329`) and sends it alone (`quic.cc:387-388`). The comment says
  "if nothing to send" (`quic.cc:306`), but there is something: the third packet of the handshake, queued
  without needACK (`quic.cc:643`), and whatever is queued behind it wait as long as that lasts, which no
  ACK need ever end. So `QueuedIsSent` speaks of packets with nothing but ack-eliciting ones before them,
  and without that condition TLC finds this behaviour; `EverythingIsSent` says that it is the only
  obstacle: if passes without an expired PTO recur, everything leaves the queue.
* The comment before the scan says that it adds to the front of `pendingPackets` (`quic.cc:481`); it adds
  to the back (`quic.cc:495`), without which a packet sent again and again would keep the others waiting
  (the mutant `RetransmitInFront`).
* A retransmitted packet is entered in `notACKedSentPkt` again, which the comment at `quic.cc:496-497`
  says should not happen.

## 4. The theorems

All are proved for any peers, frames, bounds, sizes and limits that satisfy the ASSUMEs of the
modules (the two peers differ; a connection may number two packets at least; the classes of frames are disjoint; bounds and lengths are naturals;
`NoStream` is no stream; lengths, window and threshold of Recovery as `LengthAssumption` says).

**PacketLayer_proofs.** `TypeCorrect` proves `TypeOK`. `BookkeepingCorrect` proves `PacketInv`, which
is inductive. None of the interesting conjuncts is inductive alone. `NothingForgotten` is disturbed by
`SkipAcked`, which drops a packet because its number was acknowledged; that it reached the other peer
needs `AckedWasReceived` and that the number names this packet and no other (`NumberNamesOnePacket`).
`AckedWasReceived` needs that every ACK in the network names recorded numbers. `HandledOnce` needs
`NumberNamesOnePacket` again, since the duplicate test looks at numbers. `QueueMatchesToSend` needs
that no number is queued twice, as `RemoveToSendPktNum` would take away the mark of both. So the
invariant adds `KnownPackets`: whatever is queued, unacknowledged or in the network was issued under a
number already given out, and an ACK names only recorded numbers. The proof has a lemma per action,
and four lemmas on sequences for the four things done to the queue. `PacketsAreKept`,
`DuplicatesAreHarmless`, `AcksAreTrue`, `AckedPacketsStayAcked` and `QueueIsToSend` are its parts,
stated separately.

**StreamTransport_proofs.** `StreamsUsePackets`: `StreamSpec => Spec`, the streams implement the
packet layer, so that `StreamBookkeeping` has the packet invariants for them too. `StreamTypeCorrect`
proves `StreamTypeOK`. `ConnectionLimitGranted` proves that a sender never obeys a connection limit
beyond the one its receiver enforces. Its invariant adds `LimitsOnTheWay`: every MAX_DATA frame ever
issued, and every one a handler has yet to queue, carries a limit that is already enforced; limits
enforced never fall, so duplicates and late copies are harmless.

`NothingWaitsDeliverable` proves `NothingDeliverableWaits` of every behaviour:
the handler that ends has drained its own stream, and no other step makes a frame of another stream the
next one.

The next theorems are about the bytes. `DeliveryInv` follows them from the application to the callback:
`BuffersCover` says that the buffers of a stream in `unsentBuf` are, in order, the pieces from its send
`offset` to the last byte submitted; `FramesSent` that every STREAM frame issued is of a stream in use, that
its bytes are those its offset says, and that they end at or below the send offset; `FramesHeld` that a
receiver was given the bytes before `expOffset`, and that what waits in `buffered` was issued by the other
end for that stream; `RecordedIsKept` that the frame of a recorded packet was delivered or waits;
`UnusedIsFresh` that a stream an end does not use has sent and received nothing there. It is inductive
together with `PacketInv`, by which the frame a receiver takes is one that was issued, and a packet
recorded was handled (`HandledOnce`). From it follow `UnsentFollows`, `RecordedKept`, and `StreamsAreReliable`: every step of
the streams is a `Submit`, a `Deliver` or a stutter of `ReliableStream`.

These three are theorems of `StreamSpec /\ [][EntriesKept]_allVars`: of the behaviours in which no
stream in use is overwritten when another one comes into use. The code does not keep that.
`GenerateStreamID` puts a new stream's state under its index instead of its ID (section 3,
`SecondStream`), and the index may be the ID of another stream: a server's first stream is put in the
place of the client's stream 0, and a client's fifth in that of its second. The bytes of the stream
overwritten are then lost. `KeysApart` says of the constants that no index a peer may still use is such an
ID. `OpeningKeepsEntries` proves that then `EntriesKept` holds of every step, so that
`ReliableWhereKeysApart` has no condition on the behaviour. It holds where one peer opens streams, a client
up to four bidirectional ones, and not where both do. `MCStreamTransport` assumes `KeysApart` of its
constants, so TLC evaluates it for every run, and in each run at most one peer opens streams.

`FinsAreTrue` proves `FinTruth` of the behaviours in which the application says a FIN while nothing waits,
or with an empty buffer behind bytes of the same stream (`FinsComeLast`); without that the FIN goes out with
bytes of another stream or before its own (section 3, `FinMisplaced`). Its invariant `FinInv` says that the
last buffer that waits is the one that has its stream's FIN, that a frame with FIN, sent or held, ends where
the FIN was said, and that nothing is submitted beyond it.

`SendersStayWithinLimits` proves `NeverOverLimit`: no STREAM frame a receiver did not handle yet is beyond
a limit it enforces, the stream's or the connection's. A receiver compares with sums over all its streams,
and the frames under way are of any age, so the invariant `CreditInv` has four parts: `StreamGrants`, that
every stream limit obeyed, under way or about to be sent is enforced, or is the default; `SendersObey`, that
the bytes sent on each stream and their sum are within what the sender obeys; `FramesApart`, that no
byte is in two packets; `ReceivedOnce`, that what waits was recorded and a packet not recorded holds nothing
delivered. So what a receiver has and the new frame are together no more than was sent, the
frame ends at or below the send offset, and both are below limits that are enforced. The theorem has three
conditions, each of which the code breaks in a way section 3 names: `EntriesKept`; `UnusedAtDefault`, that
no request for credit raised a limit that `InsertStream` then resets (`connection.hh:375`); and
`BytesMeetDefault`, that a stream with bytes under way has its default limit at the receiver, which a stream
stored under its index has not (`SecondStream`).

`WithinLimitsWhereKeysAreIDs` has no condition on the behaviour. `KeysAreIDs` says that a stream's index is its
ID, which is so for the client's stream 0, and `FitsDefault` that no more is submitted on a stream than its
default limit. Then no stream is overwritten, all have their defaults (`LimitsKeptWhereKeysAreIDs` proves
`EveryStreamHasDefaults`), no buffer is ever blocked by its stream and nobody asks for a stream's credit
(`DefaultsInv`), so the three conditions hold. It is the situation of the run `ConnectionCredit`, one stream
with the key and ID 0 and 6 bytes against a limit of 20, for any lengths, numbers of packets and
limits of the connection, which may block and be raised as they like.

**StreamClosing_proofs.** `ClosingUsesPackets` and `ClosingBookkeeping` carry the packet invariants over
to streams that can be closed, `ClosingTypeCorrect` proves `ClosingTypeOK`. `EndIsToldOnce` proves
`EndToldOnce`: its invariant ties the number of calls to packets, not to the state of the stream.
A RESET_STREAM is issued only for a stream in `closedBy` and at most once for each; an end that was told
has such a packet, and its number is recorded. That the number names this packet alone and that a
recorded packet is not handled again comes from `PacketInv`, so the theorem needs
`ClosingBookkeeping`.

`ClosingKeepsData` proves `UnsentFollowsSent` and `RecordedIsKept` for streams that may be closed: what
waits when `CloseStream` runs is still sent. `FinalSizesAreSent` proves `FinalSizeIsSent`. Its invariant
`SizeInv` says that the send `offset` of a stream is the sum of the lengths of the STREAM frames issued of
it, so that the final size is right when RESET_STREAM is queued; a frame numbered later does not change
the sum over those before it, since numbers only grow. Both have the condition of delivery, and `ClosingWhereKeysApart` discharges it in
the same way.

**ConnectionLifecycle_proofs.** `LifecycleTypeCorrect` proves `LifecycleTypeOK`, `ClosesHaveReasons`
proves `ClosedForAReason`, for any number of connections and packets at both ends. What a handler does
when a CONNECTION_CLOSE arrives depends on its identifier alone, so the invariant `LifeInv` follows the
packet backwards: each one in flight to an end names the `remote` of a connection of the other end whose
`closePktNum` is set; each one still queued is addressed to its connection's `remote`, and that
connection's `closePktNum` is set; a waiting connection has set it, and one in CREATED was never told of
a close, which is why the second Initial packet may still change its `local`. A connection never loses
its `remote` or its `closePktNum`, so a reason once given stays. There is a lemma for each operation on a
connection, one for each action, and `BecomeKeepsInv` for what a change of one connection means for the
others.

`EndsAgree` proves `IdentifiersAgree`. `IdentifiersAgree` says nothing of packets, yet what an end takes
for the other's identifier comes out of one, so `NameInv` says of every packet queued or under way which
connection made it (`MadeBy`): it is addressed to that connection's `remote`, which tells by itself who
generated it and for which connection (`Label`); the server's Initial packet has its connection's `local`
as source; an Initial packet of the client with a later number, the third of the handshake, was made by a
connection that had agreed with one of the server. A repeated or late Initial packet opens a further
connection at the server with the `local` of an earlier one. Such a connection is `Shared`: of those with
one `local` only the last can still be in use, and the first, when its handshake is complete, is the one
the client agreed with. From the same invariant comes
`KeepsPromise`, the refinement of `SessionPromise`: an ACK or a second Initial packet that completes the
handshake at the client was made by a server's connection that had accepted, and a close is preceded by
one of the other end by `ClosesHaveReasons`.

**Recovery_proofs.** `RecoveryTypeCorrect` proves `RecoveryTypeOK`, from an invariant that says which
numbers may be queued, timed and acknowledged (those given out). `WindowStopsGrowing` proves
`WindowIsBounded` for all lengths and limits. It needs that in congestion avoidance the window is larger
than the threshold, so larger than any packet, so that `length \div congestionWindow` is 0: the window
cannot grow any more, which is hardly what `connection.hh:887-897` means to do.

`WindowEarned` proves `WindowIsEarned`: the window opens by at most the length of a packet when it lands,
and it lands once. That needs `AckInv`: `notACKedSentPkt` holds a number once, and no acknowledged number
is in it. `FlightInv` sums over the packets that landed. `FlightCounted` proves `InFlightIsCounted`.
`onFlight` shrinks for each packet that lands, counted or not, and is held at 0, so it is no sum of
anything; the invariant bounds it from below by the packets counted that wait, less those that landed
uncounted.

**IntervalSets_proofs.** `ListsRepresentNumbers` proves `RepresentsNumbers`: after any operations in any
order the list is in descending order with gaps, and stands for the numbers put in and not taken out.
`PointCompMeaning` and `RangeCompMeaning` say for all intervals what each result of the two comparisons
means, 0 included; `MergeIsUnion`, `ComplementIsDifference` and `FragmentsAreDifference` that the
intervals made from them hold the union and the difference. The four operations are recursive functions,
so there first has to be a function that satisfies the definition: each goes on with a smaller measure
(`Len(l) + 2 * Len(set)` for `RemoveIntervalSet`, which may split an interval), and `WalkExists` gives
one then. An induction on the measure shows that `MaintainKeeps` the numbers, that `AddIsUnion`, that
`RemoveIsDifference` and `RemoveSetIsDifference`. Last, a list in order is determined by its numbers
(`RunsFindsList`), and every bounded set has one (`RunsAreNormal`). `Maintain` is only right for a head
that reaches above the rest of the list (`Grown`), which all of its callers establish.

**WireFormat_proofs.** `BufferIsFilled` proves `LengthsAgree`, and `PacketsRoundTrip` proves
`PacketRoundTrip`, for all frames that satisfy `IsFrame`, payloads of any length, ACKs of any set and all
packet numbers. The invariant `WireInv` only remembers that the packet under way was made of frames, that
a frame that is read to the end of the packet comes last, and that what was received was parsed from the
packet's buffer; that an ACK's intervals are in order comes from `ListsRepresentNumbers`. The rest is about
the operators. A cursor in front of what was written takes back the value and stands at what follows
(`ReadUintReads`, `DecodeVarIntReads`, `ReadCountedReads`, `ReadFieldReads`, `ReadFieldsReads`), of
whatever follows; so fields, frames (`ParseReads`, `FramesRead`) and headers (`ShortHeaderReads`,
`InitialReads`) can be put one behind the other. `DecodeVarIntReads` needs that the two highest bits of the
first byte are free (`TopByte`), in each of the four sizes. For ACK frames `RangesRead` shows that the loop
over lengths and gaps meets the intervals from the largest down, by the lemmas on `AddInterval` that
`IntervalSets_proofs` has. That `encodeVarIntLen` is 8 for numbers from 2^30 on while the header's two bits
can say 4 does no harm, since 4 bytes hold 32 bits (`NumberWritten`).

**SumTheorems.** The sums of the community modules are recursive functions over sets. The induction
theorems of the library take an operator as their parameter, which no installed prover instantiates, so
these proofs start from the sets themselves: a set of naturals that has 0 and with n also n + 1 is all of
them, as otherwise its complement had a least element. `SumRemove`, `SumInsert` and `SumBounds` are what
the other proofs cite; of the program they say nothing.

**Model-checked only.** The ten liveness properties, which need ENABLED or fairness (`EventuallyReceived`, `EventuallySettled`,
`EveryNeedACKSettles`, `EverythingDelivered`, `FinArrives`, `HandshakeCompletes`, `ClosingEnds`, `QueuedIsSent`,
`EverythingIsSent`, `UnackedIsRetransmitted`). Every safety property of the passing runs is proved; `NeverOverLimit`,
`FinTruth` and the others that an overwritten stream breaks do not hold in general: they are proved
under the conditions said above, and checked in runs whose bounds meet them.

## 5. The plan

Written, in this order: `PacketLayer`, `StreamTransport` and `ReliableStream` with their theorems;
`ConnectionLifecycle` and `SessionPromise`; `StreamClosing`; `IntervalSets` and `WireFormat`; `Recovery`.

Left, most important first:

1. MAX_STREAMS and the refusals of `InsertStream`, with the map `streamState` by its keys.
2. Two connections in one loop, step by step: of the others only the PTOs count now, as a choice.

## 6. What is not modelled

* MAX_STREAMS as a message (`quic.cc:802-823`) and STREAM_LIMIT_ERROR (`quic.cc:795-799`): the modules keep the
  number of streams below both. How MAX_STREAMS is written is in WireFormat.
* Several endpoints in one program, which no program of the repository has; the set `usedID` of the identifier generator, which is
  changed in copies only.
* `PacketMissCallback` and `ThreeTimeNoNewACKCallback`, which nothing calls in effect; `updateRTT`, which has no
  samples.
* Handshake, 0-RTT and Retry headers and `IsFrameAllowed`: the program makes and calls none of them.
* Sockets, logging, random numbers, time helpers and `ChunkStream` (used by nothing) keep no protocol
  state. The example applications are callbacks that create streams and submit buffers;
  `StreamTransport` lets an application do that whenever a callback may run. `extern/` is vendored. No
  property depends on cryptography: the program has none.
