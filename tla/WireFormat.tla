------------------------------ MODULE WireFormat ------------------------------
(***************************************************************************)
(* Packets as bytes: the integers of variable_codec.cc, every frame of     *)
(* frame.hh, the two headers the program makes and the two loops that      *)
(* parse a payload.  A packet is put together frame by frame, encoded into *)
(* a buffer of the length it announces, and parsed at the other end.  Its  *)
(* ACK frames name the numbers of an IntervalSet, which changes meanwhile. *)
(*                                                                         *)
(* Bytes are the numbers 0 .. 255 of the code.  Reading past the end of a  *)
(* buffer, writing past it and an ID that Frame::Parse does not know fail  *)
(* an assertion or throw, and the program is gone.                         *)
(***************************************************************************)
EXTENDS IntervalSets, SequencesExt

CONSTANTS
    Frames,        \* the frames, ACK frames apart, that are attached to packets
    Delays,        \* the values of an ACK frame's delay
    PktNums,       \* the packet numbers
    MaxFrames      \* bound: how many frames a packet holds

VARIABLES
    payload,       \* the frames attached so far
    datagram,      \* the packet on its way and its bytes
    received       \* the packet that was sent and what was parsed from it

packetVars == <<payload, datagram, received>>
wireVars == <<intervals, numbers, payload, datagram, received>>

-----------------------------------------------------------------------------
(***************************************************************************)
(* Integers.  A variable-length integer takes 1, 2, 4 or 8 bytes and keeps *)
(* the choice in its two highest bits.  The bound of the fourth size,      *)
(* 2^62 - 1, at which encodeVarInt throws, is above every number here.     *)
(***************************************************************************)
VarIntSizes == <<1, 2, 4, 8>>
VarIntBounds == <<63, 16383, 1073741823>>

Shifted(v, k) ==
    LET shifted[j \in Nat] == IF j = 0 THEN v ELSE shifted[j - 1] \div 256
    IN  shifted[k]

encodeUInt(v, size) == [k \in 1 .. size |-> Shifted(v, size - k) % 256]
decodeUint(bytes) ==
    LET value[k \in 0 .. Len(bytes)] == IF k = 0 THEN 0 ELSE 256 * value[k - 1] + bytes[k]
    IN  value[Len(bytes)]

\* upper_bound: a value equal to a bound takes the next size.
EncodeIndex(v) == 1 + Cardinality({k \in DOMAIN VarIntBounds : VarIntBounds[k] <= v})

encodeVarInt(v) ==
    LET bytes == encodeUInt(v, VarIntSizes[EncodeIndex(v)])
    IN  <<bytes[1] + 64 * (EncodeIndex(v) - 1)>> \o Tail(bytes)

\* Mutant: a value equal to a bound is counted with the smaller size.
encodeVarIntLenAtBound(v) ==
    VarIntSizes[1 + Cardinality({k \in DOMAIN VarIntBounds : VarIntBounds[k] < v})]

encodeVarIntLen(v) == VarIntSizes[EncodeIndex(v)]

-----------------------------------------------------------------------------
(***************************************************************************)
(* Frames: an ID, which is the type, and fields.  The bits of a STREAM     *)
(* frame's ID tell which of its fields follow.                             *)
(***************************************************************************)
Bit(id, n) == (id \div n) % 2 = 1

StreamID(offset, len, fin) ==
    8 + (IF offset # 0 THEN 4 ELSE 0) + (IF len THEN 2 ELSE 0) + (IF fin THEN 1 ELSE 0)
StreamIDs == 8 .. 15
StreamFrame(streamID, data, offset, len, fin) ==
    [id |-> StreamID(offset, len, fin),
     fields |-> <<streamID>> \o (IF offset # 0 THEN <<offset>> ELSE <<>>) \o <<data>>]

\* The fields of each class of frame in the order they are written: "var", a
\* variable-length integer; "uint64"; "block", bytes after their number; "rest", the
\* bytes up to the packet's end; "id", a connection ID after its length; "token", 16 bytes.
PingFrame                == <<>>
ResetStreamFrame         == <<"var", "var", "var">>   \* stream, error code, final size
StopSendingFrame         == <<"var", "var">>          \* stream, error code
CryptoFrame              == <<"var", "block">>        \* offset, data
NewTokenFrame            == <<"block">>
MaxDataFrame             == <<"var">>
MaxStreamDataFrame       == <<"var", "var">>          \* stream, limit
MaxStreamsFrame          == <<"var">>
DataBlockedFrame         == <<"var">>
StreamDataBlockedFrame   == <<"var", "var">>          \* stream, limit
StreamsBlockedFrame      == <<"var">>
NewConnectionIDFrame     == <<"var", "var", "id", "token">>
RetireConnectionIDFrame  == <<"var">>
PathChallengeFrame       == <<"uint64">>
PathResponseFrame        == <<"uint64">>
ConnectionCloseQUICFrame == <<"var", "var", "block">> \* error code, frame type, reason
ConnectionCloseAppFrame  == <<"var", "block">>        \* error code, reason
HandshakeDoneFrame       == <<>>

\* A STREAM frame: stream, offset if any, data with or without their number.
StreamFields(id) ==
    <<"var">> \o (IF Bit(id, 4) THEN <<"var">> ELSE <<>>)
              \o (IF Bit(id, 2) THEN <<"block">> ELSE <<"rest">>)

\* The class that Frame::Parse constructs for an ID, PADDING and ACKs apart.
Layout(id) ==
    CASE id = 1         -> PingFrame
      [] id = 4         -> ResetStreamFrame
      [] id = 5         -> StopSendingFrame
      [] id = 6         -> CryptoFrame
      [] id = 7         -> NewTokenFrame
      [] id \in StreamIDs -> StreamFields(id)
      [] id = 16        -> MaxDataFrame
      [] id = 17        -> MaxStreamDataFrame
      [] id \in 18 .. 19 -> MaxStreamsFrame
      [] id = 20        -> DataBlockedFrame
      [] id = 21        -> StreamDataBlockedFrame
      [] id \in 22 .. 23 -> StreamsBlockedFrame
      [] id = 24        -> NewConnectionIDFrame
      [] id = 25        -> RetireConnectionIDFrame
      [] id = 26        -> PathChallengeFrame
      [] id = 27        -> PathResponseFrame
      [] id = 28        -> ConnectionCloseQUICFrame
      [] id = 29        -> ConnectionCloseAppFrame
      [] id = 30        -> HandshakeDoneFrame

\* MAX_STREAMS and STREAMS_BLOCKED compute their ID as 0x12 & unidirectional and
\* 0x16 & unidirectional, which is 0 either way: the ID of PADDING.
WrittenID(id) == IF id \in {18, 19, 22, 23} THEN 0 ELSE id

Written(kind, v) ==
    CASE kind = "var"              -> encodeVarInt(v)
      [] kind = "uint64"           -> encodeUInt(v, 8)
      [] kind = "block"            -> encodeVarInt(Len(v)) \o v
      [] kind \in {"rest", "token"} -> v
      [] kind = "id"               -> encodeUInt(Len(v), 1) \o v

Length(kind, v) ==
    CASE kind = "var"              -> encodeVarIntLen(v)
      [] kind = "uint64"           -> 8
      [] kind = "block"            -> encodeVarIntLen(Len(v)) + Len(v)
      [] kind \in {"rest", "token"} -> Len(v)
      [] kind = "id"               -> 1 + Len(v)

\* Mutant: the gap is the difference of the numbers.
AckIntegersUncorrected(delay, ranges) ==
    <<ranges[1].end, delay, Len(ranges) - 1, ranges[1].end - ranges[1].start>>
    \o FlattenSeq([k \in 1 .. Len(ranges) - 1 |->
           <<ranges[k].start - ranges[k + 1].end - 1, ranges[k + 1].end - ranges[k + 1].start>>])

\* The integers of an ACK frame: the gaps and the lengths of the intervals, from the
\* largest number down.
AckIntegers(delay, ranges) ==
    <<ranges[1].end, delay, Len(ranges) - 1, ranges[1].end - ranges[1].start>>
    \o FlattenSeq([k \in 1 .. Len(ranges) - 1 |->
           <<ranges[k].start - ranges[k + 1].end - 2, ranges[k + 1].end - ranges[k + 1].start>>])

AckFrame(delay, ranges) == [id |-> 2, fields |-> <<delay, ranges>>]

\* ACK_ECN ends with three counts.
AllIntegers(f) ==
    AckIntegers(f.fields[1], f.fields[2]) \o SubSeq(f.fields, 3, Len(f.fields))

Zeros(n) == [k \in 1 .. n |-> 0]

EncodeFrame(f) ==
    CASE f.id = 0         -> Zeros(f.fields[1])
      [] f.id \in {2, 3}  -> encodeVarInt(f.id)
                             \o FlattenSeq([k \in DOMAIN AllIntegers(f) |-> encodeVarInt(AllIntegers(f)[k])])
      [] f.id \notin {0, 2, 3} ->
             encodeVarInt(WrittenID(f.id))
             \o FlattenSeq([k \in DOMAIN f.fields |-> Written(Layout(f.id)[k], f.fields[k])])

Total(lengths) == SumFunction(lengths)

\* CRYPTO counts the length of its offset twice and that of its length never.
FrameEncodeLen(f) ==
    CASE f.id = 0         -> f.fields[1]
      [] f.id \in {2, 3}  -> encodeVarIntLen(f.id)
                             + Total([k \in DOMAIN AllIntegers(f) |-> encodeVarIntLen(AllIntegers(f)[k])])
      [] f.id = 6         -> encodeVarIntLen(6) + 2 * encodeVarIntLen(f.fields[1]) + Len(f.fields[2])
      [] f.id \notin {0, 2, 3, 6} ->
             encodeVarIntLen(WrittenID(f.id))
             + Total([k \in DOMAIN f.fields |-> Length(Layout(f.id)[k], f.fields[k])])

-----------------------------------------------------------------------------
(***************************************************************************)
(* What the constructors are given: integers that fit, strings of bytes of *)
(* the right length, and the intervals of a set.  Headers keep a packet    *)
(* number in 32 bits.                                                      *)
(***************************************************************************)
Byte == 0 .. 255

\* Below 2^62 - 1, where encodeVarInt throws.
IsVarInt(v) == v \in Nat /\ Shifted(v + 1, 7) < 64

IsValue(kind, v) ==
    /\ kind = "var" => IsVarInt(v)
    /\ kind = "uint64" => v \in Nat /\ Shifted(v, 8) = 0
    /\ kind \in {"block", "rest", "id", "token"} => v \in Seq(Byte)
    /\ kind = "block" => IsVarInt(Len(v))
    /\ kind = "id" => Len(v) \in Byte
    /\ kind = "token" => Len(v) = 16

\* In descending order, with a number missing between any two intervals.
IsRanges(l) ==
    /\ l \in Seq(Interval) /\ l # <<>> /\ IsVarInt(l[1].end)
    /\ \A i, j \in DOMAIN l : i < j => l[j].end + 1 < l[i].start

FieldCount(id) ==
    CASE id = 0 -> 1 [] id = 2 -> 2 [] id = 3 -> 5 [] id \notin {0, 2, 3} -> Len(Layout(id))

IsFrame(f) ==
    /\ f.id \in 0 .. 30
    /\ f.fields = [k \in 1 .. FieldCount(f.id) |-> f.fields[k]]
    /\ f.id = 0 => f.fields[1] \in Nat
    /\ f.id \in {2, 3} => /\ IsRanges(f.fields[2])
                         /\ \A k \in DOMAIN f.fields \ {2} : IsVarInt(f.fields[k])
    /\ f.id \notin {0, 2, 3} => \A k \in DOMAIN f.fields : IsValue(Layout(f.id)[k], f.fields[k])

ASSUME WireAssumption ==
    /\ \A f \in Frames : IsFrame(f)
    /\ \A n \in Delays \cup PktNums \cup {MaxNumber} : IsVarInt(n)
    /\ \A n \in PktNums : Shifted(n, 4) = 0

-----------------------------------------------------------------------------
(***************************************************************************)
(* Parsing, with a cursor: the bytes left, the values read, and whether    *)
(* every read was within the buffer.                                       *)
(***************************************************************************)
Reading(left, got, ok) == [left |-> left, got |-> got, ok |-> ok]
Cursor(bytes) == Reading(bytes, <<>>, TRUE)

Consume(c, n) == Reading(SubSeq(c.left, n + 1, Len(c.left)), c.got, c.ok /\ n <= Len(c.left))
Holding(c, got) == Reading(c.left, got, c.ok)
Got(c, v) == Holding(c, Append(c.got, v))
LastGot(c) == c.got[Len(c.got)]

ReadBytes(c, n) == Got(Consume(c, n), SubSeq(c.left, 1, n))
ReadUint(c, n) == Got(Consume(c, n), decodeUint(SubSeq(c.left, 1, n)))

decodeVarInt(c) ==
    IF c.left = <<>> THEN Consume(c, 1)
    ELSE LET size == VarIntSizes[1 + c.left[1] \div 64]
         IN  Got(Consume(c, size), decodeUint(<<c.left[1] % 64>> \o SubSeq(c.left, 2, size)))

\* The bytes that follow their number, which they replace.
ReadCounted(c) ==
    IF ~c.ok THEN c
    ELSE ReadBytes(Holding(c, SubSeq(c.got, 1, Len(c.got) - 1)), LastGot(c))

ReadField(c, kind) ==
    CASE ~c.ok                    -> c
      [] c.ok /\ kind = "var"     -> decodeVarInt(c)
      [] c.ok /\ kind = "uint64"  -> ReadUint(c, 8)
      [] c.ok /\ kind = "block"   -> ReadCounted(decodeVarInt(c))
      [] c.ok /\ kind = "rest"    -> ReadBytes(c, Len(c.left))
      [] c.ok /\ kind = "id"      -> ReadCounted(ReadUint(c, 1))
      [] c.ok /\ kind = "token"   -> ReadBytes(c, 16)

\* One field after the other.
ReadFields(c, kinds) ==
    LET read[k \in 0 .. Len(kinds)] == IF k = 0 THEN c ELSE ReadField(read[k - 1], kinds[k])
    IN  read[Len(kinds)]
Vars(n) == [k \in 1 .. n |-> "var"]

\* The ranges of an ACK frame, from the largest number and the integers that follow the
\* number of ranges: a length, and gaps and lengths.
RangesFrom(largest, integers) ==
    LET last == (Len(integers) - 1) \div 2
        loop[k \in 0 .. last] ==
            LET top == IF k = 0 THEN largest ELSE loop[k - 1].smallest - integers[2 * k] - 2
                smallest == top - integers[2 * k + 1]
            IN  [smallest |-> smallest,
                 ranges |-> AddInterval(IF k = 0 THEN <<>> ELSE loop[k - 1].ranges, From(smallest, top))]
    IN  loop[last].ranges

ParseAck(c, id) ==
    LET head == ReadFields(c, Vars(4))
        all == ReadFields(head, Vars(2 * head.got[3]))
        counts == ReadFields(Holding(all, <<>>), Vars(IF id = 3 THEN 3 ELSE 0))
        ranges == RangesFrom(all.got[1], SubSeq(all.got, 4, Len(all.got)))
    IN  Holding(counts, <<all.got[2], ranges>> \o counts.got)

\* PADDING takes every zero, and looks at the byte after them: there has to be one.
ParsePadding(c) ==
    LET n == Len(SelectSeq(c.left, LAMBDA byte : byte # 0))
        zeros == IF n = 0 THEN Len(c.left)
                 ELSE (CHOOSE k \in DOMAIN c.left : c.left[k] # 0 /\ \A j \in 1 .. k - 1 : c.left[j] = 0) - 1
    IN  Got(Reading(Consume(c, zeros).left, c.got, n > 0), zeros)

\* Frame::Parse: the first byte decides, and the constructor reads it again.
Parse(bytes) ==
    LET id == bytes[1]
        c == decodeVarInt(Cursor(bytes))
        start == Holding(c, <<>>)
    IN  CASE id = 0             -> ParsePadding(Cursor(bytes))
          [] id \in {2, 3}      -> ParseAck(start, id)
          [] id \in (1 .. 30) \ {2, 3} -> ReadFields(start, Layout(id))
          [] id > 30            -> Reading(start.left, <<>>, FALSE)

\* The frames parsed so far, and one more: where its parsing ended.
WithFrame(s, c) ==
    [left |-> c.left, ok |-> c.ok,
     frames |-> Append(s.frames, [id |-> s.left[1], fields |-> c.got])]

\* The loop of Payload: it ends when no more than `stop` bytes are left, and every frame
\* takes one at least.
ParseFrames(bytes, stop) ==
    LET loop[k \in 0 .. Len(bytes)] ==
            IF k = 0 THEN [left |-> bytes, ok |-> TRUE, frames |-> <<>>]
            ELSE LET s == loop[k - 1]
                 IN  IF ~s.ok \/ Len(s.left) <= stop THEN s
                     ELSE WithFrame(s, Parse(s.left))
    IN  loop[Len(bytes)]

-----------------------------------------------------------------------------
(***************************************************************************)
(* Packets.  A ONE_RTT packet has a short header; the three packets of the *)
(* handshake have the header of an Initial packet, whose length field      *)
(* counts the packet number and not the payload.                           *)
(***************************************************************************)
LocalID == [k \in 1 .. 8 |-> 100 + k]
RemoteID == [k \in 1 .. 8 |-> 200 + k]
Version == 4

\* The number is written in as many bytes as a variable-length integer of its value has.
PktNumLen(type, pktNum) == IF type = "INITIAL" THEN 1 ELSE encodeVarIntLen(pktNum)

LenBits(p) == (PktNumLen(p.type, p.pktNum) - 1) % 4
Number(p) == encodeUInt(p.pktNum, LenBits(p) + 1)

ShortHeader(p) == <<64 + LenBits(p)>> \o RemoteID \o Number(p)

LongHeader(p) ==
    <<192 + LenBits(p)>> \o encodeUInt(Version, 4) \o Written("id", RemoteID) \o Written("id", LocalID)

Initial(p) ==
    LongHeader(p) \o Written("block", <<>>) \o encodeVarInt(encodeVarIntLen(p.pktNum)) \o Number(p)

EncodeHeader(p) == IF p.type = "ONE_RTT" THEN ShortHeader(p) ELSE Initial(p)

HeaderEncodeLen(p) ==
    LET number == LenBits(p) + 1
    IN  IF p.type = "ONE_RTT" THEN 1 + Len(RemoteID) + number
        ELSE 5 + Length("id", RemoteID) + Length("id", LocalID) + encodeVarIntLen(0)
             + encodeVarIntLen(encodeVarIntLen(p.pktNum)) + number

PacketEncodeLen(p) == HeaderEncodeLen(p) + Total([k \in DOMAIN p.frames |-> FrameEncodeLen(p.frames[k])])
PacketBytes(p) == EncodeHeader(p) \o FlattenSeq([k \in DOMAIN p.frames |-> EncodeFrame(p.frames[k])])

\* The buffer has the length that was announced, and is cleared.
Buffer(p) ==
    LET bytes == PacketBytes(p)
    IN  bytes \o Zeros(PacketEncodeLen(p) - Len(bytes))

\* Header::Parse, up to and with the packet number.
ParseHeader(bytes) ==
    LET start == Consume(Cursor(bytes), 1)
        fields == IF bytes[1] < 128 THEN ReadBytes(start, 8)
                  ELSE ReadFields(ReadUint(start, 4), <<"id", "id", "block", "var">>)
    IN  ReadUint(fields, (bytes[1] % 4) + 1)

ParsePacket(bytes) ==
    LET isShort == bytes[1] < 128
        h == ParseHeader(bytes)
        stop == IF isShort THEN 0 ELSE Len(h.left) - (h.got[5] - ((bytes[1] % 4) + 1))
        body == ParseFrames(h.left, stop)
    IN  [type |-> IF isShort THEN "ONE_RTT" ELSE "INITIAL",
         dst |-> IF isShort THEN h.got[1] ELSE h.got[2],
         pktNum |-> LastGot(h), ok |-> h.ok /\ body.ok, frames |-> body.frames]

-----------------------------------------------------------------------------
(* An end that makes packets and one that parses them.                     *)

NoPacket == [type |-> "none"]

WireInit ==
    /\ IntervalInit
    /\ payload = <<>>
    /\ datagram = NoPacket
    /\ received = NoPacket

\* A frame that is read up to the end of the packet, or that is not read as itself, comes last.
ReadsOn(f) == f.id \in {0, 18, 19, 22, 23} \/ (f.id \in StreamIDs /\ ~Bit(f.id, 2))

AttachFrame(f) ==
    /\ datagram = NoPacket /\ received = NoPacket
    /\ Len(payload) < MaxFrames
    /\ \A k \in DOMAIN payload : ~ReadsOn(payload[k])
    /\ payload' = Append(payload, f)
    /\ UNCHANGED <<intervals, numbers, datagram, received>>

\* The handshake takes the first numbers of a connection.
SendPacket(type, pktNum) ==
    LET p == [type |-> type, pktNum |-> pktNum, frames |-> payload]
    IN  /\ payload # <<>>
        /\ type = "INITIAL" => pktNum < 63
        /\ datagram' = [packet |-> p, bytes |-> Buffer(p)]
        /\ payload' = <<>>
        /\ UNCHANGED <<intervals, numbers, received>>

\* A packet that is longer than it announced never leaves: writing it fails an assertion.
ReceivePacket ==
    /\ datagram # NoPacket
    /\ Len(PacketBytes(datagram.packet)) <= PacketEncodeLen(datagram.packet)
    /\ received' = [sent |-> datagram.packet, parsed |-> ParsePacket(datagram.bytes)]
    /\ datagram' = NoPacket
    /\ UNCHANGED <<intervals, numbers, payload>>

\* The packet has been handled.
FinishPacket ==
    /\ received # NoPacket
    /\ received' = NoPacket
    /\ UNCHANGED <<intervals, numbers, payload, datagram>>

WireNext ==
    \/ payload = <<>> /\ datagram = NoPacket /\ received = NoPacket
       /\ IntervalNext /\ UNCHANGED packetVars
    \/ \E f \in Frames : AttachFrame(f)
    \/ \E delay \in Delays : intervals # <<>> /\ AttachFrame(AckFrame(delay, intervals))
    \/ \E type \in {"ONE_RTT", "INITIAL"}, pktNum \in PktNums : SendPacket(type, pktNum)
    \/ ReceivePacket
    \/ FinishPacket

WireSpec == WireInit /\ [][WireNext]_wireVars

-----------------------------------------------------------------------------
(* Properties.                                                             *)

SameFrames(fs, gs) ==
    /\ Len(fs) = Len(gs)
    /\ \A k \in DOMAIN fs : fs[k].id = gs[k].id /\ fs[k].fields = gs[k].fields

\* MAX_STREAMS and STREAMS_BLOCKED are written with another frame's ID, PADDING is not
\* read at the end of a packet, and CRYPTO announces another length: the program sends
\* MAX_STREAMS only, and its peer does not survive it.
Intact(p) == \A k \in DOMAIN p.frames : p.frames[k].id \notin {0, 6, 18, 19, 22, 23}

\* What is parsed is what was sent: the frames of a ONE_RTT packet with every field, the
\* ranges of its ACK frames above all, and the header of any packet; of the frames in
\* an Initial packet nothing is read (packet.hh:323, packet.hh:360).
PacketRoundTrip ==
    received # NoPacket =>
        LET p == received.sent
            q == received.parsed
        IN  /\ q.type = p.type /\ q.dst = RemoteID
            /\ p.type = "ONE_RTT" => q.pktNum = p.pktNum
            /\ p.type = "ONE_RTT" /\ Intact(p) => q.ok /\ SameFrames(p.frames, q.frames)
            /\ p.type = "INITIAL" => q.ok /\ q.frames = <<>>

\* The buffer of a packet is filled to its last byte: what EncodeLen announces is what
\* Encode writes, at every size of every integer in it.
LengthsAgree ==
    datagram # NoPacket /\ Intact(datagram.packet) =>
        PacketEncodeLen(datagram.packet) = Len(PacketBytes(datagram.packet))
=============================================================================
