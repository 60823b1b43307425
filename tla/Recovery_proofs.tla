--------------------------- MODULE Recovery_proofs ---------------------------
(***************************************************************************)
(* Proofs about Recovery, for all lengths, windows, timers and bounds.     *)
(***************************************************************************)
EXTENDS Recovery, SequenceTheorems, SumTheorems, TLAPS

\* An entry for one of the first m packets.
EntryUpTo(m) == [pktNum : 1 .. m, age : 0 .. Oldest, left : Int]

\* The strengthening that makes the type invariant inductive: what is queued or waits has
\* a number given out, so a length.
RecoveryInv ==
    /\ RecoveryTypeOK
    /\ Len(packets) <= MaxPktNum
    /\ pendingPackets \in Seq(1 .. Len(packets))
    /\ notACKedSentPkt \in Seq(EntryUpTo(Len(packets)))
    /\ copies \subseteq EntryUpTo(Len(packets))

-----------------------------------------------------------------------------
(* Sequences.                                                              *)

LEMMA WiderSeq ==
    ASSUME NEW S, NEW T, S \subseteq T, NEW s \in Seq(S)
    PROVE  s \in Seq(T)
OBVIOUS

LEMMA MappedSeq ==
    ASSUME NEW S, NEW T, NEW s \in Seq(S), NEW t,
           t = [k \in DOMAIN s |-> t[k]], \A k \in DOMAIN s : t[k] \in T
    PROVE  t \in Seq(T)
<1>1. DOMAIN s = 1 .. Len(s) /\ Len(s) \in Nat
  OBVIOUS
<1>2. t \in [1 .. Len(s) -> T]
  BY <1>1
<1> QED
  BY <1>1, <1>2

LEMMA MembersOfSeq ==
    ASSUME NEW S, NEW s \in Seq(S)
    PROVE  Range(s) \subseteq S
BY DEF Range

LEMMA WithoutOne ==
    ASSUME NEW S, NEW s \in Seq(S), NEW k \in DOMAIN s
    PROVE  SubSeq(s, 1, k - 1) \o SubSeq(s, k + 1, Len(s)) \in Seq(S)
<1>1. k \in 1 .. Len(s) /\ Len(s) \in Nat
  OBVIOUS
<1>2. SubSeq(s, 1, k - 1) \in Seq(S)
  BY <1>1, SubSeqProperties
<1>3. SubSeq(s, k + 1, Len(s)) \in Seq(S)
  BY <1>1, SubSeqProperties
<1> QED
  BY <1>2, <1>3, ConcatProperties

\* The packets that have a number have a length.
LEMMA LengthTyped ==
    ASSUME RecoveryTypeOK, NEW n \in 1 .. Len(packets)
    PROVE  /\ packets[n].len \in Nat
           /\ 1 <= packets[n].len /\ packets[n].len <= MAX_PACKET_LENGTH
<1>1. packets[n] \in PacketType
  BY DEF RecoveryTypeOK
<1>2. packets[n].len \in 1 .. MAX_PACKET_LENGTH
  BY <1>1, LengthAssumption DEF PacketType
<1> QED
  BY <1>2, LengthAssumption

-----------------------------------------------------------------------------
(* The window.                                                             *)

\* In congestion avoidance the window exceeds every packet.
LEMMA AvoidanceAddsNothing ==
    ASSUME RecoveryTypeOK, WindowIsBounded, NEW n \in 1 .. Len(packets),
           congestionState # "SLOW_START"
    PROVE  MAX_PACKET_LENGTH * (packets[n].len \div congestionWindow) = 0
<1> DEFINE len == packets[n].len
<1>1. /\ len \in Nat /\ 1 <= len /\ len <= MAX_PACKET_LENGTH
      /\ congestionWindow \in Nat /\ Threshold \in Nat
      /\ MAX_PACKET_LENGTH \in Nat /\ MAX_PACKET_LENGTH <= Threshold
  BY LengthTyped, LengthAssumption DEF RecoveryTypeOK
<1> HIDE DEF len
<1>2. len < congestionWindow
  BY <1>1 DEF WindowIsBounded, RecoveryTypeOK
<1>3. len \div congestionWindow = 0
  BY <1>1, <1>2
<1> QED
  BY <1>1, <1>3 DEF len

\* A packet that lands keeps the window within its bound: in congestion avoidance the
\* quotient is 0.
LEMMA LandedKeepsBound ==
    ASSUME RecoveryTypeOK, WindowIsBounded, NEW n \in 1 .. Len(packets), Landed(n)
    PROVE  /\ congestionWindow' \in Nat /\ onFlight' \in Nat
           /\ congestionState' \in {"SLOW_START", "CONGESTION_AVOIDANCE"}
           /\ WindowIsBounded'
<1> DEFINE len == packets[n].len
<1>1. len \in Nat /\ 1 <= len /\ len <= MAX_PACKET_LENGTH
  BY LengthTyped
<1>2. congestionWindow \in Nat /\ onFlight \in Nat /\ Threshold \in Nat
      /\ MAX_PACKET_LENGTH \in Nat /\ MAX_PACKET_LENGTH <= Threshold
  BY LengthAssumption DEF RecoveryTypeOK
<1> HIDE DEF len
<1>3. CASE ~established
  BY <1>3, <1>2 DEF Landed, len, windowVars, WindowIsBounded, RecoveryTypeOK
<1>4. CASE established /\ congestionState = "SLOW_START"
  <2>1. /\ onFlight' = IF onFlight > len THEN onFlight - len ELSE 0
        /\ congestionWindow' = congestionWindow + len
        /\ congestionState' = IF congestionWindow' > Threshold THEN "CONGESTION_AVOIDANCE"
                              ELSE "SLOW_START"
    BY <1>4 DEF Landed, len, UpdateCongestionWindowByACK
  <2>2. congestionWindow <= Threshold
    BY <1>2, <1>4 DEF WindowIsBounded
  <2> QED
    BY <1>1, <1>2, <2>1, <2>2 DEF WindowIsBounded
<1>5. CASE established /\ congestionState # "SLOW_START"
  <2>1. /\ onFlight' = IF onFlight > len THEN onFlight - len ELSE 0
        /\ congestionWindow' = congestionWindow + MAX_PACKET_LENGTH * (len \div congestionWindow)
        /\ congestionState' = congestionState
    BY <1>5 DEF Landed, len, UpdateCongestionWindowByACK
  <2>2. MAX_PACKET_LENGTH * (len \div congestionWindow) = 0
    BY <1>5, AvoidanceAddsNothing DEF len
  <2>3. congestionWindow' = congestionWindow
    BY <1>2, <2>1, <2>2
  <2> QED
    BY <1>1, <1>2, <1>5, <2>1, <2>3 DEF WindowIsBounded, RecoveryTypeOK
<1> QED
  BY <1>3, <1>4, <1>5

\* Where onFlight stops counting, it exceeds all the packets there are.
LEMMA LoadTyped ==
    ASSUME onFlight \in Nat, NEW length \in Nat
    PROVE  /\ OnFlightWith(length) \in Nat
           /\ OnFlightWith(length) \in {MaxOnFlight, onFlight + length}
           /\ MAX_PACKET_LENGTH * MaxPktNum \in Nat
           /\ MaxOnFlight \in Nat /\ MAX_PACKET_LENGTH * MaxPktNum <= MaxOnFlight
<1>1. /\ MAX_PACKET_LENGTH \in Nat /\ MaxPktNum \in Nat /\ Threshold \in Nat
      /\ MAX_PACKET_LENGTH * MaxPktNum \in Nat
  BY LengthAssumption, BoundAssumption
<1>2. MAX_PACKET_LENGTH * (MaxPktNum + 1) = MAX_PACKET_LENGTH * MaxPktNum + MAX_PACKET_LENGTH
  BY <1>1
<1>3. MaxOnFlight \in Nat /\ MAX_PACKET_LENGTH * MaxPktNum <= MaxOnFlight
  BY <1>1, <1>2 DEF MaxOnFlight
<1> QED
  BY <1>1, <1>3 DEF OnFlightWith

-----------------------------------------------------------------------------
(* Types.                                                                  *)

\* What is typed by the numbers given out is typed by all numbers.
LEMMA NumbersGivenOut ==
    ASSUME NEW m \in Nat, m <= MaxPktNum
    PROVE  /\ Seq(1 .. m) \subseteq Seq(PktNum)
           /\ EntryUpTo(m) \subseteq EntryType
           /\ Seq(EntryUpTo(m)) \subseteq Seq(EntryType)
<1>1. 1 .. m \subseteq PktNum
  BY BoundAssumption DEF PktNum
<1>2. EntryUpTo(m) \subseteq EntryType
  BY <1>1 DEF EntryUpTo, EntryType
<1> QED
  BY <1>1, <1>2, WiderSeq

\* A new number leaves the others typed.
LEMMA OneNumberMore ==
    ASSUME NEW m \in Nat
    PROVE  /\ Seq(1 .. m) \subseteq Seq(1 .. m + 1)
           /\ EntryUpTo(m) \subseteq EntryUpTo(m + 1)
           /\ Seq(EntryUpTo(m)) \subseteq Seq(EntryUpTo(m + 1))
<1>1. 1 .. m \subseteq 1 .. m + 1
  OBVIOUS
<1>2. EntryUpTo(m) \subseteq EntryUpTo(m + 1)
  BY <1>1 DEF EntryUpTo
<1> QED
  BY <1>1, <1>2, WiderSeq

\* A tick and an ACK keep the numbers of the entries.
LEMMA EntriesTyped ==
    ASSUME NEW m \in Nat, NEW e \in EntryUpTo(m), quarter \in {1, 3}
    PROVE  /\ Aged(e) \in EntryUpTo(m)
           /\ Refreshed(e) \in EntryUpTo(m)
<1>1. e.age \in 0 .. Oldest /\ e.left \in Int /\ e.pktNum \in 1 .. m
  BY DEF EntryUpTo
<1>2. Older(e.age) \in 0 .. Oldest /\ Nearer(e.left) \in Int /\ 0 \in 0 .. Oldest
  BY <1>1 DEF Older, Nearer, Oldest
<1> QED
  BY <1>1, <1>2 DEF Aged, Refreshed, EntryUpTo

LEMMA NewEntryTyped ==
    ASSUME NEW m \in Nat, NEW n \in 1 .. m, quarter \in {1, 3}
    PROVE  Entry(n) \in EntryUpTo(m)
BY ClockAssumption DEF Entry, EntryUpTo, Oldest

\* Numbering a packet, at the back of the queue or at its front, keeps everything typed.
LEMMA NewPacketTyped ==
    ASSUME RecoveryInv, NEW pkt \in PacketType, NewPktNum <= MaxPktNum,
           packets' = Append(packets, pkt),
           \/ pendingPackets' = Append(pendingPackets, NewPktNum)
           \/ pendingPackets' = <<NewPktNum>> \o pendingPackets,
           UNCHANGED timerVars
    PROVE  /\ packets' \in Seq(PacketType)
           /\ Len(packets') <= MaxPktNum
           /\ pendingPackets' \in Seq(PktNum)
           /\ pendingPackets' \in Seq(1 .. Len(packets'))
           /\ notACKedSentPkt' \in Seq(EntryUpTo(Len(packets')))
           /\ copies' \subseteq EntryUpTo(Len(packets'))
<1> DEFINE m == Len(packets)
<1>1. m \in Nat /\ packets \in Seq(PacketType) /\ NewPktNum = m + 1
  BY DEF RecoveryInv, RecoveryTypeOK, NewPktNum
<1>2. packets' \in Seq(PacketType) /\ Len(packets') = m + 1
  BY <1>1
<1> HIDE DEF m
<1>3. pendingPackets \in Seq(1 .. m + 1) /\ m + 1 \in 1 .. m + 1
  BY <1>1, OneNumberMore DEF RecoveryInv, m
<1>4. pendingPackets' \in Seq(1 .. m + 1)
  <2>1. <<NewPktNum>> \in Seq(1 .. m + 1)
    BY <1>1, <1>3
  <2>2. <<NewPktNum>> \o pendingPackets \in Seq(1 .. m + 1)
    BY <1>3, <2>1, ConcatProperties
  <2>3. Append(pendingPackets, NewPktNum) \in Seq(1 .. m + 1)
    BY <1>1, <1>3
  <2> QED
    BY <2>2, <2>3
<1>5. notACKedSentPkt' \in Seq(EntryUpTo(m + 1)) /\ copies' \subseteq EntryUpTo(m + 1)
  BY <1>1, OneNumberMore DEF RecoveryInv, m, timerVars
<1>6. pendingPackets' \in Seq(PktNum)
  BY <1>1, <1>4, NumbersGivenOut
<1> QED
  BY <1>1, <1>2, <1>4, <1>5, <1>6

\* Sending keeps the timers typed.
LEMMA StartTimerTyped ==
    ASSUME RecoveryInv, NEW n \in 1 .. Len(packets), StartTimer(n) \/ UNCHANGED timerVars
    PROVE  /\ notACKedSentPkt' \in Seq(EntryUpTo(Len(packets)))
           /\ copies' \subseteq EntryUpTo(Len(packets))
<1>1. Len(packets) \in Nat
  BY DEF RecoveryInv, RecoveryTypeOK
<1>2. Entry(n) \in EntryUpTo(Len(packets))
  BY <1>1, NewEntryTyped DEF RecoveryInv, RecoveryTypeOK
<1>3. /\ notACKedSentPkt \in Seq(EntryUpTo(Len(packets)))
      /\ copies \subseteq EntryUpTo(Len(packets))
  BY DEF RecoveryInv
<1>4. Append(notACKedSentPkt, Entry(n)) \in Seq(EntryUpTo(Len(packets)))
  BY <1>2, <1>3, AppendProperties
<1>5. copies \cup {Entry(n)} \subseteq EntryUpTo(Len(packets))
  BY <1>2, <1>3
<1> HIDE DEF RecoveryInv
<1>6. \/ notACKedSentPkt' = Append(notACKedSentPkt, Entry(n)) /\ copies' = copies
      \/ notACKedSentPkt' = notACKedSentPkt /\ copies' \in {copies, copies \cup {Entry(n)}}
  BY DEF StartTimer, timerVars
<1> QED
  BY <1>3, <1>4, <1>5, <1>6

LEMMA InitialInv == Init => RecoveryInv /\ WindowIsBounded
<1> SUFFICES ASSUME Init PROVE RecoveryInv /\ WindowIsBounded
  OBVIOUS
<1>1. packets = <<>> /\ pendingPackets = <<>> /\ notACKedSentPkt = <<>> /\ copies = {}
  BY DEF Init
<1>2. /\ packets \in Seq(PacketType) /\ pendingPackets \in Seq(PktNum)
      /\ pendingPackets \in Seq(1 .. Len(packets)) /\ Len(packets) = 0
      /\ notACKedSentPkt \in Seq(EntryType)
      /\ notACKedSentPkt \in Seq(EntryUpTo(Len(packets)))
  BY <1>1
<1>3. 0 <= MaxPktNum /\ 0 \in 0 .. BeyondWindow
  BY BoundAssumption, BeyondWindowAssumption
<1>4. RecoveryTypeOK
  BY <1>1, <1>2, <1>3 DEF Init, RecoveryTypeOK
<1>5. WindowIsBounded
  BY LengthAssumption DEF Init, WindowIsBounded
<1> QED
  BY <1>1, <1>2, <1>3, <1>4, <1>5 DEF RecoveryInv

LEMMA StepKeepsInv ==
    ASSUME RecoveryInv, WindowIsBounded, [Next]_vars
    PROVE  RecoveryInv' /\ WindowIsBounded'
<1> DEFINE m == Len(packets)
<1> USE DEF timerVars, windowVars, passVars
<1>1. /\ m \in Nat /\ m <= MaxPktNum /\ packets \in Seq(PacketType)
      /\ pendingPackets \in Seq(1 .. m)
      /\ notACKedSentPkt \in Seq(EntryUpTo(m)) /\ copies \subseteq EntryUpTo(m)
      /\ quarter \in {1, 3}
  BY DEF RecoveryInv, RecoveryTypeOK
<1>2. /\ Seq(1 .. m) \subseteq Seq(PktNum)
      /\ EntryUpTo(m) \subseteq EntryType
      /\ Seq(EntryUpTo(m)) \subseteq Seq(EntryType)
  BY <1>1, NumbersGivenOut
<1>3. Waiting \subseteq 1 .. m /\ 1 .. m \subseteq PktNum
  <2>1. Range(notACKedSentPkt) \subseteq EntryUpTo(m)
    BY <1>1, MembersOfSeq
  <2> QED
    BY <1>1, <2>1, BoundAssumption DEF Waiting, Numbers, EntryUpTo, PktNum
<1> HIDE DEF m
<1>4. m = Len(packets)
  BY DEF m
<1>5. CASE Establish
  BY <1>5, LengthAssumption DEF Establish, RecoveryInv, RecoveryTypeOK, WindowIsBounded
<1>6. CASE Tick
  <2>1. notACKedSentPkt' \in Seq(EntryUpTo(m))
    <3> DEFINE new == [k \in DOMAIN notACKedSentPkt |-> Aged(notACKedSentPkt[k])]
    <3>1. new = [k \in DOMAIN notACKedSentPkt |-> new[k]]
      OBVIOUS
    <3>2. \A k \in DOMAIN notACKedSentPkt : new[k] \in EntryUpTo(m)
      BY <1>1, EntriesTyped
    <3>3. notACKedSentPkt' = new
      BY <1>6 DEF Tick
    <3> HIDE DEF new
    <3> QED
      BY <1>1, <3>1, <3>2, <3>3, MappedSeq
  <2>2. copies' \subseteq EntryUpTo(m)
    BY <1>1, <1>6, EntriesTyped DEF Tick
  <2>3. quarter' \in {1, 3}
    BY <1>1, <1>6 DEF Tick
  <2> QED
    BY <1>1, <1>2, <1>4, <1>6, <2>1, <2>2, <2>3
       DEF Tick, RecoveryInv, RecoveryTypeOK, WindowIsBounded
<1>7. CASE Wake
  BY <1>7 DEF Wake, RecoveryInv, RecoveryTypeOK, WindowIsBounded
<1>8. ASSUME NEW kind \in Kinds, NEW length \in Lengths, QueuePacket(kind, length)
      PROVE  RecoveryInv' /\ WindowIsBounded'
  <2>1. Sendable(kind, length) \in PacketType
    BY DEF Sendable, PacketType
  <2>2. /\ packets' \in Seq(PacketType)
        /\ Len(packets') <= MaxPktNum
        /\ pendingPackets' \in Seq(PktNum)
        /\ pendingPackets' \in Seq(1 .. Len(packets'))
        /\ notACKedSentPkt' \in Seq(EntryUpTo(Len(packets')))
        /\ copies' \subseteq EntryUpTo(Len(packets'))
    BY <1>8, <2>1, NewPacketTyped DEF QueuePacket
  <2> QED
    BY <1>8, <2>2 DEF QueuePacket, RecoveryInv, RecoveryTypeOK, WindowIsBounded
<1>9. ASSUME NEW acked \in SUBSET Waiting, ReceiveAck(acked)
      PROVE  RecoveryInv' /\ WindowIsBounded'
  BY <1>3, <1>9 DEF ReceiveAck, RecoveryInv, RecoveryTypeOK, WindowIsBounded
<1>10. CASE RemoveAcked
  <2>1. PICK k \in DOMAIN notACKedSentPkt : TakeAcked(k)
    BY <1>10 DEF RemoveAcked
  <2> DEFINE n == notACKedSentPkt[k].pktNum
  <2>2. n \in 1 .. m /\ Landed(n)
    <3>1. notACKedSentPkt[k] \in EntryUpTo(m)
      BY <1>1, <2>1
    <3>2. Landed(n)
      BY <2>1 DEF TakeAcked
    <3> QED
      BY <3>1, <3>2 DEF EntryUpTo
  <2>3. notACKedSentPkt' \in Seq(EntryUpTo(m)) /\ copies' \subseteq EntryUpTo(m)
    BY <1>1, <2>1, WithoutOne DEF TakeAcked
  <2> HIDE DEF n
  <2>4. /\ congestionWindow' \in Nat /\ onFlight' \in Nat
        /\ congestionState' \in {"SLOW_START", "CONGESTION_AVOIDANCE"}
        /\ WindowIsBounded'
    BY <1>4, <2>2, LandedKeepsBound DEF RecoveryInv
  <2> QED
    BY <1>1, <1>2, <1>4, <1>10, <2>3, <2>4 DEF RemoveAcked, RecoveryInv, RecoveryTypeOK
<1>11. CASE KeepUnacked
  <2>1. notACKedSentPkt' \in Seq(EntryUpTo(m))
    <3> DEFINE new == [k \in DOMAIN notACKedSentPkt |-> Refreshed(notACKedSentPkt[k])]
    <3>1. new = [k \in DOMAIN notACKedSentPkt |-> new[k]]
      OBVIOUS
    <3>2. \A k \in DOMAIN notACKedSentPkt : new[k] \in EntryUpTo(m)
      BY <1>1, EntriesTyped
    <3>3. notACKedSentPkt' = new
      BY <1>11 DEF KeepUnacked
    <3> HIDE DEF new
    <3> QED
      BY <1>1, <3>1, <3>2, <3>3, MappedSeq
  <2> QED
    BY <1>1, <1>2, <1>4, <1>11, <2>1
       DEF KeepUnacked, RecoveryInv, RecoveryTypeOK, WindowIsBounded
<1>12. ASSUME NEW others \in BOOLEAN, NEW idle \in BOOLEAN, NEW streams \in BOOLEAN,
              StartPass(others, idle, streams)
       PROVE  RecoveryInv' /\ WindowIsBounded'
  <2>1. expired' \in BOOLEAN /\ sentWhenCongested' \in 0 .. BeyondWindow
    BY <1>12, BeyondWindowAssumption DEF StartPass
  <2> phase' \in {"send", "ping"}
    BY <1>12 DEF StartPass, PutPingInFront
  <2>2. CASE UNCHANGED <<packets, pendingPackets>>
    BY <1>12, <2>1, <2>2 DEF StartPass, RecoveryInv, RecoveryTypeOK, WindowIsBounded
  <2>3. CASE /\ packets' = Append(packets, Sendable("ping", PingLength))
             /\ pendingPackets' = <<NewPktNum>> \o pendingPackets
             /\ NewPktNum <= MaxPktNum
    <3>1. Sendable("ping", PingLength) \in PacketType
      BY DEF Sendable, PacketType
    <3>2. UNCHANGED timerVars
      BY <1>12 DEF StartPass
    <3>3. /\ packets' \in Seq(PacketType)
          /\ Len(packets') <= MaxPktNum
          /\ pendingPackets' \in Seq(PktNum)
          /\ pendingPackets' \in Seq(1 .. Len(packets'))
          /\ notACKedSentPkt' \in Seq(EntryUpTo(Len(packets')))
          /\ copies' \subseteq EntryUpTo(Len(packets'))
      BY <2>3, <3>1, <3>2, NewPacketTyped
    <3> QED
      BY <1>12, <2>1, <3>3 DEF StartPass, RecoveryInv, RecoveryTypeOK, WindowIsBounded
  <2> QED
    BY <1>12, <2>2, <2>3 DEF StartPass, PutPingInFront
<1>13. CASE SkipAcked
  <2>1. pendingPackets' \in Seq(1 .. m)
    BY <1>1, <1>13 DEF SkipAcked
  <2> QED
    BY <1>1, <1>2, <1>4, <1>13, <2>1 DEF SkipAcked, RecoveryInv, RecoveryTypeOK, WindowIsBounded
<1>14. CASE SendFront
  <2> DEFINE n == Head(pendingPackets)
  <2>1. n \in 1 .. m /\ pendingPackets' \in Seq(1 .. m)
    BY <1>1, <1>14 DEF SendFront
  <2>2. StartTimer(n) \/ UNCHANGED timerVars
    BY <1>14 DEF SendFront
  <2>3. sentWhenCongested' \in 0 .. BeyondWindow
    BY <1>14, BeyondWindowAssumption DEF SendFront, HoldsBack, RecoveryInv, RecoveryTypeOK
  <2>4. UpdateOnFlightBySentPktLen(n)
    BY <1>14 DEF SendFront
  <2> HIDE DEF n
  <2>5. notACKedSentPkt' \in Seq(EntryUpTo(m)) /\ copies' \subseteq EntryUpTo(m)
    BY <1>4, <2>1, <2>2, StartTimerTyped
  <2>6. packets[n].len \in Nat
    BY <1>4, <2>1, LengthTyped DEF RecoveryInv
  <2>7. OnFlightWith(packets[n].len) \in Nat
    BY <2>6, LoadTyped DEF RecoveryInv, RecoveryTypeOK
  <2>8. onFlight' \in Nat /\ counted' \in SUBSET PktNum
    BY <1>3, <2>1, <2>4, <2>7 DEF UpdateOnFlightBySentPktLen, RecoveryInv, RecoveryTypeOK
  <2> QED
    BY <1>1, <1>2, <1>4, <1>14, <2>1, <2>3, <2>5, <2>8
       DEF SendFront, RecoveryInv, RecoveryTypeOK, WindowIsBounded
<1>15. CASE LeaveLoop
  BY <1>15 DEF LeaveLoop, RecoveryInv, RecoveryTypeOK, WindowIsBounded
<1>16. CASE Retransmit
  <2> DEFINE due == Numbers({e \in Entries : Due(e)}) \ Range(pendingPackets)
  <2>1. due \subseteq 1 .. m
    <3>1. Entries \subseteq EntryUpTo(m)
      BY <1>1, MembersOfSeq DEF Entries
    <3> QED
      BY <3>1 DEF Numbers, EntryUpTo
  <2> HIDE DEF due
  <2>2. PICK size \in 0 .. MaxPktNum : \E order \in Orders(due, size) :
            pendingPackets' = pendingPackets \o order
    BY <1>16 DEF Retransmit, due
  <2>3. PICK order \in Orders(due, size) : pendingPackets' = pendingPackets \o order
    BY <2>2
  <2>4. order \in Seq(1 .. m)
    <3>1. size \in Nat
      BY BoundAssumption
    <3>2. order \in [1 .. size -> due]
      BY <2>3 DEF Orders, Bijection, Injection
    <3>3. order \in [1 .. size -> 1 .. m]
      BY <2>1, <3>2
    <3> QED
      BY <3>1, <3>3, SeqDef, Zenon
  <2>5. pendingPackets' \in Seq(1 .. m)
    BY <1>1, <2>3, <2>4, ConcatProperties
  <2>6. sentWhenCongested' = 0 /\ expired' = FALSE /\ 0 \in 0 .. BeyondWindow
    BY <1>16, BeyondWindowAssumption DEF Retransmit, ForgetPass
  <2> QED
    BY <1>1, <1>2, <1>4, <1>16, <2>5, <2>6
       DEF Retransmit, RecoveryInv, RecoveryTypeOK, WindowIsBounded
<1>17. CASE SendPing
  <2>1. PingLength \in Nat
    BY LengthAssumption
  <2>2. onFlight' \in Nat
    BY <1>17, <2>1, LoadTyped DEF SendPing, RecoveryInv, RecoveryTypeOK
  <2>3. sentWhenCongested' \in 0 .. BeyondWindow
    BY <1>17, BeyondWindowAssumption DEF SendPing
  <2> QED
    BY <1>17, <2>2, <2>3 DEF SendPing, RecoveryInv, RecoveryTypeOK, WindowIsBounded
<1>18. CASE UNCHANGED vars
  BY <1>18 DEF vars, RecoveryInv, RecoveryTypeOK, WindowIsBounded
<1> QED
  BY <1>5, <1>6, <1>7, <1>8, <1>9, <1>10, <1>11, <1>12, <1>13, <1>14, <1>15, <1>16, <1>17, <1>18
     DEF Next, AnyPass, PassStep

-----------------------------------------------------------------------------
\* Every state is well typed: what is queued or waits for its ACK is a packet that has a
\* length, and onFlight, which shrinks more often than it grew, never passes below 0.
THEOREM RecoveryTypeCorrect == Spec => []RecoveryTypeOK
<1>1. RecoveryInv => RecoveryTypeOK
  BY DEF RecoveryInv
<1> QED
  BY <1>1, InitialInv, StepKeepsInv, PTL DEF Spec

\* For every choice of lengths up to MAX_PACKET_LENGTH, window and threshold, the window
\* stops growing with the packet that passes the threshold (connection.hh:887-897).
THEOREM WindowStopsGrowing == Spec => []WindowIsBounded
BY InitialInv, StepKeepsInv, PTL DEF Spec

-----------------------------------------------------------------------------
(* What the window was opened for, and what it takes for in flight.        *)

\* The packets acknowledged: those of earlier ACKs, and those of the ACK at hand that
\* remNeedACKPkt has come to.
LandedPackets == ackedSentPktNum \cup (acking \ Waiting)

\* The bytes of some packets of a list.
Total(pkts, numbers) == SumFunctionOnSet([n \in DOMAIN pkts |-> pkts[n].len], numbers)

\* The strengthening that makes WindowIsEarned and InFlightIsCounted inductive.  The lists
\* hold a packet once or, once it landed, not at all, so it lands once; and what the
\* window has opened for is what has landed, not all that the ACK at hand names.
AckInv ==
    /\ ackedSentPktNum \cup acking \cup counted \subseteq DOMAIN packets
    /\ \A j, k \in DOMAIN notACKedSentPkt :
           notACKedSentPkt[j].pktNum = notACKedSentPkt[k].pktNum => j = k
    /\ ackedSentPktNum \cap Waiting = {}
    /\ phase # "ack" => acking = {}

FlightInv ==
    /\ ~established => counted = {}
    /\ established => congestionWindow <= InitialWindow + SumOfLengths(LandedPackets)
    /\ InFlightIsCounted

LEMMA LengthsTyped ==
    ASSUME NEW pkts \in Seq(PacketType)
    PROVE  /\ IsFiniteSet(DOMAIN pkts) /\ DOMAIN pkts = 1 .. Len(pkts)
           /\ [n \in DOMAIN pkts |-> pkts[n].len] \in [DOMAIN pkts -> 0 .. MAX_PACKET_LENGTH]
           /\ [n \in DOMAIN pkts |-> pkts[n].len] \in [DOMAIN pkts -> Int]
           /\ MAX_PACKET_LENGTH \in Nat
<1>1. DOMAIN pkts = 1 .. Len(pkts) /\ Len(pkts) \in Nat
  OBVIOUS
<1>2. 1 \in Int /\ Len(pkts) \in Int
  BY <1>1
<1>3. IsFiniteSet(1 .. Len(pkts))
  BY <1>2, FS_Interval
<1>4. \A n \in DOMAIN pkts : pkts[n] \in PacketType
  BY <1>1
<1>5. \A n \in DOMAIN pkts : pkts[n].len \in 0 .. MAX_PACKET_LENGTH
  BY <1>4, LengthAssumption DEF PacketType
<1> QED
  BY <1>1, <1>3, <1>5, LengthAssumption

\* What the sums of lengths add up to.
LEMMA Totals ==
    ASSUME RecoveryInv, NEW U \in SUBSET DOMAIN packets
    PROVE  /\ Total(packets, U) \in Nat
           /\ Total(packets, U) <= MAX_PACKET_LENGTH * MaxPktNum
           /\ \A T \in SUBSET U : Total(packets, T) <= Total(packets, U)
           /\ \A n \in DOMAIN packets \ U :
                  Total(packets, U \cup {n}) = Total(packets, U) + packets[n].len
<1> DEFINE f == [n \in DOMAIN packets |-> packets[n].len]
<1>1. /\ IsFiniteSet(DOMAIN packets) /\ DOMAIN packets = 1 .. Len(packets)
      /\ f \in [DOMAIN packets -> 0 .. MAX_PACKET_LENGTH] /\ f \in [DOMAIN packets -> Int]
      /\ MAX_PACKET_LENGTH \in Nat
  BY LengthsTyped DEF RecoveryInv, RecoveryTypeOK
<1>2. \A T : Total(packets, T) = SumFunctionOnSet(f, T)
  BY DEF Total
<1>3. \A n \in DOMAIN packets : f[n] = packets[n].len
  OBVIOUS
<1> HIDE DEF f
<1>4. /\ SumFunctionOnSet(f, U) \in Nat
      /\ \A T \in SUBSET U : SumFunctionOnSet(f, T) <= SumFunctionOnSet(f, U)
      /\ SumFunctionOnSet(f, U) <= MAX_PACKET_LENGTH * Cardinality(U)
  BY <1>1, SumBounds
<1>5. MAX_PACKET_LENGTH * Cardinality(U) <= MAX_PACKET_LENGTH * MaxPktNum
  <2>1. Len(packets) \in Nat /\ Len(packets) <= MaxPktNum /\ MaxPktNum \in Nat
    BY BoundAssumption DEF RecoveryInv, RecoveryTypeOK
  <2>2. 1 \in Int /\ Len(packets) \in Int
    BY <2>1
  <2>3. Cardinality(1 .. Len(packets)) = Len(packets)
    <3>1. Cardinality(1 .. Len(packets)) =
              IF 1 > Len(packets) THEN 0 ELSE Len(packets) - 1 + 1
      BY <2>2, FS_Interval
    <3>2. (IF 1 > Len(packets) THEN 0 ELSE Len(packets) - 1 + 1) = Len(packets)
      BY <2>1
    <3> QED
      BY <3>1, <3>2
  <2>4. Cardinality(U) <= Cardinality(DOMAIN packets) /\ IsFiniteSet(U)
    BY <1>1, FS_Subset
  <2>5. PICK c \in Nat : c = Cardinality(U)
    BY <2>4, FS_CardinalityType
  <2>6. c <= MaxPktNum
    BY <1>1, <2>1, <2>3, <2>4, <2>5
  <2>7. \A a, b, d \in Nat : b <= d => a * b <= a * d
    OBVIOUS
  <2> QED
    BY <1>1, <2>1, <2>5, <2>6, <2>7
<1>6. ASSUME NEW n \in DOMAIN packets \ U
      PROVE  SumFunctionOnSet(f, U \cup {n}) = SumFunctionOnSet(f, U) + f[n]
  BY <1>1, SumAdd
<1>7. Cardinality(U) \in Nat
  BY <1>1, FS_Subset, FS_CardinalityType
<1>8. SumFunctionOnSet(f, U) <= MAX_PACKET_LENGTH * MaxPktNum
  <2>1. /\ MAX_PACKET_LENGTH * Cardinality(U) \in Int
        /\ MAX_PACKET_LENGTH * MaxPktNum \in Int
    BY <1>1, <1>7, BoundAssumption
  <2> QED
    BY <1>4, <1>5, <2>1
<1> QED
  BY <1>2, <1>3, <1>4, <1>6, <1>8

LEMMA NothingTotal ==
    ASSUME RecoveryInv
    PROVE  Total(packets, {}) = 0
<1>1. IsFiniteSet(DOMAIN packets)
      /\ [m \in DOMAIN packets |-> packets[m].len] \in [DOMAIN packets -> Int]
  BY LengthsTyped DEF RecoveryInv, RecoveryTypeOK
<1> QED
  BY <1>1, SumRecursion DEF Total

\* A packet numbered later has no part in them.
LEMMA TotalsStay ==
    ASSUME RecoveryInv, RecoveryInv',
           packets' = packets \/ \E pkt \in PacketType : packets' = Append(packets, pkt)
    PROVE  /\ DOMAIN packets \subseteq DOMAIN packets'
           /\ \A T \in SUBSET DOMAIN packets : Total(packets', T) = Total(packets, T)
<1> DEFINE f == [n \in DOMAIN packets |-> packets[n].len]
           g == [n \in DOMAIN packets' |-> packets'[n].len]
<1> packets \in Seq(PacketType) /\ packets' \in Seq(PacketType)
  BY DEF RecoveryInv, RecoveryTypeOK
<1>1. /\ DOMAIN packets \subseteq DOMAIN packets'
      /\ \A n \in DOMAIN packets : packets'[n] = packets[n]
  <2>1. ASSUME NEW pkt \in PacketType, packets' = Append(packets, pkt)
        PROVE  /\ DOMAIN packets \subseteq DOMAIN packets'
               /\ \A n \in DOMAIN packets : packets'[n] = packets[n]
    BY <2>1
  <2> QED
    BY <2>1
<1>2. \A n \in DOMAIN packets : f[n] = g[n]
  BY <1>1
<1>3. \A T : Total(packets, T) = SumFunctionOnSet(f, T)
             /\ Total(packets', T) = SumFunctionOnSet(g, T)
  BY DEF Total
<1> HIDE DEF f, g
<1>4. ASSUME NEW T \in SUBSET DOMAIN packets
      PROVE  SumFunctionOnSet(f, T) = SumFunctionOnSet(g, T)
  <2>1. \A x \in T : f[x] = g[x]
    BY <1>2
  <2> QED
    BY <2>1, SumSame
<1> QED
  BY <1>1, <1>3, <1>4

LEMMA WaitingTyped ==
    ASSUME RecoveryInv
    PROVE  /\ Waiting = {notACKedSentPkt[k].pktNum : k \in DOMAIN notACKedSentPkt}
           /\ Waiting \subseteq DOMAIN packets
           /\ DOMAIN packets = 1 .. Len(packets) /\ Len(packets) \in Nat
<1>1. /\ DOMAIN packets = 1 .. Len(packets) /\ Len(packets) \in Nat
      /\ notACKedSentPkt \in Seq(EntryUpTo(Len(packets)))
  BY DEF RecoveryInv, RecoveryTypeOK
<1>2. \A k \in DOMAIN notACKedSentPkt : notACKedSentPkt[k].pktNum \in 1 .. Len(packets)
  <2>1. \A k \in DOMAIN notACKedSentPkt : notACKedSentPkt[k] \in EntryUpTo(Len(packets))
    BY <1>1
  <2> QED
    BY <2>1 DEF EntryUpTo
<1>3. Waiting = {notACKedSentPkt[k].pktNum : k \in DOMAIN notACKedSentPkt}
  BY DEF Waiting, Numbers, Range
<1> QED
  BY <1>1, <1>2, <1>3

\* A step that moves no packet and leaves the window alone.
LEMMA QuietKeepsFlight ==
    ASSUME RecoveryInv, RecoveryInv', AckInv, FlightInv,
           packets' = packets \/ \E pkt \in PacketType : packets' = Append(packets, pkt),
           UNCHANGED <<established, counted, congestionWindow, onFlight>>,
           Waiting' = Waiting, LandedPackets' = LandedPackets
    PROVE  FlightInv'
<1> DEFINE inside == counted \cap Waiting
           outside == LandedPackets \ counted
<1>1. /\ inside \in SUBSET DOMAIN packets /\ outside \in SUBSET DOMAIN packets
      /\ LandedPackets \in SUBSET DOMAIN packets
  BY DEF AckInv, LandedPackets
<1>2. \A T \in SUBSET DOMAIN packets : Total(packets', T) = Total(packets, T)
  BY TotalsStay
<1>3. inside' = inside /\ outside' = outside
  OBVIOUS
<1>4. /\ Total(packets, inside) <= onFlight + Total(packets, outside)
      /\ established => congestionWindow <= InitialWindow + Total(packets, LandedPackets)
  BY DEF FlightInv, InFlightIsCounted, LandedPackets, SumOfLengths, Total
<1>5. /\ Total(packets', inside') <= onFlight' + Total(packets', outside')
      /\ established' => congestionWindow' <= InitialWindow + Total(packets', LandedPackets')
  BY <1>1, <1>2, <1>3, <1>4
<1> QED
  BY <1>5 DEF FlightInv, InFlightIsCounted, LandedPackets, SumOfLengths, Total

\* The window opens by no more than what lands.
LEMMA LandedOpens ==
    ASSUME RecoveryTypeOK, WindowIsBounded, NEW n \in 1 .. Len(packets), Landed(n), established
    PROVE  /\ congestionWindow' <= congestionWindow + packets[n].len
           /\ onFlight' = IF onFlight > packets[n].len THEN onFlight - packets[n].len ELSE 0
<1> DEFINE len == packets[n].len
<1>1. len \in Nat /\ congestionWindow \in Nat
  BY LengthTyped DEF RecoveryTypeOK
<1>2. /\ onFlight' = IF onFlight > len THEN onFlight - len ELSE 0
      /\ UpdateCongestionWindowByACK(len)
  BY DEF Landed
<1>3. MAX_PACKET_LENGTH * (len \div congestionWindow) = 0 \/ congestionState = "SLOW_START"
  BY AvoidanceAddsNothing
<1> HIDE DEF len
<1>4. congestionWindow' = congestionWindow + len \/ congestionWindow' = congestionWindow + 0
  BY <1>2, <1>3 DEF UpdateCongestionWindowByACK
<1>5. congestionWindow' <= congestionWindow + len
  BY <1>1, <1>4
<1> QED
  BY <1>2, <1>5 DEF len

\* A packet that lands gives back what it took, and opens the window once.
LEMMA LandingKeepsFlight ==
    ASSUME RecoveryInv, RecoveryInv', AckInv, FlightInv, WindowIsBounded,
           NEW n \in Waiting, n \notin LandedPackets, Landed(n),
           UNCHANGED <<packets, established, counted>>,
           Waiting' = Waiting \ {n}, LandedPackets' = LandedPackets \cup {n}
    PROVE  FlightInv'
<1> DEFINE inside == counted \cap Waiting
           outside == LandedPackets \ counted
           len == packets[n].len
<1>1. /\ inside \in SUBSET DOMAIN packets /\ outside \in SUBSET DOMAIN packets
      /\ LandedPackets \in SUBSET DOMAIN packets /\ n \in DOMAIN packets
      /\ inside \ {n} \in SUBSET DOMAIN packets
  BY WaitingTyped DEF AckInv, LandedPackets
<1>2. /\ Total(packets, inside) <= onFlight + Total(packets, outside)
      /\ established => congestionWindow <= InitialWindow + Total(packets, LandedPackets)
  BY DEF FlightInv, InFlightIsCounted, LandedPackets, SumOfLengths, Total
<1>3. /\ Total(packets, inside) \in Nat /\ Total(packets, outside) \in Nat
      /\ Total(packets, LandedPackets) \in Nat /\ Total(packets, inside \ {n}) \in Nat
      /\ onFlight \in Nat /\ congestionWindow \in Nat /\ congestionWindow' \in Nat
      /\ onFlight' \in Nat /\ InitialWindow \in Nat /\ len \in Nat
  <2>1. len \in Nat
    BY <1>1, LengthTyped, WaitingTyped DEF RecoveryInv
  <2> HIDE DEF inside, outside, len
  <2> QED
    BY <1>1, <2>1, Totals, LengthAssumption DEF RecoveryInv, RecoveryTypeOK
<1>4. CASE ~established
  <2>1. inside' = {} /\ inside = {} /\ outside' \in SUBSET DOMAIN packets /\ ~established'
    BY <1>1, <1>4 DEF FlightInv
  <2> HIDE DEF inside, outside
  <2>2. Total(packets, inside') = Total(packets, inside) /\ onFlight' = onFlight
    BY <1>4, <2>1 DEF Landed, windowVars
  <2>3. Total(packets, inside') <= Total(packets, {})
    BY <2>1, Totals
  <2>4. Total(packets, {}) = 0
    BY NothingTotal
  <2>5. Total(packets, outside') \in Nat
    BY <2>1, Totals
  <2>6. Total(packets, inside') <= onFlight' + Total(packets, outside')
    BY <1>3, <2>1, <2>4, <2>5
  <2> QED
    BY <1>4, <2>1, <2>6 DEF FlightInv, InFlightIsCounted, LandedPackets, SumOfLengths, Total,
                            inside, outside
<1>5. CASE established
  <2>1. /\ congestionWindow' <= congestionWindow + len
        /\ onFlight' = IF onFlight > len THEN onFlight - len ELSE 0
    BY <1>1, <1>5, LandedOpens, WaitingTyped DEF RecoveryInv
  <2>2. Total(packets, LandedPackets \cup {n}) = Total(packets, LandedPackets) + len
    BY <1>1, Totals
  <2>3. congestionWindow' <= InitialWindow + Total(packets, LandedPackets')
    <3> HIDE DEF inside, outside, len
    <3> QED
      BY <1>2, <1>3, <1>5, <2>1, <2>2
  <2>4. Total(packets, inside') <= onFlight' + Total(packets, outside')
    <3>1. CASE n \in counted
      <4>1. inside' = inside \ {n} /\ outside' = outside /\ n \in inside
            /\ inside = (inside \ {n}) \cup {n}
        BY <3>1
      <4>2. Total(packets, (inside \ {n}) \cup {n}) = Total(packets, inside \ {n}) + len
        BY <1>1, Totals
      <4> HIDE DEF inside, outside, len
      <4>3. Total(packets, inside) = Total(packets, inside') + len
        BY <4>1, <4>2
      <4> QED
        BY <1>2, <1>3, <2>1, <4>1, <4>3
    <3>2. CASE n \notin counted
      <4>1. inside' = inside /\ outside' = outside \cup {n} /\ n \notin outside
        BY <3>2
      <4>2. Total(packets, outside \cup {n}) = Total(packets, outside) + len
        BY <1>1, <4>1, Totals
      <4> HIDE DEF inside, outside, len
      <4> QED
        BY <1>2, <1>3, <2>1, <4>1, <4>2
    <3> QED
      BY <3>1, <3>2
  <2> QED
    BY <1>5, <2>3, <2>4 DEF FlightInv, InFlightIsCounted, LandedPackets, SumOfLengths, Total
<1> QED
  BY <1>4, <1>5

\* A packet that is sent is counted.
LEMMA SendingKeepsFlight ==
    ASSUME RecoveryInv, RecoveryInv', AckInv, FlightInv,
           NEW n \in DOMAIN packets, n \notin LandedPackets, NeedACK(n),
           UpdateOnFlightBySentPktLen(n),
           UNCHANGED <<packets, established, congestionWindow>>,
           Waiting' = Waiting \cup {n}, LandedPackets' = LandedPackets
    PROVE  FlightInv'
<1> DEFINE inside == counted \cap Waiting
           outside == LandedPackets \ counted
           len == packets[n].len
<1>1. /\ inside \in SUBSET DOMAIN packets /\ outside \in SUBSET DOMAIN packets
      /\ inside \cup {n} \in SUBSET DOMAIN packets
  BY WaitingTyped DEF AckInv, LandedPackets
<1>2. /\ Total(packets, inside) <= onFlight + Total(packets, outside)
      /\ established => congestionWindow <= InitialWindow + Total(packets, LandedPackets)
  BY DEF FlightInv, InFlightIsCounted, LandedPackets, SumOfLengths, Total
<1>3. /\ Total(packets, inside) \in Nat /\ Total(packets, outside) \in Nat
      /\ Total(packets, inside \cup {n}) \in Nat /\ onFlight \in Nat
      /\ Total(packets, inside \cup {n}) <= MAX_PACKET_LENGTH * MaxPktNum
      /\ Total(packets, inside \cup {n}) <= Total(packets, inside) + len
      /\ len \in Nat
  <2>1. len \in Nat
    BY LengthTyped, WaitingTyped DEF RecoveryInv
  <2>2. /\ Total(packets, inside) \in Nat
        /\ n \notin inside =>
               Total(packets, inside \cup {n}) = Total(packets, inside) + len
    BY <1>1, Totals
  <2>3. n \in inside => inside \cup {n} = inside
    OBVIOUS
  <2> HIDE DEF inside, outside, len
  <2>4. Total(packets, inside \cup {n}) <= Total(packets, inside) + len
    BY <2>1, <2>2, <2>3
  <2> QED
    BY <1>1, <2>1, <2>4, Totals DEF RecoveryInv, RecoveryTypeOK
<1>4. CASE ~established
  <2>1. inside' = inside /\ outside' = outside /\ onFlight' = onFlight
    BY <1>4 DEF FlightInv, UpdateOnFlightBySentPktLen
  <2> HIDE DEF inside, outside
  <2>2. Total(packets, inside') <= onFlight' + Total(packets, outside')
    BY <1>2, <2>1
  <2> QED
    BY <1>4, <2>2 DEF FlightInv, UpdateOnFlightBySentPktLen, InFlightIsCounted, LandedPackets,
                      SumOfLengths, Total, inside, outside
<1>5. CASE established
  <2>1. onFlight' = OnFlightWith(len) /\ counted' = counted \cup {n}
    BY <1>5 DEF UpdateOnFlightBySentPktLen
  <2>2. inside' = inside \cup {n} /\ outside' = outside
    BY <2>1
  <2> HIDE DEF inside, outside, len
  <2>3. /\ onFlight' \in {MaxOnFlight, onFlight + len}
        /\ MAX_PACKET_LENGTH * MaxPktNum <= MaxOnFlight
        /\ MAX_PACKET_LENGTH * MaxPktNum \in Nat /\ MaxOnFlight \in Nat
    BY <1>3, <2>1, LoadTyped
  <2>4. Total(packets, inside') <= onFlight' + Total(packets, outside')
    <3>1. CASE onFlight' = MaxOnFlight
      BY <1>3, <2>2, <2>3, <3>1
    <3>2. CASE onFlight' = onFlight + len
      BY <1>2, <1>3, <2>2, <3>2
    <3> QED
      BY <2>3, <3>1, <3>2
  <2> QED
    BY <1>2, <1>5, <2>4 DEF FlightInv, InFlightIsCounted, LandedPackets, SumOfLengths, Total,
                            inside, outside
<1> QED
  BY <1>4, <1>5

\* A PING without a number makes onFlight no smaller than it has to be.
LEMMA PingKeepsFlight ==
    ASSUME RecoveryInv, AckInv, FlightInv, SendPing
    PROVE  AckInv' /\ FlightInv'
<1> DEFINE inside == counted \cap Waiting
           outside == LandedPackets \ counted
<1>1. /\ UNCHANGED <<packets, counted, established, congestionWindow, notACKedSentPkt,
                     ackedSentPktNum, acking>>
      /\ onFlight' = IF established THEN OnFlightWith(PingLength) ELSE onFlight
      /\ phase # "ack"
  BY DEF SendPing, timerVars
<1>2. Waiting' = Waiting /\ LandedPackets' = LandedPackets
  BY <1>1 DEF Waiting, LandedPackets
<1>3. /\ inside \in SUBSET DOMAIN packets /\ outside \in SUBSET DOMAIN packets
      /\ inside' = inside /\ outside' = outside
  BY <1>1, <1>2, WaitingTyped DEF AckInv, LandedPackets
<1>4. /\ Total(packets, inside) <= onFlight + Total(packets, outside)
      /\ established => congestionWindow <= InitialWindow + Total(packets, LandedPackets)
  BY DEF FlightInv, InFlightIsCounted, LandedPackets, SumOfLengths, Total
<1> HIDE DEF inside, outside
<1>5. /\ Total(packets, inside) \in Nat /\ Total(packets, outside) \in Nat
      /\ Total(packets, inside) <= MAX_PACKET_LENGTH * MaxPktNum
      /\ onFlight \in Nat /\ PingLength \in Nat
  <2>1. PingLength \in Nat
    BY LengthAssumption
  <2>2. onFlight \in Nat
    BY DEF RecoveryInv, RecoveryTypeOK
  <2> QED
    BY <1>3, <2>1, <2>2, Totals
<1>6. /\ OnFlightWith(PingLength) \in {MaxOnFlight, onFlight + PingLength}
      /\ MAX_PACKET_LENGTH * MaxPktNum <= MaxOnFlight
      /\ MAX_PACKET_LENGTH * MaxPktNum \in Nat /\ MaxOnFlight \in Nat
  BY <1>5, LoadTyped
<1>7. onFlight' \in {MaxOnFlight, onFlight + PingLength, onFlight}
  BY <1>1, <1>6
<1>8. Total(packets, inside) <= onFlight' + Total(packets, outside)
  BY <1>4, <1>5, <1>6, <1>7
<1>9. AckInv'
  BY <1>1, <1>2 DEF AckInv, SendPing
<1>10. /\ Total(packets', inside') <= onFlight' + Total(packets', outside')
       /\ established' => congestionWindow' <= InitialWindow + Total(packets', LandedPackets')
  BY <1>1, <1>2, <1>3, <1>4, <1>8
<1>11. ~established' => counted' = {}
  BY <1>1 DEF FlightInv
<1> QED
  BY <1>9, <1>10, <1>11 DEF FlightInv, InFlightIsCounted, LandedPackets, SumOfLengths, Total,
                            inside, outside

\* InitCongestionState begins with nothing counted.
LEMMA EstablishKeepsFlight ==
    ASSUME RecoveryInv, AckInv, FlightInv, Establish
    PROVE  FlightInv'
<1> DEFINE inside == counted \cap Waiting
           outside == LandedPackets \ counted
<1>1. /\ UNCHANGED <<packets, counted>> /\ Waiting' = Waiting
      /\ LandedPackets' = LandedPackets
      /\ onFlight' = 0 /\ congestionWindow' = InitialWindow /\ counted = {}
      /\ established'
  BY DEF Establish, FlightInv, timerVars, Waiting, LandedPackets
<1>2. LandedPackets \in SUBSET DOMAIN packets /\ outside \in SUBSET DOMAIN packets
  BY DEF AckInv, LandedPackets
<1>3. /\ Total(packets, LandedPackets) \in Nat /\ Total(packets, outside) \in Nat
      /\ InitialWindow \in Nat
  BY <1>2, Totals, LengthAssumption
<1>4. inside' = {} /\ outside' = outside
  BY <1>1
<1> HIDE DEF inside, outside
<1>5. /\ Total(packets, inside') <= onFlight' + Total(packets, outside')
      /\ congestionWindow' <= InitialWindow + Total(packets, LandedPackets)
  BY <1>1, <1>3, <1>4, NothingTotal
<1> QED
  BY <1>1, <1>5 DEF FlightInv, InFlightIsCounted, LandedPackets, SumOfLengths, Total,
                    inside, outside

-----------------------------------------------------------------------------
(* The list of what waits for its ACK.                                     *)

\* A list of entries that holds each number once.
Apart(list) ==
    \A j, k \in DOMAIN list : list[j].pktNum = list[k].pktNum => j = k

\* New times leave the numbers as they are.
LEMMA SameNumbers ==
    ASSUME NEW s, NEW t, DOMAIN t = DOMAIN s, \A k \in DOMAIN s : t[k].pktNum = s[k].pktNum
    PROVE  /\ Numbers(Range(t)) = Numbers(Range(s))
           /\ Apart(s) => Apart(t)
BY DEF Numbers, Range, Apart

\* What is left of a list without its k-th entry.
LEMMA EntriesLeft ==
    ASSUME NEW S, NEW s \in Seq(S), NEW l \in Nat, l = Len(s), NEW k \in 1 .. l
    PROVE  /\ DOMAIN (SubSeq(s, 1, k - 1) \o SubSeq(s, k + 1, Len(s))) = 1 .. l - 1
           /\ \A j \in 1 .. l - 1 :
                  (SubSeq(s, 1, k - 1) \o SubSeq(s, k + 1, Len(s)))[j]
                      = IF j < k THEN s[j] ELSE s[j + 1]
<1> DEFINE a == SubSeq(s, 1, k - 1)
           b == SubSeq(s, k + 1, l)
           t == a \o b
<1>1. \A j \in 1 .. l : s[j] \in S
  OBVIOUS
<1>2. /\ a \in Seq(S) /\ Len(a) = k - 1
      /\ \A j \in 1 .. k - 1 : a[j] = s[j]
  BY <1>1, SubSeqProperties
<1>3. /\ b \in Seq(S)
      /\ Len(b) = IF k + 1 <= l THEN l - (k + 1) + 1 ELSE 0
      /\ \A j \in 1 .. l - (k + 1) + 1 : b[j] = s[(k + 1) + j - 1]
  <2>1. k + 1 \in Int /\ l \in Int /\ \A j \in k + 1 .. l : s[j] \in S
    BY <1>1
  <2> QED
    BY <2>1, SubSeqProperties
<1> HIDE DEF a, b
<1>4. Len(b) = l - k
  BY <1>3
<1>5. \A j \in 1 .. l - k : b[j] = s[k + j]
  <2> TAKE j \in 1 .. l - k
  <2>1. j \in 1 .. l - (k + 1) + 1 /\ (k + 1) + j - 1 = k + j
    OBVIOUS
  <2>2. b[j] = s[(k + 1) + j - 1]
    BY <1>3, <2>1
  <2> QED
    BY <2>1, <2>2
<1>6. t \in Seq(S) /\ Len(t) = l - 1
      /\ \A j \in 1 .. l - 1 : t[j] = IF j <= k - 1 THEN a[j] ELSE b[j - (k - 1)]
  <2>1. /\ t \in Seq(S) /\ Len(t) = Len(a) + Len(b)
        /\ \A j \in 1 .. Len(a) + Len(b) :
               t[j] = IF j <= Len(a) THEN a[j] ELSE b[j - Len(a)]
    BY <1>2, <1>3, ConcatProperties
  <2>2. Len(a) + Len(b) = l - 1
    BY <1>2, <1>4
  <2> HIDE DEF t
  <2> QED
    BY <1>2, <2>1, <2>2
<1> HIDE DEF t
<1>7. ASSUME NEW j \in 1 .. l - 1
      PROVE  t[j] = IF j < k THEN s[j] ELSE s[j + 1]
  <2>1. CASE j < k
    BY <1>2, <1>6, <2>1
  <2>2. CASE ~(j < k)
    <3>1. j - (k - 1) \in 1 .. l - k /\ k + (j - (k - 1)) = j + 1
      BY <2>2
    <3> QED
      BY <1>5, <1>6, <2>2, <3>1
  <2> QED
    BY <2>1, <2>2
<1>8. DOMAIN t = 1 .. l - 1
  BY <1>6
<1> QED
  BY <1>7, <1>8 DEF t, a, b

\* The entry that is taken out was the only one of its number.
LEMMA NumberTaken ==
    ASSUME NEW s, NEW l \in Nat, DOMAIN s = 1 .. l, NEW k \in 1 .. l, Apart(s),
           NEW t, DOMAIN t = 1 .. l - 1,
           \A j \in 1 .. l - 1 : t[j] = IF j < k THEN s[j] ELSE s[j + 1]
    PROVE  /\ Numbers(Range(t)) = Numbers(Range(s)) \ {s[k].pktNum}
           /\ Apart(t)
<1>1. \A j \in DOMAIN t : \E i \in DOMAIN s \ {k} : t[j] = s[i] /\ i = IF j < k THEN j ELSE j + 1
  OBVIOUS
<1>2. Apart(t)
  <2> SUFFICES ASSUME NEW i \in DOMAIN t, NEW j \in DOMAIN t, t[i].pktNum = t[j].pktNum
               PROVE  i = j
    BY DEF Apart
  <2>1. PICK x \in DOMAIN s : t[i] = s[x] /\ x = IF i < k THEN i ELSE i + 1
    BY <1>1
  <2>2. PICK y \in DOMAIN s : t[j] = s[y] /\ y = IF j < k THEN j ELSE j + 1
    BY <1>1
  <2>3. x = y
    BY <2>1, <2>2 DEF Apart
  <2>4. i \in Int /\ j \in Int
    OBVIOUS
  <2> QED
    BY <2>1, <2>2, <2>3, <2>4
<1>3. ASSUME NEW n \in Numbers(Range(t)) PROVE n \in Numbers(Range(s)) \ {s[k].pktNum}
  <2>1. PICK j \in DOMAIN t : n = t[j].pktNum
    BY DEF Numbers, Range
  <2>2. PICK i \in DOMAIN s \ {k} : t[j] = s[i]
    BY <1>1
  <2>3. s[i].pktNum # s[k].pktNum
    BY <2>2 DEF Apart
  <2> QED
    BY <2>1, <2>2, <2>3 DEF Numbers, Range
<1>4. ASSUME NEW n \in Numbers(Range(s)) \ {s[k].pktNum} PROVE n \in Numbers(Range(t))
  <2>1. PICK i \in DOMAIN s : n = s[i].pktNum /\ i # k
    BY DEF Numbers, Range
  <2>2. \E j \in DOMAIN t : t[j] = s[i]
    <3>1. CASE i < k
      BY <2>1, <3>1
    <3>2. CASE ~(i < k)
      <4>1. i - 1 \in 1 .. l - 1 /\ ~(i - 1 < k) /\ (i - 1) + 1 = i
        BY <2>1, <3>2
      <4> QED
        BY <4>1
    <3> QED
      BY <3>1, <3>2
  <2> QED
    BY <2>1, <2>2 DEF Numbers, Range
<1> QED
  BY <1>2, <1>3, <1>4

\* An entry is added only for a number that has none.
LEMMA NumberAdded ==
    ASSUME NEW S, NEW s \in Seq(S), NEW e, e.pktNum \notin Numbers(Range(s)), Apart(s)
    PROVE  /\ Numbers(Range(Append(s, e))) = Numbers(Range(s)) \cup {e.pktNum}
           /\ Apart(Append(s, e))
<1> DEFINE t == Append(s, e)
<1>1. /\ DOMAIN s = 1 .. Len(s) /\ Len(s) \in Nat
      /\ DOMAIN t = 1 .. Len(s) + 1
      /\ t[Len(s) + 1] = e
      /\ \A j \in 1 .. Len(s) : t[j] = s[j]
  OBVIOUS
<1> HIDE DEF t
<1>2. \A j \in DOMAIN s : s[j].pktNum # e.pktNum
  BY DEF Numbers, Range
<1>3. Apart(t)
  BY <1>1, <1>2 DEF Apart
<1>4. Numbers(Range(t)) = {t[j].pktNum : j \in DOMAIN t}
      /\ Numbers(Range(s)) = {s[j].pktNum : j \in DOMAIN s}
  BY DEF Numbers, Range
<1>5. \A j \in DOMAIN t : j \in DOMAIN s \/ j = Len(s) + 1
  BY <1>1
<1>6. \A n : n \in Numbers(Range(t)) <=> n \in Numbers(Range(s)) \/ n = e.pktNum
  BY <1>1, <1>4, <1>5
<1> QED
  BY <1>3, <1>6 DEF t

\* A step leaves what waits and what has landed alone, or lands a packet, or sends one.
LandsOne ==
    \E n \in Waiting \ LandedPackets :
        /\ Landed(n)
        /\ UNCHANGED <<packets, established, counted>>
        /\ Waiting' = Waiting \ {n}
        /\ LandedPackets' = LandedPackets \cup {n}

SendsOne ==
    \E n \in DOMAIN packets \ LandedPackets :
        /\ NeedACK(n)
        /\ UpdateOnFlightBySentPktLen(n)
        /\ UNCHANGED <<packets, established, congestionWindow>>
        /\ Waiting' = Waiting \cup {n}
        /\ LandedPackets' = LandedPackets

MovesNone ==
    /\ packets' = packets \/ \E pkt \in PacketType : packets' = Append(packets, pkt)
    /\ UNCHANGED <<established, counted, congestionWindow, onFlight>>
    /\ Waiting' = Waiting
    /\ LandedPackets' = LandedPackets

\* Taking out an entry that the ACK at hand names lands its packet.
LEMMA RemovingLands ==
    ASSUME RecoveryInv, AckInv, RemoveAcked
    PROVE  AckInv' /\ LandsOne
<1>1. PICK k \in DOMAIN notACKedSentPkt : IsAcked(k) /\ TakeAcked(k)
  BY DEF RemoveAcked
<1> DEFINE n == notACKedSentPkt[k].pktNum
<1>2. /\ notACKedSentPkt' = SubSeq(notACKedSentPkt, 1, k - 1)
               \o SubSeq(notACKedSentPkt, k + 1, Len(notACKedSentPkt))
      /\ Landed(n) /\ n \in acking
      /\ UNCHANGED <<phase, established, packets, counted, ackedSentPktNum, acking>>
  BY <1>1 DEF RemoveAcked, TakeAcked, IsAcked
<1>3. notACKedSentPkt \in Seq(EntryUpTo(Len(packets))) /\ Apart(notACKedSentPkt)
  BY DEF RecoveryInv, AckInv, Apart
<1>4. PICK l \in Nat : l = Len(notACKedSentPkt) /\ DOMAIN notACKedSentPkt = 1 .. l
  BY <1>3
<1>5. /\ Numbers(Range(notACKedSentPkt')) = Numbers(Range(notACKedSentPkt)) \ {n}
      /\ Apart(notACKedSentPkt')
  <2>1. k \in 1 .. l
    BY <1>4
  <2>2. /\ DOMAIN notACKedSentPkt' = 1 .. l - 1
        /\ \A j \in 1 .. l - 1 :
               notACKedSentPkt'[j] = IF j < k THEN notACKedSentPkt[j]
                                     ELSE notACKedSentPkt[j + 1]
    BY <1>2, <1>3, <1>4, <2>1, EntriesLeft
  <2> QED
    BY <1>3, <1>4, <2>1, <2>2, NumberTaken
<1>6. Waiting' = Waiting \ {n} /\ n \in Waiting
  BY <1>5 DEF Waiting, Numbers, Range
<1>7. n \notin LandedPackets
  BY <1>6 DEF AckInv, LandedPackets
<1> HIDE DEF n
<1>8. LandedPackets' = LandedPackets \cup {n}
  BY <1>2, <1>6 DEF LandedPackets
<1>9. AckInv'
  BY <1>2, <1>5, <1>6 DEF AckInv, Apart
<1> QED
  BY <1>2, <1>6, <1>7, <1>8, <1>9 DEF LandsOne

\* Sending moves a packet to those that wait, if it asks for an ACK at all.
LEMMA SendingSends ==
    ASSUME RecoveryInv, AckInv, SendFront
    PROVE  AckInv' /\ (SendsOne \/ MovesNone)
<1> DEFINE n == Head(pendingPackets)
<1>1. n \in 1 .. Len(packets) /\ n \in DOMAIN packets
  BY DEF SendFront, RecoveryInv, RecoveryTypeOK
<1>2. /\ phase = "send" /\ n \notin ackedSentPktNum
      /\ IF NeedACK(n) THEN StartTimer(n) ELSE UNCHANGED timerVars
      /\ UpdateOnFlightBySentPktLen(n)
      /\ UNCHANGED <<established, packets, ackedSentPktNum, acking, congestionWindow>>
      /\ phase' \in {"scan", "send"}
  BY DEF SendFront
<1> HIDE DEF n
<1>3. acking = {} /\ n \notin LandedPackets
  BY <1>2 DEF AckInv, LandedPackets
<1>4. counted' \in {counted, counted \cup {n}}
  BY <1>2 DEF UpdateOnFlightBySentPktLen
<1>5. ASSUME Waiting' \in {Waiting, Waiting \cup {n}}, Apart(notACKedSentPkt')
      PROVE  AckInv' /\ LandedPackets' = LandedPackets
  BY <1>1, <1>2, <1>3, <1>4, <1>5 DEF AckInv, Apart, LandedPackets
<1>6. Apart(notACKedSentPkt)
  BY DEF AckInv, Apart
<1>7. CASE ~NeedACK(n)
  <2>1. UNCHANGED <<notACKedSentPkt, counted, onFlight>>
    BY <1>2, <1>7 DEF timerVars, UpdateOnFlightBySentPktLen
  <2>2. Waiting' = Waiting
    BY <2>1 DEF Waiting
  <2> QED
    BY <1>2, <1>5, <1>6, <2>1, <2>2 DEF MovesNone
<1>8. CASE NeedACK(n) /\ n \in Waiting
  <2>1. UNCHANGED notACKedSentPkt
    BY <1>2, <1>8 DEF StartTimer
  <2>2. Waiting' = Waiting \cup {n} /\ Waiting' = Waiting
    BY <1>8, <2>1 DEF Waiting
  <2> QED
    BY <1>1, <1>2, <1>3, <1>5, <1>6, <1>8, <2>1, <2>2 DEF SendsOne
<1>9. CASE NeedACK(n) /\ n \notin Waiting
  <2>1. notACKedSentPkt' = Append(notACKedSentPkt, Entry(n)) /\ Entry(n).pktNum = n
    BY <1>2, <1>9 DEF StartTimer, Entry
  <2>2. notACKedSentPkt \in Seq(EntryUpTo(Len(packets)))
    BY DEF RecoveryInv
  <2>3. Waiting' = Waiting \cup {n} /\ Apart(notACKedSentPkt')
    BY <1>6, <1>9, <2>1, <2>2, NumberAdded DEF Waiting
  <2> QED
    BY <1>1, <1>2, <1>3, <1>5, <1>9, <2>3 DEF SendsOne
<1> QED
  BY <1>7, <1>8, <1>9

\* A tick gives every entry a new time, and so does the end of remNeedACKPkt.
LEMMA NewTimes ==
    ASSUME RecoveryInv, AckInv, Tick \/ KeepUnacked
    PROVE  Waiting' = Waiting /\ Apart(notACKedSentPkt')
<1>1. /\ DOMAIN notACKedSentPkt' = DOMAIN notACKedSentPkt
      /\ \A k \in DOMAIN notACKedSentPkt :
             notACKedSentPkt'[k] \in {Aged(notACKedSentPkt[k]), Refreshed(notACKedSentPkt[k])}
  <2>1. CASE Tick
    BY <2>1 DEF Tick
  <2>2. CASE KeepUnacked
    BY <2>2 DEF KeepUnacked
  <2> QED
    BY <2>1, <2>2
<1>2. \A k \in DOMAIN notACKedSentPkt :
          notACKedSentPkt'[k].pktNum = notACKedSentPkt[k].pktNum
  <2>1. \A k \in DOMAIN notACKedSentPkt :
            notACKedSentPkt[k] \in EntryUpTo(Len(packets))
    BY DEF RecoveryInv
  <2>2. \A e \in EntryUpTo(Len(packets)) :
            Aged(e).pktNum = e.pktNum /\ Refreshed(e).pktNum = e.pktNum
    BY DEF EntryUpTo, Aged, Refreshed
  <2> QED
    BY <1>1, <2>1, <2>2
<1>3. Apart(notACKedSentPkt)
  BY DEF AckInv, Apart
<1> QED
  BY <1>1, <1>2, <1>3, SameNumbers DEF Waiting

\* A step that leaves the entries and the ACKs alone keeps AckInv and moves no packet.
LEMMA OtherSteps ==
    ASSUME RecoveryInv, AckInv,
           UNCHANGED <<notACKedSentPkt, ackedSentPktNum, acking, counted, established,
                       congestionWindow, onFlight>>,
           packets' = packets \/ \E pkt \in PacketType : packets' = Append(packets, pkt),
           phase' # "ack" => phase # "ack"
    PROVE  AckInv' /\ MovesNone
<1>1. Waiting' = Waiting /\ LandedPackets' = LandedPackets
  BY DEF Waiting, LandedPackets
<1>2. DOMAIN packets \subseteq DOMAIN packets'
  <2>1. packets \in Seq(PacketType)
    BY DEF RecoveryInv, RecoveryTypeOK
  <2>2. ASSUME NEW pkt \in PacketType, packets' = Append(packets, pkt)
        PROVE  DOMAIN packets \subseteq DOMAIN packets'
    BY <2>1, <2>2
  <2> QED
    BY <2>2
<1> QED
  BY <1>1, <1>2 DEF AckInv, MovesNone

\* Every step but the start of the connection and a PING is one of the three.
LEMMA EveryStep ==
    ASSUME RecoveryInv, AckInv, FlightInv, [Next]_vars
    PROVE  AckInv' /\ (Establish \/ SendPing \/ LandsOne \/ SendsOne \/ MovesNone)
<1> USE DEF timerVars, windowVars, passVars
<1>1. CASE Establish
  BY <1>1, OtherSteps DEF Establish, AckInv, Waiting
<1>2. CASE Tick
  <2>1. Waiting' = Waiting /\ Apart(notACKedSentPkt')
    BY <1>2, NewTimes
  <2>2. /\ UNCHANGED <<phase, packets, established, counted, congestionWindow, onFlight,
                       ackedSentPktNum, acking>>
    BY <1>2 DEF Tick
  <2>3. LandedPackets' = LandedPackets
    BY <2>1, <2>2 DEF LandedPackets
  <2> QED
    BY <2>1, <2>2, <2>3 DEF AckInv, Apart, MovesNone
<1>3. CASE Wake
  BY <1>3, OtherSteps DEF Wake
<1>4. ASSUME NEW kind \in Kinds, NEW length \in Lengths, QueuePacket(kind, length)
      PROVE  AckInv' /\ MovesNone
  <2>1. Sendable(kind, length) \in PacketType
    BY DEF Sendable, PacketType
  <2> QED
    BY <1>4, <2>1, OtherSteps DEF QueuePacket
<1>5. ASSUME NEW acked \in SUBSET Waiting, ReceiveAck(acked)
      PROVE  AckInv' /\ MovesNone
  <2>1. /\ UNCHANGED <<notACKedSentPkt, ackedSentPktNum, counted, established,
                       congestionWindow, onFlight, packets>>
        /\ acking' = acked /\ acking = {} /\ phase' = "ack"
    BY <1>5 DEF ReceiveAck, AckInv
  <2>2. Waiting' = Waiting /\ Waiting \subseteq DOMAIN packets
    BY <2>1, WaitingTyped DEF Waiting
  <2>3. LandedPackets' = LandedPackets
    BY <2>1, <2>2 DEF LandedPackets
  <2> QED
    BY <2>1, <2>2, <2>3 DEF AckInv, MovesNone
<1>6. CASE RemoveAcked
  BY <1>6, RemovingLands
<1>7. CASE KeepUnacked
  <2>1. Waiting' = Waiting /\ Apart(notACKedSentPkt')
    BY <1>7, NewTimes
  <2>2. /\ UNCHANGED <<packets, established, counted, congestionWindow, onFlight>>
        /\ ackedSentPktNum' = ackedSentPktNum \cup acking
        /\ acking' = {} /\ phase' = "recv"
    BY <1>7 DEF KeepUnacked
  <2>3. acking \cap Waiting = {}
    BY <1>7, WaitingTyped DEF KeepUnacked, IsAcked
  <2>4. LandedPackets' = LandedPackets
    BY <2>1, <2>2, <2>3 DEF LandedPackets
  <2>5. AckInv'
    BY <2>1, <2>2, <2>3 DEF AckInv, Apart
  <2> QED
    BY <2>1, <2>2, <2>4, <2>5 DEF MovesNone
<1>8. ASSUME NEW others \in BOOLEAN, NEW idle \in BOOLEAN, NEW streams \in BOOLEAN,
             StartPass(others, idle, streams)
      PROVE  AckInv' /\ MovesNone
  <2>1. Sendable("ping", PingLength) \in PacketType
    BY DEF Sendable, PacketType
  <2> QED
    BY <1>8, <2>1, OtherSteps DEF StartPass, PutPingInFront
<1>9. CASE SkipAcked
  BY <1>9, OtherSteps DEF SkipAcked
<1>10. CASE SendFront
  BY <1>10, SendingSends
<1>11. CASE LeaveLoop
  BY <1>11, OtherSteps DEF LeaveLoop
<1>12. CASE Retransmit
  BY <1>12, OtherSteps DEF Retransmit
<1>13. CASE SendPing
  BY <1>13, PingKeepsFlight
<1>14. CASE UNCHANGED vars
  BY <1>14, OtherSteps DEF vars
<1> QED
  BY <1>1, <1>2, <1>3, <1>4, <1>5, <1>6, <1>7, <1>8, <1>9, <1>10, <1>11, <1>12, <1>13, <1>14
     DEF Next, AnyPass, PassStep

LEMMA StepKeepsFlight ==
    ASSUME RecoveryInv, RecoveryInv', WindowIsBounded, AckInv, FlightInv, [Next]_vars
    PROVE  AckInv' /\ FlightInv'
<1>1. AckInv' /\ (Establish \/ SendPing \/ LandsOne \/ SendsOne \/ MovesNone)
  BY EveryStep
<1>2. CASE Establish
  BY <1>1, <1>2, EstablishKeepsFlight
<1>3. CASE LandsOne
  <2>1. PICK n \in Waiting \ LandedPackets :
            /\ Landed(n)
            /\ UNCHANGED <<packets, established, counted>>
            /\ Waiting' = Waiting \ {n}
            /\ LandedPackets' = LandedPackets \cup {n}
    BY <1>3 DEF LandsOne
  <2> QED
    BY <1>1, <2>1, LandingKeepsFlight
<1>4. CASE SendsOne
  <2>1. PICK n \in DOMAIN packets \ LandedPackets :
            /\ NeedACK(n)
            /\ UpdateOnFlightBySentPktLen(n)
            /\ UNCHANGED <<packets, established, congestionWindow>>
            /\ Waiting' = Waiting \cup {n}
            /\ LandedPackets' = LandedPackets
    BY <1>4 DEF SendsOne
  <2> QED
    BY <1>1, <2>1, SendingKeepsFlight
<1>5. CASE MovesNone
  BY <1>1, <1>5, QuietKeepsFlight DEF MovesNone
<1>6. CASE SendPing
  BY <1>6, PingKeepsFlight
<1> QED
  BY <1>1, <1>2, <1>3, <1>4, <1>5, <1>6

LEMMA FlightInitially == Init => AckInv /\ FlightInv
<1> SUFFICES ASSUME Init PROVE AckInv /\ FlightInv
  OBVIOUS
<1>1. RecoveryInv
  BY InitialInv
<1>2. /\ packets = <<>> /\ notACKedSentPkt = <<>> /\ ~established /\ onFlight = 0
      /\ ackedSentPktNum = {} /\ acking = {} /\ counted = {} /\ phase = "recv"
  BY DEF Init
<1>3. Waiting = {} /\ LandedPackets = {}
  BY <1>2 DEF Waiting, Numbers, Range, LandedPackets
<1>4. InFlightIsCounted
  <2>1. /\ counted \cap Waiting = {}
        /\ (ackedSentPktNum \cup (acking \ Waiting)) \ counted = {}
    BY <1>2, <1>3
  <2>2. Total(packets, {}) = 0
    BY <1>1, NothingTotal
  <2>3. SumOfLengths({}) = 0
    BY <2>2 DEF SumOfLengths, Total
  <2> QED
    BY <1>2, <2>1, <2>3 DEF InFlightIsCounted
<1> QED
  BY <1>2, <1>3, <1>4 DEF AckInv, FlightInv

LEMMA FlightCorrect == Spec => [](RecoveryInv /\ WindowIsBounded /\ AckInv /\ FlightInv)
<1>1. RecoveryInv /\ WindowIsBounded /\ AckInv /\ FlightInv /\ [Next]_vars
         => (RecoveryInv /\ WindowIsBounded /\ AckInv /\ FlightInv)'
  BY StepKeepsInv, StepKeepsFlight
<1> QED
  BY <1>1, InitialInv, FlightInitially, PTL DEF Spec

\* For every list of ACKs, naming the same packets however often, the window has opened
\* by no more than the bytes of the packets acknowledged.
THEOREM WindowEarned == Spec => []WindowIsEarned
<1>1. RecoveryInv /\ AckInv /\ FlightInv => WindowIsEarned
  <2> SUFFICES ASSUME RecoveryInv, AckInv, FlightInv, established
               PROVE  congestionWindow
                          <= InitialWindow + SumOfLengths(ackedSentPktNum \cup acking)
    BY DEF WindowIsEarned
  <2> DEFINE U == ackedSentPktNum \cup acking
  <2>1. LandedPackets \in SUBSET U /\ U \in SUBSET DOMAIN packets
        /\ LandedPackets \in SUBSET DOMAIN packets
    BY DEF AckInv, LandedPackets
  <2> HIDE DEF U
  <2>2. /\ Total(packets, LandedPackets) <= Total(packets, U)
        /\ Total(packets, U) \in Nat /\ Total(packets, LandedPackets) \in Nat
    BY <2>1, Totals
  <2>3. congestionWindow <= InitialWindow + Total(packets, LandedPackets)
    BY DEF FlightInv, SumOfLengths, Total
  <2>4. congestionWindow \in Nat /\ InitialWindow \in Nat
    BY LengthAssumption DEF RecoveryInv, RecoveryTypeOK
  <2>5. congestionWindow <= InitialWindow + Total(packets, U)
    BY <2>2, <2>3, <2>4
  <2> QED
    BY <2>5 DEF U, SumOfLengths, Total
<1> QED
  BY <1>1, FlightCorrect, PTL

\* onFlight is never less than what is in flight of the packets counted, but for what was
\* acknowledged and never counted: whatever the order of sending, retransmitting and
\* acknowledging, and though onFlight is held at 0.
THEOREM FlightCounted == Spec => []InFlightIsCounted
<1>1. FlightInv => InFlightIsCounted
  BY DEF FlightInv
<1> QED
  BY <1>1, FlightCorrect, PTL
=============================================================================
