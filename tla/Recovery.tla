------------------------------ MODULE Recovery ------------------------------
(***************************************************************************)
(* How one end of a connection decides when to send: the retransmission    *)
(* timers, the PTO, and the congestion window, which PacketLayer leaves to *)
(* chance.  The other end and the network are reduced to the ACKs they may *)
(* return: any set of the packets sent, at any time.                       *)
(*                                                                         *)
(* The clock.  A second has four quarters.  The clock ticks by halves and  *)
(* always shows the first or third quarter: a moment lies within a half    *)
(* second, for an event on a full second is a coincidence.  It ticks in    *)
(* the 100 ms that the loop sleeps after a pass, where its time goes.  A   *)
(* timer keeps not the time it was set to but how long ago or how far      *)
(* ahead that is, up to where a longer time makes no difference.           *)
(***************************************************************************)
EXTENDS Integers, Sequences, FiniteSets, Functions

CONSTANTS
    Kinds,              \* what the application and the handlers send: "data", and
                        \* "notice", sent without needACK as the third packet of the
                        \* handshake is
    Lengths,            \* EncodeLen() of the packets the connection sends
    PingLength,         \* and of a PING
    MAX_PACKET_LENGTH,
    InitialWindow,      \* the arguments of InitCongestionState
    Threshold,
    BeyondWindow,       \* how many packets a pass sends beyond the window: 2
    PTO,                \* the PTO, in quarters of a second.  No RTT is ever sampled:
                        \* a client's is 1500 ms, so 6; a server's is 0, and 100 ms
                        \* once updatePTO ran, less than a quarter either way, so 0
    ClockBits,          \* the width of a time: 64
    MaxPktNum,          \* bound: how many packets the connection numbers
    MaxPings            \* bound: how many of them are PINGs; there are PINGs beyond
                        \* both bounds, which have no number here

ASSUME KindAssumption == Kinds \subseteq {"data", "notice"}

ASSUME LengthAssumption ==
    /\ Lengths \cup {PingLength} \subseteq 1 .. MAX_PACKET_LENGTH
    /\ MAX_PACKET_LENGTH \in Nat
    /\ InitialWindow \in Nat /\ Threshold \in Nat
    /\ MAX_PACKET_LENGTH <= Threshold /\ InitialWindow <= Threshold

ASSUME BeyondWindowAssumption == BeyondWindow \in Nat \ {0}

ASSUME ClockAssumption == PTO \in Nat /\ ClockBits \in Nat

ASSUME BoundAssumption == MaxPktNum \in Nat /\ MaxPings \in Nat

VARIABLES
    phase,            \* "recv"; "ack" while remNeedACKPkt runs; "ping" where a PING
                      \* without a number is at the front; "send"; "scan"; "sleep"
    established,      \* whether the state is ESTABLISHED
    quarter,          \* the quarter of the second the clock shows
    packets,          \* every packet numbered, by its number
    pendingPackets,   \* the numbers of the packets queued
    notACKedSentPkt,  \* the first entry of each number in notACKedSentPkt and
                      \* notACKedSentPktPTO, which run in parallel
    copies,           \* of the entries that retransmissions add, the first of each
                      \* number: the later ones fall due after it
    ackedSentPktNum,
    acking,           \* the numbers of the ACK at hand
    congestionWindow, congestionState, onFlight,
    expired,          \* PTO_expired
    sentWhenCongested,
    counted           \* history: the numbers transmitted in ESTABLISHED

windowVars == <<congestionWindow, congestionState, onFlight>>
timerVars == <<notACKedSentPkt, copies>>
passVars == <<expired, sentWhenCongested>>
vars == <<phase, established, quarter, packets, pendingPackets, timerVars,
          ackedSentPktNum, acking, windowVars, passVars, counted>>

Init ==
    /\ phase = "recv"
    /\ established = FALSE
    /\ quarter = 1
    /\ packets = <<>>
    /\ pendingPackets = <<>>
    /\ notACKedSentPkt = <<>>
    /\ copies = {}
    /\ ackedSentPktNum = {}
    /\ acking = {}
    /\ congestionWindow = 0
    /\ congestionState = "SLOW_START"
    /\ onFlight = 0
    /\ expired = FALSE
    /\ sentWhenCongested = 0
    /\ counted = {}

\* InitCongestionState, as the handshake completes.
Establish ==
    /\ phase = "recv"
    /\ ~established
    /\ established' = TRUE
    /\ congestionWindow' = InitialWindow
    /\ congestionState' = "SLOW_START"
    /\ onFlight' = 0
    /\ UNCHANGED <<phase, quarter, packets, pendingPackets, timerVars, ackedSentPktNum,
                   acking, passVars, counted>>

-----------------------------------------------------------------------------
(***************************************************************************)
(* Timers.                                                                 *)
(***************************************************************************)
\* Where an age, and the time past a PTO, stop being counted.
Oldest == 6
Older(age) == IF age + 2 > Oldest THEN Oldest ELSE age + 2
Nearer(left) == IF left < 2 THEN -1 ELSE left - 2

\* An entry as addNeedACKSentPkt makes it: sent at the full second before now, as far
\* as remTime tells, and with the PTO still ahead.
Entry(n) == [pktNum |-> n, age |-> quarter, left |-> PTO]

Aged(e) == [e EXCEPT !.age = Older(@), !.left = Nearer(@)]

\* remNeedACKPkt sets remTime of what it keeps to the time to the millisecond.
Refreshed(e) == [e EXCEPT !.age = 0]

Numbers(entries) == {e.pktNum : e \in entries}
Waiting == Numbers(Range(notACKedSentPkt))
Entries == Range(notACKedSentPkt) \cup copies

\* Mutant: the difference is taken as a signed number.
DueSigned(e) == e.age - quarter > 2

\* msec - remTime > 500, with msec cut to the second and the difference unsigned: an
\* entry refreshed in this very second is due.
Due(e) == (e.age - quarter) % 2 ^ ClockBits > 2

Tick ==
    /\ phase = "sleep"
    /\ quarter' = 4 - quarter
    /\ notACKedSentPkt' = [k \in DOMAIN notACKedSentPkt |-> Aged(notACKedSentPkt[k])]
    /\ copies' = {Aged(e) : e \in copies}
    /\ UNCHANGED <<phase, established, packets, pendingPackets, ackedSentPktNum, acking,
                   windowVars, passVars, counted>>

Wake ==
    /\ phase = "sleep"
    /\ phase' = "recv"
    /\ UNCHANGED <<established, quarter, packets, pendingPackets, timerVars, ackedSentPktNum,
                   acking, windowVars, passVars, counted>>

-----------------------------------------------------------------------------
(***************************************************************************)
(* The congestion window.                                                  *)
(***************************************************************************)
\* Mutant: in congestion avoidance the quotient is rounded up.
UpdateCongestionWindowByACKRoundingUp(length) ==
    IF congestionState = "SLOW_START"
    THEN /\ congestionWindow' = congestionWindow + length
         /\ congestionState' = IF congestionWindow' > Threshold THEN "CONGESTION_AVOIDANCE"
                               ELSE "SLOW_START"
    ELSE /\ congestionWindow' = congestionWindow
                + MAX_PACKET_LENGTH * ((length + congestionWindow - 1) \div congestionWindow)
         /\ UNCHANGED congestionState

\* Mutant: slow start ends at the threshold.
UpdateCongestionWindowByACKAtThreshold(length) ==
    IF congestionState = "SLOW_START"
    THEN /\ congestionWindow' = congestionWindow + length
         /\ congestionState' = IF congestionWindow' >= Threshold THEN "CONGESTION_AVOIDANCE"
                               ELSE "SLOW_START"
    ELSE /\ congestionWindow' = congestionWindow
                + MAX_PACKET_LENGTH * (length \div congestionWindow)
         /\ UNCHANGED congestionState

UpdateCongestionWindowByACK(length) ==
    IF congestionState = "SLOW_START"
    THEN /\ congestionWindow' = congestionWindow + length
         /\ congestionState' = IF congestionWindow' > Threshold THEN "CONGESTION_AVOIDANCE"
                               ELSE "SLOW_START"
    ELSE /\ congestionWindow' = congestionWindow
                + MAX_PACKET_LENGTH * (length \div congestionWindow)
         /\ UNCHANGED congestionState

\* Mutant: onFlight is not held at 0.
LandedUnclamped(n) ==
    IF established
    THEN /\ onFlight' = onFlight - packets[n].len
         /\ UpdateCongestionWindowByACK(packets[n].len)
    ELSE UNCHANGED windowVars

\* A packet acknowledged for the first time leaves the network.
Landed(n) ==
    IF established
    THEN /\ onFlight' = IF onFlight > packets[n].len THEN onFlight - packets[n].len ELSE 0
         /\ UpdateCongestionWindowByACK(packets[n].len)
    ELSE UNCHANGED windowVars

WhetherCanSendPkt(length) == ~established \/ onFlight + length < congestionWindow

-----------------------------------------------------------------------------
(***************************************************************************)
(* Between two passes.                                                     *)
(***************************************************************************)
NeedACK(n) == packets[n].kind # "notice"
Sendable(kind, length) == [kind |-> kind, len |-> length]
NewPktNum == Len(packets) + 1

\* An application, a handler or the end of the last pass queues a packet.
QueuePacket(kind, length) ==
    /\ phase = "recv"
    /\ NewPktNum <= MaxPktNum
    /\ packets' = Append(packets, Sendable(kind, length))
    /\ pendingPackets' = Append(pendingPackets, NewPktNum)
    /\ UNCHANGED <<phase, established, quarter, timerVars, ackedSentPktNum, acking,
                   windowVars, passVars, counted>>

\* An ACK arrives.  Of the numbers it names, those that wait count, and there may be
\* none: it is old, or names notices.
ReceiveAck(acked) ==
    /\ phase = "recv"
    /\ Waiting # {}
    /\ acked \subseteq Waiting
    /\ acking' = acked
    /\ phase' = "ack"
    /\ UNCHANGED <<established, quarter, packets, pendingPackets, timerVars,
                   ackedSentPktNum, windowVars, passVars, counted>>

\* The k-th entry is acknowledged, and the others of its number go with it.
TakeAcked(k) ==
    LET e == notACKedSentPkt[k]
    IN  /\ notACKedSentPkt' = SubSeq(notACKedSentPkt, 1, k - 1)
               \o SubSeq(notACKedSentPkt, k + 1, Len(notACKedSentPkt))
        /\ copies' = {c \in copies : c.pktNum # e.pktNum}
        /\ Landed(e.pktNum)

IsAcked(k) == notACKedSentPkt[k].pktNum \in acking

\* remNeedACKPkt comes to the first entry acknowledged.
RemoveAcked ==
    /\ phase = "ack"
    /\ \E k \in DOMAIN notACKedSentPkt :
           /\ IsAcked(k)
           /\ \A j \in 1 .. k - 1 : ~IsAcked(j)
           /\ TakeAcked(k)
    /\ UNCHANGED <<phase, established, quarter, packets, pendingPackets, ackedSentPktNum,
                   acking, passVars, counted>>

\* remNeedACKPkt is through: each number left keeps its first entry, with a new time.
KeepUnacked ==
    /\ phase = "ack"
    /\ \A k \in DOMAIN notACKedSentPkt : ~IsAcked(k)
    /\ notACKedSentPkt' = [k \in DOMAIN notACKedSentPkt |-> Refreshed(notACKedSentPkt[k])]
    /\ copies' = {}
    /\ ackedSentPktNum' = ackedSentPktNum \cup acking
    /\ acking' = {}
    /\ phase' = "recv"
    /\ UNCHANGED <<established, quarter, packets, pendingPackets, windowVars, passVars, counted>>

-----------------------------------------------------------------------------
(***************************************************************************)
(* A pass of SocketLoop.                                                   *)
(***************************************************************************)
PingCount == Cardinality({n \in DOMAIN packets : packets[n].kind = "ping"})
FrontIsPing == pendingPackets # <<>> /\ packets[Head(pendingPackets)].kind = "ping"
FrontNeedsACK == pendingPackets # <<>> /\ NeedACK(Head(pendingPackets))

\* Whether a PING goes to the front: the idle timer ran out while packets wait for
\* their ACK, or a PTO did and the loop would send nothing ack-eliciting.
AsksForPing(idle) ==
    \/ idle /\ notACKedSentPkt # <<>> /\ ~FrontIsPing
    \/ expired' /\ ~FrontNeedsACK

\* A PING is put before what waits, with a number as long as the bounds leave one: the
\* loop itself never runs out of PINGs.
PutPingInFront ==
    IF NewPktNum <= MaxPktNum /\ PingCount < MaxPings
    THEN /\ packets' = Append(packets, Sendable("ping", PingLength))
         /\ pendingPackets' = <<NewPktNum>> \o pendingPackets
         /\ phase' = "send"
    ELSE /\ phase' = "ping"
         /\ UNCHANGED <<packets, pendingPackets>>

\* A PTO of any connection of the program counts (`others`).  Only a connection with a
\* stream sends PINGs (`streams`).
StartPass(others, idle, streams) ==
    /\ phase = "recv"
    /\ expired' = (others \/ \E e \in Entries : e.left < 0)
    /\ sentWhenCongested' = 0
    /\ IF streams /\ AsksForPing(idle)
       THEN PutPingInFront
       ELSE phase' = "send" /\ UNCHANGED <<packets, pendingPackets>>
    /\ UNCHANGED <<established, quarter, timerVars, ackedSentPktNum, acking, windowVars, counted>>

SkipAcked ==
    /\ phase = "send"
    /\ pendingPackets # <<>>
    /\ Head(pendingPackets) \in ackedSentPktNum
    /\ pendingPackets' = Tail(pendingPackets)
    /\ UNCHANGED <<phase, established, quarter, packets, timerVars, ackedSentPktNum, acking,
                   windowVars, passVars, counted>>

Exceeds(n) == NeedACK(n) /\ ~WhetherCanSendPkt(packets[n].len)

\* Mutant: nothing is sent beyond the window.
HoldsBackStrictly == Exceeds(Head(pendingPackets))

\* Beyond the window a pass sends a few packets and no more.
HoldsBack == Exceeds(Head(pendingPackets)) /\ sentWhenCongested >= BeyondWindow

\* addNeedACKSentPkt.
StartTimer(n) ==
    IF n \notin Waiting
    THEN notACKedSentPkt' = Append(notACKedSentPkt, Entry(n)) /\ UNCHANGED copies
    ELSE /\ copies' = IF n \in Numbers(copies) THEN copies ELSE copies \cup {Entry(n)}
         /\ UNCHANGED notACKedSentPkt

\* Where the model stops counting onFlight: all the packets there are cannot bring it
\* back below the largest window from there.
MaxOnFlight == Threshold + MAX_PACKET_LENGTH * (MaxPktNum + 1)
OnFlightWith(length) ==
    IF onFlight + length > MaxOnFlight THEN MaxOnFlight ELSE onFlight + length

\* Mutant: what is sent beyond the window is not counted.
UpdateOnFlightWithinWindow(n) ==
    IF established /\ NeedACK(n)
    THEN /\ onFlight' = IF WhetherCanSendPkt(packets[n].len) THEN onFlight + packets[n].len ELSE onFlight
         /\ counted' = counted \cup {n}
    ELSE UNCHANGED <<onFlight, counted>>

UpdateOnFlightBySentPktLen(n) ==
    IF established /\ NeedACK(n)
    THEN /\ onFlight' = OnFlightWith(packets[n].len)
         /\ counted' = counted \cup {n}
    ELSE UNCHANGED <<onFlight, counted>>

\* The first packet of a pass is never held back.  A PING without a number is in flight
\* for good: what an ACK of a PING does is seen of those with one, and what is sent again
\* of it queues behind all that waits.
SendPing ==
    /\ phase = "ping"
    /\ sentWhenCongested' = IF WhetherCanSendPkt(PingLength) THEN 0 ELSE 1
    /\ onFlight' = IF established THEN OnFlightWith(PingLength) ELSE onFlight
    /\ phase' = IF expired THEN "scan" ELSE "send"
    /\ UNCHANGED <<established, quarter, packets, pendingPackets, timerVars, ackedSentPktNum,
                   acking, congestionWindow, congestionState, expired, counted>>

SendFront ==
    LET n == Head(pendingPackets)
    IN  /\ phase = "send"
        /\ pendingPackets # <<>>
        /\ n \notin ackedSentPktNum
        /\ ~HoldsBack
        /\ sentWhenCongested' = IF Exceeds(n) THEN sentWhenCongested + 1 ELSE sentWhenCongested
        /\ IF NeedACK(n) THEN StartTimer(n) ELSE UNCHANGED timerVars
        /\ UpdateOnFlightBySentPktLen(n)
        /\ pendingPackets' = Tail(pendingPackets)
        /\ phase' = IF expired THEN "scan" ELSE "send"
        /\ UNCHANGED <<established, quarter, packets, ackedSentPktNum, acking,
                       congestionWindow, congestionState, expired>>

LeaveLoop ==
    /\ phase = "send"
    /\ pendingPackets # <<>> => Head(pendingPackets) \notin ackedSentPktNum /\ HoldsBack
    /\ phase' = "scan"
    /\ UNCHANGED <<established, quarter, packets, pendingPackets, timerVars, ackedSentPktNum,
                   acking, windowVars, passVars, counted>>

\* Every order in which a set of numbers can be queued.
Orders(numbers, size) == Bijection(1 .. size, numbers)

\* The variables of the pass end with it.
ForgetPass == expired' = FALSE /\ sentWhenCongested' = 0

\* Mutant: what is sent again goes to the front, as the comment before the scan says.
RetransmitInFront ==
    LET due == Numbers({e \in Entries : Due(e)}) \ Range(pendingPackets)
    IN  /\ phase = "scan"
        /\ \E size \in 0 .. MaxPktNum : \E order \in Orders(due, size) :
               pendingPackets' = order \o pendingPackets
        /\ phase' = "sleep"
        /\ ForgetPass
        /\ UNCHANGED <<established, quarter, packets, timerVars, ackedSentPktNum, acking,
                       windowVars, counted>>

\* The scan queues every number with an entry that is due and that is not queued yet.
\* The times it notes for the others go to a copy of the list.
Retransmit ==
    LET due == Numbers({e \in Entries : Due(e)}) \ Range(pendingPackets)
    IN  /\ phase = "scan"
        /\ \E size \in 0 .. MaxPktNum : \E order \in Orders(due, size) :
               pendingPackets' = pendingPackets \o order
        /\ phase' = "sleep"
        /\ ForgetPass
        /\ UNCHANGED <<established, quarter, packets, timerVars, ackedSentPktNum, acking,
                       windowVars, counted>>

PassStep == SkipAcked \/ SendPing \/ SendFront \/ LeaveLoop \/ Retransmit

AnyPass == \E others, idle, streams \in BOOLEAN : StartPass(others, idle, streams)

Next ==
    \/ Establish
    \/ Tick
    \/ Wake
    \/ \E kind \in Kinds, length \in Lengths : QueuePacket(kind, length)
    \/ \E acked \in SUBSET Waiting : ReceiveAck(acked)
    \/ RemoveAcked
    \/ KeepUnacked
    \/ AnyPass
    \/ PassStep

Spec == Init /\ [][Next]_vars

(***************************************************************************)
(* Fairness.  The clock goes on; a handler and a pass end; and the socket  *)
(* runs dry now and then, so that passes start.  Most of these find the    *)
(* idle timer running: the PING it asks for sets it to 10 s.  Whether any  *)
(* PTO ran out is left open, and no ACK need ever arrive.                  *)
(***************************************************************************)
QuietPass == \E others, streams \in BOOLEAN : StartPass(others, FALSE, streams)

Fairness ==
    /\ SF_vars(Tick)
    /\ WF_vars(Wake)
    /\ WF_vars(RemoveAcked \/ KeepUnacked)
    /\ SF_vars(QuietPass)
    /\ WF_vars(PassStep)

FairSpec == Spec /\ Fairness

-----------------------------------------------------------------------------
(* Properties.                                                             *)

PktNum == 1 .. MaxPktNum

PacketType == [kind : Kinds \cup {"ping"}, len : Lengths \cup {PingLength}]

EntryType == [pktNum : PktNum, age : 0 .. Oldest, left : Int]

RecoveryTypeOK ==
    /\ phase \in {"recv", "ack", "ping", "send", "scan", "sleep"}
    /\ established \in BOOLEAN
    /\ quarter \in {1, 3}
    /\ packets \in Seq(PacketType)
    /\ pendingPackets \in Seq(PktNum)
    /\ notACKedSentPkt \in Seq(EntryType)
    /\ copies \in SUBSET EntryType
    /\ ackedSentPktNum \in SUBSET PktNum
    /\ acking \in SUBSET PktNum
    /\ congestionWindow \in Nat
    /\ congestionState \in {"SLOW_START", "CONGESTION_AVOIDANCE"}
    /\ onFlight \in Nat
    /\ expired \in BOOLEAN
    /\ sentWhenCongested \in 0 .. BeyondWindow
    /\ counted \in SUBSET PktNum

SumOfLengths(numbers) ==
    SumFunctionOnSet([n \in DOMAIN packets |-> packets[n].len], numbers)

\* The window opens once for a packet, however often it was sent and acknowledged
\* (connection.hh:514-539, UpdateCongestionWindowByACK).
WindowIsEarned ==
    established => congestionWindow <= InitialWindow + SumOfLengths(ackedSentPktNum \cup acking)

\* The window stops growing with the packet that passes the threshold: the quotient that
\* congestion avoidance adds is 0 for every packet there is (connection.hh:887-897).
WindowIsBounded ==
    /\ congestionWindow <= Threshold + MAX_PACKET_LENGTH
    /\ congestionState = "CONGESTION_AVOIDANCE" <=> congestionWindow > Threshold

\* The window never takes the network for emptier than it is, except for packets that
\* were sent before ESTABLISHED only, whose ACKs free room they never took
\* (connection.hh:534-537, connection.hh:899-903).
InFlightIsCounted ==
    LET landed == ackedSentPktNum \cup (acking \ Waiting)
    IN  SumOfLengths(counted \cap Waiting) <= onFlight + SumOfLengths(landed \ counted)

Queued(n) == n \in Range(pendingPackets)

\* Nothing before n in the queue, nor n itself, is sent without needACK.
OnlyNeedACKBefore(n) ==
    \E k \in DOMAIN pendingPackets :
        pendingPackets[k] = n /\ \A j \in 1 .. k : NeedACK(pendingPackets[j])

\* Whatever onFlight has become, and though a PTO be expired in every pass, a packet
\* leaves the queue if it and those before it are ack-eliciting: no stream of PINGs and no
\* retransmission overtakes it for ever (quic.cc:307-390).
QueuedIsSent ==
    \A n \in PktNum : OnlyNeedACKBefore(n) ~> ~Queued(n)

\* Behind a packet without needACK it depends on the PTO: with one expired in every pass,
\* PINGs are all that is sent (quic.cc:307, quic.cc:387).  If passes without one recur,
\* every packet leaves the queue.
EverythingIsSent ==
    []<>(phase = "send" /\ ~expired) => \A n \in PktNum : Queued(n) ~> ~Queued(n)

\* A packet that stays unacknowledged is queued again, though every ACK that arrives
\* sets the times of all packets anew.
UnackedIsRetransmitted ==
    \A n \in PktNum : n \in Waiting ~> (Queued(n) \/ n \notin Waiting)
=============================================================================
