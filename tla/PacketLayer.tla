----------------------------- MODULE PacketLayer -----------------------------
(***************************************************************************)
(* The packet bookkeeping of one ESTABLISHED connection, at both ends.     *)
(* It is the part of class Connection (src/src/context/connection.hh) that *)
(* numbers packets, queues them, remembers the ones that wait for an ACK,  *)
(* retransmits them and recognises the duplicates, driven by the passes of *)
(* QUIC::SocketLoop (src/src/context/quic.cc) over an unreliable network.  *)
(*                                                                         *)
(* What a packet carries is a frame, an uninterpreted value of one of four *)
(* classes that differ in how incomingMsg treats the packet.  The modules  *)
(* that model what the frames mean extend this one.                        *)
(*                                                                         *)
(* Time does not appear.  A timer test of the code (the retransmission     *)
(* test, an expired PTO, an expired idle timer) is a choice that may fall  *)
(* either way.  The congestion window appears as the choice to leave the   *)
(* send loop after any packet.                                             *)
(***************************************************************************)
EXTENDS Naturals, Sequences, FiniteSets, Functions

CONSTANTS
    Client, Server,
    OnceFrame,    \* handled once: the handler tests HaveReceivedPkt first
                  \* (STREAM, RESET_STREAM, CONNECTION_CLOSE)
    RepeatFrame,  \* handled at every copy of the packet that arrives (MAX_DATA,
                  \* MAX_STREAM_DATA, MAX_STREAMS, DATA_BLOCKED, STREAM_DATA_BLOCKED)
    NoAckFrame,   \* the frames of OnceFrame queued with AddWhetherNeedACK(false)
    Ping,         \* the PING frame: in state ESTABLISHED its handler does nothing
    MaxPktNum,    \* bound: the packet numbers each peer may use
    MaxProbes     \* bound: how many of them may be PINGs

Peer == {Client, Server}
Other(p) == IF p = Client THEN Server ELSE Client

Frame == OnceFrame \cup RepeatFrame \cup {Ping}

ASSUME PeersAssumption == Client # Server
ASSUME FrameAssumption == /\ Ping \notin OnceFrame \cup RepeatFrame
                          /\ OnceFrame \cap RepeatFrame = {}
                          /\ NoAckFrame \subseteq OnceFrame
ASSUME BoundAssumption == MaxPktNum \in [Peer -> Nat]

VARIABLES
    phase,            \* where the peer's SocketLoop pass is: it reads datagrams
                      \* ("recv"), empties pendingPackets ("send"), sends the ACK
                      \* and queues the retransmissions ("end"), then queues one
                      \* packet of data the application left behind ("unsent")
    nowPktNum,        \* the last packet number given out
    pendingPackets,   \* the queue of packets the next send loop puts on the wire
    toSendPktNum,     \* the numbers of the packets believed to be in that queue
    notACKedSentPkt,  \* the ack-eliciting packets sent and not yet acknowledged
    ackedSentPktNum,  \* every number the other peer has ever acknowledged
    recPktNum,        \* every number received and recorded
    inFlight,         \* packets the network kept, by destination
    acksInFlight,     \* ACK frames it kept, by destination: sets of numbers
    issued,           \* history: every packet the peer has queued
    handled           \* history: how often the frame of each number was handled

connectionVars == <<nowPktNum, pendingPackets, toSendPktNum, notACKedSentPkt,
                    ackedSentPktNum, recPktNum>>
networkVars == <<inFlight, acksInFlight>>
vars == <<phase, connectionVars, networkVars, issued, handled>>

PktNum == UNION {1 .. MaxPktNum[p] : p \in Peer}
Packet == [pktNum : PktNum, frame : Frame]
NeedACK(pkt) == pkt.frame \notin NoAckFrame
Numbers(packets) == {pkt.pktNum : pkt \in packets}

Init ==
    /\ phase = [p \in Peer |-> "recv"]
    /\ nowPktNum = [p \in Peer |-> 0]
    /\ pendingPackets = [p \in Peer |-> <<>>]
    /\ toSendPktNum = [p \in Peer |-> {}]
    /\ notACKedSentPkt = [p \in Peer |-> {}]
    /\ ackedSentPktNum = [p \in Peer |-> {}]
    /\ recPktNum = [p \in Peer |-> {}]
    /\ inFlight = [p \in Peer |-> {}]
    /\ acksInFlight = [p \in Peer |-> {}]
    /\ issued = [p \in Peer |-> {}]
    /\ handled = [p \in Peer |-> [n \in PktNum |-> 0]]

-----------------------------------------------------------------------------
(***************************************************************************)
(* Queueing.  Every caller takes a number with GetNewPktNum and hands the  *)
(* packet to AddPacket and its needACK flag to AddWhetherNeedACK; the two  *)
(* lists are one queue here, and the flag is NeedACK of the packet.        *)
(***************************************************************************)
NewPacket(p, frame) == [pktNum |-> nowPktNum[p] + 1, frame |-> frame]

GetNewPktNum(p) ==
    /\ nowPktNum[p] < MaxPktNum[p]
    /\ nowPktNum' = [nowPktNum EXCEPT ![p] = @ + 1]

\* Mutant: the number noted is the next one, not the packet's.
EnqueueNotesNext(p, pkt, queue) ==
    /\ pendingPackets' = [pendingPackets EXCEPT ![p] = queue]
    /\ toSendPktNum' = [toSendPktNum EXCEPT ![p] = @ \cup {pkt.pktNum + 1}]
    /\ issued' = [issued EXCEPT ![p] = @ \cup {pkt}]

Enqueue(p, pkt, queue) ==
    /\ pendingPackets' = [pendingPackets EXCEPT ![p] = queue]
    /\ toSendPktNum' = [toSendPktNum EXCEPT ![p] = @ \cup {pkt.pktNum}]
    /\ issued' = [issued EXCEPT ![p] = @ \cup {pkt}]

\* A frame goes to the back of the queue in a packet of its own.
AddPacket(p, frame) ==
    /\ GetNewPktNum(p)
    /\ LET pkt == NewPacket(p, frame)
       IN  Enqueue(p, pkt, Append(pendingPackets[p], pkt))

\* Mutant: the probe takes its number from nowPktNum without GetNewPktNum.
AddPacketToFrontReusingNumber(p, frame) ==
    /\ nowPktNum[p] > 0
    /\ LET pkt == [pktNum |-> nowPktNum[p], frame |-> frame]
       IN  Enqueue(p, pkt, <<pkt>> \o pendingPackets[p])
    /\ UNCHANGED nowPktNum

\* A probe goes to the front of the queue.
AddPacketToFront(p, frame) ==
    /\ GetNewPktNum(p)
    /\ LET pkt == NewPacket(p, frame)
       IN  Enqueue(p, pkt, <<pkt>> \o pendingPackets[p])

\* A callback of the application, or a handler, queues a packet.
QueuePacket(p, frame) ==
    /\ phase[p] = "recv"
    /\ AddPacket(p, frame)
    /\ UNCHANGED <<phase, notACKedSentPkt, ackedSentPktNum, recPktNum,
                   networkVars, handled>>

-----------------------------------------------------------------------------
(***************************************************************************)
(* Receiving.  A datagram is not consumed: the network may deliver it      *)
(* again, and in any order.                                                *)
(***************************************************************************)
HaveReceivedPkt(p, pkt) == pkt.pktNum \in recPktNum[p]

\* Mutant: no test for duplicates.
HandlesEvery(p, pkt) == pkt.frame \in OnceFrame \cup RepeatFrame

\* Whether the handler of the packet's frame runs to its end.
Handles(p, pkt) ==
    \/ pkt.frame \in OnceFrame /\ ~HaveReceivedPkt(p, pkt)
    \/ pkt.frame \in RepeatFrame

\* addNeedACKRecPkt and addRecPkt.  Every ACK names all of recPktNum, so the
\* list notACKedRecPkt of the code adds nothing and is left out.
RecordPacket(p, pkt) == recPktNum' = [recPktNum EXCEPT ![p] = @ \cup {pkt.pktNum}]

\* The history variable counts up to 2, enough to see a second handling.
CountHandled(p, pkt) ==
    handled' = [handled EXCEPT ![p][pkt.pktNum] = IF @ < 2 THEN @ + 1 ELSE @]

ReceivePacket(p, pkt) ==
    /\ phase[p] = "recv"
    /\ pkt \in inFlight[p]
    /\ Handles(p, pkt)
    /\ RecordPacket(p, pkt)
    /\ CountHandled(p, pkt)
    /\ UNCHANGED <<phase, nowPktNum, pendingPackets, toSendPktNum, notACKedSentPkt,
                   ackedSentPktNum, networkVars, issued>>

\* Mutant: an ACK covers every number up to the largest it names.
ReceiveAckCumulative(p, acked) ==
    LET upTo == {n \in PktNum : \E m \in acked : n <= m}
    IN  /\ phase[p] = "recv"
        /\ acked \in acksInFlight[p]
        /\ notACKedSentPkt' = [notACKedSentPkt EXCEPT ![p] =
                                  {pkt \in @ : pkt.pktNum \notin upTo}]
        /\ ackedSentPktNum' = [ackedSentPktNum EXCEPT ![p] = @ \cup upTo]
        /\ UNCHANGED <<phase, nowPktNum, pendingPackets, toSendPktNum, recPktNum,
                       networkVars, issued, handled>>

\* Mutant: only the largest number of an ACK is looked at.
ReceiveAckLargest(p, acked) ==
    LET largest == {n \in acked : \A m \in acked : m <= n}
    IN  /\ phase[p] = "recv"
        /\ acked \in acksInFlight[p]
        /\ notACKedSentPkt' = [notACKedSentPkt EXCEPT ![p] =
                                  {pkt \in @ : pkt.pktNum \notin largest}]
        /\ ackedSentPktNum' = [ackedSentPktNum EXCEPT ![p] = @ \cup largest]
        /\ UNCHANGED <<phase, nowPktNum, pendingPackets, toSendPktNum, recPktNum,
                       networkVars, issued, handled>>

\* remNeedACKPkt and AddAckedSentPktNum, for an ACK frame that names `acked`.
ReceiveAck(p, acked) ==
    /\ phase[p] = "recv"
    /\ acked \in acksInFlight[p]
    /\ notACKedSentPkt' = [notACKedSentPkt EXCEPT ![p] =
                              {pkt \in @ : pkt.pktNum \notin acked}]
    /\ ackedSentPktNum' = [ackedSentPktNum EXCEPT ![p] = @ \cup acked]
    /\ UNCHANGED <<phase, nowPktNum, pendingPackets, toSendPktNum, recPktNum,
                   networkVars, issued, handled>>

-----------------------------------------------------------------------------
(***************************************************************************)
(* One pass of the loop after the socket ran dry.                          *)
(***************************************************************************)
\* No timer asks for a probe.
StartSending(p) ==
    /\ phase[p] = "recv"
    /\ phase' = [phase EXCEPT ![p] = "send"]
    /\ UNCHANGED <<connectionVars, networkVars, issued, handled>>

FrontIsPing(p) == pendingPackets[p] # <<>> /\ Head(pendingPackets[p]).frame = Ping

FrontNeedsACK(p) == pendingPackets[p] # <<>> /\ NeedACK(Head(pendingPackets[p]))

\* A PING is put at the front: the idle timer expired while packets wait for an ACK
\* and no PING is there yet, or a PTO did, of any connection of the program, and
\* nothing ack-eliciting is there.
Probe(p) ==
    /\ phase[p] = "recv"
    /\ \/ notACKedSentPkt[p] # {} /\ ~FrontIsPing(p)
       \/ ~FrontNeedsACK(p)
    /\ Cardinality({pkt \in issued[p] : pkt.frame = Ping}) < MaxProbes
    /\ AddPacketToFront(p, Ping)
    /\ phase' = [phase EXCEPT ![p] = "send"]
    /\ UNCHANGED <<notACKedSentPkt, ackedSentPktNum, recPktNum, networkVars, handled>>

\* Mutant: RemoveToSendPktNum is forgotten.
DequeueKeepingNumber(p) ==
    /\ pendingPackets' = [pendingPackets EXCEPT ![p] = Tail(@)]
    /\ UNCHANGED toSendPktNum

Dequeue(p) ==
    /\ pendingPackets' = [pendingPackets EXCEPT ![p] = Tail(@)]
    /\ toSendPktNum' = [toSendPktNum EXCEPT ![p] = @ \ {Head(pendingPackets[p]).pktNum}]

\* The front packet was acknowledged since it was queued: it is not sent again.
SkipAcked(p) ==
    /\ phase[p] = "send"
    /\ pendingPackets[p] # <<>>
    /\ Head(pendingPackets[p]).pktNum \in ackedSentPktNum[p]
    /\ Dequeue(p)
    /\ UNCHANGED <<phase, nowPktNum, notACKedSentPkt, ackedSentPktNum, recPktNum,
                   networkVars, issued, handled>>

\* Mutant: the front packet is sent without a look at ackedSentPktNum.
SendFrontUnchecked(p, kept) ==
    /\ phase[p] = "send"
    /\ pendingPackets[p] # <<>>
    /\ LET pkt == Head(pendingPackets[p])
       IN  /\ notACKedSentPkt' = [notACKedSentPkt EXCEPT ![p] =
                                     IF NeedACK(pkt) THEN @ \cup {pkt} ELSE @]
           /\ inFlight' = [inFlight EXCEPT ![Other(p)] =
                              IF kept THEN @ \cup {pkt} ELSE @]
    /\ Dequeue(p)
    /\ \E next \in {"send", "end"} : phase' = [phase EXCEPT ![p] = next]
    /\ UNCHANGED <<nowPktNum, ackedSentPktNum, recPktNum, acksInFlight, issued, handled>>

\* The front packet is sent, and the network keeps it or loses it.  The loop goes
\* on, or breaks: after one packet when a PTO expired, after two when the congestion
\* window is exceeded.
SendFront(p, kept) ==
    /\ phase[p] = "send"
    /\ pendingPackets[p] # <<>>
    /\ LET pkt == Head(pendingPackets[p])
       IN  /\ pkt.pktNum \notin ackedSentPktNum[p]
           /\ notACKedSentPkt' = [notACKedSentPkt EXCEPT ![p] =
                                     IF NeedACK(pkt) THEN @ \cup {pkt} ELSE @]
           /\ inFlight' = [inFlight EXCEPT ![Other(p)] =
                              IF kept THEN @ \cup {pkt} ELSE @]
    /\ Dequeue(p)
    /\ \E next \in {"send", "end"} : phase' = [phase EXCEPT ![p] = next]
    /\ UNCHANGED <<nowPktNum, ackedSentPktNum, recPktNum, acksInFlight, issued, handled>>

\* Mutant: a packet still in the queue is queued again.
RetransmittableEvenQueued(p) == notACKedSentPkt[p]

\* What the scan of notACKedSentPkt may retransmit.
Retransmittable(p) == {pkt \in notACKedSentPkt[p] : pkt.pktNum \notin toSendPktNum[p]}

\* Every order in which a set of packets can be queued.
Orders(packets, size) == Bijection(1 .. size, packets)

\* The pass sends an ACK of everything received, which the network keeps or loses;
\* then the packets whose timer ran out go back to the queue, under the numbers
\* they have.
AckAndRetransmit(p, kept, due) ==
    /\ \/ phase[p] = "end"
       \/ phase[p] = "send" /\ pendingPackets[p] = <<>>
    /\ acksInFlight' = [acksInFlight EXCEPT ![Other(p)] =
                           IF kept /\ recPktNum[p] # {} THEN @ \cup {recPktNum[p]} ELSE @]
    /\ due \subseteq Retransmittable(p)
    /\ \E size \in 0 .. MaxPktNum[p] : \E order \in Orders(due, size) :
           pendingPackets' = [pendingPackets EXCEPT ![p] = @ \o order]
    /\ toSendPktNum' = [toSendPktNum EXCEPT ![p] = @ \cup Numbers(due)]
    /\ phase' = [phase EXCEPT ![p] = "unsent"]
    /\ UNCHANGED <<nowPktNum, notACKedSentPkt, ackedSentPktNum, recPktNum, inFlight,
                   issued, handled>>

\* The pass ends, with a packet from GetPktFromUnsentBuf or without one.
EndPass(p) ==
    /\ phase[p] = "unsent"
    /\ phase' = [phase EXCEPT ![p] = "recv"]
    /\ UNCHANGED <<connectionVars, networkVars, issued, handled>>

EndPassWithPacket(p, frame) ==
    /\ phase[p] = "unsent"
    /\ AddPacket(p, frame)
    /\ phase' = [phase EXCEPT ![p] = "recv"]
    /\ UNCHANGED <<notACKedSentPkt, ackedSentPktNum, recPktNum, networkVars, handled>>

-----------------------------------------------------------------------------
Endpoint(p) ==
    \/ \E frame \in OnceFrame \cup RepeatFrame : QueuePacket(p, frame)
    \/ \E pkt \in inFlight[p] : ReceivePacket(p, pkt)
    \/ \E acked \in acksInFlight[p] : ReceiveAck(p, acked)
    \/ StartSending(p)
    \/ Probe(p)
    \/ SkipAcked(p)
    \/ \E kept \in BOOLEAN : SendFront(p, kept)
    \/ \E kept \in BOOLEAN, due \in SUBSET Retransmittable(p) :
           AckAndRetransmit(p, kept, due)
    \/ EndPass(p)
    \/ \E frame \in OnceFrame \cup RepeatFrame : EndPassWithPacket(p, frame)

Next == \E p \in Peer : Endpoint(p)

Spec == Init /\ [][Next]_vars

(***************************************************************************)
(* Fairness.  The loop never blocks for good, so every step of a pass is   *)
(* taken, and passes without a probe recur: the idle timer is pushed back  *)
(* by the probe, and the PTO asks for one only while nothing ack-eliciting *)
(* is at the front, where what waits for an ACK comes again.  This needs   *)
(* NoAckFrame to be empty: behind a packet of that class a PTO that stays  *)
(* expired sends PINGs alone (Recovery).  A packet that stays              *)
(* unacknowledged is due in some later pass.  The network does not lose    *)
(* every copy of a packet that is sent for ever, nor every ACK, and what   *)
(* it keeps is read.                                                       *)
(***************************************************************************)
SendKept(p, n) == SendFront(p, TRUE) /\ Head(pendingPackets[p]).pktNum = n

PassFairness(p) ==
    /\ SF_vars(StartSending(p))
    /\ WF_vars(SkipAcked(p))
    /\ WF_vars(\E kept \in BOOLEAN : SendFront(p, kept))
    /\ SF_vars(AckAndRetransmit(p, TRUE, Retransmittable(p)))
    /\ WF_vars(EndPass(p))

NetworkFairness(p) == \A n \in 1 .. MaxPktNum[p] :
    /\ SF_vars(SendKept(p, n))
    /\ SF_vars(\E pkt \in inFlight[Other(p)] :
                   pkt.pktNum = n /\ ReceivePacket(Other(p), pkt))
    /\ SF_vars(\E acked \in acksInFlight[p] : n \in acked /\ ReceiveAck(p, acked))

FairSpec == Spec /\ \A p \in Peer : PassFairness(p) /\ NetworkFairness(p)

-----------------------------------------------------------------------------
(* Properties.                                                             *)

TypeOK ==
    /\ phase \in [Peer -> {"recv", "send", "end", "unsent"}]
    /\ nowPktNum \in [Peer -> Nat]
    /\ pendingPackets \in [Peer -> Seq(Packet)]
    /\ toSendPktNum \in [Peer -> SUBSET PktNum]
    /\ notACKedSentPkt \in [Peer -> SUBSET Packet]
    /\ ackedSentPktNum \in [Peer -> SUBSET PktNum]
    /\ recPktNum \in [Peer -> SUBSET PktNum]
    /\ inFlight \in [Peer -> SUBSET Packet]
    /\ acksInFlight \in [Peer -> SUBSET SUBSET PktNum]
    /\ issued \in [Peer -> SUBSET Packet]
    /\ handled \in [Peer -> [PktNum -> 0 .. 2]]

\* A number stands for one packet only: the code keys its duplicate test, its
\* ACKs and its retransmissions by number alone (connection.hh:736, 486, 761).
NumberNamesOnePacket ==
    \A p \in Peer : \A a, b \in issued[p] : a.pktNum = b.pktNum => a = b

QueueNumbers(queue) == {queue[i].pktNum : i \in DOMAIN queue}
DistinctNumbers(queue) ==
    \A i, j \in DOMAIN queue : queue[i].pktNum = queue[j].pktNum => i = j

\* toSendPktNum names exactly the queued packets, and none is queued twice, so the
\* retransmission test WhetherToSendPktNum (quic.cc:492) can be trusted.
QueueMatchesToSend ==
    \A p \in Peer : /\ toSendPktNum[p] = QueueNumbers(pendingPackets[p])
                     /\ DistinctNumbers(pendingPackets[p])

\* A number acknowledged to the sender was recorded by the receiver, however the
\* ACKs were lost, repeated or overtaken: only then may the sender forget a packet
\* (connection.hh:486-599).
AckedWasReceived ==
    \A p \in Peer : ackedSentPktNum[p] \subseteq recPktNum[Other(p)]

\* An ack-eliciting packet that was queued and has not reached the other peer is
\* still queued or still waiting for its ACK: nothing is forgotten between the
\* queue, the wire and notACKedSentPkt.
NothingForgotten ==
    \A p \in Peer : \A pkt \in issued[p] :
        NeedACK(pkt) =>
            \/ pkt.pktNum \in recPktNum[Other(p)]
            \/ pkt \in notACKedSentPkt[p]
            \/ pkt \in Range(pendingPackets[p])

\* An acknowledged packet does not come back: not even one that was queued for
\* retransmission when its ACK came waits for an ACK again (quic.cc:338-343).
AckedStaysAcked ==
    \A p \in Peer : Numbers(notACKedSentPkt[p]) \cap ackedSentPktNum[p] = {}

\* The handlers that test for duplicates run once for a packet, whatever the
\* network duplicates and the sender retransmits; a packet counted as received
\* was handled.
HandledOnce ==
    \A p \in Peer : \A pkt \in issued[Other(p)] :
        pkt.frame \in OnceFrame =>
            handled[p][pkt.pktNum] = IF HaveReceivedPkt(p, pkt) THEN 1 ELSE 0

\* The strengthening that makes the invariants above inductive: whatever is queued,
\* unacknowledged or in the network was issued, with a number given out before; what
\* was received was issued by the other peer; an ACK names only recorded numbers;
\* a number not recorded was not handled.
KnownPackets ==
    \A p \in Peer :
        /\ Range(pendingPackets[p]) \subseteq issued[p]
        /\ notACKedSentPkt[p] \subseteq issued[p]
        /\ inFlight[Other(p)] \subseteq issued[p]
        /\ \A pkt \in issued[p] : pkt.pktNum <= nowPktNum[p]
        /\ \A n \in recPktNum[Other(p)] : n <= nowPktNum[p]
        /\ \A acked \in acksInFlight[p] : acked \subseteq recPktNum[Other(p)]
        /\ \A n \in PktNum : n \notin recPktNum[p] => handled[p][n] = 0

PacketInv ==
    /\ TypeOK
    /\ KnownPackets
    /\ NumberNamesOnePacket
    /\ QueueMatchesToSend
    /\ AckedWasReceived
    /\ NothingForgotten
    /\ AckedStaysAcked
    /\ HandledOnce

\* Retransmission reaches its end: an ack-eliciting packet other than a PING is
\* recorded by the other peer in the end, and then its sender learns of it.
EventuallyReceived ==
    \A p \in Peer : \A n \in 1 .. MaxPktNum[p] :
        (\E pkt \in issued[p] : pkt.pktNum = n /\ NeedACK(pkt) /\ pkt.frame # Ping)
            ~> n \in recPktNum[Other(p)]

EventuallySettled ==
    \A p \in Peer : \A n \in 1 .. MaxPktNum[p] :
        (\E pkt \in notACKedSentPkt[p] : pkt.pktNum = n /\ pkt.frame # Ping)
            ~> n \notin Numbers(notACKedSentPkt[p])

\* quic.cc:194: "Need to send an ACKFrame for a received packet that needs to ACK
\* back", said of every packet sent with needACK; a PING is one of them.
EveryNeedACKSettles ==
    \A p \in Peer : \A n \in 1 .. MaxPktNum[p] :
        n \in Numbers(notACKedSentPkt[p]) ~> n \notin Numbers(notACKedSentPkt[p])

=============================================================================
