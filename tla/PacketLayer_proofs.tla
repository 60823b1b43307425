-------------------------- MODULE PacketLayer_proofs --------------------------
(***************************************************************************)
(* Proofs about PacketLayer, for every set of frames and every bound.      *)
(***************************************************************************)
EXTENDS PacketLayer, TLAPS

\* The peers are two.
LEMMA OtherPeer ==
    \A p \in Peer : Other(p) \in Peer /\ Other(p) # p /\ Other(Other(p)) = p
BY PeersAssumption DEF Peer, Other

\* A packet under a new number is a packet: the bound on numbers is kept.
LEMMA NewPacketTyped ==
    ASSUME NEW p \in Peer, NEW frame \in Frame,
           nowPktNum \in [Peer -> Nat], nowPktNum[p] < MaxPktNum[p]
    PROVE  NewPacket(p, frame) \in Packet
<1>1. nowPktNum[p] + 1 \in 1 .. MaxPktNum[p]
  BY BoundAssumption
<1>2. nowPktNum[p] + 1 \in PktNum
  BY <1>1 DEF PktNum
<1> QED
  BY <1>2 DEF NewPacket, Packet

\* Queueing a packet keeps the types, at the back of the queue
LEMMA AddPacketTyped ==
    ASSUME TypeOK, NEW p \in Peer, NEW frame \in Frame, AddPacket(p, frame)
    PROVE  /\ nowPktNum' \in [Peer -> Nat]
           /\ pendingPackets' \in [Peer -> Seq(Packet)]
           /\ toSendPktNum' \in [Peer -> SUBSET PktNum]
           /\ issued' \in [Peer -> SUBSET Packet]
<1> DEFINE pkt == NewPacket(p, frame)
<1>1. pkt \in Packet /\ pkt.pktNum \in PktNum
  BY NewPacketTyped DEF TypeOK, AddPacket, GetNewPktNum, Packet
<1>2. Append(pendingPackets[p], pkt) \in Seq(Packet)
  BY <1>1 DEF TypeOK
<1> QED
  BY <1>1, <1>2 DEF TypeOK, AddPacket, GetNewPktNum, Enqueue

\* and at its front.
LEMMA AddPacketToFrontTyped ==
    ASSUME TypeOK, NEW p \in Peer, NEW frame \in Frame, AddPacketToFront(p, frame)
    PROVE  /\ nowPktNum' \in [Peer -> Nat]
           /\ pendingPackets' \in [Peer -> Seq(Packet)]
           /\ toSendPktNum' \in [Peer -> SUBSET PktNum]
           /\ issued' \in [Peer -> SUBSET Packet]
<1> DEFINE pkt == NewPacket(p, frame)
<1>1. pkt \in Packet /\ pkt.pktNum \in PktNum
  BY NewPacketTyped DEF TypeOK, AddPacketToFront, GetNewPktNum, Packet
<1>2. <<pkt>> \o pendingPackets[p] \in Seq(Packet)
  BY <1>1 DEF TypeOK
<1> QED
  BY <1>1, <1>2 DEF TypeOK, AddPacketToFront, GetNewPktNum, Enqueue

\* So does taking the front packet off the queue.
LEMMA DequeueTyped ==
    ASSUME TypeOK, NEW p \in Peer, pendingPackets[p] # <<>>, Dequeue(p)
    PROVE  /\ pendingPackets' \in [Peer -> Seq(Packet)]
           /\ toSendPktNum' \in [Peer -> SUBSET PktNum]
           /\ Head(pendingPackets[p]) \in Packet
BY DEF TypeOK, Dequeue

\* Every state of every behaviour is well typed: in particular no packet is numbered
\* beyond the numbers given out by GetNewPktNum.
THEOREM TypeCorrect == Spec => []TypeOK
<1>1. Init => TypeOK
  BY DEF Init, TypeOK
<1>2. TypeOK /\ [Next]_vars => TypeOK'
  <2> SUFFICES ASSUME TypeOK, [Next]_vars PROVE TypeOK'
    OBVIOUS
  <2>1. CASE UNCHANGED vars
    BY <2>1 DEF TypeOK, vars, connectionVars, networkVars
  <2>2. ASSUME NEW p \in Peer, Endpoint(p) PROVE TypeOK'
    <3>1. ASSUME NEW frame \in OnceFrame \cup RepeatFrame, QueuePacket(p, frame)
          PROVE  TypeOK'
      BY <3>1, AddPacketTyped DEF TypeOK, QueuePacket, Frame, networkVars
    <3>2. ASSUME NEW pkt \in inFlight[p], ReceivePacket(p, pkt) PROVE TypeOK'
      <4>1. pkt.pktNum \in PktNum
        BY DEF TypeOK, Packet
      <4>2. handled' \in [Peer -> [PktNum -> 0 .. 2]]
        BY <3>2, <4>1 DEF TypeOK, ReceivePacket, CountHandled
      <4> QED
        BY <3>2, <4>1, <4>2 DEF TypeOK, ReceivePacket, RecordPacket, networkVars
    <3>3. ASSUME NEW acked \in acksInFlight[p], ReceiveAck(p, acked) PROVE TypeOK'
      BY <3>3 DEF TypeOK, ReceiveAck, networkVars
    <3>4. CASE StartSending(p)
      BY <3>4 DEF TypeOK, StartSending, connectionVars, networkVars
    <3>5. CASE Probe(p)
      BY <3>5, AddPacketToFrontTyped DEF TypeOK, Probe, Frame, networkVars
    <3>6. CASE SkipAcked(p)
      BY <3>6, DequeueTyped DEF TypeOK, SkipAcked, networkVars
    <3>7. ASSUME NEW kept \in BOOLEAN, SendFront(p, kept) PROVE TypeOK'
      BY <3>7, DequeueTyped, OtherPeer DEF TypeOK, SendFront
    <3>8. ASSUME NEW kept \in BOOLEAN, NEW due \in SUBSET Retransmittable(p),
                 AckAndRetransmit(p, kept, due)
          PROVE  TypeOK'
      <4>1. due \subseteq Packet
        BY DEF TypeOK, Retransmittable
      <4>2. PICK size \in 0 .. MaxPktNum[p] : \E order \in Orders(due, size) :
              pendingPackets' = [pendingPackets EXCEPT ![p] = @ \o order]
        BY <3>8 DEF AckAndRetransmit
      <4> PICK order \in Orders(due, size) :
              pendingPackets' = [pendingPackets EXCEPT ![p] = @ \o order]
        BY <4>2
      <4>3. order \in Seq(Packet)
        BY <4>1, <4>2, BoundAssumption DEF Orders, Bijection, Injection
      <4>4. pendingPackets' \in [Peer -> Seq(Packet)]
        BY <4>2, <4>3 DEF TypeOK
      <4>5. Numbers(due) \subseteq PktNum
        BY <4>1 DEF Numbers, Packet
      <4> QED
        BY <3>8, <4>4, <4>5, OtherPeer DEF TypeOK, AckAndRetransmit
    <3>9. CASE EndPass(p)
      BY <3>9 DEF TypeOK, EndPass, connectionVars, networkVars
    <3>10. ASSUME NEW frame \in OnceFrame \cup RepeatFrame, EndPassWithPacket(p, frame)
          PROVE  TypeOK'
      BY <3>10, AddPacketTyped DEF TypeOK, EndPassWithPacket, Frame, networkVars
    <3> QED
      BY <2>2, <3>1, <3>2, <3>3, <3>4, <3>5, <3>6, <3>7, <3>8, <3>9, <3>10 DEF Endpoint
  <2> QED
    BY <2>1, <2>2 DEF Next
<1> QED
  BY <1>1, <1>2, PTL DEF Spec

-----------------------------------------------------------------------------
(***************************************************************************)
(* The bookkeeping invariants.                                             *)
(***************************************************************************)
Bookkeeping == /\ KnownPackets
               /\ NumberNamesOnePacket
               /\ QueueMatchesToSend
               /\ AckedWasReceived
               /\ NothingForgotten
               /\ AckedStaysAcked
               /\ HandledOnce

\* What the queue becomes when a packet with a new number is appended to it,
LEMMA AppendQueue ==
    ASSUME NEW queue \in Seq(Packet), NEW pkt \in Packet, DistinctNumbers(queue),
           pkt.pktNum \notin QueueNumbers(queue)
    PROVE  LET new == Append(queue, pkt)
           IN  /\ DistinctNumbers(new)
               /\ QueueNumbers(new) = QueueNumbers(queue) \cup {pkt.pktNum}
               /\ Range(new) = Range(queue) \cup {pkt}
<1> DEFINE new == Append(queue, pkt)
<1>1. /\ DOMAIN new = DOMAIN queue \cup {Len(queue) + 1}
      /\ Len(queue) + 1 \notin DOMAIN queue
      /\ \A i \in DOMAIN queue : new[i] = queue[i]
      /\ new[Len(queue) + 1] = pkt
  OBVIOUS
<1> QED
  BY <1>1 DEF DistinctNumbers, QueueNumbers, Range

\* put before it,
LEMMA PrependQueue ==
    ASSUME NEW queue \in Seq(Packet), NEW pkt \in Packet, DistinctNumbers(queue),
           pkt.pktNum \notin QueueNumbers(queue)
    PROVE  LET new == <<pkt>> \o queue
           IN  /\ DistinctNumbers(new)
               /\ QueueNumbers(new) = QueueNumbers(queue) \cup {pkt.pktNum}
               /\ Range(new) = Range(queue) \cup {pkt}
<1> DEFINE new == <<pkt>> \o queue
<1>1. /\ new \in Seq(Packet)
      /\ Len(new) = Len(queue) + 1
      /\ new[1] = pkt
      /\ \A i \in 1 .. Len(queue) : new[i + 1] = queue[i]
  OBVIOUS
<1>2. \A j \in DOMAIN new : j = 1 \/ (j - 1 \in DOMAIN queue /\ new[j] = queue[j - 1])
  <2> SUFFICES ASSUME NEW j \in DOMAIN new, j # 1
               PROVE  j - 1 \in DOMAIN queue /\ new[j] = queue[j - 1]
    OBVIOUS
  <2>1. j - 1 \in 1 .. Len(queue) /\ (j - 1) + 1 = j
    BY <1>1
  <2> QED
    BY <2>1, <1>1
<1>3. \A i \in DOMAIN queue : i + 1 \in DOMAIN new /\ new[i + 1] = queue[i]
  BY <1>1
<1>4. 1 \in DOMAIN new
  BY <1>1
<1>5. DistinctNumbers(new)
  <2> SUFFICES ASSUME NEW i \in DOMAIN new, NEW j \in DOMAIN new,
                      new[i].pktNum = new[j].pktNum
               PROVE  i = j
    BY DEF DistinctNumbers
  <2>1. CASE i = 1 /\ j = 1
    BY <2>1
  <2>2. CASE i = 1 /\ j # 1
    BY <2>2, <1>1, <1>2 DEF QueueNumbers
  <2>3. CASE i # 1 /\ j = 1
    BY <2>3, <1>1, <1>2 DEF QueueNumbers
  <2>4. CASE i # 1 /\ j # 1
    <3>1. i - 1 = j - 1
      BY <2>4, <1>2 DEF DistinctNumbers
    <3>2. i \in Nat /\ j \in Nat
      BY <1>1
    <3> QED
      BY <3>1, <3>2
  <2> QED
    BY <2>1, <2>2, <2>3, <2>4
<1>6. QueueNumbers(new) = QueueNumbers(queue) \cup {pkt.pktNum}
  <2>1. QueueNumbers(new) \subseteq QueueNumbers(queue) \cup {pkt.pktNum}
    BY <1>1, <1>2 DEF QueueNumbers
  <2>2. QueueNumbers(queue) \subseteq QueueNumbers(new)
    <3> SUFFICES ASSUME NEW i \in DOMAIN queue
                 PROVE  queue[i].pktNum \in QueueNumbers(new)
      BY DEF QueueNumbers
    <3> QED
      BY <1>3 DEF QueueNumbers
  <2>3. pkt.pktNum \in QueueNumbers(new)
    BY <1>1, <1>4 DEF QueueNumbers
  <2> QED
    BY <2>1, <2>2, <2>3
<1>7. Range(new) = Range(queue) \cup {pkt}
  <2>1. Range(new) \subseteq Range(queue) \cup {pkt}
    BY <1>1, <1>2 DEF Range
  <2>2. Range(queue) \subseteq Range(new)
    <3> SUFFICES ASSUME NEW i \in DOMAIN queue PROVE queue[i] \in Range(new)
      BY DEF Range
    <3> QED
      BY <1>3 DEF Range
  <2>3. pkt \in Range(new)
    BY <1>1, <1>4 DEF Range
  <2> QED
    BY <2>1, <2>2, <2>3
<1> QED
  BY <1>5, <1>6, <1>7

\* or taken from its front,
LEMMA TailQueue ==
    ASSUME NEW queue \in Seq(Packet), queue # <<>>, DistinctNumbers(queue)
    PROVE  /\ DistinctNumbers(Tail(queue))
           /\ QueueNumbers(Tail(queue)) = QueueNumbers(queue) \ {Head(queue).pktNum}
           /\ Range(queue) = Range(Tail(queue)) \cup {Head(queue)}
<1> DEFINE new == Tail(queue)
<1>1. /\ new \in Seq(Packet)
      /\ Len(new) = Len(queue) - 1
      /\ \A i \in 1 .. Len(new) : new[i] = queue[i + 1]
      /\ Head(queue) = queue[1]
      /\ 1 \in DOMAIN queue
      /\ Len(queue) \in Nat \ {0}
  OBVIOUS
<1>2. \A i \in DOMAIN new : i + 1 \in DOMAIN queue /\ i + 1 # 1 /\ new[i] = queue[i + 1]
  BY <1>1
<1>3. \A j \in DOMAIN queue : j # 1 => j - 1 \in DOMAIN new /\ new[j - 1] = queue[j]
  <2> SUFFICES ASSUME NEW j \in DOMAIN queue, j # 1
               PROVE  j - 1 \in DOMAIN new /\ new[j - 1] = queue[j]
    OBVIOUS
  <2>1. j - 1 \in 1 .. Len(new) /\ (j - 1) + 1 = j
    BY <1>1
  <2> QED
    BY <2>1, <1>1
<1>4. DistinctNumbers(new)
  <2> SUFFICES ASSUME NEW i \in DOMAIN new, NEW j \in DOMAIN new,
                      new[i].pktNum = new[j].pktNum
               PROVE  i = j
    BY DEF DistinctNumbers
  <2>1. i + 1 = j + 1
    BY <1>2 DEF DistinctNumbers
  <2>2. i \in Nat /\ j \in Nat
    BY <1>1
  <2> QED
    BY <2>1, <2>2
<1>5. QueueNumbers(new) = QueueNumbers(queue) \ {Head(queue).pktNum}
  <2>1. ASSUME NEW i \in DOMAIN new
        PROVE  new[i].pktNum \in QueueNumbers(queue) \ {Head(queue).pktNum}
    <3>1. /\ i + 1 \in DOMAIN queue
          /\ i + 1 # 1
          /\ new[i] = queue[i + 1]
      BY <1>2
    <3>2. queue[i + 1].pktNum # queue[1].pktNum
      BY <3>1, <1>1 DEF DistinctNumbers
    <3> QED
      BY <3>1, <3>2, <1>1 DEF QueueNumbers
  <2>2. ASSUME NEW j \in DOMAIN queue, queue[j].pktNum # Head(queue).pktNum
        PROVE  queue[j].pktNum \in QueueNumbers(new)
    <3>1. j - 1 \in DOMAIN new /\ new[j - 1] = queue[j]
      BY <2>2, <1>1, <1>3
    <3> QED
      BY <3>1 DEF QueueNumbers
  <2> QED
    BY <2>1, <2>2 DEF QueueNumbers
<1>6. Range(queue) = Range(new) \cup {Head(queue)}
  <2>1. ASSUME NEW j \in DOMAIN queue, j # 1 PROVE queue[j] \in Range(new)
    <3>1. j - 1 \in DOMAIN new /\ new[j - 1] = queue[j]
      BY <2>1, <1>3
    <3> QED
      BY <3>1 DEF Range
  <2>2. Range(new) \subseteq Range(queue)
    BY <1>2 DEF Range
  <2>3. Range(queue) \subseteq Range(new) \cup {queue[1]}
    BY <2>1 DEF Range
  <2>4. queue[1] \in Range(queue)
    BY <1>1 DEF Range
  <2> QED
    BY <2>2, <2>3, <2>4, <1>1
<1> QED
  BY <1>4, <1>5, <1>6

\* or when packets whose numbers it lacks are appended in some order.
LEMMA ConcatQueue ==
    ASSUME NEW queue \in Seq(Packet), NEW due \in SUBSET Packet, NEW size \in Nat,
           NEW order \in Orders(due, size), DistinctNumbers(queue),
           \A a, b \in due : a.pktNum = b.pktNum => a = b,
           Numbers(due) \cap QueueNumbers(queue) = {}
    PROVE  LET new == queue \o order
           IN  /\ DistinctNumbers(new)
               /\ QueueNumbers(new) = QueueNumbers(queue) \cup Numbers(due)
               /\ Range(new) = Range(queue) \cup due
<1> DEFINE new == queue \o order
           n == Len(queue)
<1>1. /\ order \in [1 .. size -> due]
      /\ \A i, j \in 1 .. size : order[i] = order[j] => i = j
      /\ \A pkt \in due : \E i \in 1 .. size : order[i] = pkt
  BY DEF Orders, Bijection, Injection, Surjection, IsInjective
<1>2. /\ order \in Seq(Packet)
      /\ Len(order) = size
      /\ DOMAIN order = 1 .. size
  BY <1>1
<1>3. /\ new \in Seq(Packet)
      /\ Len(new) = n + size
      /\ DOMAIN new = 1 .. n + size
      /\ n \in Nat
      /\ DOMAIN queue = 1 .. n
  BY <1>2
<1>4. \A i \in DOMAIN queue : i \in DOMAIN new /\ new[i] = queue[i]
  BY <1>2, <1>3
<1>5. \A i \in 1 .. size : i + n \in DOMAIN new /\ new[i + n] = order[i]
  BY <1>2, <1>3
<1>6. \A i \in DOMAIN new :
        i \in DOMAIN queue \/ (i - n \in 1 .. size /\ new[i] = order[i - n])
  <2> SUFFICES ASSUME NEW i \in DOMAIN new, i \notin DOMAIN queue
               PROVE  i - n \in 1 .. size /\ new[i] = order[i - n]
    OBVIOUS
  <2>1. i - n \in 1 .. size /\ (i - n) + n = i
    BY <1>3
  <2> QED
    BY <2>1, <1>5
<1>7. \A i \in 1 .. size : order[i].pktNum \in Numbers(due)
  BY <1>1 DEF Numbers
<1>8. DistinctNumbers(new)
  <2> SUFFICES ASSUME NEW i \in DOMAIN new, NEW j \in DOMAIN new,
                      new[i].pktNum = new[j].pktNum
               PROVE  i = j
    BY DEF DistinctNumbers
  <2>1. CASE i \in DOMAIN queue /\ j \in DOMAIN queue
    BY <2>1, <1>4 DEF DistinctNumbers
  <2>2. CASE i \in DOMAIN queue /\ j \notin DOMAIN queue
    BY <2>2, <1>4, <1>6, <1>7 DEF QueueNumbers
  <2>3. CASE i \notin DOMAIN queue /\ j \in DOMAIN queue
    BY <2>3, <1>4, <1>6, <1>7 DEF QueueNumbers
  <2>4. CASE i \notin DOMAIN queue /\ j \notin DOMAIN queue
    <3>1. order[i - n] = order[j - n]
      BY <2>4, <1>1, <1>6
    <3>2. i - n = j - n
      BY <2>4, <3>1, <1>1, <1>6
    <3>3. i \in Nat /\ j \in Nat
      BY <1>3
    <3> QED
      BY <3>2, <3>3, <1>3
  <2> QED
    BY <2>1, <2>2, <2>3, <2>4
<1>9. QueueNumbers(new) = QueueNumbers(queue) \cup Numbers(due)
  <2>1. QueueNumbers(new) \subseteq QueueNumbers(queue) \cup Numbers(due)
    BY <1>4, <1>6, <1>7 DEF QueueNumbers
  <2>2. QueueNumbers(queue) \subseteq QueueNumbers(new)
    BY <1>4 DEF QueueNumbers
  <2>3. Numbers(due) \subseteq QueueNumbers(new)
    <3> SUFFICES ASSUME NEW pkt \in due PROVE pkt.pktNum \in QueueNumbers(new)
      BY DEF Numbers
    <3>1. PICK i \in 1 .. size : order[i] = pkt
      BY <1>1
    <3>2. i + n \in DOMAIN new /\ new[i + n] = pkt
      BY <3>1, <1>5
    <3> QED
      BY <3>2 DEF QueueNumbers
  <2> QED
    BY <2>1, <2>2, <2>3
<1>10. Range(new) = Range(queue) \cup due
  <2>1. Range(new) \subseteq Range(queue) \cup due
    BY <1>1, <1>4, <1>6 DEF Range
  <2>2. Range(queue) \subseteq Range(new)
    BY <1>4 DEF Range
  <2>3. due \subseteq Range(new)
    <3> SUFFICES ASSUME NEW pkt \in due PROVE pkt \in Range(new)
      OBVIOUS
    <3>1. PICK i \in 1 .. size : order[i] = pkt
      BY <1>1
    <3>2. i + n \in DOMAIN new /\ new[i + n] = pkt
      BY <3>1, <1>5
    <3> QED
      BY <3>2 DEF Range
  <2> QED
    BY <2>1, <2>2, <2>3
<1> QED
  BY <1>8, <1>9, <1>10

\* Queueing a packet under a new number, wherever in the queue it goes.
LEMMA EnqueueKeeps ==
    ASSUME TypeOK, Bookkeeping, NEW p \in Peer, NEW pkt \in Packet, NEW queue,
           pkt.pktNum = nowPktNum[p] + 1,
           nowPktNum' = [nowPktNum EXCEPT ![p] = @ + 1],
           Enqueue(p, pkt, queue),
           pkt.pktNum \notin QueueNumbers(pendingPackets[p]) =>
               /\ DistinctNumbers(queue)
               /\ QueueNumbers(queue) = QueueNumbers(pendingPackets[p]) \cup {pkt.pktNum}
               /\ Range(queue) = Range(pendingPackets[p]) \cup {pkt},
           UNCHANGED <<notACKedSentPkt, ackedSentPktNum, recPktNum, networkVars, handled>>
    PROVE  Bookkeeping'
<1> USE OtherPeer
<1>1. /\ pendingPackets' = [pendingPackets EXCEPT ![p] = queue]
      /\ toSendPktNum' = [toSendPktNum EXCEPT ![p] = @ \cup {pkt.pktNum}]
      /\ issued' = [issued EXCEPT ![p] = @ \cup {pkt}]
      /\ inFlight' = inFlight /\ acksInFlight' = acksInFlight
  BY DEF Enqueue, networkVars
<1>2. \A old \in issued[p] : old.pktNum <= nowPktNum[p] /\ old.pktNum # pkt.pktNum
  <2> SUFFICES ASSUME NEW old \in issued[p]
               PROVE  old.pktNum <= nowPktNum[p] /\ old.pktNum # pkt.pktNum
    OBVIOUS
  <2>1. old.pktNum <= nowPktNum[p] /\ old.pktNum \in Nat /\ nowPktNum[p] \in Nat
    BY BoundAssumption DEF Bookkeeping, KnownPackets, TypeOK, Packet, PktNum
  <2> QED
    BY <2>1
<1>3. pkt.pktNum \notin QueueNumbers(pendingPackets[p])
  BY <1>2 DEF Bookkeeping, KnownPackets, QueueNumbers, Range
<1>4. /\ DistinctNumbers(queue)
      /\ QueueNumbers(queue) = QueueNumbers(pendingPackets[p]) \cup {pkt.pktNum}
      /\ Range(queue) = Range(pendingPackets[p]) \cup {pkt}
  BY <1>3
<1>5. \A n \in recPktNum[Other(p)] : n \in Nat /\ n <= nowPktNum[p]
  BY BoundAssumption DEF Bookkeeping, KnownPackets, TypeOK, PktNum
<1>6. KnownPackets'
  <2> SUFFICES ASSUME NEW q \in Peer
               PROVE  /\ Range(pendingPackets'[q]) \subseteq issued'[q]
                      /\ notACKedSentPkt'[q] \subseteq issued'[q]
                      /\ inFlight'[Other(q)] \subseteq issued'[q]
                      /\ \A x \in issued'[q] : x.pktNum <= nowPktNum'[q]
                      /\ \A n \in recPktNum'[Other(q)] : n <= nowPktNum'[q]
                      /\ \A acked \in acksInFlight'[q] : acked \subseteq recPktNum'[Other(q)]
                      /\ \A n \in PktNum : n \notin recPktNum'[q] => handled'[q][n] = 0
    BY DEF KnownPackets
  <2>1. nowPktNum[p] \in Nat /\ \A x \in issued[p] : x.pktNum \in Nat
    BY BoundAssumption DEF TypeOK, Packet, PktNum
  <2>2. CASE q = p
    BY <2>1, <2>2, <1>1, <1>2, <1>4, <1>5 DEF Bookkeeping, KnownPackets, TypeOK
  <2>3. CASE q # p
    BY <2>3, <1>1 DEF Bookkeeping, KnownPackets, TypeOK
  <2> QED
    BY <2>2, <2>3
<1>7. NumberNamesOnePacket'
  BY <1>1, <1>2 DEF Bookkeeping, NumberNamesOnePacket, TypeOK
<1>8. QueueMatchesToSend'
  BY <1>1, <1>4 DEF Bookkeeping, QueueMatchesToSend, TypeOK
<1>9. AckedWasReceived'
  BY <1>1 DEF Bookkeeping, AckedWasReceived
<1>10. NothingForgotten'
  BY <1>1, <1>4 DEF Bookkeeping, NothingForgotten, TypeOK
<1>11. AckedStaysAcked'
  BY <1>1 DEF Bookkeeping, AckedStaysAcked
<1>12. HandledOnce'
  <2> SUFFICES ASSUME NEW q \in Peer, NEW x \in issued'[Other(q)], x.frame \in OnceFrame
               PROVE  handled[q][x.pktNum] = IF x.pktNum \in recPktNum[q] THEN 1 ELSE 0
    BY <1>1 DEF HandledOnce, HaveReceivedPkt
  <2>1. CASE x \in issued[Other(q)]
    BY <2>1 DEF Bookkeeping, HandledOnce, HaveReceivedPkt
  <2>2. CASE x = pkt /\ Other(q) = p
    <3>1. x.pktNum \notin recPktNum[q]
      BY <2>2, <1>5 DEF TypeOK
    <3> QED
      BY <2>2, <3>1 DEF Bookkeeping, KnownPackets, Packet
  <2> QED
    BY <1>1, <2>1, <2>2 DEF TypeOK
<1> QED
  BY <1>6, <1>7, <1>8, <1>9, <1>10, <1>11, <1>12 DEF Bookkeeping

\* AddPacket and AddPacketToFront, whichever action they are part of.
LEMMA AddPacketKeeps ==
    ASSUME TypeOK, Bookkeeping, NEW p \in Peer, NEW frame \in Frame,
           AddPacket(p, frame) \/ AddPacketToFront(p, frame),
           UNCHANGED <<notACKedSentPkt, ackedSentPktNum, recPktNum, networkVars, handled>>
    PROVE  Bookkeeping'
<1> DEFINE pkt == NewPacket(p, frame)
           queue == pendingPackets[p]
<1>1. pkt \in Packet /\ pkt.pktNum = nowPktNum[p] + 1
  BY NewPacketTyped DEF TypeOK, AddPacket, AddPacketToFront, GetNewPktNum, NewPacket
<1>2. queue \in Seq(Packet) /\ DistinctNumbers(queue)
  BY DEF TypeOK, Bookkeeping, QueueMatchesToSend
<1>3. nowPktNum' = [nowPktNum EXCEPT ![p] = @ + 1]
  BY DEF AddPacket, AddPacketToFront, GetNewPktNum
<1>4. CASE AddPacket(p, frame)
  <2>1. Enqueue(p, pkt, Append(queue, pkt))
    BY <1>4 DEF AddPacket
  <2> HIDE DEF pkt, queue
  <2> QED
    BY <1>1, <1>2, <1>3, <2>1, AppendQueue, EnqueueKeeps DEF queue
<1>5. CASE AddPacketToFront(p, frame)
  <2>1. Enqueue(p, pkt, <<pkt>> \o queue)
    BY <1>5 DEF AddPacketToFront
  <2> HIDE DEF pkt, queue
  <2> QED
    BY <1>1, <1>2, <1>3, <2>1, PrependQueue, EnqueueKeeps DEF queue
<1> QED
  BY <1>4, <1>5

\* Recording a packet as its handler runs.
LEMMA ReceivePacketKeeps ==
    ASSUME TypeOK, Bookkeeping, NEW p \in Peer, NEW pkt \in inFlight[p],
           ReceivePacket(p, pkt)
    PROVE  Bookkeeping'
<1> USE OtherPeer
<1>1. /\ recPktNum' = [recPktNum EXCEPT ![p] = @ \cup {pkt.pktNum}]
      /\ handled' = [handled EXCEPT ![p][pkt.pktNum] = IF @ < 2 THEN @ + 1 ELSE @]
      /\ Handles(p, pkt)
      /\ UNCHANGED <<nowPktNum, pendingPackets, toSendPktNum, notACKedSentPkt,
                     ackedSentPktNum, inFlight, acksInFlight, issued>>
  BY DEF ReceivePacket, RecordPacket, CountHandled, networkVars
<1>2. /\ pkt \in issued[Other(p)]
      /\ pkt.pktNum \in PktNum
      /\ pkt.pktNum <= nowPktNum[Other(p)]
  BY DEF Bookkeeping, KnownPackets, TypeOK, Packet
<1>3. \A q \in Peer : recPktNum[q] \subseteq recPktNum'[q]
  BY <1>1 DEF TypeOK
<1>4. KnownPackets'
  <2>1. \A q \in Peer : \A n \in recPktNum'[Other(q)] : n <= nowPktNum[q]
    BY <1>1, <1>2 DEF Bookkeeping, KnownPackets, TypeOK
  <2>2. \A q \in Peer : \A n \in PktNum : n \notin recPktNum'[q] => handled'[q][n] = 0
    BY <1>1, <1>2 DEF Bookkeeping, KnownPackets, TypeOK
  <2> QED
    BY <1>1, <1>3, <2>1, <2>2 DEF Bookkeeping, KnownPackets
<1>5. NumberNamesOnePacket' /\ QueueMatchesToSend' /\ AckedStaysAcked'
  BY <1>1 DEF Bookkeeping, NumberNamesOnePacket, QueueMatchesToSend, AckedStaysAcked
<1>6. AckedWasReceived' /\ NothingForgotten'
  BY <1>1, <1>3 DEF Bookkeeping, AckedWasReceived, NothingForgotten
<1>7. HandledOnce'
  <2> SUFFICES ASSUME NEW q \in Peer, NEW x \in issued[Other(q)], x.frame \in OnceFrame
               PROVE  handled'[q][x.pktNum] = IF x.pktNum \in recPktNum'[q] THEN 1 ELSE 0
    BY <1>1 DEF HandledOnce, HaveReceivedPkt
  <2>1. x.pktNum \in PktNum
    BY DEF TypeOK, Packet
  <2>2. CASE q = p /\ x.pktNum = pkt.pktNum
    <3>1. x = pkt
      BY <2>2, <1>2 DEF Bookkeeping, NumberNamesOnePacket
    <3>2. pkt.pktNum \notin recPktNum[p]
      BY <3>1, <1>1, FrameAssumption DEF Handles, HaveReceivedPkt
    <3>3. handled[p][pkt.pktNum] = 0
      BY <3>2, <1>2 DEF Bookkeeping, KnownPackets
    <3> QED
      BY <2>1, <2>2, <3>3, <1>1 DEF TypeOK
  <2>3. CASE ~(q = p /\ x.pktNum = pkt.pktNum)
    <3>1. handled'[q][x.pktNum] = handled[q][x.pktNum]
      BY <2>1, <2>3, <1>1, <1>2 DEF TypeOK
    <3>2. x.pktNum \in recPktNum'[q] <=> x.pktNum \in recPktNum[q]
      BY <2>3, <1>1 DEF TypeOK
    <3> QED
      BY <3>1, <3>2 DEF Bookkeeping, HandledOnce, HaveReceivedPkt
  <2> QED
    BY <2>2, <2>3
<1> QED
  BY <1>4, <1>5, <1>6, <1>7 DEF Bookkeeping

\* Forgetting packets the other peer recorded.
LEMMA ReceiveAckKeeps ==
    ASSUME TypeOK, Bookkeeping, NEW p \in Peer, NEW acked \in acksInFlight[p],
           ReceiveAck(p, acked)
    PROVE  Bookkeeping'
<1> USE OtherPeer
<1>1. /\ notACKedSentPkt' = [notACKedSentPkt EXCEPT ![p] =
                                {pkt \in @ : pkt.pktNum \notin acked}]
      /\ ackedSentPktNum' = [ackedSentPktNum EXCEPT ![p] = @ \cup acked]
      /\ UNCHANGED <<nowPktNum, pendingPackets, toSendPktNum, recPktNum,
                     inFlight, acksInFlight, issued, handled>>
  BY DEF ReceiveAck, networkVars
<1>2. acked \subseteq recPktNum[Other(p)]
  BY DEF Bookkeeping, KnownPackets
<1>3. KnownPackets'
  BY <1>1 DEF Bookkeeping, KnownPackets, TypeOK
<1>4. NumberNamesOnePacket' /\ QueueMatchesToSend' /\ HandledOnce'
  BY <1>1 DEF Bookkeeping, NumberNamesOnePacket, QueueMatchesToSend, HandledOnce,
              HaveReceivedPkt
<1>5. AckedWasReceived'
  BY <1>1, <1>2 DEF Bookkeeping, AckedWasReceived, TypeOK
<1>6. NothingForgotten'
  BY <1>1, <1>2 DEF Bookkeeping, NothingForgotten, TypeOK
<1>7. AckedStaysAcked'
  BY <1>1 DEF Bookkeeping, AckedStaysAcked, Numbers, TypeOK
<1> QED
  BY <1>3, <1>4, <1>5, <1>6, <1>7 DEF Bookkeeping

\* What Dequeue does to the queue, whichever action it is part of.
LEMMA DequeueFacts ==
    ASSUME TypeOK, Bookkeeping, NEW p \in Peer, pendingPackets[p] # <<>>, Dequeue(p)
    PROVE  /\ Head(pendingPackets[p]) \in issued[p]
           /\ QueueMatchesToSend'
           /\ \A q \in Peer : Range(pendingPackets'[q]) \subseteq Range(pendingPackets[q])
           /\ \A q \in Peer : Range(pendingPackets[q])
                  \subseteq Range(pendingPackets'[q]) \cup
                            (IF q = p THEN {Head(pendingPackets[p])} ELSE {})
<1> DEFINE queue == pendingPackets[p]
<1>1. /\ pendingPackets' = [pendingPackets EXCEPT ![p] = Tail(queue)]
      /\ toSendPktNum' = [toSendPktNum EXCEPT ![p] = @ \ {Head(queue).pktNum}]
  BY DEF Dequeue
<1>2. queue \in Seq(Packet) /\ queue # <<>> /\ DistinctNumbers(queue)
  BY DEF TypeOK, Bookkeeping, QueueMatchesToSend
<1>3. /\ DistinctNumbers(Tail(queue))
      /\ QueueNumbers(Tail(queue)) = QueueNumbers(queue) \ {Head(queue).pktNum}
      /\ Range(queue) = Range(Tail(queue)) \cup {Head(queue)}
  <2> HIDE DEF queue
  <2> QED
    BY <1>2, TailQueue
<1>4. Head(queue) \in issued[p]
  BY <1>3 DEF Bookkeeping, KnownPackets
<1>5. QueueMatchesToSend'
  BY <1>1, <1>3 DEF Bookkeeping, QueueMatchesToSend, TypeOK
<1> QED
  BY <1>1, <1>3, <1>4, <1>5 DEF TypeOK

\* Dropping a packet that was acknowledged while it was queued.
LEMMA SkipAckedKeeps ==
    ASSUME TypeOK, Bookkeeping, NEW p \in Peer, SkipAcked(p)
    PROVE  Bookkeeping'
<1> DEFINE pkt == Head(pendingPackets[p])
<1>1. /\ pendingPackets[p] # <<>>
      /\ Dequeue(p)
      /\ pkt.pktNum \in ackedSentPktNum[p]
      /\ UNCHANGED <<nowPktNum, notACKedSentPkt, ackedSentPktNum, recPktNum,
                     inFlight, acksInFlight, issued, handled>>
  BY DEF SkipAcked, networkVars
<1>2. /\ QueueMatchesToSend'
      /\ \A q \in Peer : Range(pendingPackets'[q]) \subseteq Range(pendingPackets[q])
      /\ \A q \in Peer : Range(pendingPackets[q])
             \subseteq Range(pendingPackets'[q]) \cup (IF q = p THEN {pkt} ELSE {})
  BY <1>1, DequeueFacts
<1>3. KnownPackets'
  BY <1>1, <1>2 DEF Bookkeeping, KnownPackets
<1>4. NothingForgotten'
  <2>1. pkt.pktNum \in recPktNum[Other(p)]
    BY <1>1 DEF Bookkeeping, AckedWasReceived
  <2> QED
    BY <1>1, <1>2, <2>1 DEF Bookkeeping, NothingForgotten
<1>5. /\ NumberNamesOnePacket' /\ AckedWasReceived' /\ AckedStaysAcked' /\ HandledOnce'
  BY <1>1 DEF Bookkeeping, NumberNamesOnePacket, AckedWasReceived, AckedStaysAcked,
              HandledOnce, HaveReceivedPkt
<1> QED
  BY <1>2, <1>3, <1>4, <1>5 DEF Bookkeeping

\* Sending the front packet, which then waits for its ACK.
LEMMA SendFrontKeeps ==
    ASSUME TypeOK, Bookkeeping, NEW p \in Peer, NEW kept \in BOOLEAN, SendFront(p, kept)
    PROVE  Bookkeeping'
<1> USE OtherPeer
<1> DEFINE pkt == Head(pendingPackets[p])
<1>1. /\ pendingPackets[p] # <<>>
      /\ Dequeue(p)
      /\ pkt.pktNum \notin ackedSentPktNum[p]
      /\ notACKedSentPkt' = [notACKedSentPkt EXCEPT ![p] =
                                IF NeedACK(pkt) THEN @ \cup {pkt} ELSE @]
      /\ inFlight' = [inFlight EXCEPT ![Other(p)] = IF kept THEN @ \cup {pkt} ELSE @]
      /\ UNCHANGED <<nowPktNum, ackedSentPktNum, recPktNum, acksInFlight, issued, handled>>
  BY DEF SendFront
<1>2. /\ pkt \in issued[p]
      /\ QueueMatchesToSend'
      /\ \A q \in Peer : Range(pendingPackets'[q]) \subseteq Range(pendingPackets[q])
      /\ \A q \in Peer : Range(pendingPackets[q])
             \subseteq Range(pendingPackets'[q]) \cup (IF q = p THEN {pkt} ELSE {})
  BY <1>1, DequeueFacts
<1> HIDE DEF pkt
<1>3. KnownPackets'
  BY <1>1, <1>2 DEF Bookkeeping, KnownPackets, TypeOK
<1>4. NothingForgotten'
  <2> SUFFICES ASSUME NEW q \in Peer, NEW x \in issued[q], NeedACK(x),
                      x.pktNum \notin recPktNum[Other(q)]
               PROVE  x \in notACKedSentPkt'[q] \/ x \in Range(pendingPackets'[q])
    BY <1>1 DEF NothingForgotten
  <2>1. x \in notACKedSentPkt[q] \/ x \in Range(pendingPackets[q])
    BY DEF Bookkeeping, NothingForgotten
  <2>2. CASE x \in notACKedSentPkt[q]
    BY <2>2, <1>1 DEF TypeOK
  <2>3. CASE x \in Range(pendingPackets'[q])
    BY <2>3
  <2>4. CASE q = p /\ x = pkt
    BY <2>4, <1>1 DEF TypeOK
  <2> QED
    BY <1>2, <2>1, <2>2, <2>3, <2>4
<1>5. AckedStaysAcked'
  BY <1>1 DEF Bookkeeping, AckedStaysAcked, Numbers, TypeOK
<1>6. NumberNamesOnePacket' /\ AckedWasReceived' /\ HandledOnce'
  BY <1>1 DEF Bookkeeping, NumberNamesOnePacket, AckedWasReceived, HandledOnce,
              HaveReceivedPkt
<1> QED
  BY <1>2, <1>3, <1>4, <1>5, <1>6 DEF Bookkeeping

\* Sending the ACK, then queueing again packets that wait for theirs.
LEMMA AckAndRetransmitKeeps ==
    ASSUME TypeOK, Bookkeeping, NEW p \in Peer, NEW kept \in BOOLEAN,
           NEW due \in SUBSET Retransmittable(p), AckAndRetransmit(p, kept, due)
    PROVE  Bookkeeping'
<1> USE OtherPeer
<1> DEFINE queue == pendingPackets[p]
<1>1. /\ toSendPktNum' = [toSendPktNum EXCEPT ![p] = @ \cup Numbers(due)]
      /\ acksInFlight' = [acksInFlight EXCEPT ![Other(p)] =
             IF kept /\ recPktNum[p] # {} THEN @ \cup {recPktNum[p]} ELSE @]
      /\ UNCHANGED <<nowPktNum, notACKedSentPkt, ackedSentPktNum, recPktNum, inFlight,
                     issued, handled>>
  BY DEF AckAndRetransmit
<1>2. PICK size \in 0 .. MaxPktNum[p] : \E order \in Orders(due, size) :
        pendingPackets' = [pendingPackets EXCEPT ![p] = @ \o order]
  BY DEF AckAndRetransmit
<1> PICK order \in Orders(due, size) :
        pendingPackets' = [pendingPackets EXCEPT ![p] = @ \o order]
  BY <1>2
<1>3. size \in Nat
  BY BoundAssumption
<1>4. /\ due \subseteq Packet
      /\ due \subseteq issued[p]
      /\ \A a, b \in due : a.pktNum = b.pktNum => a = b
      /\ Numbers(due) \cap QueueNumbers(queue) = {}
  BY DEF Retransmittable, Bookkeeping, KnownPackets, NumberNamesOnePacket,
         QueueMatchesToSend, TypeOK, Numbers
<1>5. queue \in Seq(Packet) /\ DistinctNumbers(queue)
  BY DEF TypeOK, Bookkeeping, QueueMatchesToSend
<1>6. /\ DistinctNumbers(queue \o order)
      /\ QueueNumbers(queue \o order) = QueueNumbers(queue) \cup Numbers(due)
      /\ Range(queue \o order) = Range(queue) \cup due
  <2> HIDE DEF queue
  <2> QED
    BY <1>3, <1>4, <1>5, ConcatQueue
<1>7. pendingPackets' = [pendingPackets EXCEPT ![p] = queue \o order]
  BY <1>2
<1>8. \A q \in Peer : /\ Range(pendingPackets[q]) \subseteq Range(pendingPackets'[q])
                      /\ Range(pendingPackets'[q]) \subseteq issued[q]
  BY <1>4, <1>6, <1>7 DEF Bookkeeping, KnownPackets, TypeOK
<1>9. KnownPackets'
  BY <1>1, <1>8 DEF Bookkeeping, KnownPackets, TypeOK
<1>10. QueueMatchesToSend'
  BY <1>1, <1>6, <1>7 DEF Bookkeeping, QueueMatchesToSend, TypeOK
<1>11. NothingForgotten'
  BY <1>1, <1>8 DEF Bookkeeping, NothingForgotten
<1>12. /\ NumberNamesOnePacket' /\ AckedWasReceived' /\ AckedStaysAcked' /\ HandledOnce'
  BY <1>1 DEF Bookkeeping, NumberNamesOnePacket, AckedWasReceived, AckedStaysAcked,
              HandledOnce, HaveReceivedPkt
<1> QED
  BY <1>9, <1>10, <1>11, <1>12 DEF Bookkeeping

\* The bookkeeping of both peers stays consistent through every interleaving of
\* passes, losses, duplicates and reorderings.
THEOREM BookkeepingCorrect == Spec => []PacketInv
<1>1. Init => Bookkeeping
  <2> SUFFICES ASSUME Init PROVE Bookkeeping
    OBVIOUS
  <2>1. \A p \in Peer : Range(pendingPackets[p]) = {} /\ QueueNumbers(pendingPackets[p]) = {}
                        /\ DistinctNumbers(pendingPackets[p])
    BY DEF Init, Range, QueueNumbers, DistinctNumbers
  <2> QED
    BY <2>1, OtherPeer DEF Init, Bookkeeping, KnownPackets, NumberNamesOnePacket,
       QueueMatchesToSend, AckedWasReceived, NothingForgotten, AckedStaysAcked,
       HandledOnce, HaveReceivedPkt, Numbers
<1>2. TypeOK /\ Bookkeeping /\ [Next]_vars => Bookkeeping'
  <2> SUFFICES ASSUME TypeOK, Bookkeeping, [Next]_vars PROVE Bookkeeping'
    OBVIOUS
  <2>1. ASSUME UNCHANGED <<connectionVars, networkVars, issued, handled>>
        PROVE  Bookkeeping'
    BY <2>1 DEF connectionVars, networkVars, Bookkeeping, KnownPackets,
       NumberNamesOnePacket, QueueMatchesToSend, AckedWasReceived, NothingForgotten,
       AckedStaysAcked, HandledOnce, HaveReceivedPkt
  <2>2. ASSUME NEW p \in Peer, Endpoint(p) PROVE Bookkeeping'
    <3>1. ASSUME NEW frame \in OnceFrame \cup RepeatFrame, QueuePacket(p, frame)
          PROVE  Bookkeeping'
      BY <3>1, AddPacketKeeps DEF QueuePacket, Frame
    <3>2. ASSUME NEW pkt \in inFlight[p], ReceivePacket(p, pkt) PROVE Bookkeeping'
      BY <3>2, ReceivePacketKeeps
    <3>3. ASSUME NEW acked \in acksInFlight[p], ReceiveAck(p, acked) PROVE Bookkeeping'
      BY <3>3, ReceiveAckKeeps
    <3>4. CASE StartSending(p) \/ EndPass(p)
      BY <3>4, <2>1 DEF StartSending, EndPass
    <3>5. CASE Probe(p)
      BY <3>5, AddPacketKeeps DEF Probe, Frame
    <3>6. CASE SkipAcked(p)
      BY <3>6, SkipAckedKeeps
    <3>7. ASSUME NEW kept \in BOOLEAN, SendFront(p, kept) PROVE Bookkeeping'
      BY <3>7, SendFrontKeeps
    <3>8. ASSUME NEW kept \in BOOLEAN, NEW due \in SUBSET Retransmittable(p),
                 AckAndRetransmit(p, kept, due)
          PROVE  Bookkeeping'
      BY <3>8, AckAndRetransmitKeeps
    <3>9. ASSUME NEW frame \in OnceFrame \cup RepeatFrame, EndPassWithPacket(p, frame)
          PROVE  Bookkeeping'
      BY <3>9, AddPacketKeeps DEF EndPassWithPacket, Frame
    <3> QED
      BY <2>2, <3>1, <3>2, <3>3, <3>4, <3>5, <3>6, <3>7, <3>8, <3>9 DEF Endpoint
  <2> QED
    BY <2>1, <2>2 DEF Next, vars
<1>3. TypeOK /\ Bookkeeping => PacketInv
  BY DEF PacketInv, Bookkeeping
<1> QED
  BY <1>1, <1>2, <1>3, TypeCorrect, PTL DEF Spec

-----------------------------------------------------------------------------
(* What the invariant means for the code, one statement at a time.         *)

\* SocketLoop moves packets from pendingPackets to notACKedSentPkt and back, and never
\* drops one its peer has not recorded.
THEOREM PacketsAreKept == Spec => []NothingForgotten
<1>1. PacketInv => NothingForgotten
  BY DEF PacketInv
<1> QED
  BY <1>1, BookkeepingCorrect, PTL

\* Retransmission and duplication never run a handler guarded by HaveReceivedPkt twice,
\* and no packet counts as received that was not handled.
THEOREM DuplicatesAreHarmless == Spec => []HandledOnce
<1>1. PacketInv => HandledOnce
  BY DEF PacketInv
<1> QED
  BY <1>1, BookkeepingCorrect, PTL

\* remNeedACKPkt forgets a packet only when the other peer recorded it.
THEOREM AcksAreTrue == Spec => []AckedWasReceived
<1>1. PacketInv => AckedWasReceived
  BY DEF PacketInv
<1> QED
  BY <1>1, BookkeepingCorrect, PTL

\* The test of ackedSentPktNum in the send loop keeps acknowledged packets from coming
\* back to notACKedSentPkt, also those queued again before their ACK came.
THEOREM AckedPacketsStayAcked == Spec => []AckedStaysAcked
<1>1. PacketInv => AckedStaysAcked
  BY DEF PacketInv
<1> QED
  BY <1>1, BookkeepingCorrect, PTL

\* toSendPktNum and pendingPackets agree, so no packet is queued twice.
THEOREM QueueIsToSend == Spec => []QueueMatchesToSend
<1>1. PacketInv => QueueMatchesToSend
  BY DEF PacketInv
<1> QED
  BY <1>1, BookkeepingCorrect, PTL

=============================================================================
