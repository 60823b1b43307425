---------------------- MODULE ConnectionLifecycle_proofs ----------------------
(***************************************************************************)
(* Theorems about ConnectionLifecycle, for every value of its constants:   *)
(* the types of its state, that no end is closed without a reason, that    *)
(* the ends agree on their identifiers, and that a connection keeps the    *)
(* promise of SessionPromise.                                              *)
(*                                                                         *)
(* The first argument follows a CONNECTION_CLOSE packet backwards.  A      *)
(* connection that is told of a close received such a packet under its     *)
(* identifier; one that was in flight was queued by a connection of the    *)
(* other end that sends to that identifier; and what queues it is          *)
(* CloseConnection.                                                        *)
(***************************************************************************)
EXTENDS ConnectionLifecycle, SequenceTheorems, WellFoundedInduction, TLAPS

\* A packet of its type, of which only an ACK lacks a number.
PacketOK(pkt) ==
    /\ pkt \in PacketType
    /\ pkt.kind = "ack" => ~pkt.needACK
    /\ pkt.kind # "ack" => pkt.pktNum \in PktNum

\* What a connection keeps about itself.
Sound(c) ==
    /\ c \in ConnectionType
    /\ c.state = "CREATED" => c.told = 0
    /\ c.state = "WAIT_FOR_PEER_CLOSE" => c.closePktNum > 0
    /\ \A i \in 1 .. Len(c.pending) :
           /\ PacketOK(c.pending[i])
           /\ c.pending[i].dst = c.remote
           /\ c.pending[i].kind = "close" => c.closePktNum > 0

\* A connection of the other end sends to id and has run CloseConnection.
Closer(p, id) ==
    \E e \in DOMAIN conns[Other(p)] :
        conns[Other(p)][e].remote = id /\ conns[Other(p)][e].closePktNum > 0

Reasoned(p, c) ==
    (c.told > 0 \/ (c.state = "CLOSED" /\ c.closePktNum = 0)) => Closer(p, c.local)

Backed(p, pkt) == PacketOK(pkt) /\ (pkt.kind = "close" => Closer(p, pkt.dst))

\* The inductive invariant.
LifeInv ==
    /\ LifecycleTypeOK
    /\ \A p \in Peer : \A d \in DOMAIN conns[p] : Sound(conns[p][d]) /\ Reasoned(p, conns[p][d])
    /\ \A p \in Peer : \A pkt \in inFlight[p] : Backed(p, pkt)

-----------------------------------------------------------------------------
(* The operations on one connection.                                       *)

LEMMA OtherFacts ==
  ASSUME NEW p \in Peer
  PROVE  Other(p) \in Peer /\ Other(p) # p /\ Other(Other(p)) = p
BY PeersAssumption DEF Other, Peer

LEMMA NumbersAreNat == PktNum \subseteq Nat \ {0}
BY BoundAssumption DEF PktNum

LEMMA NumberWithinBound ==
  ASSUME NEW p \in Peer, NEW n \in Nat \ {0}, n <= MaxPktNum[p]
  PROVE  n \in PktNum
BY BoundAssumption DEF PktNum

\* What a step of the connection leaves: its remote identifier, and that it was closed.
Keeps(c, b) ==
    /\ b.remote = c.remote
    /\ c.closePktNum > 0 => b.closePktNum > 0

LEMMA QueuedSound ==
  ASSUME NEW c, Sound(c), NEW kind \in {"initial", "data", "ack"}, NEW needACK \in BOOLEAN,
         kind = "ack" => ~needACK,
         NEW acks \in SUBSET PktNum, c.nowPktNum + 1 \in PktNum
  PROVE  /\ Sound(Queued(c, kind, needACK, acks))
         /\ Keeps(c, Queued(c, kind, needACK, acks))
<1> DEFINE q == Queued(c, kind, needACK, acks)
           pkt == [kind |-> kind, needACK |-> needACK, src |-> c.local, dst |-> c.remote,
                   pktNum |-> IF kind = "ack" THEN 0 ELSE c.nowPktNum + 1, acks |-> acks]
<1>1. PacketOK(pkt)
  BY DEF PacketOK, PacketType, Sound, ConnectionType
<1>2. q = [c EXCEPT !.nowPktNum = @ + 1, !.pending = Append(@, pkt)]
  BY DEF Queued
<1>3. c.pending \in Seq(PacketType)
  BY DEF Sound, ConnectionType
<1> HIDE DEF q
<1>4. q \in ConnectionType /\ q.pending = Append(c.pending, pkt) /\ q.remote = c.remote
      /\ q.closePktNum = c.closePktNum /\ q.state = c.state /\ q.told = c.told
  <2>1. Append(c.pending, pkt) \in Seq(PacketType)
    BY <1>1, <1>3 DEF PacketOK
  <2> HIDE DEF pkt
  <2> QED
    BY <1>2, <2>1 DEF Sound, ConnectionType
<1>5. ASSUME NEW i \in 1 .. Len(q.pending)
      PROVE  PacketOK(q.pending[i]) /\ q.pending[i].dst = q.remote
             /\ (q.pending[i].kind = "close" => q.closePktNum > 0)
  <2>1. CASE i = Len(c.pending) + 1
    <3>1. q.pending[i] = pkt
      BY <1>3, <1>4, <2>1
    <3> QED
      BY <3>1, <1>1, <1>4
  <2>2. CASE i \in 1 .. Len(c.pending)
    <3>1. q.pending[i] = c.pending[i]
      BY <1>3, <1>4, <2>2
    <3> QED
      BY <3>1, <1>4, <2>2 DEF Sound
  <2> QED
    BY <1>3, <1>4, <2>1, <2>2
<1> QED
  BY <1>4, <1>5 DEF Sound, Keeps, q

LEMMA ClosingSound ==
  ASSUME NEW c, Sound(c), c.nowPktNum + 1 \in PktNum
  PROVE  /\ Sound(Closing(c))
         /\ Closing(c).closePktNum > 0
         /\ Keeps(c, Closing(c))
         /\ Closing(c).local = c.local
         /\ Closing(c).told = c.told
         /\ Closing(c).nowPktNum = c.nowPktNum + 1
<1> DEFINE q == Closing(c)
           pkt == [kind |-> "close", needACK |-> TRUE, src |-> c.local, dst |-> c.remote,
                   pktNum |-> c.nowPktNum + 1, acks |-> {}]
<1>1. PacketOK(pkt)
  BY DEF PacketOK, PacketType, Sound, ConnectionType
<1>2. q = [c EXCEPT !.nowPktNum = @ + 1, !.pending = Append(@, pkt),
                    !.state = "WAIT_FOR_PEER_CLOSE", !.closePktNum = c.nowPktNum + 1]
  BY DEF Closing, Queued, Sound, ConnectionType
<1>3. c.pending \in Seq(PacketType)
  BY DEF Sound, ConnectionType
<1> HIDE DEF q
<1>4. /\ q \in ConnectionType /\ q.pending = Append(c.pending, pkt) /\ q.remote = c.remote
      /\ q.closePktNum > 0 /\ q.state = "WAIT_FOR_PEER_CLOSE" /\ q.told = c.told
      /\ q.local = c.local /\ q.nowPktNum = c.nowPktNum + 1
  <2>1. Append(c.pending, pkt) \in Seq(PacketType)
    BY <1>1, <1>3 DEF PacketOK
  <2> HIDE DEF pkt
  <2> QED
    <3> DEFINE ps == Append(c.pending, pkt)
               n == c.nowPktNum + 1
    <3>1. ps \in Seq(PacketType) /\ n \in PktNum /\ n > 0
      <4>1. n \in PktNum
        OBVIOUS
      <4> HIDE DEF n
      <4>2. n > 0
        BY <4>1, NumbersAreNat
      <4> QED
        BY <2>1, <4>1, <4>2
    <3>2. q = [c EXCEPT !.nowPktNum = n, !.pending = ps,
                        !.state = "WAIT_FOR_PEER_CLOSE", !.closePktNum = n]
      BY <1>2 DEF Sound, ConnectionType
    <3> HIDE DEF ps, n
    <3>3. q \in ConnectionType
      BY <3>1, <3>2 DEF Sound, ConnectionType, States
    <3>4. /\ q.pending = ps /\ q.remote = c.remote /\ q.closePktNum = n
          /\ q.state = "WAIT_FOR_PEER_CLOSE" /\ q.told = c.told
          /\ q.local = c.local /\ q.nowPktNum = n
      BY <3>2 DEF Sound, ConnectionType
    <3> QED
      BY <3>1, <3>3, <3>4 DEF ps, n
<1>5. ASSUME NEW i \in 1 .. Len(q.pending)
      PROVE  PacketOK(q.pending[i]) /\ q.pending[i].dst = q.remote
  <2>1. CASE i = Len(c.pending) + 1
    <3>1. q.pending[i] = pkt
      BY <1>3, <1>4, <2>1
    <3> QED
      BY <3>1, <1>1, <1>4
  <2>2. CASE i \in 1 .. Len(c.pending)
    <3>1. q.pending[i] = c.pending[i]
      BY <1>3, <1>4, <2>2
    <3> QED
      BY <3>1, <1>4, <2>2 DEF Sound
  <2> QED
    BY <1>3, <1>4, <2>1, <2>2
<1> QED
  BY <1>4, <1>5 DEF Sound, Keeps, q

\* A step that leaves the queue alone.
LEMMA SameQueueSound ==
  ASSUME NEW c, Sound(c), NEW b \in ConnectionType,
         b.pending = c.pending, b.remote = c.remote, b.closePktNum = c.closePktNum,
         b.state = "CREATED" => b.told = 0,
         b.state = "WAIT_FOR_PEER_CLOSE" => b.closePktNum > 0
  PROVE  Sound(b) /\ Keeps(c, b)
BY DEF Sound, Keeps

LEMMA QueuedFields ==
  ASSUME NEW c, Sound(c), NEW kind \in {"initial", "data", "ack"}, NEW needACK \in BOOLEAN,
         NEW acks \in SUBSET PktNum
  PROVE  /\ Queued(c, kind, needACK, acks).nowPktNum = c.nowPktNum + 1
         /\ Queued(c, kind, needACK, acks).local = c.local
         /\ Queued(c, kind, needACK, acks).told = c.told
         /\ Queued(c, kind, needACK, acks).state = c.state
         /\ Queued(c, kind, needACK, acks).closePktNum = c.closePktNum
BY DEF Queued, Sound, ConnectionType

LEMMA RecordedSound ==
  ASSUME NEW c, Sound(c), NEW pkt, PacketOK(pkt), pkt.kind # "ack"
  PROVE  /\ Sound(Recorded(c, pkt))
         /\ Keeps(c, Recorded(c, pkt))
         /\ Recorded(c, pkt).local = c.local
         /\ Recorded(c, pkt).told = c.told
         /\ Recorded(c, pkt).state = c.state
         /\ Recorded(c, pkt).closePktNum = c.closePktNum
         /\ Recorded(c, pkt).nowPktNum = c.nowPktNum
<1> DEFINE b == Recorded(c, pkt)
<1>1. b \in ConnectionType
  BY DEF Recorded, Sound, ConnectionType, PacketOK
<1>2. /\ b.pending = c.pending /\ b.remote = c.remote /\ b.closePktNum = c.closePktNum
      /\ b.state = c.state /\ b.told = c.told /\ b.local = c.local /\ b.nowPktNum = c.nowPktNum
  BY DEF Recorded, Sound, ConnectionType
<1> HIDE DEF b
<1>3. Sound(b) /\ Keeps(c, b)
  BY <1>1, <1>2, SameQueueSound DEF Sound
<1> QED
  BY <1>2, <1>3 DEF b

LEMMA ReadyCallbackSound ==
  ASSUME NEW c, Sound(c), NEW closes \in BOOLEAN,
         closes => c.nowPktNum + 1 \in PktNum
  PROVE  /\ Sound(ReadyCallback(c, closes))
         /\ Keeps(c, ReadyCallback(c, closes))
         /\ ReadyCallback(c, closes).local = c.local
         /\ ReadyCallback(c, closes).told = c.told
         /\ ReadyCallback(c, closes).state \in {c.state, "WAIT_FOR_PEER_CLOSE"}
         /\ ReadyCallback(c, closes).nowPktNum = IF closes THEN c.nowPktNum + 1 ELSE c.nowPktNum
<1> DEFINE b == [c EXCEPT !.ready = @ + 1]
<1>1. b \in ConnectionType
  BY DEF Sound, ConnectionType
<1>2. /\ b.pending = c.pending /\ b.remote = c.remote /\ b.closePktNum = c.closePktNum
      /\ b.state = c.state /\ b.told = c.told /\ b.local = c.local /\ b.nowPktNum = c.nowPktNum
  BY DEF Sound, ConnectionType
<1>3. ReadyCallback(c, closes) = IF closes THEN Closing(b) ELSE b
  BY DEF ReadyCallback
<1> HIDE DEF b
<1>4. Sound(b) /\ Keeps(c, b)
  BY <1>1, <1>2, SameQueueSound DEF Sound
<1>5. CASE closes
  <2>1. Closing(b).state = "WAIT_FOR_PEER_CLOSE"
    BY <1>1 DEF Closing, Queued, ConnectionType
  <2>2. /\ Sound(Closing(b)) /\ Keeps(b, Closing(b)) /\ Closing(b).local = b.local
        /\ Closing(b).told = b.told /\ Closing(b).nowPktNum = b.nowPktNum + 1
    BY <1>2, <1>4, <1>5, ClosingSound
  <2> QED
    BY <1>2, <1>3, <1>4, <1>5, <2>1, <2>2 DEF Keeps
<1>6. CASE ~closes
  BY <1>2, <1>3, <1>4, <1>6
<1> QED
  BY <1>5, <1>6

-----------------------------------------------------------------------------
(* Steps of one connection keep what is known of all of them.              *)

\* Who ran CloseConnection once, and where it sends, stays.
LEMMA CloserStays ==
  ASSUME \A q \in Peer : \A e \in DOMAIN conns[q] :
             e \in DOMAIN conns'[q] /\ Keeps(conns[q][e], conns'[q][e])
  PROVE  \A q \in Peer : \A id : Closer(q, id) => Closer(q, id)'
BY OtherFacts DEF Closer, Keeps

\* The packets a step of a connection of p that becomes b may send.
SentBy(p, b) ==
    \A q \in Peer : \A pkt \in inFlight'[q] :
        \/ pkt \in inFlight[q]
        \/ /\ q = Other(p)
           /\ PacketOK(pkt)
           /\ pkt.kind = "close" => pkt.dst = b.remote /\ b.closePktNum > 0

LEMMA BecomeKeepsInv ==
  ASSUME LifeInv, NEW p \in Peer, NEW d \in DOMAIN conns[p], NEW b,
         Sound(b), Keeps(conns[p][d], b), Reasoned(p, b),
         conns' = [conns EXCEPT ![p][d] = b],
         inFlight' \in [Peer -> SUBSET PacketType],
         SentBy(p, b),
         aborted' \in [Peer -> BOOLEAN]
  PROVE  LifeInv'
<1> USE DEF LifeInv, LifecycleTypeOK
<1>1. conns' \in [Peer -> Seq(ConnectionType)]
  BY DEF Sound
<1>2. \A q \in Peer : DOMAIN conns'[q] = DOMAIN conns[q]
  OBVIOUS
<1>3. \A q \in Peer : \A e \in DOMAIN conns[q] :
          conns'[q][e] = IF q = p /\ e = d THEN b ELSE conns[q][e]
  OBVIOUS
<1>4. \A q \in Peer : \A id : Closer(q, id) => Closer(q, id)'
  BY <1>2, <1>3, CloserStays DEF Keeps
<1>5. ASSUME NEW q \in Peer, NEW e \in DOMAIN conns'[q]
      PROVE  (Sound(conns[q][e]) /\ Reasoned(q, conns[q][e]))'
  BY <1>2, <1>3, <1>4 DEF Reasoned
<1>6. ASSUME NEW q \in Peer, NEW pkt \in inFlight'[q]
      PROVE  Backed(q, pkt)'
  <2>1. CASE pkt \in inFlight[q]
    BY <1>4, <2>1 DEF Backed
  <2>2. CASE q = Other(p) /\ PacketOK(pkt)
             /\ (pkt.kind = "close" => pkt.dst = b.remote /\ b.closePktNum > 0)
    <3>1. Other(q) = p
      BY <2>2, OtherFacts
    <3>2. pkt.kind = "close" => Closer(q, pkt.dst)'
      BY <1>2, <1>3, <2>2, <3>1 DEF Closer, Other
    <3> QED
      BY <2>2, <3>2 DEF Backed
  <2> QED
    BY <2>1, <2>2 DEF SentBy
<1> QED
  BY <1>1, <1>5, <1>6

LEMMA AppendKeepsInv ==
  ASSUME LifeInv, NEW p \in Peer, NEW b, Sound(b), Reasoned(p, b),
         conns' = [conns EXCEPT ![p] = Append(@, b)],
         UNCHANGED <<inFlight, aborted>>
  PROVE  LifeInv'
<1> USE DEF LifeInv, LifecycleTypeOK
<1>1. Append(conns[p], b) \in Seq(ConnectionType)
  BY DEF Sound
<1>2. conns' \in [Peer -> Seq(ConnectionType)]
  BY <1>1
<1>3. /\ \A q \in Peer \ {p} : conns'[q] = conns[q]
      /\ DOMAIN conns'[p] = DOMAIN conns[p] \cup {Len(conns[p]) + 1}
      /\ \A e \in DOMAIN conns[p] : conns'[p][e] = conns[p][e]
      /\ conns'[p][Len(conns[p]) + 1] = b
  BY DEF Sound
<1>4. \A q \in Peer : \A id : Closer(q, id) => Closer(q, id)'
  BY <1>3, CloserStays DEF Keeps
<1>5. ASSUME NEW q \in Peer, NEW e \in DOMAIN conns'[q]
      PROVE  (Sound(conns[q][e]) /\ Reasoned(q, conns[q][e]))'
  BY <1>3, <1>4 DEF Reasoned
<1>6. ASSUME NEW q \in Peer, NEW pkt \in inFlight'[q]
      PROVE  Backed(q, pkt)'
  BY <1>4 DEF Backed
<1> QED
  BY <1>2, <1>5, <1>6

-----------------------------------------------------------------------------
(* The steps.                                                              *)

LEMMA NewSound ==
  ASSUME NEW state \in {"CREATED", "PEER_ESTABLISHED"},
         NEW local \in ConnectionID, NEW remote \in ConnectionID
  PROVE  LET c == NewConnection(state, local, remote)
         IN  Sound(c) /\ c.told = 0 /\ c.state = state /\ c.nowPktNum = 0
<1> DEFINE c == NewConnection(state, local, remote)
<1>1. /\ c.pending = << >> /\ c.told = 0 /\ c.state = state /\ c.nowPktNum = 0
      /\ c.closePktNum = 0
  BY DEF NewConnection
<1>2. c \in ConnectionType
  BY DEF NewConnection, ConnectionType, States
<1> HIDE DEF c
<1>3. Sound(c)
  BY <1>1, <1>2 DEF Sound
<1> QED
  BY <1>1, <1>3 DEF c

LEMMA FirstNumbers == 1 \in PktNum /\ 2 \in PktNum
BY BoundAssumption DEF PktNum, Peer

\* What an end knows of a connection before a step, and of the packet it receives.
LEMMA BeforeStep ==
  ASSUME LifeInv, NEW p \in Peer
  PROVE  /\ \A d \in DOMAIN conns[p] : Sound(conns[p][d]) /\ Reasoned(p, conns[p][d])
         /\ \A pkt \in inFlight[p] : Backed(p, pkt)
         /\ Len(conns[p]) + 1 \in Nat
BY DEF LifeInv, LifecycleTypeOK

LEMMA LastNumber ==
  ASSUME NEW c, Sound(c)
  PROVE  c.nowPktNum \in Nat
<1>1. c.nowPktNum \in PktNum \cup {0}
  BY DEF Sound, ConnectionType
<1>2. \A n \in PktNum \cup {0} : n \in Nat
  BY NumbersAreNat
<1> QED
  BY <1>1, <1>2, Zenon

\* A number that Become allows is one of the model's.
LEMMA NumberOfSound ==
  ASSUME NEW c, Sound(c), NEW p \in Peer, NEW k \in {1, 2}, c.nowPktNum + k <= MaxPktNum[p]
  PROVE  c.nowPktNum + k \in PktNum /\ c.nowPktNum + 1 \in PktNum
<1>1. c.nowPktNum \in Nat
  BY LastNumber
<1>2. MaxPktNum[p] \in Nat
  BY BoundAssumption
<1>3. c.nowPktNum + k \in Nat \ {0} /\ c.nowPktNum + 1 \in Nat \ {0} /\ c.nowPktNum + 1 <= MaxPktNum[p]
  BY <1>1, <1>2
<1> QED
  BY <1>3, NumberWithinBound

\* A step that sends nothing.
LEMMA BecomeSilently ==
  ASSUME LifeInv, NEW p \in Peer, NEW d \in DOMAIN conns[p], NEW b,
         Sound(b), Keeps(conns[p][d], b), Reasoned(p, b), Become(p, d, b),
         UNCHANGED <<inFlight, aborted>>
  PROVE  LifeInv'
<1>1. SentBy(p, b)
  BY DEF SentBy
<1> QED
  BY <1>1, BecomeKeepsInv DEF Become, LifeInv, LifecycleTypeOK

LEMMA CreateKeepsInv ==
  ASSUME LifeInv, CreateConnection
  PROVE  LifeInv'
<1> DEFINE d == Len(conns[Client]) + 1
           c == NewConnection("CREATED", Generate(Client, d, "local"), Generate(Client, d, "remote"))
           b == Queued(c, "initial", TRUE, {})
<1>1. Client \in Peer
  BY DEF Peer
<1>2. d \in Nat
  BY <1>1, BeforeStep
<1>3. Generate(Client, d, "local") \in ConnectionID /\ Generate(Client, d, "remote") \in ConnectionID
  BY <1>1, <1>2 DEF Generate, ConnectionID
<1>4. conns' = [conns EXCEPT ![Client] = Append(@, b)] /\ UNCHANGED <<inFlight, aborted>>
  BY DEF CreateConnection
<1>5. Sound(c) /\ c.told = 0 /\ c.state = "CREATED" /\ c.nowPktNum = 0
  BY <1>3, NewSound
<1> HIDE DEF c
<1>6. c.nowPktNum + 1 \in PktNum
  BY <1>5, FirstNumbers
<1>7. Sound(b) /\ b.told = 0 /\ b.state = "CREATED"
  <2>1. Sound(b)
    BY <1>5, <1>6, QueuedSound
  <2>2. b.told = c.told /\ b.state = c.state
    BY <1>5, QueuedFields
  <2> QED
    BY <1>5, <2>1, <2>2
<1> HIDE DEF b
<1>8. Reasoned(Client, b)
  BY <1>7 DEF Reasoned
<1> QED
  BY <1>1, <1>4, <1>7, <1>8, AppendKeepsInv

LEMMA CloseKeepsInv ==
  ASSUME LifeInv, NEW p \in Peer, NEW d \in DOMAIN conns[p], CloseConnection(p, d)
  PROVE  LifeInv'
<1> DEFINE c == conns[p][d]
           b == Closing(c)
<1>1. Sound(c) /\ Reasoned(p, c)
  BY BeforeStep
<1>2. c.told = 0 /\ Become(p, d, b) /\ UNCHANGED <<inFlight, aborted>>
  BY DEF CloseConnection, MayClose
<1>3. b.nowPktNum <= MaxPktNum[p]
  BY <1>2 DEF Become
<1>4. b.nowPktNum = c.nowPktNum + 1
  BY <1>1 DEF Closing, Queued, Sound, ConnectionType
<1>5. c.nowPktNum + 1 \in PktNum
  BY <1>1, <1>3, <1>4, NumberOfSound
<1>6. Sound(b) /\ Keeps(c, b) /\ b.told = 0 /\ b.closePktNum > 0
  BY <1>1, <1>2, <1>5, ClosingSound
<1> HIDE DEF b
<1>7. Reasoned(p, b)
  BY <1>6 DEF Reasoned
<1> QED
  BY <1>2, <1>6, <1>7, BecomeSilently

LEMMA AcceptKeepsInv ==
  ASSUME LifeInv, NEW p \in Peer, NEW pkt \in inFlight[p], pkt.kind = "initial",
         NEW closes \in BOOLEAN, AcceptConnection(p, pkt, closes)
  PROVE  LifeInv'
<1> DEFINE d == Len(conns[p]) + 1
           n == NewConnection("PEER_ESTABLISHED", pkt.dst, Generate(p, d, "remote"))
           c == Recorded(n, pkt)
           q == Queued(c, "initial", TRUE, {})
           b == ReadyCallback(q, closes)
<1>1. PacketOK(pkt)
  BY BeforeStep DEF Backed
<1>2. pkt.dst \in ConnectionID /\ Generate(p, d, "remote") \in ConnectionID
  BY <1>1, BeforeStep DEF PacketOK, PacketType, Generate, ConnectionID
<1>3. conns' = [conns EXCEPT ![p] = Append(@, b)] /\ UNCHANGED <<inFlight, aborted>>
  BY DEF AcceptConnection
<1>4. Sound(n) /\ n.told = 0 /\ n.state = "PEER_ESTABLISHED" /\ n.nowPktNum = 0
  BY <1>2, NewSound
<1> HIDE DEF n
<1>5. Sound(c) /\ c.told = 0 /\ c.state = "PEER_ESTABLISHED" /\ c.nowPktNum = 0
  BY <1>1, <1>4, RecordedSound
<1> HIDE DEF c
<1>6. c.nowPktNum + 1 \in PktNum
  BY <1>5, FirstNumbers
<1>7. Sound(q) /\ q.told = 0 /\ q.state = "PEER_ESTABLISHED" /\ q.nowPktNum = 1
  <2>1. Sound(q)
    BY <1>5, <1>6, QueuedSound
  <2>2. q.told = c.told /\ q.state = c.state /\ q.nowPktNum = c.nowPktNum + 1
    BY <1>5, QueuedFields
  <2> HIDE DEF q
  <2>3. q.nowPktNum = 1
    BY <1>5, <2>2
  <2> QED
    BY <1>5, <2>1, <2>2, <2>3
<1> HIDE DEF q
<1>8. Sound(b) /\ b.told = 0 /\ b.state # "CLOSED"
  BY <1>7, FirstNumbers, ReadyCallbackSound
<1> HIDE DEF b
<1>9. Reasoned(p, b)
  BY <1>8 DEF Reasoned
<1> QED
  BY <1>3, <1>8, <1>9, AppendKeepsInv

\* What Become has to do with the number a connection had before.
LEMMA BecomeNumber ==
  ASSUME NEW p \in Peer, NEW d, NEW b, Become(p, d, b)
  PROVE  b.nowPktNum <= MaxPktNum[p]
BY DEF Become

LEMMA HandshakeAtClientKeepsInv ==
  ASSUME LifeInv, NEW p \in Peer, NEW pkt \in inFlight[p], pkt.kind = "initial",
         NEW closes \in BOOLEAN, HandshakeAtClient(p, pkt, closes)
  PROVE  LifeInv'
<1>1. PICK d \in DOMAIN conns[p] :
          LET c == ReadyCallback([conns[p][d] EXCEPT !.local = pkt.dst], closes)
          IN  /\ conns[p][d].state = "CREATED"
              /\ Become(p, d, Recorded(Queued([c EXCEPT !.state = "ESTABLISHED"],
                                              "initial", FALSE, {}), pkt))
              /\ UNCHANGED <<inFlight, aborted>>
  BY DEF HandshakeAtClient
<1> DEFINE a == conns[p][d]
           n == [a EXCEPT !.local = pkt.dst]
           m == IF closes THEN Closing([n EXCEPT !.ready = @ + 1]) ELSE [n EXCEPT !.ready = @ + 1]
           e == [m EXCEPT !.state = "ESTABLISHED"]
           q == Queued(e, "initial", FALSE, {})
           b == Recorded(q, pkt)
<1>2. Sound(a) /\ PacketOK(pkt) /\ a.told = 0
  BY <1>1, BeforeStep DEF Backed, Sound
<1>3. Become(p, d, b) /\ UNCHANGED <<inFlight, aborted>>
  BY <1>1 DEF ReadyCallback
<1> DEFINE r == [n EXCEPT !.ready = @ + 1]
<1>4. /\ r \in ConnectionType /\ r.pending = a.pending /\ r.remote = a.remote /\ r.told = 0
      /\ r.closePktNum = a.closePktNum /\ r.state = "CREATED" /\ r.nowPktNum = a.nowPktNum
  <2>1. pkt.dst \in ConnectionID
    BY <1>2 DEF PacketOK, PacketType
  <2>2. a \in ConnectionType /\ a.state = "CREATED" /\ a.told = 0
    BY <1>1, <1>2 DEF Sound
  <2> HIDE DEF a
  <2>3. n \in ConnectionType /\ n.pending = a.pending /\ n.remote = a.remote /\ n.told = 0
        /\ n.closePktNum = a.closePktNum /\ n.state = "CREATED" /\ n.nowPktNum = a.nowPktNum
    BY <2>1, <2>2 DEF ConnectionType
  <2> HIDE DEF n
  <2> QED
    BY <2>3 DEF ConnectionType
<1>5. /\ closes => b.nowPktNum = r.nowPktNum + 1 + 1
      /\ ~closes => b.nowPktNum = r.nowPktNum + 1
  <2>1. r \in ConnectionType
    BY <1>4
  <2>2. m = IF closes THEN Closing(r) ELSE r
    OBVIOUS
  <2> HIDE DEF r, m
  <2>3. CASE closes
    BY <2>1, <2>2, <2>3 DEF Recorded, Queued, Closing, ConnectionType
  <2>4. CASE ~closes
    BY <2>1, <2>2, <2>4 DEF Recorded, Queued, ConnectionType
  <2> HIDE DEF b
  <2> QED
    BY <2>3, <2>4
<1>6. b.nowPktNum <= MaxPktNum[p]
  BY <1>3, BecomeNumber
<1> HIDE DEF b
<1>7. a.nowPktNum + 1 \in PktNum /\ (closes => a.nowPktNum + 2 \in PktNum)
  <2>1. a.nowPktNum \in Nat /\ r.nowPktNum = a.nowPktNum
    BY <1>2, <1>4, LastNumber
  <2> HIDE DEF a, r
  <2>2. a.nowPktNum + (IF closes THEN 2 ELSE 1) <= MaxPktNum[p]
    BY <2>1, <1>5, <1>6
  <2>3. CASE closes
    BY <2>2, <2>3, <1>2, NumberOfSound
  <2>4. CASE ~closes
    BY <2>2, <2>4, <1>2, NumberOfSound
  <2> QED
    BY <2>3, <2>4
<1>8. Sound(r) /\ Keeps(a, r)
  BY <1>2, <1>4, SameQueueSound DEF Sound
<1>9. /\ Sound(m) /\ Keeps(a, m) /\ m.told = 0
      /\ m.nowPktNum = IF closes THEN a.nowPktNum + 1 ELSE a.nowPktNum
  <2>1. CASE closes
    <3>1. m = Closing(r)
      BY <2>1
    <3>2. r.nowPktNum + 1 \in PktNum
      BY <1>4, <1>7
    <3> HIDE DEF m, r
    <3> QED
      BY <1>4, <1>8, <2>1, <3>1, <3>2, ClosingSound DEF Keeps
  <2>2. CASE ~closes
    <3>1. m = r
      BY <2>2
    <3> HIDE DEF m, r
    <3> QED
      BY <1>4, <1>8, <2>2, <3>1
  <2> QED
    BY <2>1, <2>2
<1> HIDE DEF m, r
<1>10. /\ e \in ConnectionType /\ e.pending = m.pending /\ e.remote = m.remote
       /\ e.closePktNum = m.closePktNum /\ e.state = "ESTABLISHED" /\ e.told = m.told
       /\ e.nowPktNum = m.nowPktNum
  BY <1>9 DEF Sound, ConnectionType, States
<1> HIDE DEF e
<1>11. Sound(e) /\ Keeps(a, e)
  BY <1>9, <1>10, SameQueueSound DEF Keeps
<1>12. e.nowPktNum + 1 \in PktNum
  <2>1. CASE closes
    <3>1. e.nowPktNum + 1 = a.nowPktNum + 2
      BY <1>2, <1>9, <1>10, <2>1, LastNumber
    <3> QED
      BY <1>7, <2>1, <3>1
  <2>2. CASE ~closes
    BY <1>7, <1>9, <1>10, <2>2
  <2> QED
    BY <2>1, <2>2
<1>13. Sound(q) /\ Keeps(a, q) /\ q.told = 0 /\ q.state = "ESTABLISHED"
  <2>1. Sound(q) /\ Keeps(e, q)
    BY <1>11, <1>12, QueuedSound
  <2>2. q.told = e.told /\ q.state = e.state
    BY <1>11, QueuedFields
  <2> HIDE DEF q
  <2> QED
    BY <1>9, <1>10, <1>11, <2>1, <2>2 DEF Keeps
<1> HIDE DEF q
<1>14. Sound(b) /\ Keeps(a, b) /\ b.told = 0 /\ b.state = "ESTABLISHED"
  BY <1>2, <1>13, RecordedSound DEF Keeps, b
<1>15. Reasoned(p, b)
  BY <1>14 DEF Reasoned
<1> QED
  BY <1>3, <1>14, <1>15, BecomeSilently

LEMMA HandshakeAtServerKeepsInv ==
  ASSUME LifeInv, NEW p \in Peer, NEW pkt \in inFlight[p], pkt.kind = "initial",
         NEW closes \in BOOLEAN, HandshakeAtServer(p, pkt, closes)
  PROVE  LifeInv'
<1>1. PICK d \in DOMAIN conns[p] :
          /\ conns[p][d].state = "PEER_ESTABLISHED"
          /\ Become(p, d, Recorded([ReadyCallback(conns[p][d], closes)
                                        EXCEPT !.state = "ESTABLISHED"], pkt))
          /\ UNCHANGED <<inFlight, aborted>>
  BY DEF HandshakeAtServer
<1> DEFINE a == conns[p][d]
           m == ReadyCallback(a, closes)
           e == [m EXCEPT !.state = "ESTABLISHED"]
           b == Recorded(e, pkt)
<1>2. Sound(a) /\ Reasoned(p, a) /\ PacketOK(pkt)
  BY <1>1, BeforeStep DEF Backed
<1>3. Become(p, d, b) /\ UNCHANGED <<inFlight, aborted>> /\ a.state = "PEER_ESTABLISHED"
  BY <1>1
<1>4. b.nowPktNum = IF closes THEN a.nowPktNum + 1 ELSE a.nowPktNum
  BY <1>2 DEF Recorded, ReadyCallback, Closing, Queued, Sound, ConnectionType
<1>5. b.nowPktNum <= MaxPktNum[p]
  BY <1>3, BecomeNumber
<1> HIDE DEF b
<1>6. closes => a.nowPktNum + 1 \in PktNum
  BY <1>2, <1>4, <1>5, NumberOfSound
<1>7. Sound(m) /\ Keeps(a, m) /\ m.told = a.told /\ m.local = a.local
  BY <1>2, <1>3, <1>6, ReadyCallbackSound
<1> HIDE DEF m
<1>8. /\ e \in ConnectionType /\ e.pending = m.pending /\ e.remote = m.remote
      /\ e.closePktNum = m.closePktNum /\ e.state = "ESTABLISHED" /\ e.told = m.told
      /\ e.local = m.local
  BY <1>7 DEF Sound, ConnectionType, States
<1> HIDE DEF e
<1>9. Sound(e) /\ Keeps(a, e)
  BY <1>7, <1>8, SameQueueSound DEF Keeps
<1>10. Sound(b) /\ Keeps(a, b) /\ b.told = a.told /\ b.local = a.local /\ b.state = "ESTABLISHED"
  BY <1>2, <1>7, <1>8, <1>9, RecordedSound DEF Keeps, b
<1>11. Reasoned(p, b)
  BY <1>2, <1>3, <1>10 DEF Reasoned
<1> QED
  BY <1>3, <1>10, <1>11, BecomeSilently

LEMMA DataKeepsInv ==
  ASSUME LifeInv, NEW p \in Peer, NEW pkt \in inFlight[p], ReceiveData(p, pkt)
  PROVE  LifeInv'
<1>1. PICK d \in DOMAIN conns[p] :
          /\ pkt.kind = "data" /\ IsLive(conns[p][d])
          /\ Become(p, d, [Recorded(conns[p][d], pkt) EXCEPT !.streams = TRUE])
          /\ UNCHANGED <<inFlight, aborted>>
  BY DEF ReceiveData
<1> DEFINE a == conns[p][d]
           r == Recorded(a, pkt)
           b == [r EXCEPT !.streams = TRUE]
<1>2. Sound(a) /\ Reasoned(p, a) /\ PacketOK(pkt)
  BY <1>1, BeforeStep DEF Backed
<1>3. /\ Sound(r) /\ Keeps(a, r) /\ r.local = a.local /\ r.told = a.told /\ r.state = a.state
      /\ r.closePktNum = a.closePktNum
  BY <1>1, <1>2, RecordedSound
<1> HIDE DEF r
<1>4. /\ b \in ConnectionType /\ b.pending = r.pending /\ b.remote = r.remote
      /\ b.closePktNum = r.closePktNum /\ b.state = r.state /\ b.told = r.told /\ b.local = r.local
  BY <1>3 DEF Sound, ConnectionType
<1>5. Become(p, d, b) /\ UNCHANGED <<inFlight, aborted>>
  BY <1>1 DEF r
<1> HIDE DEF b
<1>6. Sound(b) /\ Keeps(a, b)
  BY <1>3, <1>4, SameQueueSound DEF Sound, Keeps
<1>7. Reasoned(p, b)
  BY <1>2, <1>3, <1>4 DEF Reasoned
<1> QED
  BY <1>5, <1>6, <1>7, BecomeSilently

LEMMA CloseReceivedKeepsInv ==
  ASSUME LifeInv, NEW p \in Peer, NEW pkt \in inFlight[p], ReceiveClose(p, pkt)
  PROVE  LifeInv'
<1>1. PICK d \in DOMAIN conns[p] :
          LET c == conns[p][d]
              kept == IF c.state = "CLOSED" THEN c ELSE Recorded(c, pkt)
          IN  /\ pkt.kind = "close"
              /\ Found(d, FitsLocal(p, pkt))
              /\ Become(p, d, [Queued(kept, "ack", FALSE, c.rec \cup {pkt.pktNum}) EXCEPT
                                  !.state = "CLOSED", !.told = @ + 1])
              /\ UNCHANGED <<inFlight, aborted>>
  BY DEF ReceiveClose
<1> DEFINE a == conns[p][d]
           kept == IF a.state = "CLOSED" THEN a ELSE Recorded(a, pkt)
           acks == a.rec \cup {pkt.pktNum}
           q == Queued(kept, "ack", FALSE, acks)
           b == [q EXCEPT !.state = "CLOSED", !.told = @ + 1]
<1>2. Sound(a) /\ PacketOK(pkt) /\ Closer(p, pkt.dst) /\ a.local = pkt.dst
  BY <1>1, BeforeStep DEF Backed, Found, FitsLocal
<1>3. Become(p, d, b) /\ UNCHANGED <<inFlight, aborted>>
  BY <1>1
<1>4. Sound(kept) /\ Keeps(a, kept) /\ kept.nowPktNum = a.nowPktNum /\ kept.local = a.local
  <2>1. Keeps(a, a)
    BY DEF Keeps
  <2>2. CASE a.state = "CLOSED"
    BY <1>2, <2>1, <2>2
  <2>3. CASE a.state # "CLOSED"
    BY <1>1, <1>2, <2>3, RecordedSound
  <2> QED
    BY <2>2, <2>3
<1>5. acks \in SUBSET PktNum
  BY <1>1, <1>2 DEF Sound, ConnectionType, PacketOK
<1> HIDE DEF kept, acks
<1>6. q.nowPktNum = kept.nowPktNum + 1 /\ q.local = kept.local
  BY <1>4, <1>5, QueuedFields
<1>7. b.nowPktNum = q.nowPktNum
  BY <1>4 DEF Queued, Sound, ConnectionType
<1>8. b.nowPktNum <= MaxPktNum[p]
  BY <1>3, BecomeNumber
<1> HIDE DEF b
<1>9. Sound(q) /\ Keeps(kept, q)
  <2>1. kept.nowPktNum + 1 \in PktNum
    BY <1>4, <1>6, <1>7, <1>8, NumberOfSound
  <2> QED
    BY <1>4, <1>5, <2>1, QueuedSound
<1> HIDE DEF q
<1>10. /\ b \in ConnectionType /\ b.pending = q.pending /\ b.remote = q.remote
       /\ b.closePktNum = q.closePktNum /\ b.state = "CLOSED" /\ b.local = q.local
  <2> DEFINE e == [q EXCEPT !.state = "CLOSED"]
  <2>1. q \in ConnectionType
    BY <1>9 DEF Sound
  <2>2. /\ e \in ConnectionType /\ e.pending = q.pending /\ e.remote = q.remote
        /\ e.closePktNum = q.closePktNum /\ e.state = "CLOSED" /\ e.local = q.local
    BY <2>1 DEF ConnectionType, States
  <2>3. b = [e EXCEPT !.told = @ + 1]
    BY <2>1 DEF ConnectionType, b
  <2> HIDE DEF e
  <2> QED
    BY <2>2, <2>3 DEF ConnectionType
<1>11. Sound(b) /\ Keeps(a, b)
  BY <1>4, <1>9, <1>10, SameQueueSound DEF Keeps
<1>12. Reasoned(p, b)
  BY <1>2, <1>4, <1>6, <1>10 DEF Reasoned
<1> QED
  BY <1>3, <1>11, <1>12, BecomeSilently

LEMMA AckKeepsInv ==
  ASSUME LifeInv, NEW p \in Peer, NEW pkt \in inFlight[p], ReceiveAck(p, pkt)
  PROVE  LifeInv'
<1>1. PICK d \in DOMAIN conns[p] :
          LET c == conns[p][d]
              ended == c.state = "WAIT_FOR_PEER_CLOSE" /\ c.closePktNum \in pkt.acks
          IN  /\ Become(p, d, [c EXCEPT !.unacked = @ \ pkt.acks,
                                        !.state = IF ended THEN "CLOSED" ELSE @])
              /\ UNCHANGED <<inFlight, aborted>>
  BY DEF ReceiveAck
<1> DEFINE a == conns[p][d]
           ended == a.state = "WAIT_FOR_PEER_CLOSE" /\ a.closePktNum \in pkt.acks
           state == IF ended THEN "CLOSED" ELSE a.state
           b == [a EXCEPT !.unacked = @ \ pkt.acks, !.state = state]
<1>2. Sound(a) /\ Reasoned(p, a)
  BY BeforeStep
<1>3. Become(p, d, b) /\ UNCHANGED <<inFlight, aborted>>
  BY <1>1, <1>2 DEF Sound, ConnectionType
<1>4. state \in States /\ (state # a.state => state = "CLOSED" /\ a.closePktNum > 0)
  BY <1>2 DEF Sound, ConnectionType, States
<1> HIDE DEF state
<1>5. /\ b \in ConnectionType /\ b.pending = a.pending /\ b.remote = a.remote
      /\ b.closePktNum = a.closePktNum /\ b.state = state /\ b.local = a.local /\ b.told = a.told
  BY <1>2, <1>4 DEF Sound, ConnectionType
<1> HIDE DEF b
<1>6. Sound(b) /\ Keeps(a, b)
  BY <1>2, <1>4, <1>5, SameQueueSound DEF Sound
<1>7. Reasoned(p, b)
  BY <1>2, <1>4, <1>5 DEF Reasoned
<1> QED
  BY <1>3, <1>6, <1>7, BecomeSilently

\* The alarm closes only what closes already, and the idle timeout closes as
\* CloseConnection does.
LEMMA AtTimerSound ==
  ASSUME NEW c, Sound(c), NEW p \in Peer, NEW timer,
         AtTimer(p, c, timer).nowPktNum <= MaxPktNum[p]
  PROVE  LET t == AtTimer(p, c, timer)
         IN  /\ Sound(t)
             /\ Keeps(c, t)
             /\ t.local = c.local /\ t.told = c.told
             /\ t.state = "CLOSED" => c.state = "CLOSED" \/ t.closePktNum > 0
<1> DEFINE t == AtTimer(p, c, timer)
<1>1. CASE timer = "alarm" /\ c.state = "WAIT_FOR_PEER_CLOSE"
  <2>1. t = [c EXCEPT !.state = "CLOSED"]
    BY <1>1 DEF AtTimer
  <2> HIDE DEF t
  <2>2. /\ t \in ConnectionType /\ t.pending = c.pending /\ t.remote = c.remote
        /\ t.closePktNum = c.closePktNum /\ t.state = "CLOSED" /\ t.local = c.local
        /\ t.told = c.told
    BY <2>1 DEF Sound, ConnectionType, States
  <2>3. Sound(t) /\ Keeps(c, t)
    BY <2>2, SameQueueSound
  <2>4. t.closePktNum > 0
    BY <1>1, <2>2 DEF Sound
  <2> QED
    BY <2>2, <2>3, <2>4 DEF t
<1>2. CASE timer = "idle" /\ MayTimeOut(p, c)
  <2>1. t = Closing(c)
    BY <1>2 DEF AtTimer
  <2>2. Closing(c).nowPktNum = c.nowPktNum + 1
    BY DEF Closing, Queued, Sound, ConnectionType
  <2>3. c.nowPktNum + 1 <= MaxPktNum[p]
    BY <2>1, <2>2
  <2> HIDE DEF t
  <2>5. c.nowPktNum + 1 \in PktNum
    BY <2>3, NumberOfSound
  <2>6. Sound(t) /\ Keeps(c, t) /\ t.local = c.local /\ t.told = c.told /\ t.closePktNum > 0
    BY <2>1, <2>5, ClosingSound
  <2> QED
    BY <2>6 DEF t
<1>3. CASE ~(timer = "alarm" /\ c.state = "WAIT_FOR_PEER_CLOSE") /\ ~(timer = "idle" /\ MayTimeOut(p, c))
  <2>1. t = c
    BY <1>3 DEF AtTimer
  <2> QED
    BY <2>1 DEF Keeps
<1> QED
  BY <1>1, <1>2, <1>3

LEMMA AtTimerNumber ==
  ASSUME NEW c, Sound(c), NEW p, NEW timer
  PROVE  AtTimer(p, c, timer).nowPktNum \in Nat
<1> DEFINE t == AtTimer(p, c, timer)
<1>1. c.nowPktNum \in Nat
  BY LastNumber
<1>2. t = c \/ t = [c EXCEPT !.state = "CLOSED"] \/ t = Closing(c)
  BY DEF AtTimer
<1> HIDE DEF t
<1>3. t.nowPktNum = c.nowPktNum \/ t.nowPktNum = c.nowPktNum + 1
  BY <1>2 DEF Closing, Queued, Sound, ConnectionType
<1> QED
  BY <1>1, <1>3 DEF t

LEMMA SentSound ==
  ASSUME NEW c, Sound(c), NEW n \in 0 .. Len(c.pending)
  PROVE  LET b == Sent(c, n)
         IN  /\ Sound(b)
             /\ Keeps(c, b)
             /\ b.local = c.local /\ b.told = c.told /\ b.state = c.state
             /\ b.closePktNum = c.closePktNum /\ b.nowPktNum = c.nowPktNum
             /\ \A pkt \in Range(SubSeq(c.pending, 1, n)) :
                    \E i \in 1 .. Len(c.pending) : pkt = c.pending[i]
<1> DEFINE first == SubSeq(c.pending, 1, n)
           rest == SubSeq(c.pending, n + 1, Len(c.pending))
           numbers == {pkt.pktNum : pkt \in {q \in Range(first) : q.needACK}}
           b == Sent(c, n)
<1>1. c.pending \in Seq(PacketType) /\ Len(c.pending) \in Nat
  BY DEF Sound, ConnectionType
<1>2. \A i \in 1 .. Len(c.pending) : c.pending[i] \in PacketType
  BY <1>1
<1>3. /\ first \in Seq(PacketType) /\ Len(first) = n
      /\ \A i \in 1 .. n : first[i] = c.pending[i]
  <2>1. \A i \in 1 .. n : c.pending[i] \in PacketType
    BY <1>1, <1>2
  <2> QED
    BY <1>1, <2>1, SubSeqProperties
<1>4. /\ rest \in Seq(PacketType) /\ Len(rest) = Len(c.pending) - n
      /\ \A i \in 1 .. Len(c.pending) - n : rest[i] = c.pending[n + i]
  <2>1. \A i \in n + 1 .. Len(c.pending) : c.pending[i] \in PacketType
    BY <1>1, <1>2
  <2>2. /\ rest \in Seq(PacketType)
        /\ Len(rest) = IF n + 1 <= Len(c.pending) THEN Len(c.pending) - (n + 1) + 1 ELSE 0
        /\ \A i \in 1 .. Len(c.pending) - (n + 1) + 1 : rest[i] = c.pending[n + 1 + i - 1]
    BY <1>1, <2>1, SubSeqProperties
  <2> HIDE DEF rest
  <2>3. ASSUME NEW i \in 1 .. Len(c.pending) - n PROVE rest[i] = c.pending[n + i]
    <3>1. i \in 1 .. Len(c.pending) - (n + 1) + 1 /\ n + 1 + i - 1 = n + i
      BY <1>1
    <3> QED
      BY <2>2, <3>1
  <2> QED
    BY <1>1, <2>2, <2>3
<1>5. b = [c EXCEPT !.pending = rest, !.unacked = @ \cup numbers]
  BY DEF Sent, Sound, ConnectionType
<1>6. ASSUME NEW pkt \in Range(first)
      PROVE  \E i \in 1 .. Len(c.pending) : pkt = c.pending[i]
  <2> HIDE DEF first
  <2>1. PICK i \in 1 .. n : pkt = first[i]
    BY <1>3 DEF Range
  <2> QED
    BY <1>1, <1>3, <2>1
<1> HIDE DEF first, rest
<1>7. numbers \subseteq PktNum
  BY <1>6 DEF Sound, PacketOK
<1> HIDE DEF numbers, b
<1>8. /\ b \in ConnectionType /\ b.pending = rest /\ b.remote = c.remote
      /\ b.local = c.local /\ b.told = c.told /\ b.state = c.state
      /\ b.closePktNum = c.closePktNum /\ b.nowPktNum = c.nowPktNum
  <2>1. c \in ConnectionType
    BY DEF Sound
  <2> QED
    BY <2>1, <1>4, <1>5, <1>7 DEF ConnectionType
<1>9. ASSUME NEW i \in 1 .. Len(b.pending)
      PROVE  /\ PacketOK(b.pending[i])
             /\ b.pending[i].dst = b.remote
             /\ b.pending[i].kind = "close" => b.closePktNum > 0
  <2>1. b.pending[i] = c.pending[n + i] /\ n + i \in 1 .. Len(c.pending)
    BY <1>1, <1>4, <1>8
  <2> QED
    BY <1>8, <2>1 DEF Sound
<1>10. Sound(b) /\ Keeps(c, b)
  BY <1>8, <1>9 DEF Sound, Keeps
<1> QED
  BY <1>6, <1>8, <1>10 DEF b, first

\* The packets a pass sends are of their type, and a CONNECTION_CLOSE packet among them
\* comes from a connection that closes.
LEMMA PassSends ==
  ASSUME NEW c, Sound(c), NEW n \in 0 .. Len(c.pending),
         NEW pkt \in Range(SubSeq(c.pending, 1, n)) \cup AckOf(c)
  PROVE  PacketOK(pkt) /\ (pkt.kind = "close" => pkt.dst = c.remote /\ c.closePktNum > 0)
<1>1. CASE pkt \in Range(SubSeq(c.pending, 1, n))
  <2>1. PICK i \in 1 .. Len(c.pending) : pkt = c.pending[i]
    BY <1>1, SentSound
  <2> QED
    BY <2>1 DEF Sound
<1>2. CASE pkt \in AckOf(c)
  <2>1. pkt = [kind |-> "ack", needACK |-> FALSE, src |-> c.local, dst |-> c.remote,
               pktNum |-> 0, acks |-> c.rec]
    BY <1>2 DEF AckOf
  <2>2. c.local \in ConnectionID /\ c.remote \in ConnectionID /\ c.rec \in SUBSET PktNum
    BY DEF Sound, ConnectionType
  <2> QED
    BY <2>1, <2>2 DEF PacketOK, PacketType
<1> QED
  BY <1>1, <1>2

LEMMA WithDataSound ==
  ASSUME NEW c, Sound(c), c.nowPktNum + 1 \in PktNum
  PROVE  LET b == WithData(c)
         IN  /\ Sound(b)
             /\ Keeps(c, b)
             /\ b.local = c.local /\ b.told = c.told /\ b.state = c.state
             /\ b.closePktNum = c.closePktNum
<1> DEFINE q == Queued(c, "data", TRUE, {})
           b == WithData(c)
<1>1. Sound(q) /\ Keeps(c, q)
  BY QueuedSound
<1>2. q.local = c.local /\ q.told = c.told /\ q.state = c.state /\ q.closePktNum = c.closePktNum
  BY QueuedFields
<1>3. b = [q EXCEPT !.streams = TRUE, !.sentData = TRUE]
  BY DEF WithData
<1> HIDE DEF q, b
<1>4. /\ b \in ConnectionType /\ b.pending = q.pending /\ b.remote = q.remote
      /\ b.local = q.local /\ b.told = q.told /\ b.state = q.state
      /\ b.closePktNum = q.closePktNum
  BY <1>1, <1>3 DEF Sound, ConnectionType
<1>5. Sound(b) /\ Keeps(q, b)
  BY <1>1, <1>4, SameQueueSound DEF Sound
<1> QED
  BY <1>1, <1>2, <1>4, <1>5 DEF Keeps, b

\* How many numbers a pass takes after its timers.
LEMMA PassNumbers ==
  ASSUME NEW c, Sound(c), NEW p, NEW timer, NEW n
  PROVE  LET s == Sent(AtTimer(p, c, timer), n)
         IN  /\ s.nowPktNum = AtTimer(p, c, timer).nowPktNum
             /\ WithData(s).nowPktNum = AtTimer(p, c, timer).nowPktNum + 1
<1> DEFINE t == AtTimer(p, c, timer)
           s == Sent(t, n)
<1>1. t = c \/ t = [c EXCEPT !.state = "CLOSED"] \/ t = Closing(c)
  BY DEF AtTimer
<1> HIDE DEF t
<1>2. DOMAIN t = DOMAIN c /\ {"nowPktNum", "pending", "state", "closePktNum"} \subseteq DOMAIN c
  BY <1>1 DEF Closing, Queued, Sound, ConnectionType
<1>3. s.nowPktNum = t.nowPktNum /\ DOMAIN s = DOMAIN t
  BY <1>2 DEF Sent
<1> HIDE DEF s
<1>4. WithData(s).nowPktNum = s.nowPktNum + 1
  BY <1>2, <1>3 DEF WithData, Queued
<1> QED
  BY <1>3, <1>4 DEF s, t

LEMMA PassKeepsInv ==
  ASSUME LifeInv, NEW p \in Peer, NEW d \in DOMAIN conns[p], NEW timer, NEW n,
         NEW talks \in BOOLEAN, Pass(p, d, timer, n, talks)
  PROVE  LifeInv'
<1> DEFINE a == conns[p][d]
           t == AtTimer(p, a, timer)
           s == Sent(t, n)
           b == IF talks THEN WithData(s) ELSE s
           sends == Range(SubSeq(t.pending, 1, n)) \cup AckOf(t)
<1>1. Sound(a) /\ Reasoned(p, a)
  BY BeforeStep
<1>2. /\ n \in SentCount(t) /\ Become(p, d, b) /\ UNCHANGED aborted
      /\ inFlight' = [inFlight EXCEPT ![Other(p)] = @ \cup sends]
  BY DEF Pass
<1>3. n \in 0 .. Len(t.pending)
  BY <1>2 DEF SentCount
<1>4. t.nowPktNum \in Nat /\ MaxPktNum[p] \in Nat
  BY <1>1, AtTimerNumber, BoundAssumption
<1>5. b.nowPktNum = IF talks THEN t.nowPktNum + 1 ELSE t.nowPktNum
  BY <1>1, PassNumbers
<1>6. b.nowPktNum <= MaxPktNum[p]
  BY <1>2, BecomeNumber
<1> HIDE DEF b
<1>7. /\ Sound(t) /\ Keeps(a, t) /\ t.local = a.local /\ t.told = a.told
      /\ t.state = "CLOSED" => a.state = "CLOSED" \/ t.closePktNum > 0
  <2>1. t.nowPktNum <= MaxPktNum[p]
    BY <1>4, <1>5, <1>6
  <2> QED
    BY <1>1, <2>1, AtTimerSound
<1> HIDE DEF t
<1>8. /\ Sound(s) /\ Keeps(t, s) /\ s.local = t.local /\ s.told = t.told /\ s.state = t.state
      /\ s.closePktNum = t.closePktNum /\ s.nowPktNum = t.nowPktNum
  BY <1>3, <1>7, SentSound
<1> HIDE DEF s
<1>9. /\ Sound(b) /\ Keeps(t, b) /\ b.local = t.local /\ b.told = t.told /\ b.state = t.state
      /\ b.closePktNum = t.closePktNum
  <2>1. CASE talks
    <3>1. s.nowPktNum + 1 \in PktNum
      BY <1>4, <1>5, <1>6, <1>8, <2>1, NumberOfSound
    <3>2. b = WithData(s)
      BY <2>1 DEF b
    <3>3. /\ Sound(WithData(s)) /\ Keeps(s, WithData(s)) /\ WithData(s).local = s.local
          /\ WithData(s).told = s.told /\ WithData(s).state = s.state
          /\ WithData(s).closePktNum = s.closePktNum
      BY <1>8, <3>1, WithDataSound
    <3> QED
      BY <1>8, <3>2, <3>3 DEF Keeps
  <2>2. CASE ~talks
    <3>1. b = s
      BY <2>2 DEF b
    <3> QED
      BY <1>8, <3>1
  <2> QED
    BY <2>1, <2>2
<1>10. Keeps(a, b)
  BY <1>7, <1>9 DEF Keeps
<1>11. Reasoned(p, b)
  <2>1. b.closePktNum = 0 => ~(b.closePktNum > 0)
    OBVIOUS
  <2>2. b.closePktNum = 0 => a.closePktNum = 0
    <3>1. a.closePktNum \in PktNum \cup {0}
      BY <1>1 DEF Sound, ConnectionType
    <3>2. \A k \in PktNum \cup {0} : k = 0 \/ k > 0
      BY NumbersAreNat
    <3> QED
      BY <1>10, <3>1, <3>2 DEF Keeps
  <2> QED
    BY <1>1, <1>7, <1>9, <2>1, <2>2 DEF Reasoned
<1>12. \A pkt \in sends : PacketOK(pkt) /\ (pkt.kind = "close" => pkt.dst = b.remote /\ b.closePktNum > 0)
  BY <1>3, <1>7, <1>9, PassSends DEF Keeps
<1>13. inFlight' \in [Peer -> SUBSET PacketType] /\ aborted' \in [Peer -> BOOLEAN]
  <2>1. sends \subseteq PacketType
    BY <1>12 DEF PacketOK
  <2> HIDE DEF sends
  <2> QED
    BY <1>2, <2>1 DEF LifeInv, LifecycleTypeOK
<1> HIDE DEF sends
<1>14. SentBy(p, b)
  BY <1>2, <1>12 DEF SentBy, LifeInv, LifecycleTypeOK
<1> QED
  BY <1>1, <1>2, <1>9, <1>10, <1>11, <1>13, <1>14, BecomeKeepsInv DEF Become

LEMMA LifeInvStep ==
  ASSUME LifeInv, [Next]_vars
  PROVE  LifeInv'
<1>1. ASSUME NEW p \in Peer, Endpoint(p)
      PROVE  LifeInv'
  <2>1. CASE p = Client /\ CreateConnection
    BY <2>1, CreateKeepsInv
  <2>2. ASSUME NEW d \in DOMAIN conns[p], CloseConnection(p, d)
        PROVE  LifeInv'
    BY <2>2, CloseKeepsInv
  <2>3. ASSUME NEW pkt \in inFlight[p], Receive(p, pkt)
        PROVE  LifeInv'
    <3>1. CASE ReceiveInitial(p, pkt)
      BY <3>1, AcceptKeepsInv, HandshakeAtClientKeepsInv, HandshakeAtServerKeepsInv
         DEF ReceiveInitial
    <3>2. CASE AbortOnUnknown(p, pkt)
      BY <3>2 DEF AbortOnUnknown, LifeInv, LifecycleTypeOK, Reasoned, Backed, Closer
    <3>3. CASE ReceiveData(p, pkt)
      BY <3>3, DataKeepsInv
    <3>4. CASE ReceiveClose(p, pkt)
      BY <3>4, CloseReceivedKeepsInv
    <3>5. CASE ReceiveAck(p, pkt)
      BY <3>5, AckKeepsInv
    <3> QED
      BY <2>3, <3>1, <3>2, <3>3, <3>4, <3>5 DEF Receive
  <2>4. ASSUME NEW d \in DOMAIN conns[p], NEW timer, NEW n, NEW talks \in BOOLEAN,
               Pass(p, d, timer, n, talks)
        PROVE  LifeInv'
    BY <2>4, PassKeepsInv
  <2> QED
    BY <1>1, <2>1, <2>2, <2>3, <2>4 DEF Endpoint
<1>2. CASE UNCHANGED vars
  BY <1>2 DEF vars, LifeInv, LifecycleTypeOK, Reasoned, Backed, Closer
<1> QED
  BY <1>1, <1>2 DEF Next

\* What the connections of each end know of themselves, the reasons for a close and the
\* origin of the packets in flight hold together: the inductive invariant.
THEOREM LifeInvHolds == Spec => []LifeInv
<1>1. Init => LifeInv
  BY DEF Init, LifeInv, LifecycleTypeOK
<1> QED
  BY <1>1, LifeInvStep, PTL DEF Spec

\* The state of both ends keeps its types, however many connections Initial packets open:
\* no operation numbers a packet beyond what Become allows, or records an ACK as received.
THEOREM LifecycleTypeCorrect == Spec => []LifecycleTypeOK
<1>1. LifeInv => LifecycleTypeOK
  BY DEF LifeInv
<1> QED
  BY <1>1, LifeInvHolds, PTL

\* No end is told of a close, or closed without having asked for it, unless CloseConnection
\* ran at an end that sends to it, in every order of passes and deliveries.
THEOREM ClosesHaveReasons == Spec => []ClosedForAReason
<1>1. LifeInv => ClosedForAReason
  BY DEF LifeInv, ClosedForAReason, Reasoned, Closer, Connections, Range
<1> QED
  BY <1>1, LifeInvHolds, PTL

-----------------------------------------------------------------------------
(***************************************************************************)
(* The identifiers.  What an end draws for a descriptor is what the other  *)
(* end addresses it by, and only the two Initial packets after the first   *)
(* carry an identifier back.  So the packets that are waiting or in flight *)
(* say what the handshake knows already, and the invariant relates them to *)
(* the connections of both ends.                                           *)
(***************************************************************************)
\* The identifier by which the connection d of p addresses the other end.
Label(p, d) == Generate(p, d, "remote")

\* A connection of the client and one of the server hold the same two identifiers.
Agreed(j) ==
    /\ conns[Client][j].state # "CREATED"
    /\ \E k \in DOMAIN conns[Server] :
          /\ conns[Client][j].local = Label(Server, k)
          /\ conns[Server][k].local = Label(Client, j)

\* A packet a connection d of p may have made.  The second packet of the handshake
\* names the server's connection; a packet with a higher number is the third.
MadeBy(p, d, pkt) ==
    /\ pkt.dst = Label(p, d)
    /\ pkt.kind = "initial" =>
          \/ pkt.pktNum = 1 /\ (p = Server => pkt.src = conns[p][d].local)
          \/ /\ p = Client /\ pkt.pktNum > 1
             /\ Agreed(d) /\ pkt.src = conns[p][d].local

Known(p, pkt) == \E d \in DOMAIN conns[p] : MadeBy(p, d, pkt)

\* A stray Initial packet has opened the connection d of the server.
Shared(d) == \E e \in 1 .. d - 1 : conns[Server][e].local = conns[Server][d].local

\* An end is closed by a call of its own or was told.
Excused(c) == c.state = "CLOSED" => c.told > 0 \/ c.closePktNum > 0

Named(p, d) ==
    LET c == conns[p][d]
    IN  /\ c.remote = Label(p, d)
        /\ c.nowPktNum > 0
        /\ Excused(c)
        /\ \A i \in DOMAIN c.pending : MadeBy(p, d, c.pending[i])

ClientNamed(d) ==
    LET c == conns[Client][d]
    IN  /\ c.state = "CREATED" => /\ c.local = Generate(Client, d, "local")
                                  /\ c.ready = 0 /\ c.closePktNum = 0
        /\ c.state = "PEER_ESTABLISHED" => 1 \in c.rec
        /\ c.state = "ESTABLISHED" => Agreed(d)
        /\ d = 1 => c.state = "CREATED" \/ Agreed(1)

\* Of the connections with one identifier only the last can be in use, and the first
\* among them, when the handshake is complete, is the one the client agreed with.
ServerNamed(d) ==
    LET c == conns[Server][d]
    IN  /\ c.state # "CREATED"
        /\ \E j \in DOMAIN conns[Client] : c.local = Label(Client, j)
        /\ 1 \in c.rec \/ Shared(d)
        /\ \A e \in 1 .. d - 1 : conns[Server][e].local = c.local => ~IsLive(conns[Server][e])
        /\ c.state = "ESTABLISHED" /\ ~Shared(d) =>
               \E j \in DOMAIN conns[Client] :
                   /\ conns[Client][j].state # "CREATED"
                   /\ conns[Client][j].local = Label(Server, d)
                   /\ c.local = Label(Client, j)

\* The inductive invariant.
NameInv ==
    /\ \A p \in Peer : \A d \in DOMAIN conns[p] : Named(p, d)
    /\ \A d \in DOMAIN conns[Client] : ClientNamed(d)
    /\ \A d \in DOMAIN conns[Server] : ServerNamed(d)
    /\ \A p \in Peer : \A pkt \in inFlight[p] : Known(Other(p), pkt)

-----------------------------------------------------------------------------
(* What the operations that open nothing do to a connection.               *)

\* A packet that waited at c already, or one that c makes besides Initial packets.
Carried(c, pkt) ==
    \/ \E i \in DOMAIN c.pending : pkt = c.pending[i]
    \/ pkt.kind # "initial" /\ pkt.dst = c.remote

\* The connection c becomes b in a step that is not part of the handshake.
Evolves(c, b) ==
    /\ b.remote = c.remote /\ b.local = c.local /\ c.rec \subseteq b.rec
    /\ b.state \in {c.state, "WAIT_FOR_PEER_CLOSE", "CLOSED"}
    /\ c.state = "CREATED" => b.state = "CREATED" /\ b.ready = c.ready
                              /\ b.closePktNum = c.closePktNum
    /\ Excused(c) => Excused(b)
    /\ c.nowPktNum > 0 => b.nowPktNum > 0
    /\ \A i \in DOMAIN b.pending : Carried(c, b.pending[i])

LEMMA EvolvesOn ==
  ASSUME NEW c, NEW t, NEW b, Evolves(c, t), Evolves(t, b)
  PROVE  Evolves(c, b)
<1>1. \A i \in DOMAIN b.pending : Carried(c, b.pending[i])
  BY DEF Evolves, Carried
<1> QED
  BY <1>1 DEF Evolves

\* A step that leaves a connection as it is, but for what it received and sent.
LEMMA SameEvolves ==
  ASSUME NEW c, NEW b, c.rec \subseteq b.rec,
         b.pending = c.pending, b.remote = c.remote, b.local = c.local,
         b.state = c.state, b.closePktNum = c.closePktNum, b.ready = c.ready,
         b.nowPktNum = c.nowPktNum, b.told = c.told
  PROVE  Evolves(c, b)
BY DEF Evolves, Excused, Carried

\* The connection b is c with one more packet queued.
AddsOne(c, b, pkt) ==
    /\ b.remote = c.remote /\ b.local = c.local /\ b.rec = c.rec /\ b.state = c.state
    /\ b.closePktNum = c.closePktNum /\ b.ready = c.ready /\ b.told = c.told
    /\ b.nowPktNum = c.nowPktNum + 1 /\ b.nowPktNum > 0
    /\ DOMAIN b.pending = DOMAIN c.pending \cup {Len(c.pending) + 1}
    /\ \A i \in DOMAIN c.pending : b.pending[i] = c.pending[i]
    /\ b.pending[Len(c.pending) + 1] = pkt
    /\ DOMAIN b = DOMAIN c

PacketOf(c, kind, needACK, acks) ==
    [kind |-> kind, needACK |-> needACK, src |-> c.local, dst |-> c.remote,
     pktNum |-> IF kind = "ack" THEN 0 ELSE c.nowPktNum + 1, acks |-> acks]

LEMMA QueuedAdds ==
  ASSUME NEW c, Sound(c), NEW kind, NEW needACK, NEW acks
  PROVE  AddsOne(c, Queued(c, kind, needACK, acks), PacketOf(c, kind, needACK, acks))
<1> DEFINE pkt == PacketOf(c, kind, needACK, acks)
           b == Queued(c, kind, needACK, acks)
<1>1. b = [c EXCEPT !.nowPktNum = @ + 1, !.pending = Append(@, pkt)]
  BY DEF Queued, PacketOf
<1>2. c.pending \in Seq(PacketType) /\ c.nowPktNum \in Nat
  BY LastNumber DEF Sound, ConnectionType
<1> HIDE DEF pkt, b
<1>3. /\ b.remote = c.remote /\ b.local = c.local /\ b.rec = c.rec /\ b.state = c.state
      /\ b.closePktNum = c.closePktNum /\ b.ready = c.ready /\ b.told = c.told
      /\ b.nowPktNum = c.nowPktNum + 1 /\ b.pending = Append(c.pending, pkt)
      /\ DOMAIN b = DOMAIN c
  BY <1>1 DEF Sound, ConnectionType
<1>4. /\ DOMAIN b.pending = DOMAIN c.pending \cup {Len(c.pending) + 1}
      /\ \A i \in DOMAIN c.pending : b.pending[i] = c.pending[i]
      /\ b.pending[Len(c.pending) + 1] = pkt
  BY <1>2, <1>3
<1>5. b.nowPktNum > 0
  BY <1>2, <1>3
<1>6. AddsOne(c, b, pkt)
  BY <1>3, <1>4, <1>5 DEF AddsOne
<1> QED
  BY <1>6 DEF b, pkt

LEMMA QueuedEvolves ==
  ASSUME NEW c, Sound(c), NEW kind \in {"data", "close", "ack"}, NEW needACK, NEW acks
  PROVE  Evolves(c, Queued(c, kind, needACK, acks))
<1> DEFINE b == Queued(c, kind, needACK, acks)
           pkt == PacketOf(c, kind, needACK, acks)
<1>1. AddsOne(c, b, pkt)
  BY QueuedAdds
<1>2. pkt.kind # "initial" /\ pkt.dst = c.remote
  BY DEF PacketOf
<1> HIDE DEF b, pkt
<1>3. \A i \in DOMAIN b.pending : Carried(c, b.pending[i])
  BY <1>1, <1>2 DEF AddsOne, Carried
<1>4. Evolves(c, b)
  BY <1>1, <1>3 DEF AddsOne, Evolves, Excused
<1> QED
  BY <1>4 DEF b

\* The connection b is c with a CONNECTION_CLOSE packet queued.
StartsClosing(c, b) ==
    /\ b.state = "WAIT_FOR_PEER_CLOSE" /\ b.closePktNum > 0
    /\ b.remote = c.remote /\ b.local = c.local /\ b.rec = c.rec
    /\ b.ready = c.ready /\ b.told = c.told
    /\ b.nowPktNum = c.nowPktNum + 1 /\ b.nowPktNum > 0
    /\ \A i \in DOMAIN b.pending : Carried(c, b.pending[i])
    /\ DOMAIN b = DOMAIN c

LEMMA ClosingStarts ==
  ASSUME NEW c, Sound(c)
  PROVE  StartsClosing(c, Closing(c))
<1> DEFINE q == Queued(c, "close", TRUE, {})
           b == Closing(c)
           n == c.nowPktNum + 1
           pkt == PacketOf(c, "close", TRUE, {})
<1>1. Evolves(c, q) /\ AddsOne(c, q, pkt)
  BY QueuedEvolves, QueuedAdds
<1>2. b = [q EXCEPT !.state = "WAIT_FOR_PEER_CLOSE", !.closePktNum = n]
  BY DEF Closing
<1>3. DOMAIN c = {"state", "local", "remote", "nowPktNum", "pending", "unacked", "rec",
                  "closePktNum", "streams", "ready", "told", "sentData"}
  BY DEF Sound, ConnectionType
<1> HIDE DEF q, b, pkt
<1>4. q.nowPktNum = n
  BY <1>1 DEF AddsOne
<1> HIDE DEF n
<1>5. /\ b.state = "WAIT_FOR_PEER_CLOSE" /\ b.closePktNum = n /\ b.remote = q.remote
      /\ b.local = q.local /\ b.rec = q.rec /\ b.ready = q.ready /\ b.told = q.told
      /\ b.nowPktNum = q.nowPktNum /\ b.pending = q.pending /\ DOMAIN b = DOMAIN q
  <2>1. DOMAIN q = DOMAIN c
    BY <1>1 DEF AddsOne
  <2> QED
    BY <2>1, <1>2, <1>3
<1>6. \A i \in DOMAIN b.pending : Carried(c, b.pending[i])
  BY <1>1, <1>5 DEF Evolves
<1>7. StartsClosing(c, b)
  BY <1>1, <1>4, <1>5, <1>6 DEF AddsOne, StartsClosing, n
<1> QED
  BY <1>7 DEF b

LEMMA ClosingEvolves ==
  ASSUME NEW c, Sound(c), c.state # "CREATED"
  PROVE  Evolves(c, Closing(c))
BY ClosingStarts DEF StartsClosing, Evolves, Excused
LEMMA AtTimerEvolves ==
  ASSUME NEW c, Sound(c), NEW p, NEW timer
  PROVE  /\ Evolves(c, AtTimer(p, c, timer))
         /\ \/ AtTimer(p, c, timer).state = c.state
               /\ AtTimer(p, c, timer).closePktNum = c.closePktNum
            \/ /\ AtTimer(p, c, timer).closePktNum > 0
               /\ c.state \notin {"CREATED", "CLOSED"}
         /\ AtTimer(p, c, timer).state = "CLOSED" => c.state = "CLOSED" \/ c.closePktNum > 0
<1> DEFINE t == AtTimer(p, c, timer)
<1>1. CASE timer = "alarm" /\ c.state = "WAIT_FOR_PEER_CLOSE"
  <2>1. t = [c EXCEPT !.state = "CLOSED"]
    BY <1>1 DEF AtTimer
  <2> HIDE DEF t
  <2>2. /\ t.pending = c.pending /\ t.remote = c.remote /\ t.local = c.local
        /\ t.state = "CLOSED" /\ t.closePktNum = c.closePktNum /\ t.ready = c.ready
        /\ t.nowPktNum = c.nowPktNum /\ t.told = c.told /\ t.rec = c.rec
    BY <2>1 DEF Sound, ConnectionType
  <2>3. c.closePktNum > 0
    BY <1>1 DEF Sound
  <2>4. Evolves(c, t)
    BY <1>1, <2>2, <2>3 DEF Evolves, Excused, Carried
  <2> QED
    BY <1>1, <2>2, <2>3, <2>4 DEF t
<1>2. CASE timer = "idle" /\ MayTimeOut(p, c)
  <2>1. t = Closing(c) /\ c.state \notin {"CREATED", "CLOSED"}
    BY <1>2 DEF AtTimer, MayTimeOut
  <2> HIDE DEF t
  <2>2. Evolves(c, t) /\ t.closePktNum > 0 /\ t.state # "CLOSED"
    BY <2>1, ClosingStarts, ClosingEvolves DEF StartsClosing
  <2> QED
    BY <2>1, <2>2 DEF t
<1>3. CASE ~(timer = "alarm" /\ c.state = "WAIT_FOR_PEER_CLOSE") /\ ~(timer = "idle" /\ MayTimeOut(p, c))
  <2>1. t = c
    BY <1>3 DEF AtTimer
  <2>2. Evolves(c, c)
    BY SameEvolves
  <2> QED
    BY <2>1, <2>2
<1> QED
  BY <1>1, <1>2, <1>3

LEMMA SentEvolves ==
  ASSUME NEW c, Sound(c), NEW n \in 0 .. Len(c.pending)
  PROVE  Evolves(c, Sent(c, n))
<1> DEFINE rest == SubSeq(c.pending, n + 1, Len(c.pending))
           b == Sent(c, n)
<1>1. c.pending \in Seq(PacketType) /\ Len(c.pending) \in Nat
  BY DEF Sound, ConnectionType
<1>2. ASSUME NEW i \in DOMAIN rest
      PROVE  \E k \in DOMAIN c.pending : rest[i] = c.pending[k]
  <2>1. \A k \in n + 1 .. Len(c.pending) : c.pending[k] \in PacketType
    BY <1>1
  <2>2. /\ rest \in Seq(PacketType)
        /\ Len(rest) = IF n + 1 <= Len(c.pending) THEN Len(c.pending) - (n + 1) + 1 ELSE 0
        /\ \A k \in 1 .. Len(c.pending) - (n + 1) + 1 : rest[k] = c.pending[n + 1 + k - 1]
    BY <1>1, <2>1, SubSeqProperties
  <2> HIDE DEF rest
  <2>3. i \in 1 .. Len(c.pending) - (n + 1) + 1 /\ n + 1 + i - 1 \in DOMAIN c.pending
    BY <1>1, <2>2
  <2> QED
    BY <2>2, <2>3
<1>3. b = [c EXCEPT !.pending = rest,
                    !.unacked = @ \cup {pkt.pktNum : pkt \in
                                    {q \in Range(SubSeq(c.pending, 1, n)) : q.needACK}}]
  BY DEF Sent, Sound, ConnectionType
<1> HIDE DEF rest, b
<1>4. /\ b.pending = rest /\ b.remote = c.remote /\ b.local = c.local
      /\ b.state = c.state /\ b.closePktNum = c.closePktNum /\ b.ready = c.ready
      /\ b.nowPktNum = c.nowPktNum /\ b.told = c.told /\ b.rec = c.rec
  BY <1>3 DEF Sound, ConnectionType
<1>5. Evolves(c, b)
  BY <1>2, <1>4 DEF Evolves, Excused, Carried
<1> QED
  BY <1>5 DEF b

LEMMA WithDataEvolves ==
  ASSUME NEW c, Sound(c)
  PROVE  Evolves(c, WithData(c))
<1> DEFINE q == Queued(c, "data", TRUE, {})
           b == WithData(c)
<1> DEFINE pkt == PacketOf(c, "data", TRUE, {})
<1>0. Evolves(c, q) /\ AddsOne(c, q, pkt)
  BY QueuedEvolves, QueuedAdds
<1>1. DOMAIN q = DOMAIN c
  <2> HIDE DEF q, pkt
  <2> QED
    BY <1>0 DEF AddsOne
<1>2. DOMAIN c = {"state", "local", "remote", "nowPktNum", "pending", "unacked", "rec",
                  "closePktNum", "streams", "ready", "told", "sentData"}
  BY DEF Sound, ConnectionType
<1>3. b = [q EXCEPT !.streams = TRUE, !.sentData = TRUE]
  BY DEF WithData
<1> HIDE DEF q, b
<1>4. /\ b.pending = q.pending /\ b.remote = q.remote /\ b.local = q.local
      /\ b.state = q.state /\ b.closePktNum = q.closePktNum /\ b.ready = q.ready
      /\ b.nowPktNum = q.nowPktNum /\ b.told = q.told /\ b.rec = q.rec
  BY <1>1, <1>2, <1>3
<1>5. Evolves(c, b)
  BY <1>0, <1>4, SameEvolves, EvolvesOn
<1> QED
  BY <1>5 DEF b

-----------------------------------------------------------------------------
(* The steps that open nothing.                                            *)

\* How what an application makes of its connection may change in them.
Moves(p, c, b) ==
    \/ ViewOf(b) = ViewOf(c)
    \/ ViewOf(c) = "open" /\ ViewOf(b) = "closing"
    \/ ViewOf(c) = "closing" /\ ViewOf(b) = "closed"
    \/ ViewOf(c) \in {"open", "closing"} /\ ViewOf(b) = "closed" /\ Closer(p, c.local)

\* Such a step of the connection d of p.
Quiet(p, d) ==
    /\ conns' = [conns EXCEPT ![p][d] = conns'[p][d]]
    /\ Evolves(conns[p][d], conns'[p][d])
    /\ Moves(p, conns[p][d], conns'[p][d])
    /\ \A q \in Peer : \A pkt \in inFlight'[q] :
           pkt \in inFlight[q] \/ (q = Other(p) /\ Carried(conns[p][d], pkt))

LEMMA BecomesQuietly ==
  ASSUME LifeInv, NEW p \in Peer, NEW d \in DOMAIN conns[p], NEW b, Become(p, d, b),
         Evolves(conns[p][d], b), Moves(p, conns[p][d], b),
         \A q \in Peer : \A pkt \in inFlight'[q] :
             pkt \in inFlight[q] \/ (q = Other(p) /\ Carried(conns[p][d], pkt))
  PROVE  Quiet(p, d)
<1>1. conns' = [conns EXCEPT ![p][d] = b] /\ conns'[p][d] = b
  BY DEF Become, LifeInv, LifecycleTypeOK
<1> QED
  BY <1>1 DEF Quiet

\* What an end makes of a connection whose state and call of CloseConnection stay.
LEMMA SameView ==
  ASSUME NEW c, NEW b, b.state = c.state, b.closePktNum = c.closePktNum
  PROVE  ViewOf(b) = ViewOf(c)
BY DEF ViewOf

LEMMA ViewCases ==
  ASSUME NEW c, Sound(c)
  PROVE  /\ ViewOf(c) \in {"opening", "open", "closing", "closed"}
         /\ ViewOf(c) = "opening" <=> c.state = "CREATED"
         /\ ViewOf(c) = "closed" <=> c.state = "CLOSED"
         /\ ViewOf(c) = "closing" <=> c.state \notin {"CREATED", "CLOSED"} /\ c.closePktNum > 0
         /\ ViewOf(c) = "open" <=> c.state \notin {"CREATED", "CLOSED"} /\ c.closePktNum = 0
<1>1. c.closePktNum \in PktNum \cup {0}
  BY DEF Sound, ConnectionType
<1>2. \A k \in PktNum \cup {0} : k > 0 <=> ~(k = 0)
  BY NumbersAreNat
<1>3. c.closePktNum > 0 <=> ~(c.closePktNum = 0)
  BY <1>1, <1>2, Zenon
<1>4. c.state = "CREATED" => ViewOf(c) = "opening"
  BY DEF ViewOf
<1>5. c.state = "CLOSED" => ViewOf(c) = "closed"
  BY DEF ViewOf
<1>6. c.state \notin {"CREATED", "CLOSED"} /\ c.closePktNum > 0 => ViewOf(c) = "closing"
  BY DEF ViewOf
<1>7. c.state \notin {"CREATED", "CLOSED"} /\ ~(c.closePktNum > 0) => ViewOf(c) = "open"
  BY DEF ViewOf
<1> DEFINE v == ViewOf(c)
           greater == c.closePktNum > 0
           none == c.closePktNum = 0
<1> HIDE DEF v, greater, none
<1>8. greater <=> ~none
  BY <1>3 DEF greater, none
<1>9. /\ c.state = "CREATED" => v = "opening"
      /\ c.state = "CLOSED" => v = "closed"
      /\ c.state \notin {"CREATED", "CLOSED"} /\ greater => v = "closing"
      /\ c.state \notin {"CREATED", "CLOSED"} /\ ~greater => v = "open"
  BY <1>4, <1>5, <1>6, <1>7 DEF v, greater
<1>10. /\ v \in {"opening", "open", "closing", "closed"}
       /\ v = "opening" <=> c.state = "CREATED"
       /\ v = "closed" <=> c.state = "CLOSED"
       /\ v = "closing" <=> c.state \notin {"CREATED", "CLOSED"} /\ greater
       /\ v = "open" <=> c.state \notin {"CREATED", "CLOSED"} /\ none
  BY <1>8, <1>9
<1> QED
  BY <1>10 DEF v, greater, none

\* Who was called ready, or receives a packet under its identifier, was not created only.
LEMMA NamedBefore ==
  ASSUME NameInv, NEW p \in Peer, NEW d \in DOMAIN conns[p]
  PROVE  /\ Named(p, d)
         /\ conns[p][d].state = "CREATED" => ~(conns[p][d].ready > 0)
         /\ \A pkt \in inFlight[p] :
                pkt.dst = conns[p][d].local => conns[p][d].state # "CREATED"
<1>1. p = Client \/ p = Server
  BY DEF Peer
<1>2. Named(p, d)
  BY DEF NameInv
<1>3. conns[p][d].state = "CREATED" =>
          p = Client /\ conns[p][d].local = Generate(Client, d, "local") /\ conns[p][d].ready = 0
  BY <1>1 DEF NameInv, ClientNamed, ServerNamed
<1>4. ASSUME NEW pkt \in inFlight[p], pkt.dst = conns[p][d].local, conns[p][d].state = "CREATED"
      PROVE  FALSE
  <2>1. PICK k \in DOMAIN conns[Other(p)] : MadeBy(Other(p), k, pkt)
    BY DEF NameInv, Known
  <2>2. pkt.dst = Generate(Other(p), k, "remote")
    BY <2>1 DEF MadeBy, Label
  <2> QED
    BY <1>3, <1>4, <2>2 DEF Generate
<1> QED
  BY <1>2, <1>3, <1>4

LEMMA CloseIsQuiet ==
  ASSUME LifeInv, NameInv, NEW p \in Peer, NEW d \in DOMAIN conns[p], CloseConnection(p, d)
  PROVE  Quiet(p, d)
<1> DEFINE c == conns[p][d]
           b == Closing(c)
<1>1. Sound(c) /\ Excused(c) /\ c.ready > 0 /\ c.closePktNum = 0 /\ c.told = 0
  BY BeforeStep, NamedBefore DEF CloseConnection, MayClose, Named
<1>2. c.state # "CREATED" /\ c.state # "CLOSED"
  BY <1>1, NamedBefore DEF Excused
<1>3. Evolves(c, b) /\ b.state = "WAIT_FOR_PEER_CLOSE" /\ b.closePktNum > 0
  BY <1>1, <1>2, ClosingEvolves, ClosingStarts DEF StartsClosing
<1>4. Become(p, d, b) /\ UNCHANGED inFlight
  BY DEF CloseConnection
<1> HIDE DEF b
<1>5. ViewOf(c) = "open"
  BY <1>1, <1>2, ViewCases
<1>6. ViewOf(b) = "closing"
  BY <1>3 DEF ViewOf
<1>7. Moves(p, c, b)
  BY <1>5, <1>6 DEF Moves
<1> QED
  BY <1>3, <1>4, <1>7, BecomesQuietly

LEMMA DataIsQuiet ==
  ASSUME LifeInv, NEW p \in Peer, NEW pkt \in inFlight[p], ReceiveData(p, pkt)
  PROVE  \E d \in DOMAIN conns[p] : Quiet(p, d)
<1>1. PICK d \in DOMAIN conns[p] :
          /\ Become(p, d, [Recorded(conns[p][d], pkt) EXCEPT !.streams = TRUE])
          /\ UNCHANGED inFlight
  BY DEF ReceiveData
<1> DEFINE c == conns[p][d]
           b == [Recorded(c, pkt) EXCEPT !.streams = TRUE]
<1>2. Sound(c)
  BY BeforeStep
<1>3. /\ c.rec \subseteq b.rec /\ b.pending = c.pending /\ b.remote = c.remote
      /\ b.local = c.local /\ b.state = c.state /\ b.closePktNum = c.closePktNum
      /\ b.ready = c.ready /\ b.nowPktNum = c.nowPktNum /\ b.told = c.told
  BY <1>2 DEF Recorded, Sound, ConnectionType
<1>4. Become(p, d, b) /\ UNCHANGED inFlight
  BY <1>1
<1> HIDE DEF b
<1>5. Evolves(c, b) /\ Moves(p, c, b)
  BY <1>3, SameEvolves, SameView DEF Moves
<1>6. Quiet(p, d)
  BY <1>4, <1>5, BecomesQuietly
<1> QED
  BY <1>6

LEMMA AckIsQuiet ==
  ASSUME LifeInv, NEW p \in Peer, NEW pkt \in inFlight[p], ReceiveAck(p, pkt)
  PROVE  \E d \in DOMAIN conns[p] : Quiet(p, d)
<1>1. PICK d \in DOMAIN conns[p] :
          LET c == conns[p][d]
              ended == c.state = "WAIT_FOR_PEER_CLOSE" /\ c.closePktNum \in pkt.acks
          IN  /\ Become(p, d, [c EXCEPT !.unacked = @ \ pkt.acks,
                                        !.state = IF ended THEN "CLOSED" ELSE @])
              /\ UNCHANGED inFlight
  BY DEF ReceiveAck
<1> DEFINE c == conns[p][d]
           ended == c.state = "WAIT_FOR_PEER_CLOSE" /\ c.closePktNum \in pkt.acks
           state == IF ended THEN "CLOSED" ELSE c.state
           b == [c EXCEPT !.unacked = @ \ pkt.acks, !.state = state]
<1>2. Sound(c)
  BY BeforeStep
<1>3. Become(p, d, b) /\ UNCHANGED inFlight
  BY <1>1, <1>2 DEF Sound, ConnectionType
<1>4. state = c.state \/ (state = "CLOSED" /\ c.state = "WAIT_FOR_PEER_CLOSE" /\ c.closePktNum > 0)
  BY <1>2 DEF Sound
<1> HIDE DEF state
<1>5. /\ b.rec = c.rec /\ b.pending = c.pending /\ b.remote = c.remote
      /\ b.local = c.local /\ b.state = state /\ b.closePktNum = c.closePktNum
      /\ b.ready = c.ready /\ b.nowPktNum = c.nowPktNum /\ b.told = c.told
  BY <1>2 DEF Sound, ConnectionType
<1> HIDE DEF b
<1>6. Evolves(c, b)
  BY <1>4, <1>5 DEF Evolves, Excused, Carried
<1>7. Moves(p, c, b)
  <2>1. CASE state = c.state
    BY <1>5, <2>1, SameView DEF Moves
  <2>2. CASE state = "CLOSED" /\ c.state = "WAIT_FOR_PEER_CLOSE" /\ c.closePktNum > 0
    <3>1. ViewOf(c) = "closing"
      BY <1>2, <2>2, ViewCases
    <3>2. ViewOf(b) = "closed"
      BY <1>5, <2>2 DEF ViewOf
    <3> QED
      BY <3>1, <3>2 DEF Moves
  <2> QED
    BY <1>4, <2>1, <2>2
<1>8. Quiet(p, d)
  BY <1>3, <1>6, <1>7, BecomesQuietly
<1> QED
  BY <1>8

LEMMA CloseReceivedIsQuiet ==
  ASSUME LifeInv, NameInv, NEW p \in Peer, NEW pkt \in inFlight[p], ReceiveClose(p, pkt)
  PROVE  \E d \in DOMAIN conns[p] : Quiet(p, d)
<1>1. PICK d \in DOMAIN conns[p] :
          LET c == conns[p][d]
              kept == IF c.state = "CLOSED" THEN c ELSE Recorded(c, pkt)
          IN  /\ pkt.kind = "close"
              /\ Found(d, FitsLocal(p, pkt))
              /\ Become(p, d, [Queued(kept, "ack", FALSE, c.rec \cup {pkt.pktNum}) EXCEPT
                                  !.state = "CLOSED", !.told = @ + 1])
              /\ UNCHANGED inFlight
  BY DEF ReceiveClose
<1> DEFINE c == conns[p][d]
           kept == IF c.state = "CLOSED" THEN c ELSE Recorded(c, pkt)
           acks == c.rec \cup {pkt.pktNum}
           q == Queued(kept, "ack", FALSE, acks)
           b == [q EXCEPT !.state = "CLOSED", !.told = @ + 1]
<1>2. Sound(c) /\ PacketOK(pkt) /\ Closer(p, pkt.dst) /\ c.local = pkt.dst
  BY <1>1, BeforeStep DEF Backed, Found, FitsLocal
<1>3. c.state # "CREATED"
  BY <1>2, NamedBefore
<1>4. Become(p, d, b) /\ UNCHANGED inFlight
  BY <1>1
<1>5. Sound(kept) /\ Evolves(c, kept)
  <2>1. CASE c.state = "CLOSED"
    BY <1>2, <2>1, SameEvolves
  <2>2. CASE c.state # "CLOSED"
    <3> DEFINE r == Recorded(c, pkt)
    <3>1. Sound(r)
      BY <1>1, <1>2, RecordedSound
    <3>2. /\ c.rec \subseteq r.rec /\ r.pending = c.pending /\ r.remote = c.remote
          /\ r.local = c.local /\ r.state = c.state /\ r.closePktNum = c.closePktNum
          /\ r.ready = c.ready /\ r.nowPktNum = c.nowPktNum /\ r.told = c.told
      BY <1>2 DEF Recorded, Sound, ConnectionType
    <3>3. kept = r
      BY <2>2
    <3> HIDE DEF r, kept
    <3> QED
      BY <3>1, <3>2, <3>3, SameEvolves
  <2> QED
    BY <2>1, <2>2
<1> HIDE DEF kept, acks
<1> DEFINE more == PacketOf(kept, "ack", FALSE, acks)
<1>6. Evolves(kept, q) /\ AddsOne(kept, q, more)
  BY <1>5, QueuedEvolves, QueuedAdds
<1>7. c.told \in Nat /\ DOMAIN kept = DOMAIN c
      /\ DOMAIN c = {"state", "local", "remote", "nowPktNum", "pending", "unacked", "rec",
                     "closePktNum", "streams", "ready", "told", "sentData"}
      /\ kept.told = c.told
  BY <1>2, <1>5 DEF Sound, ConnectionType, Recorded, kept
<1> HIDE DEF q, more
<1>8. DOMAIN q = DOMAIN c /\ q.told = c.told /\ q.state = kept.state
  BY <1>6, <1>7 DEF AddsOne
<1>9. /\ b.rec = q.rec /\ b.pending = q.pending /\ b.remote = q.remote
      /\ b.local = q.local /\ b.state = "CLOSED" /\ b.closePktNum = q.closePktNum
      /\ b.ready = q.ready /\ b.nowPktNum = q.nowPktNum /\ b.told = c.told + 1
  BY <1>7, <1>8
<1> HIDE DEF b
<1>10. Evolves(c, q)
  BY <1>5, <1>6, EvolvesOn
<1>11. Evolves(c, b)
  <2>1. b.told > 0
    BY <1>7, <1>9
  <2> QED
    BY <1>3, <1>9, <1>10, <2>1 DEF Evolves, Excused, Carried
<1>12. Moves(p, c, b)
  <2>1. ViewOf(b) = "closed"
    BY <1>9 DEF ViewOf
  <2>2. ViewOf(c) \in {"open", "closing", "closed"}
    BY <1>2, <1>3, ViewCases
  <2>3. Closer(p, c.local)
    BY <1>2
  <2> QED
    BY <2>1, <2>2, <2>3 DEF Moves
<1>13. Quiet(p, d)
  BY <1>4, <1>11, <1>12, BecomesQuietly
<1> QED
  BY <1>13

LEMMA PassIsQuiet ==
  ASSUME LifeInv, NEW p \in Peer, NEW d \in DOMAIN conns[p], NEW timer, NEW n,
         NEW talks \in BOOLEAN, Pass(p, d, timer, n, talks)
  PROVE  Quiet(p, d)
<1> DEFINE c == conns[p][d]
           t == AtTimer(p, c, timer)
           s == Sent(t, n)
           b == IF talks THEN WithData(s) ELSE s
           sends == Range(SubSeq(t.pending, 1, n)) \cup AckOf(t)
<1>1. Sound(c)
  BY BeforeStep
<1>2. /\ n \in SentCount(t) /\ Become(p, d, b)
      /\ inFlight' = [inFlight EXCEPT ![Other(p)] = @ \cup sends]
  BY DEF Pass
<1>3. n \in 0 .. Len(t.pending)
  BY <1>2 DEF SentCount
<1>4. t.nowPktNum \in Nat /\ MaxPktNum[p] \in Nat
  BY <1>1, AtTimerNumber, BoundAssumption
<1>5. b.nowPktNum = IF talks THEN t.nowPktNum + 1 ELSE t.nowPktNum
  BY <1>1, PassNumbers
<1>6. b.nowPktNum <= MaxPktNum[p]
  BY <1>2, BecomeNumber
<1> HIDE DEF b
<1>7. Sound(t)
  <2>1. t.nowPktNum <= MaxPktNum[p]
    BY <1>4, <1>5, <1>6
  <2> QED
    BY <1>1, <2>1, AtTimerSound
<1>8. /\ Evolves(c, t)
      /\ \/ t.state = c.state /\ t.closePktNum = c.closePktNum
         \/ t.closePktNum > 0 /\ c.state \notin {"CREATED", "CLOSED"}
      /\ t.state = "CLOSED" => c.state = "CLOSED" \/ c.closePktNum > 0
  BY <1>1, AtTimerEvolves
<1> HIDE DEF t
<1>9. Evolves(t, s) /\ Sound(s) /\ s.state = t.state /\ s.closePktNum = t.closePktNum
  BY <1>3, <1>7, SentEvolves, SentSound
<1> HIDE DEF s
<1>10. Evolves(s, b) /\ b.state = s.state /\ b.closePktNum = s.closePktNum
  <2>1. CASE talks
    <3> DEFINE q == Queued(s, "data", TRUE, {})
               pkt == PacketOf(s, "data", TRUE, {})
    <3>1. b = WithData(s) /\ Evolves(s, WithData(s))
      BY <1>9, <2>1, WithDataEvolves DEF b
    <3>2. WithData(s) = [q EXCEPT !.streams = TRUE, !.sentData = TRUE]
      BY DEF WithData
    <3>3. AddsOne(s, q, pkt)
      BY <1>9, QueuedAdds
    <3>4. {"state", "closePktNum"} \subseteq DOMAIN s
      BY <1>9 DEF Sound, ConnectionType
    <3> HIDE DEF q, pkt
    <3> QED
      BY <3>1, <3>2, <3>3, <3>4 DEF AddsOne
  <2>2. CASE ~talks
    BY <2>2, SameEvolves DEF b
  <2> QED
    BY <2>1, <2>2
<1>11. Evolves(c, b)
  BY <1>8, <1>9, <1>10, EvolvesOn
<1>12. Moves(p, c, b)
  <2>1. ViewOf(b) = ViewOf(t)
    BY <1>9, <1>10, SameView
  <2>2. CASE t.state = c.state /\ t.closePktNum = c.closePktNum
    BY <2>1, <2>2, SameView DEF Moves
  <2>3. CASE t.closePktNum > 0 /\ c.state \notin {"CREATED", "CLOSED"}
    <3>1. t.state # "CREATED"
      BY <1>8, <2>3 DEF Evolves
    <3>2. CASE t.state = "CLOSED"
      <4>1. ViewOf(t) = "closed"
        BY <3>2 DEF ViewOf
      <4>2. ViewOf(c) \in {"closing", "closed"}
        BY <1>1, <1>8, <2>3, <3>2, ViewCases
      <4> QED
        BY <2>1, <4>1, <4>2 DEF Moves
    <3>3. CASE t.state # "CLOSED"
      <4>1. ViewOf(t) = "closing"
        BY <2>3, <3>1, <3>3 DEF ViewOf
      <4>2. ViewOf(c) \in {"open", "closing"}
        BY <1>1, <2>3, ViewCases
      <4> QED
        BY <2>1, <4>1, <4>2 DEF Moves
    <3> QED
      BY <3>2, <3>3
  <2> QED
    BY <1>8, <2>2, <2>3
<1>13. \A pkt \in sends : Carried(c, pkt)
  <2>1. ASSUME NEW pkt \in Range(SubSeq(t.pending, 1, n))
        PROVE  Carried(c, pkt)
    <3>1. PICK i \in 1 .. Len(t.pending) : pkt = t.pending[i]
      BY <1>3, <1>7, SentSound
    <3>2. i \in DOMAIN t.pending
      BY <1>7 DEF Sound, ConnectionType
    <3> QED
      BY <1>8, <3>1, <3>2 DEF Evolves
  <2>2. ASSUME NEW pkt \in AckOf(t)
        PROVE  Carried(c, pkt)
    <3>1. pkt.kind = "ack" /\ pkt.dst = t.remote
      BY <2>2 DEF AckOf
    <3> QED
      BY <1>8, <3>1 DEF Evolves, Carried
  <2> QED
    BY <2>1, <2>2
<1> HIDE DEF sends
<1>14. \A q \in Peer : \A pkt \in inFlight'[q] :
           pkt \in inFlight[q] \/ (q = Other(p) /\ Carried(c, pkt))
  BY <1>2, <1>13 DEF LifeInv, LifecycleTypeOK
<1> QED
  BY <1>2, <1>11, <1>12, <1>14, BecomesQuietly

-----------------------------------------------------------------------------
(* What no step takes back.                                                *)

\* Connections stay, and past CREATED with their identifier; who closes goes on closing.
Grows ==
    \A q \in Peer : \A e \in DOMAIN conns[q] :
        /\ e \in DOMAIN conns'[q]
        /\ conns[q][e].state # "CREATED" => /\ conns'[q][e].state # "CREATED"
                                            /\ conns'[q][e].local = conns[q][e].local
        /\ ~IsLive(conns[q][e]) => ~IsLive(conns'[q][e])

\* The step changes or adds the connection d of p alone.
Only(p, d) ==
    \A q \in Peer : \A e \in DOMAIN conns'[q] :
        <<q, e>> # <<p, d>> => e \in DOMAIN conns[q] /\ conns'[q][e] = conns[q][e]

LEMMA BothPeers == Client \in Peer /\ Server \in Peer /\ Client # Server
                   /\ \A p \in Peer : p = Client \/ p = Server
BY PeersAssumption DEF Peer

LEMMA AgreedStays ==
  ASSUME NameInv, Grows, NEW j \in DOMAIN conns[Client], Agreed(j)
  PROVE  Agreed(j)'
<1>1. PICK k \in DOMAIN conns[Server] :
          conns[Client][j].local = Label(Server, k) /\ conns[Server][k].local = Label(Client, j)
  BY DEF Agreed
<1>2. conns[Client][j].state # "CREATED" /\ conns[Server][k].state # "CREATED"
  BY DEF Agreed, NameInv, ServerNamed
<1>3. /\ conns'[Client][j].state # "CREATED" /\ conns'[Client][j].local = conns[Client][j].local
      /\ k \in DOMAIN conns'[Server] /\ conns'[Server][k].local = conns[Server][k].local
  BY <1>2, BothPeers DEF Grows
<1> QED
  BY <1>1, <1>3 DEF Agreed, Label

LEMMA MadeStays ==
  ASSUME NameInv, Grows, NEW p \in Peer, NEW d \in DOMAIN conns[p], NEW pkt, MadeBy(p, d, pkt)
  PROVE  MadeBy(p, d, pkt)'
<1>1. CASE p = Server
  <2>1. conns'[Server][d].local = conns[Server][d].local
    BY <1>1, BothPeers DEF Grows, NameInv, ServerNamed
  <2> QED
    BY <1>1, <2>1, BothPeers DEF MadeBy, Label
<1>2. CASE p = Client
  <2>1. CASE pkt.kind = "initial" /\ pkt.pktNum # 1
    <3>1. Agreed(d) /\ pkt.src = conns[Client][d].local /\ pkt.pktNum > 1
      BY <1>2, <2>1 DEF MadeBy
    <3>2. Agreed(d)'
      BY <1>2, <3>1, AgreedStays
    <3>3. conns'[Client][d].local = conns[Client][d].local
      BY <1>2, <3>1, BothPeers DEF Grows, Agreed
    <3> QED
      BY <1>2, <3>1, <3>2, <3>3 DEF MadeBy, Label
  <2>2. CASE pkt.kind = "initial" => pkt.pktNum = 1
    BY <1>2, <2>2, BothPeers DEF MadeBy, Label
  <2> QED
    BY <2>1, <2>2
<1> QED
  BY <1>1, <1>2, BothPeers

LEMMA KnownStays ==
  ASSUME NameInv, Grows, NEW p \in Peer, NEW pkt, Known(p, pkt)
  PROVE  Known(p, pkt)'
<1>1. PICK d \in DOMAIN conns[p] : MadeBy(p, d, pkt)
  BY DEF Known
<1>2. d \in DOMAIN conns'[p] /\ MadeBy(p, d, pkt)'
  BY <1>1, MadeStays DEF Grows
<1> QED
  BY <1>2 DEF Known

\* The identifiers of the server's connections never change.
LEMMA ServerKeepsLabels ==
  ASSUME LifeInv, NameInv, Grows, NEW d \in DOMAIN conns[Server]
  PROVE  /\ 1 .. d - 1 \subseteq DOMAIN conns[Server]
         /\ \A e \in DOMAIN conns[Server] : conns'[Server][e].local = conns[Server][e].local
         /\ Shared(d) <=> Shared(d)'
<1>1. conns[Server] \in Seq(ConnectionType)
  BY BothPeers DEF LifeInv, LifecycleTypeOK
<1>2. 1 .. d - 1 \subseteq DOMAIN conns[Server]
  BY <1>1
<1>3. \A e \in DOMAIN conns[Server] : conns'[Server][e].local = conns[Server][e].local
  BY BothPeers DEF Grows, NameInv, ServerNamed
<1> QED
  BY <1>2, <1>3 DEF Shared

LEMMA ClientNamedStays ==
  ASSUME NameInv, Grows, NEW d \in DOMAIN conns[Client], conns'[Client][d] = conns[Client][d]
  PROVE  ClientNamed(d)'
<1>1. ClientNamed(d)
  BY DEF NameInv
<1>2. Agreed(d) => Agreed(d)'
  BY AgreedStays
<1>3. d = 1 /\ Agreed(1) => Agreed(1)'
  BY AgreedStays
<1> QED
  BY <1>1, <1>2, <1>3 DEF ClientNamed

LEMMA ServerNamedStays ==
  ASSUME LifeInv, NameInv, Grows, NEW d \in DOMAIN conns[Server],
         conns'[Server][d].rec = conns[Server][d].rec,
         conns'[Server][d].state = conns[Server][d].state
  PROVE  ServerNamed(d)'
<1> DEFINE c == conns[Server][d]
<1>1. ServerNamed(d)
  BY DEF NameInv
<1>2. /\ 1 .. d - 1 \subseteq DOMAIN conns[Server]
      /\ \A e \in DOMAIN conns[Server] : conns'[Server][e].local = conns[Server][e].local
      /\ Shared(d) <=> Shared(d)'
  BY ServerKeepsLabels
<1>3. conns'[Server][d].local = c.local
  BY <1>2
<1>4. \A j \in DOMAIN conns[Client] : j \in DOMAIN conns'[Client]
  BY BothPeers DEF Grows
<1>5. \E j \in DOMAIN conns'[Client] : c.local = Label(Client, j)
  BY <1>1, <1>4 DEF ServerNamed
<1>6. ASSUME NEW e \in 1 .. d - 1, conns'[Server][e].local = c.local
      PROVE  ~IsLive(conns'[Server][e])
  BY <1>1, <1>2, <1>6, BothPeers DEF ServerNamed, Grows
<1>7. ASSUME c.state = "ESTABLISHED", ~Shared(d)
      PROVE  \E j \in DOMAIN conns'[Client] :
                /\ conns'[Client][j].state # "CREATED"
                /\ conns'[Client][j].local = Label(Server, d)
                /\ c.local = Label(Client, j)
  <2>1. PICK j \in DOMAIN conns[Client] :
            /\ conns[Client][j].state # "CREATED"
            /\ conns[Client][j].local = Label(Server, d)
            /\ c.local = Label(Client, j)
    BY <1>1, <1>7 DEF ServerNamed
  <2>2. /\ j \in DOMAIN conns'[Client] /\ conns'[Client][j].state # "CREATED"
        /\ conns'[Client][j].local = conns[Client][j].local
    BY <2>1, BothPeers DEF Grows
  <2> QED
    BY <2>1, <2>2
<1>8. c.state # "CREATED" /\ (1 \in c.rec \/ Shared(d)')
  BY <1>1, <1>2 DEF ServerNamed
<1> QED
  BY <1>2, <1>3, <1>5, <1>6, <1>7, <1>8 DEF ServerNamed, Label

LEMMA NameKept ==
  ASSUME LifeInv, NameInv, Grows, NEW p \in Peer, NEW d, Only(p, d),
         d \in DOMAIN conns'[p], Named(p, d)',
         p = Client => ClientNamed(d)', p = Server => ServerNamed(d)',
         \A q \in Peer : \A pkt \in inFlight'[q] :
             pkt \in inFlight[q] \/ Known(Other(q), pkt)'
  PROVE  NameInv'
<1>1. ASSUME NEW q \in Peer, NEW e \in DOMAIN conns'[q]
      PROVE  Named(q, e)'
  <2>1. CASE q = p /\ e = d
    BY <2>1
  <2>2. CASE <<q, e>> # <<p, d>>
    <3>1. e \in DOMAIN conns[q] /\ conns'[q][e] = conns[q][e]
      BY <2>2 DEF Only
    <3>2. Named(q, e)
      BY <3>1 DEF NameInv
    <3>3. \A i \in DOMAIN conns[q][e].pending : MadeBy(q, e, conns[q][e].pending[i])'
      BY <3>1, <3>2, MadeStays DEF Named
    <3> QED
      BY <3>1, <3>2, <3>3 DEF Named, Label
  <2> QED
    BY <2>1, <2>2
<1>2. ASSUME NEW e \in DOMAIN conns'[Client]
      PROVE  ClientNamed(e)'
  <2>1. CASE Client = p /\ e = d
    BY <2>1
  <2>2. CASE <<Client, e>> # <<p, d>>
    BY <2>2, BothPeers, ClientNamedStays DEF Only
  <2> QED
    BY <2>1, <2>2
<1>3. ASSUME NEW e \in DOMAIN conns'[Server]
      PROVE  ServerNamed(e)'
  <2>1. CASE Server = p /\ e = d
    BY <2>1
  <2>2. CASE <<Server, e>> # <<p, d>>
    BY <2>2, BothPeers, ServerNamedStays DEF Only
  <2> QED
    BY <2>1, <2>2
<1>4. ASSUME NEW q \in Peer, NEW pkt \in inFlight'[q]
      PROVE  Known(Other(q), pkt)'
  <2>1. CASE pkt \in inFlight[q]
    BY <2>1, OtherFacts, KnownStays DEF NameInv
  <2> QED
    BY <2>1
<1> QED
  BY <1>1, <1>2, <1>3, <1>4 DEF NameInv

LEMMA ChangeGrows ==
  ASSUME LifeInv, NEW p \in Peer, NEW d \in DOMAIN conns[p], NEW b,
         conns' = [conns EXCEPT ![p][d] = b],
         conns[p][d].state # "CREATED" => b.state # "CREATED" /\ b.local = conns[p][d].local,
         ~IsLive(conns[p][d]) => ~IsLive(b)
  PROVE  /\ Grows /\ Only(p, d)
         /\ \A q \in Peer : DOMAIN conns'[q] = DOMAIN conns[q]
         /\ conns'[p][d] = b
<1>1. /\ \A q \in Peer : DOMAIN conns'[q] = DOMAIN conns[q]
      /\ \A q \in Peer : \A e \in DOMAIN conns[q] :
             conns'[q][e] = IF q = p /\ e = d THEN b ELSE conns[q][e]
  BY DEF LifeInv, LifecycleTypeOK
<1>2. conns'[p][d] = b
  BY <1>1
<1>3. Only(p, d)
  BY <1>1 DEF Only
<1>4. Grows
  BY <1>1 DEF Grows
<1> QED
  BY <1>1, <1>2, <1>3, <1>4

LEMMA AdditionGrows ==
  ASSUME LifeInv, NEW p \in Peer, NEW b, conns' = [conns EXCEPT ![p] = Append(@, b)]
  PROVE  LET d == Len(conns[p]) + 1
         IN  /\ Grows /\ Only(p, d)
             /\ d \in DOMAIN conns'[p] /\ d \notin DOMAIN conns[p] /\ d \in Nat \ {0}
             /\ \A e \in 1 .. d - 1 : e \in DOMAIN conns[p] /\ conns'[p][e] = conns[p][e]
             /\ \A q \in Peer \ {p} : conns'[q] = conns[q]
             /\ conns'[p][d] = b
<1> DEFINE d == Len(conns[p]) + 1
<1>1. conns[p] \in Seq(ConnectionType)
  BY DEF LifeInv, LifecycleTypeOK
<1>2. /\ \A q \in Peer \ {p} : conns'[q] = conns[q]
      /\ conns'[p] = Append(conns[p], b)
  BY DEF LifeInv, LifecycleTypeOK
<1>3. PICK l \in Nat : l = Len(conns[p])
  BY <1>1
<1>4. DOMAIN conns[p] = 1 .. l /\ DOMAIN conns'[p] = 1 .. l + 1 /\ d = l + 1
  BY <1>1, <1>2, <1>3
<1>5. conns'[p][d] = b /\ \A e \in DOMAIN conns[p] : conns'[p][e] = conns[p][e]
  BY <1>1, <1>2
<1> HIDE DEF d
<1>6. DOMAIN conns'[p] = DOMAIN conns[p] \cup {d} /\ d \notin DOMAIN conns[p] /\ d \in Nat \ {0}
  BY <1>4
<1>7. \A e \in 1 .. d - 1 : e \in DOMAIN conns[p]
  BY <1>4
<1>8. Only(p, d)
  BY <1>2, <1>5, <1>6 DEF Only
<1>9. Grows
  <2>1. ASSUME NEW q \in Peer, NEW e \in DOMAIN conns[q]
        PROVE  e \in DOMAIN conns'[q] /\ conns'[q][e] = conns[q][e]
    BY <1>2, <1>5, <1>6
  <2> QED
    BY <2>1 DEF Grows
<1>10. /\ Grows /\ Only(p, d)
       /\ d \in DOMAIN conns'[p] /\ d \notin DOMAIN conns[p] /\ d \in Nat \ {0}
       /\ \A e \in 1 .. d - 1 : e \in DOMAIN conns[p] /\ conns'[p][e] = conns[p][e]
       /\ \A q \in Peer \ {p} : conns'[q] = conns[q]
       /\ conns'[p][d] = b
  BY <1>2, <1>5, <1>6, <1>7, <1>8, <1>9
<1> QED
  BY <1>10 DEF d

LEMMA QuietGrows ==
  ASSUME LifeInv, NEW p \in Peer, NEW d \in DOMAIN conns[p], Quiet(p, d)
  PROVE  Grows /\ Only(p, d) /\ (\A q \in Peer : DOMAIN conns'[q] = DOMAIN conns[q])
<1> DEFINE c == conns[p][d]
           b == conns'[p][d]
<1>1. conns' = [conns EXCEPT ![p][d] = b] /\ Evolves(c, b)
  BY DEF Quiet
<1> HIDE DEF b
<1>2. c.state # "CREATED" => b.state # "CREATED" /\ b.local = c.local
  BY <1>1 DEF Evolves
<1>3. ~IsLive(c) => ~IsLive(b)
  BY <1>1 DEF Evolves, IsLive
<1> QED
  BY <1>1, <1>2, <1>3, ChangeGrows

\* A packet that c made, or makes now, is of the connection it was of.
LEMMA CarriedIsMade ==
  ASSUME NameInv, Grows, NEW p \in Peer, NEW d \in DOMAIN conns[p], NEW pkt,
         Carried(conns[p][d], pkt)
  PROVE  MadeBy(p, d, pkt)'
<1>1. Named(p, d)
  BY DEF NameInv
<1>2. MadeBy(p, d, pkt)
  BY <1>1 DEF Carried, Named, MadeBy
<1> QED
  BY <1>2, MadeStays

LEMMA QuietKeepsNames ==
  ASSUME LifeInv, NameInv, NEW p \in Peer, NEW d \in DOMAIN conns[p], Quiet(p, d)
  PROVE  NameInv'
<1> DEFINE c == conns[p][d]
           b == conns'[p][d]
<1>1. Grows /\ Only(p, d) /\ d \in DOMAIN conns'[p]
  BY QuietGrows
<1>2. Evolves(c, b)
  BY DEF Quiet
<1>3. Named(p, d)'
  <2>1. Named(p, d)
    BY DEF NameInv
  <2>2. \A pkt : Carried(c, pkt) => MadeBy(p, d, pkt)'
    BY <1>1, CarriedIsMade
  <2>3. (\A i \in DOMAIN conns[p][d].pending : MadeBy(p, d, conns[p][d].pending[i]))'
    BY <1>2, <2>2 DEF Evolves, MadeBy
  <2>4. b.remote = Label(p, d) /\ b.nowPktNum > 0 /\ Excused(b)
    BY <1>2, <2>1 DEF Named, Evolves
  <2> QED
    BY <2>3, <2>4 DEF Named, Label
<1>4. ASSUME p = Client
      PROVE  ClientNamed(d)'
  <2>1. ClientNamed(d)
    BY <1>4 DEF NameInv
  <2>2. Agreed(d) => Agreed(d)'
    BY <1>1, <1>4, AgreedStays
  <2>3. d = 1 => (Agreed(1) => Agreed(1)')
    BY <1>1, <1>4, AgreedStays
  <2> QED
    BY <1>2, <1>4, <2>1, <2>2, <2>3 DEF ClientNamed, Evolves
<1>5. ASSUME p = Server
      PROVE  ServerNamed(d)'
  <2>1. ServerNamed(d)
    BY <1>5 DEF NameInv
  <2>2. /\ 1 .. d - 1 \subseteq DOMAIN conns[Server]
        /\ Shared(d) <=> Shared(d)'
        /\ \A e \in DOMAIN conns[Server] : conns'[Server][e].local = conns[Server][e].local
    BY <1>1, <1>5, ServerKeepsLabels
  <2>3. \A j \in DOMAIN conns[Client] : j \in DOMAIN conns'[Client]
    BY <1>1, BothPeers DEF Grows
  <2>4. b.state # "CREATED"
    BY <1>2, <1>5, <2>1 DEF Evolves, ServerNamed
  <2>5. \E j \in DOMAIN conns'[Client] : b.local = Label(Client, j)
    BY <1>2, <1>5, <2>1, <2>3 DEF Evolves, ServerNamed
  <2>6. 1 \in b.rec \/ Shared(d)'
    BY <1>2, <1>5, <2>1, <2>2 DEF Evolves, ServerNamed
  <2>7. ASSUME NEW e \in 1 .. d - 1, conns'[Server][e].local = b.local
        PROVE  ~IsLive(conns'[Server][e])
    BY <1>1, <1>2, <1>5, <2>1, <2>2, <2>7, BothPeers DEF ServerNamed, Grows, Evolves
  <2>8. ASSUME b.state = "ESTABLISHED", ~Shared(d)'
        PROVE  \E j \in DOMAIN conns'[Client] :
                  /\ conns'[Client][j].state # "CREATED"
                  /\ conns'[Client][j].local = Label(Server, d)
                  /\ b.local = Label(Client, j)
    <3>1. PICK j \in DOMAIN conns[Client] :
              /\ conns[Client][j].state # "CREATED"
              /\ conns[Client][j].local = Label(Server, d)
              /\ c.local = Label(Client, j)
      BY <1>2, <1>5, <2>1, <2>2, <2>8 DEF ServerNamed, Evolves
    <3>2. /\ j \in DOMAIN conns'[Client] /\ conns'[Client][j].state # "CREATED"
          /\ conns'[Client][j].local = conns[Client][j].local
      BY <1>1, <3>1, BothPeers DEF Grows
    <3> QED
      BY <1>2, <3>1, <3>2 DEF Evolves
  <2> QED
    BY <1>5, <2>4, <2>5, <2>6, <2>7, <2>8 DEF ServerNamed, Label
<1>6. ASSUME NEW q \in Peer, NEW pkt \in inFlight'[q]
      PROVE  pkt \in inFlight[q] \/ Known(Other(q), pkt)'
  <2>1. CASE q = Other(p) /\ Carried(c, pkt)
    <3>1. Other(q) = p
      BY <2>1, OtherFacts
    <3>2. MadeBy(p, d, pkt)'
      BY <1>1, <2>1, CarriedIsMade
    <3> QED
      BY <1>1, <3>1, <3>2 DEF Known
  <2> QED
    BY <2>1 DEF Quiet
<1> QED
  BY <1>1, <1>3, <1>4, <1>5, <1>6, NameKept

-----------------------------------------------------------------------------
(* The handshake.                                                          *)

LEMMA NewRecord ==
  ASSUME NEW state, NEW local, NEW remote
  PROVE  LET c == NewConnection(state, local, remote)
         IN  /\ c.state = state /\ c.local = local /\ c.remote = remote /\ c.pending = << >>
             /\ c.nowPktNum = 0 /\ c.closePktNum = 0 /\ c.ready = 0 /\ c.told = 0
BY DEF NewConnection

\* The connection b is c after the ready callback.
Readied(c, b, closes) ==
    /\ b.remote = c.remote /\ b.local = c.local /\ b.rec = c.rec /\ b.told = c.told
    /\ c.nowPktNum > 0 => b.nowPktNum > 0
    /\ IF closes THEN b.state = "WAIT_FOR_PEER_CLOSE" /\ b.closePktNum > 0
                 ELSE b.state = c.state /\ b.closePktNum = c.closePktNum
    /\ \A i \in DOMAIN b.pending : Carried(c, b.pending[i])
    /\ b.nowPktNum = IF closes THEN c.nowPktNum + 1 ELSE c.nowPktNum

LEMMA CallbackReadies ==
  ASSUME NEW c, Sound(c), NEW closes \in BOOLEAN
  PROVE  Readied(c, ReadyCallback(c, closes), closes)
<1> DEFINE r == [c EXCEPT !.ready = @ + 1]
           b == ReadyCallback(c, closes)
<1>1. /\ r.remote = c.remote /\ r.local = c.local /\ r.rec = c.rec /\ r.told = c.told
      /\ r.state = c.state /\ r.closePktNum = c.closePktNum /\ r.nowPktNum = c.nowPktNum
      /\ r.pending = c.pending /\ r \in ConnectionType
  BY DEF Sound, ConnectionType
<1>2. b = IF closes THEN Closing(r) ELSE r
  BY DEF ReadyCallback
<1> HIDE DEF r, b
<1>3. Sound(r)
  BY <1>1, SameQueueSound DEF Sound
<1>4. CASE closes
  <2>1. StartsClosing(r, b)
    BY <1>2, <1>3, <1>4, ClosingStarts
  <2>2. Readied(c, b, closes)
    BY <1>1, <1>4, <2>1 DEF StartsClosing, Readied, Carried
  <2> QED
    BY <2>2 DEF b
<1>5. CASE ~closes
  <2>1. Readied(c, b, closes)
    BY <1>1, <1>2, <1>5 DEF Readied, Carried
  <2> QED
    BY <2>1 DEF b
<1> QED
  BY <1>4, <1>5

\* The step as the applications see it: the connection d of p is created, accepted or
\* opened, or it moves as in the steps that are not part of the handshake.
Advance(p, d) ==
    /\ Grows /\ Only(p, d) /\ d \in DOMAIN conns'[p]
    /\ d \notin DOMAIN conns[p] =>
          /\ d = Len(conns[p]) + 1
          /\ \/ p = Client /\ ViewOf(conns'[p][d]) = "opening"
             \/ (p = Client => d # 1) /\ ViewOf(conns'[p][d]) \in {"open", "closing"}
    /\ d \in DOMAIN conns[p] =>
          \/ /\ p = Client /\ ViewOf(conns[p][d]) = "opening"
             /\ ViewOf(conns'[p][d]) \in {"open", "closing"}
          \/ Moves(p, conns[p][d], conns'[p][d])

LEMMA CreateKeepsNames ==
  ASSUME LifeInv, NameInv, CreateConnection
  PROVE  NameInv' /\ \E d \in DOMAIN conns'[Client] : Advance(Client, d)
<1>0. PICK d \in Nat : d = Len(conns[Client]) + 1
  BY BothPeers, BeforeStep
<1> DEFINE c == NewConnection("CREATED", Generate(Client, d, "local"), Generate(Client, d, "remote"))
           b == Queued(c, "initial", TRUE, {})
           pkt == PacketOf(c, "initial", TRUE, {})
<1>1. conns' = [conns EXCEPT ![Client] = Append(@, b)] /\ UNCHANGED <<inFlight, aborted>>
  BY <1>0 DEF CreateConnection
<1>2. /\ Grows /\ Only(Client, d) /\ d \in DOMAIN conns'[Client] /\ d \in Nat \ {0}
      /\ d \notin DOMAIN conns[Client]
      /\ conns'[Client][d] = b
  BY <1>0, <1>1, BothPeers, AdditionGrows
<1>3. Sound(c)
  <2>1. Generate(Client, d, "local") \in ConnectionID /\ Generate(Client, d, "remote") \in ConnectionID
    BY <1>2, BothPeers DEF Generate, ConnectionID
  <2> QED
    BY <2>1, NewSound
<1>4. AddsOne(c, b, pkt)
  BY <1>3, QueuedAdds
<1>5. /\ c.state = "CREATED" /\ c.local = Generate(Client, d, "local") /\ c.remote = Label(Client, d)
      /\ c.pending = << >> /\ c.nowPktNum = 0 /\ c.closePktNum = 0 /\ c.ready = 0
  BY NewRecord DEF Label
<1>6. pkt.kind = "initial" /\ pkt.pktNum = 1 /\ pkt.dst = Label(Client, d)
  BY <1>5 DEF PacketOf
<1> HIDE DEF b, c, pkt
<1>7. \A i \in DOMAIN b.pending : b.pending[i] = pkt
  BY <1>4, <1>5 DEF AddsOne
<1>8. Named(Client, d)'
  <2>1. (\A i \in DOMAIN conns[Client][d].pending : MadeBy(Client, d, conns[Client][d].pending[i]))'
    BY <1>2, <1>6, <1>7, BothPeers DEF MadeBy, Label
  <2>2. b.remote = Label(Client, d) /\ b.nowPktNum > 0 /\ Excused(b)
    BY <1>4, <1>5 DEF AddsOne, Excused
  <2> QED
    BY <1>2, <2>1, <2>2 DEF Named, Label
<1>9. ClientNamed(d)'
  BY <1>2, <1>4, <1>5 DEF ClientNamed, AddsOne
<1>10. ViewOf(b) = "opening"
  BY <1>4, <1>5 DEF AddsOne, ViewOf
<1>11. Advance(Client, d)
  BY <1>0, <1>2, <1>10 DEF Advance
<1> QED
  BY <1>1, <1>2, <1>8, <1>9, <1>11, BothPeers, NameKept

LEMMA AcceptKeepsNames ==
  ASSUME LifeInv, NameInv, NEW p \in Peer, NEW pkt \in inFlight[p], pkt.kind = "initial",
         NEW closes \in BOOLEAN, AcceptConnection(p, pkt, closes)
  PROVE  NameInv' /\ \E d \in DOMAIN conns'[p] : Advance(p, d)
<1>0. PICK d \in Nat : d = Len(conns[p]) + 1
  BY BeforeStep
<1> DEFINE n == NewConnection("PEER_ESTABLISHED", pkt.dst, Generate(p, d, "remote"))
           c == Recorded(n, pkt)
           q == Queued(c, "initial", TRUE, {})
           b == ReadyCallback(q, closes)
           first == PacketOf(c, "initial", TRUE, {})
<1>1. PacketOK(pkt)
  BY BeforeStep DEF Backed
<1>2. conns' = [conns EXCEPT ![p] = Append(@, b)] /\ UNCHANGED <<inFlight, aborted>>
  BY <1>0 DEF AcceptConnection
<1>3. /\ Grows /\ Only(p, d) /\ d \in DOMAIN conns'[p] /\ d \in Nat \ {0}
      /\ d \notin DOMAIN conns[p] /\ conns'[p][d] = b
      /\ \A e \in 1 .. d - 1 : e \in DOMAIN conns[p] /\ conns'[p][e] = conns[p][e]
      /\ \A r \in Peer \ {p} : conns'[r] = conns[r]
  BY <1>0, <1>2, AdditionGrows
<1>4. /\ Sound(c) /\ c.state = "PEER_ESTABLISHED" /\ c.local = pkt.dst /\ c.remote = Label(p, d)
      /\ c.rec = {pkt.pktNum} /\ c.nowPktNum = 0 /\ c.pending = << >> /\ c.closePktNum = 0
  <2>1. Generate(p, d, "remote") \in ConnectionID /\ pkt.dst \in ConnectionID
    BY <1>1 DEF Generate, ConnectionID, PacketOK, PacketType
  <2>2. Sound(n)
    BY <2>1, NewSound
  <2>3. Sound(c)
    BY <1>1, <2>2, RecordedSound
  <2>4. /\ c.state = "PEER_ESTABLISHED" /\ c.local = pkt.dst /\ c.remote = Label(p, d)
        /\ c.rec = {pkt.pktNum} /\ c.nowPktNum = 0 /\ c.pending = << >> /\ c.closePktNum = 0
    BY DEF NewConnection, Recorded, Label
  <2> QED
    BY <2>3, <2>4
<1> HIDE DEF n, c
<1>5. AddsOne(c, q, first)
  BY <1>4, QueuedAdds
<1>6. Sound(q)
  <2>1. c.nowPktNum + 1 \in PktNum
    BY <1>4, FirstNumbers
  <2> QED
    BY <1>4, <2>1, QueuedSound
<1>7. /\ first.kind = "initial" /\ first.pktNum = 1 /\ first.dst = Label(p, d)
      /\ first.src = pkt.dst
  BY <1>4 DEF PacketOf
<1> HIDE DEF q, first
<1>8. Readied(q, b, closes)
  BY <1>6, CallbackReadies
<1> HIDE DEF b
<1>9. /\ b.local = pkt.dst /\ b.remote = Label(p, d) /\ b.rec = {pkt.pktNum} /\ b.nowPktNum > 0
      /\ \/ b.state = "PEER_ESTABLISHED" /\ b.closePktNum = 0
         \/ b.state = "WAIT_FOR_PEER_CLOSE" /\ b.closePktNum > 0
  BY <1>4, <1>5, <1>8 DEF AddsOne, Readied
<1>10. \A x : Carried(q, x) => x = first \/ (x.kind # "initial" /\ x.dst = Label(p, d))
  BY <1>4, <1>5 DEF AddsOne, Carried
<1>11. (\A i \in DOMAIN conns[p][d].pending : MadeBy(p, d, conns[p][d].pending[i]))'
  <2>1. \A i \in DOMAIN b.pending : Carried(q, b.pending[i])
    BY <1>8 DEF Readied
  <2> QED
    BY <1>3, <1>7, <1>9, <1>10, <2>1 DEF MadeBy, Label
<1>12. Named(p, d)'
  BY <1>3, <1>9, <1>11 DEF Named, Excused, Label
<1>13. PICK k \in DOMAIN conns[Other(p)] : MadeBy(Other(p), k, pkt)
  BY DEF NameInv, Known
<1>14. ASSUME p = Client
       PROVE  ClientNamed(d)' /\ d # 1
  <2>1. Other(p) = Server
    BY <1>14 DEF Other
  <2>2. pkt.pktNum = 1
    BY <1>13, <2>1, BothPeers DEF MadeBy
  <2>3. d # 1
    <3>1. PICK j \in DOMAIN conns[Client] : TRUE
      BY <1>13, <2>1 DEF NameInv, ServerNamed
    <3>2. conns[Client] \in Seq(ConnectionType)
      BY BothPeers DEF LifeInv, LifecycleTypeOK
    <3> QED
      BY <1>0, <1>14, <3>1, <3>2
  <2> QED
    BY <1>3, <1>9, <1>14, <2>2, <2>3 DEF ClientNamed
<1>15. ASSUME p = Server
       PROVE  ServerNamed(d)'
  <2>1. Other(p) = Client
    BY <1>15, BothPeers DEF Other
  <2>2. pkt.dst = Label(Client, k) /\ k \in DOMAIN conns[Client] /\ conns'[Client] = conns[Client]
    BY <1>3, <1>13, <1>15, <2>1, BothPeers DEF MadeBy
  <2>3. 1 \in b.rec \/ Shared(d)'
    <3>1. CASE pkt.pktNum = 1
      BY <1>9, <3>1
    <3>2. CASE pkt.pktNum # 1
      <4>1. PICK e \in DOMAIN conns[Server] : conns[Server][e].local = Label(Client, k)
        BY <1>13, <2>1, <3>2 DEF MadeBy, Agreed
      <4>2. e \in 1 .. d - 1
        <5>1. conns[Server] \in Seq(ConnectionType)
          BY BothPeers DEF LifeInv, LifecycleTypeOK
        <5> QED
          BY <1>0, <1>15, <4>1, <5>1
      <4>3. conns'[Server][e].local = conns'[Server][d].local
        BY <1>3, <1>9, <1>15, <2>2, <4>1, <4>2
      <4> QED
        BY <4>2, <4>3 DEF Shared
    <3> QED
      BY <3>1, <3>2
  <2>4. ASSUME NEW e \in 1 .. d - 1, conns'[Server][e].local = conns'[Server][d].local
        PROVE  ~IsLive(conns'[Server][e])
    <3>1. e \in DOMAIN conns[p] /\ conns'[p][e] = conns[p][e] /\ conns[p][e].local = pkt.dst
      BY <1>3, <1>9, <1>15, <2>4
    <3>2. e \notin FitsInitial(p, pkt)
      BY DEF AcceptConnection
    <3> QED
      BY <1>15, <3>1, <3>2 DEF FitsInitial
  <2>5. /\ conns'[Server][d].state \notin {"CREATED", "ESTABLISHED"}
        /\ \E j \in DOMAIN conns'[Client] : conns'[Server][d].local = Label(Client, j)
        /\ 1 \in conns'[Server][d].rec \/ Shared(d)'
    BY <1>3, <1>9, <1>15, <2>2, <2>3
  <2> QED
    BY <2>4, <2>5 DEF ServerNamed, Label
<1>16. ViewOf(b) \in {"open", "closing"}
  <2>1. CASE b.state = "PEER_ESTABLISHED" /\ b.closePktNum = 0
    <3>1. ~(b.closePktNum > 0)
      BY <2>1
    <3> QED
      BY <2>1, <3>1 DEF ViewOf
  <2>2. CASE b.state = "WAIT_FOR_PEER_CLOSE" /\ b.closePktNum > 0
    BY <2>2 DEF ViewOf
  <2> QED
    BY <1>9, <2>1, <2>2
<1>17. Advance(p, d)
  BY <1>0, <1>3, <1>14, <1>16 DEF Advance
<1>18. NameInv'
  BY <1>2, <1>3, <1>12, <1>14, <1>15, NameKept
<1> QED
  BY <1>3, <1>17, <1>18

\* The connection b is a when the second packet of the handshake has named its server.
Established(a, b, pkt, closes) ==
    /\ b.local = pkt.dst /\ b.remote = a.remote /\ b.state = "ESTABLISHED" /\ b.nowPktNum > 0
    /\ IF closes THEN b.closePktNum > 0 ELSE b.closePktNum = a.closePktNum
    /\ \A i \in DOMAIN b.pending :
           \/ Carried(a, b.pending[i])
           \/ /\ b.pending[i].dst = a.remote /\ b.pending[i].src = pkt.dst
              /\ a.nowPktNum > 0 => b.pending[i].pktNum > 1

LEMMA ClientEstablishes ==
  ASSUME NEW p \in Peer, NEW a, Sound(a), NEW pkt, PacketOK(pkt), pkt.kind # "ack",
         NEW closes \in BOOLEAN,
         Recorded(Queued([ReadyCallback([a EXCEPT !.local = pkt.dst], closes)
                              EXCEPT !.state = "ESTABLISHED"], "initial", FALSE, {}), pkt).nowPktNum
             <= MaxPktNum[p]
  PROVE  Established(a, Recorded(Queued([ReadyCallback([a EXCEPT !.local = pkt.dst], closes)
                              EXCEPT !.state = "ESTABLISHED"], "initial", FALSE, {}), pkt),
                     pkt, closes)
<1> DEFINE n == [a EXCEPT !.local = pkt.dst]
           m == ReadyCallback(n, closes)
           e == [m EXCEPT !.state = "ESTABLISHED"]
           q == Queued(e, "initial", FALSE, {})
           b == Recorded(q, pkt)
           third == PacketOf(e, "initial", FALSE, {})
<1>1. b.nowPktNum <= MaxPktNum[p]
  OBVIOUS
<1>2. /\ n.pending = a.pending /\ n.remote = a.remote /\ n.local = pkt.dst
      /\ n.closePktNum = a.closePktNum /\ n.nowPktNum = a.nowPktNum /\ n.state = a.state
      /\ n.told = a.told /\ n \in ConnectionType
  <2>1. pkt.dst \in ConnectionID
    BY DEF PacketOK, PacketType
  <2> QED
    BY <2>1 DEF Sound, ConnectionType
<1> HIDE DEF n
<1>3. Sound(n)
  BY <1>2, SameQueueSound DEF Sound
<1>4. b.nowPktNum = m.nowPktNum + 1
  <2>1. DOMAIN m = {"state", "local", "remote", "nowPktNum", "pending", "unacked", "rec",
                    "closePktNum", "streams", "ready", "told", "sentData"}
    BY <1>2 DEF ReadyCallback, Closing, Queued, ConnectionType
  <2> HIDE DEF m
  <2> QED
    BY <2>1 DEF Recorded, Queued
<1> HIDE DEF b
<1>5. Readied(n, m, closes)
  BY <1>3, CallbackReadies
<1>6. n.nowPktNum \in Nat /\ a.nowPktNum \in Nat /\ MaxPktNum[p] \in Nat
  BY <1>3, LastNumber, BoundAssumption
<1> DEFINE k == IF closes THEN 2 ELSE 1
<1>7. n.nowPktNum + k <= MaxPktNum[p]
  <2>1. m.nowPktNum = IF closes THEN n.nowPktNum + 1 ELSE n.nowPktNum
    BY <1>5 DEF Readied
  <2> HIDE DEF m
  <2> QED
    BY <1>1, <1>4, <1>6, <2>1
<1>8. n.nowPktNum + k \in PktNum /\ n.nowPktNum + 1 \in PktNum
  BY <1>3, <1>7, NumberOfSound
<1>9. Sound(m)
  BY <1>3, <1>8, ReadyCallbackSound
<1> HIDE DEF m
<1>10. m.nowPktNum + 1 \in PktNum
  BY <1>5, <1>6, <1>8 DEF Readied
<1>11. /\ e \in ConnectionType /\ e.pending = m.pending /\ e.remote = m.remote
       /\ e.closePktNum = m.closePktNum /\ e.state = "ESTABLISHED" /\ e.told = m.told
       /\ e.nowPktNum = m.nowPktNum /\ e.local = m.local
  BY <1>9 DEF Sound, ConnectionType, States
<1> HIDE DEF e
<1>12. Sound(e)
  BY <1>9, <1>11, SameQueueSound
<1>13. AddsOne(e, q, third)
  BY <1>12, QueuedAdds
<1>14. /\ third.src = e.local /\ third.dst = e.remote /\ third.pktNum = e.nowPktNum + 1
  BY DEF PacketOf
<1> HIDE DEF q, third
<1>15. q \in ConnectionType /\ b.pending = q.pending /\ b.remote = q.remote /\ b.local = q.local
       /\ b.state = q.state /\ b.nowPktNum = q.nowPktNum /\ b.closePktNum = q.closePktNum
  <2>1. Sound(q)
    BY <1>10, <1>11, <1>12, QueuedSound DEF q
  <2> QED
    BY <2>1 DEF Sound, ConnectionType, Recorded, b
<1>16. ASSUME NEW i \in DOMAIN b.pending
       PROVE  \/ Carried(a, b.pending[i])
              \/ /\ b.pending[i].dst = a.remote /\ b.pending[i].src = pkt.dst
                 /\ a.nowPktNum > 0 => b.pending[i].pktNum > 1
  <2>1. CASE i \in DOMAIN e.pending
    <3>1. b.pending[i] = m.pending[i] /\ i \in DOMAIN m.pending
      BY <1>11, <1>13, <1>15, <2>1 DEF AddsOne
    <3>2. Carried(n, b.pending[i])
      BY <1>5, <3>1 DEF Readied
    <3> QED
      BY <1>2, <3>2 DEF Carried
  <2>2. CASE i = Len(e.pending) + 1
    <3>1. b.pending[i] = third
      BY <1>13, <1>15, <2>2 DEF AddsOne
    <3>2. third.dst = a.remote /\ third.src = pkt.dst
      BY <1>2, <1>5, <1>11, <1>14 DEF Readied
    <3>3. e.nowPktNum \in Nat /\ (a.nowPktNum > 0 => e.nowPktNum > 0)
      BY <1>2, <1>5, <1>11, <1>12, LastNumber DEF Readied
    <3>4. a.nowPktNum > 0 => third.pktNum > 1
      BY <1>14, <3>3
    <3> QED
      BY <3>1, <3>2, <3>4
  <2> QED
    BY <1>13, <1>15, <2>1, <2>2 DEF AddsOne
<1>17. Established(a, b, pkt, closes)
  <2>1. b.local = pkt.dst /\ b.remote = a.remote /\ b.state = "ESTABLISHED" /\ b.nowPktNum > 0
    BY <1>2, <1>5, <1>11, <1>13, <1>15 DEF AddsOne, Readied
  <2>2. IF closes THEN b.closePktNum > 0 ELSE b.closePktNum = a.closePktNum
    BY <1>2, <1>5, <1>11, <1>13, <1>15 DEF AddsOne, Readied
  <2> QED
    BY <1>16, <2>1, <2>2 DEF Established
<1> QED
  BY <1>17 DEF b, q, e, m, n

LEMMA HandshakeAtClientKeepsNames ==
  ASSUME LifeInv, NameInv, NEW p \in Peer, NEW pkt \in inFlight[p], pkt.kind = "initial",
         NEW closes \in BOOLEAN, HandshakeAtClient(p, pkt, closes)
  PROVE  NameInv' /\ \E d \in DOMAIN conns'[p] : Advance(p, d)
<1>1. PICK d \in DOMAIN conns[p] :
          LET c == ReadyCallback([conns[p][d] EXCEPT !.local = pkt.dst], closes)
          IN  /\ Found(d, FitsInitial(p, pkt))
              /\ conns[p][d].state = "CREATED"
              /\ Become(p, d, Recorded(Queued([c EXCEPT !.state = "ESTABLISHED"],
                                              "initial", FALSE, {}), pkt))
              /\ UNCHANGED <<inFlight, aborted>>
  BY DEF HandshakeAtClient
<1> DEFINE a == conns[p][d]
           b == conns'[p][d]
<1>2. Sound(a) /\ PacketOK(pkt)
  BY BeforeStep DEF Backed
<1>3. /\ conns' = [conns EXCEPT ![p][d] = b] /\ Established(a, b, pkt, closes)
  <2> DEFINE e == Recorded(Queued([ReadyCallback([a EXCEPT !.local = pkt.dst], closes)
                                      EXCEPT !.state = "ESTABLISHED"], "initial", FALSE, {}), pkt)
  <2>1. Become(p, d, e)
    BY <1>1
  <2>2. e.nowPktNum <= MaxPktNum[p]
    BY <2>1, BecomeNumber
  <2>3. Established(a, e, pkt, closes)
    BY <1>2, <2>2, ClientEstablishes
  <2> HIDE DEF e
  <2>4. conns' = [conns EXCEPT ![p][d] = e] /\ b = e
    BY <2>1 DEF Become, LifeInv, LifecycleTypeOK
  <2> QED
    BY <2>3, <2>4
<1>4. p = Client /\ a.state = "CREATED" /\ a.local = Generate(Client, d, "local")
      /\ a.closePktNum = 0 /\ Other(p) = Server
  BY <1>1, BothPeers DEF NameInv, ServerNamed, ClientNamed, Other
<1>5. PICK k \in DOMAIN conns[Server] : MadeBy(Server, k, pkt)
  BY <1>4 DEF NameInv, Known
<1>6. pkt.dst = Label(Server, k) /\ pkt.src = conns[Server][k].local
  BY <1>5, BothPeers DEF MadeBy
<1>7. Named(Client, d)
  BY <1>4 DEF NameInv
<1>8. conns[Server][k].local = Label(Client, d)
  <2>1. a.remote = pkt.src \/ a.local = pkt.dst
    BY <1>1 DEF Found, FitsInitial
  <2>2. a.local # pkt.dst
    BY <1>4, <1>6, BothPeers DEF Label, Generate
  <2> QED
    BY <1>4, <1>6, <1>7, <2>1, <2>2 DEF Named
<1>9. Grows /\ Only(p, d) /\ \A q \in Peer : DOMAIN conns'[q] = DOMAIN conns[q]
  <2>1. ~IsLive(a) => ~IsLive(b)
    BY <1>4 DEF IsLive
  <2> HIDE DEF b
  <2> QED
    BY <1>3, <1>4, <2>1, ChangeGrows
<1>10. conns'[Server] = conns[Server]
  BY <1>3, <1>4, BothPeers DEF LifeInv, LifecycleTypeOK
<1>11. Agreed(d)'
  <2>1. b.state # "CREATED" /\ b.local = Label(Server, k)
    BY <1>3, <1>6 DEF Established
  <2>2. k \in DOMAIN conns'[Server] /\ conns'[Server][k].local = Label(Client, d)
    BY <1>8, <1>10
  <2> QED
    BY <1>4, <2>1, <2>2 DEF Agreed, Label
<1>12. Named(Client, d)'
  <2>1. \A x : Carried(a, x) => MadeBy(Client, d, x)'
    BY <1>4, <1>9, CarriedIsMade
  <2>2. \A x : x.dst = Label(Client, d) /\ x.src = b.local /\ x.pktNum > 1 => MadeBy(Client, d, x)'
    BY <1>4, <1>11 DEF MadeBy, Label
  <2>3. b.local = pkt.dst /\ a.remote = Label(Client, d) /\ a.nowPktNum > 0 /\ b.nowPktNum > 0
        /\ b.remote = a.remote /\ b.state = "ESTABLISHED"
    BY <1>3, <1>4, <1>7 DEF Established, Named
  <2>4. (\A i \in DOMAIN conns[Client][d].pending : MadeBy(Client, d, conns[Client][d].pending[i]))'
    BY <1>3, <1>4, <2>1, <2>2, <2>3 DEF Established, MadeBy, Label
  <2> QED
    BY <1>4, <2>3, <2>4 DEF Named, Excused, Label
<1>13. ClientNamed(d)'
  <2>1. b.state = "ESTABLISHED"
    BY <1>3 DEF Established
  <2>2. d = 1 => Agreed(1)'
    BY <1>11
  <2> QED
    BY <1>4, <1>11, <2>1, <2>2 DEF ClientNamed
<1>14. NameInv'
  BY <1>1, <1>4, <1>9, <1>12, <1>13, BothPeers, NameKept
<1>15. Advance(p, d)
  <2>1. ViewOf(a) = "opening"
    BY <1>4 DEF ViewOf
  <2>2. CASE closes
    <3>1. ViewOf(b) = "closing"
      BY <1>3, <2>2 DEF Established, ViewOf
    <3> QED
      BY <1>4, <1>9, <2>1, <3>1 DEF Advance
  <2>3. CASE ~closes
    <3>1. b.closePktNum = 0 /\ b.state = "ESTABLISHED"
      BY <1>3, <1>4, <2>3 DEF Established
    <3>2. ~(b.closePktNum > 0)
      BY <3>1
    <3>3. ViewOf(b) = "open"
      BY <3>1, <3>2 DEF ViewOf
    <3> QED
      BY <1>4, <1>9, <2>1, <3>3 DEF Advance
  <2> QED
    BY <2>2, <2>3
<1> QED
  BY <1>9, <1>14, <1>15

LEMMA HandshakeAtServerKeepsNames ==
  ASSUME LifeInv, NameInv, NEW p \in Peer, NEW pkt \in inFlight[p], pkt.kind = "initial",
         NEW closes \in BOOLEAN, HandshakeAtServer(p, pkt, closes)
  PROVE  NameInv' /\ \E d \in DOMAIN conns'[p] : Advance(p, d)
<1>1. PICK d \in DOMAIN conns[p] :
          /\ Found(d, FitsInitial(p, pkt))
          /\ conns[p][d].state = "PEER_ESTABLISHED"
          /\ pkt.pktNum \notin conns[p][d].rec
          /\ Become(p, d, Recorded([ReadyCallback(conns[p][d], closes)
                                        EXCEPT !.state = "ESTABLISHED"], pkt))
          /\ UNCHANGED <<inFlight, aborted>>
  BY DEF HandshakeAtServer
<1> DEFINE a == conns[p][d]
           m == ReadyCallback(a, closes)
           b == conns'[p][d]
<1>2. Sound(a) /\ Named(p, d)
  BY BeforeStep DEF NameInv
<1>3. Readied(a, m, closes)
  BY <1>2, CallbackReadies
<1>4. /\ conns' = [conns EXCEPT ![p][d] = b]
      /\ b.pending = m.pending /\ b.remote = m.remote /\ b.local = m.local
      /\ b.state = "ESTABLISHED" /\ b.closePktNum = m.closePktNum
      /\ b.nowPktNum = m.nowPktNum /\ m.rec \subseteq b.rec
  <2> DEFINE e == Recorded([m EXCEPT !.state = "ESTABLISHED"], pkt)
  <2>1. Become(p, d, e)
    BY <1>1
  <2>2. DOMAIN m = {"state", "local", "remote", "nowPktNum", "pending", "unacked", "rec",
                    "closePktNum", "streams", "ready", "told", "sentData"}
    BY <1>2 DEF ReadyCallback, Closing, Queued, Sound, ConnectionType
  <2> HIDE DEF m
  <2>3. /\ e.pending = m.pending /\ e.remote = m.remote /\ e.local = m.local
        /\ e.state = "ESTABLISHED" /\ e.closePktNum = m.closePktNum
        /\ e.nowPktNum = m.nowPktNum /\ m.rec \subseteq e.rec
    BY <2>2 DEF Recorded
  <2> HIDE DEF e
  <2>4. conns' = [conns EXCEPT ![p][d] = e] /\ b = e
    BY <2>1 DEF Become, LifeInv, LifecycleTypeOK
  <2> QED
    BY <2>3, <2>4
<1> HIDE DEF m
<1>5. /\ b.remote = a.remote /\ b.local = a.local /\ a.rec \subseteq b.rec /\ b.nowPktNum > 0
      /\ IF closes THEN b.closePktNum > 0 ELSE b.closePktNum = a.closePktNum
      /\ \A i \in DOMAIN b.pending : Carried(a, b.pending[i])
  BY <1>2, <1>3, <1>4 DEF Readied, Named
<1>6. PICK k \in DOMAIN conns[Other(p)] : MadeBy(Other(p), k, pkt)
  BY DEF NameInv, Known
\* The client's own packets are recorded already, for the server numbers its one 1.
<1>7. p = Server /\ Other(p) = Client
  <2>1. ASSUME p = Client
        PROVE  FALSE
    <3>1. pkt.pktNum = 1
      BY <1>6, <2>1, BothPeers DEF MadeBy, Other
    <3>2. 1 \in a.rec
      BY <1>1, <2>1 DEF NameInv, ClientNamed
    <3> QED
      BY <1>1, <3>1, <3>2
  <2> QED
    BY <2>1, BothPeers DEF Other
<1>8. ServerNamed(d) /\ pkt.dst = Label(Client, k)
  BY <1>6, <1>7 DEF NameInv, MadeBy
<1>9. Grows /\ Only(p, d) /\ \A q \in Peer : DOMAIN conns'[q] = DOMAIN conns[q]
  <2>1. IsLive(a) /\ b.state # "CREATED"
    BY <1>1, <1>4 DEF IsLive
  <2> HIDE DEF b
  <2> QED
    BY <1>4, <1>5, <2>1, ChangeGrows
<1>10. Named(p, d)'
  <2>1. \A x : Carried(a, x) => MadeBy(p, d, x)'
    BY <1>9, CarriedIsMade
  <2>2. (\A i \in DOMAIN conns[p][d].pending : MadeBy(p, d, conns[p][d].pending[i]))'
    BY <1>5, <2>1 DEF MadeBy
  <2>3. b.remote = Label(p, d) /\ b.nowPktNum > 0 /\ Excused(b)
    BY <1>2, <1>4, <1>5 DEF Named, Excused
  <2> QED
    BY <2>2, <2>3 DEF Named, Label
<1>11. /\ 1 .. d - 1 \subseteq DOMAIN conns[Server]
       /\ \A e \in DOMAIN conns[Server] : conns'[Server][e].local = conns[Server][e].local
       /\ Shared(d) <=> Shared(d)'
  BY <1>7, <1>9, ServerKeepsLabels
<1>12. conns'[Client] = conns[Client]
  BY <1>4, <1>7, BothPeers DEF LifeInv, LifecycleTypeOK
\* The third packet of the handshake reached the connection that the client agreed with.
<1>13. ASSUME ~Shared(d)
       PROVE  \E j \in DOMAIN conns[Client] :
                 /\ conns[Client][j].state # "CREATED"
                 /\ conns[Client][j].local = Label(Server, d)
                 /\ a.local = Label(Client, j)
  <2>1. 1 \in a.rec
    BY <1>7, <1>8, <1>13 DEF ServerNamed
  <2>2. Agreed(k) /\ pkt.src = conns[Client][k].local
    BY <1>1, <1>6, <1>7, <2>1 DEF MadeBy
  <2>3. PICK e \in DOMAIN conns[Server] :
            conns[Client][k].local = Label(Server, e) /\ conns[Server][e].local = Label(Client, k)
    BY <2>2 DEF Agreed
  <2>4. conns[Client][k].state # "CREATED" /\ k \in DOMAIN conns[Client]
    BY <1>7, <2>2 DEF Agreed
  <2>5. a.remote = pkt.src \/ a.local = pkt.dst
    BY <1>1 DEF Found, FitsInitial
  <2>6. d = e
    <3>1. CASE a.remote = pkt.src
      BY <1>2, <1>7, <2>2, <2>3, <3>1 DEF Named, Label, Generate
    <3>2. CASE a.local = pkt.dst
      <4>1. a.local = conns[Server][e].local
        BY <1>8, <2>3, <3>2
      <4>2. d \in Nat /\ e \in Nat /\ d > 0 /\ e > 0
        BY <1>7, BothPeers DEF LifeInv, LifecycleTypeOK
      <4>3. ~(e < d)
        <5>1. e < d => e \in 1 .. d - 1
          BY <4>2
        <5> QED
          BY <1>7, <1>13, <4>1, <5>1 DEF Shared
      <4>4. ~(d < e)
        <5>1. d < e => d \in 1 .. e - 1
          BY <4>2
        <5>2. ServerNamed(e)
          BY DEF NameInv
        <5>3. IsLive(a)
          BY <1>1 DEF IsLive
        <5> QED
          BY <1>7, <4>1, <5>1, <5>2, <5>3 DEF ServerNamed
      <4> QED
        BY <4>2, <4>3, <4>4
    <3> QED
      BY <2>5, <3>1, <3>2
  <2> QED
    BY <1>7, <2>3, <2>4, <2>6
<1>14. ServerNamed(d)'
  <2>1. ASSUME NEW e \in 1 .. d - 1, conns'[Server][e].local = b.local
        PROVE  ~IsLive(conns'[Server][e])
    BY <1>5, <1>7, <1>8, <1>9, <1>11, <2>1, BothPeers DEF ServerNamed, Grows
  <2>2. ASSUME ~Shared(d)'
        PROVE  \E j \in DOMAIN conns'[Client] :
                  /\ conns'[Client][j].state # "CREATED"
                  /\ conns'[Client][j].local = Label(Server, d)
                  /\ b.local = Label(Client, j)
    BY <1>5, <1>11, <1>12, <1>13, <2>2
  <2>3. /\ b.state # "CREATED"
        /\ \E j \in DOMAIN conns'[Client] : b.local = Label(Client, j)
        /\ 1 \in b.rec \/ Shared(d)'
    BY <1>4, <1>5, <1>7, <1>8, <1>11, <1>12 DEF ServerNamed
  <2> QED
    BY <1>7, <2>1, <2>2, <2>3 DEF ServerNamed, Label
<1>15. NameInv'
  BY <1>1, <1>7, <1>9, <1>10, <1>14, BothPeers, NameKept
<1>16. Moves(p, a, b)
  <2>1. ViewOf(a) \in {"open", "closing"}
    BY <1>1, <1>2, ViewCases
  <2>2. CASE b.closePktNum > 0
    <3>1. ViewOf(b) = "closing"
      BY <1>4, <2>2 DEF ViewOf
    <3> QED
      BY <2>1, <3>1 DEF Moves
  <2>3. CASE ~(b.closePktNum > 0)
    <3>1. b.closePktNum = a.closePktNum
      BY <1>5, <2>3
    <3>2. ViewOf(b) = "open"
      BY <1>4, <2>3 DEF ViewOf
    <3>3. ViewOf(a) = "open"
      BY <1>1, <2>3, <3>1 DEF ViewOf
    <3> QED
      BY <3>2, <3>3 DEF Moves
  <2> QED
    BY <2>2, <2>3
<1>17. Advance(p, d)
  BY <1>9, <1>16 DEF Advance
<1> QED
  BY <1>9, <1>15, <1>17

LEMMA NamesInitially ==
  ASSUME Init
  PROVE  NameInv
BY BothPeers DEF Init, NameInv

\* Every step keeps the names, and advances one connection at most.
LEMMA NamesStep ==
  ASSUME LifeInv, NameInv, [Next]_vars
  PROVE  /\ NameInv'
         /\ UNCHANGED conns \/ \E p \in Peer : \E d \in DOMAIN conns'[p] : Advance(p, d)
<1>1. ASSUME UNCHANGED <<conns, inFlight>>
      PROVE  NameInv'
  BY <1>1 DEF NameInv, Named, ClientNamed, ServerNamed, Known, MadeBy, Agreed, Shared
<1>2. ASSUME NEW p \in Peer, NEW d \in DOMAIN conns[p], Quiet(p, d)
      PROVE  NameInv' /\ d \in DOMAIN conns'[p] /\ Advance(p, d)
  BY <1>2, QuietKeepsNames, QuietGrows DEF Advance, Quiet
<1>3. ASSUME NEW p \in Peer, Endpoint(p)
      PROVE  NameInv' /\ (UNCHANGED conns \/ \E d \in DOMAIN conns'[p] : Advance(p, d))
  <2>1. CASE p = Client /\ CreateConnection
    BY <2>1, CreateKeepsNames
  <2>2. ASSUME NEW d \in DOMAIN conns[p], CloseConnection(p, d)
        PROVE  NameInv' /\ \E e \in DOMAIN conns'[p] : Advance(p, e)
    BY <1>2, <2>2, CloseIsQuiet
  <2>3. ASSUME NEW pkt \in inFlight[p], Receive(p, pkt)
        PROVE  NameInv' /\ (UNCHANGED conns \/ \E e \in DOMAIN conns'[p] : Advance(p, e))
    <3>1. CASE ReceiveInitial(p, pkt)
      BY <3>1, AcceptKeepsNames, HandshakeAtClientKeepsNames, HandshakeAtServerKeepsNames
         DEF ReceiveInitial
    <3>2. CASE AbortOnUnknown(p, pkt)
      BY <1>1, <3>2 DEF AbortOnUnknown
    <3>3. CASE ReceiveData(p, pkt)
      BY <1>2, <3>3, DataIsQuiet
    <3>4. CASE ReceiveClose(p, pkt)
      BY <1>2, <3>4, CloseReceivedIsQuiet
    <3>5. CASE ReceiveAck(p, pkt)
      BY <1>2, <3>5, AckIsQuiet
    <3> QED
      BY <2>3, <3>1, <3>2, <3>3, <3>4, <3>5 DEF Receive
  <2>4. ASSUME NEW d \in DOMAIN conns[p], NEW timer, NEW n, NEW talks \in BOOLEAN,
               Pass(p, d, timer, n, talks)
        PROVE  NameInv' /\ \E e \in DOMAIN conns'[p] : Advance(p, e)
    BY <1>2, <2>4, PassIsQuiet
  <2> QED
    BY <1>3, <2>1, <2>2, <2>3, <2>4 DEF Endpoint
<1>4. CASE UNCHANGED vars
  BY <1>1, <1>4 DEF vars
<1> QED
  BY <1>3, <1>4 DEF Next

LEMMA NamesHold == Spec => [](LifeInv /\ NameInv)
<1>1. Init => LifeInv /\ NameInv
  BY NamesInitially DEF Init, LifeInv, LifecycleTypeOK
<1>2. LifeInv /\ NameInv /\ [Next]_vars => (LifeInv /\ NameInv)'
  BY LifeInvStep, NamesStep
<1> QED
  BY <1>1, <1>2, PTL DEF Spec

\* Both ends of an established connection hold the same two identifiers: the client for
\* all of its connections, the server for the first it has under an identifier, whatever
\* Initial packets arrive again, late, or never, and whichever connections they open.
THEOREM EndsAgree == Spec => []IdentifiersAgree
<1>1. LifeInv /\ NameInv => IdentifiersAgree
  <2> SUFFICES ASSUME LifeInv, NameInv
               PROVE  IdentifiersAgree
    OBVIOUS
  <2>1. ASSUME NEW d \in DOMAIN conns[Client], conns[Client][d].state = "ESTABLISHED"
        PROVE  \E e \in Connections(Server) : Mirrors(conns[Client][d], e)
    <3>1. PICK k \in DOMAIN conns[Server] :
              conns[Client][d].local = Label(Server, k) /\ conns[Server][k].local = Label(Client, d)
      BY <2>1 DEF NameInv, ClientNamed, Agreed
    <3>2. conns[Client][d].remote = Label(Client, d) /\ conns[Server][k].remote = Label(Server, k)
      BY BothPeers DEF NameInv, Named
    <3>3. Mirrors(conns[Client][d], conns[Server][k])
      BY <3>1, <3>2 DEF Mirrors
    <3> QED
      BY <3>3 DEF Connections, Range
  <2>2. ASSUME NEW d \in DOMAIN conns[Server], conns[Server][d].state = "ESTABLISHED",
               \A e \in 1 .. d - 1 : conns[Server][e].local # conns[Server][d].local
        PROVE  \E c \in Connections(Client) : Mirrors(conns[Server][d], c)
    <3>1. PICK j \in DOMAIN conns[Client] :
              conns[Client][j].local = Label(Server, d) /\ conns[Server][d].local = Label(Client, j)
      BY <2>2 DEF NameInv, ServerNamed, Shared
    <3>2. conns[Client][j].remote = Label(Client, j) /\ conns[Server][d].remote = Label(Server, d)
      BY BothPeers DEF NameInv, Named
    <3>3. Mirrors(conns[Server][d], conns[Client][j])
      BY <3>1, <3>2 DEF Mirrors
    <3> QED
      BY <3>3 DEF Connections, Range
  <2>3. \A c \in Connections(Client) : \E d \in DOMAIN conns[Client] : c = conns[Client][d]
    BY DEF Connections, Range
  <2> QED
    BY <2>1, <2>2, <2>3 DEF IdentifiersAgree
<1> QED
  BY <1>1, NamesHold, PTL

-----------------------------------------------------------------------------
(***************************************************************************)
(* The promise.  An end's view of the connection is that of its first      *)
(* connection under the identifiers, and a close that reaches it was       *)
(* called for at the other end: by the connection the two agreed on, or by *)
(* one the server opened in its place when it was not in use any more.     *)
(***************************************************************************)
LEMMA FirstExists ==
  ASSUME NEW ds \in SUBSET Nat, ds # {}
  PROVE  \E f \in ds : Found(f, ds)
<1> DEFINE less == OpToRel(<, Nat)
<1>1. IsWellFoundedOn(less, Nat)
  BY NatLessThanWellFounded
<1>2. PICK f \in ds : \A e \in ds : ~(<<e, f>> \in less)
  <2> HIDE DEF less
  <2> QED
    BY <1>1, WFMin
<1>3. ASSUME NEW e \in ds
      PROVE  f <= e
  <2>1. less = {pair \in Nat \X Nat : pair[1] < pair[2]}
    BY DEF OpToRel
  <2> HIDE DEF less
  <2>2. e \in Nat /\ f \in Nat /\ ~(<<e, f>> \in less)
    BY <1>2
  <2> QED
    BY <2>1, <2>2
<1> QED
  BY <1>3 DEF Found

LEMMA FirstIsChosen ==
  ASSUME NEW ds \in SUBSET Nat, NEW f, Found(f, ds)
  PROVE  (CHOOSE d \in ds : Found(d, ds)) = f
<1> DEFINE g == CHOOSE d \in ds : Found(d, ds)
<1>1. f \in ds
  BY DEF Found
<1>2. g \in ds /\ Found(g, ds)
  BY <1>1
<1> HIDE DEF g
<1>3. f <= g /\ g <= f /\ f \in Nat /\ g \in Nat
  BY <1>1, <1>2 DEF Found
<1>4. f = g
  BY <1>3
<1> QED
  BY <1>4 DEF g

\* The connections of the server under the identifier the first connection of the client
\* gave it.
Ours(cs) == {d \in DOMAIN cs : cs[d].local = Label(Client, 1)}

LEMMA OursAreNat ==
  ASSUME NEW cs \in Seq(ConnectionType)
  PROVE  Ours(cs) \in SUBSET Nat
<1>1. DOMAIN cs \subseteq Nat
  OBVIOUS
<1> QED
  BY <1>1 DEF Ours

\* What each end's view of the connection is.
ViewsAre ==
    /\ View(Client) = IF 1 \in DOMAIN conns[Client] THEN ViewOf(conns[Client][1]) ELSE "none"
    /\ Ours(conns[Server]) = {} => View(Server) = "none"
    /\ \A f : Found(f, Ours(conns[Server])) /\ conns[Server] \in Seq(ConnectionType) =>
                   View(Server) = ViewOf(conns[Server][f])

LEMMA ViewsNow == ViewsAre
<1>1. ASSUME 1 \in DOMAIN conns[Client]
      PROVE  View(Client) = ViewOf(conns[Client][1])
  <2> DEFINE its == DOMAIN conns[Client] \cap {1}
  <2>1. its \in SUBSET Nat /\ Found(1, its)
    BY <1>1 DEF Found
  <2>2. its # {}
    BY <1>1
  <2> HIDE DEF its
  <2>3. (CHOOSE d \in its : Found(d, its)) = 1
    BY <2>1, FirstIsChosen
  <2> QED
    BY <2>2, <2>3 DEF View, its
<1>2. ASSUME 1 \notin DOMAIN conns[Client]
      PROVE  View(Client) = "none"
  BY <1>2 DEF View
<1>3. ASSUME Ours(conns[Server]) = {}
      PROVE  View(Server) = "none"
  BY <1>3, BothPeers DEF View, Ours, Label
<1>4. ASSUME NEW f, Found(f, Ours(conns[Server])), conns[Server] \in Seq(ConnectionType)
      PROVE  View(Server) = ViewOf(conns[Server][f])
  <2> DEFINE its == IF Server = Client THEN DOMAIN conns[Server] \cap {1}
                    ELSE {d \in DOMAIN conns[Server] :
                              conns[Server][d].local = Generate(Client, 1, "remote")}
  <2>1. View(Server) = IF its = {} THEN "none"
                       ELSE ViewOf(conns[Server][CHOOSE d \in its : Found(d, its)])
    BY DEF View
  <2>2. its = Ours(conns[Server])
    BY PeersAssumption DEF Ours, Label
  <2> HIDE DEF its
  <2>3. its # {} /\ its \in SUBSET Nat
    BY <1>4, <2>2, OursAreNat DEF Found
  <2>4. (CHOOSE d \in its : Found(d, its)) = f
    BY <1>4, <2>2, <2>3, FirstIsChosen
  <2> QED
    BY <2>1, <2>3, <2>4
<1> QED
  BY <1>1, <1>2, <1>3, <1>4 DEF ViewsAre

LEMMA ViewsNext == ViewsAre'
BY ViewsNow, PTL

LEMMA OthersStay ==
  ASSUME LifeInv, LifeInv', NEW p \in Peer, NEW q \in Peer, p # q, NEW d, Grows, Only(p, d)
  PROVE  conns'[q] = conns[q]
<1>1. conns[q] \in Seq(ConnectionType) /\ conns'[q] \in Seq(ConnectionType)
  BY DEF LifeInv, LifecycleTypeOK
<1>2. DOMAIN conns'[q] = DOMAIN conns[q] /\ \A e \in DOMAIN conns[q] : conns'[q][e] = conns[q][e]
  BY DEF Grows, Only
<1>3. Len(conns'[q]) = Len(conns[q])
  BY <1>1, <1>2
<1> QED
  BY <1>1, <1>2, <1>3

\* CloseConnection ran at a connection the client sends from: the server that accepted
\* the first connection of the client has asked for the close.
LEMMA ServerAsked ==
  ASSUME LifeInv, NameInv, 1 \in DOMAIN conns[Client], conns[Client][1].state # "CREATED",
         Closer(Client, conns[Client][1].local)
  PROVE  View(Server) \in {"closing", "closed"}
<1>1. Other(Client) = Server /\ conns[Server] \in Seq(ConnectionType)
  BY BothPeers DEF Other, LifeInv, LifecycleTypeOK
<1>2. PICK e \in DOMAIN conns[Server] :
          conns[Server][e].remote = conns[Client][1].local /\ conns[Server][e].closePktNum > 0
  BY <1>1 DEF Closer
<1>3. PICK k \in DOMAIN conns[Server] :
          conns[Client][1].local = Label(Server, k) /\ conns[Server][k].local = Label(Client, 1)
  BY DEF NameInv, ClientNamed, Agreed
<1>4. e = k
  <2>1. conns[Server][e].remote = Label(Server, e)
    BY BothPeers DEF NameInv, Named
  <2> QED
    BY <1>2, <1>3, <2>1 DEF Label, Generate
<1>5. e \in Ours(conns[Server])
  BY <1>3, <1>4 DEF Ours
<1>6. PICK f \in Ours(conns[Server]) : Found(f, Ours(conns[Server]))
  BY <1>1, <1>5, OursAreNat, FirstExists
<1>7. f \in DOMAIN conns[Server] /\ conns[Server][f].local = conns[Server][e].local
  BY <1>3, <1>4, <1>6 DEF Ours
<1>8. Sound(conns[Server][f]) /\ conns[Server][f].state # "CREATED"
  BY <1>7, BothPeers, BeforeStep DEF NameInv, ServerNamed
<1>9. conns[Server][f].closePktNum > 0 \/ conns[Server][f].state = "CLOSED"
  <2>1. CASE f = e
    BY <1>2, <2>1
  <2>2. CASE f # e
    <3>1. f \in 1 .. e - 1
      BY <1>1, <1>5, <1>6, <1>7, <2>2 DEF Found
    <3>2. ~IsLive(conns[Server][f])
      BY <1>7, <3>1 DEF NameInv, ServerNamed
    <3> QED
      BY <1>8, <3>2 DEF IsLive, Sound
  <2> QED
    BY <2>1, <2>2
<1>10. ViewOf(conns[Server][f]) \in {"closing", "closed"}
  BY <1>8, <1>9, ViewCases
<1> QED
  BY <1>1, <1>6, <1>10, ViewsNow DEF ViewsAre

LEMMA ClientAsked ==
  ASSUME LifeInv, NameInv, Closer(Server, Label(Client, 1))
  PROVE  View(Client) \in {"closing", "closed"}
<1>1. Other(Server) = Client
  BY BothPeers DEF Other
<1>2. PICK e \in DOMAIN conns[Client] :
          conns[Client][e].remote = Label(Client, 1) /\ conns[Client][e].closePktNum > 0
  BY <1>1 DEF Closer
<1>3. e = 1
  <2>1. conns[Client][e].remote = Label(Client, e)
    BY BothPeers DEF NameInv, Named
  <2> QED
    BY <1>2, <2>1 DEF Label, Generate
<1>4. Sound(conns[Client][1]) /\ conns[Client][1].state # "CREATED"
  <2>1. Sound(conns[Client][1])
    BY <1>3, BothPeers, BeforeStep
  <2>2. conns[Client][1].state = "CREATED" => conns[Client][1].closePktNum = 0
    BY <1>3 DEF NameInv, ClientNamed
  <2>3. conns[Client][1].closePktNum # 0
    BY <1>2, <1>3
  <2> QED
    BY <2>1, <2>2, <2>3
<1>5. ViewOf(conns[Client][1]) \in {"closing", "closed"}
  BY <1>2, <1>3, <1>4, ViewCases
<1> QED
  BY <1>3, <1>5, ViewsNow DEF ViewsAre

\* The views a step leaves, when the view of one end changes at most.
LEMMA ViewsChange ==
  ASSUME NEW p \in Peer, View(Other(p))' = View(Other(p))
  PROVE  Views' = [Views EXCEPT ![p] = View(p)']
<1>1. \A q \in Peer : q = p \/ q = Other(p)
  BY DEF Peer, Other
<1>2. \A q \in Peer : View(q)' = IF q = p THEN View(p)' ELSE View(q)
  BY <1>1
<1> QED
  BY <1>2 DEF Views

\* A view that moves as a connection may.
LEMMA MovesKeepPromise ==
  ASSUME NEW p \in Peer, View(Other(p))' = View(Other(p)),
         \/ View(p)' = View(p)
         \/ View(p) = "open" /\ View(p)' = "closing"
         \/ View(p) = "closing" /\ View(p)' = "closed"
         \/ /\ View(p) \in {"open", "closing"} /\ View(p)' = "closed"
            /\ View(Other(p)) \in {"closing", "closed"}
  PROVE  [Promise!PromiseNext]_Views
<1>1. Views' = [Views EXCEPT ![p] = View(p)']
  BY ViewsChange
<1>2. Views[p] = View(p) /\ Views[Other(p)] = View(Other(p)) /\ p \in {Client, Server}
  BY OtherFacts DEF Peer, Views
<1>3. Promise!Other(p) = Other(p)
  BY DEF Promise!Other, Other
<1>4. CASE View(p)' = View(p)
  <2>1. Views' = Views
    BY <1>1, <1>4 DEF Views
  <2> QED
    BY <2>1
<1>5. CASE View(p) = "open" /\ View(p)' = "closing"
  <2>1. Promise!Close(p)
    BY <1>1, <1>2, <1>5 DEF Promise!Close, Promise!Become
  <2> QED
    BY <1>2, <2>1 DEF Promise!PromiseNext
<1>6. CASE View(p) = "closing" /\ View(p)' = "closed"
  <2>1. Promise!WaitEnds(p)
    BY <1>1, <1>2, <1>6 DEF Promise!WaitEnds, Promise!Become
  <2> QED
    BY <1>2, <2>1 DEF Promise!PromiseNext
<1>7. CASE /\ View(p) \in {"open", "closing"} /\ View(p)' = "closed"
           /\ View(Other(p)) \in {"closing", "closed"}
  <2>1. Promise!ClosedByPeer(p)
    BY <1>1, <1>2, <1>3, <1>7 DEF Promise!ClosedByPeer, Promise!Become
  <2> QED
    BY <1>2, <2>1 DEF Promise!PromiseNext
<1> QED
  BY <1>4, <1>5, <1>6, <1>7

LEMMA ClientKeepsPromise ==
  ASSUME LifeInv, NameInv, LifeInv', NameInv', NEW d \in DOMAIN conns'[Client],
         Advance(Client, d)
  PROVE  [Promise!PromiseNext]_Views
<1>1. Grows /\ Only(Client, d)
  BY DEF Advance
<1>2. conns'[Server] = conns[Server] /\ Other(Client) = Server
  BY <1>1, BothPeers, OthersStay DEF Other
<1>3. View(Server)' = View(Server)
  BY <1>2, BothPeers DEF View
<1>4. CASE d # 1
  <2>1. 1 \in DOMAIN conns'[Client] <=> 1 \in DOMAIN conns[Client]
    BY <1>1, <1>4, BothPeers DEF Grows, Only
  <2>2. 1 \in DOMAIN conns[Client] => conns'[Client][1] = conns[Client][1]
    BY <1>1, <1>4, <2>1, BothPeers DEF Only
  <2>3. View(Client)' = View(Client)
    BY <2>1, <2>2, ViewsNow, ViewsNext DEF ViewsAre, ViewOf
  <2> QED
    BY <1>2, <1>3, <2>3, BothPeers, MovesKeepPromise
<1>5. CASE d = 1
  <2>1. View(Client)' = ViewOf(conns'[Client][1])
    BY <1>5, ViewsNext DEF ViewsAre, ViewOf
  <2>2. Views' = [Views EXCEPT ![Client] = ViewOf(conns'[Client][1])]
    BY <1>2, <1>3, <2>1, BothPeers, ViewsChange
  <2>3. Views[Client] = View(Client) /\ Views[Server] = View(Server)
    BY BothPeers DEF Views
  <2>4. CASE 1 \notin DOMAIN conns[Client]
    <3>1. View(Client) = "none"
      BY <2>4, ViewsNow DEF ViewsAre
    <3>2. ViewOf(conns'[Client][1]) = "opening"
      BY <1>5, <2>4 DEF Advance
    <3>3. Promise!Create
      BY <2>2, <2>3, <3>1, <3>2 DEF Promise!Create, Promise!Become
    <3> QED
      BY <3>3 DEF Promise!PromiseNext
  <2>5. CASE 1 \in DOMAIN conns[Client]
    <3> DEFINE c == conns[Client][1]
               b == conns'[Client][1]
    <3>1. View(Client) = ViewOf(c)
      BY <2>5, ViewsNow DEF ViewsAre
    <3>2. CASE ViewOf(c) = "opening" /\ ViewOf(b) \in {"open", "closing"}
      <4>1. b.state # "CREATED"
        <5>1. b.state = "CREATED" => ViewOf(b) = "opening"
          BY DEF ViewOf
        <5> QED
          BY <3>2, <5>1
      <4>2. ClientNamed(1)'
        BY <1>5 DEF NameInv
      <4>3. PICK k \in DOMAIN conns'[Server] : conns'[Server][k].local = Label(Client, 1)
        BY <4>1, <4>2 DEF ClientNamed, Agreed, Label
      <4>4. k \in Ours(conns[Server]) /\ conns[Server] \in Seq(ConnectionType)
        BY <1>2, <4>3, BothPeers DEF Ours, LifeInv, LifecycleTypeOK
      <4>5. PICK f \in Ours(conns[Server]) : Found(f, Ours(conns[Server]))
        BY <4>4, OursAreNat, FirstExists
      <4>6. View(Server) = ViewOf(conns[Server][f]) /\ Sound(conns[Server][f])
        BY <4>4, <4>5, BothPeers, BeforeStep, ViewsNow DEF ViewsAre, Ours
      <4>7. View(Server) # "none"
        BY <4>6, ViewCases
      <4>8. Promise!Open
        BY <2>2, <2>3, <3>1, <3>2, <4>7 DEF Promise!Open, Promise!Become
      <4> QED
        BY <4>8 DEF Promise!PromiseNext
    <3>3. CASE Moves(Client, c, b)
      <4>1. ASSUME ViewOf(c) \in {"open", "closing"}, Closer(Client, c.local)
            PROVE  View(Server) \in {"closing", "closed"}
        <5>1. c.state # "CREATED"
          <6>1. c.state = "CREATED" => ViewOf(c) = "opening"
            BY DEF ViewOf
          <6> QED
            BY <4>1, <6>1
        <5> QED
          BY <2>5, <4>1, <5>1, ServerAsked
      <4> QED
        BY <1>2, <1>3, <2>1, <3>1, <3>3, <4>1, BothPeers, MovesKeepPromise DEF Moves
    <3> QED
      BY <1>5, <2>5, <3>2, <3>3 DEF Advance
  <2> QED
    BY <2>4, <2>5
<1> QED
  BY <1>4, <1>5

LEMMA ServerKeepsPromise ==
  ASSUME LifeInv, NameInv, LifeInv', NameInv', NEW d \in DOMAIN conns'[Server],
         Advance(Server, d)
  PROVE  [Promise!PromiseNext]_Views
<1> DEFINE its == Ours(conns[Server])
           next == Ours(conns'[Server])
<1>1. Grows /\ Only(Server, d)
  BY DEF Advance
<1>2. conns'[Client] = conns[Client] /\ Other(Server) = Client
  BY <1>1, BothPeers, OthersStay DEF Other
<1>3. View(Client)' = View(Client)
  BY <1>2, BothPeers DEF View
<1>4. conns[Server] \in Seq(ConnectionType) /\ conns'[Server] \in Seq(ConnectionType)
  BY BothPeers DEF LifeInv, LifecycleTypeOK
<1>5. its \in SUBSET Nat /\ next \in SUBSET Nat
  BY <1>4, OursAreNat
<1>6. \A e \in DOMAIN conns[Server] : e \in DOMAIN conns'[Server]
                                     /\ conns'[Server][e].local = conns[Server][e].local
  BY <1>1, BothPeers DEF Grows, NameInv, ServerNamed
<1>7. next = its \/ (d \notin DOMAIN conns[Server] /\ next = its \cup {d})
  BY <1>1, <1>6, BothPeers DEF Only, Ours
<1>8. \A f : Found(f, its) => View(Server) = ViewOf(conns[Server][f])
  BY <1>4, ViewsNow DEF ViewsAre
<1>9. \A f : Found(f, next) => View(Server)' = ViewOf(conns'[Server][f])
  BY <1>4, ViewsNext DEF ViewsAre, ViewOf, Ours, Found, Label
<1>10. /\ its = {} => View(Server) = "none"
       /\ next = {} => View(Server)' = "none"
  BY ViewsNow, ViewsNext DEF ViewsAre, Ours, Label
<1> HIDE DEF its, next
<1>11. CASE d \in DOMAIN conns[Server]
  <2>1. next = its
    BY <1>7, <1>11
  <2>2. CASE its = {}
    <3>1. View(Server)' = View(Server)
      BY <1>10, <2>1, <2>2
    <3> QED
      BY <1>2, <1>3, <3>1, BothPeers, MovesKeepPromise
  <2>3. CASE its # {}
    <3>1. PICK f \in its : Found(f, its)
      BY <1>5, <2>3, FirstExists
    <3>2. f \in DOMAIN conns[Server] /\ f \in DOMAIN conns'[Server]
      BY <1>6, <3>1 DEF its, Ours
    <3>3. View(Server) = ViewOf(conns[Server][f]) /\ View(Server)' = ViewOf(conns'[Server][f])
      BY <1>8, <1>9, <2>1, <3>1
    <3>4. CASE f # d
      <4>1. conns'[Server][f] = conns[Server][f]
        BY <1>1, <3>2, <3>4, BothPeers DEF Only
      <4>2. View(Server)' = View(Server)
        BY <3>3, <4>1
      <4> QED
        BY <1>2, <1>3, <4>2, BothPeers, MovesKeepPromise
    <3>5. CASE f = d
      <4>1. Moves(Server, conns[Server][f], conns'[Server][f])
        BY <1>11, <3>5, BothPeers DEF Advance
      <4>2. conns[Server][f].local = Label(Client, 1)
        BY <3>1 DEF its, Ours
      <4>3. Closer(Server, conns[Server][f].local) => View(Client) \in {"closing", "closed"}
        BY <4>2, ClientAsked
      <4> QED
        BY <1>2, <1>3, <3>3, <4>1, <4>3, BothPeers, MovesKeepPromise DEF Moves
    <3> QED
      BY <3>4, <3>5
  <2> QED
    BY <2>2, <2>3
<1>12. CASE d \notin DOMAIN conns[Server]
  <2>1. d = Len(conns[Server]) + 1 /\ ViewOf(conns'[Server][d]) \in {"open", "closing"}
    BY <1>12, BothPeers DEF Advance
  <2>2. CASE its # {}
    <3>1. PICK f \in its : Found(f, its)
      BY <1>5, <2>2, FirstExists
    <3>2. f \in DOMAIN conns[Server] /\ f \in DOMAIN conns'[Server]
      BY <1>6, <3>1 DEF its, Ours
    <3>3. f <= d /\ f # d
      BY <1>4, <1>12, <2>1, <3>2
    <3>4. Found(f, next)
      BY <1>7, <3>1, <3>3 DEF Found
    <3>5. conns'[Server][f] = conns[Server][f]
      BY <1>1, <3>2, <3>3, BothPeers DEF Only
    <3>6. View(Server)' = View(Server)
      BY <1>8, <1>9, <3>1, <3>4, <3>5
    <3> QED
      BY <1>2, <1>3, <3>6, BothPeers, MovesKeepPromise
  <2>3. CASE its = {} /\ next = {}
    <3>1. View(Server)' = View(Server)
      BY <1>10, <2>3
    <3> QED
      BY <1>2, <1>3, <3>1, BothPeers, MovesKeepPromise
  <2>4. CASE its = {} /\ next = {d}
    <3>1. Found(d, next)
      <4>1. d \in Nat
        BY <1>4
      <4> QED
        BY <2>4, <4>1 DEF Found
    <3>2. View(Server) = "none" /\ View(Server)' = ViewOf(conns'[Server][d])
      BY <1>9, <1>10, <2>4, <3>1
    <3>3. 1 \in DOMAIN conns[Client]
      <4>1. conns'[Server][d].local = Label(Client, 1)
        BY <2>4 DEF next, Ours
      <4>2. PICK j \in DOMAIN conns'[Client] : conns'[Server][d].local = Label(Client, j)
        BY DEF NameInv, ServerNamed, Label
      <4>3. j = 1
        BY <4>1, <4>2 DEF Label, Generate
      <4> QED
        BY <1>2, <4>2, <4>3
    <3>4. View(Client) # "none"
      <4>1. View(Client) = ViewOf(conns[Client][1]) /\ Sound(conns[Client][1])
        BY <3>3, BothPeers, BeforeStep, ViewsNow DEF ViewsAre
      <4> QED
        BY <4>1, ViewCases
    <3>5. Views' = [Views EXCEPT ![Server] = ViewOf(conns'[Server][d])]
      BY <1>2, <1>3, <3>2, BothPeers, ViewsChange
    <3>6. Views[Client] = View(Client) /\ Views[Server] = View(Server)
      BY BothPeers DEF Views
    <3>7. Promise!Accept
      BY <2>1, <3>2, <3>4, <3>5, <3>6 DEF Promise!Accept, Promise!Become
    <3> QED
      BY <3>7 DEF Promise!PromiseNext
  <2> QED
    BY <1>7, <2>2, <2>3, <2>4
<1> QED
  BY <1>11, <1>12

LEMMA PromiseKept ==
  ASSUME LifeInv, NameInv, [Next]_vars
  PROVE  [Promise!PromiseNext]_Views
<1>1. LifeInv' /\ NameInv'
  BY LifeInvStep, NamesStep
<1>2. CASE UNCHANGED conns
  <2>1. \A q \in Peer : View(q)' = View(q)
    BY <1>2 DEF View
  <2>2. Views' = Views
    BY <2>1 DEF Views
  <2> QED
    BY <2>2
<1>3. ASSUME NEW p \in Peer, NEW d \in DOMAIN conns'[p], Advance(p, d)
      PROVE  [Promise!PromiseNext]_Views
  BY <1>1, <1>3, BothPeers, ClientKeepsPromise, ServerKeepsPromise
<1> QED
  BY <1>2, <1>3, NamesStep

\* The first connection of the client and the one the server accepted for it keep the
\* promise of SessionPromise: the client finds it open only after the server accepted it,
\* and an end that did not ask for the close finds it closed only after the other end did.
THEOREM KeepsPromise == Spec => PromiseSpec
<1>1. Init => Promise!PromiseInit
  <2> SUFFICES ASSUME Init
               PROVE  Promise!PromiseInit
    OBVIOUS
  <2>1. View(Client) = "none" /\ View(Server) = "none"
    BY BothPeers DEF View, Init
  <2> QED
    BY <2>1, BothPeers DEF Promise!PromiseInit, Peer, Views
<1>2. LifeInv /\ NameInv /\ [Next]_vars => [Promise!PromiseNext]_Views
  BY PromiseKept DEF Views
<1> QED
  BY <1>1, <1>2, NamesHold, PTL DEF Spec, PromiseSpec, Promise!PromiseSpec
===============================================================================
