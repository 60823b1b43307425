------------------------ MODULE ConnectionLifecycle ------------------------
(***************************************************************************)
(* The life of connections, from CreateConnection over the three Initial   *)
(* packets to CONNECTION_CLOSE, at a client and a server: the INITIAL,     *)
(* CONNECTION_CLOSE and ACK handlers of QUIC::incomingMsg, the way STREAM  *)
(* finds its connection, CloseConnection, and the passes of SocketLoop     *)
(* with the alarm of a closing end and the idle timeout of the client.     *)
(*                                                                         *)
(* An end keeps one record per descriptor, in the order of the map         *)
(* `connections`, which is the order every handler searches.  A search     *)
(* that finds nothing fails an assertion, and the program is gone.         *)
(*                                                                         *)
(* A datagram that was sent may arrive at any later time, any number of    *)
(* times, or never.  Sending it again adds nothing to that, so the         *)
(* retransmissions, which PacketLayer models, are left out here.           *)
(***************************************************************************)
EXTENDS Integers, Sequences, FiniteSets, Functions

CONSTANTS
    Client, Server,
    Talkers,         \* the ends whose application sends data
    MaxCreated,      \* bound: how many connections the client creates
    MaxConnections,  \* bound: how many descriptors each end hands out
    MaxPktNum        \* bound: how many packets a connection of each end numbers

Peer == {Client, Server}
Other(p) == IF p = Client THEN Server ELSE Client

ASSUME PeersAssumption == Client # Server
ASSUME BoundAssumption == /\ MaxCreated \in Nat
                          /\ MaxConnections \in [Peer -> Nat]
                          /\ MaxPktNum \in [Peer -> Nat \ {0, 1}]

VARIABLES
    conns,      \* the connections of each end, by descriptor
    inFlight,   \* the packets the network may deliver, by destination
    aborted     \* whether an assertion of the end failed

vars == <<conns, inFlight, aborted>>

States == {"CREATED", "PEER_ESTABLISHED", "ESTABLISHED", "WAIT_FOR_PEER_CLOSE", "CLOSED"}

\* Generate() draws an identifier nobody else has.  The two an end may draw for a
\* descriptor are named after it.
ConnectionID == Peer \X Nat \X {"local", "remote"}
Generate(p, d, role) == <<p, d, role>>

Init ==
    /\ conns = [p \in Peer |-> <<>>]
    /\ inFlight = [p \in Peer |-> {}]
    /\ aborted = [p \in Peer |-> FALSE]

-----------------------------------------------------------------------------
(***************************************************************************)
(* A connection as a record: class Connection, reduced to what decides its *)
(* life, and three histories of its application.                           *)
(***************************************************************************)
NewConnection(state, local, remote) ==
    [state |-> state, local |-> local, remote |-> remote,
     nowPktNum |-> 0,
     pending |-> <<>>,        \* pendingPackets with whetherNeedACK
     unacked |-> {},          \* the numbers in notACKedSentPkt
     rec |-> {},              \* recPktNum
     closePktNum |-> 0,       \* connectionClosePktNum, 0 before CloseConnection
     streams |-> FALSE,       \* checkValidStream()
     ready |-> 0,             \* history: calls of the ready callback
     told |-> 0,              \* history: calls of the close callback
     sentData |-> FALSE]      \* history: its application sent data

\* A packet for the other end.  Initial packets carry both identifiers, the others
\* the destination's; the ACK of an Initial packet is never parsed, for the length
\* of its header leaves no room for a payload.
Queued(c, kind, needACK, acks) ==
    [c EXCEPT !.nowPktNum = @ + 1,
              !.pending = Append(@, [kind |-> kind, needACK |-> needACK,
                                     src |-> c.local, dst |-> c.remote,
                                     pktNum |-> IF kind = "ack" THEN 0 ELSE c.nowPktNum + 1,
                                     acks |-> acks])]

Recorded(c, pkt) == [c EXCEPT !.rec = @ \cup {pkt.pktNum}]

\* Mutant: the number waited for is the next one, not the CONNECTION_CLOSE packet's.
ClosingAwaitsNext(c) ==
    [Queued(c, "close", TRUE, {}) EXCEPT !.state = "WAIT_FOR_PEER_CLOSE",
                                         !.closePktNum = c.nowPktNum + 2]

\* QUIC::CloseConnection.
Closing(c) ==
    [Queued(c, "close", TRUE, {}) EXCEPT !.state = "WAIT_FOR_PEER_CLOSE",
                                         !.closePktNum = c.nowPktNum + 1]

\* The ready callback, in which the application may close the connection.
ReadyCallback(c, closes) ==
    LET told == [c EXCEPT !.ready = @ + 1]
    IN  IF closes THEN Closing(told) ELSE told

\* Bound: an application closes a connection once, and not one it was told is closed.
MayClose(c) == c.closePktNum = 0 /\ c.told = 0

IsLive(c) == c.state \notin {"WAIT_FOR_PEER_CLOSE", "CLOSED"}

\* A search that fits the descriptors ds ends at the first of them.
Found(d, ds) == d \in ds /\ \A e \in ds : d <= e

\* The step leaves the connection at descriptor d as c.
Become(p, d, c) ==
    /\ c.nowPktNum <= MaxPktNum[p]
    /\ conns' = [conns EXCEPT ![p][d] = c]

-----------------------------------------------------------------------------
(***************************************************************************)
(* The application.                                                        *)
(***************************************************************************)
CreateConnection ==
    LET d == Len(conns[Client]) + 1
        c == NewConnection("CREATED", Generate(Client, d, "local"), Generate(Client, d, "remote"))
    IN  /\ d <= MaxCreated
        /\ conns' = [conns EXCEPT ![Client] = Append(@, Queued(c, "initial", TRUE, {}))]
        /\ UNCHANGED <<inFlight, aborted>>

\* An application uses a connection once it was told that it is ready.
CloseConnection(p, d) ==
    LET c == conns[p][d]
    IN  /\ c.ready > 0
        /\ MayClose(c)
        /\ Become(p, d, Closing(c))
        /\ UNCHANGED <<inFlight, aborted>>

-----------------------------------------------------------------------------
(***************************************************************************)
(* INITIAL.  The handler takes the first connection that is not closing or *)
(* closed and that either identifier of the packet fits.                   *)
(***************************************************************************)
\* Mutant: the identifiers are compared crosswise.
FitsInitialSwapped(p, pkt) ==
    {d \in DOMAIN conns[p] : /\ IsLive(conns[p][d])
                             /\ \/ conns[p][d].remote = pkt.dst
                                \/ conns[p][d].local = pkt.src}

FitsInitial(p, pkt) ==
    {d \in DOMAIN conns[p] : /\ IsLive(conns[p][d])
                             /\ \/ conns[p][d].remote = pkt.src
                                \/ conns[p][d].local = pkt.dst}

\* None fits: the packet opens a new connection, at either end.
AcceptConnection(p, pkt, closes) ==
    LET d == Len(conns[p]) + 1
        c == Recorded(NewConnection("PEER_ESTABLISHED", pkt.dst, Generate(p, d, "remote")), pkt)
    IN  /\ FitsInitial(p, pkt) = {}
        /\ d <= MaxConnections[p]
        /\ conns' = [conns EXCEPT ![p] =
                        Append(@, ReadyCallback(Queued(c, "initial", TRUE, {}), closes))]
        /\ UNCHANGED <<inFlight, aborted>>

\* The second packet of the handshake: the client learns its identifier.  The state is
\* set after the callback, and the third packet asks for no ACK.
HandshakeAtClient(p, pkt, closes) ==
    \E d \in DOMAIN conns[p] :
    LET c == ReadyCallback([conns[p][d] EXCEPT !.local = pkt.dst], closes)
    IN  /\ Found(d, FitsInitial(p, pkt))
        /\ conns[p][d].state = "CREATED"
        /\ pkt.pktNum \notin conns[p][d].rec
        /\ closes => MayClose(conns[p][d])
        /\ Become(p, d, Recorded(Queued([c EXCEPT !.state = "ESTABLISHED"], "initial", FALSE, {}), pkt))
        /\ UNCHANGED <<inFlight, aborted>>

\* Mutant: the packet that opened the connection completes the handshake too.
HandshakeAtServerByFirst(p, pkt, closes) ==
    \E d \in DOMAIN conns[p] :
    LET c == ReadyCallback(conns[p][d], closes)
    IN  /\ Found(d, FitsInitial(p, pkt))
        /\ conns[p][d].state = "PEER_ESTABLISHED"
        /\ closes => MayClose(conns[p][d])
        /\ Become(p, d, Recorded([c EXCEPT !.state = "ESTABLISHED"], pkt))
        /\ UNCHANGED <<inFlight, aborted>>

\* Another Initial packet at the end that accepted: the callback runs once more.
HandshakeAtServer(p, pkt, closes) ==
    \E d \in DOMAIN conns[p] :
    LET c == ReadyCallback(conns[p][d], closes)
    IN  /\ Found(d, FitsInitial(p, pkt))
        /\ conns[p][d].state = "PEER_ESTABLISHED"
        /\ pkt.pktNum \notin conns[p][d].rec
        /\ closes => MayClose(conns[p][d])
        /\ Become(p, d, Recorded([c EXCEPT !.state = "ESTABLISHED"], pkt))
        /\ UNCHANGED <<inFlight, aborted>>

ReceiveInitial(p, pkt) ==
    /\ pkt.kind = "initial"
    /\ \E closes \in BOOLEAN : \/ AcceptConnection(p, pkt, closes)
                               \/ HandshakeAtClient(p, pkt, closes)
                               \/ HandshakeAtServer(p, pkt, closes)

-----------------------------------------------------------------------------
(***************************************************************************)
(* ONE_RTT.  The connection is the first with the packet's identifier,     *)
(* whatever its state; ACK alone passes over closed ones.                  *)
(***************************************************************************)
FitsLocal(p, pkt) == {d \in DOMAIN conns[p] : conns[p][d].local = pkt.dst}
FitsOpen(p, pkt) == {d \in FitsLocal(p, pkt) : conns[p][d].state # "CLOSED"}

\* assert(foundCon != nullptr) in the handlers of STREAM and CONNECTION_CLOSE.
AbortOnUnknown(p, pkt) ==
    /\ pkt.kind \in {"data", "close"}
    /\ FitsLocal(p, pkt) = {}
    /\ aborted' = [aborted EXCEPT ![p] = TRUE]
    /\ UNCHANGED <<conns, inFlight>>

ReceiveData(p, pkt) ==
    \E d \in DOMAIN conns[p] :
    LET c == conns[p][d]
    IN  /\ pkt.kind = "data"
        /\ Found(d, FitsLocal(p, pkt))
        /\ IsLive(c)
        /\ pkt.pktNum \notin c.rec
        /\ Become(p, d, [Recorded(c, pkt) EXCEPT !.streams = TRUE])
        /\ UNCHANGED <<inFlight, aborted>>

\* The answer names the packet, which a connection that is closed already does not
\* record: each copy of it runs the callback again.
ReceiveClose(p, pkt) ==
    \E d \in DOMAIN conns[p] :
    LET c == conns[p][d]
        kept == IF c.state = "CLOSED" THEN c ELSE Recorded(c, pkt)
    IN  /\ pkt.kind = "close"
        /\ Found(d, FitsLocal(p, pkt))
        /\ pkt.pktNum \notin c.rec
        /\ Become(p, d, [Queued(kept, "ack", FALSE, c.rec \cup {pkt.pktNum}) EXCEPT
                            !.state = "CLOSED", !.told = @ + 1])
        /\ UNCHANGED <<inFlight, aborted>>

\* Mutant: any ACK ends the wait of a closing end, and whatever its state.
ReceiveAckOfAnything(p, pkt) ==
    \E d \in DOMAIN conns[p] :
    LET c == conns[p][d]
    IN  /\ pkt.kind = "ack"
        /\ Found(d, FitsOpen(p, pkt))
        /\ Become(p, d, [c EXCEPT !.unacked = @ \ pkt.acks, !.state = "CLOSED"])
        /\ UNCHANGED <<inFlight, aborted>>

ReceiveAck(p, pkt) ==
    \E d \in DOMAIN conns[p] :
    LET c == conns[p][d]
        ended == c.state = "WAIT_FOR_PEER_CLOSE" /\ c.closePktNum \in pkt.acks
    IN  /\ pkt.kind = "ack"
        /\ Found(d, FitsOpen(p, pkt))
        /\ Become(p, d, [c EXCEPT !.unacked = @ \ pkt.acks,
                                  !.state = IF ended THEN "CLOSED" ELSE @])
        /\ UNCHANGED <<inFlight, aborted>>

Receive(p, pkt) ==
    \/ ReceiveInitial(p, pkt)
    \/ AbortOnUnknown(p, pkt)
    \/ ReceiveData(p, pkt)
    \/ ReceiveClose(p, pkt)
    \/ ReceiveAck(p, pkt)

-----------------------------------------------------------------------------
(***************************************************************************)
(* A pass of SocketLoop over one connection, in one step: between two      *)
(* receptions it reads and writes this connection only, and the network    *)
(* may hold back each datagram for as long as it likes.                    *)
(***************************************************************************)
MayTimeOut(p, c) ==
    p = Client /\ c.state \notin {"CREATED", "CLOSED"} /\ c.streams /\ c.unacked = {}

\* Mutant: the alarm does not look at the state.
AtTimerInAnyState(p, c, timer) ==
    CASE timer = "alarm" /\ c.ready > 0 -> [c EXCEPT !.state = "CLOSED"]
      [] timer = "idle" /\ MayTimeOut(p, c) -> Closing(c)
      [] OTHER -> c

\* Mutant: no alarm.
AtTimerWithoutAlarm(p, c, timer) ==
    IF timer = "idle" /\ MayTimeOut(p, c) THEN Closing(c) ELSE c

\* 2000 ms after CloseConnection a closing end gives up waiting.  An idle client with
\* streams and nothing unacknowledged closes.
AtTimer(p, c, timer) ==
    CASE timer = "alarm" /\ c.state = "WAIT_FOR_PEER_CLOSE" -> [c EXCEPT !.state = "CLOSED"]
      [] timer = "idle" /\ MayTimeOut(p, c) -> Closing(c)
      [] OTHER -> c

\* The send loop ends early, after one packet or more, when a PTO ran out or the
\* window is exceeded.
SentCount(c) == {n \in 0 .. Len(c.pending) : n = 0 => c.pending = <<>>}

\* The send loop has sent the first n packets of the queue.
Sent(c, n) ==
    LET packets == Range(SubSeq(c.pending, 1, n))
    IN  [c EXCEPT !.pending = SubSeq(@, n + 1, Len(@)),
                  !.unacked = @ \cup {pkt.pktNum : pkt \in {q \in packets : q.needACK}}]

\* The pass ends with a packet of the data that waits in unsentBuf.
MaySendData(p, c) ==
    p \in Talkers /\ c.ready > 0 /\ c.state # "CLOSED" /\ ~c.sentData

WithData(c) == [Queued(c, "data", TRUE, {}) EXCEPT !.streams = TRUE, !.sentData = TRUE]

\* GetSpeACKPacketForRecPkt: an ACK of all received, but not from a closed connection.
AckOf(c) ==
    IF c.state = "CLOSED" \/ c.rec = {} THEN {}
    ELSE {[kind |-> "ack", needACK |-> FALSE, src |-> c.local, dst |-> c.remote,
           pktNum |-> 0, acks |-> c.rec]}

Pass(p, d, timer, n, talks) ==
    LET timed == AtTimer(p, conns[p][d], timer)
        sent == Sent(timed, n)
    IN  /\ n \in SentCount(timed)
        /\ talks => MaySendData(p, sent)
        /\ Become(p, d, IF talks THEN WithData(sent) ELSE sent)
        /\ inFlight' = [inFlight EXCEPT ![Other(p)] =
                            @ \cup Range(SubSeq(timed.pending, 1, n)) \cup AckOf(timed)]
        /\ UNCHANGED aborted

-----------------------------------------------------------------------------
Runs(p) == ~aborted[p]

Endpoint(p) ==
    /\ Runs(p)
    /\ \/ p = Client /\ CreateConnection
       \/ \E d \in DOMAIN conns[p] : CloseConnection(p, d)
       \/ \E pkt \in inFlight[p] : Receive(p, pkt)
       \/ \E d \in DOMAIN conns[p], timer \in {"none", "alarm", "idle"},
             n \in 0 .. MaxPktNum[p], talks \in BOOLEAN : Pass(p, d, timer, n, talks)

Next == \E p \in Peer : Endpoint(p)

Spec == Init /\ [][Next]_vars

(***************************************************************************)
(* Fairness.  The loop runs for ever, so every connection has its passes,  *)
(* and one of them comes 2000 ms after CloseConnection.  An Initial packet *)
(* that was sent arrives: the first two are sent again until they are      *)
(* acknowledged, and PacketLayer shows what that takes.                    *)
(***************************************************************************)
PassOf(p, d, timer) == /\ Runs(p)
                       /\ d \in DOMAIN conns[p]
                       /\ \E n \in 0 .. MaxPktNum[p] : Pass(p, d, timer, n, FALSE)

Fairness ==
    \A p \in Peer :
        /\ \A d \in 1 .. MaxConnections[p], timer \in {"none", "alarm"} : WF_vars(PassOf(p, d, timer))
        /\ WF_vars(\E pkt \in inFlight[p] : Runs(p) /\ ReceiveInitial(p, pkt))

FairSpec == Spec /\ Fairness

-----------------------------------------------------------------------------
(* Properties.                                                             *)

PktNum == UNION {1 .. MaxPktNum[p] : p \in Peer}

PacketType ==
    [kind : {"initial", "data", "close", "ack"}, needACK : BOOLEAN,
     src : ConnectionID, dst : ConnectionID, pktNum : PktNum \cup {0},
     acks : SUBSET PktNum]

ConnectionType ==
    [state : States, local : ConnectionID, remote : ConnectionID,
     nowPktNum : PktNum \cup {0}, pending : Seq(PacketType),
     unacked : SUBSET PktNum, rec : SUBSET PktNum,
     closePktNum : PktNum \cup {0}, streams : BOOLEAN,
     ready : Nat, told : Nat, sentData : BOOLEAN]

LifecycleTypeOK ==
    /\ conns \in [Peer -> Seq(ConnectionType)]
    /\ inFlight \in [Peer -> SUBSET PacketType]
    /\ aborted \in [Peer -> BOOLEAN]

Connections(p) == Range(conns[p])

Mirrors(c, e) == e.local = c.remote /\ e.remote = c.local

\* A client that believes a connection established shares both its identifiers with a
\* connection of the server; and so does a server, but for the connections it opens for
\* stray Initial packets under an identifier it has already.
IdentifiersAgree ==
    /\ \A c \in Connections(Client) :
           c.state = "ESTABLISHED" => \E e \in Connections(Server) : Mirrors(c, e)
    /\ \A d \in DOMAIN conns[Server] :
           (/\ conns[Server][d].state = "ESTABLISHED"
            /\ \A e \in 1 .. d - 1 : conns[Server][e].local # conns[Server][d].local)
               => \E c \in Connections(Client) : Mirrors(conns[Server][d], c)

\* A close is somebody's doing: an end is told of it, or is closed without a call of
\* CloseConnection of its own, only when CloseConnection ran at an end that sends to it
\* (callback.hh:18, "Invoke when a connection is closed by the peer").
ClosedForAReason ==
    \A p \in Peer : \A c \in Connections(p) :
        (c.told > 0 \/ (c.state = "CLOSED" /\ c.closePktNum = 0)) =>
            \E e \in Connections(Other(p)) : e.remote = c.local /\ e.closePktNum > 0

\* The first connection the client created and the one the server accepted for it, as
\* their applications see them.
ViewOf(c) ==
    CASE c.state = "CREATED" -> "opening"
      [] c.state = "CLOSED" -> "closed"
      [] c.state \notin {"CREATED", "CLOSED"} /\ c.closePktNum > 0 -> "closing"
      [] OTHER -> "open"

View(p) ==
    LET its == IF p = Client THEN DOMAIN conns[p] \cap {1}
               ELSE {d \in DOMAIN conns[p] : conns[p][d].local = Generate(Client, 1, "remote")}
    IN  IF its = {} THEN "none" ELSE ViewOf(conns[p][CHOOSE d \in its : Found(d, its)])

Views == [p \in Peer |-> View(p)]

Promise == INSTANCE SessionPromise WITH view <- Views
\* The connection keeps the promise of SessionPromise, whatever else Initial packets open.
PromiseSpec == Promise!PromiseSpec

InState(p, d, states) == d \in DOMAIN conns[p] /\ conns[p][d].state \in states

\* Whatever is lost, an end that closes is closed in the end.
ClosingEnds ==
    \A p \in Peer : \A d \in 1 .. MaxConnections[p] :
        InState(p, d, {"WAIT_FOR_PEER_CLOSE"}) ~> (aborted[p] \/ InState(p, d, {"CLOSED"}))

\* A client leaves CREATED in the end, unless an assertion ends one of the programs.
HandshakeCompletes ==
    \A d \in 1 .. MaxConnections[Client] :
        InState(Client, d, {"CREATED"})
            ~> (aborted[Client] \/ aborted[Server] \/ ~InState(Client, d, {"CREATED"}))
=============================================================================
