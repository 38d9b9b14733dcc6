------------------------------- MODULE Tunnel -------------------------------
(***************************************************************************)
(* The whole tunnel for TCP sessions: apps, the client's forwarders and    *)
(* its ECHPool, the WebSocket connections, the server's handlers and the   *)
(* targets.                                                                *)
(***************************************************************************)
EXTENDS Forwarder, WebSocketServer

vars == <<wireVars, poolVars, forwarderVars, serverVars>>

TypeOK ==
  /\ WireTypeOK
  /\ PoolTypeOK
  /\ ForwarderTypeOK
  /\ ServerTypeOK

Init ==
  /\ WireInit
  /\ PoolInit
  /\ ForwarderInit
  /\ ServerInit

\* What a step of a part of the system leaves to the others
OfPool == UNCHANGED <<forwarderVars, serverVars>>
OfForwarder == UNCHANGED serverVars
OfServer == UNCHANGED <<poolVars, forwarderVars>>
OfNetwork == UNCHANGED <<poolVars, forwarderVars, serverVars>>

PoolStep ==
  \/ \E c \in Channels : Dial(c) \/ HandleChannel(c)
  \/ \E s \in Sessions : RunCloser(s)

ForwarderStep ==
  \E s \in Sessions :
    \/ \E kind \in Kinds, first \in {0, 1} : Register(s, kind, first)
    \/ Forward(s)
    \/ ReadLocal(s)
    \/ AppHangup(s)

ServerStep ==
  \E w \in Sockets :
    \/ HandleWebSocket(w)
    \/ \E s \in Sessions : \/ HandleTCPConnection(w, s)
                           \/ PumpData(w, s)
                           \/ TargetHangup(w, s)

Next ==
  \/ PoolStep /\ OfPool
  \/ ForwarderStep /\ OfForwarder
  \/ ServerStep /\ OfServer
  \/ (\E w \in Sockets : Break(w)) /\ OfNetwork

Spec == Init /\ [][Next]_vars

\* Writes to an app or a target have no deadline, so that they return only when
\* it reads: that of DATA in the two read loops (pool.go 269, websocket_server.go
\* 415), for which every session of the connection then waits, and that of the
\* first frame (websocket_server.go 470).
ReaderWaits(c) ==
  /\ Reads(c, "DATA")
  /\ Incoming(c).sess \in tcpMap /\ MayWriteLocal(Incoming(c).sess, TRUE)
LoopWaits(w) ==
  /\ Serves(w, "DATA")
  /\ Request(w).sess \in conns[w] /\ CanWrite(w, Request(w).sess)
FirstWaits(w, s) == task[w][s].pc = "first" /\ CanWrite(w, s)

\* Goroutines that can run are scheduled and timers fire; writes to a WebSocket
\* return, that is, the connection does not come to the standstill that module
\* BackPressure describes.  Apps and targets do as they please: nothing says that
\* they read.  Dials may fail for ever and connections may last for ever, except
\* that the kernel breaks the WebSockets of a process that has ended.
Fairness ==
  /\ \A c \in Channels : WF_vars(~ReaderWaits(c) /\ HandleChannel(c) /\ OfPool)
  /\ \A s \in Sessions : /\ WF_vars(Forward(s) /\ OfForwarder)
                         /\ WF_vars(RunCloser(s) /\ OfPool)
  /\ \A w \in Sockets : /\ WF_vars(~LoopWaits(w) /\ HandleWebSocket(w) /\ OfServer)
                        /\ WF_vars(crashed /\ Break(w) /\ OfNetwork)
  /\ \A w \in Sockets, s \in Sessions :
       WF_vars(~FirstWaits(w, s) /\ HandleTCPConnection(w, s) /\ OfServer)

FairSpec == Spec /\ Fairness

-----------------------------------------------------------------------------
(* Where the request to dial a session's target is *)

Waiting(s) == connInfo[s] # NoInfo
Writing(s, c) == handler[c].pc = "write" /\ handler[c].sess = s
InFlight(s, w, i) == toServer[w][i].type = "TCP" /\ toServer[w][i].sess = s
Started(s, w) == task[w][s].pc # "none"

Positions(w) == 1 .. Len(toServer[w])

RequestOnce(s) ==
  /\ fwd[s].pc = "idle" => ~Waiting(s)
  /\ \A c \in Channels : Writing(s, c) =>
       /\ fwd[s].pc # "idle"
       /\ ~Waiting(s)
       /\ \A d \in Channels : Writing(s, d) => c = d
  /\ \A w \in Sockets : \A i \in Positions(w) : InFlight(s, w, i) =>
       /\ fwd[s].pc # "idle"
       /\ ~Waiting(s)
       /\ \A c \in Channels : ~Writing(s, c)
       /\ \A v \in Sockets : \A j \in Positions(v) :
            InFlight(s, v, j) => v = w /\ j = i
  /\ \A w \in Sockets : Started(s, w) =>
       /\ fwd[s].pc # "idle"
       /\ ~Waiting(s)
       /\ \A c \in Channels : ~Writing(s, c)
       /\ \A v \in Sockets : /\ Started(s, v) => v = w
                             /\ \A j \in Positions(v) : ~InFlight(s, v, j)

\* The request of a session is in one place only: in connInfo while channels
\* race for it, with the winner, in one stream once, or at the server.  A
\* second CLAIM_ACK, however late, can therefore never dial the target again,
\* although CLOSE and the abort of a failed write clear channelMap again
\* (pool.go 329-374, 388-398).
OneRequest == \A s \in Sessions : RequestOnce(s)

\* The server starts to dial a target only for a session none of its
\* connections ever started (websocket_server.go 389-405 starts a goroutine
\* for every TCP message without looking at conns).
DialledOnce ==
  [][\A s \in Sessions, w \in Sockets :
       (task'[w][s] # task[w][s] /\ task'[w][s].pc = "dial")
         => \A v \in Sockets : ~Started(s, v)]_vars

-----------------------------------------------------------------------------
(* Routing and ownership *)

\* Everything the server says of a session comes on the channel the session is
\* bound to, until it is forgotten.  (A CLOSE deletes the boundByChannel entry of
\* the channel it came on, pool.go 398, even when a later session of that channel
\* has replaced the entry: the map says which session was bound last, if any.)
OnBoundChannel ==
  \A c \in Channels :
    LET q == toClient[Current(c)] IN
    wsConns[c] # 0 => \A i \in 1 .. Len(q) :
      q[i].type # "CLAIM_ACK" => channelMap[q[i].sess] \in {c, NoChannel}

\* A session that boundByChannel names is routed over that channel: whatever
\* order sessions win, fail and close in, the two maps never disagree
\* (pool.go 353-354, 368-369, 396-398).
BoundAgrees ==
  \A c \in Channels : boundByChannel[c] # NoSession => channelMap[boundByChannel[c]] = c

\* A local connection is closed before the pool forgets it: no path out of
\* tcpMap (abort, CLOSE, failed local write, deferred delete) leaks it.
ForgottenIsClosed ==
  \A s \in Sessions : fwd[s].pc # "idle" /\ s \notin tcpMap => conn[s] = "closed"

\* An app is told of success, and its payload relayed, only after the server
\* has connected to the target and written the first frame: CONNECTED is
\* never sent early, lost signals are never made up (websocket_server.go
\* 468-482, pool.go 375-385, 195-209).
EstablishedIsReal ==
  \A s \in Sessions :
    \/ fwd[s].pc \in {"reply", "relay", "send", "close"}
    \/ connected[s] = "full"
    => \E w \in Sockets : /\ task[w][s].pc \in {"pump", "ended"}
                          /\ tconn[w][s] # "none"
                          /\ task[w][s].first = 1 => targetGot[s] # << >>

\* DATA and CLOSE only travel on the connection that carried the session's TCP
\* message, behind it.  Holds while no channel is redialled.
OnOwnConnection ==
  \A w \in Sockets : \A i \in Positions(w) :
    LET m == toServer[w][i] IN
    m.type \in {"DATA", "CLOSE"} => Started(m.sess, w)

\* claimTimes has an entry whenever the claim loop is about to use one: the
\* client never panics (pool.go 93).  Holds with one channel.
NoPanic == ~crashed

-----------------------------------------------------------------------------
(* Payload *)

\* What an app got without the proxy's reply, of which it gets one at most
Replies(got) == {i \in DOMAIN got : got[i] \in {SuccessReply, FailureReply}}
Payload(got) ==
  IF Replies(got) = {} THEN got
  ELSE LET r == CHOOSE i \in Replies(got) : TRUE IN
       [i \in 1 .. Len(got) - 1 |-> IF i < r THEN got[i] ELSE got[i + 1]]

\* When CLOSE ends a session whose app has not hung up, the app has received
\* every unit the target sent: CLOSE never overtakes DATA, and no unit was
\* refused on the way (websocket_server.go 484-529, pool.go 258-282, 388-400).
CloseLosesNothing ==
  [][\A s \in Sessions :
       (conn[s] = "open" /\ conn'[s] = "closed" /\ UNCHANGED <<fwd, crashed>>)
         => Len(Payload(appGot[s])) = targetSent[s]]_vars

\* A SOCKS5 or CONNECT client reads the reply before any payload: what
\* README.md 177-180 says of CONNECT.  Does not hold.
ReplyFirst ==
  \A s \in Sessions :
    (fwd[s].kind \in {"socks5", "connect"} /\ appGot[s] # << >>)
      => Head(appGot[s]) \in {SuccessReply, FailureReply}

\* The abstract relay of a session, from this specification's variables
AppEnd(s) == IF conn[s] = "eof" THEN "open" ELSE conn[s]
TargetEnd(s) ==
  IF \E w \in Sockets : tconn[w][s] \in {"open", "eof", "reset"} THEN "open"
  ELSE IF \E w \in Sockets : tconn[w][s] = "closed" THEN "closed" ELSE "none"
Session(s) == INSTANCE Relay WITH app <- AppEnd(s), target <- TargetEnd(s),
                                  up <- appSent[s], down <- targetSent[s],
                                  upGot <- targetGot[s], downGot <- Payload(appGot[s])

\* Every session of the tunnel is a Relay: its target is dialled once at most
\* and both directions deliver prefixes in order, across reconnections,
\* timeouts, aborts and a crash of the client.  (This is Session(s)!Spec for
\* every s, its boxes joined into one.)
ImplementsRelay ==
  /\ \A s \in Sessions : Session(s)!Init
  /\ [][\A s \in Sessions : Session(s)!Next \/ UNCHANGED Session(s)!vars]_vars

-----------------------------------------------------------------------------
(* Liveness *)

Released(w, s) == tconn[w][s] \notin {"open", "eof", "reset"}

\* A session that was relayed and ends is released at the server, even when
\* its CLOSE is lost or goes to a connection that does not know it; unless the read
\* loop of its connection waits for ever for some target to read.
RelayIsReleased ==
  \A s \in Sessions, w \in Sockets :
    (fwd[s].pc = "close") ~> (Released(w, s) \/ []LoopWaits(w))

\* When a connection breaks, the server's goroutines for it end and their
\* target connections are closed, one still dialling included; unless a write to
\* a target waits for ever, in the read loop, which then never sees the break, or
\* of the first frame.
BrokenIsCleaned ==
  \A w \in Sockets :
    (link[w] = "broken") ~>
      \/ \A s \in Sessions :
           task[w][s].pc = "none" \/ (task[w][s].pc = "ended" /\ tconn[w][s] \in {"none", "closed"})
      \/ []LoopWaits(w)
      \/ \E s \in Sessions : []FirstWaits(w, s)

\* A target that hangs up is noticed at the other end: the local connection is
\* closed, unless the WebSocket breaks first or the client's read loop waits for
\* ever for some app to read.  (A target that hangs up before it has read its first
\* frame is noticed too: nothing says CONNECTED, and the wait for it times out.)
HangupReachesApp ==
  \A s \in Sessions, w \in Sockets :
    (tconn[w][s] = "eof")
      ~> (conn[s] = "closed" \/ link[w] # "open" \/ []ReaderWaits(w[1]))

\* A relayed session leaves nothing in the routing maps: the server echoes
\* CLOSE, which is what cleans channelMap and, for tcp, tcpMap; unless the
\* server's read loop waits for ever, or the client's does for another session's
\* app (its own app's connection is closed by then).
MapsAreCleaned ==
  \A s \in Sessions, w \in Sockets :
    (fwd[s].pc = "shut" /\ Started(s, w))
      ~> \/ channelMap[s] = NoChannel /\ s \notin tcpMap
         \/ link[w] # "open"
         \/ []LoopWaits(w)
         \/ [](ReaderWaits(w[1]) /\ Incoming(w[1]).sess # s)

\* A session whose channel has reconnected goes on over some connection, or
\* its app is told: what README.md 128 says of a channel that disconnects.
\* Does not hold.
ReconnectRestores ==
  \A s \in Sessions, w \in Sockets :
    (fwd[s].pc = "relay" /\ Started(s, w) /\ wsConns[w[1]] > w[2])
      ~> \/ conn[s] = "closed"
         \/ \E v \in Sockets : s \in conns[v]
         \/ \E e \in Epochs : wsConns[w[1]] = e /\ link[<<w[1], e>>] # "open"
=============================================================================
