--------------------------- MODULE RoutingProofs ----------------------------
(***************************************************************************)
(* Routing and ownership, for any number of sessions, channels and         *)
(* connections: what is said of a session travels on its channel, the two  *)
(* routing maps agree, success is not made up, local connections are not   *)
(* leaked.                                                                 *)
(*                                                                         *)
(* The arguments are about causes.  A message in a stream was written by   *)
(* somebody who had a reason, a session that is started was asked for, and *)
(* so on back to Register.  The first half of the module says who can      *)
(* cause what (UpNews, DownNews, Won, StartedNews ...); the second half    *)
(* combines these facts and hardly looks at an action again.               *)
(***************************************************************************)
EXTENDS RequestProofs

\* The messages of a stream, without their order
Held(q) == {q[i] : i \in 1 .. Len(q)}
Up(w) == Held(toServer[w])
Down(w) == Held(toClient[w])

-----------------------------------------------------------------------------
(* Streams as sets of messages *)

\* Writing adds one message.
LEMMA HeldAppend ==
  ASSUME NEW q \in Seq(Messages), NEW m \in Messages
  PROVE  Held(Append(q, m)) = Held(q) \cup {m}
<1>1. /\ Len(Append(q, m)) = Len(q) + 1
      /\ \A i \in 1 .. Len(q) : Append(q, m)[i] = q[i]
      /\ Append(q, m)[Len(q) + 1] = m
      /\ Len(q) \in Nat
  BY AppendProperties, LenProperties
<1> QED BY <1>1 DEF Held

\* Reading removes messages only, and what is read was there.
LEMMA HeldTail ==
  ASSUME NEW q \in Seq(Messages), q # << >>
  PROVE  Held(Tail(q)) \subseteq Held(q) /\ Head(q) \in Held(q)
<1>1. /\ Len(Tail(q)) = Len(q) - 1
      /\ \A i \in 1 .. Len(q) - 1 : Tail(q)[i] = q[i + 1]
      /\ Head(q) = q[1]
      /\ Len(q) \in Nat /\ Len(q) # 0
  BY HeadTailProperties, LenProperties, EmptySeq
<1> QED BY <1>1 DEF Held

\* So does a break, which keeps a prefix.
LEMMA HeldPrefix ==
  ASSUME NEW q \in Seq(Messages), NEW n \in 0 .. Len(q)
  PROVE  Held(SubSeq(q, 1, n)) \subseteq Held(q)
<1>1. /\ Len(SubSeq(q, 1, n)) = n
      /\ \A i \in 1 .. n : SubSeq(q, 1, n)[i] = q[i]
      /\ Len(q) \in Nat
  BY SubSeqProperties, LenProperties
<1> QED BY <1>1 DEF Held

\* The same for the streams of all connections: the only news is what was
\* written, where it was written.
LEMMA HeldAfter ==
  ASSUME NEW q \in Queues, NEW w, NEW m \in Messages, NEW ok,
         NEW v \in Sockets, NEW x \in Held(After(q, w, m, ok)[v]), x \notin Held(q[v])
  PROVE  v = w /\ x = m
<1>1. After(q, w, m, ok) # q
  OBVIOUS
<1>2. After(q, w, m, ok) = [q EXCEPT ![w] = Append(@, m)]
  BY <1>1 DEF After
<1>3. v = w
  BY <1>2 DEF Queues
<1>4. After(q, w, m, ok)[v] = Append(q[v], m) /\ q[v] \in Seq(Messages)
  BY <1>2, <1>3 DEF Queues
<1>5. Held(Append(q[v], m)) = Held(q[v]) \cup {m}
  BY <1>4, HeldAppend
<1>6. x \in Held(q[v]) \cup {m}
  BY <1>4, <1>5
<1> QED BY <1>2, <1>3, <1>6

\* Reading one stream adds nothing to any.
LEMMA HeldRead ==
  ASSUME NEW q \in Queues, NEW w \in Sockets, q[w] # << >>, NEW v \in Sockets
  PROVE  Held([q EXCEPT ![w] = Tail(@)][v]) \subseteq Held(q[v])
<1>1. q[v] \in Seq(Messages)
  BY DEF Queues
<1>2. CASE v = w
  BY <1>1, <1>2, HeldTail DEF Queues
<1>3. CASE v # w
  BY <1>3 DEF Queues
<1> QED BY <1>2, <1>3

\* Breaking one connection adds nothing to any stream.
LEMMA HeldBroken ==
  ASSUME NEW q \in Queues, NEW w \in Sockets, NEW n \in 0 .. Len(q[w]), NEW v \in Sockets
  PROVE  Held([q EXCEPT ![w] = SubSeq(@, 1, n)][v]) \subseteq Held(q[v])
<1>1. q[v] \in Seq(Messages)
  BY DEF Queues
<1>2. CASE v = w
  BY <1>1, <1>2, HeldPrefix DEF Queues
<1>3. CASE v # w
  BY <1>3 DEF Queues
<1> QED BY <1>2, <1>3

\* The streams, by their type.
LEMMA StreamTypes ==
  ASSUME TypeInv
  PROVE  /\ toServer \in Queues /\ toClient \in Queues
         /\ \A w \in Sockets : Up(w) \subseteq Messages /\ Down(w) \subseteq Messages
<1>1. toServer \in Queues /\ toClient \in Queues
  BY DEF TypeInv, TypeOK, WireTypeOK, Queues
<1>2. ASSUME NEW q \in Seq(Messages) PROVE Held(q) \subseteq Messages
  BY LenProperties, ElementOfSeq DEF Held
<1> QED BY <1>1, <1>2 DEF Queues, Up, Down

\* What is read was in the stream.
LEMMA IncomingHeld ==
  ASSUME TypeInv, NEW c \in Channels, NEW t, Reads(c, t)
  PROVE  /\ Current(c) \in Sockets
         /\ Incoming(c) \in Down(Current(c))
         /\ Incoming(c).type = t
         /\ Incoming(c).sess \in Sessions
<1>1. Current(c) \in Sockets
  BY SocketType DEF Reads, TypeInv, Pointers
<1>2. toClient[Current(c)] \in Seq(Messages) /\ toClient[Current(c)] # << >>
  BY <1>1 DEF TypeInv, TypeOK, WireTypeOK, Reads
<1> QED BY <1>1, <1>2, HeldTail, Reading DEF Incoming, Down, Reads

\* The request the server reads is in its stream.
LEMMA RequestHeld ==
  ASSUME TypeInv, NEW w \in Sockets, NEW t, Serves(w, t)
  PROVE  Request(w) \in Up(w) /\ Request(w).type = t /\ Request(w).sess \in Sessions
<1>1. toServer[w] \in Seq(Messages) /\ toServer[w] # << >>
  BY DEF TypeInv, TypeOK, WireTypeOK, Serves
<1> QED BY <1>1, HeldTail, Serving DEF Request, Up

-----------------------------------------------------------------------------
(* Who writes what *)

\* What the definitions say of the next state, for the provers.
LEMMA PrimedStreams ==
  ASSUME NEW w
  PROVE  Up(w)' = Held(toServer'[w]) /\ Down(w)' = Held(toClient'[w])
BY DEF Up, Down, Held

\* News in a stream to the server is the message the client has just written.
LEMMA WrittenUp ==
  ASSUME TypeInv, NEW v, NEW x \in Messages, NEW ok, ClientWrite(v, x, ok),
         NEW w \in Sockets, NEW m \in Up(w)', m \notin Up(w)
  PROVE  w = v /\ m = x
<1>1. toServer' = After(toServer, v, x, ok)
  BY DEF ClientWrite
<1>2. m \in Held(After(toServer, v, x, ok)[w]) /\ m \notin Held(toServer[w])
  BY <1>1, PrimedStreams DEF Up
<1>3. toServer \in Queues
  BY StreamTypes
<1> QED BY <1>2, <1>3, HeldAfter

\* News in a stream to the client is the message the server has just written.
LEMMA WrittenDown ==
  ASSUME TypeInv, NEW v, NEW x \in Messages, NEW ok, toClient' = After(toClient, v, x, ok),
         NEW w \in Sockets, NEW m \in Down(w)', m \notin Down(w)
  PROVE  w = v /\ m = x
<1>1. m \in Held(After(toClient, v, x, ok)[w]) /\ m \notin Held(toClient[w])
  BY PrimedStreams DEF Down
<1>2. toClient \in Queues
  BY StreamTypes
<1> QED BY <1>1, <1>2, HeldAfter

\* SendClose writes CLOSE to the current connection of the session's channel.
LEMMA WrittenClose ==
  ASSUME TypeInv, NEW s \in Sessions, SendClose(s),
         NEW w \in Sockets, NEW m \in Up(w)', m \notin Up(w)
  PROVE  m.type = "CLOSE" /\ m.sess = s /\ Routed(s) /\ w = Current(channelMap[s])
<1>1. Msg("CLOSE", s, 0) \in Messages
  BY MsgType DEF Types
<1>2. toServer' # toServer
  BY DEF Up
<1>3. Routed(s) /\ \E ok \in BOOLEAN :
        ClientWrite(Current(channelMap[s]), Msg("CLOSE", s, 0), ok)
  BY <1>2 DEF SendClose, wireVars
<1> QED BY <1>1, <1>3, WrittenUp DEF Msg

\* What a client may have written, and in which step.
LEMMA UpNews ==
  ASSUME TypeInv, [Next]_vars, NEW w \in Sockets, NEW m \in Up(w)', m \notin Up(w)
  PROVE  /\ m.sess \in Sessions
         /\ \/ m.type = "CLAIM" /\ WriteClaim(m.sess)
            \/ m.type = "TCP" /\ \E c \in Channels : /\ WriteTCP(c)
                                                     /\ m.sess = handler[c].sess
                                                     /\ w = Current(c)
            \/ /\ m.type = "DATA" /\ SendLocal(m.sess)
               /\ Routed(m.sess) /\ w = Current(channelMap[m.sess])
            \/ /\ m.type = "CLOSE" /\ (RunCloser(m.sess) \/ DeferredSendClose(m.sess))
               /\ Routed(m.sess) /\ w = Current(channelMap[m.sess])
<1>1. toServer' # toServer
  BY DEF Up
<1>2. CASE \E c \in Channels : WriteTCP(c)
  <2>1. PICK c \in Channels : WriteTCP(c)
    BY <1>2
  <2>2. PICK ok : ClientWrite(Current(c), Msg("TCP", handler[c].sess, handler[c].first), ok)
    BY <2>1 DEF WriteTCP
  <2>3. handler[c].sess \in Sessions /\ handler[c].first \in Nat
    BY <2>1 DEF WriteTCP, TypeInv, TypeOK, Pointers, PoolTypeOK
  <2>4. Msg("TCP", handler[c].sess, handler[c].first) \in Messages
    BY <2>3, MsgType DEF Types
  <2>5. w = Current(c) /\ m = Msg("TCP", handler[c].sess, handler[c].first)
    BY <2>2, <2>4, WrittenUp
  <2> QED BY <2>1, <2>3, <2>5 DEF Msg
<1>3. CASE \E s \in Sessions : WriteClaim(s)
  <2>1. PICK s \in Sessions : WriteClaim(s)
    BY <1>3
  <2>2. PICK ok : ClientWrite(<<fwd[s].ch, fwd[s].ws>>, Msg("CLAIM", s, 0), ok)
    BY <2>1 DEF WriteClaim
  <2>3. Msg("CLAIM", s, 0) \in Messages
    BY MsgType DEF Types
  <2>4. m = Msg("CLAIM", s, 0)
    BY <2>2, <2>3, WrittenUp
  <2> QED BY <2>1, <2>4 DEF Msg
<1>4. CASE \E s \in Sessions : SendLocal(s)
  <2>1. PICK s \in Sessions : SendLocal(s)
    BY <1>4
  <2>2. PICK ok : SendData(s, appSent[s], ok)
    BY <2>1 DEF SendLocal
  <2>3. Routed(s) /\ ClientWrite(Current(channelMap[s]), Msg("DATA", s, appSent[s]), ok)
    BY <1>1, <2>2 DEF SendData, wireVars
  <2>4. appSent[s] \in Nat
    BY MaxUpAssumption DEF TypeInv, TypeOK, ForwarderTypeOK
  <2>5. Msg("DATA", s, appSent[s]) \in Messages
    BY <2>4, MsgType DEF Types
  <2>6. w = Current(channelMap[s]) /\ m = Msg("DATA", s, appSent[s])
    BY <2>3, <2>5, WrittenUp
  <2> QED BY <2>1, <2>3, <2>6 DEF Msg
<1>5. CASE \E s \in Sessions : RunCloser(s) \/ DeferredSendClose(s)
  <2>1. PICK s \in Sessions : RunCloser(s) \/ DeferredSendClose(s)
    BY <1>5
  <2>2. SendClose(s)
    BY <2>1 DEF RunCloser, DeferredSendClose
  <2>3. m.type = "CLOSE" /\ m.sess = s /\ Routed(s) /\ w = Current(channelMap[s])
    BY <2>2, WrittenClose
  <2> QED BY <2>1, <2>3
<1>6. CASE ServerStep
  <2>1. PICK v \in Sockets :
          \/ HandleWebSocket(v)
          \/ \E s \in Sessions : HandleTCPConnection(v, s) \/ PumpData(v, s) \/ TargetHangup(v, s)
    BY <1>6 DEF ServerStep
  <2>2. HandleWebSocket(v)
    BY <1>1, <2>1 DEF HandleTCPConnection, DialTarget, DialTargetFails, WriteFirstFrame,
       WriteFirstFrameFails, Notify, PumpReadError, PumpCancelled, PumpData, TargetHangup,
       TellClient, ServerWrite, wireVars
  <2>3. toServer[v] # << >> /\ toServer' = [toServer EXCEPT ![v] = Tail(@)]
    BY <1>1, <2>2 DEF HandleWebSocket, ServeClaim, ServeTCP, ServeData, ServeDataFails, DropData,
       ServeClose, Cleanup, ConsumeRequest, Serves
  <2> QED BY <2>3, StreamTypes, HeldRead, PrimedStreams DEF Up
<1>7. CASE \E v \in Sockets : Break(v)
  <2>1. PICK v \in Sockets : Break(v)
    BY <1>7
  <2>2. PICK n \in 0 .. Len(toServer[v]) : toServer' = [toServer EXCEPT ![v] = SubSeq(@, 1, n)]
    BY <2>1 DEF Break
  <2> QED BY <2>2, StreamTypes, HeldBroken, PrimedStreams DEF Up
<1>8. CASE PoolStep /\ ~(\E c \in Channels : WriteTCP(c)) /\ ~(\E s \in Sessions : RunCloser(s))
  BY <1>1, <1>8 DEF PoolStep, Dial, HandleChannel, ReadError, WinClaim, IgnoreClaim, AbortTCP,
     ReadConnected, ReadData, ReadDataFails, RejectData, ReadClose, Consume, wireVars
<1>9. CASE /\ ForwarderStep
           /\ ~(\E s \in Sessions : WriteClaim(s) \/ SendLocal(s) \/ DeferredSendClose(s))
  BY <1>1, <1>9 DEF ForwarderStep, Register, Forward, SkipNil, MarkClaim, MarkNil, ClaimsDone,
     Established, Timeout, Refuse, Drop, Reply, ReadLocalError, DeferredShut, ReadLocal,
     AppHangup, wireVars
<1> QED
  BY <1>1, <1>2, <1>3, <1>4, <1>5, <1>6, <1>7, <1>8, <1>9 DEF Next, vars, wireVars

\* TellClient writes CLOSE.
LEMMA WrittenTell ==
  ASSUME TypeInv, NEW v, NEW s \in Sessions, TellClient(v, s),
         NEW w \in Sockets, NEW m \in Down(w)', m \notin Down(w)
  PROVE  w = v /\ m.type = "CLOSE" /\ m.sess = s
<1>1. Msg("CLOSE", s, 0) \in Messages
  BY MsgType DEF Types
<1>2. PICK ok \in BOOLEAN : toClient' = After(toClient, v, Msg("CLOSE", s, 0), ok)
  BY DEF TellClient, ServerWrite
<1>3. w = v /\ m = Msg("CLOSE", s, 0)
  BY <1>1, <1>2, WrittenDown
<1> QED BY <1>3 DEF Msg

\* What a handler of the server may have written, and in which step.
LEMMA DownNews ==
  ASSUME TypeInv, [Next]_vars, NEW w \in Sockets, NEW m \in Down(w)', m \notin Down(w)
  PROVE  /\ m.sess \in Sessions
         /\ \/ m.type = "CLAIM_ACK" /\ ServeClaim(w) /\ m.sess = Request(w).sess
            \/ m.type = "CONNECTED" /\ Notify(w, m.sess)
            \/ m.type = "DATA" /\ PumpData(w, m.sess)
            \/ /\ m.type = "CLOSE"
               /\ \/ DialTargetFails(w, m.sess)
                  \/ WriteFirstFrameFails(w, m.sess)
                  \/ PumpReadError(w, m.sess)
<1>1. toClient' # toClient
  BY DEF Down
<1>2. CASE ServerStep
  <2>1. PICK v \in Sockets :
          \/ HandleWebSocket(v)
          \/ \E s \in Sessions : HandleTCPConnection(v, s) \/ PumpData(v, s) \/ TargetHangup(v, s)
    BY <1>2 DEF ServerStep
  <2>2. CASE HandleWebSocket(v)
    <3>1. ServeClaim(v)
      BY <1>1, <2>2 DEF HandleWebSocket, ServeTCP, ServeData, ServeDataFails, DropData,
         ServeClose, Cleanup, ConsumeRequest
    <3>2. Request(v).sess \in Sessions
      BY <3>1, Serving DEF ServeClaim
    <3>3. /\ Msg("CLAIM_ACK", Request(v).sess, 0) \in Messages
          /\ toClient' = After(toClient, v, Msg("CLAIM_ACK", Request(v).sess, 0), TRUE)
      BY <3>1, <3>2, MsgType DEF Types, ServeClaim
    <3>4. w = v /\ m = Msg("CLAIM_ACK", Request(v).sess, 0)
      BY <3>3, WrittenDown
    <3> QED BY <3>1, <3>2, <3>4 DEF Msg
  <2>3. ASSUME NEW s \in Sessions, Notify(v, s)
        PROVE  m.type = "CONNECTED" /\ Notify(w, m.sess) /\ m.sess \in Sessions
    <3>1. PICK ok \in BOOLEAN : toClient' = After(toClient, v, Msg("CONNECTED", s, 0), ok)
      BY <2>3 DEF Notify, ServerWrite
    <3>2. Msg("CONNECTED", s, 0) \in Messages
      BY MsgType DEF Types
    <3>3. w = v /\ m = Msg("CONNECTED", s, 0)
      BY <3>1, <3>2, WrittenDown
    <3>4. m.type = "CONNECTED" /\ m.sess = s
      BY <3>3 DEF Msg
    <3> QED BY <2>3, <3>3, <3>4
  <2>4. ASSUME NEW s \in Sessions, PumpData(v, s)
        PROVE  m.type = "DATA" /\ PumpData(w, m.sess) /\ m.sess \in Sessions
    <3>1. PICK ok \in BOOLEAN : toClient' = After(toClient, v, Msg("DATA", s, targetSent[s] + 1), ok)
      BY <2>4 DEF PumpData, ServerWrite
    <3>2. targetSent[s] + 1 \in Nat
      BY MaxDownAssumption DEF TypeInv, TypeOK, ServerTypeOK
    <3>3. Msg("DATA", s, targetSent[s] + 1) \in Messages
      BY <3>2, MsgType DEF Types
    <3>4. w = v /\ m = Msg("DATA", s, targetSent[s] + 1)
      BY <3>1, <3>3, WrittenDown
    <3>5. m.type = "DATA" /\ m.sess = s
      BY <3>4 DEF Msg
    <3> QED BY <2>4, <3>4, <3>5
  <2>5. ASSUME NEW s \in Sessions,
               DialTargetFails(v, s) \/ WriteFirstFrameFails(v, s) \/ PumpReadError(v, s)
        PROVE  /\ m.type = "CLOSE" /\ m.sess \in Sessions
               /\ \/ DialTargetFails(w, m.sess)
                  \/ WriteFirstFrameFails(w, m.sess)
                  \/ PumpReadError(w, m.sess)
    <3>1. TellClient(v, s)
      BY <2>5 DEF DialTargetFails, WriteFirstFrameFails, PumpReadError
    <3>2. w = v /\ m.type = "CLOSE" /\ m.sess = s
      BY <3>1, WrittenTell
    <3> QED BY <2>5, <3>2
  <2>6. CASE \E s \in Sessions : HandleTCPConnection(v, s) \/ PumpData(v, s) \/ TargetHangup(v, s)
    <3>1. PICK s \in Sessions : HandleTCPConnection(v, s) \/ PumpData(v, s) \/ TargetHangup(v, s)
      BY <2>6
    <3>2. \/ Notify(v, s) \/ PumpData(v, s)
          \/ DialTargetFails(v, s) \/ WriteFirstFrameFails(v, s) \/ PumpReadError(v, s)
      BY <1>1, <3>1 DEF HandleTCPConnection, DialTarget, WriteFirstFrame, PumpCancelled,
         TargetHangup, wireVars
    <3> QED BY <2>3, <2>4, <2>5, <3>2
  <2> QED BY <2>1, <2>2, <2>6
<1>3. CASE PoolStep
  <2>1. \A c \in Channels : ~WriteTCP(c)
    BY <1>1 DEF WriteTCP, ClientWrite
  <2>2. \A s \in Sessions : ~RunCloser(s)
    BY <1>1 DEF RunCloser, SendClose, ClientWrite, wireVars
  <2>3. PICK c \in Channels : Dial(c) \/ HandleChannel(c)
    BY <1>3, <2>2 DEF PoolStep
  <2>4. toClient[Current(c)] # << >> /\ toClient' = [toClient EXCEPT ![Current(c)] = Tail(@)]
    BY <1>1, <2>1, <2>3 DEF Dial, HandleChannel, ReadError, WinClaim, IgnoreClaim, AbortTCP,
       ReadConnected, ReadData, ReadDataFails, RejectData, ReadClose, Reads, Consume, wireVars
  <2>5. Current(c) \in Sockets
    <3>1. handler[c].pc # "dial"
      BY <1>1, <2>1, <2>3 DEF Dial, HandleChannel, ReadError, WinClaim, IgnoreClaim, AbortTCP,
         ReadConnected, ReadData, ReadDataFails, RejectData, ReadClose, Reads, wireVars
    <3> QED BY <3>1, SocketType DEF TypeInv, Pointers
  <2>6. Held(toClient'[w]) \subseteq Held(toClient[w])
    BY <2>4, <2>5, StreamTypes, HeldRead
  <2> QED BY <2>6, PrimedStreams DEF Down
<1>4. CASE \E v \in Sockets : Break(v)
  <2>1. PICK v \in Sockets : Break(v)
    BY <1>4
  <2>2. PICK n \in 0 .. Len(toClient[v]) : toClient' = [toClient EXCEPT ![v] = SubSeq(@, 1, n)]
    BY <2>1 DEF Break
  <2> QED BY <2>2, StreamTypes, HeldBroken, PrimedStreams DEF Down
<1>5. CASE ForwarderStep
  BY <1>1, <1>5 DEF ForwarderStep, Register, Forward, SkipNil, MarkClaim, MarkNil, ClaimsDone,
     Established, Timeout, Refuse, Drop, Reply, ReadLocalError, DeferredShut, ReadLocal,
     AppHangup, WriteClaim, SendLocal, SendData, DeferredSendClose, SendClose, ClientWrite, wireVars
<1> QED
  BY <1>1, <1>2, <1>3, <1>4, <1>5 DEF Next, vars, wireVars

-----------------------------------------------------------------------------
(* Who asks for a session, and what becomes of the request *)

\* The goroutine of channel c has won the race for s and asks for its target,
\* or gives up.
Busy(s, c) == handler[c].pc \in {"write", "abort"} /\ handler[c].sess = s

InStream(s, w) == \E m \in Up(w) : m.type = "TCP" /\ m.sess = s

Wins(s, c) == WinClaim(c) /\ Incoming(c).sess = s

\* What a step of the client does to a session that no channel wins in it.
Waits(s) ==
  /\ channelMap'[s] \in {channelMap[s], NoChannel}
  /\ Waiting(s)' => Waiting(s) \/ fwd[s].pc = "idle"
  /\ \A c \in Channels : Busy(s, c)' => Busy(s, c)

\* The goroutines of the channels change the race for s by winning it only.
LEMMA PoolWaits ==
  ASSUME TypeInv, PoolStep, NEW s \in Sessions, \A c \in Channels : ~Wins(s, c)
  PROVE  Waits(s)
<1>1. CASE \E c \in Channels : WinClaim(c)
  <2>1. PICK c \in Channels : WinClaim(c)
    BY <1>1
  <2>2. Incoming(c).sess # s
    BY <2>1 DEF Wins
  <2>3. Incoming(c).sess \in Sessions
    BY <2>1, Reading DEF WinClaim
  <2> HIDE DEF Incoming
  <2>4. /\ channelMap'[s] = channelMap[s]
        /\ connInfo'[s] = connInfo[s]
        /\ handler'[c].sess = Incoming(c).sess
        /\ \A d \in Channels \ {c} : handler'[d] = handler[d]
    BY <2>1, <2>2, <2>3 DEF WinClaim, Bind, TypeInv, TypeOK, PoolTypeOK
  <2> QED BY <2>2, <2>4 DEF Waits, Waiting, Busy
<1>2. CASE \E c \in Channels : AbortTCP(c) \/ ReadClose(c)
  <2>1. PICK c \in Channels : AbortTCP(c) \/ ReadClose(c)
    BY <1>2
  <2>2. PICK t \in Sessions : Forget(t, c)
    BY <2>1, Reading DEF AbortTCP, ReadClose, TypeInv, Pointers
  <2>3. UNCHANGED handler \/ handler' = [handler EXCEPT ![c] = Idle("read")]
    BY <2>1 DEF AbortTCP, ReadClose
  <2>4. /\ channelMap'[s] \in {channelMap[s], NoChannel}
        /\ connInfo'[s] \in {connInfo[s], NoInfo}
    BY <2>2 DEF Forget, TypeInv, TypeOK, PoolTypeOK
  <2>5. \A d \in Channels : handler'[d] = handler[d] \/ handler'[d].pc = "read"
    BY <2>3 DEF Idle, TypeInv, TypeOK, PoolTypeOK
  <2> QED BY <2>4, <2>5 DEF Waits, Waiting, Busy
<1>3. CASE \E c \in Channels : WriteTCP(c)
  <2>1. PICK c \in Channels : WriteTCP(c)
    BY <1>3
  <2>2. /\ UNCHANGED <<channelMap, connInfo>>
        /\ handler[c].pc = "write"
        /\ \E ok \in BOOLEAN : handler' = [handler EXCEPT ![c] = IF ok THEN Idle("read")
                                                               ELSE [@ EXCEPT !.pc = "abort"]]
    BY <2>1 DEF WriteTCP
  <2> QED
    BY <2>2 DEF Waits, Waiting, Busy, Idle, TypeInv, TypeOK, PoolTypeOK
<1>4. CASE \E c \in Channels : Dial(c) \/ ReadError(c)
  BY <1>4 DEF Dial, ReadError, Waits, Waiting, Busy, Idle, TypeInv, TypeOK, PoolTypeOK
<1>5. CASE \/ \E c \in Channels : \/ IgnoreClaim(c) \/ ReadConnected(c) \/ ReadData(c)
                                  \/ ReadDataFails(c) \/ RejectData(c)
           \/ \E t \in Sessions : RunCloser(t)
  BY <1>5 DEF IgnoreClaim, ReadConnected, ReadData, ReadDataFails, RejectData, RunCloser,
     poolVars, Waits, Waiting, Busy
<1> QED BY <1>1, <1>2, <1>3, <1>4, <1>5 DEF PoolStep, HandleChannel

\* The goroutine of a session enters it in the race when it registers, and
\* leaves the routing alone.
LEMMA ForwarderWaits ==
  ASSUME TypeInv, ForwarderStep, NEW s \in Sessions
  PROVE  Waits(s) /\ (Waiting(s)' /\ ~Waiting(s) => fwd'[s].pc = "mark" /\ fwd'[s].ch = 0)
<1>1. CASE \E t \in Sessions, kind \in Kinds, first \in {0, 1} : Register(t, kind, first)
  <2>1. PICK t \in Sessions, kind \in Kinds, first \in {0, 1} : Register(t, kind, first)
    BY <1>1
  <2>2. /\ UNCHANGED <<handler, channelMap>>
        /\ connInfo' = [connInfo EXCEPT ![t] = first]
        /\ fwd' = [fwd EXCEPT ![t] = [pc |-> "mark", kind |-> kind, ch |-> 0, ws |-> 0]]
        /\ fwd[t].pc = "idle"
    BY <2>1 DEF Register, RegisterSession, At
  <2> QED BY <2>2 DEF Waits, Waiting, Busy, TypeInv, TypeOK, PoolTypeOK, ForwarderTypeOK
<1>2. CASE \E t \in Sessions : Forward(t) \/ ReadLocal(t) \/ AppHangup(t)
  <2>1. UNCHANGED <<handler, channelMap, connInfo>>
    BY <1>2 DEF Forward, SkipNil, MarkClaim, MarkNil, ClaimsDone, Established, Timeout, Refuse,
       Drop, Reply, ReadLocalError, DeferredShut, ReadLocal, AppHangup, WriteClaim, SendLocal,
       DeferredSendClose, poolVars
  <2> QED BY <2>1 DEF Waits, Waiting, Busy
<1> QED BY <1>1, <1>2 DEF ForwarderStep

\* The same for every step.
LEMMA StepWaits ==
  ASSUME TypeInv, [Next]_vars, NEW s \in Sessions, \A c \in Channels : ~Wins(s, c)
  PROVE  Waits(s)
<1>1. CASE PoolStep
  BY <1>1, PoolWaits
<1>2. CASE ForwarderStep
  BY <1>2, ForwarderWaits
<1>3. CASE UNCHANGED poolVars
  BY <1>3 DEF poolVars, Waits, Waiting, Busy
<1> QED BY <1>1, <1>2, <1>3 DEF Next, OfServer, OfNetwork, vars

\* The step in which a channel wins.
LEMMA Won ==
  ASSUME TypeInv, [Next]_vars, NEW s \in Sessions, NEW c \in Channels, Wins(s, c)
  PROVE  /\ channelMap[s] = NoChannel /\ channelMap'[s] = c
         /\ Waiting(s) /\ ~Waiting(s)'
         /\ \A d \in Channels \ {c} : Busy(s, d)' => Busy(s, d)
         /\ UNCHANGED <<fwd, task, toServer>>
<1>1. s \in Sessions /\ Incoming(c).sess = s /\ Reads(c, "CLAIM_ACK") /\ MayWin(s)
  BY DEF Wins, WinClaim
<1>2. /\ channelMap' = [channelMap EXCEPT ![s] = c]
      /\ connInfo' = [connInfo EXCEPT ![s] = NoInfo]
      /\ handler' = [handler EXCEPT ![c] = [pc |-> "write", sess |-> s, first |-> connInfo[s]]]
      /\ UNCHANGED toServer
  BY DEF Wins, WinClaim, Bind, Consume
<1>3. /\ channelMap[s] = NoChannel /\ channelMap'[s] = c
      /\ Waiting(s) /\ ~Waiting(s)'
      /\ \A d \in Channels \ {c} : handler'[d] = handler[d]
  BY <1>1, <1>2 DEF MayWin, Waiting, TypeInv, TypeOK, PoolTypeOK
<1>4. channelMap' # channelMap
  BY <1>3 DEF Channels, NoChannel
<1>5. ~ForwarderStep
  BY <1>4 DEF ForwarderStep, Register, Forward, SkipNil, MarkClaim, MarkNil, ClaimsDone, Established,
     Timeout, Refuse, Drop, Reply, ReadLocalError, DeferredShut, ReadLocal, AppHangup, WriteClaim,
     SendLocal, DeferredSendClose, poolVars
<1>6. OfPool
  BY <1>4, <1>5 DEF Next, OfServer, OfNetwork, poolVars, vars
<1> QED BY <1>2, <1>3, <1>6 DEF Busy, OfPool, forwarderVars, serverVars

-----------------------------------------------------------------------------
(* The server starts what it is asked for, once *)

\* A task that has been started is remembered.
LEMMA StartedStays ==
  ASSUME TypeInv, [Next]_vars, NEW s \in Sessions, NEW w \in Sockets, Started(s, w)
  PROVE  Started(s, w)'
<1>1. CASE UNCHANGED task
  BY <1>1 DEF Started
<1>2. CASE ServerStep
  <2>1. PICK v \in Sockets :
          \/ HandleWebSocket(v)
          \/ \E t \in Sessions : HandleTCPConnection(v, t) \/ PumpData(v, t) \/ TargetHangup(v, t)
    BY <1>2 DEF ServerStep
  <2>2. CASE UNCHANGED task
    BY <2>2 DEF Started
  <2>3. CASE ServeTCP(v)
    <3>1. Request(v).sess \in Sessions
      BY <2>3, Serving DEF ServeTCP
    <3> QED BY <2>3, <3>1 DEF ServeTCP, Started, TypeInv, TypeOK, ServerTypeOK
  <2>4. ASSUME NEW t \in Sessions, NEW pc \in TaskStates \ {"none"}, SetTask(v, t, pc)
        PROVE  Started(s, w)'
    BY <2>4 DEF SetTask, Started, TypeInv, TypeOK, ServerTypeOK, TaskStates
  <2>5. CASE \E t \in Sessions : HandleTCPConnection(v, t) \/ PumpData(v, t) \/ TargetHangup(v, t)
    <3>1. UNCHANGED task \/ \E t \in Sessions, pc \in TaskStates \ {"none"} : SetTask(v, t, pc)
      BY <2>5 DEF HandleTCPConnection, DialTarget, DialTargetFails, AfterDial, WriteFirstFrame,
         WriteFirstFrameFails, Notify, PumpReadError, PumpCancelled, End, TaskStates, PumpData,
         TargetHangup
    <3> QED BY <2>2, <2>4, <3>1
  <2>6. CASE HandleWebSocket(v) /\ ~ServeTCP(v)
    BY <2>2, <2>6 DEF HandleWebSocket, ServeClaim, ServeData, ServeDataFails, DropData, ServeClose,
       Cleanup, serverVars
  <2> QED BY <2>1, <2>3, <2>5, <2>6
<1> QED BY <1>1, <1>2 DEF Next, OfPool, OfForwarder, OfNetwork, vars, serverVars

\* A goroutine for s is started by a TCP message that was in the stream.
LEMMA StartedNews ==
  ASSUME TypeInv, [Next]_vars, NEW s \in Sessions, NEW w \in Sockets,
         Started(s, w)', ~Started(s, w)
  PROVE  InStream(s, w) /\ ServeTCP(w) /\ Request(w).sess = s
<1>1. task' # task
  BY DEF Started
<1>2. ServerStep
  BY <1>1 DEF Next, OfPool, OfForwarder, OfNetwork, vars, serverVars
<1>3. PICK v \in Sockets :
        \/ HandleWebSocket(v)
        \/ \E t \in Sessions : HandleTCPConnection(v, t) \/ PumpData(v, t) \/ TargetHangup(v, t)
  BY <1>2 DEF ServerStep
<1>4. HandleWebSocket(v)
  BY <1>3, TaskFades DEF ServerFades
<1>5. ServeTCP(v)
  BY <1>1, <1>4 DEF HandleWebSocket, ServeClaim, ServeData, ServeDataFails, DropData, ServeClose,
     Cleanup, serverVars
<1>6. Request(v).sess \in Sessions /\ Request(v) \in Up(v) /\ Request(v).type = "TCP"
  BY <1>5, RequestHeld DEF ServeTCP
<1>7. v = w /\ Request(v).sess = s
  BY <1>5, <1>6 DEF ServeTCP, Started, TypeInv, TypeOK, ServerTypeOK
<1> QED BY <1>5, <1>6, <1>7 DEF InStream

\* A session never returns to the state before Register.
LEMMA NeverIdleAgain ==
  ASSUME TypeInv, [Next]_vars, NEW s \in Sessions, fwd[s].pc # "idle"
  PROVE  fwd'[s].pc # "idle"
<1>1. CASE UNCHANGED fwd
  BY <1>1
<1>2. CASE \E t \in Sessions : Forward(t) \/ ReadLocal(t) \/ AppHangup(t)
  BY <1>2, ForwarderFades DEF ClientFades
<1>3. CASE \E t \in Sessions, kind \in Kinds, first \in {0, 1} : Register(t, kind, first)
  BY <1>3 DEF Register, TypeInv, TypeOK, ForwarderTypeOK
<1> QED
  BY <1>1, <1>2, <1>3 DEF Next, ForwarderStep, OfPool, OfServer, OfNetwork, vars, forwarderVars

-----------------------------------------------------------------------------
(* The channel of a session *)

\* The target of s has been asked for over channel c.
Asked(s, c) ==
  \/ Busy(s, c)
  \/ \E w \in Sockets : w[1] = c /\ (InStream(s, w) \/ Started(s, w))

\* Then no channel can win it any more, and it is routed over c or nowhere.
OneChannel(s) ==
  \A c \in Channels : Asked(s, c) =>
    /\ channelMap[s] \in {c, NoChannel}
    /\ ~Waiting(s)
    /\ fwd[s].pc # "idle"

\* The server speaks only of sessions it was asked for, on that connection.
Spoken == \A w \in Sockets : \A m \in Down(w) : m.type # "CLAIM_ACK" => Started(m.sess, w)

RoutingInv ==
  /\ Inv
  /\ \A s \in Sessions : OneChannel(s)
  /\ Spoken
  /\ BoundAgrees

\* A request is with the channel that won it, from then on.
LEMMA AskedNews ==
  ASSUME TypeInv, [Next]_vars, NEW s \in Sessions, NEW c \in Channels, Asked(s, c)', ~Asked(s, c)
  PROVE  Wins(s, c)
<1>1. ASSUME Busy(s, c)' PROVE Wins(s, c)
  <2>1. ~Busy(s, c)
    BY DEF Asked
  <2>2. PICK d \in Channels : Wins(s, d)
    BY <1>1, <2>1, StepWaits DEF Waits
  <2> QED BY <1>1, <2>1, <2>2, Won
<1>2. ASSUME NEW w \in Sockets, w[1] = c, InStream(s, w)' PROVE FALSE
  <2>1. ~InStream(s, w)
    BY <1>2 DEF Asked
  <2>2. PICK m \in Up(w)' : m.type = "TCP" /\ m.sess = s
    BY <1>2 DEF InStream
  <2>3. m \notin Up(w)
    BY <2>1, <2>2 DEF InStream
  <2>4. PICK d \in Channels : WriteTCP(d) /\ s = handler[d].sess /\ w = Current(d)
    BY <2>2, <2>3, UpNews
  <2>5. Busy(s, d) /\ d = c
    BY <1>2, <2>4 DEF Busy, WriteTCP, Current
  <2> QED BY <2>5 DEF Asked
<1>3. ASSUME NEW w \in Sockets, w[1] = c, Started(s, w)' PROVE FALSE
  <2>1. ~Started(s, w) /\ ~InStream(s, w)
    BY <1>3 DEF Asked
  <2> QED BY <1>3, <2>1, StartedNews
<1> QED BY <1>1, <1>2, <1>3 DEF Asked

\* Every step keeps a session on its channel: only a win could move it, and
\* nobody wins a session that was asked for.
LEMMA StepOneChannel ==
  ASSUME Inv, [Next]_vars, NEW s \in Sessions, OneChannel(s)
  PROVE  OneChannel(s)'
<1> SUFFICES ASSUME NEW c \in Channels, Asked(s, c)'
             PROVE  /\ channelMap'[s] \in {c, NoChannel}
                    /\ ~Waiting(s)'
                    /\ fwd'[s].pc # "idle"
  BY DEF OneChannel
<1> TypeInv
  BY DEF Inv
<1>1. CASE \E d \in Channels : Wins(s, d)
  <2>1. PICK d \in Channels : Wins(s, d)
    BY <1>1
  <2>2. /\ channelMap'[s] = d /\ Waiting(s) /\ ~Waiting(s)' /\ UNCHANGED fwd
    BY <2>1, Won
  <2>3. ~Asked(s, c)
    BY <2>2 DEF OneChannel
  <2>4. channelMap'[s] = c
    BY <2>3, AskedNews, Won
  <2>5. fwd[s].pc # "idle"
    BY <2>2 DEF Inv, OneRequest, RequestOnce
  <2> QED BY <2>2, <2>4, <2>5
<1>2. CASE \A d \in Channels : ~Wins(s, d)
  <2>1. Waits(s)
    BY <1>2, StepWaits
  <2>2. Asked(s, c)
    BY <1>2, AskedNews
  <2>3. /\ channelMap[s] \in {c, NoChannel}
        /\ ~Waiting(s)
        /\ fwd[s].pc # "idle"
    BY <2>2 DEF OneChannel
  <2> QED BY <2>1, <2>3, NeverIdleAgain DEF Waits
<1> QED BY <1>1, <1>2

\* Every message of the server but CLAIM_ACK is of a session it has started.
LEMMA StepSpoken ==
  ASSUME TypeInv, [Next]_vars, Spoken
  PROVE  Spoken'
<1> SUFFICES ASSUME NEW w \in Sockets, NEW m \in Down(w)', m.type # "CLAIM_ACK"
             PROVE  Started(m.sess, w)'
  BY DEF Spoken
<1>1. m.sess \in Sessions /\ Started(m.sess, w)
  <2>1. CASE m \in Down(w)
    BY <2>1, StreamTypes DEF Spoken, Messages
  <2>2. CASE m \notin Down(w)
    BY <2>2, DownNews DEF Notify, PumpData, DialTargetFails, WriteFirstFrameFails, PumpReadError,
       Started
  <2> QED BY <2>1, <2>2
<1> QED BY <1>1, StartedStays

\* Whoever forgets a session does so on the session's own channel.
LEMMA ForgetsOwn ==
  ASSUME RoutingInv, NEW c \in Channels, AbortTCP(c) \/ ReadClose(c)
  PROVE  \E s \in Sessions : Forget(s, c) /\ channelMap[s] \in {c, NoChannel}
<1>1. TypeInv
  BY DEF RoutingInv, Inv
<1>2. CASE AbortTCP(c)
  <2>1. handler[c].sess \in Sessions /\ Forget(handler[c].sess, c) /\ Asked(handler[c].sess, c)
    BY <1>1, <1>2 DEF AbortTCP, TypeInv, Pointers, Asked, Busy
  <2> QED BY <2>1 DEF RoutingInv, OneChannel
<1>3. CASE ReadClose(c)
  <2>1. Incoming(c).sess \in Sessions /\ Forget(Incoming(c).sess, c)
    BY <1>1, <1>3, IncomingHeld DEF ReadClose
  <2>2. Started(Incoming(c).sess, Current(c)) /\ Current(c) \in Sockets
    BY <1>1, <1>3, IncomingHeld DEF ReadClose, RoutingInv, Spoken
  <2>3. Asked(Incoming(c).sess, c)
    BY <2>2 DEF Asked, Current
  <2> QED BY <2>1, <2>3 DEF RoutingInv, OneChannel
<1> QED BY <1>2, <1>3

\* Binding changes both maps, forgetting clears boundByChannel of the session's
\* own channel, so no other session loses its entry.
LEMMA StepBoundAgrees ==
  ASSUME RoutingInv, [Next]_vars
  PROVE  BoundAgrees'
<1>1. TypeInv /\ BoundAgrees
  BY DEF RoutingInv, Inv
<1>2. CASE \E c \in Channels : AbortTCP(c) \/ ReadClose(c)
  <2>1. PICK c \in Channels, s \in Sessions : Forget(s, c) /\ channelMap[s] \in {c, NoChannel}
    BY <1>2, ForgetsOwn
  <2>2. /\ channelMap' = [channelMap EXCEPT ![s] = NoChannel]
        /\ boundByChannel' = [boundByChannel EXCEPT ![c] = NoSession]
    BY <2>1 DEF Forget
  <2> QED
    BY <1>1, <2>1, <2>2 DEF BoundAgrees, TypeInv, TypeOK, PoolTypeOK, Channels, NoChannel
<1>3. CASE \E c \in Channels : WinClaim(c)
  <2>1. PICK c \in Channels : WinClaim(c)
    BY <1>3
  <2>2. PICK s \in Sessions : Bind(s, c) /\ channelMap[s] = NoChannel
    BY <1>1, <2>1, IncomingHeld DEF WinClaim, MayWin
  <2> QED
    BY <1>1, <2>2 DEF Bind, BoundAgrees, TypeInv, TypeOK, PoolTypeOK, Channels, NoChannel
<1>4. CASE ~(\E c \in Channels : AbortTCP(c) \/ ReadClose(c) \/ WinClaim(c))
  <2>1. UNCHANGED <<channelMap, boundByChannel>>
    <3>1. CASE PoolStep
      BY <1>4, <3>1 DEF PoolStep, Dial, HandleChannel, ReadError, IgnoreClaim, WriteTCP,
         ReadConnected, ReadData, ReadDataFails, RejectData, RunCloser, poolVars
    <3>2. CASE ForwarderStep
      BY <3>2 DEF ForwarderStep, Register, Forward, SkipNil, MarkClaim, MarkNil, ClaimsDone,
         Established, Timeout, Refuse, Drop, Reply, ReadLocalError, DeferredShut, ReadLocal,
         AppHangup, WriteClaim, SendLocal, DeferredSendClose, poolVars
    <3> QED BY <3>1, <3>2 DEF Next, OfServer, OfNetwork, vars, poolVars
  <2> QED BY <1>1, <2>1 DEF BoundAgrees
<1> QED BY <1>2, <1>3, <1>4

\* Nothing is routed at the start.
LEMMA InitRouting == Init => RoutingInv
<1> SUFFICES ASSUME Init PROVE RoutingInv
  OBVIOUS
<1>1. Inv
  BY InitType, InitRequest DEF Inv
<1>2. \A w \in Sockets : Up(w) = {} /\ Down(w) = {}
  BY DEF Init, WireInit, Up, Down, Held
<1>3. \A s \in Sessions, c \in Channels : ~Asked(s, c)
  BY <1>2 DEF Init, PoolInit, ServerInit, Asked, Busy, InStream, Started, Idle
<1>4. BoundAgrees
  BY DEF Init, PoolInit, BoundAgrees
<1> QED BY <1>1, <1>2, <1>3, <1>4 DEF RoutingInv, OneChannel, Spoken

\* The invariant of the routing is inductive.
LEMMA StepRouting == RoutingInv /\ [Next]_vars => RoutingInv'
<1> SUFFICES ASSUME RoutingInv, [Next]_vars PROVE RoutingInv'
  OBVIOUS
<1>1. Inv /\ TypeInv
  BY DEF RoutingInv, Inv
<1>2. Inv'
  BY <1>1, StepType, StepRequest DEF Inv
<1>3. \A s \in Sessions : OneChannel(s)'
  BY <1>1, StepOneChannel DEF RoutingInv
<1>4. Spoken'
  BY <1>1, StepSpoken DEF RoutingInv
<1>5. BoundAgrees'
  BY StepBoundAgrees
<1> QED BY <1>2, <1>3, <1>4, <1>5 DEF RoutingInv

\* boundByChannel never names a session that is routed elsewhere, or nowhere:
\* whatever order sessions win, fail, time out and close in, over any number of
\* channels and reconnections.
THEOREM MapsAgree == Spec => []BoundAgrees
<1>1. RoutingInv => BoundAgrees
  BY DEF RoutingInv
<1> QED BY InitRouting, StepRouting, <1>1, PTL DEF Spec

\* What the server says of a session comes on the channel the session is bound
\* to, until it is forgotten.
THEOREM SpokenOnBoundChannel == Spec => []OnBoundChannel
<1>1. RoutingInv => OnBoundChannel
  <2> SUFFICES ASSUME RoutingInv, NEW c \in Channels, wsConns[c] # 0,
                      NEW i \in 1 .. Len(toClient[Current(c)]),
                      toClient[Current(c)][i].type # "CLAIM_ACK"
               PROVE  channelMap[toClient[Current(c)][i].sess] \in {c, NoChannel}
    BY DEF OnBoundChannel
  <2> DEFINE m == toClient[Current(c)][i]
  <2>1. TypeInv /\ Current(c) \in Sockets
    BY SocketType DEF RoutingInv, Inv
  <2>2. m \in Down(Current(c))
    BY DEF Down, Held
  <2>3. m.sess \in Sessions /\ Started(m.sess, Current(c))
    BY <2>1, <2>2, StreamTypes DEF RoutingInv, Spoken, Messages
  <2>4. Asked(m.sess, c)
    BY <2>1, <2>3 DEF Asked, Current
  <2> QED BY <2>3, <2>4 DEF RoutingInv, OneChannel
<1> QED BY InitRouting, StepRouting, <1>1, PTL DEF Spec

-----------------------------------------------------------------------------
(* The server's goroutine for a session *)

\* What a step does to it: nothing, start it, or one of its own moves.
LEMMA TaskMoves ==
  ASSUME Inv, [Next]_vars, NEW s \in Sessions, NEW w \in Sockets, task'[w][s] # task[w][s]
  PROVE  \/ /\ ~Started(s, w) /\ task'[w][s].pc = "dial"
            /\ ServeTCP(w) /\ Request(w).sess = s
         \/ /\ Started(s, w)
            /\ task'[w][s].first = task[w][s].first
            /\ \/ DialTarget(w, s) /\ task'[w][s].pc = AfterDial(task[w][s].first)
               \/ WriteFirstFrame(w, s) /\ task'[w][s].pc = "notify"
               \/ Notify(w, s) /\ task'[w][s].pc = "pump"
               \/ task'[w][s].pc = "ended"
<1>1. TypeInv /\ RequestOnce(s)
  BY DEF Inv, OneRequest
<1>2. ServerStep
  BY DEF Next, OfPool, OfForwarder, OfNetwork, vars, serverVars
<1>3. PICK v \in Sockets :
        \/ HandleWebSocket(v)
        \/ \E t \in Sessions : HandleTCPConnection(v, t) \/ PumpData(v, t) \/ TargetHangup(v, t)
  BY <1>2 DEF ServerStep
<1>4. CASE HandleWebSocket(v)
  <2>1. ServeTCP(v)
    BY <1>4 DEF HandleWebSocket, ServeClaim, ServeData, ServeDataFails, DropData, ServeClose,
       Cleanup, serverVars
  <2>2. v = w /\ Request(v).sess = s /\ task'[w][s].pc = "dial"
    BY <1>1, <2>1, Serving DEF ServeTCP, TypeInv, TypeOK, ServerTypeOK
  <2>3. 1 \in Positions(w) /\ InFlight(s, w, 1)
    BY <1>1, <2>1, <2>2, RequestFirst DEF ServeTCP
  <2> QED BY <1>1, <2>1, <2>2, <2>3 DEF RequestOnce
<1>5. CASE \E t \in Sessions : HandleTCPConnection(v, t) \/ PumpData(v, t) \/ TargetHangup(v, t)
  <2>1. PICK t \in Sessions : HandleTCPConnection(v, t) \/ PumpData(v, t) \/ TargetHangup(v, t)
    BY <1>5
  <2>2. PICK pc \in TaskStates :
          /\ SetTask(v, t, pc)
          /\ task[v][t].pc # "none"
          /\ \/ DialTarget(v, t) /\ pc = AfterDial(task[v][t].first)
             \/ WriteFirstFrame(v, t) /\ pc = "notify"
             \/ Notify(v, t) /\ pc = "pump"
             \/ pc = "ended"
    BY <2>1 DEF HandleTCPConnection, DialTarget, DialTargetFails, AfterDial, WriteFirstFrame,
       WriteFirstFrameFails, Notify, PumpReadError, PumpCancelled, End, TaskStates, PumpData,
       TargetHangup
  <2>3. v = w /\ t = s /\ task'[w][s] = [task[w][s] EXCEPT !.pc = pc]
    BY <1>1, <2>2 DEF SetTask, TypeInv, TypeOK, ServerTypeOK
  <2>4. task[w][s] \in Task
    BY <1>1 DEF TypeInv, TypeOK, ServerTypeOK, Task
  <2> QED BY <2>2, <2>3, <2>4 DEF Task, Started
<1> QED BY <1>3, <1>4, <1>5

\* A connection to a target is never forgotten, nor what was written to it.
LEMMA TargetStays ==
  ASSUME TypeInv, [Next]_vars, NEW s \in Sessions, NEW w \in Sockets
  PROVE  /\ tconn[w][s] # "none" => tconn'[w][s] # "none"
         /\ targetGot[s] # << >> => targetGot'[s] # << >>
<1>1. CASE UNCHANGED serverVars
  BY <1>1 DEF serverVars
<1>2. CASE ServerStep
  <2>1. PICK v \in Sockets :
          \/ HandleWebSocket(v)
          \/ \E t \in Sessions : HandleTCPConnection(v, t) \/ PumpData(v, t) \/ TargetHangup(v, t)
    BY <1>2 DEF ServerStep
  <2>2. ASSUME NEW t \in Sessions, NEW unit, Deliver(t, unit)
        PROVE  targetGot[s] # << >> => targetGot'[s] # << >>
    <3>1. targetGot'[s] = IF s = t THEN Append(targetGot[s], unit) ELSE targetGot[s]
      BY <2>2 DEF Deliver, TypeInv, TypeOK, ServerTypeOK
    <3>2. targetGot[s] \in Seq(Nat)
      BY DEF TypeInv, TypeOK, ServerTypeOK
    <3> QED BY <3>1, <3>2
  <2>3. UNCHANGED targetGot \/ \E t \in Sessions : \E unit : Deliver(t, unit)
    BY <2>1, Serving DEF HandleWebSocket, ServeClaim, ServeTCP, ServeData, ServeDataFails, DropData,
       ServeClose, Cleanup, HandleTCPConnection, DialTarget, DialTargetFails, WriteFirstFrame,
       WriteFirstFrameFails, Notify, PumpReadError, PumpCancelled, PumpData, TargetHangup, serverVars
  <2>4. targetGot[s] # << >> => targetGot'[s] # << >>
    BY <2>2, <2>3
  <2>5. tconn[w][s] # "none" => tconn'[w][s] # "none"
    <3>1. CASE HandleWebSocket(v)
      <4>1. CASE ServeDataFails(v)
        BY <4>1, Serving DEF ServeDataFails, TypeInv, TypeOK, ServerTypeOK
      <4>2. CASE ServeClose(v)
        BY <4>2, Serving DEF ServeClose, TypeInv, TypeOK, ServerTypeOK
      <4>3. CASE Cleanup(v)
        BY <4>3 DEF Cleanup, TypeInv, TypeOK, ServerTypeOK
      <4>4. CASE UNCHANGED tconn
        BY <4>4
      <4> QED
        BY <3>1, <4>1, <4>2, <4>3, <4>4 DEF HandleWebSocket, ServeClaim, ServeTCP, ServeData,
           DropData, serverVars
    <3>2. ASSUME NEW t \in Sessions, NEW state \in ConnStates \ {"none"},
                 tconn' = [tconn EXCEPT ![v][t] = state]
          PROVE  tconn[w][s] # "none" => tconn'[w][s] # "none"
      BY <3>2 DEF TypeInv, TypeOK, ServerTypeOK
    <3>3. CASE \E t \in Sessions : HandleTCPConnection(v, t) \/ PumpData(v, t) \/ TargetHangup(v, t)
      <4>1. UNCHANGED tconn \/ \E t \in Sessions, state \in ConnStates \ {"none"} :
                                 tconn' = [tconn EXCEPT ![v][t] = state]
        <5>1. PICK t \in Sessions : HandleTCPConnection(v, t) \/ PumpData(v, t) \/ TargetHangup(v, t)
          BY <3>3
        <5>2. \/ UNCHANGED tconn
              \/ tconn' = [tconn EXCEPT ![v][t] = "open"]
              \/ tconn' = [tconn EXCEPT ![v][t] = "closed"]
              \/ tconn' = [tconn EXCEPT ![v][t] = "eof"]
          BY <5>1 DEF HandleTCPConnection, DialTarget, DialTargetFails, WriteFirstFrame,
             WriteFirstFrameFails, Notify, PumpReadError, PumpCancelled, PumpData, TargetHangup, End
        <5> QED BY <5>2 DEF ConnStates
      <4> QED BY <3>2, <4>1
    <3> QED BY <2>1, <3>1, <3>3
  <2> QED BY <2>4, <2>5
<1> QED BY <1>1, <1>2 DEF Next, OfPool, OfForwarder, OfNetwork, vars

-----------------------------------------------------------------------------
(* Success is real *)

\* The server has connected to the target of s and written the first frame.
Real(s, w) ==
  /\ task[w][s].pc \in {"pump", "ended"}
  /\ tconn[w][s] # "none"
  /\ task[w][s].first # 0 => targetGot[s] # << >>

\* How far it has got, by the state of its goroutine
OnItsWay(s, w) ==
  /\ task[w][s].pc \in {"first", "notify", "pump"} => tconn[w][s] # "none"
  /\ task[w][s].pc \in {"notify", "pump"} /\ task[w][s].first # 0 => targetGot[s] # << >>

Relaying == {"reply", "relay", "send", "close"}

RealInv ==
  /\ Inv
  /\ \A s \in Sessions, w \in Sockets : OnItsWay(s, w)
  /\ \A w \in Sockets : \A m \in Down(w) : m.type = "CONNECTED" => Real(m.sess, w)
  /\ \A s \in Sessions :
       connected[s] = "full" \/ fwd[s].pc \in Relaying => \E w \in Sockets : Real(s, w)

\* A session that was really connected stays so.
LEMMA RealStays ==
  ASSUME Inv, [Next]_vars, NEW s \in Sessions, NEW w \in Sockets, Real(s, w)
  PROVE  Real(s, w)'
<1>1. TypeInv
  BY DEF Inv
<1>2. tconn'[w][s] # "none" /\ (targetGot[s] # << >> => targetGot'[s] # << >>)
  BY <1>1, TargetStays DEF Real
<1>3. task'[w][s].pc \in {"pump", "ended"} /\ task'[w][s].first = task[w][s].first
  <2>1. Started(s, w)
    BY DEF Real, Started
  <2> QED
    BY <2>1, TaskMoves DEF Real, DialTarget, WriteFirstFrame, Notify
<1> QED BY <1>2, <1>3 DEF Real

\* How far a task has come says what it has done.
LEMMA StepOnItsWay ==
  ASSUME Inv, [Next]_vars, NEW s \in Sessions, NEW w \in Sockets, OnItsWay(s, w)
  PROVE  OnItsWay(s, w)'
<1>1. TypeInv /\ TypeInv'
  BY StepType DEF Inv
<1>2. /\ tconn[w][s] # "none" => tconn'[w][s] # "none"
      /\ targetGot[s] # << >> => targetGot'[s] # << >>
  BY <1>1, TargetStays
<1>3. CASE task'[w][s] = task[w][s]
  BY <1>2, <1>3 DEF OnItsWay
<1>4. CASE task'[w][s].pc = "dial"
  BY <1>4 DEF OnItsWay
<1>5. CASE DialTarget(w, s) /\ task'[w][s].pc = AfterDial(task[w][s].first)
                            /\ task'[w][s].first = task[w][s].first
  <2>1. tconn'[w][s] = "open"
    BY <1>1, <1>5 DEF DialTarget, TypeInv, TypeOK, ServerTypeOK
  <2> QED BY <1>5, <2>1 DEF AfterDial, OnItsWay
<1>6. CASE WriteFirstFrame(w, s) /\ task'[w][s].pc = "notify"
                                 /\ task'[w][s].first = task[w][s].first
  <2>1. /\ targetGot[s] \in Seq(Nat) /\ task[w][s].first \in Nat
        /\ targetGot'[s] = Append(targetGot[s], task[w][s].first)
    BY <1>1, <1>6 DEF WriteFirstFrame, Deliver, TypeInv, TypeOK, ServerTypeOK
  <2>2. targetGot'[s] # << >>
    BY <2>1, AppendProperties
  <2> QED BY <1>2, <1>6, <2>2 DEF WriteFirstFrame, OnItsWay
<1>7. CASE Notify(w, s) /\ task'[w][s].pc = "pump" /\ task'[w][s].first = task[w][s].first
  BY <1>2, <1>7 DEF Notify, OnItsWay
<1>8. CASE task'[w][s].pc = "ended"
  BY <1>8 DEF OnItsWay
<1> QED BY <1>3, <1>4, <1>5, <1>6, <1>7, <1>8, TaskMoves

\* The client learns of it from CONNECTED only, and relays only then.
LEMMA SignalNews ==
  ASSUME TypeInv, [Next]_vars, NEW s \in Sessions, connected'[s] = "full", connected[s] # "full"
  PROVE  \E c \in Channels : ReadConnected(c) /\ Incoming(c).sess = s
<1>1. CASE \E c \in Channels : ReadConnected(c)
  <2>1. PICK c \in Channels : ReadConnected(c)
    BY <1>1
  <2>2. Incoming(c).sess \in Sessions
    BY <2>1, Reading DEF ReadConnected
  <2> HIDE DEF Incoming
  <2> QED BY <2>1, <2>2 DEF ReadConnected, TypeInv, TypeOK, PoolTypeOK
<1>2. CASE PoolStep /\ ~(\E c \in Channels : ReadConnected(c))
  BY <1>2 DEF PoolStep, Dial, HandleChannel, ReadError, WinClaim, IgnoreClaim, WriteTCP, AbortTCP,
     ReadData, ReadDataFails, RejectData, ReadClose, RunCloser, poolVars
<1>3. CASE \E t \in Sessions : Established(t)
  BY <1>3 DEF Established, TypeInv, TypeOK, PoolTypeOK
<1>4. CASE \E t \in Sessions, kind \in Kinds, first \in {0, 1} : Register(t, kind, first)
  BY <1>4 DEF Register, RegisterSession, TypeInv, TypeOK, PoolTypeOK
<1>5. CASE \E t \in Sessions : \/ Forward(t) /\ ~Established(t)
                               \/ ReadLocal(t) \/ AppHangup(t)
  BY <1>5 DEF Forward, SkipNil, MarkClaim, MarkNil, ClaimsDone, Timeout, Refuse,
     Drop, Reply, ReadLocalError, DeferredShut, ReadLocal, AppHangup, WriteClaim, SendLocal,
     DeferredSendClose, poolVars
<1> QED
  BY <1>1, <1>2, <1>3, <1>4, <1>5 DEF Next, ForwarderStep, OfServer, OfNetwork, vars, poolVars

\* A session is relayed or answered after the signal only.
LEMMA RelayingNews ==
  ASSUME TypeInv, [Next]_vars, NEW s \in Sessions,
         fwd'[s].pc \in Relaying, fwd[s].pc \notin Relaying
  PROVE  connected[s] = "full"
<1>1. fwd' # fwd
  OBVIOUS
<1>2. PICK t \in Sessions :
        \/ \E kind \in Kinds, first \in {0, 1} : Register(t, kind, first)
        \/ Forward(t) \/ ReadLocal(t) \/ AppHangup(t)
  BY <1>1 DEF Next, ForwarderStep, OfPool, OfServer, OfNetwork, vars, forwarderVars
<1>3. CASE \/ \E kind \in Kinds, first \in {0, 1} : Register(t, kind, first)
           \/ SkipNil(t) \/ MarkClaim(t) \/ MarkNil(t) \/ WriteClaim(t) \/ AppHangup(t)
  BY <1>3 DEF Register, SkipNil, MarkClaim, MarkNil, WriteClaim, AppHangup, forwarderVars,
     TypeInv, TypeOK, ForwarderTypeOK, Relaying
<1>4. CASE \/ ClaimsDone(t) \/ Timeout(t) \/ Refuse(t) \/ Drop(t) \/ DeferredShut(t)
           \/ DeferredSendClose(t)
  <2>1. \E pc \in {"wait", "refuse", "drop", "done", "shut"} : Goto(t, pc)
    BY <1>4 DEF ClaimsDone, Timeout, Refuse, Drop, DeferredShut, DeferredSendClose
  <2> QED BY <2>1 DEF Goto, TypeInv, TypeOK, ForwarderTypeOK, Relaying
<1>5. CASE Established(t)
  BY <1>5 DEF Established, Signalled, Goto, TypeInv, TypeOK, ForwarderTypeOK
<1>6. CASE Reply(t) \/ SendLocal(t) \/ ReadLocalError(t) \/ ReadLocal(t)
  <2>1. fwd[t].pc \in Relaying /\ \E pc \in ForwarderStates : Goto(t, pc)
    BY <1>6 DEF Reply, SendLocal, AfterSend, ReadLocalError, ReadLocal, At, ForwarderStates, Relaying
  <2> QED BY <2>1 DEF Goto, TypeInv, TypeOK, ForwarderTypeOK
<1> QED BY <1>2, <1>3, <1>4, <1>5, <1>6 DEF Forward

\* CONNECTED, the signal and the reply each follow a real connection.
LEMMA StepReal == RealInv /\ [Next]_vars => RealInv'
<1> SUFFICES ASSUME RealInv, [Next]_vars PROVE RealInv'
  OBVIOUS
<1>1. Inv /\ TypeInv /\ Inv'
  BY StepType, StepRequest DEF RealInv, Inv
<1>2. ASSUME NEW s \in Sessions, NEW w \in Sockets
      PROVE  OnItsWay(s, w)'
  BY <1>1, StepOnItsWay DEF RealInv
<1>3. ASSUME NEW w \in Sockets, NEW m \in Down(w)', m.type = "CONNECTED"
      PROVE  Real(m.sess, w)'
  <2>1. CASE m \in Down(w)
    <3>1. m.sess \in Sessions /\ Real(m.sess, w)
      BY <1>1, <1>3, <2>1, StreamTypes DEF RealInv, Messages
    <3> QED BY <1>1, <3>1, RealStays
  <2>2. CASE m \notin Down(w)
    <3> DEFINE s == m.sess
    <3>1. s \in Sessions /\ Notify(w, s)
      BY <1>1, <1>3, <2>2, DownNews
    <3> HIDE DEF s
    <3>2. /\ task[w][s].pc = "notify"
          /\ UNCHANGED <<tconn, targetGot>>
          /\ task'[w][s] = [task[w][s] EXCEPT !.pc = "pump"]
          /\ task[w][s] \in Task
      BY <1>1, <3>1 DEF Notify, SetTask, TypeInv, TypeOK, ServerTypeOK, Task
    <3>3. Real(s, w)'
      BY <3>1, <3>2 DEF RealInv, OnItsWay, Real, Task
    <3> QED BY <3>3 DEF s
  <2> QED BY <2>1, <2>2
<1>4. ASSUME NEW s \in Sessions, connected'[s] = "full" \/ fwd'[s].pc \in Relaying
      PROVE  \E w \in Sockets : Real(s, w)'
  <2>1. CASE connected[s] = "full" \/ fwd[s].pc \in Relaying
    <3>1. PICK w \in Sockets : Real(s, w)
      BY <2>1 DEF RealInv
    <3> QED BY <1>1, <3>1, RealStays
  <2>2. CASE ~(connected[s] = "full" \/ fwd[s].pc \in Relaying)
    <3>1. PICK c \in Channels : ReadConnected(c) /\ Incoming(c).sess = s
      BY <1>1, <1>4, <2>2, SignalNews, RelayingNews
    <3>2. Current(c) \in Sockets /\ Real(s, Current(c))
      BY <1>1, <3>1, IncomingHeld DEF ReadConnected, RealInv
    <3> QED BY <1>1, <3>2, RealStays
  <2> QED BY <2>1, <2>2
<1> QED BY <1>1, <1>2, <1>3, <1>4 DEF RealInv

\* There is no connection at the start.
LEMMA InitReal == Init => RealInv
<1> SUFFICES ASSUME Init PROVE RealInv
  OBVIOUS
<1>1. Inv
  BY InitType, InitRequest DEF Inv
<1>2. \A w \in Sockets : Down(w) = {}
  BY DEF Init, WireInit, Down, Held
<1>3. \A s \in Sessions, w \in Sockets : OnItsWay(s, w)
  BY DEF Init, ServerInit, OnItsWay
<1>4. \A s \in Sessions : connected[s] # "full" /\ fwd[s].pc \notin Relaying
  BY DEF Init, PoolInit, ForwarderInit, Relaying
<1> QED BY <1>1, <1>2, <1>3, <1>4 DEF RealInv

\* No session is told of success, or relayed, unless the server has connected
\* to its target and written the first frame.
THEOREM SuccessIsReal == Spec => []EstablishedIsReal
<1>1. RealInv => EstablishedIsReal
  BY DEF RealInv, EstablishedIsReal, Real, Relaying
<1> QED BY InitReal, StepReal, <1>1, PTL DEF Spec

-----------------------------------------------------------------------------
(* What the client says of a session *)

\* DATA and CLOSE follow the request on its channel, across redials too.
OnOwnChannel ==
  \A w \in Sockets : \A m \in Up(w) : m.type \in {"DATA", "CLOSE"} =>
    \E v \in Sockets : v[1] = w[1] /\ Started(m.sess, v)

\* Nobody closes a session the server has not heard of.
ClosersKnown == \A s \in closers : \E w \in Sockets : Started(s, w)

OwnInv == RoutingInv /\ RealInv /\ OnOwnChannel /\ ClosersKnown

\* A session that was started is routed over the channel it was started on.
LEMMA RoutedWhereStarted ==
  ASSUME RoutingInv, NEW s \in Sessions, NEW w \in Sockets, Started(s, w), Routed(s)
  PROVE  w[1] = channelMap[s]
<1>1. w[1] \in Channels
  BY DEF Sockets
<1>2. Asked(s, w[1])
  BY DEF Asked
<1> QED BY <1>1, <1>2 DEF RoutingInv, OneChannel, Routed

\* "go p.SendClose" is for a session the server has started.
LEMMA CloserNews ==
  ASSUME RoutingInv, [Next]_vars, NEW s \in closers', s \notin closers
  PROVE  s \in Sessions /\ \E w \in Sockets : Started(s, w)
<1>1. TypeInv
  BY DEF RoutingInv, Inv
<1>2. closers' # closers
  OBVIOUS
<1>3. ~ForwarderStep
  BY <1>2 DEF ForwarderStep, Register, Forward, SkipNil, MarkClaim, MarkNil, ClaimsDone, Established,
     Timeout, Refuse, Drop, Reply, ReadLocalError, DeferredShut, ReadLocal, AppHangup, WriteClaim,
     SendLocal, DeferredSendClose, poolVars
<1>4. PoolStep
  BY <1>2, <1>3 DEF Next, OfServer, OfNetwork, vars, poolVars
<1>5. PICK c \in Channels : /\ ReadDataFails(c) \/ RejectData(c)
                            /\ closers' = closers \cup {Incoming(c).sess}
  BY <1>4 DEF PoolStep, Dial, HandleChannel, ReadError, WinClaim, IgnoreClaim, WriteTCP, AbortTCP,
     ReadConnected, ReadData, ReadDataFails, RejectData, ReadClose, RunCloser, poolVars
<1>6. s = Incoming(c).sess
  BY <1>5
<1>7. /\ Current(c) \in Sockets /\ Incoming(c) \in Down(Current(c))
      /\ Incoming(c).type = "DATA" /\ s \in Sessions
  BY <1>1, <1>5, <1>6, IncomingHeld DEF ReadDataFails, RejectData
<1> QED BY <1>6, <1>7 DEF RoutingInv, Spoken

\* DATA and CLOSE are written to the current connection of the session's
\* channel, which is the channel its target was asked for on.
LEMMA StepOwn == OwnInv /\ [Next]_vars => OwnInv'
<1> SUFFICES ASSUME OwnInv, [Next]_vars PROVE OwnInv'
  OBVIOUS
<1>1. RoutingInv' /\ RealInv'
  BY StepRouting, StepReal DEF OwnInv
<1>2. TypeInv /\ RoutingInv /\ RealInv
  BY DEF OwnInv, RoutingInv, Inv
<1>3. ASSUME NEW w \in Sockets, NEW m \in Up(w)', m.type \in {"DATA", "CLOSE"}
      PROVE  \E v \in Sockets : v[1] = w[1] /\ Started(m.sess, v)'
  <2>1. CASE m \in Up(w)
    <3>1. m.sess \in Sessions
      BY <1>2, <2>1, StreamTypes DEF Messages
    <3>2. PICK v \in Sockets : v[1] = w[1] /\ Started(m.sess, v)
      BY <1>3, <2>1 DEF OwnInv, OnOwnChannel
    <3> QED BY <1>2, <3>1, <3>2, StartedStays
  <2>2. CASE m \notin Up(w)
    <3>1. /\ m.sess \in Sessions /\ Routed(m.sess) /\ w = Current(channelMap[m.sess])
          /\ SendLocal(m.sess) \/ RunCloser(m.sess) \/ DeferredSendClose(m.sess)
      BY <1>2, <1>3, <2>2, UpNews
    <3>2. m.sess \in closers \/ fwd[m.sess].pc \in Relaying
      BY <3>1 DEF SendLocal, RunCloser, DeferredSendClose, At, Relaying
    <3>3. PICK v \in Sockets : Started(m.sess, v)
      BY <3>1, <3>2 DEF OwnInv, ClosersKnown, RealInv, Real, Started
    <3>4. v[1] = channelMap[m.sess]
      BY <1>2, <3>1, <3>3, RoutedWhereStarted
    <3>5. v[1] = w[1]
      BY <3>1, <3>4 DEF Current
    <3> QED BY <1>2, <3>1, <3>3, <3>5, StartedStays
  <2> QED BY <2>1, <2>2
<1>4. ASSUME NEW s \in closers'
      PROVE  \E w \in Sockets : Started(s, w)'
  <2>1. s \in Sessions /\ \E w \in Sockets : Started(s, w)
    <3>1. CASE s \in closers
      BY <1>2, <3>1 DEF OwnInv, ClosersKnown, TypeInv, TypeOK, PoolTypeOK
    <3>2. CASE s \notin closers
      BY <1>2, <3>2, CloserNews
    <3> QED BY <3>1, <3>2
  <2> QED BY <1>2, <2>1, StartedStays
<1> QED BY <1>1, <1>3, <1>4 DEF OwnInv, OnOwnChannel, ClosersKnown

\* The streams start empty.
LEMMA InitOwn == Init => OwnInv
<1> SUFFICES ASSUME Init PROVE OwnInv
  OBVIOUS
<1>1. closers = {} /\ \A w \in Sockets : Up(w) = {}
  BY DEF Init, WireInit, PoolInit, Up, Held
<1> QED BY <1>1, InitRouting, InitReal DEF OwnInv, OnOwnChannel, ClosersKnown

\* DATA and CLOSE travel on the channel that carried the request of their
\* session, behind it, however often that channel has been redialled since.
THEOREM SpokenOnOwnChannel == Spec => []OnOwnChannel
<1>1. OwnInv => OnOwnChannel
  BY DEF OwnInv
<1> QED BY InitOwn, StepOwn, <1>1, PTL DEF Spec

\* So they travel on the very connection of the request while no channel is
\* redialled.
THEOREM SpokenOnOwnConnection ==
  ASSUME MaxDials = 1
  PROVE  Spec => []OnOwnConnection
<1>1. OwnInv => OnOwnConnection
  <2> SUFFICES ASSUME OwnInv, NEW w \in Sockets, NEW i \in Positions(w),
                      toServer[w][i].type \in {"DATA", "CLOSE"}
               PROVE  Started(toServer[w][i].sess, w)
    BY DEF OnOwnConnection
  <2>1. toServer[w][i] \in Up(w)
    BY DEF Up, Held, Positions
  <2>2. PICK v \in Sockets : v[1] = w[1] /\ Started(toServer[w][i].sess, v)
    BY <2>1 DEF OwnInv, OnOwnChannel
  <2>3. v = w
    BY <2>2 DEF Sockets, Epochs
  <2> QED BY <2>2, <2>3
<1> QED BY InitOwn, StepOwn, <1>1, PTL DEF Spec

-----------------------------------------------------------------------------
(* The claim loop *)

\* The session has claimed no channel yet, so nobody has heard of it.
Unclaimed(s) == fwd[s].pc = "idle" \/ (fwd[s].pc \in {"mark", "claim"} /\ fwd[s].ch = 0)

Unheard(s) ==
  /\ \A w \in Sockets : /\ \A m \in Up(w) : ~(m.type = "CLAIM" /\ m.sess = s)
                        /\ \A m \in Down(w) : ~(m.type = "CLAIM_ACK" /\ m.sess = s)
  /\ \A c \in Channels : ~Asked(s, c)

ClaimInv ==
  /\ RoutingInv
  /\ \A s \in Sessions : Unclaimed(s) =>
       /\ Unheard(s)
       /\ fwd[s].pc # "idle" => claimTimes[s] # NilSet

\* The claim loop starts at the first channel, when the session registers.
LEMMA UnclaimedStays ==
  ASSUME TypeInv, [Next]_vars, NEW s \in Sessions, Unclaimed(s)'
  PROVE  /\ Unclaimed(s) /\ ~WriteClaim(s)
         /\ fwd[s].pc = "idle" /\ fwd'[s].pc # "idle" =>
              \E kind \in Kinds, first \in {0, 1} : Register(s, kind, first)
<1>1. CASE UNCHANGED fwd[s]
  BY <1>1 DEF Unclaimed, WriteClaim, TypeInv, TypeOK, ForwarderTypeOK, At
<1>2. CASE ~UNCHANGED fwd[s]
  <2>1. PICK t \in Sessions :
          \/ \E kind \in Kinds, first \in {0, 1} : Register(t, kind, first)
          \/ Forward(t) \/ ReadLocal(t) \/ AppHangup(t)
    BY <1>2 DEF Next, ForwarderStep, OfPool, OfServer, OfNetwork, vars, forwarderVars
  <2>2. CASE \E kind \in Kinds, first \in {0, 1} : Register(t, kind, first)
    <3>1. fwd' = [fwd EXCEPT ![t] = fwd'[t]] /\ fwd[t].pc = "idle"
      BY <2>2 DEF Register, At, TypeInv, TypeOK, ForwarderTypeOK
    <3>2. t = s
      BY <1>2, <3>1 DEF TypeInv, TypeOK, ForwarderTypeOK
    <3> QED BY <2>2, <3>1, <3>2 DEF Unclaimed, WriteClaim, At
  <2>3. CASE MarkClaim(t)
    BY <1>2, <2>3 DEF MarkClaim, Unclaimed, WriteClaim, At, TypeInv, TypeOK, ForwarderTypeOK
  <2>4. CASE SkipNil(t) \/ WriteClaim(t)
    BY <1>2, <2>4 DEF SkipNil, WriteClaim, Unclaimed, At, TypeInv, TypeOK, ForwarderTypeOK
  <2>5. CASE MarkNil(t) \/ AppHangup(t)
    BY <1>2, <2>5 DEF MarkNil, AppHangup, forwarderVars
  <2>6. CASE \E pc \in ForwarderStates \ {"idle", "mark", "claim"} : Goto(t, pc)
    BY <1>2, <2>6 DEF Goto, Unclaimed, TypeInv, TypeOK, ForwarderTypeOK
  <2> QED
    BY <2>1, <2>2, <2>3, <2>4, <2>5, <2>6 DEF Forward, ClaimsDone, Established, Timeout, Refuse,
       Drop, Reply, SendLocal, AfterSend, ReadLocalError, DeferredSendClose, DeferredShut,
       ReadLocal, ForwarderStates
<1> QED BY <1>1, <1>2

\* The times of a session are forgotten when a channel wins it or closes it.
LEMMA TimesForgotten ==
  ASSUME TypeInv, [Next]_vars, NEW s \in Sessions, claimTimes[s] # NilSet, claimTimes'[s] = NilSet
  PROVE  \E c \in Channels :
           \/ Wins(s, c)
           \/ (AbortTCP(c) /\ handler[c].sess = s)
           \/ (ReadClose(c) /\ Incoming(c).sess = s)
<1>1. claimTimes' # claimTimes
  OBVIOUS
<1>2. CASE PoolStep
  <2>1. PICK c \in Channels : WinClaim(c) \/ AbortTCP(c) \/ ReadClose(c)
    BY <1>1, <1>2 DEF PoolStep, Dial, HandleChannel, ReadError, IgnoreClaim, WriteTCP, ReadConnected,
       ReadData, ReadDataFails, RejectData, RunCloser, poolVars
  <2>2. CASE WinClaim(c)
    <3>1. Incoming(c).sess \in Sessions
      BY <2>2, Reading DEF WinClaim
    <3>2. claimTimes' = [claimTimes EXCEPT ![Incoming(c).sess] = Unmark(@, c)]
      BY <2>2 DEF WinClaim
    <3> HIDE DEF Incoming
    <3>3. Incoming(c).sess = s
      BY <3>1, <3>2 DEF TypeInv, TypeOK, PoolTypeOK
    <3> QED BY <2>2, <3>1, <3>3 DEF Wins
  <2>3. CASE AbortTCP(c)
    <3>1. handler[c].sess \in Sessions
      BY <2>3 DEF AbortTCP, TypeInv, Pointers
    <3>2. claimTimes' = [claimTimes EXCEPT ![handler[c].sess] = NilSet]
      BY <2>3 DEF AbortTCP, Forget
    <3>3. handler[c].sess = s
      BY <3>1, <3>2 DEF TypeInv, TypeOK, PoolTypeOK
    <3> QED BY <2>3, <3>3
  <2>4. CASE ReadClose(c)
    <3>1. claimTimes' = [claimTimes EXCEPT ![Incoming(c).sess] = NilSet]
      BY <2>4 DEF ReadClose, Forget
    <3> HIDE DEF Incoming
    <3>2. Incoming(c).sess = s
      BY <3>1 DEF TypeInv, TypeOK, PoolTypeOK
    <3> QED BY <2>4, <3>2
  <2> QED BY <2>1, <2>2, <2>3, <2>4
<1>3. CASE ForwarderStep
  <2>1. PICK t \in Sessions :
          \/ \E kind \in Kinds, first \in {0, 1} : Register(t, kind, first)
          \/ MarkClaim(t)
    BY <1>1, <1>3 DEF ForwarderStep, Forward, SkipNil, MarkNil, ClaimsDone, Established, Timeout,
       Refuse, Drop, Reply, ReadLocalError, DeferredShut, ReadLocal, AppHangup, WriteClaim,
       SendLocal, DeferredSendClose, poolVars
  <2>2. CASE \E kind \in Kinds, first \in {0, 1} : Register(t, kind, first)
    <3>1. claimTimes' = [claimTimes EXCEPT ![t] = NewTimes(@)]
      BY <2>2 DEF Register, RegisterSession
    <3>2. claimTimes'[s] = claimTimes[s]
      BY <3>1 DEF NewTimes, TypeInv, TypeOK, PoolTypeOK
    <3> QED BY <3>2
  <2>3. CASE MarkClaim(t)
    <3>1. /\ claimTimes' = [claimTimes EXCEPT ![t] = @ \cup {fwd[t].ch}]
          /\ fwd[t].ch \in Channels
      BY <2>3, NumChannelsAssumption DEF MarkClaim, Mark, TypeInv, TypeOK, ForwarderTypeOK, Channels
    <3>2. claimTimes'[s] = claimTimes[s] \/ claimTimes'[s] = claimTimes[s] \cup {fwd[t].ch}
      BY <3>1 DEF TypeInv, TypeOK, PoolTypeOK
    <3>3. -1 \notin Channels
      BY DEF Channels
    <3> QED BY <3>1, <3>2, <3>3 DEF NilSet
  <2> QED BY <2>1, <2>2, <2>3
<1> QED BY <1>1, <1>2, <1>3 DEF Next, OfServer, OfNetwork, vars, poolVars

\* A session that has claimed no channel is not won, aborted or closed.
LEMMA UnheardIsSafe ==
  ASSUME RoutingInv, [Next]_vars, NEW s \in Sessions, Unheard(s), NEW c \in Channels
  PROVE  /\ ~Wins(s, c)
         /\ ~(AbortTCP(c) /\ handler[c].sess = s)
         /\ ~(ReadClose(c) /\ Incoming(c).sess = s)
<1>1. TypeInv
  BY DEF RoutingInv, Inv
<1>2. ASSUME Wins(s, c) PROVE FALSE
  <2>1. Reads(c, "CLAIM_ACK") /\ Incoming(c).sess = s
    BY <1>2 DEF Wins, WinClaim
  <2>2. Current(c) \in Sockets /\ Incoming(c) \in Down(Current(c)) /\ Incoming(c).type = "CLAIM_ACK"
    BY <1>1, <2>1, IncomingHeld
  <2> QED BY <2>1, <2>2 DEF Unheard
<1>3. ASSUME AbortTCP(c), handler[c].sess = s PROVE FALSE
  BY <1>3 DEF AbortTCP, Unheard, Asked, Busy
<1>4. ASSUME ReadClose(c), Incoming(c).sess = s PROVE FALSE
  <2>1. Reads(c, "CLOSE")
    BY <1>4 DEF ReadClose
  <2>2. Current(c) \in Sockets /\ Incoming(c) \in Down(Current(c)) /\ Incoming(c).type = "CLOSE"
    BY <1>1, <2>1, IncomingHeld
  <2>3. Started(s, Current(c))
    BY <1>4, <2>2 DEF RoutingInv, Spoken
  <2>4. Asked(s, c)
    BY <2>2, <2>3 DEF Asked, Current
  <2> QED BY <2>4 DEF Unheard
<1> QED BY <1>2, <1>3, <1>4

\* Nobody hears of a session before its first claim is written.
LEMMA UnheardStays ==
  ASSUME RoutingInv, [Next]_vars, NEW s \in Sessions, Unheard(s), ~WriteClaim(s)
  PROVE  Unheard(s)'
<1>1. TypeInv
  BY DEF RoutingInv, Inv
<1>2. ASSUME NEW w \in Sockets, NEW m \in Up(w)', m.type = "CLAIM", m.sess = s PROVE FALSE
  <2>1. m \notin Up(w)
    BY <1>2 DEF Unheard
  <2> QED BY <1>1, <1>2, <2>1, UpNews
<1>3. ASSUME NEW w \in Sockets, NEW m \in Down(w)', m.type = "CLAIM_ACK", m.sess = s PROVE FALSE
  <2>1. m \notin Down(w)
    BY <1>3 DEF Unheard
  <2>2. ServeClaim(w) /\ Request(w).sess = s
    BY <1>1, <1>3, <2>1, DownNews
  <2>3. Serves(w, "CLAIM")
    BY <2>2 DEF ServeClaim
  <2>4. Request(w) \in Up(w) /\ Request(w).type = "CLAIM"
    BY <1>1, <2>3, RequestHeld
  <2> QED BY <2>2, <2>4 DEF Unheard
<1>4. ASSUME NEW c \in Channels, Asked(s, c)' PROVE FALSE
  <2>1. ~Asked(s, c)
    BY DEF Unheard
  <2> QED BY <1>1, <1>4, <2>1, AskedNews, UnheardIsSafe
<1> QED BY <1>2, <1>3, <1>4 DEF Unheard

\* ... and until then its claimTimes entry stays.
LEMMA StepClaim == ClaimInv /\ [Next]_vars => ClaimInv'
<1> SUFFICES ASSUME ClaimInv, [Next]_vars PROVE ClaimInv'
  OBVIOUS
<1>1. RoutingInv /\ TypeInv
  BY DEF ClaimInv, RoutingInv, Inv
<1>2. ASSUME NEW s \in Sessions, Unclaimed(s)'
      PROVE  Unheard(s)' /\ (fwd'[s].pc # "idle" => claimTimes'[s] # NilSet)
  <2>1. /\ Unclaimed(s) /\ ~WriteClaim(s)
        /\ fwd[s].pc = "idle" /\ fwd'[s].pc # "idle" =>
             \E kind \in Kinds, first \in {0, 1} : Register(s, kind, first)
    BY <1>1, <1>2, UnclaimedStays
  <2>2. Unheard(s) /\ (fwd[s].pc # "idle" => claimTimes[s] # NilSet)
    BY <2>1 DEF ClaimInv
  <2>3. Unheard(s)'
    BY <1>1, <2>1, <2>2, UnheardStays
  <2>4. CASE fwd[s].pc # "idle"
    <3>1. ASSUME claimTimes'[s] = NilSet PROVE FALSE
      <4>1. PICK c \in Channels : \/ Wins(s, c)
                                \/ (AbortTCP(c) /\ handler[c].sess = s)
                                \/ (ReadClose(c) /\ Incoming(c).sess = s)
        BY <1>1, <2>2, <2>4, <3>1, TimesForgotten
      <4> QED BY <1>1, <2>2, <4>1, UnheardIsSafe
    <3> QED BY <2>3, <3>1
  <2>5. CASE fwd[s].pc = "idle" /\ fwd'[s].pc # "idle"
    <3>1. claimTimes' = [claimTimes EXCEPT ![s] = NewTimes(@)]
      BY <2>1, <2>5 DEF Register, RegisterSession
    <3>2. claimTimes'[s] = NewTimes(claimTimes[s])
      BY <1>1, <3>1 DEF TypeInv, TypeOK, PoolTypeOK
    <3>3. NewTimes(claimTimes[s]) # NilSet
      BY DEF NewTimes, NilSet
    <3> QED BY <2>3, <3>2, <3>3
  <2> QED BY <2>3, <2>4, <2>5
<1>3. RoutingInv'
  BY <1>1, StepRouting
<1> QED BY <1>2, <1>3 DEF ClaimInv

\* No session is registered at the start.
LEMMA InitClaim == Init => ClaimInv
<1> SUFFICES ASSUME Init PROVE ClaimInv
  OBVIOUS
<1>1. \A w \in Sockets : Up(w) = {} /\ Down(w) = {}
  BY DEF Init, WireInit, Up, Down, Held
<1>2. \A s \in Sessions, c \in Channels : ~Asked(s, c)
  BY <1>1 DEF Init, PoolInit, ServerInit, WireInit, Asked, Busy, InStream, Started, Idle
<1>3. \A s \in Sessions : fwd[s].pc = "idle"
  BY DEF Init, ForwarderInit
<1> QED BY <1>1, <1>2, <1>3, InitRouting DEF ClaimInv, Unheard

\* The claim loop finds its map at the first channel, whatever the others do:
\* the panic needs a CLAIM_ACK that overtakes the loop.
FirstClaimIsSafe == \A s \in Sessions : At(s, "mark") /\ fwd[s].ch = 0 => ~MarkPanics(s, 0)

\* RegisterAndClaim (pool.go 77-94) can panic after its first CLAIM only.
THEOREM FirstClaimNeverPanics == Spec => []FirstClaimIsSafe
<1>1. ClaimInv => FirstClaimIsSafe
  BY DEF ClaimInv, FirstClaimIsSafe, Unclaimed, MarkPanics, At
<1> QED BY InitClaim, StepClaim, <1>1, PTL DEF Spec

\* With one channel there is no other to overtake it: the client never panics.
THEOREM NeverPanics ==
  ASSUME NumChannels = 1
  PROVE  Spec => []NoPanic
<1> DEFINE PanicInv == ClaimInv /\ NoPanic
<1>1. Init => PanicInv
  BY InitClaim DEF Init, PoolInit, NoPanic
<1>2. PanicInv /\ [Next]_vars => PanicInv'
  <2> SUFFICES ASSUME PanicInv, [Next]_vars, crashed' # crashed PROVE FALSE
    BY StepClaim DEF NoPanic
  <2>1. PICK s \in Sessions : MarkNil(s)
    BY DEF Next, PoolStep, ForwarderStep, OfServer, OfNetwork, vars, poolVars, Dial, HandleChannel,
       ReadError, WinClaim, IgnoreClaim, WriteTCP, AbortTCP, ReadConnected, ReadData, ReadDataFails,
       RejectData, ReadClose, RunCloser, Register, Forward, SkipNil, MarkClaim, ClaimsDone,
       Established, Timeout, Refuse, Drop, Reply, ReadLocalError, DeferredShut, ReadLocal,
       AppHangup, WriteClaim, SendLocal, DeferredSendClose
  <2>2. fwd[s].pc = "mark" /\ fwd[s].ch = 0 /\ claimTimes[s] = NilSet
    BY <2>1 DEF MarkNil, At, MarkPanics, ClaimInv, RoutingInv, Inv, TypeInv, TypeOK, ForwarderTypeOK
  <2> QED BY <2>2 DEF ClaimInv, Unclaimed
<1>3. PanicInv => NoPanic
  OBVIOUS
<1> QED BY <1>1, <1>2, <1>3, PTL DEF Spec

-----------------------------------------------------------------------------
(* Local connections are not leaked: a step keeps a session in tcpMap,      *)
(* closes its connection while it leaves, or leaves a closed one alone.     *)

\* The part of the invariant about one session
Kept(s) == s \in tcpMap \/ conn[s] = "closed" \/ fwd[s].pc = "idle"

\* A session whose entry or closed connection survives the step.
LEMMA Stays ==
  ASSUME TypeInv, NEW s \in Sessions, Kept(s),
         fwd'[s].pc = "idle" <=> fwd[s].pc = "idle",
         s \in tcpMap => s \in tcpMap' \/ conn'[s] = "closed",
         conn[s] = "closed" => conn'[s] = "closed"
  PROVE  Kept(s)'
BY DEF Kept

\* Forget closes the connection of the session it removes, and no other.
LEMMA ForgetKeeps ==
  ASSUME TypeInv, NEW s \in Sessions, NEW t \in Sessions, NEW c, Forget(t, c)
  PROVE  /\ s \in tcpMap => s \in tcpMap' \/ conn'[s] = "closed"
         /\ conn[s] = "closed" => conn'[s] = "closed"
BY DEF Forget, TypeInv, TypeOK, PoolTypeOK

\* The pool: what its handlers do to tcpMap and to the local connections.
LEMMA PoolKeepsLocal ==
  ASSUME TypeInv, PoolStep, OfPool, NEW s \in Sessions, Kept(s)
  PROVE  Kept(s)'
<1>1. UNCHANGED fwd
  BY DEF OfPool, forwarderVars
<1>2. /\ s \in tcpMap => s \in tcpMap' \/ conn'[s] = "closed"
      /\ conn[s] = "closed" => conn'[s] = "closed"
  <2>1. CASE \E c \in Channels : Dial(c) \/ ReadError(c) \/ WinClaim(c) \/ IgnoreClaim(c)
                                 \/ WriteTCP(c) \/ ReadConnected(c) \/ ReadData(c)
    BY <2>1 DEF Dial, ReadError, WinClaim, IgnoreClaim, WriteTCP, ReadConnected, ReadData, poolVars
  <2>2. CASE \E c \in Channels : RejectData(c)
    BY <2>2 DEF RejectData
  <2>3. CASE \E c \in Channels : AbortTCP(c)
    <3>1. PICK c \in Channels : AbortTCP(c)
      BY <2>3
    <3>2. handler[c].sess \in Sessions /\ Forget(handler[c].sess, c)
      BY <3>1 DEF AbortTCP, TypeInv, Pointers
    <3> QED BY <3>2, ForgetKeeps
  <2>4. CASE \E c \in Channels : ReadClose(c)
    <3>1. PICK c \in Channels : ReadClose(c)
      BY <2>4
    <3>2. Incoming(c).sess \in Sessions /\ Forget(Incoming(c).sess, c)
      BY <3>1, Reading DEF ReadClose
    <3> QED BY <3>2, ForgetKeeps
  <2>5. CASE \E c \in Channels : ReadDataFails(c)
    BY <2>5 DEF ReadDataFails, CloseLocal, TypeInv, TypeOK, PoolTypeOK
  <2>6. CASE \E t \in Sessions : RunCloser(t)
    BY <2>6 DEF RunCloser
  <2> QED
    BY <2>1, <2>2, <2>3, <2>4, <2>5, <2>6 DEF PoolStep, HandleChannel
<1> QED BY <1>1, <1>2, Stays

\* The session goroutines: the deferred calls close before they delete.
LEMMA ForwarderKeepsLocal ==
  ASSUME TypeInv, ForwarderStep, OfForwarder, NEW s \in Sessions, Kept(s)
  PROVE  Kept(s)'
<1>1. CASE \E t \in Sessions, kind \in Kinds, first \in {0, 1} : Register(t, kind, first)
  BY <1>1 DEF Register, RegisterSession, Kept, TypeInv, TypeOK, PoolTypeOK, ForwarderTypeOK
<1>2. CASE \E t \in Sessions : AppHangup(t)
  BY <1>2 DEF AppHangup, Kept, forwarderVars, TypeInv, TypeOK, PoolTypeOK
<1>3. CASE \E t \in Sessions : MarkNil(t)
  BY <1>3 DEF MarkNil, Panic, Kept, forwarderVars, TypeInv, TypeOK, PoolTypeOK
<1>4. CASE \E t \in Sessions : SkipNil(t) \/ MarkClaim(t) \/ WriteClaim(t)
  BY <1>4 DEF SkipNil, MarkClaim, WriteClaim, Kept, poolVars, TypeInv, TypeOK, ForwarderTypeOK, At
<1>5. CASE \E t \in Sessions : \/ ClaimsDone(t) \/ Established(t) \/ Timeout(t) \/ Refuse(t)
                               \/ Reply(t) \/ SendLocal(t) \/ ReadLocalError(t)
                               \/ DeferredSendClose(t) \/ ReadLocal(t)
  BY <1>5 DEF ClaimsDone, Established, Timeout, Refuse, Reply, SendLocal, ReadLocalError,
     DeferredSendClose, ReadLocal, Goto, At, Kept, poolVars, TypeInv, TypeOK, ForwarderTypeOK
<1>6. CASE \E t \in Sessions : Drop(t) \/ DeferredShut(t)
  BY <1>6 DEF Drop, DeferredShut, Goto, At, Kept, TypeInv, TypeOK, PoolTypeOK, ForwarderTypeOK
<1> QED
  BY <1>1, <1>2, <1>3, <1>4, <1>5, <1>6 DEF ForwarderStep, Forward

\* Nothing is registered when the client starts, and every step keeps it.
LEMMA StepLocal ==
  ASSUME TypeInv, [Next]_vars, NEW s \in Sessions, Kept(s)
  PROVE  Kept(s)'
<1>1. CASE PoolStep /\ OfPool
  BY <1>1, PoolKeepsLocal
<1>2. CASE ForwarderStep /\ OfForwarder
  BY <1>2, ForwarderKeepsLocal
<1>3. CASE ~(PoolStep /\ OfPool) /\ ~(ForwarderStep /\ OfForwarder)
  BY <1>3 DEF Next, OfServer, OfNetwork, vars, poolVars, forwarderVars, Kept
<1> QED BY <1>1, <1>2, <1>3

\* However a session ends (CLOSE, abort, failed local write, time-out, its own
\* goroutine, a panic), its local connection is closed when tcpMap forgets it.
THEOREM LocalConnectionsNotLeaked == Spec => []ForgottenIsClosed
<1> DEFINE LocalInv == TypeInv /\ \A s \in Sessions : Kept(s)
<1>1. Init => LocalInv
  BY InitType DEF Init, ForwarderInit, Kept
<1>2. LocalInv /\ [Next]_vars => LocalInv'
  BY StepType, StepLocal
<1>3. LocalInv => ForgottenIsClosed
  BY DEF ForgottenIsClosed, Kept
<1> QED BY <1>1, <1>2, <1>3, PTL DEF Spec
=============================================================================
