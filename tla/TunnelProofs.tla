---------------------------- MODULE TunnelProofs ----------------------------
(***************************************************************************)
(* Proofs about Tunnel, for any number of sessions, channels, connections  *)
(* and units.                                                              *)
(***************************************************************************)
EXTENDS Tunnel, TLAPS, SequenceTheorems

Queues == [Sockets -> Seq(Messages)]

\* What the type invariant needs to be inductive: a goroutine that is past its
\* dial has a connection, one that serves an ack has a session, and the claim
\* loop holds a channel and a connection while it writes.
Pointers ==
  /\ \A c \in Channels : handler[c].pc # "dial" => wsConns[c] # 0
  /\ \A c \in Channels : handler[c].pc \in {"write", "abort"} => handler[c].sess \in Sessions
  /\ \A s \in Sessions : fwd[s].pc = "claim" => fwd[s].ch \in Channels /\ fwd[s].ws \in Epochs

TypeInv == TypeOK /\ Pointers

-----------------------------------------------------------------------------
(* Streams *)

\* Writing a message, or failing to, leaves every stream a sequence of messages.
LEMMA AfterType ==
  ASSUME NEW q \in Queues, NEW w, NEW m \in Messages, NEW ok
  PROVE  After(q, w, m, ok) \in Queues
<1>1. CASE w \in Sockets
  <2>1. Append(q[w], m) \in Seq(Messages)
    BY <1>1, AppendProperties DEF Queues
  <2> QED BY <2>1, <1>1 DEF After, Queues
<1>2. CASE w \notin Sockets
  BY <1>2 DEF After, Queues
<1> QED BY <1>1, <1>2

\* Reading the first message of a stream.
LEMMA ReadType ==
  ASSUME NEW q \in Queues, NEW w \in Sockets, q[w] # << >>
  PROVE  /\ Head(q[w]) \in Messages
         /\ [q EXCEPT ![w] = Tail(@)] \in Queues
<1>1. Head(q[w]) \in Messages /\ Tail(q[w]) \in Seq(Messages)
  BY HeadTailProperties DEF Queues
<1> QED BY <1>1 DEF Queues

\* A message of a known type for one of our sessions is a message.
LEMMA MsgType ==
  ASSUME NEW t \in Types, NEW s \in Sessions, NEW d \in Nat
  PROVE  /\ Msg(t, s, d) \in Messages
         /\ Msg(t, s, d).type = t
         /\ Msg(t, s, d).sess = s
         /\ Msg(t, s, d).data = d
BY DEF Msg, Messages

\* A channel that has dialled has a connection.
LEMMA SocketType ==
  ASSUME TypeInv, NEW c \in Channels, wsConns[c] # 0
  PROVE  Current(c) \in Sockets
BY DEF TypeInv, TypeOK, PoolTypeOK, Current, Sockets, Epochs

\* Both ends write messages only.
LEMMA ClientWriteType ==
  ASSUME TypeInv, NEW w, NEW m \in Messages, NEW ok, ClientWrite(w, m, ok)
  PROVE  WireTypeOK'
<1>1. toServer \in Queues
  BY DEF TypeInv, TypeOK, WireTypeOK, Queues
<1> QED BY <1>1, AfterType DEF TypeInv, TypeOK, WireTypeOK, ClientWrite, Queues

\* The same for the server.
LEMMA ServerWriteType ==
  ASSUME TypeInv, NEW w, NEW m \in Messages, NEW ok, ServerWrite(w, m, ok)
  PROVE  WireTypeOK'
<1>1. toClient \in Queues
  BY DEF TypeInv, TypeOK, WireTypeOK, Queues
<1> QED BY <1>1, AfterType DEF TypeInv, TypeOK, WireTypeOK, ServerWrite, Queues

-----------------------------------------------------------------------------

\* Everything has its type when the two programs start.
LEMMA InitType == Init => TypeInv
<1> SUFFICES ASSUME Init PROVE TypeInv
  OBVIOUS
<1>1. WireTypeOK
  BY DEF Init, WireInit, WireTypeOK, LinkStates
<1>2. PoolTypeOK
  <2>1. wsConns \in [Channels -> 0 .. MaxDials]
    BY MaxDialsAssumption DEF Init, PoolInit
  <2>2. handler \in [Channels -> [pc : HandlerStates, sess : Sessions \cup {NoSession},
                                  first : Nat]]
    BY DEF Init, PoolInit, Idle, HandlerStates
  <2>3. /\ tcpMap \in SUBSET Sessions
        /\ closers \in SUBSET Sessions
        /\ crashed \in BOOLEAN
    BY DEF Init, PoolInit
  <2>4. /\ connInfo \in [Sessions -> Nat \cup {NoInfo}]
        /\ channelMap \in [Sessions -> Channels \cup {NoChannel}]
        /\ boundByChannel \in [Channels -> Sessions \cup {NoSession}]
    BY DEF Init, PoolInit
  <2>5. claimTimes \in [Sessions -> (SUBSET Channels) \cup {NilSet}]
    BY DEF Init, PoolInit
  <2>6. /\ connected \in [Sessions -> {"none", "empty", "full"}]
        /\ conn \in [Sessions -> {"none", "open", "eof", "closed"}]
        /\ appGot \in [Sessions -> Seq(Nat \cup {FailureReply})]
    BY DEF Init, PoolInit
  <2> QED BY <2>1, <2>2, <2>3, <2>4, <2>5, <2>6 DEF PoolTypeOK
<1>3. ForwarderTypeOK
  BY MaxDialsAssumption, NumChannelsAssumption, MaxUpAssumption
     DEF Init, ForwarderInit, ForwarderTypeOK, ForwarderStates
<1>4. ServerTypeOK
  BY MaxDownAssumption DEF Init, ServerInit, ServerTypeOK, TaskStates
<1>5. Pointers
  BY DEF Init, PoolInit, ForwarderInit, Pointers, Idle
<1> QED BY <1>1, <1>2, <1>3, <1>4, <1>5 DEF TypeInv, TypeOK

\* A step of one part leaves the types of the parts it does not touch.
LEMMA PoolKeeps ==
  ASSUME TypeInv, OfPool
  PROVE  /\ ForwarderTypeOK'
         /\ ServerTypeOK'
         /\ \A s \in Sessions : fwd'[s].pc = "claim" =>
              fwd'[s].ch \in Channels /\ fwd'[s].ws \in Epochs
BY DEF TypeInv, TypeOK, Pointers, OfPool, forwarderVars, serverVars, ForwarderTypeOK, ServerTypeOK

\* The same for a step of a forwarder ...
LEMMA ForwarderKeeps ==
  ASSUME TypeInv, OfForwarder
  PROVE  ServerTypeOK'
BY DEF TypeInv, TypeOK, OfForwarder, serverVars, ServerTypeOK

\* ... and of the server.
LEMMA ServerKeeps ==
  ASSUME TypeInv, OfServer
  PROVE  PoolTypeOK' /\ ForwarderTypeOK' /\ Pointers'
BY DEF TypeInv, TypeOK, Pointers, OfServer, poolVars, forwarderVars, PoolTypeOK, ForwarderTypeOK

\* A message that handleChannel reads is a message, and its session one of ours.
LEMMA Reading ==
  ASSUME TypeInv, NEW c \in Channels, NEW t, Reads(c, t)
  PROVE  /\ Incoming(c) \in Messages
         /\ Incoming(c).sess \in Sessions
         /\ Incoming(c).data \in Nat
         /\ Consume(c) => toClient' \in Queues
<1>1. Current(c) \in Sockets
  BY SocketType DEF Reads, TypeInv, Pointers
<1>2. toClient \in Queues
  BY DEF TypeInv, TypeOK, WireTypeOK, Queues
<1>3. toClient[Current(c)] # << >>
  BY DEF Reads
<1>4. /\ Incoming(c) \in Messages
      /\ [toClient EXCEPT ![Current(c)] = Tail(@)] \in Queues
  BY <1>1, <1>2, <1>3, ReadType DEF Incoming
<1> QED BY <1>4 DEF Messages, Consume

\* A new connection is within the bound on dials.
LEMMA DialType ==
  ASSUME TypeInv, NEW c \in Channels, Dial(c), OfPool
  PROVE  TypeInv'
<1>1. WireTypeOK'
  BY DEF TypeInv, TypeOK, WireTypeOK, Dial, LinkStates
<1>2. PoolTypeOK'
  BY MaxDialsAssumption DEF TypeInv, TypeOK, PoolTypeOK, Dial, Idle, HandlerStates
<1>3. Pointers'
  BY PoolKeeps, MaxDialsAssumption
     DEF TypeInv, TypeOK, PoolTypeOK, Pointers, Dial, Idle
<1> QED BY <1>1, <1>2, <1>3, PoolKeeps DEF TypeInv, TypeOK

\* The winner of a race is a channel, and takes the session and first frame with it.
LEMMA WinClaimType ==
  ASSUME TypeInv, NEW c \in Channels, WinClaim(c), OfPool
  PROVE  TypeInv'
<1> DEFINE s == Incoming(c).sess
<1>1. s \in Sessions /\ toClient' \in Queues
  BY Reading DEF WinClaim
<1>2. WireTypeOK'
  BY <1>1 DEF TypeInv, TypeOK, WireTypeOK, WinClaim, Consume, Queues
<1>3. PoolTypeOK'
  <2>1. connInfo[s] \in Nat
    BY <1>1 DEF TypeInv, TypeOK, PoolTypeOK, WinClaim, MayWin
  <2>2. Unmark(claimTimes[s], c) \in (SUBSET Channels) \cup {NilSet}
    BY <1>1 DEF TypeInv, TypeOK, PoolTypeOK, Unmark
  <2> HIDE DEF s
  <2>3. /\ claimTimes' = [claimTimes EXCEPT ![s] = Unmark(@, c)]
        /\ Bind(s, c)
        /\ handler' = [handler EXCEPT ![c] = [pc |-> "write", sess |-> s, first |-> connInfo[s]]]
        /\ UNCHANGED <<wsConns, tcpMap, connected, closers, crashed, conn, appGot>>
    BY DEF WinClaim, s
  <2> QED
    BY <1>1, <2>1, <2>2, <2>3
       DEF TypeInv, TypeOK, PoolTypeOK, Bind, HandlerStates
<1>4. Pointers'
  BY <1>1, PoolKeeps DEF TypeInv, TypeOK, PoolTypeOK, Pointers, WinClaim, Reads
<1> QED BY <1>2, <1>3, <1>4, PoolKeeps DEF TypeInv, TypeOK

\* The other steps of the goroutine of a channel.
LEMMA HandlerType ==
  ASSUME TypeInv, NEW c \in Channels, HandleChannel(c), OfPool
  PROVE  TypeInv'
<1> USE DEF HandlerStates
<1>1. CASE ReadError(c)
  <2>1. WireTypeOK' BY <1>1 DEF TypeInv, TypeOK, WireTypeOK, ReadError, wireVars
  <2>2. PoolTypeOK' BY <1>1 DEF TypeInv, TypeOK, PoolTypeOK, ReadError, Idle
  <2>3. Pointers' BY <1>1, PoolKeeps DEF TypeInv, TypeOK, PoolTypeOK, Pointers, ReadError, Idle
  <2> QED BY <2>1, <2>2, <2>3, PoolKeeps DEF TypeInv, TypeOK
<1>2. CASE WinClaim(c)
  BY <1>2, WinClaimType
<1>3. CASE IgnoreClaim(c)
  <2>1. WireTypeOK'
    BY <1>3, Reading DEF TypeInv, TypeOK, WireTypeOK, IgnoreClaim, Consume, Queues
  <2>2. PoolTypeOK' BY <1>3 DEF TypeInv, TypeOK, PoolTypeOK, IgnoreClaim, poolVars
  <2>3. Pointers' BY <1>3, PoolKeeps DEF TypeInv, Pointers, IgnoreClaim, poolVars
  <2> QED BY <2>1, <2>2, <2>3, PoolKeeps DEF TypeInv, TypeOK
<1>4. CASE WriteTCP(c)
  <2>1. Msg("TCP", handler[c].sess, handler[c].first) \in Messages
    BY <1>4, MsgType DEF TypeInv, TypeOK, PoolTypeOK, Pointers, WriteTCP, Types
  <2>2. PICK ok \in BOOLEAN :
          /\ ClientWrite(Current(c), Msg("TCP", handler[c].sess, handler[c].first), ok)
          /\ handler' = [handler EXCEPT ![c] = IF ok THEN Idle("read")
                                                ELSE [@ EXCEPT !.pc = "abort"]]
    BY <1>4 DEF WriteTCP
  <2>3. WireTypeOK' BY <2>1, <2>2, ClientWriteType
  <2>4. PoolTypeOK'
    <3>1. handler' \in [Channels -> [pc : HandlerStates, sess : Sessions \cup {NoSession},
                                     first : Nat]]
      <4>1. CASE ok BY <2>2, <4>1 DEF TypeInv, TypeOK, PoolTypeOK, Idle
      <4>2. CASE ~ok BY <2>2, <4>2 DEF TypeInv, TypeOK, PoolTypeOK
      <4> QED BY <4>1, <4>2
    <3>2. UNCHANGED <<wsConns, tcpMap, connInfo, claimTimes, connected, channelMap,
                      boundByChannel, closers, crashed, conn, appGot>>
      BY <1>4 DEF WriteTCP
    <3> QED BY <3>1, <3>2 DEF TypeInv, TypeOK, PoolTypeOK
  <2>5. Pointers' BY <1>4, PoolKeeps DEF TypeInv, TypeOK, PoolTypeOK, Pointers, WriteTCP, Idle
  <2> QED BY <2>3, <2>4, <2>5, PoolKeeps DEF TypeInv, TypeOK
<1>5. CASE AbortTCP(c)
  <2>1. WireTypeOK' BY <1>5 DEF TypeInv, TypeOK, WireTypeOK, AbortTCP, wireVars
  <2>2. PoolTypeOK' BY <1>5 DEF TypeInv, TypeOK, PoolTypeOK, AbortTCP, Forget, Idle
  <2>3. Pointers' BY <1>5, PoolKeeps DEF TypeInv, TypeOK, PoolTypeOK, Pointers, AbortTCP, Idle
  <2> QED BY <2>1, <2>2, <2>3, PoolKeeps DEF TypeInv, TypeOK
<1>6. CASE ReadConnected(c)
  <2>1. WireTypeOK'
    BY <1>6, Reading DEF TypeInv, TypeOK, WireTypeOK, ReadConnected, Consume, Queues
  <2>2. PoolTypeOK'
    <3>1. Incoming(c).sess \in Sessions /\ Incoming(c).data \in Nat
      BY <1>6, Reading DEF ReadConnected
    <3> QED BY <1>6, <3>1 DEF TypeInv, TypeOK, PoolTypeOK, ReadConnected
  <2>3. Pointers' BY <1>6, PoolKeeps DEF TypeInv, Pointers, ReadConnected
  <2> QED BY <2>1, <2>2, <2>3, PoolKeeps DEF TypeInv, TypeOK
<1>7. CASE ReadData(c)
  <2>1. WireTypeOK'
    BY <1>7, Reading DEF TypeInv, TypeOK, WireTypeOK, ReadData, Consume, Queues
  <2>2. PoolTypeOK'
    <3>1. Incoming(c).sess \in Sessions /\ Incoming(c).data \in Nat
      BY <1>7, Reading DEF ReadData
    <3> QED BY <1>7, <3>1 DEF TypeInv, TypeOK, PoolTypeOK, ReadData, Receive
  <2>3. Pointers' BY <1>7, PoolKeeps DEF TypeInv, Pointers, ReadData
  <2> QED BY <2>1, <2>2, <2>3, PoolKeeps DEF TypeInv, TypeOK
<1>8. CASE ReadDataFails(c)
  <2>1. WireTypeOK'
    BY <1>8, Reading DEF TypeInv, TypeOK, WireTypeOK, ReadDataFails, Consume, Queues
  <2>2. PoolTypeOK'
    <3>1. Incoming(c).sess \in Sessions /\ Incoming(c).data \in Nat
      BY <1>8, Reading DEF ReadDataFails
    <3> QED BY <1>8, <3>1 DEF TypeInv, TypeOK, PoolTypeOK, ReadDataFails, CloseLocal
  <2>3. Pointers' BY <1>8, PoolKeeps DEF TypeInv, Pointers, ReadDataFails
  <2> QED BY <2>1, <2>2, <2>3, PoolKeeps DEF TypeInv, TypeOK
<1>9. CASE RejectData(c)
  <2>1. WireTypeOK'
    BY <1>9, Reading DEF TypeInv, TypeOK, WireTypeOK, RejectData, Consume, Queues
  <2>2. PoolTypeOK'
    <3>1. Incoming(c).sess \in Sessions /\ Incoming(c).data \in Nat
      BY <1>9, Reading DEF RejectData
    <3> QED BY <1>9, <3>1 DEF TypeInv, TypeOK, PoolTypeOK, RejectData
  <2>3. Pointers' BY <1>9, PoolKeeps DEF TypeInv, Pointers, RejectData
  <2> QED BY <2>1, <2>2, <2>3, PoolKeeps DEF TypeInv, TypeOK
<1>10. CASE ReadClose(c)
  <2>1. WireTypeOK'
    BY <1>10, Reading DEF TypeInv, TypeOK, WireTypeOK, ReadClose, Consume, Queues
  <2>2. PoolTypeOK'
    <3>1. Incoming(c).sess \in Sessions /\ Incoming(c).data \in Nat
      BY <1>10, Reading DEF ReadClose
    <3> QED BY <1>10, <3>1 DEF TypeInv, TypeOK, PoolTypeOK, ReadClose, Forget
  <2>3. Pointers' BY <1>10, PoolKeeps DEF TypeInv, Pointers, ReadClose
  <2> QED BY <2>1, <2>2, <2>3, PoolKeeps DEF TypeInv, TypeOK
<1> QED
  BY <1>1, <1>2, <1>3, <1>4, <1>5, <1>6, <1>7, <1>8, <1>9, <1>10 DEF HandleChannel

\* SendClose and SendData write a message at most.
LEMMA SendCloseType ==
  ASSUME TypeInv, NEW s \in Sessions, SendClose(s)
  PROVE  WireTypeOK'
<1>1. Msg("CLOSE", s, 0) \in Messages
  BY MsgType DEF Types
<1> QED
  BY <1>1, ClientWriteType DEF TypeInv, TypeOK, WireTypeOK, SendClose, wireVars

\* SendData writes a message, or nothing.
LEMMA SendDataType ==
  ASSUME TypeInv, NEW s \in Sessions, NEW unit \in Nat, NEW ok, SendData(s, unit, ok)
  PROVE  WireTypeOK'
<1>1. Msg("DATA", s, unit) \in Messages
  BY MsgType DEF Types
<1> QED
  BY <1>1, ClientWriteType DEF TypeInv, TypeOK, WireTypeOK, SendData, wireVars

\* The goroutines started with "go p.SendClose(id)".
LEMMA CloserType ==
  ASSUME TypeInv, NEW s \in Sessions, RunCloser(s), OfPool
  PROVE  TypeInv'
<1>1. WireTypeOK' BY SendCloseType DEF RunCloser
<1>2. PoolTypeOK' BY DEF TypeInv, TypeOK, PoolTypeOK, RunCloser
<1>3. Pointers' BY PoolKeeps DEF TypeInv, Pointers, RunCloser
<1> QED BY <1>1, <1>2, <1>3, PoolKeeps DEF TypeInv, TypeOK

\* An app gets payload and replies.
LEMMA WriteReplyType ==
  ASSUME TypeInv, NEW s \in Sessions, NEW ok, NEW reply \in Nat \cup {FailureReply},
         WriteReply(s, reply, ok)
  PROVE  appGot' \in [Sessions -> Seq(Nat \cup {FailureReply})]
<1>1. Append(appGot[s], reply) \in Seq(Nat \cup {FailureReply})
  BY AppendProperties DEF TypeInv, TypeOK, PoolTypeOK
<1> QED BY <1>1 DEF TypeInv, TypeOK, PoolTypeOK, WriteReply, Receive

\* The steps of the goroutine that owns a session, by what they write.
LEMMA ForwardType ==
  ASSUME TypeInv, NEW s \in Sessions, Forward(s), OfForwarder
  PROVE  TypeInv'
<1> USE NumChannelsAssumption, MaxDialsAssumption DEF ForwarderStates, At
<1>1. CASE SkipNil(s)
  <2>1. WireTypeOK' BY <1>1 DEF TypeInv, TypeOK, WireTypeOK, SkipNil, wireVars
  <2>2. PoolTypeOK' BY <1>1 DEF TypeInv, TypeOK, PoolTypeOK, SkipNil, poolVars
  <2>3. ForwarderTypeOK' BY <1>1 DEF TypeInv, TypeOK, ForwarderTypeOK, SkipNil, Goto
  <2>4. Pointers' BY <1>1 DEF TypeInv, TypeOK, Pointers, PoolTypeOK, ForwarderTypeOK, SkipNil, Goto, poolVars
  <2> QED BY <2>1, <2>2, <2>3, <2>4, ForwarderKeeps DEF TypeInv, TypeOK
<1>2. CASE MarkClaim(s)
  <2>1. WireTypeOK' BY <1>2 DEF TypeInv, TypeOK, WireTypeOK, MarkClaim, wireVars
  <2>2. PoolTypeOK' BY <1>2 DEF TypeInv, TypeOK, PoolTypeOK, MarkClaim, poolVars, ForwarderTypeOK, Channels, Mark
  <2>3. ForwarderTypeOK'
    <3>1. wsConns[fwd[s].ch] \in 0 .. MaxDials
      BY <1>2 DEF TypeInv, TypeOK, PoolTypeOK, ForwarderTypeOK, MarkClaim, Channels
    <3> DEFINE Frame == [pc : ForwarderStates, kind : Kinds \cup {"none"},
                         ch : 0 .. NumChannels, ws : 0 .. MaxDials]
               next == [fwd[s] EXCEPT !.pc = "claim", !.ws = wsConns[fwd[s].ch]]
    <3>2. fwd[s] \in Frame BY DEF TypeInv, TypeOK, ForwarderTypeOK
    <3>3. next \in Frame BY <3>1, <3>2
    <3>4. fwd' = [fwd EXCEPT ![s] = next] /\ UNCHANGED appSent
      BY <1>2 DEF MarkClaim
    <3> QED BY <3>3, <3>4 DEF TypeInv, TypeOK, ForwarderTypeOK
  <2>4. Pointers' BY <1>2 DEF TypeInv, TypeOK, Pointers, PoolTypeOK, ForwarderTypeOK, MarkClaim, Goto, poolVars, Mark, Channels, Epochs
  <2> QED BY <2>1, <2>2, <2>3, <2>4, ForwarderKeeps DEF TypeInv, TypeOK
<1>3. CASE MarkNil(s)
  <2>1. WireTypeOK' BY <1>3 DEF TypeInv, TypeOK, WireTypeOK, MarkNil, wireVars
  <2>2. PoolTypeOK' BY <1>3 DEF TypeInv, TypeOK, PoolTypeOK, MarkNil, poolVars, Panic
  <2>3. ForwarderTypeOK' BY <1>3 DEF TypeInv, TypeOK, ForwarderTypeOK, MarkNil, Goto, forwarderVars
  <2>4. Pointers' BY <1>3 DEF TypeInv, TypeOK, Pointers, PoolTypeOK, ForwarderTypeOK, MarkNil, Goto, poolVars, forwarderVars
  <2> QED BY <2>1, <2>2, <2>3, <2>4, ForwarderKeeps DEF TypeInv, TypeOK
<1>4. CASE WriteClaim(s)
  <2>1. WireTypeOK'
    <3>1. Msg("CLAIM", s, 0) \in Messages BY MsgType DEF Types
    <3> QED BY <1>4, <3>1, ClientWriteType DEF WriteClaim
  <2>2. PoolTypeOK' BY <1>4 DEF TypeInv, TypeOK, PoolTypeOK, WriteClaim, poolVars
  <2>3. ForwarderTypeOK'
    BY <1>4 DEF TypeInv, TypeOK, Pointers, ForwarderTypeOK, WriteClaim, Channels
  <2>4. Pointers' BY <1>4 DEF TypeInv, TypeOK, Pointers, PoolTypeOK, ForwarderTypeOK, WriteClaim, Goto, poolVars
  <2> QED BY <2>1, <2>2, <2>3, <2>4, ForwarderKeeps DEF TypeInv, TypeOK
<1>5. CASE ClaimsDone(s)
  <2>1. WireTypeOK' BY <1>5 DEF TypeInv, TypeOK, WireTypeOK, ClaimsDone, wireVars
  <2>2. PoolTypeOK' BY <1>5 DEF TypeInv, TypeOK, PoolTypeOK, ClaimsDone, poolVars
  <2>3. ForwarderTypeOK' BY <1>5 DEF TypeInv, TypeOK, ForwarderTypeOK, ClaimsDone, Goto
  <2>4. Pointers' BY <1>5 DEF TypeInv, TypeOK, Pointers, PoolTypeOK, ForwarderTypeOK, ClaimsDone, Goto, poolVars
  <2> QED BY <2>1, <2>2, <2>3, <2>4, ForwarderKeeps DEF TypeInv, TypeOK
<1>6. CASE Established(s)
  <2>1. WireTypeOK' BY <1>6 DEF TypeInv, TypeOK, WireTypeOK, Established, wireVars
  <2>2. PoolTypeOK' BY <1>6 DEF TypeInv, TypeOK, PoolTypeOK, Established, poolVars
  <2>3. ForwarderTypeOK' BY <1>6 DEF TypeInv, TypeOK, ForwarderTypeOK, Established, Goto
  <2>4. Pointers' BY <1>6 DEF TypeInv, TypeOK, Pointers, PoolTypeOK, ForwarderTypeOK, Established, Goto, poolVars
  <2> QED BY <2>1, <2>2, <2>3, <2>4, ForwarderKeeps DEF TypeInv, TypeOK
<1>7. CASE Timeout(s)
  <2>1. WireTypeOK' BY <1>7 DEF TypeInv, TypeOK, WireTypeOK, Timeout, wireVars
  <2>2. PoolTypeOK' BY <1>7 DEF TypeInv, TypeOK, PoolTypeOK, Timeout, poolVars
  <2>3. ForwarderTypeOK' BY <1>7 DEF TypeInv, TypeOK, ForwarderTypeOK, Timeout, Goto
  <2>4. Pointers' BY <1>7 DEF TypeInv, TypeOK, Pointers, PoolTypeOK, ForwarderTypeOK, Timeout, Goto, poolVars
  <2> QED BY <2>1, <2>2, <2>3, <2>4, ForwarderKeeps DEF TypeInv, TypeOK
<1>8. CASE Refuse(s)
  <2>1. WireTypeOK' BY <1>8 DEF TypeInv, TypeOK, WireTypeOK, Refuse, wireVars
  <2>2. PoolTypeOK'
    <3>1. appGot' \in [Sessions -> Seq(Nat \cup {FailureReply})]
      BY <1>8, WriteReplyType DEF Refuse, SuccessReply
    <3> QED BY <1>8, <3>1 DEF TypeInv, TypeOK, PoolTypeOK, Refuse
  <2>3. ForwarderTypeOK' BY <1>8 DEF TypeInv, TypeOK, ForwarderTypeOK, Refuse, Goto
  <2>4. Pointers' BY <1>8 DEF TypeInv, TypeOK, Pointers, PoolTypeOK, ForwarderTypeOK, Refuse, Goto, poolVars
  <2> QED BY <2>1, <2>2, <2>3, <2>4, ForwarderKeeps DEF TypeInv, TypeOK
<1>9. CASE Drop(s)
  <2>1. WireTypeOK' BY <1>9 DEF TypeInv, TypeOK, WireTypeOK, Drop, wireVars
  <2>2. PoolTypeOK' BY <1>9 DEF TypeInv, TypeOK, PoolTypeOK, Drop, poolVars
  <2>3. ForwarderTypeOK' BY <1>9 DEF TypeInv, TypeOK, ForwarderTypeOK, Drop, Goto
  <2>4. Pointers' BY <1>9 DEF TypeInv, TypeOK, Pointers, PoolTypeOK, ForwarderTypeOK, Drop, Goto, poolVars
  <2> QED BY <2>1, <2>2, <2>3, <2>4, ForwarderKeeps DEF TypeInv, TypeOK
<1>10. CASE Reply(s)
  <2>1. WireTypeOK' BY <1>10 DEF TypeInv, TypeOK, WireTypeOK, Reply, wireVars
  <2>2. PoolTypeOK'
    <3>1. appGot' \in [Sessions -> Seq(Nat \cup {FailureReply})]
      BY <1>10, WriteReplyType DEF Reply, SuccessReply
    <3> QED BY <1>10, <3>1 DEF TypeInv, TypeOK, PoolTypeOK, Reply
  <2>3. ForwarderTypeOK' BY <1>10 DEF TypeInv, TypeOK, ForwarderTypeOK, Reply, Goto
  <2>4. Pointers' BY <1>10 DEF TypeInv, TypeOK, Pointers, PoolTypeOK, ForwarderTypeOK, Reply, Goto, poolVars
  <2> QED BY <2>1, <2>2, <2>3, <2>4, ForwarderKeeps DEF TypeInv, TypeOK
<1>11. CASE SendLocal(s)
  <2>1. WireTypeOK'
    <3>1. appSent[s] \in Nat BY DEF TypeInv, TypeOK, ForwarderTypeOK
    <3> QED BY <1>11, <3>1, SendDataType DEF SendLocal
  <2>2. PoolTypeOK' BY <1>11 DEF TypeInv, TypeOK, PoolTypeOK, SendLocal, poolVars
  <2>3. ForwarderTypeOK' BY <1>11 DEF TypeInv, TypeOK, ForwarderTypeOK, SendLocal, Goto, AfterSend
  <2>4. Pointers' BY <1>11 DEF TypeInv, TypeOK, Pointers, PoolTypeOK, ForwarderTypeOK, SendLocal, Goto, poolVars, AfterSend
  <2> QED BY <2>1, <2>2, <2>3, <2>4, ForwarderKeeps DEF TypeInv, TypeOK
<1>12. CASE ReadLocalError(s)
  <2>1. WireTypeOK' BY <1>12 DEF TypeInv, TypeOK, WireTypeOK, ReadLocalError, wireVars
  <2>2. PoolTypeOK' BY <1>12 DEF TypeInv, TypeOK, PoolTypeOK, ReadLocalError, poolVars
  <2>3. ForwarderTypeOK' BY <1>12 DEF TypeInv, TypeOK, ForwarderTypeOK, ReadLocalError, Goto
  <2>4. Pointers' BY <1>12 DEF TypeInv, TypeOK, Pointers, PoolTypeOK, ForwarderTypeOK, ReadLocalError, Goto, poolVars
  <2> QED BY <2>1, <2>2, <2>3, <2>4, ForwarderKeeps DEF TypeInv, TypeOK
<1>13. CASE DeferredSendClose(s)
  <2>1. WireTypeOK' BY <1>13, SendCloseType DEF DeferredSendClose
  <2>2. PoolTypeOK' BY <1>13 DEF TypeInv, TypeOK, PoolTypeOK, DeferredSendClose, poolVars
  <2>3. ForwarderTypeOK' BY <1>13 DEF TypeInv, TypeOK, ForwarderTypeOK, DeferredSendClose, Goto
  <2>4. Pointers' BY <1>13 DEF TypeInv, TypeOK, Pointers, PoolTypeOK, ForwarderTypeOK, DeferredSendClose, Goto, poolVars
  <2> QED BY <2>1, <2>2, <2>3, <2>4, ForwarderKeeps DEF TypeInv, TypeOK
<1>14. CASE DeferredShut(s)
  <2>1. WireTypeOK' BY <1>14 DEF TypeInv, TypeOK, WireTypeOK, DeferredShut, wireVars
  <2>2. PoolTypeOK' BY <1>14 DEF TypeInv, TypeOK, PoolTypeOK, DeferredShut, poolVars
  <2>3. ForwarderTypeOK' BY <1>14 DEF TypeInv, TypeOK, ForwarderTypeOK, DeferredShut, Goto
  <2>4. Pointers' BY <1>14 DEF TypeInv, TypeOK, Pointers, PoolTypeOK, ForwarderTypeOK, DeferredShut, Goto, poolVars
  <2> QED BY <2>1, <2>2, <2>3, <2>4, ForwarderKeeps DEF TypeInv, TypeOK
<1> QED
  BY <1>1, <1>2, <1>3, <1>4, <1>5, <1>6, <1>7, <1>8, <1>9, <1>10, <1>11, <1>12, <1>13, <1>14 DEF Forward

\* A new session, a read of a local connection, an app that hangs up.
LEMMA AppType ==
  ASSUME TypeInv, OfForwarder, NEW s \in Sessions,
         \/ \E kind \in Kinds, first \in {0, 1} : Register(s, kind, first)
         \/ ReadLocal(s)
         \/ AppHangup(s)
  PROVE  TypeInv'
<1> USE NumChannelsAssumption, MaxDialsAssumption, MaxUpAssumption DEF ForwarderStates, At
<1>1. ASSUME NEW kind \in Kinds, NEW first \in {0, 1}, Register(s, kind, first)
      PROVE  TypeInv'
  <2>1. WireTypeOK' BY <1>1 DEF TypeInv, TypeOK, WireTypeOK, Register, wireVars
  <2>2. PoolTypeOK' BY <1>1 DEF TypeInv, TypeOK, PoolTypeOK, Register, poolVars, RegisterSession, NewTimes
  <2>3. ForwarderTypeOK' BY <1>1 DEF TypeInv, TypeOK, ForwarderTypeOK, Register, Goto
  <2>4. Pointers' BY <1>1 DEF TypeInv, TypeOK, Pointers, PoolTypeOK, ForwarderTypeOK, Register, Goto, poolVars
  <2> QED BY <2>1, <2>2, <2>3, <2>4, ForwarderKeeps DEF TypeInv, TypeOK
<1>2. CASE ReadLocal(s)
  <2>1. WireTypeOK' BY <1>2 DEF TypeInv, TypeOK, WireTypeOK, ReadLocal, wireVars
  <2>2. PoolTypeOK' BY <1>2 DEF TypeInv, TypeOK, PoolTypeOK, ReadLocal, poolVars
  <2>3. ForwarderTypeOK' BY <1>2 DEF TypeInv, TypeOK, ForwarderTypeOK, ReadLocal, Goto
  <2>4. Pointers' BY <1>2 DEF TypeInv, TypeOK, Pointers, PoolTypeOK, ForwarderTypeOK, ReadLocal, Goto, poolVars
  <2> QED BY <2>1, <2>2, <2>3, <2>4, ForwarderKeeps DEF TypeInv, TypeOK
<1>3. CASE AppHangup(s)
  <2>1. WireTypeOK' BY <1>3 DEF TypeInv, TypeOK, WireTypeOK, AppHangup, wireVars
  <2>2. PoolTypeOK' BY <1>3 DEF TypeInv, TypeOK, PoolTypeOK, AppHangup, poolVars
  <2>3. ForwarderTypeOK' BY <1>3 DEF TypeInv, TypeOK, ForwarderTypeOK, AppHangup, Goto, forwarderVars
  <2>4. Pointers' BY <1>3 DEF TypeInv, TypeOK, Pointers, PoolTypeOK, ForwarderTypeOK, AppHangup, Goto, poolVars, forwarderVars
  <2> QED BY <2>1, <2>2, <2>3, <2>4, ForwarderKeeps DEF TypeInv, TypeOK
<1> QED BY <1>1, <1>2, <1>3

\* A request that handleWebSocket reads is a message.
LEMMA Serving ==
  ASSUME TypeInv, NEW w \in Sockets, NEW t, Serves(w, t)
  PROVE  /\ Request(w) \in Messages
         /\ Request(w).type = t
         /\ Request(w).sess \in Sessions
         /\ Request(w).data \in Nat
         /\ [toServer EXCEPT ![w] = Tail(@)] \in Queues
<1>1. toServer \in Queues
  BY DEF TypeInv, TypeOK, WireTypeOK, Queues
<1>2. Request(w) \in Messages /\ [toServer EXCEPT ![w] = Tail(@)] \in Queues
  BY <1>1, ReadType DEF Serves, Request
<1> QED BY <1>2 DEF Messages, Serves, Request

\* A target gets payload.
LEMMA DeliverType ==
  ASSUME TypeInv, NEW s \in Sessions, NEW unit \in Nat, Deliver(s, unit)
  PROVE  targetGot' \in [Sessions -> Seq(Nat)]
<1>1. Append(targetGot[s], unit) \in Seq(Nat)
  BY AppendProperties DEF TypeInv, TypeOK, ServerTypeOK
<1> QED BY <1>1 DEF TypeInv, TypeOK, ServerTypeOK, Deliver

\* The read loop of a server connection, by message.
LEMMA ServerLoopType ==
  ASSUME TypeInv, NEW w \in Sockets, HandleWebSocket(w), OfServer
  PROVE  TypeInv'
<1> USE DEF TaskStates
<1>1. CASE ServeClaim(w)
  <2>1. WireTypeOK'
    <3>1. Msg("CLAIM_ACK", Request(w).sess, 0) \in Messages
      BY <1>1, Serving, MsgType DEF ServeClaim, Types
    <3>2. toServer' \in Queues
      BY <1>1, Serving DEF ServeClaim
    <3>3. toClient' \in Queues
      BY <1>1, <3>1, AfterType DEF TypeInv, TypeOK, WireTypeOK, ServeClaim, Queues
    <3> QED BY <1>1, <3>2, <3>3 DEF TypeInv, TypeOK, WireTypeOK, ServeClaim, Queues
  <2>2. ServerTypeOK' BY <1>1 DEF TypeInv, TypeOK, ServerTypeOK, ServeClaim, serverVars
  <2> QED BY <2>1, <2>2, ServerKeeps DEF TypeInv, TypeOK
<1>2. CASE ServeTCP(w)
  <2>1. WireTypeOK'
    BY <1>2, Serving DEF TypeInv, TypeOK, WireTypeOK, ServeTCP, ConsumeRequest, Queues
  <2>2. ServerTypeOK'
    <3>1. Request(w).sess \in Sessions /\ Request(w).data \in Nat
      BY <1>2, Serving DEF ServeTCP
    <3> QED BY <1>2, <3>1 DEF TypeInv, TypeOK, ServerTypeOK, ServeTCP, serverVars
  <2> QED BY <2>1, <2>2, ServerKeeps DEF TypeInv, TypeOK
<1>3. CASE ServeData(w)
  <2>1. WireTypeOK'
    BY <1>3, Serving DEF TypeInv, TypeOK, WireTypeOK, ServeData, ConsumeRequest, Queues
  <2>2. ServerTypeOK'
    <3>1. targetGot' \in [Sessions -> Seq(Nat)]
      BY <1>3, Serving, DeliverType DEF ServeData
    <3> QED BY <1>3, <3>1 DEF TypeInv, TypeOK, ServerTypeOK, ServeData
  <2> QED BY <2>1, <2>2, ServerKeeps DEF TypeInv, TypeOK
<1>4. CASE ServeDataFails(w)
  <2>1. WireTypeOK'
    BY <1>4, Serving DEF TypeInv, TypeOK, WireTypeOK, ServeDataFails, ConsumeRequest, Queues
  <2>2. ServerTypeOK'
    <3>1. Request(w).sess \in Sessions /\ Request(w).data \in Nat
      BY <1>4, Serving DEF ServeDataFails
    <3> QED BY <1>4, <3>1 DEF TypeInv, TypeOK, ServerTypeOK, ServeDataFails, serverVars
  <2> QED BY <2>1, <2>2, ServerKeeps DEF TypeInv, TypeOK
<1>5. CASE DropData(w)
  <2>1. WireTypeOK'
    BY <1>5, Serving DEF TypeInv, TypeOK, WireTypeOK, DropData, ConsumeRequest, Queues
  <2>2. ServerTypeOK'
    <3>1. Request(w).sess \in Sessions /\ Request(w).data \in Nat
      BY <1>5, Serving DEF DropData
    <3> QED BY <1>5, <3>1 DEF TypeInv, TypeOK, ServerTypeOK, DropData, serverVars
  <2> QED BY <2>1, <2>2, ServerKeeps DEF TypeInv, TypeOK
<1>6. CASE ServeClose(w)
  <2>1. WireTypeOK'
    BY <1>6, Serving DEF TypeInv, TypeOK, WireTypeOK, ServeClose, ConsumeRequest, Queues
  <2>2. ServerTypeOK'
    <3>1. Request(w).sess \in Sessions /\ Request(w).data \in Nat
      BY <1>6, Serving DEF ServeClose
    <3> QED BY <1>6, <3>1 DEF TypeInv, TypeOK, ServerTypeOK, ServeClose, serverVars
  <2> QED BY <2>1, <2>2, ServerKeeps DEF TypeInv, TypeOK
<1>7. CASE Cleanup(w)
  <2>1. WireTypeOK' BY <1>7 DEF TypeInv, TypeOK, WireTypeOK, Cleanup, LinkStates
  <2>2. ServerTypeOK' BY <1>7 DEF TypeInv, TypeOK, ServerTypeOK, Cleanup, serverVars
  <2> QED BY <2>1, <2>2, ServerKeeps DEF TypeInv, TypeOK
<1> QED
  BY <1>1, <1>2, <1>3, <1>4, <1>5, <1>6, <1>7 DEF HandleWebSocket

\* The server writes CLOSE.
LEMMA TellClientType ==
  ASSUME TypeInv, NEW w, NEW s \in Sessions, TellClient(w, s)
  PROVE  WireTypeOK'
<1>1. Msg("CLOSE", s, 0) \in Messages
  BY MsgType DEF Types
<1> QED BY <1>1, ServerWriteType DEF TellClient

\* The nested updates of the server's tables
Task == [pc : TaskStates, first : Nat]

\* A goroutine of the server moves on.
LEMMA SetTaskType ==
  ASSUME TypeInv, NEW w \in Sockets, NEW s \in Sessions, NEW pc \in TaskStates,
         SetTask(w, s, pc)
  PROVE  task' \in [Sockets -> [Sessions -> Task]]
<1> DEFINE row == [task[w] EXCEPT ![s] = [@ EXCEPT !.pc = pc]]
<1>1. task[w] \in [Sessions -> Task] BY DEF TypeInv, TypeOK, ServerTypeOK, Task
<1>2. [task[w][s] EXCEPT !.pc = pc] \in Task BY <1>1 DEF Task
<1>3. row \in [Sessions -> Task] BY <1>1, <1>2
<1>4. task' = [task EXCEPT ![w] = row] BY DEF SetTask
<1> QED BY <1>3, <1>4 DEF TypeInv, TypeOK, ServerTypeOK, Task

ConnStates == {"none", "open", "eof", "reset", "closed"}

\* A connection to a target changes state.
LEMMA SetConnType ==
  ASSUME TypeInv, NEW w \in Sockets, NEW s \in Sessions, NEW state \in ConnStates,
         tconn' = [tconn EXCEPT ![w][s] = state]
  PROVE  tconn' \in [Sockets -> [Sessions -> ConnStates]]
<1> DEFINE row == [tconn[w] EXCEPT ![s] = state]
<1>1. row \in [Sessions -> ConnStates] BY DEF TypeInv, TypeOK, ServerTypeOK, ConnStates
<1>2. tconn' = [tconn EXCEPT ![w] = row] OBVIOUS
<1> QED BY <1>1, <1>2 DEF TypeInv, TypeOK, ServerTypeOK, ConnStates

\* The deferred function of such a goroutine.
LEMMA EndType ==
  ASSUME TypeInv, NEW w \in Sockets, NEW s \in Sessions, End(w, s),
         UNCHANGED <<targetGot, targetSent>>
  PROVE  ServerTypeOK'
<1>1. task' \in [Sockets -> [Sessions -> Task]]
  BY SetTaskType DEF End, TaskStates
<1>2. tconn' \in [Sockets -> [Sessions -> ConnStates]]
  BY SetConnType DEF End, ConnStates
<1>3. conns' \in [Sockets -> SUBSET Sessions]
  BY DEF TypeInv, TypeOK, ServerTypeOK, End
<1> QED BY <1>1, <1>2, <1>3 DEF TypeInv, TypeOK, ServerTypeOK, Task, ConnStates

\* The goroutine of a connection to a target, and the target.
LEMMA TaskType ==
  ASSUME TypeInv, NEW w \in Sockets, NEW s \in Sessions, OfServer,
         HandleTCPConnection(w, s) \/ PumpData(w, s) \/ TargetHangup(w, s)
  PROVE  TypeInv'
<1>1. CASE DialTarget(w, s)
  <2>1. WireTypeOK' BY <1>1 DEF TypeInv, TypeOK, WireTypeOK, DialTarget, wireVars
  <2>2. task' \in [Sockets -> [Sessions -> Task]]
    BY <1>1, SetTaskType DEF DialTarget, AfterDial, TaskStates
  <2>3. tconn' \in [Sockets -> [Sessions -> ConnStates]]
    BY <1>1, SetConnType DEF DialTarget, ConnStates
  <2>4. ServerTypeOK'
    BY <1>1, <2>2, <2>3 DEF TypeInv, TypeOK, ServerTypeOK, DialTarget, Task, ConnStates
  <2> QED BY <2>1, <2>4, ServerKeeps DEF TypeInv, TypeOK
<1>2. CASE DialTargetFails(w, s)
  <2>1. WireTypeOK' BY <1>2, TellClientType DEF DialTargetFails
  <2>2. ServerTypeOK'
    <3>1. task' \in [Sockets -> [Sessions -> Task]]
      BY <1>2, SetTaskType DEF DialTargetFails, TaskStates
    <3> QED BY <1>2, <3>1 DEF TypeInv, TypeOK, ServerTypeOK, DialTargetFails, Task
  <2> QED BY <2>1, <2>2, ServerKeeps DEF TypeInv, TypeOK
<1>3. CASE WriteFirstFrame(w, s)
  <2>1. WireTypeOK' BY <1>3 DEF TypeInv, TypeOK, WireTypeOK, WriteFirstFrame, wireVars
  <2>2. ServerTypeOK'
    <3>1. targetGot' \in [Sessions -> Seq(Nat)]
      <4>1. task[w][s].first \in Nat BY DEF TypeInv, TypeOK, ServerTypeOK
      <4> QED BY <1>3, <4>1, DeliverType DEF WriteFirstFrame
    <3>2. task' \in [Sockets -> [Sessions -> Task]]
      BY <1>3, SetTaskType DEF WriteFirstFrame, TaskStates
    <3> QED BY <1>3, <3>1, <3>2 DEF TypeInv, TypeOK, ServerTypeOK, WriteFirstFrame, Task
  <2> QED BY <2>1, <2>2, ServerKeeps DEF TypeInv, TypeOK
<1>4. CASE WriteFirstFrameFails(w, s)
  <2>1. WireTypeOK' BY <1>4, TellClientType DEF WriteFirstFrameFails
  <2>2. ServerTypeOK' BY <1>4, EndType DEF WriteFirstFrameFails
  <2> QED BY <2>1, <2>2, ServerKeeps DEF TypeInv, TypeOK
<1>5. CASE Notify(w, s)
  <2>1. WireTypeOK'
    <3>1. Msg("CONNECTED", s, 0) \in Messages BY MsgType DEF Types
    <3> QED BY <1>5, <3>1, ServerWriteType DEF Notify
  <2>2. ServerTypeOK'
    <3>1. task' \in [Sockets -> [Sessions -> Task]]
      BY <1>5, SetTaskType DEF Notify, TaskStates
    <3> QED BY <1>5, <3>1 DEF TypeInv, TypeOK, ServerTypeOK, Notify, Task
  <2> QED BY <2>1, <2>2, ServerKeeps DEF TypeInv, TypeOK
<1>6. CASE PumpReadError(w, s)
  <2>1. WireTypeOK' BY <1>6, TellClientType DEF PumpReadError
  <2>2. ServerTypeOK' BY <1>6, EndType DEF PumpReadError
  <2> QED BY <2>1, <2>2, ServerKeeps DEF TypeInv, TypeOK
<1>7. CASE PumpCancelled(w, s)
  <2>1. WireTypeOK' BY <1>7 DEF TypeInv, TypeOK, WireTypeOK, PumpCancelled, wireVars
  <2>2. ServerTypeOK' BY <1>7, EndType DEF PumpCancelled
  <2> QED BY <2>1, <2>2, ServerKeeps DEF TypeInv, TypeOK
<1>8. CASE TargetHangup(w, s)
  <2>1. WireTypeOK' BY <1>8 DEF TypeInv, TypeOK, WireTypeOK, TargetHangup, wireVars
  <2>2. tconn' \in [Sockets -> [Sessions -> ConnStates]]
    BY <1>8, SetConnType DEF TargetHangup, ConnStates
  <2>3. ServerTypeOK'
    BY <1>8, <2>2 DEF TypeInv, TypeOK, ServerTypeOK, TargetHangup, ConnStates
  <2> QED BY <2>1, <2>3, ServerKeeps DEF TypeInv, TypeOK
<1>9. CASE PumpData(w, s)
  <2>1. targetSent[s] \in Nat BY MaxDownAssumption DEF TypeInv, TypeOK, ServerTypeOK
  <2>2. PICK ok \in BOOLEAN :
          /\ ServerWrite(w, Msg("DATA", s, targetSent[s] + 1), ok)
          /\ IF ok THEN UNCHANGED <<conns, task, tconn>> ELSE End(w, s)
    BY <1>9 DEF PumpData
  <2>3. WireTypeOK'
    <3>1. Msg("DATA", s, targetSent[s] + 1) \in Messages BY <2>1, MsgType DEF Types
    <3> QED BY <2>2, <3>1, ServerWriteType
  <2>4. ServerTypeOK'
    <3>1. targetSent' \in [Sessions -> 0 .. MaxDown] /\ targetGot' = targetGot
      BY <1>9, MaxDownAssumption DEF TypeInv, TypeOK, ServerTypeOK, PumpData
    <3>2. CASE ok BY <2>2, <3>1, <3>2 DEF TypeInv, TypeOK, ServerTypeOK
    <3>3. CASE ~ok
      <4>1. End(w, s) BY <2>2, <3>3
      <4>2. task' \in [Sockets -> [Sessions -> Task]]
        BY <4>1, SetTaskType DEF End, TaskStates
      <4>3. tconn' \in [Sockets -> [Sessions -> ConnStates]]
        BY <4>1, SetConnType DEF End, ConnStates
      <4>4. conns' \in [Sockets -> SUBSET Sessions]
        BY <4>1 DEF TypeInv, TypeOK, ServerTypeOK, End
      <4> QED BY <3>1, <4>2, <4>3, <4>4 DEF TypeInv, TypeOK, ServerTypeOK, Task, ConnStates
    <3> QED BY <3>2, <3>3
  <2> QED BY <2>3, <2>4, ServerKeeps DEF TypeInv, TypeOK
<1> QED
  BY <1>1, <1>2, <1>3, <1>4, <1>5, <1>6, <1>7, <1>8, <1>9 DEF HandleTCPConnection

\* A connection that breaks keeps prefixes of its two streams.
LEMMA BreakType ==
  ASSUME TypeInv, NEW w \in Sockets, Break(w), OfNetwork
  PROVE  TypeInv'
<1>1. ASSUME NEW q \in Seq(Messages), NEW i \in 0 .. Len(q)
      PROVE  SubSeq(q, 1, i) \in Seq(Messages)
  BY <1>1, SubSeqProperties
<1>2. WireTypeOK'
  <2>1. PICK i \in 0 .. Len(toServer[w]), j \in 0 .. Len(toClient[w]) :
          /\ toServer' = [toServer EXCEPT ![w] = SubSeq(@, 1, i)]
          /\ toClient' = [toClient EXCEPT ![w] = SubSeq(@, 1, j)]
    BY DEF Break
  <2>2. toServer[w] \in Seq(Messages) /\ toClient[w] \in Seq(Messages)
    BY DEF TypeInv, TypeOK, WireTypeOK
  <2>3. SubSeq(toServer[w], 1, i) \in Seq(Messages) /\ SubSeq(toClient[w], 1, j) \in Seq(Messages)
    BY <1>1, <2>2
  <2>4. link' \in [Sockets -> LinkStates]
    BY DEF Break, TypeInv, TypeOK, WireTypeOK, LinkStates
  <2> QED BY <2>1, <2>3, <2>4 DEF TypeInv, TypeOK, WireTypeOK
<1>3. OfServer /\ UNCHANGED serverVars
  BY DEF OfNetwork, OfServer
<1> QED
  BY <1>2, <1>3, ServerKeeps DEF TypeInv, TypeOK, ServerTypeOK, serverVars

-----------------------------------------------------------------------------

\* Every step keeps every type: one lemma per part of the system.
LEMMA StepType == TypeInv /\ [Next]_vars => TypeInv'
<1> SUFFICES ASSUME TypeInv, [Next]_vars PROVE TypeInv'
  OBVIOUS
<1>1. CASE PoolStep /\ OfPool
  BY <1>1, DialType, HandlerType, CloserType DEF PoolStep
<1>2. CASE ForwarderStep /\ OfForwarder
  BY <1>2, AppType, ForwardType DEF ForwarderStep
<1>3. CASE ServerStep /\ OfServer
  BY <1>3, ServerLoopType, TaskType DEF ServerStep
<1>4. CASE (\E w \in Sockets : Break(w)) /\ OfNetwork
  BY <1>4, BreakType
<1>5. CASE UNCHANGED vars
  BY <1>5 DEF vars, wireVars, poolVars, forwarderVars, serverVars, TypeInv, TypeOK, Pointers,
     WireTypeOK, PoolTypeOK, ForwarderTypeOK, ServerTypeOK
<1> QED BY <1>1, <1>2, <1>3, <1>4, <1>5 DEF Next

\* Every variable keeps its type, and every goroutine a connection, channel and
\* session to work with.
THEOREM TypeCorrect == Spec => []TypeInv
BY InitType, StepType, PTL DEF Spec

\* The type invariant the runs check.
COROLLARY TypeOKAlways == Spec => []TypeOK
<1>1. TypeInv => TypeOK
  BY DEF TypeInv
<1> QED BY TypeCorrect, <1>1, PTL
=============================================================================
