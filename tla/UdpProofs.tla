----------------------------- MODULE UdpProofs ------------------------------
(***************************************************************************)
(* Theorems about UdpTunnel, for any number of associations, channels,     *)
(* dials and datagrams: the routing maps agree, an association asks for a  *)
(* socket once, says nothing once it is closed, and passes answers on in   *)
(* order.                                                                  *)
(*                                                                         *)
(* All but the first are about what is in the streams, so each step is     *)
(* described by what it carries along: "Carried" says that the messages of *)
(* an association in a stream were there before the step, some places      *)
(* further on.                                                             *)
(***************************************************************************)
EXTENDS UdpTunnel, SequenceTheorems, TLAPS

-----------------------------------------------------------------------------
(* Types *)

\* What a client writes: UDP_CONNECT names a destination.
UpMessages == {m \in UdpMessages : m.type = "UDP_CONNECT" => m.addr \in Targets}
Queues(messages) == [Sockets -> Seq(messages)]

WireOK ==
  /\ link \in [Sockets -> LinkStates]
  /\ toServer \in Queues(UpMessages)
  /\ toClient \in Queues(UdpMessages)

\* TypeOK alone is not inductive: a goroutine must have what it is about to use.
ClientPointers ==
  /\ \A c \in Channels : handler[c].pc # "dial" => wsConns[c] # 0
  /\ \A c \in Channels : handler[c].pc \in {"respond", "signal"} => handler[c].sess \in Sessions
  /\ \A s \in Sessions : channelMap[s] # NoChannel => wsConns[channelMap[s]] # 0
  /\ \A s \in Sessions : packets[s] \subseteq 1 .. Len(sent[s])
  /\ \A s \in Sessions : listener[s] = IF serve[s] = "idle" THEN "none"
                                       ELSE IF serve[s] = "ended" THEN "closed" ELSE "open"
ServerPointers ==
  \A w \in Sockets, s \in Sessions :
    /\ Opened(s, w) => socket[w][s].addr \in Targets
    /\ receiver[w][s] # "none" \/ s \in udpConns[w] => Opened(s, w)

TypeInv ==
  /\ WireOK
  /\ AssocTypeOK /\ ClientPointers
  /\ UdpServerTypeOK /\ ServerPointers

\* There is no association at the start.
LEMMA TypeInvInit == Init => TypeInv
<1> SUFFICES ASSUME Init PROVE TypeInv
    OBVIOUS
<1> USE DEF Init, WireInit, AssocInit, UdpServerInit
<1>1. WireOK
      BY DEF WireOK, Queues, LinkStates
<1>2. AssocTypeOK
      BY MaxUpAssumption, MaxDialsAssumption DEF AssocTypeOK, HandlerStates, Idle, DoneCapacity
<1>3. ClientPointers
      BY DEF ClientPointers, Idle
<1>4. UdpServerTypeOK /\ ServerPointers
      BY MaxDownAssumption DEF UdpServerTypeOK, ServerPointers, Opened
<1> QED BY <1>1, <1>2, <1>3, <1>4 DEF TypeInv

\* UpMessages are messages.
LEMMA TypeInvType == TypeInv => TypeOK
<1>1. UpMessages \subseteq UdpMessages
      BY DEF UpMessages
<1>2. \A q \in Seq(UpMessages) : q \in Seq(UdpMessages)
      BY <1>1, SeqMonotonic
<1> QED BY <1>2 DEF TypeInv, TypeOK, WireOK, Queues

\* Writing a message of a type keeps a stream of it.
LEMMA AfterType ==
  ASSUME NEW M, NEW q \in Queues(M), NEW w \in Sockets, NEW m \in M, NEW ok
  PROVE  After(q, w, m, ok) \in Queues(M)
<1>1. Append(q[w], m) \in Seq(M)
      BY DEF Queues
<1> QED BY <1>1 DEF After, Queues

\* So do reading and breaking.
LEMMA TailType ==
  ASSUME NEW M, NEW q \in Queues(M), NEW w \in Sockets, q[w] # << >>
  PROVE  /\ Head(q[w]) \in M
         /\ [q EXCEPT ![w] = Tail(@)] \in Queues(M)
BY DEF Queues
\* Breaking keeps a stream of a type.
LEMMA PrefixType ==
  ASSUME NEW M, NEW q \in Queues(M), NEW w \in Sockets, NEW n \in 0 .. Len(q[w])
  PROVE  [q EXCEPT ![w] = SubSeq(@, 1, n)] \in Queues(M)
BY SubSeqProperties DEF Queues

\* The messages the program writes
LEMMA MessageTypes ==
  ASSUME NEW s \in Sessions, NEW u \in Nat, NEW t \in Targets
  PROVE  /\ UdpMsg("UDP_CONNECT", s, t, 0) \in UpMessages
         /\ UdpMsg("UDP_DATA", s, 0, u) \in UpMessages
         /\ UdpMsg("UDP_CLOSE", s, 0, 0) \in UpMessages
         /\ UdpMsg("UDP_DATA", s, t, u) \in UdpMessages
         /\ UdpMsg("UDP_CONNECTED", s, 0, 0) \in UdpMessages
         /\ UdpMsg("UDP_ERROR", s, 0, 0) \in UdpMessages
BY TargetsAssumption DEF UpMessages, UdpMessages, UdpMsg, UdpTypes

-----------------------------------------------------------------------------
(* One lemma per part of the system, one case per action *)

\* A channel that is not nil has a connection.
LEMMA CurrentIsSocket ==
  ASSUME TypeInv, NEW c \in Channels, wsConns[c] # 0
  PROVE  <<c, wsConns[c]>> \in Sockets
BY MaxDialsAssumption DEF TypeInv, AssocTypeOK, Sockets, Epochs

\* So does the channel of an association.
LEMMA ChannelIsCurrent ==
  ASSUME TypeInv, NEW s \in Sessions, channelMap[s] # NoChannel
  PROVE  <<channelMap[s], wsConns[channelMap[s]]>> \in Sockets
<1>1. channelMap[s] \in Channels /\ wsConns[channelMap[s]] # 0
      BY DEF TypeInv, AssocTypeOK, ClientPointers
<1> QED BY <1>1, CurrentIsSocket

\* A signal fits.
LEMMA SendType ==
  ASSUME TypeInv, NEW s \in Sessions, Send(s)
  PROVE  done' \in [Sessions -> 0 .. DoneCapacity]
<1>1. done \in [Sessions -> 0 .. DoneCapacity]
      BY DEF TypeInv, AssocTypeOK
<1>2. done[s] + 1 \in 0 .. DoneCapacity
      BY <1>1 DEF Send, DoneCapacity
<1> QED BY <1>1, <1>2 DEF Send

\* A step of the client's own goroutines that leaves the connections alone
LEMMA QuietKeeps ==
  ASSUME TypeInv, NEW s \in Sessions,
         AppStep(s) \/ ReadControl(s) \/ EndRelay(s) \/ WaitConnected(s) \/ Finish(s)
  PROVE  WireOK' /\ AssocTypeOK' /\ ClientPointers'
<1> USE DEF TypeInv, goroutineVars, packetVars, poolVars, wireVars
<1>1. WireOK'
      BY DEF AppStep, Associate, AppHangup, ReadDatagram, ReadControl, EndRelay, WaitConnected,
             Finish, WireOK
<1>2. CASE Associate(s)
      BY <1>1, <1>2 DEF Associate, AssocTypeOK, ClientPointers
<1>3. CASE AppHangup(s)
      BY <1>1, <1>3 DEF AppHangup, AssocTypeOK, ClientPointers
<1>4. ASSUME NEW t \in Targets, ReadDatagram(s, t)
      PROVE  AssocTypeOK' /\ ClientPointers'
  <2>1. sent[s] \in Seq(Targets) /\ packets[s] \subseteq 1 .. Len(sent[s])
        BY DEF AssocTypeOK, ClientPointers
  <2>2. /\ Append(sent[s], t) \in Seq(Targets)
        /\ Len(Append(sent[s], t)) = Len(sent[s]) + 1 /\ Len(sent[s]) \in Nat
        BY <2>1
  <2>3. packets[s] \cup {Len(sent[s]) + 1} \subseteq 1 .. Len(sent[s]) + 1
        BY <2>1, <2>2
  <2>4. Len(sent[s]) + 1 \in 1 .. MaxUp
        BY <1>4, <2>2, MaxUpAssumption DEF ReadDatagram
  <2>5. AssocTypeOK'
        BY <1>4, <2>2, <2>4 DEF ReadDatagram, AssocTypeOK
  <2>6. \A r \in Sessions : packets'[r] \subseteq 1 .. Len(sent'[r])
        BY <1>4, <2>2, <2>3 DEF ReadDatagram, AssocTypeOK, ClientPointers
  <2> QED BY <1>4, <2>5, <2>6 DEF ReadDatagram, ClientPointers
<1>5. CASE ReadControl(s)
  <2>1. done' \in [Sessions -> 0 .. DoneCapacity]
        BY <1>5, SendType DEF ReadControl, AssocTypeOK
  <2>2. AssocTypeOK'
        BY <1>5, <2>1 DEF ReadControl, AssocTypeOK
  <2>3. ClientPointers'
        BY <1>5 DEF ReadControl, ClientPointers
  <2> QED BY <1>1, <2>2, <2>3
<1>6. CASE EndRelay(s)
  <2>1. done' \in [Sessions -> 0 .. DoneCapacity]
        BY <1>6, SendType DEF EndRelay, AssocTypeOK
  <2>2. AssocTypeOK'
        BY <1>6, <2>1 DEF EndRelay, AssocTypeOK
  <2>3. ClientPointers'
        BY <1>6 DEF EndRelay, ClientPointers
  <2> QED BY <1>1, <2>2, <2>3
<1>7. CASE WaitConnected(s)
  <2>1. done' \in [Sessions -> 0 .. DoneCapacity]
        BY <1>7, SendType DEF WaitConnected, Expire, AssocTypeOK
  <2>2. AssocTypeOK'
    <3>1. /\ timer' \in [Sessions -> {"none", "wait", "signal", "expired", "connected"}]
          /\ connected' \in [Sessions -> {"none", "empty", "full"}]
      <4>1. /\ timer \in [Sessions -> {"none", "wait", "signal", "expired", "connected"}]
            /\ connected \in [Sessions -> {"none", "empty", "full"}]
            BY DEF AssocTypeOK
      <4>2. CASE Expire(s) /\ UNCHANGED connected
            BY <4>1, <4>2 DEF Expire
      <4>3. CASE /\ connected' = [connected EXCEPT ![s] = "empty"]
                 /\ timer' = [timer EXCEPT ![s] = "connected"]
            BY <4>1, <4>3
      <4> QED BY <1>7, <4>2, <4>3 DEF WaitConnected
    <3>2. UNCHANGED <<wsConns, handler, udpMap, channelMap, boundByChannel, control, listener,
                      serve, reader, relay, receiving, sent, packets, appGot>>
          BY <1>7 DEF WaitConnected
    <3> QED BY <2>1, <3>1, <3>2 DEF AssocTypeOK
  <2>3. ClientPointers'
        BY <1>7 DEF WaitConnected, Expire, ClientPointers
  <2> QED BY <1>1, <2>2, <2>3
<1>8. CASE Finish(s)
      BY <1>1, <1>8 DEF Finish, DoneCapacity, AssocTypeOK, ClientPointers
<1> QED BY <1>1, <1>2, <1>3, <1>4, <1>5, <1>6, <1>7, <1>8 DEF AppStep

\* Every datagram read so far has a destination; a mix has no unit of its own.
LEMMA SeenType ==
  ASSUME TypeInv, NEW s \in Sessions, NEW i \in packets[s], NEW seen \in Seen(s, i)
  PROVE  sent[s][seen[1]] \in Targets /\ seen[2] \in Nat
<1>1. sent[s] \in Seq(Targets) /\ i \in 1 .. Len(sent[s]) /\ Len(sent[s]) \in Nat
      BY DEF TypeInv, AssocTypeOK, ClientPointers
<1>2. seen[1] \in i .. Len(sent[s]) /\ seen[2] \in (i .. Len(sent[s])) \cup {Garbled}
      BY DEF Seen
<1> QED BY <1>1, <1>2 DEF Garbled

\* The goroutine of a datagram
LEMMA PacketKeeps ==
  ASSUME TypeInv, NEW s \in Sessions, NEW i \in packets[s], HandleUDPPacket(s, i)
  PROVE  WireOK' /\ AssocTypeOK' /\ ClientPointers'
<1> USE DEF TypeInv, goroutineVars, poolVars, wireVars
<1>1. packets' = [packets EXCEPT ![s] = @ \ {i}] /\ sent' = sent
      BY DEF HandleUDPPacket, DropPacket, NoRelay, OpenRelay, SendUDPData, Runs
<1>2. /\ packets' \in [Sessions -> SUBSET (1 .. MaxUp)]
      /\ \A r \in Sessions : packets'[r] \subseteq 1 .. Len(sent'[r])
      BY <1>1 DEF AssocTypeOK, ClientPointers
<1>3. CASE DropPacket(s, i)
      BY <1>1, <1>2, <1>3 DEF DropPacket, WireOK, AssocTypeOK, ClientPointers
<1>6. CASE NoRelay(s, i)
      BY <1>1, <1>2, <1>6 DEF NoRelay, WireOK, AssocTypeOK, ClientPointers
<1>4. CASE OpenRelay(s, i)
  <2>1. PICK c \in Channels, ok \in BOOLEAN, seen \in Seen(s, i) :
          /\ FirstUp(c)
          /\ channelMap' = [channelMap EXCEPT ![s] = c]
          /\ boundByChannel' = [boundByChannel EXCEPT ![c] = s]
          /\ toServer' = IF ok THEN After(After(toServer, <<c, wsConns[c]>>,
                                                 UdpMsg("UDP_CONNECT", s, sent[s][seen[1]], 0), TRUE),
                                          <<c, wsConns[c]>>, UdpMsg("UDP_DATA", s, 0, seen[2]), TRUE)
                          ELSE toServer
          /\ timer' = [timer EXCEPT ![s] = IF ok THEN "wait" ELSE @]
        BY <1>4 DEF OpenRelay
  <2>2. toServer' \in Queues(UpMessages)
    <3>1. <<c, wsConns[c]>> \in Sockets
          BY <2>1, CurrentIsSocket DEF FirstUp
    <3>2. /\ UdpMsg("UDP_CONNECT", s, sent[s][seen[1]], 0) \in UpMessages
          /\ UdpMsg("UDP_DATA", s, 0, seen[2]) \in UpMessages
          BY SeenType, MessageTypes
    <3> QED BY <2>1, <3>1, <3>2, AfterType DEF WireOK
  <2>3. WireOK'
        BY <1>4, <2>2 DEF OpenRelay, WireOK
  <2>4. AssocTypeOK'
    <3>1. /\ channelMap' \in [Sessions -> Channels \cup {NoChannel}]
          /\ boundByChannel' \in [Channels -> Sessions \cup {NoSession}]
          /\ timer' \in [Sessions -> {"none", "wait", "signal", "expired", "connected"}]
          BY <2>1 DEF AssocTypeOK
    <3>2. receiving' \in [Sessions -> BOOLEAN]
          BY <1>4 DEF OpenRelay, AssocTypeOK
    <3>3. UNCHANGED <<wsConns, handler, udpMap, connected, control, listener, done, serve,
                      reader, relay, sent, appGot>>
          BY <1>4 DEF OpenRelay
    <3> QED BY <1>2, <3>1, <3>2, <3>3 DEF AssocTypeOK
  <2>5. ClientPointers'
        BY <1>1, <1>2, <1>4, <2>1 DEF OpenRelay, FirstUp, AssocTypeOK, ClientPointers
  <2> QED BY <2>3, <2>4, <2>5
<1>5. CASE SendUDPData(s, i)
  <2> DEFINE w == <<channelMap[s], wsConns[channelMap[s]]>>
  <2>1. PICK ok \in BOOLEAN, seen \in Seen(s, i) :
          ClientWrite(w, UdpMsg("UDP_DATA", s, 0, seen[2]), ok)
        BY <1>5 DEF SendUDPData
  <2>3. w \in Sockets
        BY <1>5, ChannelIsCurrent DEF SendUDPData
  <2>4. UdpMsg("UDP_DATA", s, 0, seen[2]) \in UpMessages
        BY SeenType, MessageTypes
  <2> HIDE DEF w
  <2>2. WireOK'
        BY <2>1, <2>3, <2>4, AfterType DEF ClientWrite, WireOK
  <2> QED BY <1>1, <1>2, <1>5, <2>2 DEF SendUDPData, AssocTypeOK, ClientPointers
<1> QED BY <1>3, <1>4, <1>5, <1>6 DEF HandleUDPPacket

\* The end of an association
LEMMA CloseKeeps ==
  ASSUME TypeInv, NEW s \in Sessions, Close(s)
  PROVE  WireOK' /\ AssocTypeOK' /\ ClientPointers'
<1> USE DEF TypeInv, packetVars, wireVars
<1>1. WireOK'
  <2>1. CASE channelMap[s] = NoChannel
        BY <2>1 DEF Close, WireOK
  <2>2. CASE channelMap[s] # NoChannel
    <3> DEFINE w == <<channelMap[s], wsConns[channelMap[s]]>>
    <3>1. PICK ok \in BOOLEAN : ClientWrite(w, UdpMsg("UDP_CLOSE", s, 0, 0), ok)
          BY <2>2 DEF Close, SendUDPClose
    <3>2. w \in Sockets
          BY <2>2, ChannelIsCurrent
    <3> HIDE DEF w
    <3>3. UdpMsg("UDP_CLOSE", s, 0, 0) \in UpMessages
          BY DEF UpMessages, UdpMessages, UdpMsg, UdpTypes
    <3> QED BY <3>1, <3>2, <3>3, AfterType DEF ClientWrite, WireOK
  <2> QED BY <2>1, <2>2
<1>2. /\ udpMap' \in SUBSET Sessions
      /\ channelMap' \in [Sessions -> Channels \cup {NoChannel}]
      /\ boundByChannel' \in [Channels -> Sessions \cup {NoSession}]
      /\ \A r \in Sessions : channelMap'[r] \in {channelMap[r], NoChannel}
  <2>1. /\ udpMap \in SUBSET Sessions
        /\ channelMap \in [Sessions -> Channels \cup {NoChannel}]
        /\ boundByChannel \in [Channels -> Sessions \cup {NoSession}]
        BY DEF AssocTypeOK
  <2>2. CASE UNCHANGED <<udpMap, channelMap, boundByChannel>>
        BY <2>1, <2>2
  <2>3. CASE /\ udpMap' = udpMap \ {s}
             /\ channelMap' = [channelMap EXCEPT ![s] = NoChannel]
             /\ boundByChannel' = [boundByChannel EXCEPT ![channelMap[s]] = NoSession]
    <3> HIDE DEF TypeInv
    <3> QED BY <2>1, <2>3
  <2> QED BY <2>2, <2>3 DEF Close, SendUDPClose
<1> QED BY <1>1, <1>2 DEF Close, AssocTypeOK, ClientPointers

\* The goroutine of a channel: ReadMessage returns a message.
LEMMA ReadKeeps ==
  ASSUME TypeInv, NEW c \in Channels, NEW t, Reads(c, t)
  PROVE  WireOK' /\ Incoming(c) \in UdpMessages
<1>1. Current(c) \in Sockets
      BY CurrentIsSocket DEF Reads, TypeInv, ClientPointers, Current
<1>2. toClient \in Queues(UdpMessages)
      BY DEF TypeInv, WireOK
<1> QED BY <1>1, <1>2, TailType DEF Reads, Incoming, TypeInv, WireOK

\* The goroutine of a channel, whole.
LEMMA ChannelKeeps ==
  ASSUME TypeInv, NEW c \in Channels, Dial(c) \/ HandleChannel(c)
  PROVE  WireOK' /\ AssocTypeOK' /\ ClientPointers'
<1> USE DEF TypeInv, goroutineVars, packetVars, poolVars, wireVars, assocVars
<1>1. CASE Dial(c)
  <2>1. wsConns[c] + 1 \in 0 .. MaxDials /\ wsConns[c] + 1 # 0
        BY <1>1, MaxDialsAssumption DEF Dial, AssocTypeOK
  <2>2. WireOK'
        BY <1>1 DEF Dial, WireOK, LinkStates
  <2>3. AssocTypeOK'
        BY <1>1, <2>1 DEF Dial, AssocTypeOK, HandlerStates, Idle
  <2>4. ClientPointers'
        BY <1>1, <2>1 DEF Dial, AssocTypeOK, ClientPointers, Idle
  <2> QED BY <2>2, <2>3, <2>4
<1>2. CASE ReadError(c)
      BY <1>2 DEF ReadError, WireOK, AssocTypeOK, ClientPointers, HandlerStates, Idle
<1>3. CASE ReadUdpConnected(c)
  <2>1. WireOK'
        BY <1>3, ReadKeeps DEF ReadUdpConnected
  <2>2. connected' \in [Sessions -> {"none", "empty", "full"}]
        BY <1>3 DEF ReadUdpConnected, AssocTypeOK
  <2> QED BY <1>3, <2>1, <2>2 DEF ReadUdpConnected, AssocTypeOK, ClientPointers
<1>4. CASE ReadUdpError(c) \/ DropUdpData(c)
  <2>1. WireOK'
        BY <1>4, ReadKeeps DEF ReadUdpError, DropUdpData
  <2> QED BY <1>4, <2>1 DEF ReadUdpError, DropUdpData, AssocTypeOK, ClientPointers
<1>5. CASE ReadUdpData(c)
  <2>1. WireOK' /\ Incoming(c).sess \in Sessions /\ Incoming(c).unit \in Nat
        BY <1>5, ReadKeeps DEF ReadUdpData, UdpMessages
  <2>2. AssocTypeOK'
        BY <1>5, <2>1 DEF ReadUdpData, AssocTypeOK, HandlerStates
  <2>3. ClientPointers'
        BY <1>5, <2>1 DEF ReadUdpData, Reads, AssocTypeOK, ClientPointers
  <2> QED BY <2>1, <2>2, <2>3
<1>6. CASE Respond(c)
  <2>1. /\ handler[c].sess \in Sessions /\ handler[c].unit \in Nat
        /\ wsConns[c] # 0
        BY <1>6 DEF Respond, AssocTypeOK, ClientPointers
  <2>2. appGot' \in [Sessions -> Seq(Nat)]
        BY <1>6, <2>1 DEF Respond, AssocTypeOK
  <2>3. AssocTypeOK'
        BY <1>6, <2>2 DEF Respond, AssocTypeOK, HandlerStates, Idle
  <2> QED BY <1>6, <2>1, <2>3 DEF Respond, WireOK, AssocTypeOK, ClientPointers, Idle
<1>7. CASE RespondFails(c)
  <2> DEFINE state == [handler[c] EXCEPT !.pc = "signal"]
  <2>1. /\ handler[c] \in [pc : HandlerStates, sess : Sessions \cup {NoSession}, unit : Nat]
        /\ DOMAIN handler = Channels
        /\ handler' = [handler EXCEPT ![c] = state]
        BY <1>7 DEF AssocTypeOK, RespondFails
  <2>2. /\ state \in [pc : HandlerStates, sess : Sessions \cup {NoSession}, unit : Nat]
        /\ state.sess = handler[c].sess
        BY <2>1 DEF HandlerStates
  <2> HIDE DEF state
  <2>3. /\ handler' \in [Channels -> [pc : HandlerStates, sess : Sessions \cup {NoSession},
                                     unit : Nat]]
        /\ handler'[c].sess = handler[c].sess
        /\ \A d \in Channels \ {c} : handler'[d] = handler[d]
        BY <2>1, <2>2 DEF AssocTypeOK
  <2>4. AssocTypeOK'
        BY <1>7, <2>3 DEF RespondFails, AssocTypeOK
  <2>5. ClientPointers'
        BY <1>7, <2>3 DEF RespondFails, ClientPointers
  <2> QED BY <1>7, <2>4, <2>5 DEF RespondFails, WireOK
<1>8. CASE SignalFailure(c)
  <2>1. done' \in [Sessions -> 0 .. DoneCapacity]
        BY <1>8, SendType DEF SignalFailure, ClientPointers
  <2> QED BY <1>8, <2>1 DEF SignalFailure, WireOK, AssocTypeOK, ClientPointers, HandlerStates, Idle
<1> QED BY <1>1, <1>2, <1>3, <1>4, <1>5, <1>6, <1>7, <1>8 DEF HandleChannel

\* A socket that is closed keeps its target.
Socket == [state : {"none", "open", "closed"}, addr : Targets \cup {0}]
\* Closing the sockets of a set of associations opens and changes none.
LEMMA SocketCloses ==
  ASSUME TypeInv, NEW w \in Sockets, NEW R, \A s \in R \cap Sessions : Opened(s, w),
         socket' = [socket EXCEPT ![w] = [s \in Sessions |->
                      IF s \in R THEN [@[s] EXCEPT !.state = "closed"] ELSE @[s]]]
  PROVE  /\ socket' \in [Sockets -> [Sessions -> Socket]]
         /\ \A v \in Sockets, s \in Sessions :
              /\ Opened(s, v)' <=> Opened(s, v)
              /\ socket'[v][s].addr = socket[v][s].addr
<1>1. socket \in [Sockets -> [Sessions -> Socket]]
      BY DEF TypeInv, UdpServerTypeOK, Socket
<1>2. ASSUME NEW k \in Socket
      PROVE  /\ [k EXCEPT !.state = "closed"] \in Socket
             /\ [k EXCEPT !.state = "closed"].addr = k.addr
             /\ [k EXCEPT !.state = "closed"].state = "closed"
      BY DEF Socket
<1>3. socket'[w] = [s \in Sessions |-> IF s \in R THEN [socket[w][s] EXCEPT !.state = "closed"]
                                                 ELSE socket[w][s]]
      BY <1>1
<1>4. \A v \in Sockets \ {w} : socket'[v] = socket[v]
      BY <1>1
<1>5. ASSUME NEW v \in Sockets, NEW s \in Sessions
      PROVE  /\ socket'[v][s] \in Socket
             /\ socket'[v][s].addr = socket[v][s].addr
             /\ Opened(s, v)' <=> Opened(s, v)
  <2>1. socket[v][s] \in Socket
        BY <1>1
  <2>2. CASE v = w /\ s \in R
        BY <1>2, <1>3, <2>1, <2>2 DEF Opened
  <2>3. CASE ~(v = w /\ s \in R)
        BY <1>3, <1>4, <2>1, <2>3 DEF Opened
  <2> QED BY <2>2, <2>3
<1>6. DOMAIN socket' = Sockets /\ \A v \in Sockets : DOMAIN socket'[v] = Sessions
      BY <1>1, <1>3, <1>4
<1>7. socket' \in [Sockets -> [Sessions -> Socket]]
      BY <1>1, <1>3, <1>4, <1>5
<1> QED BY <1>5, <1>7

\* The same for a single socket.
LEMMA OneSocketCloses ==
  ASSUME TypeInv, NEW w \in Sockets, NEW s \in Sessions, Opened(s, w),
         socket' = [socket EXCEPT ![w][s].state = "closed"]
  PROVE  /\ socket' \in [Sockets -> [Sessions -> Socket]]
         /\ \A v \in Sockets, r \in Sessions :
              /\ Opened(r, v)' <=> Opened(r, v)
              /\ socket'[v][r].addr = socket[v][r].addr
<1>1. socket[w] \in [Sessions -> Socket]
      BY DEF TypeInv, UdpServerTypeOK, Socket
<1>2. [socket[w] EXCEPT ![s] = [@ EXCEPT !.state = "closed"]]
        = [r \in Sessions |-> IF r \in {s} THEN [socket[w][r] EXCEPT !.state = "closed"]
                                           ELSE socket[w][r]]
      BY <1>1
<1>3. socket' = [socket EXCEPT ![w] = [r \in Sessions |->
                   IF r \in {s} THEN [@[r] EXCEPT !.state = "closed"] ELSE @[r]]]
      BY <1>2
<1>4. \A r \in {s} \cap Sessions : Opened(r, w)
      OBVIOUS
<1> QED BY <1>3, <1>4, SocketCloses, Zenon

\* The server's read loop takes a message.
LEMMA ServeKeeps ==
  ASSUME TypeInv, NEW w \in Sockets, NEW t, Serves(w, t)
  PROVE  /\ Request(w) \in UpMessages /\ Request(w).type = t
         /\ toServer' \in Queues(UpMessages) /\ link' = link
<1>1. toServer \in Queues(UpMessages)
      BY DEF TypeInv, WireOK
<1> QED BY <1>1, TailType DEF Serves, Request

\* The server's read loop.
LEMMA HandleKeeps ==
  ASSUME TypeInv, NEW w \in Sockets, HandleWebSocket(w)
  PROVE  WireOK' /\ UdpServerTypeOK' /\ ServerPointers'
<1> USE DEF TypeInv, udpServerVars
<1>1. CASE ServeConnect(w)
  <2> DEFINE s == Request(w).sess
  <2>1. /\ s \in Sessions /\ Request(w).addr \in Targets
        /\ toServer' \in Queues(UpMessages) /\ link' = link
        BY <1>1, ServeKeeps DEF ServeConnect, UpMessages, UdpMessages
  <2>2. UdpMsg("UDP_CONNECTED", s, 0, 0) \in UdpMessages
        BY <2>1 DEF UdpMessages, UdpMsg, UdpTypes
  <2>3. WireOK'
        BY <1>1, <2>1, <2>2, AfterType DEF ServeConnect, Answers, WireOK
  <2>4. UdpServerTypeOK' /\ ServerPointers'
        BY <1>1, <2>1 DEF ServeConnect, UdpServerTypeOK, ServerPointers, Opened
  <2> QED BY <2>3, <2>4
<1>2. CASE RefuseConnect(w)
  <2>1. /\ Request(w).sess \in Sessions
        /\ toServer' \in Queues(UpMessages) /\ link' = link
        BY <1>2, ServeKeeps DEF RefuseConnect, UpMessages, UdpMessages
  <2>2. UdpMsg("UDP_ERROR", Request(w).sess, 0, 0) \in UdpMessages
        BY <2>1 DEF UdpMessages, UdpMsg, UdpTypes
  <2>3. WireOK'
        BY <1>2, <2>1, <2>2, AfterType DEF RefuseConnect, Answers, WireOK
  <2> QED BY <1>2, <2>3 DEF RefuseConnect, UdpServerTypeOK, ServerPointers, Opened
<1>3. CASE ServeData(w)
  <2> DEFINE s == Request(w).sess
  <2>1. /\ s \in Sessions /\ Request(w).unit \in Nat
        /\ toServer' \in Queues(UpMessages) /\ link' = link
        BY <1>3, ServeKeeps DEF ServeData, UpMessages, UdpMessages
  <2>2. socket[w][s].addr \in Targets
        BY <1>3, <2>1 DEF ServeData, ServerPointers, Opened
  <2> HIDE DEF s
  <2>3. targetGot' \in [Sessions -> Seq([addr : Targets, unit : Nat])]
    <3> DEFINE d == [addr |-> socket[w][s].addr, unit |-> Request(w).unit]
    <3>2. d \in [addr : Targets, unit : Nat]
          BY <2>1, <2>2
    <3>3. targetGot[s] \in Seq([addr : Targets, unit : Nat])
          BY <2>1 DEF UdpServerTypeOK
    <3>1. Append(targetGot[s], d) \in Seq([addr : Targets, unit : Nat])
          BY <3>2, <3>3, AppendProperties
    <3> QED BY <1>3, <2>1, <3>1 DEF ServeData, UdpServerTypeOK, s
  <2> QED BY <1>3, <2>1, <2>3 DEF ServeData, WireOK, UdpServerTypeOK, ServerPointers, Opened
<1>4. CASE DropData(w)
      BY <1>4, ServeKeeps DEF DropData, WireOK, UdpServerTypeOK, ServerPointers, Opened
<1>5. CASE ServeClose(w)
  <2> DEFINE s == Request(w).sess
  <2>1. s \in Sessions /\ toServer' \in Queues(UpMessages) /\ link' = link
        BY <1>5, ServeKeeps DEF ServeClose, UpMessages, UdpMessages
  <2>2. udpConns' = [udpConns EXCEPT ![w] = @ \ {s}]
        BY <1>5 DEF ServeClose, Release
  <2>3. /\ socket' \in [Sockets -> [Sessions -> Socket]]
        /\ \A v \in Sockets, r \in Sessions : /\ Opened(r, v)' <=> Opened(r, v)
                                             /\ socket'[v][r].addr = socket[v][r].addr
    <3>1. CASE s \in udpConns[w]
          BY <1>5, <2>1, <3>1, OneSocketCloses DEF ServeClose, Release, ServerPointers
    <3>2. CASE s \notin udpConns[w]
          BY <1>5, <3>2 DEF ServeClose, Release, UdpServerTypeOK, Socket, Opened
    <3> QED BY <3>1, <3>2
  <2>4. UdpServerTypeOK'
        BY <1>5, <2>2, <2>3 DEF ServeClose, UdpServerTypeOK, Socket
  <2>5. ServerPointers'
        BY <1>5, <2>2, <2>3 DEF ServeClose, UdpServerTypeOK, ServerPointers
  <2> QED BY <1>5, <2>1, <2>4, <2>5 DEF ServeClose, WireOK
<1>6. CASE Cleanup(w)
  <2>1. WireOK'
        BY <1>6 DEF Cleanup, WireOK, LinkStates
  <2>2. /\ socket' \in [Sockets -> [Sessions -> Socket]]
        /\ \A v \in Sockets, r \in Sessions : /\ Opened(r, v)' <=> Opened(r, v)
                                             /\ socket'[v][r].addr = socket[v][r].addr
    <3>1. \A r \in udpConns[w] \cap Sessions : Opened(r, w)
          BY DEF ServerPointers
    <3> QED BY <1>6, <3>1, SocketCloses DEF Cleanup
  <2>3. udpConns' = [udpConns EXCEPT ![w] = {}]
        BY <1>6 DEF Cleanup
  <2>4. UdpServerTypeOK'
        BY <1>6, <2>2, <2>3 DEF Cleanup, UdpServerTypeOK, Socket
  <2>5. ServerPointers'
        BY <1>6, <2>2, <2>3 DEF Cleanup, UdpServerTypeOK, ServerPointers
  <2> QED BY <2>1, <2>4, <2>5
<1> QED BY <1>1, <1>2, <1>3, <1>4, <1>5, <1>6 DEF HandleWebSocket

\* The goroutine that receives for a socket
LEMMA ReceiverKeeps ==
  ASSUME TypeInv, NEW w \in Sockets, NEW s \in Sessions, Receive(w, s) \/ EndReceiver(w, s)
  PROVE  WireOK' /\ UdpServerTypeOK' /\ ServerPointers'
<1> USE DEF TypeInv, wireVars
<1>1. CASE Receive(w, s)
  <2>1. targetSent[s] + 1 \in 0 .. MaxDown
        BY <1>1, MaxDownAssumption DEF Receive, UdpServerTypeOK
  <2>2. socket[w][s].addr \in Targets
        BY <1>1 DEF Receive, ServerPointers, Opened
  <2>3. UdpMsg("UDP_DATA", s, socket[w][s].addr, targetSent[s] + 1) \in UdpMessages
        BY <2>1, <2>2 DEF UdpMessages, UdpMsg, UdpTypes
  <2>4. WireOK'
        BY <1>1, <2>3, AfterType DEF Receive, Answers, WireOK
  <2> QED BY <1>1, <2>1, <2>4 DEF Receive, UdpServerTypeOK, ServerPointers, Opened
<1>2. CASE EndReceiver(w, s)
  <2>1. Opened(s, w)
        BY <1>2 DEF EndReceiver, ServerPointers
  <2>2. /\ socket' \in [Sockets -> [Sessions -> Socket]]
        /\ \A v \in Sockets, r \in Sessions : /\ Opened(r, v)' <=> Opened(r, v)
                                             /\ socket'[v][r].addr = socket[v][r].addr
        BY <1>2, <2>1, OneSocketCloses DEF EndReceiver
  <2>3. /\ udpConns' = [udpConns EXCEPT ![w] = @ \ {s}]
        /\ receiver' = [receiver EXCEPT ![w][s] = "ended"]
        /\ UNCHANGED <<wireVars, targetGot, targetSent>>
        BY <1>2 DEF EndReceiver
  <2>4. UdpServerTypeOK'
        BY <2>2, <2>3 DEF UdpServerTypeOK, Socket
  <2>5. ServerPointers'
        BY <2>1, <2>2, <2>3 DEF UdpServerTypeOK, ServerPointers
  <2> QED BY <2>3, <2>4, <2>5 DEF WireOK
<1> QED BY <1>1, <1>2

\* A break leaves prefixes.
LEMMA BreakKeeps ==
  ASSUME TypeInv, NEW w \in Sockets, Break(w)
  PROVE  WireOK'
<1>1. PICK i \in 0 .. Len(toServer[w]), j \in 0 .. Len(toClient[w]) :
        /\ toServer' = [toServer EXCEPT ![w] = SubSeq(@, 1, i)]
        /\ toClient' = [toClient EXCEPT ![w] = SubSeq(@, 1, j)]
      BY DEF Break
<1>2. toServer' \in Queues(UpMessages) /\ toClient' \in Queues(UdpMessages)
      BY <1>1, PrefixType DEF TypeInv, WireOK
<1> QED BY <1>2 DEF Break, TypeInv, WireOK, LinkStates

\* The types are inductive.
LEMMA TypeInvNext == TypeInv /\ [Next]_vars => TypeInv'
<1> SUFFICES ASSUME TypeInv, [Next]_vars PROVE TypeInv'
    OBVIOUS
<1>1. UNCHANGED udpServerVars => UdpServerTypeOK' /\ ServerPointers'
      BY DEF TypeInv, udpServerVars, UdpServerTypeOK, ServerPointers, Opened
<1>2. UNCHANGED assocVars => AssocTypeOK' /\ ClientPointers'
      BY DEF TypeInv, assocVars, poolVars, goroutineVars, packetVars, AssocTypeOK, ClientPointers
<1>3. ASSUME NEW s \in Sessions, AppStep(s) \/ AssociationStep(s), UNCHANGED udpServerVars
      PROVE  TypeInv'
      BY <1>1, <1>3, QuietKeeps, CloseKeeps, PacketKeeps DEF AssociationStep, TypeInv
<1>4. ASSUME NEW c \in Channels, Dial(c) \/ HandleChannel(c), UNCHANGED udpServerVars
      PROVE  TypeInv'
      BY <1>1, <1>4, ChannelKeeps DEF TypeInv
<1>5. ASSUME NEW w \in Sockets, UNCHANGED assocVars,
             \/ HandleWebSocket(w)
             \/ \E s \in Sessions : Receive(w, s) \/ EndReceiver(w, s)
             \/ Break(w) /\ UNCHANGED udpServerVars
      PROVE  TypeInv'
      BY <1>1, <1>2, <1>5, HandleKeeps, ReceiverKeeps, BreakKeeps DEF TypeInv
<1>6. CASE UNCHANGED vars
      BY <1>1, <1>2, <1>6 DEF vars, wireVars, TypeInv, WireOK
<1> QED BY <1>3, <1>4, <1>5, <1>6 DEF Next

\* Every variable keeps its type, and every goroutine has what it is about to
\* use: a connection, an association, a destination.
THEOREM UdpTypeCorrect == Spec => []TypeInv
  BY TypeInvInit, TypeInvNext, PTL DEF Spec

\* The type invariant of the run.
THEOREM UdpTypeOK == Spec => []TypeOK
  BY UdpTypeCorrect, TypeInvType, PTL

-----------------------------------------------------------------------------
(* What a step carries along *)

Offsets == [Sockets -> {0, 1}]
Same == [w \in Sockets |-> 0]

\* Of the messages of s of the given types, q holds only what p holds, off[w]
\* places further on.
Carried(p, q, s, types, off) ==
  \A w \in Sockets : \A i \in 1 .. Len(q[w]) :
    q[w][i].sess = s /\ q[w][i].type \in types =>
      i + off[w] \in 1 .. Len(p[w]) /\ p[w][i + off[w]] = q[w][i]

\* To carry everything along in place is one way.
LEMMA SameType == Same \in Offsets
  BY DEF Same, Offsets

\* Nothing happens.
LEMMA SameCarries ==
  ASSUME NEW M, NEW p \in Queues(M), NEW s, NEW types
  PROVE  Carried(p, p, s, types, Same)
<1>1. \A w \in Sockets : Len(p[w]) \in Nat
      BY DEF Queues
<1> QED BY <1>1 DEF Carried, Same

\* A message of another association, or of another type, is written.
LEMMA WriteCarries ==
  ASSUME NEW M, NEW p \in Queues(M), NEW s, NEW types, NEW w \in Sockets,
         NEW m \in M, NEW ok, m.sess # s \/ m.type \notin types
  PROVE  Carried(p, After(p, w, m, ok), s, types, Same)
<1> DEFINE q == After(p, w, m, ok)
<1>1. CASE q = p
      BY <1>1, SameCarries
<1>2. CASE q # p
  <2>1. q = [p EXCEPT ![w] = Append(@, m)]
        BY <1>2 DEF After
  <2>2. p[w] \in Seq(M)
        BY DEF Queues
  <2>3. /\ q[w] = Append(p[w], m)
        /\ \A v \in Sockets \ {w} : q[v] = p[v] /\ Len(p[v]) \in Nat
        BY <2>1 DEF Queues
  <2>4. /\ Len(q[w]) = Len(p[w]) + 1 /\ Len(p[w]) \in Nat
        /\ \A i \in 1 .. Len(p[w]) : q[w][i] = p[w][i]
        /\ q[w][Len(p[w]) + 1] = m
        BY <2>2, <2>3, AppendProperties
  <2> HIDE DEF q
  <2>5. SUFFICES ASSUME NEW v \in Sockets, NEW i \in 1 .. Len(q[v]),
                        q[v][i].sess = s, q[v][i].type \in types
                 PROVE  i \in 1 .. Len(p[v]) /\ p[v][i] = q[v][i]
        BY DEF Carried, Same, q
  <2>6. CASE v = w
    <3>1. i # Len(p[w]) + 1
          BY <2>4, <2>5, <2>6
    <3> QED BY <2>4, <2>6, <3>1
  <2>7. CASE v # w
        BY <2>3, <2>7
  <2> QED BY <2>6, <2>7
<1> QED BY <1>1, <1>2

\* A message is read.
LEMMA ReadCarries ==
  ASSUME NEW M, NEW p \in Queues(M), NEW s, NEW types, NEW w \in Sockets, p[w] # << >>
  PROVE  \E off \in Offsets : /\ Carried(p, [p EXCEPT ![w] = Tail(@)], s, types, off)
                              /\ off[w] = 1
<1> DEFINE q == [p EXCEPT ![w] = Tail(@)]
           off == [v \in Sockets |-> IF v = w THEN 1 ELSE 0]
<1>1. p[w] \in Seq(M)
      BY DEF Queues
<1>2. /\ Len(Tail(p[w])) = Len(p[w]) - 1 /\ Len(p[w]) \in Nat
      /\ \A i \in 1 .. Len(Tail(p[w])) : Tail(p[w])[i] = p[w][i + 1]
      BY <1>1, HeadTailProperties
<1>3. q[w] = Tail(p[w]) /\ \A v \in Sockets \ {w} : q[v] = p[v] /\ Len(p[v]) \in Nat
      BY DEF Queues
<1>4. off \in Offsets /\ off[w] = 1
      BY DEF Offsets
<1>5. ASSUME NEW v \in Sockets, NEW i \in 1 .. Len(q[v])
      PROVE  i + off[v] \in 1 .. Len(p[v]) /\ p[v][i + off[v]] = q[v][i]
  <2>1. CASE v = w
    <3>1. i \in 1 .. Len(Tail(p[w])) /\ q[v][i] = p[w][i + 1]
          BY <1>2, <1>3, <2>1
    <3>2. i + 1 \in 1 .. Len(p[w])
          BY <1>2, <3>1
    <3> QED BY <1>4, <2>1, <3>1, <3>2
  <2>2. CASE v # w
        BY <1>3, <2>2
  <2> QED BY <2>1, <2>2
<1> HIDE DEF off
<1>6. Carried(p, q, s, types, off)
      BY <1>5 DEF Carried
<1> QED BY <1>4, <1>6

\* A connection breaks.
LEMMA BreakCarries ==
  ASSUME NEW M, NEW p \in Queues(M), NEW s, NEW types, NEW w \in Sockets,
         NEW n \in 0 .. Len(p[w])
  PROVE  Carried(p, [p EXCEPT ![w] = SubSeq(@, 1, n)], s, types, Same)
<1> DEFINE q == [p EXCEPT ![w] = SubSeq(@, 1, n)]
<1>1. p[w] \in Seq(M) /\ Len(p[w]) \in Nat
      BY DEF Queues
<1>2. Len(SubSeq(p[w], 1, n)) = n /\ \A i \in 1 .. n : SubSeq(p[w], 1, n)[i] = p[w][i]
      BY <1>1
<1>3. q[w] = SubSeq(p[w], 1, n) /\ \A v \in Sockets \ {w} : q[v] = p[v] /\ Len(p[v]) \in Nat
      BY DEF Queues
<1>4. SUFFICES ASSUME NEW v \in Sockets, NEW i \in 1 .. Len(q[v])
               PROVE  i \in 1 .. Len(p[v]) /\ p[v][i] = q[v][i]
      BY DEF Carried, Same
<1>5. CASE v = w
      BY <1>1, <1>2, <1>3, <1>5
<1>6. CASE v # w
      BY <1>3, <1>6
<1> QED BY <1>5, <1>6

\* Only these steps write messages of s.
Opens(s) == \E i \in packets[s] : OpenRelay(s, i)
Sends(s) == \E i \in packets[s] : SendUDPData(s, i)
Speaks(s) == Close(s) \/ Opens(s) \/ Sends(s)

\* The message SendUDPClose writes, and the messages of a datagram
LEMMA WriterCarries ==
  ASSUME TypeInv, NEW s \in Sessions, Speaks(s),
         NEW r \in Sessions, NEW types,
         r # s \/ (types = {"UDP_CONNECT"} /\ ~Opens(s))
  PROVE  Carried(toServer, toServer', r, types, Same)
<1>1. toServer \in Queues(UpMessages)
      BY DEF TypeInv, WireOK
<1>2. CASE toServer' = toServer
      BY <1>1, <1>2, SameCarries
<1>3. ASSUME Close(s), channelMap[s] # NoChannel
      PROVE  Carried(toServer, toServer', r, types, Same)
  <2> DEFINE w == <<channelMap[s], wsConns[channelMap[s]]>>
             m == UdpMsg("UDP_CLOSE", s, 0, 0)
  <2>1. PICK ok \in BOOLEAN : ClientWrite(w, m, ok)
        BY <1>3 DEF Close, SendUDPClose
  <2>2. w \in Sockets
        BY <1>3, ChannelIsCurrent
  <2>3. m \in UpMessages /\ m.type = "UDP_CLOSE" /\ m.sess = s
        BY DEF UpMessages, UdpMessages, UdpMsg, UdpTypes
  <2> HIDE DEF w, m
  <2>4. m.sess # r \/ m.type \notin types
        BY <2>3
  <2> QED BY <1>1, <2>1, <2>2, <2>3, <2>4, WriteCarries DEF ClientWrite
<1>4. ASSUME NEW i \in packets[s], SendUDPData(s, i)
      PROVE  Carried(toServer, toServer', r, types, Same)
  <2> DEFINE w == <<channelMap[s], wsConns[channelMap[s]]>>
  <2>1. PICK ok \in BOOLEAN, seen \in Seen(s, i) :
          ClientWrite(w, UdpMsg("UDP_DATA", s, 0, seen[2]), ok)
        BY <1>4 DEF SendUDPData
  <2> DEFINE m == UdpMsg("UDP_DATA", s, 0, seen[2])
  <2>2. w \in Sockets
        BY <1>4, ChannelIsCurrent DEF SendUDPData
  <2>3. m \in UpMessages /\ m.type = "UDP_DATA" /\ m.sess = s
        BY SeenType, MessageTypes DEF UdpMsg
  <2> HIDE DEF w, m
  <2>4. m.sess # r \/ m.type \notin types
        BY <2>3
  <2> QED BY <1>1, <2>1, <2>2, <2>3, <2>4, WriteCarries DEF ClientWrite, m
<1>5. ASSUME r # s, NEW i \in packets[s], OpenRelay(s, i), toServer' # toServer
      PROVE  Carried(toServer, toServer', r, types, Same)
  <2>1. PICK c \in Channels, ok \in BOOLEAN, seen \in Seen(s, i) :
          /\ FirstUp(c)
          /\ toServer' = IF ok THEN After(After(toServer, <<c, wsConns[c]>>,
                                                 UdpMsg("UDP_CONNECT", s, sent[s][seen[1]], 0), TRUE),
                                          <<c, wsConns[c]>>, UdpMsg("UDP_DATA", s, 0, seen[2]), TRUE)
                          ELSE toServer
        BY <1>5 DEF OpenRelay
  <2> DEFINE w == <<c, wsConns[c]>>
             connect == UdpMsg("UDP_CONNECT", s, sent[s][seen[1]], 0)
             data == UdpMsg("UDP_DATA", s, 0, seen[2])
             q == After(toServer, w, connect, TRUE)
  <2>2. toServer' = After(q, w, data, TRUE)
        BY <1>5, <2>1
  <2>3. w \in Sockets
        BY <2>1, CurrentIsSocket DEF FirstUp
  <2>4. /\ connect \in UpMessages /\ connect.sess = s
        /\ data \in UpMessages /\ data.sess = s
        BY SeenType, MessageTypes DEF UdpMsg
  <2> HIDE DEF w, connect, data
  <2>5. q \in Queues(UpMessages) /\ Carried(toServer, q, r, types, Same)
        BY <1>1, <1>5, <2>3, <2>4, AfterType, WriteCarries
  <2> HIDE DEF q
  <2>6. Carried(q, toServer', r, types, Same)
        BY <1>5, <2>2, <2>3, <2>4, <2>5, WriteCarries
  <2> QED BY <2>5, <2>6 DEF Carried, Same
<1>6. Close(s) /\ channelMap[s] = NoChannel => toServer' = toServer
      BY DEF Close, wireVars
<1> QED BY <1>2, <1>3, <1>4, <1>5, <1>6 DEF Speaks, Opens, Sends

\* Every other step carries the messages of all associations along.
LEMMA OthersCarry ==
  ASSUME TypeInv, [Next]_vars, ~ \E s \in Sessions : Speaks(s) /\ UNCHANGED udpServerVars,
         NEW r \in Sessions, NEW types
  PROVE  \E off \in Offsets : Carried(toServer, toServer', r, types, off)
<1>1. toServer \in Queues(UpMessages)
      BY DEF TypeInv, WireOK
<1>2. CASE toServer' = toServer
      BY <1>1, <1>2, SameCarries, SameType
<1>3. ASSUME NEW s \in Sessions, AppStep(s) \/ AssociationStep(s), ~Speaks(s)
      PROVE  toServer' = toServer
      BY <1>3 DEF Speaks, Opens, Sends, AppStep, AssociationStep, HandleUDPPacket, Associate, AppHangup,
         ReadDatagram, ReadControl, EndRelay, WaitConnected, Finish, DropPacket, NoRelay, wireVars
<1>4. ASSUME NEW c \in Channels, Dial(c) \/ HandleChannel(c)
      PROVE  toServer' = toServer
      BY <1>4 DEF Dial, HandleChannel, ReadError, ReadUdpConnected, ReadUdpError, ReadUdpData,
         DropUdpData, Respond, RespondFails, SignalFailure, Reads, wireVars
<1>5. ASSUME NEW w \in Sockets, HandleWebSocket(w), toServer' # toServer
      PROVE  \E off \in Offsets : Carried(toServer, toServer', r, types, off)
  <2>1. PICK t : Serves(w, t)
        BY <1>5 DEF HandleWebSocket, ServeConnect, RefuseConnect, ServeData, DropData,
           ServeClose, Cleanup
  <2> QED BY <1>1, <2>1, ReadCarries DEF Serves
<1>6. ASSUME NEW w \in Sockets, NEW s \in Sessions, Receive(w, s) \/ EndReceiver(w, s)
      PROVE  toServer' = toServer
      BY <1>6 DEF Receive, EndReceiver, wireVars
<1>7. ASSUME NEW w \in Sockets, Break(w)
      PROVE  \E off \in Offsets : Carried(toServer, toServer', r, types, off)
  <2>1. PICK n \in 0 .. Len(toServer[w]) :
          toServer' = [toServer EXCEPT ![w] = SubSeq(@, 1, n)]
        BY <1>7 DEF Break
  <2> QED BY <1>1, <2>1, BreakCarries, SameType
<1>8. CASE UNCHANGED vars
      BY <1>2, <1>8 DEF vars, wireVars
<1> QED BY <1>2, <1>3, <1>4, <1>5, <1>6, <1>7, <1>8 DEF Next

-----------------------------------------------------------------------------
(* A closed association is silent *)

\* A closed association takes no step that writes.
LEMMA ClosedDoesNotSpeak ==
  ASSUME TypeInv, NEW s \in Sessions, listener[s] = "closed"
  PROVE  ~Speaks(s)
BY DEF TypeInv, ClientPointers, Speaks, Opens, Sends, Close, OpenRelay, SendUDPData, MaySend

\* So what a stream holds of it was there before.
LEMMA ClosedStaysSilent ==
  ASSUME TypeInv, [Next]_vars, NEW s \in Sessions, NEW w \in Sockets, listener[s] = "closed"
  PROVE  \E d \in {0, 1} : \A i \in 1 .. Len(toServer'[w]) :
           toServer'[w][i].sess = s =>
             i + d \in Positions(w) /\ toServer[w][i + d] = toServer'[w][i]
<1>1. PICK off \in Offsets : Carried(toServer, toServer', s, UdpTypes, off)
  <2>1. ASSUME NEW r \in Sessions, Speaks(r)
        PROVE  Carried(toServer, toServer', s, UdpTypes, Same)
    <3>1. r # s
          BY <2>1, ClosedDoesNotSpeak
    <3> QED BY <2>1, <3>1, WriterCarries
  <2> QED BY <2>1, OthersCarry, SameType
<1>2. TypeInv'
      BY TypeInvNext
<1>3. ASSUME NEW i \in 1 .. Len(toServer'[w])
      PROVE  toServer'[w][i].type \in UdpTypes
  <2>1. toServer'[w] \in Seq(UpMessages)
        BY <1>2 DEF TypeInv, WireOK, Queues
  <2>2. toServer'[w][i] \in UpMessages
        BY <2>1, ElementOfSeq
  <2> QED BY <2>2 DEF UpMessages, UdpMessages
<1>4. off[w] \in {0, 1}
      BY DEF Offsets
<1>5. \A i \in 1 .. Len(toServer'[w]) : toServer'[w][i].sess = s =>
        i + off[w] \in Positions(w) /\ toServer[w][i + off[w]] = toServer'[w][i]
      BY <1>1, <1>3 DEF Carried, Positions
<1> QED BY <1>4, <1>5

\* The property of the udp run, for every value of the constants: whatever
\* goroutines of datagrams are still to run, UDP_CLOSE is the last message of
\* its association (socks5.go 480-485, 559-571).
THEOREM SilentOnceClosed == Spec => ClosedIsSilent
<1>1. TypeInv /\ [Next]_vars =>
        [\A s \in Sessions, w \in Sockets :
           listener[s] = "closed" =>
             \E d \in {0, 1} : \A i \in 1 .. Len(toServer'[w]) :
               toServer'[w][i].sess = s =>
                 i + d \in Positions(w) /\ toServer[w][i + d] = toServer'[w][i]]_vars
      BY ClosedStaysSilent
<1> QED BY <1>1, UdpTypeCorrect, PTL DEF Spec, ClosedIsSilent

-----------------------------------------------------------------------------
(* An association connects once *)

RequestOnce(s) ==
  \A w \in Sockets :
    /\ \A i \in Positions(w) : IsConnect(s, w, i) =>
         /\ receiving[s]
         /\ \A v \in Sockets : ~Opened(s, v)
         /\ \A v \in Sockets : \A j \in Positions(v) : IsConnect(s, v, j) => v = w /\ j = i
    /\ Opened(s, w) => receiving[s] /\ \A v \in Sockets : Opened(s, v) => v = w

ConnectCarried(s, off) == Carried(toServer, toServer', s, {"UDP_CONNECT"}, off)

\* A step that carries UDP_CONNECT along and opens nothing keeps RequestOnce.
LEMMA CarryKeepsOnce ==
  ASSUME TypeInv, NEW s \in Sessions, RequestOnce(s),
         NEW off \in Offsets, ConnectCarried(s, off),
         receiving[s] => receiving'[s],
         \A v \in Sockets : Opened(s, v)' => Opened(s, v)
  PROVE  RequestOnce(s)'
<1>1. ASSUME NEW w \in Sockets, NEW i \in Positions(w)', IsConnect(s, w, i)'
      PROVE  i \in Nat /\ off[w] \in {0, 1} /\ i + off[w] \in Positions(w)
             /\ IsConnect(s, w, i + off[w])
      BY <1>1 DEF ConnectCarried, Carried, Positions, IsConnect, Offsets
<1>2. ASSUME NEW w \in Sockets, NEW i \in Positions(w)', IsConnect(s, w, i)'
      PROVE  receiving'[s] /\ \A v \in Sockets : ~Opened(s, v)'
      BY <1>1, <1>2 DEF RequestOnce
<1>3. ASSUME NEW w \in Sockets, NEW i \in Positions(w)', IsConnect(s, w, i)',
             NEW v \in Sockets, NEW j \in Positions(v)', IsConnect(s, v, j)'
      PROVE  v = w /\ j = i
  <2>1. v = w /\ j + off[v] = i + off[w]
        BY <1>1, <1>3 DEF RequestOnce
  <2> QED BY <1>1, <1>3, <2>1
<1>4. ASSUME NEW w \in Sockets, Opened(s, w)'
      PROVE  receiving'[s] /\ \A v \in Sockets : Opened(s, v)' => v = w
      BY <1>4 DEF RequestOnce
<1> QED BY <1>2, <1>3, <1>4 DEF RequestOnce

\* OpenRelay: there is no UDP_CONNECT yet, and one is written.
LEMMA OpensOnce ==
  ASSUME TypeInv, NEW s \in Sessions, RequestOnce(s), Opens(s), UNCHANGED udpServerVars
  PROVE  RequestOnce(s)'
<1>1. PICK i \in packets[s] : OpenRelay(s, i)
      BY DEF Opens
<1>2. /\ \A v \in Sockets : ~Opened(s, v)'
      /\ \A v \in Sockets : \A j \in Positions(v) : ~IsConnect(s, v, j)
      BY <1>1 DEF RequestOnce, OpenRelay, udpServerVars, Opened
<1>3. receiving'[s]
      BY <1>1 DEF OpenRelay, TypeInv, AssocTypeOK
<1>4. CASE toServer' = toServer
      BY <1>2, <1>4 DEF RequestOnce, IsConnect, Positions
<1>5. CASE toServer' # toServer
  <2>1. PICK c \in Channels, seen \in Seen(s, i) :
          /\ FirstUp(c)
          /\ toServer' = After(After(toServer, <<c, wsConns[c]>>,
                                     UdpMsg("UDP_CONNECT", s, sent[s][seen[1]], 0), TRUE),
                               <<c, wsConns[c]>>, UdpMsg("UDP_DATA", s, 0, seen[2]), TRUE)
        BY <1>1, <1>5 DEF OpenRelay
  <2> DEFINE w == <<c, wsConns[c]>>
             connect == UdpMsg("UDP_CONNECT", s, sent[s][seen[1]], 0)
             data == UdpMsg("UDP_DATA", s, 0, seen[2])
  <2>2. /\ w \in Sockets
        /\ toServer[w] \in Seq(UpMessages) /\ toServer \in [Sockets -> Seq(UpMessages)]
        BY <2>1, CurrentIsSocket DEF FirstUp, TypeInv, WireOK, Queues
  <2>3. connect \in UpMessages /\ data \in UpMessages /\ data.type = "UDP_DATA"
        BY SeenType, MessageTypes DEF UdpMsg
  <2> HIDE DEF w, connect, data
  <2>4. toServer' = After(After(toServer, w, connect, TRUE), w, data, TRUE)
        BY <2>1 DEF w, connect, data
  <2>5. /\ toServer'[w] = Append(Append(toServer[w], connect), data)
        /\ \A v \in Sockets \ {w} : toServer'[v] = toServer[v]
        BY <1>5, <2>2, <2>4 DEF After
  <2>6. ASSUME NEW v \in Sockets, NEW j \in Positions(v)', IsConnect(s, v, j)'
        PROVE  v = w /\ j = Len(toServer[w]) + 1
    <3>1. v = w
          BY <1>2, <2>5, <2>6 DEF Positions, IsConnect
    <3>2. /\ Len(toServer'[w]) = Len(toServer[w]) + 2 /\ Len(toServer[w]) \in Nat
          /\ toServer'[w][Len(toServer[w]) + 2] = data
          /\ \A k \in 1 .. Len(toServer[w]) : toServer'[w][k] = toServer[w][k]
          BY <2>2, <2>3, <2>5
    <3>3. j # Len(toServer[w]) + 2
          BY <2>3, <2>6, <3>1, <3>2 DEF IsConnect
    <3>4. j \notin 1 .. Len(toServer[w])
          BY <1>2, <2>6, <3>1, <3>2 DEF IsConnect, Positions
    <3> QED BY <2>6, <3>1, <3>2, <3>3, <3>4 DEF Positions
  <2> QED BY <1>2, <1>3, <2>6 DEF RequestOnce
<1> QED BY <1>4, <1>5

\* ServeConnect: the only UDP_CONNECT is read, and a socket takes its place.
LEMMA ServesOnce ==
  ASSUME TypeInv, NEW s \in Sessions, RequestOnce(s), UNCHANGED assocVars,
         NEW w \in Sockets, ServeConnect(w), Request(w).sess = s
  PROVE  RequestOnce(s)'
<1>1. /\ toServer \in Queues(UpMessages) /\ toServer[w] # << >>
      /\ toServer' = [toServer EXCEPT ![w] = Tail(@)]
      /\ Request(w).type = "UDP_CONNECT"
      BY DEF TypeInv, WireOK, ServeConnect, Serves
<1>2. 1 \in Positions(w) /\ IsConnect(s, w, 1)
      BY <1>1 DEF Queues, Positions, IsConnect, Request
<1>3. /\ receiving'[s]
      /\ \A v \in Sockets : ~Opened(s, v)
      /\ \A v \in Sockets : \A j \in Positions(v) : IsConnect(s, v, j) => v = w /\ j = 1
      BY <1>2 DEF RequestOnce, assocVars, packetVars
<1>4. PICK off \in Offsets : ConnectCarried(s, off) /\ off[w] = 1
  <2> DEFINE q == [toServer EXCEPT ![w] = Tail(@)]
             types == {"UDP_CONNECT"}
  <2>1. toServer \in Queues(UpMessages) /\ toServer[w] # << >> /\ toServer' = q
        BY <1>1
  <2> HIDE DEF types
  <2>2. \E off \in Offsets : Carried(toServer, q, s, types, off) /\ off[w] = 1
        BY <2>1, ReadCarries
  <2> QED BY <2>1, <2>2 DEF ConnectCarried, types
<1>5. ASSUME NEW v \in Sockets, NEW j \in Positions(v)', IsConnect(s, v, j)'
      PROVE  FALSE
  <2>1. j \in Nat \ {0} /\ j + off[v] \in Positions(v) /\ IsConnect(s, v, j + off[v])
        BY <1>4, <1>5 DEF ConnectCarried, Carried, Positions, IsConnect
  <2>2. v = w /\ j + off[v] = 1
        BY <1>3, <2>1
  <2> QED BY <1>4, <2>1, <2>2
<1>6. \A v \in Sockets : Opened(s, v)' => v = w
      BY <1>3 DEF ServeConnect, Opened, TypeInv, UdpServerTypeOK
<1> QED BY <1>3, <1>5, <1>6 DEF RequestOnce

\* Only ServeConnect opens a socket of s, and a socket that was opened is
\* remembered.
LEMMA OpenedMoves ==
  ASSUME TypeInv, [Next]_vars, NEW s \in Sessions
  PROVE  \A v \in Sockets :
           /\ Opened(s, v) => Opened(s, v)'
           /\ Opened(s, v)' /\ ~Opened(s, v) =>
                \E w \in Sockets : ServeConnect(w) /\ Request(w).sess = s /\ UNCHANGED assocVars
<1> DEFINE Moves == \A v \in Sockets :
              /\ Opened(s, v) => Opened(s, v)'
              /\ Opened(s, v)' /\ ~Opened(s, v) =>
                   \E w \in Sockets : ServeConnect(w) /\ Request(w).sess = s /\ UNCHANGED assocVars
<1>1. CASE UNCHANGED udpServerVars
      BY <1>1 DEF udpServerVars, Opened
<1>2. ASSUME NEW w \in Sockets, HandleWebSocket(w), UNCHANGED assocVars
      PROVE  Moves
  <2>1. CASE ServeConnect(w)
        BY <1>2, <2>1 DEF ServeConnect, Opened, TypeInv, UdpServerTypeOK
  <2>2. CASE ServeClose(w)
    <3> DEFINE r == Request(w).sess
    <3>1. r \in Sessions
          BY <2>2, ServeKeeps DEF ServeClose, UpMessages, UdpMessages
    <3>2. CASE r \in udpConns[w]
          BY <2>2, <3>1, <3>2, OneSocketCloses DEF ServeClose, Release, TypeInv, ServerPointers
    <3>3. CASE r \notin udpConns[w]
          BY <2>2, <3>3 DEF ServeClose, Release, Opened
    <3> QED BY <3>2, <3>3
  <2>3. CASE Cleanup(w)
    <3>1. \A r \in udpConns[w] \cap Sessions : Opened(r, w)
          BY DEF TypeInv, ServerPointers
    <3> QED BY <2>3, <3>1, SocketCloses DEF Cleanup
  <2>4. CASE RefuseConnect(w) \/ ServeData(w) \/ DropData(w)
        BY <2>4 DEF RefuseConnect, ServeData, DropData, udpServerVars, Opened
  <2> QED BY <1>2, <2>1, <2>2, <2>3, <2>4 DEF HandleWebSocket
<1>3. ASSUME NEW w \in Sockets, NEW r \in Sessions, Receive(w, r) \/ EndReceiver(w, r)
      PROVE  Moves
  <2>1. CASE Receive(w, r)
        BY <2>1 DEF Receive, Opened
  <2>2. CASE EndReceiver(w, r)
    <3>1. Opened(r, w)
          BY <2>2 DEF EndReceiver, TypeInv, ServerPointers
    <3> QED BY <2>2, <3>1, OneSocketCloses DEF EndReceiver
  <2> QED BY <1>3, <2>1, <2>2
<1> QED BY <1>1, <1>2, <1>3 DEF Next, vars

\* receiving is never reset.
LEMMA ReceivingStays ==
  ASSUME TypeInv, [Next]_vars, NEW s \in Sessions, receiving[s]
  PROVE  receiving'[s]
<1>1. receiving \in [Sessions -> BOOLEAN]
      BY DEF TypeInv, AssocTypeOK
<1>2. CASE UNCHANGED receiving
      BY <1>2
<1>3. ASSUME NEW r \in Sessions, receiving' = [receiving EXCEPT ![r] = TRUE]
      PROVE  receiving'[s]
      BY <1>1, <1>3
<1>4. ASSUME NEW r \in Sessions, AppStep(r) \/ AssociationStep(r)
      PROVE  UNCHANGED receiving \/ receiving' = [receiving EXCEPT ![r] = TRUE]
      BY <1>4 DEF AppStep, AssociationStep, HandleUDPPacket, Associate, AppHangup,
         ReadDatagram, ReadControl, EndRelay, WaitConnected, Finish, Close, DropPacket,
         NoRelay, OpenRelay, SendUDPData, packetVars
<1>5. ASSUME NEW c \in Channels, Dial(c) \/ HandleChannel(c)
      PROVE  UNCHANGED receiving
      BY <1>5 DEF Dial, HandleChannel, ReadError, ReadUdpConnected, ReadUdpError, ReadUdpData,
         DropUdpData, Respond, RespondFails, SignalFailure, assocVars, packetVars
<1>6. UNCHANGED assocVars \/ UNCHANGED vars => UNCHANGED receiving
      BY DEF vars, assocVars, packetVars
<1> QED BY <1>2, <1>3, <1>4, <1>5, <1>6 DEF Next

\* Every step keeps the one UDP_CONNECT or the one socket.
LEMMA ConnectedOnceNext ==
  TypeInv /\ ConnectedOnce /\ [Next]_vars => ConnectedOnce'
<1> SUFFICES ASSUME TypeInv, ConnectedOnce, [Next]_vars, NEW s \in Sessions
             PROVE  RequestOnce(s)'
    BY DEF ConnectedOnce, RequestOnce
<1>1. RequestOnce(s)
      BY DEF ConnectedOnce, RequestOnce
<1>2. CASE Opens(s) /\ UNCHANGED udpServerVars
      BY <1>1, <1>2, OpensOnce
<1>3. CASE \E w \in Sockets : ServeConnect(w) /\ Request(w).sess = s /\ UNCHANGED assocVars
      BY <1>1, <1>3, ServesOnce
<1>4. CASE /\ ~(Opens(s) /\ UNCHANGED udpServerVars)
           /\ ~ \E w \in Sockets : ServeConnect(w) /\ Request(w).sess = s /\ UNCHANGED assocVars
  <2>1. PICK off \in Offsets : ConnectCarried(s, off)
    <3>1. ASSUME NEW r \in Sessions, Speaks(r), UNCHANGED udpServerVars
          PROVE  ConnectCarried(s, Same)
          BY <1>4, <3>1, WriterCarries DEF ConnectCarried
    <3> QED BY <3>1, OthersCarry, SameType DEF ConnectCarried
  <2>2. receiving[s] => receiving'[s]
        BY ReceivingStays
  <2>3. \A v \in Sockets : Opened(s, v)' => Opened(s, v)
        BY <1>4, OpenedMoves
  <2> QED BY <1>1, <2>1, <2>2, <2>3, CarryKeepsOnce
<1> QED BY <1>2, <1>3, <1>4

\* The invariant of the udp run, for every value of the constants: however
\* datagrams, write errors, redials and closes interleave, there is never a
\* second UDP_CONNECT of an association, in a stream or served (socks5.go
\* 480-495, websocket_server.go 274-315).
THEOREM ConnectsOnce == Spec => []ConnectedOnce
<1>1. Init => ConnectedOnce
      BY DEF Init, WireInit, UdpServerInit, ConnectedOnce, Positions, IsConnect, Opened
<1> QED BY <1>1, ConnectedOnceNext, UdpTypeCorrect, PTL DEF Spec

-----------------------------------------------------------------------------
(* The routing maps *)

\* The variables the argument is about; every other step leaves them alone.
mapVars == <<channelMap, boundByChannel, receiving>>

\* BoundAgrees alone is not inductive: SendUDPConnect would move an association
\* another entry still names, were it not the first of its association.
MapInv ==
  /\ channelMap \in [Sessions -> Channels \cup {NoChannel}]
  /\ boundByChannel \in [Channels -> Sessions \cup {NoSession}]
  /\ receiving \in [Sessions -> BOOLEAN]
  /\ \A s \in Sessions : ~receiving[s] => channelMap[s] = NoChannel
  /\ BoundAgrees

\* Initially both maps are empty.
LEMMA MapInvInit == Init => MapInv
  BY DEF Init, AssocInit, MapInv, BoundAgrees, NoChannel

\* A step that leaves the maps alone keeps the invariant.
LEMMA MapInvUnchanged == MapInv /\ UNCHANGED mapVars => MapInv'
  BY DEF MapInv, mapVars, BoundAgrees

\* A first datagram that finds no channel only sets receiving.
LEMMA NoRelayKeepsMaps ==
  ASSUME MapInv, NEW s \in Sessions, NEW i \in packets[s], NoRelay(s, i)
  PROVE  MapInv'
  BY DEF NoRelay, MapInv, BoundAgrees, poolVars

\* A first datagram binds its association, which no entry named before, to a
\* channel, whose entry it overwrites.
LEMMA OpenRelayKeepsMaps ==
  ASSUME MapInv, NEW s \in Sessions, NEW i \in packets[s], OpenRelay(s, i)
  PROVE  MapInv'
<1>1. PICK c \in Channels :
        /\ channelMap' = [channelMap EXCEPT ![s] = c]
        /\ boundByChannel' = [boundByChannel EXCEPT ![c] = s]
      BY DEF OpenRelay
<1>2. ~receiving[s] /\ receiving' = [receiving EXCEPT ![s] = TRUE]
      BY DEF OpenRelay
<1>3. channelMap[s] = NoChannel
      BY <1>2 DEF MapInv
<1>4. ASSUME NEW d \in Channels, boundByChannel'[d] # NoSession
      PROVE  channelMap'[boundByChannel'[d]] = d
  <2>1. CASE d = c
        BY <1>1, <2>1 DEF MapInv
  <2>2. CASE d # c
    <3>1. boundByChannel'[d] = boundByChannel[d] /\ boundByChannel[d] \in Sessions
          BY <1>1, <1>4, <2>2 DEF MapInv
    <3>2. channelMap[boundByChannel[d]] = d
          BY <1>4, <3>1 DEF MapInv, BoundAgrees
    <3>3. boundByChannel[d] # s
          BY <1>3, <3>2 DEF NoChannel, Channels
    <3> QED BY <1>1, <3>1, <3>2, <3>3 DEF MapInv
  <2> QED BY <2>1, <2>2
<1>5. /\ channelMap' \in [Sessions -> Channels \cup {NoChannel}]
      /\ boundByChannel' \in [Channels -> Sessions \cup {NoSession}]
      /\ receiving' \in [Sessions -> BOOLEAN]
      BY <1>1, <1>2 DEF MapInv
<1>6. \A r \in Sessions : ~receiving'[r] => channelMap'[r] = NoChannel
      BY <1>1, <1>2 DEF MapInv
<1> QED BY <1>4, <1>5, <1>6 DEF MapInv, BoundAgrees

\* Close removes the association from channelMap, and the entry of its channel,
\* the only one that can name it.
LEMMA CloseKeepsMaps ==
  ASSUME MapInv, NEW s \in Sessions, Close(s)
  PROVE  MapInv'
<1>1. UNCHANGED receiving
      BY DEF Close, packetVars
<1>2. CASE channelMap[s] = NoChannel
      BY <1>1, <1>2 DEF Close, MapInv, BoundAgrees
<1>3. CASE channelMap[s] # NoChannel
  <2> DEFINE c == channelMap[s]
  <2>1. c \in Channels
        BY <1>3 DEF MapInv
  <2>2. /\ channelMap' = [channelMap EXCEPT ![s] = NoChannel]
        /\ boundByChannel' = [boundByChannel EXCEPT ![c] = NoSession]
        BY <1>3 DEF Close, SendUDPClose
  <2>3. ASSUME NEW d \in Channels, boundByChannel'[d] # NoSession
        PROVE  channelMap'[boundByChannel'[d]] = d
    <3>1. d # c
          BY <2>1, <2>2, <2>3 DEF MapInv
    <3>2. boundByChannel'[d] = boundByChannel[d] /\ boundByChannel[d] \in Sessions
          BY <2>2, <2>3, <3>1 DEF MapInv
    <3>3. channelMap[boundByChannel[d]] = d
          BY <2>3, <3>2 DEF MapInv, BoundAgrees
    <3>4. boundByChannel[d] # s
          BY <3>1, <3>3
    <3> QED BY <2>2, <3>2, <3>3, <3>4 DEF MapInv
  <2>4. \A r \in Sessions : ~receiving'[r] => channelMap'[r] = NoChannel
        BY <1>1, <2>2 DEF MapInv
  <2>5. /\ channelMap' \in [Sessions -> Channels \cup {NoChannel}]
        /\ boundByChannel' \in [Channels -> Sessions \cup {NoSession}]
        BY <2>2 DEF MapInv
  <2> QED BY <1>1, <2>3, <2>4, <2>5 DEF MapInv, BoundAgrees
<1> QED BY <1>2, <1>3

\* All other steps of an association and its app leave the maps alone.
LEMMA OthersKeepMaps ==
  ASSUME NEW s \in Sessions,
         \/ AppStep(s)
         \/ ReadControl(s) \/ EndRelay(s) \/ WaitConnected(s) \/ Finish(s)
         \/ \E i \in packets[s] : DropPacket(s, i) \/ SendUDPData(s, i)
  PROVE  UNCHANGED mapVars
  BY DEF AppStep, Associate, AppHangup, ReadDatagram, ReadControl, EndRelay,
         WaitConnected, Finish, DropPacket, SendUDPData, mapVars, poolVars, packetVars

\* So do the steps of a channel's goroutine.
LEMMA ChannelKeepsMaps ==
  ASSUME NEW c \in Channels, Dial(c) \/ HandleChannel(c)
  PROVE  UNCHANGED mapVars
  BY DEF Dial, HandleChannel, ReadError, ReadUdpConnected, ReadUdpError, ReadUdpData,
         DropUdpData, Respond, RespondFails, SignalFailure, mapVars, assocVars,
         poolVars, packetVars

\* Every step keeps the invariant.
LEMMA MapInvNext == MapInv /\ [Next]_vars => MapInv'
<1> SUFFICES ASSUME MapInv, [Next]_vars PROVE MapInv'
    OBVIOUS
<1>1. ASSUME NEW s \in Sessions, AppStep(s) \/ AssociationStep(s)
      PROVE  MapInv'
  <2>1. CASE Close(s)
        BY <2>1, CloseKeepsMaps
  <2>2. ASSUME NEW i \in packets[s], NoRelay(s, i) PROVE MapInv'
        BY <2>2, NoRelayKeepsMaps
  <2>3. ASSUME NEW i \in packets[s], OpenRelay(s, i) PROVE MapInv'
        BY <2>3, OpenRelayKeepsMaps
  <2>4. CASE \/ AppStep(s)
             \/ ReadControl(s) \/ EndRelay(s) \/ WaitConnected(s) \/ Finish(s)
             \/ \E i \in packets[s] : DropPacket(s, i) \/ SendUDPData(s, i)
        BY <2>4, OthersKeepMaps, MapInvUnchanged
  <2> QED BY <1>1, <2>1, <2>2, <2>3, <2>4 DEF AssociationStep, HandleUDPPacket
<1>2. ASSUME NEW c \in Channels, Dial(c) \/ HandleChannel(c)
      PROVE  MapInv'
      BY <1>2, ChannelKeepsMaps, MapInvUnchanged
<1>3. CASE UNCHANGED assocVars
      BY <1>3, MapInvUnchanged DEF assocVars, poolVars, packetVars, mapVars
<1>4. CASE UNCHANGED vars
      BY <1>3, <1>4 DEF vars
<1> QED BY <1>1, <1>2, <1>3, <1>4 DEF Next

\* channelMap and boundByChannel never disagree about an association, and an
\* association that never tried to connect is not routed (pool.go 133-136,
\* 185-190).
THEOREM RoutingIsConsistent == Spec => []MapInv
  BY MapInvInit, MapInvNext, PTL DEF Spec

\* The property of the run, for every value of the constants (pool.go 135, 188).
THEOREM UdpBoundAgrees == Spec => []BoundAgrees
<1>1. MapInv => BoundAgrees
      BY DEF MapInv
<1> QED BY <1>1, RoutingIsConsistent, PTL

-----------------------------------------------------------------------------
(* Answers are passed on in order *)

IsAnswer(s, w, i) == toClient[w][i].type = "UDP_DATA" /\ toClient[w][i].sess = s
Arriving(w) == 1 .. Len(toClient[w])
Responding(c, s) == handler[c].pc = "respond" /\ handler[c].sess = s
Got(s) == 1 .. Len(appGot[s])

\* An answer is in the stream of the one connection that opened the socket,
\* then with the goroutine of its channel, then with the app; of two answers
\* the one further on is older.
AnswerOrder(s) ==
  /\ \A w \in Sockets : \A i \in Arriving(w) : IsAnswer(s, w, i) =>
       /\ Opened(s, w)
       /\ toClient[w][i].unit <= targetSent[s]
       /\ \A j \in Arriving(w) : i < j /\ IsAnswer(s, w, j) =>
            toClient[w][i].unit < toClient[w][j].unit
       /\ \A c \in Channels : Responding(c, s) => handler[c].unit < toClient[w][i].unit
       /\ \A k \in Got(s) : appGot[s][k] < toClient[w][i].unit
  /\ \A c \in Channels : Responding(c, s) =>
       /\ Opened(s, Current(c))
       /\ handler[c].unit <= targetSent[s]
       /\ \A k \in Got(s) : appGot[s][k] < handler[c].unit
  /\ \A k \in Got(s) :
       /\ appGot[s][k] <= targetSent[s]
       /\ \A l \in Got(s) : k < l => appGot[s][k] < appGot[s][l]

AnswersCarried(s, off) == Carried(toClient, toClient', s, {"UDP_DATA"}, off)

\* A server's message that is no answer of s.
LEMMA AnswerCarries ==
  ASSUME TypeInv, NEW s \in Sessions, NEW w \in Sockets, NEW m \in UdpMessages, Answers(w, m),
         m.sess # s \/ m.type # "UDP_DATA"
  PROVE  AnswersCarried(s, Same)
<1> DEFINE types == {"UDP_DATA"}
<1>1. m.sess # s \/ m.type \notin types
      OBVIOUS
<1>2. toClient \in Queues(UdpMessages)
      BY DEF TypeInv, WireOK
<1> HIDE DEF types
<1>3. Carried(toClient, After(toClient, w, m, TRUE), s, types, Same)
      BY <1>1, <1>2, WriteCarries
<1> QED BY <1>3 DEF Answers, AnswersCarried, types

\* Every step but Receive carries the answers along.
LEMMA StepCarriesAnswers ==
  ASSUME TypeInv, [Next]_vars, NEW s \in Sessions, ~ \E w \in Sockets : Receive(w, s)
  PROVE  \E off \in Offsets : AnswersCarried(s, off)
<1>1. toClient \in Queues(UdpMessages)
      BY DEF TypeInv, WireOK
<1>2. CASE toClient' = toClient
      BY <1>1, <1>2, SameCarries, SameType DEF AnswersCarried
<1>3. ASSUME NEW r \in Sessions, AppStep(r) \/ AssociationStep(r)
      PROVE  toClient' = toClient
      BY <1>3 DEF AppStep, AssociationStep, HandleUDPPacket, Associate, AppHangup, ReadDatagram,
         ReadControl, EndRelay, WaitConnected, Finish, Close, SendUDPClose, ClientWrite,
         DropPacket, NoRelay, OpenRelay, SendUDPData, wireVars
<1>4. ASSUME NEW c \in Channels, Dial(c) \/ HandleChannel(c), toClient' # toClient
      PROVE  \E off \in Offsets : AnswersCarried(s, off)
  <2>1. PICK t : Reads(c, t)
        BY <1>4 DEF Dial, HandleChannel, ReadError, ReadUdpConnected, ReadUdpError, ReadUdpData,
           DropUdpData, Respond, RespondFails, SignalFailure, wireVars
  <2>2. Current(c) \in Sockets
        BY <2>1, CurrentIsSocket DEF Reads, TypeInv, ClientPointers, Current
  <2> HIDE DEF Current
  <2> DEFINE types == {"UDP_DATA"}
  <2> HIDE DEF types
  <2>3. \E off \in Offsets : Carried(toClient, [toClient EXCEPT ![Current(c)] = Tail(@)], s, types, off)
        BY <1>1, <2>1, <2>2, ReadCarries DEF Reads
  <2> QED BY <2>1, <2>3 DEF AnswersCarried, Reads, types
<1>5. ASSUME NEW w \in Sockets, HandleWebSocket(w), toClient' # toClient
      PROVE  \E off \in Offsets : AnswersCarried(s, off)
  <2>1. PICK t : Serves(w, t) /\ (ServeConnect(w) \/ RefuseConnect(w))
        BY <1>5 DEF HandleWebSocket, ServeConnect, RefuseConnect, ServeData, DropData,
           ServeClose, Cleanup
  <2>2. Request(w).sess \in Sessions
        BY <2>1, ServeKeeps DEF UpMessages, UdpMessages
  <2>3. PICK m \in UdpMessages : Answers(w, m) /\ m.type # "UDP_DATA"
        BY <2>1, <2>2, MessageTypes DEF ServeConnect, RefuseConnect, UdpMsg, UdpMessages, UdpTypes
  <2> QED BY <2>3, AnswerCarries, SameType
<1>6. ASSUME NEW w \in Sockets, NEW r \in Sessions, Receive(w, r) \/ EndReceiver(w, r)
      PROVE  \E off \in Offsets : AnswersCarried(s, off)
  <2>1. CASE EndReceiver(w, r)
        BY <1>2, <2>1 DEF EndReceiver, wireVars
  <2>2. CASE Receive(w, r)
    <3> DEFINE m == UdpMsg("UDP_DATA", r, socket[w][r].addr, targetSent[r] + 1)
    <3>1. r # s
          BY <2>2
    <3>2. socket[w][r].addr \in Targets /\ targetSent[r] + 1 \in Nat
          BY <2>2, MaxDownAssumption DEF Receive, TypeInv, ServerPointers, UdpServerTypeOK, Opened
    <3>3. m \in UdpMessages /\ m.sess = r
          BY <3>2, MessageTypes DEF UdpMsg
    <3>4. Answers(w, m)
          BY <2>2 DEF Receive
    <3> HIDE DEF m
    <3> QED BY <3>1, <3>3, <3>4, AnswerCarries, SameType
  <2> QED BY <1>6, <2>1, <2>2
<1>7. ASSUME NEW w \in Sockets, Break(w)
      PROVE  \E off \in Offsets : AnswersCarried(s, off)
  <2>1. PICK n \in 0 .. Len(toClient[w]) :
          toClient' = [toClient EXCEPT ![w] = SubSeq(@, 1, n)]
        BY <1>7 DEF Break
  <2> QED BY <1>1, <2>1, BreakCarries, SameType DEF AnswersCarried
<1>8. CASE UNCHANGED vars
      BY <1>2, <1>8 DEF vars, wireVars
<1> QED BY <1>2, <1>3, <1>4, <1>5, <1>6, <1>7, <1>8 DEF Next

\* What a step that passes no answer of s on does to it: the goroutine that has
\* one goes on with it or gives up, nothing else moves.
LEMMA OtherwiseQuiet ==
  ASSUME TypeInv, [Next]_vars, NEW s \in Sessions,
         ~ \E w \in Sockets : Receive(w, s),
         ~ \E c \in Channels : ReadUdpData(c) /\ Incoming(c).sess = s,
         ~ \E c \in Channels : Respond(c) /\ handler[c].sess = s
  PROVE  /\ appGot'[s] = appGot[s] /\ targetSent'[s] = targetSent[s]
         /\ \A c \in Channels : Responding(c, s)' =>
              /\ Responding(c, s)
              /\ handler'[c] = handler[c] /\ wsConns'[c] = wsConns[c]
<1>1. targetSent'[s] = targetSent[s]
  <2>1. ASSUME NEW w \in Sockets, NEW r \in Sessions, Receive(w, r)
        PROVE  targetSent'[s] = targetSent[s]
        BY <2>1 DEF Receive, TypeInv, UdpServerTypeOK
  <2> QED BY <2>1 DEF Next, HandleWebSocket, ServeConnect, RefuseConnect, ServeData, DropData,
           ServeClose, Cleanup, EndReceiver, vars, udpServerVars
<1>2. ASSUME NEW r \in Sessions, AppStep(r) \/ AssociationStep(r)
      PROVE  UNCHANGED <<appGot, handler, wsConns>>
      BY <1>2 DEF AppStep, AssociationStep, HandleUDPPacket, Associate, AppHangup, ReadDatagram,
         ReadControl, EndRelay, WaitConnected, Finish, Close, DropPacket, NoRelay, OpenRelay,
         SendUDPData, poolVars
<1>3. ASSUME NEW d \in Channels, Dial(d) \/ HandleChannel(d)
      PROVE  /\ appGot'[s] = appGot[s]
             /\ \A c \in Channels : Responding(c, s)' =>
                  /\ Responding(c, s)
                  /\ handler'[c] = handler[c] /\ wsConns'[c] = wsConns[c]
  <2>1. CASE Dial(d)
        BY <2>1 DEF Dial, Idle, Responding, TypeInv, AssocTypeOK
  <2>2. CASE Respond(d)
    <3>1. handler[d].sess \in Sessions /\ handler[d].sess # s
          BY <2>2 DEF Respond, TypeInv, ClientPointers
    <3> QED BY <2>2, <3>1 DEF Respond, Idle, Responding, TypeInv, AssocTypeOK
  <2>3. CASE ReadUdpData(d)
    <3>1. Incoming(d).sess # s
          BY <2>3
    <3> HIDE DEF Incoming
    <3> QED BY <2>3, <3>1 DEF ReadUdpData, Responding, TypeInv, AssocTypeOK
  <2>4. CASE ReadError(d) \/ RespondFails(d) \/ SignalFailure(d)
        BY <2>4 DEF ReadError, RespondFails, SignalFailure, Idle, Responding, TypeInv, AssocTypeOK
  <2>5. CASE ReadUdpConnected(d) \/ ReadUdpError(d) \/ DropUdpData(d)
        BY <2>5 DEF ReadUdpConnected, ReadUdpError, DropUdpData, Responding, assocVars, poolVars
  <2> QED BY <1>3, <2>1, <2>2, <2>3, <2>4, <2>5 DEF HandleChannel
<1>4. CASE UNCHANGED assocVars \/ UNCHANGED vars
      BY <1>1, <1>4 DEF vars, assocVars, poolVars, Responding
<1> QED BY <1>1, <1>2, <1>3, <1>4 DEF Next, Responding

\* Then the order is kept.
LEMMA QuietKeepsOrder ==
  ASSUME TypeInv, NEW s \in Sessions, AnswerOrder(s), NEW off \in Offsets, AnswersCarried(s, off),
         \A v \in Sockets : Opened(s, v) => Opened(s, v)',
         appGot'[s] = appGot[s], targetSent'[s] = targetSent[s],
         \A c \in Channels : Responding(c, s)' =>
           Responding(c, s) /\ handler'[c] = handler[c] /\ wsConns'[c] = wsConns[c]
  PROVE  AnswerOrder(s)'
<1>1. ASSUME NEW w \in Sockets, NEW i \in Arriving(w)', IsAnswer(s, w, i)'
      PROVE  /\ i \in Nat /\ off[w] \in {0, 1} /\ i + off[w] \in Arriving(w)
             /\ IsAnswer(s, w, i + off[w])
             /\ toClient'[w][i] = toClient[w][i + off[w]]
      BY <1>1 DEF AnswersCarried, Carried, Arriving, IsAnswer, Offsets
<1>2. \A c \in Channels : Responding(c, s)' =>
        Current(c)' = Current(c) /\ (Opened(s, Current(c)) => Opened(s, Current(c))')
  <2>1. ASSUME NEW c \in Channels, Responding(c, s)'
        PROVE  Current(c)' = Current(c) /\ Current(c) \in Sockets
    <3>1. wsConns[c] # 0
          BY <2>1 DEF Responding, TypeInv, ClientPointers
    <3> QED BY <2>1, <3>1, CurrentIsSocket DEF Current
  <2>2. \A c \in Channels : Opened(s, Current(c))' <=> socket'[Current(c)'][s].state # "none"
        BY DEF Opened
  <2>3. \A v \in Sockets : Opened(s, v)' <=> socket'[v][s].state # "none"
        BY DEF Opened
  <2> QED BY <2>1, <2>2, <2>3
<1>3. Got(s)' = Got(s)
      BY DEF Got
<1>4. ASSUME NEW w \in Sockets, NEW i \in Arriving(w)', IsAnswer(s, w, i)'
      PROVE  /\ Opened(s, w)'
             /\ toClient'[w][i].unit <= targetSent'[s]
             /\ \A j \in Arriving(w)' : i < j /\ IsAnswer(s, w, j)' =>
                  toClient'[w][i].unit < toClient'[w][j].unit
             /\ \A c \in Channels : Responding(c, s)' => handler'[c].unit < toClient'[w][i].unit
             /\ \A k \in Got(s)' : appGot'[s][k] < toClient'[w][i].unit
  <2>1. ASSUME NEW j \in Arriving(w)', i < j, IsAnswer(s, w, j)'
        PROVE  toClient'[w][i].unit < toClient'[w][j].unit
    <3>1. i + off[w] < j + off[w]
          BY <1>1, <1>4, <2>1
    <3> QED BY <1>1, <1>4, <2>1, <3>1 DEF AnswerOrder
  <2> QED BY <1>1, <1>3, <1>4, <2>1 DEF AnswerOrder
<1>5. ASSUME NEW c \in Channels, Responding(c, s)'
      PROVE  /\ Opened(s, Current(c))'
             /\ handler'[c].unit <= targetSent'[s]
             /\ \A k \in Got(s)' : appGot'[s][k] < handler'[c].unit
      BY <1>2, <1>3, <1>5 DEF AnswerOrder
<1>6. ASSUME NEW k \in Got(s)'
      PROVE  /\ appGot'[s][k] <= targetSent'[s]
             /\ \A l \in Got(s)' : k < l => appGot'[s][k] < appGot'[s][l]
      BY <1>3, <1>6 DEF AnswerOrder
<1> QED BY <1>4, <1>5, <1>6 DEF AnswerOrder

\* The server's receiver writes an answer, the last and the youngest.
LEMMA ReceiveKeepsOrder ==
  ASSUME TypeInv, ConnectedOnce, NEW s \in Sessions, AnswerOrder(s), NEW w \in Sockets,
         Receive(w, s), UNCHANGED assocVars
  PROVE  AnswerOrder(s)'
<1> DEFINE n == targetSent[s] + 1
           m == UdpMsg("UDP_DATA", s, socket[w][s].addr, n)
           last == Len(toClient[w]) + 1
<1>1. /\ targetSent[s] \in Nat /\ targetSent'[s] = n
      /\ UNCHANGED <<appGot, handler, wsConns, socket>>
      BY MaxDownAssumption DEF Receive, assocVars, poolVars, TypeInv, UdpServerTypeOK
<1>2. Opened(s, w) /\ m \in UdpMessages /\ m.unit = n
  <2>1. Opened(s, w)
        BY DEF Receive, TypeInv, ServerPointers
  <2>2. socket[w][s].addr \in Targets /\ n \in Nat
        BY <1>1, <2>1 DEF TypeInv, ServerPointers
  <2> QED BY <2>1, <2>2, MessageTypes DEF UdpMsg
<1>3. /\ Got(s)' = Got(s)
      /\ \A v \in Sockets : Opened(s, v)' <=> Opened(s, v)
      /\ \A c \in Channels : Responding(c, s)' <=> Responding(c, s)
      /\ \A c \in Channels : Opened(s, Current(c))' <=> Opened(s, Current(c))
      BY <1>1 DEF Got, Opened, Responding, Current
<1>4. /\ toClient \in Queues(UdpMessages)
      /\ toClient' = After(toClient, w, m, TRUE)
      BY DEF TypeInv, WireOK, Receive, Answers
<1> HIDE DEF m
<1>5. \A v \in Sockets : \A i \in Arriving(v)' : IsAnswer(s, v, i)' =>
        \/ i \in Arriving(v) /\ IsAnswer(s, v, i) /\ toClient'[v][i] = toClient[v][i]
        \/ v = w /\ i = last /\ toClient'[v][i].unit = n
  <2>1. CASE toClient' = toClient
        BY <2>1 DEF Arriving, IsAnswer
  <2>2. CASE toClient' # toClient
    <3>1. /\ toClient'[w] = Append(toClient[w], m)
          /\ \A v \in Sockets \ {w} : toClient'[v] = toClient[v]
          BY <1>4, <2>2 DEF After, Queues
    <3>2. /\ toClient[w] \in Seq(UdpMessages)
          /\ Len(toClient[w]) \in Nat
          BY <1>4 DEF Queues
    <3>3. /\ Len(toClient'[w]) = last
          /\ \A i \in 1 .. Len(toClient[w]) : toClient'[w][i] = toClient[w][i]
          /\ toClient'[w][last] = m
          BY <1>2, <3>1, <3>2, AppendProperties
    <3>4. ASSUME NEW v \in Sockets, NEW i \in Arriving(v)', IsAnswer(s, v, i)'
          PROVE  \/ i \in Arriving(v) /\ IsAnswer(s, v, i) /\ toClient'[v][i] = toClient[v][i]
                 \/ v = w /\ i = last /\ toClient'[v][i].unit = n
      <4>1. CASE v = w
        <5>1. i \in 1 .. Len(toClient[w]) \/ i = last
              BY <3>2, <3>3, <3>4, <4>1 DEF Arriving
        <5> QED BY <1>2, <3>3, <3>4, <4>1, <5>1 DEF Arriving, IsAnswer
      <4>2. CASE v # w
            BY <3>1, <3>4, <4>2 DEF Arriving, IsAnswer
      <4> QED BY <4>1, <4>2
    <3> QED BY <3>4
  <2> QED BY <2>1, <2>2
<1>6. /\ \A v \in Sockets : \A i \in Arriving(v) : IsAnswer(s, v, i) => toClient[v][i].unit < n
      /\ \A v \in Sockets : \A i \in Arriving(v) : i < last \/ v # w
      /\ \A c \in Channels : Responding(c, s) => handler[c].unit < n
      /\ \A k \in Got(s) : appGot[s][k] < n
  <2>1. \A v \in Sockets : \A i \in Arriving(v) : toClient[v][i].unit \in Nat
    <3>1. \A q \in Seq(UdpMessages) : \A i \in 1 .. Len(q) : q[i] \in UdpMessages
          BY ElementOfSeq
    <3> QED BY <1>4, <3>1 DEF Queues, Arriving, UdpMessages
  <2>2. \A c \in Channels : handler[c].unit \in Nat
        BY DEF TypeInv, AssocTypeOK
  <2>3. \A k \in Got(s) : appGot[s][k] \in Nat
    <3>1. appGot[s] \in Seq(Nat)
          BY DEF TypeInv, AssocTypeOK
    <3> QED BY <3>1, ElementOfSeq DEF Got
  <2>4. Len(toClient[w]) \in Nat
        BY <1>4 DEF Queues
  <2> QED BY <1>1, <2>1, <2>2, <2>3, <2>4 DEF AnswerOrder, Arriving
<1>7. ASSUME NEW v \in Sockets, NEW i \in Arriving(v)', IsAnswer(s, v, i)'
      PROVE  /\ Opened(s, v)'
             /\ toClient'[v][i].unit <= targetSent'[s]
             /\ \A j \in Arriving(v)' : i < j /\ IsAnswer(s, v, j)' =>
                  toClient'[v][i].unit < toClient'[v][j].unit
             /\ \A c \in Channels : Responding(c, s)' => handler'[c].unit < toClient'[v][i].unit
             /\ \A k \in Got(s)' : appGot'[s][k] < toClient'[v][i].unit
  <2>1. CASE i \in Arriving(v) /\ IsAnswer(s, v, i) /\ toClient'[v][i] = toClient[v][i]
    <3>1. toClient[v][i].unit < n
          BY <1>6, <2>1
    <3>2. ASSUME NEW j \in Arriving(v)', i < j, IsAnswer(s, v, j)'
          PROVE  toClient'[v][i].unit < toClient'[v][j].unit
          BY <1>5, <2>1, <3>1, <3>2 DEF AnswerOrder
    <3>3. toClient[v][i].unit <= n
      <4>1. toClient[v][i].unit <= targetSent[s]
            BY <2>1 DEF AnswerOrder
      <4>2. toClient[v][i].unit \in Nat
        <5>1. toClient[v] \in Seq(UdpMessages) /\ i \in 1 .. Len(toClient[v])
              BY <1>4, <2>1 DEF Queues, Arriving
        <5>2. toClient[v][i] \in UdpMessages
              BY <5>1, ElementOfSeq
        <5> QED BY <5>2 DEF UdpMessages
      <4> QED BY <1>1, <4>1, <4>2
    <3> QED BY <1>1, <1>3, <2>1, <3>2, <3>3 DEF AnswerOrder
  <2>2. CASE v = w /\ i = last /\ toClient'[v][i].unit = n
    <3>1. ASSUME NEW j \in Arriving(v)', i < j, IsAnswer(s, v, j)'
          PROVE  FALSE
      <4>1. Len(toClient[w]) \in Nat
            BY <1>4 DEF Queues
      <4>2. j \in Arriving(w) \/ j = last
            BY <1>5, <2>2, <3>1
      <4> QED BY <2>2, <3>1, <4>1, <4>2 DEF Arriving
    <3> QED BY <1>1, <1>2, <1>3, <1>6, <2>2, <3>1
  <2> QED BY <1>5, <1>7, <2>1, <2>2
<1>8. \A c \in Channels : Responding(c, s) => handler[c].unit <= n
      BY <1>1, <1>6 DEF AnswerOrder, TypeInv, AssocTypeOK
<1>9. \A k \in Got(s) : appGot[s][k] <= n
  <2>1. appGot[s] \in Seq(Nat)
        BY DEF TypeInv, AssocTypeOK
  <2>2. \A k \in Got(s) : appGot[s][k] \in Nat
        BY <2>1, ElementOfSeq DEF Got
  <2> QED BY <1>1, <1>6, <2>2
<1> QED BY <1>1, <1>3, <1>7, <1>8, <1>9 DEF AnswerOrder

\* The pool reads an answer, the oldest in the stream.
LEMMA ReadKeepsOrder ==
  ASSUME TypeInv, ConnectedOnce, [Next]_vars, UNCHANGED udpServerVars,
         NEW s \in Sessions, AnswerOrder(s),
         NEW c \in Channels, ReadUdpData(c), Incoming(c).sess = s
  PROVE  AnswerOrder(s)'
<1> DEFINE x == Current(c)
<1>1. /\ UNCHANGED <<appGot, wsConns, targetSent, socket>>
      /\ handler' = [handler EXCEPT ![c] = [pc |-> "respond", sess |-> s, unit |-> Incoming(c).unit]]
      /\ handler \in [Channels -> [pc : HandlerStates, sess : Sessions \cup {NoSession}, unit : Nat]]
      BY DEF ReadUdpData, udpServerVars, TypeInv, AssocTypeOK
<1>2. /\ x \in Sockets /\ x[1] = c
      /\ toClient \in Queues(UdpMessages) /\ toClient[x] # << >>
      /\ toClient' = [toClient EXCEPT ![x] = Tail(@)]
      /\ Incoming(c).type = "UDP_DATA"
      BY CurrentIsSocket DEF ReadUdpData, Reads, TypeInv, ClientPointers, WireOK, Current
<1>3. /\ 1 \in Arriving(x) /\ IsAnswer(s, x, 1)
      /\ toClient[x][1] = Incoming(c) /\ Incoming(c).unit \in Nat
  <2>1. toClient[x] \in Seq(UdpMessages)
        BY <1>2 DEF Queues
  <2>2. /\ Incoming(c) = toClient[x][1] /\ Len(toClient[x]) \in Nat \ {0}
        /\ toClient[x][1] \in UdpMessages
        BY <1>2, <2>1 DEF Incoming
  <2> QED BY <1>2, <2>2 DEF Arriving, IsAnswer, UdpMessages
<1>4. PICK off \in Offsets : Carried(toClient, toClient', s, {"UDP_DATA"}, off) /\ off[x] = 1
  <2> DEFINE types == {"UDP_DATA"}
  <2> HIDE DEF types, x
  <2>1. toClient \in Queues(UdpMessages) /\ x \in Sockets /\ toClient[x] # << >>
        BY <1>2
  <2>2. \E off \in Offsets :
          Carried(toClient, [toClient EXCEPT ![x] = Tail(@)], s, types, off) /\ off[x] = 1
        BY <2>1, ReadCarries
  <2> QED BY <1>2, <2>2 DEF types
<1> DEFINE n == Incoming(c).unit
<1> HIDE DEF Incoming, x
<1>5. /\ Opened(s, x) /\ n <= targetSent[s]
      /\ \A k \in Got(s) : appGot[s][k] < n
      /\ \A j \in Arriving(x) : 1 < j /\ IsAnswer(s, x, j) => n < toClient[x][j].unit
      /\ \A v \in Sockets : Opened(s, v) => v = x
      BY <1>2, <1>3 DEF AnswerOrder, ConnectedOnce
<1>6. \A d \in Channels : Responding(d, s)' => d = c /\ handler'[d].unit = n
  <2>1. ASSUME NEW d \in Channels, d # c, Responding(d, s)'
        PROVE  FALSE
    <3>1. Responding(d, s)
          BY <1>1, <2>1 DEF Responding
    <3>2. Opened(s, Current(d)) /\ Current(d) \in Sockets
      <4>1. wsConns[d] # 0
            BY <3>1 DEF Responding, TypeInv, ClientPointers
      <4> QED BY <3>1, <4>1, CurrentIsSocket DEF AnswerOrder, Current
    <3>3. Current(d) = x
          BY <1>5, <3>2
    <3> QED BY <1>2, <2>1, <3>3 DEF Current
  <2> QED BY <1>1, <2>1
<1>7. /\ Got(s)' = Got(s)
      /\ \A v \in Sockets : Opened(s, v)' <=> Opened(s, v)
      /\ Opened(s, Current(c))' <=> Opened(s, Current(c))
      BY <1>1 DEF Got, Opened, Current
<1>8. ASSUME NEW v \in Sockets, NEW i \in Arriving(v)', IsAnswer(s, v, i)'
      PROVE  /\ v = x
             /\ i \in Nat \ {0} /\ i + 1 \in Arriving(x) /\ IsAnswer(s, x, i + 1)
             /\ toClient'[v][i] = toClient[x][i + 1]
  <2>1. /\ i \in Nat \ {0} /\ i + off[v] \in Arriving(v)
        /\ IsAnswer(s, v, i + off[v])
        /\ toClient'[v][i] = toClient[v][i + off[v]]
        BY <1>4, <1>8 DEF Carried, Arriving, IsAnswer
  <2>2. v = x
        BY <1>5, <2>1 DEF AnswerOrder
  <2> QED BY <1>4, <2>1, <2>2
<1>9. ASSUME NEW v \in Sockets, NEW i \in Arriving(v)', IsAnswer(s, v, i)'
      PROVE  /\ Opened(s, v)'
             /\ toClient'[v][i].unit <= targetSent'[s]
             /\ \A j \in Arriving(v)' : i < j /\ IsAnswer(s, v, j)' =>
                  toClient'[v][i].unit < toClient'[v][j].unit
             /\ \A d \in Channels : Responding(d, s)' => handler'[d].unit < toClient'[v][i].unit
             /\ \A k \in Got(s)' : appGot'[s][k] < toClient'[v][i].unit
  <2>1. ASSUME NEW j \in Arriving(v)', i < j, IsAnswer(s, v, j)'
        PROVE  toClient'[v][i].unit < toClient'[v][j].unit
    <3>1. /\ toClient'[v][j] = toClient[x][j + 1] /\ j + 1 \in Arriving(x)
          /\ IsAnswer(s, x, j + 1) /\ i + 1 < j + 1
          BY <1>8, <1>9, <2>1
    <3>2. /\ toClient'[v][i] = toClient[x][i + 1] /\ i + 1 \in Arriving(x)
          /\ IsAnswer(s, x, i + 1)
          BY <1>8, <1>9
    <3> QED BY <1>2, <3>1, <3>2 DEF AnswerOrder
  <2>2. /\ n < toClient'[v][i].unit
        /\ toClient'[v][i].unit <= targetSent[s]
        /\ \A k \in Got(s) : appGot[s][k] < toClient'[v][i].unit
    <3>1. /\ v = x /\ 1 < i + 1 /\ i + 1 \in Arriving(x) /\ IsAnswer(s, x, i + 1)
          /\ toClient'[v][i] = toClient[x][i + 1]
          BY <1>8, <1>9
    <3> QED BY <1>2, <1>5, <3>1 DEF AnswerOrder
  <2>3. Opened(s, v)'
        BY <1>5, <1>7, <1>8, <1>9
  <2> QED BY <1>1, <1>6, <1>7, <2>1, <2>2, <2>3
<1>10. Opened(s, Current(c))'
       BY <1>5, <1>7 DEF x
<1> QED BY <1>1, <1>5, <1>6, <1>7, <1>9, <1>10 DEF AnswerOrder

\* The pool hands an answer to the app: it is younger than what the app has, and
\* older than what is still in the stream.
LEMMA RespondKeepsOrder ==
  ASSUME TypeInv, ConnectedOnce, UNCHANGED udpServerVars, NEW s \in Sessions, AnswerOrder(s),
         NEW c \in Channels, Respond(c), handler[c].sess = s
  PROVE  AnswerOrder(s)'
<1> DEFINE n == handler[c].unit
           last == Len(appGot[s]) + 1
<1>1. /\ UNCHANGED <<toClient, wsConns, targetSent, socket>>
      /\ appGot' = [appGot EXCEPT ![s] = Append(@, n)]
      /\ handler' = [handler EXCEPT ![c] = Idle("read")]
      /\ Responding(c, s)
      BY DEF Respond, udpServerVars, wireVars, Responding
<1>2. /\ appGot[s] \in Seq(Nat) /\ n \in Nat
      /\ appGot \in [Sessions -> Seq(Nat)]
      /\ Len(appGot[s]) \in Nat
      BY DEF TypeInv, AssocTypeOK
<1>3. /\ Got(s)' = 1 .. last
      /\ \A k \in Got(s) : appGot'[s][k] = appGot[s][k]
      /\ appGot'[s][last] = n
  <2>1. appGot'[s] = Append(appGot[s], n)
        BY <1>1, <1>2
  <2> QED BY <1>2, <2>1, AppendProperties DEF Got
<1>4. ASSUME NEW k \in Got(s)'
      PROVE  (k \in Got(s) /\ appGot'[s][k] = appGot[s][k]) \/ (k = last /\ appGot'[s][k] = n)
  <2>1. k \in 1 .. last
        BY <1>3, <1>4
  <2>2. k \in Got(s) \/ k = last
        BY <1>2, <2>1 DEF Got
  <2> QED BY <1>3, <2>2
<1>5. \A d \in Channels : ~Responding(d, s)'
  <2>1. ASSUME NEW d \in Channels, Responding(d, s)'
        PROVE  FALSE
    <3>1. d # c
          BY <1>1, <2>1 DEF Responding, Idle, TypeInv, AssocTypeOK
    <3>2. Responding(d, s)
          BY <1>1, <2>1, <3>1 DEF Responding, TypeInv, AssocTypeOK
    <3>3. wsConns[c] # 0 /\ wsConns[d] # 0
          BY <1>1, <3>2 DEF Responding, TypeInv, ClientPointers
    <3>4. /\ Current(c) \in Sockets /\ Current(d) \in Sockets
          /\ Opened(s, Current(c)) /\ Opened(s, Current(d))
          BY <1>1, <3>2, <3>3, CurrentIsSocket DEF AnswerOrder, Current
    <3>5. Current(c) = Current(d)
          BY <3>4 DEF ConnectedOnce
    <3> QED BY <3>1, <3>5 DEF Current
  <2> QED BY <2>1
<1>6. /\ \A v \in Sockets : Arriving(v)' = Arriving(v)
      /\ \A v \in Sockets : \A i \in Arriving(v) : IsAnswer(s, v, i)' <=> IsAnswer(s, v, i)
      /\ \A v \in Sockets : Opened(s, v)' <=> Opened(s, v)
      BY <1>1 DEF Arriving, IsAnswer, Opened
<1>7. ASSUME NEW v \in Sockets, NEW i \in Arriving(v)', IsAnswer(s, v, i)'
      PROVE  /\ Opened(s, v)'
             /\ toClient'[v][i].unit <= targetSent'[s]
             /\ \A j \in Arriving(v)' : i < j /\ IsAnswer(s, v, j)' =>
                  toClient'[v][i].unit < toClient'[v][j].unit
             /\ \A k \in Got(s)' : appGot'[s][k] < toClient'[v][i].unit
  <2>1. i \in Arriving(v) /\ IsAnswer(s, v, i)
        BY <1>6, <1>7
  <2>2. \A k \in Got(s)' : appGot'[s][k] < toClient[v][i].unit
        BY <1>1, <1>4, <2>1 DEF AnswerOrder
  <2> QED BY <1>1, <1>6, <2>1, <2>2 DEF AnswerOrder
<1>8. ASSUME NEW k \in Got(s)'
      PROVE  /\ appGot'[s][k] <= targetSent'[s]
             /\ \A l \in Got(s)' : k < l => appGot'[s][k] < appGot'[s][l]
  <2>1. appGot'[s][k] <= targetSent'[s]
        BY <1>1, <1>4, <1>8 DEF AnswerOrder
  <2>2. ASSUME NEW l \in Got(s)', k < l
        PROVE  appGot'[s][k] < appGot'[s][l]
    <3>1. k \in Got(s)
          BY <1>2, <1>3, <1>8, <2>2 DEF Got
    <3> QED BY <1>1, <1>3, <1>4, <2>2, <3>1 DEF AnswerOrder
  <2> QED BY <2>1, <2>2
<1> QED BY <1>5, <1>7, <1>8 DEF AnswerOrder

\* Every step keeps the order.
LEMMA OrderNext ==
  ASSUME TypeInv, ConnectedOnce, [Next]_vars, NEW s \in Sessions, AnswerOrder(s)
  PROVE  AnswerOrder(s)'
<1>1. ASSUME NEW w \in Sockets, Receive(w, s)
      PROVE  AnswerOrder(s)'
  <2>1. targetSent'[s] # targetSent[s]
        BY <1>1, MaxDownAssumption DEF Receive, TypeInv, UdpServerTypeOK
  <2>2. UNCHANGED assocVars
        BY <2>1 DEF Next, vars, udpServerVars
  <2> QED BY <1>1, <2>2, ReceiveKeepsOrder
<1>2. ASSUME NEW c \in Channels, ReadUdpData(c), Incoming(c).sess = s
      PROVE  AnswerOrder(s)'
  <2>1. handler'[c] # handler[c]
        BY <1>2 DEF ReadUdpData, Reads, TypeInv, AssocTypeOK
  <2>2. UNCHANGED udpServerVars
        BY <2>1 DEF Next, vars, assocVars, poolVars
  <2> QED BY <1>2, <2>2, ReadKeepsOrder
<1>3. ASSUME NEW c \in Channels, Respond(c), handler[c].sess = s
      PROVE  AnswerOrder(s)'
  <2>1. handler'[c] # handler[c]
        BY <1>3 DEF Respond, Idle, TypeInv, AssocTypeOK
  <2>2. UNCHANGED udpServerVars
        BY <2>1 DEF Next, vars, assocVars, poolVars
  <2> QED BY <1>3, <2>2, RespondKeepsOrder
<1>4. CASE /\ ~ \E w \in Sockets : Receive(w, s)
           /\ ~ \E c \in Channels : ReadUdpData(c) /\ Incoming(c).sess = s
           /\ ~ \E c \in Channels : Respond(c) /\ handler[c].sess = s
  <2>1. PICK off \in Offsets : AnswersCarried(s, off)
        BY <1>4, StepCarriesAnswers
  <2>2. \A v \in Sockets : Opened(s, v) => Opened(s, v)'
        BY OpenedMoves
  <2>3. /\ appGot'[s] = appGot[s] /\ targetSent'[s] = targetSent[s]
        /\ \A c \in Channels : Responding(c, s)' =>
             Responding(c, s) /\ handler'[c] = handler[c] /\ wsConns'[c] = wsConns[c]
        BY <1>4, OtherwiseQuiet
  <2> QED BY <2>1, <2>2, <2>3, QuietKeepsOrder
<1> QED BY <1>1, <1>2, <1>3, <1>4

\* Datagrams of a target reach the app in the order the server received them,
\* none twice, through losses, failed writes, redials and closes
\* (websocket_server.go 326-348, pool.go 239-256, socks5.go 534-547).
THEOREM AnswersKeepOrder == Spec => []AnswersInOrder
<1> DEFINE OrderInv == TypeInv /\ ConnectedOnce /\ \A s \in Sessions : AnswerOrder(s)
<1>1. Init => OrderInv
  <2>1. Init => ConnectedOnce
        BY DEF Init, WireInit, UdpServerInit, ConnectedOnce, Positions, IsConnect, Opened
  <2>2. Init => \A s \in Sessions : AnswerOrder(s)
    <3> SUFFICES ASSUME Init, NEW s \in Sessions PROVE AnswerOrder(s)
        OBVIOUS
    <3>1. /\ \A w \in Sockets : Arriving(w) = {}
          /\ Got(s) = {}
          /\ \A c \in Channels : ~Responding(c, s)
          BY DEF Init, WireInit, AssocInit, Arriving, Got, Responding, Idle
    <3> QED BY <3>1 DEF AnswerOrder
  <2> QED BY <2>1, <2>2, TypeInvInit
<1>2. OrderInv /\ [Next]_vars => OrderInv'
      BY TypeInvNext, ConnectedOnceNext, OrderNext
<1>3. OrderInv => AnswersInOrder
      BY DEF AnswerOrder, AnswersInOrder, Got
<1> QED BY <1>1, <1>2, <1>3, PTL DEF Spec
=============================================================================
