------------------------------ MODULE UdpTunnel -----------------------------
(***************************************************************************)
(* UDP associations end to end: apps, the client's associations and pool,  *)
(* the WebSocket connections, the server's sockets and the targets.        *)
(***************************************************************************)
EXTENDS UdpAssociation, UdpServer

vars == <<wireVars, assocVars, udpServerVars>>

TypeOK ==
  /\ link \in [Sockets -> LinkStates]
  /\ toServer \in [Sockets -> Seq(UdpMessages)]
  /\ toClient \in [Sockets -> Seq(UdpMessages)]
  /\ AssocTypeOK
  /\ UdpServerTypeOK

Init ==
  /\ WireInit
  /\ AssocInit
  /\ UdpServerInit

\* The steps of the program, but for dialling and starting an association
AssociationStep(s) ==
  \/ ReadControl(s)
  \/ EndRelay(s)
  \/ WaitConnected(s)
  \/ Finish(s)
  \/ Close(s)
  \/ \E i \in packets[s] : HandleUDPPacket(s, i)

AppStep(s) ==
  \/ Associate(s)
  \/ AppHangup(s)
  \/ \E t \in Targets : ReadDatagram(s, t)

Next ==
  \/ \E s \in Sessions : (AppStep(s) \/ AssociationStep(s)) /\ UNCHANGED udpServerVars
  \/ \E c \in Channels : (Dial(c) \/ HandleChannel(c)) /\ UNCHANGED udpServerVars
  \/ \E w \in Sockets :
       \/ HandleWebSocket(w) /\ UNCHANGED assocVars
       \/ \E s \in Sessions : (Receive(w, s) \/ EndReceiver(w, s)) /\ UNCHANGED assocVars
       \/ Break(w) /\ UNCHANGED <<assocVars, udpServerVars>>

Spec == Init /\ [][Next]_vars

\* Goroutines are scheduled and timers fire.  A sender that waits for room in
\* done waits for one receive, which happens once, so weak fairness is enough.
\* Apps, targets, dials and breaks are free.  The read loops are shared with TCP
\* sessions: here none makes them wait for ever, neither an app or a target that
\* does not read (ReaderWaits and LoopWaits of Tunnel) nor a standstill of the
\* connection (BackPressure).
Fairness ==
  /\ \A s \in Sessions :
       /\ WF_vars(ReadControl(s) /\ UNCHANGED udpServerVars)
       /\ WF_vars(EndRelay(s) /\ UNCHANGED udpServerVars)
       /\ WF_vars(WaitConnected(s) /\ UNCHANGED udpServerVars)
       /\ WF_vars(Finish(s) /\ UNCHANGED udpServerVars)
       /\ WF_vars(Close(s) /\ UNCHANGED udpServerVars)
  /\ \A c \in Channels : WF_vars(HandleChannel(c) /\ UNCHANGED udpServerVars)
  /\ \A w \in Sockets : WF_vars(HandleWebSocket(w) /\ UNCHANGED assocVars)
  /\ \A w \in Sockets, s \in Sessions : WF_vars(EndReceiver(w, s) /\ UNCHANGED assocVars)

FairSpec == Spec /\ Fairness

-----------------------------------------------------------------------------
(* Safety *)

Positions(w) == 1 .. Len(toServer[w])
IsConnect(s, w, i) == toServer[w][i].type = "UDP_CONNECT" /\ toServer[w][i].sess = s
Opened(s, w) == socket[w][s].state # "none"

\* An association asks for a socket once, on one connection: a second
\* UDP_CONNECT would replace the entries of its connID in udpConns, so that
\* UDP_CLOSE no longer finds the first socket and the end of either receiver
\* deletes the entries of the other (socks5.go 488-491, websocket_server.go
\* 302-315).  Holds for write errors, redials and datagrams in any order.
ConnectedOnce ==
  \A s \in Sessions, w \in Sockets :
    /\ \A i \in Positions(w) : IsConnect(s, w, i) =>
         /\ receiving[s]
         /\ \A v \in Sockets : ~Opened(s, v)
         /\ \A v \in Sockets : \A j \in Positions(v) : IsConnect(s, v, j) => v = w /\ j = i
    /\ Opened(s, w) => receiving[s] /\ \A v \in Sockets : Opened(s, v) => v = w

\* boundByChannel names an association only while channelMap routes it there:
\* associations overwrite and delete each other's entry, never leaving one that
\* names a closed association (pool.go 134-135, 187-188).
BoundAgrees ==
  \A c \in Channels : boundByChannel[c] # NoSession => channelMap[boundByChannel[c]] = c

\* Datagrams of the target reach the app in the order they were received at the
\* server, none twice, whatever is lost (websocket_server.go 326-348, pool.go
\* 239-256, socks5.go 534-547).
AnswersInOrder ==
  \A s \in Sessions :
    /\ \A i, j \in 1 .. Len(appGot[s]) : i < j => appGot[s][i] < appGot[s][j]
    /\ \A i \in 1 .. Len(appGot[s]) : appGot[s][i] <= targetSent[s]

\* A closed association sends nothing any more, although goroutines of its
\* datagrams may still be waiting to run: UDP_CLOSE is its last message, so no
\* socket is opened behind it.  That is, whatever a stream holds of it was there
\* before the step, one place further on if the step has read a message
\* (socks5.go 480-485, 559-571).
ClosedIsSilent ==
  [][\A s \in Sessions, w \in Sockets :
       listener[s] = "closed" =>
         \E d \in {0, 1} : \A i \in 1 .. Len(toServer'[w]) :
           toServer'[w][i].sess = s =>
             i + d \in Positions(w) /\ toServer[w][i + d] = toServer'[w][i]]_vars

\* A target gets datagrams the app has sent, and none twice: socks5.go 460,
\* every goroutine handles a single packet.  Does not hold.
OnePacketEach ==
  \A s \in Sessions : \A i, j \in 1 .. Len(targetGot[s]) :
    /\ targetGot[s][i].unit # Garbled
    /\ i # j => targetGot[s][i].unit # targetGot[s][j].unit

-----------------------------------------------------------------------------
(* Liveness *)

\* An association ends with its control connection, at both ends, whatever is
\* under way, lost or redialled (README.md 164), unless TCP sessions of the same
\* connection stop its read loops, which the fairness above excludes.
EndsWithControl ==
  \A s \in Sessions :
    (control[s] = "eof")
      ~> (listener[s] = "closed" /\ \A w \in Sockets : socket[w][s].state # "open")

\* An association that has asked for a socket is told, or ends: a lost or late
\* answer, or UDP_ERROR, which is only logged, ends it by the time-out
\* (socks5.go 496-503).
ConnectsOrEnds ==
  \A s \in Sessions :
    (timer[s] = "wait") ~> (timer[s] = "connected" \/ listener[s] = "closed")

\* A channel that breaks is noticed and dialled again: README.md 128.  Does not
\* hold.
DisconnectIsNoticed ==
  \A c \in Channels :
    (wsConns[c] # 0 /\ link[Current(c)] = "broken") ~> (handler[c].pc = "dial")
=============================================================================
