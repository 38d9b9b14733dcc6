--------------------------- MODULE UdpAssociation ---------------------------
(***************************************************************************)
(* The client's half of SOCKS5 UDP ASSOCIATE: handleSOCKS5UDPAssociate and *)
(* the goroutines of an association (socks5.go), SendUDPConnect,           *)
(* SendUDPData, SendUDPClose, WaitConnected and the UDP messages of        *)
(* handleChannel (pool.go).  Sessions are the connIDs of associations.     *)
(*                                                                         *)
(* An association has a main goroutine that waits on done, one that reads  *)
(* the control connection, one that reads the UDP socket, one per datagram *)
(* and one that times the connection; each may send on done, and so may    *)
(* handleChannel.  What runs under assoc.mu is one step.                   *)
(*                                                                         *)
(* A datagram is the number of its read; sent[s][k] is the destination in  *)
(* the header of the k-th.  The app uses one address, so no datagram is    *)
(* ignored for its source, and clientUDPAddr is set by the first.          *)
(***************************************************************************)
EXTENDS UdpWire, FiniteSets

CONSTANTS NoSession,   \* the empty connID ""
          MaxUp,       \* bound: datagrams of an association
          MaxPending   \* bound: those whose goroutine has not run

ASSUME NoSessionAssumption == NoSession \notin Sessions
ASSUME MaxUpAssumption == MaxUp \in Nat /\ MaxPending \in Nat \ {0}

NoChannel == -1
Garbled == 0          \* bytes of more than one datagram
DoneCapacity == 2     \* make(chan bool, 2)

VARIABLES
  wsConns,         \* p.wsConns[c]: epoch of the current connection, 0 for nil
  handler,         \* the goroutine of channel c, and the response it is passing on
  udpMap,          \* keys of p.udpMap
  connected,       \* p.connected[s]: "none", "empty" or "full"
  channelMap,      \* p.channelMap[s]
  boundByChannel,  \* p.boundByChannel[c]
  control,         \* the control connection: "none", "open", "eof" (the app has
                   \* hung up) or "closed"
  listener,        \* assoc.udpListener: "none", "open", "closed"; assoc.closed
                   \* is set with it
  done,            \* assoc.done[s]: signals in it
  serve,           \* handleSOCKS5UDPAssociate
  reader,          \* the goroutine that reads the control connection
  relay,           \* handleUDPRelay
  timer,           \* the goroutine in WaitConnected
  receiving,       \* assoc.receiving
  sent,            \* destinations of the datagrams read so far; buffer holds the last
  packets,         \* datagrams whose handleUDPPacket has not run
  appGot           \* units written to the app, in order

poolVars == <<wsConns, handler, udpMap, connected, channelMap, boundByChannel>>
goroutineVars == <<control, listener, done, serve, reader, relay, timer>>
packetVars == <<receiving, sent, packets>>
assocVars == <<poolVars, goroutineVars, packetVars, appGot>>

HandlerStates == {"dial", "read", "respond", "signal"}
Idle(pc) == [pc |-> pc, sess |-> NoSession, unit |-> 0]

AssocTypeOK ==
  /\ wsConns \in [Channels -> 0 .. MaxDials]
  /\ handler \in [Channels -> [pc : HandlerStates, sess : Sessions \cup {NoSession},
                               unit : Nat]]
  /\ udpMap \in SUBSET Sessions
  /\ connected \in [Sessions -> {"none", "empty", "full"}]
  /\ channelMap \in [Sessions -> Channels \cup {NoChannel}]
  /\ boundByChannel \in [Channels -> Sessions \cup {NoSession}]
  /\ control \in [Sessions -> {"none", "open", "eof", "closed"}]
  /\ listener \in [Sessions -> {"none", "open", "closed"}]
  /\ done \in [Sessions -> 0 .. DoneCapacity]
  /\ serve \in [Sessions -> {"idle", "wait", "close", "ended"}]
  /\ reader \in [Sessions -> {"none", "read", "signal", "ended"}]
  /\ relay \in [Sessions -> {"none", "read", "signal", "ended"}]
  /\ timer \in [Sessions -> {"none", "wait", "signal", "expired", "connected"}]
  /\ receiving \in [Sessions -> BOOLEAN]
  /\ sent \in [Sessions -> Seq(Targets)]
  /\ packets \in [Sessions -> SUBSET (1 .. MaxUp)]
  /\ appGot \in [Sessions -> Seq(Nat)]

AssocInit ==
  /\ wsConns = [c \in Channels |-> 0]
  /\ handler = [c \in Channels |-> Idle("dial")]
  /\ udpMap = {}
  /\ connected = [s \in Sessions |-> "none"]
  /\ channelMap = [s \in Sessions |-> NoChannel]
  /\ boundByChannel = [c \in Channels |-> NoSession]
  /\ control = [s \in Sessions |-> "none"]
  /\ listener = [s \in Sessions |-> "none"]
  /\ done = [s \in Sessions |-> 0]
  /\ serve = [s \in Sessions |-> "idle"]
  /\ reader = [s \in Sessions |-> "none"]
  /\ relay = [s \in Sessions |-> "none"]
  /\ timer = [s \in Sessions |-> "none"]
  /\ receiving = [s \in Sessions |-> FALSE]
  /\ sent = [s \in Sessions |-> << >>]
  /\ packets = [s \in Sessions |-> {}]
  /\ appGot = [s \in Sessions |-> << >>]

-----------------------------------------------------------------------------
(* The association's own goroutines *)

\* handleSOCKS5UDPAssociate up to its wait: the socket is open, the app has the
\* reply, RegisterUDP has run, both goroutines are started.
Associate(s) ==
  /\ serve[s] = "idle"
  /\ serve' = [serve EXCEPT ![s] = "wait"]
  /\ control' = [control EXCEPT ![s] = "open"]
  /\ listener' = [listener EXCEPT ![s] = "open"]
  /\ reader' = [reader EXCEPT ![s] = "read"]
  /\ relay' = [relay EXCEPT ![s] = "read"]
  /\ udpMap' = udpMap \cup {s}
  /\ connected' = [connected EXCEPT ![s] = "empty"]
  /\ UNCHANGED <<wireVars, wsConns, handler, channelMap, boundByChannel, done,
                 timer, packetVars, appGot>>

AppHangup(s) ==
  /\ control[s] = "open"
  /\ control' = [control EXCEPT ![s] = "eof"]
  /\ UNCHANGED <<wireVars, poolVars, listener, done, serve, reader, relay, timer,
                 packetVars, appGot>>

\* assoc.done <- true: waits while the channel is full
Send_Unlimited(s) == done' = [done EXCEPT ![s] = @ + 1]   \* mutant: no capacity
Send(s) ==
  /\ done[s] < DoneCapacity
  /\ done' = [done EXCEPT ![s] = @ + 1]

\* The control connection: a read error, then the signal
ReadControl(s) ==
  /\ \/ /\ reader[s] = "read"
        /\ control[s] # "open"
        /\ reader' = [reader EXCEPT ![s] = "signal"]
        /\ UNCHANGED done
     \/ /\ reader[s] = "signal"
        /\ Send(s)
        /\ reader' = [reader EXCEPT ![s] = "ended"]
  /\ UNCHANGED <<wireVars, poolVars, control, listener, serve, relay, timer,
                 packetVars, appGot>>

\* handleUDPRelay reads a datagram for t into the buffer and starts a goroutine.
ReadDatagram(s, t) ==
  /\ relay[s] = "read"
  /\ listener[s] = "open"
  /\ Len(sent[s]) < MaxUp
  /\ Cardinality(packets[s]) < MaxPending
  /\ sent' = [sent EXCEPT ![s] = Append(@, t)]
  /\ packets' = [packets EXCEPT ![s] = @ \cup {Len(sent[s]) + 1}]
  /\ UNCHANGED <<wireVars, poolVars, goroutineVars, receiving, appGot>>

\* Its read fails only because the socket is closed.
EndRelay(s) ==
  /\ \/ /\ relay[s] = "read"
        /\ listener[s] = "closed"
        /\ relay' = [relay EXCEPT ![s] = "signal"]
        /\ UNCHANGED done
     \/ /\ relay[s] = "signal"
        /\ Send(s)
        /\ relay' = [relay EXCEPT ![s] = "ended"]
  /\ UNCHANGED <<wireVars, poolVars, control, listener, serve, reader, timer,
                 packetVars, appGot>>

Expire_Silent(s) ==   \* mutant: the time-out is only logged
  /\ timer[s] = "wait"
  /\ timer' = [timer EXCEPT ![s] = "expired"]
  /\ UNCHANGED done

\* 5 s are over
Expire(s) ==
  \/ /\ timer[s] = "wait"
     /\ timer' = [timer EXCEPT ![s] = "signal"]
     /\ UNCHANGED done
  \/ /\ timer[s] = "signal"
     /\ Send(s)
     /\ timer' = [timer EXCEPT ![s] = "expired"]

\* WaitConnected and what its caller does with the result
WaitConnected(s) ==
  /\ \/ /\ timer[s] = "wait"
        /\ connected[s] = "full"
        /\ connected' = [connected EXCEPT ![s] = "empty"]
        /\ timer' = [timer EXCEPT ![s] = "connected"]
        /\ UNCHANGED done
     \/ Expire(s) /\ UNCHANGED connected
  /\ UNCHANGED <<wireVars, wsConns, handler, udpMap, channelMap, boundByChannel,
                 control, listener, serve, reader, relay, packetVars, appGot>>

\* <-assoc.done
Finish(s) ==
  /\ serve[s] = "wait"
  /\ done[s] > 0
  /\ done' = [done EXCEPT ![s] = @ - 1]
  /\ serve' = [serve EXCEPT ![s] = "close"]
  /\ UNCHANGED <<wireVars, poolVars, control, listener, reader, relay, timer,
                 packetVars, appGot>>

\* SendUDPClose of s on channel c: the maps are cleaned whether or not the write
\* succeeds; boundByChannel[c] is deleted whatever it names.
SendUDPClose_SparesShared(s, c) ==   \* mutant: a channel others use stays bound
  \E ok \in BOOLEAN :
    /\ ClientWrite(<<c, wsConns[c]>>, UdpMsg("UDP_CLOSE", s, 0, 0), ok)
    /\ udpMap' = udpMap \ {s}
    /\ channelMap' = [channelMap EXCEPT ![s] = NoChannel]
    /\ boundByChannel' =
         IF \E o \in Sessions \ {s} : channelMap[o] = c THEN boundByChannel
         ELSE [boundByChannel EXCEPT ![c] = NoSession]
SendUDPClose_MapsOnly(s, c) ==   \* mutant: the server is not told
  /\ udpMap' = udpMap \ {s}
  /\ channelMap' = [channelMap EXCEPT ![s] = NoChannel]
  /\ boundByChannel' = [boundByChannel EXCEPT ![c] = NoSession]
  /\ UNCHANGED wireVars

SendUDPClose(s, c) ==
  \E ok \in BOOLEAN :
    /\ ClientWrite(<<c, wsConns[c]>>, UdpMsg("UDP_CLOSE", s, 0, 0), ok)
    /\ udpMap' = udpMap \ {s}
    /\ channelMap' = [channelMap EXCEPT ![s] = NoChannel]
    /\ boundByChannel' = [boundByChannel EXCEPT ![c] = NoSession]

\* assoc.Close(), then the return to handleConnection, which closes the control
\* connection.  Without a channel SendUDPClose returns at once, so udpMap keeps s.
Close(s) ==
  /\ serve[s] = "close"
  /\ IF channelMap[s] = NoChannel
     THEN UNCHANGED <<wireVars, udpMap, channelMap, boundByChannel>>
     ELSE SendUDPClose(s, channelMap[s])
  /\ listener' = [listener EXCEPT ![s] = "closed"]
  /\ control' = [control EXCEPT ![s] = "closed"]
  /\ serve' = [serve EXCEPT ![s] = "ended"]
  /\ UNCHANGED <<wsConns, handler, connected, done, reader, relay, timer,
                 packetVars, appGot>>

-----------------------------------------------------------------------------
(* A datagram's goroutine: handleUDPPacket and sendUDPData *)

\* The goroutine of datagram i has a slice of the one buffer that later reads
\* overwrite.  It reads the header, then copies the payload into the message:
\* header j and payload k are those of any datagrams read in the meantime, and
\* the payload may be a mix.
Seen(s, i) ==
  LET n == Len(sent[s]) IN
  {p \in (i .. n) \X (i .. n) : p[1] <= p[2]}
    \cup (IF i < n THEN (i .. n) \X {Garbled} ELSE {})

Runs(s, i) ==
  /\ i \in packets[s]
  /\ packets' = [packets EXCEPT ![s] = @ \ {i}]

\* The datagram does not parse (RSV, FRAG, a short header) or the association
\* is closed.
DropPacket(s, i) ==
  /\ Runs(s, i)
  /\ UNCHANGED <<wireVars, poolVars, goroutineVars, receiving, sent, appGot>>

\* The channel SendUDPConnect takes: the first that is not nil
FirstUp(c) == wsConns[c] # 0 /\ \A d \in Channels : d < c => wsConns[d] = 0

\* Whether the association may still send, tested under assoc.mu
MaySend_Open(s) == serve[s] # "idle"   \* mutant: closed is not looked at
MaySend(s) == listener[s] = "open"

\* The first datagram: receiving is set before SendUDPConnect is tried.  Without
\* a channel nothing more is ever tried; with one, the maps are set even if the
\* write then fails.  WaitConnected runs, and the data is sent, if it succeeds.
NoRelay(s, i) ==
  /\ Runs(s, i)
  /\ MaySend(s)
  /\ ~receiving[s]
  /\ \A c \in Channels : wsConns[c] = 0
  /\ receiving' = [receiving EXCEPT ![s] = TRUE]
  /\ UNCHANGED <<wireVars, poolVars, goroutineVars, sent, appGot>>

OpenRelay_Again(s, i) ==   \* mutant: receiving is not set
  /\ Runs(s, i)
  /\ MaySend(s)
  /\ ~receiving[s]
  /\ UNCHANGED receiving
  /\ \E c \in Channels, ok \in BOOLEAN, seen \in Seen(s, i) :
       LET w == <<c, wsConns[c]>>
           connect == UdpMsg("UDP_CONNECT", s, sent[s][seen[1]], 0)
           data == UdpMsg("UDP_DATA", s, 0, seen[2]) IN
       /\ FirstUp(c)
       /\ MayReturn(w, ok)
       /\ channelMap' = [channelMap EXCEPT ![s] = c]
       /\ boundByChannel' = [boundByChannel EXCEPT ![c] = s]
       /\ toServer' = IF ok THEN After(After(toServer, w, connect, TRUE), w, data, TRUE)
                      ELSE toServer
       /\ timer' = [timer EXCEPT ![s] = IF ok THEN "wait" ELSE @]
  /\ UNCHANGED <<link, toClient, wsConns, handler, udpMap, connected, control,
                 listener, done, serve, reader, relay, sent, appGot>>

OpenRelay(s, i) ==
  /\ Runs(s, i)
  /\ MaySend(s)
  /\ ~receiving[s]
  /\ receiving' = [receiving EXCEPT ![s] = TRUE]
  /\ \E c \in Channels, ok \in BOOLEAN, seen \in Seen(s, i) :
       LET w == <<c, wsConns[c]>>
           connect == UdpMsg("UDP_CONNECT", s, sent[s][seen[1]], 0)
           data == UdpMsg("UDP_DATA", s, 0, seen[2]) IN
       /\ FirstUp(c)
       /\ MayReturn(w, ok)
       /\ channelMap' = [channelMap EXCEPT ![s] = c]
       /\ boundByChannel' = [boundByChannel EXCEPT ![c] = s]
       /\ toServer' = IF ok THEN After(After(toServer, w, connect, TRUE), w, data, TRUE)
                      ELSE toServer
       /\ timer' = [timer EXCEPT ![s] = IF ok THEN "wait" ELSE @]
  /\ UNCHANGED <<link, toClient, wsConns, handler, udpMap, connected, control,
                 listener, done, serve, reader, relay, sent, appGot>>

\* Later datagrams: the header's destination is not sent.
SendUDPData(s, i) ==
  /\ Runs(s, i)
  /\ MaySend(s)
  /\ receiving[s]
  /\ channelMap[s] # NoChannel
  /\ \E ok \in BOOLEAN, seen \in Seen(s, i) :
       ClientWrite(<<channelMap[s], wsConns[channelMap[s]]>>,
                   UdpMsg("UDP_DATA", s, 0, seen[2]), ok)
  /\ UNCHANGED <<poolVars, goroutineVars, receiving, sent, appGot>>

HandleUDPPacket(s, i) ==
  \/ DropPacket(s, i)
  \/ NoRelay(s, i)
  \/ OpenRelay(s, i)
  \/ SendUDPData(s, i)

-----------------------------------------------------------------------------
(* The goroutine of a channel *)

Current(c) == <<c, wsConns[c]>>

Dial(c) ==
  /\ handler[c].pc = "dial"
  /\ wsConns[c] < MaxDials
  /\ wsConns' = [wsConns EXCEPT ![c] = @ + 1]
  /\ handler' = [handler EXCEPT ![c] = Idle("read")]
  /\ link' = [link EXCEPT ![<<c, wsConns[c] + 1>>] = "open"]
  /\ UNCHANGED <<toServer, toClient, udpMap, connected, channelMap, boundByChannel,
                 goroutineVars, packetVars, appGot>>

ReadError(c) ==
  /\ handler[c].pc = "read"
  /\ toClient[Current(c)] = << >>
  /\ link[Current(c)] # "open"
  /\ handler' = [handler EXCEPT ![c] = Idle("dial")]
  /\ UNCHANGED <<wireVars, wsConns, udpMap, connected, channelMap, boundByChannel,
                 goroutineVars, packetVars, appGot>>

\* ReadMessage returns and consumes a message of type t.
Incoming(c) == Head(toClient[Current(c)])
Reads(c, t) ==
  /\ handler[c].pc = "read"
  /\ toClient[Current(c)] # << >>
  /\ Incoming(c).type = t
  /\ toClient' = [toClient EXCEPT ![Current(c)] = Tail(@)]
  /\ UNCHANGED <<link, toServer>>

\* UDP_CONNECTED: a signal unless there is one already (or no channel).
ReadUdpConnected(c) ==
  /\ Reads(c, "UDP_CONNECTED")
  /\ connected' = [connected EXCEPT ![Incoming(c).sess] =
                                      IF @ = "none" THEN "none" ELSE "full"]
  /\ UNCHANGED <<wsConns, handler, udpMap, channelMap, boundByChannel,
                 goroutineVars, packetVars, appGot>>

\* UDP_ERROR: only logged.
ReadUdpError(c) ==
  /\ Reads(c, "UDP_ERROR")
  /\ UNCHANGED assocVars

\* Whether handleUDPResponse can split the sender's "host:port" in two
Splits(addr) == addr \notin IPv6

\* UDP_DATA: assoc is looked up, then handleUDPResponse runs without p.mu.
ReadUdpData(c) ==
  /\ Reads(c, "UDP_DATA")
  /\ Incoming(c).sess \in udpMap
  /\ Splits(Incoming(c).addr)
  /\ handler' = [handler EXCEPT ![c] = [pc |-> "respond", sess |-> Incoming(c).sess,
                                        unit |-> Incoming(c).unit]]
  /\ UNCHANGED <<wsConns, udpMap, connected, channelMap, boundByChannel,
                 goroutineVars, packetVars, appGot>>

DropUdpData(c) ==
  /\ Reads(c, "UDP_DATA")
  /\ Incoming(c).sess \notin udpMap \/ ~Splits(Incoming(c).addr)
  /\ UNCHANGED assocVars

\* WriteToUDP, under assoc.mu: done
Respond(c) ==
  /\ handler[c].pc = "respond"
  /\ listener[handler[c].sess] = "open"
  /\ appGot' = [appGot EXCEPT ![handler[c].sess] = Append(@, handler[c].unit)]
  /\ handler' = [handler EXCEPT ![c] = Idle("read")]
  /\ UNCHANGED <<wireVars, wsConns, udpMap, connected, channelMap, boundByChannel,
                 goroutineVars, packetVars>>

\* It fails: on a closed socket always, on an open one for a packet too long for
\* UDP with its SOCKS5 header, or whenever the kernel says so.
RespondFails(c) ==
  /\ handler[c].pc = "respond"
  /\ handler' = [handler EXCEPT ![c].pc = "signal"]
  /\ UNCHANGED <<wireVars, wsConns, udpMap, connected, channelMap, boundByChannel,
                 goroutineVars, packetVars, appGot>>

\* The read loop itself waits for room in done.
SignalFailure(c) ==
  /\ handler[c].pc = "signal"
  /\ Send(handler[c].sess)
  /\ handler' = [handler EXCEPT ![c] = Idle("read")]
  /\ UNCHANGED <<wireVars, wsConns, udpMap, connected, channelMap, boundByChannel,
                 control, listener, serve, reader, relay, timer, packetVars, appGot>>

HandleChannel(c) ==
  \/ ReadError(c)
  \/ ReadUdpConnected(c)
  \/ ReadUdpError(c)
  \/ ReadUdpData(c)
  \/ DropUdpData(c)
  \/ Respond(c)
  \/ RespondFails(c)
  \/ SignalFailure(c)
=============================================================================
