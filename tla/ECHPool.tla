------------------------------ MODULE ECHPool -------------------------------
(***************************************************************************)
(* pool.go: the client's pool of WebSocket channels and its routing maps,  *)
(* for TCP sessions.  Per channel one goroutine dials (dialOnce,           *)
(* redialChannel) and then reads (handleChannel); it is "handler[c]".      *)
(* The goroutine that owns a session calls Register, MarkClaim, WriteClaim *)
(* (RegisterAndClaim), Connected (WaitConnected), SendData and SendClose:  *)
(* module Forwarder says when.                                             *)
(*                                                                         *)
(* Not modelled here: udpMap and the UDP messages, pendingByChannel (no    *)
(* code uses it), binary messages without a DATA: header (the server never *)
(* sends one), ping and pong, ERROR: and UDP_ERROR: (only logged).         *)
(***************************************************************************)
EXTENDS Wire

CONSTANT NoSession   \* the empty connID ""

ASSUME NoSessionAssumption == NoSession \notin Sessions

NoChannel == -1      \* channelMap has no entry
NoInfo == -1         \* connInfo has no entry
NilSet == {-1}       \* claimTimes has no entry: a nil inner map
SuccessReply == 0    \* SOCKS5 reply 00 or "HTTP/1.1 200", in what the app got
FailureReply == -1   \* SOCKS5 reply 01 or "HTTP/1.1 504"

VARIABLES
  wsConns,         \* p.wsConns[c]: epoch of the current connection, 0 for nil
  handler,         \* the goroutine of channel c: where it is, and the session
                   \* and first frame of the CLAIM_ACK it is serving
  tcpMap,          \* keys of p.tcpMap
  connInfo,        \* p.connInfo[s]: first frame (0: empty), or NoInfo
  claimTimes,      \* p.claimTimes[s]: the channels marked, or NilSet
  connected,       \* p.connected[s]: "none", or a channel of capacity 1 that
                   \* is "empty" or "full"
  channelMap,      \* p.channelMap[s]
  boundByChannel,  \* p.boundByChannel[c]
  closers,         \* sessions with a pending "go p.SendClose(id)"
  crashed,         \* the client process has panicked
  conn,            \* the local connection: "none", "open", "eof" (the app has
                   \* hung up) or "closed" (by this program)
  appGot           \* what was written to the local connection, in order:
                   \* replies, and payload units as they come

poolVars == <<wsConns, handler, tcpMap, connInfo, claimTimes, connected,
              channelMap, boundByChannel, closers, crashed, conn, appGot>>

HandlerStates == {"dial", "read", "write", "abort"}
Idle(pc) == [pc |-> pc, sess |-> NoSession, first |-> 0]

PoolTypeOK ==
  /\ wsConns \in [Channels -> 0 .. MaxDials]
  /\ handler \in [Channels -> [pc : HandlerStates, sess : Sessions \cup {NoSession},
                               first : Nat]]
  /\ tcpMap \in SUBSET Sessions
  /\ connInfo \in [Sessions -> Nat \cup {NoInfo}]
  /\ claimTimes \in [Sessions -> (SUBSET Channels) \cup {NilSet}]
  /\ connected \in [Sessions -> {"none", "empty", "full"}]
  /\ channelMap \in [Sessions -> Channels \cup {NoChannel}]
  /\ boundByChannel \in [Channels -> Sessions \cup {NoSession}]
  /\ closers \in SUBSET Sessions
  /\ crashed \in BOOLEAN
  /\ conn \in [Sessions -> {"none", "open", "eof", "closed"}]
  /\ appGot \in [Sessions -> Seq(Nat \cup {FailureReply})]

\* NewECHPool; Start has launched dialOnce for every channel.
PoolInit ==
  /\ wsConns = [c \in Channels |-> 0]
  /\ handler = [c \in Channels |-> Idle("dial")]
  /\ tcpMap = {}
  /\ connInfo = [s \in Sessions |-> NoInfo]
  /\ claimTimes = [s \in Sessions |-> NilSet]
  /\ connected = [s \in Sessions |-> "none"]
  /\ channelMap = [s \in Sessions |-> NoChannel]
  /\ boundByChannel = [c \in Channels |-> NoSession]
  /\ closers = {}
  /\ crashed = FALSE
  /\ conn = [s \in Sessions |-> "none"]
  /\ appGot = [s \in Sessions |-> << >>]

-----------------------------------------------------------------------------
(* The goroutine of a channel: dialOnce / redialChannel, then handleChannel *)

Current(c) == <<c, wsConns[c]>>

\* A dial succeeds: the new connection replaces the old one in wsConns, and a
\* new handleChannel reads it.  The old connection is neither closed nor
\* removed from any session.  A failed dial changes nothing (sleep, retry).
Dial(c) ==
  /\ ~crashed
  /\ handler[c].pc = "dial"
  /\ wsConns[c] < MaxDials
  /\ wsConns' = [wsConns EXCEPT ![c] = @ + 1]
  /\ handler' = [handler EXCEPT ![c] = Idle("read")]
  /\ link' = [link EXCEPT ![<<c, wsConns[c] + 1>>] = "open"]
  /\ UNCHANGED <<toServer, toClient, tcpMap, connInfo, claimTimes, connected,
                 channelMap, boundByChannel, closers, crashed, conn, appGot>>

\* ReadMessage returns message m of type t on channel c, and consumes it.
Reads(c, t) ==
  /\ ~crashed
  /\ handler[c].pc = "read"
  /\ toClient[Current(c)] # << >>
  /\ Head(toClient[Current(c)]).type = t
Incoming(c) == Head(toClient[Current(c)])
Consume(c) ==
  /\ toClient' = [toClient EXCEPT ![Current(c)] = Tail(@)]
  /\ UNCHANGED <<link, toServer>>

\* ReadMessage fails once what had arrived is read; redialChannel takes over.
ReadError(c) ==
  /\ ~crashed
  /\ handler[c].pc = "read"
  /\ toClient[Current(c)] = << >>
  /\ link[Current(c)] # "open"
  /\ handler' = [handler EXCEPT ![c] = Idle("dial")]
  /\ UNCHANGED <<wireVars, wsConns, tcpMap, connInfo, claimTimes, connected,
                 channelMap, boundByChannel, closers, crashed, conn, appGot>>

\* delete(chTimes, c), and the whole entry when that empties it
Unmark(times, c) ==
  IF times = NilSet \/ c \notin times THEN times
  ELSE IF times = {c} THEN NilSet ELSE times \ {c}

\* Whether an ack for s wins, looked up under the lock
MayWin_Forgotten(s) == channelMap[s] = NoChannel   \* mutant: connInfo not looked at
MayWin(s) == channelMap[s] = NoChannel /\ connInfo[s] # NoInfo

\* Mutants of Bind: connInfo is kept; the first channel is recorded.
Bind_KeepsInfo(s, c) ==
  /\ channelMap' = [channelMap EXCEPT ![s] = c]
  /\ boundByChannel' = [boundByChannel EXCEPT ![c] = s]
  /\ UNCHANGED connInfo
Bind_First(s, c) ==
  /\ channelMap' = [channelMap EXCEPT ![s] = 0]
  /\ boundByChannel' = [boundByChannel EXCEPT ![c] = s]
  /\ connInfo' = [connInfo EXCEPT ![s] = NoInfo]

Bind(s, c) ==
  /\ channelMap' = [channelMap EXCEPT ![s] = c]
  /\ boundByChannel' = [boundByChannel EXCEPT ![c] = s]
  /\ connInfo' = [connInfo EXCEPT ![s] = NoInfo]

\* CLAIM_ACK of a session that still races for a channel: this channel wins.
WinClaim(c) ==
  LET s == Incoming(c).sess IN
  /\ Reads(c, "CLAIM_ACK")
  /\ MayWin(s)
  /\ Consume(c)
  /\ claimTimes' = [claimTimes EXCEPT ![s] = Unmark(@, c)]
  /\ Bind(s, c)
  /\ handler' = [handler EXCEPT ![c] = [pc |-> "write", sess |-> s,
                                        first |-> connInfo[s]]]
  /\ UNCHANGED <<wsConns, tcpMap, connected, closers, crashed, conn, appGot>>

\* CLAIM_ACK of a session that has a channel, or is no longer waiting.
IgnoreClaim(c) ==
  /\ Reads(c, "CLAIM_ACK")
  /\ ~MayWin(Incoming(c).sess)
  /\ Consume(c)
  /\ UNCHANGED poolVars

\* The winner asks the server for the connection, outside the lock.
WriteTCP(c) ==
  LET s == handler[c].sess IN
  /\ ~crashed
  /\ handler[c].pc = "write"
  /\ \E ok \in BOOLEAN :
       /\ ClientWrite(Current(c), Msg("TCP", s, handler[c].first), ok)
       /\ handler' = [handler EXCEPT ![c] = IF ok THEN Idle("read")
                                            ELSE [@ EXCEPT !.pc = "abort"]]
  /\ UNCHANGED <<wsConns, tcpMap, connInfo, claimTimes, connected, channelMap,
                 boundByChannel, closers, crashed, conn, appGot>>

Forget_KeepsBound(s, c) ==   \* mutant: boundByChannel is not cleared
  /\ conn' = IF s \in tcpMap THEN [conn EXCEPT ![s] = "closed"] ELSE conn
  /\ tcpMap' = tcpMap \ {s}
  /\ channelMap' = [channelMap EXCEPT ![s] = NoChannel]
  /\ connInfo' = [connInfo EXCEPT ![s] = NoInfo]
  /\ claimTimes' = [claimTimes EXCEPT ![s] = NilSet]
  /\ UNCHANGED boundByChannel

\* What both abort and CLOSE do under the lock: close the local connection if
\* the session still has one, and forget the session.
Forget(s, c) ==
  /\ conn' = IF s \in tcpMap THEN [conn EXCEPT ![s] = "closed"] ELSE conn
  /\ tcpMap' = tcpMap \ {s}
  /\ channelMap' = [channelMap EXCEPT ![s] = NoChannel]
  /\ boundByChannel' = [boundByChannel EXCEPT ![c] = NoSession]
  /\ connInfo' = [connInfo EXCEPT ![s] = NoInfo]
  /\ claimTimes' = [claimTimes EXCEPT ![s] = NilSet]

\* The TCP message could not be written.
AbortTCP(c) ==
  /\ ~crashed
  /\ handler[c].pc = "abort"
  /\ Forget(handler[c].sess, c)
  /\ handler' = [handler EXCEPT ![c] = Idle("read")]
  /\ UNCHANGED <<wireVars, wsConns, connected, closers, crashed, appGot>>

\* CONNECTED: a send that never blocks (select with default).
ReadConnected(c) ==
  LET s == Incoming(c).sess IN
  /\ Reads(c, "CONNECTED")
  /\ Consume(c)
  /\ connected' = [connected EXCEPT ![s] = IF @ = "none" THEN @ ELSE "full"]
  /\ UNCHANGED <<wsConns, handler, tcpMap, connInfo, claimTimes, channelMap,
                 boundByChannel, closers, crashed, conn, appGot>>

\* c.Write on the local connection of s: it succeeds while the connection is
\* open, fails when this program has closed it, and does either after the app
\* has hung up (it may have closed only its sending side).
MayWriteLocal(s, ok) == IF ok THEN conn[s] \in {"open", "eof"}
                              ELSE conn[s] \in {"eof", "closed"}

Receive_Waited(s, x) ==   \* mutant: payload before WaitConnected is dropped
  appGot' = IF connected[s] = "full" THEN appGot ELSE [appGot EXCEPT ![s] = Append(@, x)]
Receive(s, x) == appGot' = [appGot EXCEPT ![s] = Append(@, x)]

\* DATA for a registered session, written to its local connection.
ReadData(c) ==
  LET s == Incoming(c).sess IN
  /\ Reads(c, "DATA")
  /\ s \in tcpMap
  /\ MayWriteLocal(s, TRUE)
  /\ Consume(c)
  /\ Receive(s, Incoming(c).data)
  /\ UNCHANGED <<wsConns, handler, tcpMap, connInfo, claimTimes, connected,
                 channelMap, boundByChannel, closers, crashed, conn>>

CloseLocal_Leaks(s) == UNCHANGED conn   \* mutant: c.Close is forgotten
CloseLocal(s) == conn' = [conn EXCEPT ![s] = "closed"]

\* The write fails: close and forget the connection, tell the server.
ReadDataFails(c) ==
  LET s == Incoming(c).sess IN
  /\ Reads(c, "DATA")
  /\ s \in tcpMap
  /\ MayWriteLocal(s, FALSE)
  /\ Consume(c)
  /\ closers' = closers \cup {s}
  /\ CloseLocal(s)
  /\ tcpMap' = tcpMap \ {s}
  /\ UNCHANGED <<wsConns, handler, connInfo, claimTimes, connected, channelMap,
                 boundByChannel, crashed, appGot>>

\* DATA for a session that is not registered (any more): tell the server.
RejectData(c) ==
  LET s == Incoming(c).sess IN
  /\ Reads(c, "DATA")
  /\ s \notin tcpMap
  /\ Consume(c)
  /\ closers' = closers \cup {s}
  /\ UNCHANGED <<wsConns, handler, tcpMap, connInfo, claimTimes, connected,
                 channelMap, boundByChannel, crashed, conn, appGot>>

\* CLOSE from the server.
ReadClose(c) ==
  /\ Reads(c, "CLOSE")
  /\ Consume(c)
  /\ Forget(Incoming(c).sess, c)
  /\ UNCHANGED <<wsConns, handler, connected, closers, crashed, appGot>>

HandleChannel(c) ==
  \/ ReadError(c)
  \/ WinClaim(c)
  \/ IgnoreClaim(c)
  \/ WriteTCP(c)
  \/ AbortTCP(c)
  \/ ReadConnected(c)
  \/ ReadData(c)
  \/ ReadDataFails(c)
  \/ RejectData(c)
  \/ ReadClose(c)

-----------------------------------------------------------------------------
(* Operations called by the goroutine that owns a session *)

NewTimes_Nil(times) == times   \* mutant: no map is made
NewTimes(times) == IF times = NilSet THEN {} ELSE times

\* The locked part of RegisterAndClaim
RegisterSession(s, first) ==
  /\ tcpMap' = tcpMap \cup {s}
  /\ connInfo' = [connInfo EXCEPT ![s] = first]
  /\ claimTimes' = [claimTimes EXCEPT ![s] = NewTimes(@)]
  /\ connected' = [connected EXCEPT ![s] = IF @ = "none" THEN "empty" ELSE @]
  /\ conn' = [conn EXCEPT ![s] = "open"]

\* An iteration of the claim loop, up to the second Unlock: the slot of channel
\* c is not nil and the time is recorded.  Go panics on a nil map.
Mark(s, c) ==
  /\ wsConns[c] # 0
  /\ claimTimes[s] # NilSet
  /\ claimTimes' = [claimTimes EXCEPT ![s] = @ \cup {c}]
MarkPanics(s, c) == wsConns[c] # 0 /\ claimTimes[s] = NilSet

\* An unrecovered panic ends the process.  The kernel then closes its local
\* connections at once and breaks its WebSockets (Break) soon after.
Panic ==
  /\ crashed' = TRUE
  /\ conn' = [s \in Sessions |-> IF conn[s] = "none" THEN "none" ELSE "closed"]

\* SendData and SendClose: the lookup under the read lock and the write under
\* the channel's mutex, in one step.  (A reconnect between the two would only
\* make the write go to a broken connection, as it may do here before it.)
Routed(s) == channelMap[s] # NoChannel /\ wsConns[channelMap[s]] # 0
SendData(s, unit, ok) ==
  IF Routed(s) THEN ClientWrite(Current(channelMap[s]), Msg("DATA", s, unit), ok)
  ELSE ~ok /\ UNCHANGED wireVars
SendClose(s) ==
  IF Routed(s)
  THEN \E ok \in BOOLEAN :
         ClientWrite(Current(channelMap[s]), Msg("CLOSE", s, 0), ok)
  ELSE UNCHANGED wireVars

\* A goroutine started with "go p.SendClose(id)" runs.
RunCloser(s) ==
  /\ ~crashed
  /\ s \in closers
  /\ SendClose(s)
  /\ closers' = closers \ {s}
  /\ UNCHANGED <<wsConns, handler, tcpMap, connInfo, claimTimes, connected,
                 channelMap, boundByChannel, crashed, conn, appGot>>
=============================================================================
