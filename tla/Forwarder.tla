----------------------------- MODULE Forwarder ------------------------------
(***************************************************************************)
(* The client goroutines that own a session: the accept loop and relay of  *)
(* startMultiChannelTCPForwarder (kind "tcp"), handleSOCKS5Connect         *)
(* ("socks5"), handleHTTPConnect ("connect") and handleHTTPForward         *)
(* ("forward").  The four differ in the first frame, in the replies they   *)
(* write and in how they leave; the pool calls are the same.  A session    *)
(* starts here when its target is known: listening, protocol detection,    *)
(* SOCKS5 and HTTP parsing and authentication come before.                 *)
(*                                                                         *)
(* The payload an app sends is numbered 1, 2, ...: a unit is what one Read *)
(* returns.                                                                *)
(***************************************************************************)
EXTENDS ECHPool

CONSTANTS Kinds,        \* the kinds of session this client serves
          Listeners,    \* the rules of -l tcp://..., each with an accept loop
          ListenerOf,   \* the listener a session comes through
          MaxUp         \* bound: units an app sends

ASSUME KindsAssumption == Kinds \subseteq {"tcp", "socks5", "connect", "forward"}
ASSUME ListenersAssumption == ListenerOf \in [Sessions -> Listeners]
ASSUME MaxUpAssumption == MaxUp \in Nat \ {0}

VARIABLES
  fwd,      \* the goroutine of session s: pc, kind, and the loop variables i
            \* (ch) and ws of the claim loop
  appSent   \* units read from the local connection so far

forwarderVars == <<fwd, appSent>>

ForwarderStates == {"idle", "mark", "claim", "wait", "refuse", "drop", "reply",
                    "relay", "send", "close", "shut", "done"}

ForwarderTypeOK ==
  /\ fwd \in [Sessions -> [pc : ForwarderStates, kind : Kinds \cup {"none"},
                           ch : 0 .. NumChannels, ws : 0 .. MaxDials]]
  /\ appSent \in [Sessions -> 0 .. MaxUp]

ForwarderInit ==
  /\ fwd = [s \in Sessions |-> [pc |-> "idle", kind |-> "none", ch |-> 0, ws |-> 0]]
  /\ appSent = [s \in Sessions |-> 0]

At(s, pc) == ~crashed /\ fwd[s].pc = pc
Goto(s, pc) == fwd' = [fwd EXCEPT ![s].pc = pc]

\* The first frame: whatever a read with a deadline returned (tcp 5 s, socks5
\* 100 ms), nothing for CONNECT, the rewritten request for a plain HTTP one.
FirstFrames(kind) == CASE kind = "connect" -> {0}
                       [] kind = "forward" -> {1}
                       [] OTHER -> {0, 1}

\* The tcp accept loop waits for one session to be connected or to time out
\* before it accepts the next; a proxy has a goroutine per connection.
Accepting(s, kind) ==
  kind = "tcp" => \A t \in Sessions : ListenerOf[t] = ListenerOf[s] =>
                    fwd[t].pc \notin {"mark", "claim", "wait", "drop"}

Register(s, kind, first) ==
  /\ At(s, "idle")
  /\ Accepting(s, kind)
  /\ first \in FirstFrames(kind)
  /\ RegisterSession(s, first)
  /\ appSent' = [appSent EXCEPT ![s] = first]
  /\ fwd' = [fwd EXCEPT ![s] = [pc |-> "mark", kind |-> kind, ch |-> 0, ws |-> 0]]
  /\ UNCHANGED <<wireVars, wsConns, handler, channelMap, boundByChannel, closers,
                 crashed, appGot>>

\* The claim loop: for i, ws := range p.wsConns.  Its three ways through an
\* iteration: a nil slot is skipped, a live one is marked, or Go panics.
SkipNil(s) ==
  /\ At(s, "mark")
  /\ fwd[s].ch < NumChannels
  /\ wsConns[fwd[s].ch] = 0
  /\ fwd' = [fwd EXCEPT ![s].ch = @ + 1]
  /\ UNCHANGED <<wireVars, poolVars, appSent>>

MarkClaim(s) ==
  /\ At(s, "mark")
  /\ fwd[s].ch < NumChannels
  /\ Mark(s, fwd[s].ch)
  /\ fwd' = [fwd EXCEPT ![s].pc = "claim", ![s].ws = wsConns[fwd[s].ch]]
  /\ UNCHANGED <<wireVars, wsConns, handler, tcpMap, connInfo, connected,
                 channelMap, boundByChannel, closers, crashed, conn, appGot, appSent>>

MarkNil(s) ==
  /\ At(s, "mark")
  /\ fwd[s].ch < NumChannels
  /\ MarkPanics(s, fwd[s].ch)
  /\ Panic
  /\ UNCHANGED <<wireVars, wsConns, handler, tcpMap, connInfo, claimTimes,
                 connected, channelMap, boundByChannel, closers, appGot,
                 forwarderVars>>

\* The error of the write is only logged.  ws may be stale by now.
WriteClaim(s) ==
  /\ At(s, "claim")
  /\ \E ok \in BOOLEAN :
       ClientWrite(<<fwd[s].ch, fwd[s].ws>>, Msg("CLAIM", s, 0), ok)
  /\ fwd' = [fwd EXCEPT ![s].pc = "mark", ![s].ch = @ + 1]
  /\ UNCHANGED <<poolVars, appSent>>

ClaimsDone(s) ==
  /\ At(s, "mark")
  /\ fwd[s].ch = NumChannels
  /\ Goto(s, "wait")
  /\ UNCHANGED <<wireVars, poolVars, appSent>>

Signalled_Made(s) == connected[s] # "none"   \* mutant: no signal is needed
Signalled(s) == connected[s] = "full"

\* WaitConnected: the signal or the 5 s timer; select takes either when both
\* are ready.
Established(s) ==
  /\ At(s, "wait")
  /\ Signalled(s)
  /\ connected' = [connected EXCEPT ![s] = "empty"]
  /\ Goto(s, IF fwd[s].kind \in {"socks5", "connect"} THEN "reply" ELSE "relay")
  /\ UNCHANGED <<wireVars, wsConns, handler, tcpMap, connInfo, claimTimes,
                 channelMap, boundByChannel, closers, crashed, conn, appGot, appSent>>

Timeout(s) ==
  /\ At(s, "wait")
  /\ Goto(s, IF fwd[s].kind = "tcp" THEN "drop" ELSE "refuse")
  /\ UNCHANGED <<wireVars, poolVars, appSent>>

WriteReply(s, reply, ok) ==
  /\ MayWriteLocal(s, ok)
  /\ IF ok THEN Receive(s, reply) ELSE UNCHANGED appGot

\* The proxies answer a timeout (the result of the write is ignored) ...
Refuse(s) ==
  /\ At(s, "refuse")
  /\ \E ok \in BOOLEAN : WriteReply(s, FailureReply, ok)
  /\ Goto(s, "drop")
  /\ UNCHANGED <<wireVars, wsConns, handler, tcpMap, connInfo, claimTimes,
                 connected, channelMap, boundByChannel, closers, crashed, conn, appSent>>

\* ... and close the connection, as the tcp loop does.  The pool is not told.
Drop(s) ==
  /\ At(s, "drop")
  /\ conn' = [conn EXCEPT ![s] = "closed"]
  /\ Goto(s, "done")
  /\ UNCHANGED <<wireVars, wsConns, handler, tcpMap, connInfo, claimTimes,
                 connected, channelMap, boundByChannel, closers, crashed, appGot, appSent>>

\* The success reply; when it cannot be written the goroutine leaves before it
\* has deferred the SendClose.
Reply(s) ==
  /\ At(s, "reply")
  /\ \E ok \in BOOLEAN : /\ WriteReply(s, SuccessReply, ok)
                         /\ Goto(s, IF ok THEN "relay" ELSE "drop")
  /\ UNCHANGED <<wireVars, wsConns, handler, tcpMap, connInfo, claimTimes,
                 connected, channelMap, boundByChannel, closers, crashed, conn, appSent>>

-----------------------------------------------------------------------------
(* The relay loop and its deferred calls *)

\* The app sends a unit and conn.Read returns it.
ReadLocal(s) ==
  /\ At(s, "relay")
  /\ conn[s] = "open"
  /\ appSent[s] < MaxUp
  /\ appSent' = [appSent EXCEPT ![s] = @ + 1]
  /\ Goto(s, "send")
  /\ UNCHANGED <<wireVars, poolVars>>

AfterSend_Again(ok) == IF ok THEN "send" ELSE "close"   \* mutant: a unit is sent again
AfterSend(ok) == IF ok THEN "relay" ELSE "close"

\* The session may have been closed, or its channel redialled, since the Read.
SendLocal(s) ==
  /\ At(s, "send")
  /\ \E ok \in BOOLEAN : /\ SendData(s, appSent[s], ok)
                         /\ Goto(s, AfterSend(ok))
  /\ UNCHANGED <<poolVars, appSent>>

\* conn.Read fails: the app has hung up or this program closed the connection.
ReadLocalError(s) ==
  /\ At(s, "relay")
  /\ conn[s] \in {"eof", "closed"}
  /\ Goto(s, "close")
  /\ UNCHANGED <<wireVars, poolVars, appSent>>

DeferredSendClose(s) ==
  /\ At(s, "close")
  /\ SendClose(s)
  /\ Goto(s, "shut")
  /\ UNCHANGED <<poolVars, appSent>>

\* conn.Close; only the proxies also delete the tcpMap entry.
DeferredShut(s) ==
  /\ At(s, "shut")
  /\ conn' = [conn EXCEPT ![s] = "closed"]
  /\ tcpMap' = IF fwd[s].kind = "tcp" THEN tcpMap ELSE tcpMap \ {s}
  /\ Goto(s, "done")
  /\ UNCHANGED <<wireVars, wsConns, handler, connInfo, claimTimes, connected,
                 channelMap, boundByChannel, closers, crashed, appGot, appSent>>

\* The goroutine of a session, once it is registered
Forward(s) ==
  \/ SkipNil(s)
  \/ MarkClaim(s)
  \/ MarkNil(s)
  \/ WriteClaim(s)
  \/ ClaimsDone(s)
  \/ Established(s)
  \/ Timeout(s)
  \/ Refuse(s)
  \/ Drop(s)
  \/ Reply(s)
  \/ SendLocal(s)
  \/ ReadLocalError(s)
  \/ DeferredSendClose(s)
  \/ DeferredShut(s)

\* The app hangs up, at any time.
AppHangup(s) ==
  /\ conn[s] = "open"
  /\ conn' = [conn EXCEPT ![s] = "eof"]
  /\ UNCHANGED <<wireVars, wsConns, handler, tcpMap, connInfo, claimTimes,
                 connected, channelMap, boundByChannel, closers, crashed, appGot,
                 forwarderVars>>
=============================================================================
