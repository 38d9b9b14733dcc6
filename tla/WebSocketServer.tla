-------------------------- MODULE WebSocketServer ---------------------------
(***************************************************************************)
(* websocket_server.go: handleWebSocket, the read loop of one connection,  *)
(* and handleTCPConnection, the goroutine it starts for every TCP message. *)
(* The two share the map conns of the connection; a handler knows nothing  *)
(* of the sessions other connections carry.                                *)
(*                                                                         *)
(* Not modelled here: UDP_CONNECT, UDP_DATA and UDP_CLOSE, ping and pong,  *)
(* the Upgrade with its token and CIDR checks.  Targets are external: they *)
(* accept or refuse, send units 1, 2, ... and hang up when they like.      *)
(***************************************************************************)
EXTENDS Wire

CONSTANT MaxDown   \* bound: units a target sends

ASSUME MaxDownAssumption == MaxDown \in Nat

VARIABLES
  conns,       \* conns[w]: keys of the map of connection w's handler
  task,        \* task[w][s]: handleTCPConnection for s, and its first frame
  tconn,       \* tconn[w][s]: its connection to the target: "none", "open",
               \* "eof" (the target has hung up), "reset" (and a write has
               \* failed since), "closed" (by the server)
  targetGot,   \* units written to the target for session s, in order
  targetSent   \* units read from the target of session s so far

serverVars == <<conns, task, tconn, targetGot, targetSent>>

TaskStates == {"none", "dial", "first", "notify", "pump", "ended"}
Running == {"first", "notify", "pump"}   \* registered in conns

ServerTypeOK ==
  /\ conns \in [Sockets -> SUBSET Sessions]
  /\ task \in [Sockets -> [Sessions -> [pc : TaskStates, first : Nat]]]
  /\ tconn \in [Sockets -> [Sessions -> {"none", "open", "eof", "reset", "closed"}]]
  /\ targetGot \in [Sessions -> Seq(Nat)]
  /\ targetSent \in [Sessions -> 0 .. MaxDown]

ServerInit ==
  /\ conns = [w \in Sockets |-> {}]
  /\ task = [w \in Sockets |-> [s \in Sessions |-> [pc |-> "none", first |-> 0]]]
  /\ tconn = [w \in Sockets |-> [s \in Sessions |-> "none"]]
  /\ targetGot = [s \in Sessions |-> << >>]
  /\ targetSent = [s \in Sessions |-> 0]

ServerWrite(w, m, ok) ==
  /\ MayReturn(w, ok)
  /\ toClient' = After(toClient, w, m, ok)
  /\ UNCHANGED <<link, toServer>>

-----------------------------------------------------------------------------
(* The read loop *)

Serves(w, t) ==
  /\ link[w] \in {"open", "broken"}
  /\ toServer[w] # << >>
  /\ Head(toServer[w]).type = t
Request(w) == Head(toServer[w])
ConsumeRequest(w) ==
  /\ toServer' = [toServer EXCEPT ![w] = Tail(@)]
  /\ UNCHANGED <<link, toClient>>

\* CLAIM: answered at once; the result of the write is ignored.
ServeClaim(w) ==
  /\ Serves(w, "CLAIM")
  /\ toServer' = [toServer EXCEPT ![w] = Tail(@)]
  /\ toClient' = After(toClient, w, Msg("CLAIM_ACK", Request(w).sess, 0), TRUE)
  /\ UNCHANGED <<link, serverVars>>

\* TCP: go handleTCPConnection
ServeTCP(w) ==
  /\ Serves(w, "TCP")
  /\ ConsumeRequest(w)
  /\ task' = [task EXCEPT ![w][Request(w).sess] =
                             [pc |-> "dial", first |-> Request(w).data]]
  /\ UNCHANGED <<conns, tconn, targetGot, targetSent>>

\* c.Write to the target of s.  A target that has hung up may still read; once
\* a write has failed, every later one does.
CanWrite(w, s) == tconn[w][s] \in {"open", "eof"}
CanFail(w, s) == tconn[w][s] \in {"eof", "reset", "closed"}
Deliver(s, unit) == targetGot' = [targetGot EXCEPT ![s] = Append(@, unit)]

\* DATA of a session in conns: written to the target.
ServeData(w) ==
  LET s == Request(w).sess IN
  /\ Serves(w, "DATA")
  /\ s \in conns[w]
  /\ CanWrite(w, s)
  /\ ConsumeRequest(w)
  /\ Deliver(s, Request(w).data)
  /\ UNCHANGED <<conns, task, tconn, targetSent>>

\* The write fails: only logged.
ServeDataFails(w) ==
  LET s == Request(w).sess IN
  /\ Serves(w, "DATA")
  /\ s \in conns[w]
  /\ CanFail(w, s)
  /\ ConsumeRequest(w)
  /\ tconn' = [tconn EXCEPT ![w][s] = IF @ = "eof" THEN "reset" ELSE @]
  /\ UNCHANGED <<conns, task, targetGot, targetSent>>

\* DATA of a session this connection does not know: dropped without an answer.
DropData(w) ==
  /\ Serves(w, "DATA")
  /\ Request(w).sess \notin conns[w]
  /\ ConsumeRequest(w)
  /\ UNCHANGED serverVars

ServeClose_OnlyForgets(w) ==   \* mutant: the target connection stays open
  LET s == Request(w).sess IN
  /\ Serves(w, "CLOSE")
  /\ ConsumeRequest(w)
  /\ conns' = [conns EXCEPT ![w] = @ \ {s}]
  /\ UNCHANGED <<tconn, task, targetGot, targetSent>>

\* CLOSE: closes a session that is in conns; one still being dialled is not.
ServeClose(w) ==
  LET s == Request(w).sess IN
  /\ Serves(w, "CLOSE")
  /\ ConsumeRequest(w)
  /\ conns' = [conns EXCEPT ![w] = @ \ {s}]
  /\ tconn' = IF s \in conns[w] THEN [tconn EXCEPT ![w][s] = "closed"] ELSE tconn
  /\ UNCHANGED <<task, targetGot, targetSent>>

\* A read error: cancel the context, close every connection in conns, forget
\* them, close the WebSocket.  A goroutine that is still dialling goes on, with
\* the old map.
Cleanup(w) ==
  /\ link[w] = "broken"
  /\ toServer[w] = << >>
  /\ link' = [link EXCEPT ![w] = "gone"]
  /\ tconn' = [tconn EXCEPT ![w] = [s \in Sessions |->
                 IF s \in conns[w] THEN "closed" ELSE tconn[w][s]]]
  /\ conns' = [conns EXCEPT ![w] = {}]
  /\ UNCHANGED <<toServer, toClient, task, targetGot, targetSent>>

HandleWebSocket(w) ==
  \/ ServeClaim(w)
  \/ ServeTCP(w)
  \/ ServeData(w)
  \/ ServeDataFails(w)
  \/ DropData(w)
  \/ ServeClose(w)
  \/ Cleanup(w)

-----------------------------------------------------------------------------
(* handleTCPConnection *)

SetTask(w, s, pc) == task' = [task EXCEPT ![w][s].pc = pc]

\* CLOSE to the client; the result of the write is ignored.  Mutants: it is not
\* sent; it is not sent when this server closed the connection.
TellClient_Silent(w, s) == UNCHANGED wireVars
TellClient_NoEcho(w, s) ==
  IF tconn[w][s] = "closed" THEN UNCHANGED wireVars
  ELSE \E ok \in BOOLEAN : ServerWrite(w, Msg("CLOSE", s, 0), ok)
TellClient(w, s) == \E ok \in BOOLEAN : ServerWrite(w, Msg("CLOSE", s, 0), ok)

\* The deferred function: close the connection and leave conns.
End(w, s) ==
  /\ SetTask(w, s, "ended")
  /\ tconn' = [tconn EXCEPT ![w][s] = "closed"]
  /\ conns' = [conns EXCEPT ![w] = @ \ {s}]

AfterDial_NoFirst(first) == "notify"   \* mutant: the first frame is forgotten
AfterDial(first) == IF first = 0 THEN "notify" ELSE "first"

DialTarget(w, s) ==
  /\ task[w][s].pc = "dial"
  /\ tconn' = [tconn EXCEPT ![w][s] = "open"]
  /\ conns' = [conns EXCEPT ![w] = @ \cup {s}]
  /\ SetTask(w, s, AfterDial(task[w][s].first))
  /\ UNCHANGED <<wireVars, targetGot, targetSent>>

\* Nothing is deferred yet; CLOSE tells the client.
DialTargetFails(w, s) ==
  /\ task[w][s].pc = "dial"
  /\ TellClient(w, s)
  /\ SetTask(w, s, "ended")
  /\ UNCHANGED <<conns, tconn, targetGot, targetSent>>

WriteFirstFrame(w, s) ==
  /\ task[w][s].pc = "first"
  /\ CanWrite(w, s)
  /\ Deliver(s, task[w][s].first)
  /\ SetTask(w, s, "notify")
  /\ UNCHANGED <<wireVars, conns, tconn, targetSent>>

WriteFirstFrameFails(w, s) ==
  /\ task[w][s].pc = "first"
  /\ CanFail(w, s)
  /\ TellClient(w, s)
  /\ End(w, s)
  /\ UNCHANGED <<targetGot, targetSent>>

\* CONNECTED; the result of the write is ignored.
Notify(w, s) ==
  /\ task[w][s].pc = "notify"
  /\ \E ok \in BOOLEAN : ServerWrite(w, Msg("CONNECTED", s, 0), ok)
  /\ SetTask(w, s, "pump")
  /\ UNCHANGED <<conns, tconn, targetGot, targetSent>>

\* The pump reads a unit the target sent and writes it to the WebSocket.
PumpData(w, s) ==
  /\ task[w][s].pc = "pump"
  /\ tconn[w][s] = "open"
  /\ targetSent[s] < MaxDown
  /\ targetSent' = [targetSent EXCEPT ![s] = @ + 1]
  /\ \E ok \in BOOLEAN :
       /\ ServerWrite(w, Msg("DATA", s, targetSent[s] + 1), ok)
       /\ IF ok THEN UNCHANGED <<conns, task, tconn>> ELSE End(w, s)
  /\ UNCHANGED targetGot

\* Reading the target fails, whoever closed the connection: CLOSE, and out.
PumpReadError(w, s) ==
  /\ task[w][s].pc = "pump"
  /\ tconn[w][s] \in {"eof", "reset", "closed"}
  /\ TellClient(w, s)
  /\ End(w, s)
  /\ UNCHANGED <<targetGot, targetSent>>

PumpCancelled_OnceClosed(w, s) ==   \* mutant: leaves it to Cleanup to close
  /\ task[w][s].pc = "pump"
  /\ link[w] = "gone"
  /\ s \notin conns[w]
  /\ End(w, s)
  /\ UNCHANGED <<wireVars, targetGot, targetSent>>

\* ctx.Done, looked at between reads of at most a second.
PumpCancelled(w, s) ==
  /\ task[w][s].pc = "pump"
  /\ link[w] = "gone"
  /\ End(w, s)
  /\ UNCHANGED <<wireVars, targetGot, targetSent>>

HandleTCPConnection(w, s) ==
  \/ DialTarget(w, s)
  \/ DialTargetFails(w, s)
  \/ WriteFirstFrame(w, s)
  \/ WriteFirstFrameFails(w, s)
  \/ Notify(w, s)
  \/ PumpReadError(w, s)
  \/ PumpCancelled(w, s)

TargetHangup(w, s) ==
  /\ tconn[w][s] = "open"
  /\ tconn' = [tconn EXCEPT ![w][s] = "eof"]
  /\ UNCHANGED <<wireVars, conns, task, targetGot, targetSent>>
=============================================================================
