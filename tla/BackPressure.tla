---------------------------- MODULE BackPressure ----------------------------
(***************************************************************************)
(* Who waits for whom on one WebSocket connection.  Every goroutine that   *)
(* writes to it takes the mutex of its side (wsMutexes[c] at the client,   *)
(* mu at the server) and keeps it until WriteMessage returns, which it     *)
(* does only when the stream has room: no write has a deadline.  The two   *)
(* read loops are themselves writers, and they also write to the local and *)
(* target connections, which wait for the application or target to read.   *)
(* A datagram of a UDP association is written, and the association closed, *)
(* under assoc.mu as well, which the client's read loop takes to pass an   *)
(* answer on; when that fails it waits for room in assoc.done.             *)
(*                                                                         *)
(* One channel, whose connection stays up (module Tunnel breaks it).  What *)
(* the payload is does not matter here, so a DATA frame only names its     *)
(* session and a session may send for ever in finitely many states.        *)
(* Associations are there from the start: one that has had no datagram has *)
(* done nothing that another goroutine could see.                          *)
(***************************************************************************)
EXTENDS Integers, Sequences

CONSTANTS Sessions, NoSession,
          Assocs,                \* UDP associations
          UpCap, DownCap,        \* frames the two streams hold unread
          Apps, Targets          \* sessions whose application, whose target sends
                                 \* payload and may hang up; the others only read

ASSUME NoSessionAssumption == NoSession \notin Sessions \cup Assocs
ASSUME AssocsAssumption == Assocs \cap Sessions = {}
ASSUME EndpointsAssumption == Apps \subseteq Sessions /\ Targets \subseteq Sessions
ASSUME CapAssumption == UpCap \in Nat \ {0} /\ DownCap \in Nat \ {0}

Frame(t, s) == [type |-> t, sess |-> s]
Nothing == Frame("none", NoSession)
UpTypes == {"CLAIM", "TCP", "DATA", "CLOSE", "PING", "UDP_CONNECT", "UDP_DATA", "UDP_CLOSE"}
DownTypes == {"CLAIM_ACK", "CONNECTED", "DATA", "CLOSE", "PONG",
              "UDP_CONNECTED", "UDP_ERROR", "UDP_DATA"}
Answers == {"CLAIM_ACK", "PONG", "UDP_CONNECTED", "UDP_ERROR"}   \* of the server's loop
Control == {"PING", "PONG"}
Signal == "done"     \* no frame: the client's read loop has to signal an association
OfAssoc == {"UDP_CONNECT", "UDP_DATA", "UDP_CLOSE", "UDP_CONNECTED", "UDP_ERROR", Signal}
Frames(types) == [type : types \ (Control \cup OfAssoc), sess : Sessions]
                   \cup [type : types \cap OfAssoc, sess : Assocs]
                   \cup [type : types \cap Control, sess : {NoSession}]

DoneCapacity == 2    \* make(chan bool, 2)

\* The goroutines that write.  Client: handleChannel, its ticker, the owner of a
\* session, a "go p.SendClose(id)", and whoever writes under assoc.mu.  Server:
\* handleWebSocket, the two goroutines of handleTCPConnection, one after the
\* other, and the one that receives for a UDP socket.
Reader == <<"reader", NoSession>>
Pinger == <<"pinger", NoSession>>
Sender(s) == <<"sender", s>>
Closer(s) == <<"closer", s>>
Holder(u) == <<"holder", u>>
Loop == <<"loop", NoSession>>
Task(s) == <<"task", s>>
Receiver(u) == <<"receiver", u>>
ClientActors == {Reader, Pinger} \cup {Sender(s) : s \in Sessions}
                                 \cup {Closer(s) : s \in Sessions}
                                 \cup {Holder(u) : u \in Assocs}
ServerActors == {Loop} \cup {Task(s) : s \in Sessions} \cup {Receiver(u) : u \in Assocs}
Nobody == <<"nobody", NoSession>>

VARIABLES
  up, down,            \* the streams, client to server and back: unread frames
  upLock, downLock,    \* the holders of wsMutexes[c] and mu, or Nobody
  todo,                \* todo[a]: the frame goroutine a has to write (for a read
                       \* loop also what it has to deliver or signal), or Nothing
  stage,               \* the owner of a session
  connected, bound,    \* sessions (and associations) signalled; sessions in channelMap
  local,               \* the local connection
  serve,               \* the main goroutine of an association: waits on done, is to
                       \* close, has closed
  mutex,               \* assoc.mu: "free", or what its holder is writing
  receiving,           \* associations with assoc.receiving set
  done,                \* signals in assoc.done
  senders,             \* the association's goroutines that may yet signal
  task,                \* handleTCPConnection
  target,              \* the target connection
  sockets              \* associations with an open UDP socket

assocVars == <<serve, mutex, receiving, done, senders>>
clientVars == <<stage, connected, bound, local, assocVars>>
serverVars == <<task, target, sockets>>
vars == <<up, down, upLock, downLock, todo, clientVars, serverVars>>

Ends == {"none", "open", "closed"}   \* closed: by either side

Free(a) == todo[a] = Nothing
\* What a read loop has to deliver or signal it does without the mutex.
Writing(a) ==
  /\ ~Free(a)
  /\ a = Reader => todo[a].type \notin {"DATA", "UDP_DATA", Signal}
  /\ a = Loop => todo[a].type # "DATA"

\* What goroutine a can have to write or deliver
WrittenBy(a) ==
  IF a = Reader THEN Frames({"TCP", "DATA", "UDP_DATA", Signal})
  ELSE IF a = Loop THEN Frames(Answers \cup {"DATA"})
  ELSE IF a \in ClientActors THEN Frames(UpTypes) ELSE Frames(DownTypes)

StreamsOK ==
  /\ up \in Seq(Frames(UpTypes)) /\ Len(up) <= UpCap
  /\ down \in Seq(Frames(DownTypes)) /\ Len(down) <= DownCap
TodoOK ==
  /\ todo \in [ClientActors \cup ServerActors ->
                Frames(UpTypes \cup DownTypes \cup {Signal}) \cup {Nothing}]
  /\ \A a \in ClientActors \cup ServerActors : todo[a] \in WrittenBy(a) \cup {Nothing}
\* Whoever holds a mutex has something to write under it.
LocksOK ==
  /\ upLock \in ClientActors \cup {Nobody} /\ (upLock # Nobody => Writing(upLock))
  /\ downLock \in ServerActors \cup {Nobody} /\ (downLock # Nobody => Writing(downLock))
EndsOK ==
  /\ stage \in [Sessions -> {"idle", "wait", "relay", "done"}]
  /\ connected \in SUBSET (Sessions \cup Assocs)
  /\ bound \in SUBSET Sessions
  /\ local \in [Sessions -> Ends]
  /\ task \in [Sessions -> {"none", "dial", "pump", "done"}]
  /\ target \in [Sessions -> Ends]
\* What is written under assoc.mu is written by its holder.
AssocsOK ==
  /\ serve \in [Assocs -> {"wait", "close", "ended"}]
  /\ mutex \in [Assocs -> {"free", "connect", "data", "close"}]
  /\ \A u \in Assocs : mutex[u] = "free" => Free(Holder(u))
  /\ receiving \in SUBSET Assocs
  /\ done \in [Assocs -> 0 .. DoneCapacity]
  /\ senders \in [Assocs -> SUBSET {"control", "relay", "timer"}]
  /\ sockets \in SUBSET Assocs

TypeOK == StreamsOK /\ TodoOK /\ LocksOK /\ EndsOK /\ AssocsOK

Init ==
  /\ up = << >> /\ down = << >>
  /\ upLock = Nobody /\ downLock = Nobody
  /\ todo = [a \in ClientActors \cup ServerActors |-> Nothing]
  /\ stage = [s \in Sessions |-> "idle"]
  /\ connected = {} /\ bound = {}
  /\ local = [s \in Sessions |-> "none"]
  /\ serve = [u \in Assocs |-> "wait"]
  /\ mutex = [u \in Assocs |-> "free"]
  /\ receiving = {}
  /\ done = [u \in Assocs |-> 0]
  /\ senders = [u \in Assocs |-> {"control", "relay"}]
  /\ task = [s \in Sessions |-> "none"]
  /\ target = [s \in Sessions |-> "none"]
  /\ sockets = {}

Give(a, m) == todo' = [todo EXCEPT ![a] = m]
Done(a) == Give(a, Nothing)

-----------------------------------------------------------------------------
(* Lock, WriteMessage, Unlock: while the stream has room this is one step; when
   it is full the writer keeps the mutex and waits.                            *)

Room(stream, cap) == Len(stream) < cap

WaitUp(a) ==
  /\ upLock = Nobody /\ Writing(a) /\ ~Room(up, UpCap)
  /\ upLock' = a
  /\ UNCHANGED <<up, down, downLock, todo, clientVars, serverVars>>

\* Mutants of WriteUp: a write that gives up when it cannot go on; the mutex is
\* kept after a control frame.
WriteUp_GivesUp(a) ==
  /\ upLock \in {Nobody, a} /\ Writing(a)
  /\ up' = IF Room(up, UpCap) THEN Append(up, todo[a]) ELSE up
  /\ upLock' = Nobody
  /\ Done(a)
  /\ UNCHANGED <<down, downLock, clientVars, serverVars>>
WriteUp_KeepsLock(a) ==
  /\ upLock \in {Nobody, a} /\ Writing(a) /\ Room(up, UpCap)
  /\ up' = Append(up, todo[a])
  /\ upLock' = IF todo[a].type = "PING" THEN a ELSE Nobody
  /\ Done(a)
  /\ UNCHANGED <<down, downLock, clientVars, serverVars>>

WriteUp(a) ==
  /\ upLock \in {Nobody, a} /\ Writing(a) /\ Room(up, UpCap)
  /\ up' = Append(up, todo[a])
  /\ upLock' = Nobody
  /\ Done(a)
  /\ UNCHANGED <<down, downLock, clientVars, serverVars>>

WaitDown(a) ==
  /\ downLock = Nobody /\ Writing(a) /\ ~Room(down, DownCap)
  /\ downLock' = a
  /\ UNCHANGED <<up, down, upLock, todo, clientVars, serverVars>>

WriteDown(a) ==
  /\ downLock \in {Nobody, a} /\ Writing(a) /\ Room(down, DownCap)
  /\ down' = Append(down, todo[a])
  /\ downLock' = Nobody
  /\ Done(a)
  /\ UNCHANGED <<up, upLock, clientVars, serverVars>>

-----------------------------------------------------------------------------
(* The owner of a session: claim, wait for CONNECTED, relay, close *)

Start(s) ==
  /\ stage[s] = "idle" /\ Free(Sender(s))
  /\ stage' = [stage EXCEPT ![s] = "wait"]
  /\ local' = [local EXCEPT ![s] = "open"]
  /\ Give(Sender(s), Frame("CLAIM", s))
  /\ UNCHANGED <<up, down, upLock, downLock, connected, bound, assocVars, serverVars>>

\* WaitConnected returns true or, after 5 s, false; then the session is dropped.
Established(s) ==
  /\ stage[s] = "wait" /\ Free(Sender(s)) /\ s \in connected
  /\ stage' = [stage EXCEPT ![s] = "relay"]
  /\ UNCHANGED <<up, down, upLock, downLock, todo, connected, bound, local, assocVars,
                 serverVars>>
Timeout(s) ==
  /\ stage[s] = "wait" /\ Free(Sender(s))
  /\ stage' = [stage EXCEPT ![s] = "done"]
  /\ local' = [local EXCEPT ![s] = "closed"]
  /\ UNCHANGED <<up, down, upLock, downLock, todo, connected, bound, assocVars, serverVars>>

\* SendData and SendClose look the channel up before they take the mutex.
Routed(m) == IF m.sess \in bound THEN m ELSE Nothing

\* conn.Read returns a unit, or fails and the deferred SendClose runs.
ReadLocal(s) ==
  /\ s \in Apps
  /\ stage[s] = "relay" /\ Free(Sender(s)) /\ local[s] = "open"
  /\ Give(Sender(s), Routed(Frame("DATA", s)))
  /\ UNCHANGED <<up, down, upLock, downLock, clientVars, serverVars>>
ReadLocalError(s) ==
  /\ stage[s] = "relay" /\ Free(Sender(s)) /\ local[s] = "closed"
  /\ stage' = [stage EXCEPT ![s] = "done"]
  /\ Give(Sender(s), Routed(Frame("CLOSE", s)))
  /\ UNCHANGED <<up, down, upLock, downLock, connected, bound, local, assocVars,
                 serverVars>>

\* The 10 s ticker (a tick is dropped while the goroutine is busy)
Ping ==
  /\ Free(Pinger)
  /\ Give(Pinger, Frame("PING", NoSession))
  /\ UNCHANGED <<up, down, upLock, downLock, clientVars, serverVars>>

-----------------------------------------------------------------------------
(* handleChannel *)

ReaderTakes(t) == Free(Reader) /\ down # << >> /\ Head(down).type = t /\ down' = Tail(down)
Arrived == Head(down).sess

\* CLAIM_ACK: with one channel it always wins; the reader writes the TCP frame.
ReaderBinds ==
  /\ ReaderTakes("CLAIM_ACK")
  /\ bound' = bound \cup {Arrived}
  /\ Give(Reader, Frame("TCP", Arrived))
  /\ UNCHANGED <<up, upLock, downLock, stage, connected, local, assocVars, serverVars>>

\* A signal on p.connected, which never waits
ReaderSignals ==
  /\ ReaderTakes("CONNECTED") \/ ReaderTakes("UDP_CONNECTED")
  /\ connected' = connected \cup {Arrived}
  /\ UNCHANGED <<up, upLock, downLock, todo, stage, bound, local, assocVars, serverVars>>

ReaderTakesData ==
  /\ ReaderTakes("DATA")
  /\ Give(Reader, Frame("DATA", Arrived))
  /\ UNCHANGED <<up, upLock, downLock, clientVars, serverVars>>

\* c.Write returns when the app has read enough (the first write after a hang-up
\* may still be taken), or fails: then SendClose runs in a goroutine of its own,
\* as it does when tcpMap has no connection.  Equal ones pending count as one.
ReaderDelivers(s) ==
  /\ todo[Reader] = Frame("DATA", s)
  /\ Done(Reader)
  /\ UNCHANGED <<up, down, upLock, downLock, clientVars, serverVars>>

Report_Itself(s) ==   \* mutant: SendClose is called without "go"
  Give(Reader, Routed(Frame("CLOSE", s)))
Report(s) ==
  todo' = [todo EXCEPT ![Reader] = Nothing,
                       ![Closer(s)] = IF Free(Closer(s)) THEN Routed(Frame("CLOSE", s)) ELSE @]
ReaderFails(s) ==
  /\ todo[Reader] = Frame("DATA", s)
  /\ local[s] = "closed"
  /\ Report(s)
  /\ UNCHANGED <<up, down, upLock, downLock, clientVars, serverVars>>

ReaderCloses ==
  /\ ReaderTakes("CLOSE")
  /\ bound' = bound \ {Arrived}
  /\ local' = [local EXCEPT ![Arrived] = "closed"]
  /\ UNCHANGED <<up, upLock, downLock, todo, stage, connected, assocVars, serverVars>>

\* Gorilla's default pong handler does nothing; UDP_ERROR is only logged.
ReaderIgnores ==
  /\ ReaderTakes("PONG") \/ ReaderTakes("UDP_ERROR")
  /\ UNCHANGED <<up, upLock, downLock, todo, clientVars, serverVars>>

\* UDP_DATA for an association in udpMap; it is dropped for another, and when
\* handleUDPResponse cannot split the sender's address.
ReaderTakesAnswer_Tells ==   \* mutant: the loop itself tells the server
  /\ ReaderTakes("UDP_DATA")
  /\ Give(Reader, Frame(IF serve[Arrived] # "ended" THEN "UDP_DATA" ELSE "UDP_CLOSE", Arrived))
  /\ UNCHANGED <<up, upLock, downLock, clientVars, serverVars>>
ReaderTakesAnswer ==
  /\ ReaderTakes("UDP_DATA")
  /\ \/ serve[Arrived] # "ended" /\ Give(Reader, Frame("UDP_DATA", Arrived))
     \/ Done(Reader)
  /\ UNCHANGED <<up, upLock, downLock, clientVars, serverVars>>

\* handleUDPResponse: WriteToUDP under assoc.mu.  It fails on the closed socket of
\* an association that has ended, or whenever the kernel says so; then the loop
\* itself sends on done.
ReaderAnswers(u) ==
  /\ todo[Reader] = Frame("UDP_DATA", u)
  /\ mutex[u] = "free"
  /\ \/ serve[u] # "ended" /\ Done(Reader)
     \/ Give(Reader, Frame(Signal, u))
  /\ UNCHANGED <<up, down, upLock, downLock, clientVars, serverVars>>

\* assoc.done <- true
SendDone(u) ==
  /\ done[u] < DoneCapacity
  /\ done' = [done EXCEPT ![u] = @ + 1]
ReaderSendsDone(u) ==
  /\ todo[Reader] = Frame(Signal, u)
  /\ SendDone(u)
  /\ Done(Reader)
  /\ UNCHANGED <<up, down, upLock, downLock, stage, connected, bound, local, serve, mutex,
                 receiving, senders, serverVars>>

-----------------------------------------------------------------------------
(* A UDP association *)

\* sendUDPData takes assoc.mu unless the association is closed, and keeps it over
\* the writes: the first datagram is preceded by UDP_CONNECT.
Datagram(u) ==
  /\ mutex[u] = "free" /\ serve[u] # "ended"
  /\ receiving' = receiving \cup {u}
  /\ mutex' = [mutex EXCEPT ![u] = IF u \in receiving THEN "data" ELSE "connect"]
  /\ Give(Holder(u), Frame(IF u \in receiving THEN "UDP_DATA" ELSE "UDP_CONNECT", u))
  /\ UNCHANGED <<up, down, upLock, downLock, stage, connected, bound, local, serve, done,
                 senders, serverVars>>
\* UDP_CONNECT is written: WaitConnected gets a goroutine, the data follows.
GoesOn_Waits(u) ==   \* mutant: WaitConnected is called without "go"
  /\ mutex[u] = "connect" /\ Free(Holder(u)) /\ u \in connected
  /\ mutex' = [mutex EXCEPT ![u] = "data"]
  /\ Give(Holder(u), Frame("UDP_DATA", u))
  /\ UNCHANGED <<up, down, upLock, downLock, stage, connected, bound, local, serve,
                 receiving, done, senders, serverVars>>
GoesOn(u) ==
  /\ mutex[u] = "connect" /\ Free(Holder(u))
  /\ mutex' = [mutex EXCEPT ![u] = "data"]
  /\ senders' = [senders EXCEPT ![u] = @ \cup {"timer"}]
  /\ Give(Holder(u), Frame("UDP_DATA", u))
  /\ UNCHANGED <<up, down, upLock, downLock, stage, connected, bound, local, serve,
                 receiving, done, serverVars>>
DatagramSent_Early(u) ==   \* mutant: the mutex is released before the write
  /\ mutex[u] = "data"
  /\ mutex' = [mutex EXCEPT ![u] = "free"]
  /\ UNCHANGED <<up, down, upLock, downLock, todo, stage, connected, bound, local, serve,
                 receiving, done, senders, serverVars>>
DatagramSent(u) ==
  /\ mutex[u] = "data" /\ Free(Holder(u))
  /\ mutex' = [mutex EXCEPT ![u] = "free"]
  /\ UNCHANGED <<up, down, upLock, downLock, todo, stage, connected, bound, local, serve,
                 receiving, done, senders, serverVars>>

\* Who signals: the reader of the control connection at its end, handleUDPRelay
\* when its socket is closed, WaitConnected's goroutine after 5 s.
SignalsDone(u, g) ==
  /\ g \in senders[u]
  /\ g = "relay" => serve[u] = "ended"
  /\ SendDone(u)
  /\ senders' = [senders EXCEPT ![u] = @ \ {g}]
  /\ UNCHANGED <<up, down, upLock, downLock, todo, stage, connected, bound, local, serve,
                 mutex, receiving, serverVars>>
AssocConnected(u) ==   \* WaitConnected returns true
  /\ "timer" \in senders[u] /\ u \in connected
  /\ senders' = [senders EXCEPT ![u] = @ \ {"timer"}]
  /\ UNCHANGED <<up, down, upLock, downLock, todo, stage, connected, bound, local, serve,
                 mutex, receiving, done, serverVars>>

\* <-assoc.done, then Close, which writes UDP_CLOSE under assoc.mu if the
\* association has a channel.
Finish(u) ==
  /\ serve[u] = "wait" /\ done[u] > 0
  /\ serve' = [serve EXCEPT ![u] = "close"]
  /\ done' = [done EXCEPT ![u] = @ - 1]
  /\ UNCHANGED <<up, down, upLock, downLock, todo, stage, connected, bound, local, mutex,
                 receiving, senders, serverVars>>
Close(u) ==
  /\ serve[u] = "close" /\ mutex[u] = "free"
  /\ mutex' = [mutex EXCEPT ![u] = "close"]
  /\ Give(Holder(u), IF u \in receiving THEN Frame("UDP_CLOSE", u) ELSE Nothing)
  /\ UNCHANGED <<up, down, upLock, downLock, stage, connected, bound, local, serve,
                 receiving, done, senders, serverVars>>
Closed(u) ==   \* udpMap forgets it, the socket is closed, the mutex released
  /\ mutex[u] = "close" /\ Free(Holder(u))
  /\ mutex' = [mutex EXCEPT ![u] = "free"]
  /\ serve' = [serve EXCEPT ![u] = "ended"]
  /\ UNCHANGED <<up, down, upLock, downLock, todo, stage, connected, bound, local,
                 receiving, done, senders, serverVars>>

-----------------------------------------------------------------------------
(* handleWebSocket *)

LoopTakes(t) == Free(Loop) /\ up # << >> /\ Head(up).type = t /\ up' = Tail(up)
Asked == Head(up).sess

Answer(m) ==   \* the loop itself writes the answer
  /\ Give(Loop, m)
  /\ UNCHANGED <<down, upLock, downLock, clientVars, serverVars>>
LoopClaim == LoopTakes("CLAIM") /\ Answer(Frame("CLAIM_ACK", Asked))
LoopPong == LoopTakes("PING") /\ Answer(Frame("PONG", NoSession))
LoopUdpRefuses == LoopTakes("UDP_CONNECT") /\ Answer(Frame("UDP_ERROR", Asked))
LoopUdpConnects ==
  /\ LoopTakes("UDP_CONNECT")
  /\ sockets' = sockets \cup {Asked}
  /\ Give(Loop, Frame("UDP_CONNECTED", Asked))
  /\ UNCHANGED <<down, upLock, downLock, clientVars, task, target>>
LoopUdpData ==   \* WriteToUDP does not wait.
  /\ LoopTakes("UDP_DATA")
  /\ UNCHANGED <<down, upLock, downLock, todo, clientVars, serverVars>>
LoopUdpCloses ==
  /\ LoopTakes("UDP_CLOSE")
  /\ sockets' = sockets \ {Asked}
  /\ UNCHANGED <<down, upLock, downLock, todo, clientVars, task, target>>

\* The goroutine of a UDP socket passes on what the socket receives.
Receive(u) ==
  /\ u \in sockets /\ Free(Receiver(u))
  /\ Give(Receiver(u), Frame("UDP_DATA", u))
  /\ UNCHANGED <<up, down, upLock, downLock, clientVars, serverVars>>

LoopTCP ==
  /\ LoopTakes("TCP")
  /\ task' = [task EXCEPT ![Asked] = "dial"]
  /\ UNCHANGED <<down, upLock, downLock, todo, clientVars, target, sockets>>

\* DATA for a session without a target connection is dropped.
LoopTakesData ==
  /\ LoopTakes("DATA")
  /\ Give(Loop, IF target[Asked] = "none" THEN Nothing ELSE Frame("DATA", Asked))
  /\ UNCHANGED <<down, upLock, downLock, clientVars, serverVars>>

\* c.Write returns: the target has read enough, or the error is only logged.
LoopDelivers(s) ==
  /\ todo[Loop] = Frame("DATA", s)
  /\ Done(Loop)
  /\ UNCHANGED <<up, down, upLock, downLock, clientVars, serverVars>>

LoopCloses ==
  /\ LoopTakes("CLOSE")
  /\ target' = [target EXCEPT ![Asked] = IF @ = "none" THEN @ ELSE "closed"]
  /\ UNCHANGED <<down, upLock, downLock, todo, clientVars, task, sockets>>

-----------------------------------------------------------------------------
(* handleTCPConnection *)

\* The first frame is written before CONNECTED and without a mutex: a target that
\* does not read it holds up only its own session.
DialSucceeds(s) ==
  /\ task[s] = "dial" /\ Free(Task(s))
  /\ task' = [task EXCEPT ![s] = "pump"]
  /\ target' = [target EXCEPT ![s] = "open"]
  /\ Give(Task(s), Frame("CONNECTED", s))
  /\ UNCHANGED <<up, down, upLock, downLock, clientVars, sockets>>
DialFails(s) ==
  /\ task[s] = "dial" /\ Free(Task(s))
  /\ task' = [task EXCEPT ![s] = "done"]
  /\ Give(Task(s), Frame("CLOSE", s))
  /\ UNCHANGED <<up, down, upLock, downLock, clientVars, target, sockets>>

PumpData(s) ==
  /\ s \in Targets
  /\ task[s] = "pump" /\ Free(Task(s)) /\ target[s] = "open"
  /\ Give(Task(s), Frame("DATA", s))
  /\ UNCHANGED <<up, down, upLock, downLock, clientVars, serverVars>>
PumpError(s) ==
  /\ task[s] = "pump" /\ Free(Task(s)) /\ target[s] = "closed"
  /\ task' = [task EXCEPT ![s] = "done"]
  /\ Give(Task(s), Frame("CLOSE", s))
  /\ UNCHANGED <<up, down, upLock, downLock, clientVars, target, sockets>>

AppHangsUp(s) ==
  /\ s \in Apps
  /\ local[s] = "open"
  /\ local' = [local EXCEPT ![s] = "closed"]
  /\ UNCHANGED <<up, down, upLock, downLock, todo, stage, connected, bound, assocVars, serverVars>>
TargetHangsUp(s) ==
  /\ s \in Targets
  /\ target[s] = "open"
  /\ target' = [target EXCEPT ![s] = "closed"]
  /\ UNCHANGED <<up, down, upLock, downLock, todo, clientVars, task, sockets>>

-----------------------------------------------------------------------------
Read == \/ ReaderBinds \/ ReaderSignals \/ ReaderTakesData \/ ReaderCloses \/ ReaderIgnores
        \/ ReaderTakesAnswer
        \/ \E s \in Sessions : ReaderFails(s)
Handle == \/ LoopClaim \/ LoopPong \/ LoopTCP \/ LoopTakesData \/ LoopCloses
          \/ LoopUdpConnects \/ LoopUdpRefuses \/ LoopUdpData \/ LoopUdpCloses
Own(s) == Established(s) \/ ReadLocalError(s)
Serve(s) == DialSucceeds(s) \/ DialFails(s) \/ PumpError(s)
Release(u) == GoesOn(u) \/ DatagramSent(u) \/ Closed(u)   \* of assoc.mu, in the end
Associate(u) ==
  \/ Datagram(u) \/ Release(u) \/ Finish(u) \/ Close(u) \/ AssocConnected(u) \/ Receive(u)
  \/ \E g \in {"control", "relay", "timer"} : SignalsDone(u, g)
ClientWrites(a) == WriteUp(a) \/ WaitUp(a)
ServerWrites(a) == WriteDown(a) \/ WaitDown(a)

Next ==
  \/ \E a \in ClientActors : ClientWrites(a)
  \/ \E a \in ServerActors : ServerWrites(a)
  \/ Read \/ Handle \/ Ping
  \/ \E s \in Sessions :
       \/ ReaderDelivers(s) \/ LoopDelivers(s)
       \/ Start(s) \/ Own(s) \/ Timeout(s) \/ ReadLocal(s)
       \/ Serve(s) \/ PumpData(s)
       \/ AppHangsUp(s) \/ TargetHangsUp(s)
  \/ \E u \in Assocs : ReaderAnswers(u) \/ ReaderSendsDone(u) \/ Associate(u)

Spec == Init /\ [][Next]_vars

\* A holder of a mutex writes once there is room.  Each read loop runs: applications
\* and targets read, sync.Mutex goes to the longest waiter after 1 ms (starvation
\* mode), and a channel's longest sender is first, hence strong fairness; likewise
\* for the holder of assoc.mu, who waits for a mutex, too.  An association's main
\* goroutine runs.  Nobody has to send, ping, answer or hang up, and no timer has to
\* fire.
HolderWrites == upLock # Nobody /\ WriteUp(upLock)
ServerHolderWrites == downLock # Nobody /\ WriteDown(downLock)
ReaderRuns ==
  \/ Read \/ ClientWrites(Reader)
  \/ \E s \in Sessions : ReaderDelivers(s)
  \/ \E u \in Assocs : ReaderAnswers(u) \/ ReaderSendsDone(u)
LoopRuns == Handle \/ ServerWrites(Loop) \/ \E s \in Sessions : LoopDelivers(s)
FairSpec ==
  /\ Spec
  /\ WF_vars(HolderWrites) /\ WF_vars(ServerHolderWrites)
  /\ SF_vars(ReaderRuns) /\ SF_vars(LoopRuns)
  /\ \A u \in Assocs : /\ SF_vars(ClientWrites(Holder(u)))
                        /\ WF_vars(Release(u)) /\ WF_vars(Finish(u))

-----------------------------------------------------------------------------
(* Properties *)

\* The crossed wait: the client's read loop cannot go on until somebody has
\* written to the server, the server's has an answer to write, both streams are
\* full, and nobody else reads them.  The client's loop has a TCP frame to write,
\* or waits for the assoc.mu of an association that is writing.
WaitsForAssoc(u) == todo[Reader] = Frame("UDP_DATA", u) /\ mutex[u] # "free"
Crossed ==
  /\ \/ todo[Reader].type = "TCP"
     \/ \E u \in Assocs : WaitsForAssoc(u) /\ ~Free(Holder(u))
  /\ todo[Loop].type \in Answers
  /\ ~Room(up, UpCap) /\ ~Room(down, DownCap)
\* The client's read loop waits to signal an association that reads no signal any
\* more: no message of the connection is read again (module UdpTunnel, too).
DoneIsFull == \E u \in Assocs : /\ todo[Reader] = Frame(Signal, u)
                                /\ done[u] = DoneCapacity /\ serve[u] # "wait"
\* A read loop waits until one application, or one target, reads: every other
\* session of the connection waits with it.
WaitsForApp == \E s \in Sessions : todo[Reader] = Frame("DATA", s) /\ local[s] = "open"
WaitsForTarget == \E s \in Sessions : todo[Loop] = Frame("DATA", s) /\ target[s] = "open"

\* What a goroutine that has a frame waits for when it cannot go on.
StuckUp(a) == upLock \notin {Nobody, a} \/ (upLock = a /\ ~Room(up, UpCap))
StuckDown(a) == downLock \notin {Nobody, a} \/ (downLock = a /\ ~Room(down, DownCap))
StuckReader ==
  \/ Free(Reader) /\ down = << >>
  \/ WaitsForApp
  \/ Writing(Reader) /\ StuckUp(Reader)
  \/ \E u \in Assocs : \/ WaitsForAssoc(u)
                       \/ todo[Reader] = Frame(Signal, u) /\ done[u] = DoneCapacity
StuckLoop ==
  \/ Free(Loop) /\ up = << >>
  \/ WaitsForTarget
  \/ Writing(Loop) /\ StuckDown(Loop)
StuckAssoc(u) ==
  /\ mutex[u] # "free" => ~Free(Holder(u))
  /\ serve[u] = "wait" => done[u] = 0
Standstill ==
  /\ \E a \in ClientActors \cup ServerActors : ~Free(a)
  /\ StuckReader /\ StuckLoop
  /\ \A a \in ClientActors \ {Reader} : Free(a) \/ StuckUp(a)
  /\ \A a \in ServerActors \ {Loop} : Free(a) \/ StuckDown(a)
  /\ \A u \in Assocs : StuckAssoc(u)

\* When a goroutine has a frame and none of those that have one, hold assoc.mu or
\* wait on done, nor a read loop, can go on, it is for one of the four reasons
\* above: no mutex is lost and no other circle of waits closes among the mutexes
\* of the two connections, assoc.mu, done and the streams (Lock .. WriteMessage ..
\* Unlock in pool.go and websocket_server.go; sendUDPData, handleUDPResponse and
\* Close in socks5.go; "go p.SendClose(id)" in the read loop).
StandstillHasCause == Standstill => Crossed \/ DoneIsFull \/ WaitsForApp \/ WaitsForTarget

\* The crossed wait never ends: no write has a deadline, no timeout, hang-up or end
\* of an association undoes it, and since no read or write fails the channel is not
\* dialled again.
CrossedForEver == [][Crossed => Crossed']_vars

\* As long as applications and targets read, both read loops come back to their
\* ReadMessage, unless the connection runs into the crossed wait or the client's
\* loop into an association's full channel.
ReadLoopsComeBack ==
  \A a \in {Reader, Loop} : ~Free(a) ~> (Free(a) \/ Crossed \/ DoneIsFull)
=============================================================================
