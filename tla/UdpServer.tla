----------------------------- MODULE UdpServer ------------------------------
(***************************************************************************)
(* The server's half of UDP associations (websocket_server.go): the three  *)
(* UDP messages of handleWebSocket's read loop, its cleanup, and the       *)
(* goroutine that receives for a socket.  Targets are external: they       *)
(* answer datagrams they have had, as often as they like.                  *)
(***************************************************************************)
EXTENDS UdpWire

CONSTANT MaxDown   \* bound: datagrams targets send to one association

ASSUME MaxDownAssumption == MaxDown \in Nat

VARIABLES
  udpConns,    \* udpConns[w]: keys of the maps udpConns and udpTargets
  socket,      \* socket[w][s]: the socket's state and its target
  receiver,    \* receiver[w][s]: the goroutine that receives
  targetGot,   \* datagrams sent to targets for s: where and which, in order
  targetSent   \* datagrams received from the target of s

udpServerVars == <<udpConns, socket, receiver, targetGot, targetSent>>

UdpServerTypeOK ==
  /\ udpConns \in [Sockets -> SUBSET Sessions]
  /\ socket \in [Sockets -> [Sessions -> [state : {"none", "open", "closed"},
                                          addr : Targets \cup {0}]]]
  /\ receiver \in [Sockets -> [Sessions -> {"none", "read", "ended"}]]
  /\ targetGot \in [Sessions -> Seq([addr : Targets, unit : Nat])]
  /\ targetSent \in [Sessions -> 0 .. MaxDown]

UdpServerInit ==
  /\ udpConns = [w \in Sockets |-> {}]
  /\ socket = [w \in Sockets |-> [s \in Sessions |-> [state |-> "none", addr |-> 0]]]
  /\ receiver = [w \in Sockets |-> [s \in Sessions |-> "none"]]
  /\ targetGot = [s \in Sessions |-> << >>]
  /\ targetSent = [s \in Sessions |-> 0]

Request(w) == Head(toServer[w])
Serves(w, t) ==
  /\ link[w] \in {"open", "broken"}
  /\ toServer[w] # << >>
  /\ Request(w).type = t
  /\ toServer' = [toServer EXCEPT ![w] = Tail(@)]
  /\ UNCHANGED link
Answers(w, m) == toClient' = After(toClient, w, m, TRUE)

\* UDP_CONNECT: the address resolves and there is a socket.
ServeConnect(w) ==
  LET s == Request(w).sess IN
  /\ Serves(w, "UDP_CONNECT")
  /\ udpConns' = [udpConns EXCEPT ![w] = @ \cup {s}]
  /\ socket' = [socket EXCEPT ![w][s] = [state |-> "open", addr |-> Request(w).addr]]
  /\ receiver' = [receiver EXCEPT ![w][s] = "read"]
  /\ Answers(w, UdpMsg("UDP_CONNECTED", s, 0, 0))
  /\ UNCHANGED <<targetGot, targetSent>>

\* Either fails.
RefuseConnect(w) ==
  /\ Serves(w, "UDP_CONNECT")
  /\ Answers(w, UdpMsg("UDP_ERROR", Request(w).sess, 0, 0))
  /\ UNCHANGED udpServerVars

\* UDP_DATA of an association in udpConns: sent to its target
ServeData(w) ==
  LET s == Request(w).sess IN
  /\ Serves(w, "UDP_DATA")
  /\ s \in udpConns[w]
  /\ socket[w][s].state = "open"
  /\ targetGot' = [targetGot EXCEPT ![s] =
                     Append(@, [addr |-> socket[w][s].addr, unit |-> Request(w).unit])]
  /\ UNCHANGED <<toClient, udpConns, socket, receiver, targetSent>>

\* Or dropped: unknown here, lost by the network, or the write fails (logged)
DropData(w) ==
  /\ Serves(w, "UDP_DATA")
  /\ UNCHANGED <<toClient, udpServerVars>>

\* UDP_CLOSE
Release(w, s) ==
  /\ udpConns' = [udpConns EXCEPT ![w] = @ \ {s}]
  /\ socket' = IF s \in udpConns[w]
               THEN [socket EXCEPT ![w][s].state = "closed"] ELSE socket

ServeClose(w) ==
  /\ Serves(w, "UDP_CLOSE")
  /\ Release(w, Request(w).sess)
  /\ UNCHANGED <<toClient, receiver, targetGot, targetSent>>

\* The read error of a connection that broke: cancel, close every socket, forget
\* them all.
Cleanup(w) ==
  /\ link[w] = "broken"
  /\ toServer[w] = << >>
  /\ link' = [link EXCEPT ![w] = "gone"]
  /\ socket' = [socket EXCEPT ![w] = [s \in Sessions |->
                  IF s \in udpConns[w] THEN [@[s] EXCEPT !.state = "closed"] ELSE @[s]]]
  /\ udpConns' = [udpConns EXCEPT ![w] = {}]
  /\ UNCHANGED <<toServer, toClient, receiver, targetGot, targetSent>>

HandleWebSocket(w) ==
  \/ ServeConnect(w)
  \/ RefuseConnect(w)
  \/ ServeData(w)
  \/ DropData(w)
  \/ ServeClose(w)
  \/ Cleanup(w)

\* The receiver gets an answer of the target and passes it on.
Receive_Again(w, s) ==   \* mutant: a datagram is passed on twice
  /\ receiver[w][s] = "read"
  /\ socket[w][s].state = "open"
  /\ targetSent[s] < MaxDown
  /\ targetGot[s] # << >>
  /\ targetSent' = [targetSent EXCEPT ![s] = @ + 1]
  /\ LET m == UdpMsg("UDP_DATA", s, socket[w][s].addr, targetSent[s] + 1) IN
     toClient' = After(After(toClient, w, m, TRUE), w, m, TRUE)
  /\ UNCHANGED <<link, toServer, udpConns, socket, receiver, targetGot>>

Receive(w, s) ==
  /\ receiver[w][s] = "read"
  /\ socket[w][s].state = "open"
  /\ targetSent[s] < MaxDown
  /\ targetGot[s] # << >>
  /\ targetSent' = [targetSent EXCEPT ![s] = @ + 1]
  /\ Answers(w, UdpMsg("UDP_DATA", s, socket[w][s].addr, targetSent[s] + 1))
  /\ UNCHANGED <<link, toServer, udpConns, socket, receiver, targetGot>>

\* It ends when its context is cancelled or its socket closed; it then closes the
\* socket and deletes the entries of its connID.
EndReceiver(w, s) ==
  /\ receiver[w][s] = "read"
  /\ socket[w][s].state = "closed" \/ link[w] = "gone"
  /\ receiver' = [receiver EXCEPT ![w][s] = "ended"]
  /\ socket' = [socket EXCEPT ![w][s].state = "closed"]
  /\ udpConns' = [udpConns EXCEPT ![w] = @ \ {s}]
  /\ UNCHANGED <<wireVars, targetGot, targetSent>>
=============================================================================
