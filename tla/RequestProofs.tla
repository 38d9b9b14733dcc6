--------------------------- MODULE RequestProofs ----------------------------
(***************************************************************************)
(* The request to dial a session's target is in one place only, so no      *)
(* target is dialled twice, for any number of sessions, channels and       *)
(* connections.                                                            *)
(*                                                                         *)
(* OneRequest is inductive together with TypeInv.  Four steps move the     *)
(* request on (Register, WinClaim, WriteTCP, ServeTCP); each has a lemma   *)
(* that looks at its own session.  Every other step, and those four for    *)
(* the other sessions, at most loses it: that is "Fades".                  *)
(***************************************************************************)
EXTENDS TunnelProofs

Inv == TypeInv /\ OneRequest

\* The part of Fades about the streams: a TCP message of s that is in a stream
\* after the step was there before it, off[w] places further on.
Carried(s, off) ==
  \A w \in Sockets : \A i \in Positions(w)' :
    InFlight(s, w, i)' => i + off[w] \in Positions(w) /\ InFlight(s, w, i + off[w])

\* The part about the client, and the part about the server
ClientFades(s) ==
  /\ fwd[s].pc # "idle" => fwd'[s].pc # "idle"
  /\ Waiting(s)' => Waiting(s)
  /\ \A c \in Channels : Writing(s, c)' => Writing(s, c)
ServerFades(s) == \A w \in Sockets : Started(s, w)' => Started(s, w)

Offsets == [Sockets -> Nat]
Same == [w \in Sockets |-> 0]

\* A step that moves the request of s nowhere keeps it unique.
LEMMA Fades ==
  ASSUME NEW s \in Sessions, RequestOnce(s), NEW off \in Offsets,
         Carried(s, off), ClientFades(s), ServerFades(s)
  PROVE  RequestOnce(s)'
<1>1. fwd'[s].pc = "idle" => ~Waiting(s)'
  BY DEF RequestOnce, ClientFades
<1>2. ASSUME NEW c \in Channels, Writing(s, c)'
      PROVE  /\ fwd'[s].pc # "idle"
             /\ ~Waiting(s)'
             /\ \A d \in Channels : Writing(s, d)' => c = d
  BY <1>2 DEF RequestOnce, ClientFades
<1>3. ASSUME NEW w \in Sockets, NEW i \in Positions(w)', InFlight(s, w, i)'
      PROVE  /\ fwd'[s].pc # "idle"
             /\ ~Waiting(s)'
             /\ \A c \in Channels : ~Writing(s, c)'
             /\ \A v \in Sockets : \A j \in Positions(v)' :
                  InFlight(s, v, j)' => v = w /\ j = i
  <2>1. i + off[w] \in Positions(w) /\ InFlight(s, w, i + off[w])
    BY <1>3 DEF Carried
  <2>2. /\ fwd'[s].pc # "idle"
        /\ ~Waiting(s)'
        /\ \A c \in Channels : ~Writing(s, c)'
    BY <2>1 DEF RequestOnce, ClientFades
  <2>3. ASSUME NEW v \in Sockets, NEW j \in Positions(v)', InFlight(s, v, j)'
        PROVE  v = w /\ j = i
    <3>1. j + off[v] \in Positions(v) /\ InFlight(s, v, j + off[v])
      BY <2>3 DEF Carried
    <3>2. v = w /\ j + off[v] = i + off[w]
      BY <2>1, <3>1 DEF RequestOnce
    <3>3. i \in Int /\ j \in Int /\ off[w] \in Int
      BY DEF Positions, Offsets
    <3> QED BY <3>2, <3>3
  <2> QED BY <2>2, <2>3
<1>4. ASSUME NEW w \in Sockets, Started(s, w)'
      PROVE  /\ fwd'[s].pc # "idle"
             /\ ~Waiting(s)'
             /\ \A c \in Channels : ~Writing(s, c)'
             /\ \A v \in Sockets : /\ Started(s, v)' => v = w
                                   /\ \A j \in Positions(v)' : ~InFlight(s, v, j)'
  <2>1. Started(s, w)
    BY <1>4 DEF ServerFades
  <2>2. ASSUME NEW v \in Sockets, NEW j \in Positions(v)'
        PROVE  ~InFlight(s, v, j)'
    BY <2>1, <2>2 DEF RequestOnce, Carried
  <2> QED BY <2>1, <2>2 DEF RequestOnce, ClientFades, ServerFades
<1> QED BY <1>1, <1>2, <1>3, <1>4 DEF RequestOnce

-----------------------------------------------------------------------------
(* Streams *)

\* Moving nothing is a way of moving.
LEMMA SameType == Same \in Offsets
BY DEF Same, Offsets

\* A step that writes and reads nothing carries everything along.
LEMMA StreamsUnchanged ==
  ASSUME NEW s, TypeInv, UNCHANGED toServer
  PROVE  Carried(s, Same)
BY DEF Carried, Same, InFlight, Positions

\* Writing a message that is not the TCP message of s.
LEMMA OtherWritten ==
  ASSUME TypeInv, NEW s, NEW w, NEW m \in Messages, NEW ok, ClientWrite(w, m, ok),
         m.type # "TCP" \/ m.sess # s
  PROVE  Carried(s, Same)
<1>1. CASE toServer' = toServer
  BY <1>1, StreamsUnchanged
<1>2. CASE toServer' # toServer
  <2>1. toServer' = [toServer EXCEPT ![w] = Append(@, m)]
    BY <1>2 DEF ClientWrite, After
  <2>2. SUFFICES ASSUME NEW v \in Sockets, NEW i \in Positions(v)', InFlight(s, v, i)'
                 PROVE  i \in Positions(v) /\ InFlight(s, v, i)
    BY DEF Carried, Same, Positions
  <2>3. toServer[v] \in Seq(Messages)
    BY DEF TypeInv, TypeOK, WireTypeOK
  <2>4. CASE v # w
    BY <2>1, <2>2, <2>4 DEF TypeInv, TypeOK, WireTypeOK, InFlight, Positions
  <2>5. CASE v = w
    <3>1. toServer'[v] = Append(toServer[v], m)
      BY <2>1, <2>5 DEF TypeInv, TypeOK, WireTypeOK
    <3>2. /\ Len(toServer'[v]) = Len(toServer[v]) + 1
          /\ \A j \in 1 .. Len(toServer[v]) : toServer'[v][j] = toServer[v][j]
          /\ toServer'[v][Len(toServer[v]) + 1] = m
      BY <2>3, <3>1, AppendProperties
    <3>3. i # Len(toServer[v]) + 1
      BY <2>2, <3>2 DEF InFlight
    <3>4. i \in Positions(v)
      BY <2>3, <3>2, <3>3, LenProperties DEF Positions
    <3> QED BY <2>2, <3>2, <3>4 DEF InFlight, Positions
  <2> QED BY <2>4, <2>5
<1> QED BY <1>1, <1>2

\* The server reads the first message of a stream.
FirstOf(w) == [v \in Sockets |-> IF v = w THEN 1 ELSE 0]

\* The rest of the stream moves one place forward.
LEMMA RequestRead ==
  ASSUME TypeInv, NEW s, NEW w \in Sockets, toServer[w] # << >>,
         toServer' = [toServer EXCEPT ![w] = Tail(@)]
  PROVE  FirstOf(w) \in Offsets /\ Carried(s, FirstOf(w))
<1>1. FirstOf(w) \in Offsets
  BY DEF FirstOf, Offsets
<1>2. SUFFICES ASSUME NEW v \in Sockets, NEW i \in Positions(v)', InFlight(s, v, i)'
               PROVE  /\ i + FirstOf(w)[v] \in Positions(v)
                      /\ InFlight(s, v, i + FirstOf(w)[v])
  BY <1>1 DEF Carried
<1>3. toServer[v] \in Seq(Messages)
  BY DEF TypeInv, TypeOK, WireTypeOK
<1>4. CASE v # w
  <2>1. toServer'[v] = toServer[v]
    BY <1>4 DEF TypeInv, TypeOK, WireTypeOK
  <2>2. i + FirstOf(w)[v] = i
    BY <1>4 DEF FirstOf, Positions
  <2> QED BY <1>2, <2>1, <2>2 DEF InFlight, Positions
<1>5. CASE v = w
  <2>1. toServer'[v] = Tail(toServer[v])
    BY <1>5 DEF TypeInv, TypeOK, WireTypeOK
  <2>2. /\ Len(Tail(toServer[v])) = Len(toServer[v]) - 1
        /\ \A j \in 1 .. Len(toServer[v]) - 1 : Tail(toServer[v])[j] = toServer[v][j + 1]
    BY <1>3, <1>5, HeadTailProperties
  <2>3. i \in 1 .. Len(toServer[v]) - 1
    BY <2>1, <2>2 DEF Positions
  <2>4. FirstOf(w)[v] = 1
    BY <1>5 DEF FirstOf
  <2>5. i + 1 \in Positions(v)
    BY <1>3, <2>3, LenProperties DEF Positions
  <2> QED BY <1>2, <2>1, <2>2, <2>3, <2>4, <2>5 DEF InFlight
<1> QED BY <1>4, <1>5

\* A connection breaks: a stream keeps a prefix.
LEMMA StreamBroken ==
  ASSUME TypeInv, NEW s, NEW w \in Sockets, Break(w)
  PROVE  Carried(s, Same)
<1>1. PICK n \in 0 .. Len(toServer[w]) :
        toServer' = [toServer EXCEPT ![w] = SubSeq(@, 1, n)]
  BY DEF Break
<1>2. SUFFICES ASSUME NEW v \in Sockets, NEW i \in Positions(v)', InFlight(s, v, i)'
               PROVE  i \in Positions(v) /\ InFlight(s, v, i)
  BY DEF Carried, Same, Positions
<1>3. toServer[v] \in Seq(Messages)
  BY DEF TypeInv, TypeOK, WireTypeOK
<1>4. CASE v # w
  BY <1>1, <1>2, <1>4 DEF TypeInv, TypeOK, WireTypeOK, InFlight, Positions
<1>5. CASE v = w
  <2>1. toServer'[v] = SubSeq(toServer[v], 1, n)
    BY <1>1, <1>5 DEF TypeInv, TypeOK, WireTypeOK
  <2>2. /\ Len(toServer'[v]) = n
        /\ \A j \in 1 .. n : toServer'[v][j] = toServer[v][j]
    BY <1>3, <1>5, <2>1, SubSeqProperties
  <2>3. i \in 1 .. n
    BY <2>2 DEF Positions
  <2>4. i \in Positions(v)
    BY <1>3, <1>5, <2>3, LenProperties DEF Positions
  <2> QED BY <1>2, <2>2, <2>3, <2>4 DEF InFlight
<1> QED BY <1>4, <1>5

-----------------------------------------------------------------------------
(* The pool *)

\* A step outside the server starts nothing there.
LEMMA ServerUnchanged ==
  ASSUME NEW s, UNCHANGED task
  PROVE  ServerFades(s)
BY DEF ServerFades, Started

\* The goroutine of a channel goes back to reading, or to dialling.
LEMMA ClientIdles ==
  ASSUME TypeInv, NEW s \in Sessions, UNCHANGED fwd, Waiting(s)' => Waiting(s),
         \/ UNCHANGED handler
         \/ \E c \in Channels, pc \in {"read", "dial", "abort"} :
              \/ handler' = [handler EXCEPT ![c] = Idle(pc)]
              \/ handler' = [handler EXCEPT ![c] = [@ EXCEPT !.pc = pc]]
  PROVE  ClientFades(s)
<1>1. SUFFICES ASSUME NEW d \in Channels, Writing(s, d)' PROVE Writing(s, d)
  BY DEF ClientFades
<1>2. CASE UNCHANGED handler
  BY <1>1, <1>2 DEF Writing
<1>3. ASSUME NEW c \in Channels, NEW pc \in {"read", "dial", "abort"},
             \/ handler' = [handler EXCEPT ![c] = Idle(pc)]
             \/ handler' = [handler EXCEPT ![c] = [@ EXCEPT !.pc = pc]]
      PROVE  Writing(s, d)
  <2>1. CASE d = c
    <3>1. handler'[c].pc = pc
      BY <1>3 DEF Idle, TypeInv, TypeOK, PoolTypeOK
    <3> QED BY <1>1, <2>1, <3>1 DEF Writing
  <2>2. CASE d # c
    <3>1. handler'[d] = handler[d]
      BY <1>3, <2>2 DEF TypeInv, TypeOK, PoolTypeOK
    <3> QED BY <1>1, <3>1 DEF Writing
  <2> QED BY <2>1, <2>2
<1> QED BY <1>2, <1>3

\* The steps of a channel that leave the streams to the server alone and write
\* no request.
LEMMA QuietChannel ==
  ASSUME Inv, NEW c \in Channels, NEW s \in Sessions, OfPool,
         Dial(c) \/ (HandleChannel(c) /\ ~WinClaim(c) /\ ~WriteTCP(c))
  PROVE  RequestOnce(s)'
<1>1. RequestOnce(s) /\ TypeInv
  BY DEF Inv, OneRequest
<1>2. UNCHANGED <<fwd, task>>
  BY DEF OfPool, forwarderVars, serverVars
<1>3. UNCHANGED toServer
  BY DEF Dial, HandleChannel, ReadError, IgnoreClaim, AbortTCP, ReadConnected, ReadData,
     ReadDataFails, RejectData, ReadClose, Consume, wireVars
<1>4. Waiting(s)' => Waiting(s)
  BY <1>1 DEF Dial, HandleChannel, ReadError, IgnoreClaim, AbortTCP, ReadConnected, ReadData,
     ReadDataFails, RejectData, ReadClose, Forget, Waiting, TypeInv, TypeOK, PoolTypeOK, poolVars
<1>5. ClientFades(s)
  <2>1. \/ UNCHANGED handler
        \/ handler' = [handler EXCEPT ![c] = Idle("read")]
        \/ handler' = [handler EXCEPT ![c] = Idle("dial")]
    BY DEF Dial, HandleChannel, ReadError, IgnoreClaim, AbortTCP, ReadConnected, ReadData,
       ReadDataFails, RejectData, ReadClose, poolVars
  <2> QED BY <1>1, <1>2, <1>4, <2>1, ClientIdles
<1> QED
  BY <1>1, <1>2, <1>3, <1>5, Fades, SameType, StreamsUnchanged, ServerUnchanged

\* A channel wins the race for a session: the request goes from connInfo to
\* the winner.
LEMMA RequestWon ==
  ASSUME Inv, NEW c \in Channels, NEW s \in Sessions, OfPool, WinClaim(c)
  PROVE  RequestOnce(s)'
<1> DEFINE t == Incoming(c).sess
<1>1. RequestOnce(s) /\ TypeInv /\ t \in Sessions
  BY Reading DEF Inv, OneRequest, WinClaim
<1>2. UNCHANGED <<fwd, task, toServer>>
  BY DEF OfPool, forwarderVars, serverVars, WinClaim, Consume
<1>3. /\ connInfo' = [connInfo EXCEPT ![t] = NoInfo]
      /\ connInfo[t] # NoInfo
      /\ handler' = [handler EXCEPT ![c] = [pc |-> "write", sess |-> t, first |-> connInfo[t]]]
  BY DEF WinClaim, Bind, MayWin
<1>4. \A d \in Channels : Writing(s, d)' => IF d = c THEN s = t ELSE Writing(s, d)
  BY <1>1, <1>3 DEF Writing, TypeInv, TypeOK, PoolTypeOK
<1>5. CASE s # t
  <2>1. ClientFades(s)
    BY <1>1, <1>2, <1>3, <1>4, <1>5 DEF ClientFades, Waiting, TypeInv, TypeOK, PoolTypeOK
  <2> QED BY <1>1, <1>2, <2>1, Fades, SameType, StreamsUnchanged, ServerUnchanged
<1>6. CASE s = t
  <2>1. Waiting(s) /\ ~Waiting(s)'
    BY <1>1, <1>3, <1>6 DEF Waiting, TypeInv, TypeOK, PoolTypeOK
  <2>2. /\ fwd[s].pc # "idle"
        /\ \A d \in Channels : ~Writing(s, d)
        /\ \A w \in Sockets : ~Started(s, w) /\ \A i \in Positions(w) : ~InFlight(s, w, i)
    BY <1>1, <2>1 DEF RequestOnce
  <2>3. /\ fwd'[s].pc # "idle"
        /\ \A w \in Sockets : ~Started(s, w)' /\ \A i \in Positions(w)' : ~InFlight(s, w, i)'
    BY <1>2, <2>2 DEF Started, Positions, InFlight
  <2>4. \A d \in Channels : Writing(s, d)' => d = c
    BY <1>4, <2>2
  <2> QED BY <2>1, <2>3, <2>4 DEF RequestOnce
<1> QED BY <1>5, <1>6

\* The winner writes the request: it goes into the stream, or is lost.
LEMMA RequestWritten ==
  ASSUME Inv, NEW c \in Channels, NEW s \in Sessions, OfPool, WriteTCP(c)
  PROVE  RequestOnce(s)'
<1> DEFINE t == handler[c].sess
           w0 == Current(c)
           m == Msg("TCP", t, handler[c].first)
<1>1. RequestOnce(s) /\ TypeInv
  BY DEF Inv, OneRequest
<1>2. t \in Sessions /\ handler[c].first \in Nat /\ w0 \in Sockets
  BY <1>1, SocketType DEF WriteTCP, TypeInv, TypeOK, Pointers, PoolTypeOK
<1>3. m \in Messages /\ m.type = "TCP" /\ m.sess = t
  BY <1>2, MsgType DEF Types
<1>4. UNCHANGED <<fwd, task, connInfo>>
  BY DEF OfPool, forwarderVars, serverVars, WriteTCP
<1>5. PICK ok \in BOOLEAN :
        /\ ClientWrite(w0, m, ok)
        /\ handler' = [handler EXCEPT ![c] = IF ok THEN Idle("read") ELSE [@ EXCEPT !.pc = "abort"]]
  BY DEF WriteTCP
<1>6. \/ handler' = [handler EXCEPT ![c] = Idle("read")]
      \/ handler' = [handler EXCEPT ![c] = [@ EXCEPT !.pc = "abort"]]
  BY <1>5
<1>7. ClientFades(s)
  <2>1. Waiting(s)' => Waiting(s) BY <1>4 DEF Waiting
  <2> QED BY <1>1, <1>4, <1>6, <2>1, ClientIdles
<1>8. CASE s # t
  <2>1. Carried(s, Same)
    BY <1>1, <1>3, <1>5, <1>8, OtherWritten
  <2> QED BY <1>1, <1>4, <1>7, <2>1, Fades, SameType, ServerUnchanged
<1>9. CASE s = t
  <2>1. Writing(s, c)
    BY <1>9 DEF Writing, WriteTCP
  <2>2. /\ fwd[s].pc # "idle"
        /\ ~Waiting(s)
        /\ \A d \in Channels : Writing(s, d) => d = c
        /\ \A w \in Sockets : ~Started(s, w) /\ \A i \in Positions(w) : ~InFlight(s, w, i)
    BY <1>1, <2>1 DEF RequestOnce
  <2>3. /\ fwd'[s].pc # "idle"
        /\ ~Waiting(s)'
        /\ \A w \in Sockets : ~Started(s, w)'
    BY <1>4, <2>2 DEF Started, Waiting
  <2>4. \A d \in Channels : ~Writing(s, d)'
    <3>1. handler'[c].pc # "write"
      BY <1>1, <1>6 DEF Idle, TypeInv, TypeOK, PoolTypeOK
    <3> QED BY <1>7, <2>2, <3>1 DEF ClientFades, Writing
  <2>5. ASSUME NEW w \in Sockets, NEW i \in Positions(w)', InFlight(s, w, i)'
        PROVE  w = w0 /\ i = Len(toServer[w0]) + 1
    <3>1. CASE toServer' = toServer
      BY <2>2, <2>5, <3>1 DEF InFlight, Positions
    <3>2. CASE toServer' # toServer
      <4>1. toServer' = [toServer EXCEPT ![w0] = Append(@, m)]
        BY <1>5, <3>2 DEF ClientWrite, After
      <4>2. toServer[w] \in Seq(Messages)
        BY <1>1 DEF TypeInv, TypeOK, WireTypeOK
      <4>3. w = w0
        BY <1>1, <2>2, <2>5, <4>1 DEF InFlight, Positions, TypeInv, TypeOK, WireTypeOK
      <4>4. toServer'[w] = Append(toServer[w], m)
        BY <1>1, <4>1, <4>3 DEF TypeInv, TypeOK, WireTypeOK
      <4>5. /\ Len(toServer'[w]) = Len(toServer[w]) + 1
            /\ \A j \in 1 .. Len(toServer[w]) : toServer'[w][j] = toServer[w][j]
        BY <1>3, <4>2, <4>4, AppendProperties
      <4>6. i \notin 1 .. Len(toServer[w])
        BY <2>2, <2>5, <4>5 DEF InFlight, Positions
      <4> QED BY <4>2, <4>3, <4>5, <4>6, LenProperties DEF Positions
    <3> QED BY <3>1, <3>2
  <2> QED BY <2>3, <2>4, <2>5 DEF RequestOnce
<1> QED BY <1>8, <1>9

\* The three ways of the pool together, and its "go p.SendClose(id)".
LEMMA PoolKeepsRequest ==
  ASSUME Inv, PoolStep, OfPool
  PROVE  OneRequest'
<1> SUFFICES ASSUME NEW s \in Sessions PROVE RequestOnce(s)'
  BY DEF OneRequest
<1>1. CASE \E c \in Channels : Dial(c) \/ HandleChannel(c)
  BY <1>1, QuietChannel, RequestWon, RequestWritten
<1>2. CASE \E t \in Sessions : RunCloser(t)
  <2>1. PICK t \in Sessions : RunCloser(t)
    BY <1>2
  <2>2. RequestOnce(s) /\ TypeInv /\ UNCHANGED <<fwd, task, handler, connInfo>>
    BY <2>1 DEF Inv, OneRequest, OfPool, forwarderVars, serverVars, RunCloser
  <2>3. Carried(s, Same)
    <3>1. Msg("CLOSE", t, 0) \in Messages /\ Msg("CLOSE", t, 0).type # "TCP"
      BY MsgType DEF Types
    <3> QED BY <2>1, <2>2, <3>1, OtherWritten, StreamsUnchanged DEF RunCloser, SendClose, wireVars
  <2>4. ClientFades(s)
    BY <2>2, ClientIdles DEF Waiting
  <2> QED BY <2>2, <2>3, <2>4, Fades, SameType, ServerUnchanged
<1> QED BY <1>1, <1>2 DEF PoolStep

-----------------------------------------------------------------------------
(* The forwarders *)

\* A goroutine of a session never goes back to "idle" and never touches
\* connInfo, but to register.
LEMMA ForwarderFades ==
  ASSUME TypeInv, NEW t \in Sessions, NEW s \in Sessions,
         Forward(t) \/ ReadLocal(t) \/ AppHangup(t)
  PROVE  ClientFades(s)
<1>1. UNCHANGED <<handler, connInfo>>
  BY DEF Forward, SkipNil, MarkClaim, MarkNil, WriteClaim, ClaimsDone, Established, Timeout,
     Refuse, Drop, Reply, SendLocal, ReadLocalError, DeferredSendClose, DeferredShut, ReadLocal,
     AppHangup, poolVars
<1>2. fwd[s].pc # "idle" => fwd'[s].pc # "idle"
  <2>1. CASE Forward(t)
    <3>1. CASE SkipNil(t) \/ MarkClaim(t) \/ MarkNil(t) \/ WriteClaim(t)
      BY <3>1 DEF SkipNil, MarkClaim, MarkNil, WriteClaim, forwarderVars, TypeInv, TypeOK, ForwarderTypeOK
    <3>2. CASE ~(SkipNil(t) \/ MarkClaim(t) \/ MarkNil(t) \/ WriteClaim(t))
      <4>1. \E pc \in ForwarderStates \ {"idle"} : Goto(t, pc)
        BY <2>1, <3>2 DEF Forward, ClaimsDone, Established, Timeout, Refuse, Drop, Reply,
           SendLocal, AfterSend, ReadLocalError, DeferredSendClose, DeferredShut, ForwarderStates
      <4> QED BY <4>1 DEF Goto, TypeInv, TypeOK, ForwarderTypeOK
    <3> QED BY <3>1, <3>2
  <2>2. CASE ReadLocal(t) \/ AppHangup(t)
    BY <2>2 DEF ReadLocal, AppHangup, Goto, forwarderVars, TypeInv, TypeOK, ForwarderTypeOK
  <2> QED BY <2>1, <2>2
<1> QED BY <1>1, <1>2 DEF ClientFades, Waiting, Writing

\* What they write are CLAIM, DATA and CLOSE.
LEMMA ForwarderCarries ==
  ASSUME TypeInv, NEW t \in Sessions, NEW s \in Sessions,
         Forward(t) \/ ReadLocal(t) \/ AppHangup(t)
  PROVE  Carried(s, Same)
<1>1. CASE WriteClaim(t)
  <2>1. Msg("CLAIM", t, 0) \in Messages /\ Msg("CLAIM", t, 0).type # "TCP"
    BY MsgType DEF Types
  <2> QED BY <1>1, <2>1, OtherWritten DEF WriteClaim
<1>2. CASE SendLocal(t)
  <2>1. appSent[t] \in Nat
    BY MaxUpAssumption DEF TypeInv, TypeOK, ForwarderTypeOK
  <2>2. Msg("DATA", t, appSent[t]) \in Messages /\ Msg("DATA", t, appSent[t]).type # "TCP"
    BY <2>1, MsgType DEF Types
  <2> QED BY <1>2, <2>2, OtherWritten, StreamsUnchanged DEF SendLocal, SendData, wireVars
<1>3. CASE DeferredSendClose(t)
  <2>1. Msg("CLOSE", t, 0) \in Messages /\ Msg("CLOSE", t, 0).type # "TCP"
    BY MsgType DEF Types
  <2> QED BY <1>3, <2>1, OtherWritten, StreamsUnchanged DEF DeferredSendClose, SendClose, wireVars
<1>4. CASE ~(WriteClaim(t) \/ SendLocal(t) \/ DeferredSendClose(t))
  <2>1. UNCHANGED toServer
    BY <1>4 DEF Forward, SkipNil, MarkClaim, MarkNil, ClaimsDone, Established, Timeout, Refuse,
       Drop, Reply, ReadLocalError, DeferredShut, ReadLocal, AppHangup, wireVars
  <2> QED BY <2>1, StreamsUnchanged
<1> QED BY <1>1, <1>2, <1>3, <1>4

\* A session registers when there is no trace of it yet; nothing else matters.
LEMMA ForwarderKeepsRequest ==
  ASSUME Inv, ForwarderStep, OfForwarder
  PROVE  OneRequest'
<1> SUFFICES ASSUME NEW s \in Sessions PROVE RequestOnce(s)'
  BY DEF OneRequest
<1>1. RequestOnce(s) /\ TypeInv /\ UNCHANGED task
  BY DEF Inv, OneRequest, OfForwarder, serverVars
<1>2. CASE \E t \in Sessions, kind \in Kinds, first \in {0, 1} : Register(t, kind, first)
  <2>1. PICK t \in Sessions, kind \in Kinds, first \in {0, 1} : Register(t, kind, first)
    BY <1>2
  <2>2. UNCHANGED <<toServer, handler>>
    BY <2>1 DEF Register, wireVars
  <2>3. CASE s # t
    <3>1. ClientFades(s)
      BY <1>1, <2>1, <2>2, <2>3 DEF Register, RegisterSession, ClientFades, Waiting, Writing,
         TypeInv, TypeOK, PoolTypeOK, ForwarderTypeOK
    <3> QED BY <1>1, <2>2, <3>1, Fades, SameType, StreamsUnchanged, ServerUnchanged
  <2>4. CASE s = t
    <3>1. /\ \A c \in Channels : ~Writing(s, c)
          /\ \A w \in Sockets : ~Started(s, w) /\ \A i \in Positions(w) : ~InFlight(s, w, i)
      BY <1>1, <2>1, <2>4 DEF Register, At, RequestOnce
    <3>2. /\ \A c \in Channels : ~Writing(s, c)'
          /\ \A w \in Sockets : ~Started(s, w)' /\ \A i \in Positions(w)' : ~InFlight(s, w, i)'
      BY <1>1, <2>2, <3>1 DEF Writing, Started, Positions, InFlight
    <3>3. fwd'[s].pc # "idle"
      BY <1>1, <2>1, <2>4 DEF Register, TypeInv, TypeOK, ForwarderTypeOK
    <3> QED BY <3>2, <3>3 DEF RequestOnce
  <2> QED BY <2>3, <2>4
<1>3. CASE \E t \in Sessions : Forward(t) \/ ReadLocal(t) \/ AppHangup(t)
  BY <1>1, <1>3, ForwarderFades, ForwarderCarries, Fades, SameType, ServerUnchanged
<1> QED BY <1>2, <1>3 DEF ForwarderStep

-----------------------------------------------------------------------------
(* The server *)

\* The TCP message being served is the first of its stream.
LEMMA RequestFirst ==
  ASSUME TypeInv, NEW w \in Sockets, Serves(w, "TCP")
  PROVE  1 \in Positions(w) /\ InFlight(Request(w).sess, w, 1)
<1>1. toServer[w] \in Seq(Messages)
  BY DEF TypeInv, TypeOK, WireTypeOK
<1>2. Head(toServer[w]) = toServer[w][1] /\ Len(toServer[w]) >= 1
  BY <1>1, EmptySeq, LenProperties DEF Serves
<1> QED BY <1>1, <1>2, LenProperties DEF Serves, Request, InFlight, Positions

\* The server starts to dial for a session: its request was in the stream.
LEMMA RequestServed ==
  ASSUME Inv, NEW w \in Sockets, NEW s \in Sessions, OfServer, ServeTCP(w)
  PROVE  RequestOnce(s)'
<1> DEFINE t == Request(w).sess
<1>1. RequestOnce(s) /\ TypeInv /\ UNCHANGED <<fwd, handler, connInfo>>
  BY DEF Inv, OneRequest, OfServer, poolVars, forwarderVars
<1>2. t \in Sessions /\ toServer[w] # << >> /\ toServer' = [toServer EXCEPT ![w] = Tail(@)]
  BY <1>1, Serving DEF ServeTCP, Serves, ConsumeRequest
<1>3. FirstOf(w) \in Offsets /\ Carried(s, FirstOf(w))
  BY <1>1, <1>2, RequestRead
<1>4. ClientFades(s)
  BY <1>1 DEF ClientFades, Waiting, Writing
<1>5. \A v \in Sockets : Started(s, v)' => Started(s, v) \/ (s = t /\ v = w)
  BY <1>1, <1>2 DEF ServeTCP, Started, TypeInv, TypeOK, ServerTypeOK
<1>6. CASE s # t
  <2>1. ServerFades(s)
    BY <1>5, <1>6 DEF ServerFades
  <2> QED BY <1>1, <1>3, <1>4, <2>1, Fades
<1>7. CASE s = t
  <2>1. 1 \in Positions(w) /\ InFlight(s, w, 1)
    BY <1>1, <1>7, RequestFirst DEF ServeTCP
  <2>2. /\ fwd[s].pc # "idle"
        /\ ~Waiting(s)
        /\ \A c \in Channels : ~Writing(s, c)
        /\ \A v \in Sockets : ~Started(s, v)
        /\ \A v \in Sockets : \A j \in Positions(v) : InFlight(s, v, j) => v = w /\ j = 1
    BY <1>1, <2>1 DEF RequestOnce
  <2>3. \A v \in Sockets : \A j \in Positions(v)' : ~InFlight(s, v, j)'
    <3>1. SUFFICES ASSUME NEW v \in Sockets, NEW j \in Positions(v)', InFlight(s, v, j)'
                   PROVE  FALSE
      OBVIOUS
    <3>2. v = w /\ j + FirstOf(w)[v] = 1
      BY <1>3, <2>2, <3>1 DEF Carried
    <3>3. j + 1 = 1
      BY <3>2 DEF FirstOf
    <3> QED BY <3>3 DEF Positions
  <2>4. /\ fwd'[s].pc # "idle"
        /\ ~Waiting(s)'
        /\ \A c \in Channels : ~Writing(s, c)'
    BY <1>1, <2>2 DEF Waiting, Writing
  <2>5. \A v \in Sockets : Started(s, v)' => v = w
    BY <1>5, <2>2
  <2> QED BY <2>3, <2>4, <2>5 DEF RequestOnce
<1> QED BY <1>6, <1>7

\* The other messages the read loop serves, and its cleanup
LEMMA LoopCarries ==
  ASSUME TypeInv, NEW w \in Sockets, NEW s \in Sessions, HandleWebSocket(w)
  PROVE  \E off \in Offsets : Carried(s, off)
<1>1. CASE toServer[w] # << >> /\ toServer' = [toServer EXCEPT ![w] = Tail(@)]
  BY <1>1, RequestRead
<1>2. CASE UNCHANGED toServer
  BY <1>2, StreamsUnchanged, SameType
<1> QED
  BY <1>1, <1>2 DEF HandleWebSocket, ServeClaim, ServeTCP, ServeData, ServeDataFails, DropData,
     ServeClose, Cleanup, ConsumeRequest, Serves

\* A goroutine that handles a session is started by a TCP message only.
LEMMA TaskFades ==
  ASSUME TypeInv, NEW w \in Sockets, NEW t \in Sessions, NEW s \in Sessions,
         HandleTCPConnection(w, t) \/ PumpData(w, t) \/ TargetHangup(w, t)
  PROVE  /\ ServerFades(s)
         /\ \A v \in Sockets : task'[v][s] # task[v][s] => task'[v][s].pc # "dial"
<1>1. CASE UNCHANGED task
  BY <1>1, ServerUnchanged
<1>2. CASE ~UNCHANGED task
  <2>1. /\ task[w][t].pc # "none"
        /\ \E pc \in TaskStates \ {"none", "dial"} : SetTask(w, t, pc)
    BY <1>2 DEF HandleTCPConnection, DialTarget, DialTargetFails, AfterDial, WriteFirstFrame,
       WriteFirstFrameFails, Notify, PumpReadError, PumpCancelled, End, TaskStates, PumpData, TargetHangup
  <2>2. PICK pc \in TaskStates \ {"none", "dial"} : SetTask(w, t, pc)
    BY <2>1
  <2>3. \A v \in Sockets : IF v = w /\ s = t THEN task'[v][s] = [task[v][s] EXCEPT !.pc = pc]
                                           ELSE task'[v][s] = task[v][s]
    BY <2>2 DEF SetTask, TypeInv, TypeOK, ServerTypeOK
  <2>4. task[w][t] \in Task
    BY DEF TypeInv, TypeOK, ServerTypeOK, Task
  <2> QED BY <2>1, <2>2, <2>3, <2>4 DEF ServerFades, Started, Task
<1> QED BY <1>1, <1>2

\* The server, by what it does to the table of goroutines.
LEMMA ServerKeepsRequest ==
  ASSUME Inv, ServerStep, OfServer
  PROVE  OneRequest'
<1> SUFFICES ASSUME NEW s \in Sessions PROVE RequestOnce(s)'
  BY DEF OneRequest
<1>1. RequestOnce(s) /\ TypeInv /\ UNCHANGED <<fwd, handler, connInfo>>
  BY DEF Inv, OneRequest, OfServer, poolVars, forwarderVars
<1>2. ClientFades(s)
  BY <1>1 DEF ClientFades, Waiting, Writing
<1>3. PICK w \in Sockets :
        \/ HandleWebSocket(w)
        \/ \E t \in Sessions : HandleTCPConnection(w, t) \/ PumpData(w, t) \/ TargetHangup(w, t)
  BY DEF ServerStep
<1>4. CASE ServeTCP(w)
  BY <1>4, RequestServed
<1>5. CASE HandleWebSocket(w) /\ ~ServeTCP(w)
  <2>1. UNCHANGED task
    BY <1>5 DEF HandleWebSocket, ServeClaim, ServeData, ServeDataFails, DropData, ServeClose,
       Cleanup, serverVars
  <2> QED BY <1>1, <1>2, <1>5, <2>1, LoopCarries, Fades, ServerUnchanged
<1>6. CASE \E t \in Sessions : HandleTCPConnection(w, t) \/ PumpData(w, t) \/ TargetHangup(w, t)
  <2>1. UNCHANGED toServer
    BY <1>6 DEF HandleTCPConnection, DialTarget, DialTargetFails, WriteFirstFrame,
       WriteFirstFrameFails, Notify, PumpReadError, PumpCancelled, PumpData, TargetHangup,
       TellClient, ServerWrite, wireVars
  <2> QED BY <1>1, <1>2, <1>6, <2>1, TaskFades, Fades, SameType, StreamsUnchanged
<1> QED BY <1>3, <1>4, <1>5, <1>6

-----------------------------------------------------------------------------

\* Nobody has asked for anything when the two programs start.
LEMMA InitRequest == Init => OneRequest
<1> SUFFICES ASSUME Init, NEW s \in Sessions PROVE RequestOnce(s)
  BY DEF OneRequest
<1>1. ~Waiting(s) /\ \A c \in Channels : ~Writing(s, c)
  BY DEF Init, PoolInit, Waiting, Writing, Idle
<1>2. \A w \in Sockets : ~Started(s, w)
  BY DEF Init, ServerInit, Started
<1>3. \A w \in Sockets : \A i \in Positions(w) : FALSE
  BY DEF Init, WireInit, Positions
<1> QED BY <1>1, <1>2, <1>3 DEF RequestOnce

\* Every step keeps requests unique: one lemma per part of the system.
LEMMA StepRequest == Inv /\ [Next]_vars => OneRequest'
<1> SUFFICES ASSUME Inv, [Next]_vars PROVE OneRequest'
  OBVIOUS
<1>1. CASE PoolStep /\ OfPool
  BY <1>1, PoolKeepsRequest
<1>2. CASE ForwarderStep /\ OfForwarder
  BY <1>2, ForwarderKeepsRequest
<1>3. CASE ServerStep /\ OfServer
  BY <1>3, ServerKeepsRequest
<1>4. CASE (\E w \in Sockets : Break(w)) /\ OfNetwork
  <2> SUFFICES ASSUME NEW s \in Sessions PROVE RequestOnce(s)'
    BY DEF OneRequest
  <2>1. RequestOnce(s) /\ TypeInv /\ UNCHANGED <<fwd, handler, connInfo, task>>
    BY <1>4 DEF Inv, OneRequest, OfNetwork, poolVars, forwarderVars, serverVars
  <2>2. ClientFades(s)
    BY <2>1 DEF ClientFades, Waiting, Writing
  <2> QED BY <1>4, <2>1, <2>2, StreamBroken, Fades, SameType, ServerUnchanged
<1>5. CASE UNCHANGED vars
  BY <1>5 DEF vars, wireVars, poolVars, forwarderVars, serverVars, Inv, OneRequest, RequestOnce,
     Waiting, Writing, InFlight, Started, Positions
<1> QED BY <1>1, <1>2, <1>3, <1>4, <1>5 DEF Next

\* The request of a session is in one place only: however late, repeated or
\* misplaced the CLAIM_ACKs, CLOSEs and failed writes that race for it are.
THEOREM RequestIsUnique == Spec => []OneRequest
<1>1. Init => Inv
  BY InitType, InitRequest DEF Inv
<1>2. Inv /\ [Next]_vars => Inv'
  BY StepType, StepRequest DEF Inv
<1>3. Inv => OneRequest
  BY DEF Inv
<1> QED BY <1>1, <1>2, <1>3, PTL DEF Spec

\* A target is dialled for a session no connection of the server ever served.
LEMMA StepDials ==
  ASSUME Inv, [Next]_vars, NEW s \in Sessions, NEW w \in Sockets,
         task'[w][s] # task[w][s], task'[w][s].pc = "dial"
  PROVE  \A v \in Sockets : ~Started(s, v)
<1>1. TypeInv /\ RequestOnce(s)
  BY DEF Inv, OneRequest
<1>2. ServerStep /\ OfServer
  BY DEF Next, OfPool, OfForwarder, OfNetwork, vars, serverVars
<1>3. PICK v \in Sockets :
        \/ HandleWebSocket(v)
        \/ \E t \in Sessions : HandleTCPConnection(v, t) \/ PumpData(v, t) \/ TargetHangup(v, t)
  BY <1>2 DEF ServerStep
<1>4. HandleWebSocket(v)
  BY <1>1, <1>3, TaskFades
<1>5. ServeTCP(v)
  BY <1>4 DEF HandleWebSocket, ServeClaim, ServeData, ServeDataFails, DropData, ServeClose,
     Cleanup, serverVars
<1>6. s = Request(v).sess
  BY <1>1, <1>5, Serving DEF ServeTCP, TypeInv, TypeOK, ServerTypeOK
<1>7. 1 \in Positions(v) /\ InFlight(s, v, 1)
  BY <1>1, <1>5, <1>6, RequestFirst DEF ServeTCP
<1> QED BY <1>1, <1>7 DEF RequestOnce

\* No target is dialled twice.
THEOREM NeverDialledTwice == Spec => DialledOnce
<1>1. Init => Inv
  BY InitType, InitRequest DEF Inv
<1>2. Inv /\ [Next]_vars => Inv'
  BY StepType, StepRequest DEF Inv
<1>3. Inv /\ [Next]_vars =>
        [\A s \in Sessions, w \in Sockets :
           (task'[w][s] # task[w][s] /\ task'[w][s].pc = "dial")
             => \A v \in Sockets : ~Started(s, v)]_vars
  BY StepDials
<1> QED BY <1>1, <1>2, <1>3, PTL DEF Spec, DialledOnce
=============================================================================
