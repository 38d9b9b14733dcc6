------------------------- MODULE BackPressureProofs -------------------------
(***************************************************************************)
(* Theorems about BackPressure: a connection comes to a stop for one of    *)
(* four reasons only, and the crossed wait never ends, for any number of   *)
(* sessions and associations and any capacity of the streams.              *)
(***************************************************************************)
EXTENDS BackPressure, TLAPS

Actors == ClientActors \cup ServerActors

\* The goroutines are different ones, and none of them is Nobody.
LEMMA ActorsDiffer ==
  /\ Reader \in ClientActors /\ Pinger \in ClientActors /\ Loop \in ServerActors
  /\ \A s \in Sessions : /\ Sender(s) \in ClientActors \ {Reader}
                         /\ Closer(s) \in ClientActors \ {Reader}
                         /\ Task(s) \in ServerActors \ {Loop}
  /\ \A u \in Assocs : /\ Holder(u) \in ClientActors \ {Reader}
                       /\ Receiver(u) \in ServerActors \ {Loop}
  /\ \A u \in Assocs : /\ Holder(u) # Pinger
                       /\ \A s \in Sessions : Holder(u) \notin {Sender(s), Closer(s)}
  /\ \A u, v \in Assocs : Holder(u) = Holder(v) => u = v
  /\ Pinger # Reader
  /\ \A a \in ClientActors, b \in ServerActors : a # b
  /\ Nobody \notin Actors
  BY DEF ClientActors, ServerActors, Actors, Reader, Pinger, Loop, Nobody, Sender, Closer, Holder,
     Task, Receiver

\* Nothing is no frame, and frames of fewer types are frames.
LEMMA FrameFacts ==
  /\ \A types : "none" \notin types => Nothing \notin Frames(types)
  /\ \A types, more : types \subseteq more => Frames(types) \subseteq Frames(more)
  /\ \A a : Nothing \notin WrittenBy(a)
  /\ \A a : WrittenBy(a) \subseteq Frames(UpTypes \cup DownTypes \cup {Signal})
<1>1. \A types : "none" \notin types => Nothing \notin Frames(types)
      BY DEF Frames, Nothing, Frame, Control, OfAssoc, Signal
<1>2. \A types, more : types \subseteq more => Frames(types) \subseteq Frames(more)
      BY DEF Frames
<1>3. \A a : WrittenBy(a) \in {Frames({"TCP", "DATA", "UDP_DATA", Signal}),
                               Frames(Answers \cup {"DATA"}),
                               Frames(UpTypes), Frames(DownTypes)}
      BY DEF WrittenBy
<1>4. \A a : Nothing \notin WrittenBy(a)
      BY <1>1, <1>3 DEF UpTypes, DownTypes, Answers, Signal
<1>5. \A a : WrittenBy(a) \subseteq Frames(UpTypes \cup DownTypes \cup {Signal})
  <2>1. /\ {"TCP", "DATA", "UDP_DATA", Signal} \subseteq UpTypes \cup DownTypes \cup {Signal}
        /\ Answers \cup {"DATA"} \subseteq UpTypes \cup DownTypes \cup {Signal}
        /\ UpTypes \subseteq UpTypes \cup DownTypes \cup {Signal}
        /\ DownTypes \subseteq UpTypes \cup DownTypes \cup {Signal}
        BY DEF UpTypes, DownTypes, Answers
  <2> QED BY <1>2, <1>3, <2>1
<1> QED BY <1>1, <1>2, <1>4, <1>5

\* A goroutine that is not writing gets a frame it can have, or is done.
LEMMA GiveKeeps ==
  ASSUME TodoOK, LocksOK, NEW a \in Actors, ~Writing(a),
         NEW m \in WrittenBy(a) \cup {Nothing}, Give(a, m),
         UNCHANGED <<upLock, downLock>>
  PROVE  TodoOK' /\ LocksOK' /\ \A b \in Actors : b # a => todo'[b] = todo[b]
<1>1. m \in Frames(UpTypes \cup DownTypes \cup {Signal}) \cup {Nothing}
      BY FrameFacts
<1>2. \A b \in Actors : todo'[b] = IF b = a THEN m ELSE todo[b]
      BY DEF TodoOK, Give, Actors
<1>3. TodoOK'
      BY <1>1, <1>2 DEF TodoOK, Give, Actors, WrittenBy
<1>4. \A b \in Actors : b # a /\ Writing(b) => Writing(b)'
      BY <1>2 DEF Writing, Free
<1>5. LocksOK'
      BY <1>4, ActorsDiffer DEF LocksOK, Actors
<1> QED BY <1>2, <1>3, <1>5

\* Steps that touch no frame in hand and no mutex
LEMMA TodoKept ==
  ASSUME TodoOK, LocksOK, UNCHANGED <<todo, upLock, downLock>>
  PROVE  TodoOK' /\ LocksOK'
  BY DEF TodoOK, LocksOK, WrittenBy, Writing, Free

\* Steps that leave the associations alone: a holder without a frame gets none.
LEMMA AssocsKept ==
  ASSUME AssocsOK, UNCHANGED <<assocVars, sockets>>,
         \A u \in Assocs : Free(Holder(u)) => Free(Holder(u))'
  PROVE  AssocsOK'
  BY DEF AssocsOK, assocVars

\* A step that gives one goroutine, no holder of assoc.mu, what it can have, and
\* leaves the associations and the mutexes alone
LEMMA TurnKeeps ==
  ASSUME TodoOK, LocksOK, AssocsOK, NEW a \in Actors, ~Writing(a),
         NEW m \in WrittenBy(a) \cup {Nothing}, Give(a, m),
         \A u \in Assocs : a # Holder(u),
         UNCHANGED <<upLock, downLock, assocVars, sockets>>
  PROVE  TodoOK' /\ LocksOK' /\ AssocsOK'
<1>1. TodoOK' /\ LocksOK' /\ \A b \in Actors : b # a => todo'[b] = todo[b]
      BY GiveKeeps
<1>2. AssocsOK'
      BY <1>1, AssocsKept, ActorsDiffer DEF Free, Actors
<1> QED BY <1>1, <1>2

-----------------------------------------------------------------------------
(* Type correctness: one lemma per kind of step *)

\* A frame at the head of a stream, and the stream without it
LEMMA HeadFacts ==
  ASSUME NEW types, NEW q \in Seq(Frames(types)), q # << >>
  PROVE  /\ Tail(q) \in Seq(Frames(types)) /\ Len(Tail(q)) = Len(q) - 1
         /\ Head(q) \in Frames(types)
         /\ Head(q).type \in types
         /\ Head(q).type \notin Control \cup OfAssoc => Head(q).sess \in Sessions
         /\ Head(q).type \in OfAssoc => Head(q).sess \in Assocs
<1>1. Head(q) \in Frames(types) /\ Tail(q) \in Seq(Frames(types)) /\ Len(Tail(q)) = Len(q) - 1
      OBVIOUS
<1>2. /\ Head(q).type \in types
      /\ Head(q).type \notin Control \cup OfAssoc => Head(q).sess \in Sessions
      /\ Head(q).type \in OfAssoc => Head(q).sess \in Assocs
      BY <1>1 DEF Frames, Control, OfAssoc, Signal
<1> QED BY <1>1, <1>2

\* What goroutines give themselves is theirs to write.
LEMMA GivenFrames ==
  /\ \A s \in Sessions :
       /\ Frame("CLAIM", s) \in WrittenBy(Sender(s))
       /\ Frame("DATA", s) \in WrittenBy(Sender(s))
       /\ Frame("CLOSE", s) \in WrittenBy(Sender(s))
       /\ Frame("CLOSE", s) \in WrittenBy(Closer(s))
       /\ Frame("TCP", s) \in WrittenBy(Reader)
       /\ Frame("DATA", s) \in WrittenBy(Reader)
       /\ Frame("CLAIM_ACK", s) \in WrittenBy(Loop)
       /\ Frame("DATA", s) \in WrittenBy(Loop)
       /\ Frame("CONNECTED", s) \in WrittenBy(Task(s))
       /\ Frame("DATA", s) \in WrittenBy(Task(s))
       /\ Frame("CLOSE", s) \in WrittenBy(Task(s))
  /\ \A u \in Assocs :
       /\ Frame("UDP_CONNECT", u) \in WrittenBy(Holder(u))
       /\ Frame("UDP_DATA", u) \in WrittenBy(Holder(u))
       /\ Frame("UDP_CLOSE", u) \in WrittenBy(Holder(u))
       /\ Frame("UDP_DATA", u) \in WrittenBy(Reader)
       /\ Frame(Signal, u) \in WrittenBy(Reader)
       /\ Frame("UDP_CONNECTED", u) \in WrittenBy(Loop)
       /\ Frame("UDP_ERROR", u) \in WrittenBy(Loop)
       /\ Frame("UDP_DATA", u) \in WrittenBy(Receiver(u))
  /\ Frame("PING", NoSession) \in WrittenBy(Pinger)
  /\ Frame("PONG", NoSession) \in WrittenBy(Loop)
<1>1. Loop # Reader
      BY ActorsDiffer
<1>2. /\ WrittenBy(Reader) = Frames({"TCP", "DATA", "UDP_DATA", Signal})
      /\ WrittenBy(Loop) = Frames(Answers \cup {"DATA"})
      /\ WrittenBy(Pinger) = Frames(UpTypes)
      BY <1>1, ActorsDiffer DEF WrittenBy
<1>3. \A s \in Sessions : /\ WrittenBy(Sender(s)) = Frames(UpTypes)
                          /\ WrittenBy(Closer(s)) = Frames(UpTypes)
                          /\ WrittenBy(Task(s)) = Frames(DownTypes)
      BY ActorsDiffer DEF WrittenBy
<1>4. \A u \in Assocs : /\ WrittenBy(Holder(u)) = Frames(UpTypes)
                        /\ WrittenBy(Receiver(u)) = Frames(DownTypes)
      BY ActorsDiffer DEF WrittenBy
<1>5. \A types, t, s : t \in types /\ s \in Sessions /\ t \notin Control \cup OfAssoc
                         => Frame(t, s) \in Frames(types)
      BY DEF Frames, Frame
<1>6. \A types, t, u : t \in types /\ u \in Assocs /\ t \in OfAssoc
                         => Frame(t, u) \in Frames(types)
      BY DEF Frames, Frame
<1>7. \A types, t : t \in types /\ t \in Control => Frame(t, NoSession) \in Frames(types)
      BY DEF Frames, Frame
<1> USE DEF Control, OfAssoc, UpTypes, DownTypes, Answers, Signal
<1>8. \A s \in Sessions :
        /\ Frame("CLAIM", s) \in Frames(UpTypes) /\ Frame("DATA", s) \in Frames(UpTypes)
        /\ Frame("CLOSE", s) \in Frames(UpTypes) /\ Frame("CLOSE", s) \in Frames(DownTypes)
        /\ Frame("CONNECTED", s) \in Frames(DownTypes)
        /\ Frame("DATA", s) \in Frames(DownTypes)
        /\ Frame("TCP", s) \in Frames({"TCP", "DATA", "UDP_DATA", Signal})
        /\ Frame("DATA", s) \in Frames({"TCP", "DATA", "UDP_DATA", Signal})
        /\ Frame("CLAIM_ACK", s) \in Frames(Answers \cup {"DATA"})
        /\ Frame("DATA", s) \in Frames(Answers \cup {"DATA"})
      BY <1>5
<1>9. \A u \in Assocs :
        /\ Frame("UDP_CONNECT", u) \in Frames(UpTypes) /\ Frame("UDP_DATA", u) \in Frames(UpTypes)
        /\ Frame("UDP_CLOSE", u) \in Frames(UpTypes) /\ Frame("UDP_DATA", u) \in Frames(DownTypes)
        /\ Frame("UDP_DATA", u) \in Frames({"TCP", "DATA", "UDP_DATA", Signal})
        /\ Frame(Signal, u) \in Frames({"TCP", "DATA", "UDP_DATA", Signal})
        /\ Frame("UDP_CONNECTED", u) \in Frames(Answers \cup {"DATA"})
        /\ Frame("UDP_ERROR", u) \in Frames(Answers \cup {"DATA"})
      BY <1>6
<1>10. /\ Frame("PING", NoSession) \in Frames(UpTypes)
       /\ Frame("PONG", NoSession) \in Frames(Answers \cup {"DATA"})
      BY <1>7
<1> QED BY <1>2, <1>3, <1>4, <1>8, <1>9, <1>10

\* What the read loops write, of what they have in hand.
LEMMA OwnFrames ==
  /\ todo[Reader] \in WrittenBy(Reader) /\ Writing(Reader)
       => todo[Reader].type = "TCP" /\ todo[Reader] \in Frames(UpTypes)
  /\ todo[Loop] \in WrittenBy(Loop) /\ Writing(Loop)
       => todo[Loop].type \in Answers /\ todo[Loop] \in Frames(DownTypes)
<1>1. /\ WrittenBy(Reader) = Frames({"TCP", "DATA", "UDP_DATA", Signal})
      /\ WrittenBy(Loop) = Frames(Answers \cup {"DATA"})
      BY ActorsDiffer DEF WrittenBy
<1>2. \A types, m : m \in Frames(types) => m.type \in types
      BY DEF Frames, Control, OfAssoc, Signal
<1>3. \A types, more, m : m \in Frames(types) /\ m.type \in more => m \in Frames(more)
      BY DEF Frames, Control, OfAssoc, Signal
<1>4. "TCP" \in UpTypes /\ Answers \subseteq DownTypes
      BY DEF UpTypes, DownTypes, Answers
<1> QED BY <1>1, <1>2, <1>3, <1>4 DEF Writing

\* A write moves a frame from the goroutine to its stream and ends its turn.
LEMMA WritesKeep ==
  ASSUME TypeOK, \/ \E a \in ClientActors : ClientWrites(a)
                 \/ \E a \in ServerActors : ServerWrites(a)
  PROVE  TypeOK'
<1> USE DEF TypeOK, StreamsOK
<1>1. ASSUME NEW a \in ClientActors, WriteUp(a)  PROVE TypeOK'
  <2>1. todo[a] \in Frames(UpTypes)
    <3>1. todo[a] \in WrittenBy(a)
          BY <1>1 DEF WriteUp, Writing, Free, TodoOK
    <3>2. CASE a = Reader
          BY <1>1, <3>1, <3>2, OwnFrames DEF WriteUp
    <3> QED BY <3>1, <3>2, ActorsDiffer DEF WrittenBy
  <2>2. StreamsOK'
        BY <1>1, <2>1, CapAssumption DEF WriteUp, Room
  <2>3. \A b \in Actors : todo'[b] = IF b = a THEN Nothing ELSE todo[b]
        BY <1>1 DEF WriteUp, Done, Give, TodoOK, Actors
  <2>4. TodoOK'
        BY <1>1, <2>3 DEF WriteUp, Done, Give, TodoOK, Actors, WrittenBy
  <2>5. LocksOK'
        BY <1>1, <2>3, ActorsDiffer DEF WriteUp, LocksOK, Writing, Free, Actors
  <2>6. EndsOK'
        BY <1>1 DEF WriteUp, EndsOK, clientVars, serverVars
  <2>7. AssocsOK'
        BY <1>1, <2>3, AssocsKept, ActorsDiffer DEF WriteUp, Free, Actors, clientVars, serverVars
  <2> QED BY <2>2, <2>4, <2>5, <2>6, <2>7
<1>2. ASSUME NEW a \in ServerActors, WriteDown(a)  PROVE TypeOK'
  <2>1. todo[a] \in Frames(DownTypes)
    <3>1. todo[a] \in WrittenBy(a)
          BY <1>2 DEF WriteDown, Writing, Free, TodoOK
    <3>2. CASE a = Loop
          BY <1>2, <3>1, <3>2, OwnFrames DEF WriteDown
    <3> QED BY <3>1, <3>2, ActorsDiffer DEF WrittenBy
  <2>2. StreamsOK'
        BY <1>2, <2>1, CapAssumption DEF WriteDown, Room
  <2>3. \A b \in Actors : todo'[b] = IF b = a THEN Nothing ELSE todo[b]
        BY <1>2 DEF WriteDown, Done, Give, TodoOK, Actors
  <2>4. TodoOK'
        BY <1>2, <2>3 DEF WriteDown, Done, Give, TodoOK, Actors, WrittenBy
  <2>5. LocksOK'
        BY <1>2, <2>3, ActorsDiffer DEF WriteDown, LocksOK, Writing, Free, Actors
  <2>6. EndsOK'
        BY <1>2 DEF WriteDown, EndsOK, clientVars, serverVars
  <2>7. AssocsOK'
        BY <1>2, <2>3, AssocsKept, ActorsDiffer DEF WriteDown, Free, Actors, clientVars, serverVars
  <2> QED BY <2>2, <2>4, <2>5, <2>6, <2>7
<1>3. ASSUME NEW a \in ClientActors, WaitUp(a)  PROVE TypeOK'
      BY <1>3 DEF WaitUp, TodoOK, LocksOK, EndsOK, AssocsOK, assocVars,
           WrittenBy, Writing, Free, clientVars, serverVars
<1>4. ASSUME NEW a \in ServerActors, WaitDown(a)  PROVE TypeOK'
      BY <1>4 DEF WaitDown, TodoOK, LocksOK, EndsOK, AssocsOK, assocVars,
           WrittenBy, Writing, Free, clientVars, serverVars
<1> QED BY <1>1, <1>2, <1>3, <1>4 DEF ClientWrites, ServerWrites

\* The sessions' owners, the ticker, and the ends that hang up
LEMMA OwnersKeep ==
  ASSUME TypeOK,
         \/ Ping
         \/ \E s \in Sessions : \/ Start(s) \/ Own(s) \/ Timeout(s) \/ ReadLocal(s)
                                \/ AppHangsUp(s) \/ TargetHangsUp(s)
  PROVE  TypeOK'
<1> USE DEF TypeOK, StreamsOK, clientVars, serverVars
<1>1. CASE Ping
  <2>1. Pinger \in Actors /\ \A u \in Assocs : Pinger # Holder(u)
        BY ActorsDiffer DEF Actors
  <2>2. Give(Pinger, Frame("PING", NoSession)) /\ ~Writing(Pinger)
        BY <1>1 DEF Ping, Writing
  <2>3. UNCHANGED <<upLock, downLock, assocVars, sockets>>
        BY <1>1 DEF Ping
  <2>4. TodoOK' /\ LocksOK' /\ AssocsOK'
        BY <2>1, <2>2, <2>3, TurnKeeps, GivenFrames
  <2> QED BY <1>1, <2>4 DEF Ping, EndsOK
<1>2. ASSUME NEW s \in Sessions,
             Start(s) \/ ReadLocal(s) \/ ReadLocalError(s)
      PROVE  TypeOK'
  <2>1. Sender(s) \in Actors
        BY ActorsDiffer DEF Actors
  <2>2. PICK m \in WrittenBy(Sender(s)) \cup {Nothing} : Give(Sender(s), m)
        BY <1>2, GivenFrames DEF Start, ReadLocal, ReadLocalError, Routed
  <2>3. ~Writing(Sender(s)) /\ UNCHANGED <<upLock, downLock>>
        BY <1>2 DEF Start, ReadLocal, ReadLocalError, Writing
  <2>4. TodoOK' /\ LocksOK' /\ \A b \in Actors : b # Sender(s) => todo'[b] = todo[b]
        BY <2>1, <2>2, <2>3, GiveKeeps
  <2>7. AssocsOK'
        BY <1>2, <2>4, AssocsKept, ActorsDiffer
        DEF Start, ReadLocal, ReadLocalError, Free, Actors
  <2>5. EndsOK'
        BY <1>2 DEF Start, ReadLocal, ReadLocalError, EndsOK, Ends
  <2>6. StreamsOK'
        BY <1>2 DEF Start, ReadLocal, ReadLocalError
  <2> QED BY <2>4, <2>5, <2>6, <2>7
<1>3. ASSUME NEW s \in Sessions,
             Established(s) \/ Timeout(s) \/ AppHangsUp(s) \/ TargetHangsUp(s)
      PROVE  TypeOK'
  <2>1. TodoOK' /\ LocksOK'
        BY <1>3, TodoKept DEF Established, Timeout, AppHangsUp, TargetHangsUp
  <2>2. EndsOK'
        BY <1>3 DEF Established, Timeout, AppHangsUp, TargetHangsUp, EndsOK, Ends
  <2>3. StreamsOK'
        BY <1>3 DEF Established, Timeout, AppHangsUp, TargetHangsUp
  <2>4. AssocsOK'
        BY <1>3, AssocsKept DEF Established, Timeout, AppHangsUp, TargetHangsUp, Free
  <2> QED BY <2>1, <2>2, <2>3, <2>4
<1> QED BY <1>1, <1>2, <1>3 DEF Own

\* The client's read loop takes a message
LEMMA ReaderTakesOK ==
  ASSUME TypeOK, NEW t, ReaderTakes(t), UNCHANGED up
  PROVE  /\ StreamsOK' /\ ~Writing(Reader)
         /\ t \notin Control \cup OfAssoc => Arrived \in Sessions
         /\ t \in OfAssoc => Arrived \in Assocs
<1>1. down \in Seq(Frames(DownTypes)) /\ down # << >> /\ Head(down).type = t
      BY DEF TypeOK, StreamsOK, ReaderTakes
<1>2. /\ Tail(down) \in Seq(Frames(DownTypes)) /\ Len(Tail(down)) = Len(down) - 1
      /\ t \notin Control \cup OfAssoc => Arrived \in Sessions
      /\ t \in OfAssoc => Arrived \in Assocs
      BY <1>1, HeadFacts DEF Arrived
<1> QED BY <1>1, <1>2, CapAssumption DEF TypeOK, StreamsOK, ReaderTakes, Writing

\* The client's read loop
LEMMA ReaderKeeps ==
  ASSUME TypeOK,
         \/ Read
         \/ \E s \in Sessions : ReaderDelivers(s)
         \/ \E u \in Assocs : ReaderAnswers(u) \/ ReaderSendsDone(u)
  PROVE  TypeOK'
<1> USE DEF TypeOK, clientVars, serverVars
<1>a. Reader \in Actors /\ \A u \in Assocs : Reader # Holder(u)
      BY ActorsDiffer DEF Actors
<1>2. ASSUME ReaderBinds \/ ReaderTakesData  PROVE TypeOK'
  <2>1. StreamsOK' /\ Arrived \in Sessions /\ ~Writing(Reader)
        BY <1>2, ReaderTakesOK DEF ReaderBinds, ReaderTakesData, Control, OfAssoc, Signal
  <2>2. PICK m \in WrittenBy(Reader) : Give(Reader, m)
        BY <1>2, <2>1, GivenFrames DEF ReaderBinds, ReaderTakesData
  <2>3. UNCHANGED <<upLock, downLock, assocVars, sockets>>
        BY <1>2 DEF ReaderBinds, ReaderTakesData
  <2>4. TodoOK' /\ LocksOK' /\ AssocsOK'
        BY <1>a, <2>1, <2>2, <2>3, TurnKeeps
  <2> QED BY <1>2, <2>1, <2>4 DEF ReaderBinds, ReaderTakesData, EndsOK
<1>3. ASSUME ReaderTakesAnswer  PROVE TypeOK'
  <2>1. StreamsOK' /\ Arrived \in Assocs /\ ~Writing(Reader)
        BY <1>3, ReaderTakesOK DEF ReaderTakesAnswer, OfAssoc
  <2>2. PICK m \in WrittenBy(Reader) \cup {Nothing} : Give(Reader, m)
        BY <1>3, <2>1, GivenFrames DEF ReaderTakesAnswer, Done
  <2>3. UNCHANGED <<upLock, downLock, assocVars, sockets>>
        BY <1>3 DEF ReaderTakesAnswer
  <2>4. TodoOK' /\ LocksOK' /\ AssocsOK'
        BY <1>a, <2>1, <2>2, <2>3, TurnKeeps
  <2> QED BY <1>3, <2>1, <2>4 DEF ReaderTakesAnswer, EndsOK
<1>4. ASSUME ReaderSignals \/ ReaderCloses  PROVE TypeOK'
  <2>1. /\ StreamsOK' /\ Arrived \in Sessions \cup Assocs
        /\ ReaderCloses => Arrived \in Sessions
        BY <1>4, ReaderTakesOK DEF ReaderSignals, ReaderCloses, Control, OfAssoc, Signal
  <2>2. TodoOK' /\ LocksOK' /\ AssocsOK'
        BY <1>4, TodoKept, AssocsKept DEF ReaderSignals, ReaderCloses, Free
  <2> QED BY <1>4, <2>1, <2>2 DEF ReaderSignals, ReaderCloses, EndsOK, Ends
<1>5. ASSUME ReaderIgnores  PROVE TypeOK'
  <2>1. StreamsOK'
        BY <1>5, ReaderTakesOK DEF ReaderIgnores
  <2>2. TodoOK' /\ LocksOK' /\ AssocsOK'
        BY <1>5, TodoKept, AssocsKept DEF ReaderIgnores, Free
  <2> QED BY <1>5, <2>1, <2>2 DEF ReaderIgnores, EndsOK
<1>6. ASSUME NEW s \in Sessions, ReaderDelivers(s)  PROVE TypeOK'
  <2>1. ~Writing(Reader) /\ Give(Reader, Nothing)
        BY <1>6 DEF ReaderDelivers, Writing, Frame, Done
  <2>2. UNCHANGED <<upLock, downLock, assocVars, sockets>>
        BY <1>6 DEF ReaderDelivers
  <2>3. TodoOK' /\ LocksOK' /\ AssocsOK'
        BY <1>a, <2>1, <2>2, TurnKeeps
  <2> QED BY <1>6, <2>3 DEF ReaderDelivers, StreamsOK, EndsOK
<1>7. ASSUME NEW s \in Sessions, ReaderFails(s)  PROVE TypeOK'
  <2> DEFINE m == IF Free(Closer(s)) THEN Routed(Frame("CLOSE", s)) ELSE todo[Closer(s)]
  <2>1. ~Writing(Reader) /\ Closer(s) \in Actors /\ Closer(s) # Reader
        BY <1>7, ActorsDiffer DEF ReaderFails, Writing, Frame, Actors
  <2>2. m \in WrittenBy(Closer(s)) \cup {Nothing}
        BY <2>1, GivenFrames DEF Routed, TodoOK, Actors
  <2>3. \A b \in Actors : todo'[b] = IF b = Reader THEN Nothing
                                     ELSE IF b = Closer(s) THEN m ELSE todo[b]
        BY <1>7, <2>1 DEF ReaderFails, Report, TodoOK, Actors
  <2>4. m \in Frames(UpTypes \cup DownTypes \cup {Signal}) \cup {Nothing}
        BY <2>2, FrameFacts
  <2>5. TodoOK'
        BY <1>7, <2>1, <2>2, <2>3, <2>4 DEF ReaderFails, Report, TodoOK, Actors, WrittenBy
  <2>6. \A b \in Actors : Writing(b) => Writing(b)'
        BY <2>1, <2>3 DEF Writing, Free
  <2>7. LocksOK'
        BY <1>7, <2>6 DEF ReaderFails, LocksOK, Actors
  <2>8. AssocsOK'
        BY <1>7, <2>3, AssocsKept, ActorsDiffer DEF ReaderFails, Free, Actors
  <2> QED BY <1>7, <2>5, <2>7, <2>8 DEF ReaderFails, StreamsOK, EndsOK
<1>8. ASSUME NEW u \in Assocs, ReaderAnswers(u)  PROVE TypeOK'
  <2>1. ~Writing(Reader)
        BY <1>8 DEF ReaderAnswers, Writing, Frame
  <2>2. PICK m \in WrittenBy(Reader) \cup {Nothing} : Give(Reader, m)
        BY <1>8, GivenFrames DEF ReaderAnswers, Done
  <2>3. UNCHANGED <<upLock, downLock, assocVars, sockets>>
        BY <1>8 DEF ReaderAnswers
  <2>4. TodoOK' /\ LocksOK' /\ AssocsOK'
        BY <1>a, <2>1, <2>2, <2>3, TurnKeeps
  <2> QED BY <1>8, <2>4 DEF ReaderAnswers, StreamsOK, EndsOK
<1>9. ASSUME NEW u \in Assocs, ReaderSendsDone(u)  PROVE TypeOK'
  <2>1. ~Writing(Reader) /\ Give(Reader, Nothing) /\ UNCHANGED <<upLock, downLock>>
        BY <1>9 DEF ReaderSendsDone, Writing, Frame, Done
  <2>2. TodoOK' /\ LocksOK' /\ \A b \in Actors : b # Reader => todo'[b] = todo[b]
        BY <1>a, <2>1, GiveKeeps
  <2>3. \A v \in Assocs : todo'[Holder(v)] = todo[Holder(v)]
        BY <2>2, ActorsDiffer DEF Actors
  <2>4. done' \in [Assocs -> 0 .. DoneCapacity]
        BY <1>9 DEF ReaderSendsDone, SendDone, AssocsOK, DoneCapacity
  <2>5. AssocsOK'
        BY <1>9, <2>3, <2>4 DEF ReaderSendsDone, AssocsOK, Free
  <2> QED BY <1>9, <2>2, <2>5 DEF ReaderSendsDone, StreamsOK, EndsOK
<1> QED BY <1>2, <1>3, <1>4, <1>5, <1>6, <1>7, <1>8, <1>9 DEF Read

\* The server's read loop
LEMMA LoopKeeps ==
  ASSUME TypeOK, Handle \/ \E s \in Sessions : LoopDelivers(s)
  PROVE  TypeOK'
<1> USE DEF TypeOK, clientVars, serverVars
<1>a. Loop \in Actors /\ \A u \in Assocs : Loop # Holder(u)
      BY ActorsDiffer DEF Actors
<1>1. ASSUME NEW t, LoopTakes(t), UNCHANGED down
      PROVE  /\ StreamsOK' /\ ~Writing(Loop)
             /\ t \notin Control \cup OfAssoc => Asked \in Sessions
             /\ t \in OfAssoc => Asked \in Assocs
  <2>1. up \in Seq(Frames(UpTypes)) /\ up # << >> /\ Head(up).type = t
        BY <1>1 DEF StreamsOK, LoopTakes
  <2>2. /\ Tail(up) \in Seq(Frames(UpTypes)) /\ Len(Tail(up)) = Len(up) - 1
        /\ t \notin Control \cup OfAssoc => Asked \in Sessions
        /\ t \in OfAssoc => Asked \in Assocs
        BY <2>1, HeadFacts DEF Asked
  <2> QED BY <1>1, <2>1, <2>2, CapAssumption DEF StreamsOK, LoopTakes, Writing
<1>2. ASSUME LoopClaim \/ LoopPong \/ LoopTakesData \/ LoopUdpRefuses  PROVE TypeOK'
  <2>1. /\ StreamsOK' /\ ~Writing(Loop)
        /\ LoopClaim \/ LoopTakesData => Asked \in Sessions
        /\ LoopUdpRefuses => Asked \in Assocs
        BY <1>1, <1>2 DEF LoopClaim, LoopPong, LoopTakesData, LoopUdpRefuses, Answer, Control,
             OfAssoc, Signal
  <2>2. PICK m \in WrittenBy(Loop) \cup {Nothing} : Give(Loop, m)
        BY <1>2, <2>1, GivenFrames DEF LoopClaim, LoopPong, LoopTakesData, LoopUdpRefuses, Answer
  <2>3. UNCHANGED <<upLock, downLock, clientVars, serverVars>>
        BY <1>2 DEF LoopClaim, LoopPong, LoopTakesData, LoopUdpRefuses, Answer
  <2>4. TodoOK' /\ LocksOK' /\ AssocsOK'
        BY <1>a, <2>1, <2>2, <2>3, TurnKeeps
  <2> QED BY <2>1, <2>3, <2>4 DEF EndsOK
<1>3. ASSUME LoopTCP \/ LoopCloses  PROVE TypeOK'
  <2>1. StreamsOK' /\ Asked \in Sessions
        BY <1>1, <1>3 DEF LoopTCP, LoopCloses, Control, OfAssoc, Signal
  <2>2. TodoOK' /\ LocksOK' /\ AssocsOK'
        BY <1>3, TodoKept, AssocsKept DEF LoopTCP, LoopCloses, Free
  <2> QED BY <1>3, <2>1, <2>2 DEF LoopTCP, LoopCloses, EndsOK, Ends
<1>4. ASSUME NEW s \in Sessions, LoopDelivers(s)  PROVE TypeOK'
  <2>1. ~Writing(Loop) /\ Give(Loop, Nothing)
        BY <1>4 DEF LoopDelivers, Writing, Frame, Done
  <2>2. UNCHANGED <<upLock, downLock, assocVars, sockets>>
        BY <1>4 DEF LoopDelivers
  <2>3. TodoOK' /\ LocksOK' /\ AssocsOK'
        BY <1>a, <2>1, <2>2, TurnKeeps
  <2> QED BY <1>4, <2>3 DEF LoopDelivers, StreamsOK, EndsOK
<1>5. ASSUME LoopUdpConnects  PROVE TypeOK'
  <2>1. StreamsOK' /\ ~Writing(Loop) /\ Asked \in Assocs
        BY <1>1, <1>5 DEF LoopUdpConnects, OfAssoc
  <2>2. Give(Loop, Frame("UDP_CONNECTED", Asked)) /\ UNCHANGED <<upLock, downLock>>
        BY <1>5 DEF LoopUdpConnects
  <2>3. TodoOK' /\ LocksOK' /\ \A b \in Actors : b # Loop => todo'[b] = todo[b]
        BY <1>a, <2>1, <2>2, GiveKeeps, GivenFrames
  <2>4. \A v \in Assocs : todo'[Holder(v)] = todo[Holder(v)]
        BY <2>3, ActorsDiffer DEF Actors
  <2>5. AssocsOK'
        BY <1>5, <2>1, <2>4 DEF LoopUdpConnects, AssocsOK, assocVars, Free
  <2> QED BY <1>5, <2>1, <2>3, <2>5 DEF LoopUdpConnects, EndsOK
<1>6. ASSUME LoopUdpData \/ LoopUdpCloses  PROVE TypeOK'
  <2>1. StreamsOK'
        BY <1>1, <1>6 DEF LoopUdpData, LoopUdpCloses
  <2>2. TodoOK' /\ LocksOK'
        BY <1>6, TodoKept DEF LoopUdpData, LoopUdpCloses
  <2>3. AssocsOK'
        BY <1>6 DEF LoopUdpData, LoopUdpCloses, AssocsOK, assocVars, Free
  <2> QED BY <1>6, <2>1, <2>2, <2>3 DEF LoopUdpData, LoopUdpCloses, EndsOK
<1> QED BY <1>2, <1>3, <1>4, <1>5, <1>6 DEF Handle

\* The goroutines of target connections and of UDP sockets
LEMMA TasksKeep ==
  ASSUME TypeOK, \/ \E s \in Sessions : Serve(s) \/ PumpData(s)
                 \/ \E u \in Assocs : Receive(u)
  PROVE  TypeOK'
<1> USE DEF TypeOK
<1>1. ASSUME NEW s \in Sessions, Serve(s) \/ PumpData(s)  PROVE TypeOK'
  <2>1. Task(s) \in Actors /\ \A u \in Assocs : Task(s) # Holder(u)
        BY ActorsDiffer DEF Actors
  <2>2. PICK m \in WrittenBy(Task(s)) \cup {Nothing} : Give(Task(s), m)
        BY <1>1, GivenFrames DEF Serve, PumpData, DialSucceeds, DialFails, PumpError
  <2>3. ~Writing(Task(s)) /\ UNCHANGED <<upLock, downLock, assocVars, sockets>>
        BY <1>1 DEF Serve, PumpData, DialSucceeds, DialFails, PumpError, Writing, clientVars,
           serverVars
  <2>4. TodoOK' /\ LocksOK' /\ AssocsOK'
        BY <2>1, <2>2, <2>3, TurnKeeps
  <2>5. StreamsOK' /\ EndsOK'
        BY <1>1 DEF Serve, PumpData, DialSucceeds, DialFails, PumpError, StreamsOK, EndsOK,
           Ends, clientVars, serverVars
  <2> QED BY <2>4, <2>5
<1>2. ASSUME NEW u \in Assocs, Receive(u)  PROVE TypeOK'
  <2>1. Receiver(u) \in Actors /\ \A v \in Assocs : Receiver(u) # Holder(v)
        BY ActorsDiffer DEF Actors
  <2>2. PICK m \in WrittenBy(Receiver(u)) \cup {Nothing} : Give(Receiver(u), m)
        BY <1>2, GivenFrames DEF Receive
  <2>3. ~Writing(Receiver(u)) /\ UNCHANGED <<upLock, downLock, assocVars, sockets>>
        BY <1>2 DEF Receive, Writing, clientVars, serverVars
  <2>4. TodoOK' /\ LocksOK' /\ AssocsOK'
        BY <2>1, <2>2, <2>3, TurnKeeps
  <2> QED BY <1>2, <2>4 DEF Receive, StreamsOK, EndsOK, clientVars, serverVars
<1> QED BY <1>1, <1>2

\* The goroutines of an association
LEMMA AssociationsKeep ==
  ASSUME TypeOK, NEW u \in Assocs,
         \/ Datagram(u) \/ Release(u) \/ Finish(u) \/ Close(u) \/ AssocConnected(u)
         \/ \E g \in {"control", "relay", "timer"} : SignalsDone(u, g)
  PROVE  TypeOK'
<1> USE DEF TypeOK
<1>1. ASSUME Datagram(u) \/ GoesOn(u) \/ Close(u)  PROVE TypeOK'
  <2>1. /\ Holder(u) \in Actors /\ Free(Holder(u))
        /\ \A v \in Assocs : v # u => Holder(v) # Holder(u) /\ Holder(v) \in Actors
        BY <1>1, ActorsDiffer DEF Datagram, GoesOn, Close, AssocsOK, Actors
  <2>2. PICK m \in WrittenBy(Holder(u)) \cup {Nothing} : Give(Holder(u), m)
        BY <1>1, GivenFrames DEF Datagram, GoesOn, Close
  <2>3. ~Writing(Holder(u)) /\ UNCHANGED <<upLock, downLock>>
        BY <1>1, <2>1 DEF Datagram, GoesOn, Close, Writing
  <2>4. TodoOK' /\ LocksOK' /\ \A b \in Actors : b # Holder(u) => todo'[b] = todo[b]
        BY <2>1, <2>2, <2>3, GiveKeeps
  <2>5. mutex' \in [Assocs -> {"free", "connect", "data", "close"}] /\ mutex'[u] # "free"
        BY <1>1 DEF Datagram, GoesOn, Close, AssocsOK
  <2>6. \A v \in Assocs : mutex'[v] = "free" => Free(Holder(v))'
        BY <1>1, <2>1, <2>4, <2>5 DEF Datagram, GoesOn, Close, AssocsOK, Free
  <2>7. AssocsOK'
        BY <1>1, <2>5, <2>6 DEF Datagram, GoesOn, Close, AssocsOK, serverVars
  <2> QED BY <1>1, <2>4, <2>7 DEF Datagram, GoesOn, Close, StreamsOK, EndsOK, serverVars
<1>2. ASSUME DatagramSent(u) \/ Closed(u)  PROVE TypeOK'
  <2>1. TodoOK' /\ LocksOK'
        BY <1>2, TodoKept DEF DatagramSent, Closed
  <2>2. AssocsOK'
        BY <1>2 DEF DatagramSent, Closed, AssocsOK, Free, serverVars
  <2> QED BY <1>2, <2>1, <2>2 DEF DatagramSent, Closed, StreamsOK, EndsOK, serverVars
<1>3. ASSUME \/ Finish(u) \/ AssocConnected(u)
             \/ \E g \in {"control", "relay", "timer"} : SignalsDone(u, g)
      PROVE  TypeOK'
  <2>1. TodoOK' /\ LocksOK'
        BY <1>3, TodoKept DEF Finish, AssocConnected, SignalsDone
  <2>2. done' \in [Assocs -> 0 .. DoneCapacity]
        BY <1>3 DEF Finish, AssocConnected, SignalsDone, SendDone, AssocsOK, DoneCapacity
  <2>3. senders' \in [Assocs -> SUBSET {"control", "relay", "timer"}]
        BY <1>3 DEF Finish, AssocConnected, SignalsDone, AssocsOK
  <2>4. AssocsOK'
        BY <1>3, <2>2, <2>3 DEF Finish, AssocConnected, SignalsDone, AssocsOK, Free, serverVars
  <2> QED BY <1>3, <2>1, <2>4 DEF Finish, AssocConnected, SignalsDone, StreamsOK, EndsOK,
             serverVars
<1> QED BY <1>1, <1>2, <1>3 DEF Release

\* Initially nobody has a frame.
LEMMA TypeOKInit == Init => TypeOK
<1> SUFFICES ASSUME Init PROVE TypeOK
    OBVIOUS
<1>1. StreamsOK /\ EndsOK
      BY CapAssumption DEF Init, StreamsOK, EndsOK, Ends
<1>4. AssocsOK
      BY ActorsDiffer DEF Init, AssocsOK, Free, DoneCapacity
<1>2. TodoOK
      BY DEF Init, TodoOK
<1>3. LocksOK
      BY DEF Init, LocksOK
<1> QED BY <1>1, <1>2, <1>3, <1>4 DEF TypeOK

\* Every variable keeps its type and every goroutine its kind of frames;
\* whoever holds a mutex has something to write under it, so that none is lost.
THEOREM TypeCorrect == Spec => []TypeOK
<1>1. TypeOK /\ [Next]_vars => TypeOK'
  <2> SUFFICES ASSUME TypeOK, [Next]_vars PROVE TypeOK'
      OBVIOUS
  <2>1. CASE Next
        BY <2>1, WritesKeep, OwnersKeep, ReaderKeeps, LoopKeeps, TasksKeep, AssociationsKeep
        DEF Next, Associate
  <2>2. CASE UNCHANGED vars
    <3>1. TodoOK' /\ LocksOK'
          BY <2>2, TodoKept DEF vars, TypeOK
    <3>2. AssocsOK'
          BY <2>2, AssocsKept DEF vars, clientVars, serverVars, TypeOK, Free
    <3> QED BY <2>2, <3>1, <3>2 DEF vars, clientVars, serverVars, TypeOK, StreamsOK, EndsOK
  <2> QED BY <2>1, <2>2
<1> QED BY TypeOKInit, <1>1, PTL DEF Spec

-----------------------------------------------------------------------------
(* Why a connection stops *)

\* Whoever waits to write, at a standstill, waits for room, and so does the holder
\* of an assoc.mu that the client's read loop waits for.
LEMMA WaitersWaitForRoom ==
  ASSUME TypeOK, Standstill, ~WaitsForApp, ~WaitsForTarget, ~DoneIsFull
  PROVE  /\ \A a \in ClientActors : ~Free(a) => ~Room(up, UpCap)
         /\ \A a \in ServerActors : ~Free(a) => Writing(a) /\ ~Room(down, DownCap)
         /\ ~Free(Reader) => \/ Writing(Reader)
                             \/ \E u \in Assocs : WaitsForAssoc(u) /\ ~Free(Holder(u))
<1>1. /\ \A a \in ClientActors : Writing(a) => StuckUp(a)
      /\ \A a \in ServerActors : ~Free(a) => Writing(a) /\ StuckDown(a)
  <2>1. ~Free(Reader) => ~Writing(Reader) \/ StuckUp(Reader)
    <3>1. \A u : todo[Reader] \in {Frame("UDP_DATA", u), Frame(Signal, u)} => ~Writing(Reader)
          BY DEF Writing, Frame
    <3> QED BY <3>1 DEF Standstill, StuckReader, WaitsForAssoc
  <2>2. ~Free(Loop) => Writing(Loop) /\ StuckDown(Loop)
        BY DEF Standstill, StuckLoop
  <2> QED BY <2>1, <2>2, ActorsDiffer DEF Standstill, Writing
<1>2. ~Free(Reader) => \/ Writing(Reader)
                       \/ \E u \in Assocs : WaitsForAssoc(u) /\ ~Free(Holder(u))
  <2>1. ASSUME NEW u \in Assocs, todo[Reader] = Frame(Signal, u), done[u] = DoneCapacity
        PROVE  FALSE
        BY <2>1 DEF Standstill, StuckAssoc, DoneIsFull, DoneCapacity
  <2> QED BY <2>1 DEF Standstill, StuckReader, StuckAssoc, WaitsForAssoc
<1>3. ASSUME NEW a \in ClientActors, Writing(a)  PROVE ~Room(up, UpCap)
  <2>1. CASE upLock = a
        BY <1>1, <1>3, <2>1 DEF StuckUp
  <2>2. CASE upLock # a
    <3>1. upLock \in ClientActors /\ Writing(upLock)
          BY <1>1, <1>3, <2>2 DEF StuckUp, TypeOK, LocksOK
    <3> QED BY <1>1, <3>1 DEF StuckUp, Writing
  <2> QED BY <2>1, <2>2
<1>4. ASSUME NEW a \in ClientActors, ~Free(a)  PROVE ~Room(up, UpCap)
  <2>1. CASE a # Reader
        BY <1>3, <1>4, <2>1, ActorsDiffer DEF Writing
  <2>2. CASE a = Reader
    <3>1. ASSUME NEW u \in Assocs, ~Free(Holder(u))  PROVE Writing(Holder(u))
          BY <3>1, ActorsDiffer DEF Writing
    <3> QED BY <1>2, <1>3, <1>4, <2>2, <3>1, ActorsDiffer
  <2> QED BY <2>1, <2>2
<1>5. ASSUME NEW a \in ServerActors, ~Free(a)  PROVE ~Room(down, DownCap)
  <2>1. CASE downLock = a
        BY <1>1, <1>5, <2>1 DEF StuckDown
  <2>2. CASE downLock # a
    <3>1. downLock \in ServerActors /\ Writing(downLock)
          BY <1>1, <1>5, <2>2 DEF StuckDown, TypeOK, LocksOK
    <3> QED BY <1>1, <3>1 DEF StuckDown, Writing
  <2> QED BY <2>1, <2>2
<1> QED BY <1>1, <1>2, <1>4, <1>5

\* From one goroutine that waits for room the wait goes round: a full stream
\* has a reader that is not reading, which waits for room in the other one, itself
\* or behind the holder of an assoc.mu.
LEMMA StandstillExplained == TypeOK => StandstillHasCause
<1> SUFFICES ASSUME TypeOK, Standstill, ~WaitsForApp, ~WaitsForTarget, ~DoneIsFull
             PROVE  Crossed
    BY DEF StandstillHasCause
<1>1. ~Room(up, UpCap) => ~Free(Loop)
      BY CapAssumption DEF Standstill, StuckLoop, Room, Writing
<1>2. ~Room(down, DownCap) => ~Free(Reader)
  <2>1. \A u \in Assocs : todo[Reader] = Frame("UDP_DATA", u) \/ todo[Reader] = Frame(Signal, u)
                            => ~Free(Reader)
        BY DEF Free, Nothing, Frame, Signal
  <2> QED BY <2>1, CapAssumption DEF Standstill, StuckReader, WaitsForAssoc, Room, Writing
<1>3. ~Free(Loop) /\ ~Free(Reader)
      BY <1>1, <1>2, WaitersWaitForRoom, ActorsDiffer DEF Standstill
<1>4. Writing(Loop) /\ ~Room(up, UpCap) /\ ~Room(down, DownCap)
      BY <1>3, WaitersWaitForRoom, ActorsDiffer
<1>5. todo[Reader] \in WrittenBy(Reader) /\ todo[Loop] \in WrittenBy(Loop)
      BY <1>3, ActorsDiffer DEF TypeOK, TodoOK, Free
<1>6. todo[Loop].type \in Answers
      BY <1>4, <1>5, OwnFrames
<1>7. \/ todo[Reader].type = "TCP"
      \/ \E u \in Assocs : WaitsForAssoc(u) /\ ~Free(Holder(u))
      BY <1>3, <1>5, OwnFrames, WaitersWaitForRoom
<1> QED BY <1>4, <1>6, <1>7 DEF Crossed

\* The property of the flow runs, for any number of sessions and associations and
\* any capacities.
THEOREM StandstillIsExplained == Spec => []StandstillHasCause
  BY TypeCorrect, StandstillExplained, PTL

-----------------------------------------------------------------------------
(* The crossed wait is for ever *)

\* No step gives either read loop its turn back, nor a stream any room.
LEMMA CrossedStays == TypeOK /\ Crossed /\ [Next]_vars => Crossed'
<1> SUFFICES ASSUME TypeOK, Crossed, [Next]_vars PROVE Crossed'
    OBVIOUS
<1>a. todo[Loop].type \in Answers /\ ~Room(up, UpCap) /\ ~Room(down, DownCap)
      BY DEF Crossed
<1>1. /\ ~Free(Reader) /\ ~Free(Loop) /\ Reader \in Actors /\ Loop \in Actors
      /\ \A s : todo[Reader] # Frame("DATA", s) /\ todo[Loop] # Frame("DATA", s)
      /\ \A u : todo[Reader] # Frame(Signal, u)
  <2>1. todo[Reader].type \in {"TCP", "UDP_DATA"}
    <3>1. \A u : WaitsForAssoc(u) => todo[Reader].type = "UDP_DATA"
          BY DEF WaitsForAssoc, Frame
    <3> QED BY <3>1 DEF Crossed
  <2>2. todo[Loop].type \in {"CLAIM_ACK", "PONG", "UDP_CONNECTED", "UDP_ERROR"}
        BY <1>a DEF Answers
  <2> QED BY <2>1, <2>2, ActorsDiffer DEF Free, Nothing, Frame, Signal, Actors
<1>2. \A u \in Assocs : WaitsForAssoc(u) => ~ReaderAnswers(u)
      BY DEF WaitsForAssoc, ReaderAnswers
<1>3. \A a, m : Give(a, m) /\ a \in Actors
        => todo' = [todo EXCEPT ![a] = m] /\ \A b \in Actors : b # a => todo'[b] = todo[b]
      BY DEF Give, TypeOK, TodoOK, Actors
<1>b. ASSUME UNCHANGED <<up, down>>, todo'[Reader] = todo[Reader], todo'[Loop] = todo[Loop],
             \A u \in Assocs : WaitsForAssoc(u) /\ ~Free(Holder(u))
                                 => mutex'[u] # "free" /\ ~Free(Holder(u))'
      PROVE  Crossed'
      BY <1>b DEF Crossed, WaitsForAssoc, Room
<1>4. CASE \/ \E a \in ClientActors : ClientWrites(a)
           \/ \E a \in ServerActors : ServerWrites(a)
      BY <1>4, <1>a, <1>b DEF ClientWrites, ServerWrites, WriteUp, WaitUp, WriteDown, WaitDown,
         clientVars, assocVars, Free, WaitsForAssoc
<1>5. CASE Read \/ Handle \/ \E s \in Sessions : ReaderDelivers(s) \/ LoopDelivers(s)
  <2>1. \A t : ~ReaderTakes(t) /\ ~LoopTakes(t)
        BY <1>1 DEF ReaderTakes, LoopTakes
  <2>2. ~Read
        BY <1>1, <2>1 DEF Read, ReaderBinds, ReaderSignals, ReaderTakesData, ReaderCloses,
             ReaderIgnores, ReaderTakesAnswer, ReaderFails
  <2>3. ~Handle
        BY <2>1 DEF Handle, LoopClaim, LoopPong, LoopTCP, LoopTakesData, LoopCloses,
             LoopUdpConnects, LoopUdpRefuses, LoopUdpData, LoopUdpCloses
  <2> QED BY <1>1, <1>5, <2>2, <2>3 DEF ReaderDelivers, LoopDelivers
\* A step that gives something to a goroutine that is neither a read loop nor the
\* holder of an assoc.mu
<1>c. ASSUME NEW a \in Actors, NEW m, Give(a, m), a \notin {Reader, Loop},
             \A u \in Assocs : a # Holder(u), UNCHANGED <<up, down, mutex>>
      PROVE  Crossed'
      BY <1>1, <1>3, <1>b, <1>c, ActorsDiffer DEF Actors, Free, WaitsForAssoc
<1>d. ASSUME UNCHANGED <<up, down, todo, mutex>>  PROVE Crossed'
      BY <1>b, <1>d DEF Free, WaitsForAssoc
<1>6. CASE Ping
  <2>1. Pinger \in Actors \ {Reader, Loop} /\ \A u \in Assocs : Pinger # Holder(u)
        BY ActorsDiffer DEF Actors
  <2>2. Give(Pinger, Frame("PING", NoSession)) /\ UNCHANGED <<up, down, mutex>>
        BY <1>6 DEF Ping, clientVars, assocVars
  <2> QED BY <1>c, <2>1, <2>2
<1>7. ASSUME NEW s \in Sessions,
             Start(s) \/ Own(s) \/ Timeout(s) \/ ReadLocal(s) \/ AppHangsUp(s) \/ TargetHangsUp(s)
      PROVE  Crossed'
  <2>1. CASE Start(s) \/ ReadLocal(s) \/ ReadLocalError(s)
        BY <1>c, <2>1, ActorsDiffer DEF Start, ReadLocal, ReadLocalError, Actors, clientVars,
           assocVars
  <2>2. CASE Established(s) \/ Timeout(s) \/ AppHangsUp(s) \/ TargetHangsUp(s)
        BY <1>d, <2>2 DEF Established, Timeout, AppHangsUp, TargetHangsUp, clientVars, assocVars
  <2> QED BY <1>7, <2>1, <2>2 DEF Own
<1>8. ASSUME NEW s \in Sessions, Serve(s) \/ PumpData(s)  PROVE Crossed'
      BY <1>c, <1>8, ActorsDiffer
      DEF Serve, DialSucceeds, DialFails, PumpError, PumpData, Actors, clientVars, assocVars
<1>9. ASSUME NEW u \in Assocs, ReaderAnswers(u) \/ ReaderSendsDone(u) \/ Associate(u)
      PROVE  Crossed'
  <2>1. CASE ReaderAnswers(u) \/ ReaderSendsDone(u)
    <3>1. ReaderAnswers(u) /\ todo[Reader] = Frame("UDP_DATA", u) /\ mutex[u] = "free"
          BY <1>1, <2>1 DEF ReaderAnswers, ReaderSendsDone
    <3>2. todo[Reader].type # "TCP" /\ \A v : WaitsForAssoc(v) => v = u
          BY <3>1 DEF Frame, WaitsForAssoc
    <3> QED BY <3>1, <3>2 DEF Crossed, WaitsForAssoc
  <2>2. CASE Datagram(u) \/ GoesOn(u) \/ Close(u)
    <3>1. /\ Holder(u) \in Actors \ {Reader, Loop}
          /\ \A v \in Assocs : v # u => Holder(v) \in Actors \ {Holder(u)}
          BY ActorsDiffer DEF Actors
    <3>2. Free(Holder(u)) /\ UNCHANGED <<up, down>>
          BY <2>2 DEF Datagram, GoesOn, Close, TypeOK, AssocsOK
    <3>3. \A b \in Actors : b # Holder(u) => todo'[b] = todo[b]
          BY <1>3, <2>2, <3>1 DEF Datagram, GoesOn, Close
    <3>4. \A v \in Assocs : v # u => mutex'[v] = mutex[v]
          BY <2>2 DEF Datagram, GoesOn, Close, TypeOK, AssocsOK
    <3> QED BY <1>1, <1>b, <3>1, <3>2, <3>3, <3>4 DEF Free, WaitsForAssoc
  <2>3. CASE DatagramSent(u) \/ Closed(u)
    <3>1. Free(Holder(u)) /\ UNCHANGED <<up, down, todo>>
          BY <2>3 DEF DatagramSent, Closed
    <3>2. \A v \in Assocs : v # u => mutex'[v] = mutex[v]
          BY <2>3 DEF DatagramSent, Closed, TypeOK, AssocsOK
    <3> QED BY <1>b, <3>1, <3>2 DEF Free, WaitsForAssoc
  <2>4. CASE \/ Finish(u) \/ AssocConnected(u)
             \/ \E g \in {"control", "relay", "timer"} : SignalsDone(u, g)
        BY <1>d, <2>4 DEF Finish, AssocConnected, SignalsDone
  <2>5. CASE Receive(u)
        BY <1>c, <2>5, ActorsDiffer DEF Receive, Actors, clientVars, assocVars
  <2> QED BY <1>9, <2>1, <2>2, <2>3, <2>4, <2>5 DEF Associate, Release
<1>10. CASE UNCHANGED vars
      BY <1>d, <1>10 DEF vars, clientVars, assocVars
<1> QED BY <1>4, <1>5, <1>6, <1>7, <1>8, <1>9, <1>10 DEF Next

\* The property of the flow runs: once crossed, the two ends wait for each other
\* for ever, whatever the rest of the system does.
THEOREM CrossedNeverEnds == Spec => CrossedForEver
<1>1. TypeOK /\ [Next]_vars => [Crossed => Crossed']_vars
      BY CrossedStays
<1> QED BY <1>1, TypeCorrect, PTL DEF Spec, CrossedForEver
=============================================================================
