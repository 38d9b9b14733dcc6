---------------------------- MODULE ProxyProofs -----------------------------
(***************************************************************************)
(* The proxy serves the requests it should, and only those, whatever an    *)
(* application sends and in whatever pieces it arrives.                    *)
(***************************************************************************)
EXTENDS Proxy, SequenceTheorems, TLAPS

\* In the frame state nothing is held, so its read starts at taken.
FrameInv == pc \in {"first", "methods", "auth", "request", "frame"} => pos = taken

Typed == TypeOK /\ FrameInv

\* What the program knows of the parts it has used, at each of its places.
\* The value of each header is that of the last one so far.
CredSoFar ==
  /\ cred = "right" <=> \E i \in 3 .. pos : /\ script[i] = "h right"
                                            /\ \A j \in i + 1 .. pos : script[j] # "h wrong"
  /\ body <=> \E i \in 3 .. pos : /\ script[i] = "h length"
                                   /\ \A j \in i + 1 .. pos : script[j] # "h no length"
KindSoFar == /\ script[1] = "letter" /\ script[2] \in {"CONNECT", "GET"}
             /\ kind = IF script[2] = "CONNECT" THEN "connect" ELSE "forward"
Known ==
  /\ pc = "first" => pos = 0
  /\ pc = "methods" => pos = 1 /\ script[1] = "5"
  /\ pc = "auth" => pos = 2 /\ script[1] = "5" /\ script[2] = "methods+auth" /\ protected
  /\ pc = "request" => /\ script[1] = "5"
                       /\ IF protected THEN pos = 3 /\ script[2] = "methods+auth" /\ script[3] = "auth right"
                          ELSE pos = 2
  /\ pc = "line" => pos = 1 /\ script[1] = "letter" /\ cred = "none" /\ ~body
  /\ pc = "headers" => /\ 2 <= pos /\ KindSoFar /\ CredSoFar
                       /\ \A i \in 3 .. pos : script[i] # "blank"
  /\ pc = "body" => HttpHead(pos) /\ HasBody(pos) /\ (protected => Authorised(pos))
  /\ pc \in {"first", "methods", "auth", "request"} => cred = "none" /\ ~body
  /\ pc \in Served \cup {"frame"} => \E n \in 1 .. pos : Request(n)
  /\ pc = "refused" => \A n \in 1 .. Len(script) : ~Request(n)

ProxyInv == Typed /\ Known

-----------------------------------------------------------------------------
(* Types *)

\* A run of places is a sequence of them.
LEMMA PlacesType ==
  ASSUME NEW i \in Nat, NEW j \in Nat, i <= j, NEW k \in Nat, j <= k
  PROVE  Places(i, j) \in Seq(1 .. k)
<1>1. j - i \in Nat
  OBVIOUS
<1>2. \A n \in 1 .. j - i : i + n \in 1 .. k
  OBVIOUS
<1>3. Places(i, j) \in [1 .. j - i -> 1 .. k]
  BY <1>2 DEF Places
<1> QED BY <1>1, <1>3

\* The types hold at the start.
LEMMA InitTypes == Init => TypeOK
<1> SUFFICES ASSUME Init PROVE TypeOK
  OBVIOUS
<1>1. FlagsOK
  BY Zenon DEF Init, FlagsOK
<1>2. Len(script) \in Nat
  BY ScriptsAssumption DEF Init
<1>3. PlacesOK
  BY <1>2 DEF Init, PlacesOK
<1>4. ValuesOK
  BY DEF Init, ValuesOK, Handshake
<1> QED BY <1>1, <1>3, <1>4 DEF TypeOK

\* The two ways to read keep the positions in order.
LEMMA PositionsKept ==
  ASSUME PlacesOK, Take \/ ReadBuffered, UNCHANGED <<sent, script>>
  PROVE  /\ pos' \in Nat /\ taken' \in Nat
         /\ pos' <= taken' /\ taken' <= sent /\ sent <= Len(script)
         /\ pos' = pos + 1 /\ pos < sent
BY DEF PlacesOK, Take, ReadBuffered

\* So a step that reads a part and relays nothing keeps PlacesOK.
LEMMA ReadKeepsPlaces ==
  ASSUME PlacesOK, Take \/ ReadBuffered, UNCHANGED <<sent, script, relayed>>
  PROVE  PlacesOK'
BY PositionsKept DEF PlacesOK

\* The next n - i parts are relayed.
LEMMA RelayKeepsPlaces ==
  ASSUME PlacesOK, NEW i \in {pos, taken}, NEW n \in i .. sent, taken <= n,
         pos' = n, taken' = n, relayed' = relayed \o Places(i, n), UNCHANGED <<sent, script>>
  PROVE  PlacesOK'
<1>1. n \in Nat /\ i \in Nat /\ n <= sent /\ i <= n /\ Len(script) \in Nat /\ sent <= Len(script)
  BY ScriptsAssumption DEF PlacesOK
<1>2. Places(i, n) \in Seq(1 .. Len(script))
  BY <1>1, PlacesType DEF PlacesOK
<1>3. relayed' \in Seq(1 .. Len(script))
  BY <1>2 DEF PlacesOK
<1> QED BY <1>1, <1>3 DEF PlacesOK

\* Every step keeps the types of the flags.
LEMMA FlagsKept ==
  ASSUME FlagsOK, [Next]_vars
  PROVE  FlagsOK'
<1> USE DEF FlagsOK, appVars
<1>1. CASE HandleConnection
  BY <1>1, Zenon DEF HandleConnection, ReadFails, FirstByte, Methods, UserPassAuth, RequestConnect, RequestUdp,
     RequestRefused, FirstFrame, RequestLine, Header, EndOfHeaders, Body
<1>2. CASE \/ Connected \/ NotConnected \/ Relay \/ ReadControl \/ RelayEnds
           \/ \E packet \in Packets : HandleUDPPacket(packet)
           \/ \E a \in Sources : HandleUDPResponse(a, <<7>>)
  BY <1>2, Zenon DEF Connected, NotConnected, Relay, ReadControl, RelayEnds, HandleUDPPacket,
     HandleUDPResponse
<1>3. CASE ServerAnswers \/ PoolCloses \/ Send \/ HangUp \/ UNCHANGED vars
  BY <1>3, Zenon DEF ServerAnswers, PoolCloses, Send, HangUp, vars
<1> QED BY <1>1, <1>2, <1>3 DEF Next

\* Every step keeps the places within the script, and FrameInv.
LEMMA PlacesKept ==
  ASSUME Typed, [Next]_vars
  PROVE  PlacesOK' /\ FrameInv'
<1> USE DEF appVars, udpVars, Typed, TypeOK, FrameInv, Handshake, Served
<1>1. CASE ReadFails \/ Connected \/ NotConnected \/ RelayEnds \/ ServerAnswers \/ PoolCloses \/ HangUp
  BY <1>1 DEF ReadFails, Connected, NotConnected, RelayEnds, ServerAnswers, PoolCloses, HangUp, Answer, PlacesOK
<1>2. CASE FirstByte \/ Methods \/ UserPassAuth \/ RequestConnect \/ RequestUdp \/ RequestRefused \/ ReadControl
  <2>1. Take /\ UNCHANGED <<sent, script, relayed>>
    BY <1>2 DEF FirstByte, Methods, UserPassAuth, RequestConnect, RequestUdp, RequestRefused, ReadControl
  <2> QED BY <2>1, ReadKeepsPlaces DEF Take
<1>3. CASE RequestLine \/ Header \/ EndOfHeaders
  <2>1. ReadBuffered /\ UNCHANGED <<sent, script, relayed>>
    BY <1>3 DEF RequestLine, Header, EndOfHeaders
  <2>2. pc' \in {"refused", "ended", "headers", "body", "wait"}
    BY <1>3 DEF RequestLine, Header, EndOfHeaders, Answer, HandOver
  <2> QED BY <2>1, <2>2, ReadKeepsPlaces
<1>4. CASE FirstFrame
  <2>1. PICK n \in pos .. sent : /\ pos' = n /\ taken' = n
                                 /\ relayed' = relayed \o Places(pos, n)
    BY <1>4 DEF FirstFrame
  <2>2. PlacesOK'
    BY <1>4, <2>1, RelayKeepsPlaces DEF FirstFrame
  <2> QED BY <1>4, <2>2 DEF FirstFrame
<1>5. CASE Relay
  <2>1. PICK n \in taken + 1 .. sent : /\ pos' = n /\ taken' = n
                                       /\ relayed' = relayed \o Places(taken, n)
    BY <1>5 DEF Relay
  <2>2. n \in taken .. sent /\ taken <= n
    BY <2>1 DEF PlacesOK
  <2>3. PlacesOK'
    BY <1>5, <2>1, <2>2, RelayKeepsPlaces DEF Relay
  <2> QED BY <1>5, <2>3 DEF Relay
<1>6. CASE Body
  <2>1. pos + 1 \in 1 .. Len(script)
    BY <1>6, PositionsKept, ScriptsAssumption DEF Body, PlacesOK
  <2>2. relayed' \in Seq(1 .. Len(script))
    BY <1>6, <2>1 DEF Body, PlacesOK
  <2> QED BY <1>6, <2>2, PositionsKept DEF Body, HandOver, PlacesOK
<1>7. CASE \/ \E packet \in Packets : HandleUDPPacket(packet)
           \/ \E a \in Sources : HandleUDPResponse(a, <<7>>)
  BY <1>7 DEF HandleUDPPacket, HandleUDPResponse, PlacesOK
<1>8. CASE Send
  <2>1. sent' \in Nat /\ sent' <= Len(script) /\ taken <= sent'
    BY <1>8, ScriptsAssumption DEF Send, PlacesOK
  <2> QED BY <1>8, <2>1 DEF Send, PlacesOK
<1>9. CASE UNCHANGED vars
  BY <1>9 DEF vars, PlacesOK
<1> QED BY <1>1, <1>2, <1>3, <1>4, <1>5, <1>6, <1>7, <1>8, <1>9 DEF Next, HandleConnection

\* Every step keeps the types of the other variables.
LEMMA ValuesKept ==
  ASSUME ValuesOK, [Next]_vars
  PROVE  ValuesOK'
<1> USE DEF ValuesOK, Handshake, Served, appVars, udpVars, Answer, HandOver
<1>1. CASE HandleConnection
  BY <1>1 DEF HandleConnection, ReadFails, FirstByte, Methods, UserPassAuth, RequestConnect, RequestUdp,
     RequestRefused, FirstFrame, RequestLine, Header, EndOfHeaders, Body
<1>2. CASE Connected \/ NotConnected \/ Relay \/ ReadControl \/ RelayEnds
  BY <1>2 DEF Connected, NotConnected, Relay, ReadControl, RelayEnds
<1>3. CASE \/ \E packet \in Packets : HandleUDPPacket(packet)
           \/ \E a \in Sources : HandleUDPResponse(a, <<7>>)
  BY <1>3 DEF HandleUDPPacket, HandleUDPResponse
<1>4. CASE ServerAnswers \/ PoolCloses \/ Send \/ HangUp \/ UNCHANGED vars
  BY <1>4 DEF ServerAnswers, PoolCloses, Send, HangUp, vars
<1> QED BY <1>1, <1>2, <1>3, <1>4 DEF Next

\* So the types are inductive.
LEMMA StepTyped == Typed /\ [Next]_vars => Typed'
BY FlagsKept, PlacesKept, ValuesKept DEF Typed, TypeOK

\* They hold at the start.
LEMMA InitTyped == Init => Typed
BY InitTypes DEF Init, Typed, FrameInv

\* Positions stay in order and within the script.
THEOREM ProxyTypeCorrect == Spec => []TypeOK
<1>1. Typed => TypeOK
  BY DEF Typed
<1> QED BY InitTyped, StepTyped, <1>1, PTL DEF Spec

-----------------------------------------------------------------------------
(* What the program knows is so: requests *)

\* Where the headers end, the program knows what a request is made of.
LEMMA HeadersEnd ==
  ASSUME pos \in Nat, 2 <= pos, KindSoFar, CredSoFar,
         \A i \in 3 .. pos : script[i] # "blank", script[pos + 1] = "blank", script[1] = "letter"
  PROVE  /\ HttpHead(pos + 1)
         /\ Authorised(pos + 1) <=> cred = "right"
         /\ HasBody(pos + 1) <=> kind = "forward" /\ body
<1>1. (pos + 1) - 1 = pos
  OBVIOUS
<1>2. HttpHead(pos + 1)
  BY <1>1 DEF HttpHead, KindSoFar
<1>3. Authorised(pos + 1) <=> cred = "right"
  <2>1. Authorised(pos + 1) <=>
          \E i \in 3 .. pos : /\ script[i] = "h right"
                              /\ \A j \in i + 1 .. pos : script[j] # "h wrong"
    BY <1>1 DEF Authorised
  <2> QED BY <2>1, Zenon DEF CredSoFar
<1>4. kind = "forward" <=> script[2] = "GET"
  BY DEF KindSoFar
<1>5. HasBody(pos + 1) <=>
        /\ script[2] = "GET"
        /\ \E i \in 3 .. pos : /\ script[i] = "h length"
                               /\ \A j \in i + 1 .. pos : script[j] # "h no length"
  BY <1>1 DEF HasBody
<1>6. HasBody(pos + 1) <=> kind = "forward" /\ body
  BY <1>4, <1>5, Zenon DEF CredSoFar
<1> QED BY <1>2, <1>3, <1>6

\* A message has one end of its headers.
LEMMA OneHead ==
  ASSUME NEW a \in Nat, NEW b \in Nat, HttpHead(a), HttpHead(b)
  PROVE  a = b
BY DEF HttpHead

\* One more header: its value replaces the one before.
LEMMA OneMoreHeader ==
  ASSUME pos \in Nat, 2 <= pos, CredSoFar, Header, UNCHANGED script
  PROVE  CredSoFar'
<1>0. pos' = pos + 1
  BY Zenon DEF Header, ReadBuffered
<1>1. \A i : i \in 3 .. pos' <=> i \in 3 .. pos \/ i = pos'
  BY <1>0
<1>2. \A i \in 3 .. pos : \A j : j \in i + 1 .. pos' <=> j \in i + 1 .. pos \/ j = pos'
  BY <1>0
<1>3. \A j : j \notin pos' + 1 .. pos'
  BY <1>0
<1>4. cred' = IF script[pos'] = "h right" THEN "right" ELSE IF script[pos'] = "h wrong" THEN "wrong" ELSE cred
  BY <1>0, Zenon DEF Header, Part
<1>5. body' <=> script[pos'] = "h length" \/ (body /\ script[pos'] # "h no length")
  <2>1. body' = (script[pos'] = "h length" \/ (body /\ script[pos'] # "h no length"))
    BY <1>0, Zenon DEF Header, Part
  <2> QED BY <2>1, Zenon
<1>6. cred' = "right" <=> \E i \in 3 .. pos' : /\ script[i] = "h right"
                                             /\ \A j \in i + 1 .. pos' : script[j] # "h wrong"
  <2>1. CASE script[pos'] = "h right"
    BY <2>1, <1>1, <1>3, <1>4
  <2>2. CASE script[pos'] = "h wrong"
    BY <2>2, <1>1, <1>2, <1>3, <1>4
  <2>3. CASE script[pos'] \notin {"h right", "h wrong"}
    BY <2>3, <1>1, <1>2, <1>3, <1>4 DEF CredSoFar
  <2> QED BY <2>1, <2>2, <2>3
<1>7. body' <=> \E i \in 3 .. pos' : /\ script[i] = "h length"
                                      /\ \A j \in i + 1 .. pos' : script[j] # "h no length"
  <2>1. CASE script[pos'] = "h length"
    BY <2>1, <1>0, <1>1, <1>3, <1>5
  <2>2. CASE script[pos'] = "h no length"
    BY <2>2, <1>0, <1>1, <1>2, <1>5
  <2>3. CASE script[pos'] \notin {"h length", "h no length"}
    BY <2>3, <1>1, <1>2, <1>3, <1>5 DEF CredSoFar
  <2> QED BY <2>1, <2>2, <2>3
<1> QED BY <1>6, <1>7 DEF CredSoFar

\* Requests are a matter of the script and of the configuration alone.
LEMMA RequestsStay ==
  ASSUME UNCHANGED <<script, protected>>, NEW n
  PROVE  /\ HttpHead(n)' <=> HttpHead(n)
         /\ HasBody(n)' <=> HasBody(n)
         /\ Authorised(n)' <=> Authorised(n)
         /\ Request(n)' <=> Request(n)
<1>1. \A b : HttpHead(b)' <=> HttpHead(b)
  BY DEF HttpHead
<1>2. \A b : HasBody(b)' <=> HasBody(b)
  BY DEF HasBody
<1>3. \A b : Authorised(b)' <=> Authorised(b)
  BY DEF Authorised
<1>4. Socks5Request(n)' <=> Socks5Request(n)
  BY DEF Socks5Request
<1>5. HttpRequest(n)' <=> HttpRequest(n)
  BY <1>1, <1>2, <1>3 DEF HttpRequest
<1> QED BY <1>1, <1>2, <1>3, <1>4, <1>5 DEF Request

\* Steps that turn nobody away, give nothing out and read nothing of a request.
LEMMA OtherStepsKnow ==
  ASSUME Known, PlacesOK, UNCHANGED <<script, protected, cred, body, kind>>, pos' \in Nat, pos <= pos',
         pc' = "ended" \/ (pc' = pc /\ pos' = pos) \/ (pc \in Served \cup {"frame"} /\ pc' \in Served)
  PROVE  Known'
<1>1. CASE pc' = "ended"
  BY <1>1 DEF Known, Served
<1>2. CASE pc' = pc /\ pos' = pos
  <2>1. (KindSoFar' <=> KindSoFar) /\ (CredSoFar' <=> CredSoFar)
    BY <1>2 DEF KindSoFar, CredSoFar
  <2> QED BY <1>2, <2>1, RequestsStay, Zenon DEF Known, Served
<1>3. CASE pc \in Served \cup {"frame"} /\ pc' \in Served
  <2>1. \E n \in 1 .. pos : Request(n)
    BY <1>3 DEF Known
  <2>2. \E n \in 1 .. pos' : Request(n)'
    BY <2>1, <1>3, RequestsStay DEF PlacesOK
  <2> QED BY <1>3, <2>2 DEF Known, Served
<1> QED BY <1>1, <1>2, <1>3

\* The handshake of SOCKS5, message by message.
LEMMA Socks5StepsKnow ==
  ASSUME Typed, Known,
         FirstByte \/ Methods \/ UserPassAuth \/ RequestConnect \/ RequestUdp \/ RequestRefused
  PROVE  Known'
<1> USE DEF Typed, TypeOK, Served
<1>1. /\ UNCHANGED <<script, protected, cred, body>> /\ pos' = pos + 1 /\ Part = script[pos + 1]
      /\ pos \in Nat /\ pos < Len(script)
  <2>1. Take /\ UNCHANGED <<script, protected, cred, body, sent>>
    BY DEF FirstByte, Methods, UserPassAuth, RequestConnect, RequestUdp, RequestRefused, appVars
  <2>2. pos < sent /\ pos' = pos + 1
    BY <2>1 DEF Take
  <2> QED BY <2>1, <2>2, ScriptsAssumption DEF Part, PlacesOK
<1>2. \A n : Request(n)' <=> Request(n)
  BY <1>1, RequestsStay
<1>3. CASE FirstByte
  <2>1. pos = 0
    BY <1>3 DEF FirstByte, Known
  <2>2. CASE pc' = "refused"
    <3>1. script[1] \notin {"5", "letter"}
      BY <1>1, <1>3, <2>1, <2>2 DEF FirstByte
    <3>2. \A n : ~Request(n)
      BY <3>1, Zenon DEF Request, Socks5Request, HttpRequest, HttpHead
    <3> QED BY <1>2, <2>2, <3>2 DEF Known
  <2>3. CASE pc' = "methods"
    BY <1>1, <1>3, <2>1, <2>3 DEF FirstByte, Known
  <2>4. CASE pc' = "line"
    BY <1>1, <1>3, <2>1, <2>4 DEF FirstByte, Known
  <2> QED BY <1>3, <2>2, <2>3, <2>4 DEF FirstByte
<1>4. CASE Methods
  <2>1. pos = 1 /\ script[1] = "5" /\ cred = "none" /\ ~body
    BY <1>4 DEF Methods, Known
  <2>2. CASE pc' = "ended"
    BY <2>2 DEF Known
  <2>3. CASE pc' = "request"
    <3>1. ~protected
      BY <1>4, <2>3 DEF Methods, Answer
    <3> QED BY <1>1, <2>1, <2>3, <3>1 DEF Known
  <2>4. CASE pc' = "auth"
    <3>1. protected /\ script[2] = "methods+auth"
      BY <1>1, <1>4, <2>1, <2>4 DEF Methods, Answer
    <3> QED BY <1>1, <2>1, <2>4, <3>1 DEF Known
  <2>5. CASE pc' = "refused"
    <3>1. protected /\ script[2] # "methods+auth"
      BY <1>1, <1>4, <2>1, <2>5 DEF Methods, Answer
    <3>2. \A n : ~Request(n)
      BY <2>1, <3>1 DEF Request, Socks5Request, HttpRequest, HttpHead
    <3> QED BY <1>2, <2>5, <3>2 DEF Known
  <2> QED BY <1>4, <2>2, <2>3, <2>4, <2>5 DEF Methods, Answer
<1>5. CASE UserPassAuth
  <2>1. pos = 2 /\ script[1] = "5" /\ script[2] = "methods+auth"
    BY <1>5 DEF UserPassAuth, Known
  <2>0. protected /\ protected' /\ cred' = "none" /\ ~body'
    <3>1. protected /\ cred = "none" /\ ~body
      BY <1>5, Zenon DEF UserPassAuth, Known
    <3> QED BY <1>1, <3>1
  <2>6. Part = script[3] /\ pos' = 3 /\ script' = script
    BY <1>1, <2>1
  <2>2. CASE pc' = "ended"
    BY <2>2 DEF Known
  <2>3. CASE pc' = "request"
    <3>1. script[3] = "auth right"
      BY <1>5, <2>3, <2>6 DEF UserPassAuth, Answer
    <3> QED BY <2>0, <2>1, <2>3, <2>6, <3>1, Zenon DEF Known
  <2>4. CASE pc' = "refused"
    <3>1. script[3] # "auth right"
      BY <1>5, <2>4, <2>6 DEF UserPassAuth, Answer
    <3>2. \A n : ~Request(n)
      BY <2>0, <2>1, <3>1, Zenon DEF Request, Socks5Request, HttpRequest, HttpHead
    <3> QED BY <1>2, <2>4, <3>2 DEF Known
  <2> QED BY <1>5, <2>2, <2>3, <2>4 DEF UserPassAuth, Answer
<1>6. CASE RequestConnect \/ RequestUdp \/ RequestRefused
  <2>1. /\ script[1] = "5"
        /\ IF protected THEN pos' = 4 /\ script[2] = "methods+auth" /\ script[3] = "auth right"
           ELSE pos' = 3
    <3>1. /\ script[1] = "5"
          /\ IF protected THEN pos = 3 /\ script[2] = "methods+auth" /\ script[3] = "auth right"
             ELSE pos = 2
      BY <1>6 DEF RequestConnect, RequestUdp, RequestRefused, Known
    <3>2. pos' = pos + 1
      BY <1>1
    <3>3. pos = 2 => pos' = 3
      BY <3>2
    <3>4. pos = 3 => pos' = 4
      BY <3>2
    <3> QED BY <3>1, <3>3, <3>4, Zenon
  <2>5. Part = script[pos']
    BY <1>1
  <2>2. CASE pc' = "ended"
    BY <2>2 DEF Known
  <2>3. CASE pc' \in {"frame", "assoc"}
    <3>1. Part \in {"connect", "udp"}
      BY <1>6, <2>3 DEF RequestConnect, RequestUdp, RequestRefused, Answer
    <3>2. Request(pos')
      <4>1. CASE protected
        BY <2>1, <2>5, <3>1, <4>1 DEF Request, Socks5Request
      <4>2. CASE ~protected
        BY <2>1, <2>5, <3>1, <4>2 DEF Request, Socks5Request
      <4> QED BY <4>1, <4>2
    <3>3. pos' \in 1 .. pos'
      BY <1>1
    <3> QED BY <1>2, <2>3, <3>2, <3>3, Zenon DEF Known
  <2>4. CASE pc' = "refused"
    <3>1. Part \notin {"connect", "udp"}
      BY <1>6, <2>4 DEF RequestConnect, RequestUdp, RequestRefused, Answer
    <3>2. \A n : ~Request(n)
      BY <2>1, <2>5, <3>1, Zenon DEF Request, Socks5Request, HttpRequest, HttpHead
    <3> QED BY <1>2, <2>4, <3>2, Zenon DEF Known
  <2> QED BY <1>6, <2>2, <2>3, <2>4 DEF RequestConnect, RequestUdp, RequestRefused, Answer
<1> QED BY <1>3, <1>4, <1>5, <1>6

\* The handshake of HTTP, line by line.
LEMMA HttpStepsKnow ==
  ASSUME Typed, Known, RequestLine \/ Header \/ EndOfHeaders \/ Body
  PROVE  Known'
<1> USE DEF Typed, TypeOK, Served
<1>1. /\ UNCHANGED <<script, protected>> /\ pos' = pos + 1 /\ Part = script[pos + 1]
      /\ pos \in Nat /\ pos < Len(script) /\ Len(script) \in Nat
  <2>1. ReadBuffered /\ UNCHANGED <<script, protected, sent>>
    BY DEF RequestLine, Header, EndOfHeaders, Body, appVars
  <2>2. pos < sent /\ pos' = pos + 1
    BY <2>1 DEF ReadBuffered
  <2> QED BY <2>1, <2>2, ScriptsAssumption DEF Part, PlacesOK
<1>2. \A n : Request(n)' <=> Request(n)
  BY <1>1, RequestsStay
<1>3. CASE RequestLine
  <2>1. pos = 1 /\ script[1] = "letter" /\ cred = "none" /\ ~body
    BY <1>3 DEF RequestLine, Known
  <2>2. CASE script[2] \in {"CONNECT", "GET"}
    <3>1. pc' = "headers" /\ KindSoFar'
      BY <1>1, <1>3, <2>1, <2>2 DEF RequestLine, KindSoFar
    <3>2. pos' = 2 /\ cred' = "none" /\ ~body'
      BY <1>1, <1>3, <2>1 DEF RequestLine
    <3>3. CredSoFar'
      BY <3>2 DEF CredSoFar
    <3>4. 2 <= pos' /\ \A i \in 3 .. pos' : script'[i] # "blank"
      BY <3>2
    <3> QED BY <3>1, <3>3, <3>4, Zenon DEF Known
  <2>3. CASE script[2] \notin {"CONNECT", "GET"}
    <3>1. pc' = "refused"
      BY <1>1, <1>3, <2>1, <2>3 DEF RequestLine
    <3>2. \A n : ~Request(n)
      BY <2>1, <2>3 DEF Request, Socks5Request, HttpRequest, HttpHead
    <3> QED BY <1>2, <3>1, <3>2 DEF Known
  <2> QED BY <2>2, <2>3
<1>4. CASE Header
  <2>1. /\ pc' = "headers" /\ 2 <= pos /\ KindSoFar /\ CredSoFar
        /\ \A i \in 3 .. pos : script[i] # "blank"
    BY <1>4 DEF Header, Known
  <2>2. CredSoFar'
    BY <1>1, <1>4, <2>1, OneMoreHeader
  <2>3. KindSoFar'
    BY <1>1, <1>4, <2>1 DEF Header, KindSoFar
  <2>4. script[pos + 1] # "blank"
    BY <1>1, <1>4 DEF Header
  <2>5. 2 <= pos' /\ \A i \in 3 .. pos' : script'[i] # "blank"
    BY <1>1, <2>1, <2>4
  <2> QED BY <2>1, <2>2, <2>3, <2>5, Zenon DEF Known
<1>5. CASE EndOfHeaders
  <2>1. /\ 2 <= pos /\ KindSoFar /\ CredSoFar /\ script[1] = "letter"
        /\ \A i \in 3 .. pos : script[i] # "blank"
    BY <1>5 DEF EndOfHeaders, Known, KindSoFar
  <2>2. script[pos + 1] = "blank"
    BY <1>1, <1>5 DEF EndOfHeaders
  <2>3. /\ HttpHead(pos') /\ (Authorised(pos') <=> cred = "right")
        /\ HasBody(pos') <=> kind = "forward" /\ body
    BY <1>1, <2>1, <2>2, HeadersEnd
  <2>4. CASE pc' = "ended"
    BY <2>4 DEF Known
  <2>5. CASE pc' = "refused"
    <3>1. protected /\ cred # "right"
      BY <1>5, <2>5, Zenon DEF EndOfHeaders, HandOver
    <3>2. \A n \in 1 .. Len(script) : ~Request(n)
      <4>1. SUFFICES ASSUME NEW n \in 1 .. Len(script), Request(n) PROVE FALSE
        OBVIOUS
      <4>2. HttpRequest(n)
        BY <2>1, <4>1 DEF Request, Socks5Request
      <4>3. PICK b \in 1 .. n : HttpHead(b) /\ Authorised(b)
        BY <3>1, <4>2 DEF HttpRequest
      <4>4. b = pos'
        BY <1>1, <2>3, <4>3, OneHead
      <4> QED BY <2>3, <3>1, <4>3, <4>4
    <3> QED BY <1>1, <1>2, <2>5, <3>2 DEF Known
  <2>6. CASE pc' = "body"
    <3>1. /\ protected => cred = "right"
          /\ kind = "forward" /\ body
      BY <1>5, <2>6, Zenon DEF EndOfHeaders, HandOver, Answer
    <3>2. HttpHead(pos') /\ HasBody(pos') /\ (protected => Authorised(pos'))
      BY <2>3, <3>1, Zenon
    <3>3. HttpHead(pos)' /\ HasBody(pos)' /\ (protected => Authorised(pos))'
      <4>1. HttpHead(pos)'
        BY <1>1, <3>2 DEF HttpHead
      <4>2. HasBody(pos)'
        BY <1>1, <3>2 DEF HasBody
      <4>3. (protected => Authorised(pos))'
        BY <1>1, <3>2 DEF Authorised
      <4> QED BY <4>1, <4>2, <4>3
    <3> QED BY <2>6, <3>3, Zenon DEF Known
  <2>7. CASE pc' = "wait"
    <3>1. /\ protected => cred = "right"
          /\ ~(kind = "forward" /\ body)
      BY <1>5, <2>7, Zenon DEF EndOfHeaders, Answer
    <3>2. HttpHead(pos') /\ ~HasBody(pos') /\ (protected => Authorised(pos'))
      BY <2>3, <3>1, Zenon
    <3>3. Request(pos')
      BY <1>1, <3>2 DEF Request, HttpRequest
    <3>4. pos' \in 1 .. pos'
      BY <1>1
    <3> QED BY <1>2, <2>7, <3>3, <3>4, Zenon DEF Known
  <2> QED BY <1>5, <2>4, <2>5, <2>6, <2>7 DEF EndOfHeaders, HandOver, Answer
<1>6. CASE Body
  <2>1. HttpHead(pos) /\ HasBody(pos) /\ (protected => Authorised(pos))
    BY <1>6 DEF Body, Known
  <2>2. pos \in 1 .. pos'
    BY <1>1, <2>1 DEF HttpHead
  <2>3. Request(pos')
    BY <1>1, <2>1, <2>2 DEF Request, HttpRequest
  <2>4. pc' = "wait"
    BY <1>6 DEF Body, HandOver
  <2>5. pos' \in 1 .. pos'
    BY <1>1
  <2> QED BY <1>2, <2>3, <2>4, <2>5, Zenon DEF Known
<1> QED BY <1>3, <1>4, <1>5, <1>6

\* Every step keeps what is known of the connection.
LEMMA StepKnown ==
  ASSUME Typed, Known, [Next]_vars
  PROVE  Known'
<1> USE DEF Typed, TypeOK, appVars, udpVars
<1>1. CASE FirstByte \/ Methods \/ UserPassAuth \/ RequestConnect \/ RequestUdp \/ RequestRefused
  BY <1>1, Socks5StepsKnow
<1>2. CASE RequestLine \/ Header \/ EndOfHeaders \/ Body
  BY <1>2, HttpStepsKnow
<1>3. CASE ReadFails \/ RelayEnds \/ NotConnected
  BY <1>3, OtherStepsKnow DEF ReadFails, RelayEnds, NotConnected, PlacesOK
<1>4. CASE FirstFrame \/ Relay \/ Connected \/ ReadControl
  <2>1. UNCHANGED <<script, protected, cred, body, kind>> /\ pos' \in Nat /\ pos <= pos'
    BY <1>4 DEF FirstFrame, Relay, Connected, ReadControl, Take, PlacesOK
  <2>2. pc' = "ended" \/ (pc \in Served \cup {"frame"} /\ pc' \in Served)
    BY <1>4 DEF FirstFrame, Relay, Connected, ReadControl, Answer, Served
  <2> QED BY <2>1, <2>2, OtherStepsKnow
<1>5. CASE \/ ServerAnswers \/ PoolCloses \/ Send \/ HangUp \/ UNCHANGED vars
           \/ \E packet \in Packets : HandleUDPPacket(packet)
           \/ \E a \in Sources : HandleUDPResponse(a, <<7>>)
  <2>1. UNCHANGED <<script, protected, cred, body, kind, pc, pos>>
    BY <1>5, Zenon DEF ServerAnswers, PoolCloses, Send, HangUp, HandleUDPPacket, HandleUDPResponse, vars
  <2> QED BY <2>1, OtherStepsKnow DEF PlacesOK
<1> QED BY <1>1, <1>2, <1>3, <1>4, <1>5 DEF Next, HandleConnection

\* The invariant the theorems follow from.
LEMMA ProxyInvariant == Spec => []ProxyInv
<1>1. Init => ProxyInv
  <2>1. Init => Known
    BY DEF Init, Known, Served
  <2> QED BY <2>1, InitTyped DEF ProxyInv
<1>2. ProxyInv /\ [Next]_vars => ProxyInv'
  BY StepTyped, StepKnown DEF ProxyInv
<1> QED BY <1>1, <1>2, PTL DEF Spec

\* Nobody is served who has not sent a complete request, with the right
\* credentials where they are asked for: for any script, however it arrives.
THEOREM OnlyRequests == Spec => []OnlyRequestsAreServed
<1>1. ProxyInv => OnlyRequestsAreServed
  <2> SUFFICES ASSUME ProxyInv, pc \in Served \cup {"frame"} PROVE \E n \in 1 .. sent : Request(n)
    BY DEF OnlyRequestsAreServed
  <2>1. \E n \in 1 .. pos : Request(n)
    BY Zenon DEF ProxyInv, Known
  <2>2. pos \in Nat /\ sent \in Nat /\ pos <= sent
    BY DEF ProxyInv, Typed, TypeOK, PlacesOK
  <2> QED BY <2>1, <2>2
<1> QED BY ProxyInvariant, <1>1, PTL

\* And nobody is turned away who has.
THEOREM EveryRequest == Spec => []RequestsAreServed
<1>1. ProxyInv => RequestsAreServed
  <2> SUFFICES ASSUME ProxyInv, pc = "refused" PROVE ~ \E n \in 1 .. sent : Request(n)
    BY DEF RequestsAreServed
  <2>1. \A n \in 1 .. Len(script) : ~Request(n)
    BY DEF ProxyInv, Known
  <2>2. sent \in Nat /\ Len(script) \in Nat /\ sent <= Len(script)
    BY ScriptsAssumption DEF ProxyInv, Typed, TypeOK, PlacesOK
  <2> QED BY <2>1, <2>2
<1> QED BY ProxyInvariant, <1>1, PTL

-----------------------------------------------------------------------------
(* Nothing is lost *)

\* Until the request is answered nothing is sent behind it, unless early says
\* so; until it is read nothing is relayed.
NotEarly == ~early /\ ~answered => \A n \in 1 .. sent : Request(n) => n = sent
NothingYet == pc \in Handshake => relayed = << >> /\ ~answered
SocksKind == /\ pc = "frame" => Socks5Request(pos)
             /\ pc \in {"headers", "body"} => kind # "socks5"
LossInv == NotEarly /\ NothingYet /\ SocksKind /\ NothingIsLost

\* Places(i, j) is i + 1 to j, in order.
LEMMA PlacesAre ==
  ASSUME NEW i \in Nat, NEW j \in Nat, i <= j
  PROVE  /\ Places(i, j) \in Seq(Nat)
         /\ Len(Places(i, j)) = j - i
         /\ \A n \in 1 .. j - i : Places(i, j)[n] = i + n
<1>1. j - i \in Nat /\ \A n \in 1 .. j - i : i + n \in Nat
  OBVIOUS
<1>2. Places(i, j) \in [1 .. j - i -> Nat] /\ \A n \in 1 .. j - i : Places(i, j)[n] = i + n
  BY <1>1 DEF Places
<1>3. Places(i, j) \in Seq(Nat)
  BY <1>1, <1>2
<1>4. Len(Places(i, j)) = j - i
  <2>1. DOMAIN Places(i, j) = 1 .. j - i
    BY <1>2
  <2>2. Len(Places(i, j)) \in Nat /\ DOMAIN Places(i, j) = 1 .. Len(Places(i, j))
    BY <1>3, LenProperties
  <2> QED BY <1>1, <2>1, <2>2
<1> QED BY <1>2, <1>3, <1>4

\* Adjacent stretches of the script join.
LEMMA PlacesJoin ==
  ASSUME NEW i \in Nat, NEW j \in Nat, i <= j, NEW k \in Nat, j <= k
  PROVE  Places(i, j) \o Places(j, k) = Places(i, k)
<1> DEFINE s == Places(i, j)
           t == Places(j, k)
           u == Places(i, k)
<1>1. i <= k
  OBVIOUS
<1>2. s \in Seq(Nat) /\ Len(s) = j - i /\ \A n \in 1 .. j - i : s[n] = i + n
  BY PlacesAre
<1>3. t \in Seq(Nat) /\ Len(t) = k - j /\ \A n \in 1 .. k - j : t[n] = j + n
  BY PlacesAre
<1>4. u \in Seq(Nat) /\ Len(u) = k - i /\ \A n \in 1 .. k - i : u[n] = i + n
  BY <1>1, PlacesAre
<1> HIDE DEF s, t, u
<1>5. /\ s \o t \in Seq(Nat) /\ Len(s \o t) = Len(s) + Len(t)
      /\ \A n \in 1 .. Len(s) + Len(t) : (s \o t)[n] = IF n <= Len(s) THEN s[n] ELSE t[n - Len(s)]
  BY <1>2, <1>3, ConcatProperties
<1>6. Len(s \o t) = Len(u)
  BY <1>2, <1>3, <1>4, <1>5
<1>7. ASSUME NEW n \in 1 .. Len(s \o t) PROVE (s \o t)[n] = u[n]
  <2>1. n \in 1 .. k - i /\ u[n] = i + n
    BY <1>4, <1>6
  <2>2. CASE n <= j - i
    BY <1>2, <1>3, <1>5, <2>1, <2>2
  <2>3. CASE ~(n <= j - i)
    <3>1. n - (j - i) \in 1 .. k - j /\ j + (n - (j - i)) = i + n
      BY <2>1, <2>3
    <3> QED BY <1>2, <1>3, <1>5, <2>1, <2>3, <3>1
  <2> QED BY <2>2, <2>3
<1>8. s \o t = u
  BY <1>4, <1>5, <1>6, <1>7, SeqEqual
<1> QED BY <1>8 DEF s, t, u

\* Every step keeps it that nothing is sent behind an unanswered request.
LEMMA NotEarlyKept ==
  ASSUME Typed, NotEarly, [Next]_vars
  PROVE  NotEarly'
<1> USE DEF appVars, udpVars
<1>1. CASE Send
  <2>1. script' = script /\ protected' = protected /\ sent' = sent + 1 /\ answered' = answered
    BY <1>1, Zenon DEF Send
  <2>2. early' = (early \/ (~answered /\ \E n \in 1 .. sent : Request(n)))
    BY <1>1, Zenon DEF Send
  <2>3. ASSUME ~early', ~answered', NEW n \in 1 .. sent', Request(n)'
        PROVE  n = sent'
    <3>1. Request(n)
      BY <2>1, <2>3, RequestsStay
    <3>2. \A m \in 1 .. sent : ~Request(m)
      BY <2>1, <2>2, <2>3, Zenon
    <3>3. n \notin 1 .. sent
      BY <3>1, <3>2
    <3>4. sent \in Nat
      BY DEF Typed, TypeOK, PlacesOK
    <3> QED BY <2>1, <3>3, <3>4
  <2> QED BY <2>3, Zenon DEF NotEarly
<1>2. CASE ~Send
  <2>1. UNCHANGED <<script, protected, sent, early>>
    <3>1. CASE HandleConnection
      BY <3>1 DEF HandleConnection, ReadFails, FirstByte, Methods, UserPassAuth, RequestConnect,
         RequestUdp, RequestRefused, FirstFrame, RequestLine, Header, EndOfHeaders, Body
    <3>2. CASE \/ Connected \/ NotConnected \/ Relay \/ ReadControl \/ RelayEnds
               \/ ServerAnswers \/ PoolCloses \/ HangUp \/ UNCHANGED vars
               \/ \E packet \in Packets : HandleUDPPacket(packet)
               \/ \E a \in Sources : HandleUDPResponse(a, <<7>>)
      BY <3>2 DEF Connected, NotConnected, Relay, ReadControl, RelayEnds, HandleUDPPacket,
         HandleUDPResponse, ServerAnswers, PoolCloses, HangUp, vars
    <3> QED BY <1>2, <3>1, <3>2 DEF Next
  <2>2. answered' = answered \/ answered' = TRUE
    <3>1. CASE HandleConnection
      BY <3>1 DEF HandleConnection, ReadFails, FirstByte, Methods, UserPassAuth, RequestConnect,
         RequestUdp, RequestRefused, FirstFrame, RequestLine, Header, EndOfHeaders, Body
    <3>2. CASE \/ Connected \/ NotConnected \/ Relay \/ ReadControl \/ RelayEnds
               \/ ServerAnswers \/ PoolCloses \/ HangUp \/ UNCHANGED vars
               \/ \E packet \in Packets : HandleUDPPacket(packet)
               \/ \E a \in Sources : HandleUDPResponse(a, <<7>>)
      BY <3>2 DEF Connected, NotConnected, Relay, ReadControl, RelayEnds, HandleUDPPacket,
         HandleUDPResponse, ServerAnswers, PoolCloses, HangUp, vars
    <3> QED BY <1>2, <3>1, <3>2 DEF Next
  <2>3. \A n : Request(n)' <=> Request(n)
    BY <2>1, RequestsStay
  <2>4. sent' = sent /\ early' = early
    BY <2>1
  <2> QED BY <2>2, <2>3, <2>4, Zenon DEF NotEarly
<1> QED BY <1>1, <1>2

\* Every step keeps it that nothing is relayed or answered during the handshake.
LEMMA NothingYetKept ==
  ASSUME NothingYet, [Next]_vars
  PROVE  NothingYet'
<1> USE DEF NothingYet, Handshake, appVars, udpVars
<1>1. CASE UNCHANGED <<pc, relayed, answered>>
  <2>1. pc' = pc /\ relayed' = relayed /\ answered' = answered
    BY <1>1
  <2> QED BY <2>1, Zenon
<1>2. CASE pc' \notin Handshake
  BY <1>2
<1>3. CASE FirstByte \/ Methods \/ UserPassAuth \/ RequestConnect \/ RequestLine \/ Header
  <2>1. pc \in Handshake /\ relayed' = relayed /\ answered' = answered
    BY <1>3, Zenon DEF FirstByte, Methods, UserPassAuth, RequestConnect, RequestLine, Header
  <2> QED BY <2>1, Zenon
<1>4. CASE EndOfHeaders
  <2>1. pc \in Handshake /\ relayed' = relayed /\ answered' = answered
    BY <1>4, Zenon DEF EndOfHeaders
  <2> QED BY <2>1, Zenon
<1>5. CASE RequestUdp \/ RequestRefused \/ FirstFrame \/ Body \/ ReadFails
  <2>1. pc' \notin Handshake
    BY <1>5 DEF RequestUdp, RequestRefused, FirstFrame, Body, ReadFails, HandOver, Answer
  <2> QED BY <1>2, <2>1
<1>6. CASE Connected \/ NotConnected \/ RelayEnds
  <2>1. pc' \notin Handshake
    BY <1>6 DEF Connected, NotConnected, RelayEnds, Answer
  <2> QED BY <1>2, <2>1
<1>7. CASE Relay \/ ReadControl \/ ServerAnswers \/ PoolCloses
  <2>1. pc' \notin Handshake
    BY <1>7 DEF Relay, ReadControl, ServerAnswers, PoolCloses
  <2> QED BY <1>2, <2>1
<1>8. CASE \/ Send \/ HangUp \/ UNCHANGED vars
           \/ \E packet \in Packets : HandleUDPPacket(packet)
           \/ \E a \in Sources : HandleUDPResponse(a, <<7>>)
  BY <1>8, <1>1 DEF Send, HangUp, vars, HandleUDPPacket, HandleUDPResponse
<1> QED BY <1>3, <1>4, <1>5, <1>6, <1>7, <1>8 DEF Next, HandleConnection

\* Every step keeps the kind that goes with the place.
LEMMA SocksKindKept ==
  ASSUME Typed, Known, SocksKind, [Next]_vars
  PROVE  SocksKind'
<1> USE DEF appVars, udpVars
<1>1. CASE RequestConnect
  <2>1. UNCHANGED <<script, protected>> /\ Part \in {"connect", "udp"} /\ pos' = pos + 1 /\ pos \in Nat
    BY <1>1 DEF RequestConnect, Take, Typed, TypeOK, PlacesOK
  <2>2. /\ script[1] = "5"
        /\ IF protected THEN pos = 3 /\ script[2] = "methods+auth" /\ script[3] = "auth right"
           ELSE pos = 2
    BY <1>1 DEF RequestConnect, Known
  <2>3. Part = script[pos'] /\ (pos = 3 => pos' = 4) /\ (pos = 2 => pos' = 3)
    BY <2>1 DEF Part
  <2>4. Part \in {"connect", "udp"}
    BY <2>1
  <2>5. Socks5Request(pos')
    BY <2>2, <2>3, <2>4, Zenon DEF Socks5Request
  <2>6. Socks5Request(pos)'
    BY <2>1, <2>5 DEF Socks5Request
  <2> QED BY <1>1, <2>6 DEF RequestConnect, SocksKind
<1>2. CASE pc' \notin {"frame", "headers", "body"}
  BY <1>2 DEF SocksKind
<1>3. CASE RequestLine
  BY <1>3 DEF RequestLine, SocksKind
<1>4. CASE Header
  BY <1>4 DEF Header, SocksKind
<1>5. CASE EndOfHeaders
  <2>1. pc = "headers" /\ pc' # "frame" /\ kind' = kind
    BY <1>5 DEF EndOfHeaders, Answer, HandOver
  <2> QED BY <2>1 DEF SocksKind
<1>6. CASE UNCHANGED <<pc, kind, pos, script, protected>>
  <2>1. Socks5Request(pos)' <=> Socks5Request(pos)
    BY <1>6 DEF Socks5Request
  <2>2. pc' = pc /\ kind' = kind
    BY <1>6
  <2> QED BY <2>1, <2>2 DEF SocksKind
<1>7. CASE FirstByte \/ Methods \/ UserPassAuth \/ RequestUdp \/ RequestRefused
  <2>1. pc' \notin {"frame", "headers", "body"}
    BY <1>7 DEF FirstByte, Methods, UserPassAuth, RequestUdp, RequestRefused, Answer
  <2> QED BY <1>2, <2>1
<1>8. CASE FirstFrame \/ Body \/ ReadFails \/ Connected \/ NotConnected \/ RelayEnds
  <2>1. pc' \notin {"frame", "headers", "body"}
    BY <1>8 DEF FirstFrame, Body, ReadFails, Connected, NotConnected, RelayEnds, HandOver, Answer
  <2> QED BY <1>2, <2>1
<1>9. CASE Relay \/ ReadControl \/ ServerAnswers \/ PoolCloses
  <2>1. pc' \notin {"frame", "headers", "body"}
    BY <1>9 DEF Relay, ReadControl, ServerAnswers, PoolCloses
  <2> QED BY <1>2, <2>1
<1>10. CASE \/ Send \/ HangUp \/ UNCHANGED vars
            \/ \E packet \in Packets : HandleUDPPacket(packet)
            \/ \E a \in Sources : HandleUDPResponse(a, <<7>>)
  BY <1>10, <1>6 DEF Send, HangUp, vars, HandleUDPPacket, HandleUDPResponse
<1> QED BY <1>1, <1>3, <1>4, <1>5, <1>7, <1>8, <1>9, <1>10 DEF Next, HandleConnection

\* The ends of requests are a matter of the script and of the configuration.
LEMMA EndsStay ==
  ASSUME UNCHANGED <<script, protected>>, NEW n
  PROVE  EndOfRequest(n)' <=> EndOfRequest(n)
<1>1. HttpHead(n)' <=> HttpHead(n)
  BY DEF HttpHead
<1>2. Socks5Request(n)' <=> Socks5Request(n)
  BY DEF Socks5Request
<1> QED BY <1>1, <1>2 DEF EndOfRequest

\* The three ways into the session, and the relay loop.
LEMMA NothingIsLostKept ==
  ASSUME Typed, Known, Typed', Known', LossInv, [Next]_vars
  PROVE  NothingIsLost'
<1> USE DEF appVars, udpVars
<1>1. script \in Seq(Parts) /\ pos \in Nat /\ taken \in Nat /\ sent \in Nat /\ pos <= taken /\ taken <= sent
  BY ScriptsAssumption DEF Typed, TypeOK, PlacesOK
<1>2. /\ pos' \in Nat /\ taken' \in Nat /\ sent' \in Nat /\ pos' <= taken' /\ taken' <= sent'
  BY DEF Typed, TypeOK, PlacesOK
<1>3. CASE pc' \notin {"wait", "relay"}
  BY <1>3 DEF NothingIsLost
<1>4. CASE FirstFrame
  <2>1. Socks5Request(pos) /\ relayed = << >> /\ pos = taken /\ UNCHANGED <<script, protected>>
    BY <1>4 DEF FirstFrame, LossInv, SocksKind, NothingYet, Handshake, Typed, FrameInv
  <2>2. pos \in 1 .. taken' /\ relayed' = relayed \o Places(pos, taken')
    <3>1. pos \in {3, 4}
      BY <2>1, Zenon DEF Socks5Request
    <3>2. pos <= taken' /\ relayed' = relayed \o Places(pos, taken')
      BY <1>1, <1>4 DEF FirstFrame
    <3> QED BY <1>2, <3>1, <3>2
  <2>3. Places(pos, taken') \in Seq(Nat)
    BY <1>1, <1>2, <2>2, PlacesAre
  <2>4. relayed' = Places(pos, taken')
    BY <2>1, <2>2, <2>3
  <2>5. EndOfRequest(pos)
    BY <2>1, Zenon DEF EndOfRequest
  <2>6. EndOfRequest(pos) <=> \E n \in {pos} : EndOfRequest(n)'
    BY <2>1, EndsStay
  <2> QED BY <2>2, <2>4, <2>5, <2>6 DEF NothingIsLost, Places
<1>5. CASE EndOfHeaders /\ pc' = "wait"
  <2>1. /\ UNCHANGED <<script, protected>> /\ relayed' = << >> /\ pos' = pos + 1 /\ script[pos'] = "blank"
        /\ 2 <= pos /\ KindSoFar /\ \A i \in 3 .. pos : script[i] # "blank"
    BY <1>5 DEF EndOfHeaders, ReadBuffered, Part, Known, LossInv, NothingYet, Handshake
  <2>2. HttpHead(pos')
    BY <1>1, <2>1 DEF HttpHead, KindSoFar
  <2>3. PICK n \in 1 .. pos' : Request(n)
    <3>1. \E n \in 1 .. pos' : Request(n)'
      BY <1>5, Zenon DEF Known, Served
    <3> QED BY <2>1, <3>1, RequestsStay
  <2>4. early' = early /\ kind' # "socks5" /\ sent' = sent
    BY <1>5 DEF EndOfHeaders, LossInv, SocksKind
  <2>5. ~answered
    BY <1>5, Zenon DEF EndOfHeaders, LossInv, NothingYet, Handshake
  <2>6. CASE ~early
    <3>1. n \in 1 .. sent
      BY <1>1, <1>2, <2>3, <2>4
    <3>2. n = sent
      BY <2>3, <2>5, <2>6, <3>1, Zenon DEF LossInv, NotEarly
    <3>3. pos' = taken'
      BY <1>1, <1>2, <2>3, <2>4, <3>2
    <3>4. Places(pos', taken') = << >>
      <4>1. Places(pos', taken') \in Seq(Nat) /\ Len(Places(pos', taken')) = 0
        BY <1>2, <3>3, PlacesAre
      <4> QED BY <4>1, EmptySeq
    <3>5. EndOfRequest(pos') <=> \E m \in {pos'} : EndOfRequest(m)'
      BY <2>1, EndsStay
    <3>6. pos' \in 1 .. taken'
      BY <1>1, <1>2, <2>1
    <3>7. EndOfRequest(pos')
      BY <2>2, Zenon DEF EndOfRequest
    <3> QED BY <2>1, <3>4, <3>5, <3>6, <3>7 DEF NothingIsLost, Places
  <2>7. CASE early
    <3>1. early'
      BY <2>4, <2>7, Zenon
    <3> QED BY <2>4, <3>1, Zenon DEF NothingIsLost
  <2> QED BY <2>6, <2>7
<1>6. CASE Body
  <2>1. /\ UNCHANGED <<script, protected>> /\ relayed' = <<pos + 1>> /\ pos' = pos + 1 /\ HttpHead(pos)
    <3>1. HttpHead(pos)
      BY <1>6, Zenon DEF Body, Known
    <3>2. relayed = << >>
      BY <1>6, Zenon DEF Body, LossInv, NothingYet, Handshake
    <3>3. UNCHANGED <<script, protected>> /\ relayed' = Append(relayed, pos + 1) /\ pos' = pos + 1
      BY <1>6 DEF Body, ReadBuffered
    <3>4. Append(<< >>, pos + 1) = <<pos + 1>>
      OBVIOUS
    <3> QED BY <3>1, <3>2, <3>3, <3>4
  <2>2. PICK n \in 1 .. pos' : Request(n)
    <3>1. pc' = "wait"
      BY <1>6 DEF Body, HandOver
    <3>2. \E n \in 1 .. pos' : Request(n)'
      BY <3>1, Zenon DEF Known, Served
    <3> QED BY <2>1, <3>2, RequestsStay
  <2>3. early' = early /\ kind' # "socks5" /\ sent' = sent
    BY <1>6 DEF Body, LossInv, SocksKind
  <2>4. ~answered
    BY <1>6, Zenon DEF Body, LossInv, NothingYet, Handshake
  <2>5. CASE ~early
    <3>1. n \in 1 .. sent
      BY <1>1, <1>2, <2>2, <2>3
    <3>2. n = sent
      BY <2>2, <2>4, <2>5, <3>1, Zenon DEF LossInv, NotEarly
    <3>3. taken' = pos + 1
      BY <1>1, <1>2, <2>1, <2>2, <2>3, <3>2
    <3>4. Places(pos, taken') = <<pos + 1>>
      <4>1. /\ Places(pos, taken') \in Seq(Nat) /\ Len(Places(pos, taken')) = 1
            /\ \A i \in 1 .. 1 : Places(pos, taken')[i] = pos + i
        <5>1. pos <= taken' /\ taken' - pos = 1
          BY <1>1, <3>3
        <5> QED BY <1>1, <1>2, <5>1, PlacesAre
      <4>2. <<pos + 1>> \in Seq(Nat) /\ Len(<<pos + 1>>) = 1 /\ <<pos + 1>>[1] = pos + 1
        BY <1>1
      <4>3. \A i \in 1 .. 1 : Places(pos, taken')[i] = <<pos + 1>>[i]
        BY <4>1, <4>2
      <4> QED BY <4>1, <4>2, <4>3, SeqEqual
    <3>5. EndOfRequest(pos) <=> \E m \in {pos} : EndOfRequest(m)'
      BY <2>1, EndsStay
    <3>6. pos \in 1 .. taken'
      BY <1>1, <2>1, <3>3 DEF HttpHead
    <3>7. EndOfRequest(pos)
      BY <2>1, Zenon DEF EndOfRequest
    <3> QED BY <2>1, <3>4, <3>5, <3>6, <3>7 DEF NothingIsLost, Places
  <2>6. CASE early
    <3>1. early'
      BY <2>3, <2>6, Zenon
    <3> QED BY <2>3, <3>1, Zenon DEF NothingIsLost
  <2> QED BY <2>5, <2>6
<1>7. CASE Relay
  <2>1. pc = "relay" /\ kind' = kind /\ early' = early /\ UNCHANGED <<script, protected>>
    BY <1>7 DEF Relay
  <2>2. taken <= taken' /\ relayed' = relayed \o Places(taken, taken')
    BY <1>1, <1>7 DEF Relay
  <2>3. SUFFICES ASSUME kind = "socks5" \/ ~early
                 PROVE  \E n \in 1 .. taken' : EndOfRequest(n)' /\ relayed' = Places(n, taken')
    BY <2>1, Zenon DEF NothingIsLost, Places
  <2>4. PICK n \in 1 .. taken : EndOfRequest(n) /\ relayed = Places(n, taken)
    BY <2>1, <2>3, Zenon DEF LossInv, NothingIsLost
  <2>5. relayed' = Places(n, taken')
    <3>1. n \in Nat /\ n <= taken
      BY <1>1
    <3>2. Places(n, taken) \o Places(taken, taken') = Places(n, taken')
      BY <1>1, <1>2, <2>2, <3>1, PlacesJoin
    <3> QED BY <2>2, <2>4, <3>2
  <2>6. n \in 1 .. taken'
    BY <1>1, <1>2, <2>2
  <2> QED BY <2>1, <2>4, <2>5, <2>6, EndsStay
<1>8. CASE /\ UNCHANGED <<script, protected, taken, relayed, kind>>
           /\ pc \in {"wait", "relay"}
           /\ early => early'
  <2>1. taken' = taken /\ relayed' = relayed /\ kind' = kind
    BY <1>8
  <2>2. SUFFICES ASSUME kind = "socks5" \/ ~early
                 PROVE  \E n \in 1 .. taken : EndOfRequest(n)' /\ relayed = Places(n, taken)
    BY <1>8, <2>1, Zenon DEF NothingIsLost, Places
  <2>3. \E n \in 1 .. taken : EndOfRequest(n) /\ relayed = Places(n, taken)
    BY <1>8, <2>2, Zenon DEF LossInv, NothingIsLost
  <2> QED BY <1>8, <2>3, EndsStay
<1>9. CASE \/ Connected \/ ServerAnswers \/ PoolCloses
           \/ ((Send \/ HangUp \/ UNCHANGED vars) /\ pc' \in {"wait", "relay"})
  <2>1. UNCHANGED <<script, protected, taken, relayed, kind>> /\ pc \in {"wait", "relay"}
    BY <1>9 DEF Connected, ServerAnswers, PoolCloses, Send, HangUp, vars
  <2>2. early' = early \/ early' = (early \/ (~answered /\ \E n \in 1 .. sent : Request(n)))
    <3>1. CASE Connected \/ ServerAnswers \/ PoolCloses \/ HangUp \/ UNCHANGED vars
      <4>1. early' = early
        BY <3>1 DEF Connected, ServerAnswers, PoolCloses, HangUp, vars
      <4> QED BY <4>1, Zenon
    <3>2. CASE Send
      BY <3>2, Zenon DEF Send
    <3> QED BY <1>9, <3>1, <3>2
  <2>3. early => early'
    BY <2>2, Zenon
  <2> QED BY <1>8, <2>1, <2>3
<1>10. pc' \notin {"wait", "relay"} \/ FirstFrame \/ (EndOfHeaders /\ pc' = "wait") \/ Body \/ Relay
       \/ Connected \/ ServerAnswers \/ PoolCloses
       \/ ((Send \/ HangUp \/ UNCHANGED vars) /\ pc' \in {"wait", "relay"})
  <2>1. CASE FirstByte \/ Methods \/ UserPassAuth \/ RequestConnect \/ RequestUdp \/ RequestRefused
    BY <2>1 DEF FirstByte, Methods, UserPassAuth, RequestConnect, RequestUdp, RequestRefused, Answer
  <2>2. CASE RequestLine \/ Header \/ EndOfHeaders
    BY <2>2 DEF RequestLine, Header, EndOfHeaders, HandOver, Answer
  <2>3. CASE ReadFails \/ NotConnected \/ RelayEnds \/ ReadControl
    BY <2>3 DEF ReadFails, NotConnected, RelayEnds, ReadControl
  <2>4. CASE \/ \E packet \in Packets : HandleUDPPacket(packet)
             \/ \E a \in Sources : HandleUDPResponse(a, <<7>>)
    BY <2>4 DEF HandleUDPPacket, HandleUDPResponse
  <2> QED BY <2>1, <2>2, <2>3, <2>4 DEF Next, HandleConnection
<1> QED BY <1>3, <1>4, <1>5, <1>6, <1>7, <1>9, <1>10

\* What follows the request reaches the pool in order and without a gap, for any
\* script and however it is cut: except over HTTP when it is sent early.
THEOREM PayloadIsWhole == Spec => []NothingIsLost
<1>1. Init => LossInv
  <2>1. Init => NothingYet /\ SocksKind /\ NothingIsLost
    BY DEF Init, NothingYet, SocksKind, NothingIsLost
  <2>2. Init => NotEarly
    BY DEF Init, NotEarly
  <2> QED BY <2>1, <2>2 DEF LossInv
<1>2. ProxyInv /\ ProxyInv' /\ LossInv /\ [Next]_vars => LossInv'
  BY NotEarlyKept, NothingYetKept, SocksKindKept, NothingIsLostKept DEF ProxyInv, LossInv
<1>3. LossInv => NothingIsLost
  BY DEF LossInv
<1> QED BY <1>1, <1>2, <1>3, ProxyInvariant, PTL DEF Spec

-----------------------------------------------------------------------------
(* Deadlines *)

DeadlineInv == pc \in Served => deadline = "none"

\* No step of a served connection sets a deadline.
LEMMA DeadlineKept ==
  ASSUME DeadlineInv, [Next]_vars
  PROVE  DeadlineInv'
<1> USE DEF DeadlineInv, Served, appVars, udpVars, Answer, HandOver
<1>1. CASE FirstByte \/ Methods \/ UserPassAuth \/ RequestConnect \/ RequestUdp \/ RequestRefused
  BY <1>1 DEF FirstByte, Methods, UserPassAuth, RequestConnect, RequestUdp, RequestRefused
<1>2. CASE FirstFrame \/ ReadFails \/ RequestLine \/ Header \/ EndOfHeaders \/ Body
  BY <1>2 DEF FirstFrame, ReadFails, RequestLine, Header, EndOfHeaders, Body
<1>3. CASE Connected \/ NotConnected \/ Relay \/ ReadControl \/ RelayEnds
  BY <1>3 DEF Connected, NotConnected, Relay, ReadControl, RelayEnds
<1>4. CASE \/ ServerAnswers \/ PoolCloses \/ Send \/ HangUp \/ UNCHANGED vars
           \/ \E packet \in Packets : HandleUDPPacket(packet)
           \/ \E a \in Sources : HandleUDPResponse(a, <<7>>)
  BY <1>4 DEF ServerAnswers, PoolCloses, Send, HangUp, HandleUDPPacket, HandleUDPResponse, vars
<1> QED BY <1>1, <1>2, <1>3, <1>4 DEF Next, HandleConnection

\* A connection that is served is never closed for being silent.
THEOREM NoDeadlineIsLeft == Spec => SilenceIsAllowed
<1>1. Init => DeadlineInv
  BY DEF Init, DeadlineInv, Served
<1>2. DeadlineInv /\ [Next]_vars => [pc' = "ended" /\ pc \in {"relay", "assoc"} => gone \/ eof]_vars
  <2> SUFFICES ASSUME DeadlineInv, Next, pc' = "ended", pc \in {"relay", "assoc"}
               PROVE  gone \/ eof
    BY Zenon
  <2>1. deadline = "none"
    BY DEF DeadlineInv, Served
  <2>2. RelayEnds
    <3>1. ~ReadFails
      BY <2>1 DEF ReadFails, Handshake
    <3>2. ~(FirstByte \/ Methods \/ UserPassAuth \/ RequestConnect \/ RequestUdp \/ RequestRefused)
      BY DEF FirstByte, Methods, UserPassAuth, RequestConnect, RequestUdp, RequestRefused
    <3>3. ~(FirstFrame \/ RequestLine \/ Header \/ EndOfHeaders \/ Body)
      BY DEF FirstFrame, RequestLine, Header, EndOfHeaders, Body
    <3>4. ~(Connected \/ NotConnected \/ Relay \/ ReadControl)
      BY DEF Connected, NotConnected, Relay, ReadControl
    <3>5. ~(\/ ServerAnswers \/ PoolCloses \/ Send \/ HangUp
            \/ \E packet \in Packets : HandleUDPPacket(packet)
            \/ \E a \in Sources : HandleUDPResponse(a, <<7>>))
      BY DEF ServerAnswers, PoolCloses, Send, HangUp, HandleUDPPacket, HandleUDPResponse, appVars
    <3> QED BY <3>1, <3>2, <3>3, <3>4, <3>5 DEF Next, HandleConnection
  <2> QED BY <2>2, Zenon DEF RelayEnds
<1> QED BY <1>1, <1>2, DeadlineKept, PTL DEF Spec, SilenceIsAllowed

-----------------------------------------------------------------------------
(* SOCKS5 datagrams, byte by byte *)

\* The two bytes of a port
High(port) == port \div 256
Low(port) == port % 256

\* What comes before the host
FixedPart(a) == IF a.atyp = DomainAddr THEN <<0, 0, 0, DomainAddr, Len(a.host)>>
                ELSE <<0, 0, 0, a.atyp>>
Laid(a, data) == FixedPart(a) \o a.host \o <<High(a.port), Low(a.port)>> \o data

\* The parts of an address are bytes.
LEMMA AddressBytes ==
  ASSUME NEW a, IsAddress(a)
  PROVE  /\ a.host \in Seq(Byte) /\ Len(a.host) \in Byte /\ a.atyp \in Byte
         /\ High(a.port) \in Byte /\ Low(a.port) \in Byte
         /\ FixedPart(a) \in Seq(Byte)
<1>1. a.atyp \in {1, 3, 4} /\ a.host \in Seq(Byte) /\ Len(a.host) \in 0 .. 255 /\ a.port \in Port
  <2>1. /\ a.atyp \in {1, 3, 4} /\ a.host \in Seq(Byte) /\ a.port \in Port
        /\ Len(a.host) \in HostLengths(a.atyp)
    BY DEF IsAddress, IPv4Addr, DomainAddr, IPv6Addr
  <2>2. \A atyp : HostLengths(atyp) \subseteq 0 .. 255
    BY SMT DEF HostLengths
  <2> QED BY <2>1, <2>2
<1>2. \A port \in Port : High(port) \in Byte /\ Low(port) \in Byte
  BY SMT DEF Port, Byte, High, Low
<1>3. ASSUME NEW x \in Byte PROVE <<0, 0, 0, x>> \in Seq(Byte)
  BY SMT DEF Byte
<1>4. ASSUME NEW x \in Byte PROVE <<0, 0, 0, DomainAddr, x>> \in Seq(Byte)
  BY SMT DEF Byte, DomainAddr
<1>5. Len(a.host) \in Byte /\ a.atyp \in Byte
  <2>1. \A x \in {1, 3, 4} : x \in Byte
    BY SMT DEF Byte
  <2> QED BY <1>1, <2>1, Zenon DEF Byte
<1> QED BY <1>1, <1>2, <1>3, <1>4, <1>5 DEF FixedPart

\* A short sequence behind another
LEMMA TupleConcat ==
  ASSUME NEW s \in Seq(Byte), NEW t \in Seq(Byte), NEW u \in Seq(Byte),
         Len(u) = Len(s) + Len(t),
         \A i \in 1 .. Len(u) : u[i] = IF i <= Len(s) THEN s[i] ELSE t[i - Len(s)]
  PROVE  s \o t = u
<1>1. /\ s \o t \in Seq(Byte) /\ Len(s \o t) = Len(s) + Len(t)
      /\ \A i \in 1 .. Len(s) + Len(t) : (s \o t)[i] = IF i <= Len(s) THEN s[i] ELSE t[i - Len(s)]
  BY ConcatProperties
<1> DEFINE c == s \o t
<1> HIDE DEF c
<1>2. c = u
  BY <1>1, SeqEqual DEF c
<1> QED BY <1>2 DEF c

\* The fixed part in the pieces it is made of
LEMMA Fronts ==
  ASSUME NEW x \in Byte, NEW y \in Byte
  PROVE  /\ <<0, 0, 0, x>> \o <<y>> = <<0, 0, 0, x, y>>
         /\ <<0, 0, 0>> \o <<x, y>> = <<0, 0, 0, x, y>>
         /\ <<0, 0, 0>> \o <<x>> = <<0, 0, 0, x>>
<1> DEFINE zeros == <<0, 0, 0>>
           fst == <<x>>
           snd == <<y>>
           both == <<x, y>>
           four == <<0, 0, 0, x>>
           five == <<0, 0, 0, x, y>>
<1>1. /\ zeros \in Seq(Byte) /\ fst \in Seq(Byte) /\ snd \in Seq(Byte)
      /\ both \in Seq(Byte) /\ four \in Seq(Byte) /\ five \in Seq(Byte)
  BY SMT DEF Byte
<1>2. /\ Len(zeros) = 3 /\ Len(fst) = 1 /\ Len(snd) = 1 /\ Len(both) = 2
      /\ Len(four) = 4 /\ Len(five) = 5
  BY SMT
<1>3. /\ \A i \in 1 .. 5 : five[i] = IF i <= 4 THEN four[i] ELSE snd[i - 4]
      /\ \A i \in 1 .. 5 : five[i] = IF i <= 3 THEN zeros[i] ELSE both[i - 3]
      /\ \A i \in 1 .. 4 : four[i] = IF i <= 3 THEN zeros[i] ELSE fst[i - 3]
  BY SMT
<1> HIDE DEF zeros, fst, snd, both, four, five
<1>4. four \o snd = five
  <2>1. /\ Len(five) = Len(four) + Len(snd)
        /\ \A i \in 1 .. Len(five) : five[i] = IF i <= Len(four) THEN four[i] ELSE snd[i - Len(four)]
    BY <1>2, <1>3
  <2> QED BY <1>1, <2>1, TupleConcat
<1>5. zeros \o both = five
  <2>1. /\ Len(five) = Len(zeros) + Len(both)
        /\ \A i \in 1 .. Len(five) : five[i] = IF i <= Len(zeros) THEN zeros[i] ELSE both[i - Len(zeros)]
    BY <1>2, <1>3
  <2> QED BY <1>1, <2>1, TupleConcat
<1>6. zeros \o fst = four
  <2>1. /\ Len(four) = Len(zeros) + Len(fst)
        /\ \A i \in 1 .. Len(four) : four[i] = IF i <= Len(zeros) THEN zeros[i] ELSE fst[i - Len(zeros)]
    BY <1>2, <1>3
  <2> QED BY <1>1, <2>1, TupleConcat
<1> QED BY <1>4, <1>5, <1>6 DEF zeros, fst, snd, both, four, five

\* The layout of the RFC, flattened
LEMMA DatagramLaid ==
  ASSUME NEW a, IsAddress(a), NEW data \in Seq(Byte)
  PROVE  Datagram(a, data) = Laid(a, data)
<1> DEFINE four == <<0, 0, 0, DomainAddr>>
           one == <<Len(a.host)>>
<1>1. a.host \in Seq(Byte) /\ Len(a.host) \in Byte /\ DomainAddr \in Byte
  <2>1. DomainAddr \in Byte
    BY SMT DEF Byte, DomainAddr
  <2> QED BY <2>1, AddressBytes, Zenon
<1>2. CASE a.atyp = DomainAddr
  <2>1. four \in Seq(Byte) /\ one \in Seq(Byte)
    <3>1. ASSUME NEW x \in Byte PROVE <<0, 0, 0, x>> \in Seq(Byte) /\ <<x>> \in Seq(Byte)
      BY SMT DEF Byte
    <3> QED BY <1>1, <3>1, Zenon
  <2>2. four \o one = <<0, 0, 0, DomainAddr, Len(a.host)>>
    BY <1>1, Fronts
  <2>3. FixedPart(a) = four \o one
    BY <1>2, <2>2 DEF FixedPart
  <2>4. Datagram(a, data) = four \o (one \o a.host) \o <<High(a.port), Low(a.port)>> \o data
    BY <1>2 DEF Datagram, HostField, High, Low
  <2> DEFINE host == a.host
             fixed == FixedPart(a)
  <2> HIDE DEF four, one, host, fixed
  <2>5. four \o one = fixed /\ host \in Seq(Byte)
    BY <1>1, <2>3 DEF host, fixed
  <2>6. host \in Seq(Byte)
    BY <2>5
  <2>7. (four \o one) \o host = four \o (one \o host)
    BY <2>1, <2>6, ConcatAssociative
  <2>8. four \o (one \o host) = fixed \o host
    BY <2>5, <2>7
  <2> QED BY <2>4, <2>8 DEF Laid, host, fixed
<1>3. CASE a.atyp # DomainAddr
  BY <1>3 DEF Datagram, Laid, HostField, FixedPart, High, Low
<1> QED BY <1>2, <1>3

\* The code lays it out in the same way, for names too.
LEMMA BuildIsDatagram ==
  ASSUME NEW a, IsAddress(a), NEW data \in Seq(Byte)
  PROVE  BuildPacket(a, data) = Datagram(a, data)
<1> DEFINE zeros == <<0, 0, 0>>
           front == IF a.atyp = DomainAddr THEN <<DomainAddr, Len(a.host)>> ELSE <<a.atyp>>
<1>1. /\ a.host \in Seq(Byte) /\ Len(a.host) \in Byte /\ a.atyp \in Byte
      /\ DomainAddr \in Byte
  <2>1. DomainAddr \in Byte
    BY SMT DEF Byte, DomainAddr
  <2> QED BY <2>1, AddressBytes, Zenon
<1>2. zeros \in Seq(Byte) /\ front \in Seq(Byte)
  <2>1. \A x, y \in Byte : /\ <<0, 0, 0>> \in Seq(Byte)
                           /\ <<x, y>> \in Seq(Byte) /\ <<x>> \in Seq(Byte)
    BY SMT DEF Byte
  <2> QED BY <1>1, <2>1
<1>3. zeros \o front = FixedPart(a)
  BY <1>1, Fronts DEF FixedPart
<1>4. BuildPacket(a, data)
        = zeros \o (front \o a.host) \o <<High(a.port), Low(a.port)>> \o data
  BY DEF BuildPacket, PortBytes, High, Low
<1> DEFINE host == a.host
           fixed == FixedPart(a)
<1> HIDE DEF front, zeros, host, fixed
<1>5. zeros \o front = fixed /\ host \in Seq(Byte)
  BY <1>1, <1>3 DEF host, fixed
<1>6. host \in Seq(Byte)
  BY <1>5
<1>7. (zeros \o front) \o host = zeros \o (front \o host)
  BY <1>2, <1>6, ConcatAssociative
<1>8. zeros \o (front \o host) = fixed \o host
  BY <1>5, <1>7
<1> QED BY <1>4, <1>8, DatagramLaid DEF Laid, host, fixed

\* d is head, host, two bytes and data, one behind the other; the first two have
\* k and n bytes.
HasParts(d, head, k, host, n, p, q, data) ==
  /\ d \in Seq(Byte) /\ Len(d) = k + n + 2 + Len(data)
  /\ \A i \in 1 .. k : d[i] = head[i]
  /\ \A i \in 1 .. n : d[k + i] = host[i]
  /\ d[k + n + 1] = p /\ d[k + n + 2] = q
  /\ \A i \in 1 .. Len(data) : d[k + n + 2 + i] = data[i]

\* Joining them gives it
LEMMA Joined ==
  ASSUME NEW head \in Seq(Byte), NEW host \in Seq(Byte), NEW p \in Byte, NEW q \in Byte,
         NEW data \in Seq(Byte), NEW k \in Nat, k = Len(head), NEW n \in Nat, n = Len(host)
  PROVE  HasParts(head \o host \o <<p, q>> \o data, head, k, host, n, p, q, data)
<1>0. PICK d : d = head \o host \o <<p, q>> \o data
  OBVIOUS
<1> DEFINE b == head \o host
           pair == <<p, q>>
           c == b \o pair
<1>1. /\ b \in Seq(Byte) /\ Len(b) = k + n
      /\ \A i \in 1 .. k + n : b[i] = IF i <= k THEN head[i] ELSE host[i - k]
  BY ConcatProperties
<1>2. pair \in Seq(Byte) /\ Len(pair) = 2 /\ pair[1] = p /\ pair[2] = q
  OBVIOUS
<1> HIDE DEF b, pair
<1>3. /\ c \in Seq(Byte) /\ Len(c) = k + n + 2
      /\ \A i \in 1 .. k + n + 2 : c[i] = IF i <= k + n THEN b[i] ELSE pair[i - (k + n)]
  <2>1. /\ c \in Seq(Byte) /\ Len(c) = Len(b) + Len(pair)
        /\ \A i \in 1 .. Len(b) + Len(pair) : c[i] = IF i <= Len(b) THEN b[i] ELSE pair[i - Len(b)]
    <3>1. b \in Seq(Byte) /\ pair \in Seq(Byte)
      BY <1>1, <1>2
    <3> QED BY <3>1, ConcatProperties
  <2> HIDE DEF c
  <2> QED BY <1>1, <1>2, <2>1
<1>4. d = c \o data
  BY <1>0 DEF b, pair
<1> HIDE DEF c
<1>5. Len(data) \in Nat
  BY LenProperties
<1>6. /\ d \in Seq(Byte) /\ Len(d) = k + n + 2 + Len(data)
      /\ \A i \in 1 .. k + n + 2 + Len(data) :
           d[i] = IF i <= k + n + 2 THEN c[i] ELSE data[i - (k + n + 2)]
  <2> DEFINE e == c \o data
  <2>1. /\ e \in Seq(Byte) /\ Len(e) = Len(c) + Len(data)
        /\ \A i \in 1 .. Len(c) + Len(data) : e[i] = IF i <= Len(c) THEN c[i] ELSE data[i - Len(c)]
    <3>1. c \in Seq(Byte)
      BY <1>3
    <3> QED BY <3>1, ConcatProperties
  <2>2. d = e
    BY <1>4
  <2> HIDE DEF e
  <2> QED BY <1>3, <2>1, <2>2
<1>7. \A i \in 1 .. k : d[i] = head[i]
  BY <1>1, <1>3, <1>5, <1>6
<1>8. ASSUME NEW i \in 1 .. n PROVE d[k + i] = host[i]
  <2>1. k + i \in 1 .. k + n /\ ~(k + i <= k) /\ (k + i) - k = i
    OBVIOUS
  <2>2. b[k + i] = host[i]
    BY <1>1, <2>1
  <2>3. c[k + i] = b[k + i]
    BY <1>3, <2>1
  <2> QED BY <1>5, <1>6, <2>1, <2>2, <2>3
<1>9. d[k + n + 1] = p /\ d[k + n + 2] = q
  <2>1. c[k + n + 1] = pair[1] /\ c[k + n + 2] = pair[2]
    <3>1. /\ k + n + 1 \in 1 .. k + n + 2 /\ (k + n + 1) - (k + n) = 1 /\ ~(k + n + 1 <= k + n)
          /\ k + n + 2 \in 1 .. k + n + 2 /\ (k + n + 2) - (k + n) = 2 /\ ~(k + n + 2 <= k + n)
      OBVIOUS
    <3> QED BY <1>3, <3>1
  <2> QED BY <1>2, <1>5, <1>6, <2>1
<1>10. ASSUME NEW i \in 1 .. Len(data) PROVE d[k + n + 2 + i] = data[i]
  <2>1. /\ (k + n + 2 + i) - (k + n + 2) = i /\ ~(k + n + 2 + i <= k + n + 2)
        /\ k + n + 2 + i \in 1 .. k + n + 2 + Len(data)
    BY <1>5
  <2>2. d[k + n + 2 + i] = data[(k + n + 2 + i) - (k + n + 2)]
    BY <1>6, <2>1
  <2> QED BY <2>1, <2>2
<1>11. HasParts(d, head, k, host, n, p, q, data)
  BY <1>6, <1>7, <1>8, <1>9, <1>10 DEF HasParts
<1> QED BY <1>0, <1>11

\* The places of a datagram
LEMMA DatagramPlaces ==
  ASSUME NEW k \in Nat, NEW n \in Nat, NEW m \in Nat, NEW i \in 1 .. k + n + 2 + m
  PROVE  \/ i \in 1 .. k
         \/ \E j \in 1 .. n : i = k + j
         \/ i = k + n + 1 \/ i = k + n + 2
         \/ \E j \in 1 .. m : i = k + n + 2 + j
<1>1. CASE k < i /\ i <= k + n
  <2>1. i - k \in 1 .. n /\ i = k + (i - k)
    BY <1>1
  <2> QED BY <2>1
<1>2. CASE k + n + 2 < i
  <2>1. i - (k + n + 2) \in 1 .. m /\ i = (k + n + 2) + (i - (k + n + 2))
    BY <1>2
  <2> QED BY <2>1
<1> QED BY <1>1, <1>2

\* and nothing else has these parts.
LEMMA JoinedOnly ==
  ASSUME NEW d, NEW e, NEW head, NEW host, NEW p, NEW q, NEW data \in Seq(Byte),
         NEW k \in Nat, NEW n \in Nat,
         HasParts(d, head, k, host, n, p, q, data), HasParts(e, head, k, host, n, p, q, data)
  PROVE  d = e
<1>1. d \in Seq(Byte) /\ e \in Seq(Byte) /\ Len(d) = Len(e)
  BY DEF HasParts
<1>2. ASSUME NEW i \in 1 .. Len(d) PROVE d[i] = e[i]
  <2>1. Len(data) \in Nat
    BY LenProperties
  <2>2. i \in 1 .. k + n + 2 + Len(data)
    BY DEF HasParts
  <2>3. \/ i \in 1 .. k
        \/ \E j \in 1 .. n : i = k + j
        \/ i = k + n + 1 \/ i = k + n + 2
        \/ \E j \in 1 .. Len(data) : i = k + n + 2 + j
    BY <2>1, <2>2, DatagramPlaces
  <2>4. CASE i \in 1 .. k
    BY <2>4, Zenon DEF HasParts
  <2>5. CASE \E j \in 1 .. n : i = k + j
    <3>1. PICK j \in 1 .. n : i = k + j
      BY <2>5
    <3>2. d[k + j] = host[j] /\ e[k + j] = host[j]
      BY Zenon DEF HasParts
    <3> QED BY <3>1, <3>2, Zenon
  <2>6. CASE i = k + n + 1 \/ i = k + n + 2
    BY <2>6, Zenon DEF HasParts
  <2>7. CASE \E j \in 1 .. Len(data) : i = k + n + 2 + j
    <3>1. PICK j \in 1 .. Len(data) : i = k + n + 2 + j
      BY <2>7
    <3>2. d[k + n + 2 + j] = data[j] /\ e[k + n + 2 + j] = data[j]
      BY Zenon DEF HasParts
    <3> QED BY <3>1, <3>2, Zenon
  <2> QED BY <2>3, <2>4, <2>5, <2>6, <2>7
<1> QED BY <1>1, <1>2, SeqEqual

\* A part of a packet
LEMMA PartOf ==
  ASSUME NEW packet \in Seq(Byte), NEW from \in Nat, NEW to \in Nat, from <= to, to <= Len(packet)
  PROVE  /\ SubSeq(packet, from + 1, to) \in Seq(Byte)
         /\ Len(SubSeq(packet, from + 1, to)) = to - from
         /\ \A i \in 1 .. to - from : packet[from + i] = SubSeq(packet, from + 1, to)[i]
<1>1. \A i \in from + 1 .. to : packet[i] \in Byte
  BY ElementOfSeq
<1>2. /\ SubSeq(packet, from + 1, to) \in Seq(Byte)
      /\ Len(SubSeq(packet, from + 1, to)) = IF from + 1 <= to THEN to - (from + 1) + 1 ELSE 0
      /\ \A i \in 1 .. to - (from + 1) + 1 :
           SubSeq(packet, from + 1, to)[i] = packet[from + 1 + i - 1]
  BY <1>1, SubSeqProperties
<1> DEFINE part == SubSeq(packet, from + 1, to)
<1> HIDE DEF part
<1>3. /\ part \in Seq(Byte)
      /\ Len(part) = IF from + 1 <= to THEN to - (from + 1) + 1 ELSE 0
      /\ \A i \in 1 .. to - (from + 1) + 1 : part[i] = packet[from + 1 + i - 1]
  BY <1>2 DEF part
<1>4. ASSUME NEW i \in 1 .. to - from PROVE packet[from + i] = part[i]
  <2>1. i \in 1 .. to - (from + 1) + 1 /\ from + 1 + i - 1 = from + i
    OBVIOUS
  <2> QED BY <1>3, <2>1
<1>5. part \in Seq(Byte) /\ Len(part) = to - from
  BY <1>3
<1> QED BY <1>4, <1>5 DEF part

\* Two bytes are a port.
LEMMA PortOf ==
  ASSUME NEW x \in Byte, NEW y \in Byte
  PROVE  x * 256 + y \in Port /\ (x * 256 + y) \div 256 = x /\ (x * 256 + y) % 256 = y
<1>1. x \in Nat /\ y \in Nat /\ x < 256 /\ y < 256
  BY DEF Byte
<1>2. x * 256 + y \in Port
  BY <1>1, SMT DEF Port
<1>3. (x * 256 + y) \div 256 = x
  BY <1>1, SMT
<1>4. (x * 256 + y) % 256 = y
  BY <1>1, SMT
<1> QED BY <1>2, <1>3, <1>4

\* What the code reads at "from" and "offset" has the parts of a packet.
PartsRead(packet, head, from, n, a) ==
  /\ a.atyp = packet[4]
  /\ a.host \in Seq(Byte) /\ Len(a.host) = n /\ a.data \in Seq(Byte) /\ a.port \in Port
  /\ HasParts(packet, head, from, a.host, n, High(a.port), Low(a.port), a.data)
  /\ High(a.port) \in Byte /\ Low(a.port) \in Byte

LEMMA ParsedParts ==
  ASSUME NEW packet \in Seq(Byte), NEW from \in Nat, NEW n \in Nat, from + n + 2 <= Len(packet),
         NEW a, a = ParsedAt(packet, from, from + n), NEW head, head = SubSeq(packet, 1, from)
  PROVE  PartsRead(packet, head, from, n, a)
<1> DEFINE host == SubSeq(packet, from + 1, from + n)
           data == SubSeq(packet, from + n + 3, Len(packet))
           port == packet[from + n + 1] * 256 + packet[from + n + 2]
<1>1. a.atyp = packet[4] /\ a.host = host /\ a.data = data /\ a.port = port
  BY DEF ParsedAt
<1>2. Len(packet) \in Nat
  BY LenProperties
<1>3. packet[from + n + 1] \in Byte /\ packet[from + n + 2] \in Byte
  BY <1>2, ElementOfSeq
<1>4. /\ port \in Port
      /\ High(port) = packet[from + n + 1] /\ Low(port) = packet[from + n + 2]
  BY <1>3, PortOf DEF High, Low
<1>5. /\ host \in Seq(Byte) /\ Len(host) = n
      /\ \A i \in 1 .. n : packet[from + i] = host[i]
  <2>1. from + n \in Nat /\ from <= from + n /\ from + n <= Len(packet) /\ (from + n) - from = n
    BY <1>2
  <2> QED BY <2>1, PartOf
<1>6. /\ head \in Seq(Byte) /\ Len(head) = from
      /\ \A i \in 1 .. from : packet[i] = head[i]
  <2>1. 0 \in Nat /\ 0 <= from /\ from <= Len(packet) /\ from - 0 = from /\ 0 + 1 = 1
    BY <1>2
  <2>2. \A i \in 1 .. from : 0 + i = i
    OBVIOUS
  <2> QED BY <2>1, <2>2, PartOf
<1>7. /\ data \in Seq(Byte) /\ Len(packet) = from + n + 2 + Len(data)
      /\ \A i \in 1 .. Len(data) : packet[from + n + 2 + i] = data[i]
  <2>1. /\ from + n + 2 \in Nat /\ from + n + 2 <= Len(packet) /\ Len(packet) <= Len(packet)
        /\ (from + n + 2) + 1 = from + n + 3
    BY <1>2
  <2>2. /\ data \in Seq(Byte) /\ Len(data) = Len(packet) - (from + n + 2)
        /\ \A i \in 1 .. Len(packet) - (from + n + 2) : packet[from + n + 2 + i] = data[i]
    BY <1>2, <2>1, PartOf
  <2> HIDE DEF data
  <2> QED BY <1>2, <2>1, <2>2
<1> HIDE DEF host, data, port
<1>8. HasParts(packet, head, from, host, n, High(port), Low(port), data)
  BY <1>4, <1>5, <1>6, <1>7 DEF HasParts
<1> QED BY <1>1, <1>3, <1>4, <1>5, <1>7, <1>8 DEF PartsRead

\* The fixed part, byte by byte
LEMMA FrontBytes ==
  ASSUME NEW x, NEW y
  PROVE  /\ Len(<<0, 0, 0, x, y>>) = 5 /\ Len(<<0, 0, 0, x>>) = 4
         /\ \A i \in 1 .. 5 : <<0, 0, 0, x, y>>[i] = IF i <= 3 THEN 0 ELSE IF i = 4 THEN x ELSE y
         /\ \A i \in 1 .. 4 : <<0, 0, 0, x>>[i] = IF i <= 3 THEN 0 ELSE IF i = 4 THEN x ELSE y
<1> DEFINE four == <<0, 0, 0, x>>
           five == <<0, 0, 0, x, y>>
<1>1. Len(five) = 5 /\ Len(four) = 4
  BY SMT
<1>2. /\ five[1] = 0 /\ five[2] = 0 /\ five[3] = 0 /\ five[4] = x /\ five[5] = y
      /\ four[1] = 0 /\ four[2] = 0 /\ four[3] = 0 /\ four[4] = x
  BY SMT
<1> HIDE DEF four, five
<1>3. \A i \in 1 .. 5 : five[i] = IF i <= 3 THEN 0 ELSE IF i = 4 THEN x ELSE y
  <2>1. \A i \in 1 .. 5 : i = 1 \/ i = 2 \/ i = 3 \/ i = 4 \/ i = 5
    BY SMT
  <2> QED BY <1>2, <2>1
<1>4. \A i \in 1 .. 4 : four[i] = IF i <= 3 THEN 0 ELSE IF i = 4 THEN x ELSE y
  <2>1. \A i \in 1 .. 4 : i = 1 \/ i = 2 \/ i = 3 \/ i = 4
    BY SMT
  <2> QED BY <1>2, <2>1
<1> QED BY <1>1, <1>3, <1>4 DEF four, five

Front(s, k, x, y) ==
  Len(s) = k /\ \A i \in 1 .. k : s[i] = IF i <= 3 THEN 0 ELSE IF i = 4 THEN x ELSE y

LEMMA FixedBytes ==
  ASSUME NEW a, NEW k, k = IF a.atyp = DomainAddr THEN 5 ELSE 4
  PROVE  Front(FixedPart(a), k, a.atyp, Len(a.host))
<1>1. PICK x, y : x = a.atyp /\ y = Len(a.host)
  OBVIOUS
<1>2. CASE x = DomainAddr
  <2>1. FixedPart(a) = <<0, 0, 0, x, y>> /\ k = 5
    BY <1>1, <1>2 DEF FixedPart
  <2> QED BY <1>1, <2>1, FrontBytes DEF Front
<1>3. CASE x # DomainAddr
  <2>1. FixedPart(a) = <<0, 0, 0, x>> /\ k = 4
    BY <1>1, <1>3 DEF FixedPart
  <2> QED BY <1>1, <2>1, FrontBytes DEF Front
<1> QED BY <1>2, <1>3

\* Where the fields of a packet are that is not refused
LEMMA Accepted ==
  ASSUME NEW packet \in Seq(Byte), ParsePacket(packet).ok
  PROVE  /\ packet[1] = 0 /\ packet[2] = 0 /\ packet[3] = 0
         /\ packet[4] \in {IPv4Addr, DomainAddr, IPv6Addr}
         /\ HostFrom(packet) = IF packet[4] = DomainAddr THEN 5 ELSE 4
         /\ HostLength(packet) \in HostLengths(packet[4]) /\ HostLength(packet) \in Nat
         /\ packet[4] = DomainAddr => packet[5] = HostLength(packet)
         /\ HostFrom(packet) + HostLength(packet) + 2 <= Len(packet)
         /\ ParsePacket(packet) = ParsedAt(packet, HostFrom(packet), HostFrom(packet) + HostLength(packet))
<1>1. ~Rejected.ok
  BY DEF Rejected
<1>2. /\ ~(Len(packet) < 10)
      /\ packet[1] = 0 /\ packet[2] = 0 /\ packet[3] = 0
      /\ packet[4] \in {IPv4Addr, DomainAddr, IPv6Addr}
      /\ ~(Len(packet) < HostFrom(packet) + HostLength(packet) + 2)
      /\ ParsePacket(packet) = ParsedAt(packet, HostFrom(packet), HostFrom(packet) + HostLength(packet))
  BY <1>1, Zenon DEF ParsePacket
<1>3. Len(packet) \in Nat
  BY LenProperties
<1>4. packet[5] \in 0 .. 255
  <2>1. 5 \in 1 .. Len(packet)
    BY <1>2, <1>3
  <2>2. packet[5] \in Byte
    BY <2>1, ElementOfSeq
  <2> QED BY <2>2 DEF Byte
<1>5. HostFrom(packet) = IF packet[4] = DomainAddr THEN 5 ELSE 4
  BY DEF HostFrom
<1>6. HostLength(packet) \in HostLengths(packet[4]) /\ HostLength(packet) \in Nat
  <2>0. PICK t, v : t = packet[4] /\ v = packet[5]
    OBVIOUS
  <2>1. /\ t = 1 \/ t = 3 \/ t = 4
        /\ HostLength(packet) = IF t = 1 THEN 4 ELSE IF t = 4 THEN 16 ELSE v
        /\ HostLengths(t) = IF t = 1 THEN {4} ELSE IF t = 4 THEN {16} ELSE 0 .. 255
    BY <1>2, <2>0 DEF HostLength, HostLengths, IPv4Addr, DomainAddr, IPv6Addr
  <2>2. v \in 0 .. 255
    BY <1>4, <2>0
  <2>3. HostLength(packet) \in HostLengths(t)
    BY <2>1, <2>2
  <2>4. HostLength(packet) \in 0 .. 255
    BY <2>1, <2>2
  <2>5. \A x \in 0 .. 255 : x \in Nat
    OBVIOUS
  <2>6. HostLength(packet) \in Nat
    BY <2>4, <2>5, Zenon
  <2> QED BY <2>0, <2>3, <2>6, Zenon
<1>7. packet[4] = DomainAddr => packet[5] = HostLength(packet)
  BY DEF HostLength, IPv4Addr, DomainAddr, IPv6Addr
<1>8. HostFrom(packet) + HostLength(packet) + 2 <= Len(packet)
  BY <1>2, <1>3, <1>5, <1>6
<1> QED BY <1>2, <1>5, <1>6, <1>7, <1>8

\* What the code accepts is the datagram it takes it for.
LEMMA ParsedIsDatagram ==
  ASSUME NEW packet \in Seq(Byte), NEW a, a = ParsePacket(packet), a.ok
  PROVE  IsAddress(a) /\ packet = Datagram(a, a.data)
<1> DEFINE from == HostFrom(packet)
           n == HostLength(packet)
           head == SubSeq(packet, 1, from)
<1>1. /\ packet[1] = 0 /\ packet[2] = 0 /\ packet[3] = 0
      /\ packet[4] \in {IPv4Addr, DomainAddr, IPv6Addr}
      /\ from = IF packet[4] = DomainAddr THEN 5 ELSE 4
      /\ n \in HostLengths(packet[4]) /\ n \in Nat
      /\ packet[4] = DomainAddr => packet[5] = n
      /\ from + n + 2 <= Len(packet)
      /\ a = ParsedAt(packet, from, from + n)
  BY Accepted
<1>2. from \in Nat
  BY <1>1
<1> HIDE DEF from, n
<1>3. /\ a.atyp = packet[4]
      /\ a.host \in Seq(Byte) /\ Len(a.host) = n /\ a.data \in Seq(Byte) /\ a.port \in Port
      /\ HasParts(packet, head, from, a.host, n, High(a.port), Low(a.port), a.data)
      /\ High(a.port) \in Byte /\ Low(a.port) \in Byte
  <2>1. n \in Nat /\ from + n + 2 <= Len(packet) /\ a = ParsedAt(packet, from, from + n)
    BY <1>1, Zenon
  <2>2. head = SubSeq(packet, 1, from)
    OBVIOUS
  <2> HIDE DEF head
  <2>3. PartsRead(packet, head, from, n, a)
    BY <1>2, <2>1, <2>2, ParsedParts, Zenon
  <2> QED BY <2>3, Zenon DEF PartsRead
<1>4. IsAddress(a)
  BY <1>1, <1>3 DEF IsAddress
<1>5. FixedPart(a) \in Seq(Byte) /\ Front(FixedPart(a), from, a.atyp, Len(a.host))
  <2>1. from = IF a.atyp = DomainAddr THEN 5 ELSE 4
    BY <1>1, <1>3, Zenon
  <2>2. FixedPart(a) \in Seq(Byte)
    BY <1>4, AddressBytes, Zenon
  <2> QED BY <2>1, <2>2, FixedBytes, Zenon
<1>6. FixedPart(a) = head
  <2> DEFINE fixed == FixedPart(a)
  <2>0. PICK x, y : x = a.atyp /\ y = Len(a.host)
    OBVIOUS
  <2>1. /\ Len(fixed) = from /\ fixed \in Seq(Byte)
        /\ \A i \in 1 .. from : fixed[i] = IF i <= 3 THEN 0 ELSE IF i = 4 THEN x ELSE y
    BY <1>5, <2>0, Zenon DEF Front
  <2>2. \A i \in 1 .. from : packet[i] = IF i <= 3 THEN 0 ELSE IF i = 4 THEN x ELSE y
    <3>1. /\ packet[1] = 0 /\ packet[2] = 0 /\ packet[3] = 0 /\ packet[4] = x
          /\ from = 4 \/ (from = 5 /\ packet[5] = y)
      BY <1>1, <1>3, <2>0, Zenon
    <3>2. CASE from = 4
      <4>1. \A i \in 1 .. from : i = 1 \/ i = 2 \/ i = 3 \/ i = 4
        BY <3>2
      <4> QED BY <3>1, <4>1
    <3>3. CASE from = 5 /\ packet[5] = y
      <4>1. \A i \in 1 .. from : i = 1 \/ i = 2 \/ i = 3 \/ i = 4 \/ i = 5
        BY <3>3
      <4> QED BY <3>1, <3>3, <4>1
    <3> QED BY <3>1, <3>2, <3>3
  <2>3. head \in Seq(Byte) /\ Len(head) = from /\ \A i \in 1 .. from : packet[i] = head[i]
    <3>1. 0 \in Nat /\ 0 <= from /\ from <= Len(packet) /\ from - 0 = from /\ 0 + 1 = 1
      BY <1>1, <1>2, LenProperties
    <3>2. \A i \in 1 .. from : 0 + i = i
      BY <1>2
    <3> QED BY <1>2, <3>1, <3>2, PartOf
  <2> HIDE DEF head, fixed
  <2>4. fixed \in Seq(Byte) /\ Len(fixed) = Len(head) /\ \A i \in 1 .. Len(fixed) : fixed[i] = head[i]
    BY <2>1, <2>2, <2>3
  <2>5. fixed = head
    BY <2>3, <2>4, SeqEqual
  <2> QED BY <2>5 DEF fixed
<1>7. HasParts(Laid(a, a.data), FixedPart(a), from, a.host, n, High(a.port), Low(a.port), a.data)
  <2>1. n \in Nat /\ Len(FixedPart(a)) = from
    BY <1>1, <1>5, Zenon DEF Front
  <2> QED BY <1>2, <1>3, <1>5, <2>1, Joined DEF Laid
<1>8. HasParts(packet, FixedPart(a), from, a.host, n, High(a.port), Low(a.port), a.data)
  BY <1>3, <1>6
<1>9. packet = Laid(a, a.data)
  <2>1. n \in Nat /\ a.data \in Seq(Byte)
    BY <1>1, <1>3
  <2> QED BY <1>2, <1>7, <1>8, <2>1, JoinedOnly
<1>10. a.data \in Seq(Byte)
  BY <1>3
<1> QED BY <1>4, <1>9, <1>10, DatagramLaid

\* The code accepts every datagram of ten bytes or more.
LEMMA DatagramIsParsed ==
  ASSUME NEW a, IsAddress(a), NEW data \in Seq(Byte),
         NEW packet \in Seq(Byte), packet = Datagram(a, data), Len(packet) >= 10
  PROVE  ParsePacket(packet).ok
<1>1. PICK k \in Nat : k = IF a.atyp = DomainAddr THEN 5 ELSE 4
  OBVIOUS
<1>2. /\ a.host \in Seq(Byte) /\ High(a.port) \in Byte /\ Low(a.port) \in Byte
      /\ FixedPart(a) \in Seq(Byte)
  BY AddressBytes
<1>3. PICK n \in Nat : n = Len(a.host)
  BY <1>2, LenProperties
<1>4. Front(FixedPart(a), k, a.atyp, Len(a.host)) /\ Len(FixedPart(a)) = k
  BY <1>1, FixedBytes, Zenon DEF Front
<1>5. packet = Laid(a, data)
  BY DatagramLaid
<1>6. HasParts(packet, FixedPart(a), k, a.host, n, High(a.port), Low(a.port), data)
  BY <1>2, <1>3, <1>4, <1>5, Joined DEF Laid
<1>7. PICK t : t = a.atyp
  OBVIOUS
<1>8. \A i \in 1 .. k : packet[i] = IF i <= 3 THEN 0 ELSE IF i = 4 THEN t ELSE n
  <2> DEFINE fixed == FixedPart(a)
  <2>1. \A i \in 1 .. k : packet[i] = fixed[i]
    BY <1>6 DEF HasParts
  <2>2. \A i \in 1 .. k : fixed[i] = IF i <= 3 THEN 0 ELSE IF i = 4 THEN t ELSE n
    BY <1>3, <1>4, <1>7, Zenon DEF Front
  <2> HIDE DEF fixed
  <2> QED BY <2>1, <2>2
<1>9. k + n + 2 <= Len(packet)
  <2>1. Len(data) \in Nat
    BY LenProperties
  <2>2. Len(packet) = k + n + 2 + Len(data)
    BY <1>6 DEF HasParts
  <2> QED BY <2>1, <2>2
<1>10. packet[1] = 0 /\ packet[2] = 0 /\ packet[3] = 0 /\ packet[4] = t
  BY <1>1, <1>8
<1>11. t = DomainAddr => packet[5] = n
  BY <1>1, <1>7, <1>8
<1>12. HostFrom(packet) = k
  BY <1>1, <1>7, <1>10 DEF HostFrom
<1>13. t \in {IPv4Addr, DomainAddr, IPv6Addr} /\ n \in HostLengths(t)
  BY <1>3, <1>7 DEF IsAddress
<1>14. HostLength(packet) = n
  BY <1>10, <1>11, <1>13 DEF HostLength, HostLengths, IPv4Addr, DomainAddr, IPv6Addr
<1>15. ParsePacket(packet) = ParsedAt(packet, k, k + n)
  <2>1. /\ ~(Len(packet) < 10) /\ ~(Len(packet) < k + n + 2)
    BY <1>9, LenProperties
  <2> QED BY <1>10, <1>12, <1>13, <1>14, <2>1, Zenon DEF ParsePacket
<1> QED BY <1>15 DEF ParsedAt

\* What the program has made of a datagram and of an answer
DatagramsInv ==
  /\ \A h \in heard : h.packet \in Packets /\ h.parsed = ParsePacket(h.packet)
  /\ \A g \in got : g.from \in Sources /\ g.data = <<7>> /\ g.packet = BuildPacket(g.from, g.data)

\* Only the two actions of the association touch them.
LEMMA DatagramsKept ==
  ASSUME DatagramsInv, [Next]_vars
  PROVE  DatagramsInv'
<1>1. CASE \E packet \in Packets : HandleUDPPacket(packet)
  <2>1. PICK packet \in Packets : HandleUDPPacket(packet)
    BY <1>1
  <2>2. got' = got /\ heard' = {[packet |-> packet, parsed |-> ParsePacket(packet)]}
    BY <2>1 DEF HandleUDPPacket
  <2> QED BY <2>2 DEF DatagramsInv
<1>2. CASE \E a \in Sources : HandleUDPResponse(a, <<7>>)
  <2>1. PICK a \in Sources : HandleUDPResponse(a, <<7>>)
    BY <1>2
  <2>2. /\ heard' = heard
        /\ got' = {[from |-> a, data |-> <<7>>, packet |-> BuildPacket(a, <<7>>)]}
    BY <2>1 DEF HandleUDPResponse
  <2> QED BY <2>2 DEF DatagramsInv
<1>3. ASSUME UNCHANGED udpVars PROVE DatagramsInv'
  BY <1>3 DEF udpVars, DatagramsInv
<1>4. CASE FirstByte \/ Methods \/ UserPassAuth \/ RequestConnect \/ RequestUdp \/ RequestRefused
  BY <1>3, <1>4 DEF FirstByte, Methods, UserPassAuth, RequestConnect, RequestUdp, RequestRefused
<1>5. CASE FirstFrame \/ ReadFails \/ RequestLine \/ Header \/ EndOfHeaders \/ Body
  BY <1>3, <1>5 DEF FirstFrame, ReadFails, RequestLine, Header, EndOfHeaders, Body
<1>6. CASE Connected \/ NotConnected \/ Relay \/ ReadControl \/ RelayEnds
  BY <1>3, <1>6 DEF Connected, NotConnected, Relay, ReadControl, RelayEnds
<1>7. CASE ServerAnswers \/ PoolCloses \/ Send \/ HangUp \/ UNCHANGED vars
  BY <1>3, <1>7 DEF ServerAnswers, PoolCloses, Send, HangUp, vars
<1> QED BY <1>1, <1>2, <1>4, <1>5, <1>6, <1>7 DEF Next, HandleConnection

LEMMA DatagramsInvariant == Spec => []DatagramsInv
<1>1. Init => DatagramsInv
  BY DEF Init, DatagramsInv
<1> QED BY <1>1, DatagramsKept, PTL DEF Spec

\* No way to cut a refused packet of ten bytes or more in pieces makes it a
\* datagram.
LEMMA RefusedIsNoDatagram ==
  ASSUME NEW p \in Seq(Byte), ~(Len(p) < 10), NEW from \in {4, 5},
         NEW n \in 0 .. Len(p) - from - 2, NEW a, IsAddress(a),
         p = Datagram(a, SubSeq(p, from + n + 3, Len(p)))
  PROVE  ParsePacket(p).ok
<1>1. Len(p) \in Nat
  BY LenProperties
<1>2. /\ from + n + 2 \in Nat /\ from + n + 2 <= Len(p)
      /\ (from + n + 2) + 1 = from + n + 3
  BY <1>1
<1>3. SubSeq(p, from + n + 3, Len(p)) \in Seq(Byte)
  BY <1>1, <1>2, PartOf
<1>4. Len(p) >= 10
  BY <1>1
<1> QED BY <1>3, <1>4, DatagramIsParsed

\* p is the datagram it is when its host is the n bytes behind "from".
Cut(p, from, n) ==
  LET a == [atyp |-> p[4], host |-> SubSeq(p, from + 1, from + n),
            port |-> p[from + n + 1] * 256 + p[from + n + 2]]
  IN IsAddress(a) /\ p = Datagram(a, SubSeq(p, from + n + 3, Len(p)))

\* Every datagram is understood as the layout of RFC 1928 has it: what is taken
\* from an accepted one gives it back, byte for byte, and one of ten bytes or
\* more is only refused when nothing gives it (parseSOCKS5UDPPacket).
THEOREM DatagramsAreRead == Spec => []DatagramIsRead
<1>1. DatagramsInv => DatagramIsRead
  <2> SUFFICES ASSUME DatagramsInv, NEW h \in heard, NEW p, p = h.packet
               PROVE  IF h.parsed.ok
                      THEN IsAddress(h.parsed) /\ p = Datagram(h.parsed, h.parsed.data)
                      ELSE \/ Len(p) < 10
                           \/ ~ \E from \in {4, 5} : \E n \in 0 .. Len(p) - from - 2 : Cut(p, from, n)
    BY Zenon DEF DatagramIsRead, Cut
  <2>1. p \in Seq(Byte) /\ h.parsed = ParsePacket(p)
    BY PacketsAssumption DEF DatagramsInv
  <2>2. CASE h.parsed.ok
    BY <2>1, <2>2, ParsedIsDatagram
  <2>3. CASE ~h.parsed.ok
    <3>1. ~ParsePacket(p).ok
      BY <2>1, <2>3
    <3>2. ASSUME ~(Len(p) < 10), NEW from \in {4, 5}, NEW n \in 0 .. Len(p) - from - 2,
                 NEW a, IsAddress(a), p = Datagram(a, SubSeq(p, from + n + 3, Len(p)))
          PROVE  FALSE
      BY <2>1, <3>1, <3>2, RefusedIsNoDatagram
    <3>3. ASSUME ~(Len(p) < 10), NEW from \in {4, 5}, NEW n \in 0 .. Len(p) - from - 2
          PROVE  ~Cut(p, from, n)
      <4>1. PICK a : a = [atyp |-> p[4], host |-> SubSeq(p, from + 1, from + n),
                          port |-> p[from + n + 1] * 256 + p[from + n + 2]]
        OBVIOUS
      <4>2. ~(IsAddress(a) /\ p = Datagram(a, SubSeq(p, from + n + 3, Len(p))))
        BY <3>2, <3>3, Zenon
      <4> QED BY <4>1, <4>2, Zenon DEF Cut
    <3> QED BY <2>3, <3>3, Zenon
  <2> QED BY <2>2, <2>3, Zenon
<1> QED BY <1>1, DatagramsInvariant, PTL

\* Every answer reaches the application in the layout of RFC 1928, with the
\* address it came from (buildSOCKS5UDPPacket).
THEOREM AnswersAreReadable == Spec => []AnswerIsReadable
<1>1. DatagramsInv => AnswerIsReadable
  <2> SUFFICES ASSUME DatagramsInv, NEW g \in got
               PROVE  g.packet = Datagram(g.from, g.data)
    BY DEF AnswerIsReadable
  <2>1. g.from \in Sources /\ g.data = <<7>> /\ g.packet = BuildPacket(g.from, g.data)
    BY DEF DatagramsInv
  <2>2. IsAddress(g.from)
    BY <2>1, SourcesAssumption
  <2>3. <<7>> \in Seq(Byte)
    BY SMT DEF Byte
  <2> QED BY <2>1, <2>2, <2>3, BuildIsDatagram
<1> QED BY <1>1, DatagramsInvariant, PTL
=============================================================================
