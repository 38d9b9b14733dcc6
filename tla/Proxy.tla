------------------------------- MODULE Proxy --------------------------------
(***************************************************************************)
(* A connection to the proxy listener, from its first byte to the session  *)
(* or UDP association it asks for, and the bytes that follow               *)
(* (handleProxyConnection in proxy.go, the handshakes of socks5.go and     *)
(* http_proxy.go).  What the pool does with a session is in Forwarder and  *)
(* Tunnel; here it connects or not, and may close the connection.          *)
(*                                                                         *)
(* The application's bytes are a script of parts, each named for what the  *)
(* code takes it for where it stands: the first byte, a SOCKS5 message, a  *)
(* line of an HTTP request, a unit of payload.  Parts are numbered by      *)
(* their place.  A part has not arrived until its last byte has.           *)
(***************************************************************************)
EXTENDS Socks5Udp

CONSTANTS Scripts,     \* what an application may be about to send
          Packets,     \* datagrams an application may send
          Sources      \* addresses an answer may come from

Parts == {"5", "letter", "other",
          "methods", "methods+auth", "auth right", "auth wrong",
          "connect", "udp", "bind", "bad atyp",
          "CONNECT", "GET", "bad line", "bad URL",
          "h right", "h wrong", "h length", "h no length", "h other", "blank",
          "unit"}

ASSUME ScriptsAssumption == Scripts \subseteq Seq(Parts)
ASSUME PacketsAssumption == Packets \subseteq Seq(Byte)
ASSUME SourcesAssumption == \A a \in Sources : IsAddress(a)

VARIABLES
  script, protected,    \* the application's script; whether user and password are set
  sent, eof,            \* parts sent so far; whether the application has hung up
  early,                \* it has sent more than its request before an answer to it
  pc,                   \* handleProxyConnection
  kind,                 \* what is asked for
  pos, taken,           \* parts used; parts taken from the connection: those in
                        \* between are in the bufio.Reader
  cred, body,           \* headers: Proxy-Authorization, Content-Length
  deadline,             \* of the connection: 30 s, 100 ms, or none
  relayed,              \* parts given to the pool as payload
  answered, gone,       \* the request has been answered; the pool has closed conn
  heard, got            \* what became of one datagram, and of one answer

appVars == <<script, protected, sent, eof, early>>
udpVars == <<heard, got>>
vars == <<appVars, pc, kind, pos, taken, cred, body, deadline, relayed, answered, gone, udpVars>>

Handshake == {"first", "methods", "auth", "request", "line", "headers", "body", "frame"}
Served == {"wait", "relay", "assoc"}

FlagsOK == /\ protected \in BOOLEAN /\ eof \in BOOLEAN /\ early \in BOOLEAN
           /\ body \in BOOLEAN /\ answered \in BOOLEAN /\ gone \in BOOLEAN
PlacesOK == /\ script \in Scripts
            /\ pos \in Nat /\ taken \in Nat /\ sent \in Nat
            /\ pos <= taken /\ taken <= sent /\ sent <= Len(script)
            /\ relayed \in Seq(1 .. Len(script))
ValuesOK == /\ pc \in Handshake \cup Served \cup {"refused", "ended"}
            /\ kind \in {"none", "socks5", "connect", "forward"}
            /\ cred \in {"none", "right", "wrong"}
            /\ deadline \in {"long", "short", "none"}
            /\ \A h \in heard : h.packet \in Packets
            /\ \A g \in got : g.from \in Sources
TypeOK == FlagsOK /\ PlacesOK /\ ValuesOK

Init_NoDeadline ==   \* mutant: a connection has no deadline
  /\ script \in Scripts /\ protected \in BOOLEAN
  /\ sent = 0 /\ eof = FALSE /\ early = FALSE
  /\ pc = "first" /\ kind = "none" /\ pos = 0 /\ taken = 0
  /\ cred = "none" /\ body = FALSE
  /\ deadline = "none"
  /\ relayed = << >> /\ answered = FALSE /\ gone = FALSE
  /\ heard = {} /\ got = {}

Init ==
  /\ script \in Scripts /\ protected \in BOOLEAN
  /\ sent = 0 /\ eof = FALSE /\ early = FALSE
  /\ pc = "first" /\ kind = "none" /\ pos = 0 /\ taken = 0
  /\ cred = "none" /\ body = FALSE
  /\ deadline = "long"
  /\ relayed = << >> /\ answered = FALSE /\ gone = FALSE
  /\ heard = {} /\ got = {}

-----------------------------------------------------------------------------
(* Reading and answering *)

Part == script[pos + 1]
Places(i, j) == [k \in 1 .. j - i |-> i + k]     \* i + 1 .. j, in order

Take_Short == pos' = pos + 1 /\ taken' = pos + 1   \* mutant: Read, not ReadFull
\* io.ReadFull on the connection
Take == pos < sent /\ pos' = pos + 1 /\ taken' = pos + 1

\* Through the bufio.Reader: what it holds, else some of what has arrived.
ReadBuffered ==
  /\ pos < sent
  /\ pos' = pos + 1
  /\ IF pos < taken THEN taken' = taken ELSE taken' \in pos + 1 .. sent

\* An answer can only fail when the application has hung up or the deadline has
\* passed; then the connection is closed.
Answer(next) == pc' = next \/ ((eof \/ deadline # "none") /\ pc' = "ended")

\* Any read of a handshake: time is up, or nothing more will come.  Some of the
\* callers answer 400, and all close.  A read that outlives the handshake would
\* fail of a deadline that is still set.
ReadFails ==
  /\ pc \in Handshake \ {"frame"} \/ (pc \in {"relay", "assoc"} /\ deadline # "none")
  /\ deadline # "none" \/ (eof /\ pos = sent)
  /\ pc' = "ended"
  /\ UNCHANGED <<appVars, kind, pos, taken, cred, body, deadline, relayed, answered, gone, udpVars>>

-----------------------------------------------------------------------------
(* Detection and SOCKS5 *)

FirstByte ==
  /\ pc = "first" /\ Take
  /\ pc' = IF Part = "5" THEN "methods" ELSE IF Part = "letter" THEN "line" ELSE "refused"
  /\ UNCHANGED <<appVars, kind, cred, body, deadline, relayed, answered, gone, udpVars>>

Methods ==
  /\ pc = "methods" /\ Take
  /\ IF ~protected THEN Answer("request")
     ELSE Answer(IF Part = "methods+auth" THEN "auth" ELSE "refused")
  /\ UNCHANGED <<appVars, kind, cred, body, deadline, relayed, answered, gone, udpVars>>

\* Mutant: the result is sent but not looked at.
UserPassAuth_Ignored ==
  /\ pc = "auth" /\ Take
  /\ IF Part \in {"auth right", "auth wrong"} THEN Answer("request") ELSE pc' = "refused"
  /\ UNCHANGED <<appVars, kind, cred, body, deadline, relayed, answered, gone, udpVars>>

\* Anything else has the wrong version in its first byte.
UserPassAuth ==
  /\ pc = "auth" /\ Take
  /\ \/ Part = "auth right" /\ Answer("request")
     \/ Part = "auth wrong" /\ Answer("refused")
     \/ Part \notin {"auth right", "auth wrong"} /\ pc' = "refused"
  /\ UNCHANGED <<appVars, kind, cred, body, deadline, relayed, answered, gone, udpVars>>

RequestConnect ==
  /\ pc = "request" /\ Take
  /\ Part = "connect"
  /\ pc' = "frame" /\ kind' = "socks5" /\ deadline' = "short"
  /\ UNCHANGED <<appVars, cred, body, relayed, answered, gone, udpVars>>

RequestUdp_KeepsDeadline ==   \* mutant: the deadline is not cleared
  /\ pc = "request" /\ Take
  /\ Part = "udp"
  /\ Answer("assoc") \/ pc' = "ended"
  /\ kind' = "socks5" /\ answered' = TRUE
  /\ UNCHANGED <<appVars, cred, body, deadline, relayed, gone, udpVars>>

\* The UDP socket is opened, or not: then the reply says so.
RequestUdp ==
  /\ pc = "request" /\ Take
  /\ Part = "udp"
  /\ Answer("assoc") \/ pc' = "ended"
  /\ kind' = "socks5" /\ answered' = TRUE
  /\ deadline' = IF pc' = "assoc" THEN "none" ELSE deadline
  /\ UNCHANGED <<appVars, cred, body, relayed, gone, udpVars>>

RequestRefused ==
  /\ pc = "request" /\ Take
  /\ Part \notin {"connect", "udp"}
  /\ Answer("refused")
  /\ UNCHANGED <<appVars, kind, cred, body, deadline, relayed, answered, gone, udpVars>>

\* One read of at most 100 ms; whatever it returns is the first frame, an error
\* or the timeout is an empty one.
FirstFrame_Lost ==   \* mutant: what was read is not passed on
  /\ pc = "frame"
  /\ \E n \in pos .. sent : pos' = n /\ taken' = n
  /\ deadline' = "none" /\ pc' = "wait"
  /\ UNCHANGED <<appVars, kind, cred, body, relayed, answered, gone, udpVars>>
FirstFrame ==
  /\ pc = "frame"
  /\ \E n \in pos .. sent : /\ pos' = n /\ taken' = n
                            /\ relayed' = relayed \o Places(pos, n)
  /\ deadline' = "none" /\ pc' = "wait"
  /\ UNCHANGED <<appVars, kind, cred, body, answered, gone, udpVars>>

-----------------------------------------------------------------------------
(* HTTP *)

RequestLine ==
  /\ pc = "line" /\ ReadBuffered
  /\ pc' = IF Part \in {"CONNECT", "GET"} THEN "headers" ELSE "refused"
  /\ kind' = IF Part = "CONNECT" THEN "connect" ELSE IF Part = "GET" THEN "forward" ELSE "none"
  /\ UNCHANGED <<appVars, cred, body, deadline, relayed, answered, gone, udpVars>>

Header_New ==   \* mutant: a new map with each line
  /\ pc = "headers" /\ ReadBuffered
  /\ Part # "blank"
  /\ cred' = IF Part = "h right" THEN "right" ELSE IF Part = "h wrong" THEN "wrong" ELSE "none"
  /\ body' = (Part = "h length")
  /\ UNCHANGED <<appVars, pc, kind, deadline, relayed, answered, gone, udpVars>>

\* readHTTPHeaders fills a map: of two headers of one name the last counts.
\* "h length" is a Content-Length of 1 byte to less than 10 MB; "h no length" is
\* any other value, for which no body is read.
Header ==
  /\ pc = "headers" /\ ReadBuffered
  /\ Part # "blank"
  /\ cred' = IF Part = "h right" THEN "right" ELSE IF Part = "h wrong" THEN "wrong" ELSE cred
  /\ body' = (Part = "h length" \/ (body /\ Part # "h no length"))
  /\ UNCHANGED <<appVars, pc, kind, deadline, relayed, answered, gone, udpVars>>

\* The deadline is cleared and the session registered.  The reader goes, with
\* what it holds.
HandOver == pc' = "wait" /\ deadline' = "none"

EndOfHeaders ==
  /\ pc = "headers" /\ ReadBuffered
  /\ Part = "blank"
  /\ IF protected /\ cred # "right" THEN Answer("refused") /\ UNCHANGED deadline
     ELSE IF kind = "forward" /\ body THEN pc' = "body" /\ UNCHANGED deadline
     ELSE HandOver
  /\ UNCHANGED <<appVars, kind, cred, body, relayed, answered, gone, udpVars>>

\* A body whose length is given, and less than 10 MB; other bodies are left to
\* the relay loop.
Body ==
  /\ pc = "body" /\ ReadBuffered
  /\ relayed' = Append(relayed, pos + 1)
  /\ HandOver
  /\ UNCHANGED <<appVars, kind, cred, body, answered, gone, udpVars>>

-----------------------------------------------------------------------------
(* The session, as far as the connection sees it *)

Connected ==
  /\ pc = "wait"
  /\ IF kind = "forward" THEN pc' = "relay" /\ UNCHANGED answered
     ELSE Answer("relay") /\ answered' = TRUE
  /\ UNCHANGED <<appVars, kind, pos, taken, cred, body, deadline, relayed, gone, udpVars>>

NotConnected ==
  /\ pc = "wait"
  /\ pc' = "ended" /\ answered' = TRUE
  /\ UNCHANGED <<appVars, kind, pos, taken, cred, body, deadline, relayed, gone, udpVars>>

\* The relay loop reads the connection itself, not the reader.
Relay ==
  /\ pc = "relay" /\ ~gone
  /\ \E n \in taken + 1 .. sent : /\ pos' = n /\ taken' = n
                                  /\ relayed' = relayed \o Places(taken, n)
  /\ UNCHANGED <<appVars, pc, kind, cred, body, deadline, answered, gone, udpVars>>

\* The control connection of an association is read for its end only.
ReadControl ==
  /\ pc = "assoc" /\ Take
  /\ UNCHANGED <<appVars, pc, kind, cred, body, deadline, relayed, answered, gone, udpVars>>

RelayEnds ==
  /\ pc \in {"relay", "assoc"}
  /\ gone \/ (eof /\ taken = sent)
  /\ pc' = "ended"
  /\ UNCHANGED <<appVars, kind, pos, taken, cred, body, deadline, relayed, answered, gone, udpVars>>

ServerAnswers ==   \* the target's response to a plain request
  /\ pc = "relay" /\ kind = "forward" /\ ~answered
  /\ answered' = TRUE
  /\ UNCHANGED <<appVars, pc, kind, pos, taken, cred, body, deadline, relayed, gone, udpVars>>
PoolCloses ==      \* handleChannel closes the connection of the session
  /\ pc = "relay" /\ ~gone
  /\ gone' = TRUE
  /\ UNCHANGED <<appVars, pc, kind, pos, taken, cred, body, deadline, relayed, answered, udpVars>>

-----------------------------------------------------------------------------
(* The datagrams of an association: one each way is enough *)

HandleUDPPacket(packet) ==
  /\ pc = "assoc" /\ heard = {}
  /\ heard' = {[packet |-> packet, parsed |-> ParsePacket(packet)]}
  /\ UNCHANGED <<appVars, pc, kind, pos, taken, cred, body, deadline, relayed, answered, gone, got>>

\* An answer comes from an IP address.  The text of an IPv6 one has more than
\* one colon and is dropped.
HandleUDPResponse(a, data) ==
  /\ pc = "assoc" /\ got = {}
  /\ \E h \in heard : h.parsed.ok
  /\ a.atyp = IPv4Addr
  /\ got' = {[from |-> a, data |-> data, packet |-> BuildPacket(a, data)]}
  /\ UNCHANGED <<appVars, pc, kind, pos, taken, cred, body, deadline, relayed, answered, gone, heard>>

-----------------------------------------------------------------------------
(* What a request is: RFC 1928, RFC 1929 and HTTP, for a proxy that asks for
   credentials when it has a user and a password (README.md).  A proxy without
   credentials takes any list of methods, as socks5.go 64-108 does: that an
   application has offered "no authentication" is not asked of it here.       *)

Socks5Request(n) ==
  /\ script[1] = "5"
  /\ IF protected THEN /\ n = 4
                       /\ script[2] = "methods+auth" /\ script[3] = "auth right"
     ELSE n = 3
  /\ script[n] \in {"connect", "udp"}

HttpHead(b) ==
  /\ 3 <= b /\ script[1] = "letter" /\ script[2] \in {"CONNECT", "GET"}
  /\ script[b] = "blank" /\ \A i \in 3 .. b - 1 : script[i] # "blank"
Authorised(b) ==
  \E i \in 3 .. b - 1 : script[i] = "h right" /\ \A j \in i + 1 .. b - 1 : script[j] # "h wrong"
HasBody(b) ==
  /\ script[2] = "GET"
  /\ \E i \in 3 .. b - 1 : /\ script[i] = "h length"
                           /\ \A j \in i + 1 .. b - 1 : script[j] # "h no length"
HttpRequest(n) ==
  \E b \in 1 .. n : /\ HttpHead(b) /\ (protected => Authorised(b))
                    /\ n = IF HasBody(b) THEN b + 1 ELSE b

\* The first n parts are a request that is to be served.
Request(n) == Socks5Request(n) \/ HttpRequest(n)
\* The first n parts end before the payload.
EndOfRequest(n) == Socks5Request(n) \/ HttpHead(n)

-----------------------------------------------------------------------------
(* The application: it sends on, in time or early, and hangs up *)

Send ==
  /\ ~eof /\ sent < Len(script) /\ pc # "ended" /\ pc # "refused"
  /\ sent' = sent + 1
  /\ early' = (early \/ (~answered /\ \E n \in 1 .. sent : Request(n)))
  /\ UNCHANGED <<script, protected, eof, pc, kind, pos, taken, cred, body, deadline, relayed,
                 answered, gone, udpVars>>
HangUp ==
  /\ ~eof
  /\ eof' = TRUE
  /\ UNCHANGED <<script, protected, sent, early, pc, kind, pos, taken, cred, body, deadline,
                 relayed, answered, gone, udpVars>>

HandleConnection ==
  \/ ReadFails \/ FirstByte
  \/ Methods \/ UserPassAuth \/ RequestConnect \/ RequestUdp \/ RequestRefused \/ FirstFrame
  \/ RequestLine \/ Header \/ EndOfHeaders \/ Body
Next ==
  \/ HandleConnection
  \/ Connected \/ NotConnected \/ Relay \/ ReadControl \/ RelayEnds
  \/ \E packet \in Packets : HandleUDPPacket(packet)
  \/ \E a \in Sources : HandleUDPResponse(a, <<7>>)
  \/ ServerAnswers \/ PoolCloses \/ Send \/ HangUp

Spec == Init /\ [][Next]_vars
\* The goroutine is scheduled and deadlines pass; nobody has to send.
FairSpec == Spec /\ WF_vars(HandleConnection)

-----------------------------------------------------------------------------

\* A session or an association is only ever given to an application that has
\* sent a complete request, with the right credentials where they are asked for
\* (proxy.go 113-126, socks5.go 64-258, http_proxy.go 18-72, 130-171).
OnlyRequestsAreServed == pc \in Served \cup {"frame"} => \E n \in 1 .. sent : Request(n)

\* No application that has sent such a request is turned away, whatever the
\* order and number of its headers.
RequestsAreServed == pc = "refused" => ~ \E n \in 1 .. sent : Request(n)

\* Once it is served a connection may be silent for as long as it likes: it ends
\* with the application or with the session, never of a deadline of the
\* handshake that is still set (proxy.go 102; socks5.go 277-281, 370;
\* http_proxy.go 76, 209).  What else ends an association, through assoc.done, is
\* in UdpAssociation.
SilenceIsAllowed ==
  [][pc' = "ended" /\ pc \in {"relay", "assoc"} => gone \/ eof]_vars

\* What follows the request reaches the pool in order and without a gap.  Over
\* HTTP that is so for an application that waits for the answer before it sends
\* more than the proxy takes for its request: a byte that arrives with the
\* headers stays in the reader, which the relay loop does not read
\* (socks5.go 278-287, 305-314; http_proxy.go 21, 104-110, 157-171, 231-238).
NothingIsLost ==
  pc \in {"wait", "relay"} /\ (kind = "socks5" \/ ~early) =>
    \E n \in 1 .. taken : EndOfRequest(n) /\ relayed = Places(n, taken)

\* What is sent to the server for a datagram is what RFC 1928 says it holds, and
\* only what holds nothing, or has less than ten bytes, is dropped
\* (socks5.go 580-649).
DatagramIsRead ==
  \A h \in heard :
    LET p == h.packet IN
    IF h.parsed.ok
    THEN IsAddress(h.parsed) /\ p = Datagram(h.parsed, h.parsed.data)
    ELSE \/ Len(p) < 10
         \/ ~ \E from \in {4, 5} : \E n \in 0 .. Len(p) - from - 2 :
                LET a == [atyp |-> p[4], host |-> SubSeq(p, from + 1, from + n),
                          port |-> p[from + n + 1] * 256 + p[from + n + 2]]
                IN IsAddress(a) /\ p = Datagram(a, SubSeq(p, from + n + 3, Len(p)))

\* The application can read the answers it gets (socks5.go 651-689).
AnswerIsReadable == \A g \in got : g.packet = Datagram(g.from, g.data)

\* No application keeps a handshake open for ever (proxy.go 102).
HandshakeEnds == (pc \in Handshake) ~> (pc \notin Handshake)
=============================================================================
