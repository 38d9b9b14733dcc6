# Verification of ECH__tunnel

TLA+ specifications of the tunnel in `src/`, checked with TLC on small
instances, and theorems about them proved with TLAPS for every instance.
Line numbers are those of the files in `src/`.

## 1. The system

A client accepts local connections, as plain TCP forwards (`-l tcp://...`) or
as a SOCKS5 and HTTP proxy (`-l proxy://...`), and carries them over a pool of
WebSocket channels to a server, which dials the targets.

| component | source | state | operations | hard part |
|---|---|---|---|---|
| Session goroutines | `tcp_client.go` 97-155, `socks5.go` 274-316, `http_proxy.go` 73-115, 205-243 | where the goroutine is, its connection | accept, register and claim, wait 5 s, reply, relay, deferred close | the pool closes and forgets the session under it; 5 s time-out |
| ECHPool | `pool.go` | `wsConns`, `tcpMap`, `channelMap`, `connInfo`, `claimTimes`, `connected`, `boundByChannel`, `udpMap` | `RegisterAndClaim`, `WaitConnected`, `SendData`, `SendClose`, `handleChannel` per message, dial and redial | a goroutine per channel and per session over maps that are locked step by step; late acks; redials |
| WebSocket connections | both ends | two FIFO streams | write, read, break | loss of a suffix on break; both ends keep stale pointers |
| Server | `websocket_server.go` 168-530 | per connection: `conns`, a goroutine per session | CLAIM, TCP, DATA, CLOSE, dial, pump, cleanup | dial outside the lock; cleanup and CLOSE against running goroutines |
| ECH configuration | `ech.go` 28-71, `tcp_client.go` 157-232 | `echList` | `prepareECH`, `refreshECH`, `getECHList`, dial with retry | concurrent refreshes, stale DNS, rotation |
| UDP associations | `socks5.go` 318-578, `pool.go` 104-193, `websocket_server.go` 226-374 | `UDPAssociation`, `udpMap`, `udpConns` | associate, first packet connects, relay, close | shared buffer; five kinds of goroutine signal on `done`, which has room for two; a redial under an association |
| SOCKS5 and HTTP handshakes | `proxy.go` 96-129, `socks5.go` 64-316, `http_proxy.go` 18-298 | the deadline of the connection, its `bufio.Reader`, the map of headers | detection, authentication, parsing, hand-over to the session | bytes that arrive early stay in the reader; four ways out must clear the deadline |
| Codecs | `socks5.go` 580-689, `ech.go` 92-230 | none | SOCKS5 UDP packets, DNS query, HTTPS record | lengths inside the data lead the parser |
| Back pressure | `pool.go` 104-460, `websocket_server.go` 163-530, `socks5.go` 362-578 | `wsMutexes`, `mu`, `assoc.mu`, `assoc.done`, what the sockets hold | every write to a WebSocket, a local or a target connection | a writer keeps the mutex while it waits for room; read loops are writers, and wait for associations that are |
| Start-up, flags, certificate, upgrade | `main.go`, `proxy.go`, `tcp_client.go`, `websocket_server.go` | none | | |

A TCP session goes through these steps.  Its goroutine puts it in `tcpMap` and
`connInfo` and writes `CLAIM` on every live channel.  The server answers each
with `CLAIM_ACK`.  The `handleChannel` that reads the first ack moves the
session to `channelMap` and writes `TCP` with the target and the first frame.
The server dials the target, writes the first frame, answers `CONNECTED` and
relays the target's data as `DATA`.  `CONNECTED` wakes the session's goroutine,
which relays the app's data as `DATA`.  Whoever ends, `CLOSE` tells the other
side, and the server echoes it.  Before that, a connection to the proxy listener
goes through a handshake, with one deadline of 30 s, which ends in a session, in
a UDP association or in a refusal.

## 2. Modules

| module | models |
|---|---|
| `Wire` | The WebSocket connections and the six messages of TCP sessions. A connection is `<<channel, epoch>>`: each redial of a channel is a new epoch. `Break` cuts both streams at an arbitrary place. A write on a broken connection may return nil or an error, and is lost. |
| `ECHPool` | `pool.go` for TCP sessions. `handler[c]` is the goroutine of channel `c`: dialling, reading, or between winning a race and writing `TCP` (357-361), or between a failed write and the abort (361-372), where it holds no lock. Each message has an action. The maps are those of the struct; absence from a map is a value of its own (`NoInfo`, `NoChannel`, `NilSet`), since the code tells it apart. |
| `Forwarder` | The goroutine of a session, `fwd[s]`, for the four kinds "tcp", "socks5", "connect" and "forward". The claim loop is one action per locked region and one per write. The two deferred calls are two actions. |
| `WebSocketServer` | The read loop of a connection and the goroutine of a session, `task[w][s]`: dial, first frame, notify, pump. |
| `Tunnel` | The composition, its fairness and its properties. |
| `Relay` | The abstract specification of one session. |
| `EchDial` | The ECH configuration, on its own: channels and main, DNS that may lag behind the server, faults. What a resolver answers is bytes, and what the code makes of them is `DnsCodec`. |
| `DnsCodec` | `buildDNSQuery`, `parseDNSResponse` and `parseHTTPSRecord`, byte by byte. Of base64 between them and the cache only the failure is left. |
| `UdpWire` | The UDP messages, over the connections of `Wire`. |
| `UdpAssociation` | The client's half of an association: its main goroutine (`serve`), the one that reads the control connection (`reader`), `handleUDPRelay` (`relay`), the one in `WaitConnected` (`timer`), one per datagram (`packets`), and the UDP part of the pool and of `handleChannel`. |
| `UdpServer` | The UDP part of the server's read loop and the goroutine that receives for a socket. |
| `UdpTunnel` | Their composition, fairness and properties. |
| `Proxy` | A connection to the proxy listener, from its first byte until it has been served: the deadline, the `bufio.Reader` (what is in it is what was `taken` but not used, `pos`), the headers, the hand-over, and the relay as far as it reads the same connection. The application sends a script of parts, each named for what the code takes it for, and may hang up anywhere. |
| `Socks5Udp` | `parseSOCKS5UDPPacket` and `buildSOCKS5UDPPacket`, byte by byte; `Proxy` reads one datagram each way with them. The text form of an address is left out. |
| `BackPressure` | Who waits for whom on one WebSocket connection that stays up: streams that hold a bounded number of frames, the two mutexes, what each goroutine has to write (`todo`), local and target connections that may not be read; of an association, `assoc.mu` and what its holder is writing (`mutex`), `done` and who may still signal (`senders`). A `DATA` frame only names its session, so that sessions may send for ever in finitely many states. |
| `MCTunnel`, `MCUdp`, `MCFlow`, `MCProxy`, `MCEch` | Model values, symmetry, scripts, datagrams, and the answers of a resolver. |
| `TunnelProofs`, `RequestProofs`, `RoutingProofs`, `RelayProofs`, `EchDialProofs`, `UdpProofs`, `ProxyProofs`, `BackPressureProofs` | Theorems. |

An operator `X_Y` just before a definition `X` is a plausible bug in the code of
`X`; each property is known to fail when one of them replaces `X`
(`PROJECT.json`, "mutants").

Payload is abstracted to the number of the unit a read returns; a first frame
is 0 (none) or 1; a reply is 0 (success) or -1 (failure).  UUIDs are the
elements of `Sessions` and are never reused.

Granularity: what the code does under one lock, or between two points where
another goroutine could notice, is one step.  `SendData` and `SendClose` are one
step: the lookup and the write are separated by a lock, but a redial in between
has the same effect as a break just before the write.  A write to a local
connection or to a target, made outside the locks after a lookup, is one step
with the lookup: when the connection is closed in between, the write fails as
it does in `ReadDataFails`, or the session is unknown as in `RejectData`, and
both send `CLOSE`.  `closers` is a set: several pending `go p.SendClose(id)` of
one session are one, for `CLOSE` is idempotent.

The three views of a session meet at its seams.  `Proxy` ends where `Forwarder`
begins: what `Proxy` calls `relayed` is what `ReadLocal` and the first frame of
`Forwarder` number, and `Connected`, `NotConnected` and `PoolCloses` are what the
pool may do to it.  `BackPressure` has the messages and goroutines of `Tunnel` but
streams with bounds; `Tunnel` lets streams grow and breaks them.  So `Tunnel` says
what arrives, and `BackPressure` whether it has to wait.

Associations are modelled apart from TCP sessions.  The two share the channels'
read loops, `channelMap` and `boundByChannel`, but their connIDs are disjoint and
`boundByChannel` is only read for binary messages without a header, which the
server never sends.  Each can reach the other by making a read loop wait: that is
in `BackPressure`, which has both, and `UdpStuck.cfg` follows one case through the
whole life of an association.  What runs under `assoc.mu` is one step:
`sendUDPData` with its lookup and up to two writes, `Close` with `SendUDPClose`,
and a write to the app.  An answer is looked up in one step and written in
another, since `handleUDPResponse` waits for that lock.  A datagram is the number
of its read.  Its goroutine holds a slice of the shared buffer, so what it sends
is the header and the payload of any datagrams read between its start and its
step, or a mix (`Seen`).  The app uses one address; datagrams from another, which
are ignored, are left out.

## 3. Properties and runs

| run | instance | checks |
|---|---|---|
| `Race.cfg` | 1 session ("forward"), 2 channels, 2 dials each, 1 unit up | `TypeOK`, `OneRequest`, `OnBoundChannel`, `DialledOnce` |
| `Session.cfg` | 1 session ("tcp"), 1 channel, 2 dials, 2 units up, 1 down, fair | `NoPanic`, `ForgottenIsClosed`, `CloseLosesNothing`, `ImplementsRelay`, `RelayIsReleased`, `BrokenIsCleaned`, `HangupReachesApp`, `MapsAreCleaned` |
| `Sharing.cfg` | 2 sessions (tcp or connect), 1 channel, 1 dial, 1 unit up, symmetric | `BoundAgrees`, `OnOwnConnection`, `EstablishedIsReal` |
| `Flow.cfg` | 1 session, whose app and target send and hang up, and 1 association, one or the other; streams of 1 frame, fair | `TypeOK`, `StandstillHasCause`, `CrossedForEver`, `ReadLoopsComeBack` |
| `Proxy.cfg` | 201 scripts with and without a password, 85 datagrams, 2 sources, fair | `TypeOK`, `OnlyRequestsAreServed`, `RequestsAreServed`, `NothingIsLost`, `DatagramIsRead`, `AnswerIsReadable`, `SilenceIsAllowed`, `HandshakeEnds` |
| `Ech.cfg` | 2 channels, 3 configurations, 2 faults, a resolver of `MCEch`, fair | `TypeOK`, `NeverWithoutKey`, `KeyIsPublished`, `AllComeUp` |
| `Udp.cfg` | 1 association, 1 channel, 2 dials, 3 datagrams, at most 2 of them one way, and a second association next to it, fair | `TypeOK`, `ConnectedOnce`, `AnswersInOrder`, `BoundAgrees`, `ClosedIsSilent`, `EndsWithControl`, `ConnectsOrEnds` |

What they say:

- `OneRequest`, `DialledOnce`: the request to dial a session's target is in
  `connInfo`, with the winning channel, in one stream, or at the server, never in
  two of these places; so no target is dialled twice.  This is what makes it
  harmless that `CLOSE` and the abort clear `channelMap` again while acks of other
  channels are still to come.
- `OnBoundChannel`, `BoundAgrees`: what the server says of a session comes on the
  channel it is bound to, and `boundByChannel` names only sessions of its channel,
  although each `CLOSE` deletes the entry of its channel whatever it names; the same
  of associations, of which `Udp.cfg` has two on one channel.
- `ForgottenIsClosed`: no way out of `tcpMap` leaks the local connection.
- `EstablishedIsReal`: `CONNECTED` is neither early nor made up.
- `CloseLosesNothing`: `CLOSE` does not overtake `DATA`.
- `ImplementsRelay`: each session, seen from its two ends, is a `Relay`: each end
  gets a prefix of what the other sent, in order, and the target is dialled once.
  It is `Session(s)!Spec` for every `s` with the boxes joined.
- `OnOwnConnection`: without redials, `DATA` and `CLOSE` never reach the server
  before their session's `TCP`.
- `RelayIsReleased`, `BrokenIsCleaned`, `HangupReachesApp`, `MapsAreCleaned`: what
  must be cleaned up is, through lost `CLOSE`s, breaks and dials in progress,
  unless a write to an app or a target waits for ever.  Each names the writes it is
  lost to: `LoopWaits(w)`, the server's read loop, which then reads neither `CLOSE`
  nor the end of its connection; `ReaderWaits(c)`, the client's, which then reads no
  echo; `FirstWaits(w, s)`, the first frame.  In `MapsAreCleaned` the client's read
  loop counts only when it waits for another session's app, since by then its own
  session's connection is closed.
- `StandstillHasCause`: when nobody who has a frame, holds `assoc.mu` or waits on
  `done` can go on, nor a read loop, it is for one of four reasons.  The client's
  read loop waits for an application; the server's for a target; the client's waits
  to signal an association whose `done` is full and is not read any more
  (`DoneIsFull`); or the two wait for each other (`Crossed`).  In the last the
  server's loop has an answer to write, both streams are full, and the client's loop
  has `TCP` to write, or waits for the `assoc.mu` of an association that keeps it
  while its own write waits for room (`socks5.go` 480, 536).  No other circle of
  waits closes: that `go p.SendClose(id)` (`pool.go` 271) and `WaitConnected`
  (`socks5.go` 496) have goroutines of their own is what keeps some open.
- `CrossedForEver`: the crossed wait has no way out, neither by a 5 s time-out, a
  hang-up nor the end of an association.
- `ReadLoopsComeBack`: short of it and of `DoneIsFull`, both read loops always read
  on, as long as applications and targets read.
- `OnlyRequestsAreServed`, `RequestsAreServed`: a session or association is given
  to an application that has sent a complete request, with the right credentials
  where they are asked for, and to every such application.  `Request` is written
  from the RFCs over the whole script, the code goes part by part.
- `NothingIsLost`: what follows the request reaches the pool whole and in order,
  through the 100 ms first frame of SOCKS5 and the reader of HTTP.  Over HTTP only
  if the application waits for the answer (`early`); see below.
- `SilenceIsAllowed`, `HandshakeEnds`: the deadline holds until the handshake has
  ended and on no way out of it longer.
- `DatagramIsRead`, `AnswerIsReadable`: against the layout of RFC 1928 as a
  relation (`Datagram`), which neither of the two functions is written from.
- `NeverWithoutKey`, `AllComeUp`: no dial without a configuration; every channel
  comes up once faults and rotations stop, also when a slow refresh has put an
  older configuration back.
- `KeyIsPublished`: what is cached is a configuration DNS has published, never
  other bytes of an answer, whatever form it has and wherever it is cut off.
- `ConnectedOnce`, `ClosedIsSilent`: one `UDP_CONNECT` per association, and nothing
  behind its `UDP_CLOSE`; otherwise the server, which files sockets by connID, would
  keep one that nobody closes.
- `AnswersInOrder`: no answer is duplicated or overtaken, whatever is lost.
- `EndsWithControl`, `ConnectsOrEnds`: README.md 164; and a refused, lost or late
  answer to `UDP_CONNECT` ends the association.

Bounds.  Two channels and two dials are the least at which a late ack meets a
session that was already won, aborted or closed, and at which a new connection
replaces one that sessions are bound to.  Two sessions on one channel are the
least at which a second winner overwrites `boundByChannel`, and so are two
associations in `Udp.cfg`.  There the constraint `Shared` of `MCUdp` lets the second
one start next to the first, connect, lose a write, time out and close in any order with it, but
only on the first connection of the channel and until the server opens a socket or
answers: a redial keeps the channel's number, and answers touch none of the two maps.
So `BoundAgrees` is checked of two associations, the other properties of one (the
theorems are about any number); the two share nothing else but the read
loops.  `FewUnits` leaves out two datagrams up together with two answers.  Two units
tell order, loss of a suffix, and loss in the middle apart; downwards,
where a read loop writes each unit as it comes, one meets it in all its states.  `MaxDials`, `MaxUp`,
`MaxDown`, `MaxKeys` and `MaxFaults` only bound how often something happens; no
guard of the code depends on them.  `MaxPending` is how many datagrams wait for
their goroutines; the properties of `Udp.cfg` do not depend on what a datagram
carries, so there it is 1.

In `Flow.cfg` a stream of one frame is full soonest; the pings are
the third writer that the crossed wait needs.  A longer stream only delays it.  The
constraint `Apart` of `MCFlow` has either the session or the association use the
connection, never both: `TCP`, `DATA` and `CLOSE` of a session and what an association
writes under its mutex each bring a standstill about.  One of a kind is enough to meet
every cause, for each association has its own mutex and `done`, and a read loop waits
for one thing at a time; that a mixture of any number has no other cause, over streams of
any length, is proved (`StandstillIsExplained`), while `ReadLoopsComeBack` is checked of
each apart.  `Apart` and `FewUnits` cut off only steps that nobody has to take (a new
session, datagram or answer, a signal on `done`), so no behaviour the fairness asks for is
lost; `Shared` also cuts off the server's `UDP_CONNECT`, as said above.  In `Proxy.cfg` the application may stop after any
part and the proxy may read any number of those that have arrived, so every
script is cut at every place; scripts have every method, answer and command,
no to two headers (of two of one name either comes last), and no to two units of payload.  Datagrams have the
lengths around each field's end, for each address type and three lengths of a
name.  In `Ech.cfg` an answer is direct, behind an alias, behind a record that
lacks `ech`, or with other parameters around it, with names whole or as pointers;
a faulty one is any of these cut off at any byte behind its header, empty, or without a
configuration.

Deadlock is not checked: when the bounds are used up and all sessions have ended
the instance stops.

Five runs show where the code departs from what its documents say:

| run | what happens |
|---|---|
| `Panic.cfg` (`NoPanic`) | With two channels the first ack can win while the claim loop is between channels, and delete the inner map the loop then assigns to (`pool.go` 93): the client panics. With one channel it cannot (`Session.cfg`). |
| `ReplyOrder.cfg` (`ReplyFirst`) | Payload of a target that speaks first reaches the app before the success reply. |
| `BlackHole.cfg` (`ReconnectRestores`) | After a redial the old sessions of the channel send into a connection that does not know them, without an error. |
| `UdpStuck.cfg` (`DisconnectIsNoticed`) | The main goroutine takes the signal of the connect time-out, the control reader and `handleUDPRelay` fill `done`, and an answer that was looked up before the close is the third: `handleChannel` waits in `done <- true` for ever, and its channel is never redialled. |
| `UdpBuffer.cfg` (`OnePacketEach`) | A datagram's goroutine sends what a later datagram has written into the shared buffer. |

Others were met that need no run; each is in the model as the code has it:

- `prepareECH` never fails, so a failed query at start-up does not end the program
  as main.go 49 says (`QueryFails`).
- Two read loops that wait for each other do so for ever (`CrossedForEver`): no
  write has a deadline, and a connection that does not fail is not redialled.  TCP
  sessions alone bring it about, and so does an association, whose mutex is kept
  over a blocked write.
- A read loop that writes to an app or a target which has stopped reading stops every
  session of its connection, and the cleanup of the connection with them
  (`WaitsForApp`, `WaitsForTarget`; `ReaderWaits`, `LoopWaits` of `Tunnel`).
- After the 5 s time-out the server keeps the target connection it has made in the
  meantime: `tcp_client.go` 132 closes the local end and sends nothing.
- README.md 187 has the whole HTTP request in the first frame.  A body is read only
  for a `Content-Length` below 10 MB; of any other what arrived with the
  headers stays in the reader and is lost, and so are bytes an application sends behind a
  `CONNECT` without waiting for the answer (`NothingIsLost`, `early`).
- A second request on a kept-alive connection goes to the first one's target as it
  is (`Relay`): its URI is not rewritten and its credentials are passed on.
- Header names are compared exactly, so that `proxy-authorization` or
  `content-length` is none (`Header` names what the code takes a line for).
- Without credentials any list of methods is answered with "no authentication",
  offered or not (`socks5.go` 81-101); `Request` does not ask for it either.
- Authentication needs a user and a password (`socks5.go` 82); proxy.go 77 logs it
  as enabled when only the user is set (`protected`).
- Datagrams for a second destination go to the first, whatever README.md 162
  suggests (`SendUDPData`).
- Answers from IPv6 addresses are dropped (`Splits`, `HandleUDPResponse`).
- A datagram to a short name with little payload has less than the ten bytes
  `socks5.go` 582 asks for, and is dropped (`ParsePacket`, `DatagramIsRead`).
- A DNS name of labels that end in a pointer is taken for labels only
  (`ech.go` 167-176, `SkipLabels`), and the answer misread.  In `MCEch` such an
  answer counts as a fault (`Mixed`): `AllComeUp` holds for a resolver that
  writes an owner's name whole or as a pointer.  Faults are bounded, so it says
  nothing of a resolver that is down for good.  Neither the response code nor the
  owner of a record is looked at.

Fairness (`Fairness` in `Tunnel` and `UdpTunnel`, `Spec` of `EchDial`).  Goroutines are scheduled
and timers fire, hence weak fairness of each channel's handler, of each
session's goroutine, of each pending `SendClose`, of the read loop of each
server connection and of each of its goroutines.  Excepted are the three writes
without a deadline to an app or a target (`pool.go` 269, `websocket_server.go` 415
and 470) while the connection is open: nothing says that apps and
targets read, and the properties say which of these writes they are lost to.  Such a
write fails, and the loop goes on, once the connection is closed.  Writes to a WebSocket
return in `Tunnel` and `UdpTunnel`: that is, their connections do not come to one of
the standstills of `BackPressure`, and in `UdpTunnel` no TCP session of the same
connection holds its read loops up.  Given that, no step waits for a condition that
comes and goes, so weak fairness is enough.  Nothing is assumed of dials, nor that a
connection ever breaks, except that the kernel breaks those of a process that has
ended.  DNS eventually publishes what the server accepts.  A goroutine that waits for
room in `done` waits for one receive, which happens once.

In `Proxy` the goroutine of the connection runs, which includes that its
deadline passes; nobody has to send or to hang up.  In `BackPressure` (`FairSpec`)
whoever holds a mutex writes when there is room, the read loops run, and
applications and targets read; that is what `ReadLoopsComeBack` is about.  A read
loop's wait for a mutex does come and go, since others take it in between; a Go
mutex is handed to the longest waiter once that has waited 1 ms, which is strong
fairness of its write, of the write of whoever holds `assoc.mu`, and of the read
loop's own turn with `assoc.mu`.  A channel serves its longest sender first, hence
strong fairness of the signal on `done`.
Nothing else is assumed: nobody has to send, ping or hang up.

## 4. Proofs

All theorems hold for any number of sessions, channels, dials and units, any
length of streams, any scripts and any answers, under
the assumptions named in `Wire`, `UdpWire`, `UdpAssociation`, `UdpServer`, `ECHPool`, `Forwarder`, `WebSocketServer`,
`EchDial`, `BackPressure` and `Proxy` (numbers are naturals, there is a channel, `NoSession` is no session, a
session has a listener, a stream holds a frame, scripts are sequences of parts).

- `TunnelProofs!TypeCorrect`, `TypeOKAlways`.  `TypeOK` alone is not inductive: a
  handler that reads needs `wsConns[c] # 0` to have a stream, one that serves an
  ack needs a session, and the claim loop a channel and a connection.  `Pointers`
  says so and `TypeInv == TypeOK /\ Pointers` is inductive.  One lemma per part of
  the system, one case per action.
- `RequestProofs!RequestIsUnique`, `NeverDialledTwice`.  `OneRequest` is inductive
  with `TypeInv`.  Four steps move a request on (`Register`, `WinClaim`,
  `WriteTCP`, `ServeTCP`) and each has a lemma.  All other steps, and these four
  for the sessions they are not about, can only lose it: lemma `Fades`, whose
  hypothesis maps each `TCP` message in a stream after the step to its place before
  the step, so that it covers reads, writes and breaks alike.
- `RoutingProofs` argues about sessions by cause: what is new in a stream, in a
  map or in a goroutine is traced to the step that made it.  `UpNews` and `DownNews`
  say who wrote a message that was not there before the step, `Won`, `AskedNews` and
  `StartedNews` how a session gets a channel and a goroutine at the server,
  `TaskMoves` how that goroutine moves.  Four invariants are inductive, each
  with the ones before it:
  - `RoutingInv`: the two maps agree, all that was ever asked for a session was asked
    on one channel, which `channelMap` names or has forgotten (`OneChannel`), and the
    server speaks only of sessions it has started (`Spoken`).  From it `MapsAgree` and
    `SpokenOnBoundChannel`.
  - `RealInv`: how far a goroutine of the server has come says what it has done
    (`OnItsWay`), so a `CONNECTED` in a stream, a signal and a session that is relayed
    each have a target that was reached.  From it `SuccessIsReal`.
  - `OwnInv`: the client speaks of a session on the channel of its request only, and
    nobody closes what the server has not heard of.  `SpokenOnOwnChannel` holds across redials;
    `SpokenOnOwnConnection` (`OnOwnConnection`) is for `MaxDials = 1`: after a redial it
    is false, and `BlackHole.cfg` shows what comes of it.
  - `ClaimInv`: a session whose claim loop has not written its first `CLAIM` is
    unknown to every stream and handler, so nothing takes its `claimTimes` away.  From
    it `FirstClaimNeverPanics` for any number of channels, and `NeverPanics` (`NoPanic`) for
    `NumChannels = 1`: with two it is false (`Panic.cfg`).
  Last, `LocalConnectionsNotLeaked` from `Kept(s)`: a session is in `tcpMap`, or closed,
  or has not begun.
- `RelayProofs!SessionsAreRelays`, `ClosedIsComplete`, for any number of redials.  `RelayInv`
  adds to `OwnInv` where the units of a session are:
  - `InOrder`: the units of a session in a stream continue what its reader has got, in
    order and without a gap.  `Reaches`: they go as far as what was sent.  Loss
    breaks the second only, at the end, so `Carries` asks for it while the
    connection is open.
  - `DownOrder(s, w)`: while the session is in `tcpMap`, the stream down carries on from
    what the app has got, and a `CLOSE` in it has every unit of the target in front of it (`Complete`); that is
    `CloseLosesNothing`.  It holds since the pump writes until a write fails,
    and then ends without a `CLOSE`.
  - `UpOrder(s, w)`: once the server relays (`Pumping`), the stream up carries on from what
    the target has got, up to what the app has given to `SendData`, one less than
    it has sent while its goroutine is in between (`Offered`).  On a broken
    channel, or once the session is over, the end may be missing, but nothing in between.
  - `First(s)`: until the server tells the client, the app has sent its first frame at
    most, wherever the request is; so the first frame is unit 1.  `Untold`: that
    frame is written once, and before `CONNECTED`.
  - `Dialled`, `Silent`, `Opened`, `Answered`, `Abandoned`, `LinkOk`: what a connection, a
    local connection, a reply or an abort says of the goroutine it belongs to.

  A step of the client or the network is then a step of the app's end or none
  (`ClientRelays`), one of the server a step of the target's end or none (`ServerRelays`).
  `Payload` is written with one element taken out, not with `SelectSeq`, which is
  recursive; `Answered` says that there is one reply at most.
- `EchDialProofs!EchTypeCorrect`, `KeyBeforeDial`, for any answers.  Strengthened with `KeyInv`:
  who stores or dials has a configuration, no channel has started while the
  cache is empty, and a refresh leaves an attempt.
- `EchDialProofs!CacheIsPublished`, from the assumption `AnswersAreRead`: the parser makes
  nothing of a response, or a configuration published by the time of the query.
  `KeyIsPublished` is inductive once DNS is known not to be ahead of the server
  (`NotAhead`), for then what it publishes never goes back and an old answer that is
  stored late is still a published one.
- `UdpProofs!RoutingIsConsistent`, `UdpBoundAgrees`.  `BoundAgrees` of associations,
  strengthened with: an association that has not tried to connect is not in
  `channelMap`.  Only `NoRelay`, `OpenRelay` and `Close` touch these maps.
- `UdpProofs!UdpTypeCorrect`, `UdpTypeOK`, `SilentOnceClosed`, `ConnectsOnce`.
  `TypeInv` adds to `TypeOK` what each goroutine is about to use: a connection, a
  datagram, an association that is open, a socket that was opened.  The other two
  are about the streams to the server.  `Carried` says that the messages of an
  association, of some types, were in their stream before the step, up to one place
  further on.  Every step carries all messages of an association it does not speak
  for, and a closed association does not speak: `ClosedIsSilent`.  Every step but
  `OpenRelay` and `ServeConnect` of that association carries its `UDP_CONNECT`s and
  opens nothing; those two have a lemma each, and `ConnectedOnce` is inductive.
- `UdpProofs!AnswersKeepOrder`.  An answer goes from the goroutine of a socket through one
  stream and one read loop to the application, and the numbers fall on the way: what is further on
  is older (`AnswerOrder`).  That there is one stream to follow is `ConnectedOnce`:
  a second socket for an association would number its answers on its own.
- `BackPressureProofs!TypeCorrect`, `StandstillIsExplained`, `CrossedNeverEnds`, for any
  sessions and associations.  `TypeOK` is inductive: whoever holds a mutex has
  something to write under it, each goroutine only what it can have, and what is
  written under `assoc.mu` is written by its holder.  With it a standstill is
  taken apart: a holder of a mutex waits for room, so its stream is full, so the
  reader of that stream is not reading, so it is delivering, writing, signalling or
  waiting for an association, and when it writes its own stream is full.  An association
  whose mutex the reader waits for has a frame to write (`StuckAssoc`), which leads to
  the same stream.  That a read loop does not wait for
  itself is `WrittenBy`.  `CrossedNeverEnds` needs no more than that no other step
  takes a frame from a stream or from a read loop, and that no step but its holder's
  frees `assoc.mu`.
- `ProxyProofs!ProxyTypeCorrect`, `OnlyRequests`, `EveryRequest`, `PayloadIsWhole`,
  `NoDeadlineIsLeft`.  The invariant `Known` says for each `pc` what the program knows of
  the parts used so far, so that the state of the parser and the script agree; the
  first two follow at the places where a request is served or refused.  For
  `NothingIsLost` it is joined by `LossInv`: until the answer nothing has been sent
  beyond the request unless the application was early (`NotEarly`), the handshake
  passes nothing on (`NothingYet`), and the first frame of SOCKS5 begins where its
  request ends (`SocksKind`).  `SilenceIsAllowed` follows
  from a deadline that is set during the handshake only.
- `ProxyProofs!DatagramsAreRead`, `AnswersAreReadable`, for any packets and sources.
  The codec has no loop, so no induction is needed: the RFC's layout is flattened
  (`DatagramLaid`, by associativity of concatenation), a packet is determined by its
  parts and their places (`Joined`, `JoinedOnly`), and the offsets of the code are
  those places (`ParsedParts`).  One way `ParsedIsDatagram` gives an accepted packet
  back, the other way `DatagramIsParsed` accepts every datagram of ten bytes or more.

Only model-checked: the liveness properties and whatever needs ENABLED, which the
prover does not handle; and what the recursive functions of `DnsCodec` compute of a
response (`AnswersAreRead`), which needs induction over data.  `Ech.cfg` looks at
that half on bytes, every cut included, and `CacheIsPublished` at the rest.

## 5. Not modelled, and the plan

Not modelled, because no state of it outlives the call and nothing waits in it:
flags and start-up, the self-signed certificate, the upgrade with its token and
CIDR checks, which errors are logged (`isNormalCloseError`).  Data that no
property looks at: the rewriting of a forwarded request's path and headers, the
text of addresses and messages, base64, `ERROR:` (logged only), `pendingByChannel`
(unused), errors of a UDP read other than a closed socket.  `BackPressure` leaves out
that `handleUDPRelay` takes `assoc.mu` for its first datagram (`socks5.go` 439), when
nothing is written under it yet; writes to a UDP socket do not wait.

What is left to prove is bounded by the provers: liveness, and induction over data
for the DNS codec.  Facts about it that need no induction, such as what it makes of a
response with one record, could be stated as lemmas of their own.
