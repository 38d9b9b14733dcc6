------------------------------ MODULE EchDial -------------------------------
(***************************************************************************)
(* How a client gets a WebSocket: prepareECH at start-up (main.go, ech.go),*)
(* then a goroutine per channel that loops over dialWebSocketWithECH       *)
(* (tcp_client.go) in dialOnce or redialChannel (pool.go), refreshing the  *)
(* shared ECH configuration when the server rejects it.                    *)
(*                                                                         *)
(* A configuration is numbered: the server accepts only the latest, DNS    *)
(* may still publish an older one.  The query and the answers are bytes.   *)
(* The pauses between attempts are left out.  DNS, the server and the      *)
(* network are external.                                                   *)
(***************************************************************************)
EXTENDS DnsCodec

CONSTANTS NumChannels,   \* flag -n
          MaxKeys,       \* bound: configurations the server ever uses
          MaxFaults,     \* bound: failed queries, failed dials, disconnections
          Domain,        \* flag -ech, as labels
          Answers(_, _), \* the responses to a query while DNS publishes a key,
          FaultyAnswers(_, _)   \* and what may come of it when something fails

ASSUME NumChannelsAssumption == NumChannels \in Nat \ {0}
ASSUME MaxKeysAssumption == MaxKeys \in Nat \ {0}
ASSUME MaxFaultsAssumption == MaxFaults \in Nat

Channels == 0 .. NumChannels - 1
Main == -1                     \* the goroutine that runs main
Procs == Channels \cup {Main}
Keys == 1 .. MaxKeys
NoKey == 0                     \* an empty list
Garbage == -1                  \* bytes that are no configuration
Configs == Keys \cup {NoKey, Garbage}
MaxRetries == 2                \* the argument of both callers

VARIABLES
  accepted,    \* the configuration the server accepts
  published,   \* the configuration DNS answers with
  echList,     \* the cached configuration
  proc,        \* proc[p]: where p is, its attempt, and the key it has read
  faults       \* faults so far

vars == <<accepted, published, echList, proc, faults>>

\* "query" and "store": inside prepareECH; "get" and "dial": inside an attempt
States == {"off", "query", "store", "get", "dial", "up", "done"}

TypeOK ==
  /\ accepted \in Keys
  /\ published \in Keys
  /\ echList \in Configs
  /\ proc \in [Procs -> [pc : States, attempt : 1 .. MaxRetries, key : Configs]]
  /\ faults \in 0 .. MaxFaults

Init_EarlyStart ==   \* mutant: the pool starts before prepareECH has returned
  /\ accepted = 1
  /\ published = 1
  /\ echList = NoKey
  /\ proc = [p \in Procs |-> [pc |-> IF p = Main THEN "query" ELSE "get",
                              attempt |-> 1, key |-> NoKey]]
  /\ faults = 0

Init ==
  /\ accepted = 1
  /\ published = 1
  /\ echList = NoKey
  /\ proc = [p \in Procs |-> [pc |-> IF p = Main THEN "query" ELSE "off",
                              attempt |-> 1, key |-> NoKey]]
  /\ faults = 0

Fault == faults < MaxFaults /\ faults' = faults + 1

-----------------------------------------------------------------------------
(* prepareECH, by main or, as refreshECH, by a channel *)

\* The bytes of a configuration, and the configuration of some bytes
ConfigList(key) == <<0, 5, 0, 1, key>>
Named(list) == IF list = << >> THEN NoKey
               ELSE IF \E k \in Keys : list = ConfigList(k)
                    THEN CHOOSE k \in Keys : list = ConfigList(k) ELSE Garbage

\* The loop of prepareECH goes on until a response holds something.
Parsed(p, response) ==
  LET key == Named(ParseDNSResponse(response))
  IN proc' = IF key = NoKey THEN proc
             ELSE [proc EXCEPT ![p].pc = "store", ![p].key = key]

QueryAnswered(p) ==
  /\ proc[p].pc = "query"
  /\ \E response \in Answers(BuildDNSQuery(Domain, TypeHTTPS), published) : Parsed(p, response)
  /\ UNCHANGED <<accepted, published, echList, faults>>

\* No response (nothing to parse), or one with no configuration or cut off.
QueryFails(p) ==
  /\ proc[p].pc = "query"
  /\ Fault
  /\ \E response \in FaultyAnswers(BuildDNSQuery(Domain, TypeHTTPS), published) : Parsed(p, response)
  /\ UNCHANGED <<accepted, published, echList>>

StoreKey_NotCached(p) ==   \* mutant: the refresh forgets to cache what it got
  /\ proc[p].pc = "store"
  /\ echList' = IF p = Main THEN proc[p].key ELSE echList
  /\ proc' = IF p = Main
             THEN [q \in Procs |-> [proc[q] EXCEPT !.pc = IF q = Main THEN "done" ELSE "get"]]
             ELSE [proc EXCEPT ![p].pc = "get", ![p].attempt = @ + 1]
  /\ UNCHANGED <<accepted, published, faults>>

\* The lock is taken after the query: of two refreshes the slower one wins.
StoreKey(p) ==
  /\ proc[p].pc = "store"
  /\ echList' = proc[p].key
  /\ proc' = IF p = Main
             THEN [q \in Procs |-> IF q = Main THEN [proc[q] EXCEPT !.pc = "done"]
                                   ELSE [proc[q] EXCEPT !.pc = "get"]]
             ELSE [proc EXCEPT ![p].pc = "get", ![p].attempt = @ + 1]
  /\ UNCHANGED <<accepted, published, faults>>

-----------------------------------------------------------------------------
(* dialWebSocketWithECH *)

NextAttempt_NoLimit(p, refresh) ==   \* mutant: the retry limit is not looked at
  IF refresh THEN proc' = [proc EXCEPT ![p].pc = "query"]
  ELSE proc' = [proc EXCEPT ![p].pc = "get", ![p].attempt = 1]

\* The next attempt, after a refresh if there is one left; else the call
\* returns the error, and its caller sleeps and calls again.
NextAttempt(p, refresh) ==
  IF refresh /\ proc[p].attempt < MaxRetries
  THEN proc' = [proc EXCEPT ![p].pc = "query"]
  ELSE proc' = [proc EXCEPT ![p].pc = "get", ![p].attempt = 1]

\* getECHList and the TLS configuration made of what it returned.  An empty
\* list is refreshed first.
GetKey(c) ==
  /\ proc[c].pc = "get"
  /\ IF echList = NoKey
     THEN NextAttempt(c, TRUE)
     ELSE proc' = [proc EXCEPT ![c].pc = "dial", ![c].key = echList]
  /\ UNCHANGED <<accepted, published, echList, faults>>

DialSucceeds(c) ==
  /\ proc[c].pc = "dial"
  /\ proc[c].key = accepted
  /\ proc' = [proc EXCEPT ![c].pc = "up", ![c].attempt = 1]
  /\ UNCHANGED <<accepted, published, echList, faults>>

\* The server rejects ECH: EncryptedClientHelloRejectionVerify aborts the
\* handshake, and its error names ECH.
DialRejected(c) ==
  /\ proc[c].pc = "dial"
  /\ proc[c].key # accepted
  /\ NextAttempt(c, TRUE)
  /\ UNCHANGED <<accepted, published, echList, faults>>

\* Any other failure.  Its text may contain "ech" all the same (a host name
\* does), and then the configuration is refreshed too.
DialFails(c) ==
  /\ proc[c].pc = "dial"
  /\ Fault
  /\ \E saysECH \in BOOLEAN : NextAttempt(c, saysECH)
  /\ UNCHANGED <<accepted, published, echList>>

\* handleChannel's read fails: redialChannel.
Disconnect(c) ==
  /\ proc[c].pc = "up"
  /\ Fault
  /\ proc' = [proc EXCEPT ![c].pc = "get"]
  /\ UNCHANGED <<accepted, published, echList>>

-----------------------------------------------------------------------------
(* The server's operator and DNS *)

Rotate ==
  /\ accepted < MaxKeys
  /\ accepted' = accepted + 1
  /\ UNCHANGED <<published, echList, proc, faults>>

Publish ==
  /\ published # accepted
  /\ published' = accepted
  /\ UNCHANGED <<accepted, echList, proc, faults>>

Prepare(p) == QueryAnswered(p) \/ StoreKey(p)
Attempt(c) == GetKey(c) \/ DialSucceeds(c) \/ DialRejected(c)

Next ==
  \/ \E p \in Procs : Prepare(p) \/ QueryFails(p)
  \/ \E c \in Channels : Attempt(c) \/ DialFails(c) \/ Disconnect(c)
  \/ Rotate
  \/ Publish

\* Goroutines are scheduled, DNS catches up with the server; faults and
\* rotations are not forced, and their bounds make them stop.
Spec == /\ Init /\ [][Next]_vars
        /\ \A p \in Procs : WF_vars(Prepare(p))
        /\ \A c \in Channels : WF_vars(Attempt(c))
        /\ WF_vars(Publish)

-----------------------------------------------------------------------------

\* A dial always uses a configuration, never an empty list: there is no
\* fallback to a plain ClientHello, and the "not loaded yet" branch of
\* dialWebSocketWithECH is never taken, because main starts the pool only
\* after prepareECH has stored one and no refresh ever clears it
\* (main.go 48-62, ech.go 28-71, tcp_client.go 165-176).
NeverWithoutKey ==
  \A c \in Channels : /\ proc[c].pc = "dial" => proc[c].key # NoKey
                      /\ proc[c].pc = "get" => echList # NoKey

\* Whatever a response holds, in whatever form, and wherever it is cut off, what
\* is cached, and what is about to be, is a configuration DNS has published
\* (ech.go 148-230, 28-55).
KeyIsPublished ==
  /\ echList # NoKey => echList \in 1 .. published
  /\ \A p \in Procs : proc[p].pc = "store" => proc[p].key \in 1 .. published

\* However refreshes interleave (a slow answer with an old configuration may
\* overwrite a newer one in the cache), and whatever the form of the answers, once
\* faults and rotations stop every
\* channel connects and stays connected (tcp_client.go 157-232, pool.go 59-73,
\* 405-418).
AllComeUp == <>[](\A c \in Channels : proc[c].pc = "up")
=============================================================================
