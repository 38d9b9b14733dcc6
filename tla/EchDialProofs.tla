--------------------------- MODULE EchDialProofs ----------------------------
(***************************************************************************)
(* A client never dials without an ECH configuration, for any number of    *)
(* channels, configurations and faults, and whatever DNS answers; and it   *)
(* caches what DNS has published, as far as the parser reads that.         *)
(***************************************************************************)
EXTENDS EchDial, TLAPS

\* What makes NeverWithoutKey and the types inductive: whoever is about to store
\* or to use a configuration has one, no channel has started while the cache is
\* empty, and a channel refreshes only when it has an attempt left.
KeyInv ==
  /\ \A p \in Procs : proc[p].pc \in {"store", "dial"} => proc[p].key # NoKey
  /\ \A c \in Channels : proc[c].pc \in {"query", "store"} => proc[c].attempt < MaxRetries
  /\ echList = NoKey => \A c \in Channels : proc[c].pc = "off"

EchInv == TypeOK /\ KeyInv

Proc == [pc : States, attempt : 1 .. MaxRetries, key : Configs]

\* The constants: main is not a channel, and 0 is no configuration.
LEMMA Constants ==
  /\ Channels \subseteq Procs
  /\ Main \in Procs
  /\ Main \notin Channels
  /\ 1 \in Keys
  /\ NoKey \notin Keys
  /\ Keys \subseteq Configs /\ NoKey \in Configs /\ Garbage \in Configs
  /\ Garbage # NoKey
  /\ 1 .. MaxRetries = {1, 2}
BY NumChannelsAssumption, MaxKeysAssumption DEF Channels, Procs, Main, Keys, NoKey, Garbage, Configs,
   MaxRetries

\* Main queries; no channel has started.
LEMMA InitKey == Init => EchInv
<1> SUFFICES ASSUME Init PROVE EchInv
  OBVIOUS
<1>1. TypeOK
  BY Constants, MaxFaultsAssumption DEF Init, TypeOK, States
<1>2. KeyInv
  BY Constants DEF Init, KeyInv
<1> QED BY <1>1, <1>2 DEF EchInv

\* What a step does to one goroutine, and leaves of the others
LEMMA ProcSet ==
  ASSUME TypeOK, NEW p \in Procs, NEW next \in Proc, proc' = [proc EXCEPT ![p] = next]
  PROVE  /\ proc' \in [Procs -> Proc]
         /\ proc'[p] = next
         /\ \A q \in Procs \ {p} : proc'[q] = proc[q]
BY DEF TypeOK, Proc

\* A step of one goroutine that has started keeps the invariant when it does
\* not store or dial without a configuration.
LEMMA OneMoves ==
  ASSUME EchInv, NEW p \in Procs, NEW next \in Proc,
         proc' = [proc EXCEPT ![p] = next],
         next.pc \in {"store", "dial"} => next.key # NoKey,
         p \in Channels /\ next.pc \in {"query", "store"} => next.attempt < MaxRetries,
         p \in Channels => echList' # NoKey,
         echList' \in Configs,
         echList' = NoKey => echList = NoKey,
         accepted' \in Keys, published' \in Keys, faults' \in 0 .. MaxFaults
  PROVE  EchInv'
<1>1. /\ proc' \in [Procs -> Proc]
      /\ proc'[p] = next
      /\ \A q \in Procs \ {p} : proc'[q] = proc[q]
  BY ProcSet DEF EchInv
<1>2. TypeOK'
  BY <1>1 DEF TypeOK, Proc
<1>3. KeyInv'
  <2>1. \A q \in Procs : proc'[q].pc \in {"store", "dial"} => proc'[q].key # NoKey
    BY <1>1 DEF EchInv, KeyInv
  <2>2. ASSUME echList' = NoKey, NEW c \in Channels PROVE proc'[c].pc = "off"
    BY <1>1, <2>2, Constants DEF EchInv, KeyInv
  <2>3. \A c \in Channels : proc'[c].pc \in {"query", "store"} => proc'[c].attempt < MaxRetries
    BY <1>1, Constants DEF EchInv, KeyInv
  <2> QED BY <2>1, <2>2, <2>3 DEF KeyInv
<1> QED BY <1>2, <1>3 DEF EchInv

\* A channel that runs has started, so the cache is filled.
LEMMA Filled ==
  ASSUME EchInv, NEW c \in Channels, proc[c].pc # "off"
  PROVE  echList # NoKey
BY DEF EchInv, KeyInv

\* The next attempt: query, or start over.
LEMMA NextAttemptSets ==
  ASSUME EchInv, NEW c \in Channels, NEW refresh, NextAttempt(c, refresh)
  PROVE  \E next \in Proc : /\ proc' = [proc EXCEPT ![c] = next]
                            /\ next.pc \in {"query", "get"}
                            /\ next.pc = "query" => next.attempt < MaxRetries
<1>1. proc[c] \in Proc
  BY Constants DEF EchInv, TypeOK, Proc
<1>2. CASE refresh /\ proc[c].attempt < MaxRetries
  <2> DEFINE next == [proc[c] EXCEPT !.pc = "query"]
  <2>1. next \in Proc /\ next.pc = "query" /\ next.attempt = proc[c].attempt
    BY <1>1 DEF Proc, States
  <2>2. proc' = [proc EXCEPT ![c] = next]
    BY <1>2 DEF NextAttempt
  <2> HIDE DEF next
  <2> QED BY <1>2, <2>1, <2>2
<1>3. CASE ~(refresh /\ proc[c].attempt < MaxRetries)
  <2> DEFINE next == [proc[c] EXCEPT !.pc = "get", !.attempt = 1]
  <2>1. next \in Proc /\ next.pc = "get"
    BY <1>1, Constants DEF Proc, States
  <2>2. proc' = [proc EXCEPT ![c] = next]
    BY <1>3 DEF NextAttempt
  <2> QED BY <2>1, <2>2
<1> QED BY <1>2, <1>3

\* Bytes are a configuration, none or garbage.
LEMMA NamedType == \A list : Named(list) \in Configs
BY Constants DEF Named

\* prepareECH: a query, a failed one, and what it stores.
LEMMA PrepareKeeps ==
  ASSUME EchInv, NEW p \in Procs, Prepare(p) \/ QueryFails(p)
  PROVE  EchInv'
<1>1. proc[p] \in Proc
  BY DEF EchInv, TypeOK, Proc
<1>2. CASE QueryAnswered(p) \/ QueryFails(p)
  <2>1. /\ proc[p].pc = "query" /\ UNCHANGED <<accepted, published, echList>>
        /\ faults' \in 0 .. MaxFaults
        /\ \E response : Parsed(p, response)
    BY <1>2, MaxFaultsAssumption DEF QueryAnswered, QueryFails, Fault, EchInv, TypeOK
  <2>2. PICK response : Parsed(p, response)
    BY <2>1
  <2> DEFINE key == Named(ParseDNSResponse(response))
             next == [proc[p] EXCEPT !.pc = "store", !.key = key]
  <2>3. key \in Configs
    BY NamedType
  <2>4. CASE key = NoKey
    <3>1. proc' = proc
      BY <2>2, <2>4 DEF Parsed
    <3> QED BY <2>1, <3>1 DEF EchInv, TypeOK, KeyInv
  <2>5. CASE key # NoKey
    <3>1. proc' = [proc EXCEPT ![p].pc = "store", ![p].key = key]
      BY <2>2, <2>5 DEF Parsed
    <3> HIDE DEF key
    <3>2. proc' = [proc EXCEPT ![p] = next]
      BY <3>1
    <3>3. /\ next \in Proc /\ next.pc = "store"
          /\ next.key # NoKey /\ next.attempt = proc[p].attempt
      BY <1>1, <2>3, <2>5 DEF Proc, States
    <3>4. p \in Channels => echList # NoKey /\ proc[p].attempt < MaxRetries
      BY <2>1, Filled DEF EchInv, KeyInv
    <3> HIDE DEF next
    <3> QED BY <2>1, <3>2, <3>3, <3>4, OneMoves DEF EchInv, TypeOK
  <2> QED BY <2>4, <2>5
<1>4. CASE StoreKey(p) /\ p = Main
  <2>1. proc' = [q \in Procs |-> IF q = Main THEN [proc[q] EXCEPT !.pc = "done"]
                                 ELSE [proc[q] EXCEPT !.pc = "get"]]
    BY <1>4 DEF StoreKey
  <2>2. ASSUME NEW q \in Procs PROVE proc'[q] \in Proc /\ proc'[q].pc \in {"done", "get"}
    <3>1. proc[q] \in Proc BY DEF EchInv, TypeOK, Proc
    <3>2. [proc[q] EXCEPT !.pc = "done"] \in Proc /\ [proc[q] EXCEPT !.pc = "get"] \in Proc
      BY <3>1 DEF Proc, States
    <3> QED BY <2>1, <3>1, <3>2 DEF Proc
  <2>3. proc' \in [Procs -> Proc]
    BY <2>1, <2>2
  <2>4. echList' \in Configs /\ echList' # NoKey
    BY <1>1, <1>4, Constants DEF StoreKey, EchInv, KeyInv, Proc
  <2>5. TypeOK'
    BY <1>4, <2>3, <2>4 DEF StoreKey, EchInv, TypeOK, Proc
  <2>6. KeyInv'
    BY <2>2, <2>4, Constants DEF KeyInv
  <2> QED BY <2>5, <2>6 DEF EchInv
<1>5. CASE StoreKey(p) /\ p # Main
  <2> DEFINE next == [proc[p] EXCEPT !.pc = "get", !.attempt = @ + 1]
  <2>1. proc' = [proc EXCEPT ![p].pc = "get", ![p].attempt = @ + 1]
    BY <1>5 DEF StoreKey
  <2>2. proc' = [proc EXCEPT ![p] = next]
    BY <2>1
  <2>3. echList' \in Configs /\ echList' # NoKey
    BY <1>1, <1>5, Constants DEF StoreKey, EchInv, KeyInv, Proc
  <2>4. proc[p].attempt < MaxRetries
    BY <1>5 DEF StoreKey, EchInv, KeyInv, Procs
  <2>5. next \in Proc /\ next.pc = "get"
    <3>1. proc[p].attempt + 1 \in 1 .. MaxRetries
      BY <1>1, <2>4 DEF Proc, MaxRetries
    <3> QED BY <1>1, <3>1 DEF Proc, States
  <2> HIDE DEF next
  <2> QED BY <1>5, <2>2, <2>3, <2>5, OneMoves DEF StoreKey, EchInv, TypeOK
<1> QED BY <1>2, <1>4, <1>5 DEF Prepare

\* dialWebSocketWithECH and a connection that breaks
LEMMA AttemptKeeps ==
  ASSUME EchInv, NEW c \in Channels, Attempt(c) \/ DialFails(c) \/ Disconnect(c)
  PROVE  EchInv'
<1>1. c \in Procs /\ proc[c] \in Proc
  BY Constants DEF EchInv, TypeOK, Proc
<1>2. echList # NoKey
  BY Filled DEF Attempt, GetKey, DialSucceeds, DialRejected, DialFails, Disconnect
<1>3. /\ UNCHANGED <<accepted, published, echList>>
      /\ faults' \in 0 .. MaxFaults
  <2>1. UNCHANGED <<accepted, published, echList>> /\ (UNCHANGED faults \/ Fault)
    BY DEF Attempt, GetKey, DialSucceeds, DialRejected, DialFails, Disconnect
  <2>2. faults' \in 0 .. MaxFaults
    BY <2>1, MaxFaultsAssumption DEF Fault, EchInv, TypeOK
  <2> QED BY <2>1, <2>2
<1>4. \E next \in Proc : /\ proc' = [proc EXCEPT ![c] = next]
                         /\ next.pc \in {"store", "dial"} => next.key # NoKey
                         /\ next.pc \in {"query", "store"} => next.attempt < MaxRetries
  <2>1. CASE \E refresh \in BOOLEAN : NextAttempt(c, refresh)
    BY <2>1, NextAttemptSets
  <2>2. CASE GetKey(c)
    <3> DEFINE next == [proc[c] EXCEPT !.pc = "dial", !.key = echList]
    <3>1. proc' = [proc EXCEPT ![c] = next]
      BY <1>2, <2>2 DEF GetKey
    <3>2. next \in Proc /\ next.key # NoKey /\ next.pc = "dial"
      BY <1>1, <1>2 DEF Proc, States, EchInv, TypeOK
    <3> QED BY <3>1, <3>2
  <2>3. CASE DialSucceeds(c)
    <3> DEFINE next == [proc[c] EXCEPT !.pc = "up", !.attempt = 1]
    <3>1. proc' = [proc EXCEPT ![c] = next]
      BY <2>3 DEF DialSucceeds
    <3>2. next \in Proc /\ next.pc = "up"
      BY <1>1, Constants DEF Proc, States
    <3> QED BY <3>1, <3>2
  <2>4. CASE Disconnect(c)
    <3> DEFINE next == [proc[c] EXCEPT !.pc = "get"]
    <3>1. proc' = [proc EXCEPT ![c] = next]
      BY <2>4 DEF Disconnect
    <3>2. next \in Proc /\ next.pc = "get"
      BY <1>1 DEF Proc, States
    <3> QED BY <3>1, <3>2
  <2> QED BY <2>1, <2>2, <2>3, <2>4 DEF Attempt, DialRejected, DialFails
<1> QED BY <1>1, <1>2, <1>3, <1>4, OneMoves DEF EchInv, TypeOK

\* Every step keeps the invariant.
LEMMA StepKey == EchInv /\ [Next]_vars => EchInv'
<1> SUFFICES ASSUME EchInv, [Next]_vars PROVE EchInv'
  OBVIOUS
<1>1. CASE \E p \in Procs : Prepare(p) \/ QueryFails(p)
  BY <1>1, PrepareKeeps
<1>2. CASE \E c \in Channels : Attempt(c) \/ DialFails(c) \/ Disconnect(c)
  BY <1>2, AttemptKeeps
<1>3. CASE Rotate \/ Publish \/ UNCHANGED vars
  <2>1. UNCHANGED <<echList, proc, faults>> /\ accepted' \in Keys /\ published' \in Keys
    BY <1>3, MaxKeysAssumption DEF Rotate, Publish, vars, EchInv, TypeOK, Keys
  <2> QED BY <2>1 DEF EchInv, TypeOK, KeyInv
<1> QED BY <1>1, <1>2, <1>3 DEF Next

\* Configurations, attempts and faults keep their types.
THEOREM EchTypeCorrect == Spec => []TypeOK
<1>1. EchInv => TypeOK
  BY DEF EchInv
<1> QED BY InitKey, StepKey, <1>1, PTL DEF Spec

\* No channel looks up or dials with an empty configuration: main starts the
\* pool after prepareECH has returned, and nothing ever empties the cache.
THEOREM KeyBeforeDial == Spec => []NeverWithoutKey
<1>1. EchInv => NeverWithoutKey
  BY Constants DEF EchInv, KeyInv, NeverWithoutKey
<1> QED BY InitKey, StepKey, <1>1, PTL DEF Spec

-----------------------------------------------------------------------------
(* What the cache holds *)

\* What the parser makes of a response that answers a query while DNS publishes
\* "key": nothing, or a configuration published by then.
AnswersAreRead ==
  \A key \in Keys :
    \A response \in Answers(BuildDNSQuery(Domain, TypeHTTPS), key)
                      \cup FaultyAnswers(BuildDNSQuery(Domain, TypeHTTPS), key) :
      Named(ParseDNSResponse(response)) \in {NoKey} \cup 1 .. key

\* DNS never publishes ahead of the server, so it never goes back.
NotAhead == published <= accepted

PublishedInv == NotAhead /\ KeyIsPublished

\* Only an answer brings a goroutine to "store".
LEMMA StoreFollowsAnswer ==
  ASSUME EchInv, Next, NEW p \in Procs, proc'[p].pc = "store", proc'[p] # proc[p]
  PROVE  /\ QueryAnswered(p) \/ QueryFails(p)
         /\ published' = published
         /\ proc'[p].key # NoKey
         /\ \E response \in Answers(BuildDNSQuery(Domain, TypeHTTPS), published)
                              \cup FaultyAnswers(BuildDNSQuery(Domain, TypeHTTPS), published) :
              proc'[p].key = Named(ParseDNSResponse(response))
<1> DEFINE query == BuildDNSQuery(Domain, TypeHTTPS)
<1>0. proc \in [Procs -> Proc]
  BY DEF EchInv, TypeOK, Proc
<1>1. CASE \E q \in Procs : QueryAnswered(q) \/ QueryFails(q)
  <2>1. PICK q \in Procs : QueryAnswered(q) \/ QueryFails(q)
    BY <1>1
  <2>2. PICK response \in Answers(query, published) \cup FaultyAnswers(query, published) :
          Parsed(q, response)
    BY <2>1 DEF QueryAnswered, QueryFails
  <2>3. published' = published
    BY <2>1 DEF QueryAnswered, QueryFails
  <2> DEFINE key == Named(ParseDNSResponse(response))
  <2>4. proc' = IF key = NoKey THEN proc ELSE [proc EXCEPT ![q].pc = "store", ![q].key = key]
    BY <2>2 DEF Parsed
  <2> HIDE DEF key, query
  <2>5. key # NoKey /\ p = q /\ proc'[p].key = key
    BY <1>0, <2>4 DEF Proc
  <2> QED BY <2>1, <2>2, <2>3, <2>5 DEF key, query
<1>2. CASE \E q \in Procs : StoreKey(q)
  <2>1. PICK q \in Procs : StoreKey(q)
    BY <1>2
  <2>2. CASE q = Main
    <3>1. proc' = [r \in Procs |-> IF r = Main THEN [proc[r] EXCEPT !.pc = "done"]
                                   ELSE [proc[r] EXCEPT !.pc = "get"]]
      BY <2>1, <2>2 DEF StoreKey
    <3>2. proc'[p].pc \in {"done", "get"}
      BY <1>0, <3>1 DEF Proc
    <3> QED BY <3>2
  <2>3. CASE q # Main
    <3>1. proc' = [proc EXCEPT ![q].pc = "get", ![q].attempt = @ + 1]
      BY <2>1, <2>3 DEF StoreKey
    <3> QED BY <1>0, <3>1 DEF Proc
  <2> QED BY <2>2, <2>3
<1>3. CASE \E c \in Channels : Attempt(c) \/ DialFails(c) \/ Disconnect(c)
  <2>1. PICK c \in Channels : Attempt(c) \/ DialFails(c) \/ Disconnect(c)
    BY <1>3
  <2>2. \/ proc' = [proc EXCEPT ![c].pc = "query"]
        \/ proc' = [proc EXCEPT ![c].pc = "get", ![c].attempt = 1]
        \/ proc' = [proc EXCEPT ![c].pc = "dial", ![c].key = echList]
        \/ proc' = [proc EXCEPT ![c].pc = "up", ![c].attempt = 1]
        \/ proc' = [proc EXCEPT ![c].pc = "get"]
    BY <2>1, Zenon DEF Attempt, GetKey, DialSucceeds, DialRejected, DialFails, Disconnect, NextAttempt
  <2> QED BY <1>0, <2>2, Constants DEF Proc
<1>4. CASE Rotate \/ Publish
  BY <1>4 DEF Rotate, Publish
<1> QED BY <1>1, <1>2, <1>3, <1>4 DEF Next, Prepare

\* Nobody changes what is cached but StoreKey.
LEMMA CacheFollowsStore ==
  ASSUME Next, echList' # echList
  PROVE  \E p \in Procs : proc[p].pc = "store" /\ echList' = proc[p].key
BY Zenon DEF Next, Prepare, QueryAnswered, QueryFails, StoreKey, Attempt, GetKey, DialSucceeds, DialRejected,
   DialFails, Disconnect, Rotate, Publish

LEMMA PublishedKept ==
  ASSUME AnswersAreRead, EchInv, PublishedInv, [Next]_vars
  PROVE  PublishedInv'
<1>1. accepted \in Nat /\ published \in Nat /\ published \in Keys
  BY DEF EchInv, TypeOK, Keys
<1>2. published <= published' /\ published' <= accepted' /\ published' \in Nat
  <2>1. CASE Rotate
    BY <1>1, <2>1 DEF Rotate, PublishedInv, NotAhead
  <2>2. CASE Publish
    BY <1>1, <2>2 DEF Publish, PublishedInv, NotAhead
  <2>3. CASE ~Rotate /\ ~Publish
    <3>1. UNCHANGED <<accepted, published>>
      BY <2>3, Zenon DEF Next, vars, Prepare, QueryAnswered, QueryFails, StoreKey, Attempt, GetKey, DialSucceeds,
         DialRejected, DialFails, Disconnect
    <3> QED BY <1>1, <3>1 DEF PublishedInv, NotAhead
  <2> QED BY <2>1, <2>2, <2>3
<1>3. 1 .. published \subseteq 1 .. published'
  BY <1>1, <1>2
<1>4. ASSUME NEW p \in Procs, proc'[p].pc = "store" PROVE proc'[p].key \in 1 .. published'
  <2>1. CASE proc'[p] = proc[p]
    BY <1>3, <1>4, <2>1 DEF PublishedInv, KeyIsPublished
  <2>2. CASE proc'[p] # proc[p]
    <3>1. Next
      BY <2>2 DEF vars
    <3>2. proc'[p].key \in {NoKey} \cup 1 .. published /\ proc'[p].key # NoKey
      BY <1>1, <1>4, <2>2, <3>1, StoreFollowsAnswer, Zenon DEF AnswersAreRead
    <3> QED BY <1>3, <3>2
  <2> QED BY <2>1, <2>2
<1>5. ASSUME echList' # NoKey PROVE echList' \in 1 .. published'
  <2>1. CASE echList' = echList
    BY <1>3, <1>5, <2>1 DEF PublishedInv, KeyIsPublished
  <2>2. CASE echList' # echList
    <3>1. Next
      BY <2>2 DEF vars
    <3>2. \E p \in Procs : proc[p].pc = "store" /\ echList' = proc[p].key
      BY <2>2, <3>1, CacheFollowsStore
    <3> QED BY <1>3, <3>2 DEF PublishedInv, KeyIsPublished
  <2> QED BY <2>1, <2>2
<1> QED BY <1>2, <1>4, <1>5 DEF PublishedInv, NotAhead, KeyIsPublished

\* If the parser makes of every response nothing or a configuration published by
\* then, so much is true of the cache too, however refreshes, rotations and DNS
\* interleave: a late answer can only be older.
THEOREM CacheIsPublished ==
  ASSUME AnswersAreRead
  PROVE  Spec => []KeyIsPublished
<1>1. Init => PublishedInv
  BY Constants DEF Init, PublishedInv, NotAhead, KeyIsPublished
<1>2. EchInv /\ PublishedInv /\ [Next]_vars => PublishedInv'
  BY PublishedKept
<1>3. PublishedInv => KeyIsPublished
  BY DEF PublishedInv
<1> QED BY <1>1, <1>2, <1>3, InitKey, StepKey, PTL DEF Spec
=============================================================================
