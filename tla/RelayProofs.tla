---------------------------- MODULE RelayProofs -----------------------------
(***************************************************************************)
(* Every session is a Relay, and CLOSE loses nothing.  RelayInv follows    *)
(* the units of a session through both streams: what is in the stream      *)
(* continues what the reader has got, in order and without a gap, and ends *)
(* with the last unit written unless the connection broke or the session   *)
(* is over.  Before that come facts about sequences (what reading, writing *)
(* and losing a suffix do to such a stream), then what each part of the    *)
(* system does to a session, one lemma per part of RelayInv.               *)
(***************************************************************************)
EXTENDS RoutingProofs

\* What an app may have got: units and replies, of these one at most
Answers == Seq(Nat \cup {FailureReply})
OneReply(got) == \A i, j \in Replies(got) : i = j

\* Writing a unit appends it to the payload.
LEMMA PayloadUnit ==
  ASSUME NEW got \in Answers, OneReply(got), NEW x \in Nat, x > 0
  PROVE  /\ Replies(Append(got, x)) = Replies(got)
         /\ Payload(got) \in Answers
         /\ Payload(Append(got, x)) = Append(Payload(got), x)
<1>1. /\ Len(got) \in Nat /\ DOMAIN got = 1 .. Len(got)
      /\ \A i \in 1 .. Len(got) : got[i] \in Nat \cup {FailureReply}
  BY LenProperties, ElementOfSeq DEF Answers
<1>2. /\ Append(got, x) \in Answers
      /\ Len(Append(got, x)) = Len(got) + 1
      /\ \A i \in 1 .. Len(got) : Append(got, x)[i] = got[i]
      /\ Append(got, x)[Len(got) + 1] = x
  BY AppendProperties DEF Answers
<1>3. DOMAIN Append(got, x) = 1 .. Len(got) + 1
  BY <1>2, LenProperties DEF Answers
<1>4. Replies(Append(got, x)) = Replies(got)
  BY <1>1, <1>2, <1>3 DEF Replies, SuccessReply, FailureReply
<1>5. CASE Replies(got) = {}
  BY <1>4, <1>5 DEF Payload
<1>6. CASE Replies(got) # {}
  <2> DEFINE r == CHOOSE i \in Replies(got) : TRUE
             p == [i \in 1 .. Len(got) - 1 |-> IF i < r THEN got[i] ELSE got[i + 1]]
             P == [i \in 1 .. Len(got) |->
                     IF i < r THEN Append(got, x)[i] ELSE Append(got, x)[i + 1]]
  <2>1. r \in 1 .. Len(got)
    BY <1>1, <1>6 DEF Replies
  <2>2. Payload(got) = p
    BY <1>6 DEF Payload
  <2>3. Payload(Append(got, x)) = P
    <3>1. Len(Append(got, x)) - 1 = Len(got)
      BY <1>1, <1>2
    <3> QED BY <1>4, <1>6, <3>1 DEF Payload
  <2> HIDE DEF r
  <2>4. /\ \A i \in 1 .. Len(got) - 1 : p[i] \in Nat \cup {FailureReply}
        /\ p \in Answers
        /\ Len(p) = Len(got) - 1
    BY <1>1, <2>1 DEF Answers
  <2>5. /\ Append(p, x) \in Answers
        /\ Len(Append(p, x)) = Len(got)
        /\ \A i \in 1 .. Len(got) - 1 : Append(p, x)[i] = p[i]
        /\ Append(p, x)[Len(got)] = x
    <3>1. x \in Nat \cup {FailureReply}
      OBVIOUS
    <3> HIDE DEF p
    <3>2. /\ Append(p, x) \in Answers
          /\ Len(Append(p, x)) = Len(p) + 1
          /\ \A i \in 1 .. Len(p) : Append(p, x)[i] = p[i]
          /\ Append(p, x)[Len(p) + 1] = x
      BY <2>4, <3>1, AppendProperties DEF Answers
    <3>3. Len(p) + 1 = Len(got)
      BY <1>1, <2>4
    <3> QED BY <2>4, <3>2, <3>3
  <2>6. P \in Answers /\ Len(P) = Len(got)
    <3>1. \A i \in 1 .. Len(got) + 1 : Append(got, x)[i] \in Nat \cup {FailureReply}
      BY <1>2, ElementOfSeq DEF Answers
    <3>2. \A i \in 1 .. Len(got) : P[i] \in Nat \cup {FailureReply}
      BY <1>1, <3>1
    <3>3. P \in [1 .. Len(got) -> Nat \cup {FailureReply}]
      BY <3>2
    <3> HIDE DEF P
    <3> QED BY <1>1, <3>3 DEF Answers
  <2>7. \A i \in 1 .. Len(got) : P[i] = Append(p, x)[i]
    <3> SUFFICES ASSUME NEW i \in 1 .. Len(got) PROVE P[i] = Append(p, x)[i]
      OBVIOUS
    <3>1. CASE i = Len(got)
      BY <1>2, <2>1, <2>5, <3>1
    <3>2. CASE i < Len(got)
      <4>1. i \in 1 .. Len(got) - 1 /\ i + 1 \in 1 .. Len(got)
        BY <1>1, <3>2
      <4>2. P[i] = IF i < r THEN got[i] ELSE got[i + 1]
        <5>1. P[i] = IF i < r THEN Append(got, x)[i] ELSE Append(got, x)[i + 1]
          OBVIOUS
        <5>2. Append(got, x)[i] = got[i] /\ Append(got, x)[i + 1] = got[i + 1]
          BY <1>2, <4>1
        <5> QED BY <5>1, <5>2
      <4>3. Append(p, x)[i] = p[i]
        BY <2>5, <4>1
      <4>4. p[i] = IF i < r THEN got[i] ELSE got[i + 1]
        BY <4>1
      <4> QED BY <4>2, <4>3, <4>4
    <3>3. i = Len(got) \/ i < Len(got)
      <4>1. Len(got) \in Nat
        BY <1>1
      <4> QED BY <4>1
    <3> QED BY <3>1, <3>2, <3>3
  <2>8. P = Append(p, x)
    <3> HIDE DEF P, p
    <3> QED BY <2>5, <2>6, <2>7, SeqEqual DEF Answers
  <2> QED BY <1>4, <2>2, <2>3, <2>4, <2>8
<1> QED BY <1>5, <1>6

\* Writing the reply leaves it as it is.
LEMMA PayloadReply ==
  ASSUME NEW got \in Answers, Replies(got) = {}, NEW x \in {SuccessReply, FailureReply}
  PROVE  /\ OneReply(Append(got, x))
         /\ Payload(Append(got, x)) = Payload(got)
<1>1. /\ Len(got) \in Nat /\ DOMAIN got = 1 .. Len(got)
      /\ \A i \in 1 .. Len(got) : got[i] \in Nat \cup {FailureReply}
  BY LenProperties, ElementOfSeq DEF Answers
<1>2. x \in Nat \cup {FailureReply}
  BY DEF SuccessReply
<1>3. /\ Append(got, x) \in Answers
      /\ Len(Append(got, x)) = Len(got) + 1
      /\ \A i \in 1 .. Len(got) : Append(got, x)[i] = got[i]
      /\ Append(got, x)[Len(got) + 1] = x
  BY <1>2, AppendProperties DEF Answers
<1>4. DOMAIN Append(got, x) = 1 .. Len(got) + 1
  BY <1>3, LenProperties DEF Answers
<1>5. Replies(Append(got, x)) = {Len(got) + 1}
  BY <1>1, <1>3, <1>4 DEF Replies
<1>6. OneReply(Append(got, x))
  BY <1>5 DEF OneReply
<1> DEFINE P == [i \in 1 .. Len(got) |->
                  IF i < Len(got) + 1 THEN Append(got, x)[i] ELSE Append(got, x)[i + 1]]
<1>7. Payload(Append(got, x)) = P
  <2>1. (CHOOSE i \in Replies(Append(got, x)) : TRUE) = Len(got) + 1
    BY <1>5
  <2>2. Len(Append(got, x)) - 1 = Len(got)
    BY <1>1, <1>3
  <2> QED BY <1>5, <2>1, <2>2 DEF Payload
<1>8. P \in Answers /\ Len(P) = Len(got) /\ \A i \in 1 .. Len(got) : P[i] = got[i]
  BY <1>1, <1>3 DEF Answers
<1>9. P = got
  <2> HIDE DEF P
  <2> QED BY <1>8, SeqEqual DEF Answers
<1> QED BY <1>6, <1>7, <1>9 DEF Payload

-----------------------------------------------------------------------------
(* Units in a stream *)

IsUnit(q, i, s) == q[i].type = "DATA" /\ q[i].sess = s

\* The units of s in stream q continue after unit n, without a gap, up to unit
\* last at most.
InOrder(q, s, n, last) ==
  \A i \in 1 .. Len(q) : IsUnit(q, i, s) =>
    /\ n < q[i].data /\ q[i].data <= last
    /\ \A j \in 1 .. i - 1 : IsUnit(q, j, s) => q[j].data < q[i].data
    /\ \/ q[i].data = n + 1
       \/ \E j \in 1 .. i - 1 : IsUnit(q, j, s) /\ q[j].data = q[i].data - 1

\* Nothing of s up to unit last is missing from the first k messages.
Reaches(q, k, s, n, last) == last = n \/ \E j \in 1 .. k : IsUnit(q, j, s) /\ q[j].data = last

\* Reading takes the next unit, or a message that is none.
LEMMA OrderRead ==
  ASSUME NEW q \in Seq(Messages), q # << >>, NEW s, NEW n \in Nat, NEW last \in Nat,
         InOrder(q, s, n, last)
  PROVE  /\ IsUnit(q, 1, s) => /\ q[1].data = n + 1 /\ n < last
                               /\ InOrder(Tail(q), s, n + 1, last)
         /\ ~IsUnit(q, 1, s) => InOrder(Tail(q), s, n, last)
<1>1. /\ Len(q) \in Nat /\ Len(q) >= 1
      /\ Len(Tail(q)) = Len(q) - 1
      /\ \A i \in 1 .. Len(q) - 1 : Tail(q)[i] = q[i + 1]
      /\ \A i \in 1 .. Len(q) : q[i].data \in Nat
  <2>1. \A i \in 1 .. Len(q) : q[i] \in Messages
    BY ElementOfSeq
  <2>2. \A i \in 1 .. Len(q) : q[i].data \in Nat
    BY <2>1 DEF Messages
  <2> QED BY <2>2, HeadTailProperties, LenProperties, EmptySeq
<1> DEFINE t == Tail(q)
<1> HIDE DEF t
<1>2. /\ Len(t) = Len(q) - 1
      /\ \A i \in 1 .. Len(t) : /\ i + 1 \in 1 .. Len(q)
                                /\ t[i] = q[i + 1]
                                /\ IsUnit(t, i, s) <=> IsUnit(q, i + 1, s)
  BY <1>1 DEF t, IsUnit
<1>3. CASE IsUnit(q, 1, s)
  <2>1. 1 \in 1 .. Len(q)
    BY <1>1
  <2>2. q[1].data = n + 1 /\ n < last
    BY <1>1, <1>3, <2>1 DEF InOrder
  <2>3. InOrder(t, s, n + 1, last)
    <3> SUFFICES ASSUME NEW i \in 1 .. Len(t), IsUnit(t, i, s)
                 PROVE  /\ n + 1 < t[i].data /\ t[i].data <= last
                        /\ \A j \in 1 .. i - 1 : IsUnit(t, j, s) => t[j].data < t[i].data
                        /\ \/ t[i].data = n + 1 + 1
                           \/ \E j \in 1 .. i - 1 : IsUnit(t, j, s) /\ t[j].data = t[i].data - 1
      BY DEF InOrder
    <3>1. i + 1 \in 1 .. Len(q) /\ t[i] = q[i + 1] /\ IsUnit(q, i + 1, s)
      BY <1>2
    <3>2. /\ q[i + 1].data <= last
          /\ \A j \in 1 .. i : IsUnit(q, j, s) => q[j].data < q[i + 1].data
          /\ \/ q[i + 1].data = n + 1
             \/ \E j \in 1 .. i : IsUnit(q, j, s) /\ q[j].data = q[i + 1].data - 1
      BY <3>1 DEF InOrder
    <3>3. n + 1 < q[i + 1].data
      BY <1>1, <1>3, <2>2, <3>1, <3>2
    <3>4. \A j \in 1 .. i - 1 : IsUnit(t, j, s) => t[j].data < t[i].data
      <4> SUFFICES ASSUME NEW j \in 1 .. i - 1, IsUnit(t, j, s)
                   PROVE  t[j].data < t[i].data
        OBVIOUS
      <4>1. j \in 1 .. Len(t) /\ j + 1 \in 1 .. i
        OBVIOUS
      <4>2. t[j] = q[j + 1] /\ IsUnit(q, j + 1, s)
        BY <1>2, <4>1
      <4> QED BY <3>1, <3>2, <4>1, <4>2
    <3>5. \/ t[i].data = n + 1 + 1
          \/ \E j \in 1 .. i - 1 : IsUnit(t, j, s) /\ t[j].data = t[i].data - 1
      <4>1. PICK j \in 1 .. i : IsUnit(q, j, s) /\ q[j].data = q[i + 1].data - 1
        BY <1>1, <3>1, <3>2, <3>3
      <4>2. CASE j = 1
        BY <1>1, <2>2, <3>1, <4>1, <4>2
      <4>3. CASE j # 1
        <5>1. j - 1 \in 1 .. i - 1 /\ j - 1 \in 1 .. Len(t) /\ (j - 1) + 1 = j
          BY <1>1, <1>2, <4>3
        <5>2. IsUnit(t, j - 1, s) /\ t[j - 1].data = t[i].data - 1
          BY <1>2, <3>1, <4>1, <5>1
        <5> QED BY <5>1, <5>2
      <4> QED BY <4>2, <4>3
    <3> QED BY <3>1, <3>2, <3>3, <3>4, <3>5
  <2> QED BY <1>3, <2>2, <2>3 DEF t
<1>4. CASE ~IsUnit(q, 1, s)
  <2>1. InOrder(t, s, n, last)
    <3> SUFFICES ASSUME NEW i \in 1 .. Len(t), IsUnit(t, i, s)
                 PROVE  /\ n < t[i].data /\ t[i].data <= last
                        /\ \A j \in 1 .. i - 1 : IsUnit(t, j, s) => t[j].data < t[i].data
                        /\ \/ t[i].data = n + 1
                           \/ \E j \in 1 .. i - 1 : IsUnit(t, j, s) /\ t[j].data = t[i].data - 1
      BY DEF InOrder
    <3>1. i + 1 \in 1 .. Len(q) /\ t[i] = q[i + 1] /\ IsUnit(q, i + 1, s)
      BY <1>2
    <3>2. /\ n < q[i + 1].data /\ q[i + 1].data <= last
          /\ \A j \in 1 .. i : IsUnit(q, j, s) => q[j].data < q[i + 1].data
          /\ \/ q[i + 1].data = n + 1
             \/ \E j \in 1 .. i : IsUnit(q, j, s) /\ q[j].data = q[i + 1].data - 1
      BY <3>1 DEF InOrder
    <3>3. \A j \in 1 .. i - 1 : IsUnit(t, j, s) => t[j].data < t[i].data
      <4> SUFFICES ASSUME NEW j \in 1 .. i - 1, IsUnit(t, j, s)
                   PROVE  t[j].data < t[i].data
        OBVIOUS
      <4>1. j \in 1 .. Len(t) /\ j + 1 \in 1 .. i
        OBVIOUS
      <4>2. t[j] = q[j + 1] /\ IsUnit(q, j + 1, s)
        BY <1>2, <4>1
      <4> QED BY <3>1, <3>2, <4>1, <4>2
    <3>4. CASE q[i + 1].data = n + 1
      BY <3>1, <3>2, <3>3, <3>4
    <3>5. ASSUME NEW j \in 1 .. i, IsUnit(q, j, s), q[j].data = q[i + 1].data - 1
          PROVE  \E k \in 1 .. i - 1 : IsUnit(t, k, s) /\ t[k].data = t[i].data - 1
      <4>1. j # 1
        BY <1>4, <3>5
      <4>2. j - 1 \in 1 .. i - 1 /\ j - 1 \in 1 .. Len(t) /\ (j - 1) + 1 = j
        BY <1>1, <1>2, <4>1
      <4>3. IsUnit(t, j - 1, s) /\ t[j - 1].data = t[i].data - 1
        BY <1>2, <3>1, <3>5, <4>2
      <4> QED BY <4>2, <4>3
    <3> QED BY <3>1, <3>2, <3>3, <3>4, <3>5
  <2> QED BY <1>4, <2>1 DEF t
<1> QED BY <1>3, <1>4

\* What was there before the message at k is so, or is received, after a read.
LEMMA ReachesRead ==
  ASSUME NEW q \in Seq(Messages), q # << >>, NEW s, NEW n \in Nat, NEW last \in Nat,
         InOrder(q, s, n, last), NEW k \in 1 .. Len(q), Reaches(q, k, s, n, last)
  PROVE  /\ IsUnit(q, 1, s) => Reaches(Tail(q), k - 1, s, n + 1, last)
         /\ ~IsUnit(q, 1, s) => Reaches(Tail(q), k - 1, s, n, last)
<1>1. /\ Len(q) \in Nat /\ Len(q) >= 1
      /\ \A i \in 1 .. Len(q) - 1 : Tail(q)[i] = q[i + 1]
  BY HeadTailProperties, LenProperties, EmptySeq
<1>2. IsUnit(q, 1, s) => q[1].data = n + 1 /\ n < last
  BY OrderRead
<1>3. ASSUME NEW j \in 1 .. k, IsUnit(q, j, s), q[j].data = last, j # 1
      PROVE  \E i \in 1 .. k - 1 : IsUnit(Tail(q), i, s) /\ Tail(q)[i].data = last
  <2>1. j - 1 \in 1 .. k - 1 /\ j - 1 \in 1 .. Len(q) - 1 /\ (j - 1) + 1 = j
    BY <1>1, <1>3
  <2>2. Tail(q)[j - 1] = q[j]
    BY <1>1, <2>1
  <2> QED BY <1>3, <2>1, <2>2 DEF IsUnit
<1>4. CASE last = n
  BY <1>2, <1>4 DEF Reaches
<1>5. CASE last # n
  <2>1. PICK j \in 1 .. k : IsUnit(q, j, s) /\ q[j].data = last
    BY <1>5 DEF Reaches
  <2>2. CASE j = 1
    BY <1>2, <2>1, <2>2 DEF Reaches
  <2>3. CASE j # 1
    BY <1>3, <2>1, <2>3 DEF Reaches
  <2> QED BY <2>2, <2>3
<1> QED BY <1>4, <1>5

\* A break keeps a prefix.
LEMMA OrderPrefix ==
  ASSUME NEW q \in Seq(Messages), NEW k \in 0 .. Len(q), NEW s, NEW n, NEW last
  PROVE  /\ InOrder(q, s, n, last) => InOrder(SubSeq(q, 1, k), s, n, last)
         /\ \A i \in 0 .. k : Reaches(q, i, s, n, last) => Reaches(SubSeq(q, 1, k), i, s, n, last)
<1> DEFINE t == SubSeq(q, 1, k)
<1>1. /\ Len(q) \in Nat /\ Len(t) = k
      /\ \A i \in 1 .. k : t[i] = q[i]
  BY SubSeqProperties, LenProperties, ElementOfSeq
<1> HIDE DEF t
<1>2. \A i \in 1 .. k : i \in 1 .. Len(q) /\ (IsUnit(t, i, s) <=> IsUnit(q, i, s))
  BY <1>1 DEF IsUnit
<1>3. InOrder(q, s, n, last) => InOrder(t, s, n, last)
  <2> SUFFICES ASSUME InOrder(q, s, n, last), NEW i \in 1 .. k, IsUnit(t, i, s)
               PROVE  /\ n < t[i].data /\ t[i].data <= last
                      /\ \A j \in 1 .. i - 1 : IsUnit(t, j, s) => t[j].data < t[i].data
                      /\ \/ t[i].data = n + 1
                         \/ \E j \in 1 .. i - 1 : IsUnit(t, j, s) /\ t[j].data = t[i].data - 1
    BY <1>1 DEF InOrder
  <2>1. /\ i \in 1 .. Len(q) /\ t[i] = q[i] /\ IsUnit(q, i, s)
        /\ \A j \in 1 .. i - 1 : j \in 1 .. k
    BY <1>1, <1>2
  <2>2. /\ n < q[i].data /\ q[i].data <= last
        /\ \A j \in 1 .. i - 1 : IsUnit(q, j, s) => q[j].data < q[i].data
        /\ \/ q[i].data = n + 1
           \/ \E j \in 1 .. i - 1 : IsUnit(q, j, s) /\ q[j].data = q[i].data - 1
    BY <2>1 DEF InOrder
  <2>3. \A j \in 1 .. i - 1 : t[j] = q[j] /\ (IsUnit(t, j, s) <=> IsUnit(q, j, s))
    BY <1>1, <1>2, <2>1
  <2> QED BY <2>1, <2>2, <2>3
<1>4. ASSUME NEW i \in 0 .. k, Reaches(q, i, s, n, last)
      PROVE  Reaches(t, i, s, n, last)
  <2>1. \A j \in 1 .. i : j \in 1 .. k
    BY <1>1
  <2> QED BY <1>1, <1>2, <1>4, <2>1 DEF Reaches
<1> QED BY <1>3, <1>4 DEF t

\* Writing keeps what was there.
LEMMA OrderKept ==
  ASSUME NEW q \in Seq(Messages), NEW m \in Messages, NEW s, NEW n, NEW last
  PROVE  /\ InOrder(q, s, n, last) /\ ~(m.type = "DATA" /\ m.sess = s)
              => InOrder(Append(q, m), s, n, last)
         /\ \A i \in 0 .. Len(q) : Reaches(q, i, s, n, last) => Reaches(Append(q, m), i, s, n, last)
<1> DEFINE t == Append(q, m)
<1>1. /\ Len(q) \in Nat /\ Len(t) = Len(q) + 1
      /\ \A i \in 1 .. Len(q) : t[i] = q[i]
      /\ t[Len(q) + 1] = m
  BY AppendProperties, LenProperties
<1> HIDE DEF t
<1>2. \A i \in 1 .. Len(q) : IsUnit(t, i, s) <=> IsUnit(q, i, s)
  BY <1>1 DEF IsUnit
<1>3. ASSUME InOrder(q, s, n, last), ~(m.type = "DATA" /\ m.sess = s)
      PROVE  InOrder(t, s, n, last)
  <2> SUFFICES ASSUME NEW i \in 1 .. Len(t), IsUnit(t, i, s)
               PROVE  /\ n < t[i].data /\ t[i].data <= last
                      /\ \A j \in 1 .. i - 1 : IsUnit(t, j, s) => t[j].data < t[i].data
                      /\ \/ t[i].data = n + 1
                         \/ \E j \in 1 .. i - 1 : IsUnit(t, j, s) /\ t[j].data = t[i].data - 1
    BY DEF InOrder
  <2>1. i # Len(q) + 1
    BY <1>1, <1>3 DEF IsUnit
  <2>2. /\ i \in 1 .. Len(q) /\ t[i] = q[i] /\ IsUnit(q, i, s)
        /\ \A j \in 1 .. i - 1 : j \in 1 .. Len(q)
    BY <1>1, <1>2, <2>1
  <2>3. /\ n < q[i].data /\ q[i].data <= last
        /\ \A j \in 1 .. i - 1 : IsUnit(q, j, s) => q[j].data < q[i].data
        /\ \/ q[i].data = n + 1
           \/ \E j \in 1 .. i - 1 : IsUnit(q, j, s) /\ q[j].data = q[i].data - 1
    BY <1>3, <2>2 DEF InOrder
  <2>4. \A j \in 1 .. i - 1 : t[j] = q[j] /\ (IsUnit(t, j, s) <=> IsUnit(q, j, s))
    BY <1>1, <1>2, <2>2
  <2> QED BY <2>2, <2>3, <2>4
<1>4. ASSUME NEW i \in 0 .. Len(q), Reaches(q, i, s, n, last)
      PROVE  Reaches(t, i, s, n, last)
  <2>1. \A j \in 1 .. i : j \in 1 .. Len(q)
    BY <1>1
  <2> QED BY <1>1, <1>2, <1>4, <2>1 DEF Reaches
<1> QED BY <1>3, <1>4 DEF t

\* Writing the next unit, when none is missing.
LEMMA OrderWritten ==
  ASSUME NEW q \in Seq(Messages), NEW s, NEW n \in Nat, NEW last \in Nat, n <= last,
         InOrder(q, s, n, last), Reaches(q, Len(q), s, n, last),
         NEW m \in Messages, m.type = "DATA", m.sess = s, m.data = last + 1
  PROVE  /\ InOrder(Append(q, m), s, n, last + 1)
         /\ Reaches(Append(q, m), Len(q) + 1, s, n, last + 1)
<1> DEFINE t == Append(q, m)
<1>1. /\ Len(q) \in Nat /\ Len(t) = Len(q) + 1
      /\ \A i \in 1 .. Len(q) : t[i] = q[i]
      /\ t[Len(q) + 1] = m
  BY AppendProperties, LenProperties
<1>2. \A i \in 1 .. Len(q) : q[i].data \in Nat
  <2>1. \A i \in 1 .. Len(q) : q[i] \in Messages
    BY ElementOfSeq
  <2> QED BY <2>1 DEF Messages
<1> HIDE DEF t
<1>3. \A i \in 1 .. Len(q) : IsUnit(t, i, s) <=> IsUnit(q, i, s)
  BY <1>1 DEF IsUnit
<1>4. IsUnit(t, Len(q) + 1, s)
  BY <1>1 DEF IsUnit
<1>5. Reaches(t, Len(q) + 1, s, n, last + 1)
  BY <1>1, <1>4 DEF Reaches
<1>6. InOrder(t, s, n, last + 1)
  <2> SUFFICES ASSUME NEW i \in 1 .. Len(t), IsUnit(t, i, s)
               PROVE  /\ n < t[i].data /\ t[i].data <= last + 1
                      /\ \A j \in 1 .. i - 1 : IsUnit(t, j, s) => t[j].data < t[i].data
                      /\ \/ t[i].data = n + 1
                         \/ \E j \in 1 .. i - 1 : IsUnit(t, j, s) /\ t[j].data = t[i].data - 1
    BY DEF InOrder
  <2>1. CASE i = Len(q) + 1
    <3>1. t[i].data = last + 1
      BY <1>1, <2>1
    <3>2. \A j \in 1 .. i - 1 : IsUnit(t, j, s) => t[j].data < t[i].data
      <4> SUFFICES ASSUME NEW j \in 1 .. Len(q), IsUnit(t, j, s) PROVE t[j].data < last + 1
        BY <1>1, <2>1, <3>1
      <4>1. t[j] = q[j] /\ q[j].data \in Nat /\ q[j].data <= last
        BY <1>1, <1>2, <1>3 DEF InOrder
      <4> QED BY <4>1
    <3>3. \/ t[i].data = n + 1
          \/ \E j \in 1 .. i - 1 : IsUnit(t, j, s) /\ t[j].data = t[i].data - 1
      <4>1. CASE last = n
        BY <3>1, <4>1
      <4>2. CASE last # n
        <5>1. PICK j \in 1 .. Len(q) : IsUnit(q, j, s) /\ q[j].data = last
          BY <4>2 DEF Reaches
        <5>2. j \in 1 .. i - 1 /\ IsUnit(t, j, s) /\ t[j].data = t[i].data - 1
          BY <1>1, <1>3, <2>1, <3>1, <5>1
        <5> QED BY <5>2
      <4> QED BY <4>1, <4>2
    <3> QED BY <3>1, <3>2, <3>3
  <2>2. CASE i # Len(q) + 1
    <3>1. /\ i \in 1 .. Len(q) /\ t[i] = q[i] /\ IsUnit(q, i, s)
          /\ \A j \in 1 .. i - 1 : j \in 1 .. Len(q)
      BY <1>1, <1>3, <2>2
    <3>2. /\ n < q[i].data /\ q[i].data <= last /\ q[i].data \in Nat
          /\ \A j \in 1 .. i - 1 : IsUnit(q, j, s) => q[j].data < q[i].data
          /\ \/ q[i].data = n + 1
             \/ \E j \in 1 .. i - 1 : IsUnit(q, j, s) /\ q[j].data = q[i].data - 1
      BY <1>2, <3>1 DEF InOrder
    <3>3. \A j \in 1 .. i - 1 : t[j] = q[j] /\ (IsUnit(t, j, s) <=> IsUnit(q, j, s))
      BY <1>1, <1>3, <3>1
    <3>4. t[i].data <= last + 1
      BY <3>1, <3>2
    <3> QED BY <3>1, <3>2, <3>3, <3>4
  <2> QED BY <2>1, <2>2
<1> QED BY <1>5, <1>6 DEF t

-----------------------------------------------------------------------------
(* The app's end *)

\* A session that starts has no local connection and none is forgotten by it.
Opened(s) ==
  /\ fwd[s].pc = "idle" <=> conn[s] = "none"
  /\ fwd[s].pc = "idle" => s \notin tcpMap

\* An app gets one reply at most, and none before the session is answered.
Unanswered == {"idle", "mark", "claim", "wait", "refuse", "reply"}
Answered(s) ==
  /\ fwd[s].pc \in Unanswered => Replies(appGot[s]) = {}
  /\ OneReply(appGot[s])

\* Forget closes what is open.
LEMMA ForgetCloses ==
  ASSUME TypeInv, NEW s \in Sessions, NEW t \in Sessions, NEW c, Forget(t, c)
  PROVE  /\ conn'[s] = conn[s] \/ (s \in tcpMap /\ conn'[s] = "closed")
         /\ s \in tcpMap' => s \in tcpMap
BY DEF Forget, TypeInv, TypeOK, PoolTypeOK

\* What the goroutines of the pool do to a local connection
LEMMA PoolCloses ==
  ASSUME TypeInv, PoolStep, NEW s \in Sessions
  PROVE  /\ conn'[s] = conn[s] \/ (s \in tcpMap /\ conn'[s] = "closed")
         /\ s \in tcpMap' => s \in tcpMap
<1>1. CASE \E c \in Channels : Dial(c) \/ ReadError(c) \/ WinClaim(c) \/ IgnoreClaim(c)
                               \/ WriteTCP(c) \/ ReadConnected(c) \/ ReadData(c) \/ RejectData(c)
  BY <1>1 DEF Dial, ReadError, WinClaim, IgnoreClaim, WriteTCP, ReadConnected, ReadData,
     RejectData, poolVars
<1>2. CASE \E c \in Channels : AbortTCP(c)
  <2>1. PICK c \in Channels : AbortTCP(c)
    BY <1>2
  <2>2. handler[c].sess \in Sessions /\ Forget(handler[c].sess, c)
    BY <2>1 DEF AbortTCP, TypeInv, Pointers
  <2> QED BY <2>2, ForgetCloses
<1>3. CASE \E c \in Channels : ReadClose(c)
  <2>1. PICK c \in Channels : ReadClose(c)
    BY <1>3
  <2>2. Incoming(c).sess \in Sessions /\ Forget(Incoming(c).sess, c)
    BY <2>1, Reading DEF ReadClose
  <2> QED BY <2>2, ForgetCloses
<1>4. CASE \E c \in Channels : ReadDataFails(c)
  BY <1>4 DEF ReadDataFails, CloseLocal, TypeInv, TypeOK, PoolTypeOK
<1>5. CASE \E t \in Sessions : RunCloser(t)
  BY <1>5 DEF RunCloser
<1> QED BY <1>1, <1>2, <1>3, <1>4, <1>5 DEF PoolStep, HandleChannel

\* Register opens the connection of its session; nothing else does.
LEMMA StepOpened ==
  ASSUME TypeInv, [Next]_vars, NEW s \in Sessions, Opened(s)
  PROVE  Opened(s)'
<1>1. CASE PoolStep /\ OfPool
  BY <1>1, PoolCloses DEF OfPool, forwarderVars, Opened
<1>2. CASE \E t \in Sessions, kind \in Kinds, first \in {0, 1} : Register(t, kind, first)
  BY <1>2 DEF Register, RegisterSession, Opened, TypeInv, TypeOK, PoolTypeOK, ForwarderTypeOK
<1>3. CASE \E t \in Sessions : AppHangup(t)
  BY <1>3 DEF AppHangup, Opened, forwarderVars, TypeInv, TypeOK, PoolTypeOK
<1>4. CASE \E t \in Sessions : MarkNil(t)
  BY <1>4 DEF MarkNil, Panic, Opened, forwarderVars, TypeInv, TypeOK, PoolTypeOK
<1>5. CASE \E t \in Sessions : SkipNil(t) \/ MarkClaim(t) \/ WriteClaim(t)
  BY <1>5 DEF SkipNil, MarkClaim, WriteClaim, Opened, poolVars, TypeInv, TypeOK, ForwarderTypeOK, At
<1>6. CASE \E t \in Sessions : \/ ClaimsDone(t) \/ Established(t) \/ Timeout(t) \/ Refuse(t)
                               \/ Reply(t) \/ SendLocal(t) \/ ReadLocalError(t)
                               \/ DeferredSendClose(t) \/ ReadLocal(t)
  <2>1. PICK t \in Sessions : \/ ClaimsDone(t) \/ Established(t) \/ Timeout(t) \/ Refuse(t)
                              \/ Reply(t) \/ SendLocal(t) \/ ReadLocalError(t)
                              \/ DeferredSendClose(t) \/ ReadLocal(t)
    BY <1>6
  <2>2. /\ UNCHANGED <<conn, tcpMap>> /\ fwd[t].pc # "idle"
        /\ \/ Goto(t, "wait") \/ Goto(t, "refuse") \/ Goto(t, "drop") \/ Goto(t, "reply")
           \/ Goto(t, "relay") \/ Goto(t, "send") \/ Goto(t, "close") \/ Goto(t, "shut")
    <3>1. CASE ClaimsDone(t) \/ ReadLocalError(t) \/ DeferredSendClose(t) \/ ReadLocal(t)
      BY <3>1 DEF ClaimsDone, ReadLocalError, DeferredSendClose, ReadLocal, At, poolVars
    <3>2. CASE Established(t) \/ Timeout(t) \/ Refuse(t)
      BY <3>2 DEF Established, Timeout, Refuse, At, poolVars
    <3>3. CASE Reply(t)
      BY <3>3 DEF Reply, At
    <3>4. CASE SendLocal(t)
      BY <3>4 DEF SendLocal, AfterSend, At, poolVars
    <3> QED BY <2>1, <3>1, <3>2, <3>3, <3>4
  <2>3. PICK pc : pc # "idle" /\ Goto(t, pc)
    BY <2>2
  <2>4. fwd'[s].pc = "idle" <=> fwd[s].pc = "idle"
    BY <2>2, <2>3 DEF Goto, TypeInv, TypeOK, ForwarderTypeOK
  <2> QED BY <2>2, <2>4 DEF Opened
<1>7. CASE \E t \in Sessions : Drop(t) \/ DeferredShut(t)
  <2>1. PICK t \in Sessions : Drop(t) \/ DeferredShut(t)
    BY <1>7
  <2>2. /\ fwd[t].pc # "idle" /\ Goto(t, "done")
        /\ conn' = [conn EXCEPT ![t] = "closed"]
        /\ s \in tcpMap' => s \in tcpMap
    BY <2>1 DEF Drop, DeferredShut, At
  <2>3. fwd'[s].pc = "idle" <=> fwd[s].pc = "idle"
    BY <2>2 DEF Goto, TypeInv, TypeOK, ForwarderTypeOK
  <2>4. conn'[s] = "none" <=> conn[s] = "none" /\ s # t
    BY <2>2 DEF TypeInv, TypeOK, PoolTypeOK
  <2> QED BY <2>2, <2>3, <2>4 DEF Opened
<1>8. CASE UNCHANGED <<poolVars, forwarderVars>>
  BY <1>8 DEF poolVars, forwarderVars, Opened
<1> QED
  BY <1>1, <1>2, <1>3, <1>4, <1>5, <1>6, <1>7, <1>8 DEF Next, ForwarderStep, Forward, OfServer,
     OfNetwork, vars

\* What reaches an app, and from whom.
LEMMA AppGets ==
  ASSUME TypeInv, [Next]_vars, NEW s \in Sessions, appGot'[s] # appGot[s]
  PROVE  \/ \E c \in Channels : /\ ReadData(c) /\ OfPool /\ Incoming(c).sess = s
                                /\ appGot'[s] = Append(appGot[s], Incoming(c).data)
         \/ Refuse(s) /\ OfForwarder /\ appGot'[s] = Append(appGot[s], FailureReply)
         \/ Reply(s) /\ OfForwarder /\ appGot'[s] = Append(appGot[s], SuccessReply)
<1>1. appGot' # appGot
  OBVIOUS
<1>2. CASE PoolStep /\ OfPool
  <2>1. PICK c \in Channels : ReadData(c)
    BY <1>1, <1>2 DEF PoolStep, Dial, HandleChannel, ReadError, WinClaim, IgnoreClaim, WriteTCP,
       AbortTCP, ReadConnected, ReadDataFails, RejectData, ReadClose, RunCloser, poolVars
  <2>2. Incoming(c).sess \in Sessions
    BY <2>1, Reading DEF ReadData
  <2>3. appGot' = [appGot EXCEPT ![Incoming(c).sess] = Append(@, Incoming(c).data)]
    BY <2>1 DEF ReadData, Receive
  <2> HIDE DEF Incoming
  <2>4. Incoming(c).sess = s /\ appGot'[s] = Append(appGot[s], Incoming(c).data)
    BY <2>2, <2>3 DEF TypeInv, TypeOK, PoolTypeOK
  <2> QED BY <1>2, <2>1, <2>4
<1>3. CASE ForwarderStep /\ OfForwarder
  <2>1. PICK t \in Sessions : Refuse(t) \/ Reply(t)
    BY <1>1, <1>3 DEF ForwarderStep, Register, Forward, SkipNil, MarkClaim, MarkNil, ClaimsDone,
       Established, Timeout, Drop, ReadLocalError, DeferredShut, ReadLocal, AppHangup, WriteClaim,
       SendLocal, DeferredSendClose, poolVars
  <2>2. \/ Refuse(t) /\ appGot' = [appGot EXCEPT ![t] = Append(@, FailureReply)]
        \/ Reply(t) /\ appGot' = [appGot EXCEPT ![t] = Append(@, SuccessReply)]
    BY <1>1, <2>1 DEF Refuse, Reply, WriteReply, Receive
  <2>3. t = s
    BY <2>2 DEF TypeInv, TypeOK, PoolTypeOK
  <2> QED BY <1>3, <2>2, <2>3 DEF TypeInv, TypeOK, PoolTypeOK
<1> QED BY <1>1, <1>2, <1>3 DEF Next, OfServer, OfNetwork, vars, poolVars

\* A goroutine that has answered, or gives up, does not go back.
LEMMA UnansweredNews ==
  ASSUME TypeInv, [Next]_vars, NEW s \in Sessions, fwd'[s].pc \in Unanswered
  PROVE  fwd[s].pc \in Unanswered /\ ~Refuse(s) /\ ~Reply(s)
<1>1. CASE UNCHANGED fwd
  <2>1. ~Refuse(s) /\ ~Reply(s)
    BY <1>1 DEF Refuse, Reply, Goto, At, TypeInv, TypeOK, ForwarderTypeOK
  <2> QED BY <1>1, <2>1
<1>2. CASE fwd' # fwd
  <2>1. PICK t \in Sessions :
          \/ \E kind \in Kinds, first \in {0, 1} : Register(t, kind, first)
          \/ Forward(t) \/ ReadLocal(t) \/ AppHangup(t)
    BY <1>2 DEF Next, ForwarderStep, OfPool, OfServer, OfNetwork, vars, forwarderVars
  <2>2. CASE t # s
    <3>1. fwd'[s] = fwd[s]
      BY <2>1, <2>2 DEF Register, Forward, SkipNil, MarkClaim, MarkNil, WriteClaim, ClaimsDone,
         Established, Timeout, Refuse, Drop, Reply, SendLocal, ReadLocalError, DeferredSendClose,
         DeferredShut, ReadLocal, AppHangup, Goto, forwarderVars, TypeInv, TypeOK, ForwarderTypeOK
    <3>2. ~Refuse(s) /\ ~Reply(s)
      BY <3>1 DEF Refuse, Reply, Goto, At, TypeInv, TypeOK, ForwarderTypeOK
    <3> QED BY <3>1, <3>2
  <2>3. CASE t = s
    <3>1. fwd[s].pc \in Unanswered
      <4>1. CASE \/ \E kind \in Kinds, first \in {0, 1} : Register(s, kind, first)
                 \/ SkipNil(s) \/ MarkClaim(s) \/ MarkNil(s) \/ WriteClaim(s) \/ ClaimsDone(s)
                 \/ Established(s) \/ Timeout(s) \/ Refuse(s) \/ Reply(s)
        BY <4>1 DEF Register, SkipNil, MarkClaim, MarkNil, WriteClaim, ClaimsDone, Established,
           Timeout, Refuse, Reply, At, Unanswered
      <4>2. CASE Drop(s) \/ DeferredShut(s) \/ ReadLocal(s) \/ ReadLocalError(s) \/ DeferredSendClose(s)
        <5>1. Goto(s, "done") \/ Goto(s, "send") \/ Goto(s, "close") \/ Goto(s, "shut")
          BY <4>2 DEF Drop, DeferredShut, ReadLocal, ReadLocalError, DeferredSendClose
        <5> QED BY <5>1 DEF Goto, Unanswered, TypeInv, TypeOK, ForwarderTypeOK
      <4>3. CASE SendLocal(s)
        <5>1. Goto(s, "relay") \/ Goto(s, "close")
          BY <4>3 DEF SendLocal, AfterSend
        <5> QED BY <5>1 DEF Goto, Unanswered, TypeInv, TypeOK, ForwarderTypeOK
      <4>4. CASE AppHangup(s)
        BY <1>2, <4>4 DEF AppHangup, forwarderVars
      <4> QED BY <2>1, <2>3, <4>1, <4>2, <4>3, <4>4 DEF Forward
    <3>2. ~Refuse(s)
      BY DEF Refuse, Goto, Unanswered, TypeInv, TypeOK, ForwarderTypeOK
    <3>3. ASSUME Reply(s) PROVE FALSE
      <4>1. Goto(s, "relay") \/ Goto(s, "drop")
        BY <3>3 DEF Reply
      <4> QED BY <4>1 DEF Goto, Unanswered, TypeInv, TypeOK, ForwarderTypeOK
    <3> QED BY <3>1, <3>2, <3>3
  <2> QED BY <2>2, <2>3
<1> QED BY <1>1, <1>2

\* The units on their way to a client are numbered from 1.
Numbered == \A w \in Sockets : \A m \in Down(w) : m.type = "DATA" => m.data > 0

Received(s) == Payload(appGot[s])

\* What the app has got, as a sequence.
LEMMA ReceivedType ==
  ASSUME TypeInv, NEW s \in Sessions, Answered(s)
  PROVE  Received(s) \in Answers /\ Len(Received(s)) \in Nat
<1>1. appGot[s] \in Answers /\ OneReply(appGot[s])
  BY DEF TypeInv, TypeOK, PoolTypeOK, Answers, Answered
<1>2. Received(s) \in Answers
  BY <1>1, PayloadUnit DEF Received
<1> QED BY <1>2, LenProperties DEF Answers

\* The reply is not repeated, and the payload grows by what handleChannel
\* writes only.
LEMMA StepAnswered ==
  ASSUME TypeInv, [Next]_vars, NEW s \in Sessions, Answered(s), Numbered
  PROVE  /\ Answered(s)'
         /\ \/ Received(s)' = Received(s)
            \/ \E c \in Channels : /\ ReadData(c) /\ OfPool /\ Incoming(c).sess = s
                                   /\ Received(s)' = Append(Received(s), Incoming(c).data)
<1>1. appGot[s] \in Answers /\ OneReply(appGot[s])
  BY DEF TypeInv, TypeOK, PoolTypeOK, Answers, Answered
<1>2. CASE appGot'[s] = appGot[s]
  BY <1>2, UnansweredNews DEF Answered, Received
<1>3. CASE \E c \in Channels : /\ ReadData(c) /\ OfPool /\ Incoming(c).sess = s
                               /\ appGot'[s] = Append(appGot[s], Incoming(c).data)
  <2>1. PICK c \in Channels : /\ ReadData(c) /\ OfPool /\ Incoming(c).sess = s
                              /\ appGot'[s] = Append(appGot[s], Incoming(c).data)
    BY <1>3
  <2>2. Incoming(c).data \in Nat /\ Incoming(c).data > 0
    <3>1. Current(c) \in Sockets /\ Incoming(c) \in Down(Current(c)) /\ Incoming(c).type = "DATA"
      BY <2>1, IncomingHeld DEF ReadData
    <3> QED BY <3>1, StreamTypes DEF Numbered, Messages
  <2>3. /\ Replies(appGot'[s]) = Replies(appGot[s])
        /\ Received(s)' = Append(Received(s), Incoming(c).data)
    BY <1>1, <2>1, <2>2, PayloadUnit DEF Received
  <2> QED BY <2>1, <2>3, UnansweredNews DEF Answered, OneReply
<1>4. CASE \/ Refuse(s) /\ appGot'[s] = Append(appGot[s], FailureReply)
           \/ Reply(s) /\ appGot'[s] = Append(appGot[s], SuccessReply)
  <2>1. fwd[s].pc \in Unanswered /\ fwd'[s].pc \notin Unanswered
    BY <1>4, UnansweredNews DEF Refuse, Reply, At, Unanswered
  <2>2. Replies(appGot[s]) = {}
    BY <2>1 DEF Answered
  <2> QED BY <1>1, <1>4, <2>1, <2>2, PayloadReply DEF Answered, Received
<1> QED BY <1>2, <1>3, <1>4, AppGets

-----------------------------------------------------------------------------
(* The target's end *)

\* The server has a connection once it has dialled, and registers it while its
\* goroutine runs.
Dialled(s, w) ==
  /\ tconn[w][s] # "none" => task[w][s].pc \notin {"none", "dial"}
  /\ task[w][s].pc \in Running => tconn[w][s] # "none"
  /\ s \in conns[w] => task[w][s].pc \in Running

\* What a step does to the connection of s at w, and to its entry in conns
Untouched(s, w) == tconn'[w][s] = tconn[w][s] /\ (s \in conns'[w] <=> s \in conns[w])
Dialling(s, w) ==
  /\ DialTarget(w, s)
  /\ tconn'[w][s] = "open" /\ s \in conns'[w]
Ending(s, w) ==
  /\ task[w][s].pc \in Running /\ task'[w][s].pc = "ended"
  /\ tconn'[w][s] = "closed" /\ s \notin conns'[w]
Closing(s, w) ==
  /\ s \in conns[w] /\ UNCHANGED task
  /\ tconn'[w][s] = "closed" /\ s \notin conns'[w]
HangingUp(s, w) ==
  /\ UNCHANGED <<task, conns>>
  /\ \/ tconn[w][s] = "open" /\ tconn'[w][s] = "eof"
     \/ tconn[w][s] = "eof" /\ tconn'[w][s] = "reset"

\* The read loop of a connection
LEMMA LoopTouches ==
  ASSUME TypeInv, NEW v \in Sockets, HandleWebSocket(v), NEW s \in Sessions, NEW w \in Sockets
  PROVE  Untouched(s, w) \/ Closing(s, w) \/ HangingUp(s, w)
<1>1. CASE ServeClaim(v) \/ ServeTCP(v) \/ ServeData(v) \/ DropData(v)
  BY <1>1 DEF ServeClaim, ServeTCP, ServeData, DropData, serverVars, Untouched
<1>2. CASE ServeDataFails(v)
  <2> DEFINE t == Request(v).sess
  <2>1. t \in Sessions
    BY <1>2, Serving DEF ServeDataFails
  <2>2. /\ UNCHANGED <<task, conns>>
        /\ tconn' = [tconn EXCEPT ![v][t] = IF @ = "eof" THEN "reset" ELSE @]
    BY <1>2 DEF ServeDataFails
  <2> HIDE DEF t
  <2>3. \/ tconn'[w][s] = tconn[w][s]
        \/ tconn[w][s] = "eof" /\ tconn'[w][s] = "reset"
    BY <2>1, <2>2 DEF TypeInv, TypeOK, ServerTypeOK
  <2> QED BY <2>2, <2>3 DEF Untouched, HangingUp
<1>3. CASE ServeClose(v)
  <2> DEFINE t == Request(v).sess
  <2>1. t \in Sessions
    BY <1>3, Serving DEF ServeClose
  <2>2. /\ UNCHANGED task
        /\ conns' = [conns EXCEPT ![v] = @ \ {t}]
        /\ tconn' = IF t \in conns[v] THEN [tconn EXCEPT ![v][t] = "closed"] ELSE tconn
    BY <1>3 DEF ServeClose
  <2> HIDE DEF t
  <2>3. CASE s = t /\ w = v /\ t \in conns[v]
    BY <2>1, <2>2, <2>3 DEF Closing, TypeInv, TypeOK, ServerTypeOK
  <2>4. CASE ~(s = t /\ w = v /\ t \in conns[v])
    BY <2>1, <2>2, <2>4 DEF Untouched, TypeInv, TypeOK, ServerTypeOK
  <2> QED BY <2>3, <2>4
<1>4. CASE Cleanup(v)
  <2>1. /\ UNCHANGED task
        /\ conns' = [conns EXCEPT ![v] = {}]
        /\ tconn' = [tconn EXCEPT ![v] = [u \in Sessions |->
                       IF u \in conns[v] THEN "closed" ELSE tconn[v][u]]]
    BY <1>4 DEF Cleanup
  <2>2. CASE w = v /\ s \in conns[v]
    BY <2>1, <2>2 DEF Closing, TypeInv, TypeOK, ServerTypeOK
  <2>3. CASE ~(w = v /\ s \in conns[v])
    BY <2>1, <2>3 DEF Untouched, TypeInv, TypeOK, ServerTypeOK
  <2> QED BY <2>2, <2>3
<1> QED BY <1>1, <1>2, <1>3, <1>4 DEF HandleWebSocket

\* The goroutine of a session, and its target
LEMMA TaskTouches ==
  ASSUME TypeInv, NEW v \in Sockets, NEW t \in Sessions,
         HandleTCPConnection(v, t) \/ PumpData(v, t) \/ TargetHangup(v, t),
         NEW s \in Sessions, NEW w \in Sockets
  PROVE  Untouched(s, w) \/ Dialling(s, w) \/ Ending(s, w) \/ HangingUp(s, w)
<1>1. CASE DialTarget(v, t)
  <2>1. /\ tconn' = [tconn EXCEPT ![v][t] = "open"]
        /\ conns' = [conns EXCEPT ![v] = @ \cup {t}]
    BY <1>1 DEF DialTarget
  <2>2. CASE s = t /\ w = v
    BY <1>1, <2>1, <2>2 DEF Dialling, TypeInv, TypeOK, ServerTypeOK
  <2>3. CASE ~(s = t /\ w = v)
    BY <2>1, <2>3 DEF Untouched, TypeInv, TypeOK, ServerTypeOK
  <2> QED BY <2>2, <2>3
<1>2. CASE End(v, t) /\ task[v][t].pc \in Running
  <2>1. /\ tconn' = [tconn EXCEPT ![v][t] = "closed"]
        /\ conns' = [conns EXCEPT ![v] = @ \ {t}]
        /\ task' = [task EXCEPT ![v][t].pc = "ended"]
    BY <1>2 DEF End, SetTask
  <2>2. CASE s = t /\ w = v
    BY <1>2, <2>1, <2>2 DEF Ending, TypeInv, TypeOK, ServerTypeOK
  <2>3. CASE ~(s = t /\ w = v)
    BY <2>1, <2>3 DEF Untouched, TypeInv, TypeOK, ServerTypeOK
  <2> QED BY <2>2, <2>3
<1>3. CASE TargetHangup(v, t)
  <2>1. /\ tconn[v][t] = "open" /\ tconn' = [tconn EXCEPT ![v][t] = "eof"]
        /\ UNCHANGED <<task, conns>>
    BY <1>3 DEF TargetHangup
  <2> QED BY <2>1 DEF Untouched, HangingUp, TypeInv, TypeOK, ServerTypeOK
<1>4. CASE UNCHANGED <<tconn, conns>>
  BY <1>4 DEF Untouched
<1> QED
  BY <1>1, <1>2, <1>3, <1>4 DEF HandleTCPConnection, DialTargetFails, WriteFirstFrame,
     WriteFirstFrameFails, Notify, PumpReadError, PumpCancelled, PumpData, Running

\* Every step
LEMMA TargetTouched ==
  ASSUME TypeInv, [Next]_vars, NEW s \in Sessions, NEW w \in Sockets
  PROVE  Untouched(s, w) \/ Dialling(s, w) \/ Ending(s, w) \/ Closing(s, w) \/ HangingUp(s, w)
<1>1. CASE ServerStep
  BY <1>1, LoopTouches, TaskTouches DEF ServerStep
<1>2. CASE UNCHANGED serverVars
  BY <1>2 DEF serverVars, Untouched
<1> QED BY <1>1, <1>2 DEF Next, OfPool, OfForwarder, OfNetwork, vars

\* The goroutine of a session ends when its dial fails, or leaves its connection.
LEMMA TaskEnds ==
  ASSUME TypeInv, [Next]_vars, NEW s \in Sessions, NEW w \in Sockets,
         task'[w][s] # task[w][s], task'[w][s].pc = "ended"
  PROVE  DialTargetFails(w, s) \/ Ending(s, w)
<1>1. task' # task
  OBVIOUS
<1>2. PICK v \in Sockets :
        \/ HandleWebSocket(v)
        \/ \E t \in Sessions : HandleTCPConnection(v, t) \/ PumpData(v, t) \/ TargetHangup(v, t)
  BY <1>1 DEF Next, ServerStep, OfPool, OfForwarder, OfNetwork, vars, serverVars
<1>3. CASE HandleWebSocket(v)
  <2>1. ServeTCP(v)
    BY <1>1, <1>3 DEF HandleWebSocket, ServeClaim, ServeData, ServeDataFails, DropData, ServeClose,
       Cleanup, serverVars
  <2>2. task'[w][s].pc = "dial"
    BY <2>1, Serving DEF ServeTCP, TypeInv, TypeOK, ServerTypeOK
  <2> QED BY <2>2
<1>4. CASE \E t \in Sessions : HandleTCPConnection(v, t) \/ PumpData(v, t) \/ TargetHangup(v, t)
  <2>1. PICK t \in Sessions : HandleTCPConnection(v, t) \/ PumpData(v, t) \/ TargetHangup(v, t)
    BY <1>4
  <2>2. CASE DialTargetFails(v, t)
    BY <2>2 DEF DialTargetFails, SetTask, TypeInv, TypeOK, ServerTypeOK
  <2>3. CASE End(v, t) /\ task[v][t].pc \in Running
    <3>1. v = w /\ t = s
      BY <2>3 DEF End, SetTask, TypeInv, TypeOK, ServerTypeOK
    <3> QED BY <2>3, <3>1 DEF End, SetTask, Ending, TypeInv, TypeOK, ServerTypeOK
  <2>4. ASSUME NEW pc \in TaskStates \ {"ended"}, SetTask(v, t, pc)
        PROVE  FALSE
    BY <2>4 DEF SetTask, TypeInv, TypeOK, ServerTypeOK
  <2> QED
    BY <1>1, <2>1, <2>2, <2>3, <2>4 DEF HandleTCPConnection, DialTarget, AfterDial, WriteFirstFrame,
       WriteFirstFrameFails, Notify, PumpReadError, PumpCancelled, PumpData, TargetHangup, Running,
       TaskStates
<1> QED BY <1>2, <1>3, <1>4

\* The connection is made by the dial, before anything uses it.
LEMMA StepDialled ==
  ASSUME Inv, [Next]_vars, NEW s \in Sessions, NEW w \in Sockets, Dialled(s, w)
  PROVE  Dialled(s, w)'
<1>1. TypeInv /\ TypeInv'
  BY StepType DEF Inv
<1>2. CASE task'[w][s] = task[w][s]
  <2>1. ~Dialling(s, w)
    <3>1. task[w][s] \in Task
      BY <1>1 DEF TypeInv, TypeOK, ServerTypeOK, Task
    <3> SUFFICES ASSUME DialTarget(w, s) PROVE FALSE
      BY DEF Dialling
    <3>2. task'[w][s] = [task[w][s] EXCEPT !.pc = AfterDial(task[w][s].first)]
      BY <1>1 DEF DialTarget, SetTask, TypeInv, TypeOK, ServerTypeOK
    <3> QED BY <1>2, <3>1, <3>2 DEF DialTarget, AfterDial, Task
  <2>2. ~Ending(s, w)
    BY <1>2 DEF Ending, Running
  <2> QED
    BY <1>1, <1>2, <2>1, <2>2, TargetTouched DEF Dialled, Untouched, Closing, HangingUp, Running
<1>3. CASE task'[w][s].pc = "dial" /\ ~Started(s, w) /\ ServeTCP(w)
  <2>1. UNCHANGED <<tconn, conns>>
    BY <1>3 DEF ServeTCP
  <2> QED BY <1>3, <2>1 DEF Dialled, Started, Running
<1>4. CASE DialTarget(w, s) /\ task'[w][s].pc = AfterDial(task[w][s].first)
  <2>1. tconn'[w][s] = "open" /\ task'[w][s].pc \in Running
    BY <1>1, <1>4 DEF DialTarget, AfterDial, Running, TypeInv, TypeOK, ServerTypeOK
  <2> QED BY <2>1 DEF Dialled, Running
<1>5. CASE \/ WriteFirstFrame(w, s) /\ task'[w][s].pc = "notify"
           \/ Notify(w, s) /\ task'[w][s].pc = "pump"
  <2>1. UNCHANGED <<tconn, conns>> /\ task[w][s].pc \in Running
    BY <1>5 DEF WriteFirstFrame, Notify, Running
  <2> QED BY <1>5, <2>1 DEF Dialled, Running
<1>6. CASE task'[w][s] # task[w][s] /\ Started(s, w) /\ task'[w][s].pc = "ended"
  <2>1. s \notin conns'[w]
    BY <1>1, <1>6, TaskEnds DEF DialTargetFails, Ending, Dialled, Running
  <2> QED BY <1>6, <2>1 DEF Dialled, Running
<1> QED BY <1>2, <1>3, <1>4, <1>5, <1>6, TaskMoves
-----------------------------------------------------------------------------
(* What a step does to a connection and its streams *)

\* Writing appends to an open connection and changes nothing else.
LEMMA AfterGrows ==
  ASSUME NEW q \in Queues, NEW v, NEW m, NEW ok, NEW w \in Sockets
  PROVE  \/ After(q, v, m, ok)[w] = q[w]
         \/ w = v /\ link[w] = "open" /\ After(q, v, m, ok)[w] = Append(q[w], m)
BY DEF After, Queues

\* A connection is dialled, breaks, and is left by the server's handler.
LEMMA LinkMoves ==
  ASSUME TypeInv, [Next]_vars, NEW w \in Sockets
  PROVE  \/ link'[w] = link[w]
         \/ \E c \in Channels : Dial(c) /\ OfPool /\ w = <<c, wsConns[c] + 1>>
         \/ Break(w) /\ OfNetwork /\ link'[w] = "broken"
         \/ Cleanup(w) /\ OfServer /\ link'[w] = "gone"
<1>1. CASE PoolStep /\ OfPool
  <2>1. CASE \E c \in Channels : Dial(c)
    BY <1>1, <2>1 DEF Dial, TypeInv, TypeOK, WireTypeOK
  <2>2. CASE UNCHANGED link
    BY <2>2
  <2> QED
    BY <1>1, <2>1, <2>2 DEF PoolStep, HandleChannel, ReadError, WinClaim, IgnoreClaim, WriteTCP,
       AbortTCP, ReadConnected, ReadData, ReadDataFails, RejectData, ReadClose, RunCloser, SendClose,
       ClientWrite, Consume, wireVars
<1>2. CASE ForwarderStep
  <2>1. UNCHANGED link
    BY <1>2 DEF ForwarderStep, Register, Forward, SkipNil, MarkClaim, MarkNil, WriteClaim,
       ClaimsDone, Established, Timeout, Refuse, Drop, Reply, SendLocal, SendData, ReadLocalError,
       DeferredSendClose, SendClose, DeferredShut, ReadLocal, AppHangup, ClientWrite, wireVars
  <2> QED BY <2>1
<1>3. CASE ServerStep /\ OfServer
  <2>1. CASE \E v \in Sockets : Cleanup(v)
    BY <1>3, <2>1 DEF Cleanup, TypeInv, TypeOK, WireTypeOK
  <2>2. CASE UNCHANGED link
    BY <2>2
  <2>3. CASE \E v \in Sockets : HandleWebSocket(v)
    BY <2>1, <2>2, <2>3 DEF HandleWebSocket, ServeClaim, ServeTCP, ServeData, ServeDataFails,
       DropData, ServeClose, ConsumeRequest
  <2>4. CASE \E v \in Sockets, t \in Sessions : \/ HandleTCPConnection(v, t) \/ PumpData(v, t)
                                               \/ TargetHangup(v, t)
    BY <2>2, <2>4 DEF HandleTCPConnection, DialTarget, DialTargetFails, TellClient, WriteFirstFrame,
       WriteFirstFrameFails, Notify, PumpReadError, PumpCancelled, PumpData, TargetHangup,
       ServerWrite, wireVars
  <2> QED BY <1>3, <2>3, <2>4 DEF ServerStep
<1>4. CASE (\E v \in Sockets : Break(v)) /\ OfNetwork
  BY <1>4 DEF Break, TypeInv, TypeOK, WireTypeOK
<1>5. CASE UNCHANGED vars
  BY <1>5 DEF vars, wireVars
<1> QED BY <1>1, <1>2, <1>3, <1>4, <1>5 DEF Next

\* What the client writes to connection w; the request is written by WriteTCP,
\* payload by SendLocal.
UpWritten(w, m) ==
  /\ link[w] = "open" /\ UNCHANGED link
  /\ toServer'[w] = Append(toServer[w], m)
  /\ m.type = "TCP" => \E c \in Channels : /\ WriteTCP(c)
                                          /\ m.sess = handler[c].sess /\ m.data = handler[c].first
  /\ m.type = "DATA" =>
       /\ SendLocal(m.sess) /\ OfForwarder
       /\ Routed(m.sess) /\ w = Current(channelMap[m.sess])
       /\ m.data = appSent[m.sess]

\* The stream to the server is read by its handler and written by the client.
LEMMA UpMoves ==
  ASSUME TypeInv, [Next]_vars, NEW w \in Sockets
  PROVE  \/ toServer'[w] = toServer[w]
         \/ /\ HandleWebSocket(w) /\ OfServer /\ toServer[w] # << >> /\ UNCHANGED link
            /\ toServer'[w] = Tail(toServer[w])
         \/ \E m \in Messages : UpWritten(w, m)
         \/ Break(w) /\ \E k \in 0 .. Len(toServer[w]) : toServer'[w] = SubSeq(toServer[w], 1, k)
<1>1. toServer \in Queues
  BY StreamTypes
<1>2. ASSUME NEW v, NEW m \in Messages, NEW ok, ClientWrite(v, m, ok), m.type # "DATA", m.type # "TCP"
      PROVE  toServer'[w] = toServer[w] \/ UpWritten(w, m)
  <2>1. toServer' = After(toServer, v, m, ok) /\ UNCHANGED link
    BY <1>2 DEF ClientWrite
  <2> QED BY <1>1, <1>2, <2>1, AfterGrows DEF UpWritten
<1>3. CASE PoolStep
  <2>1. CASE \E c \in Channels : WriteTCP(c)
    <3>1. PICK c \in Channels : WriteTCP(c)
      BY <2>1
    <3>2. PICK ok \in BOOLEAN : ClientWrite(Current(c), Msg("TCP", handler[c].sess, handler[c].first), ok)
      BY <3>1 DEF WriteTCP
    <3>3. handler[c].sess \in Sessions /\ handler[c].first \in Nat
      BY <3>1 DEF WriteTCP, TypeInv, Pointers, TypeOK, PoolTypeOK
    <3> DEFINE m == Msg("TCP", handler[c].sess, handler[c].first)
    <3>4. m \in Messages /\ m.type = "TCP" /\ m.sess = handler[c].sess /\ m.data = handler[c].first
      BY <3>3 DEF Msg, Messages, Types
    <3>5. toServer' = After(toServer, Current(c), m, ok) /\ UNCHANGED link
      BY <3>2 DEF ClientWrite
    <3> HIDE DEF m
    <3> QED BY <1>1, <3>1, <3>4, <3>5, AfterGrows DEF UpWritten
  <2>2. CASE \E t \in Sessions : RunCloser(t)
    <3>1. PICK t \in Sessions : SendClose(t)
      BY <2>2 DEF RunCloser
    <3>2. Msg("CLOSE", t, 0) \in Messages /\ Msg("CLOSE", t, 0).type = "CLOSE"
      BY DEF Msg, Messages, Types
    <3> QED BY <1>2, <3>1, <3>2 DEF SendClose, wireVars
  <2>3. CASE UNCHANGED toServer
    BY <2>3
  <2> QED
    BY <1>3, <2>1, <2>2, <2>3 DEF PoolStep, Dial, HandleChannel, ReadError, WinClaim, IgnoreClaim,
       AbortTCP, ReadConnected, ReadData, ReadDataFails, RejectData, ReadClose, Consume, wireVars
<1>4. CASE ForwarderStep /\ OfForwarder
  <2>1. CASE \E t \in Sessions : WriteClaim(t)
    <3>1. PICK t \in Sessions, ok \in BOOLEAN : ClientWrite(<<fwd[t].ch, fwd[t].ws>>, Msg("CLAIM", t, 0), ok)
      BY <2>1 DEF WriteClaim
    <3>2. Msg("CLAIM", t, 0) \in Messages /\ Msg("CLAIM", t, 0).type = "CLAIM"
      BY DEF Msg, Messages, Types
    <3> QED BY <1>2, <3>1, <3>2
  <2>2. CASE \E t \in Sessions : DeferredSendClose(t)
    <3>1. PICK t \in Sessions : SendClose(t)
      BY <2>2 DEF DeferredSendClose
    <3>2. Msg("CLOSE", t, 0) \in Messages /\ Msg("CLOSE", t, 0).type = "CLOSE"
      BY DEF Msg, Messages, Types
    <3> QED BY <1>2, <3>1, <3>2 DEF SendClose, wireVars
  <2>3. CASE \E t \in Sessions : SendLocal(t)
    <3>1. PICK t \in Sessions : SendLocal(t)
      BY <2>3
    <3>2. PICK ok \in BOOLEAN : SendData(t, appSent[t], ok)
      BY <3>1 DEF SendLocal
    <3>3. CASE ~Routed(t)
      BY <3>2, <3>3 DEF SendData, wireVars
    <3>4. CASE Routed(t)
      <4> DEFINE m == Msg("DATA", t, appSent[t])
      <4>1. /\ toServer' = After(toServer, Current(channelMap[t]), m, ok)
            /\ UNCHANGED link
        BY <3>2, <3>4 DEF SendData, ClientWrite
      <4>2. m \in Messages /\ m.type = "DATA" /\ m.sess = t /\ m.data = appSent[t]
        BY DEF Msg, Messages, Types, TypeInv, TypeOK, ForwarderTypeOK
      <4> HIDE DEF m
      <4>3. toServer'[w] = toServer[w] \/ UpWritten(w, m)
        BY <1>1, <1>4, <3>1, <3>4, <4>1, <4>2, AfterGrows DEF UpWritten
      <4> QED BY <4>2, <4>3
    <3> QED BY <3>3, <3>4
  <2>4. CASE UNCHANGED toServer
    BY <2>4
  <2> QED
    BY <1>4, <2>1, <2>2, <2>3, <2>4 DEF ForwarderStep, Register, Forward, SkipNil, MarkClaim,
       MarkNil, ClaimsDone, Established, Timeout, Refuse, Drop, Reply, ReadLocalError, DeferredShut,
       ReadLocal, AppHangup, wireVars
<1>5. CASE ServerStep /\ OfServer
  <2>1. PICK v \in Sockets :
          \/ HandleWebSocket(v)
          \/ \E t \in Sessions : HandleTCPConnection(v, t) \/ PumpData(v, t) \/ TargetHangup(v, t)
    BY <1>5 DEF ServerStep
  <2>2. CASE HandleWebSocket(v) /\ toServer' = [toServer EXCEPT ![v] = Tail(@)]
             /\ toServer[v] # << >> /\ UNCHANGED link
    BY <1>1, <1>5, <2>2 DEF Queues
  <2>3. CASE UNCHANGED toServer
    BY <2>3
  <2> QED
    BY <2>1, <2>2, <2>3 DEF HandleWebSocket, Serves, ServeClaim, ServeTCP, ServeData, ServeDataFails,
       DropData, ServeClose, Cleanup, ConsumeRequest, HandleTCPConnection, DialTarget,
       DialTargetFails, TellClient, WriteFirstFrame, WriteFirstFrameFails, Notify, PumpReadError,
       PumpCancelled, PumpData, TargetHangup, ServerWrite, wireVars
<1>6. CASE \E v \in Sockets : Break(v)
  <2>1. PICK v \in Sockets : Break(v)
    BY <1>6
  <2>2. PICK k \in 0 .. Len(toServer[v]) : toServer' = [toServer EXCEPT ![v] = SubSeq(@, 1, k)]
    BY <2>1 DEF Break
  <2> QED BY <1>1, <2>1, <2>2 DEF Queues
<1>7. CASE UNCHANGED vars
  BY <1>7 DEF vars, wireVars
<1> QED BY <1>3, <1>4, <1>5, <1>6, <1>7 DEF Next

\* What the server writes to connection w; payload is written by PumpData.
DownWritten(w, m) ==
  /\ link[w] = "open" /\ UNCHANGED link
  /\ toClient'[w] = Append(toClient[w], m)
  /\ m.type = "DATA" => PumpData(w, m.sess) /\ OfServer /\ m.data = targetSent[m.sess] + 1

\* The stream to the client is read by its goroutine and written by the server.
LEMMA DownMoves ==
  ASSUME TypeInv, [Next]_vars, NEW w \in Sockets
  PROVE  \/ toClient'[w] = toClient[w]
         \/ \E c \in Channels :
              /\ HandleChannel(c) /\ OfPool /\ w = Current(c) /\ toClient[w] # << >> /\ UNCHANGED link
              /\ toClient'[w] = Tail(toClient[w])
         \/ \E m \in Messages : DownWritten(w, m)
         \/ Break(w) /\ \E k \in 0 .. Len(toClient[w]) : toClient'[w] = SubSeq(toClient[w], 1, k)
<1>1. toClient \in Queues
  BY StreamTypes
<1>2. ASSUME NEW v, NEW m \in Messages, NEW ok, m.type # "DATA",
             toClient' = After(toClient, v, m, ok), UNCHANGED link
      PROVE  toClient'[w] = toClient[w] \/ DownWritten(w, m)
  BY <1>1, <1>2, AfterGrows DEF DownWritten
<1>3. CASE PoolStep /\ OfPool
  <2>1. CASE UNCHANGED toClient
    BY <2>1
  <2>2. CASE \E c \in Channels : \/ WinClaim(c) \/ IgnoreClaim(c) \/ ReadConnected(c) \/ ReadData(c)
                                 \/ ReadDataFails(c) \/ RejectData(c) \/ ReadClose(c)
    <3>1. PICK c \in Channels : \/ WinClaim(c) \/ IgnoreClaim(c) \/ ReadConnected(c) \/ ReadData(c)
                                \/ ReadDataFails(c) \/ RejectData(c) \/ ReadClose(c)
      BY <2>2
    <3>2. HandleChannel(c)
      BY <3>1 DEF HandleChannel
    <3>3. /\ toClient[Current(c)] # << >> /\ UNCHANGED link
          /\ toClient' = [toClient EXCEPT ![Current(c)] = Tail(@)]
      BY <3>1 DEF WinClaim, IgnoreClaim, ReadConnected, ReadData, ReadDataFails, RejectData,
         ReadClose, Reads, Consume
    <3>4. CASE w = Current(c)
      BY <1>1, <1>3, <3>2, <3>3, <3>4 DEF Queues
    <3>5. CASE w # Current(c)
      BY <1>1, <3>3, <3>5 DEF Queues
    <3> QED BY <3>4, <3>5
  <2> QED
    BY <1>3, <2>1, <2>2 DEF PoolStep, Dial, HandleChannel, ReadError, WriteTCP, AbortTCP, RunCloser,
       SendClose, ClientWrite, wireVars
<1>4. CASE ForwarderStep
  <2>1. UNCHANGED toClient
    BY <1>4 DEF ForwarderStep, Register, Forward, SkipNil, MarkClaim, MarkNil, WriteClaim,
       ClaimsDone, Established, Timeout, Refuse, Drop, Reply, SendLocal, SendData, ReadLocalError,
       DeferredSendClose, SendClose, DeferredShut, ReadLocal, AppHangup, ClientWrite, wireVars
  <2> QED BY <2>1
<1>5. CASE ServerStep /\ OfServer
  <2>1. PICK v \in Sockets :
          \/ HandleWebSocket(v)
          \/ \E t \in Sessions : HandleTCPConnection(v, t) \/ PumpData(v, t) \/ TargetHangup(v, t)
    BY <1>5 DEF ServerStep
  <2>2. CASE ServeClaim(v)
    <3>1. Request(v).sess \in Sessions
      BY <2>2, Serving DEF ServeClaim
    <3>2. /\ Msg("CLAIM_ACK", Request(v).sess, 0) \in Messages
          /\ Msg("CLAIM_ACK", Request(v).sess, 0).type = "CLAIM_ACK"
      BY <3>1 DEF Msg, Messages, Types
    <3> QED BY <1>2, <2>2, <3>2 DEF ServeClaim
  <2>3. CASE HandleWebSocket(v) /\ ~ServeClaim(v)
    BY <2>3 DEF HandleWebSocket, ServeTCP, ServeData, ServeDataFails, DropData, ServeClose, Cleanup,
       ConsumeRequest
  <2>4. ASSUME NEW t \in Sessions, TellClient(v, t)
        PROVE  toClient'[w] = toClient[w] \/ \E m \in Messages : DownWritten(w, m)
    <3>1. Msg("CLOSE", t, 0) \in Messages /\ Msg("CLOSE", t, 0).type # "DATA"
      BY DEF Msg, Messages, Types
    <3> QED BY <1>2, <2>4, <3>1 DEF TellClient, ServerWrite
  <2>5. ASSUME NEW t \in Sessions, Notify(v, t)
        PROVE  toClient'[w] = toClient[w] \/ \E m \in Messages : DownWritten(w, m)
    <3>1. Msg("CONNECTED", t, 0) \in Messages /\ Msg("CONNECTED", t, 0).type # "DATA"
      BY DEF Msg, Messages, Types
    <3> QED BY <1>2, <2>5, <3>1 DEF Notify, ServerWrite
  <2>6. ASSUME NEW t \in Sessions, PumpData(v, t)
        PROVE  toClient'[w] = toClient[w] \/ \E m \in Messages : DownWritten(w, m)
    <3> DEFINE m == Msg("DATA", t, targetSent[t] + 1)
    <3>1. PICK ok \in BOOLEAN : toClient' = After(toClient, v, m, ok) /\ UNCHANGED link
      BY <2>6 DEF PumpData, ServerWrite
    <3>2. m \in Messages /\ m.sess = t /\ m.data = targetSent[t] + 1
      <4>1. targetSent[t] + 1 \in Nat
        BY MaxDownAssumption DEF TypeInv, TypeOK, ServerTypeOK
      <4> QED BY <4>1 DEF Msg, Messages, Types
    <3> HIDE DEF m
    <3> QED BY <1>1, <1>5, <2>6, <3>1, <3>2, AfterGrows DEF DownWritten
  <2>7. CASE UNCHANGED toClient
    BY <2>7
  <2>8. CASE \E t \in Sessions : HandleTCPConnection(v, t) \/ PumpData(v, t) \/ TargetHangup(v, t)
    <3>1. PICK t \in Sessions : HandleTCPConnection(v, t) \/ PumpData(v, t) \/ TargetHangup(v, t)
      BY <2>8
    <3>2. TellClient(v, t) \/ Notify(v, t) \/ PumpData(v, t) \/ UNCHANGED toClient
      BY <3>1 DEF HandleTCPConnection, DialTarget, DialTargetFails, WriteFirstFrame,
         WriteFirstFrameFails, PumpReadError, PumpCancelled, TargetHangup, wireVars
    <3> QED BY <2>4, <2>5, <2>6, <2>7, <3>2
  <2> QED BY <2>1, <2>2, <2>3, <2>7, <2>8
<1>6. CASE \E v \in Sockets : Break(v)
  <2>1. PICK v \in Sockets : Break(v)
    BY <1>6
  <2>2. PICK k \in 0 .. Len(toClient[v]) : toClient' = [toClient EXCEPT ![v] = SubSeq(@, 1, k)]
    BY <2>1 DEF Break
  <2> QED BY <1>1, <2>1, <2>2 DEF Queues
<1>7. CASE UNCHANGED vars
  BY <1>7 DEF vars, wireVars
<1> QED BY <1>3, <1>4, <1>5, <1>6, <1>7 DEF Next

-----------------------------------------------------------------------------
(* The connections of a channel *)

\* The open connection of a channel is its current one, and one that was not
\* dialled yet has carried nothing.
LinkOk(w) ==
  /\ w[2] > wsConns[w[1]] => link[w] = "none"
  /\ link[w] = "open" => w[2] = wsConns[w[1]] /\ handler[w[1]].pc # "dial"
  /\ link[w] = "none" => toServer[w] = << >> /\ \A s \in Sessions : ~Started(s, w)

\* A channel changes its connection by dialling, and dials once reading failed.
LEMMA DialNews ==
  ASSUME TypeInv, [Next]_vars
  PROVE  \/ \E c \in Channels : Dial(c) /\ OfPool
         \/ /\ UNCHANGED wsConns
            /\ \A c \in Channels : handler'[c].pc = "dial" =>
                 handler[c].pc = "dial" \/ link[Current(c)] # "open"
<1>1. CASE UNCHANGED <<wsConns, handler>>
  BY <1>1
<1>2. CASE \E c \in Channels : ReadError(c)
  BY <1>2 DEF ReadError, Current, TypeInv, TypeOK, PoolTypeOK
<1>3. CASE \E c \in Channels : WinClaim(c) \/ WriteTCP(c) \/ AbortTCP(c)
  <2>1. PICK c \in Channels : WinClaim(c) \/ WriteTCP(c) \/ AbortTCP(c)
    BY <1>3
  <2>2. UNCHANGED wsConns /\ handler'[c].pc # "dial" /\ \A d \in Channels \ {c} : handler'[d] = handler[d]
    <3>1. CASE WinClaim(c)
      <4>1. PICK t, first : handler' = [handler EXCEPT ![c] = [pc |-> "write", sess |-> t, first |-> first]]
        BY <3>1 DEF WinClaim
      <4> QED BY <3>1, <4>1 DEF WinClaim, TypeInv, TypeOK, PoolTypeOK
    <3>2. CASE AbortTCP(c)
      BY <3>2 DEF AbortTCP, Idle, TypeInv, TypeOK, PoolTypeOK
    <3>3. CASE WriteTCP(c)
      BY <3>3 DEF WriteTCP, Idle, TypeInv, TypeOK, PoolTypeOK
    <3> QED BY <2>1, <3>1, <3>2, <3>3
  <2> QED BY <2>2
<1>4. CASE PoolStep /\ OfPool
  BY <1>1, <1>2, <1>3, <1>4 DEF PoolStep, HandleChannel, IgnoreClaim, ReadConnected, ReadData,
     ReadDataFails, RejectData, ReadClose, RunCloser, poolVars
<1>5. CASE ForwarderStep
  BY <1>1, <1>5 DEF ForwarderStep, Register, Forward, SkipNil, MarkClaim, MarkNil, WriteClaim,
     ClaimsDone, Established, Timeout, Refuse, Drop, Reply, SendLocal, ReadLocalError,
     DeferredSendClose, DeferredShut, ReadLocal, AppHangup, poolVars
<1> QED BY <1>1, <1>4, <1>5 DEF Next, OfServer, OfNetwork, vars, poolVars

\* Every step keeps it so.
LEMMA StepLink ==
  ASSUME TypeInv, [Next]_vars, NEW w \in Sockets, LinkOk(w)
  PROVE  LinkOk(w)'
<1>1. /\ w[1] \in Channels /\ w[2] \in Nat /\ w = <<w[1], w[2]>>
      /\ wsConns[w[1]] \in Nat
  BY DEF Sockets, Epochs, TypeInv, TypeOK, PoolTypeOK
<1>2. ASSUME NEW c \in Channels, Dial(c), OfPool
      PROVE  LinkOk(w)'
  <2>1. /\ handler[c].pc = "dial" /\ UNCHANGED <<toServer, task>>
        /\ wsConns' = [wsConns EXCEPT ![c] = @ + 1]
        /\ handler' = [handler EXCEPT ![c] = Idle("read")]
        /\ link' = [link EXCEPT ![<<c, wsConns[c] + 1>>] = "open"]
    BY <1>2 DEF Dial, OfPool, serverVars
  <2>2. CASE w[1] # c
    BY <1>1, <2>1, <2>2 DEF LinkOk, Started, TypeInv, TypeOK, PoolTypeOK, WireTypeOK
  <2>3. CASE w = <<c, wsConns[c] + 1>>
    BY <1>1, <2>1, <2>3 DEF LinkOk, Idle, TypeInv, TypeOK, PoolTypeOK, WireTypeOK
  <2>4. CASE w[1] = c /\ w # <<c, wsConns[c] + 1>>
    <3>1. link'[w] = link[w] /\ link[w] # "open" /\ wsConns'[w[1]] = wsConns[w[1]] + 1
      BY <1>1, <2>1, <2>4 DEF LinkOk, TypeInv, TypeOK, PoolTypeOK, WireTypeOK
    <3>2. w[2] > wsConns[w[1]] + 1 => w[2] > wsConns[w[1]]
      BY <1>1
    <3> QED BY <2>1, <3>1, <3>2 DEF LinkOk, Started
  <2> QED BY <2>2, <2>3, <2>4
<1>3. ASSUME ~(\E c \in Channels : Dial(c) /\ OfPool)
      PROVE  LinkOk(w)'
  <2>1. /\ UNCHANGED wsConns
        /\ handler'[w[1]].pc = "dial" => handler[w[1]].pc = "dial" \/ link[Current(w[1])] # "open"
    BY <1>1, <1>3, DialNews
  <2>2. \/ link'[w] = link[w]
        \/ link[w] = "open" /\ link'[w] = "broken"
        \/ link[w] = "broken" /\ link'[w] = "gone"
    BY <1>3, LinkMoves DEF Break, Cleanup
  <2>3. w[2] > wsConns'[w[1]] => link'[w] = "none"
    BY <2>1, <2>2 DEF LinkOk
  <2>4. link'[w] = "open" => w[2] = wsConns'[w[1]] /\ handler'[w[1]].pc # "dial"
    <3>1. link[w] = "open" => Current(w[1]) = w
      BY <1>1 DEF LinkOk, Current
    <3> QED BY <2>1, <2>2, <3>1 DEF LinkOk
  <2>5. link'[w] = "none" => toServer'[w] = << >> /\ \A s \in Sessions : ~Started(s, w)'
    <3> SUFFICES ASSUME link'[w] = "none" PROVE toServer'[w] = << >> /\ \A s \in Sessions : ~Started(s, w)'
      OBVIOUS
    <3>1. link[w] = "none" /\ toServer[w] = << >>
      BY <2>2 DEF LinkOk
    <3>2. toServer'[w] = << >>
      BY <3>1, UpMoves DEF UpWritten, Break
    <3>3. \A s \in Sessions : ~Started(s, w)'
      BY <3>1, StartedNews DEF LinkOk, ServeTCP, Serves
    <3> QED BY <3>2, <3>3
  <2> QED BY <2>3, <2>4, <2>5 DEF LinkOk
<1> QED BY <1>2, <1>3

\* What is in a stream was there, or has just been written.
LEMMA UpHeld ==
  ASSUME TypeInv, [Next]_vars, NEW w \in Sockets, NEW m \in Up(w)', m \notin Up(w)
  PROVE  UpWritten(w, m)
<1>1. toServer[w] \in Seq(Messages) /\ m \in Held(toServer'[w]) /\ m \notin Held(toServer[w])
  BY PrimedStreams DEF Up, TypeInv, TypeOK, WireTypeOK
<1>2. CASE \E x \in Messages : UpWritten(w, x)
  <2>1. PICK x \in Messages : UpWritten(w, x)
    BY <1>2
  <2>2. m = x
    BY <1>1, <2>1, HeldAppend DEF UpWritten
  <2> QED BY <2>1, <2>2
<1> QED BY <1>1, <1>2, UpMoves, HeldTail, HeldPrefix

\* And the other way.
LEMMA DownHeld ==
  ASSUME TypeInv, [Next]_vars, NEW w \in Sockets, NEW m \in Down(w)', m \notin Down(w)
  PROVE  DownWritten(w, m)
<1>1. toClient[w] \in Seq(Messages) /\ m \in Held(toClient'[w]) /\ m \notin Held(toClient[w])
  BY PrimedStreams DEF Down, TypeInv, TypeOK, WireTypeOK
<1>2. CASE \E x \in Messages : DownWritten(w, x)
  <2>1. PICK x \in Messages : DownWritten(w, x)
    BY <1>2
  <2>2. m = x
    BY <1>1, <2>1, HeldAppend DEF DownWritten
  <2> QED BY <2>1, <2>2
<1> QED BY <1>1, <1>2, DownMoves, HeldTail, HeldPrefix

-----------------------------------------------------------------------------
(* What a step does to the units of a session *)

\* What the app has sent
LEMMA AppSends ==
  ASSUME TypeInv, [Next]_vars, NEW s \in Sessions
  PROVE  \/ appSent'[s] = appSent[s]
         \/ \E kind \in Kinds, first \in {0, 1} :
              Register(s, kind, first) /\ OfForwarder /\ appSent'[s] = first
         \/ ReadLocal(s) /\ OfForwarder /\ appSent'[s] = appSent[s] + 1
<1>1. CASE UNCHANGED appSent
  BY <1>1
<1>2. CASE ForwarderStep /\ OfForwarder
  <2>1. CASE \E t \in Sessions, kind \in Kinds, first \in {0, 1} : Register(t, kind, first)
    <3>1. PICK t \in Sessions, kind \in Kinds, first \in {0, 1} : Register(t, kind, first)
      BY <2>1
    <3>2. appSent' = [appSent EXCEPT ![t] = first]
      BY <3>1 DEF Register
    <3>3. CASE t = s
      BY <1>2, <3>1, <3>2, <3>3 DEF TypeInv, TypeOK, ForwarderTypeOK
    <3>4. CASE t # s
      BY <3>2, <3>4 DEF TypeInv, TypeOK, ForwarderTypeOK
    <3> QED BY <3>3, <3>4
  <2>2. CASE \E t \in Sessions : ReadLocal(t)
    <3>1. PICK t \in Sessions : ReadLocal(t)
      BY <2>2
    <3>2. appSent' = [appSent EXCEPT ![t] = @ + 1]
      BY <3>1 DEF ReadLocal
    <3>3. CASE t = s
      BY <1>2, <3>1, <3>2, <3>3 DEF TypeInv, TypeOK, ForwarderTypeOK
    <3>4. CASE t # s
      BY <3>2, <3>4 DEF TypeInv, TypeOK, ForwarderTypeOK
    <3> QED BY <3>3, <3>4
  <2> QED
    BY <1>1, <1>2, <2>1, <2>2 DEF ForwarderStep, Forward, SkipNil, MarkClaim, MarkNil, WriteClaim,
       ClaimsDone, Established, Timeout, Refuse, Drop, Reply, SendLocal, ReadLocalError,
       DeferredSendClose, DeferredShut, AppHangup, forwarderVars
<1> QED BY <1>1, <1>2 DEF Next, OfPool, OfServer, OfNetwork, vars, forwarderVars

\* What the target has sent
LEMMA TargetSends ==
  ASSUME TypeInv, [Next]_vars, NEW s \in Sessions
  PROVE  \/ targetSent'[s] = targetSent[s]
         \/ \E v \in Sockets : /\ PumpData(v, s) /\ OfServer
                               /\ targetSent'[s] = targetSent[s] + 1
<1>1. CASE UNCHANGED targetSent
  BY <1>1
<1>2. CASE ServerStep /\ OfServer
  <2>1. CASE \E v \in Sockets, t \in Sessions : PumpData(v, t)
    <3>1. PICK v \in Sockets, t \in Sessions : PumpData(v, t)
      BY <2>1
    <3>2. targetSent' = [targetSent EXCEPT ![t] = @ + 1]
      BY <3>1 DEF PumpData
    <3>3. CASE t = s
      BY <1>2, <3>1, <3>2, <3>3 DEF TypeInv, TypeOK, ServerTypeOK
    <3>4. CASE t # s
      BY <3>2, <3>4 DEF TypeInv, TypeOK, ServerTypeOK
    <3> QED BY <3>3, <3>4
  <2>2. CASE \E v \in Sockets : HandleWebSocket(v)
    BY <1>1, <2>2 DEF HandleWebSocket, ServeClaim, ServeTCP, ServeData, ServeDataFails, DropData,
       ServeClose, Cleanup, serverVars
  <2>3. CASE \E v \in Sockets, t \in Sessions : HandleTCPConnection(v, t) \/ TargetHangup(v, t)
    BY <1>1, <2>3 DEF HandleTCPConnection, DialTarget, DialTargetFails, WriteFirstFrame,
       WriteFirstFrameFails, Notify, PumpReadError, PumpCancelled, TargetHangup
  <2> QED BY <1>2, <2>1, <2>2, <2>3 DEF ServerStep
<1> QED BY <1>1, <1>2 DEF Next, OfPool, OfForwarder, OfNetwork, vars, serverVars

\* What the target has got
LEMMA TargetGets ==
  ASSUME TypeInv, [Next]_vars, NEW s \in Sessions
  PROVE  \/ targetGot'[s] = targetGot[s]
         \/ \E v \in Sockets : \/ /\ ServeData(v) /\ OfServer /\ Request(v).sess = s
                                  /\ targetGot'[s] = Append(targetGot[s], Request(v).data)
                               \/ /\ WriteFirstFrame(v, s) /\ OfServer
                                  /\ targetGot'[s] = Append(targetGot[s], task[v][s].first)
<1>1. CASE UNCHANGED targetGot
  BY <1>1
<1>2. CASE ServerStep /\ OfServer
  <2>1. CASE \E v \in Sockets, t \in Sessions : WriteFirstFrame(v, t)
    <3>1. PICK v \in Sockets, t \in Sessions : WriteFirstFrame(v, t)
      BY <2>1
    <3>2. targetGot' = [targetGot EXCEPT ![t] = Append(@, task[v][t].first)]
      BY <3>1 DEF WriteFirstFrame, Deliver
    <3>3. CASE t = s
      BY <1>2, <3>1, <3>2, <3>3 DEF TypeInv, TypeOK, ServerTypeOK
    <3>4. CASE t # s
      BY <3>2, <3>4 DEF TypeInv, TypeOK, ServerTypeOK
    <3> QED BY <3>3, <3>4
  <2>2. CASE \E v \in Sockets : ServeData(v)
    <3>1. PICK v \in Sockets : ServeData(v)
      BY <2>2
    <3>2. Request(v).sess \in Sessions
      BY <3>1, Serving DEF ServeData
    <3>3. targetGot' = [targetGot EXCEPT ![Request(v).sess] = Append(@, Request(v).data)]
      BY <3>1 DEF ServeData, Deliver
    <3> HIDE DEF Request
    <3>4. CASE Request(v).sess = s
      <4>1. targetGot'[s] = Append(targetGot[s], Request(v).data)
        BY <3>3, <3>4 DEF TypeInv, TypeOK, ServerTypeOK
      <4> QED BY <1>2, <3>1, <3>4, <4>1
    <3>5. CASE Request(v).sess # s
      BY <3>2, <3>3, <3>5 DEF TypeInv, TypeOK, ServerTypeOK
    <3> QED BY <3>4, <3>5
  <2>3. CASE \E v \in Sockets : HandleWebSocket(v) /\ ~ServeData(v)
    BY <1>1, <2>3 DEF HandleWebSocket, ServeClaim, ServeTCP, ServeDataFails, DropData, ServeClose,
       Cleanup, serverVars
  <2>4. CASE \E v \in Sockets, t \in Sessions :
               \/ HandleTCPConnection(v, t) /\ ~WriteFirstFrame(v, t)
               \/ PumpData(v, t) \/ TargetHangup(v, t)
    BY <1>1, <2>4 DEF HandleTCPConnection, DialTarget, DialTargetFails, WriteFirstFrameFails,
       Notify, PumpReadError, PumpCancelled, PumpData, TargetHangup
  <2> QED BY <1>2, <2>1, <2>2, <2>3, <2>4 DEF ServerStep
<1> QED BY <1>1, <1>2 DEF Next, OfPool, OfForwarder, OfNetwork, vars, serverVars

-----------------------------------------------------------------------------
(* The first frame *)

\* The server has not told the client of a connection for s yet.
Early(s) == \A w \in Sockets : task[w][s].pc \notin {"pump", "ended"}

\* So far the app has sent what its request carries, wherever that is.
First(s) ==
  Early(s) =>
    /\ appSent[s] \in {0, 1}
    /\ Waiting(s) => connInfo[s] = appSent[s]
    /\ \A c \in Channels : Writing(s, c) => handler[c].first = appSent[s]
    /\ \A w \in Sockets :
         /\ \A m \in Up(w) : m.type = "TCP" /\ m.sess = s => m.data = appSent[s]
         /\ task[w][s].pc \in {"dial", "first", "notify"} => task[w][s].first = appSent[s]

\* A server that has told does not forget it.
LEMMA EarlyBefore ==
  ASSUME Inv, [Next]_vars, NEW s \in Sessions, Early(s)'
  PROVE  Early(s)
<1> SUFFICES ASSUME NEW w \in Sockets, task[w][s].pc \in {"pump", "ended"}
             PROVE  task'[w][s].pc \in {"pump", "ended"}
  BY DEF Early
<1>1. CASE task'[w][s] = task[w][s]
  BY <1>1
<1>2. CASE task'[w][s] # task[w][s]
  BY <1>2, TaskMoves DEF Started, DialTarget, WriteFirstFrame, Notify
<1> QED BY <1>1, <1>2

\* Where a first frame in connInfo comes from
LEMMA InfoMoves ==
  ASSUME TypeInv, [Next]_vars, NEW s \in Sessions
  PROVE  \/ connInfo'[s] \in {connInfo[s], NoInfo}
         \/ \E kind \in Kinds, first \in {0, 1} : Register(s, kind, first) /\ connInfo'[s] = first
<1>1. CASE PoolStep
  <2>1. CASE \E c \in Channels : WinClaim(c)
    <3>1. PICK t \in Sessions : connInfo' = [connInfo EXCEPT ![t] = NoInfo]
      BY <2>1, Reading DEF WinClaim, Bind
    <3> QED BY <3>1 DEF TypeInv, TypeOK, PoolTypeOK
  <2>2. CASE \E c \in Channels : AbortTCP(c) \/ ReadClose(c)
    <3>1. PICK t \in Sessions, c \in Channels : Forget(t, c)
      BY <2>2, Reading DEF AbortTCP, ReadClose, TypeInv, Pointers
    <3> QED BY <3>1 DEF Forget, TypeInv, TypeOK, PoolTypeOK
  <2> QED
    BY <1>1, <2>1, <2>2 DEF PoolStep, Dial, HandleChannel, ReadError, IgnoreClaim, WriteTCP,
       ReadConnected, ReadData, ReadDataFails, RejectData, RunCloser, poolVars
<1>2. CASE ForwarderStep
  <2>1. CASE \E t \in Sessions, kind \in Kinds, first \in {0, 1} : Register(t, kind, first)
    <3>1. PICK t \in Sessions, kind \in Kinds, first \in {0, 1} : Register(t, kind, first)
      BY <2>1
    <3>2. connInfo' = [connInfo EXCEPT ![t] = first]
      BY <3>1 DEF Register, RegisterSession
    <3>3. CASE t = s
      BY <3>1, <3>2, <3>3 DEF TypeInv, TypeOK, PoolTypeOK
    <3>4. CASE t # s
      BY <3>2, <3>4 DEF TypeInv, TypeOK, PoolTypeOK
    <3> QED BY <3>3, <3>4
  <2> QED
    BY <1>2, <2>1 DEF ForwarderStep, Forward, SkipNil, MarkClaim, MarkNil, WriteClaim,
       ClaimsDone, Established, Timeout, Refuse, Drop, Reply, SendLocal, ReadLocalError,
       DeferredSendClose, DeferredShut, ReadLocal, AppHangup, poolVars
<1>3. CASE UNCHANGED connInfo
  BY <1>3
<1> QED BY <1>1, <1>2, <1>3 DEF Next, OfServer, OfNetwork, vars, poolVars

\* Whoever writes the request has it from connInfo.
LEMMA WritingMoves ==
  ASSUME TypeInv, [Next]_vars, NEW s \in Sessions, NEW c \in Channels, Writing(s, c)'
  PROVE  \/ Writing(s, c) /\ handler'[c].first = handler[c].first
         \/ Wins(s, c) /\ handler'[c].first = connInfo[s]
<1>1. CASE handler'[c] = handler[c]
  BY <1>1 DEF Writing
<1>2. CASE handler'[c] # handler[c]
  <2>1. PoolStep
    <3>1. ~ForwarderStep
      BY <1>2 DEF ForwarderStep, Register, Forward, SkipNil, MarkClaim, MarkNil, WriteClaim,
         ClaimsDone, Established, Timeout, Refuse, Drop, Reply, SendLocal, ReadLocalError,
         DeferredSendClose, DeferredShut, ReadLocal, AppHangup, poolVars
    <3> QED BY <1>2, <3>1 DEF Next, OfServer, OfNetwork, vars, poolVars
  <2>2. CASE \E d \in Channels : WinClaim(d)
    <3>1. PICK d \in Channels : WinClaim(d)
      BY <2>2
    <3>2. PICK t : /\ t = Incoming(d).sess
                   /\ handler' = [handler EXCEPT ![d] = [pc |-> "write", sess |-> t, first |-> connInfo[t]]]
      BY <3>1 DEF WinClaim
    <3>3. c = d
      BY <1>2, <3>2 DEF TypeInv, TypeOK, PoolTypeOK
    <3>4. handler'[c] = [pc |-> "write", sess |-> t, first |-> connInfo[t]]
      BY <3>2, <3>3 DEF TypeInv, TypeOK, PoolTypeOK
    <3>5. t = s /\ handler'[c].first = connInfo[s]
      BY <3>4 DEF Writing
    <3> QED BY <3>1, <3>2, <3>3, <3>5 DEF Wins
  <2>3. CASE \E d \in Channels : WriteTCP(d)
    <3>1. PICK d \in Channels : WriteTCP(d)
      BY <2>3
    <3>2. handler'[d].pc # "write" /\ \A e \in Channels \ {d} : handler'[e] = handler[e]
      BY <3>1 DEF WriteTCP, Idle, TypeInv, TypeOK, PoolTypeOK
    <3> QED BY <1>2, <3>2 DEF Writing
  <2>4. CASE \E d \in Channels : Dial(d) \/ ReadError(d) \/ AbortTCP(d)
    <3>1. PICK d \in Channels, pc \in {"read", "dial"} : handler' = [handler EXCEPT ![d] = Idle(pc)]
      BY <2>4 DEF Dial, ReadError, AbortTCP
    <3> QED BY <1>2, <3>1 DEF Idle, Writing, TypeInv, TypeOK, PoolTypeOK
  <2> QED
    BY <1>2, <2>1, <2>2, <2>3, <2>4 DEF PoolStep, HandleChannel, IgnoreClaim, ReadConnected,
       ReadData, ReadDataFails, RejectData, ReadClose, RunCloser, poolVars
<1> QED BY <1>1, <1>2

\* A TCP message in a stream, by its place
LEMMA InStreamInFlight ==
  ASSUME NEW s, NEW w, NEW m \in Up(w), m.type = "TCP", m.sess = s
  PROVE  \E i \in Positions(w) : InFlight(s, w, i)
BY DEF Up, Held, Positions, InFlight

\* The frame goes from connInfo to the writer, the stream and the goroutine, and
\* the app sends no more before all of that is over.
LEMMA StepFirst ==
  ASSUME OwnInv, [Next]_vars, NEW s \in Sessions, First(s)
  PROVE  First(s)'
<1>1. TypeInv /\ Inv /\ RequestOnce(s) /\ RealInv
  BY DEF OwnInv, RoutingInv, Inv, OneRequest
<1> SUFFICES ASSUME Early(s)'
             PROVE  /\ appSent'[s] \in {0, 1}
                    /\ Waiting(s)' => connInfo'[s] = appSent'[s]
                    /\ \A c \in Channels : Writing(s, c)' => handler'[c].first = appSent'[s]
                    /\ \A w \in Sockets :
                         /\ \A m \in Up(w)' : m.type = "TCP" /\ m.sess = s => m.data = appSent'[s]
                         /\ task'[w][s].pc \in {"dial", "first", "notify"} =>
                              task'[w][s].first = appSent'[s]
  BY DEF First
<1>2. Early(s)
  BY <1>1, EarlyBefore
<1>3. CASE \E kind \in Kinds, first \in {0, 1} : Register(s, kind, first)
  <2>1. PICK kind \in Kinds, first \in {0, 1} : Register(s, kind, first)
    BY <1>3
  <2>2. /\ fwd[s].pc = "idle" /\ fwd'[s].pc = "mark"
        /\ appSent'[s] = first /\ connInfo'[s] = first
    BY <1>1, <2>1 DEF Register, RegisterSession, At, TypeInv, TypeOK, PoolTypeOK, ForwarderTypeOK
  <2>3. ASSUME NEW c \in Channels PROVE ~Writing(s, c)'
    <3>1. ~Wins(s, c)
      BY <1>1, <2>2, Won
    <3> QED BY <1>1, <2>2, <3>1, WritingMoves DEF RequestOnce
  <2>4. ASSUME NEW w \in Sockets, NEW m \in Up(w)', m.type = "TCP", m.sess = s PROVE FALSE
    <3>1. m \in Up(w)
      <4> SUFFICES ASSUME m \notin Up(w) PROVE FALSE
        OBVIOUS
      <4>1. PICK c \in Channels : Writing(s, c)
        BY <1>1, <2>4, UpHeld DEF UpWritten, WriteTCP, Writing
      <4> QED BY <1>1, <2>2, <4>1 DEF RequestOnce
    <3> QED BY <1>1, <2>2, <2>4, <3>1, InStreamInFlight DEF RequestOnce
  <2>5. ASSUME NEW w \in Sockets PROVE ~Started(s, w)'
    <3>1. ~Started(s, w)
      BY <1>1, <2>2 DEF RequestOnce
    <3>2. ~InStream(s, w)
      BY <1>1, <2>2, InStreamInFlight DEF RequestOnce, InStream
    <3> QED BY <1>1, <3>1, <3>2, StartedNews
  <2> QED BY <2>2, <2>3, <2>4, <2>5 DEF Started
<1>4. CASE appSent'[s] = appSent[s] /\ ~(\E kind \in Kinds, first \in {0, 1} : Register(s, kind, first))
  <2>1. Waiting(s)' => connInfo'[s] = appSent'[s]
    BY <1>1, <1>2, <1>4, InfoMoves DEF First, Waiting
  <2>2. ASSUME NEW c \in Channels, Writing(s, c)' PROVE handler'[c].first = appSent'[s]
    <3>1. CASE Writing(s, c) /\ handler'[c].first = handler[c].first
      BY <1>2, <1>4, <3>1 DEF First
    <3>2. CASE Wins(s, c) /\ handler'[c].first = connInfo[s]
      BY <1>1, <1>2, <1>4, <3>2, Won DEF First
    <3> QED BY <1>1, <2>2, <3>1, <3>2, WritingMoves
  <2>3. ASSUME NEW w \in Sockets, NEW m \in Up(w)', m.type = "TCP", m.sess = s
        PROVE  m.data = appSent'[s]
    <3>1. CASE m \in Up(w)
      BY <1>2, <1>4, <2>3, <3>1 DEF First
    <3>2. CASE m \notin Up(w)
      <4>1. PICK c \in Channels : WriteTCP(c) /\ m.sess = handler[c].sess /\ m.data = handler[c].first
        BY <1>1, <2>3, <3>2, UpHeld DEF UpWritten
      <4>2. Writing(s, c)
        BY <2>3, <4>1 DEF WriteTCP, Writing
      <4> QED BY <1>2, <1>4, <4>1, <4>2 DEF First
    <3> QED BY <3>1, <3>2
  <2>4. ASSUME NEW w \in Sockets, task'[w][s].pc \in {"dial", "first", "notify"}
        PROVE  task'[w][s].first = appSent'[s]
    <3>1. CASE task'[w][s] = task[w][s]
      BY <1>2, <1>4, <2>4, <3>1 DEF First
    <3>2. CASE ServeTCP(w) /\ Request(w).sess = s
      <4>1. Request(w) \in Up(w) /\ Request(w).type = "TCP"
        BY <1>1, <3>2, RequestHeld DEF ServeTCP
      <4>2. task'[w][s].first = Request(w).data
        BY <1>1, <3>2 DEF ServeTCP, TypeInv, TypeOK, ServerTypeOK
      <4> QED BY <1>2, <1>4, <3>2, <4>1, <4>2 DEF First
    <3>3. CASE /\ task'[w][s].first = task[w][s].first
               /\ DialTarget(w, s) \/ WriteFirstFrame(w, s)
      BY <1>2, <1>4, <3>3 DEF First, DialTarget, WriteFirstFrame
    <3> QED BY <1>1, <2>4, <3>1, <3>2, <3>3, TaskMoves
  <2> QED BY <1>2, <1>4, <2>1, <2>2, <2>3, <2>4 DEF First
<1>5. CASE ReadLocal(s)
  <2>1. fwd[s].pc \in Relaying
    BY <1>5 DEF ReadLocal, At, Relaying
  <2> QED BY <1>1, <1>2, <2>1 DEF RealInv, Real, Early
<1> QED BY <1>1, <1>3, <1>4, <1>5, AppSends

-----------------------------------------------------------------------------
(* A session whose request could not be written *)

Aborting(s, c) == handler[c].pc = "abort" /\ handler[c].sess = s

\* The server never hears of it.
Abandoned(s) ==
  (\E c \in Channels : Aborting(s, c)) =>
    /\ fwd[s].pc # "idle"
    /\ ~Waiting(s)
    /\ \A c \in Channels : ~Writing(s, c)
    /\ \A w \in Sockets : ~InStream(s, w) /\ ~Started(s, w)

\* The failed write that gives it up
LEMMA AbortNews ==
  ASSUME TypeInv, [Next]_vars, NEW s \in Sessions, NEW c \in Channels,
         Aborting(s, c)', ~Aborting(s, c)
  PROVE  /\ Writing(s, c) /\ \A d \in Channels \ {c} : handler'[d] = handler[d]
         /\ UNCHANGED <<toServer, connInfo, task, fwd>>
<1>1. handler'[c] # handler[c]
  BY DEF Aborting
<1>2. PoolStep /\ OfPool
  <2>1. ~ForwarderStep
    BY <1>1 DEF ForwarderStep, Register, Forward, SkipNil, MarkClaim, MarkNil, WriteClaim,
       ClaimsDone, Established, Timeout, Refuse, Drop, Reply, SendLocal, ReadLocalError,
       DeferredSendClose, DeferredShut, ReadLocal, AppHangup, poolVars
  <2> QED BY <1>1, <2>1 DEF Next, OfServer, OfNetwork, vars, poolVars
<1>3. CASE \E d \in Channels : WriteTCP(d)
  <2>1. PICK d \in Channels : WriteTCP(d)
    BY <1>3
  <2>2. PICK ok \in BOOLEAN :
          /\ ClientWrite(Current(d), Msg("TCP", handler[d].sess, handler[d].first), ok)
          /\ handler' = [handler EXCEPT ![d] = IF ok THEN Idle("read")
                                               ELSE [@ EXCEPT !.pc = "abort"]]
    BY <2>1 DEF WriteTCP
  <2>3. d = c
    BY <1>1, <2>2 DEF TypeInv, TypeOK, PoolTypeOK
  <2>4. ~ok
    BY <2>2, <2>3 DEF Aborting, Idle, TypeInv, TypeOK, PoolTypeOK
  <2>5. UNCHANGED toServer
    BY <2>2, <2>4 DEF ClientWrite, After
  <2>6. handler[c].sess = s /\ \A e \in Channels \ {c} : handler'[e] = handler[e]
    BY <2>2, <2>3, <2>4 DEF Aborting, TypeInv, TypeOK, PoolTypeOK
  <2> QED BY <1>2, <2>1, <2>3, <2>5, <2>6 DEF WriteTCP, Writing, OfPool, forwarderVars, serverVars
<1>4. CASE \E d \in Channels : WinClaim(d)
  <2>1. PICK d \in Channels :
          \E t, first : handler' = [handler EXCEPT ![d] = [pc |-> "write", sess |-> t, first |-> first]]
    BY <1>4 DEF WinClaim
  <2> QED BY <1>1, <2>1 DEF Aborting, TypeInv, TypeOK, PoolTypeOK
<1>5. CASE \E d \in Channels : Dial(d) \/ ReadError(d) \/ AbortTCP(d)
  <2>1. PICK d \in Channels, pc \in {"read", "dial"} : handler' = [handler EXCEPT ![d] = Idle(pc)]
    BY <1>5 DEF Dial, ReadError, AbortTCP
  <2> QED BY <1>1, <2>1 DEF Idle, Aborting, TypeInv, TypeOK, PoolTypeOK
<1> QED
  BY <1>1, <1>2, <1>3, <1>4, <1>5 DEF PoolStep, HandleChannel, IgnoreClaim, ReadConnected,
     ReadData, ReadDataFails, RejectData, ReadClose, RunCloser, poolVars

\* There was one request, it is gone, and no channel can win the session again.
LEMMA StepAbandoned ==
  ASSUME Inv, [Next]_vars, NEW s \in Sessions, Abandoned(s)
  PROVE  Abandoned(s)'
<1>1. TypeInv /\ RequestOnce(s)
  BY DEF Inv, OneRequest
<1> SUFFICES ASSUME NEW c \in Channels, Aborting(s, c)'
             PROVE  /\ fwd'[s].pc # "idle"
                    /\ ~Waiting(s)'
                    /\ \A d \in Channels : ~Writing(s, d)'
                    /\ \A w \in Sockets : ~InStream(s, w)' /\ ~Started(s, w)'
  BY DEF Abandoned
<1>2. CASE ~Aborting(s, c)
  <2>1. /\ Writing(s, c) /\ \A d \in Channels \ {c} : handler'[d] = handler[d]
        /\ UNCHANGED <<toServer, connInfo, task, fwd>>
    BY <1>1, <1>2, AbortNews
  <2>2. /\ fwd[s].pc # "idle" /\ ~Waiting(s)
        /\ \A d \in Channels \ {c} : ~Writing(s, d)
        /\ \A w \in Sockets : ~Started(s, w) /\ \A i \in Positions(w) : ~InFlight(s, w, i)
    BY <1>1, <2>1 DEF RequestOnce
  <2>3. \A w \in Sockets : ~InStream(s, w)
    BY <2>2, InStreamInFlight DEF InStream
  <2>4. \A w \in Sockets : ~InStream(s, w)' /\ ~Started(s, w)'
    BY <2>1, <2>2, <2>3 DEF InStream, Up, Started
  <2>5. \A d \in Channels : ~Writing(s, d)'
    BY <2>1, <2>2 DEF Writing, Aborting
  <2> QED BY <2>1, <2>2, <2>4, <2>5 DEF Waiting
<1>3. CASE Aborting(s, c)
  <2>1. /\ fwd[s].pc # "idle" /\ ~Waiting(s)
        /\ \A d \in Channels : ~Writing(s, d)
        /\ \A w \in Sockets : ~InStream(s, w) /\ ~Started(s, w)
    BY <1>3 DEF Abandoned
  <2>2. \A d \in Channels : ~Wins(s, d)
    BY <1>1, <2>1, Won
  <2>3. ~Waiting(s)'
    BY <1>1, <2>1, <2>2, StepWaits DEF Waits
  <2>4. \A d \in Channels : ~Writing(s, d)'
    BY <1>1, <2>1, <2>2, WritingMoves
  <2>5. ASSUME NEW w \in Sockets PROVE ~InStream(s, w)'
    <3> SUFFICES ASSUME NEW m \in Up(w)', m.type = "TCP", m.sess = s PROVE FALSE
      BY DEF InStream
    <3>1. m \notin Up(w)
      BY <2>1 DEF InStream
    <3>2. \E d \in Channels : Writing(s, d)
      BY <1>1, <3>1, UpHeld DEF UpWritten, WriteTCP, Writing
    <3> QED BY <2>1, <3>2
  <2>6. \A w \in Sockets : ~Started(s, w)'
    BY <1>1, <2>1, StartedNews
  <2> QED BY <1>1, <2>1, <2>3, <2>4, <2>5, <2>6, NeverIdleAgain
<1> QED BY <1>2, <1>3

-----------------------------------------------------------------------------
(* What is in a stream says how far the server is *)

\* The client sends payload once the server has told of the connection.
UpReal == \A w \in Sockets : \A m \in Up(w) : m.type = "DATA" => \E v \in Sockets : Real(m.sess, v)

\* The server says CLOSE last.
ClosedEnds == \A w \in Sockets : \A m \in Down(w) : m.type = "CLOSE" => task[w][m.sess].pc = "ended"

\* DATA is sent up for a session whose connection was announced only.
LEMMA StepUpReal ==
  ASSUME RealInv, [Next]_vars, UpReal
  PROVE  UpReal'
<1>1. Inv /\ TypeInv
  BY DEF RealInv, Inv
<1> SUFFICES ASSUME NEW w \in Sockets, NEW m \in Up(w)', m.type = "DATA"
             PROVE  \E v \in Sockets : Real(m.sess, v)'
  BY DEF UpReal
<1>2. m.sess \in Sessions
  BY <1>1, UpNews, StreamTypes DEF Messages
<1>3. PICK v \in Sockets : Real(m.sess, v)
  <2>1. CASE m \in Up(w)
    BY <2>1 DEF UpReal
  <2>2. CASE m \notin Up(w)
    <3>1. fwd[m.sess].pc \in Relaying
      BY <1>1, <2>2, UpHeld DEF UpWritten, SendLocal, At, Relaying
    <3> QED BY <1>2, <3>1 DEF RealInv
  <2> QED BY <2>1, <2>2
<1> QED BY <1>1, <1>2, <1>3, RealStays

\* The server says CLOSE of a session as its goroutine ends.
LEMMA StepClosedEnds ==
  ASSUME Inv, [Next]_vars, ClosedEnds
  PROVE  ClosedEnds'
<1>1. TypeInv
  BY DEF Inv
<1> SUFFICES ASSUME NEW w \in Sockets, NEW m \in Down(w)', m.type = "CLOSE"
             PROVE  task'[w][m.sess].pc = "ended"
  BY DEF ClosedEnds
<1>2. CASE m \in Down(w)
  <2>1. m.sess \in Sessions /\ task[w][m.sess].pc = "ended"
    BY <1>1, <1>2, StreamTypes DEF Messages, ClosedEnds
  <2> QED BY <2>1, TaskMoves DEF Started, DialTarget, WriteFirstFrame, Notify
<1>3. CASE m \notin Down(w)
  <2>1. /\ m.sess \in Sessions
        /\ \/ DialTargetFails(w, m.sess) \/ WriteFirstFrameFails(w, m.sess)
           \/ PumpReadError(w, m.sess)
    BY <1>1, <1>3, DownNews
  <2>2. SetTask(w, m.sess, "ended")
    BY <2>1 DEF DialTargetFails, WriteFirstFrameFails, PumpReadError, End
  <2> QED BY <1>1, <2>1, <2>2 DEF SetTask, TypeInv, TypeOK, ServerTypeOK
<1> QED BY <1>2, <1>3

\* The units of a target are numbered from 1.
LEMMA StepNumbered ==
  ASSUME TypeInv, [Next]_vars, Numbered
  PROVE  Numbered'
<1> SUFFICES ASSUME NEW w \in Sockets, NEW m \in Down(w)', m.type = "DATA"
             PROVE  m.data > 0
  BY DEF Numbered
<1>1. CASE m \in Down(w)
  BY <1>1 DEF Numbered
<1>2. CASE m \notin Down(w)
  <2>1. m.sess \in Sessions /\ m.data = targetSent[m.sess] + 1
    BY <1>2, DownHeld, DownNews DEF DownWritten
  <2>2. targetSent[m.sess] \in Nat
    BY <2>1, MaxDownAssumption DEF TypeInv, TypeOK, ServerTypeOK
  <2> QED BY <2>1, <2>2
<1> QED BY <1>1, <1>2

-----------------------------------------------------------------------------
(* Before the pump *)

\* A session no goroutine was started for has exchanged nothing.
Silent(s) ==
  (\A w \in Sockets : ~Started(s, w)) =>
    targetSent[s] = 0 /\ targetGot[s] = << >> /\ Received(s) = << >>

\* Until it tells the client, the goroutine writes the first frame and no more.
Untold(s, w) ==
  /\ task[w][s].pc \in {"dial", "first"} => targetGot[s] = << >>
  /\ task[w][s].pc = "first" => task[w][s].first # 0
  /\ task[w][s].pc = "notify" => Len(targetGot[s]) = appSent[s]

\* There is one goroutine for a session, on one connection.
LEMMA StartedOnce ==
  ASSUME Inv, NEW s \in Sessions, NEW w \in Sockets, NEW v \in Sockets, Started(s, w), Started(s, v)
  PROVE  v = w
BY DEF Inv, OneRequest, RequestOnce

\* Payload is delivered to a session that was told of its connection, where it
\* was started.
LEMMA ServedIsReal ==
  ASSUME Inv, UpReal, NEW s \in Sessions, NEW v \in Sockets, Dialled(s, v),
         ServeData(v), Request(v).sess = s
  PROVE  Real(s, v)
<1>1. TypeInv
  BY DEF Inv
<1>2. Request(v) \in Up(v) /\ Request(v).type = "DATA" /\ s \in conns[v]
  BY <1>1, RequestHeld DEF ServeData
<1>3. PICK u \in Sockets : Real(s, u)
  BY <1>2 DEF UpReal
<1>4. Started(s, u) /\ Started(s, v)
  BY <1>2, <1>3 DEF Real, Dialled, Running, Started
<1> QED BY <1>3, <1>4, StartedOnce

\* The first goroutine of a session starts before anything is exchanged.
LEMMA StepSilent ==
  ASSUME RoutingInv, [Next]_vars, NEW s \in Sessions, Answered(s), Numbered, UpReal, Silent(s)
  PROVE  Silent(s)'
<1>1. Inv /\ TypeInv
  BY DEF RoutingInv, Inv
<1> SUFFICES ASSUME \A w \in Sockets : ~Started(s, w)'
             PROVE  targetSent'[s] = 0 /\ targetGot'[s] = << >> /\ Received(s)' = << >>
  BY DEF Silent
<1>2. \A w \in Sockets : ~Started(s, w)
  BY <1>1, StartedStays
<1>3. targetSent'[s] = 0
  BY <1>1, <1>2, TargetSends DEF Silent, PumpData, Started
<1>4. targetGot'[s] = << >>
  <2>1. ASSUME NEW v \in Sockets, ServeData(v), Request(v).sess = s PROVE FALSE
    <3>1. Request(v) \in Up(v) /\ Request(v).type = "DATA"
      BY <1>1, <2>1, RequestHeld DEF ServeData
    <3> QED BY <1>2, <2>1, <3>1 DEF UpReal, Real, Started
  <2> QED BY <1>1, <1>2, <2>1, TargetGets DEF Silent, WriteFirstFrame, Started
<1>5. Received(s)' = << >>
  <2>1. ASSUME NEW c \in Channels, ReadData(c), Incoming(c).sess = s PROVE FALSE
    <3>1. Current(c) \in Sockets /\ Incoming(c) \in Down(Current(c)) /\ Incoming(c).type = "DATA"
      BY <1>1, <2>1, IncomingHeld DEF ReadData
    <3> QED BY <1>2, <2>1, <3>1 DEF RoutingInv, Spoken
  <2> QED BY <1>1, <1>2, <2>1, StepAnswered DEF Silent
<1> QED BY <1>3, <1>4, <1>5

\* Meanwhile neither end goes on.
LEMMA EarlyQuiet ==
  ASSUME RealInv, [Next]_vars, UpReal, NEW s \in Sessions, Early(s),
         NEW w \in Sockets, Started(s, w)
  PROVE  /\ appSent'[s] = appSent[s]
         /\ \/ targetGot'[s] = targetGot[s]
            \/ /\ WriteFirstFrame(w, s)
               /\ targetGot'[s] = Append(targetGot[s], task[w][s].first)
<1>1. Inv /\ TypeInv /\ RequestOnce(s)
  BY DEF RealInv, Inv, OneRequest
<1>2. \A v \in Sockets : ~Real(s, v)
  BY DEF Early, Real
<1>3. appSent'[s] = appSent[s]
  <2>1. fwd[s].pc \notin Relaying
    BY <1>2 DEF RealInv
  <2>2. fwd[s].pc # "idle"
    BY <1>1 DEF RequestOnce
  <2> QED BY <1>1, <2>1, <2>2, AppSends DEF Register, ReadLocal, At, Relaying
<1>4. ASSUME NEW v \in Sockets, ServeData(v), Request(v).sess = s PROVE FALSE
  <2>1. Request(v) \in Up(v) /\ Request(v).type = "DATA"
    BY <1>1, <1>4, RequestHeld DEF ServeData
  <2> QED BY <1>2, <1>4, <2>1 DEF UpReal
<1>5. ASSUME NEW v \in Sockets, WriteFirstFrame(v, s) PROVE v = w
  BY <1>1, <1>5, StartedOnce DEF WriteFirstFrame, Started
<1> QED BY <1>1, <1>3, <1>4, <1>5, TargetGets

\* From the dial to CONNECTED the target gets the first frame, once.
LEMMA StepUntold ==
  ASSUME RealInv, [Next]_vars, UpReal, NEW s \in Sessions, Silent(s), First(s),
         NEW w \in Sockets, Untold(s, w)
  PROVE  Untold(s, w)'
<1>1. Inv /\ TypeInv /\ RequestOnce(s)
  BY DEF RealInv, Inv, OneRequest
<1>2. ASSUME task[w][s].pc \in {"dial", "first", "notify"}
      PROVE  /\ Started(s, w) /\ Early(s)
             /\ appSent'[s] = appSent[s] /\ appSent[s] \in {0, 1}
             /\ task[w][s].first = appSent[s]
             /\ \/ targetGot'[s] = targetGot[s]
                \/ WriteFirstFrame(w, s) /\ targetGot'[s] = Append(targetGot[s], task[w][s].first)
  <2>1. Started(s, w)
    BY <1>2 DEF Started
  <2>2. Early(s)
    BY <1>1, <1>2, <2>1, StartedOnce DEF Early, Started
  <2> QED BY <1>2, <2>1, <2>2, EarlyQuiet DEF First
<1>3. CASE task'[w][s] = task[w][s]
  <2>1. ~WriteFirstFrame(w, s)
    BY <1>1, <1>3 DEF WriteFirstFrame, SetTask, TypeInv, TypeOK, ServerTypeOK
  <2> QED BY <1>2, <1>3, <2>1 DEF Untold
<1>4. CASE task'[w][s].pc = "dial" /\ ServeTCP(w) /\ task'[w][s] # task[w][s]
  <2>1. targetGot'[s] = << >>
    <3>1. \A v \in Sockets : ~Started(s, v)
      BY <1>1, <1>4, StepDials
    <3>2. targetGot[s] = << >> /\ UNCHANGED targetGot
      BY <1>4, <3>1 DEF Silent, ServeTCP
    <3> QED BY <3>2
  <2> QED BY <1>4, <2>1 DEF Untold
<1>5. CASE DialTarget(w, s) /\ task'[w][s].pc = AfterDial(task[w][s].first)
           /\ task'[w][s].first = task[w][s].first
  <2>1. /\ targetGot[s] = << >> /\ UNCHANGED targetGot
        /\ task[w][s].first = appSent[s] /\ appSent'[s] = appSent[s]
    BY <1>2, <1>5 DEF DialTarget, Untold
  <2>2. Len(targetGot'[s]) = 0
    BY <2>1
  <2> QED BY <1>5, <2>1, <2>2 DEF Untold, AfterDial
<1>6. CASE WriteFirstFrame(w, s) /\ task'[w][s].pc = "notify"
  <2>1. /\ targetGot[s] = << >> /\ appSent'[s] = 1 /\ task[w][s].first = 1
    BY <1>2, <1>6 DEF WriteFirstFrame, Untold
  <2>2. targetGot'[s] = Append(<< >>, 1)
    BY <1>1, <1>6, <2>1 DEF WriteFirstFrame, Deliver, TypeInv, TypeOK, ServerTypeOK
  <2>3. Len(targetGot'[s]) = 1
    BY <2>2
  <2> QED BY <1>6, <2>1, <2>3 DEF Untold
<1>7. CASE task'[w][s].pc \notin {"dial", "first", "notify"}
  BY <1>7 DEF Untold
<1> QED BY <1>1, <1>3, <1>4, <1>5, <1>6, <1>7, TaskMoves

-----------------------------------------------------------------------------
(* What a stream carries of a session *)

\* After n delivered units, of last sent ones: a stream continues where the
\* delivered ones end, as far as to the last one if its connection is open.
Carries(q, open, s, n, last) ==
  /\ n <= last
  /\ InOrder(q, s, n, last)
  /\ open => Reaches(q, Len(q), s, n, last)

\* Before the CLOSE of a session nothing is missing.
Complete(q, s, n, last) ==
  \A i \in 1 .. Len(q) : q[i].type = "CLOSE" /\ q[i].sess = s => Reaches(q, i - 1, s, n, last)

\* Reading the next unit
LEMMA CarriesRead ==
  ASSUME NEW q \in Seq(Messages), q # << >>, NEW open \in BOOLEAN, NEW s, NEW n \in Nat,
         NEW last \in Nat, Carries(q, open, s, n, last), IsUnit(q, 1, s)
  PROVE  q[1].data = n + 1 /\ n < last /\ Carries(Tail(q), open, s, n + 1, last)
<1>1. /\ Len(q) \in Nat /\ Len(q) >= 1 /\ Len(Tail(q)) = Len(q) - 1
  BY HeadTailProperties, LenProperties, EmptySeq
<1>2. q[1].data = n + 1 /\ n < last /\ InOrder(Tail(q), s, n + 1, last)
  BY OrderRead DEF Carries
<1>3. open => Reaches(Tail(q), Len(Tail(q)), s, n + 1, last)
  BY <1>1, ReachesRead DEF Carries
<1>4. n + 1 <= last
  BY <1>2
<1> QED BY <1>2, <1>3, <1>4 DEF Carries

\* Reading something else
LEMMA CarriesSkip ==
  ASSUME NEW q \in Seq(Messages), q # << >>, NEW open \in BOOLEAN, NEW s, NEW n \in Nat,
         NEW last \in Nat, Carries(q, open, s, n, last), ~IsUnit(q, 1, s)
  PROVE  Carries(Tail(q), open, s, n, last)
<1>1. /\ Len(q) \in Nat /\ Len(q) >= 1 /\ Len(Tail(q)) = Len(q) - 1
  BY HeadTailProperties, LenProperties, EmptySeq
<1>2. InOrder(Tail(q), s, n, last)
  BY OrderRead DEF Carries
<1>3. open => Reaches(Tail(q), Len(Tail(q)), s, n, last)
  BY <1>1, ReachesRead DEF Carries
<1> QED BY <1>2, <1>3 DEF Carries

\* Losing the end of the stream
LEMMA CarriesPrefix ==
  ASSUME NEW q \in Seq(Messages), NEW k \in 0 .. Len(q), NEW open, NEW s, NEW n, NEW last,
         Carries(q, open, s, n, last)
  PROVE  Carries(SubSeq(q, 1, k), FALSE, s, n, last)
BY OrderPrefix DEF Carries

\* Writing something else
LEMMA CarriesOther ==
  ASSUME NEW q \in Seq(Messages), NEW m \in Messages, NEW open \in BOOLEAN, NEW s, NEW n, NEW last,
         Carries(q, open, s, n, last), ~(m.type = "DATA" /\ m.sess = s)
  PROVE  Carries(Append(q, m), open, s, n, last)
<1>1. Len(q) \in Nat /\ Len(Append(q, m)) = Len(q) + 1
  BY AppendProperties, LenProperties
<1>2. InOrder(Append(q, m), s, n, last)
  BY OrderKept DEF Carries
<1>3. ASSUME open PROVE Reaches(Append(q, m), Len(q) + 1, s, n, last)
  <2>1. Reaches(Append(q, m), Len(q), s, n, last)
    BY <1>1, <1>3, OrderKept DEF Carries
  <2>2. \A j \in 1 .. Len(q) : j \in 1 .. Len(q) + 1
    BY <1>1
  <2> QED BY <2>1, <2>2 DEF Reaches
<1> QED BY <1>1, <1>2, <1>3 DEF Carries

\* Writing the next unit
LEMMA CarriesNext ==
  ASSUME NEW q \in Seq(Messages), NEW s, NEW n \in Nat, NEW last \in Nat,
         Carries(q, TRUE, s, n, last),
         NEW m \in Messages, m.type = "DATA", m.sess = s, m.data = last + 1
  PROVE  Carries(Append(q, m), TRUE, s, n, last + 1)
<1>1. Len(Append(q, m)) = Len(q) + 1 /\ n <= last + 1 /\ n <= last
  BY AppendProperties, LenProperties DEF Carries
<1> QED BY <1>1, OrderWritten DEF Carries

\* A unit that is not written, or lost
LEMMA CarriesLoss ==
  ASSUME NEW q \in Seq(Messages), NEW open, NEW s, NEW n \in Nat, NEW last \in Nat,
         Carries(q, open, s, n, last)
  PROVE  Carries(q, FALSE, s, n, last + 1)
<1>1. \A i \in 1 .. Len(q) : q[i].data \in Nat
  <2>1. \A i \in 1 .. Len(q) : q[i] \in Messages
    BY ElementOfSeq
  <2> QED BY <2>1 DEF Messages
<1>2. InOrder(q, s, n, last + 1)
  <2> SUFFICES ASSUME NEW i \in 1 .. Len(q), IsUnit(q, i, s), q[i].data <= last
               PROVE  q[i].data <= last + 1
    BY DEF Carries, InOrder
  <2> QED BY <1>1
<1> QED BY <1>2 DEF Carries

\* A stream without a unit of the session, when all were delivered
LEMMA CarriesNone ==
  ASSUME NEW q, NEW open, NEW s, NEW n \in Nat, \A i \in 1 .. Len(q) : ~IsUnit(q, i, s)
  PROVE  Carries(q, open, s, n, n)
BY DEF Carries, InOrder, Reaches

\* The same for CLOSE: reading,
LEMMA CompleteRead ==
  ASSUME NEW q \in Seq(Messages), q # << >>, NEW open, NEW s, NEW n \in Nat, NEW last \in Nat,
         Carries(q, open, s, n, last), Complete(q, s, n, last)
  PROVE  /\ IsUnit(q, 1, s) => Complete(Tail(q), s, n + 1, last)
         /\ ~IsUnit(q, 1, s) => Complete(Tail(q), s, n, last)
<1>1. /\ Len(q) \in Nat /\ Len(q) >= 1 /\ Len(Tail(q)) = Len(q) - 1
      /\ \A i \in 1 .. Len(q) - 1 : Tail(q)[i] = q[i + 1]
  BY HeadTailProperties, LenProperties, EmptySeq
<1>2. ASSUME NEW i \in 1 .. Len(Tail(q)), Tail(q)[i].type = "CLOSE", Tail(q)[i].sess = s
      PROVE  /\ IsUnit(q, 1, s) => Reaches(Tail(q), i - 1, s, n + 1, last)
             /\ ~IsUnit(q, 1, s) => Reaches(Tail(q), i - 1, s, n, last)
  <2>1. i + 1 \in 1 .. Len(q) /\ i \in 1 .. Len(q) /\ (i + 1) - 1 = i
    BY <1>1
  <2>2. q[i + 1].type = "CLOSE" /\ q[i + 1].sess = s
    BY <1>1, <1>2
  <2>3. Reaches(q, i, s, n, last)
    BY <2>1, <2>2 DEF Complete
  <2> QED BY <2>1, <2>3, ReachesRead DEF Carries
<1> QED BY <1>2 DEF Complete

\* losing the end,
LEMMA CompletePrefix ==
  ASSUME NEW q \in Seq(Messages), NEW k \in 0 .. Len(q), NEW s, NEW n, NEW last,
         Complete(q, s, n, last)
  PROVE  Complete(SubSeq(q, 1, k), s, n, last)
<1>1. /\ Len(q) \in Nat /\ Len(SubSeq(q, 1, k)) = k
      /\ \A i \in 1 .. k : SubSeq(q, 1, k)[i] = q[i]
  BY SubSeqProperties, LenProperties, ElementOfSeq
<1>2. \A i \in 1 .. k : i \in 1 .. Len(q) /\ i - 1 \in 0 .. k
  BY <1>1
<1> QED BY <1>1, <1>2, OrderPrefix DEF Complete

\* and writing, which needs a whole stream for the CLOSE itself.
LEMMA CompleteWritten ==
  ASSUME NEW q \in Seq(Messages), NEW m \in Messages, NEW s, NEW n, NEW last,
         Complete(q, s, n, last), Reaches(q, Len(q), s, n, last)
  PROVE  Complete(Append(q, m), s, n, last)
<1>1. /\ Len(q) \in Nat /\ Len(Append(q, m)) = Len(q) + 1
      /\ \A i \in 1 .. Len(q) : Append(q, m)[i] = q[i]
  BY AppendProperties, LenProperties
<1> SUFFICES ASSUME NEW i \in 1 .. Len(q) + 1,
                    Append(q, m)[i].type = "CLOSE", Append(q, m)[i].sess = s
             PROVE  Reaches(Append(q, m), i - 1, s, n, last)
  BY <1>1 DEF Complete
<1>2. CASE i \in 1 .. Len(q)
  <2>1. i - 1 \in 0 .. Len(q)
    BY <1>1, <1>2
  <2> QED BY <1>1, <1>2, <2>1, OrderKept DEF Complete
<1>3. CASE i = Len(q) + 1
  <2>1. i - 1 = Len(q) /\ Len(q) \in 0 .. Len(q)
    BY <1>1, <1>3
  <2> QED BY <2>1, OrderKept
<1>4. i \in 1 .. Len(q) \/ i = Len(q) + 1
  BY <1>1
<1> QED BY <1>2, <1>3, <1>4

-----------------------------------------------------------------------------
(* The stream to a client *)

\* A session enters tcpMap when it registers.
LEMMA Registered ==
  ASSUME TypeInv, [Next]_vars, NEW s \in Sessions, s \in tcpMap', s \notin tcpMap
  PROVE  \E kind \in Kinds, first \in {0, 1} : Register(s, kind, first) /\ OfForwarder
<1>1. ~PoolStep
  BY PoolCloses
<1>2. CASE ForwarderStep /\ OfForwarder
  <2>1. PICK t \in Sessions, kind \in Kinds, first \in {0, 1} : Register(t, kind, first)
    BY <1>2 DEF ForwarderStep, Forward, SkipNil, MarkClaim, MarkNil, WriteClaim,
       ClaimsDone, Established, Timeout, Refuse, Drop, Reply, SendLocal, ReadLocalError,
       DeferredSendClose, DeferredShut, ReadLocal, AppHangup, poolVars
  <2>2. t = s
    BY <2>1 DEF Register, RegisterSession
  <2> QED BY <1>2, <2>1, <2>2
<1> QED BY <1>1, <1>2 DEF Next, OfServer, OfNetwork, vars, poolVars

\* A unit that the client reads is written to the app, or its session goes.
LEMMA UnitRead ==
  ASSUME TypeInv, NEW c \in Channels, HandleChannel(c), NEW s \in Sessions, s \in tcpMap',
         toClient[Current(c)] \in Seq(Messages), toClient[Current(c)] # << >>,
         toClient'[Current(c)] = Tail(toClient[Current(c)]),
         IsUnit(toClient[Current(c)], 1, s)
  PROVE  ReadData(c) /\ Incoming(c).sess = s
<1> DEFINE q == toClient[Current(c)]
<1>1. q # Tail(q)
  <2>1. Len(q) \in Nat /\ Len(Tail(q)) = Len(q) - 1
    BY HeadTailProperties, LenProperties
  <2>2. \A k \in Nat : k - 1 # k
    OBVIOUS
  <2> QED BY <2>1, <2>2
<1>2. Head(q).type = "DATA" /\ Incoming(c).sess = s
  BY DEF IsUnit, Incoming
<1>3. ~ReadError(c) /\ ~WriteTCP(c) /\ ~AbortTCP(c)
  BY <1>1 DEF ReadError, WriteTCP, AbortTCP, ClientWrite, wireVars
<1>4. ~WinClaim(c) /\ ~IgnoreClaim(c) /\ ~ReadConnected(c) /\ ~ReadClose(c)
  BY <1>2 DEF WinClaim, IgnoreClaim, ReadConnected, ReadClose, Reads
<1>5. ~ReadDataFails(c) /\ ~RejectData(c)
  BY <1>2 DEF ReadDataFails, RejectData
<1> QED BY <1>2, <1>3, <1>4, <1>5 DEF HandleChannel

\* It is appended to what the app has received.
LEMMA ReadDataGrows ==
  ASSUME TypeInv, NEW s \in Sessions, Answered(s), Numbered,
         NEW c \in Channels, ReadData(c), Incoming(c).sess = s
  PROVE  /\ Received(s)' = Append(Received(s), Incoming(c).data)
         /\ Len(Received(s)') = Len(Received(s)) + 1
<1>1. appGot[s] \in Answers /\ OneReply(appGot[s])
  BY DEF TypeInv, TypeOK, PoolTypeOK, Answers, Answered
<1>2. appGot'[s] = Append(appGot[s], Incoming(c).data)
  <2>1. appGot' = [appGot EXCEPT ![s] = Append(@, Incoming(c).data)]
    BY DEF ReadData, Receive
  <2> HIDE DEF Incoming
  <2> QED BY <2>1 DEF TypeInv, TypeOK, PoolTypeOK
<1>3. Incoming(c).data \in Nat /\ Incoming(c).data > 0
  <2>1. Current(c) \in Sockets /\ Incoming(c) \in Down(Current(c)) /\ Incoming(c).type = "DATA"
    BY IncomingHeld DEF ReadData
  <2> QED BY <2>1, StreamTypes DEF Numbered, Messages
<1>4. Received(s)' = Append(Received(s), Incoming(c).data)
  BY <1>1, <1>2, <1>3, PayloadUnit DEF Received
<1>5. Received(s) \in Answers
  BY ReceivedType
<1> HIDE DEF Incoming, Received
<1>6. Len(Append(Received(s), Incoming(c).data)) = Len(Received(s)) + 1
  BY <1>3, <1>5, AppendProperties DEF Answers
<1> QED BY <1>4, <1>6

\* While the client knows a session, the stream from its goroutine continues
\* what the app has received; nothing is missing while the connection is open,
\* nor ever before the CLOSE of the session.
DownOrder(s, w) ==
  s \in tcpMap /\ Started(s, w) =>
    /\ Carries(toClient[w], link[w] = "open", s, Len(Received(s)), targetSent[s])
    /\ Complete(toClient[w], s, Len(Received(s)), targetSent[s])

\* A goroutine that starts has sent nothing.
LEMMA DownOrderStarts ==
  ASSUME RoutingInv, [Next]_vars, NEW s \in Sessions, NEW w \in Sockets,
         Answered(s), Numbered, Silent(s), ~Started(s, w), Started(s, w)'
  PROVE  DownOrder(s, w)'
<1>1. Inv /\ TypeInv
  BY DEF RoutingInv, Inv
<1>2. ServeTCP(w) /\ Request(w).sess = s
  BY <1>1, StartedNews
<1>3. \A v \in Sockets : ~Started(s, v)
  <2>1. task'[w][s] # task[w][s] /\ task'[w][s].pc = "dial"
    BY <1>1, TaskMoves DEF Started
  <2> QED BY <1>1, <2>1, StepDials
<1>4. targetSent'[s] = 0 /\ toClient'[w] = toClient[w]
  BY <1>2, <1>3 DEF Silent, ServeTCP, ConsumeRequest
<1>5. Received(s)' = << >>
  <2>1. ASSUME NEW c \in Channels, ReadData(c), Incoming(c).sess = s PROVE FALSE
    <3>1. Current(c) \in Sockets /\ Incoming(c) \in Down(Current(c)) /\ Incoming(c).type = "DATA"
      BY <1>1, <2>1, IncomingHeld DEF ReadData
    <3> QED BY <1>3, <2>1, <3>1 DEF RoutingInv, Spoken
  <2> QED BY <1>1, <1>3, <2>1, StepAnswered DEF Silent
<1>6. \A i \in 1 .. Len(toClient[w]) : toClient[w][i].sess = s => toClient[w][i].type = "CLAIM_ACK"
  BY <1>3 DEF RoutingInv, Spoken, Down, Held
<1>7. \A i \in 1 .. Len(toClient'[w]) : toClient'[w][i].sess = s => toClient'[w][i].type = "CLAIM_ACK"
  BY <1>4, <1>6
<1>8. Len(Received(s)') = 0
  BY <1>5
<1>9. Carries(toClient'[w], link'[w] = "open", s, 0, 0)
  BY <1>7, CarriesNone DEF IsUnit
<1>10. Complete(toClient'[w], s, 0, 0)
  BY <1>7 DEF Complete
<1> QED BY <1>4, <1>8, <1>9, <1>10 DEF DownOrder

\* A connection that was started on is not dialled again.
LEMMA StaysShut ==
  ASSUME TypeInv, [Next]_vars, NEW s \in Sessions, NEW w \in Sockets,
         LinkOk(w), Started(s, w), link'[w] = "open"
  PROVE  link[w] = "open"
<1>1. link[w] # "none"
  BY DEF LinkOk
<1>2. ASSUME NEW c \in Channels, w = <<c, wsConns[c] + 1>> PROVE FALSE
  <2>1. w[1] = c /\ w[2] = wsConns[c] + 1 /\ wsConns[c] \in Nat
    BY <1>2 DEF TypeInv, TypeOK, PoolTypeOK
  <2>2. w[2] > wsConns[w[1]]
    BY <2>1
  <2> QED BY <1>1, <2>2 DEF LinkOk
<1> QED BY <1>2, LinkMoves

\* Reading a unit of the session
LEMMA DownOrderRead ==
  ASSUME RoutingInv, [Next]_vars, NEW s \in Sessions, NEW w \in Sockets,
         Answered(s), Numbered, s \in tcpMap, Started(s, w), DownOrder(s, w),
         NEW c \in Channels, ReadData(c), OfPool, Incoming(c).sess = s
  PROVE  /\ DownOrder(s, w)'
         /\ Incoming(c).data = Len(Received(s)) + 1
         /\ Len(Received(s)) < targetSent[s]
<1>1. Inv /\ TypeInv
  BY DEF RoutingInv, Inv
<1>2. Current(c) = w
  <2>1. Current(c) \in Sockets /\ Incoming(c) \in Down(Current(c)) /\ Incoming(c).type = "DATA"
    BY <1>1, IncomingHeld DEF ReadData
  <2>2. Started(s, Current(c))
    BY <2>1 DEF RoutingInv, Spoken
  <2> QED BY <1>1, <2>1, <2>2, StartedOnce
<1> DEFINE q == toClient[w]
           n == Len(Received(s))
           last == targetSent[s]
<1>3. /\ q \in Seq(Messages) /\ q # << >>
      /\ n \in Nat /\ last \in Nat
      /\ Carries(q, link[w] = "open", s, n, last) /\ Complete(q, s, n, last)
  <2>1. q # << >>
    BY <1>2 DEF ReadData, Reads
  <2>2. n \in Nat
    BY <1>1, ReceivedType
  <2>3. last \in Nat
    BY <1>1, MaxDownAssumption DEF TypeInv, TypeOK, ServerTypeOK
  <2>4. q \in Seq(Messages)
    BY <1>1, StreamTypes DEF Queues
  <2> QED BY <2>1, <2>2, <2>3, <2>4 DEF DownOrder
<1>4. IsUnit(q, 1, s) /\ Incoming(c) = q[1]
  BY <1>2 DEF ReadData, Reads, Incoming, IsUnit
<1>5. /\ toClient'[w] = Tail(q) /\ link'[w] = link[w]
      /\ targetSent'[s] = last
  <2>1. toClient' = [toClient EXCEPT ![w] = Tail(@)] /\ UNCHANGED <<link, targetSent>>
    BY <1>2 DEF ReadData, Consume, OfPool, serverVars
  <2> QED BY <1>1, <2>1, StreamTypes DEF Queues
<1>6. Len(Received(s)') = n + 1
  BY <1>1, ReadDataGrows
<1> HIDE DEF q, n, last
<1>7. q[1].data = n + 1 /\ n < last /\ Carries(Tail(q), link[w] = "open", s, n + 1, last)
  BY <1>3, <1>4, CarriesRead
<1>8. Complete(Tail(q), s, n + 1, last)
  BY <1>3, <1>4, CompleteRead
<1>9. DownOrder(s, w)'
  BY <1>5, <1>6, <1>7, <1>8 DEF DownOrder
<1> QED BY <1>4, <1>7, <1>9 DEF n, last

\* The pump reads a unit of the target, and writes it or loses its connection.
LEMMA DownOrderPumped ==
  ASSUME RoutingInv, [Next]_vars, NEW s \in Sessions, NEW w \in Sockets,
         s \in tcpMap, Answered(s), ClosedEnds, DownOrder(s, w),
         PumpData(w, s), OfServer, targetSent'[s] = targetSent[s] + 1
  PROVE  DownOrder(s, w)'
<1>1. Inv /\ TypeInv
  BY DEF RoutingInv, Inv
<1> DEFINE q == toClient[w]
           n == Len(Received(s))
           last == targetSent[s]
           m == Msg("DATA", s, targetSent[s] + 1)
<1>2. /\ q \in Seq(Messages)
      /\ n \in Nat /\ last \in Nat /\ last + 1 \in Nat
      /\ m \in Messages /\ m.type = "DATA" /\ m.sess = s /\ m.data = last + 1
      /\ Carries(q, link[w] = "open", s, n, last)
  <2>1. q \in Seq(Messages)
    BY <1>1, StreamTypes DEF Queues
  <2>2. n \in Nat
    BY <1>1, ReceivedType
  <2>3. last \in Nat
    BY <1>1, MaxDownAssumption DEF TypeInv, TypeOK, ServerTypeOK
  <2>4. last + 1 \in Nat
    BY <2>3
  <2>5. m \in Messages /\ m.type = "DATA" /\ m.sess = s /\ m.data = last + 1
    BY <2>4 DEF Msg, Messages, Types
  <2>6. Started(s, w)
    BY DEF PumpData, Started
  <2> QED BY <2>1, <2>2, <2>3, <2>4, <2>5, <2>6 DEF DownOrder
<1>3. \A i \in 1 .. Len(q) : ~(q[i].type = "CLOSE" /\ q[i].sess = s)
  BY DEF PumpData, ClosedEnds, Down, Held
<1>4. PICK ok \in BOOLEAN : ServerWrite(w, m, ok)
  BY DEF PumpData
<1>5. \/ link[w] = "open" /\ toClient'[w] = Append(q, m)
      \/ link[w] # "open" /\ toClient'[w] = q
  <2>1. toClient' = After(toClient, w, m, ok) /\ (ok \/ link[w] # "open")
    BY <1>4 DEF ServerWrite, MayReturn
  <2> HIDE DEF m
  <2> QED BY <1>1, <2>1, StreamTypes DEF After, Queues
<1>6. link' = link
  BY <1>4 DEF ServerWrite
<1>7. Len(Received(s)') = n
  BY DEF Received, OfServer, poolVars
<1>8. targetSent'[s] = last + 1
  OBVIOUS
<1> HIDE DEF q, n, last, m
<1>9. CASE link[w] = "open" /\ toClient'[w] = Append(q, m)
  <2>1. Carries(Append(q, m), TRUE, s, n, last + 1)
    BY <1>2, <1>9, CarriesNext
  <2>2. Complete(Append(q, m), s, n, last + 1)
    <3>1. /\ Len(Append(q, m)) = Len(q) + 1 /\ Len(q) \in Nat
          /\ \A i \in 1 .. Len(q) : Append(q, m)[i] = q[i]
          /\ Append(q, m)[Len(q) + 1] = m
      BY <1>2, AppendProperties, LenProperties
    <3>2. \A i \in 1 .. Len(q) + 1 : i \in 1 .. Len(q) \/ i = Len(q) + 1
      BY <3>1
    <3> QED BY <1>2, <1>3, <3>1, <3>2 DEF Complete, q
  <2> QED BY <1>6, <1>7, <1>8, <1>9, <2>1, <2>2 DEF DownOrder
<1>10. CASE link[w] # "open" /\ toClient'[w] = q
  <2>1. Carries(q, FALSE, s, n, last + 1)
    BY <1>2, CarriesLoss
  <2>2. Complete(q, s, n, last + 1)
    BY <1>3 DEF Complete, q
  <2>3. (link'[w] = "open") = FALSE
    BY <1>6, <1>10
  <2> QED BY <1>6, <1>7, <1>8, <1>10, <2>1, <2>2, <2>3 DEF DownOrder
<1> QED BY <1>5, <1>9, <1>10

\* Every other step leaves the two ends alone.
LEMMA DownOrderKept ==
  ASSUME RoutingInv, [Next]_vars, NEW s \in Sessions, NEW w \in Sockets,
         Answered(s), Numbered, LinkOk(w), s \in tcpMap, s \in tcpMap', Started(s, w), DownOrder(s, w),
         Received(s)' = Received(s), targetSent'[s] = targetSent[s]
  PROVE  DownOrder(s, w)'
<1>1. Inv /\ TypeInv
  BY DEF RoutingInv, Inv
<1> DEFINE q == toClient[w]
           n == Len(Received(s))
           last == targetSent[s]
           open == link[w] = "open"
<1>2. /\ q \in Seq(Messages)
      /\ n \in Nat /\ last \in Nat /\ open \in BOOLEAN
      /\ Carries(q, open, s, n, last) /\ Complete(q, s, n, last)
  <2>1. q \in Seq(Messages)
    BY <1>1, StreamTypes DEF Queues
  <2>2. n \in Nat
    BY <1>1, ReceivedType
  <2>3. last \in Nat
    BY <1>1, MaxDownAssumption DEF TypeInv, TypeOK, ServerTypeOK
  <2> QED BY <2>1, <2>2, <2>3 DEF DownOrder
<1>3. Len(Received(s)') = n /\ targetSent'[s] = last
  OBVIOUS
<1> SUFFICES /\ Carries(toClient'[w], link'[w] = "open", s, n, last)
             /\ Complete(toClient'[w], s, n, last)
  BY <1>3 DEF DownOrder
<1>4. link'[w] = "open" => open
  BY <1>1, StaysShut
<1> HIDE DEF n, last
<1>5. CASE toClient'[w] = q
  BY <1>2, <1>4, <1>5 DEF Carries
<1>6. CASE \E c \in Channels : /\ HandleChannel(c) /\ OfPool /\ w = Current(c) /\ q # << >>
                               /\ UNCHANGED link /\ toClient'[w] = Tail(q)
  <2>1. PICK c \in Channels : /\ HandleChannel(c) /\ OfPool /\ w = Current(c) /\ q # << >>
                              /\ UNCHANGED link /\ toClient'[w] = Tail(q)
    BY <1>6
  <2>2. ~IsUnit(q, 1, s)
    <3> SUFFICES ASSUME IsUnit(q, 1, s) PROVE FALSE
      OBVIOUS
    <3>1. ReadData(c) /\ Incoming(c).sess = s
      BY <1>1, <1>2, <2>1, UnitRead
    <3>2. Len(Received(s)') = n + 1
      BY <1>1, <3>1, ReadDataGrows DEF n
    <3> QED BY <1>2, <1>3, <3>2
  <2>3. (link'[w] = "open") = open
    BY <2>1
  <2> HIDE DEF q, open
  <2>4. Carries(Tail(q), open, s, n, last) /\ Complete(Tail(q), s, n, last)
    BY <1>2, <2>1, <2>2, CarriesSkip, CompleteRead
  <2> QED BY <2>1, <2>3, <2>4
<1>7. CASE \E m \in Messages : DownWritten(w, m)
  <2>1. PICK m \in Messages : DownWritten(w, m)
    BY <1>7
  <2>2. link[w] = "open" /\ link' = link /\ toClient'[w] = Append(q, m)
    BY <2>1 DEF DownWritten
  <2>3. ~(m.type = "DATA" /\ m.sess = s)
    <3> SUFFICES ASSUME PumpData(w, s) PROVE FALSE
      BY <2>1 DEF DownWritten
    <3>1. targetSent'[s] = last + 1
      BY <1>1 DEF PumpData, last, TypeInv, TypeOK, ServerTypeOK
    <3> QED BY <1>2, <1>3, <3>1
  <2>4. Carries(q, TRUE, s, n, last) /\ Reaches(q, Len(q), s, n, last)
    BY <1>2, <2>2 DEF Carries
  <2> HIDE DEF q, open
  <2>5. Carries(Append(q, m), TRUE, s, n, last)
    BY <1>2, <2>3, <2>4, CarriesOther
  <2>6. Complete(Append(q, m), s, n, last)
    BY <1>2, <2>4, CompleteWritten
  <2> QED BY <2>2, <2>5, <2>6
<1>8. CASE Break(w) /\ \E k \in 0 .. Len(q) : toClient'[w] = SubSeq(q, 1, k)
  <2>1. PICK k \in 0 .. Len(q) : toClient'[w] = SubSeq(q, 1, k)
    BY <1>8
  <2>2. link'[w] # "open"
    BY <1>1, <1>8 DEF Break, TypeInv, TypeOK, WireTypeOK
  <2> HIDE DEF q, open
  <2>3. Carries(SubSeq(q, 1, k), FALSE, s, n, last) /\ Complete(SubSeq(q, 1, k), s, n, last)
    BY <1>2, CarriesPrefix, CompletePrefix
  <2>4. (link'[w] = "open") = FALSE
    BY <2>2
  <2> QED BY <2>1, <2>3, <2>4
<1> QED BY <1>1, <1>5, <1>6, <1>7, <1>8, DownMoves

\* Every step, then.
LEMMA StepDownOrder ==
  ASSUME RoutingInv, [Next]_vars, NEW s \in Sessions, NEW w \in Sockets,
         Opened(s), Answered(s), Numbered, Silent(s), ClosedEnds, LinkOk(w), DownOrder(s, w)
  PROVE  DownOrder(s, w)'
<1>1. Inv /\ TypeInv
  BY DEF RoutingInv, Inv
<1> SUFFICES ASSUME s \in tcpMap', Started(s, w)'
             PROVE  DownOrder(s, w)'
  BY DEF DownOrder
<1>2. CASE ~Started(s, w)
  BY <1>2, DownOrderStarts
<1>3. CASE Started(s, w) /\ s \notin tcpMap
  <2>1. fwd[s].pc = "idle"
    BY <1>1, <1>3, Registered DEF Register, At
  <2> QED BY <1>1, <1>3, <2>1 DEF Inv, OneRequest, RequestOnce
<1>4. CASE Started(s, w) /\ s \in tcpMap
  <2>1. CASE \E c \in Channels : /\ ReadData(c) /\ OfPool /\ Incoming(c).sess = s
                                 /\ Received(s)' = Append(Received(s), Incoming(c).data)
    BY <1>4, <2>1, DownOrderRead
  <2>2. CASE \E v \in Sockets : /\ PumpData(v, s) /\ OfServer
                                /\ targetSent'[s] = targetSent[s] + 1
    <3>1. PICK v \in Sockets : /\ PumpData(v, s) /\ OfServer
                               /\ targetSent'[s] = targetSent[s] + 1
      BY <2>2
    <3>2. v = w
      BY <1>1, <1>4, <3>1, StartedOnce DEF PumpData, Started
    <3> QED BY <1>4, <3>1, <3>2, DownOrderPumped
  <2>3. CASE Received(s)' = Received(s) /\ targetSent'[s] = targetSent[s]
    BY <1>4, <2>3, DownOrderKept
  <2> QED BY <1>1, <2>1, <2>2, <2>3, StepAnswered, TargetSends
<1> QED BY <1>2, <1>3, <1>4

-----------------------------------------------------------------------------
(* The stream to the server *)

\* The goroutine of a session will send no more payload.
Over == {"refuse", "drop", "close", "shut", "done"}

\* What it has handed to SendData; in "send" it holds one unit more.
Offered(s) == IF fwd[s].pc = "send" THEN appSent[s] - 1 ELSE appSent[s]

\* Only SendLocal changes that.
LEMMA OfferMoves ==
  ASSUME TypeInv, [Next]_vars, NEW s \in Sessions, fwd[s].pc # "idle"
  PROVE  \/ SendLocal(s) /\ OfForwarder /\ Offered(s)' = Offered(s) + 1
         \/ /\ Offered(s)' = Offered(s)
            /\ fwd[s].pc \in Over => fwd'[s].pc \in Over
<1>1. appSent[s] \in Nat
  BY MaxUpAssumption DEF TypeInv, TypeOK, ForwarderTypeOK
<1>2. CASE UNCHANGED fwd /\ UNCHANGED appSent
  BY <1>2 DEF Offered
<1>3. CASE ForwarderStep /\ OfForwarder
  <2>1. PICK t \in Sessions :
          \/ \E kind \in Kinds, first \in {0, 1} : Register(t, kind, first)
          \/ Forward(t) \/ ReadLocal(t) \/ AppHangup(t)
    BY <1>3 DEF ForwarderStep
  <2>2. CASE t # s
    <3>1. fwd'[s] = fwd[s] /\ appSent'[s] = appSent[s]
      BY <2>1, <2>2 DEF Register, Forward, SkipNil, MarkClaim, MarkNil, WriteClaim, ClaimsDone,
         Established, Timeout, Refuse, Drop, Reply, SendLocal, ReadLocalError, DeferredSendClose,
         DeferredShut, ReadLocal, AppHangup, Goto, forwarderVars, TypeInv, TypeOK, ForwarderTypeOK
    <3> QED BY <3>1 DEF Offered
  <2>3. CASE t = s /\ SendLocal(s)
    <3>1. /\ fwd[s].pc = "send" /\ appSent' = appSent
          /\ Goto(s, "relay") \/ Goto(s, "close")
      BY <2>3 DEF SendLocal, AfterSend, At
    <3>2. fwd'[s].pc # "send"
      BY <3>1 DEF Goto, TypeInv, TypeOK, ForwarderTypeOK
    <3> QED BY <1>1, <1>3, <2>3, <3>1, <3>2 DEF Offered
  <2>4. CASE t = s /\ ReadLocal(s)
    <3>1. /\ fwd[s].pc = "relay" /\ fwd'[s].pc = "send"
          /\ appSent'[s] = appSent[s] + 1
      BY <2>4 DEF ReadLocal, Goto, At, TypeInv, TypeOK, ForwarderTypeOK
    <3> QED BY <1>1, <3>1 DEF Offered, Over
  <2>5. CASE t = s /\ Forward(s) /\ ~SendLocal(s)
    <3>1. UNCHANGED appSent
      BY <2>5 DEF Forward, SkipNil, MarkClaim, MarkNil, WriteClaim, ClaimsDone, Established,
         Timeout, Refuse, Drop, Reply, ReadLocalError, DeferredSendClose, DeferredShut, forwarderVars
    <3>2. CASE SkipNil(s) \/ MarkClaim(s) \/ WriteClaim(s)
      <4>1. fwd[s].pc \in {"mark", "claim"} /\ fwd'[s].pc \in {"mark", "claim"}
        BY <3>2 DEF SkipNil, MarkClaim, WriteClaim, At, TypeInv, TypeOK, ForwarderTypeOK
      <4> QED BY <3>1, <4>1 DEF Offered, Over
    <3>3. CASE MarkNil(s)
      BY <3>1, <3>3 DEF MarkNil, forwarderVars, Offered
    <3>4. CASE ClaimsDone(s) \/ Established(s) \/ Timeout(s) \/ Refuse(s) \/ Drop(s) \/ Reply(s)
               \/ ReadLocalError(s) \/ DeferredSendClose(s) \/ DeferredShut(s)
      <4>1. /\ fwd[s].pc # "send"
            /\ \E pc \in ForwarderStates \ {"send"} : /\ Goto(s, pc)
                                                      /\ fwd[s].pc \in Over => pc \in Over
        <5>1. CASE ClaimsDone(s)
          BY <5>1 DEF ClaimsDone, At, ForwarderStates, Over
        <5>2. CASE Established(s)
          BY <5>2 DEF Established, At, ForwarderStates, Over
        <5>3. CASE Timeout(s)
          BY <5>3 DEF Timeout, At, ForwarderStates, Over
        <5>4. CASE Refuse(s) \/ Drop(s)
          BY <5>4 DEF Refuse, Drop, At, ForwarderStates, Over
        <5>5. CASE Reply(s)
          BY <5>5 DEF Reply, At, ForwarderStates, Over
        <5>6. CASE ReadLocalError(s) \/ DeferredSendClose(s) \/ DeferredShut(s)
          BY <5>6 DEF ReadLocalError, DeferredSendClose, DeferredShut, At, ForwarderStates, Over
        <5> QED BY <3>4, <5>1, <5>2, <5>3, <5>4, <5>5, <5>6
      <4>2. PICK pc \in ForwarderStates \ {"send"} : Goto(s, pc) /\ (fwd[s].pc \in Over => pc \in Over)
        BY <4>1
      <4>3. fwd'[s].pc = pc
        BY <4>2 DEF Goto, TypeInv, TypeOK, ForwarderTypeOK
      <4> QED BY <3>1, <4>1, <4>2, <4>3 DEF Offered
    <3> QED BY <2>5, <3>2, <3>3, <3>4 DEF Forward
  <2>6. CASE t = s /\ \E kind \in Kinds, first \in {0, 1} : Register(s, kind, first)
    BY <2>6 DEF Register, At
  <2>7. CASE AppHangup(t)
    BY <1>2, <2>7 DEF AppHangup, forwarderVars
  <2> QED BY <2>1, <2>2, <2>3, <2>4, <2>5, <2>6, <2>7
<1> QED BY <1>2, <1>3 DEF Next, OfPool, OfServer, OfNetwork, vars, forwarderVars

\* A unit that the server reads is written to the target, or that fails.
LEMMA UnitServed ==
  ASSUME TypeInv, NEW w \in Sockets, HandleWebSocket(w), NEW s \in Sessions, s \in conns[w],
         tconn[w][s] \in {"open", "eof"}, tconn'[w][s] \in {"open", "eof"},
         toServer[w] \in Seq(Messages), toServer[w] # << >>,
         toServer'[w] = Tail(toServer[w]),
         IsUnit(toServer[w], 1, s)
  PROVE  ServeData(w) /\ Request(w).sess = s
<1> DEFINE q == toServer[w]
<1>1. q # Tail(q)
  <2>1. Len(q) \in Nat /\ Len(Tail(q)) = Len(q) - 1
    BY HeadTailProperties, LenProperties
  <2>2. \A k \in Nat : k - 1 # k
    OBVIOUS
  <2> QED BY <2>1, <2>2
<1>2. Head(q).type = "DATA" /\ Request(w).sess = s
  BY DEF IsUnit, Request
<1>3. ~Cleanup(w)
  BY <1>1 DEF Cleanup
<1>4. ~ServeClaim(w) /\ ~ServeTCP(w) /\ ~ServeClose(w)
  BY <1>2 DEF ServeClaim, ServeTCP, ServeClose, Serves
<1>5. ~DropData(w)
  BY <1>2 DEF DropData
<1>6. ~ServeDataFails(w)
  <2> SUFFICES ASSUME ServeDataFails(w) PROVE FALSE
    OBVIOUS
  <2>1. /\ tconn[w][s] \in {"eof", "reset", "closed"}
        /\ tconn' = [tconn EXCEPT ![w][s] = IF @ = "eof" THEN "reset" ELSE @]
    BY <1>2 DEF ServeDataFails, CanFail
  <2>2. tconn[w][s] = "eof"
    BY <2>1
  <2> QED BY <2>1, <2>2 DEF TypeInv, TypeOK, ServerTypeOK
<1> QED BY <1>2, <1>3, <1>4, <1>5, <1>6 DEF HandleWebSocket

\* The server relays payload to the target of a session.
Pumping(s, w) ==
  task[w][s].pc = "pump" /\ s \in conns[w] /\ tconn[w][s] \in {"open", "eof"}

\* Then the stream from the client continues what the target has got, and what
\* the session has handed to SendData is in it unless the connection is broken
\* or the session is over.
UpOrder(s, w) ==
  Pumping(s, w) =>
    Carries(toServer[w], link[w] = "open" /\ fwd[s].pc \notin Over, s,
            Len(targetGot[s]), Offered(s))

\* It begins when the goroutine tells the client.
LEMMA PumpingNews ==
  ASSUME Inv, [Next]_vars, NEW s \in Sessions, NEW w \in Sockets,
         Pumping(s, w)', ~Pumping(s, w)
  PROVE  Notify(w, s) /\ OfServer
<1>1. TypeInv
  BY DEF Inv
<1>2. CASE task'[w][s] = task[w][s]
  <2>1. ~Dialling(s, w)
    BY <1>2 DEF Dialling, DialTarget, Pumping
  <2>2. ~Ending(s, w) /\ ~Closing(s, w)
    BY DEF Ending, Closing, Pumping
  <2> QED BY <1>1, <1>2, <2>1, <2>2, TargetTouched DEF Untouched, HangingUp, Pumping
<1>3. CASE task'[w][s] # task[w][s]
  <2>1. Notify(w, s)
    BY <1>3, TaskMoves DEF AfterDial, Pumping
  <2>2. OfServer
    BY <1>3 DEF Next, OfPool, OfForwarder, OfNetwork, vars, serverVars
  <2> QED BY <2>1, <2>2
<1> QED BY <1>2, <1>3

\* Nothing is on its way then.
LEMMA UpOrderStarts ==
  ASSUME RealInv, [Next]_vars, UpReal, NEW s \in Sessions, NEW w \in Sockets,
         Untold(s, w), Notify(w, s), OfServer
  PROVE  UpOrder(s, w)'
<1>1. Inv /\ TypeInv
  BY DEF RealInv, Inv
<1>2. task[w][s].pc = "notify" /\ Started(s, w)
  BY DEF Notify, Started
<1>3. \A v \in Sockets : ~Real(s, v)
  <2> SUFFICES ASSUME NEW v \in Sockets, Real(s, v) PROVE FALSE
    OBVIOUS
  <2>1. Started(s, v)
    BY DEF Real, Started
  <2>2. v = w
    BY <1>1, <1>2, <2>1, StartedOnce
  <2> QED BY <1>2, <2>2 DEF Real
<1>4. fwd[s].pc # "send"
  BY <1>3 DEF RealInv, Relaying
<1>5. Offered(s)' = appSent[s]
  BY <1>4 DEF Offered, OfServer, forwarderVars
<1>6. Len(targetGot'[s]) = appSent[s]
  BY <1>2 DEF Untold, Notify
<1>7. \A i \in 1 .. Len(toServer'[w]) : ~IsUnit(toServer'[w], i, s)
  BY <1>3 DEF UpReal, Up, Held, IsUnit, Notify, ServerWrite
<1>8. appSent[s] \in Nat
  BY <1>1, MaxUpAssumption DEF TypeInv, TypeOK, ForwarderTypeOK
<1>9. Carries(toServer'[w], link'[w] = "open" /\ fwd'[s].pc \notin Over, s, appSent[s], appSent[s])
  BY <1>7, <1>8, CarriesNone
<1> QED BY <1>5, <1>6, <1>9 DEF UpOrder

\* What UpOrder speaks of
LEMMA UpOrderTypes ==
  ASSUME TypeInv, NEW s \in Sessions, NEW w \in Sockets, Pumping(s, w), UpOrder(s, w)
  PROVE  /\ toServer[w] \in Seq(Messages)
         /\ Len(targetGot[s]) \in Nat /\ Offered(s) \in Nat /\ Offered(s) <= appSent[s]
         /\ Carries(toServer[w], link[w] = "open" /\ fwd[s].pc \notin Over, s,
                    Len(targetGot[s]), Offered(s))
<1>1. toServer[w] \in Seq(Messages)
  BY StreamTypes DEF Queues
<1>2. targetGot[s] \in Seq(Nat)
  BY DEF TypeInv, TypeOK, ServerTypeOK
<1>3. Len(targetGot[s]) \in Nat
  BY <1>2, LenProperties
<1>4. Len(targetGot[s]) <= Offered(s)
  BY DEF UpOrder, Carries
<1>5. appSent[s] \in Nat
  BY MaxUpAssumption DEF TypeInv, TypeOK, ForwarderTypeOK
<1>6. Offered(s) \in Int /\ Offered(s) <= appSent[s]
  BY <1>5 DEF Offered
<1>7. Offered(s) \in Nat
  BY <1>3, <1>4, <1>6
<1> QED BY <1>1, <1>3, <1>6, <1>7 DEF UpOrder

\* Reading a unit of the session
LEMMA UpOrderRead ==
  ASSUME Inv, [Next]_vars, NEW s \in Sessions, NEW w \in Sockets,
         Pumping(s, w), UpOrder(s, w),
         ServeData(w), OfServer, Request(w).sess = s
  PROVE  /\ UpOrder(s, w)'
         /\ Request(w).data = Len(targetGot[s]) + 1
         /\ Len(targetGot[s]) < appSent[s]
<1>1. TypeInv
  BY DEF Inv
<1> DEFINE q == toServer[w]
           n == Len(targetGot[s])
           last == Offered(s)
           open == link[w] = "open" /\ fwd[s].pc \notin Over
<1>2. /\ q \in Seq(Messages) /\ n \in Nat /\ last \in Nat /\ last <= appSent[s]
      /\ Carries(q, open, s, n, last)
  BY <1>1, UpOrderTypes
<1>3. q # << >> /\ IsUnit(q, 1, s) /\ Request(w) = q[1] /\ q[1].data \in Nat
  <2>1. q # << >> /\ IsUnit(q, 1, s) /\ Request(w) = q[1]
    BY DEF ServeData, Serves, Request, IsUnit
  <2>2. Request(w).data \in Nat
    BY <1>1, Serving DEF ServeData
  <2> QED BY <2>1, <2>2
<1>4. toServer'[w] = Tail(q) /\ link' = link /\ UNCHANGED <<fwd, appSent>>
  <2>1. toServer' = [toServer EXCEPT ![w] = Tail(@)] /\ UNCHANGED <<link, fwd, appSent>>
    BY DEF ServeData, ConsumeRequest, OfServer, forwarderVars
  <2> QED BY <1>1, <2>1, StreamTypes DEF Queues
<1>5. Offered(s)' = last
  BY <1>4 DEF Offered
<1>6. Len(targetGot'[s]) = n + 1
  <2>1. targetGot[s] \in Seq(Nat) /\ targetGot' = [targetGot EXCEPT ![s] = Append(@, q[1].data)]
    BY <1>1, <1>3 DEF ServeData, Deliver, TypeInv, TypeOK, ServerTypeOK
  <2> HIDE DEF q
  <2>2. targetGot'[s] = Append(targetGot[s], q[1].data)
    BY <1>1, <2>1 DEF TypeInv, TypeOK, ServerTypeOK
  <2> QED BY <1>3, <2>1, <2>2, AppendProperties
<1>7. (link'[w] = "open" /\ fwd'[s].pc \notin Over) = open
  BY <1>4
<1>8. open \in BOOLEAN
  OBVIOUS
<1> HIDE DEF q, n, last, open
<1>9. q[1].data = n + 1 /\ n < last /\ Carries(Tail(q), open, s, n + 1, last)
  BY <1>2, <1>3, <1>8, CarriesRead
<1>10. UpOrder(s, w)'
  BY <1>4, <1>5, <1>6, <1>7, <1>9 DEF UpOrder
<1>11. n < appSent[s]
  <2>1. appSent[s] \in Nat
    BY <1>1, MaxUpAssumption DEF TypeInv, TypeOK, ForwarderTypeOK
  <2> QED BY <1>2, <1>9, <2>1
<1> QED BY <1>3, <1>9, <1>10, <1>11 DEF n

\* A unit is handed to SendData, which writes it or fails.
LEMMA UpOrderSent ==
  ASSUME RoutingInv, [Next]_vars, NEW s \in Sessions, NEW w \in Sockets,
         LinkOk(w), Pumping(s, w), UpOrder(s, w),
         SendLocal(s), OfForwarder, Offered(s)' = Offered(s) + 1
  PROVE  UpOrder(s, w)'
<1>1. Inv /\ TypeInv
  BY DEF RoutingInv, Inv
<1> DEFINE q == toServer[w]
           n == Len(targetGot[s])
           last == Offered(s)
           open == link[w] = "open" /\ fwd[s].pc \notin Over
           m == Msg("DATA", s, appSent[s])
<1>2. /\ q \in Seq(Messages) /\ n \in Nat /\ last \in Nat
      /\ Carries(q, open, s, n, last)
  BY <1>1, UpOrderTypes
<1>3. /\ fwd[s].pc = "send" /\ last = appSent[s] - 1 /\ appSent[s] \in Nat
      /\ m \in Messages /\ m.type = "DATA" /\ m.sess = s /\ m.data = last + 1
  <2>1. fwd[s].pc = "send" /\ last = appSent[s] - 1 /\ appSent[s] \in Nat
    BY <1>1, MaxUpAssumption DEF SendLocal, At, Offered, TypeInv, TypeOK, ForwarderTypeOK
  <2>2. m \in Messages /\ m.type = "DATA" /\ m.sess = s /\ m.data = appSent[s]
    BY <2>1 DEF Msg, Messages, Types
  <2>3. appSent[s] = last + 1
    <3> HIDE DEF last, m
    <3> QED BY <1>2, <2>1
  <2> QED BY <2>1, <2>2, <2>3
<1>4. open = (link[w] = "open")
  BY <1>3 DEF Over
<1>5. PICK ok \in BOOLEAN : SendData(s, appSent[s], ok) /\ Goto(s, AfterSend(ok))
  BY DEF SendLocal
<1>6. fwd'[s].pc = AfterSend(ok)
  BY <1>1, <1>5 DEF Goto, TypeInv, TypeOK, ForwarderTypeOK
<1>7. Len(targetGot'[s]) = n /\ Offered(s)' = last + 1
  BY DEF OfForwarder, serverVars
<1>8. link' = link
  BY <1>5 DEF SendData, ClientWrite, wireVars
<1>9. toServer' = toServer \/ (Routed(s) /\ ok /\ toServer' = After(toServer, Current(channelMap[s]), m, ok))
  <2> HIDE DEF m
  <2> QED BY <1>5 DEF SendData, ClientWrite, After, wireVars, m
<1>10. CASE link[w] = "open"
  <2>1. CASE Routed(s)
    <3>1. w[1] = channelMap[s]
      BY <1>1, <2>1, RoutedWhereStarted DEF Pumping, Started
    <3>2. w = Current(channelMap[s])
      BY <1>10, <3>1 DEF LinkOk, Current, Sockets
    <3>3. ok /\ toServer' = After(toServer, w, m, ok)
      BY <1>5, <1>10, <2>1, <3>2 DEF SendData, ClientWrite, MayReturn
    <3> HIDE DEF m
    <3>4. toServer'[w] = Append(q, m)
      BY <1>1, <1>10, <3>3, StreamTypes DEF After, Queues
    <3>5. (link'[w] = "open" /\ fwd'[s].pc \notin Over) = TRUE
      BY <1>6, <1>8, <1>10, <3>3 DEF AfterSend, Over
    <3>6. Carries(q, TRUE, s, n, last)
      BY <1>2, <1>4, <1>10
    <3> HIDE DEF q, n, last, open
    <3>7. Carries(Append(q, m), TRUE, s, n, last + 1)
      BY <1>2, <1>3, <3>6, CarriesNext
    <3> QED BY <1>7, <3>4, <3>5, <3>7 DEF UpOrder
  <2>2. CASE ~Routed(s)
    <3>1. ~ok /\ toServer' = toServer
      BY <1>5, <2>2 DEF SendData, wireVars
    <3>2. (link'[w] = "open" /\ fwd'[s].pc \notin Over) = FALSE
      BY <1>6, <3>1 DEF AfterSend, Over
    <3> HIDE DEF n, last, open
    <3>3. Carries(q, FALSE, s, n, last + 1)
      BY <1>2, CarriesLoss
    <3> QED BY <1>7, <3>1, <3>2, <3>3 DEF UpOrder
  <2> QED BY <2>1, <2>2
<1>11. CASE link[w] # "open"
  <2>1. toServer'[w] = q
    <3> HIDE DEF m
    <3> QED BY <1>1, <1>9, <1>11, StreamTypes DEF After, Queues
  <2>2. (link'[w] = "open" /\ fwd'[s].pc \notin Over) = FALSE
    BY <1>8, <1>11
  <2> HIDE DEF q, n, last, open
  <2>3. Carries(q, FALSE, s, n, last + 1)
    BY <1>2, CarriesLoss
  <2> QED BY <1>7, <2>1, <2>2, <2>3 DEF UpOrder
<1> QED BY <1>10, <1>11

\* Every other step leaves the two ends alone.
LEMMA UpOrderKept ==
  ASSUME Inv, [Next]_vars, NEW s \in Sessions, NEW w \in Sockets,
         LinkOk(w), Pumping(s, w), Pumping(s, w)', UpOrder(s, w),
         targetGot'[s] = targetGot[s], Offered(s)' = Offered(s),
         fwd[s].pc \in Over => fwd'[s].pc \in Over
  PROVE  UpOrder(s, w)'
<1>1. TypeInv
  BY DEF Inv
<1> DEFINE q == toServer[w]
           n == Len(targetGot[s])
           last == Offered(s)
           open == link[w] = "open" /\ fwd[s].pc \notin Over
           next == link'[w] = "open" /\ fwd'[s].pc \notin Over
<1>2. /\ q \in Seq(Messages) /\ n \in Nat /\ last \in Nat /\ open \in BOOLEAN
      /\ Carries(q, open, s, n, last)
  BY <1>1, UpOrderTypes
<1>3. Len(targetGot'[s]) = n /\ Offered(s)' = last
  OBVIOUS
<1>4. next => open
  BY <1>1, StaysShut DEF Pumping, Started
<1> SUFFICES Carries(toServer'[w], next, s, n, last)
  BY <1>3 DEF UpOrder
<1>5. SUFFICES Carries(toServer'[w], open, s, n, last) \/ (~next /\ Carries(toServer'[w], FALSE, s, n, last))
  BY <1>4 DEF Carries
<1> HIDE DEF n, last, next
<1>6. CASE toServer'[w] = q
  BY <1>2, <1>6
<1>7. CASE /\ HandleWebSocket(w) /\ OfServer /\ q # << >> /\ UNCHANGED link
           /\ toServer'[w] = Tail(q)
  <2>1. ~IsUnit(q, 1, s)
    <3> SUFFICES ASSUME IsUnit(q, 1, s) PROVE FALSE
      OBVIOUS
    <3>1. ServeData(w) /\ Request(w).sess = s
      BY <1>1, <1>2, <1>7, UnitServed DEF Pumping
    <3>2. Len(targetGot'[s]) = n + 1
      <4> DEFINE unit == Request(w).data
      <4>1. unit \in Nat
        BY <1>1, <3>1, Serving DEF ServeData
      <4>2. /\ targetGot \in [Sessions -> Seq(Nat)]
            /\ targetGot' = [targetGot EXCEPT ![s] = Append(@, unit)]
        BY <1>1, <3>1 DEF ServeData, Deliver, TypeInv, TypeOK, ServerTypeOK
      <4> HIDE DEF unit
      <4>3. targetGot'[s] = Append(targetGot[s], unit)
        BY <4>2
      <4> QED BY <4>1, <4>2, <4>3, AppendProperties DEF n
    <3> QED BY <1>2, <1>3, <3>2
  <2> HIDE DEF q, open
  <2> QED BY <1>2, <1>7, <2>1, CarriesSkip
<1>8. CASE \E m \in Messages : UpWritten(w, m)
  <2>1. PICK m \in Messages : UpWritten(w, m)
    BY <1>8
  <2>2. ~(m.type = "DATA" /\ m.sess = s)
    <3> SUFFICES ASSUME SendLocal(s) PROVE FALSE
      BY <2>1 DEF UpWritten
    <3>1. /\ fwd[s].pc = "send" /\ appSent' = appSent /\ appSent[s] \in Nat
          /\ Goto(s, "relay") \/ Goto(s, "close")
      BY <1>1, MaxUpAssumption DEF SendLocal, AfterSend, At, TypeInv, TypeOK, ForwarderTypeOK
    <3>2. fwd'[s].pc # "send"
      BY <1>1, <3>1 DEF Goto, TypeInv, TypeOK, ForwarderTypeOK
    <3> QED BY <1>3, <3>1, <3>2 DEF Offered, last
  <2>3. toServer'[w] = Append(q, m)
    BY <2>1 DEF UpWritten
  <2> HIDE DEF q, open
  <2> QED BY <1>2, <2>2, <2>3, CarriesOther
<1>9. CASE Break(w) /\ \E k \in 0 .. Len(q) : toServer'[w] = SubSeq(q, 1, k)
  <2>1. PICK k \in 0 .. Len(q) : toServer'[w] = SubSeq(q, 1, k)
    BY <1>9
  <2>2. ~next
    BY <1>1, <1>9 DEF Break, TypeInv, TypeOK, WireTypeOK, next
  <2> HIDE DEF q, open
  <2> QED BY <1>2, <2>1, <2>2, CarriesPrefix
<1> QED BY <1>1, <1>6, <1>7, <1>8, <1>9, UpMoves

\* Every step, then.
LEMMA StepUpOrder ==
  ASSUME OwnInv, [Next]_vars, NEW s \in Sessions, NEW w \in Sockets,
         UpReal, LinkOk(w), Untold(s, w), \A v \in Sockets : Dialled(s, v), UpOrder(s, w)
  PROVE  UpOrder(s, w)'
<1>1. RoutingInv /\ RealInv /\ Inv /\ TypeInv
  BY DEF OwnInv, RealInv, Inv
<1> SUFFICES ASSUME Pumping(s, w)'
             PROVE  UpOrder(s, w)'
  BY DEF UpOrder
<1>2. CASE ~Pumping(s, w)
  BY <1>1, <1>2, PumpingNews, UpOrderStarts
<1>3. CASE Pumping(s, w)
  <2>1. Started(s, w) /\ fwd[s].pc # "idle"
    BY <1>1, <1>3 DEF Pumping, Started, Inv, OneRequest, RequestOnce
  <2>2. CASE \E v \in Sockets : \/ ServeData(v) /\ OfServer /\ Request(v).sess = s
                                \/ WriteFirstFrame(v, s)
    <3>1. PICK v \in Sockets : \/ ServeData(v) /\ OfServer /\ Request(v).sess = s
                               \/ WriteFirstFrame(v, s)
      BY <2>2
    <3>2. Started(s, v)
      BY <3>1 DEF ServeData, WriteFirstFrame, Started, Dialled, Running
    <3>3. v = w
      BY <1>1, <2>1, <3>2, StartedOnce
    <3>4. ~WriteFirstFrame(w, s)
      BY <1>3 DEF Pumping, WriteFirstFrame
    <3> QED BY <1>1, <1>3, <3>1, <3>3, <3>4, UpOrderRead
  <2>3. CASE SendLocal(s) /\ OfForwarder /\ Offered(s)' = Offered(s) + 1
    BY <1>1, <1>3, <2>3, UpOrderSent
  <2>4. CASE /\ targetGot'[s] = targetGot[s]
             /\ Offered(s)' = Offered(s)
             /\ fwd[s].pc \in Over => fwd'[s].pc \in Over
    BY <1>1, <1>3, <2>4, UpOrderKept
  <2> QED BY <1>1, <2>1, <2>2, <2>3, <2>4, TargetGets, OfferMoves
<1> QED BY <1>2, <1>3

-----------------------------------------------------------------------------
(* The invariant *)

RelayInv ==
  /\ OwnInv
  /\ Numbered /\ UpReal /\ ClosedEnds
  /\ \A w \in Sockets : LinkOk(w)
  /\ \A s \in Sessions : Opened(s) /\ Answered(s) /\ First(s) /\ Abandoned(s) /\ Silent(s)
  /\ \A s \in Sessions, w \in Sockets : Dialled(s, w) /\ Untold(s, w)
  /\ \A s \in Sessions, w \in Sockets : DownOrder(s, w) /\ UpOrder(s, w)

\* Nothing is connected at the start, and nothing sent.
LEMMA InitRelay == Init => RelayInv
<1> SUFFICES ASSUME Init PROVE RelayInv
  OBVIOUS
<1>1. OwnInv
  BY InitOwn
<1>2. \A w \in Sockets : Up(w) = {} /\ Down(w) = {}
  BY DEF Init, WireInit, Up, Down, Held
<1>3. \A s \in Sessions, w \in Sockets : task[w][s].pc = "none" /\ tconn[w][s] = "none" /\ s \notin conns[w]
  BY DEF Init, ServerInit
<1>4. \A s \in Sessions :
        /\ fwd[s].pc = "idle" /\ conn[s] = "none" /\ s \notin tcpMap
        /\ connInfo[s] = NoInfo /\ appSent[s] = 0 /\ appGot[s] = << >>
        /\ targetGot[s] = << >> /\ targetSent[s] = 0
  BY DEF Init, PoolInit, ForwarderInit, ServerInit
<1>5. \A c \in Channels : handler[c].pc = "dial"
  BY DEF Init, PoolInit, Idle
<1>6. \A w \in Sockets : link[w] = "none" /\ toServer[w] = << >>
  BY DEF Init, WireInit
<1>7. Replies(<< >>) = {} /\ Payload(<< >>) = << >>
  <2>1. Replies(<< >>) = {}
    BY DEF Replies
  <2> QED BY <2>1 DEF Payload
<1>8. \A s \in Sessions : Opened(s) /\ Answered(s) /\ First(s) /\ Abandoned(s) /\ Silent(s)
  <2> SUFFICES ASSUME NEW s \in Sessions
               PROVE  Opened(s) /\ Answered(s) /\ First(s) /\ Abandoned(s) /\ Silent(s)
    OBVIOUS
  <2>1. Opened(s)
    BY <1>4 DEF Opened
  <2>2. Answered(s)
    BY <1>4, <1>7 DEF Answered, OneReply
  <2>3. First(s)
    BY <1>2, <1>3, <1>4, <1>5 DEF First, Waiting, Writing
  <2>4. Abandoned(s)
    BY <1>5 DEF Abandoned, Aborting
  <2>5. Silent(s)
    BY <1>4, <1>7 DEF Silent, Received
  <2> QED BY <2>1, <2>2, <2>3, <2>4, <2>5
<1>9. \A s \in Sessions, w \in Sockets : Dialled(s, w) /\ Untold(s, w)
  BY <1>3 DEF Dialled, Untold, Running
<1>10. \A s \in Sessions, w \in Sockets : DownOrder(s, w) /\ UpOrder(s, w)
  BY <1>3 DEF DownOrder, UpOrder, Pumping, Started
<1>11. \A w \in Sockets : LinkOk(w)
  BY <1>3, <1>6 DEF LinkOk, Started
<1>12. Numbered /\ UpReal /\ ClosedEnds
  BY <1>2 DEF Numbered, UpReal, ClosedEnds
<1> QED BY <1>1, <1>8, <1>9, <1>10, <1>11, <1>12 DEF RelayInv

\* Every step keeps it: one lemma per part.
LEMMA StepRelay == RelayInv /\ [Next]_vars => RelayInv'
<1> SUFFICES ASSUME RelayInv, [Next]_vars PROVE RelayInv'
  OBVIOUS
<1>1. OwnInv /\ RoutingInv /\ RealInv /\ Inv /\ TypeInv
  BY DEF RelayInv, OwnInv, RealInv, Inv
<1>2. /\ Numbered /\ UpReal /\ ClosedEnds
      /\ \A w \in Sockets : LinkOk(w)
      /\ \A s \in Sessions : Opened(s) /\ Answered(s) /\ First(s) /\ Abandoned(s) /\ Silent(s)
      /\ \A s \in Sessions, w \in Sockets : Dialled(s, w) /\ Untold(s, w)
      /\ \A s \in Sessions, w \in Sockets : DownOrder(s, w) /\ UpOrder(s, w)
  BY DEF RelayInv
<1>3. OwnInv'
  BY <1>1, StepOwn
<1>4. Numbered' /\ UpReal' /\ ClosedEnds'
  BY <1>1, <1>2, StepNumbered, StepUpReal, StepClosedEnds
<1>5. \A w \in Sockets : LinkOk(w)'
  BY <1>1, <1>2, StepLink
<1>6. \A s \in Sessions : Opened(s)' /\ Answered(s)' /\ First(s)' /\ Abandoned(s)' /\ Silent(s)'
  <2> SUFFICES ASSUME NEW s \in Sessions
               PROVE  Opened(s)' /\ Answered(s)' /\ First(s)' /\ Abandoned(s)' /\ Silent(s)'
    OBVIOUS
  <2>1. Opened(s)'
    BY <1>1, <1>2, StepOpened
  <2>2. Answered(s)'
    BY <1>1, <1>2, StepAnswered
  <2>3. First(s)' /\ Abandoned(s)'
    BY <1>1, <1>2, StepFirst, StepAbandoned
  <2>4. Silent(s)'
    BY <1>1, <1>2, StepSilent
  <2> QED BY <2>1, <2>2, <2>3, <2>4
<1>7. \A s \in Sessions, w \in Sockets : Dialled(s, w)' /\ Untold(s, w)'
  BY <1>1, <1>2, StepDialled, StepUntold
<1>8. \A s \in Sessions, w \in Sockets : DownOrder(s, w)'
  BY <1>1, <1>2, StepDownOrder
<1>9. \A s \in Sessions, w \in Sockets : UpOrder(s, w)'
  BY <1>1, <1>2, StepUpOrder
<1> QED BY <1>3, <1>4, <1>5, <1>6, <1>7, <1>8, <1>9 DEF RelayInv

-----------------------------------------------------------------------------
(* A CLOSE that ends an open connection ends a whole stream *)

\* What ends a local connection that is open
LEMMA OpenCloses ==
  ASSUME TypeInv, [Next]_vars, NEW s \in Sessions, conn[s] = "open", conn'[s] = "closed",
         UNCHANGED <<fwd, crashed>>
  PROVE  \E c \in Channels : \/ AbortTCP(c) /\ handler[c].sess = s
                             \/ ReadClose(c) /\ Incoming(c).sess = s /\ s \in tcpMap
<1>1. conn' # conn
  OBVIOUS
<1>2. CASE PoolStep
  <2>1. CASE \E c \in Channels : AbortTCP(c)
    <3>1. PICK c \in Channels : AbortTCP(c)
      BY <2>1
    <3> DEFINE t == handler[c].sess
    <3>2. conn' = IF t \in tcpMap THEN [conn EXCEPT ![t] = "closed"] ELSE conn
      BY <3>1 DEF AbortTCP, Forget
    <3> HIDE DEF t
    <3>3. t = s
      BY <1>1, <3>2 DEF TypeInv, TypeOK, PoolTypeOK
    <3> QED BY <3>1, <3>3 DEF t
  <2>2. CASE \E c \in Channels : ReadClose(c)
    <3>1. PICK c \in Channels : ReadClose(c)
      BY <2>2
    <3> DEFINE t == Incoming(c).sess
    <3>2. conn' = IF t \in tcpMap THEN [conn EXCEPT ![t] = "closed"] ELSE conn
      BY <3>1 DEF ReadClose, Forget
    <3> HIDE DEF t
    <3>3. t = s /\ s \in tcpMap
      BY <1>1, <3>2 DEF TypeInv, TypeOK, PoolTypeOK
    <3> QED BY <3>1, <3>3 DEF t
  <2>3. CASE \E c \in Channels : ReadDataFails(c)
    <3>1. PICK c \in Channels : ReadDataFails(c)
      BY <2>3
    <3> DEFINE t == Incoming(c).sess
    <3>2. conn[t] # "open" /\ conn' = [conn EXCEPT ![t] = "closed"]
      BY <3>1 DEF ReadDataFails, MayWriteLocal, CloseLocal
    <3> HIDE DEF t
    <3> QED BY <1>1, <3>2 DEF TypeInv, TypeOK, PoolTypeOK
  <2> QED
    BY <1>1, <1>2, <2>1, <2>2, <2>3 DEF PoolStep, Dial, HandleChannel, ReadError, WinClaim,
       IgnoreClaim, WriteTCP, ReadConnected, ReadData, RejectData, RunCloser, poolVars
<1>3. CASE ForwarderStep
  <2>1. CASE \E t \in Sessions, kind \in Kinds, first \in {0, 1} : Register(t, kind, first)
    BY <2>1 DEF Register, RegisterSession, TypeInv, TypeOK, PoolTypeOK
  <2>2. CASE \E t \in Sessions : MarkNil(t)
    BY <2>2 DEF MarkNil, Panic, At
  <2>3. CASE \E t \in Sessions : Drop(t) \/ DeferredShut(t)
    BY <2>3 DEF Drop, DeferredShut, At, Goto, TypeInv, TypeOK, ForwarderTypeOK
  <2>4. CASE \E t \in Sessions : AppHangup(t)
    BY <2>4 DEF AppHangup, TypeInv, TypeOK, PoolTypeOK
  <2> QED
    BY <1>1, <1>3, <2>1, <2>2, <2>3, <2>4 DEF ForwarderStep, Forward, SkipNil, MarkClaim,
       WriteClaim, ClaimsDone, Established, Timeout, Refuse, Reply, SendLocal, ReadLocalError,
       DeferredSendClose, ReadLocal, poolVars
<1> QED BY <1>1, <1>2, <1>3 DEF Next, OfServer, OfNetwork, vars, poolVars

\* When CLOSE ends a session whose app has not hung up, the app has received
\* every unit the target sent, and an aborted session's target none.
THEOREM ClosedIsComplete == Spec => CloseLosesNothing
<1>1. ASSUME RelayInv, [Next]_vars, NEW s \in Sessions, conn[s] = "open", conn'[s] = "closed",
             UNCHANGED <<fwd, crashed>>
      PROVE  Len(Payload(appGot[s])) = targetSent[s]
  <2>1. RoutingInv /\ Inv /\ TypeInv
    BY <1>1 DEF RelayInv, OwnInv, RoutingInv, Inv
  <2>2. PICK c \in Channels : \/ AbortTCP(c) /\ handler[c].sess = s
                              \/ ReadClose(c) /\ Incoming(c).sess = s /\ s \in tcpMap
    BY <1>1, <2>1, OpenCloses
  <2>3. CASE AbortTCP(c) /\ handler[c].sess = s
    <3>1. \A w \in Sockets : ~Started(s, w)
      BY <1>1, <2>3 DEF RelayInv, Abandoned, Aborting, AbortTCP
    <3>2. targetSent[s] = 0 /\ Received(s) = << >>
      BY <1>1, <3>1 DEF RelayInv, Silent
    <3> QED BY <3>2 DEF Received
  <2>4. CASE ReadClose(c) /\ Incoming(c).sess = s /\ s \in tcpMap
    <3> DEFINE w == Current(c)
               q == toClient[w]
    <3>1. w \in Sockets /\ Incoming(c) \in Down(w) /\ Incoming(c).type = "CLOSE"
      BY <2>1, <2>4, IncomingHeld DEF ReadClose
    <3>2. Started(s, w)
      BY <2>1, <2>4, <3>1 DEF RoutingInv, Spoken
    <3>3. Complete(q, s, Len(Received(s)), targetSent[s])
      BY <1>1, <2>4, <3>1, <3>2 DEF RelayInv, DownOrder
    <3>4. q # << >> /\ q \in Seq(Messages) /\ q[1].type = "CLOSE" /\ q[1].sess = s
      BY <2>1, <2>4, <3>1, StreamTypes DEF ReadClose, Reads, Incoming, Queues
    <3> HIDE DEF q, w
    <3>5. 1 \in 1 .. Len(q)
      <4>1. Len(q) \in Nat /\ Len(q) # 0
        BY <3>4, LenProperties, EmptySeq
      <4> QED BY <4>1
    <3>6. Reaches(q, 0, s, Len(Received(s)), targetSent[s])
      BY <3>3, <3>4, <3>5 DEF Complete
    <3>7. targetSent[s] = Len(Received(s))
      BY <3>6 DEF Reaches
    <3> QED BY <3>7 DEF Received
  <2> QED BY <2>2, <2>3, <2>4
<1>2. RelayInv /\ [Next]_vars =>
        [\A s \in Sessions :
           (conn[s] = "open" /\ conn'[s] = "closed" /\ UNCHANGED <<fwd, crashed>>)
             => Len(Payload(appGot[s])) = targetSent[s]]_vars
  BY <1>1
<1> QED BY InitRelay, StepRelay, <1>2, PTL DEF Spec, CloseLosesNothing

-----------------------------------------------------------------------------
(* Every session is a Relay *)

\* What the states of a connection to the target are to a Relay
EndOf(state) == IF state \in {"open", "eof", "reset"} THEN "open"
                ELSE IF state = "closed" THEN "closed" ELSE "none"

\* TargetEnd looks at one connection: no other was started.
LEMMA OneEnd ==
  ASSUME NEW c, NEW s, NEW w \in Sockets, \A v \in Sockets : v # w => c[v][s] = "none"
  PROVE  (IF \E v \in Sockets : c[v][s] \in {"open", "eof", "reset"} THEN "open"
          ELSE IF \E v \in Sockets : c[v][s] = "closed" THEN "closed" ELSE "none")
         = EndOf(c[w][s])
BY DEF EndOf

\* The same before and after a step of a session that was started.
LEMMA EndsAt ==
  ASSUME RelayInv, [Next]_vars, NEW s \in Sessions, NEW w \in Sockets, Started(s, w)
  PROVE  /\ TargetEnd(s) = EndOf(tconn[w][s])
         /\ TargetEnd(s)' = EndOf(tconn'[w][s])
<1>1. \A v \in Sockets : v # w => tconn[v][s] = "none"
  <2>1. Inv
    BY DEF RelayInv, OwnInv, RoutingInv
  <2>2. \A v \in Sockets : Dialled(s, v)
    BY DEF RelayInv
  <2> QED BY <2>1, <2>2, StartedOnce DEF Dialled, Started
<1>2. \A v \in Sockets : v # w => tconn'[v][s] = "none"
  <2>1. Inv' /\ TypeInv
    BY StepRelay DEF RelayInv, OwnInv, RoutingInv, Inv
  <2>2. \A v \in Sockets : Dialled(s, v)'
    BY StepRelay DEF RelayInv
  <2>3. Started(s, w)'
    BY <2>1, StartedStays
  <2>4. \A v \in Sockets : Started(s, v)' => v = w
    BY <2>1, <2>3 DEF Inv, OneRequest, RequestOnce
  <2> QED BY <2>2, <2>4 DEF Dialled, Started
<1>3. TargetEnd(s) = EndOf(tconn[w][s])
  BY <1>1, OneEnd DEF TargetEnd
<1>4. TargetEnd(s)' = EndOf(tconn'[w][s])
  BY <1>2, OneEnd DEF TargetEnd
<1> QED BY <1>3, <1>4

\* What a step does to the app's end
LEMMA AppEndMoves ==
  ASSUME TypeInv, [Next]_vars, NEW s \in Sessions, Opened(s)
  PROVE  \/ \E kind \in Kinds, first \in {0, 1} : Register(s, kind, first) /\ OfForwarder
         \/ AppEnd(s)' = AppEnd(s)
         \/ AppEnd(s) = "open" /\ AppEnd(s)' = "closed"
<1>1. CASE conn'[s] = conn[s]
  BY <1>1 DEF AppEnd
<1>2. CASE conn[s] # "none" /\ conn'[s] = "closed"
  BY <1>2 DEF AppEnd, TypeInv, TypeOK, PoolTypeOK
<1>3. CASE PoolStep
  <2>1. conn'[s] = conn[s] \/ (s \in tcpMap /\ conn'[s] = "closed")
    BY <1>3, PoolCloses
  <2> QED BY <1>1, <1>2, <2>1 DEF Opened
<1>4. CASE ForwarderStep /\ OfForwarder
  <2>1. CASE \E t \in Sessions, kind \in Kinds, first \in {0, 1} : Register(t, kind, first)
    <3>1. PICK t \in Sessions, kind \in Kinds, first \in {0, 1} : Register(t, kind, first)
      BY <2>1
    <3>2. CASE t = s
      BY <1>4, <3>1, <3>2
    <3>3. CASE t # s
      BY <1>1, <3>1, <3>3 DEF Register, RegisterSession, TypeInv, TypeOK, PoolTypeOK
    <3> QED BY <3>2, <3>3
  <2>2. CASE \E t \in Sessions : MarkNil(t)
    <3>1. conn'[s] = IF conn[s] = "none" THEN "none" ELSE "closed"
      BY <2>2 DEF MarkNil, Panic
    <3> QED BY <1>1, <1>2, <3>1
  <2>3. CASE \E t \in Sessions : Drop(t) \/ DeferredShut(t)
    <3>1. PICK t \in Sessions : Drop(t) \/ DeferredShut(t)
      BY <2>3
    <3>2. fwd[t].pc # "idle" /\ conn' = [conn EXCEPT ![t] = "closed"]
      BY <3>1 DEF Drop, DeferredShut, At
    <3>3. CASE t = s
      BY <1>2, <3>2, <3>3 DEF Opened, TypeInv, TypeOK, PoolTypeOK
    <3>4. CASE t # s
      BY <1>1, <3>2, <3>4 DEF TypeInv, TypeOK, PoolTypeOK
    <3> QED BY <3>3, <3>4
  <2>4. CASE \E t \in Sessions : AppHangup(t)
    <3>1. conn'[s] = conn[s] \/ (conn[s] = "open" /\ conn'[s] = "eof")
      BY <2>4 DEF AppHangup, TypeInv, TypeOK, PoolTypeOK
    <3> QED BY <3>1 DEF AppEnd
  <2>5. CASE UNCHANGED conn
    BY <1>1, <2>5
  <2> QED
    BY <1>4, <2>1, <2>2, <2>3, <2>4, <2>5 DEF ForwarderStep, Forward, SkipNil, MarkClaim,
       WriteClaim, ClaimsDone, Established, Timeout, Refuse, Reply, SendLocal, ReadLocalError,
       DeferredSendClose, ReadLocal, poolVars
<1>5. CASE UNCHANGED conn
  BY <1>1, <1>5
<1> QED BY <1>3, <1>4, <1>5 DEF Next, OfServer, OfNetwork, vars, poolVars

\* A step of the client, or of the network, is one of the app's end.
LEMMA ClientRelays ==
  ASSUME RelayInv, [Next]_vars, UNCHANGED serverVars, NEW s \in Sessions
  PROVE  Session(s)!Next \/ UNCHANGED Session(s)!vars
<1>1. RoutingInv /\ Inv /\ TypeInv /\ Opened(s) /\ Answered(s) /\ Numbered
  BY DEF RelayInv, OwnInv, RoutingInv, Inv
<1>2. /\ TargetEnd(s)' = TargetEnd(s)
      /\ targetSent'[s] = targetSent[s] /\ targetGot'[s] = targetGot[s]
  BY DEF serverVars, TargetEnd
<1>3. CASE \E c \in Channels : /\ ReadData(c) /\ OfPool /\ Incoming(c).sess = s
                               /\ Received(s)' = Append(Received(s), Incoming(c).data)
  <2>1. PICK c \in Channels : /\ ReadData(c) /\ OfPool /\ Incoming(c).sess = s
                              /\ Received(s)' = Append(Received(s), Incoming(c).data)
    BY <1>3
  <2>2. /\ s \in tcpMap /\ AppEnd(s) = "open" /\ AppEnd(s)' = AppEnd(s)
        /\ appSent'[s] = appSent[s]
    BY <2>1 DEF ReadData, MayWriteLocal, AppEnd, OfPool, forwarderVars
  <2>3. Current(c) \in Sockets /\ Started(s, Current(c))
    <3>1. Current(c) \in Sockets /\ Incoming(c) \in Down(Current(c)) /\ Incoming(c).type = "DATA"
      BY <1>1, <2>1, IncomingHeld DEF ReadData
    <3> QED BY <1>1, <2>1, <3>1 DEF RoutingInv, Spoken
  <2>4. Incoming(c).data = Len(Received(s)) + 1 /\ Len(Received(s)) < targetSent[s]
    BY <1>1, <2>1, <2>2, <2>3, DownOrderRead DEF RelayInv
  <2>5. Session(s)!AppReceives
    BY <1>2, <2>1, <2>2, <2>4 DEF Session!AppReceives, Received
  <2> QED BY <2>5 DEF Session!Next
<1>4. CASE Received(s)' = Received(s)
  <2>1. CASE \E kind \in Kinds, first \in {0, 1} : Register(s, kind, first) /\ OfForwarder
    <3>1. PICK kind \in Kinds, first \in {0, 1} : Register(s, kind, first)
      BY <2>1
    <3>2. appSent'[s] = first /\ conn'[s] = "open" /\ fwd[s].pc = "idle"
      BY <1>1, <3>1 DEF Register, RegisterSession, At, TypeInv, TypeOK, PoolTypeOK, ForwarderTypeOK
    <3>3. AppEnd(s) = "none" /\ AppEnd(s)' = "open" /\ appSent'[s] \in {0, 1}
      BY <1>1, <3>2 DEF Opened, AppEnd
    <3>4. Session(s)!Connect
      BY <1>2, <1>4, <3>3 DEF Session!Connect, Received
    <3> QED BY <3>4 DEF Session!Next
  <2>2. CASE ReadLocal(s) /\ OfForwarder /\ appSent'[s] = appSent[s] + 1
    <3>1. AppEnd(s) = "open" /\ AppEnd(s)' = "open"
      BY <2>2 DEF ReadLocal, AppEnd, poolVars
    <3>2. Session(s)!AppSends
      BY <1>2, <1>4, <2>2, <3>1 DEF Session!AppSends, Received
    <3> QED BY <3>2 DEF Session!Next
  <2>3. CASE appSent'[s] = appSent[s] /\ AppEnd(s)' = AppEnd(s)
    BY <1>2, <1>4, <2>3 DEF Session!vars, Received
  <2>4. CASE appSent'[s] = appSent[s] /\ AppEnd(s) = "open" /\ AppEnd(s)' = "closed"
    <3>1. Session(s)!AppCloses
      BY <1>2, <1>4, <2>4 DEF Session!AppCloses, Received
    <3> QED BY <3>1 DEF Session!Next
  <2> QED BY <1>1, <2>1, <2>2, <2>3, <2>4, AppSends, AppEndMoves
<1> QED BY <1>1, <1>3, <1>4, StepAnswered

\* Before and after a step at which no goroutine of the session is running yet,
\* its target is not connected.
LEMMA NotDialled ==
  ASSUME RelayInv, NEW s \in Sessions, \A w \in Sockets : ~Started(s, w)
  PROVE  /\ TargetEnd(s) = "none"
         /\ targetSent[s] = 0 /\ targetGot[s] = << >> /\ Received(s) = << >>
<1>1. \A w \in Sockets : tconn[w][s] = "none"
  BY DEF RelayInv, Dialled, Started
<1>2. TargetEnd(s) = "none"
  BY <1>1 DEF TargetEnd
<1>3. Silent(s)
  BY DEF RelayInv
<1> QED BY <1>2, <1>3 DEF Silent

\* A step that delivers nothing is a dial, a close, or nothing at the target's
\* end.
LEMMA QuietRelays ==
  ASSUME RelayInv, [Next]_vars, OfServer, NEW s \in Sessions, NEW w \in Sockets, Started(s, w),
         targetSent'[s] = targetSent[s], targetGot'[s] = targetGot[s]
  PROVE  Session(s)!Next \/ UNCHANGED Session(s)!vars
<1>1. TypeInv /\ Inv /\ Opened(s) /\ Dialled(s, w)
  BY DEF RelayInv, OwnInv, RoutingInv, Inv
<1>2. TargetEnd(s) = EndOf(tconn[w][s]) /\ TargetEnd(s)' = EndOf(tconn'[w][s])
  BY EndsAt
<1>3. AppEnd(s)' = AppEnd(s) /\ appSent'[s] = appSent[s] /\ Received(s)' = Received(s)
  BY DEF OfServer, poolVars, forwarderVars, AppEnd, Received
<1>4. AppEnd(s) # "none"
  <2>1. fwd[s].pc # "idle"
    BY <1>1 DEF Inv, OneRequest, RequestOnce
  <2> QED BY <1>1, <2>1 DEF Opened, AppEnd
<1>5. CASE Untouched(s, w) \/ HangingUp(s, w)
  <2>1. TargetEnd(s)' = TargetEnd(s)
    BY <1>2, <1>5 DEF Untouched, HangingUp, EndOf
  <2> QED BY <1>3, <2>1 DEF Session!vars, Received
<1>6. CASE Dialling(s, w)
  <2>1. TargetEnd(s) = "none" /\ TargetEnd(s)' = "open"
    BY <1>1, <1>2, <1>6 DEF Dialling, DialTarget, Dialled, EndOf
  <2>2. Session(s)!DialTarget
    BY <1>3, <1>4, <2>1 DEF Session!DialTarget, Received
  <2> QED BY <2>2 DEF Session!Next
<1>7. CASE Ending(s, w) \/ Closing(s, w)
  <2>1. tconn[w][s] # "none"
    BY <1>1, <1>7 DEF Ending, Closing, Dialled
  <2>2. TargetEnd(s) \in {"open", "closed"} /\ TargetEnd(s)' = "closed"
    BY <1>1, <1>2, <1>7, <2>1 DEF Ending, Closing, EndOf, TypeInv, TypeOK, ServerTypeOK
  <2>3. CASE TargetEnd(s) = "open"
    <3>1. Session(s)!TargetCloses
      BY <1>3, <2>2, <2>3 DEF Session!TargetCloses, Received
    <3> QED BY <3>1 DEF Session!Next
  <2>4. CASE TargetEnd(s) = "closed"
    BY <1>3, <2>2, <2>4 DEF Session!vars, Received
  <2> QED BY <2>2, <2>3, <2>4
<1> QED BY <1>1, <1>5, <1>6, <1>7, TargetTouched

\* A step of the server is one of the target's end.
LEMMA ServerRelays ==
  ASSUME RelayInv, [Next]_vars, ServerStep, OfServer, NEW s \in Sessions
  PROVE  Session(s)!Next \/ UNCHANGED Session(s)!vars
<1>1. /\ TypeInv /\ Inv /\ First(s) /\ UpReal
      /\ \A w \in Sockets : Dialled(s, w) /\ Untold(s, w) /\ UpOrder(s, w)
  BY DEF RelayInv, OwnInv, RoutingInv, Inv
<1>2. AppEnd(s)' = AppEnd(s) /\ appSent'[s] = appSent[s] /\ Received(s)' = Received(s)
  BY DEF OfServer, poolVars, forwarderVars, AppEnd, Received
<1>3. CASE \A w \in Sockets : ~Started(s, w)
  <2>1. CASE \A w \in Sockets : ~Started(s, w)'
    <3>1. RelayInv'
      BY StepRelay
    <3>2. TargetEnd(s)' = "none" /\ targetSent'[s] = 0 /\ targetGot'[s] = << >>
      <4>1. \A w \in Sockets : tconn'[w][s] = "none"
        BY <2>1, <3>1 DEF RelayInv, Dialled, Started
      <4>2. Silent(s)'
        BY <3>1 DEF RelayInv
      <4> QED BY <2>1, <4>1, <4>2 DEF TargetEnd, Silent
    <3> QED BY <1>2, <1>3, <3>2, NotDialled DEF Session!vars, Received
  <2>2. CASE \E w \in Sockets : Started(s, w)'
    <3>1. PICK w \in Sockets : ServeTCP(w)
      BY <1>1, <1>3, <2>2, StartedNews
    <3>2. UNCHANGED <<tconn, targetGot, targetSent>>
      BY <3>1 DEF ServeTCP
    <3> QED BY <1>2, <3>2 DEF Session!vars, Received, TargetEnd
  <2> QED BY <2>1, <2>2
<1>4. CASE \E w \in Sockets : Started(s, w)
  <2>1. PICK w \in Sockets : Started(s, w)
    BY <1>4
  <2>2. TargetEnd(s) = EndOf(tconn[w][s]) /\ TargetEnd(s)' = EndOf(tconn'[w][s])
    BY <2>1, EndsAt
  <2>3. CASE \E v \in Sockets : PumpData(v, s) /\ targetSent'[s] = targetSent[s] + 1
    <3>1. PICK v \in Sockets : PumpData(v, s)
      BY <2>3
    <3>2. v = w
      BY <1>1, <2>1, <3>1, StartedOnce DEF PumpData, Started
    <3>3. tconn[w][s] = "open" /\ tconn'[w][s] \in {"open", "closed"} /\ targetGot' = targetGot
      BY <1>1, <3>1, <3>2 DEF PumpData, End, TypeInv, TypeOK, ServerTypeOK
    <3>4. TargetEnd(s) = "open" /\ TargetEnd(s)' \in {"open", "closed"}
      BY <2>2, <3>3 DEF EndOf
    <3>5. Session(s)!TargetSends
      BY <1>2, <2>3, <3>3, <3>4 DEF Session!TargetSends, Received
    <3> QED BY <3>5 DEF Session!Next
  <2>4. CASE \E v \in Sockets : /\ ServeData(v) /\ Request(v).sess = s
                                /\ targetGot'[s] = Append(targetGot[s], Request(v).data)
    <3>1. PICK v \in Sockets : /\ ServeData(v) /\ Request(v).sess = s
                               /\ targetGot'[s] = Append(targetGot[s], Request(v).data)
      BY <2>4
    <3>2. s \in conns[v] /\ tconn[v][s] \in {"open", "eof"} /\ UNCHANGED <<tconn, targetSent>>
      BY <3>1 DEF ServeData, CanWrite
    <3>3. Real(s, v)
      BY <1>1, <3>1, ServedIsReal
    <3>4. v = w
      BY <1>1, <2>1, <3>3, StartedOnce DEF Real, Started
    <3>5. Pumping(s, w)
      BY <1>1, <3>2, <3>3, <3>4 DEF Pumping, Real, Dialled, Running
    <3>6. Request(w).data = Len(targetGot[s]) + 1 /\ Len(targetGot[s]) < appSent[s]
      BY <1>1, <3>1, <3>4, <3>5, UpOrderRead
    <3>7. TargetEnd(s) = "open" /\ TargetEnd(s)' = "open"
      BY <2>2, <3>2, <3>4 DEF EndOf
    <3>8. Session(s)!TargetReceives
      BY <1>2, <3>1, <3>2, <3>4, <3>6, <3>7 DEF Session!TargetReceives, Received
    <3> QED BY <3>8 DEF Session!Next
  <2>5. CASE \E v \in Sockets : /\ WriteFirstFrame(v, s)
                                /\ targetGot'[s] = Append(targetGot[s], task[v][s].first)
    <3>1. PICK v \in Sockets : /\ WriteFirstFrame(v, s)
                               /\ targetGot'[s] = Append(targetGot[s], task[v][s].first)
      BY <2>5
    <3>2. task[v][s].pc = "first" /\ tconn[v][s] \in {"open", "eof"} /\ UNCHANGED <<tconn, targetSent>>
      BY <3>1 DEF WriteFirstFrame, CanWrite
    <3>3. v = w
      BY <1>1, <2>1, <3>2, StartedOnce DEF Started
    <3>4. Early(s)
      <4> SUFFICES ASSUME NEW u \in Sockets, task[u][s].pc \in {"pump", "ended"} PROVE FALSE
        BY DEF Early
      <4>1. u = w
        BY <1>1, <2>1, StartedOnce DEF Started
      <4> QED BY <3>2, <3>3, <4>1
    <3>5. task[w][s].first = 1 /\ appSent[s] = 1
      BY <1>1, <3>2, <3>3, <3>4 DEF First, Untold
    <3>6. targetGot[s] = << >> /\ Len(targetGot[s]) = 0
      BY <1>1, <3>2, <3>3 DEF Untold
    <3>7. TargetEnd(s) = "open" /\ TargetEnd(s)' = "open"
      BY <2>2, <3>2, <3>3 DEF EndOf
    <3>8. Session(s)!TargetReceives
      BY <1>2, <3>1, <3>2, <3>3, <3>5, <3>6, <3>7 DEF Session!TargetReceives, Received
    <3> QED BY <3>8 DEF Session!Next
  <2>6. CASE targetSent'[s] = targetSent[s] /\ targetGot'[s] = targetGot[s]
    BY <2>1, <2>6, QuietRelays
  <2> QED BY <1>1, <2>3, <2>4, <2>5, <2>6, TargetSends, TargetGets
<1> QED BY <1>3, <1>4

\* Whatever happens to its channels, every session is a Relay: its target is
\* dialled once at most, and each end has a prefix of what the other sent.
THEOREM SessionsAreRelays == Spec => ImplementsRelay
<1>1. ASSUME Init, NEW s \in Sessions
      PROVE  Session(s)!Init
  <2>1. conn[s] = "none" /\ appSent[s] = 0 /\ targetSent[s] = 0 /\ targetGot[s] = << >>
    BY <1>1 DEF Init, PoolInit, ForwarderInit, ServerInit
  <2>2. \A w \in Sockets : tconn[w][s] = "none"
    BY <1>1 DEF Init, ServerInit
  <2>3. AppEnd(s) = "none" /\ TargetEnd(s) = "none"
    BY <2>1, <2>2 DEF AppEnd, TargetEnd
  <2>4. Received(s) = << >>
    <3>1. \A w \in Sockets : ~Started(s, w)
      BY <1>1 DEF Init, ServerInit, Started
    <3> QED BY <1>1, <3>1, InitRelay, NotDialled
  <2> QED BY <2>1, <2>3, <2>4 DEF Session!Init, Received
<1>2. ASSUME RelayInv, [Next]_vars, NEW s \in Sessions
      PROVE  Session(s)!Next \/ UNCHANGED Session(s)!vars
  <2>1. CASE ServerStep /\ OfServer
    BY <1>2, <2>1, ServerRelays
  <2>2. CASE UNCHANGED serverVars
    BY <1>2, <2>2, ClientRelays
  <2> QED BY <1>2, <2>1, <2>2 DEF Next, OfPool, OfForwarder, OfNetwork, vars
<1>3. RelayInv /\ [Next]_vars
        => [\A s \in Sessions : Session(s)!Next \/ UNCHANGED Session(s)!vars]_vars
  BY <1>2
<1>4. Init => \A s \in Sessions : Session(s)!Init
  BY <1>1
<1> QED BY InitRelay, StepRelay, <1>3, <1>4, PTL DEF Spec, ImplementsRelay
=============================================================================
