------------------------------ MODULE DnsCodec ------------------------------
(***************************************************************************)
(* The DNS messages of the ECH look-up, byte by byte: buildDNSQuery,       *)
(* parseDNSResponse and parseHTTPSRecord (ech.go).  Offsets are those of   *)
(* the code, which counts from 0.  A loop over bytes is a recursive        *)
(* function of the offset.  The base64 text between the parser and         *)
(* prepareECH, which encodes and decodes the same bytes, is left out.      *)
(***************************************************************************)
EXTENDS Integers, Sequences

TypeHTTPS == 65
KeyECH == 5

At(s, i) == s[i + 1]
Uint16(s, i) == At(s, i) * 256 + At(s, i + 1)
Slice(s, i, j) == SubSeq(s, i + 1, j)

\* A label's length is cut to a byte.
BuildDNSQuery(labels, qtype) ==
  LET name[i \in 0 .. Len(labels)] ==
        IF i = 0 THEN << >> ELSE name[i - 1] \o <<Len(labels[i]) % 256>> \o labels[i]
  IN <<0, 1, 1, 0, 0, 1, 0, 0, 0, 0, 0, 0>>
       \o name[Len(labels)] \o <<0, qtype \div 256, qtype % 256, 0, 1>>

\* Where the labels that start at "from" end: at a zero, or outside.
SkipLabels(s, from) ==
  LET skip[i \in Nat] == IF i < Len(s) /\ At(s, i) # 0 THEN skip[i + At(s, i) + 1] ELSE i
  IN skip[from]

\* A name is a pointer or labels; labels that end in a pointer are misread.
SkipName(s, i) == IF At(s, i) >= 192 THEN i + 2 ELSE SkipLabels(s, i) + 1

ParseHTTPSRecord_First(data) ==   \* mutant: the key is not looked at
  LET i == SkipLabels(data, 2) + 1
  IN IF i + 4 > Len(data) \/ i + 4 + Uint16(data, i + 2) > Len(data) THEN << >>
     ELSE Slice(data, i + 4, i + 4 + Uint16(data, i + 2))

\* Behind the priority and the target: the first parameter with the key, if no
\* earlier one is cut off.
ParseHTTPSRecord(data) ==
  LET param[i \in Nat] ==
        IF i + 4 > Len(data) \/ i + 4 + Uint16(data, i + 2) > Len(data) THEN << >>
        ELSE LET next == i + 4 + Uint16(data, i + 2)
             IN IF Uint16(data, i) = KeyECH THEN Slice(data, i + 4, next) ELSE param[next]
  IN IF Len(data) < 2 THEN << >> ELSE param[SkipLabels(data, 2) + 1]

\* The first configuration in the answers; << >> when there is none, or when the
\* response is no response.  Neither the response code nor the names are looked
\* at.
ParseDNSResponse(response) ==
  LET length == Len(response)
      answer[n \in Nat, i \in Nat] ==
        IF n = 0 \/ i >= length THEN << >>
        ELSE LET fixed == SkipName(response, i)       \* type, class, TTL, length
                 from == fixed + 10
             IN IF from > length THEN << >>
                ELSE LET next == from + Uint16(response, fixed + 8)
                         ech == IF next <= length /\ Uint16(response, fixed) = TypeHTTPS
                                THEN ParseHTTPSRecord(Slice(response, from, next)) ELSE << >>
                     IN IF next > length \/ ech # << >> THEN ech ELSE answer[n - 1, next]
  IN IF length < 12 THEN << >>
     ELSE answer[Uint16(response, 6), SkipLabels(response, 12) + 5]
=============================================================================
