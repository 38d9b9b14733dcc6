------------------------------- MODULE MCEch --------------------------------
(* A resolver for TLC, written from RFC 1035 and RFC 9460. *)
EXTENDS EchDial

MCDomain == <<<<104, 5>>, <<101>>>>

\* The question of a query: its labels, type and class, when it is a query.
Question(query) ==
  LET labels[i \in Nat] == IF i > Len(query) \/ query[i] = 0 THEN << >>
                           ELSE <<SubSeq(query, i + 1, i + query[i])>> \o labels[i + query[i] + 1]
  IN [name |-> labels[13], rest |-> SubSeq(query, Len(query) - 4, Len(query))]

Sized(s) == <<Len(s) \div 256, Len(s) % 256>> \o s
Record(name, type, data) == name \o <<0, type, 0, 1, 0, 0, 5, 65>> \o Sized(data)
Pointer == <<192, 12>>
Whole == <<1, 5, 1, 65, 0>>
Mixed == <<1, 65>> \o Pointer
Cname(name) == Record(name, 5, Whole)
Https(name, target, params) == Record(name, 65, <<0, 1>> \o target \o params)
ALPN == <<0, 1>> \o Sized(<<2, 104, 50>>)
ECH(list) == <<0, 5>> \o Sized(list)
Hint == <<0, 4>> \o Sized(<<192, 0, 2, 1>>)

Response(query, n, records) ==
  SubSeq(query, 1, 2) \o <<129, 128, 0, 1, 0, n, 0, 0, 0, 0>> \o SubSeq(query, 13, Len(query)) \o records

\* The forms a usable answer takes: behind an alias or a record without ECH, among
\* other parameters, with names whole or not.
Usable(query, list) ==
  {Response(query, 1, Https(Pointer, <<0>>, ECH(list))),
   Response(query, 1, Https(Whole, Whole, ALPN \o ECH(list) \o Hint)),
   Response(query, 2, Cname(Pointer) \o Https(Whole, <<0>>, ALPN \o ECH(list))),
   Response(query, 2, Https(Pointer, <<0>>, ALPN \o ECH(<< >>) \o Hint) \o Https(Pointer, <<0>>, ECH(list)))}
MCAnswers(query, key) ==
  IF Question(query) = [name |-> MCDomain, rest |-> <<0, 0, 65, 0, 1>>]
  THEN Usable(query, ConfigList(key)) ELSE {Response(query, 0, << >>)}

\* No body, no answer, no configuration, a name the client cannot read, and
\* answers that are cut off.
MCFaultyAnswers(query, key) ==
  {<< >>, Response(query, 0, << >>),
   Response(query, 2, Cname(Pointer) \o Https(Whole, <<0>>, ALPN \o Hint)),
   Response(query, 1, Https(Mixed, <<0>>, ECH(ConfigList(key))))}
  \cup UNION {{SubSeq(r, 1, n) : n \in 12 .. Len(r) - 1} : r \in MCAnswers(query, key)}
=============================================================================
