------------------------------ MODULE MCProxy -------------------------------
(* Scripts and datagrams for TLC. *)
EXTENDS Proxy

Payloads == {<< >>, <<"unit">>, <<"unit", "unit">>}
MCScripts ==
  {<<"5", m>> \o a \o <<r>> \o p :
     m \in {"methods", "methods+auth"}, a \in {<< >>, <<"auth right">>, <<"auth wrong">>},
     r \in {"connect", "udp", "bind", "bad atyp"}, p \in Payloads}
  \cup {<<"letter", l>> \o h \o <<"blank">> \o p :
          l \in {"CONNECT", "GET"}, p \in Payloads,
          h \in {<< >>}
               \cup {<<x>> : x \in {"h right", "h wrong", "h length", "h no length"}}
               \cup {<<x, y>> : x \in {"h right", "h other", "h length", "h no length"},
                                y \in {"h right", "h wrong", "h length", "h no length"}}}
  \cup {<<"other">>, <<"letter", "bad line", "blank">>, <<"letter", "bad URL", "blank">>}

\* Each address type, each way to be wrong, and each length at which a field is
\* cut off; the other bytes tell their places apart.
Raw(rsv, frag, atyp, fifth, n) ==
  [i \in 1 .. n |-> IF i = 1 THEN 0 ELSE IF i = 2 THEN rsv ELSE IF i = 3 THEN frag
                    ELSE IF i = 4 THEN atyp ELSE IF i = 5 THEN fifth ELSE i]
MCPackets == {Raw(0, 0, t, f, n) : t \in {1, 3, 4}, f \in {0, 1, 9}, n \in {8, 9, 10, 11, 16, 17, 21, 22, 23}}
               \cup {Raw(1, 0, 1, 1, 10), Raw(0, 1, 1, 1, 10), Raw(0, 0, 2, 1, 10), << >>}
MCSources == {[atyp |-> 1, host |-> <<10, 0, 0, 1>>, port |-> 258],
              [atyp |-> 4, host |-> [i \in 1 .. 16 |-> i], port |-> 53]}
=============================================================================
