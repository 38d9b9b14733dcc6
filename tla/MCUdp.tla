------------------------------- MODULE MCUdp --------------------------------
(* UdpTunnel with up to two associations, and what bounds the run with two. *)
EXTENDS UdpTunnel

CONSTANTS s1, s2

\* No association has both two datagrams up and two answers.
FewUnits == \A s \in Sessions : Len(sent[s]) + targetSent[s] <= 3

\* The second association starts next to the first and shares its channel, its
\* maps and its stream up, as long as the server has opened nothing for either:
\* what they do to each other they do to the client's maps.
Shared ==
  serve[s2] # "idle" =>
    /\ serve[s1] # "idle"
    /\ control[s2] = "open"
    /\ \A c \in Channels : wsConns[c] <= 1
    /\ \A s \in Sessions : Len(sent[s]) <= 1
    /\ \A w \in Sockets : /\ link[w] # "broken"
                          /\ toClient[w] = << >>
                          /\ \A s \in Sessions : socket[w][s].state = "none"
=============================================================================
