------------------------------ MODULE UdpWire -------------------------------
(***************************************************************************)
(* The UDP messages of the tunnel protocol, over the connections of Wire.  *)
(***************************************************************************)
EXTENDS Wire

CONSTANTS Targets,   \* destinations, numbers
          IPv6       \* those with an IPv6 address

ASSUME TargetsAssumption == Targets \subseteq Nat \ {0} /\ IPv6 \subseteq Targets

\* UDP_CONNECT and the server's UDP_DATA name an address, UDP_DATA a datagram
UdpTypes == {"UDP_CONNECT", "UDP_CONNECTED", "UDP_ERROR", "UDP_DATA", "UDP_CLOSE"}
UdpMessages == [type : UdpTypes, sess : Sessions, addr : Targets \cup {0}, unit : Nat]
UdpMsg(t, s, a, u) == [type |-> t, sess |-> s, addr |-> a, unit |-> u]
=============================================================================
