----------------------------- MODULE Socks5Udp ------------------------------
(***************************************************************************)
(* The datagrams of a SOCKS5 UDP association, byte by byte:                *)
(* parseSOCKS5UDPPacket and buildSOCKS5UDPPacket (socks5.go).  An address  *)
(* is kept as bytes; its textual form in between (net.IP.String, net.ParseIP) *)
(* is left out.                                                            *)
(***************************************************************************)
EXTENDS Integers, Sequences

Byte == 0 .. 255
Port == {n \in Nat : n < 65536}   \* two bytes
IPv4Addr == 1
DomainAddr == 3
IPv6Addr == 4

HostLengths(atyp) == IF atyp = IPv4Addr THEN {4}
                     ELSE IF atyp = IPv6Addr THEN {16} ELSE 0 .. 255
IsAddress(a) == /\ a.atyp \in {IPv4Addr, DomainAddr, IPv6Addr}
                /\ a.host \in Seq(Byte) /\ Len(a.host) \in HostLengths(a.atyp)
                /\ a.port \in Port

\* What RFC 1928 (section 7) says of a datagram: RSV, FRAG, the address and the
\* data, one behind the other and nothing else.
HostField(a) == IF a.atyp = DomainAddr THEN <<Len(a.host)>> \o a.host ELSE a.host
Datagram(a, data) ==
  <<0, 0, 0, a.atyp>> \o HostField(a) \o <<a.port \div 256, a.port % 256>> \o data

Rejected == [ok |-> FALSE, atyp |-> 0, host |-> << >>, port |-> 0, data |-> << >>]

\* Offsets are those of the code, which counts from 0: the port is at "offset"
\* when the host has been read.
HostFrom_NoLength(packet) == 4   \* mutant: the length byte is not stepped over
HostFrom(packet) == IF packet[4] = DomainAddr THEN 5 ELSE 4
HostLength(packet) == IF packet[4] = IPv4Addr THEN 4
                      ELSE IF packet[4] = IPv6Addr THEN 16 ELSE packet[5]

ParsedAt(packet, from, offset) ==
  [ok |-> TRUE, atyp |-> packet[4],
   host |-> SubSeq(packet, from + 1, offset),
   port |-> packet[offset + 1] * 256 + packet[offset + 2],
   data |-> SubSeq(packet, offset + 3, Len(packet))]

\* A datagram of less than ten bytes is refused, although one to a short domain
\* name with little data is that short.
ParsePacket(packet) ==
  IF \/ Len(packet) < 10
     \/ packet[1] # 0 \/ packet[2] # 0 \/ packet[3] # 0
     \/ packet[4] \notin {IPv4Addr, DomainAddr, IPv6Addr}
     \/ Len(packet) < HostFrom(packet) + HostLength(packet) + 2
  THEN Rejected
  ELSE ParsedAt(packet, HostFrom(packet), HostFrom(packet) + HostLength(packet))

PortBytes_Little(port) == <<port % 256, port \div 256>>   \* mutant: byte order
PortBytes(port) == <<port \div 256, port % 256>>

\* net.ParseIP gives an IPv4 address its four bytes back; a name too long for
\* its length byte is an error, but no answer carries a name.
BuildPacket(a, data) ==
  <<0, 0, 0>>
    \o (IF a.atyp = DomainAddr THEN <<DomainAddr, Len(a.host)>> \o a.host
                               ELSE <<a.atyp>> \o a.host)
    \o PortBytes(a.port) \o data
=============================================================================
