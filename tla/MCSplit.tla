------------------------------ MODULE MCSplit -------------------------------
EXTENDS Split

Ip(src, dst, protocol) == [is |-> "ipv4", src |-> src, dst |-> dst, protocol |-> protocol]
Transport(protocol, src_port, dst_port) == [is |-> protocol, ports |-> << src_port, dst_port >>]

\* A connection and its replies, the same ports over UDP, a host that talks to
\* itself both ways, a tunnel whose inner packet belongs to the connection, and a
\* frame without IPv4.
MCFrames == {
  << Ip(1, 2, 6), Transport("tcp", 1, 2) >>,
  << Ip(2, 1, 6), Transport("tcp", 2, 1) >>,
  << Ip(1, 2, 17), Transport("udp", 1, 2) >>,
  << Ip(1, 1, 6), Transport("tcp", 1, 2) >>,
  << Ip(1, 1, 6), Transport("tcp", 2, 1) >>,
  << Ip(3, 1, 4), Ip(1, 2, 6), Transport("tcp", 1, 2) >>,
  << Ip(2, 3, 1) >>,
  << >> }

\* Addresses only, with and without protocol, with ports, directed and symmetric.
MCGranularities == {"src-ip", "dst-ip", "tuple3-sym", "tuple4-sym", "tuple5", "tuple5-sym"}
=============================================================================
