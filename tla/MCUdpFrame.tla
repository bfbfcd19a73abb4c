----------------------------- MODULE MCUdpFrame -----------------------------
(* Requests at and beyond the limits of encapsulate_udp, with length fields  *)
(* that hold little more than the headers; chains of extension headers up to *)
(* one more than are walked, with one that is not known behind them or not.  *)
EXTENDS UdpFrame

HostA == <<10, 0, 0, 1>>
HostB == <<255, 255, 0, 2>>
HostC == [i \in 1 .. 16 |-> 255]
HostD == [i \in 1 .. 16 |-> i]

Datagram(link, src, dst, src_port, dst_port, payload) ==
  [link |-> link, src |-> src, dst |-> dst,
   src_port |-> src_port, dst_port |-> dst_port, payload |-> payload]

(* The payload that brings the checksum of the datagram to zero.             *)
Compensating(r) ==
  [r EXCEPT !.payload = Word(UdpChecksum(r, SubSeq(UdpSegment(r), 1, 6) \o Zeros(4)))]

Plain(link, src, dst, payload) == Datagram(link, src, dst, 5004, 65535, payload)

Hosts == {<<HostA, HostB>>, <<HostC, HostD>>}

SomeRequests ==
  {Plain(link, h[1], h[2], payload) :
     link \in {EN10MB, LINUX_SLL, RAW}, h \in Hosts,
     payload \in {<<>>, <<128, 0, 17>>}}
  \cup {Compensating(Plain(RAW, h[1], h[2], <<0, 0>>)) : h \in Hosts}
  \cup {Plain(RAW, h[1], h[2], Zeros(n)) :
          h \in Hosts, n \in {LengthMax - 28, LengthMax - 27,
                              LengthMax - 8, LengthMax - 7}}
  \cup {Plain(RAW, HostA, HostD, <<>>), Plain(RAW, HostA, None, <<>>),
        Plain(105, HostA, HostB, <<>>),
        Datagram(RAW, HostA, HostB, -1, 0, <<>>),
        Datagram(RAW, HostA, HostB, 0, 65536, <<>>)}

Header(type, units) == [header |-> type, units |-> units]

SomeHeaders ==
  {Header(0, 0), Header(43, 1), Header(FRAGMENT, 0), Header(FRAGMENT, 7)}

SomeChains ==
  BoundedSeq(SomeHeaders, 2)
    \cup {[i \in 1 .. n |-> Header(60, 0)] : n \in {8, 9}}
    \cup {[i \in 1 .. n |-> Header(60, 0)] \o <<Header(51, 0)>> : n \in {0, 1, 8}}
=============================================================================
