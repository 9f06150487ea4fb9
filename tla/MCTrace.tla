-------------------------------- MODULE MCTrace --------------------------------
(* Packets for TLC, laid out as RFC 791, 793, 768, 792 and 826 say, with     *)
(* right and wrong checksums: with and without IP options, of an odd and an  *)
(* even length, padded and not, sums that come to minus zero included, and   *)
(* with the tot_len of 0 that segmentation offload leaves in a capture.      *)
EXTENDS Trace, FiniteSetsExt, TLC

Zeros(n) == [i \in 1 .. n |-> 0]

IpLayout(ihl, tot, id, proto, check) ==
  <<64 + ihl, 0>> \o NetBytes(tot) \o NetBytes(id) \o <<64, 0, 64, proto>>
    \o NetBytes(check) \o <<192, 168, 1, 2>> \o <<10, 0, 255, 255>> \o Zeros(4 * ihl - 20)

\* The flags of RFC 793, of which trace prints four.
FlagBits == [FIN |-> 1, SYN |-> 2, RST |-> 4, PSH |-> 8, ACK |-> 16, URG |-> 32]

TcpLayout(flags, window, check, data) ==
  NetBytes(80) \o NetBytes(51000) \o Zeros(4) \o <<0, 3, 0, 1>>
    \o <<80, MapThenSumSet(LAMBDA f : FlagBits[f], flags)>>
    \o NetBytes(window) \o NetBytes(check) \o <<0, 0>> \o data

\* The right checksum, one off, both zeros.
Checksums(covered) ==
  LET right == Word - 1 - OnesSum(covered)
  IN  {right, (right + 1) % Word, 0, Word - 1}

\* 0, and the value that makes the right checksum 0.
Balancing(covered) == {0, Word - 1 - OnesSum(covered)}

\* Headers with every kind of checksum, or with the right one only.
Headers(ihl, tot, proto) ==
  UNION {{IpLayout(ihl, tot, id, proto, check) :
            check \in Checksums(IpLayout(ihl, tot, id, proto, 0))} :
         id \in Balancing(IpLayout(ihl, tot, 0, proto, 0))}

RightHeaders(ihl, tot, proto) ==
  {h \in Headers(ihl, tot, proto) : Verifies(h) /\ Check(h) # Word - 1}

\* Packets without options are padded here, those with options are not.
IpPackets(headers(_, _, _), proto, seg, sent) ==
  UNION {{[type |-> ETHERTYPE_IP,
           mem |-> h \o seg \o (IF ihl = 5 THEN <<7, 9>> ELSE <<>>),
           sent |-> [ihl |-> ihl, total |-> total, proto |-> proto] @@ sent] :
            h \in headers(ihl, total, proto)} :
         <<ihl, total>> \in {<<5, 0>>, <<5, 20 + Len(seg)>>, <<6, 24 + Len(seg)>>}}

Pseudo(len) == <<192, 168, 1, 2>> \o <<10, 0, 255, 255>> \o <<0, IPPROTO_TCP>> \o NetBytes(len)

TcpSegments(flags, window) ==
  UNION {{TcpLayout(flags, window, check, data) :
            check \in Checksums(Pseudo(20 + Len(data)) \o TcpLayout(flags, window, 0, data))} :
         data \in {<<>>, <<200>>, <<255, 255>>}}

\* With the window that makes one of the sums minus zero.
TcpPackets(flags) ==
  UNION {UNION {IpPackets(RightHeaders, IPPROTO_TCP, seg,
                          [source |-> 80, dest |-> 51000, acknumber |-> <<0, 3, 0, 1>>,
                           flags |-> flags, window |-> window]) :
                seg \in TcpSegments(flags, window)} :
         window \in Balancing(Pseudo(21) \o TcpLayout(flags, 0, 0, <<200>>))}

Captures ==
  TcpPackets({"SYN", "ACK"}) \cup TcpPackets({"FIN", "PSH"}) \cup TcpPackets({"RST"})
    \cup IpPackets(Headers, IPPROTO_UDP, NetBytes(1000) \o NetBytes(53) \o <<0, 8, 0, 0>>,
                   [source |-> 1000, dest |-> 53])
    \cup UNION {IpPackets(RightHeaders, IPPROTO_ICMP, <<type, 0, 0, 0>>, [type |-> type]) :
                type \in {0, 3, 8}}
    \cup IpPackets(RightHeaders, 2, <<1>>, [data |-> 1])
    \cup {[type |-> ETHERTYPE_ARP,
           mem |-> <<0, 1, 8, 0, 6, 4>> \o NetBytes(oper) \o Zeros(20),
           sent |-> [oper |-> oper]] : oper \in 1 .. 3}
    \cup {[type |-> 34525, mem |-> <<96>>, sent |-> None]}
===============================================================================
