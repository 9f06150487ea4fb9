--------------------------------- MODULE Trace ---------------------------------
(***************************************************************************)
(* trace (Program_1): pcap_loop hands one captured packet after the other  *)
(* to packetHandler, which prints the headers it knows and says of the IP  *)
(* and TCP checksums whether they are correct.  It does so by computing    *)
(* them again, on the words of the machine and not of the network, the TCP *)
(* one in a buffer that all packets share.                                 *)
(*                                                                         *)
(* A packet is its Ethernet type and the bytes behind the Ethernet header. *)
(* Of what is printed the model keeps whatever trace converts or chooses:  *)
(* names, numbers, flags and verdicts.  Addresses, sequence numbers and    *)
(* the like, which are printed as they are, are left out.                  *)
(***************************************************************************)
EXTENDS Checksum

CONSTANTS
  Captured,    \* the packets a capture file may hold: [type, mem, sent]
  MaxPackets,  \* bound: packets in the file
  None

ETHERTYPE_IP  == 2048
ETHERTYPE_ARP == 2054
IPPROTO_ICMP  == 1
IPPROTO_TCP   == 6
IPPROTO_UDP   == 17

ARP_REQUEST    == 1
ICMP_ECHOREPLY == 0
ICMP_ECHO      == 8

TH_FIN == 1
TH_SYN == 2
TH_RST == 4
TH_ACK == 16

PSEUDO_HEADER_SIZE == 12

ASSUME TraceAssumption ==
  MaxPackets \in Nat /\ \A p \in Captured : p.mem \in Seq(Bytes)

VARIABLES
  pnum,
  ptr,      \* the shared buffer, up to its last byte that was written
  packet,   \* the packet packetHandler was called with last
  printed   \* what it printed

vars == <<pnum, ptr, packet, printed>>

-----------------------------------------------------------------------------
(* struct iphdr and what follows it. *)

HeaderLength(mem) == 4 * (mem[1] % 16)
TotLen(mem)       == ntohs(HostWord(mem, 3))
Protocol(mem)     == mem[10]
Check(mem)        == HostWord(mem, 11)

\* packet + sizeof(struct ether_header) + ihl * 4.
MutantTransport(mem) == SubSeq(mem, 21, Len(mem))

Transport(mem) == SubSeq(mem, HeaderLength(mem) + 1, Len(mem))

PrintUDPHeader(mem) ==
  [source |-> ntohs(HostWord(mem, 1)), dest |-> ntohs(HostWord(mem, 3))]

PrintICMPHeader(mem) ==
  [type |-> CASE mem[1] = ICMP_ECHO      -> <<"Request">>
              [] mem[1] = ICMP_ECHOREPLY -> <<"Reply">>
              [] OTHER                   -> <<"Type", mem[1]>>]

TcpPort(port) == IF port = 80 THEN <<"HTTP">> ELSE <<"Port", port>>

\* tcpHeader->th_flags & a flag.
FlagBit(mem, flag) == (mem[14] \div flag) % 2 = 1

\* The acknowledgement number, of 32 bits, as its bytes; it is <not valid>
\* without its flag.
PrintTCPHeader(mem) ==
  [source    |-> TcpPort(ntohs(HostWord(mem, 1))),
   dest      |-> TcpPort(ntohs(HostWord(mem, 3))),
   acknumber |-> IF FlagBit(mem, TH_ACK) THEN <<mem[9], mem[10], mem[11], mem[12]>>
                                         ELSE <<>>,
   ack       |-> FlagBit(mem, TH_ACK),
   syn       |-> FlagBit(mem, TH_SYN),
   rst       |-> FlagBit(mem, TH_RST),
   fin       |-> FlagBit(mem, TH_FIN),
   window    |-> ntohs(HostWord(mem, 15))]

PrintProtocol(proto) ==
  CASE proto = IPPROTO_UDP  -> "UDP"
    [] proto = IPPROTO_ICMP -> "ICMP"
    [] proto = IPPROTO_TCP  -> "TCP"
    [] OTHER                -> "Unknown"

PrintTransport(mem) ==
  CASE Protocol(mem) = IPPROTO_UDP  -> PrintUDPHeader(Transport(mem))
    [] Protocol(mem) = IPPROTO_ICMP -> PrintICMPHeader(Transport(mem))
    [] Protocol(mem) = IPPROTO_TCP  -> PrintTCPHeader(Transport(mem))
    [] OTHER -> None

-----------------------------------------------------------------------------
(* The checksums. *)

\* ipHeader->check = 0 before the sum is taken.
MutantIpCleared(mem) == mem

IpCleared(mem) == [mem EXCEPT ![11] = 0, ![12] = 0]

IpCorrect(mem) == in_cksum(IpCleared(mem), HeaderLength(mem)) = Check(mem)

\* An unsigned short: a tot_len below the header's length wraps.
MutantTcpLength(mem) == Len(Transport(mem))

TcpLength(mem) == (TotLen(mem) - HeaderLength(mem)) % Word

PseudoHeader(mem) ==
  SubSeq(mem, 13, 20) \o <<0, IPPROTO_TCP>> \o HostBytes(ntohs(TcpLength(mem)))

\* tcp->th_sum, and the segment without it.
ThSum(seg)      == HostWord(seg, 17)
TcpCleared(seg) == [seg EXCEPT ![17] = 0, ![18] = 0]

\* The bytes memcpy takes were captured.
Complete(mem) == TcpLength(mem) <= Len(Transport(mem))

\* calculate_tcp_checksum, with what is printed as correct.  Bytes beyond the
\* captured ones may hold anything.
calculate_tcp_checksum(mem, correct) ==
  \/ /\ Complete(mem)
     /\ ptr' = PseudoHeader(mem)
                 \o SubSeq(TcpCleared(Transport(mem)), 1, TcpLength(mem))
     /\ correct = (ntohs(in_cksum(ptr', PSEUDO_HEADER_SIZE + TcpLength(mem)))
                     = ntohs(ThSum(Transport(mem))))
  \/ /\ ~ Complete(mem)
     /\ ptr' = <<>>
     /\ correct \in BOOLEAN

-----------------------------------------------------------------------------

Init == pnum = 0 /\ ptr = <<>> /\ packet = None /\ printed = None

Printed(kind, ip, tcp, header) ==
  [num |-> pnum + 1, kind |-> kind, ip |-> ip, tcp |-> tcp, header |-> header]

\* Whatever is no request is printed as a reply.
PrintArpHeader(mem) ==
  /\ printed' = Printed("ARP", {}, {},
       [oper |-> IF ntohs(HostWord(mem, 7)) = ARP_REQUEST THEN "Request" ELSE "Reply"])
  /\ UNCHANGED ptr

PrintIpHeader(mem) ==
  \E ip, tcp \in SUBSET BOOLEAN :
    /\ ip = {IpCorrect(mem)}
    /\ \/ /\ Protocol(mem) = IPPROTO_TCP
          /\ \E correct \in BOOLEAN :
               calculate_tcp_checksum(mem, correct) /\ tcp = {correct}
       \/ /\ Protocol(mem) # IPPROTO_TCP
          /\ tcp = {} /\ UNCHANGED ptr
    /\ printed' = Printed("IP", ip, tcp,
         [length |-> HeaderLength(mem), total |-> TotLen(mem),
          protocol |-> PrintProtocol(Protocol(mem)), transport |-> PrintTransport(mem)])

packetHandler(p) ==
  /\ pnum < MaxPackets
  /\ pnum' = pnum + 1
  /\ packet' = p
  /\ \/ p.type = ETHERTYPE_ARP /\ PrintArpHeader(p.mem)
     \/ p.type = ETHERTYPE_IP /\ PrintIpHeader(p.mem)
     \/ /\ p.type \notin {ETHERTYPE_ARP, ETHERTYPE_IP}
        /\ printed' = Printed("other", {}, {}, None)
        /\ UNCHANGED ptr

\* pcap_loop.
Next == \E p \in Captured : packetHandler(p)

Spec == Init /\ [][Next]_vars

-----------------------------------------------------------------------------
(* Properties. *)

IpHeader(mem) == SubSeq(mem, 1, HeaderLength(mem))

\* What RFC 793 covers: addresses, protocol, length and segment.
TcpCovered(mem) ==
  SubSeq(mem, 13, 20) \o <<0, IPPROTO_TCP>> \o NetBytes(TotLen(mem) - HeaderLength(mem))
    \o SubSeq(mem, HeaderLength(mem) + 1, TotLen(mem))

\* The receiver's rule of RFC 1071: the sum of everything, the checksum
\* included, is minus zero.  trace computes the sum without it and compares;
\* the two differ for a checksum of minus zero only, which no sender computes
\* and trace never calls correct.
Agrees(correct, covered, checksum) ==
  correct = (Verifies(covered) /\ checksum # Word - 1)

\* The verdict on the IP header is the receiver's, with and without options.
IpVerdictRight ==
  printed # None /\ printed.kind = "IP" =>
    \A correct \in printed.ip :
      Agrees(correct, IpHeader(packet.mem), Check(packet.mem))

\* The verdict on the TCP segment of a whole packet is the receiver's, of odd
\* and even length, with padding behind it, and whatever packets came before
\* and used the buffer.
TcpVerdictRight ==
  printed # None /\ printed.tcp # {} /\ Complete(packet.mem)
    /\ HeaderLength(packet.mem) <= TotLen(packet.mem) =>
    \A correct \in printed.tcp :
      Agrees(correct, TcpCovered(packet.mem), ThSum(Transport(packet.mem)))

\* Whoever reads a port learns the one the sender put there.
PortTold(text, port) == text = <<"Port", port>> \/ (text = <<"HTTP">> /\ port = 80)

\* RFC 826 knows two operations.
ArpTold(header, sent) ==
  sent.oper \in {1, 2} => (header.oper = "Request" <=> sent.oper = 1)

IcmpTold(header, sent) ==
  \/ header.type = <<"Type", sent.type>>
  \/ (header.type = <<"Request">> /\ sent.type = 8)
  \/ (header.type = <<"Reply">> /\ sent.type = 0)

\* sent.flags names the flags of RFC 793 that are set.
TcpTold(header, sent) ==
  /\ PortTold(header.source, sent.source) /\ PortTold(header.dest, sent.dest)
  /\ header.acknumber = IF "ACK" \in sent.flags THEN sent.acknumber ELSE <<>>
  /\ header.ack = ("ACK" \in sent.flags) /\ header.syn = ("SYN" \in sent.flags)
  /\ header.rst = ("RST" \in sent.flags) /\ header.fin = ("FIN" \in sent.flags)
  /\ header.window = sent.window

\* The numbers RFC 790 gives the protocols that have a name here.
Numbers == [ICMP |-> 1, TCP |-> 6, UDP |-> 17]

IpTold(header, sent) ==
  /\ header.length = 4 * sent.ihl /\ header.total = sent.total
  /\ \A name \in DOMAIN Numbers : header.protocol = name <=> sent.proto = Numbers[name]
  /\ sent.proto = 1 => IcmpTold(header.transport, sent)
  /\ sent.proto = 6 => TcpTold(header.transport, sent)
  /\ sent.proto = 17 =>
       header.transport.source = sent.source /\ header.transport.dest = sent.dest

\* Packets are numbered, and what is printed of the headers tells a reader what
\* the sender put into them, with and without IP options: lengths, ports, the
\* four flags and the acknowledgement number that one of them makes valid, and
\* what has a name here.  (Other protocols are "Unknown" to trace, other ARP
\* operations than the two a "Reply", and the other flags are not printed.)
PrintsTheHeaders ==
  printed # None =>
    /\ printed.num = pnum
    /\ printed.kind = "ARP" => ArpTold(printed.header, packet.sent)
    /\ printed.kind = "IP"  => IpTold(printed.header, packet.sent)
===============================================================================
