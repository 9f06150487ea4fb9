------------------------------- MODULE RcopyPdu -------------------------------
(***************************************************************************)
(* The packets of rcopy (Program_3, sendrecvpdu.c): sendBuf lays a header  *)
(* with a checksum before the data, the error library (external) may       *)
(* invert one byte of the packet, recv_buf verifies the checksum and takes *)
(* the packet apart.  Transfer and Session rest on what is shown here: a   *)
(* packet that was damaged is known to be, and any other arrives as sent.  *)
(*                                                                         *)
(* Sizes are those of the source; sequence numbers, flags and data are     *)
(* chosen from sets of values at the edges of their ranges.                *)
(***************************************************************************)
EXTENDS Checksum

CONSTANTS Seqs,   \* sequence numbers (32 bits)
          Flags,  \* flags (8 bits)
          Data,   \* the data of packets
          None, CRC_ERROR

HEADER_SIZE == 7
MAX_LEN     == 1500

\* A number whose high half is a word has 32 bits.
ASSUME PduAssumption ==
  /\ \A n \in Seqs : n \in Nat /\ n \div Word < Word
  /\ Flags \subseteq Bytes
  /\ \A d \in Data : d \in Seq(Bytes) /\ HEADER_SIZE + Len(d) <= MAX_LEN

VARIABLES
  wire,      \* the packet under way, None before and after
  packet,    \* what sendBuf was called with last
  damaged,   \* the library inverted a byte of it
  received   \* what recv_buf made of it, None before

vars == <<wire, packet, damaged, received>>

-----------------------------------------------------------------------------

htonl(n) == LET low == n % Word
                high == n \div Word
            IN  NetBytes(high) \o NetBytes(low)

ntohl(mem) == Word * ntohs(HostWord(mem, 1)) + ntohs(HostWord(mem, 3))

Layout(p, checksum) == htonl(p.seq) \o HostBytes(checksum) \o <<p.flag>> \o p.data

\* The length in_cksum is called with.
SendingLen(p) == HEADER_SIZE + Len(p.data)

sendBuf(p) ==
  /\ wire = None
  /\ wire' = Layout(p, in_cksum(Layout(p, 0), SendingLen(p)))
  /\ packet' = p
  /\ damaged' = FALSE /\ received' = None

\* errorFlipBits of the error library, at most once in a packet.
FlipByte(i) ==
  /\ wire # None /\ ~ damaged
  /\ wire' = [wire EXCEPT ![i] = Byte - 1 - @]
  /\ damaged' = TRUE
  /\ UNCHANGED <<packet, received>>

\* The packet with its checksum cleared.
Cleared(mem) == [mem EXCEPT ![5] = 0, ![6] = 0]

\* What is copied out of a packet.
Payload(mem) == SubSeq(mem, HEADER_SIZE + 1, Len(mem))

recv_buf ==
  /\ wire # None
  /\ received' =
       IF in_cksum(Cleared(wire), Len(wire)) # HostWord(wire, 5) THEN CRC_ERROR
       ELSE [seq |-> ntohl(wire), flag |-> wire[7], data |-> Payload(wire)]
  /\ wire' = None
  /\ UNCHANGED <<packet, damaged>>

Packets == [seq : Seqs, flag : Flags, data : Data]

Init == wire = None /\ packet = None /\ damaged = FALSE /\ received = None

Next ==
  \/ \E p \in Packets : sendBuf(p)
  \/ wire # None /\ \E i \in DOMAIN wire : FlipByte(i)
  \/ recv_buf

Spec == Init /\ [][Next]_vars

-----------------------------------------------------------------------------
(* Properties. *)

\* A packet the library did not touch arrives as it was sent; one with an
\* inverted byte is refused, wherever the byte is: in the checksum itself, or
\* the odd byte at the end, where 0 becomes 255.
DamageIsNoticed ==
  received # None => received = (IF damaged THEN CRC_ERROR ELSE packet)

\* Adding the words of the machine first and the carries at the end comes to
\* the checksum of RFC 1071, of every packet, intact or not.
AgreesWithRfc ==
  wire # None => in_cksum(wire, Len(wire)) = ntohs(Word - 1 - OnesSum(wire))
===============================================================================
