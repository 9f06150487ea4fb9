------------------------------- MODULE Checksum -------------------------------
(***************************************************************************)
(* in_cksum, the Internet checksum that trace (Program_1) verifies and     *)
(* rcopy (Program_3, from the course's library) puts into its packets, in  *)
(* the byte order of the little-endian machines the programs are built     *)
(* for, and the definition of RFC 1071 it is compared with: the sum of the *)
(* words in network byte order, every carry added back at once.            *)
(*                                                                         *)
(* Memory is a sequence of bytes.                                          *)
(***************************************************************************)
EXTENDS Integers, Sequences

Byte == 256
Word == Byte * Byte

Bytes == 0 .. (Byte - 1)

\* The byte at an offset from 1, the last byte of an odd length being
\* followed by a zero: answer is 0 when *w is copied into its first byte.
ByteAt(mem, i, len) == IF i <= len THEN mem[i] ELSE 0

\* u_short *w: word k of the first len bytes.
WordAt(mem, k, len) ==
  ByteAt(mem, 2 * k - 1, len) + Byte * ByteAt(mem, 2 * k, len)

\* The number of additions for a given number of bytes.
MutantAdditions(len) == len \div 2

Additions(len) == (len + 1) \div 2

\* The two loops: sum before the carries are added back.
Total(mem, len) ==
  LET sum[k \in 0 .. Additions(len)] ==
        IF k = 0 THEN 0 ELSE sum[k - 1] + WordAt(mem, k, len)
  IN  sum[Additions(len)]

\* (sum >> 16) + (sum & 0xffff), then the carry of that addition; the
\* truncation of answer removes what is left above 16 bits.
MutantFold(sum) == ((sum \div Word) + (sum % Word)) % Word

Fold(sum) ==
  LET once == (sum \div Word) + (sum % Word)
  IN  (once + (once \div Word)) % Word

in_cksum(mem, len) == Word - 1 - Fold(Total(mem, len))

\* ntohs and htons: the bytes of a word change places.
ntohs(w) == Byte * (w % Byte) + (w \div Byte)

\* A word as memory holds it on such a machine, and the word in memory.
HostBytes(w) == <<w % Byte, w \div Byte>>
NetBytes(w)  == HostBytes(ntohs(w))

HostWord(mem, i) == mem[i] + Byte * mem[i + 1]

-----------------------------------------------------------------------------
(* RFC 1071. *)

OnesPlus(a, b) == IF a + b < Word THEN a + b ELSE a + b - Word + 1

NetWordAt(mem, k) == Byte * mem[2 * k - 1] + ByteAt(mem, 2 * k, Len(mem))

OnesSum(mem) ==
  LET words == (Len(mem) + 1) \div 2
      sum[k \in 0 .. words] ==
        IF k = 0 THEN 0 ELSE OnesPlus(sum[k - 1], NetWordAt(mem, k))
  IN  sum[words]

\* A message with its checksum in place adds up to minus zero.
Verifies(mem) == OnesSum(mem) = Word - 1
===============================================================================
