---------------------------- MODULE RcopyPduProofs ----------------------------
(***************************************************************************)
(* The packets of rcopy, for all numbers, flags and data: what recv_buf    *)
(* accepts is what sendBuf was given, and a packet with one inverted byte  *)
(* is refused, wherever the byte is.                                       *)
(***************************************************************************)
EXTENDS RcopyPdu, ChecksumProofs, TLAPS

\* The seven bytes of the header, and the data behind them.
LEMMA LayoutBytes ==
  ASSUME NEW p, p.data \in Seq(Bytes), NEW c, NEW m, m = Layout(p, c)
  PROVE  /\ Len(m) = 7 + Len(p.data) /\ DOMAIN m = 1 .. (7 + Len(p.data))
         /\ m[1] = ntohs(p.seq \div Word) % Byte /\ m[2] = ntohs(p.seq \div Word) \div Byte
         /\ m[3] = ntohs(p.seq % Word) % Byte /\ m[4] = ntohs(p.seq % Word) \div Byte
         /\ m[5] = c % Byte /\ m[6] = c \div Byte /\ m[7] = p.flag
         /\ \A i \in 1 .. Len(p.data) : m[7 + i] = p.data[i]
<1>1. PICK a1, a2, a3, a4, a5, a6, a7, d :
        /\ a1 = ntohs(p.seq \div Word) % Byte /\ a2 = ntohs(p.seq \div Word) \div Byte
        /\ a3 = ntohs(p.seq % Word) % Byte /\ a4 = ntohs(p.seq % Word) \div Byte
        /\ a5 = c % Byte /\ a6 = c \div Byte /\ a7 = p.flag /\ d = p.data
  OBVIOUS
<1>2. PICK S : S = {a1, a2, a3, a4, a5, a6, a7} \cup Bytes
  OBVIOUS
<1>3. /\ a1 \in S /\ a2 \in S /\ a3 \in S /\ a4 \in S /\ a5 \in S /\ a6 \in S /\ a7 \in S
      /\ d \in Seq(S)
  BY <1>1, <1>2
<1>4. PICK h1, h2, h3, h4 : /\ h1 = <<a1, a2>> /\ h2 = h1 \o <<a3, a4>>
                            /\ h3 = h2 \o <<a5, a6>> /\ h4 = h3 \o <<a7>>
  OBVIOUS
<1>5. h1 \in Seq(S) /\ Len(h1) = 2 /\ h1[1] = a1 /\ h1[2] = a2
  BY <1>3, <1>4
<1>6. /\ h2 \in Seq(S) /\ Len(h2) = 4 /\ h2[3] = a3 /\ h2[4] = a4
      /\ \A i \in 1 .. 2 : h2[i] = h1[i]
  <2>1. /\ h2 \in Seq(S) /\ Len(h2) = 2 + 2 /\ h2[2 + 1] = a3 /\ h2[2 + 2] = a4
        /\ \A i \in 1 .. 2 : h2[i] = h1[i]
    BY <1>3, <1>4, <1>5, PairJoined
  <2>2. QED
    BY <2>1
<1>7. /\ h3 \in Seq(S) /\ Len(h3) = 6 /\ h3[5] = a5 /\ h3[6] = a6
      /\ \A i \in 1 .. 4 : h3[i] = h2[i]
  <2>1. /\ h3 \in Seq(S) /\ Len(h3) = 4 + 2 /\ h3[4 + 1] = a5 /\ h3[4 + 2] = a6
        /\ \A i \in 1 .. 4 : h3[i] = h2[i]
    BY <1>3, <1>4, <1>6, PairJoined
  <2>2. QED
    BY <2>1
<1>8. /\ h4 \in Seq(S) /\ Len(h4) = 7 /\ h4[7] = a7
      /\ \A i \in 1 .. 6 : h4[i] = h3[i]
  <2>1. PICK e : e = <<a7>>
    OBVIOUS
  <2>2. e \in Seq(S) /\ Len(e) = 1 /\ e[1] = a7
    BY <1>3, <2>1
  <2>3. h4 = h3 \o e
    BY <1>4, <2>1
  <2>4. /\ h4 \in Seq(S) /\ Len(h4) = Len(h3) + Len(e)
        /\ \A i \in 1 .. Len(h3) : h4[i] = h3[i]
        /\ \A i \in 1 .. Len(e) : h4[Len(h3) + i] = e[i]
    <3>1. h3 \in Seq(S) /\ e \in Seq(S)
      BY <1>7, <2>2
    <3>2. h4 \in Seq(S) /\ Len(h4) = Len(h3) + Len(e)
      BY <2>3, <3>1
    <3>3. \A i \in 1 .. Len(h3) : h4[i] = h3[i]
      BY <2>3, <3>1
    <3>4. \A i \in 1 .. Len(e) : h4[Len(h3) + i] = e[i]
      BY <2>3, <3>1
    <3>5. QED
      BY <3>2, <3>3, <3>4
  <2>5. QED
    BY <1>7, <2>2, <2>4
<1>9. /\ h4[1] = a1 /\ h4[2] = a2 /\ h4[3] = a3 /\ h4[4] = a4
      /\ h4[5] = a5 /\ h4[6] = a6 /\ h4[7] = a7
  BY <1>5, <1>6, <1>7, <1>8
<1>10. m = h4 \o d
  BY <1>1, <1>4 DEF Layout, htonl, NetBytes, HostBytes
<1>11. /\ m \in Seq(S) /\ Len(m) = 7 + Len(d)
       /\ \A i \in 1 .. 7 : m[i] = h4[i]
       /\ \A i \in 1 .. Len(d) : m[7 + i] = d[i]
  <2>1. /\ m \in Seq(S) /\ Len(m) = Len(h4) + Len(d)
        /\ \A i \in 1 .. Len(h4) : m[i] = h4[i]
        /\ \A i \in 1 .. Len(d) : m[Len(h4) + i] = d[i]
    <3>1. h4 \in Seq(S) /\ d \in Seq(S)
      BY <1>3, <1>8
    <3>2. m \in Seq(S) /\ Len(m) = Len(h4) + Len(d)
      BY <1>10, <3>1
    <3>3. \A i \in 1 .. Len(h4) : m[i] = h4[i]
      BY <1>10, <3>1
    <3>4. \A i \in 1 .. Len(d) : m[Len(h4) + i] = d[i]
      BY <1>10, <3>1
    <3>5. QED
      BY <3>2, <3>3, <3>4
  <2>2. QED
    BY <1>8, <2>1
<1>12. DOMAIN m = 1 .. (7 + Len(d))
  BY <1>11
<1>13. QED
  BY <1>1, <1>9, <1>11, <1>12

-----------------------------------------------------------------------------
(* Sending and receiving. *)

\* What sendBuf puts on the wire.
Sealed(p) == Layout(p, in_cksum(Layout(p, 0), SendingLen(p)))

LEMMA PacketFields ==
  ASSUME NEW p \in Packets
  PROVE  /\ p.data \in Seq(Bytes) /\ SendingLen(p) = 7 + Len(p.data)
         /\ SendingLen(p) \in Nat /\ SendingLen(p) <= Word
         /\ IsByte(p.flag)
         /\ p.seq \in Nat /\ IsWord(p.seq \div Word) /\ IsWord(p.seq % Word)
<1>1. p.seq \in Seqs /\ p.flag \in Flags /\ p.data \in Data
  BY DEF Packets
<1>2. p.data \in Seq(Bytes) /\ HEADER_SIZE + Len(p.data) <= MAX_LEN
  BY <1>1, PduAssumption
<1>3. SendingLen(p) = 7 + Len(p.data) /\ SendingLen(p) \in Nat /\ SendingLen(p) <= 1500
  BY <1>2 DEF SendingLen, HEADER_SIZE, MAX_LEN
<1>4. SendingLen(p) <= Word
  BY <1>3, SMT DEF Word, Byte
<1>5. IsByte(p.flag)
  <2>1. p.flag \in Bytes
    BY <1>1, PduAssumption
  <2>2. QED
    BY <2>1 DEF Bytes, Byte, IsByte
<1>6. p.seq \in Nat /\ p.seq \div Word < Word
  BY <1>1, PduAssumption
<1>7. Word = 65536
  BY SMT DEF Word, Byte
<1>8. IsWord(p.seq \div Word)
  BY <1>6, <1>7, SMT DEF IsWord
<1>9. IsWord(p.seq % Word)
  BY <1>6, <1>7, SMT DEF IsWord
<1>10. QED
  BY <1>2, <1>3, <1>4, <1>5, <1>6, <1>8, <1>9

\* A word's bytes as HostBytes lays them out, and back.
LEMMA HostBytesOfWord ==
  ASSUME NEW w, IsWord(w)
  PROVE  /\ IsByte(w % Byte) /\ IsByte(w \div Byte)
         /\ (w % Byte) + Byte * (w \div Byte) = w
<1>1. PICK low, high : IsByte(low) /\ IsByte(high) /\ w = low + 256 * high
  BY BytesOfWord
<1>2. w % Byte = low /\ w \div Byte = high
  BY <1>1, WordOfBytes DEF Byte
<1>3. QED
  BY <1>1, <1>2 DEF Byte

\* A packet is memory, and its checksum can be read back.
LEMMA LayoutIsMemory ==
  ASSUME NEW p \in Packets, NEW c, IsWord(c), NEW m, m = Layout(p, c)
  PROVE  /\ Len(m) = SendingLen(p) /\ DOMAIN m = 1 .. SendingLen(p)
         /\ Memory(m, SendingLen(p)) /\ HostWord(m, 5) = c
<1>1. p.data \in Seq(Bytes) /\ SendingLen(p) = 7 + Len(p.data) /\ SendingLen(p) \in Nat
  BY PacketFields
<1>2. /\ Len(m) = 7 + Len(p.data) /\ DOMAIN m = 1 .. (7 + Len(p.data))
      /\ m[1] = ntohs(p.seq \div Word) % Byte /\ m[2] = ntohs(p.seq \div Word) \div Byte
      /\ m[3] = ntohs(p.seq % Word) % Byte /\ m[4] = ntohs(p.seq % Word) \div Byte
      /\ m[5] = c % Byte /\ m[6] = c \div Byte /\ m[7] = p.flag
      /\ \A i \in 1 .. Len(p.data) : m[7 + i] = p.data[i]
  BY <1>1, LayoutBytes
<1>3. IsWord(ntohs(p.seq \div Word)) /\ IsWord(ntohs(p.seq % Word))
  BY PacketFields, ExchangeMultiplies
<1>4. /\ IsByte(m[1]) /\ IsByte(m[2]) /\ IsByte(m[3]) /\ IsByte(m[4])
      /\ IsByte(m[5]) /\ IsByte(m[6]) /\ IsByte(m[7])
  BY <1>2, <1>3, HostBytesOfWord, PacketFields, Zenon
<1>5. ASSUME NEW i \in 1 .. SendingLen(p) PROVE IsByte(m[i])
  <2>1. CASE i <= 7
    <3>1. i = 1 \/ i = 2 \/ i = 3 \/ i = 4 \/ i = 5 \/ i = 6 \/ i = 7
      BY <1>1, <2>1
    <3>2. QED
      BY <1>4, <3>1, Zenon
  <2>2. CASE i > 7
    <3>1. i - 7 \in 1 .. Len(p.data) /\ 7 + (i - 7) = i
      BY <1>1, <2>2
    <3>2. p.data[i - 7] \in Bytes
      BY <1>1, <3>1
    <3>3. m[i] = p.data[i - 7]
      BY <1>2, <3>1
    <3>4. QED
      BY <3>2, <3>3 DEF Bytes, Byte, IsByte
  <2>3. QED
    BY <1>1, <2>1, <2>2
<1>6. HostWord(m, 5) = m[5] + Byte * m[6]
  BY DEF HostWord
<1>7. (c % Byte) + Byte * (c \div Byte) = c
  BY HostBytesOfWord
<1>8. QED
  BY <1>1, <1>2, <1>5, <1>6, <1>7 DEF Memory

LEMMA SealedChecksum ==
  ASSUME NEW p \in Packets
  PROVE  IsWord(in_cksum(Layout(p, 0), SendingLen(p)))
<1>1. IsWord(0)
  BY SMT DEF IsWord
<1>2. Memory(Layout(p, 0), SendingLen(p)) /\ SendingLen(p) <= Word
  BY <1>1, LayoutIsMemory, PacketFields
<1>3. QED
  BY <1>2, ChecksumIsComplement

\* Without their checksums, two layouts of a packet are the same bytes.
LEMMA LayoutsDiffer ==
  ASSUME NEW p \in Packets, NEW c, NEW k \in 1 .. SendingLen(p)
  PROVE  /\ k # 5 /\ k # 6 => Layout(p, c)[k] = Layout(p, 0)[k]
         /\ Layout(p, 0)[5] = 0 /\ Layout(p, 0)[6] = 0
<1>1. PICK m, z : m = Layout(p, c) /\ z = Layout(p, 0)
  OBVIOUS
<1>2. p.data \in Seq(Bytes) /\ SendingLen(p) = 7 + Len(p.data)
  BY PacketFields
<1>3. /\ m[1] = ntohs(p.seq \div Word) % Byte /\ m[2] = ntohs(p.seq \div Word) \div Byte
      /\ m[3] = ntohs(p.seq % Word) % Byte /\ m[4] = ntohs(p.seq % Word) \div Byte
      /\ m[7] = p.flag /\ \A i \in 1 .. Len(p.data) : m[7 + i] = p.data[i]
  BY <1>1, <1>2, LayoutBytes
<1>4. /\ z[1] = ntohs(p.seq \div Word) % Byte /\ z[2] = ntohs(p.seq \div Word) \div Byte
      /\ z[3] = ntohs(p.seq % Word) % Byte /\ z[4] = ntohs(p.seq % Word) \div Byte
      /\ z[5] = 0 % Byte /\ z[6] = 0 \div Byte
      /\ z[7] = p.flag /\ \A i \in 1 .. Len(p.data) : z[7 + i] = p.data[i]
  BY <1>1, <1>2, LayoutBytes
<1>5. z[5] = 0 /\ z[6] = 0
  BY <1>4 DEF Byte
<1>6. ASSUME k # 5, k # 6 PROVE m[k] = z[k]
  <2>1. CASE k <= 7
    <3>1. k = 1 \/ k = 2 \/ k = 3 \/ k = 4 \/ k = 7
      BY <1>2, <1>6, <2>1
    <3>2. QED
      BY <1>3, <1>4, <3>1, Zenon
  <2>2. CASE k > 7
    <3>1. k - 7 \in 1 .. Len(p.data) /\ 7 + (k - 7) = k
      BY <1>2, <2>2
    <3>2. QED
      BY <1>3, <1>4, <3>1
  <2>3. QED
    BY <1>2, <2>1, <2>2
<1>7. QED
  BY <1>1, <1>5, <1>6

\* recv_buf finds the checksum of what sendBuf has sent right, and takes apart
\* what sendBuf has put together.
LEMMA IntactIsAccepted ==
  ASSUME NEW p \in Packets, NEW m, m = Sealed(p)
  PROVE  /\ in_cksum(Cleared(m), Len(m)) = HostWord(m, 5)
         /\ ntohl(m) = p.seq /\ m[7] = p.flag /\ Payload(m) = p.data
<1>1. PICK c, len : c = in_cksum(Layout(p, 0), SendingLen(p)) /\ len = SendingLen(p)
  OBVIOUS
<1>2. IsWord(c) /\ m = Layout(p, c)
  BY <1>1, SealedChecksum DEF Sealed
<1>3. /\ Len(m) = len /\ DOMAIN m = 1 .. len /\ Memory(m, len) /\ HostWord(m, 5) = c
  BY <1>1, <1>2, LayoutIsMemory
<1>4. len = 7 + Len(p.data) /\ p.data \in Seq(Bytes) /\ len \in Nat
  BY <1>1, PacketFields
<1>5. in_cksum(Cleared(m), len) = c
  <2>1. IsWord(0)
    BY SMT DEF IsWord
  <2>2. Memory(Layout(p, 0), len)
    BY <1>1, <2>1, LayoutIsMemory
  <2>3. ASSUME NEW k \in 1 .. len PROVE Cleared(m)[k] = Layout(p, 0)[k]
    <3>1. Cleared(m)[k] = IF k = 5 \/ k = 6 THEN 0 ELSE m[k]
      BY <1>3, <1>4, <2>3 DEF Cleared
    <3>2. /\ k # 5 /\ k # 6 => m[k] = Layout(p, 0)[k]
          /\ Layout(p, 0)[5] = 0 /\ Layout(p, 0)[6] = 0
      BY <1>1, <1>2, LayoutsDiffer
    <3>3. QED
      BY <3>1, <3>2
  <2>4. QED
    BY <1>1, <2>2, <2>3, CopyHasTheChecksum
<1>6. /\ m[1] = ntohs(p.seq \div Word) % Byte /\ m[2] = ntohs(p.seq \div Word) \div Byte
      /\ m[3] = ntohs(p.seq % Word) % Byte /\ m[4] = ntohs(p.seq % Word) \div Byte
      /\ m[7] = p.flag /\ \A i \in 1 .. Len(p.data) : m[7 + i] = p.data[i]
  BY <1>2, <1>4, LayoutBytes
<1>7. ntohl(m) = p.seq
  <2>1. PICK h, l : h = p.seq \div Word /\ l = p.seq % Word
    OBVIOUS
  <2>2. IsWord(h) /\ IsWord(l) /\ p.seq \in Nat
    BY <2>1, PacketFields
  <2>3. IsWord(ntohs(h)) /\ IsWord(ntohs(l)) /\ ntohs(ntohs(h)) = h /\ ntohs(ntohs(l)) = l
    BY <2>2, ExchangeMultiplies, ExchangeTwice
  <2>4. HostWord(m, 1) = ntohs(h) /\ HostWord(m, 3) = ntohs(l)
    <3>1. HostWord(m, 1) = m[1] + Byte * m[2] /\ HostWord(m, 3) = m[3] + Byte * m[4]
      BY DEF HostWord
    <3>2. QED
      BY <1>6, <2>1, <2>3, <3>1, HostBytesOfWord
  <2>5. ntohl(m) = Word * h + l
    BY <2>3, <2>4 DEF ntohl
  <2>6. p.seq = Word * h + l
    <3>1. Word = 65536
      BY SMT DEF Word, Byte
    <3>2. PICK n : n = p.seq
      OBVIOUS
    <3>3. n \in Nat /\ h = n \div 65536 /\ l = n % 65536
      BY <2>1, <2>2, <3>1, <3>2, SMT
    <3>4. n = 65536 * h + l
      BY <3>3, SMT
    <3>5. QED
      BY <3>1, <3>2, <3>4, SMT
  <2>7. QED
    BY <2>5, <2>6
<1>8. Payload(m) = p.data
  <2>1. PICK d, n : d = SubSeq(m, 8, len) /\ n = Len(p.data)
    OBVIOUS
  <2>2. n \in Nat /\ len = 7 + n
    BY <1>4, <2>1
  <2>3. \A i \in 8 .. len : m[i] \in Bytes
    <3> TAKE i \in 8 .. len
    <3>1. PICK j : j = i - 7
      OBVIOUS
    <3>2. j \in 1 .. Len(p.data) /\ 7 + j = i
      BY <1>4, <3>1
    <3>3. m[7 + j] = p.data[j]
      BY <1>6, <3>2
    <3>4. p.data[j] \in Bytes
      BY <1>4, <3>2
    <3>5. QED
      BY <3>2, <3>3, <3>4
  <2>4. /\ d \in Seq(Bytes) /\ Len(d) = IF 8 <= len THEN len - 8 + 1 ELSE 0
        /\ \A i \in 1 .. len - 8 + 1 : d[i] = m[8 + i - 1]
    BY <2>1, <2>2, <2>3, SubSeqProperties
  <2>5. Len(d) = Len(p.data)
    BY <2>1, <2>2, <2>4
  <2>6. \A i \in 1 .. Len(d) : d[i] = p.data[i]
    <3> TAKE i \in 1 .. Len(d)
    <3>1. i \in 1 .. len - 8 + 1 /\ 8 + i - 1 = 7 + i /\ i \in 1 .. Len(p.data)
      BY <2>1, <2>2, <2>5
    <3>2. QED
      BY <1>6, <2>4, <3>1
  <2>7. d = p.data
    BY <1>4, <2>4, <2>5, <2>6, SeqEqual
  <2>8. QED
    BY <1>3, <2>1, <2>7 DEF Payload, HEADER_SIZE
<1>9. QED
  BY <1>3, <1>5, <1>6, <1>7, <1>8

\* One inverted byte: recv_buf finds the checksum of the others, or the
\* checksum itself, wrong.
LEMMA DamagedIsRefused ==
  ASSUME NEW p \in Packets, NEW i \in DOMAIN Sealed(p),
         NEW w, w = [Sealed(p) EXCEPT ![i] = Byte - 1 - @]
  PROVE  in_cksum(Cleared(w), Len(w)) # HostWord(w, 5)
<1>1. PICK c, len, m, z : /\ c = in_cksum(Layout(p, 0), SendingLen(p))
                          /\ len = SendingLen(p) /\ m = Layout(p, c) /\ z = Layout(p, 0)
  OBVIOUS
<1>2. IsWord(c) /\ m = Sealed(p)
  BY <1>1, SealedChecksum DEF Sealed
<1>3. /\ Len(m) = len /\ DOMAIN m = 1 .. len /\ Memory(m, len) /\ HostWord(m, 5) = c
  BY <1>1, <1>2, LayoutIsMemory
<1>4. len \in Nat /\ 7 <= len /\ len <= Word
  BY <1>1, PacketFields
<1>5. DOMAIN w = 1 .. len /\ \A k \in 1 .. len : w[k] = IF k = i THEN 255 - m[k] ELSE m[k]
  BY <1>2, <1>3 DEF Byte
<1>6. Len(w) = len
  BY <1>4, <1>5
<1>7. DOMAIN Cleared(w) = 1 .. len
      /\ \A k \in 1 .. len : Cleared(w)[k] = IF k = 5 \/ k = 6 THEN 0 ELSE w[k]
  BY <1>4, <1>5 DEF Cleared
<1>8. Memory(z, len)
  <2>1. IsWord(0)
    BY SMT DEF IsWord
  <2>2. QED
    BY <1>1, <2>1, LayoutIsMemory
<1>9. \A k \in 1 .. len : z[k] = IF k = 5 \/ k = 6 THEN 0 ELSE m[k]
  <2> TAKE k \in 1 .. len
  <2>1. /\ k # 5 /\ k # 6 => m[k] = z[k]
        /\ z[5] = 0 /\ z[6] = 0
    BY <1>1, LayoutsDiffer
  <2>2. QED
    BY <2>1
<1>10. i \in 1 .. len
  BY <1>2, <1>3
<1>11. CASE i = 5 \/ i = 6
  <2>1. \A k \in 1 .. len : Cleared(w)[k] = z[k]
    BY <1>5, <1>7, <1>9, <1>11
  <2>2. in_cksum(Cleared(w), len) = c
    <3>1. \A k \in 1 .. len : Cleared(w)[k] = z[k]
      BY <2>1
    <3>2. in_cksum(Cleared(w), len) = in_cksum(z, len)
      BY ONLY <1>8, <3>1, CopyHasTheChecksum
    <3>3. QED
      BY <1>1, <3>2
  <2>3. PICK x, y : x = m[5] /\ y = m[6]
    OBVIOUS
  <2>4. x \in Nat /\ y \in Nat /\ x < 256 /\ y < 256 /\ c = x + 256 * y
    <3>1. IsByte(m[5]) /\ IsByte(m[6])
      BY <1>3, <1>4 DEF Memory
    <3>2. QED
      BY <1>3, <2>3, <3>1 DEF HostWord, Byte, IsByte
  <2>5. HostWord(w, 5) = w[5] + 256 * w[6]
    BY DEF HostWord, Byte
  <2>6. CASE i = 5
    <3>1. w[5] = 255 - x /\ w[6] = y
      BY <1>4, <1>5, <2>3, <2>6
    <3>2. (255 - x) + 256 * y # x + 256 * y
      BY <2>4
    <3>3. QED
      BY <1>6, <2>2, <2>4, <2>5, <3>1, <3>2
  <2>7. CASE i = 6
    <3>1. w[5] = x /\ w[6] = 255 - y
      BY <1>4, <1>5, <2>3, <2>7
    <3>2. x + 256 * (255 - y) # x + 256 * y
      BY <2>4
    <3>3. QED
      BY <1>6, <2>2, <2>4, <2>5, <3>1, <3>2
  <2>8. QED
    BY <1>11, <2>6, <2>7
<1>12. CASE i # 5 /\ i # 6
  <2>1. HostWord(w, 5) = c
    <3>1. w[5] = m[5] /\ w[6] = m[6]
      BY <1>4, <1>5, <1>12
    <3>2. QED
      BY <1>3, <3>1 DEF HostWord
  <2>2. \A k \in 1 .. len : Cleared(w)[k] = IF k = i THEN 255 - z[k] ELSE z[k]
    BY <1>5, <1>7, <1>9, <1>12
  <2>3. in_cksum(Cleared(w), len) # in_cksum(z, len)
    BY <1>4, <1>8, <1>10, <2>2, InvertedByteNoticed
  <2>4. QED
    BY <1>1, <1>6, <2>1, <2>3
<1>13. QED
  BY <1>11, <1>12

\* A damaged packet is memory, as an intact one is.
LEMMA DamagedIsMemory ==
  ASSUME NEW p \in Packets, NEW i \in DOMAIN Sealed(p),
         NEW w, w = [Sealed(p) EXCEPT ![i] = Byte - 1 - @]
  PROVE  Len(w) = SendingLen(p) /\ Memory(w, SendingLen(p))
<1>1. PICK len, m : len = SendingLen(p) /\ m = Sealed(p)
  OBVIOUS
<1>2. Len(m) = len /\ DOMAIN m = 1 .. len /\ Memory(m, len) /\ len \in Nat
  BY <1>1, SealedChecksum, LayoutIsMemory, PacketFields DEF Sealed
<1>3. DOMAIN w = 1 .. len /\ \A k \in 1 .. len : w[k] = IF k = i THEN 255 - m[k] ELSE m[k]
  BY <1>1, <1>2 DEF Byte
<1>4. Len(w) = len
  BY <1>2, <1>3
<1>5. ASSUME NEW k \in 1 .. len PROVE IsByte(w[k])
  <2>1. IsByte(m[k])
    BY <1>2 DEF Memory
  <2>2. IsByte(255 - m[k])
    BY <2>1 DEF IsByte
  <2>3. QED
    BY <1>3, <2>1, <2>2
<1>6. QED
  BY <1>1, <1>2, <1>4, <1>5 DEF Memory

-----------------------------------------------------------------------------
(* The theorems. *)

\* The packet under way is the one sendBuf was called with last, but for the
\* byte that the library has inverted.
OnTheWire ==
  \E p \in Packets :
    /\ packet = p
    /\ \/ ~ damaged /\ wire = Sealed(p)
       \/ damaged /\ \E i \in DOMAIN Sealed(p) :
                       wire = [Sealed(p) EXCEPT ![i] = Byte - 1 - @]

WireInv == wire # None => OnTheWire

\* Nothing is on the wire once the packet was received.
Consumed == received # None => wire = None

PduInv == WireInv /\ Consumed /\ DamageIsNoticed

LEMMA PduInit == Init => PduInv
  BY DEF Init, PduInv, WireInv, Consumed, DamageIsNoticed

LEMMA ReceiveRight ==
  ASSUME WireInv, recv_buf
  PROVE  PduInv'
<1>1. PICK p \in Packets :
        /\ packet = p
        /\ \/ ~ damaged /\ wire = Sealed(p)
           \/ damaged /\ \E i \in DOMAIN Sealed(p) :
                           wire = [Sealed(p) EXCEPT ![i] = Byte - 1 - @]
  BY DEF WireInv, OnTheWire, recv_buf
<1>2. wire' = None /\ packet' = packet /\ damaged' = damaged
  BY DEF recv_buf
<1>3. received' = IF in_cksum(Cleared(wire), Len(wire)) # HostWord(wire, 5) THEN CRC_ERROR
        ELSE [seq |-> ntohl(wire), flag |-> wire[7], data |-> Payload(wire)]
  BY DEF recv_buf
<1>4. CASE ~ damaged /\ wire = Sealed(p)
  <2>1. received' = [seq |-> p.seq, flag |-> p.flag, data |-> p.data]
    BY <1>3, <1>4, IntactIsAccepted
  <2>2. p = [seq |-> p.seq, flag |-> p.flag, data |-> p.data]
    BY DEF Packets
  <2>3. QED
    BY <1>1, <1>2, <1>4, <2>1, <2>2 DEF PduInv, WireInv, Consumed, DamageIsNoticed
<1>5. ASSUME damaged, NEW i \in DOMAIN Sealed(p),
             wire = [Sealed(p) EXCEPT ![i] = Byte - 1 - @]
      PROVE  PduInv'
  <2>1. received' = CRC_ERROR
    BY <1>3, <1>5, DamagedIsRefused
  <2>2. QED
    BY <1>2, <1>5, <2>1 DEF PduInv, WireInv, Consumed, DamageIsNoticed
<1>6. QED
  BY <1>1, <1>4, <1>5

LEMMA PduStep == PduInv /\ [Next]_vars => PduInv'
<1> SUFFICES ASSUME PduInv, [Next]_vars PROVE PduInv'
  OBVIOUS
<1>1. ASSUME NEW p \in Packets, sendBuf(p) PROVE PduInv'
  <2>1. /\ wire' = Sealed(p) /\ packet' = p
        /\ damaged' = FALSE /\ received' = None
    BY <1>1 DEF sendBuf, Sealed
  <2>2. QED
    BY <2>1 DEF PduInv, WireInv, OnTheWire, Consumed, DamageIsNoticed
<1>2. ASSUME wire # None, NEW i \in DOMAIN wire, FlipByte(i) PROVE PduInv'
  <2>1. PICK p \in Packets : packet = p /\ wire = Sealed(p)
    BY <1>2 DEF PduInv, WireInv, OnTheWire, FlipByte
  <2>2. /\ wire' = [Sealed(p) EXCEPT ![i] = Byte - 1 - @]
        /\ i \in DOMAIN Sealed(p)
        /\ packet' = p /\ damaged' = TRUE /\ received' = received
    BY <1>2, <2>1 DEF FlipByte
  <2>3. WireInv'
    BY <2>2 DEF WireInv, OnTheWire
  <2>4. Consumed' /\ DamageIsNoticed'
    BY <1>2, <2>2 DEF PduInv, Consumed, DamageIsNoticed
  <2>5. QED
    BY <2>3, <2>4 DEF PduInv
<1>3. CASE recv_buf
  BY <1>3, ReceiveRight DEF PduInv
<1>4. CASE UNCHANGED vars
  BY <1>4 DEF vars, PduInv, WireInv, OnTheWire, Consumed, DamageIsNoticed
<1>5. QED
  BY <1>1, <1>2, <1>3, <1>4 DEF Next

\* For all numbers, flags and data, a packet arrives as it was sent, or is
\* refused if a byte of it was inverted.
THEOREM DamageIsNoticedCorrect == Spec => []DamageIsNoticed
<1>1. PduInv => DamageIsNoticed
  BY DEF PduInv
<1>2. QED
  BY <1>1, PduInit, PduStep, PTL DEF Spec

\* The checksum of every packet, intact or not, is that of RFC 1071.
THEOREM AgreesWithRfcCorrect == Spec => []AgreesWithRfc
<1>1. PduInv => AgreesWithRfc
  <2> SUFFICES ASSUME PduInv, wire # None
               PROVE  in_cksum(wire, Len(wire)) = ntohs(Word - 1 - OnesSum(wire))
    BY DEF AgreesWithRfc
  <2>1. PICK p \in Packets :
          \/ wire = Sealed(p)
          \/ \E i \in DOMAIN Sealed(p) : wire = [Sealed(p) EXCEPT ![i] = Byte - 1 - @]
    BY DEF PduInv, WireInv, OnTheWire
  <2>2. Len(wire) = SendingLen(p) /\ Memory(wire, SendingLen(p))
    <3>1. CASE wire = Sealed(p)
      BY <3>1, SealedChecksum, LayoutIsMemory DEF Sealed
    <3>2. CASE \E i \in DOMAIN Sealed(p) : wire = [Sealed(p) EXCEPT ![i] = Byte - 1 - @]
      BY <3>2, DamagedIsMemory
    <3>3. QED
      BY <2>1, <3>1, <3>2
  <2>3. QED
    BY <2>2, PacketFields, ChecksumAgrees
<1>2. QED
  BY <1>1, PduInit, PduStep, PTL DEF Spec
===============================================================================
