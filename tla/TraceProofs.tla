------------------------------ MODULE TraceProofs ------------------------------
(***************************************************************************)
(* The verdicts of trace are a receiver's, on every packet that holds the  *)
(* headers it says it holds.  To compute a checksum again and compare is   *)
(* to add everything up, as long as something that is added is not zero:   *)
(* the length of the IP header, the protocol in the pseudo header of TCP.  *)
(* And what trace prints of lengths, ports, flags and operations tells     *)
(* what the sender put into the headers.                                   *)
(***************************************************************************)
EXTENDS Trace, ChecksumProofs, TLAPS

\* trace reads the headers of a packet without asking whether they are there.
WholeIpHeader(mem) ==
  20 <= Len(mem) /\ 20 <= HeaderLength(mem) /\ HeaderLength(mem) <= Len(mem)

WholeTcpHeader(mem) ==
  Protocol(mem) = IPPROTO_TCP /\ HeaderLength(mem) <= TotLen(mem)
    => 20 <= TotLen(mem) - HeaderLength(mem)

IpHeadersWhole ==
  \A p \in Captured : p.type = ETHERTYPE_IP => WholeIpHeader(p.mem)

TcpHeadersWhole ==
  \A p \in Captured : p.type = ETHERTYPE_IP => WholeTcpHeader(p.mem)

-----------------------------------------------------------------------------
(* Clearing a word. *)

\* m0 is m with word j, two whole bytes, set to zero.
Clears(m0, m, len, j) ==
  /\ j \in Nat \ {0} /\ 2 * j <= len
  /\ \A k \in 1 .. len : m0[k] = IF k = 2 * j - 1 \/ k = 2 * j THEN 0 ELSE m[k]

LEMMA ClearedWord ==
  ASSUME NEW m, NEW len, Memory(m, len), NEW m0, NEW j, Clears(m0, m, len, j)
  PROVE  /\ Memory(m0, len)
         /\ HostWord(m, 2 * j - 1) \in Nat /\ IsWord(HostWord(m, 2 * j - 1))
         /\ Total(m, len) = Total(m0, len) + HostWord(m, 2 * j - 1)
<1>1. /\ len \in Nat /\ j \in Nat \ {0} /\ 2 * j <= len
      /\ \A k \in 1 .. len : m0[k] = IF k = 2 * j - 1 \/ k = 2 * j THEN 0 ELSE m[k]
      /\ \A k \in 1 .. len : IsByte(m[k])
  BY DEF Memory, Clears
<1>2. Memory(m0, len)
  <2>1. IsByte(0)
    BY DEF IsByte
  <2> SUFFICES ASSUME NEW k \in 1 .. len PROVE IsByte(m0[k])
    BY <1>1 DEF Memory
  <2>2. CASE k = 2 * j - 1 \/ k = 2 * j
    BY <1>1, <2>1, <2>2
  <2>3. CASE ~ (k = 2 * j - 1 \/ k = 2 * j)
    BY <1>1, <2>3
  <2>4. QED
    BY <2>2, <2>3
<1>3. PICK a, b : a = m[2 * j - 1] /\ b = m[2 * j]
  OBVIOUS
<1>4. IsByte(a) /\ IsByte(b)
  <2>1. 2 * j - 1 \in 1 .. len /\ 2 * j \in 1 .. len
    BY <1>1
  <2>2. QED
    BY <1>1, <1>3, <2>1
<1>5. HostWord(m, 2 * j - 1) = a + 256 * b
  <2>1. 2 * j - 1 + 1 = 2 * j
    BY <1>1
  <2>2. HostWord(m, 2 * j - 1) = m[2 * j - 1] + 256 * m[2 * j]
    BY <2>1 DEF HostWord, Byte
  <2>3. QED
    BY <1>3, <2>2
<1>6. PICK d : d = a + 256 * b
  OBVIOUS
<1>7. d \in Nat /\ IsWord(d)
  BY <1>4, <1>6, WordOfBytes DEF IsWord
<1>8. j \in 1 .. Additions(len)
  <2>1. Additions(len) \in Nat /\ len <= 2 * Additions(len)
    BY <1>1, AdditionsIsNat
  <2>2. QED
    BY <1>1, <2>1
<1>9. \A k \in 1 .. Additions(len) :
        WordAt(m, k, len) = WordAt(m0, k, len) + (IF k = j THEN d ELSE 0)
  <2> TAKE k \in 1 .. Additions(len)
  <2>1. k \in Nat \ {0} /\ 2 * k - 1 \in Nat \ {0} /\ 2 * k \in Nat \ {0}
    OBVIOUS
  <2>2. PICK u, v, x, y :
          /\ u = ByteAt(m, 2 * k - 1, len) /\ v = ByteAt(m, 2 * k, len)
          /\ x = ByteAt(m0, 2 * k - 1, len) /\ y = ByteAt(m0, 2 * k, len)
    OBVIOUS
  <2>3. WordAt(m, k, len) = u + 256 * v /\ WordAt(m0, k, len) = x + 256 * y
    BY <2>2 DEF WordAt, Byte
  <2>4. IsByte(u) /\ IsByte(v)
    BY <2>1, <2>2, WordIsTwoBytes
  <2>5. CASE k = j
    <3>1. u = a /\ v = b /\ x = 0 /\ y = 0
      BY <1>1, <1>3, <2>1, <2>2, <2>5 DEF ByteAt
    <3>2. QED
      BY <1>6, <1>7, <2>3, <2>5, <3>1
  <2>6. CASE k # j
    <3>1. /\ 2 * k - 1 # 2 * j - 1 /\ 2 * k - 1 # 2 * j
          /\ 2 * k # 2 * j - 1 /\ 2 * k # 2 * j
      BY <1>1, <2>1, <2>6
    <3>2. u = x /\ v = y
      BY <1>1, <2>1, <2>2, <3>1 DEF ByteAt
    <3>3. QED
      BY <2>3, <2>4, <2>6, <3>2, SMT DEF IsByte
  <2>7. QED
    BY <2>5, <2>6
<1>10. Total(m, len) = Total(m0, len) + d
  BY <1>2, <1>7, <1>8, <1>9, TotalChange
<1>11. QED
  BY <1>2, <1>5, <1>6, <1>7, <1>10

\* The sum of a memory that holds a word other than zero.
LEMMA TotalIsPositive ==
  ASSUME NEW m, NEW len, Memory(m, len), NEW h \in Nat \ {0}, 2 * h <= len,
         HostWord(m, 2 * h - 1) # 0
  PROVE  Total(m, len) \in Nat /\ Total(m, len) # 0
<1> DEFINE m0 == [k \in 1 .. len |-> IF k = 2 * h - 1 \/ k = 2 * h THEN 0 ELSE m[k]]
<1>1. Clears(m0, m, len, h)
  BY DEF Clears
<1> HIDE DEF m0
<1>2. PICK s, t, w : s = Total(m, len) /\ t = Total(m0, len) /\ w = HostWord(m, 2 * h - 1)
  OBVIOUS
<1>3. Memory(m0, len) /\ w \in Nat /\ s = t + w
  BY <1>1, <1>2, ClearedWord
<1>4. t \in Nat
  BY <1>2, <1>3, TotalBound
<1>5. QED
  BY <1>2, <1>3, <1>4

\* Computing the checksum again on the memory without it, and comparing, is
\* the receiver's rule of RFC 1071.
LEMMA ComparingIsVerifying ==
  ASSUME NEW m, NEW len, Memory(m, len), Len(m) = len, len <= Word,
         NEW m0, NEW j, Clears(m0, m, len, j),
         NEW h \in Nat \ {0}, h # j, 2 * h <= len, HostWord(m, 2 * h - 1) # 0
  PROVE  /\ in_cksum(m0, len) = HostWord(m, 2 * j - 1)
              <=> Verifies(m) /\ HostWord(m, 2 * j - 1) # Word - 1
         /\ IsWord(in_cksum(m0, len)) /\ IsWord(HostWord(m, 2 * j - 1))
<1>1. PICK c, t, t0, r, r0 :
        /\ c = HostWord(m, 2 * j - 1) /\ t = Total(m, len) /\ t0 = Total(m0, len)
        /\ r = Fold(t) /\ r0 = Fold(t0)
  OBVIOUS
<1>2. Memory(m0, len) /\ c \in Nat /\ IsWord(c) /\ t = t0 + c
  BY <1>1, ClearedWord
<1>3. t0 \in Nat /\ t0 # 0
  <2>1. HostWord(m0, 2 * h - 1) = HostWord(m, 2 * h - 1)
    <3>1. /\ j \in Nat \ {0} /\ len \in Nat
          /\ \A k \in 1 .. len : m0[k] = IF k = 2 * j - 1 \/ k = 2 * j THEN 0 ELSE m[k]
      BY DEF Clears, Memory
    <3>2. /\ 2 * h - 1 \in 1 .. len /\ 2 * h \in 1 .. len /\ 2 * h - 1 + 1 = 2 * h
          /\ 2 * h - 1 # 2 * j - 1 /\ 2 * h - 1 # 2 * j
          /\ 2 * h # 2 * j - 1 /\ 2 * h # 2 * j
      BY <3>1
    <3>3. m0[2 * h - 1] = m[2 * h - 1] /\ m0[2 * h] = m[2 * h]
      BY <3>1, <3>2
    <3>4. QED
      BY <3>2, <3>3 DEF HostWord
  <2>2. QED
    BY <1>1, <1>2, <2>1, TotalIsPositive
<1>4. ComesTo(t, r) /\ ComesTo(t0, r0)
  <2>1. ComesTo(Total(m, len), Fold(Total(m, len)))
    BY ChecksumIsComplement
  <2>2. ComesTo(Total(m0, len), Fold(Total(m0, len)))
    BY <1>2, ChecksumIsComplement
  <2>3. QED
    BY <1>1, <2>1, <2>2, Zenon
<1>5. IsWord(in_cksum(m0, len)) /\ in_cksum(m0, len) = 65535 - r0
  BY <1>1, <1>2, ChecksumIsComplement
<1>6. Verifies(m) <=> r = 65535
  <2>1. OnesSum(m) = ntohs(r)
    BY <1>1, SumsAgree
  <2>2. IsWord(r) /\ IsWord(0) /\ Word - 1 = 65535
    BY <1>4, SMT DEF ComesTo, IsWord, Word, Byte
  <2>3. ntohs(65535 - r) = 65535 - ntohs(r)
    BY <2>2, ExchangeTwice
  <2>4. IsWord(65535 - r)
    BY <2>2, SMT DEF IsWord
  <2>5. IsWord(ntohs(r)) /\ (ntohs(65535 - r) = 0 <=> 65535 - r = 0)
    BY <2>2, <2>4, ExchangeMultiplies
  <2>6. PICK e : e = ntohs(r)
    OBVIOUS
  <2>7. e = 65535 <=> r = 65535
    BY <2>2, <2>3, <2>5, <2>6, SMT DEF IsWord
  <2>8. QED
    BY <2>1, <2>2, <2>6, <2>7 DEF Verifies
<1>7. Word - 1 = 65535
  BY SMT DEF Word, Byte
<1>8. PICK q \in Nat : t = r + 65535 * q
  BY <1>4, SMT DEF ComesTo
<1>9. PICK p \in Nat : t0 = r0 + 65535 * p
  BY <1>4, SMT DEF ComesTo
<1>10. r \in Nat /\ r < 65536 /\ r0 \in Nat /\ r0 < 65536 /\ r0 # 0 /\ r # 0 /\ c < 65536
  BY <1>2, <1>3, <1>4, SMT DEF ComesTo, IsWord
<1>11. 65535 - r0 = c => r = 65535 /\ c # 65535
  BY <1>2, <1>8, <1>9, <1>10, SMT
<1>12. r = 65535 /\ c # 65535 => 65535 - r0 = c
  BY <1>2, <1>8, <1>9, <1>10, SMT
<1>13. QED
  BY <1>1, <1>2, <1>5, <1>6, <1>7, <1>11, <1>12

-----------------------------------------------------------------------------
(* The headers. *)

LEMMA BytesAreMemory ==
  ASSUME NEW m, m \in Seq(Bytes)
  PROVE  /\ Len(m) \in Nat /\ DOMAIN m = 1 .. Len(m)
         /\ \A k \in 1 .. Len(m) : IsByte(m[k])
<1>1. \A b \in Bytes : IsByte(b)
  BY DEF Bytes, Byte, IsByte
<1>2. Len(m) \in Nat /\ DOMAIN m = 1 .. Len(m) /\ \A k \in 1 .. Len(m) : m[k] \in Bytes
  OBVIOUS
<1>3. QED
  BY <1>1, <1>2

\* The first bytes of a packet.
LEMMA HeaderFields ==
  ASSUME NEW m, m \in Seq(Bytes), WholeIpHeader(m)
  PROVE  /\ HeaderLength(m) \in Nat /\ HeaderLength(m) <= 60
         /\ 20 <= HeaderLength(m) /\ HeaderLength(m) <= Len(m)
         /\ HostWord(m, 1) # 0
         /\ IsWord(TotLen(m))
<1>1. /\ Len(m) \in Nat /\ \A k \in 1 .. Len(m) : IsByte(m[k])
  BY BytesAreMemory
<1>2. PICK n, hl : n = Len(m) /\ hl = HeaderLength(m)
  OBVIOUS
<1>3. 20 <= n /\ 20 <= hl /\ hl <= n /\ n \in Nat
  BY <1>1, <1>2 DEF WholeIpHeader
<1>4. hl = 4 * (m[1] % 16)
  BY <1>2 DEF HeaderLength
<1>5. IsByte(m[1]) /\ IsByte(m[2]) /\ IsByte(m[3]) /\ IsByte(m[4])
  BY <1>1, <1>2, <1>3
<1>6. PICK a, b, c, d : a = m[1] /\ b = m[2] /\ c = m[3] /\ d = m[4]
  OBVIOUS
<1>7. IsByte(a) /\ IsByte(b) /\ IsByte(c) /\ IsByte(d)
  BY <1>5, <1>6
<1>8. hl \in Nat /\ hl <= 60 /\ a # 0
  <2>1. hl = 4 * (a % 16) /\ a \in Nat
    BY <1>4, <1>6, <1>7 DEF IsByte
  <2>2. QED
    BY <1>3, <2>1, SMT
<1>9. HostWord(m, 1) = a + 256 * b
  BY <1>6, SMT DEF HostWord, Byte
<1>10. a + 256 * b # 0
  BY <1>7, <1>8, SMT DEF IsByte
<1>11. IsWord(TotLen(m))
  <2>1. HostWord(m, 3) = c + 256 * d
    BY <1>6, SMT DEF HostWord, Byte
  <2>2. IsWord(c + 256 * d)
    BY <1>7, WordOfBytes
  <2>3. QED
    BY <2>1, <2>2, ExchangeMultiplies DEF TotLen
<1>12. QED
  BY <1>2, <1>3, <1>8, <1>9, <1>10, <1>11

\* The verdict on an IP header.
LEMMA IpVerdict ==
  ASSUME NEW m, m \in Seq(Bytes), WholeIpHeader(m)
  PROVE  Agrees(IpCorrect(m), IpHeader(m), Check(m))
<1>1. PICK n, hl, e, m0 :
        n = Len(m) /\ hl = HeaderLength(m) /\ e = IpHeader(m) /\ m0 = IpCleared(m)
  OBVIOUS
<1>2. /\ n \in Nat /\ DOMAIN m = 1 .. n /\ \A k \in 1 .. n : IsByte(m[k])
      /\ hl \in Nat /\ hl <= 60 /\ 20 <= hl /\ hl <= n /\ HostWord(m, 1) # 0
  BY <1>1, BytesAreMemory, HeaderFields
<1>3. e \in Seq(Bytes) /\ Len(e) = hl /\ \A k \in 1 .. hl : e[k] = m[k]
  BY <1>1, <1>2 DEF IpHeader
<1>4. \A k \in 1 .. hl : m0[k] = IF k = 11 \/ k = 12 THEN 0 ELSE m[k]
  BY <1>1, <1>2 DEF IpCleared
<1>5. Memory(e, hl)
  BY <1>2, <1>3 DEF Memory
<1>6. Clears(m0, e, hl, 6)
  BY <1>2, <1>3, <1>4 DEF Clears
<1>7. HostWord(e, 2 * 6 - 1) = Check(m)
  <2>1. e[11] = m[11] /\ e[12] = m[12]
    BY <1>2, <1>3
  <2>2. QED
    BY <2>1 DEF HostWord, Check
<1>8. HostWord(e, 2 * 1 - 1) # 0
  <2>1. e[1] = m[1] /\ e[2] = m[2]
    BY <1>2, <1>3
  <2>2. HostWord(e, 1) = HostWord(m, 1)
    BY <2>1 DEF HostWord
  <2>3. QED
    BY <1>2, <2>2
<1>9. hl <= Word /\ 2 * 1 <= hl
  BY <1>2, SMT DEF Word, Byte
<1>10. in_cksum(m0, hl) = HostWord(e, 2 * 6 - 1)
         <=> Verifies(e) /\ HostWord(e, 2 * 6 - 1) # Word - 1
  BY <1>3, <1>5, <1>6, <1>8, <1>9, ComparingIsVerifying
<1>11. QED
  BY <1>1, <1>7, <1>10, Zenon DEF Agrees, IpCorrect

\* The segment of a packet that holds its TCP header.
LEMMA SegmentFields ==
  ASSUME NEW m, m \in Seq(Bytes), WholeIpHeader(m), WholeTcpHeader(m),
         Protocol(m) = IPPROTO_TCP, HeaderLength(m) <= TotLen(m), Complete(m),
         NEW hl, NEW tl, hl = HeaderLength(m), tl = TcpLength(m)
  PROVE  /\ hl \in Nat /\ 20 <= hl /\ hl <= 60
         /\ tl \in Nat /\ 20 <= tl /\ tl < 65536
         /\ TotLen(m) = hl + tl /\ hl + tl < 65536 /\ hl + tl <= Len(m)
         /\ Transport(m) \in Seq(Bytes) /\ Len(Transport(m)) = Len(m) - hl
         /\ \A i \in 1 .. (Len(m) - hl) : Transport(m)[i] = m[hl + i]
<1>1. PICK n, tot, seg : n = Len(m) /\ tot = TotLen(m) /\ seg = Transport(m)
  OBVIOUS
<1>2. /\ n \in Nat /\ hl \in Nat /\ hl <= 60 /\ 20 <= hl /\ hl <= n /\ IsWord(tot)
  BY <1>1, BytesAreMemory, HeaderFields
<1>3. tot \in Nat /\ tot < 65536 /\ hl <= tot /\ 20 <= tot - hl
  BY <1>1, <1>2, SMT DEF IsWord, WholeTcpHeader
<1>4. tl = (tot - hl) % 65536
  BY <1>1, SMT DEF TcpLength, Word, Byte
<1>5. tl = tot - hl /\ tl \in Nat /\ 20 <= tl /\ tl < 65536 /\ tot = hl + tl /\ hl + tl < 65536
  BY <1>2, <1>3, <1>4, SMT
<1>6. /\ seg \in Seq(Bytes) /\ Len(seg) = n - hl
      /\ \A i \in 1 .. (n - hl) : seg[i] = m[hl + i]
  <2>1. seg = SubSeq(m, hl + 1, n)
    BY <1>1 DEF Transport
  <2>2. QED
    BY <1>1, <1>2, <2>1
<1>7. hl + tl <= n
  BY <1>1, <1>2, <1>5, <1>6 DEF Complete
<1>8. QED
  BY <1>1, <1>2, <1>5, <1>6, <1>7

\* Twelve bytes before any others.
PseudoBefore(a, b1, b2, x) == (a \o <<0, 6>> \o <<b1, b2>>) \o x

EightBytes(a) == a \in Seq(Bytes) /\ Len(a) = 8

TwelveBefore(m, a, b1, b2, x) ==
  /\ m \in Seq(Bytes) /\ Len(m) = 12 + Len(x)
  /\ \A k \in 1 .. 8 : m[k] = a[k]
  /\ m[9] = 0 /\ m[10] = 6 /\ m[11] = b1 /\ m[12] = b2
  /\ \A i \in 1 .. Len(x) : m[12 + i] = x[i]

LEMMA TwelveBytes ==
  ASSUME NEW a, EightBytes(a),
         NEW b1 \in Bytes, NEW b2 \in Bytes,
         NEW x, x \in Seq(Bytes), NEW m, m = PseudoBefore(a, b1, b2, x)
  PROVE  TwelveBefore(m, a, b1, b2, x)
<1>1. PICK u, v : u = a \o <<0, 6>> /\ v = u \o <<b1, b2>>
  OBVIOUS
<1>2. 0 \in Bytes /\ 6 \in Bytes
  BY DEF Bytes, Byte
<1>3. PICK n : n = 8
  OBVIOUS
<1>4. /\ a \in Seq(Bytes) /\ Len(a) = n /\ n \in Nat
      /\ x \in Seq(Bytes) /\ b1 \in Bytes /\ b2 \in Bytes
  BY <1>3 DEF EightBytes
<1>5. /\ u \in Seq(Bytes) /\ Len(u) = n + 2 /\ u[n + 1] = 0 /\ u[n + 2] = 6
      /\ \A k \in 1 .. n : u[k] = a[k]
  <2>1. u = a \o <<0, 6>>
    BY <1>1
  <2>2. QED
    BY ONLY <1>2, <1>4, <2>1, PairJoined
<1>6. /\ v \in Seq(Bytes) /\ Len(v) = (n + 2) + 2
      /\ v[(n + 2) + 1] = b1 /\ v[(n + 2) + 2] = b2
      /\ \A k \in 1 .. (n + 2) : v[k] = u[k]
  <2>1. v = u \o <<b1, b2>>
    BY <1>1
  <2>2. n + 2 \in Nat /\ u \in Seq(Bytes) /\ Len(u) = n + 2 /\ b1 \in Bytes /\ b2 \in Bytes
    BY ONLY <1>4, <1>5
  <2>3. QED
    BY ONLY <2>1, <2>2, PairJoined
<1>7. m = v \o x
  BY <1>1, Zenon DEF PseudoBefore
<1>8. /\ m \in Seq(Bytes) /\ Len(m) = 12 + Len(x)
      /\ \A k \in 1 .. 12 : m[k] = v[k]
      /\ \A i \in 1 .. Len(x) : m[12 + i] = x[i]
  <2> v \in Seq(Bytes) /\ x \in Seq(Bytes)
    BY <1>6, <1>3
  <2>1. /\ v \o x \in Seq(Bytes) /\ Len(v \o x) = Len(v) + Len(x)
        /\ \A i \in 1 .. Len(v) : (v \o x)[i] = v[i]
        /\ \A i \in 1 .. Len(x) : (v \o x)[Len(v) + i] = x[i]
    BY ONLY v \in Seq(Bytes), x \in Seq(Bytes), Concatenation
  <2>2. Len(v) = 12
    BY <1>6, <1>3
  <2>3. QED
    BY ONLY <1>7, <2>1, <2>2, Zenon
<1>9. \A k \in 1 .. 8 : m[k] = a[k]
  BY <1>5, <1>6, <1>8, <1>3
<1>10. m[9] = 0 /\ m[10] = 6 /\ m[11] = b1 /\ m[12] = b2
  BY <1>5, <1>6, <1>8, <1>3
<1>11. QED
  BY <1>8, <1>9, <1>10 DEF TwelveBefore

LEMMA SegmentCleared ==
  ASSUME NEW s \in Seq(Bytes)
  PROVE  /\ TcpCleared(s) \in Seq(Bytes) /\ Len(TcpCleared(s)) = Len(s)
         /\ \A i \in 1 .. Len(s) :
              TcpCleared(s)[i] = IF i = 17 \/ i = 18 THEN 0 ELSE s[i]
<1>1. 0 \in Bytes
  BY DEF Bytes, Byte
<1>2. PICK n : n = Len(s)
  OBVIOUS
<1>3. n \in Nat /\ DOMAIN s = 1 .. n /\ \A i \in 1 .. n : s[i] \in Bytes
  BY <1>2
<1>4. PICK t : t = TcpCleared(s)
  OBVIOUS
<1>5. t = [i \in 1 .. n |-> IF i = 17 \/ i = 18 THEN 0 ELSE s[i]]
  BY <1>3, <1>4 DEF TcpCleared
<1>6. t \in [1 .. n -> Bytes]
  BY <1>1, <1>3, <1>5
<1>7. t \in Seq(Bytes) /\ Len(t) = n
  BY <1>3, <1>6
<1>8. QED
  BY <1>2, <1>4, <1>5, <1>7

\* What calculate_tcp_checksum adds up.
Buffered(mem) ==
  PseudoHeader(mem) \o SubSeq(TcpCleared(Transport(mem)), 1, TcpLength(mem))

\* What calculate_tcp_checksum adds up is what RFC 793 covers, but for the
\* checksum.
LEMMA PseudoMemories ==
  ASSUME NEW m, m \in Seq(Bytes), WholeIpHeader(m), WholeTcpHeader(m),
         Protocol(m) = IPPROTO_TCP, HeaderLength(m) <= TotLen(m), Complete(m),
         NEW p, p = Buffered(m),
         NEW len, len = PSEUDO_HEADER_SIZE + TcpLength(m),
         NEW c, c = TcpCovered(m)
  PROVE  /\ Memory(c, len) /\ Len(c) = len /\ len <= Word /\ 2 * 5 <= len
         /\ Clears(p, c, len, 15)
         /\ HostWord(c, 9) # 0 /\ HostWord(c, 29) = ThSum(Transport(m))
<1>1. PICK n, hl, tl, seg, cs :
        /\ n = Len(m) /\ hl = HeaderLength(m) /\ tl = TcpLength(m)
        /\ seg = Transport(m) /\ cs = TcpCleared(seg)
  OBVIOUS
<1>2. /\ hl \in Nat /\ 20 <= hl /\ hl <= 60
      /\ tl \in Nat /\ 20 <= tl /\ tl < 65536
      /\ TotLen(m) = hl + tl /\ hl + tl < 65536 /\ hl + tl <= n
  BY <1>1, SegmentFields
<1>3. /\ seg \in Seq(Bytes) /\ Len(seg) = n - hl /\ n \in Nat
      /\ \A i \in 1 .. (n - hl) : seg[i] = m[hl + i]
  BY <1>1, SegmentFields, BytesAreMemory
<1>4. PICK e, a : e = 8 /\ a = SubSeq(m, 13, 20)
  OBVIOUS
<1>5. EightBytes(a)
  <2>1. a = SubSeq(m, 12 + 1, 12 + e) /\ (12 + e) - 12 = e /\ 12 + e \in Nat
    BY <1>4
  <2>2. 12 <= 12 + e /\ 12 + e <= Len(m)
    BY <1>1, <1>2, <1>3, <1>4
  <2>3. a \in Seq(Bytes) /\ Len(a) = e
    BY <1>4, <2>1, <2>2, Slice
  <2>4. QED
    BY <1>4, <2>3 DEF EightBytes
<1>6. PICK w, b1, b2 : w = ntohs(tl) /\ b1 = w % Byte /\ b2 = w \div Byte
  OBVIOUS
<1>7. b1 \in Bytes /\ b2 \in Bytes
  <2>1. IsWord(tl)
    BY <1>2, SMT DEF IsWord
  <2>2. IsWord(w)
    BY <1>6, <2>1, ExchangeMultiplies
  <2>3. PICK low, high : IsByte(low) /\ IsByte(high) /\ w = low + 256 * high
    BY <2>2, BytesOfWord
  <2>4. b1 = low /\ b2 = high
    BY <1>6, <2>3, WordOfBytes DEF Byte
  <2>5. QED
    BY <2>3, <2>4 DEF IsByte, Bytes, Byte
<1>8. PICK x, y : x = SubSeq(cs, 1, tl) /\ y = SubSeq(m, hl + 1, TotLen(m))
  OBVIOUS
<1>9. p = PseudoBefore(a, b1, b2, x)
  BY <1>1, <1>6, <1>4, <1>8, Zenon DEF PseudoBefore, Buffered, PseudoHeader, HostBytes, IPPROTO_TCP
<1>10. c = PseudoBefore(a, b1, b2, y)
  <2>1. TotLen(m) - hl = tl
    BY <1>2
  <2>2. QED
    BY <1>1, <1>6, <1>4, <1>8, <2>1, Zenon DEF PseudoBefore, TcpCovered, NetBytes, HostBytes, IPPROTO_TCP
<1>11. /\ cs \in Seq(Bytes) /\ Len(cs) = n - hl
      /\ \A i \in 1 .. (n - hl) : cs[i] = IF i = 17 \/ i = 18 THEN 0 ELSE seg[i]
  BY <1>1, <1>3, SegmentCleared
<1>12. x \in Seq(Bytes) /\ Len(x) = tl /\ \A i \in 1 .. tl : x[i] = cs[i]
  <2>1. x = SubSeq(cs, 0 + 1, tl) /\ tl <= Len(cs)
    BY <1>2, <1>3, <1>11, <1>8
  <2>2. /\ x \in Seq(Bytes) /\ Len(x) = tl - 0
        /\ \A i \in 1 .. (tl - 0) : x[i] = cs[0 + i]
    BY <1>2, <1>11, <2>1, Slice
  <2>3. QED
    BY <1>2, <2>2
<1>13. y \in Seq(Bytes) /\ Len(y) = tl /\ \A i \in 1 .. tl : y[i] = m[hl + i]
  <2>1. PICK tot : tot = TotLen(m)
    OBVIOUS
  <2>2. tot \in Nat /\ hl \in Nat /\ hl <= tot /\ tot <= n /\ tot - hl = tl
    BY ONLY <1>2, <2>1
  <2>3. y = SubSeq(m, hl + 1, tot)
    BY ONLY <1>8, <2>1, Zenon
  <2>4. tot <= Len(m)
    BY ONLY <1>1, <2>2, Zenon
  <2>5. /\ y \in Seq(Bytes) /\ Len(y) = tot - hl
        /\ \A i \in 1 .. (tot - hl) : y[i] = m[hl + i]
    BY ONLY m \in Seq(Bytes), <2>2, <2>3, <2>4, Slice
  <2>6. QED
    BY <2>2, <2>5
<1>14. /\ p \in Seq(Bytes) /\ Len(p) = 12 + tl
       /\ \A k \in 1 .. 8 : p[k] = a[k]
       /\ p[9] = 0 /\ p[10] = 6 /\ p[11] = b1 /\ p[12] = b2
       /\ \A i \in 1 .. tl : p[12 + i] = x[i]
  <2>1. x \in Seq(Bytes)
    BY <1>12
  <2>2. TwelveBefore(p, a, b1, b2, x)
    BY <1>7, <1>9, <1>5, <2>1, TwelveBytes
  <2>3. QED
    BY <1>12, <2>2 DEF TwelveBefore
<1>15. /\ c \in Seq(Bytes) /\ Len(c) = 12 + tl
       /\ \A k \in 1 .. 8 : c[k] = a[k]
       /\ c[9] = 0 /\ c[10] = 6 /\ c[11] = b1 /\ c[12] = b2
       /\ \A i \in 1 .. tl : c[12 + i] = y[i]
  <2>1. y \in Seq(Bytes)
    BY <1>13
  <2>2. TwelveBefore(c, a, b1, b2, y)
    BY <1>7, <1>10, <1>5, <2>1, TwelveBytes
  <2>3. QED
    BY <1>13, <2>2 DEF TwelveBefore
<1>16. len = 12 + tl /\ len <= Word /\ 2 * 5 <= len /\ 30 <= len
  BY <1>1, <1>2, SMT DEF PSEUDO_HEADER_SIZE, Word, Byte
<1>17. Memory(c, len)
  BY <1>15, <1>16, BytesAreMemory DEF Memory
<1>18. ASSUME NEW k \in 1 .. len
       PROVE  p[k] = IF k = 2 * 15 - 1 \/ k = 2 * 15 THEN 0 ELSE c[k]
  <2>1. CASE k <= 8
    BY <1>14, <1>15, <1>16, <2>1
  <2>2. CASE k = 9 \/ k = 10 \/ k = 11 \/ k = 12
    BY <1>14, <1>15, <2>2
  <2>3. CASE 12 < k
    <3>1. PICK i : i = k - 12
      OBVIOUS
    <3>2. i \in 1 .. tl /\ i \in 1 .. (n - hl) /\ k = 12 + i
      BY <1>2, <1>3, <1>16, <2>3, <3>1
    <3>3. p[k] = cs[i] /\ c[k] = m[hl + i]
      BY <1>12, <1>13, <1>14, <1>15, <3>2
    <3>4. cs[i] = IF i = 17 \/ i = 18 THEN 0 ELSE m[hl + i]
      BY <1>3, <1>11, <3>2
    <3>5. (i = 17 <=> k = 2 * 15 - 1) /\ (i = 18 <=> k = 2 * 15)
      BY <3>2
    <3>6. QED
      BY <3>3, <3>4, <3>5
  <2>4. QED
    BY <1>16, <2>1, <2>2, <2>3
<1>19. Clears(p, c, len, 15)
  BY <1>16, <1>18 DEF Clears
<1>20. HostWord(c, 9) # 0
  BY <1>15 DEF HostWord, Byte
<1>21. HostWord(c, 29) = ThSum(seg)
  <2>1. 17 \in 1 .. tl /\ 18 \in 1 .. tl /\ 17 \in 1 .. (n - hl) /\ 18 \in 1 .. (n - hl)
    BY <1>2, <1>3
  <2>2. c[29] = m[hl + 17] /\ c[30] = m[hl + 18]
    <3>1. c[12 + 17] = y[17] /\ c[12 + 18] = y[18]
      BY <1>15, <2>1
    <3>2. QED
      BY <1>13, <2>1, <3>1
  <2>3. seg[17] = m[hl + 17] /\ seg[18] = m[hl + 18]
    BY <1>3, <2>1
  <2>4. QED
    BY <2>2, <2>3 DEF HostWord, ThSum
<1>22. QED
  BY <1>1, <1>15, <1>16, <1>17, <1>19, <1>20, <1>21

\* The verdict on a TCP segment.
LEMMA TcpVerdict ==
  ASSUME NEW m, m \in Seq(Bytes), WholeIpHeader(m), WholeTcpHeader(m),
         Protocol(m) = IPPROTO_TCP, HeaderLength(m) <= TotLen(m), Complete(m),
         NEW p, p = Buffered(m),
         NEW correct, correct = (ntohs(in_cksum(p, PSEUDO_HEADER_SIZE + TcpLength(m)))
                                   = ntohs(ThSum(Transport(m))))
  PROVE  Agrees(correct, TcpCovered(m), ThSum(Transport(m)))
<1>1. PICK len, c, s, t : /\ len = PSEUDO_HEADER_SIZE + TcpLength(m) /\ c = TcpCovered(m)
                          /\ s = in_cksum(p, len) /\ t = ThSum(Transport(m))
  OBVIOUS
<1>2. /\ Memory(c, len) /\ Len(c) = len /\ len <= Word /\ 2 * 5 <= len
      /\ Clears(p, c, len, 15) /\ HostWord(c, 9) # 0 /\ HostWord(c, 29) = t
  BY <1>1, PseudoMemories
<1>3. 2 * 15 - 1 = 29 /\ 2 * 5 - 1 = 9
  OBVIOUS
<1>4. /\ s = t <=> Verifies(c) /\ t # Word - 1
      /\ IsWord(s) /\ IsWord(t)
  <2>1. HostWord(c, 2 * 5 - 1) # 0
    BY <1>2, <1>3
  <2>2. /\ in_cksum(p, len) = HostWord(c, 2 * 15 - 1)
             <=> Verifies(c) /\ HostWord(c, 2 * 15 - 1) # Word - 1
        /\ IsWord(in_cksum(p, len)) /\ IsWord(HostWord(c, 2 * 15 - 1))
    BY <1>2, <2>1, ComparingIsVerifying
  <2>3. HostWord(c, 2 * 15 - 1) = t
    BY <1>2, <1>3
  <2>4. QED
    BY <1>1, <2>2, <2>3, Zenon
<1>5. ntohs(s) = ntohs(t) <=> s = t
  <2>1. ntohs(ntohs(s)) = s /\ ntohs(ntohs(t)) = t
    BY <1>4, ExchangeTwice
  <2>2. QED
    BY <2>1
<1>6. QED
  BY <1>1, <1>4, <1>5, Zenon DEF Agrees

-----------------------------------------------------------------------------
(* The theorems. *)

VerdictsRight == IpVerdictRight /\ TcpVerdictRight

\* Every step that prints prints the verdicts of the packet it was called with.
LEMMA HandlerRight ==
  ASSUME IpHeadersWhole, TcpHeadersWhole, NEW p \in Captured, packetHandler(p)
  PROVE  VerdictsRight'
<1>1. packet' = p /\ p.mem \in Seq(Bytes)
  BY TraceAssumption DEF packetHandler
<1>2. CASE p.type = ETHERTYPE_ARP /\ PrintArpHeader(p.mem)
  <2>1. printed'.kind = "ARP" /\ printed'.ip = {} /\ printed'.tcp = {}
    BY <1>2 DEF PrintArpHeader, Printed
  <2>2. QED
    BY <2>1 DEF VerdictsRight, IpVerdictRight, TcpVerdictRight
<1>3. CASE printed' = Printed("other", {}, {}, None)
  <2>1. printed'.kind = "other" /\ printed'.ip = {} /\ printed'.tcp = {}
    BY <1>3 DEF Printed
  <2>2. QED
    BY <2>1 DEF VerdictsRight, IpVerdictRight, TcpVerdictRight
<1>4. CASE p.type = ETHERTYPE_IP /\ PrintIpHeader(p.mem)
  <2>1. PICK m : m = p.mem
    OBVIOUS
  <2>2. m \in Seq(Bytes) /\ WholeIpHeader(m) /\ WholeTcpHeader(m)
    BY <1>1, <1>4, <2>1 DEF IpHeadersWhole, TcpHeadersWhole
  <2>3. PICK ip, tcp, header :
          /\ ip = {IpCorrect(m)}
          /\ \/ /\ Protocol(m) = IPPROTO_TCP
                /\ \E correct \in BOOLEAN :
                     calculate_tcp_checksum(m, correct) /\ tcp = {correct}
             \/ tcp = {}
          /\ printed' = Printed("IP", ip, tcp, header)
    BY <1>4, <2>1, Zenon DEF PrintIpHeader
  <2>4. printed'.ip = ip /\ printed'.tcp = tcp
    BY <2>3 DEF Printed
  <2>5. IpVerdictRight'
    <3>1. Agrees(IpCorrect(m), IpHeader(m), Check(m))
      BY <2>2, IpVerdict
    <3>2. QED
      BY <1>1, <2>1, <2>3, <2>4, <3>1, Zenon DEF IpVerdictRight
  <2>6. TcpVerdictRight'
    <3> SUFFICES ASSUME Complete(m), HeaderLength(m) <= TotLen(m),
                        NEW correct \in tcp
                 PROVE  Agrees(correct, TcpCovered(m), ThSum(Transport(m)))
      BY <1>1, <2>1, <2>4, Zenon DEF TcpVerdictRight
    <3>1. Protocol(m) = IPPROTO_TCP /\ calculate_tcp_checksum(m, correct)
      BY <2>3
    <3>2. PICK b : b = Buffered(m)
      OBVIOUS
    <3>3. correct = (ntohs(in_cksum(b, PSEUDO_HEADER_SIZE + TcpLength(m)))
                       = ntohs(ThSum(Transport(m))))
      BY <3>1, <3>2 DEF calculate_tcp_checksum, Buffered
    <3>4. QED
      BY <2>2, <3>1, <3>2, <3>3, TcpVerdict
  <2>7. QED
    BY <2>5, <2>6 DEF VerdictsRight
<1>5. QED
  BY <1>2, <1>3, <1>4 DEF packetHandler

LEMMA TraceStep ==
  ASSUME IpHeadersWhole, TcpHeadersWhole
  PROVE  VerdictsRight /\ [Next]_vars => VerdictsRight'
<1>1. CASE Next
  BY <1>1, HandlerRight DEF Next
<1>2. CASE UNCHANGED vars
  BY <1>2 DEF vars, VerdictsRight, IpVerdictRight, TcpVerdictRight
<1>3. QED
  BY <1>1, <1>2

LEMMA TraceInit == Init => VerdictsRight
  BY DEF Init, VerdictsRight, IpVerdictRight, TcpVerdictRight

\* On packets that hold their headers, what trace says of the checksum of an
\* IP header is what a receiver would say.
THEOREM IpVerdictRightCorrect ==
  ASSUME IpHeadersWhole, TcpHeadersWhole
  PROVE  Spec => []IpVerdictRight
<1>1. VerdictsRight => IpVerdictRight
  BY DEF VerdictsRight
<1>2. QED
  BY <1>1, TraceInit, TraceStep, PTL DEF Spec

\* And what it says of the checksum of a TCP segment that was captured whole.
THEOREM TcpVerdictRightCorrect ==
  ASSUME IpHeadersWhole, TcpHeadersWhole
  PROVE  Spec => []TcpVerdictRight
<1>1. VerdictsRight => TcpVerdictRight
  BY DEF VerdictsRight
<1>2. QED
  BY <1>1, TraceInit, TraceStep, PTL DEF Spec

-----------------------------------------------------------------------------
(* What the sender put into the headers, as RFC 791, 768, 792, 793 and 826 *)
(* lay them out.                                                           *)

Words == 0 .. (Word - 1)

\* A word in network byte order at an offset from 1.
Puts(mem, i, w) == i + 1 <= Len(mem) /\ <<mem[i], mem[i + 1]>> = NetBytes(w)

SentPorts(mem, at, sent) ==
  sent.source \in Words /\ Puts(mem, at + 1, sent.source) /\
  sent.dest \in Words /\ Puts(mem, at + 3, sent.dest)

\* The bits of the byte of flags.
FlagSet(byte, flag) == (byte \div flag) % 2 = 1

SentFlags(byte, flags) ==
  /\ "FIN" \in flags <=> FlagSet(byte, 1)
  /\ "SYN" \in flags <=> FlagSet(byte, 2)
  /\ "RST" \in flags <=> FlagSet(byte, 4)
  /\ "ACK" \in flags <=> FlagSet(byte, 16)

TcpSent(mem, at, sent) ==
  /\ at + 16 <= Len(mem) /\ SentPorts(mem, at, sent)
  /\ sent.acknumber = <<mem[at + 9], mem[at + 10], mem[at + 11], mem[at + 12]>>
  /\ SentFlags(mem[at + 14], sent.flags)
  /\ sent.window \in Words /\ Puts(mem, at + 15, sent.window)

\* A header of ihl words, and behind it what the protocol has there.
IpSent(mem, sent) ==
  /\ sent.ihl \in 5 .. 15 /\ sent.total \in Words /\ sent.proto \in Bytes
  /\ mem[1] = 64 + sent.ihl /\ 4 * sent.ihl <= Len(mem)
  /\ Puts(mem, 3, sent.total) /\ mem[10] = sent.proto
  /\ sent.proto = IPPROTO_UDP => SentPorts(mem, 4 * sent.ihl, sent)
  /\ sent.proto = IPPROTO_ICMP =>
       4 * sent.ihl + 1 <= Len(mem) /\ mem[4 * sent.ihl + 1] = sent.type
  /\ sent.proto = IPPROTO_TCP => TcpSent(mem, 4 * sent.ihl, sent)

ArpSent(mem, sent) == sent.oper \in Words /\ Puts(mem, 7, sent.oper)

\* What a packet's sender is said to have put into it is there.
HeadersSent ==
  \A p \in Captured :
    /\ p.type = ETHERTYPE_ARP => ArpSent(p.mem, p.sent)
    /\ p.type = ETHERTYPE_IP  => IpSent(p.mem, p.sent)

\* trace reads such a word as it was put there.
LEMMA WordRead ==
  ASSUME NEW mem, NEW i \in Nat, NEW w \in Words, Puts(mem, i, w)
  PROVE  ntohs(HostWord(mem, i)) = w
<1>1. IsWord(w)
  BY SMT DEF Words, Word, Byte, IsWord
<1>2. PICK x : x = ntohs(w)
  OBVIOUS
<1>3. IsWord(x) /\ ntohs(x) = w
  BY <1>1, <1>2, ExchangeMultiplies, ExchangeTwice
<1>4. mem[i] = x % Byte /\ mem[i + 1] = x \div Byte
  BY <1>2 DEF Puts, NetBytes, HostBytes
<1>5. PICK l, h : IsByte(l) /\ IsByte(h) /\ x = l + 256 * h
  BY <1>3, BytesOfWord
<1>6. x % 256 = l /\ x \div 256 = h
  BY <1>5, WordOfBytes
<1>7. HostWord(mem, i) = x
  BY <1>4, <1>5, <1>6 DEF HostWord, Byte
<1>8. QED
  BY <1>3, <1>7

\* What stands behind the IP header.
LEMMA TransportAt ==
  ASSUME NEW mem \in Seq(Bytes), NEW hl \in Nat, hl = HeaderLength(mem), hl <= Len(mem)
  PROVE  \A i \in Nat \ {0} : hl + i <= Len(mem) => Transport(mem)[i] = mem[hl + i]
<1>1. PICK n, t : n = Len(mem) /\ t = Transport(mem)
  OBVIOUS
<1>2. n \in Nat /\ hl <= n /\ t = SubSeq(mem, hl + 1, n)
  BY <1>1 DEF Transport
<1>3. \A i \in 1 .. (n - hl) : t[i] = mem[hl + i]
  BY ONLY <1>1, <1>2, mem \in Seq(Bytes), hl \in Nat
<1>4. QED
  BY <1>1, <1>2, <1>3

LEMMA TransportWord ==
  ASSUME NEW mem \in Seq(Bytes), NEW hl \in Nat, hl = HeaderLength(mem), hl <= Len(mem),
         NEW i \in {1, 3, 15}, NEW w \in Words, Puts(mem, hl + i, w)
  PROVE  ntohs(HostWord(Transport(mem), i)) = w
<1>1. PICK t : t = Transport(mem)
  OBVIOUS
<1>2. hl + i + 1 <= Len(mem)
  BY DEF Puts
<1>3. t[i] = mem[hl + i] /\ t[i + 1] = mem[hl + i + 1]
  <2>1. \A k \in Nat \ {0} : hl + k <= Len(mem) => t[k] = mem[hl + k]
    BY <1>1, TransportAt
  <2>2. /\ i \in Nat \ {0} /\ i + 1 \in Nat \ {0} /\ hl + (i + 1) = hl + i + 1
        /\ Len(mem) \in Nat /\ hl + i <= Len(mem)
    BY <1>2
  <2>3. QED
    BY <1>2, <2>1, <2>2
<1>4. HostWord(t, i) = HostWord(mem, hl + i)
  BY <1>3 DEF HostWord
<1>5. hl + i \in Nat
  OBVIOUS
<1>6. QED
  BY <1>1, <1>4, <1>5, WordRead

\* The ports, wherever the IP header ends.
LEMMA PortsRead ==
  ASSUME NEW mem \in Seq(Bytes), NEW hl \in Nat, hl = HeaderLength(mem), hl <= Len(mem),
         NEW sent, SentPorts(mem, hl, sent)
  PROVE  /\ ntohs(HostWord(Transport(mem), 1)) = sent.source
         /\ ntohs(HostWord(Transport(mem), 3)) = sent.dest
  BY TransportWord, Zenon DEF SentPorts

LEMMA PortRead == \A port : PortTold(TcpPort(port), port)
  BY DEF PortTold, TcpPort

\* The header of a TCP segment.
LEMMA TcpRead ==
  ASSUME NEW mem \in Seq(Bytes), NEW hl \in Nat, hl = HeaderLength(mem), hl <= Len(mem),
         NEW sent, TcpSent(mem, hl, sent)
  PROVE  TcpTold(PrintTCPHeader(Transport(mem)), sent)
<1>1. PICK t, header : t = Transport(mem) /\ header = PrintTCPHeader(t)
  OBVIOUS
<1>2. SentPorts(mem, hl, sent) /\ hl + 16 <= Len(mem)
  BY DEF TcpSent
<1>3. ntohs(HostWord(t, 1)) = sent.source /\ ntohs(HostWord(t, 3)) = sent.dest
  BY <1>1, <1>2, PortsRead, Zenon
<1>4. ntohs(HostWord(t, 15)) = sent.window
  <2>1. sent.window \in Words /\ Puts(mem, hl + 15, sent.window)
    BY Zenon DEF TcpSent
  <2>2. QED
    BY <1>1, <2>1, TransportWord
<1>5. /\ t[9] = mem[hl + 9] /\ t[10] = mem[hl + 10] /\ t[11] = mem[hl + 11]
      /\ t[12] = mem[hl + 12] /\ t[14] = mem[hl + 14]
  <2>1. \A i \in Nat \ {0} : hl + i <= Len(mem) => t[i] = mem[hl + i]
    BY <1>1, TransportAt
  <2>2. QED
    BY <1>2, <2>1
<1>6. PICK flags : flags = sent.flags
  OBVIOUS
<1>7. /\ "ACK" \in flags <=> FlagBit(t, TH_ACK)
      /\ "SYN" \in flags <=> FlagBit(t, TH_SYN)
      /\ "RST" \in flags <=> FlagBit(t, TH_RST)
      /\ "FIN" \in flags <=> FlagBit(t, TH_FIN)
  <2>1. SentFlags(t[14], flags)
    BY <1>5, <1>6, Zenon DEF TcpSent
  <2>2. QED
    BY <2>1, Zenon
       DEF SentFlags, FlagSet, FlagBit, TH_ACK, TH_SYN, TH_RST, TH_FIN
<1>8. sent.acknumber = <<t[9], t[10], t[11], t[12]>>
  BY <1>5, Zenon DEF TcpSent
<1>9. PICK number : number = <<t[9], t[10], t[11], t[12]>>
  OBVIOUS
<1>10. /\ header.source = TcpPort(sent.source) /\ header.dest = TcpPort(sent.dest)
       /\ header.acknumber = (IF FlagBit(t, TH_ACK) THEN number ELSE <<>>)
       /\ header.ack = FlagBit(t, TH_ACK) /\ header.syn = FlagBit(t, TH_SYN)
       /\ header.rst = FlagBit(t, TH_RST) /\ header.fin = FlagBit(t, TH_FIN)
       /\ header.window = sent.window
  BY <1>1, <1>3, <1>4, <1>9 DEF PrintTCPHeader
<1>11. PortTold(header.source, sent.source) /\ PortTold(header.dest, sent.dest)
  BY <1>10, PortRead, Zenon
<1>12. header.acknumber = IF "ACK" \in flags THEN sent.acknumber ELSE <<>>
  BY <1>7, <1>8, <1>9, <1>10, Zenon
<1>13. /\ header.ack = ("ACK" \in flags) /\ header.syn = ("SYN" \in flags)
       /\ header.rst = ("RST" \in flags) /\ header.fin = ("FIN" \in flags)
  <2>1. /\ FlagBit(t, TH_ACK) \in BOOLEAN /\ FlagBit(t, TH_SYN) \in BOOLEAN
        /\ FlagBit(t, TH_RST) \in BOOLEAN /\ FlagBit(t, TH_FIN) \in BOOLEAN
    BY DEF FlagBit
  <2>2. /\ FlagBit(t, TH_ACK) = ("ACK" \in flags) /\ FlagBit(t, TH_SYN) = ("SYN" \in flags)
        /\ FlagBit(t, TH_RST) = ("RST" \in flags) /\ FlagBit(t, TH_FIN) = ("FIN" \in flags)
    BY <1>7, <2>1
  <2>3. QED
    BY <1>10, <2>2, Zenon
<1>14. QED
  BY <1>1, <1>6, <1>10, <1>11, <1>12, <1>13, Zenon DEF TcpTold

\* What trace prints of an IP packet.
IpPrinted(mem) ==
  [length |-> HeaderLength(mem), total |-> TotLen(mem),
   protocol |-> PrintProtocol(Protocol(mem)), transport |-> PrintTransport(mem)]

\* It tells what the sender put into the packet.
LEMMA IpRead ==
  ASSUME NEW mem \in Seq(Bytes), NEW sent, IpSent(mem, sent)
  PROVE  IpTold(IpPrinted(mem), sent)
<1>1. PICK hl, t, proto, header :
        /\ hl = 4 * sent.ihl /\ t = Transport(mem) /\ proto = sent.proto
        /\ header = IpPrinted(mem)
  OBVIOUS
<1>2. hl \in Nat /\ hl = HeaderLength(mem) /\ hl <= Len(mem)
  <2>1. sent.ihl \in 5 .. 15 /\ mem[1] = 64 + sent.ihl /\ hl <= Len(mem)
    BY <1>1, Zenon DEF IpSent
  <2>2. PICK ihl : ihl = sent.ihl
    OBVIOUS
  <2>3. (64 + ihl) % 16 = ihl
    BY <2>1, <2>2, SMT
  <2>4. QED
    BY <1>1, <2>1, <2>2, <2>3 DEF HeaderLength
<1>3. TotLen(mem) = sent.total /\ Protocol(mem) = proto
  <2>1. sent.total \in Words /\ Puts(mem, 3, sent.total) /\ mem[10] = proto
    BY <1>1, Zenon DEF IpSent
  <2>2. QED
    BY <2>1, WordRead DEF TotLen, Protocol
<1>4. /\ header.length = hl /\ header.total = sent.total
      /\ header.protocol = PrintProtocol(proto) /\ header.transport = PrintTransport(mem)
  BY <1>1, <1>2, <1>3 DEF IpPrinted
<1>5. \A name \in DOMAIN Numbers : header.protocol = name <=> proto = Numbers[name]
  <2>1. DOMAIN Numbers = {"ICMP", "TCP", "UDP"}
        /\ Numbers["ICMP"] = 1 /\ Numbers["TCP"] = 6 /\ Numbers["UDP"] = 17
    BY DEF Numbers
  <2>2. header.protocol =
          CASE proto = 17 -> "UDP" [] proto = 1 -> "ICMP" [] proto = 6 -> "TCP"
            [] OTHER -> "Unknown"
    BY <1>4, Zenon DEF PrintProtocol, IPPROTO_UDP, IPPROTO_ICMP, IPPROTO_TCP
  <2>3. QED
    BY ONLY <2>1, <2>2, SMT
<1>6. /\ proto = 17 => header.transport = PrintUDPHeader(t)
      /\ proto = 1 => header.transport = PrintICMPHeader(t)
      /\ proto = 6 => header.transport = PrintTCPHeader(t)
  <2>1. PICK u, i, c : u = PrintUDPHeader(t) /\ i = PrintICMPHeader(t) /\ c = PrintTCPHeader(t)
    OBVIOUS
  <2>2. header.transport =
          CASE proto = 17 -> u [] proto = 1 -> i [] proto = 6 -> c [] OTHER -> None
    BY <1>1, <1>3, <1>4, <2>1, Zenon
       DEF PrintTransport, IPPROTO_UDP, IPPROTO_ICMP, IPPROTO_TCP
  <2>3. QED
    BY ONLY <2>1, <2>2, SMT
<1>7. ASSUME proto = 1 PROVE IcmpTold(header.transport, sent)
  <2>1. hl + 1 <= Len(mem) /\ mem[hl + 1] = sent.type
    BY <1>1, <1>7, Zenon DEF IpSent, IPPROTO_ICMP
  <2>2. t[1] = sent.type
    BY <1>1, <1>2, <2>1, TransportAt
  <2>3. PICK type : type = sent.type
    OBVIOUS
  <2>4. header.transport.type =
          CASE type = 8 -> <<"Request">> [] type = 0 -> <<"Reply">> [] OTHER -> <<"Type", type>>
    BY <1>6, <1>7, <2>2, <2>3 DEF PrintICMPHeader, ICMP_ECHO, ICMP_ECHOREPLY
  <2>5. QED
    BY <2>3, <2>4 DEF IcmpTold
<1>8. ASSUME proto = 6 PROVE TcpTold(header.transport, sent)
  <2>1. TcpSent(mem, hl, sent)
    BY <1>1, <1>8, Zenon DEF IpSent, IPPROTO_TCP
  <2>2. TcpTold(PrintTCPHeader(t), sent)
    BY <1>1, <1>2, <2>1, TcpRead, Zenon
  <2>3. QED
    BY <1>6, <1>8, <2>2, Zenon
<1>9. ASSUME proto = 17
      PROVE header.transport.source = sent.source /\ header.transport.dest = sent.dest
  <2>1. SentPorts(mem, hl, sent)
    BY <1>1, <1>9, Zenon DEF IpSent, IPPROTO_UDP
  <2>2. ntohs(HostWord(t, 1)) = sent.source /\ ntohs(HostWord(t, 3)) = sent.dest
    BY <1>1, <1>2, <2>1, PortsRead, Zenon
  <2>3. QED
    BY <1>6, <1>9, <2>2 DEF PrintUDPHeader
<1>10. QED
  BY <1>1, <1>4, <1>5, <1>7, <1>8, <1>9, Zenon DEF IpTold

\* What trace prints of the headers tells what the sender put into them: every
\* length, port, flag and operation, in the order of the machine and behind an
\* IP header of any length.
THEOREM PrintsTheHeadersCorrect ==
  ASSUME HeadersSent
  PROVE  Spec => []PrintsTheHeaders
<1>1. Init => PrintsTheHeaders
  BY DEF Init, PrintsTheHeaders
<1>2. PrintsTheHeaders /\ [Next]_vars => PrintsTheHeaders'
  <2>1. CASE UNCHANGED vars
    BY <2>1 DEF vars, PrintsTheHeaders
  <2>2. ASSUME NEW p \in Captured, packetHandler(p) PROVE PrintsTheHeaders'
    <3>1. packet' = p /\ pnum' = pnum + 1 /\ p.mem \in Seq(Bytes)
      BY <2>2, TraceAssumption DEF packetHandler
    <3>2. ASSUME NEW kind, NEW ip, NEW tcp, NEW header,
                 printed' = Printed(kind, ip, tcp, header),
                 kind = "ARP" => ArpTold(header, p.sent),
                 kind = "IP" => IpTold(header, p.sent)
          PROVE  PrintsTheHeaders'
      <4>1. printed'.num = pnum + 1 /\ printed'.kind = kind /\ printed'.header = header
        BY <3>2 DEF Printed
      <4>2. QED
        BY <3>1, <3>2, <4>1, Zenon DEF PrintsTheHeaders, ArpTold, IpTold
    <3>3. CASE p.type = ETHERTYPE_ARP /\ PrintArpHeader(p.mem)
      <4>1. PICK header :
              header = [oper |-> IF ntohs(HostWord(p.mem, 7)) = ARP_REQUEST
                                 THEN "Request" ELSE "Reply"]
        OBVIOUS
      <4>2. ArpSent(p.mem, p.sent)
        BY <3>3 DEF HeadersSent
      <4>3. ntohs(HostWord(p.mem, 7)) = p.sent.oper
        BY <4>2, WordRead DEF ArpSent
      <4>4. ArpTold(header, p.sent)
        BY <4>1, <4>3 DEF ArpTold, ARP_REQUEST
      <4>5. printed' = Printed("ARP", {}, {}, header)
        BY <3>3, <4>1, Zenon DEF PrintArpHeader
      <4>6. QED
        BY <3>2, <4>4, <4>5
    <3>4. CASE p.type = ETHERTYPE_IP /\ PrintIpHeader(p.mem)
      <4>1. PICK header : header = IpPrinted(p.mem)
        OBVIOUS
      <4>2. IpSent(p.mem, p.sent)
        BY <3>4 DEF HeadersSent
      <4>3. IpTold(header, p.sent)
        BY <3>1, <4>1, <4>2, IpRead, Zenon
      <4>4. PICK ip, tcp : printed' = Printed("IP", ip, tcp, header)
        BY <3>4, <4>1, Zenon DEF PrintIpHeader, IpPrinted
      <4>5. QED
        BY <3>2, <4>3, <4>4
    <3>5. CASE p.type \notin {ETHERTYPE_ARP, ETHERTYPE_IP}
               /\ printed' = Printed("other", {}, {}, None)
      BY <3>2, <3>5
    <3>6. QED
      BY <2>2, <3>3, <3>4, <3>5 DEF packetHandler
  <2>3. QED
    BY <2>1, <2>2 DEF Next
<1>3. QED
  BY <1>1, <1>2, PTL DEF Spec
===============================================================================
