---------------------------- MODULE ChecksumProofs ----------------------------
(***************************************************************************)
(* in_cksum and RFC 1071, for every memory: the sum that is folded at the  *)
(* end is the sum whose carries are added back at once, in either byte     *)
(* order, and it notices that a byte was inverted.  The argument: both     *)
(* take a sum s to the only number of 16 bits that differs from s by a     *)
(* multiple of 65535 and is 0 only for 0, and to exchange the bytes of a   *)
(* word is to multiply it by 256, up to a multiple of 65535.               *)
(***************************************************************************)
EXTENDS Checksum, BasicLemmas, TLAPS

\* A range of numbers this large is written as an inequality here.
IsByte(x) == x \in Nat /\ x < 256
IsWord(x) == x \in Nat /\ x < 65536

\* r is what s comes to when every carry is added back.
ComesTo(s, r) ==
  /\ s \in Nat /\ IsWord(r) /\ (s = 0 <=> r = 0)
  /\ \E q \in Nat : s = r + 65535 * q

LEMMA ComesToOne ==
  ASSUME NEW s, NEW a, NEW b, ComesTo(s, a), ComesTo(s, b)
  PROVE  a = b
  BY SMT DEF ComesTo, IsWord

\* The folding of in_cksum, of a sum that fits in 32 bits.
LEMMA FoldComesTo ==
  ASSUME NEW s \in Nat, s < 65536 * 65536
  PROVE  ComesTo(s, Fold(s))
<1>1. Word = 65536
  BY SMT DEF Word, Byte
<1>2. PICK h, l : h = s \div 65536 /\ l = s % 65536
  BY SMT
<1>3. /\ h \in Nat /\ h < 65536 /\ l \in Nat /\ l < 65536
      /\ s = 65536 * h + l
  BY <1>2, SMT
<1>4. Fold(s) = ((h + l) + ((h + l) \div 65536)) % 65536
  BY <1>1, <1>2, SMT DEF Fold
<1>5. CASE h + l <= 65535
  <2>1. (h + l) \div 65536 = 0 /\ (h + l) % 65536 = h + l
    BY <1>3, <1>5, SMT
  <2>2. Fold(s) = h + l
    BY <1>3, <1>4, <2>1, SMT
  <2>3. s = (h + l) + 65535 * h /\ h \in Nat
    BY <1>3, SMT
  <2>4. /\ s = 0 <=> h + l = 0
        /\ h + l \in Nat /\ h + l < 65536
    BY <1>3, <1>5, SMT
  <2>5. QED
    BY <2>2, <2>3, <2>4, SMT DEF ComesTo, IsWord
<1>6. CASE h + l > 65535
  <2>1. (h + l) \div 65536 = 1
    BY <1>3, <1>6, SMT
  <2>2. (h + l) + 1 > 65536 /\ (h + l) + 1 < 131072
    BY <1>3, <1>6, SMT
  <2>3. ((h + l) + 1) % 65536 = h + l - 65535
    BY <1>3, <1>6, <2>2, SMT
  <2>4. Fold(s) = h + l - 65535
    BY <1>4, <2>1, <2>3, SMT
  <2>5. h + 1 \in Nat /\ s = (h + l - 65535) + 65535 * (h + 1)
    BY <1>3, SMT
  <2>6. /\ s # 0 /\ h + l - 65535 # 0
        /\ h + l - 65535 \in Nat /\ h + l - 65535 < 65536
    BY <1>3, <1>6, SMT
  <2>7. QED
    BY <2>4, <2>5, <2>6, SMT DEF ComesTo, IsWord
<1>7. QED
  BY <1>3, <1>5, <1>6, SMT

\* The addition of RFC 1071.
LEMMA OnesPlusComesTo ==
  ASSUME NEW s, NEW a, NEW w, IsWord(w), ComesTo(s, a)
  PROVE  ComesTo(s + w, OnesPlus(a, w))
<1>1. PICK q \in Nat : s = a + 65535 * q
  BY SMT DEF ComesTo, IsWord
<1>2. /\ s \in Nat /\ (s = 0 <=> a = 0)
      /\ a \in Nat /\ a < 65536 /\ w \in Nat /\ w < 65536
  BY SMT DEF ComesTo, IsWord
<1>3. OnesPlus(a, w) = IF a + w < 65536 THEN a + w ELSE a + w - 65535
  BY <1>2, SMT DEF OnesPlus, Word, Byte
<1>4. CASE a + w < 65536
  <2>1. OnesPlus(a, w) = a + w
    BY <1>3, <1>4, SMT
  <2>2. s + w = (a + w) + 65535 * q
    BY <1>1, <1>2, SMT
  <2>3. QED
    BY <1>2, <1>4, <2>1, <2>2, SMT DEF ComesTo, IsWord
<1>5. CASE a + w >= 65536
  <2>1. OnesPlus(a, w) = a + w - 65535
    BY <1>2, <1>3, <1>5, SMT
  <2>2. s + w = (a + w - 65535) + 65535 * (q + 1) /\ q + 1 \in Nat
    BY <1>1, <1>2, SMT
  <2>3. QED
    BY <1>2, <1>5, <2>1, <2>2, SMT DEF ComesTo, IsWord
<1>6. QED
  BY <1>2, <1>4, <1>5, SMT

-----------------------------------------------------------------------------
(* The order of the bytes. *)

\* A word has a low and a high byte, and they are what / and % of it give.
LEMMA BytesOfWord ==
  ASSUME NEW w, IsWord(w)
  PROVE  \E low, high : IsByte(low) /\ IsByte(high) /\ w = low + 256 * high
<1>1. PICK h, l : h = w \div 256 /\ l = w % 256
  BY SMT
<1>2. h \in Nat /\ h < 256 /\ l \in Nat /\ l < 256 /\ w = l + 256 * h
  BY <1>1, SMT DEF IsWord
<1>3. IsByte(l) /\ IsByte(h)
  BY <1>2, SMT DEF IsByte
<1>4. QED
  BY <1>2, <1>3, Zenon

LEMMA WordOfBytes ==
  ASSUME NEW low, IsByte(low), NEW high, IsByte(high)
  PROVE  /\ IsWord(low + 256 * high)
         /\ (low + 256 * high) % 256 = low
         /\ (low + 256 * high) \div 256 = high
  BY SMT DEF IsByte, IsWord

LEMMA Exchange ==
  ASSUME NEW low, IsByte(low), NEW high, IsByte(high)
  PROVE  ntohs(low + 256 * high) = high + 256 * low
<1>1. (low + 256 * high) % 256 = low /\ (low + 256 * high) \div 256 = high
  BY WordOfBytes, SMT
<1>2. QED
  BY <1>1, SMT DEF ntohs, Byte, IsByte

\* ntohs of a word is a word, and 256 times it but for a multiple of 65535.
LEMMA ExchangeMultiplies ==
  ASSUME NEW w, IsWord(w)
  PROVE  /\ IsWord(ntohs(w)) /\ (ntohs(w) = 0 <=> w = 0)
         /\ \E q \in Nat : 256 * w = ntohs(w) + 65535 * q
<1>1. PICK l, h : IsByte(l) /\ IsByte(h) /\ w = l + 256 * h
  BY BytesOfWord, SMT
<1>2. ntohs(w) = h + 256 * l
  BY <1>1, Exchange, SMT
<1>3. l \in Nat /\ l < 256 /\ h \in Nat /\ h < 256
  BY <1>1, SMT DEF IsByte
<1>4. IsWord(h + 256 * l)
  BY <1>3, SMT DEF IsWord
<1>5. h + 256 * l = 0 <=> w = 0
  BY <1>1, <1>3, SMT
<1>6. 256 * w = (h + 256 * l) + 65535 * h
  BY <1>1, <1>3, SMT
<1>7. QED
  BY <1>2, <1>3, <1>4, <1>5, <1>6, SMT

\* ntohs undoes itself, and commutes with the complement.
LEMMA ExchangeTwice ==
  ASSUME NEW w, IsWord(w)
  PROVE  ntohs(ntohs(w)) = w /\ ntohs(65535 - w) = 65535 - ntohs(w)
<1>1. PICK l, h : IsByte(l) /\ IsByte(h) /\ w = l + 256 * h
  BY BytesOfWord, SMT
<1>2. ntohs(w) = h + 256 * l
  BY <1>1, Exchange, SMT
<1>3. ntohs(h + 256 * l) = l + 256 * h
  BY <1>1, Exchange, SMT
<1>4. PICK g, k : g = 255 - h /\ k = 255 - l
  BY SMT
<1>5. l \in Nat /\ l < 256 /\ h \in Nat /\ h < 256
  BY <1>1, SMT DEF IsByte
<1>6. IsByte(g) /\ IsByte(k) /\ 65535 - w = k + 256 * g
  BY <1>1, <1>4, <1>5, SMT DEF IsByte
<1>7. ntohs(k + 256 * g) = g + 256 * k
  BY <1>6, Exchange, SMT
<1>8. g + 256 * k = 65535 - (h + 256 * l)
  BY <1>4, <1>5, SMT
<1>9. QED
  BY <1>1, <1>2, <1>3, <1>6, <1>7, <1>8, SMT

\* If t is 256 times s but for a multiple of 65535, it comes to the exchanged
\* bytes of what s comes to.
LEMMA ExchangedSum ==
  ASSUME NEW s, NEW t, NEW a, NEW b, ComesTo(s, a), ComesTo(t, b),
         s = 0 <=> t = 0, NEW q \in Nat, 256 * s = t + 65535 * q
  PROVE  b = ntohs(a)
<1>1. PICK m \in Nat : s = a + 65535 * m
  BY SMT DEF ComesTo, IsWord
<1>2. PICK n \in Nat : t = b + 65535 * n
  BY SMT DEF ComesTo, IsWord
<1>3. /\ s \in Nat /\ IsWord(a) /\ (s = 0 <=> a = 0)
      /\ t \in Nat /\ IsWord(b) /\ (t = 0 <=> b = 0)
  BY SMT DEF ComesTo
<1>4. PICK c : c = ntohs(a)
  BY SMT
<1>5. IsWord(c) /\ (c = 0 <=> a = 0)
  BY <1>3, <1>4, ExchangeMultiplies, SMT
<1>6. PICK p \in Nat : 256 * a = c + 65535 * p
  BY <1>3, <1>4, ExchangeMultiplies, SMT
<1>7. /\ a \in Nat /\ b \in Nat /\ b < 65536 /\ c \in Nat /\ c < 65536
      /\ c - b = 65535 * (n + q - 256 * m - p)
  BY <1>1, <1>2, <1>3, <1>5, <1>6, SMT DEF IsWord
<1>8. c = 0 <=> b = 0
  BY <1>3, <1>5, SMT
<1>9. PICK d : d = n + q - 256 * m - p
  BY SMT
<1>10. d \in Int /\ c - b = 65535 * d
  BY <1>1, <1>2, <1>6, <1>7, <1>9, SMT
<1>11. c = b
  BY <1>7, <1>8, <1>10, SMT
<1>12. QED
  BY <1>4, <1>11, SMT

-----------------------------------------------------------------------------
(* The sums over memory. *)

Memory(mem, len) == len \in Nat /\ \A i \in 1 .. len : IsByte(mem[i])

\* f holds the sums of the first words of memory, up to word n.
Sums(mem, len, n, f) ==
  f = [k \in 0 .. n |-> IF k = 0 THEN 0 ELSE f[k - 1] + WordAt(mem, k, len)]

LEMMA SumsExist ==
  ASSUME NEW mem, NEW len, NEW m \in Nat
  PROVE  \E f : Sums(mem, len, m, f)
<1> DEFINE S == {n \in Nat : \E f : Sums(mem, len, n, f)}
<1>1. 0 \in S
  <2>1. PICK f : f = [k \in 0 .. 0 |-> 0]
    OBVIOUS
  <2>2. Sums(mem, len, 0, f)
    BY <2>1 DEF Sums
  <2>3. QED
    BY <2>2
<1>2. ASSUME NEW n \in Nat, n \in S PROVE n + 1 \in S
  <2>1. PICK f : Sums(mem, len, n, f)
    BY <1>2
  <2>2. PICK last : last = f[n] + WordAt(mem, n + 1, len)
    OBVIOUS
  <2>3. PICK g : g = [k \in 0 .. (n + 1) |-> IF k = n + 1 THEN last ELSE f[k]]
    OBVIOUS
  <2>4. \A k \in 0 .. n : f[k] = IF k = 0 THEN 0 ELSE f[k - 1] + WordAt(mem, k, len)
    BY <2>1 DEF Sums
  <2>5. g[n + 1] = last /\ \A k \in 0 .. n : g[k] = f[k]
    BY <2>3
  <2>6. \A k \in 0 .. (n + 1) :
          g[k] = IF k = 0 THEN 0 ELSE g[k - 1] + WordAt(mem, k, len)
    <3> TAKE k \in 0 .. (n + 1)
    <3>1. CASE k = n + 1
      BY <2>2, <2>5, <3>1
    <3>2. CASE k = 0
      BY <2>4, <2>5, <3>2
    <3>3. CASE k \in 1 .. n
      <4>1. k - 1 \in 0 .. n /\ k \in 0 .. n /\ k # 0
        BY <3>3
      <4>2. QED
        BY <2>4, <2>5, <4>1
    <3>4. QED
      BY <3>1, <3>2, <3>3
  <2>7. g = [k \in 0 .. (n + 1) |-> g[k]]
    BY <2>3
  <2>8. Sums(mem, len, n + 1, g)
    BY <2>6, <2>7 DEF Sums
  <2>9. QED
    BY <2>8
<1> HIDE DEF S
<1>3. m \in S
  BY <1>1, <1>2, NumbersInduction
<1>4. QED
  BY <1>3 DEF S

LEMMA AdditionsIsNat ==
  ASSUME NEW len \in Nat
  PROVE  /\ Additions(len) \in Nat
         /\ len <= 2 * Additions(len) /\ 2 * Additions(len) <= len + 1
  BY DEF Additions

LEMMA TotalIsSum ==
  ASSUME NEW mem, NEW len \in Nat
  PROVE  \E f : /\ Total(mem, len) = f[Additions(len)] /\ f[0] = 0
                /\ \A k \in 1 .. Additions(len) : f[k] = f[k - 1] + WordAt(mem, k, len)
<1> DEFINE f == CHOOSE g : Sums(mem, len, Additions(len), g)
<1>1. Additions(len) \in Nat
  BY AdditionsIsNat
<1>2. Sums(mem, len, Additions(len), f)
  BY <1>1, SumsExist, Zenon
<1>3. Total(mem, len) = f[Additions(len)]
  BY DEF Total, Sums
<1> HIDE DEF f
<1>4. \A k \in 0 .. Additions(len) :
        f[k] = IF k = 0 THEN 0 ELSE f[k - 1] + WordAt(mem, k, len)
  BY <1>2 DEF Sums
<1>5. QED
  BY <1>1, <1>3, <1>4

\* The two bytes of a word of memory.
LEMMA WordIsTwoBytes ==
  ASSUME NEW mem, NEW len, Memory(mem, len), NEW k \in Nat \ {0}
  PROVE  /\ IsByte(ByteAt(mem, 2 * k - 1, len)) /\ IsByte(ByteAt(mem, 2 * k, len))
         /\ WordAt(mem, k, len)
              = ByteAt(mem, 2 * k - 1, len) + 256 * ByteAt(mem, 2 * k, len)
         /\ IsWord(WordAt(mem, k, len))
<1>1. IsByte(0)
  BY SMT DEF IsByte
<1>2. ASSUME NEW i \in Nat \ {0} PROVE IsByte(ByteAt(mem, i, len))
  BY <1>1 DEF ByteAt, Memory
<1>3. IsByte(ByteAt(mem, 2 * k - 1, len)) /\ IsByte(ByteAt(mem, 2 * k, len))
  <2>1. PICK i, j : i = 2 * k - 1 /\ j = 2 * k
    OBVIOUS
  <2>2. i \in Nat \ {0} /\ j \in Nat \ {0}
    BY <2>1
  <2>3. QED
    BY <1>2, <2>1, <2>2
<1>4. WordAt(mem, k, len)
        = ByteAt(mem, 2 * k - 1, len) + 256 * ByteAt(mem, 2 * k, len)
  BY DEF WordAt, Byte
<1>5. QED
  BY <1>3, <1>4, WordOfBytes

\* The accumulator, an int of 32 bits, holds the sum of 64 Kbyte.
LEMMA TotalBound ==
  ASSUME NEW mem, NEW len, Memory(mem, len)
  PROVE  Total(mem, len) \in Nat /\ Total(mem, len) <= 65535 * Additions(len)
<1>1. len \in Nat
  BY DEF Memory
<1>2. PICK f : /\ Total(mem, len) = f[Additions(len)] /\ f[0] = 0
               /\ \A k \in 1 .. Additions(len) : f[k] = f[k - 1] + WordAt(mem, k, len)
  BY <1>1, TotalIsSum
<1>3. Additions(len) \in Nat
  BY <1>1, AdditionsIsNat
<1> DEFINE N == {n \in Nat : n <= Additions(len) => f[n] \in Nat /\ f[n] <= 65535 * n}
<1>4. 0 \in N
  BY <1>2, SMT
<1>5. ASSUME NEW n \in Nat, n \in N PROVE n + 1 \in N
  <2> SUFFICES ASSUME n + 1 <= Additions(len)
               PROVE  f[n + 1] \in Nat /\ f[n + 1] <= 65535 * (n + 1)
    BY SMT
  <2>1. f[n] \in Nat /\ f[n] <= 65535 * n
    BY <1>3, <1>5, SMT
  <2>2. n + 1 \in 1 .. Additions(len) /\ (n + 1) - 1 = n
    BY <1>3, SMT
  <2>3. f[n + 1] = f[n] + WordAt(mem, n + 1, len)
    BY <1>2, <2>2, SMT
  <2>4. PICK w : w = WordAt(mem, n + 1, len)
    OBVIOUS
  <2>5. w \in Nat /\ w < 65536
    <3>1. IsWord(w)
      BY <2>4, WordIsTwoBytes, SMT
    <3>2. QED
      BY <3>1, SMT DEF IsWord
  <2>6. QED
    BY <2>1, <2>3, <2>4, <2>5, SMT
<1> HIDE DEF N
<1>6. Additions(len) \in N
  BY <1>3, <1>4, <1>5, NumbersInduction
<1>7. QED
  BY <1>2, <1>3, <1>6, SMT DEF N

\* Memory that differs in one word only, by d, or in none.
LEMMA TotalChange ==
  ASSUME NEW m1, NEW m2, NEW len, Memory(m1, len), Memory(m2, len),
         NEW j \in Nat, NEW d \in Int,
         \A k \in 1 .. Additions(len) :
           WordAt(m2, k, len) = WordAt(m1, k, len) + (IF k = j THEN d ELSE 0)
  PROVE  Total(m2, len)
           = Total(m1, len) + (IF j \in 1 .. Additions(len) THEN d ELSE 0)
<1>1. len \in Nat
  BY DEF Memory
<1>2. PICK f : /\ Total(m1, len) = f[Additions(len)] /\ f[0] = 0
               /\ \A k \in 1 .. Additions(len) : f[k] = f[k - 1] + WordAt(m1, k, len)
  BY <1>1, TotalIsSum
<1>3. PICK g : /\ Total(m2, len) = g[Additions(len)] /\ g[0] = 0
               /\ \A k \in 1 .. Additions(len) : g[k] = g[k - 1] + WordAt(m2, k, len)
  BY <1>1, TotalIsSum
<1>4. Additions(len) \in Nat
  BY <1>1, AdditionsIsNat
<1> DEFINE N == {n \in Nat : n <= Additions(len) =>
                   f[n] \in Nat /\ g[n] = f[n] + (IF 1 <= j /\ j <= n THEN d ELSE 0)}
<1>5. 0 \in N
  BY <1>2, <1>3
<1>6. ASSUME NEW n \in Nat, n \in N PROVE n + 1 \in N
  <2> SUFFICES ASSUME n + 1 <= Additions(len)
               PROVE  /\ f[n + 1] \in Nat
                      /\ g[n + 1] = f[n + 1] + (IF 1 <= j /\ j <= n + 1 THEN d ELSE 0)
    OBVIOUS
  <2>1. f[n] \in Nat /\ g[n] = f[n] + (IF 1 <= j /\ j <= n THEN d ELSE 0)
    BY <1>4, <1>6
  <2>2. n + 1 \in 1 .. Additions(len) /\ (n + 1) - 1 = n
    BY <1>4
  <2>3. /\ f[n + 1] = f[n] + WordAt(m1, n + 1, len)
        /\ g[n + 1] = g[n] + WordAt(m2, n + 1, len)
    BY <1>2, <1>3, <2>2
  <2>4. PICK v, w : v = WordAt(m1, n + 1, len) /\ w = WordAt(m2, n + 1, len)
    OBVIOUS
  <2>5. v \in Nat /\ w = v + (IF n + 1 = j THEN d ELSE 0)
    <3>1. IsWord(v)
      BY <2>4, WordIsTwoBytes
    <3>2. QED
      BY <2>2, <2>4, <3>1, SMT DEF IsWord
  <2>6. CASE n + 1 = j
    BY <2>1, <2>3, <2>4, <2>5, <2>6
  <2>7. CASE n + 1 # j
    BY <2>1, <2>3, <2>4, <2>5, <2>7
  <2>8. QED
    BY <2>6, <2>7
<1> HIDE DEF N
<1>7. Additions(len) \in N
  BY <1>4, <1>5, <1>6, NumbersInduction
<1>8. QED
  BY <1>2, <1>3, <1>4, <1>7 DEF N

-----------------------------------------------------------------------------
(* RFC 1071. *)

OnesSums(mem, n, f) ==
  f = [k \in 0 .. n |-> IF k = 0 THEN 0 ELSE OnesPlus(f[k - 1], NetWordAt(mem, k))]

LEMMA OnesSumsExist ==
  ASSUME NEW mem, NEW m \in Nat
  PROVE  \E f : OnesSums(mem, m, f)
<1> DEFINE S == {n \in Nat : \E f : OnesSums(mem, n, f)}
<1>1. 0 \in S
  <2>1. PICK f : f = [k \in 0 .. 0 |-> 0]
    OBVIOUS
  <2>2. OnesSums(mem, 0, f)
    BY <2>1 DEF OnesSums
  <2>3. QED
    BY <2>2
<1>2. ASSUME NEW n \in Nat, n \in S PROVE n + 1 \in S
  <2>1. PICK f : OnesSums(mem, n, f)
    BY <1>2
  <2>2. PICK last : last = OnesPlus(f[n], NetWordAt(mem, n + 1))
    OBVIOUS
  <2>3. PICK g : g = [k \in 0 .. (n + 1) |-> IF k = n + 1 THEN last ELSE f[k]]
    OBVIOUS
  <2>4. \A k \in 0 .. n :
          f[k] = IF k = 0 THEN 0 ELSE OnesPlus(f[k - 1], NetWordAt(mem, k))
    BY <2>1 DEF OnesSums
  <2>5. g[n + 1] = last /\ \A k \in 0 .. n : g[k] = f[k]
    BY <2>3
  <2>6. \A k \in 0 .. (n + 1) :
          g[k] = IF k = 0 THEN 0 ELSE OnesPlus(g[k - 1], NetWordAt(mem, k))
    <3> TAKE k \in 0 .. (n + 1)
    <3>1. CASE k = n + 1
      BY <2>2, <2>5, <3>1
    <3>2. CASE k = 0
      BY <2>4, <2>5, <3>2
    <3>3. CASE k \in 1 .. n
      <4>1. k - 1 \in 0 .. n /\ k \in 0 .. n /\ k # 0
        BY <3>3
      <4>2. QED
        BY <2>4, <2>5, <4>1
    <3>4. QED
      BY <3>1, <3>2, <3>3
  <2>7. g = [k \in 0 .. (n + 1) |-> g[k]]
    BY <2>3
  <2>8. OnesSums(mem, n + 1, g)
    BY <2>6, <2>7 DEF OnesSums
  <2>9. QED
    BY <2>8
<1> HIDE DEF S
<1>3. m \in S
  BY <1>1, <1>2, NumbersInduction
<1>4. QED
  BY <1>3 DEF S

LEMMA OnesSumIsSum ==
  ASSUME NEW mem, Len(mem) \in Nat
  PROVE  \E f : /\ OnesSum(mem) = f[Additions(Len(mem))] /\ f[0] = 0
                /\ \A k \in 1 .. Additions(Len(mem)) :
                     f[k] = OnesPlus(f[k - 1], NetWordAt(mem, k))
<1> DEFINE f == CHOOSE g : OnesSums(mem, Additions(Len(mem)), g)
<1>1. Additions(Len(mem)) \in Nat
  BY AdditionsIsNat
<1>2. OnesSums(mem, Additions(Len(mem)), f)
  BY <1>1, OnesSumsExist, Zenon
<1>3. OnesSum(mem) = f[Additions(Len(mem))]
  BY DEF OnesSum, OnesSums, Additions
<1> HIDE DEF f
<1>4. \A k \in 0 .. Additions(Len(mem)) :
        f[k] = IF k = 0 THEN 0 ELSE OnesPlus(f[k - 1], NetWordAt(mem, k))
  BY <1>2 DEF OnesSums
<1>5. QED
  BY <1>1, <1>3, <1>4

\* What the network calls a word is what the machine calls it, exchanged.
LEMMA NetWordIsExchanged ==
  ASSUME NEW mem, Memory(mem, Len(mem)), NEW k \in 1 .. Additions(Len(mem))
  PROVE  NetWordAt(mem, k) = ntohs(WordAt(mem, k, Len(mem)))
<1>1. PICK low, high : /\ low = ByteAt(mem, 2 * k - 1, Len(mem))
                       /\ high = ByteAt(mem, 2 * k, Len(mem))
  OBVIOUS
<1>2. Len(mem) \in Nat /\ k \in Nat \ {0}
  BY DEF Memory
<1>3. /\ IsByte(low) /\ IsByte(high)
      /\ WordAt(mem, k, Len(mem)) = low + 256 * high
  BY <1>1, <1>2, WordIsTwoBytes
<1>4. ntohs(low + 256 * high) = high + 256 * low
  BY <1>3, Exchange
<1>5. low = mem[2 * k - 1]
  <2>1. 2 * k - 1 <= Len(mem)
    <3>1. 2 * Additions(Len(mem)) <= Len(mem) + 1 /\ Additions(Len(mem)) \in Nat
      BY <1>2, AdditionsIsNat
    <3>2. QED
      BY <1>2, <3>1
  <2>2. QED
    BY <1>1, <2>1 DEF ByteAt
<1>6. NetWordAt(mem, k) = 256 * low + high
  BY <1>1, <1>5 DEF NetWordAt, Byte
<1>7. 256 * low + high = high + 256 * low
  BY <1>3 DEF IsByte
<1>8. QED
  BY <1>3, <1>4, <1>6, <1>7

\* 256 times a comes to b.
Swapped(a, b) ==
  /\ a \in Nat
  /\ \E t \in Nat, q \in Nat :
       ComesTo(t, b) /\ (a = 0 <=> t = 0) /\ 256 * a = t + 65535 * q

\* The sum of RFC 1071 is that of in_cksum with its bytes exchanged, for every
\* memory of up to 64 Kbyte, the odd byte at the end included.
LEMMA SumsAgree ==
  ASSUME NEW mem, Memory(mem, Len(mem)), Len(mem) <= Word
  PROVE  /\ ComesTo(Total(mem, Len(mem)), Fold(Total(mem, Len(mem))))
         /\ OnesSum(mem) = ntohs(Fold(Total(mem, Len(mem))))
<1>1. PICK len : len = Len(mem)
  BY SMT
<1>2. len \in Nat
  BY <1>1, SMT DEF Memory
<1>3. Additions(len) \in Nat /\ 2 * Additions(len) <= len + 1
  BY <1>2, AdditionsIsNat
<1>4. PICK total : total = Total(mem, len)
  BY SMT
<1>5. total \in Nat /\ total < 65536 * 65536
  <2>1. total \in Nat /\ total <= 65535 * Additions(len)
    BY <1>1, <1>4, TotalBound, SMT
  <2>2. QED
    BY <1>1, <1>2, <1>3, <2>1, SMT DEF Word, Byte
<1>6. ComesTo(total, Fold(total))
  BY <1>5, FoldComesTo, SMT
<1>7. PICK f : /\ total = f[Additions(len)] /\ f[0] = 0
               /\ \A k \in 1 .. Additions(len) : f[k] = f[k - 1] + WordAt(mem, k, len)
  BY <1>2, <1>4, TotalIsSum, SMT
<1>8. PICK g : /\ OnesSum(mem) = g[Additions(len)] /\ g[0] = 0
               /\ \A k \in 1 .. Additions(len) :
                    g[k] = OnesPlus(g[k - 1], NetWordAt(mem, k))
  BY <1>1, <1>2, OnesSumIsSum, SMT
<1> DEFINE N == {n \in Nat : n <= Additions(len) => Swapped(f[n], g[n])}
<1>9. 0 \in N
  <2>1. ComesTo(0, 0)
    BY SMT DEF ComesTo, IsWord
  <2>2. Swapped(0, 0)
    BY <2>1, SMT DEF Swapped
  <2>3. QED
    BY <1>7, <1>8, <2>2, SMT
<1>10. ASSUME NEW n \in Nat, n \in N PROVE n + 1 \in N
  <2> SUFFICES ASSUME n + 1 <= Additions(len) PROVE Swapped(f[n + 1], g[n + 1])
    BY SMT
  <2>1. Swapped(f[n], g[n])
    BY <1>3, <1>10, SMT
  <2>2. PICK a, b : a = f[n] /\ b = g[n]
    BY SMT
  <2>3. PICK t \in Nat, q \in Nat :
          ComesTo(t, b) /\ (a = 0 <=> t = 0) /\ 256 * a = t + 65535 * q
    BY <2>1, <2>2, SMT DEF Swapped
  <2>4. n + 1 \in 1 .. Additions(len) /\ (n + 1) - 1 = n
    BY <1>3, SMT
  <2>5. PICK v, w : v = WordAt(mem, n + 1, len) /\ w = NetWordAt(mem, n + 1)
    BY SMT
  <2>6. IsWord(v) /\ w = ntohs(v)
    BY <1>1, <2>4, <2>5, WordIsTwoBytes, NetWordIsExchanged, SMT
  <2>7. IsWord(w) /\ (w = 0 <=> v = 0)
    BY <2>6, ExchangeMultiplies, SMT
  <2>8. PICK p \in Nat : 256 * v = w + 65535 * p
    BY <2>6, ExchangeMultiplies, SMT
  <2>9. f[n + 1] = a + v /\ g[n + 1] = OnesPlus(b, w)
    BY <1>7, <1>8, <2>2, <2>4, <2>5, SMT
  <2>10. ComesTo(t + w, OnesPlus(b, w))
    BY <2>3, <2>7, OnesPlusComesTo, SMT
  <2>11. a \in Nat /\ v \in Nat /\ w \in Nat
    BY <2>1, <2>2, <2>6, <2>7, SMT DEF IsWord, Swapped
  <2>12. a + v = 0 <=> t + w = 0
    BY <2>3, <2>7, <2>11, SMT
  <2>13. 256 * (a + v) = (t + w) + 65535 * (q + p)
    BY <2>3, <2>8, <2>11, SMT
  <2>14. t + w \in Nat /\ q + p \in Nat /\ a + v \in Nat
    BY <2>11, SMT
  <2>15. Swapped(a + v, OnesPlus(b, w))
    <3>1. PICK x, y, s, r : /\ x = a + v /\ y = OnesPlus(b, w)
                            /\ s = t + w /\ r = q + p
      BY SMT
    <3>2. /\ x \in Nat /\ s \in Nat /\ r \in Nat /\ ComesTo(s, y)
          /\ (x = 0 <=> s = 0)
      BY <2>10, <2>12, <2>14, <3>1, SMT
    <3>3. 256 * x = s + 65535 * r
      BY <2>13, <3>1, SMT
    <3>4. Swapped(x, y)
      BY <3>2, <3>3, SMT DEF Swapped
    <3>5. QED
      BY <3>1, <3>4, SMT
  <2>16. QED
    BY <2>9, <2>15, SMT
<1> HIDE DEF N
<1>11. Additions(len) \in N
  BY <1>3, <1>9, <1>10, NumbersInduction, SMT
<1>12. Swapped(total, OnesSum(mem))
  BY <1>3, <1>7, <1>8, <1>11, SMT DEF N
<1>13. PICK t \in Nat, q \in Nat :
         /\ ComesTo(t, OnesSum(mem)) /\ (total = 0 <=> t = 0)
         /\ 256 * total = t + 65535 * q
  BY ONLY <1>12, SMT DEF Swapped
<1>14. OnesSum(mem) = ntohs(Fold(total))
  BY <1>6, <1>13, ExchangedSum, SMT
<1>15. QED
  BY <1>1, <1>4, <1>6, <1>14, SMT

-----------------------------------------------------------------------------
(* The checksum. *)

\* The checksum is the complement of a word, and each word that of one.
LEMMA ChecksumIsComplement ==
  ASSUME NEW mem, NEW len, Memory(mem, len), len <= Word
  PROVE  /\ ComesTo(Total(mem, len), Fold(Total(mem, len)))
         /\ IsWord(Fold(Total(mem, len))) /\ IsWord(in_cksum(mem, len))
         /\ in_cksum(mem, len) = 65535 - Fold(Total(mem, len))
<1>1. PICK total : total = Total(mem, len)
  BY SMT
<1>2. total \in Nat /\ total < 65536 * 65536
  <2>1. len \in Nat
    BY SMT DEF Memory
  <2>2. Additions(len) \in Nat /\ 2 * Additions(len) <= len + 1
    BY <2>1, AdditionsIsNat
  <2>3. total \in Nat /\ total <= 65535 * Additions(len)
    BY <1>1, TotalBound, SMT
  <2>4. QED
    BY <2>1, <2>2, <2>3, SMT DEF Word, Byte
<1>3. ComesTo(total, Fold(total))
  BY <1>2, FoldComesTo, SMT
<1>4. IsWord(Fold(total))
  BY <1>3, SMT DEF ComesTo
<1>5. in_cksum(mem, len) = 65535 - Fold(total)
  BY <1>1, SMT DEF in_cksum, Word, Byte
<1>6. IsWord(65535 - Fold(total))
  BY <1>4, SMT DEF IsWord
<1>7. QED
  BY <1>1, <1>3, <1>4, <1>5, <1>6, SMT

\* The accumulator of in_cksum, an int, never overflows on a memory of up to
\* 64 Kbyte, so the unbounded sum of the model is the sum of the code.
THEOREM SumFits ==
  ASSUME NEW mem, NEW len, Memory(mem, len), len <= Word
  PROVE  Total(mem, len) \in Nat /\ Total(mem, len) < 2147483648
<1>1. PICK total : total = Total(mem, len)
  BY SMT
<1>2. len \in Nat /\ len <= 65536
  BY SMT DEF Memory, Word, Byte
<1>3. PICK n : n = Additions(len)
  BY SMT
<1>4. n \in Nat /\ 2 * n <= len + 1
  BY <1>2, <1>3, AdditionsIsNat
<1>5. total \in Nat /\ total <= 65535 * n
  BY <1>1, <1>3, TotalBound, SMT
<1>6. n <= 32768
  BY <1>2, <1>4, SMT
<1>7. total < 2147483648
  BY ONLY <1>4, <1>5, <1>6, SMT
<1>8. QED
  BY <1>1, <1>5, <1>7, SMT

\* in_cksum is the checksum of RFC 1071, of every memory of up to 64 Kbyte.
THEOREM ChecksumAgrees ==
  ASSUME NEW mem, Memory(mem, Len(mem)), Len(mem) <= Word
  PROVE  in_cksum(mem, Len(mem)) = ntohs(Word - 1 - OnesSum(mem))
<1>1. PICK fold : fold = Fold(Total(mem, Len(mem)))
  BY SMT
<1>2. IsWord(fold) /\ in_cksum(mem, Len(mem)) = 65535 - fold
  BY <1>1, ChecksumIsComplement, SMT
<1>3. OnesSum(mem) = ntohs(fold)
  BY <1>1, SumsAgree, SMT
<1>4. IsWord(ntohs(fold)) /\ ntohs(ntohs(fold)) = fold
  BY <1>2, ExchangeMultiplies, ExchangeTwice, SMT
<1>5. ntohs(65535 - ntohs(fold)) = 65535 - fold
  BY <1>4, ExchangeTwice, SMT
<1>6. Word - 1 = 65535
  BY SMT DEF Word, Byte
<1>7. QED
  BY <1>2, <1>3, <1>5, <1>6, SMT

\* The checksum of bytes is that of their copy.
LEMMA CopyHasTheChecksum ==
  ASSUME NEW m1, NEW m2, NEW len, Memory(m1, len),
         \A k \in 1 .. len : m2[k] = m1[k]
  PROVE  Memory(m2, len) /\ in_cksum(m2, len) = in_cksum(m1, len)
<1>1. Memory(m2, len)
  BY DEF Memory
<1>2. \A k \in 1 .. Additions(len) :
        WordAt(m2, k, len) = WordAt(m1, k, len) + (IF k = 0 THEN 0 ELSE 0)
  <2> TAKE k \in 1 .. Additions(len)
  <2>1. k \in Nat \ {0} /\ 2 * k - 1 \in Nat \ {0} /\ 2 * k \in Nat \ {0}
    OBVIOUS
  <2>2. \A i \in Nat \ {0} : ByteAt(m2, i, len) = ByteAt(m1, i, len)
    BY DEF Memory, ByteAt
  <2>3. WordAt(m2, k, len) = WordAt(m1, k, len)
    BY <2>1, <2>2 DEF WordAt
  <2>4. PICK w : w = WordAt(m1, k, len)
    OBVIOUS
  <2>5. w \in Nat
    <3>1. IsWord(w)
      BY <2>1, <2>4, WordIsTwoBytes
    <3>2. QED
      BY <3>1, SMT DEF IsWord
  <2>6. QED
    BY <2>1, <2>3, <2>4, <2>5
<1>3. Total(m2, len) = Total(m1, len) + 0
  <2>1. Total(m2, len) = Total(m1, len) + (IF 0 \in 1 .. Additions(len) THEN 0 ELSE 0)
    BY <1>1, <1>2, TotalChange
  <2>2. QED
    BY <2>1
<1>4. Total(m1, len) \in Nat
  BY TotalBound
<1>5. QED
  BY <1>1, <1>3, <1>4 DEF in_cksum

\* The checksum of memory with one byte inverted is another one.
THEOREM InvertedByteNoticed ==
  ASSUME NEW m1, NEW m2, NEW len, Memory(m1, len), len <= Word,
         NEW i \in 1 .. len,
         \A k \in 1 .. len : m2[k] = IF k = i THEN 255 - m1[k] ELSE m1[k]
  PROVE  in_cksum(m2, len) # in_cksum(m1, len)
<1>1. len \in Nat /\ i \in Nat \ {0}
  BY DEF Memory
<1>2. PICK b : b = m1[i]
  OBVIOUS
<1>3. b \in Nat /\ b < 256
  BY <1>2 DEF Memory, IsByte
<1>4. Memory(m2, len)
  <2> SUFFICES ASSUME NEW k \in 1 .. len PROVE IsByte(m2[k])
    BY <1>1 DEF Memory
  <2>1. CASE k = i
    <3>1. m2[k] = 255 - b
      BY <1>2, <2>1
    <3>2. IsByte(255 - b)
      BY <1>3 DEF IsByte
    <3>3. QED
      BY <3>1, <3>2
  <2>2. CASE k # i
    BY <2>2 DEF Memory
  <2>3. QED
    BY <2>1, <2>2
<1>5. \A k \in Nat \ {0} :
        ByteAt(m2, k, len) = ByteAt(m1, k, len) + (IF k = i THEN 255 - 2 * b ELSE 0)
  <2> TAKE k \in Nat \ {0}
  <2>1. CASE k = i
    <3>1. ByteAt(m1, k, len) = b /\ ByteAt(m2, k, len) = 255 - b
      BY <1>1, <1>2, <2>1 DEF ByteAt
    <3>2. QED
      BY <1>3, <2>1, <3>1
  <2>2. CASE k # i
    <3>1. ByteAt(m1, k, len) = ByteAt(m2, k, len)
      BY <1>1, <2>2 DEF ByteAt
    <3>2. ByteAt(m1, k, len) \in Nat
      BY <1>1 DEF ByteAt, Memory, IsByte
    <3>3. QED
      BY <2>2, <3>1, <3>2
  <2>3. QED
    BY <2>1, <2>2
<1>6. \A k \in Nat \ {0} : ByteAt(m1, k, len) \in Nat
  BY <1>1 DEF ByteAt, Memory, IsByte
<1>7. PICK j \in Nat \ {0} : i = 2 * j - 1 \/ i = 2 * j
  <2>1. PICK h : h = (i + 1) \div 2
    OBVIOUS
  <2>2. h \in Nat \ {0} /\ (i = 2 * h - 1 \/ i = 2 * h)
    BY <1>1, <2>1
  <2>3. QED
    BY <2>2
<1> DEFINE d == IF i = 2 * j THEN 256 * (255 - 2 * b) ELSE 255 - 2 * b
<1>8. d \in Int /\ d # 0 /\ d < 65535 /\ -65535 < d
  BY <1>3, SMT
<1>9. j \in 1 .. Additions(len)
  <2>1. Additions(len) \in Nat /\ len <= 2 * Additions(len)
    BY <1>1, AdditionsIsNat
  <2>2. QED
    BY <1>1, <1>7, <2>1
<1>10. \A k \in 1 .. Additions(len) :
         WordAt(m2, k, len) = WordAt(m1, k, len) + (IF k = j THEN d ELSE 0)
  <2> TAKE k \in 1 .. Additions(len)
  <2>1. k \in Nat \ {0} /\ 2 * k - 1 \in Nat \ {0} /\ 2 * k \in Nat \ {0}
    OBVIOUS
  <2>2. PICK u, v, x, y :
          /\ u = ByteAt(m1, 2 * k - 1, len) /\ v = ByteAt(m1, 2 * k, len)
          /\ x = ByteAt(m2, 2 * k - 1, len) /\ y = ByteAt(m2, 2 * k, len)
    OBVIOUS
  <2>3. /\ u \in Nat /\ v \in Nat
        /\ x = u + (IF 2 * k - 1 = i THEN 255 - 2 * b ELSE 0)
        /\ y = v + (IF 2 * k = i THEN 255 - 2 * b ELSE 0)
    BY <1>5, <1>6, <2>1, <2>2
  <2>4. WordAt(m1, k, len) = u + 256 * v /\ WordAt(m2, k, len) = x + 256 * y
    BY <2>2 DEF WordAt, Byte
  <2>5. x + 256 * y = (u + 256 * v) + (IF k = j THEN d ELSE 0)
    <3>1. CASE i = 2 * j
      BY <1>3, <1>7, <2>1, <2>3, <3>1
    <3>2. CASE i = 2 * j - 1
      BY <1>3, <1>7, <2>1, <2>3, <3>2
    <3>3. QED
      BY <1>7, <3>1, <3>2
  <2>6. QED
    BY <2>4, <2>5
<1> HIDE DEF d
<1>11. Total(m2, len) = Total(m1, len) + d
  BY <1>4, <1>7, <1>8, <1>9, <1>10, TotalChange
<1>12. PICK s, t : s = Total(m1, len) /\ t = Total(m2, len)
  OBVIOUS
<1>13. ComesTo(s, Fold(s)) /\ ComesTo(t, Fold(t))
  BY <1>4, <1>12, ChecksumIsComplement
<1>14. Fold(s) # Fold(t)
  <2> SUFFICES ASSUME NEW r, ComesTo(s, r), ComesTo(t, r) PROVE FALSE
    BY <1>13
  <2>1. PICK p \in Nat : s = r + 65535 * p
    BY SMT DEF ComesTo
  <2>2. PICK q \in Nat : t = r + 65535 * q
    BY SMT DEF ComesTo
  <2>3. r \in Nat
    BY SMT DEF ComesTo, IsWord
  <2>4. t = s + d
    BY <1>11, <1>12
  <2>5. QED
    BY <1>8, <2>1, <2>2, <2>3, <2>4, SMT
<1>15. /\ IsWord(Fold(s)) /\ in_cksum(m1, len) = 65535 - Fold(s)
       /\ IsWord(Fold(t)) /\ in_cksum(m2, len) = 65535 - Fold(t)
  BY <1>4, <1>12, ChecksumIsComplement, SMT
<1>16. QED
  BY <1>14, <1>15, SMT DEF IsWord
===============================================================================
