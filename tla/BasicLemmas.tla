------------------------------ MODULE BasicLemmas ------------------------------
(***************************************************************************)
(* Facts about numbers and sequences that the proofs of several components *)
(* use.  The induction is over a set of numbers, so that a proof can apply *)
(* it to a set of its own.                                                 *)
(***************************************************************************)
EXTENDS Integers, FiniteSetsExt, FiniteSetTheorems, SequenceTheorems, WellFoundedInduction,
        TLAPS

\* A set of numbers has a smallest, which pollCall and the loops over the
\* chat server's table look for.
LEMMA LeastNumber ==
  ASSUME NEW S \in SUBSET Nat, S # {}
  PROVE  \E x \in S : \A y \in S : x <= y
<1>1. PICK R : R = OpToRel(<, Nat)
  OBVIOUS
<1>2. IsWellFoundedOn(R, Nat)
  BY <1>1, NatLessThanWellFounded
<1>3. R = {pair \in Nat \X Nat : pair[1] < pair[2]}
  BY <1>1 DEF OpToRel
<1>4. PICK x \in S : \A y \in S : ~ (<<y, x>> \in R)
  BY <1>2, WFMin
<1>5. ASSUME NEW y \in S, y < x PROVE FALSE
  <2>1. <<y, x>> \in Nat \X Nat /\ <<y, x>>[1] = y /\ <<y, x>>[2] = x
    OBVIOUS
  <2>2. <<y, x>> \in R
    BY <1>3, <1>5, <2>1, Zenon
  <2>3. QED
    BY <1>4, <2>2
<1>6. QED
  BY <1>5

LEMMA MinProperty ==
  ASSUME NEW S \in SUBSET Nat, S # {}
  PROVE  Min(S) \in S /\ \A y \in S : Min(S) <= y
  BY LeastNumber DEF Min

LEMMA FunctionIsSeq ==
  ASSUME NEW S, NEW n \in Nat, NEW f \in [1 .. n -> S]
  PROVE  f \in Seq(S) /\ Len(f) = n
<1>1. f \in UNION {[1 .. m -> S] : m \in Nat}
  OBVIOUS
<1>2. f \in Seq(S)
  BY <1>1, SeqDef, Zenon
<1>3. DOMAIN f = 1 .. n
  OBVIOUS
<1>4. QED
  BY <1>2, <1>3

\* Induction over the numbers in a set.
LEMMA NumbersInduction ==
  ASSUME NEW S, 0 \in S, \A n \in Nat : n \in S => n + 1 \in S
  PROVE  Nat \subseteq S
<1> DEFINE T == Nat \ S
<1> SUFFICES ASSUME T # {} PROVE FALSE
  OBVIOUS
<1>1. PICK x \in T : \A y \in T : x <= y
  <2>1. T \in SUBSET Nat
    OBVIOUS
  <2> HIDE DEF T
  <2>2. QED
    BY <2>1, LeastNumber
<1>2. x \in Nat /\ x # 0 /\ x - 1 \in Nat /\ ~ x <= x - 1
  BY <1>1
<1>3. x - 1 \in S
  BY <1>1, <1>2
<1>4. (x - 1) + 1 = x
  BY <1>2
<1>5. QED
  BY <1>1, <1>2, <1>3, <1>4

LEMMA Concatenation ==
  ASSUME NEW S, NEW s \in Seq(S), NEW e \in Seq(S)
  PROVE  /\ s \o e \in Seq(S) /\ Len(s \o e) = Len(s) + Len(e)
         /\ \A i \in 1 .. Len(s) : (s \o e)[i] = s[i]
         /\ \A i \in 1 .. Len(e) : (s \o e)[Len(s) + i] = e[i]
<1>1. s \o e \in Seq(S) /\ Len(s \o e) = Len(s) + Len(e)
  OBVIOUS
<1>2. \A i \in 1 .. Len(s) : (s \o e)[i] = s[i]
  OBVIOUS
<1>3. \A i \in 1 .. Len(e) : (s \o e)[Len(s) + i] = e[i]
  OBVIOUS
<1>4. QED
  BY <1>1, <1>2, <1>3

LEMMA Joined ==
  ASSUME NEW S, NEW n \in Nat, NEW s \in Seq(S), Len(s) = n, NEW e \in Seq(S),
         NEW t, t = s \o e
  PROVE  /\ t \in Seq(S) /\ Len(t) = n + Len(e)
         /\ \A i \in 1 .. n : t[i] = s[i]
         /\ \A i \in 1 .. Len(e) : t[n + i] = e[i]
<1>1. /\ t \in Seq(S) /\ Len(t) = Len(s) + Len(e)
      /\ \A i \in 1 .. Len(s) : t[i] = s[i]
      /\ \A i \in 1 .. Len(e) : t[Len(s) + i] = e[i]
  <2>1. /\ s \o e \in Seq(S) /\ Len(s \o e) = Len(s) + Len(e)
        /\ \A i \in 1 .. Len(s) : (s \o e)[i] = s[i]
        /\ \A i \in 1 .. Len(e) : (s \o e)[Len(s) + i] = e[i]
    BY ONLY s \in Seq(S), e \in Seq(S), Concatenation
  <2>2. QED
    BY <2>1, Zenon
<1>2. QED
  BY <1>1, Zenon

\* Putting two elements behind a sequence.
LEMMA PairJoined ==
  ASSUME NEW S, NEW n \in Nat, NEW s \in Seq(S), Len(s) = n, NEW x \in S, NEW y \in S,
         NEW t, t = s \o <<x, y>>
  PROVE  /\ t \in Seq(S) /\ Len(t) = n + 2 /\ t[n + 1] = x /\ t[n + 2] = y
         /\ \A i \in 1 .. n : t[i] = s[i]
<1>1. PICK e : e = <<x, y>>
  OBVIOUS
<1>2. e \in Seq(S) /\ Len(e) = 2 /\ e[1] = x /\ e[2] = y
  BY <1>1
<1>3. t = s \o e
  BY <1>1
<1>4. /\ t \in Seq(S) /\ Len(t) = Len(s) + Len(e)
      /\ \A i \in 1 .. Len(s) : t[i] = s[i]
      /\ \A i \in 1 .. Len(e) : t[Len(s) + i] = e[i]
  <2>1. s \in Seq(S) /\ e \in Seq(S)
    BY <1>2
  <2>2. /\ s \o e \in Seq(S) /\ Len(s \o e) = Len(s) + Len(e)
        /\ \A i \in 1 .. Len(s) : (s \o e)[i] = s[i]
        /\ \A i \in 1 .. Len(e) : (s \o e)[Len(s) + i] = e[i]
    BY ONLY <2>1, Concatenation
  <2>3. QED
    BY <1>3, <2>2, Zenon
<1>5. QED
  BY <1>2, <1>4

\* The elements of s behind the first a, up to number b.
LEMMA Slice ==
  ASSUME NEW S, NEW s \in Seq(S), NEW a \in Nat, NEW b \in Nat, a <= b, b <= Len(s),
         NEW t, t = SubSeq(s, a + 1, b)
  PROVE  /\ t \in Seq(S) /\ Len(t) = b - a
         /\ \A i \in 1 .. (b - a) : t[i] = s[a + i]
<1>1. \A i \in a + 1 .. b : s[i] \in S
  OBVIOUS
<1>2. /\ t \in Seq(S) /\ Len(t) = IF a + 1 <= b THEN b - (a + 1) + 1 ELSE 0
      /\ \A i \in 1 .. b - (a + 1) + 1 : t[i] = s[a + 1 + i - 1]
  BY <1>1, SubSeqProperties
<1>3. Len(t) = b - a
  BY <1>2
<1>4. \A i \in 1 .. (b - a) : t[i] = s[a + i]
  <2> TAKE i \in 1 .. (b - a)
  <2>1. i \in 1 .. b - (a + 1) + 1 /\ a + 1 + i - 1 = a + i
    OBVIOUS
  <2>2. QED
    BY <1>2, <2>1
<1>5. QED
  BY <1>2, <1>3, <1>4

\* A set that falls into as many parts as C has elements, none of them larger
\* than k.
LEMMA PartsBound ==
  ASSUME NEW C, IsFiniteSet(C), NEW S, IsFiniteSet(S), NEW f \in [S -> C], NEW k \in Nat,
         \A c \in C : Cardinality({x \in S : f[x] = c}) <= k
  PROVE  Cardinality(S) <= k * Cardinality(C)
<1> DEFINE Over(D) == {x \in S : f[x] \in D}
           N == {n \in Nat : \A D \in SUBSET C :
                               Cardinality(D) = n => Cardinality(Over(D)) <= k * n}
<1>1. \A T \in SUBSET S : IsFiniteSet(T) /\ Cardinality(T) \in Nat
  BY FS_Subset, FS_CardinalityType
<1>2. 0 \in N
  <2> SUFFICES ASSUME NEW D \in SUBSET C, Cardinality(D) = 0
               PROVE  Cardinality(Over(D)) <= k * 0
    OBVIOUS
  <2>1. IsFiniteSet(D)
    BY FS_Subset
  <2>2. D = {}
    BY <2>1, FS_EmptySet
  <2>3. Over(D) = {}
    BY <2>2
  <2>4. Cardinality(Over(D)) = 0
    BY <2>3, FS_EmptySet
  <2>5. k * 0 = 0
    OBVIOUS
  <2> HIDE DEF Over
  <2>6. QED
    BY <2>4, <2>5
<1>3. ASSUME NEW n \in Nat, n \in N PROVE n + 1 \in N
  <2> SUFFICES ASSUME NEW D \in SUBSET C, Cardinality(D) = n + 1
               PROVE  Cardinality(Over(D)) <= k * (n + 1)
    OBVIOUS
  <2>1. IsFiniteSet(D)
    BY FS_Subset
  <2>2. D # {}
    BY <2>1, FS_EmptySet
  <2>3. PICK d : d \in D
    BY <2>2
  <2>4. PICK E : E = D \ {d}
    OBVIOUS
  <2>5. E \in SUBSET C /\ Cardinality(E) = n
    <3>1. Cardinality(E) = Cardinality(D) - 1
      BY <2>1, <2>3, <2>4, FS_RemoveElement
    <3>2. QED
      BY <2>4, <3>1
  <2>6. PICK A, B, U : A = Over(E) /\ B = {x \in S : f[x] = d} /\ U = Over(D)
    OBVIOUS
  <2>7. Cardinality(A) <= k * n
    BY <1>3, <2>5, <2>6
  <2>8. Cardinality(B) <= k
    BY <2>3, <2>6
  <2>9. U = A \cup B /\ A \cap B = {} /\ A \in SUBSET S /\ B \in SUBSET S /\ U \in SUBSET S
    BY <2>3, <2>4, <2>6
  <2>10. PICK a, b, u : a = Cardinality(A) /\ b = Cardinality(B) /\ u = Cardinality(U)
    OBVIOUS
  <2>11. a \in Nat /\ b \in Nat /\ u \in Nat /\ IsFiniteSet(A) /\ IsFiniteSet(B)
    BY <1>1, <2>9, <2>10
  <2>12. u = a + b
    <3>1. u = a + b - Cardinality(A \cap B)
      BY <2>9, <2>10, <2>11, FS_Union
    <3>2. Cardinality(A \cap B) = 0
      BY <2>9, FS_EmptySet
    <3>3. QED
      BY <2>11, <3>1, <3>2
  <2>13. k * (n + 1) = k * n + k /\ k * n \in Nat
    OBVIOUS
  <2>14. u <= k * (n + 1)
    BY <2>7, <2>8, <2>10, <2>11, <2>12, <2>13
  <2>15. QED
    BY <2>6, <2>10, <2>14
<1>4. Cardinality(C) \in N
  <2>1. Cardinality(C) \in Nat
    BY FS_CardinalityType
  <2> HIDE DEF N
  <2>2. QED
    BY <1>2, <1>3, <2>1, NumbersInduction
<1>5. Over(C) = S
  OBVIOUS
<1>6. QED
  BY <1>4, <1>5
==============================================================================
