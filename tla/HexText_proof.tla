---------------------------- MODULE HexText_proof ----------------------------
(* Proofs about the text conversions, for any width of a word, of a digit    *)
(* and of the buffers: the number that digits mean, and that the conversions *)
(* write and read it.  What a function computes is shown by induction over   *)
(* the number of its digits, or over the number itself.                      *)
EXTENDS HexText, Uint256_proof, SequenceTheorems

-----------------------------------------------------------------------------
(* The number that digits mean.                                             *)

\* The first i digits, for every i.
Reads(f, digits, base) ==
  /\ f \in [0 .. Len(digits) -> Nat]
  /\ f[0] = 0
  /\ \A i \in 1 .. Len(digits) : f[i] = f[i - 1] * base + digits[i]

LEMMA NumberOfIs ==
  ASSUME NEW digits \in Seq(Nat), NEW base \in Nat
  PROVE  \E f : Reads(f, digits, base) /\ NumberOf(digits, base) = f[Len(digits)]
<1> DEFINE N == Nat
           D == 0 .. Len(digits)
           m == [i \in D |-> i]
           Body(g, i) == IF i = 0 THEN 0 ELSE g[i - 1] * base + digits[i]
           F == [q \in D \X [D -> N] |-> Body(q[2], q[1])]
           read[i \in D] == IF i = 0 THEN 0 ELSE read[i - 1] * base + digits[i]
<1>0. Len(digits) \in Nat /\ \A i \in 1 .. Len(digits) : digits[i] \in Nat
  OBVIOUS
<1>1. \A i \in D : i # 0 => i - 1 \in D /\ i - 1 < i /\ i \in 1 .. Len(digits)
  BY <1>0
<1>2. F \in [D \X [D -> N] -> N]
  <2> SUFFICES ASSUME NEW i \in D, NEW g \in [D -> N] PROVE Body(g, i) \in N
    OBVIOUS
  <2>1. i # 0 => g[i - 1] \in Nat /\ digits[i] \in Nat
    BY <1>0, <1>1
  <2>2. i # 0 => g[i - 1] * base \in Nat
    BY <2>1, TimesType
  <2> QED  BY <2>1, <2>2
<1>3. m \in [D -> Nat] /\ N # {}
  BY <1>0
<1>4. ASSUME NEW x \in D, NEW g \in [D -> N], NEW h \in [D -> N],
             \A y \in D : m[y] < m[x] => g[y] = h[y]
      PROVE  F[<<x, g>>] = F[<<x, h>>]
  <2>1. x # 0 => x - 1 \in D /\ m[x - 1] < m[x]
    BY <1>1
  <2>2. x # 0 => g[x - 1] = h[x - 1]
    BY <1>4, <2>1
  <2> QED  BY <2>2
<1>5. Descends(D, N, m, F)
  <2>1. \A x \in D, g, h \in [D -> N] :
          (\A y \in D : m[y] < m[x] => g[y] = h[y]) => F[<<x, g>>] = F[<<x, h>>]
    BY <1>4
  <2> HIDE DEF N, D, m, F
  <2> QED  BY <1>2, <1>3, <2>1 DEF Descends
<1>6. PICK f : Solves(f, D, N, F)
  <2> HIDE DEF N, D, m, F
  <2> QED  BY <1>3, <1>5, Recursion
<1>7. f \in [D -> N] /\ \A i \in D : f[i] = Body(f, i)
  BY <1>6 DEF Solves
<1>8. f = [i \in D |-> IF i = 0 THEN 0 ELSE f[i - 1] * base + digits[i]]
  BY <1>7
<1>9. read = [i \in D |-> IF i = 0 THEN 0 ELSE read[i - 1] * base + digits[i]]
  BY <1>8
<1>10. NumberOf(digits, base) = read[Len(digits)]
  BY DEF NumberOf
<1> HIDE DEF read
<1>11. \A i \in D : read[i] = IF i = 0 THEN 0 ELSE read[i - 1] * base + digits[i]
  BY <1>9
<1> DEFINE P == {i \in Nat : i \in D => read[i] \in Nat}
<1>12. 0 \in P
  BY <1>11
<1>13. ASSUME NEW i \in P PROVE i + 1 \in P
  <2> SUFFICES ASSUME i + 1 \in D PROVE read[i + 1] \in Nat
    OBVIOUS
  <2>1. i \in D /\ (i + 1) - 1 = i /\ i + 1 # 0 /\ digits[i + 1] \in Nat
    BY <1>0
  <2>2. read[i + 1] = read[i] * base + digits[i + 1] /\ read[i] \in Nat
    BY <1>11, <2>1
  <2>3. read[i] * base \in Nat
    BY <2>2, TimesType
  <2> QED  BY <2>1, <2>2, <2>3
<1>14. \A i \in Nat : i \in P
  <2>1. P \in SUBSET Nat
    OBVIOUS
  <2> HIDE DEF P
  <2> QED  BY <1>12, <1>13, <2>1, Induct
<1>15. read \in [D -> Nat]
  <2>1. \A i \in D : read[i] \in Nat
    BY <1>14
  <2> QED  BY <1>9, <2>1
<1>16. Reads(read, digits, base)
  <2>1. 0 \in D /\ read[0] = 0
    BY <1>0, <1>11
  <2>2. \A i \in 1 .. Len(digits) : i \in D /\ i # 0
    BY <1>0
  <2> QED  BY <1>11, <1>15, <2>1, <2>2 DEF Reads
<1> QED  BY <1>10, <1>16

LEMMA NumberNat ==
  ASSUME NEW digits \in Seq(Nat), NEW base \in Nat
  PROVE  NumberOf(digits, base) \in Nat
<1>1. PICK f : Reads(f, digits, base) /\ NumberOf(digits, base) = f[Len(digits)]
  BY NumberOfIs
<1> QED  BY <1>1 DEF Reads

LEMMA NumberEmpty ==
  ASSUME NEW base \in Nat
  PROVE  NumberOf(<<>>, base) = 0
<1>1. <<>> \in Seq(Nat) /\ Len(<<>>) = 0
  OBVIOUS
<1>2. PICK f : Reads(f, <<>>, base) /\ NumberOf(<<>>, base) = f[0]
  BY <1>1, NumberOfIs
<1> QED  BY <1>2 DEF Reads

LEMMA NumberAppend ==
  ASSUME NEW s \in Seq(Nat), NEW d \in Nat, NEW base \in Nat
  PROVE  NumberOf(Append(s, d), base) = NumberOf(s, base) * base + d
<1> DEFINE t == Append(s, d)  n == Len(s)
<1>1. /\ t \in Seq(Nat) /\ Len(t) = n + 1 /\ n \in Nat /\ t[n + 1] = d
      /\ \A i \in 1 .. n : t[i] = s[i]
  BY AppendProperties
<1>2. PICK f : Reads(f, s, base) /\ NumberOf(s, base) = f[n]
  BY NumberOfIs
<1>3. PICK g : Reads(g, t, base) /\ NumberOf(t, base) = g[n + 1]
  BY <1>1, NumberOfIs
<1> HIDE DEF t, n
<1>4. f[0] = 0 /\ \A i \in 1 .. n : f[i] = f[i - 1] * base + s[i]
  BY <1>2 DEF Reads, n
<1>5. g[0] = 0 /\ \A i \in 1 .. n + 1 : g[i] = g[i - 1] * base + t[i]
  BY <1>1, <1>3 DEF Reads
<1> DEFINE P == {i \in Nat : i <= n => f[i] = g[i]}
<1>6. 0 \in P
  BY <1>4, <1>5
<1>7. ASSUME NEW i \in P PROVE i + 1 \in P
  <2> SUFFICES ASSUME i + 1 <= n PROVE f[i + 1] = g[i + 1]
    OBVIOUS
  <2>1. i + 1 \in 1 .. n /\ i + 1 \in 1 .. n + 1 /\ (i + 1) - 1 = i /\ i <= n
    BY <1>1
  <2> QED  BY <1>1, <1>4, <1>5, <2>1
<1>8. \A i \in Nat : i \in P
  <2>1. P \in SUBSET Nat
    OBVIOUS
  <2> HIDE DEF P
  <2> QED  BY <1>6, <1>7, <2>1, Induct
<1>9. f[n] = g[n]
  BY <1>1, <1>8
<1>10. n + 1 \in 1 .. n + 1 /\ (n + 1) - 1 = n
  BY <1>1
<1>11. g[n + 1] = g[n] * base + t[n + 1]
  BY <1>5, <1>10
<1> QED  BY <1>1, <1>2, <1>3, <1>9, <1>11 DEF t

LEMMA Regrouped ==
  ASSUME NEW a \in Nat, NEW b \in Nat, NEW c \in Nat, NEW d \in Nat, NEW p \in Nat
  PROVE  (a * p + b) * c + d = a * (c * p) + (b * c + d)
<1>1. (a * p + b) * c = (a * p) * c + b * c
  OBVIOUS
<1>2. (a * p) * c = a * (c * p)
  OBVIOUS
<1> QED  BY <1>1, <1>2

LEMMA NumberConcat ==
  ASSUME NEW s \in Seq(Nat), NEW t \in Seq(Nat), NEW base \in Nat
  PROVE  NumberOf(s \o t, base) = NumberOf(s, base) * Power[<<base, Len(t)>>] + NumberOf(t, base)
<1> DEFINE Joined(u) == NumberOf(s \o u, base)
                          = NumberOf(s, base) * Power[<<base, Len(u)>>] + NumberOf(u, base)
           P == {i \in Nat : \A u \in Seq(Nat) : Len(u) = i => Joined(u)}
<1>0. NumberOf(s, base) \in Nat
  BY NumberNat
<1>1. 0 \in P
  <2> SUFFICES ASSUME NEW u \in Seq(Nat), Len(u) = 0 PROVE Joined(u)
    OBVIOUS
  <2>1. u = <<>>
    BY EmptySeq
  <2>2. s \o u = s
    BY <2>1, ConcatEmptySeq
  <2>3. NumberOf(u, base) = 0 /\ Power[<<base, 0>>] = 1
    BY <2>1, NumberEmpty, PowerStep, 0 \in Nat, Zenon
  <2> QED  BY <1>0, <2>2, <2>3
<1>2. ASSUME NEW i \in P PROVE i + 1 \in P
  <2> SUFFICES ASSUME NEW u \in Seq(Nat), Len(u) = i + 1 PROVE Joined(u)
    <3>1. i + 1 \in Nat
      OBVIOUS
    <3> HIDE DEF Joined
    <3> QED  BY <3>1
  <2>1. PICK v \in Seq(Nat), d \in Nat : u = Append(v, d)
    <3>1. u # <<>>
      OBVIOUS
    <3> QED  BY <3>1, SequenceEmptyOrAppend
  <2>2. Len(v) = i /\ i \in Nat /\ Len(u) = Len(v) + 1
    BY <2>1, AppendProperties
  <2>3. Joined(v)
    BY <2>2
  <2>4. s \o u = Append(s \o v, d) /\ s \o v \in Seq(Nat)
    <3>1. s \o v \in Seq(Nat)
      BY ConcatProperties
    <3>2. Append(s \o v, d) = (s \o v) \o <<d>> /\ u = v \o <<d>>
      BY <2>1, <3>1, AppendIsConcat
    <3>3. <<d>> \in Seq(Nat)
      OBVIOUS
    <3> DEFINE e == <<d>>
    <3>4. (s \o v) \o e = s \o (v \o e)
      <4>1. e \in Seq(Nat)
        BY <3>3
      <4> HIDE DEF e
      <4> QED  BY <2>1, <4>1, ConcatAssociative
    <3> QED  BY <3>1, <3>2, <3>4
  <2>5. NumberOf(s \o u, base) = NumberOf(s \o v, base) * base + d
    <3> DEFINE w == s \o v
    <3>1. w \in Seq(Nat) /\ s \o u = Append(w, d)
      BY <2>4
    <3> HIDE DEF w
    <3>2. NumberOf(Append(w, d), base) = NumberOf(w, base) * base + d
      BY <3>1, NumberAppend
    <3>3. NumberOf(s \o u, base) = NumberOf(w, base) * base + d
      BY <3>1, <3>2, Zenon
    <3> QED  BY <3>3 DEF w
  <2>6. NumberOf(u, base) = NumberOf(v, base) * base + d
    BY <2>1, NumberAppend
  <2>7. Power[<<base, i + 1>>] = base * Power[<<base, i>>] /\ Power[<<base, i>>] \in Nat
    BY <2>2, PowerStep
  <2>8. NumberOf(v, base) \in Nat
    BY NumberNat
  <2> DEFINE a == NumberOf(s, base)  b == NumberOf(v, base)  p == Power[<<base, i>>]
  <2>9. NumberOf(s \o v, base) = a * p + b
    BY <2>2, <2>3
  <2> HIDE DEF a, b, p
  <2>10. (a * p + b) * base + d = a * (base * p) + (b * base + d)
    <3>1. a \in Nat /\ b \in Nat /\ p \in Nat
      BY <1>0, <2>7, <2>8 DEF a, b, p
    <3> QED  BY <3>1, Regrouped
  <2> QED  BY <2>2, <2>5, <2>6, <2>7, <2>9, <2>10 DEF a, b, p
<1>3. \A i \in Nat : i \in P
  <2>1. P \in SUBSET Nat
    OBVIOUS
  <2> HIDE DEF P
  <2> QED  BY <1>1, <1>2, <2>1, Induct
<1>4. Len(t) \in Nat
  OBVIOUS
<1> QED  BY <1>3, <1>4

LEMMA ZerosAre ==
  ASSUME NEW n \in Nat, NEW base \in Nat
  PROVE  Zeros(n) \in Seq(Nat) /\ Len(Zeros(n)) = n /\ NumberOf(Zeros(n), base) = 0
<1>1. \A k \in Nat : Zeros(k) \in Seq(Nat) /\ Len(Zeros(k)) = k
  <2> SUFFICES ASSUME NEW k \in Nat PROVE Zeros(k) \in Seq(Nat) /\ Len(Zeros(k)) = k
    OBVIOUS
  <2>1. Zeros(k) \in [1 .. k -> Nat]
    BY DEF Zeros
  <2> QED  BY <2>1
<1> DEFINE z == Zeros(n)
<1>2. PICK f : Reads(f, z, base) /\ NumberOf(z, base) = f[n]
  BY <1>1, NumberOfIs
<1>3. f[0] = 0 /\ \A i \in 1 .. n : f[i] = f[i - 1] * base + 0
  <2>1. \A i \in 1 .. n : z[i] = 0
    BY DEF Zeros
  <2> QED  BY <1>1, <1>2, <2>1 DEF Reads
<1> DEFINE P == {i \in Nat : i <= n => f[i] = 0}
<1>4. 0 \in P
  BY <1>3
<1>5. ASSUME NEW i \in P PROVE i + 1 \in P
  <2> SUFFICES ASSUME i + 1 <= n PROVE f[i + 1] = 0
    OBVIOUS
  <2>1. i + 1 \in 1 .. n /\ (i + 1) - 1 = i /\ i <= n
    OBVIOUS
  <2>2. f[i] = 0 /\ 0 * base + 0 = 0
    BY <2>1
  <2> QED  BY <1>3, <2>1, <2>2
<1>6. \A i \in Nat : i \in P
  <2>1. P \in SUBSET Nat
    OBVIOUS
  <2> HIDE DEF P
  <2> QED  BY <1>4, <1>5, <2>1, Induct
<1> QED  BY <1>1, <1>2, <1>6

-----------------------------------------------------------------------------
(* The bytes of a number.                                                   *)

WordBytes == BytesOf256 \div 4

LEMMA PowerPower ==
  ASSUME NEW k \in Nat, NEW n \in Nat
  PROVE  Power[<<Pow2(k), n>>] = Pow2(n * k)
<1> DEFINE b == Pow2(k)
           P == {i \in Nat : Power[<<b, i>>] = Pow2(i * k)}
<1>0. b \in Nat
  BY Pow2Step
<1>1. 0 \in P
  <2>1. Power[<<b, 0>>] = 1 /\ Pow2(0) = 1
    BY <1>0, PowerStep, Pow2Step, 0 \in Nat, Zenon
  <2>2. 0 * k = 0
    OBVIOUS
  <2> HIDE DEF b
  <2> QED  BY <2>1, <2>2
<1>2. ASSUME NEW i \in P PROVE i + 1 \in P
  <2>1. i \in Nat /\ i + 1 \in Nat /\ Power[<<b, i>>] = Pow2(i * k)
    OBVIOUS
  <2>2. Power[<<b, i + 1>>] = b * Power[<<b, i>>]
    BY <1>0, <2>1, PowerStep
  <2>3. i * k \in Nat
    BY <2>1, TimesType
  <2>4. Pow2(k + i * k) = Pow2(k) * Pow2(i * k)
    BY <2>3, Pow2Sum
  <2>5. (i + 1) * k = k + i * k
    BY <2>1
  <2>6. Power[<<b, i + 1>>] = Pow2((i + 1) * k)
    BY <2>1, <2>2, <2>4, <2>5, Zenon
  <2> QED  BY <2>1, <2>6
<1>3. P \in SUBSET Nat
  OBVIOUS
<1> HIDE DEF P
<1>4. \A i \in Nat : i \in P
  BY <1>1, <1>2, <1>3, Induct
<1> QED  BY <1>4 DEF P

LEMMA BytesType ==
  /\ WordBytes \in Nat \ {0} /\ BytesOf256 = 4 * WordBytes
  /\ HexBase \in Nat /\ HexBase >= 2
  /\ ByteBase \in Nat /\ ByteBase >= 4 /\ ByteBase = HexBase * HexBase
  /\ Base = Power[<<ByteBase, WordBytes>>]
<1> DEFINE d == 2 * DigitBits  q == W \div d
<1>1. DigitBits \in 1 .. 4 /\ d \in Nat \ {0} /\ W \in Nat /\ W >= 4 /\ W % d = 0
  BY TextAssumption, WordAssumption
<1>2. q \in Nat /\ W = q * d
  <2> HIDE DEF d
  <2> QED  BY <1>1, DivMod
<1> HIDE DEF q
<1>3. 4 * W = (4 * q) * d + 0 /\ 0 \in 0 .. d - 1 /\ 4 * q \in Int
  BY <1>1, <1>2
<1>4. (4 * W) \div d = 4 * q
  <2> DEFINE a == 4 * q
  <2>1. d \in Nat \ {0} /\ a \in Int /\ 0 \in 0 .. d - 1 /\ 4 * W = a * d + 0
    BY <1>1, <1>3
  <2> HIDE DEF d, a
  <2>2. (a * d + 0) \div d = a
    BY <2>1, DivUnique
  <2> QED  BY <2>1, <2>2 DEF a
<1>5. BytesOf256 = 4 * q /\ WordBytes = q
  BY <1>2, <1>4 DEF BytesOf256, WordBytes
<1>6. q # 0
  BY <1>1, <1>2
<1>7. HexBase \in Nat /\ HexBase >= 2
  <2>1. DigitBits - 1 \in Nat /\ (DigitBits - 1) + 1 = DigitBits
    BY <1>1
  <2>2. HexBase = 2 * Pow2(DigitBits - 1) /\ Pow2(DigitBits - 1) \in Nat \ {0}
    BY <2>1, Pow2Step DEF HexBase
  <2> QED  BY <2>2
<1>8. ByteBase = HexBase * HexBase /\ ByteBase \in Nat /\ ByteBase >= 4
  <2>1. 2 * 2 <= HexBase * 2 /\ 2 * HexBase <= HexBase * HexBase
    BY <1>7, TimesMonotone
  <2>2. HexBase * HexBase \in Nat
    BY <1>7, TimesType
  <2> QED  BY <1>7, <2>1, <2>2 DEF ByteBase
<1>9. ByteBase = Pow2(d)
  <2>1. d = DigitBits + DigitBits /\ DigitBits \in Nat
    BY <1>1
  <2> QED  BY <2>1, Pow2Sum DEF ByteBase, HexBase
<1>10. Power[<<ByteBase, q>>] = Pow2(q * d)
  BY <1>1, <1>2, <1>9, PowerPower
<1> QED  BY <1>2, <1>5, <1>6, <1>7, <1>8, <1>10 DEF Base

\* Its digits in a base, most significant first: n of them.
DigitsIn(w, base, n) == [i \in 1 .. n |-> (w \div Power[<<base, n - i>>]) % base]

LEMMA DivDiv ==
  ASSUME NEW n \in Nat, NEW p \in Nat \ {0}, NEW q \in Nat \ {0}
  PROVE  n \div (p * q) = (n \div p) \div q
<1> DEFINE a == n \div p  r == n % p  b == a \div q  s == a % q
<1>1. a \in Nat /\ r \in 0 .. p - 1 /\ n = a * p + r
  BY DivMod
<1> HIDE DEF a, r
<1>2. b \in Nat /\ s \in 0 .. q - 1 /\ a = b * q + s
  BY <1>1, DivMod
<1> HIDE DEF b, s
<1>3. p * q \in Nat \ {0}
  BY TimesType
<1>4. n = b * (p * q) + (s * p + r)
  BY <1>1, <1>2
<1>5. s * p + r \in 0 .. p * q - 1
  <2>1. s + 1 \in Nat /\ s + 1 <= q /\ s \in Nat
    BY <1>2
  <2>2. (s + 1) * p <= q * p
    BY <2>1, TimesMonotone
  <2>3. (s + 1) * p = s * p + p /\ q * p = p * q /\ s * p \in Nat
    BY <2>1, TimesType
  <2> DEFINE u == s * p  v == p * q
  <2>4. u \in Nat /\ v \in Nat /\ u + p <= v
    BY <1>3, <2>2, <2>3
  <2> HIDE DEF u, v
  <2>5. u + r \in 0 .. v - 1
    BY <1>1, <2>4
  <2> QED  BY <2>5 DEF u, v
<1> DEFINE t == s * p + r  v == p * q
<1>6. v \in Nat \ {0} /\ t \in 0 .. v - 1 /\ n = b * v + t /\ b \in Int
  BY <1>2, <1>3, <1>4, <1>5
<1> HIDE DEF t, v
<1>7. n \div v = b
  BY <1>6, DivUnique
<1> QED  BY <1>7 DEF v, b, a

LEMMA PowerPositive ==
  ASSUME NEW b \in Nat \ {0}, NEW n \in Nat
  PROVE  Power[<<b, n>>] \in Nat \ {0}
<1> DEFINE P == {i \in Nat : Power[<<b, i>>] # 0}
<1>1. \A i \in Nat : Power[<<b, i>>] \in Nat /\ Power[<<b, 0>>] = 1 /\ Power[<<b, i + 1>>] = b * Power[<<b, i>>]
  BY PowerStep
<1>2. 0 \in P
  <2>1. Power[<<b, 0>>] = 1
    BY <1>1, 0 \in Nat, Zenon
  <2> QED  BY <2>1
<1>3. ASSUME NEW i \in P PROVE i + 1 \in P
  <2> DEFINE v == Power[<<b, i>>]
  <2>1. v \in Nat \ {0} /\ Power[<<b, i + 1>>] = b * v /\ i \in Nat
    BY <1>1
  <2> HIDE DEF v
  <2>2. b * v # 0 /\ i + 1 \in Nat
    BY <2>1
  <2> QED  BY <2>1, <2>2
<1>4. P \in SUBSET Nat
  OBVIOUS
<1> HIDE DEF P
<1>5. \A i \in Nat : i \in P
  BY <1>2, <1>3, <1>4, Induct
<1> QED  BY <1>1, <1>5 DEF P

\* They read as the number, if it has no more.
LEMMA DigitsRead ==
  ASSUME NEW w \in Nat, NEW base \in Nat \ {0}, NEW n \in Nat, w < Power[<<base, n>>]
  PROVE  /\ DigitsIn(w, base, n) \in Seq(0 .. base - 1)
         /\ DigitsIn(w, base, n) \in Seq(Nat)
         /\ Len(DigitsIn(w, base, n)) = n
         /\ NumberOf(DigitsIn(w, base, n), base) = w
<1> DEFINE s == DigitsIn(w, base, n)
<1>1. \A i \in 0 .. n : n - i \in Nat /\ Power[<<base, n - i>>] \in Nat \ {0}
                        /\ w \div Power[<<base, n - i>>] \in Nat
  <2> SUFFICES ASSUME NEW i \in 0 .. n
               PROVE  n - i \in Nat /\ Power[<<base, n - i>>] \in Nat \ {0}
                      /\ w \div Power[<<base, n - i>>] \in Nat
    OBVIOUS
  <2>1. n - i \in Nat
    OBVIOUS
  <2>2. Power[<<base, n - i>>] \in Nat \ {0}
    BY <2>1, PowerPositive
  <2> QED  BY <2>1, <2>2, DivMod
<1>2. \A i \in 1 .. n : (w \div Power[<<base, n - i>>]) % base \in 0 .. base - 1
  <2>1. \A i \in 1 .. n : i \in 0 .. n
    OBVIOUS
  <2> QED  BY <1>1, <2>1, DivMod
<1>3. s \in [1 .. n -> 0 .. base - 1]
  BY <1>2 DEF DigitsIn
<1>4. s \in Seq(0 .. base - 1) /\ Len(s) = n /\ s \in Seq(Nat)
  <2> HIDE DEF s
  <2>1. s \in [1 .. n -> Nat]
    BY <1>3
  <2> QED  BY <1>3, <2>1
<1>5. PICK f : Reads(f, s, base) /\ NumberOf(s, base) = f[n]
  BY <1>4, NumberOfIs
<1>6. f[0] = 0 /\ \A i \in 1 .. n : f[i] = f[i - 1] * base + s[i]
  BY <1>4, <1>5 DEF Reads
<1>7. \A i \in 1 .. n : s[i] = (w \div Power[<<base, n - i>>]) % base
  BY DEF DigitsIn
<1> HIDE DEF s
<1> DEFINE P == {i \in Nat : i <= n => f[i] = w \div Power[<<base, n - i>>]}
<1>8. 0 \in P
  <2> DEFINE p == Power[<<base, n>>]
  <2>1. n - 0 = n /\ p \in Nat \ {0}
    BY PowerPositive
  <2> HIDE DEF p
  <2>2. w = 0 * p + w /\ w \in 0 .. p - 1
    BY <2>1 DEF p
  <2>3. w \div p = 0
    BY <2>1, <2>2, 0 \in Int, DivUnique
  <2> QED  BY <1>6, <2>1, <2>3 DEF p
<1>9. ASSUME NEW i \in P PROVE i + 1 \in P
  <2> SUFFICES ASSUME i + 1 <= n PROVE f[i + 1] = w \div Power[<<base, n - (i + 1)>>]
    OBVIOUS
  <2> DEFINE j == n - (i + 1)  p == Power[<<base, j>>]  v == w \div p
  <2>1. /\ i \in Nat /\ i + 1 \in 1 .. n /\ (i + 1) - 1 = i /\ i <= n /\ j \in Nat
        /\ i + 1 \in 0 .. n /\ n - i = j + 1
    OBVIOUS
  <2>2. p \in Nat \ {0} /\ v \in Nat
    BY <1>1, <2>1
  <2>3. Power[<<base, n - i>>] = p * base
    <3>1. Power[<<base, j + 1>>] = base * p
      BY <2>1, PowerStep
    <3> HIDE DEF j, p
    <3>2. base * p = p * base
      BY <2>2
    <3> QED  BY <2>1, <3>1, <3>2
  <2>4. f[i] = w \div (p * base)
    BY <2>1, <2>3
  <2>5. w \div (p * base) = v \div base
    BY <2>2, DivDiv
  <2>6. f[i + 1] = f[i] * base + (v % base)
    BY <1>6, <1>7, <2>1
  <2>7. v = (v \div base) * base + (v % base)
    <3> HIDE DEF v
    <3> QED  BY <2>2, DivMod
  <2>8. f[i + 1] = v
    BY <2>4, <2>5, <2>6, <2>7, Zenon
  <2> QED  BY <2>8
<1>10. \A i \in Nat : i \in P
  <2>1. P \in SUBSET Nat
    OBVIOUS
  <2> HIDE DEF P
  <2> QED  BY <1>8, <1>9, <2>1, Induct
<1>11. f[n] = w
  <2>1. f[n] = w \div Power[<<base, n - n>>]
    BY <1>10
  <2>2. n - n = 0
    OBVIOUS
  <2>4. Power[<<base, 0>>] = 1
    BY PowerStep, base \in Nat, 0 \in Nat, Zenon
  <2>3. w \div 1 = w
    OBVIOUS
  <2> QED  BY <2>1, <2>2, <2>3, <2>4
<1> QED  BY <1>4, <1>5, <1>11 DEF s

LEMMA NumberBound ==
  ASSUME NEW base \in Nat \ {0}, NEW s \in Seq(Nat), \A i \in 1 .. Len(s) : s[i] < base
  PROVE  NumberOf(s, base) < Power[<<base, Len(s)>>]
<1> DEFINE n == Len(s)
<1>1. PICK f : Reads(f, s, base) /\ NumberOf(s, base) = f[n]
  BY NumberOfIs
<1>2. n \in Nat /\ f[0] = 0 /\ \A i \in 1 .. n : f[i] = f[i - 1] * base + s[i]
  BY <1>1 DEF Reads
<1>3. \A i \in 1 .. n : s[i] \in 0 .. base - 1
  OBVIOUS
<1>4. \A i \in 0 .. n : f[i] \in Nat
  BY <1>1 DEF Reads
<1> HIDE DEF n
<1> DEFINE P == {i \in Nat : i <= n => f[i] < Power[<<base, i>>]}
<1>5. 0 \in P
  <2>1. Power[<<base, 0>>] = 1
    BY PowerStep, base \in Nat, 0 \in Nat, Zenon
  <2> QED  BY <1>2, <2>1
<1>6. ASSUME NEW i \in P PROVE i + 1 \in P
  <2> SUFFICES ASSUME i + 1 <= n PROVE f[i + 1] < Power[<<base, i + 1>>]
    OBVIOUS
  <2> DEFINE p == Power[<<base, i>>]  a == f[i]  d == s[i + 1]
  <2>1. i \in Nat /\ i + 1 \in 1 .. n /\ i \in 0 .. n /\ (i + 1) - 1 = i /\ i <= n
    BY <1>2
  <2>2. p \in Nat /\ a \in Nat /\ d \in 0 .. base - 1 /\ a < p
    BY <1>3, <1>4, <2>1, PowerStep
  <2>3. f[i + 1] = a * base + d /\ Power[<<base, i + 1>>] = base * p
    BY <1>2, <2>1, PowerStep
  <2> HIDE DEF a, p, d
  <2>4. (a + 1) * base <= p * base
    BY <2>2, TimesMonotone
  <2>5. a * base + d < base * p
    BY <2>2, <2>4
  <2> QED  BY <2>3, <2>5 DEF p
<1>7. \A i \in Nat : i \in P
  <2>1. P \in SUBSET Nat
    OBVIOUS
  <2> HIDE DEF P
  <2> QED  BY <1>5, <1>6, <2>1, Induct
<1>8. f[n] < Power[<<base, n>>]
  BY <1>2, <1>7
<1> QED  BY <1>1, <1>8 DEF n

\* The word k of four of n bytes.
Part(bytes, n, k) == SubSeq(bytes, n * k + 1, n * (k + 1))

\* Four digits in pairs
LEMMA PairsOfPairs ==
  ASSUME NEW s \in Int, NEW d \in Int, NEW e \in Int, NEW b \in Int
  PROVE  (s * b + d) * b + e = s * (b * b) + (d * b + e)
OBVIOUS

LEMMA PartIs ==
  ASSUME NEW n \in Nat \ {0}, NEW bytes \in Seq(Nat), Len(bytes) = 4 * n, NEW k \in 0 .. 3
  PROVE  /\ Part(bytes, n, k) \in Seq(Nat) /\ Len(Part(bytes, n, k)) = n
         /\ \A i \in 1 .. n : /\ Part(bytes, n, k)[i] = bytes[n * k + i]
                              /\ n * k + i \in 1 .. 4 * n
<1> DEFINE m == n * k + 1  t == n * (k + 1)  s == SubSeq(bytes, m, t)
<1>1. k = 0 \/ k = 1 \/ k = 2 \/ k = 3
  OBVIOUS
<1>2. n * k \in Nat /\ t = n * k + n /\ t <= 4 * n
  BY <1>1
<1>3. m \in 1 .. Len(bytes) + 1 /\ t \in m - 1 .. Len(bytes) /\ t - m + 1 = n
  BY <1>2
<1>4. \A i \in m .. t : bytes[i] \in Nat
  BY <1>2, <1>3
<1>5. s = [i \in 1 .. n |-> bytes[i + m - 1]]
  BY <1>2, <1>3, SubSeqProperties
<1>6. \A i \in 1 .. n : i + m - 1 = n * k + i /\ n * k + i \in 1 .. 4 * n
  BY <1>2
<1>7. s \in Seq(Nat) /\ Len(s) = n
  BY <1>2, <1>3, SubSeqProperties
<1> QED  BY <1>5, <1>6, <1>7 DEF Part

LEMMA PartsJoin ==
  ASSUME NEW n \in Nat \ {0}, NEW bytes \in Seq(Nat), Len(bytes) = 4 * n
  PROVE  bytes = ((Part(bytes, n, 0) \o Part(bytes, n, 1)) \o Part(bytes, n, 2)) \o Part(bytes, n, 3)
<1>1. \A a, b \in 0 .. 4 * n : a <= b =>
        SubSeq(bytes, 1, a) \o SubSeq(bytes, a + 1, b) = SubSeq(bytes, 1, b)
  <2> SUFFICES ASSUME NEW a \in 0 .. 4 * n, NEW b \in 0 .. 4 * n, a <= b
               PROVE  SubSeq(bytes, 1, a) \o SubSeq(bytes, a + 1, b) = SubSeq(bytes, 1, b)
    OBVIOUS
  <2>1. 1 \in 1 .. Len(bytes) + 1 /\ a \in 1 - 1 .. Len(bytes) /\ b \in a .. Len(bytes)
    OBVIOUS
  <2> QED  BY <2>1, ConcatAdjacentSubSeq
<1>2. /\ n * 0 + 1 = 1 /\ n * (0 + 1) = n /\ n * 1 + 1 = n + 1 /\ n * (1 + 1) = 2 * n
      /\ n * 2 + 1 = 2 * n + 1 /\ n * (2 + 1) = 3 * n /\ n * 3 + 1 = 3 * n + 1
      /\ n * (3 + 1) = 4 * n
  OBVIOUS
<1>3. /\ Part(bytes, n, 0) = SubSeq(bytes, 1, n)
      /\ Part(bytes, n, 1) = SubSeq(bytes, n + 1, 2 * n)
      /\ Part(bytes, n, 2) = SubSeq(bytes, 2 * n + 1, 3 * n)
      /\ Part(bytes, n, 3) = SubSeq(bytes, 3 * n + 1, 4 * n)
  BY <1>2, Zenon DEF Part
<1>4. n \in 0 .. 4 * n /\ 2 * n \in 0 .. 4 * n /\ 3 * n \in 0 .. 4 * n /\ 4 * n \in 0 .. 4 * n
      /\ n <= 2 * n /\ 2 * n <= 3 * n /\ 3 * n <= 4 * n
  OBVIOUS
<1>5. SubSeq(bytes, 1, n) \o SubSeq(bytes, n + 1, 2 * n) = SubSeq(bytes, 1, 2 * n)
  BY <1>1, <1>4
<1>6. SubSeq(bytes, 1, 2 * n) \o SubSeq(bytes, 2 * n + 1, 3 * n) = SubSeq(bytes, 1, 3 * n)
  BY <1>1, <1>4
<1>7. SubSeq(bytes, 1, 3 * n) \o SubSeq(bytes, 3 * n + 1, 4 * n) = SubSeq(bytes, 1, 4 * n)
  BY <1>1, <1>4
<1>8. SubSeq(bytes, 1, 4 * n) = bytes
  BY SubSeqFull
<1> QED  BY <1>3, <1>5, <1>6, <1>7, <1>8, Zenon

FourJoined(r, s, t, u, base, n, p) ==
  p = Power[<<base, n>>] =>
  NumberOf(((r \o s) \o t) \o u, base)
    = ((NumberOf(r, base) * p + NumberOf(s, base)) * p + NumberOf(t, base)) * p
        + NumberOf(u, base)

LEMMA FourParts ==
  ASSUME NEW r \in Seq(Nat), NEW s \in Seq(Nat), NEW t \in Seq(Nat), NEW u \in Seq(Nat),
         NEW base \in Nat, NEW n \in Nat, Len(s) = n, Len(t) = n, Len(u) = n,
         NEW p
  PROVE  FourJoined(r, s, t, u, base, n, p)
<1> SUFFICES ASSUME p = Power[<<base, n>>]
             PROVE  NumberOf(((r \o s) \o t) \o u, base)
                      = ((NumberOf(r, base) * p + NumberOf(s, base)) * p + NumberOf(t, base)) * p
                          + NumberOf(u, base)
  BY DEF FourJoined
<1> DEFINE c == r \o s  e == c \o t
<1>1. c \in Seq(Nat)
  BY ConcatProperties
<1>2. NumberOf(c, base) = NumberOf(r, base) * p + NumberOf(s, base)
  <2>1. NumberOf(c, base) = NumberOf(r, base) * Power[<<base, Len(s)>>] + NumberOf(s, base)
    BY NumberConcat, Zenon
  <2> QED  BY <2>1, Zenon
<1> HIDE DEF c
<1>3. e \in Seq(Nat)
  BY <1>1, ConcatProperties
<1>4. NumberOf(e, base) = NumberOf(c, base) * p + NumberOf(t, base)
  <2>1. NumberOf(e, base) = NumberOf(c, base) * Power[<<base, Len(t)>>] + NumberOf(t, base)
    BY <1>1, NumberConcat, Zenon
  <2> QED  BY <2>1, Zenon
<1> HIDE DEF e
<1>5. NumberOf(e \o u, base) = NumberOf(e, base) * p + NumberOf(u, base)
  <2>1. NumberOf(e \o u, base) = NumberOf(e, base) * Power[<<base, Len(u)>>] + NumberOf(u, base)
    BY <1>3, NumberConcat, Zenon
  <2> QED  BY <2>1, Zenon
<1> QED  BY <1>2, <1>4, <1>5, Zenon DEF c, e

\* readu256BE() reads the number the bytes are.
THEOREM WordsRead ==
  ASSUME NEW bytes \in Seq(Nat), Len(bytes) = BytesOf256,
         \A i \in 1 .. Len(bytes) : bytes[i] < ByteBase
  PROVE  readu256BE(bytes) \in Uint256 /\ Value256(readu256BE(bytes)) = NumberOf(bytes, ByteBase)
<1> DEFINE n == WordBytes  b == ByteBase
           a(k) == Part(bytes, n, k)  v(k) == NumberOf(a(k), b)
<1>1. n \in Nat \ {0} /\ BytesOf256 = 4 * n /\ b \in Nat \ {0} /\ Base = Power[<<b, n>>]
      /\ BytesOf256 \div 4 = n
  BY BytesType DEF WordBytes
<1>2. readu256BE(bytes) = <<<<v(0), v(1)>>, <<v(2), v(3)>>>>
  BY <1>1 DEF readu256BE, Part
<1>3. ASSUME NEW k \in 0 .. 3
      PROVE  a(k) \in Seq(Nat) /\ Len(a(k)) = n /\ v(k) \in 0 .. Base - 1
  <2>1. a(k) \in Seq(Nat) /\ Len(a(k)) = n
        /\ \A i \in 1 .. n : a(k)[i] = bytes[n * k + i] /\ n * k + i \in 1 .. 4 * n
    BY <1>1, PartIs
  <2>2. \A i \in 1 .. Len(a(k)) : a(k)[i] < b
    BY <1>1, <2>1
  <2>3. v(k) < Power[<<b, n>>] /\ v(k) \in Nat
    <3> HIDE DEF a, b, n
    <3> QED  BY <1>1, <2>1, <2>2, NumberBound, NumberNat
  <2>4. Base \in Nat
    BY BaseType
  <2>5. v(k) \in Nat /\ v(k) < Base
    BY <1>1, <2>3, Zenon
  <2> HIDE DEF a, v, n, b
  <2>6. v(k) \in 0 .. Base - 1
    BY <2>4, <2>5
  <2> QED  BY <2>1, <2>6
<1>4. bytes = ((a(0) \o a(1)) \o a(2)) \o a(3)
  BY <1>1, PartsJoin
<1>5. Base \in Nat
  BY BaseType
<1> HIDE DEF a, b, n
<1>6. /\ a(0) \in Seq(Nat) /\ a(1) \in Seq(Nat) /\ a(2) \in Seq(Nat) /\ a(3) \in Seq(Nat)
      /\ Len(a(1)) = n /\ Len(a(2)) = n /\ Len(a(3)) = n
  BY <1>3
<1>11. NumberOf(bytes, b) = ((v(0) * Base + v(1)) * Base + v(2)) * Base + v(3)
  <2>1. NumberOf(((a(0) \o a(1)) \o a(2)) \o a(3), b)
          = ((v(0) * Base + v(1)) * Base + v(2)) * Base + v(3)
    <3> DEFINE r == a(0)  s == a(1)  t == a(2)  u == a(3)
    <3>1. /\ r \in Seq(Nat) /\ s \in Seq(Nat) /\ t \in Seq(Nat) /\ u \in Seq(Nat)
          /\ Len(s) = n /\ Len(t) = n /\ Len(u) = n /\ b \in Nat /\ n \in Nat
          /\ Base = Power[<<b, n>>]
      BY <1>1, <1>6
    <3> HIDE DEF r, s, t, u
    <3>2. NumberOf(((r \o s) \o t) \o u, b)
            = ((NumberOf(r, b) * Base + NumberOf(s, b)) * Base + NumberOf(t, b)) * Base
                + NumberOf(u, b)
      <4>1. FourJoined(r, s, t, u, b, n, Base)
        BY <3>1, FourParts
      <4> QED  BY <3>1, <4>1, Zenon DEF FourJoined
    <3> QED  BY <3>2 DEF r, s, t, u
  <2> QED  BY <1>4, <2>1, Zenon
<1>12. /\ v(0) \in 0 .. Base - 1 /\ v(1) \in 0 .. Base - 1
       /\ v(2) \in 0 .. Base - 1 /\ v(3) \in 0 .. Base - 1
  BY <1>3
<1> HIDE DEF v
<1>13. readu256BE(bytes) \in Uint256
  BY <1>2, <1>12 DEF Uint256, Uint128
<1>14. Value256(readu256BE(bytes)) = (v(0) * Base + v(1)) * (Base * Base) + (v(2) * Base + v(3))
  BY <1>2 DEF Value256, Value128, UPPER, LOWER, Base128
<1>15. ((v(0) * Base + v(1)) * Base + v(2)) * Base + v(3)
        = (v(0) * Base + v(1)) * (Base * Base) + (v(2) * Base + v(3))
  <2> DEFINE s == v(0) * Base + v(1)
  <2>1. Base \in Int /\ s \in Int /\ v(2) \in Int /\ v(3) \in Int
    BY <1>5, <1>12
  <2> HIDE DEF s
  <2>2. (s * Base + v(2)) * Base + v(3) = s * (Base * Base) + (v(2) * Base + v(3))
    BY <2>1, PairsOfPairs
  <2> QED  BY <2>2, Zenon DEF s
<1> QED  BY <1>11, <1>13, <1>14, <1>15 DEF b

\* writeu256BE() writes the bytes of each word, and they read back.
LEMMA ByteWritten ==
  ASSUME NEW x, NEW n, n = WordBytes, NEW k \in 0 .. 3, NEW i \in 1 .. n
  PROVE  /\ n * k + i \in 1 .. 4 * n
         /\ writeu256BE(x)[n * k + i] = DigitsIn(Digits(x)[k + 1], ByteBase, n)[i]
<1>1. n \in Nat \ {0} /\ BytesOf256 \div 4 = n
  BY BytesType DEF WordBytes
<1>2. n * k + i \in 1 .. 4 * n
  <2>1. k = 0 \/ k = 1 \/ k = 2 \/ k = 3
    OBVIOUS
  <2> QED  BY <1>1, <2>1
<1> DEFINE j == n * k + i
<1>3. (j - 1) \div n = k /\ (j - 1) % n = i - 1
  <2>1. j - 1 = k * n + (i - 1) /\ k \in Int /\ i - 1 \in 0 .. n - 1
    BY <1>1
  <2> DEFINE h == i - 1
  <2>2. (k * n + h) \div n = k /\ (k * n + h) % n = h
    <3> HIDE DEF h
    <3> QED  BY <1>1, <2>1, DivUnique DEF h
  <2> QED  BY <2>1, <2>2
<1>4. writeu256BE(x)[j]
        = (Digits(x)[((j - 1) \div n) + 1] \div Power[<<ByteBase, n - 1 - ((j - 1) % n)>>]) % ByteBase
  <2>1. j \in 1 .. 4 * n
    BY <1>2
  <2> HIDE DEF j
  <2> QED  BY <1>1, <2>1 DEF writeu256BE
<1>5. n - 1 - (i - 1) = n - i
  BY <1>1
<1>6. DigitsIn(Digits(x)[k + 1], ByteBase, n)[i]
        = (Digits(x)[k + 1] \div Power[<<ByteBase, n - i>>]) % ByteBase
  BY DEF DigitsIn
<1> HIDE DEF j
<1>7. writeu256BE(x)[j] = DigitsIn(Digits(x)[k + 1], ByteBase, n)[i]
  BY <1>3, <1>4, <1>5, <1>6, Zenon
<1> QED  BY <1>2, <1>7 DEF j

THEOREM WordsWritten ==
  ASSUME NEW x \in Uint256
  PROVE  /\ writeu256BE(x) \in Seq(Nat) /\ Len(writeu256BE(x)) = BytesOf256
         /\ \A i \in 1 .. BytesOf256 : writeu256BE(x)[i] < ByteBase
         /\ readu256BE(writeu256BE(x)) = x
         /\ NumberOf(writeu256BE(x), ByteBase) = Value256(x)
<1> DEFINE n == WordBytes  b == ByteBase  y == writeu256BE(x)  d == Digits(x)
<1>1. n \in Nat \ {0} /\ BytesOf256 = 4 * n /\ b \in Nat \ {0} /\ Base = Power[<<b, n>>]
      /\ BytesOf256 \div 4 = n
  BY BytesType DEF WordBytes
<1>2. /\ d[1] \in 0 .. Base - 1 /\ d[2] \in 0 .. Base - 1
      /\ d[3] \in 0 .. Base - 1 /\ d[4] \in 0 .. Base - 1
      /\ x = <<<<d[1], d[2]>>, <<d[3], d[4]>>>>
  BY DEF Digits, Uint256, Uint128, UPPER, LOWER
<1>3. Base \in Nat
  BY BaseType
<1> HIDE DEF d
<1>4. ASSUME NEW k \in 0 .. 3
      PROVE  /\ d[k + 1] \in Nat /\ d[k + 1] < Power[<<b, n>>]
             /\ DigitsIn(d[k + 1], b, n) \in Seq(0 .. b - 1)
             /\ Len(DigitsIn(d[k + 1], b, n)) = n
             /\ NumberOf(DigitsIn(d[k + 1], b, n), b) = d[k + 1]
  <2> DEFINE w == d[k + 1]
  <2>1. k = 0 \/ k = 1 \/ k = 2 \/ k = 3
    OBVIOUS
  <2>2. w \in Nat /\ w < Power[<<b, n>>]
    BY <1>1, <1>2, <1>3, <2>1
  <2> HIDE DEF w, b, n
  <2> QED  BY <1>1, <2>2, DigitsRead DEF w
<1>5. \A j \in 1 .. 4 * n : \E k \in 0 .. 3, i \in 1 .. n : j = n * k + i
  <2> SUFFICES ASSUME NEW j \in 1 .. 4 * n PROVE \E k \in 0 .. 3, i \in 1 .. n : j = n * k + i
    OBVIOUS
  <2> HIDE DEF n
  <2>1. CASE j <= n
    <3>1. j \in 1 .. n /\ j = n * 0 + j /\ 0 \in 0 .. 3
      BY <1>1, <2>1
    <3> QED  BY <3>1
  <2>2. CASE n < j /\ j <= 2 * n
    <3>1. j - n \in 1 .. n /\ j = n * 1 + (j - n) /\ 1 \in 0 .. 3
      BY <1>1, <2>2
    <3> QED  BY <3>1
  <2>3. CASE 2 * n < j /\ j <= 3 * n
    <3>1. j - 2 * n \in 1 .. n /\ j = n * 2 + (j - 2 * n) /\ 2 \in 0 .. 3
      BY <1>1, <2>3
    <3> QED  BY <3>1
  <2>4. CASE 3 * n < j
    <3>1. j - 3 * n \in 1 .. n /\ j = n * 3 + (j - 3 * n) /\ 3 \in 0 .. 3
      BY <1>1, <2>4
    <3> QED  BY <3>1
  <2> QED  BY <1>1, <2>1, <2>2, <2>3, <2>4
<1>6. \A j \in 1 .. 4 * n : y[j] \in 0 .. b - 1
  <2> SUFFICES ASSUME NEW j \in 1 .. 4 * n PROVE y[j] \in 0 .. b - 1
    OBVIOUS
  <2>1. PICK k \in 0 .. 3, i \in 1 .. n : j = n * k + i
    BY <1>5
  <2>2. y[j] = DigitsIn(d[k + 1], b, n)[i]
    BY <2>1, ByteWritten DEF d
  <2>3. DigitsIn(d[k + 1], b, n) \in Seq(0 .. b - 1) /\ Len(DigitsIn(d[k + 1], b, n)) = n
    BY <1>4, <2>1
  <2> DEFINE s == DigitsIn(d[k + 1], b, n)
  <2> HIDE DEF s, b, n, y
  <2>4. s[i] \in 0 .. b - 1
    BY <2>1, <2>3, ElementOfSeq DEF s
  <2> QED  BY <2>2, <2>4 DEF s
<1>7. y \in [1 .. 4 * n -> Nat]
  <2>1. y = [j \in 1 .. 4 * n |-> y[j]]
    BY <1>1 DEF writeu256BE
  <2> HIDE DEF y
  <2>2. \A j \in 1 .. 4 * n : y[j] \in Nat
    BY <1>1, <1>6
  <2> QED  BY <2>1, <2>2
<1>8. y \in Seq(Nat) /\ Len(y) = 4 * n
  <2> HIDE DEF y, n
  <2> QED  BY <1>1, <1>7
<1>9. \A j \in 1 .. 4 * n : y[j] < b
  <2> HIDE DEF y, n, b
  <2> QED  BY <1>1, <1>6
<1>10. ASSUME NEW k \in 0 .. 3 PROVE NumberOf(Part(y, n, k), b) = d[k + 1]
  <2> DEFINE s == DigitsIn(d[k + 1], b, n)  p == Part(y, n, k)
  <2>1. s \in Seq(0 .. b - 1) /\ Len(s) = n /\ NumberOf(s, b) = d[k + 1]
    BY <1>4
  <2>2. p \in Seq(Nat) /\ Len(p) = n /\ \A i \in 1 .. n : p[i] = y[n * k + i]
    <3>1. n \in Nat \ {0}
      BY <1>1
    <3> HIDE DEF y, n
    <3>2. /\ Part(y, n, k) \in Seq(Nat) /\ Len(Part(y, n, k)) = n
          /\ \A i \in 1 .. n : /\ Part(y, n, k)[i] = y[n * k + i]
                              /\ n * k + i \in 1 .. 4 * n
      BY <1>8, <3>1, PartIs, Zenon
    <3> QED  BY <3>2, Zenon
  <2>3. \A i \in 1 .. n : p[i] = s[i]
    <3> SUFFICES ASSUME NEW i \in 1 .. n PROVE p[i] = s[i]
      OBVIOUS
    <3>1. p[i] = y[n * k + i]
      BY <2>2
    <3>2. y[n * k + i] = DigitsIn(d[k + 1], b, n)[i]
      BY ByteWritten DEF d
    <3> QED  BY <3>1, <3>2, Zenon
  <2> HIDE DEF s, p, y, n, b
  <2>4. s \in Seq(Nat)
    BY <1>1, <2>1, SeqMonotonic
  <2>5. p = s
    BY <1>1, <2>1, <2>2, <2>3, <2>4, SeqEqual
  <2> QED  BY <2>1, <2>5 DEF p
<1>11. readu256BE(y) = x
  <2>1. readu256BE(y) = <<<<NumberOf(Part(y, n, 0), b), NumberOf(Part(y, n, 1), b)>>,
                          <<NumberOf(Part(y, n, 2), b), NumberOf(Part(y, n, 3), b)>>>>
    BY <1>1 DEF readu256BE, Part
  <2>2. /\ NumberOf(Part(y, n, 0), b) = d[1] /\ NumberOf(Part(y, n, 1), b) = d[2]
        /\ NumberOf(Part(y, n, 2), b) = d[3] /\ NumberOf(Part(y, n, 3), b) = d[4]
    <3> HIDE DEF y, n, b
    <3>1. 0 + 1 = 1 /\ 1 + 1 = 2 /\ 2 + 1 = 3 /\ 3 + 1 = 4
      OBVIOUS
    <3> QED  BY <1>10, <3>1
  <2> HIDE DEF y, n, b
  <2> QED  BY <1>2, <2>1, <2>2
<1>12. NumberOf(y, b) = Value256(readu256BE(y))
  <2> HIDE DEF y, n
  <2> QED  BY <1>1, <1>8, <1>9, WordsRead DEF b
<1> QED  BY <1>1, <1>8, <1>9, <1>11, <1>12

-----------------------------------------------------------------------------
(* The digits of a number in a base.                                        *)

Divisions == [div : Uint256, mod : Uint256, ends : BOOLEAN]

LEMMA DivmodType ==
  ASSUME NEW x \in Uint256, NEW y \in Uint256
  PROVE  Divmod256(x, y) \in Divisions
<1>1. CASE Gt256(y, x)
  BY <1>1, Clear256Is DEF Divmod256, Divisions
<1>2. CASE ~Gt256(y, x)
  <2> DEFINE n == Bits256(x) - Bits256(y)  s == LongDivision(x, y, n)
  <2>1. Divmod256(x, y) = Divided(s, y)
    BY <1>2 DEF Divmod256
  <2>2. n \in Nat
    <3>1. Value256(y) <= Value256(x) /\ Value256(x) \in Nat /\ Value256(y) \in Nat
      BY <1>2, Compare256, Value256Type
    <3>2. IsLength(Value256(x), Bits256(x)) /\ IsLength(Value256(y), Bits256(y))
      BY BitsExact
    <3>3. Bits256(y) <= Bits256(x) /\ Bits256(x) \in Nat /\ Bits256(y) \in Nat
      BY <3>1, <3>2, LengthOrder DEF IsLength
    <3> QED  BY <3>3
  <2>3. s \in DivState
    <3> HIDE DEF n
    <3>1. PICK f : (\A i \in Nat : f[i] \in DivState) /\ LongDivision(x, y, n) = f[n + 1]
      BY <2>2, LongDivisionIs
    <3>2. n + 1 \in Nat
      BY <2>2
    <3> QED  BY <3>1, <3>2
  <2>4. s.div \in Uint256 /\ s.mod \in Uint256
    BY <2>3 DEF DivState
  <2>5. Gt256(y, s.mod) \in BOOLEAN
    <3> DEFINE m == s.mod
    <3>1. m \in Uint256
      BY <2>4
    <3> HIDE DEF m
    <3>2. \A u, v \in Uint128 : Gt128(u, v) \in BOOLEAN
      <4> SUFFICES ASSUME NEW u \in Uint128, NEW v \in Uint128 PROVE Gt128(u, v) \in BOOLEAN
        OBVIOUS
      <4>1. \A a, b \in Int : (a > b) \in BOOLEAN
        OBVIOUS
      <4>2. UPPER(u) \in Int /\ LOWER(u) \in Int /\ UPPER(v) \in Int /\ LOWER(v) \in Int
        BY BaseType DEF Uint128, UPPER, LOWER
      <4>3. Gt128(u, v) = (LOWER(u) > LOWER(v)) \/ Gt128(u, v) = (UPPER(u) > UPPER(v))
        BY Zenon DEF Gt128
      <4> QED  BY <4>1, <4>2, <4>3, Zenon
    <3>3. /\ UPPER(y) \in Uint128 /\ LOWER(y) \in Uint128
          /\ UPPER(m) \in Uint128 /\ LOWER(m) \in Uint128
      BY <3>1 DEF Uint256, UPPER, LOWER
    <3>4. Gt256(y, m) = Gt128(LOWER(y), LOWER(m)) \/ Gt256(y, m) = Gt128(UPPER(y), UPPER(m))
      BY Zenon DEF Gt256
    <3> QED  BY <3>2, <3>3, <3>4, Zenon DEF m
  <2> HIDE DEF s
  <2> QED  BY <2>1, <2>4, <2>5 DEF Divided, Divisions
<1> QED  BY <1>1, <1>2

\* A number of one word, and what it is the value of.
OneWord(b) == <<Clear128, <<0, b>>>>

LEMMA OneWordIs ==
  ASSUME NEW b \in 0 .. Base - 1
  PROVE  OneWord(b) \in Uint256 /\ Value256(OneWord(b)) = b
<1>1. Base \in Nat \ {0} /\ Base128 \in Nat
  BY BaseType
<1>2. <<0, b>> \in Uint128 /\ Clear128 \in Uint128
  BY <1>1 DEF Uint128, Clear128
<1>3. Value128(<<0, b>>) = b /\ Value128(Clear128) = 0
  BY <1>1 DEF Value128, Clear128, UPPER, LOWER
<1>4. Value256(<<Clear128, <<0, b>>>>) = b
  BY <1>1, <1>3 DEF Value256, UPPER, LOWER
<1> QED  BY <1>2, <1>4 DEF OneWord, Uint256

LEMMA LowWord ==
  ASSUME NEW x \in Uint256, Value256(x) < Base
  PROVE  LOWER(LOWER(x)) = Value256(x) /\ LOWER(LOWER(x)) \in Nat
<1> DEFINE u == UPPER(x)  a == UPPER(LOWER(x))  l == LOWER(LOWER(x))  U == Value128(u)  B == Base
<1>1. u \in Uint128 /\ a \in Nat /\ l \in 0 .. Base - 1 /\ B \in Nat \ {0} /\ LOWER(x) \in Uint128
  BY BaseType DEF Uint256, Uint128, UPPER, LOWER
<1>2. U \in Nat
  BY <1>1, Value128Type
<1>3. Value256(x) = U * (B * B) + (a * B + l)
  BY DEF Value256, Value128, Base128
<1>4. U * (B * B) + (a * B + l) < B
  BY <1>3
<1> HIDE DEF u, a, l, U, B
<1> DEFINE h == U * B + a
<1>5. U * B \in Nat /\ h \in Nat
  BY <1>1, <1>2, TimesType
<1>6. U * (B * B) + (a * B + l) = h * B + l
  BY <1>1, <1>2
<1> HIDE DEF h
<1>7. h = 0
  <2>1. h # 0 => 1 * B <= h * B
    BY <1>1, <1>5, TimesMonotone
  <2>2. h * B \in Nat
    BY <1>1, <1>5, TimesType
  <2> DEFINE t == h * B
  <2>3. t \in Nat /\ t + l < B /\ (h # 0 => B <= t)
    BY <1>1, <1>4, <1>6, <2>1, <2>2
  <2> HIDE DEF t
  <2> QED  BY <1>1, <2>3 DEF B
<1>8. h * B + l = l
  BY <1>1, <1>7 DEF B
<1> QED  BY <1>1, <1>3, <1>6, <1>8 DEF l

DigitBody(f, dm, radix) ==
  (IF Zero256(dm.div) THEN <<>> ELSE f[Divmod256(dm.div, radix)]) \o <<LOWER(LOWER(dm.mod))>>

LEMMA Zero256Is ==
  ASSUME NEW x \in Uint256
  PROVE  Zero256(x) <=> Value256(x) = 0
<1>1. UPPER(x) \in Uint128 /\ LOWER(x) \in Uint128
  BY DEF Uint256, UPPER, LOWER
<1> DEFINE u == Value128(UPPER(x))  l == Value128(LOWER(x))
<1>2. u \in Nat /\ l \in Nat /\ Base128 \in Nat \ {0}
  BY <1>1, Value128Type, BaseType
<1>3. (Zero128(UPPER(x)) <=> u = 0) /\ (Zero128(LOWER(x)) <=> l = 0)
  BY <1>1, ZeroValue
<1>4. Value256(x) = u * Base128 + l
  BY DEF Value256
<1> HIDE DEF u, l
<1>5. u * Base128 + l = 0 <=> u = 0 /\ l = 0
  <2>1. u # 0 => 1 * Base128 <= u * Base128
    BY <1>2, TimesMonotone
  <2>2. u * Base128 \in Nat
    BY <1>2, TimesType
  <2> QED  BY <1>2, <2>1, <2>2
<1> QED  BY <1>3, <1>4, <1>5 DEF Zero256

LEMMA Quotient ==
  ASSUME NEW x \in Uint256, NEW b \in 2 .. Base - 1, NEW dm, dm = Divmod256(x, OneWord(b))
  PROVE  /\ dm \in Divisions
         /\ Value256(dm.div) = Value256(x) \div b
         /\ Value256(dm.mod) = Value256(x) % b
         /\ Value256(dm.mod) \in 0 .. b - 1
         /\ Value256(x) # 0 => Value256(dm.div) < Value256(x)
<1>1. b \in 0 .. Base - 1 /\ b \in Nat /\ b >= 2 /\ Value256(x) \in Nat
  BY BaseType, Value256Type
<1>2. OneWord(b) \in Uint256 /\ Value256(OneWord(b)) = b
  BY <1>1, OneWordIs
<1>3. DivisionExact(x, OneWord(b))
  BY <1>2, DivisionsAreExact
<1>4. Value256(dm.div) = Value256(x) \div b /\ Value256(dm.mod) = Value256(x) % b
  BY <1>1, <1>2, <1>3 DEF DivisionExact
<1>5. dm \in Divisions
  BY <1>2, DivmodType
<1> DEFINE v == Value256(x)
<1>6. v \in Nat
  BY <1>1
<1> HIDE DEF v
<1>7. v % b \in 0 .. b - 1 /\ (v # 0 => v \div b < v)
  <2> DEFINE q == v \div b  r == v % b
  <2>1. q \in Nat /\ r \in 0 .. b - 1 /\ v = q * b + r
    <3>1. b \in Nat \ {0}
      BY <1>1
    <3> QED  BY <1>6, <3>1, DivMod
  <2> HIDE DEF q, r
  <2>2. q * 2 <= q * b
    BY <1>1, <2>1, TimesMonotone
  <2>3. q * b \in Nat
    BY <1>1, <2>1, TimesType
  <2> DEFINE t == q * b
  <2>4. t \in Nat /\ q * 2 <= t /\ v = t + r
    BY <2>1, <2>2, <2>3
  <2> HIDE DEF t
  <2>5. v # 0 => q < v
    BY <1>1, <1>6, <2>1, <2>4
  <2> QED  BY <2>1, <2>5 DEF q, r
<1> QED  BY <1>4, <1>5, <1>7 DEF v

\* What the recursion of DigitsOf() computes, one digit after the other
LEMMA DigitsUnfold ==
  ASSUME NEW b \in 2 .. Base - 1
  PROVE  \E f : /\ f \in [Divisions -> Seq(Nat)]
                /\ \A dm \in Divisions : f[dm] = DigitBody(f, dm, OneWord(b))
                /\ \A x : DigitsOf(x, OneWord(b)) = f[Divmod256(x, OneWord(b))]
<1> DEFINE S == Seq(Nat)
           D == Divisions
           radix == OneWord(b)
           m == [dm \in D |-> Value256(dm.div)]
           F == [q \in D \X [D -> S] |-> DigitBody(q[2], q[1], radix)]
           text[dm \in D] ==
             (IF Zero256(dm.div) THEN <<>> ELSE text[Divmod256(dm.div, radix)])
               \o <<LOWER(LOWER(dm.mod))>>
<1>1. \A dm \in D : dm.div \in Uint256 /\ dm.mod \in Uint256
  BY DEF Divisions
<1>2. ASSUME NEW dm \in D, ~Zero256(dm.div)
      PROVE  Divmod256(dm.div, radix) \in D /\ m[Divmod256(dm.div, radix)] < m[dm]
  <2> DEFINE e == Divmod256(dm.div, radix)
  <2>1. dm.div \in Uint256 /\ Value256(dm.div) # 0
    BY <1>1, <1>2, Zero256Is
  <2>2. e \in D /\ Value256(e.div) < Value256(dm.div)
    BY <2>1, Quotient
  <2> HIDE DEF e
  <2> QED  BY <2>2 DEF e
<1>3. \A dm \in D : LOWER(LOWER(dm.mod)) \in Nat
  BY <1>1, BaseType DEF Uint256, Uint128, UPPER, LOWER
<1>4. m \in [D -> Nat] /\ S # {}
  <2>1. \A dm \in D : Value256(dm.div) \in Nat
    BY <1>1, Value256Type
  <2>2. <<>> \in S
    OBVIOUS
  <2> QED  BY <2>1, <2>2
<1>5. ASSUME NEW dm \in D, NEW g \in [D -> S] PROVE DigitBody(g, dm, radix) \in S
  <2> DEFINE e == IF Zero256(dm.div) THEN <<>> ELSE g[Divmod256(dm.div, radix)]
             d == LOWER(LOWER(dm.mod))
  <2>1. e \in Seq(Nat)
    <3>1. <<>> \in S
      OBVIOUS
    <3>2. ~Zero256(dm.div) => g[Divmod256(dm.div, radix)] \in S
      <4> HIDE DEF D, S, radix, m
      <4> QED  BY <1>2
    <3> HIDE DEF D, S, radix
    <3> QED  BY <3>1, <3>2 DEF S
  <2>2. d \in Nat
    BY <1>3
  <2> HIDE DEF e, d
  <2>3. e \o <<d>> \in Seq(Nat)
    BY <2>1, <2>2
  <2> QED  BY <2>3 DEF DigitBody, e, d
<1>6. F \in [D \X [D -> S] -> S]
  <2> HIDE DEF D, S
  <2> QED  BY <1>5
<1>7. ASSUME NEW x \in D, NEW g \in [D -> S], NEW h \in [D -> S],
             \A y \in D : m[y] < m[x] => g[y] = h[y]
      PROVE  F[<<x, g>>] = F[<<x, h>>]
  <2>1. ~Zero256(x.div) => g[Divmod256(x.div, radix)] = h[Divmod256(x.div, radix)]
    <3> HIDE DEF D, m, S, radix
    <3> QED  BY <1>2, <1>7
  <2>2. DigitBody(g, x, radix) = DigitBody(h, x, radix)
    BY <2>1 DEF DigitBody
  <2> HIDE DEF D, S
  <2> QED  BY <2>2
<1>8. Descends(D, S, m, F)
  <2>1. \A x \in D, g, h \in [D -> S] :
          (\A y \in D : m[y] < m[x] => g[y] = h[y]) => F[<<x, g>>] = F[<<x, h>>]
    BY <1>7
  <2> HIDE DEF S, D, m, F
  <2> QED  BY <1>4, <1>6, <2>1 DEF Descends
<1>9. PICK f : Solves(f, D, S, F)
  <2> HIDE DEF S, D, m, F
  <2> QED  BY <1>4, <1>8, Recursion
<1>10. f \in [D -> S] /\ \A dm \in D : f[dm] = DigitBody(f, dm, radix)
  <2> HIDE DEF D, S, radix
  <2> QED  BY <1>9 DEF Solves
<1>11. f = [dm \in D |-> (IF Zero256(dm.div) THEN <<>> ELSE f[Divmod256(dm.div, radix)])
                            \o <<LOWER(LOWER(dm.mod))>>]
  <2>1. \A dm \in D : f[dm] = (IF Zero256(dm.div) THEN <<>> ELSE f[Divmod256(dm.div, radix)])
                            \o <<LOWER(LOWER(dm.mod))>>
    BY <1>10, Zenon DEF DigitBody
  <2> HIDE DEF D, S, radix
  <2> QED  BY <1>10, <2>1
<1>12. text = [dm \in D |-> (IF Zero256(dm.div) THEN <<>> ELSE text[Divmod256(dm.div, radix)])
                               \o <<LOWER(LOWER(dm.mod))>>]
  <2> HIDE DEF D, radix
  <2> QED  BY <1>11
<1>13. \A x : DigitsOf(x, radix) = text[Divmod256(x, radix)]
  BY DEF DigitsOf, Divisions
<1> HIDE DEF text
<1>14. \A dm \in D : text[dm] = DigitBody(text, dm, radix)
  <2> HIDE DEF D, radix
  <2> QED  BY <1>12 DEF DigitBody
<1> DEFINE P == {dm \in D : text[dm] \in S}
<1>15. ASSUME NEW x \in D, \A y \in D : m[y] < m[x] => y \in P PROVE x \in P
  <2> DEFINE e == IF Zero256(x.div) THEN <<>> ELSE text[Divmod256(x.div, radix)]
             d == LOWER(LOWER(x.mod))
  <2>1. ~Zero256(x.div) => text[Divmod256(x.div, radix)] \in S
    <3> HIDE DEF D, m, S, radix
    <3> QED  BY <1>2, <1>15
  <2>2. e \in Seq(Nat)
    BY <2>1
  <2>3. d \in Nat
    BY <1>3
  <2>4. text[x] = e \o <<d>>
    BY <1>14 DEF DigitBody
  <2> HIDE DEF e, d
  <2>5. e \o <<d>> \in Seq(Nat)
    BY <2>2, <2>3
  <2> HIDE DEF D
  <2> QED  BY <2>4, <2>5
<1>16. \A dm \in D : dm \in P
  <2>1. P \in SUBSET D
    OBVIOUS
  <2> HIDE DEF P, D, m
  <2>2. \A x \in D : (\A y \in D : m[y] < m[x] => y \in P) => x \in P
    BY <1>15
  <2>3. m \in [D -> Nat]
    BY <1>4
  <2> QED  BY <2>1, <2>2, <2>3, MeasureInduct
<1>17. text \in [D -> S]
  <2>1. \A dm \in D : text[dm] \in S
    BY <1>16
  <2> HIDE DEF D, S, radix
  <2> QED  BY <1>12, <2>1
<1> QED  BY <1>13, <1>14, <1>17

\* The digits s of the number v in base b, and no more of them than needed
Meant(s, v, b) ==
  /\ s \in Seq(Nat) /\ s # <<>>
  /\ \A i \in 1 .. Len(s) : s[i] < b
  /\ NumberOf(s, b) = v
  /\ \A k \in Nat \ {0} : v < Power[<<b, k>>] => Len(s) <= k

LEMMA MeantFirst ==
  ASSUME NEW b \in Nat, NEW d \in 0 .. b - 1
  PROVE  Meant(<<>> \o <<d>>, d, b)
<1> DEFINE e == <<d>>
<1>1. d \in Nat /\ e \in Seq(Nat) /\ Len(e) = 1 /\ e[1] = d /\ d < b /\ e # <<>>
  OBVIOUS
<1>2. <<>> \o e = e /\ <<>> \in Seq(Nat)
  BY <1>1, ConcatEmptySeq
<1>3. e = Append(<<>>, d)
  OBVIOUS
<1> HIDE DEF e
<1>4. NumberOf(e, b) = NumberOf(<<>>, b) * b + d
  BY <1>1, <1>2, <1>3, NumberAppend
<1>5. NumberOf(<<>>, b) = 0
  BY NumberEmpty
<1>6. NumberOf(e, b) = d
  BY <1>1, <1>4, <1>5
<1> QED  BY <1>1, <1>2, <1>6 DEF Meant, e

LEMMA MeantNext ==
  ASSUME NEW b \in Nat \ {0}, NEW q \in Nat \ {0}, NEW s, Meant(s, q, b), NEW d \in 0 .. b - 1
  PROVE  Meant(s \o <<d>>, q * b + d, b)
<1> DEFINE t == s \o <<d>>  v == q * b + d  n == Len(s)
<1>1. d \in Nat /\ d < b /\ s \in Seq(Nat) /\ n \in Nat
  BY DEF Meant
<1>2. t = Append(s, d)
  BY <1>1, AppendIsConcat
<1>3. /\ t \in Seq(Nat) /\ Len(t) = n + 1 /\ t[n + 1] = d
      /\ \A i \in 1 .. n : t[i] = s[i]
  BY <1>1, <1>2, AppendProperties
<1>4. NumberOf(t, b) = v
  BY <1>1, <1>2, NumberAppend DEF Meant
<1> HIDE DEF t
<1>5. t # <<>>
  BY <1>1, <1>3
<1>6. \A i \in 1 .. Len(t) : t[i] < b
  <2>1. \A i \in 1 .. n : s[i] < b
    BY DEF Meant
  <2> HIDE DEF n
  <2> QED  BY <1>1, <1>3, <2>1
<1>7. ASSUME NEW k \in Nat \ {0}, v < Power[<<b, k>>] PROVE Len(t) <= k
  <2> DEFINE j == k - 1  p == Power[<<b, j>>]
  <2>1. j \in Nat /\ k = j + 1
    OBVIOUS
  <2>2. p \in Nat /\ Power[<<b, k>>] = b * p
    BY <2>1, PowerStep
  <2>3. CASE j = 0
    <3>1. Power[<<b, 0>>] = 1
      BY PowerStep, b \in Nat, 0 \in Nat, Zenon
    <3>2. p = 1
      BY <2>3, <3>1
    <3> HIDE DEF p, j
    <3>3. v < b
      BY <1>7, <2>2, <3>2
    <3>4. 1 * b <= q * b
      BY TimesMonotone
    <3>5. q * b \in Nat
      BY TimesType
    <3> DEFINE w == q * b
    <3>6. w \in Nat /\ b <= w /\ w + d < b
      BY <3>3, <3>4, <3>5
    <3> HIDE DEF w
    <3> QED  BY <1>1, <3>6
  <2>4. CASE j # 0
    <3> HIDE DEF p, j
    <3>1. q < p
      <4>1. ASSUME p <= q PROVE FALSE
        <5>1. p * b <= q * b /\ q * b \in Nat /\ p * b = b * p
          BY <2>2, <4>1, TimesMonotone, TimesType
        <5> DEFINE w == q * b  u == p * b
        <5>2. u <= w /\ w \in Nat /\ u \in Int /\ w + d < u
          BY <1>7, <2>2, <5>1
        <5> HIDE DEF w, u
        <5> QED  BY <1>1, <5>2
      <4> QED  BY <2>2, <4>1
    <3>2. j \in Nat \ {0} /\ q < Power[<<b, j>>]
      BY <2>1, <2>4, <3>1 DEF p
    <3>3. n <= j
      BY <3>2 DEF Meant
    <3> QED  BY <1>1, <1>3, <2>1, <3>3
  <2> QED  BY <2>3, <2>4
<1> HIDE DEF v
<1>8. Meant(t, v, b)
  BY <1>3, <1>4, <1>5, <1>6, <1>7 DEF Meant
<1> QED  BY <1>8 DEF t, v

LEMMA DigitsMeant ==
  ASSUME NEW b \in 2 .. Base - 1, NEW x \in Uint256
  PROVE  Meant(DigitsOf(x, OneWord(b)), Value256(x), b)
<1> DEFINE D == Divisions
           m == [dm \in D |-> Value256(dm.div)]
           V(dm) == Value256(dm.div) * b + Value256(dm.mod)
<1>1. PICK f : /\ f \in [Divisions -> Seq(Nat)]
               /\ \A dm \in D : f[dm] = DigitBody(f, dm, OneWord(b))
               /\ \A y : DigitsOf(y, OneWord(b)) = f[Divmod256(y, OneWord(b))]
  BY DigitsUnfold
<1>2. b \in Nat \ {0} /\ b < Base /\ Base \in Nat
  BY BaseType
<1>3. \A dm \in D : dm.div \in Uint256 /\ dm.mod \in Uint256
  BY DEF Divisions
<1>4. m \in [D -> Nat]
  <2>1. \A dm \in D : Value256(dm.div) \in Nat
    BY <1>3, Value256Type
  <2> QED  BY <2>1
<1> DEFINE P == {dm \in D : Value256(dm.mod) < b => Meant(f[dm], V(dm), b)}
<1>5. ASSUME NEW dm \in D, \A y \in D : m[y] < m[dm] => y \in P PROVE dm \in P
  <2> SUFFICES ASSUME Value256(dm.mod) < b PROVE Meant(f[dm], V(dm), b)
    OBVIOUS
  <2> DEFINE d == LOWER(LOWER(dm.mod))  q == Value256(dm.div)  next == Divmod256(dm.div, OneWord(b))
  <2>1. q \in Nat /\ dm.div \in Uint256 /\ dm.mod \in Uint256
    BY <1>3, Value256Type
  <2>2. d = Value256(dm.mod) /\ d \in 0 .. b - 1
    <3>1. Value256(dm.mod) < Base /\ Value256(dm.mod) \in Nat
      BY <1>2, <2>1, Value256Type
    <3> QED  BY <1>2, <2>1, <3>1, LowWord
  <2>3. f[dm] = (IF Zero256(dm.div) THEN <<>> ELSE f[next]) \o <<d>>
    BY <1>1, Zenon DEF DigitBody
  <2>4. CASE q = 0
    <3>1. f[dm] = <<>> \o <<d>>
      BY <2>1, <2>3, <2>4, Zero256Is
    <3>2. V(dm) = d
      <4>1. 0 * b = 0
        BY <1>2
      <4> HIDE DEF d
      <4> QED  BY <2>1, <2>2, <2>4, <4>1
    <3> HIDE DEF V, d
    <3>3. Meant(<<>> \o <<d>>, d, b)
      BY <1>2, <2>2, MeantFirst
    <3> QED  BY <3>1, <3>2, <3>3
  <2>5. CASE q # 0
    <3>1. /\ next \in D /\ Value256(next.div) = q \div b /\ Value256(next.mod) = q % b
          /\ Value256(next.mod) < b /\ Value256(next.div) < q
      <4>1. next \in Divisions /\ Value256(next.mod) \in 0 .. b - 1
            /\ Value256(next.div) = q \div b /\ Value256(next.mod) = q % b
            /\ (q # 0 => Value256(next.div) < q)
        BY <2>1, Quotient
      <4> HIDE DEF next, q
      <4> QED  BY <1>2, <2>5, <4>1
    <3>2. m[next] < m[dm]
      <4> HIDE DEF next
      <4> QED  BY <3>1
    <3>3. next \in P
      <4> HIDE DEF next, D, m, P
      <4> QED  BY <1>5, <3>1, <3>2
    <3>4. Meant(f[next], V(next), b)
      <4> HIDE DEF next, D, V
      <4> QED  BY <3>1, <3>3
    <3>5. V(next) = q
      <4>1. q = (q \div b) * b + (q % b)
        <5> HIDE DEF q
        <5> QED  BY <1>2, <2>1, DivMod
      <4> HIDE DEF q, next
      <4> QED  BY <3>1, <4>1
    <3>6. f[dm] = f[next] \o <<d>>
      BY <2>1, <2>3, <2>5, Zero256Is
    <3>7. V(dm) = q * b + d
      BY <2>2, Zenon
    <3> HIDE DEF V, d, q, next
    <3>8. Meant(f[next], q, b)
      BY <3>4, <3>5
    <3>9. Meant(f[next] \o <<d>>, q * b + d, b)
      BY <1>2, <2>1, <2>2, <2>5, <3>8, MeantNext
    <3> QED  BY <3>6, <3>7, <3>9
  <2> QED  BY <2>4, <2>5
<1>6. \A dm \in D : dm \in P
  <2>1. P \in SUBSET D
    OBVIOUS
  <2> HIDE DEF P, D, m
  <2> QED  BY <1>4, <1>5, <2>1, MeasureInduct
<1> DEFINE dm == Divmod256(x, OneWord(b))
<1>7. /\ dm \in D /\ Value256(dm.mod) < b
      /\ Value256(dm.div) = Value256(x) \div b /\ Value256(dm.mod) = Value256(x) % b
  <2>1. dm \in Divisions /\ Value256(dm.mod) \in 0 .. b - 1
        /\ Value256(dm.div) = Value256(x) \div b /\ Value256(dm.mod) = Value256(x) % b
    BY Quotient
  <2> HIDE DEF dm
  <2> QED  BY <1>2, <2>1
<1>8. Meant(f[dm], V(dm), b)
  <2> HIDE DEF dm, D, V
  <2> QED  BY <1>6, <1>7
<1>9. V(dm) = Value256(x)
  <2> DEFINE v == Value256(x)
  <2>1. v \in Nat
    BY Value256Type
  <2> HIDE DEF v
  <2>2. v = (v \div b) * b + (v % b)
    BY <1>2, <2>1, DivMod
  <2> HIDE DEF dm
  <2> QED  BY <1>7, <2>2 DEF v
<1> HIDE DEF V, dm
<1> QED  BY <1>1, <1>8, <1>9 DEF dm

LEMMA TenIs == 10 \in 2 .. Base - 1 /\ 16 <= Base
<1>1. 4 <= W /\ W \in Nat
  BY TextAssumption, WordAssumption
<1>2. Pow2(4) <= Pow2(W)
  BY <1>1, Pow2Monotone, 4 \in Nat
<1>3. Pow2(4) = 16
  <2>1. Pow2(0 + 1) = 2 * 1 /\ Pow2(1 + 1) = 2 * Pow2(1) /\ Pow2(2 + 1) = 2 * Pow2(2)
        /\ Pow2(3 + 1) = 2 * Pow2(3)
    BY Pow2Step, 0 \in Nat, 1 \in Nat, 2 \in Nat, 3 \in Nat
  <2>2. 0 + 1 = 1 /\ 1 + 1 = 2 /\ 2 + 1 = 3 /\ 3 + 1 = 4
    OBVIOUS
  <2> QED  BY <2>1, <2>2
<1>4. Base \in Nat
  BY BaseType
<1> QED  BY <1>2, <1>3, <1>4 DEF Base

LEMMA DecimalDigitsMeant ==
  ASSUME NEW v \in Uint256
  PROVE  Meant(DecimalDigits(v), Value256(v), 10)
<1>1. DecimalDigits(v) = DigitsOf(v, OneWord(10))
  BY DEF DecimalDigits, tostring256, Written, OneWord
<1> QED  BY <1>1, TenIs, DigitsMeant

LEMMA PowerMonotone ==
  ASSUME NEW b \in Nat \ {0}, NEW k \in Nat, NEW n \in Nat, k <= n
  PROVE  Power[<<b, k>>] <= Power[<<b, n>>]
<1>1. n - k \in Nat /\ n = k + (n - k)
  OBVIOUS
<1> DEFINE p == Power[<<b, k>>]  q == Power[<<b, n - k>>]
<1>2. p \in Nat /\ q \in Nat \ {0}
  BY <1>1, PowerPositive
<1>3. Power[<<b, n>>] = p * q
  BY <1>1, PowerSum
<1> HIDE DEF p, q
<1>4. 1 * p <= q * p
  BY <1>2, TimesMonotone
<1> QED  BY <1>2, <1>3, <1>4 DEF p

\* As many digits as the number needs, but for 0
LEMMA MeantLength ==
  ASSUME NEW b \in Nat \ {0}, NEW v \in Nat, NEW s, Meant(s, v, b), NEW k \in Nat \ {0}
  PROVE  Len(s) <= k <=> v < Power[<<b, k>>]
<1>1. s \in Seq(Nat) /\ Len(s) \in Nat /\ v < Power[<<b, Len(s)>>]
  <2>1. s \in Seq(Nat) /\ (\A i \in 1 .. Len(s) : s[i] < b) /\ NumberOf(s, b) = v
    BY DEF Meant
  <2>2. NumberOf(s, b) < Power[<<b, Len(s)>>]
    BY <2>1, NumberBound, Zenon
  <2>3. Len(s) \in Nat
    BY <2>1
  <2> QED  BY <2>1, <2>2, <2>3, Zenon
<1>2. ASSUME Len(s) <= k PROVE v < Power[<<b, k>>]
  <2>1. Power[<<b, Len(s)>>] <= Power[<<b, k>>]
    BY <1>1, <1>2, PowerMonotone
  <2>2. Power[<<b, Len(s)>>] \in Nat /\ Power[<<b, k>>] \in Nat
    BY <1>1, PowerStep
  <2> QED  BY <1>1, <2>1, <2>2
<1> QED  BY <1>2 DEF Meant

\* Zeros in front and at the end
LEMMA PaddedIs ==
  ASSUME NEW s \in Seq(Nat), NEW d \in Nat, Len(s) <= d
  PROVE  /\ Padded(s, d) \in Seq(Nat) /\ Len(Padded(s, d)) = d
         /\ NumberOf(Padded(s, d), 10) = NumberOf(s, 10)
<1> DEFINE n == Len(s)  z == Zeros(d - n)
<1>1. n \in Nat
  OBVIOUS
<1>2. CASE n = d
  BY <1>2 DEF Padded
<1>3. CASE n < d
  <2>1. d - n \in Nat
    BY <1>1, <1>3
  <2>2. z \in Seq(Nat) /\ Len(z) = d - n /\ NumberOf(z, 10) = 0
    BY <2>1, ZerosAre, 10 \in Nat
  <2>3. Padded(s, d) = z \o s
    BY <1>3 DEF Padded
  <2> HIDE DEF z, n
  <2>4. z \o s \in Seq(Nat) /\ Len(z \o s) = Len(z) + Len(s)
    BY <2>2, ConcatProperties
  <2>5. NumberOf(z \o s, 10) = NumberOf(z, 10) * Power[<<10, Len(s)>>] + NumberOf(s, 10)
    BY <2>2, NumberConcat, 10 \in Nat
  <2>6. Power[<<10, Len(s)>>] \in Nat /\ NumberOf(s, 10) \in Nat
    <3>1. Len(s) \in Nat
      BY <1>1 DEF n
    <3> QED  BY <3>1, PowerStep, NumberNat, 10 \in Nat
  <2>7. NumberOf(z \o s, 10) = NumberOf(s, 10)
    BY <2>2, <2>5, <2>6
  <2> QED  BY <1>1, <2>1, <2>2, <2>3, <2>4, <2>7 DEF n
<1> QED  BY <1>1, <1>2, <1>3

LEMMA MaxIs ==
  ASSUME NEW n \in Nat, NEW T \in SUBSET (1 .. n), T # {}
  PROVE  Max(T) \in T /\ \A i \in T : i <= Max(T)
<1> DEFINE R == {k \in Nat : n - k \in T}
<1>1. R # {}
  <2>1. PICK i \in T : TRUE
    OBVIOUS
  <2>2. n - i \in Nat /\ n - (n - i) = i
    BY <2>1
  <2> QED  BY <2>1, <2>2
<1>2. PICK k \in R : \A j \in R : k <= j
  <2>1. R \in SUBSET Nat
    OBVIOUS
  <2> HIDE DEF R
  <2> QED  BY <1>1, <2>1, Least
<1>3. n - k \in T /\ \A i \in T : n - k >= i
  <2>1. k \in Nat /\ n - k \in T
    BY <1>2
  <2>2. ASSUME NEW i \in T PROVE n - k >= i
    <3>1. i \in 1 .. n /\ n - i \in Nat /\ n - (n - i) = i
      BY <2>2
    <3>2. n - i \in R
      BY <2>2, <3>1
    <3>3. k <= n - i
      BY <1>2, <3>2
    <3> QED  BY <2>1, <3>1, <3>3
  <2> QED  BY <2>1, <2>2
<1>4. Max(T) \in T /\ \A i \in T : Max(T) >= i
  BY <1>3 DEF Max
<1>5. \A i \in T : i \in Int
  OBVIOUS
<1> QED  BY <1>4, <1>5

LEMMA DropZerosIs ==
  ASSUME NEW s \in Seq(Nat), s # <<>>
  PROVE  \E k \in 1 .. Len(s) :
           /\ DropZeros(s) \in Seq(Nat) /\ Len(DropZeros(s)) = k
           /\ NumberOf(s, 10) = NumberOf(DropZeros(s), 10) * Power[<<10, Len(s) - k>>]
<1> DEFINE n == Len(s)  T == {1} \cup {i \in 1 .. n : s[i] # 0}  k == Max(T)
           t == SubSeq(s, 1, k)  z == SubSeq(s, k + 1, n)
<1>1. n \in Nat /\ n >= 1 /\ \A i \in 1 .. n : s[i] \in Nat
  OBVIOUS
<1>2. T \in SUBSET (1 .. n) /\ T # {}
  BY <1>1
<1>3. k \in T /\ \A i \in T : i <= k
  <2> HIDE DEF T, n
  <2> QED  BY <1>1, <1>2, MaxIs
<1>4. DropZeros(s) = t
  BY DEF DropZeros
<1>5. k \in 1 .. n /\ \A i \in 1 .. n : i > k => s[i] = 0
  <2>1. k \in 1 .. n
    BY <1>2, <1>3
  <2> HIDE DEF k
  <2> QED  BY <1>3, <2>1
<1> HIDE DEF k, T
<1>6. t \in Seq(Nat) /\ Len(t) = k
  <2>1. \A i \in 1 .. k : s[i] \in Nat
    BY <1>1, <1>5
  <2> HIDE DEF n
  <2> QED  BY <1>1, <1>5, <2>1, SubSeqProperties
<1>7. z \in Seq(Nat) /\ Len(z) = n - k /\ \A i \in 1 .. n - k : z[i] = 0
  <2>1. \A i \in k + 1 .. n : s[i] \in Nat
    BY <1>1, <1>5
  <2>2. k + 1 \in Int /\ n \in Int /\ n - (k + 1) + 1 = n - k
        /\ (IF k + 1 <= n THEN n - (k + 1) + 1 ELSE 0) = n - k
    BY <1>1, <1>5
  <2> HIDE DEF n
  <2>3. z \in Seq(Nat) /\ Len(z) = n - k /\ \A i \in 1 .. n - k : z[i] = s[(k + 1) + i - 1]
    BY <2>1, <2>2, SubSeqProperties
  <2>4. ASSUME NEW i \in 1 .. n - k PROVE s[(k + 1) + i - 1] = 0
    <3>1. (k + 1) + i - 1 \in 1 .. n /\ (k + 1) + i - 1 > k
      BY <1>1, <1>5
    <3> QED  BY <1>5, <3>1
  <2> QED  BY <2>3, <2>4
<1>8. s = t \o z
  <2>1. 1 \in 1 .. n + 1 /\ k \in 1 - 1 .. n /\ n \in k .. n
    BY <1>1, <1>5
  <2>2. SubSeq(s, 1, k) \o SubSeq(s, k + 1, n) = SubSeq(s, 1, n)
    BY <2>1, ConcatAdjacentSubSeq
  <2>3. SubSeq(s, 1, n) = s
    BY SubSeqFull
  <2> QED  BY <2>2, <2>3
<1>9. z = Zeros(n - k) /\ NumberOf(z, 10) = 0
  <2>1. n - k \in Nat
    BY <1>1, <1>5
  <2>2. Zeros(n - k) \in Seq(Nat) /\ Len(Zeros(n - k)) = n - k /\ NumberOf(Zeros(n - k), 10) = 0
    BY <2>1, ZerosAre, 10 \in Nat
  <2>3. \A i \in 1 .. n - k : Zeros(n - k)[i] = 0
    BY DEF Zeros
  <2> HIDE DEF z, n
  <2>4. z = Zeros(n - k)
    BY <1>7, <2>1, <2>2, <2>3, SeqEqual
  <2> QED  BY <2>2, <2>4
<1> HIDE DEF t, z
<1>10. NumberOf(s, 10) = NumberOf(t, 10) * Power[<<10, Len(z)>>] + NumberOf(z, 10)
  BY <1>6, <1>7, <1>8, NumberConcat, 10 \in Nat
<1>11. NumberOf(t, 10) \in Nat /\ Power[<<10, n - k>>] \in Nat
  <2>1. n - k \in Nat
    BY <1>1, <1>5
  <2> QED  BY <1>6, <2>1, NumberNat, PowerStep, 10 \in Nat
<1>12. NumberOf(s, 10) = NumberOf(t, 10) * Power[<<10, n - k>>]
  BY <1>7, <1>9, <1>10, <1>11
<1> QED  BY <1>4, <1>5, <1>6, <1>12

-----------------------------------------------------------------------------
(* Strings of hexadecimal digits.                                           *)

\* Pairs of digits as bytes
Paired(s, n) == [i \in 1 .. n |-> s[2*i - 1] * HexBase + s[2*i]]

LEMMA PairValue2 ==
  ASSUME NEW h \in Nat, NEW f \in Nat, NEW a \in Nat, NEW b \in Nat
  PROVE  f * (h * h) + (a * h + b) = (f * h + a) * h + b
<1>1. (f * h + a) * h = (f * h) * h + a * h
  OBVIOUS
<1>2. (f * h) * h = f * (h * h)
  OBVIOUS
<1> QED  BY <1>1, <1>2

LEMMA PairByte ==
  ASSUME NEW h \in Nat, NEW a \in Nat, NEW b \in Nat, a < h, b < h
  PROVE  a * h + b \in Nat /\ a * h + b < h * h
<1>1. a + 1 <= h /\ a + 1 \in Nat
  OBVIOUS
<1>2. (a + 1) * h <= h * h
  BY <1>1, TimesMonotone
<1>3. (a + 1) * h = a * h + h /\ a * h \in Nat /\ h * h \in Nat
  OBVIOUS
<1> DEFINE p == a * h  q == h * h
<1>4. p + h <= q /\ p \in Nat /\ q \in Nat
  BY <1>2, <1>3
<1> HIDE DEF p, q
<1>5. p + b \in Nat /\ p + b < q
  BY <1>4
<1> QED  BY <1>5 DEF p, q

LEMMA PairedIs ==
  ASSUME NEW n \in Nat, NEW s \in Seq(Nat), Len(s) = 2 * n,
         \A i \in 1 .. 2 * n : s[i] < HexBase
  PROVE  /\ Paired(s, n) \in Seq(Nat) /\ Len(Paired(s, n)) = n
         /\ \A i \in 1 .. n : /\ Paired(s, n)[i] = s[2*i - 1] * HexBase + s[2*i]
                              /\ Paired(s, n)[i] < ByteBase
                              /\ 2*i - 1 \in 1 .. 2 * n /\ 2*i \in 1 .. 2 * n
                              /\ s[2*i - 1] \in Nat /\ s[2*i] \in Nat
<1>1. HexBase \in Nat /\ ByteBase = HexBase * HexBase
  BY BytesType
<1>2. ASSUME NEW i \in 1 .. n
      PROVE  /\ 2*i - 1 \in 1 .. 2 * n /\ 2*i \in 1 .. 2 * n
             /\ s[2*i - 1] \in Nat /\ s[2*i] \in Nat
             /\ s[2*i - 1] * HexBase + s[2*i] \in Nat /\ s[2*i - 1] * HexBase + s[2*i] < ByteBase
  <2>1. 2*i - 1 \in 1 .. 2 * n /\ 2*i \in 1 .. 2 * n
    OBVIOUS
  <2>2. s[2*i - 1] \in Nat /\ s[2*i] \in Nat /\ s[2*i - 1] < HexBase /\ s[2*i] < HexBase
    <3>1. \A k \in 1 .. Len(s) : s[k] \in Nat
      OBVIOUS
    <3> QED  BY <2>1, <3>1
  <2> DEFINE a == s[2*i - 1]  b == s[2*i]
  <2>3. a \in Nat /\ b \in Nat /\ a < HexBase /\ b < HexBase
    BY <2>2
  <2> HIDE DEF a, b
  <2>4. a * HexBase + b \in Nat /\ a * HexBase + b < HexBase * HexBase
    BY <1>1, <2>3, PairByte
  <2> QED  BY <1>1, <2>1, <2>2, <2>4 DEF a, b
<1> DEFINE t == Paired(s, n)
<1>3. \A i \in 1 .. n : t[i] = s[2*i - 1] * HexBase + s[2*i]
  BY DEF Paired
<1>4. t = [i \in 1 .. n |-> t[i]]
  BY DEF Paired
<1> HIDE DEF t
<1>5. \A i \in 1 .. n : t[i] \in Nat
  BY <1>2, <1>3
<1>6. t \in [1 .. n -> Nat]
  BY <1>4, <1>5
<1>7. t \in Seq(Nat) /\ Len(t) = n
  BY <1>6
<1> QED  BY <1>2, <1>3, <1>7 DEF t

LEMMA PairsMean ==
  ASSUME NEW n \in Nat, NEW s \in Seq(Nat), Len(s) = 2 * n,
         \A i \in 1 .. 2 * n : s[i] < HexBase
  PROVE  NumberOf(Paired(s, n), ByteBase) = NumberOf(s, HexBase)
<1> DEFINE t == Paired(s, n)
<1>1. HexBase \in Nat /\ ByteBase \in Nat /\ ByteBase = HexBase * HexBase
  BY BytesType
<1>2. /\ t \in Seq(Nat) /\ Len(t) = n
      /\ \A i \in 1 .. n : /\ t[i] = s[2*i - 1] * HexBase + s[2*i]
                           /\ 2*i - 1 \in 1 .. 2 * n /\ 2*i \in 1 .. 2 * n
                           /\ s[2*i - 1] \in Nat /\ s[2*i] \in Nat
  BY PairedIs
<1> HIDE DEF t
<1>3. PICK f : Reads(f, s, HexBase) /\ NumberOf(s, HexBase) = f[Len(s)]
  BY <1>1, NumberOfIs
<1>4. PICK g : Reads(g, t, ByteBase) /\ NumberOf(t, ByteBase) = g[Len(t)]
  BY <1>1, <1>2, NumberOfIs
<1>5. /\ f[0] = 0 /\ \A i \in 1 .. 2 * n : f[i] = f[i - 1] * HexBase + s[i]
      /\ \A i \in 0 .. 2 * n : f[i] \in Nat
  BY <1>3 DEF Reads
<1>6. g[0] = 0 /\ \A i \in 1 .. n : g[i] = g[i - 1] * ByteBase + t[i]
  BY <1>2, <1>4 DEF Reads
<1> DEFINE P == {i \in Nat : i <= n => g[i] = f[2 * i]}
<1>7. 0 \in P
  BY <1>5, <1>6
<1>8. ASSUME NEW i \in P PROVE i + 1 \in P
  <2> SUFFICES ASSUME i + 1 <= n PROVE g[i + 1] = f[2 * (i + 1)]
    OBVIOUS
  <2>1. /\ i \in Nat /\ i + 1 \in 1 .. n /\ (i + 1) - 1 = i /\ i <= n
        /\ 2 * (i + 1) \in 1 .. 2 * n /\ 2 * (i + 1) - 1 \in 1 .. 2 * n
        /\ (2 * (i + 1) - 1) - 1 = 2 * i /\ 2 * i \in 0 .. 2 * n
    OBVIOUS
  <2> DEFINE a == s[2 * (i + 1) - 1]  b == s[2 * (i + 1)]  c == f[2 * i]
  <2>2. g[i + 1] = c * ByteBase + (a * HexBase + b)
    BY <1>2, <1>6, <2>1
  <2>3. f[2 * (i + 1)] = f[2 * (i + 1) - 1] * HexBase + b
    BY <1>5, <2>1
  <2>4. f[2 * (i + 1) - 1] = c * HexBase + a
    BY <1>5, <2>1
  <2>5. a \in Nat /\ b \in Nat /\ c \in Nat
    BY <1>2, <1>5, <2>1
  <2> HIDE DEF a, b, c
  <2>6. c * (HexBase * HexBase) + (a * HexBase + b) = (c * HexBase + a) * HexBase + b
    BY <1>1, <2>5, PairValue2
  <2> QED  BY <1>1, <2>2, <2>3, <2>4, <2>6
<1>9. \A i \in Nat : i \in P
  <2>1. P \in SUBSET Nat
    OBVIOUS
  <2> HIDE DEF P
  <2> QED  BY <1>7, <1>8, <2>1, Induct
<1>10. g[n] = f[2 * n]
  BY <1>9
<1> QED  BY <1>2, <1>3, <1>4, <1>10 DEF t

\* The bytes of a string at the end of a zeroed buffer are the number it means.
LEMMA BufferRead ==
  ASSUME NEW k \in 0 .. BytesOf256, NEW e \in Seq(Nat), Len(e) = 2 * k,
         \A i \in 1 .. 2 * k : e[i] < HexBase
  PROVE  /\ readu256BE(Zeros(BytesOf256 - k) \o Paired(e, k)) \in Uint256
         /\ Value256(readu256BE(Zeros(BytesOf256 - k) \o Paired(e, k))) = NumberOf(e, HexBase)
<1> DEFINE z == Zeros(BytesOf256 - k)  t == Paired(e, k)  buf == z \o t  m == BytesOf256
<1>1. m \in Nat /\ k \in Nat /\ m - k \in Nat /\ k <= m
  BY BytesType
<1>2. HexBase \in Nat /\ ByteBase \in Nat /\ ByteBase >= 4
  BY BytesType
<1>3. z \in Seq(Nat) /\ Len(z) = m - k /\ NumberOf(z, ByteBase) = 0
  BY <1>1, <1>2, ZerosAre
<1>4. \A i \in 1 .. m - k : z[i] = 0
  BY DEF Zeros
<1>5. t \in Seq(Nat) /\ Len(t) = k /\ \A i \in 1 .. k : t[i] < ByteBase
  BY <1>1, PairedIs
<1>6. NumberOf(t, ByteBase) = NumberOf(e, HexBase)
  BY <1>1, PairsMean
<1> HIDE DEF z, t, m
<1>7. /\ buf \in Seq(Nat) /\ Len(buf) = (m - k) + k
      /\ \A i \in 1 .. (m - k) + k : buf[i] = IF i <= m - k THEN z[i] ELSE t[i - (m - k)]
  <2>1. /\ buf \in Seq(Nat) /\ Len(buf) = Len(z) + Len(t)
        /\ \A i \in 1 .. Len(z) + Len(t) : buf[i] = IF i <= Len(z) THEN z[i] ELSE t[i - Len(z)]
    BY <1>3, <1>5, ConcatProperties
  <2> HIDE DEF buf
  <2> QED  BY <1>3, <1>5, <2>1, Zenon
<1> HIDE DEF buf
<1>8. Len(buf) = m
  BY <1>1, <1>7
<1>9. ASSUME NEW i \in 1 .. Len(buf) PROVE buf[i] < ByteBase
  <2>1. i \in 1 .. (m - k) + k
    BY <1>1, <1>8
  <2>2. CASE i <= m - k
    <3>1. i \in 1 .. m - k
      BY <1>1, <2>1, <2>2
    <3>2. buf[i] = z[i]
      BY <1>7, <2>1, <2>2, Zenon
    <3>3. z[i] = 0
      BY <1>4, <3>1
    <3> QED  BY <1>2, <3>2, <3>3
  <2>3. CASE ~(i <= m - k)
    <3>1. i - (m - k) \in 1 .. k
      BY <1>1, <2>1, <2>3
    <3> QED  BY <1>5, <1>7, <2>1, <2>3, <3>1
  <2> QED  BY <2>2, <2>3
<1>10. readu256BE(buf) \in Uint256 /\ Value256(readu256BE(buf)) = NumberOf(buf, ByteBase)
  BY <1>7, <1>8, <1>9, WordsRead DEF m
<1>11. NumberOf(buf, ByteBase) = NumberOf(z, ByteBase) * Power[<<ByteBase, k>>] + NumberOf(t, ByteBase)
  BY <1>2, <1>3, <1>5, NumberConcat DEF buf
<1>12. NumberOf(t, ByteBase) \in Nat /\ Power[<<ByteBase, k>>] \in Nat
  BY <1>1, <1>2, <1>5, NumberNat, PowerStep
<1>13. NumberOf(buf, ByteBase) = NumberOf(t, ByteBase)
  BY <1>3, <1>11, <1>12
<1> QED  BY <1>6, <1>10, <1>13 DEF buf, z, t, m

-----------------------------------------------------------------------------
(* hextobin(), hextobin_2() and fromstring256().                            *)

LEMMA SmallerIs ==
  ASSUME NEW a \in Nat, NEW b \in Nat
  PROVE  /\ Min({a, b}) = (IF a <= b THEN a ELSE b)
         /\ Min({a, b}) \in Nat /\ Min({a, b}) <= a /\ Min({a, b}) <= b
<1> DEFINE c == IF a <= b THEN a ELSE b
<1>1. c \in {a, b} /\ \A y \in {a, b} : c <= y
  OBVIOUS
<1>2. \A x \in {a, b} : (\A y \in {a, b} : x <= y) => x = c
  OBVIOUS
<1>3. Min({a, b}) \in {a, b} /\ \A y \in {a, b} : Min({a, b}) <= y
  BY <1>1 DEF Min
<1>4. Min({a, b}) = c
  BY <1>2, <1>3
<1> HIDE DEF c
<1>5. c \in Nat /\ c <= a /\ c <= b
  BY DEF c
<1> QED  BY <1>4, <1>5 DEF c

LEMMA MinIn ==
  ASSUME NEW n \in Nat, NEW T \in SUBSET (1 .. n), T # {}
  PROVE  Min(T) \in T /\ \A i \in T : Min(T) <= i
<1>1. T \in SUBSET Nat
  OBVIOUS
<1>2. PICK k \in T : \A i \in T : k <= i
  BY <1>1, Least
<1>3. \E x \in T : \A y \in T : x <= y
  BY <1>2
<1> QED  BY <1>3 DEF Min

\* The pairs of characters of a string that hextobin() comes to
PairsOf(s, blen) == Min({Len(s) \div 2, blen})
SeenPairs(s, blen) == Min({PairsOf(s, blen), PosRange \div 2})
BadPairs(s, blen) ==
  {i \in 1 .. SeenPairs(s, blen) : ~(IsDigit(s[2*i - 1]) /\ IsDigit(s[2*i]))}
Filled(s, blen, n) ==
  [i \in 1 .. blen |-> IF i <= n THEN s[2*i - 1] * HexBase + s[2*i] ELSE 0]

LEMMA HexToBinIs ==
  ASSUME NEW str, NEW blen, Len(str) # 0, Len(str) % 2 = 0,
         NEW s, s = SkipPrefix(str)
  PROVE  /\ BadPairs(s, blen) # {} => hextobin(str, blen).ret = InvalidString
         /\ BadPairs(s, blen) = {} =>
              /\ hextobin(str, blen).bytes = Filled(s, blen, SeenPairs(s, blen))
              /\ 2 * PairsOf(s, blen) >= PosRange => hextobin(str, blen).ret = Hangs
              /\ ~(2 * PairsOf(s, blen) >= PosRange) => hextobin(str, blen).ret = Len(s) \div 2
<1> DEFINE pairs == PairsOf(s, blen)  bad == BadPairs(s, blen)  seen == SeenPairs(s, blen)
           bytes == Filled(s, blen, IF bad = {} THEN seen ELSE Min(bad) - 1)
           r == [ret |-> IF bad # {} THEN InvalidString
                         ELSE IF 2 * pairs >= PosRange THEN Hangs ELSE Len(s) \div 2,
                 bytes |-> bytes]
<1>1. hextobin(str, blen) = r
  BY Zenon DEF hextobin, PairsOf, SeenPairs, BadPairs, Filled
<1>2. bad # {} => r.ret = InvalidString
  <2> HIDE DEF bad, bytes
  <2> QED  OBVIOUS
<1>3. bad = {} => r.bytes = Filled(s, blen, seen)
  <2> HIDE DEF bad, pairs
  <2> QED  OBVIOUS
<1>4. bad = {} => /\ 2 * pairs >= PosRange => r.ret = Hangs
                  /\ ~(2 * pairs >= PosRange) => r.ret = Len(s) \div 2
  <2> HIDE DEF bad, bytes, pairs
  <2> QED  OBVIOUS
<1> HIDE DEF r
<1> QED  BY <1>1, <1>2, <1>3, <1>4

LEMMA HexToBinRefuses ==
  ASSUME NEW str, NEW blen, Len(str) = 0 \/ Len(str) % 2 # 0
  PROVE  hextobin(str, blen).ret = InvalidString
<1>1. hextobin(str, blen) = [ret |-> InvalidString, bytes |-> <<>>]
  BY DEF hextobin
<1> QED  BY <1>1

LEMMA DigitString ==
  ASSUME NEW s \in Seq(Int), AllDigits(s)
  PROVE  s \in Seq(Nat) /\ \A i \in 1 .. Len(s) : s[i] \in Nat /\ s[i] < HexBase
<1> DEFINE n == Len(s)
<1>1. n \in Nat /\ s \in [1 .. n -> Int] /\ HexBase \in Nat
  BY BytesType
<1>2. \A i \in 1 .. n : s[i] \in 0 .. HexBase - 1
  BY DEF AllDigits, IsDigit
<1> HIDE DEF n
<1>3. \A i \in 1 .. n : s[i] \in Nat /\ s[i] < HexBase
  BY <1>1, <1>2
<1>4. s \in [1 .. n -> Nat]
  BY <1>1, <1>3
<1>5. s \in Seq(Nat)
  BY <1>1, <1>4
<1> QED  BY <1>3, <1>5 DEF n

LEMMA SkipIs ==
  ASSUME NEW str \in Seq(Int), NEW s, s = SkipPrefix(str)
  PROVE  /\ s \in Seq(Int) /\ Len(s) \in Nat /\ Len(str) \in Nat
         /\ Len(s) % 2 = Len(str) % 2 /\ (Len(s) = 0 <=> Len(str) = 0)
<1>1. Len(str) \in Nat
  OBVIOUS
<1>2. CASE Len(str) > 2 /\ str[1] = 0 /\ str[2] = CharX
  <2>1. s = SubSeq(str, 3, Len(str))
    BY <1>2 DEF SkipPrefix
  <2>2. \A i \in 3 .. Len(str) : str[i] \in Int
    OBVIOUS
  <2> DEFINE n == Len(str)
  <2>3. n \in Nat /\ n > 2 /\ 3 \in Int /\ n \in Int
    BY <1>1, <1>2
  <2>4. s \in Seq(Int) /\ Len(s) = IF 3 <= n THEN n - 3 + 1 ELSE 0
    BY <2>1, <2>2, <2>3, SubSeqProperties
  <2> HIDE DEF n
  <2>5. (IF 3 <= n THEN n - 3 + 1 ELSE 0) = n - 2 /\ n - 2 \in Nat /\ (n - 2) % 2 = n % 2 /\ n - 2 # 0 /\ n # 0
    BY <2>3
  <2>6. Len(s) = n - 2
    BY <2>4, <2>5, Zenon
  <2> QED  BY <1>1, <2>4, <2>5, <2>6 DEF n
<1>3. CASE ~(Len(str) > 2 /\ str[1] = 0 /\ str[2] = CharX)
  <2>1. s = str
    BY <1>3, Zenon DEF SkipPrefix
  <2> QED  BY <1>1, <2>1
<1> QED  BY <1>2, <1>3

LEMMA PosAbove == 2 * BytesOf256 < PosRange /\ PosRange \in Nat /\ PosRange % 2 = 0
<1>1. DigitBits \in 1 .. 4 /\ W \in Nat /\ PosRange \in Nat /\ PosRange * DigitBits > 4 * W /\ PosRange % 2 = 0
  BY TextAssumption, WordAssumption
<1>2. BytesOf256 = (4 * W) \div (2 * DigitBits)
  BY DEF BytesOf256
<1>3. CASE DigitBits = 1
  BY <1>1, <1>2, <1>3
<1>4. CASE DigitBits = 2
  BY <1>1, <1>2, <1>4
<1>5. CASE DigitBits = 3
  BY <1>1, <1>2, <1>5
<1>6. CASE DigitBits = 4
  BY <1>1, <1>2, <1>6
<1>7. DigitBits = 1 \/ DigitBits = 2 \/ DigitBits = 3 \/ DigitBits = 4
  BY <1>1
<1> QED  BY <1>1, <1>3, <1>4, <1>5, <1>6, <1>7

LEMMA HalfIndex ==
  ASSUME NEW k \in Nat, NEW i \in 1 .. 2 * k
  PROVE  \E j \in 1 .. k : i = 2*j - 1 \/ i = 2*j
<1> DEFINE j == (i + 1) \div 2
<1>1. j \in 1 .. k /\ (i = 2*j - 1 \/ i = 2*j)
  OBVIOUS
<1> HIDE DEF j
<1> QED  BY <1>1

\* The pairs of the first 2n characters are digits exactly when those are.
LEMMA PairsAreDigits ==
  ASSUME NEW k \in Nat, NEW s
  PROVE  (\A j \in 1 .. k : IsDigit(s[2*j - 1]) /\ IsDigit(s[2*j])) <=> \A i \in 1 .. 2 * k : IsDigit(s[i])
<1>1. ASSUME \A j \in 1 .. k : IsDigit(s[2*j - 1]) /\ IsDigit(s[2*j]), NEW i \in 1 .. 2 * k
      PROVE  IsDigit(s[i])
  <2>1. PICK j \in 1 .. k : i = 2*j - 1 \/ i = 2*j
    BY HalfIndex
  <2> QED  BY <1>1, <2>1
<1>2. ASSUME \A i \in 1 .. 2 * k : IsDigit(s[i]), NEW j \in 1 .. k
      PROVE  IsDigit(s[2*j - 1]) /\ IsDigit(s[2*j])
  <2>1. 2*j - 1 \in 1 .. 2 * k /\ 2*j \in 1 .. 2 * k
    OBVIOUS
  <2> QED  BY <1>2, <2>1
<1> QED  BY <1>1, <1>2

\* A string that fits
LEMMA EvenRead ==
  ASSUME NEW s \in Seq(Int), NEW k \in Nat \ {0}, Len(s) = 2 * k, 2 * k < PosRange, SkipPrefix(s) = s
  PROVE  /\ ~AllDigits(s) => hextobin(s, k).ret = InvalidString
         /\ AllDigits(s) => hextobin(s, k).ret = k /\ hextobin(s, k).bytes = Paired(s, k)
<1>1. Len(s) # 0 /\ Len(s) % 2 = 0 /\ Len(s) \div 2 = k /\ k \in Nat
  OBVIOUS
<1>2. PairsOf(s, k) = k
  <2>1. Min({k, k}) = k
    BY <1>1, SmallerIs
  <2> QED  BY <1>1, <2>1 DEF PairsOf
<1>3. SeenPairs(s, k) = k
  <2> DEFINE h == PosRange \div 2
  <2>1. h \in Nat /\ k <= h
    BY <1>1, PosAbove
  <2> HIDE DEF h
  <2>2. Min({k, h}) = k
    BY <1>1, <2>1, SmallerIs
  <2> QED  BY <1>2, <2>2 DEF SeenPairs, h
<1>4. BadPairs(s, k) = {} <=> AllDigits(s)
  <2>1. BadPairs(s, k) = {} <=> \A j \in 1 .. k : IsDigit(s[2*j - 1]) /\ IsDigit(s[2*j])
    BY <1>3, Zenon DEF BadPairs
  <2>2. AllDigits(s) <=> \A i \in 1 .. 2 * k : IsDigit(s[i])
    BY Zenon DEF AllDigits
  <2> QED  BY <1>1, <2>1, <2>2, PairsAreDigits
<1>5. Filled(s, k, k) = Paired(s, k)
  <2>1. \A i \in 1 .. k : i <= k
    OBVIOUS
  <2> QED  BY <2>1, Zenon DEF Filled, Paired
<1>6. ~(2 * k >= PosRange)
  BY PosAbove
<1>7. /\ BadPairs(s, k) # {} => hextobin(s, k).ret = InvalidString
      /\ BadPairs(s, k) = {} =>
           /\ hextobin(s, k).bytes = Filled(s, k, SeenPairs(s, k))
           /\ ~(2 * PairsOf(s, k) >= PosRange) => hextobin(s, k).ret = Len(s) \div 2
  BY <1>1, HexToBinIs, Zenon
<1> QED  BY <1>1, <1>2, <1>3, <1>4, <1>5, <1>6, <1>7, Zenon

\* A digit before an even number of them
LEMMA OddString ==
  ASSUME NEW s \in Seq(Int), NEW k \in Nat \ {0}, Len(s) = 2 * k - 1, AllDigits(s)
  PROVE  /\ <<0>> \o s \in Seq(Nat) /\ Len(<<0>> \o s) = 2 * k
         /\ (<<0>> \o s)[1] = 0
         /\ \A i \in 1 .. 2 * k - 1 : (<<0>> \o s)[i + 1] = s[i]
         /\ \A i \in 1 .. 2 * k : (<<0>> \o s)[i] < HexBase
         /\ NumberOf(<<0>> \o s, HexBase) = NumberOf(s, HexBase)
<1> DEFINE z == <<0>>  e == z \o s  n == 2 * k - 1
<1>1. n \in Nat /\ n + 1 = 2 * k /\ HexBase \in Nat /\ HexBase >= 2 /\ n >= 1
  BY BytesType
<1>2. z \in Seq(Nat) /\ Len(z) = 1 /\ z[1] = 0
  OBVIOUS
<1>3. s \in Seq(Nat) /\ Len(s) = n /\ \A i \in 1 .. n : s[i] \in Nat /\ s[i] < HexBase
  BY DigitString
<1> HIDE DEF z, n
<1>4. e \in Seq(Nat) /\ Len(e) = 1 + n /\ \A i \in 1 .. 1 + n : e[i] = IF i <= 1 THEN z[i] ELSE s[i - 1]
  <2>1. /\ e \in Seq(Nat) /\ Len(e) = Len(z) + Len(s)
        /\ \A i \in 1 .. Len(z) + Len(s) : e[i] = IF i <= Len(z) THEN z[i] ELSE s[i - Len(z)]
    BY <1>2, <1>3, ConcatProperties
  <2> HIDE DEF e
  <2> QED  BY <1>2, <1>3, <2>1, Zenon
<1>5. NumberOf(e, HexBase) = NumberOf(z, HexBase) * Power[<<HexBase, Len(s)>>] + NumberOf(s, HexBase)
  BY <1>1, <1>2, <1>3, NumberConcat
<1>6. NumberOf(z, HexBase) = 0
  <2>1. Zeros(1) \in Seq(Nat) /\ Len(Zeros(1)) = 1 /\ NumberOf(Zeros(1), HexBase) = 0
    BY <1>1, ZerosAre, 1 \in Nat
  <2>2. Zeros(1)[1] = 0
    BY DEF Zeros
  <2>3. \A i \in 1 .. 1 : Zeros(1)[i] = z[i]
    BY <1>2, <2>2
  <2>4. Zeros(1) = z
    BY <1>2, <2>1, <2>3, SeqEqual
  <2> QED  BY <2>1, <2>4
<1> HIDE DEF e
<1>7. NumberOf(e, HexBase) = NumberOf(s, HexBase)
  <2>1. NumberOf(s, HexBase) \in Nat /\ Power[<<HexBase, n>>] \in Nat
    BY <1>1, <1>3, NumberNat, PowerStep
  <2> QED  BY <1>3, <1>5, <1>6, <2>1
<1>8. e[1] = 0
  BY <1>1, <1>2, <1>4
<1>9. ASSUME NEW i \in 1 .. n PROVE e[i + 1] = s[i]
  <2>1. i + 1 \in 1 .. 1 + n /\ ~(i + 1 <= 1) /\ (i + 1) - 1 = i
    BY <1>1
  <2> QED  BY <1>4, <2>1
<1>10. ASSUME NEW i \in 1 .. 2 * k PROVE e[i] < HexBase
  <2>1. CASE i = 1
    BY <1>1, <1>8, <2>1
  <2>2. CASE i # 1
    <3>1. i - 1 \in 1 .. n /\ (i - 1) + 1 = i
      BY <1>1, <2>2
    <3>2. e[i] = s[i - 1]
      BY <1>9, <3>1
    <3> QED  BY <1>3, <3>1, <3>2
  <2> QED  BY <2>1, <2>2
<1>11. Len(e) = 2 * k
  BY <1>1, <1>4
<1> QED  BY <1>4, <1>7, <1>8, <1>9, <1>10, <1>11 DEF e, z, n

LEMMA TailIs ==
  ASSUME NEW s \in Seq(Int), NEW k \in Nat \ {0}, Len(s) = 2 * k + 1, NEW t, t = Tail(s)
  PROVE  /\ t \in Seq(Int) /\ Len(t) = 2 * k
         /\ \A i \in 1 .. 2 * k : t[i] = s[i + 1]
         /\ AllDigits(s) <=> IsDigit(s[1]) /\ AllDigits(t)
<1>1. s # <<>>
  OBVIOUS
<1>2. t \in Seq(Int) /\ Len(t) = Len(s) - 1 /\ \A i \in 1 .. Len(t) : t[i] = s[i + 1]
  BY <1>1, HeadTailProperties
<1> DEFINE n == 2 * k
<1>3. n \in Nat /\ n >= 2 /\ Len(s) = n + 1
  OBVIOUS
<1> HIDE DEF n
<1>4. Len(t) = n
  BY <1>2, <1>3
<1>5. ASSUME AllDigits(s) PROVE IsDigit(s[1]) /\ AllDigits(t)
  <2>1. \A i \in 1 .. n : i + 1 \in 1 .. n + 1
    BY <1>3
  <2>2. 1 \in 1 .. n + 1
    BY <1>3
  <2> QED  BY <1>2, <1>3, <1>4, <1>5, <2>1, <2>2, Zenon DEF AllDigits
<1>6. ASSUME IsDigit(s[1]), AllDigits(t) PROVE AllDigits(s)
  <2> SUFFICES ASSUME NEW i \in 1 .. n + 1 PROVE IsDigit(s[i])
    BY <1>3 DEF AllDigits
  <2>1. CASE i = 1
    BY <1>6, <2>1
  <2>2. CASE i # 1
    <3>1. i - 1 \in 1 .. n /\ (i - 1) + 1 = i
      BY <1>3, <2>2
    <3>2. t[i - 1] = s[i] /\ IsDigit(t[i - 1])
      BY <1>2, <1>4, <1>6, <3>1 DEF AllDigits
    <3> QED  BY <3>2
  <2> QED  BY <2>1, <2>2
<1> QED  BY <1>2, <1>4, <1>5, <1>6 DEF n

LEMMA OddBytes ==
  ASSUME NEW s \in Seq(Int), NEW k \in Nat \ {0}, Len(s) = 2 * k + 1, AllDigits(s),
         NEW t, t = Tail(s)
  PROVE  <<s[1]>> \o Paired(t, k) = Paired(<<0>> \o s, k + 1)
<1> DEFINE e == <<0>> \o s  a == <<s[1]>>  p == Paired(t, k)  q == Paired(e, k + 1)
<1>1. k + 1 \in Nat \ {0} /\ Len(s) = 2 * (k + 1) - 1 /\ k \in Nat
  OBVIOUS
<1>2. /\ e \in Seq(Nat) /\ Len(e) = 2 * (k + 1) /\ e[1] = 0
      /\ \A i \in 1 .. 2 * (k + 1) - 1 : e[i + 1] = s[i]
      /\ \A i \in 1 .. 2 * (k + 1) : e[i] < HexBase
  BY <1>1, OddString
<1>3. /\ t \in Seq(Int) /\ Len(t) = 2 * k
      /\ \A i \in 1 .. 2 * k : t[i] = s[i + 1]
      /\ AllDigits(t)
  BY TailIs
<1>4. t \in Seq(Nat) /\ \A i \in 1 .. 2 * k : t[i] \in Nat /\ t[i] < HexBase
  <2>1. t \in Seq(Nat) /\ \A i \in 1 .. Len(t) : t[i] \in Nat /\ t[i] < HexBase
    BY <1>3, DigitString
  <2> QED  BY <1>3, <2>1, Zenon
<1>5. s[1] \in Nat
  <2>1. 1 \in 1 .. Len(s)
    OBVIOUS
  <2> QED  BY <2>1, DigitString
<1>6. a \in Seq(Nat) /\ Len(a) = 1 /\ a[1] = s[1]
  BY <1>5
<1>7. /\ p \in Seq(Nat) /\ Len(p) = k
      /\ \A i \in 1 .. k : /\ p[i] = t[2*i - 1] * HexBase + t[2*i]
                           /\ 2*i - 1 \in 1 .. 2 * k /\ 2*i \in 1 .. 2 * k
  BY <1>3, <1>4, PairedIs
<1>8. /\ q \in Seq(Nat) /\ Len(q) = k + 1
      /\ \A i \in 1 .. k + 1 : q[i] = e[2*i - 1] * HexBase + e[2*i]
  BY <1>1, <1>2, PairedIs
<1> DEFINE r == a \o p
<1> HIDE DEF e, a, p, q
<1>9. r \in Seq(Nat) /\ Len(r) = 1 + k /\ \A i \in 1 .. 1 + k : r[i] = IF i <= 1 THEN a[i] ELSE p[i - 1]
  <2>1. /\ r \in Seq(Nat) /\ Len(r) = Len(a) + Len(p)
        /\ \A i \in 1 .. Len(a) + Len(p) : r[i] = IF i <= Len(a) THEN a[i] ELSE p[i - Len(a)]
    BY <1>6, <1>7, ConcatProperties
  <2> HIDE DEF r
  <2> QED  BY <1>6, <1>7, <2>1, Zenon
<1> HIDE DEF r
<1>10. ASSUME NEW i \in 1 .. 1 + k PROVE r[i] = q[i]
  <2>1. i \in 1 .. k + 1
    OBVIOUS
  <2>2. CASE i = 1
    <3>1. r[i] = s[1]
      BY <1>6, <1>9, <2>2
    <3>2. q[1] = e[2*1 - 1] * HexBase + e[2*1]
      BY <1>8, <2>1, <2>2
    <3>3. 2*1 - 1 = 1 /\ 2*1 = 1 + 1 /\ 1 \in 1 .. 2 * (k + 1) - 1 /\ HexBase \in Nat
      BY BytesType
    <3>4. e[1 + 1] = s[1]
      BY <1>2, <3>3
    <3> QED  BY <1>2, <1>5, <2>2, <3>1, <3>2, <3>3, <3>4
  <2>3. CASE i # 1
    <3>1. /\ i - 1 \in 1 .. k /\ ~(i <= 1)
          /\ 2*i - 1 = 2*(i - 1) + 1 /\ 2*i = (2*(i - 1) + 1) + 1 /\ 2*(i - 1) = (2*(i - 1) - 1) + 1
          /\ 2*(i - 1) \in 1 .. 2 * (k + 1) - 1 /\ 2*(i - 1) + 1 \in 1 .. 2 * (k + 1) - 1
      BY <2>3
    <3> DEFINE j == i - 1
    <3>2. r[i] = t[2*j - 1] * HexBase + t[2*j] /\ 2*j - 1 \in 1 .. 2 * k /\ 2*j \in 1 .. 2 * k
      BY <1>7, <1>9, <3>1
    <3>3. t[2*j - 1] = s[2*j] /\ t[2*j] = s[2*j + 1]
      BY <1>3, <3>1, <3>2
    <3>4. q[i] = e[2*i - 1] * HexBase + e[2*i]
      BY <1>8, <2>1
    <3>5. e[2*i - 1] = s[2*j] /\ e[2*i] = s[2*j + 1]
      BY <1>2, <3>1
    <3> QED  BY <3>2, <3>3, <3>4, <3>5, Zenon
  <2> QED  BY <2>2, <2>3
<1>11. Len(r) = Len(q)
  BY <1>8, <1>9
<1>12. r = q
  BY <1>8, <1>9, <1>10, <1>11, SeqEqual
<1> QED  BY <1>12 DEF r, a, p, q, e

\* A string of at most twice the characters of the buffer's bytes
Fits2(s) ==
  /\ s \in Seq(Int) /\ SkipPrefix(s) = s
  /\ Len(s) % 2 = 1 => SkipPrefix(Tail(s)) = Tail(s)
FilledBy(res, s, k) ==
  IF AllDigits(s)
    THEN /\ res.ret \in Nat
         /\ \E e \in Seq(Nat) : /\ Len(e) = 2 * k
                                /\ \A i \in 1 .. 2 * k : e[i] < HexBase
                                /\ NumberOf(e, HexBase) = NumberOf(s, HexBase)
                                /\ res.bytes = Paired(e, k)
    ELSE res.ret < 0

LEMMA EvenFilled ==
  ASSUME NEW s, Fits2(s), NEW k \in Nat \ {0}, Len(s) = 2 * k, 2 * k < PosRange
  PROVE  FilledBy(hextobin_2(s, k), s, k)
<1>1. Len(s) # 0 /\ Len(s) % 2 = 0 /\ s \in Seq(Int) /\ SkipPrefix(s) = s
  BY DEF Fits2
<1>2. hextobin_2(s, k) = hextobin(s, k)
  BY <1>1, Zenon DEF hextobin_2
<1>3. /\ ~AllDigits(s) => hextobin(s, k).ret = InvalidString
      /\ AllDigits(s) => hextobin(s, k).ret = k /\ hextobin(s, k).bytes = Paired(s, k)
  BY <1>1, EvenRead
<1>4. InvalidString < 0 /\ k \in Nat
  BY DEF InvalidString
<1>5. CASE AllDigits(s)
  <2>1. s \in Seq(Nat) /\ \A i \in 1 .. Len(s) : s[i] < HexBase
    BY <1>1, <1>5, DigitString
  <2>2. \A i \in 1 .. 2 * k : s[i] < HexBase
    BY <2>1, Zenon
  <2> QED  BY <1>2, <1>3, <1>4, <1>5, <2>1, <2>2, Zenon DEF FilledBy
<1>6. CASE ~AllDigits(s)
  BY <1>2, <1>3, <1>4, <1>6, Zenon DEF FilledBy
<1> QED  BY <1>5, <1>6

LEMMA OneFilled ==
  ASSUME NEW s, Fits2(s), Len(s) = 1
  PROVE  FilledBy(hextobin_2(s, 1), s, 1)
<1> DEFINE e == <<0>> \o s  a == <<s[1]>>
<1>1. s \in Seq(Int) /\ SkipPrefix(s) = s /\ 1 \in 1 .. Len(s) /\ s[1] \in Int
  BY DEF Fits2
<1>2. Len(s) # 0 /\ Len(s) % 2 # 0
  OBVIOUS
<1>3. AllDigits(s) <=> IsDigit(s[1])
  <2>1. \A i \in 1 .. Len(s) : i = 1
    OBVIOUS
  <2> QED  BY <1>1, <2>1, Zenon DEF AllDigits
<1>4. CASE AllDigits(s)
  <2>1. hextobin_2(s, 1) = [ret |-> 0, bytes |-> a \o Zeros(1 - 1)]
    BY <1>1, <1>2, <1>3, <1>4, Zenon DEF hextobin_2
  <2>2. s[1] \in Nat
    BY <1>1, <1>4, DigitString
  <2>3. a \in Seq(Nat) /\ Len(a) = 1 /\ a[1] = s[1]
    BY <2>2
  <2>4. Zeros(1 - 1) = <<>>
    <3>1. Zeros(0) \in Seq(Nat) /\ Len(Zeros(0)) = 0
      BY ZerosAre, 0 \in Nat, 1 \in Nat
    <3>2. 1 - 1 = 0
      OBVIOUS
    <3> QED  BY <3>1, <3>2, EmptySeq
  <2>5. a \o <<>> = a
    BY <2>3, ConcatEmptySeq
  <2>6. 1 \in Nat \ {0} /\ Len(s) = 2 * 1 - 1
    OBVIOUS
  <2>7. /\ e \in Seq(Nat) /\ Len(e) = 2 * 1 /\ e[1] = 0
        /\ \A i \in 1 .. 2 * 1 - 1 : e[i + 1] = s[i]
        /\ \A i \in 1 .. 2 * 1 : e[i] < HexBase
        /\ NumberOf(e, HexBase) = NumberOf(s, HexBase)
    BY <1>1, <1>4, <2>6, OddString
  <2>8. a = Paired(e, 1)
    <3> DEFINE q == Paired(e, 1)
    <3>1. q \in Seq(Nat) /\ Len(q) = 1 /\ \A i \in 1 .. 1 : q[i] = e[2*i - 1] * HexBase + e[2*i]
      BY <2>7, 1 \in Nat, PairedIs
    <3> HIDE DEF q, e, a
    <3>2. q[1] = e[2*1 - 1] * HexBase + e[2*1]
      BY <3>1
    <3>3. 2*1 - 1 = 1 /\ 2*1 = 1 + 1 /\ 1 \in 1 .. 2 * 1 - 1 /\ HexBase \in Nat
      BY BytesType
    <3>4. e[1 + 1] = s[1]
      BY <2>7, <3>3
    <3>5. q[1] = a[1]
      BY <2>2, <2>3, <2>7, <3>2, <3>3, <3>4
    <3>6. \A i \in 1 .. Len(a) : a[i] = q[i]
      BY <2>3, <3>5
    <3>7. Len(a) = Len(q)
      BY <2>3, <3>1
    <3>8. a = q
      BY <2>3, <3>1, <3>6, <3>7, SeqEqual
    <3> QED  BY <3>8 DEF q
  <2>9. hextobin_2(s, 1) = [ret |-> 0, bytes |-> a]
    BY <2>1, <2>4, <2>5
  <2> DEFINE res == hextobin_2(s, 1)
  <2>10. res.ret = 0 /\ res.bytes = a
    BY <2>9
  <2>11. res.ret \in Nat
    BY <2>10
  <2> HIDE DEF res, a, e
  <2>12. FilledBy(res, s, 1)
    BY <1>4, <2>7, <2>8, <2>10, <2>11, Zenon DEF FilledBy
  <2> QED  BY <2>12 DEF res
<1>5. CASE ~AllDigits(s)
  <2>1. hextobin_2(s, 1) = [ret |-> InvalidString, bytes |-> Zeros(1)]
    BY <1>1, <1>2, <1>3, <1>5, Zenon DEF hextobin_2
  <2>2. hextobin_2(s, 1).ret < 0
    BY <2>1 DEF InvalidString
  <2> QED  BY <1>5, <2>2 DEF FilledBy
<1> QED  BY <1>4, <1>5

LEMMA OddFilled ==
  ASSUME NEW s, Fits2(s), NEW k \in Nat \ {0}, Len(s) = 2 * k + 1, 2 * k < PosRange
  PROVE  FilledBy(hextobin_2(s, k + 1), s, k + 1)
<1> DEFINE e == <<0>> \o s  t == Tail(s)  rest == hextobin(t, k)  res == hextobin_2(s, k + 1)
<1>1. /\ s \in Seq(Int) /\ SkipPrefix(s) = s /\ (k + 1) - 1 = k /\ SkipPrefix(t) = t
      /\ Len(s) # 0 /\ Len(s) % 2 # 0 /\ Len(s) # 1
  BY DEF Fits2
<1>2. /\ t \in Seq(Int) /\ Len(t) = 2 * k
      /\ AllDigits(s) <=> IsDigit(s[1]) /\ AllDigits(t)
  BY <1>1, TailIs
<1>3. /\ ~AllDigits(t) => rest.ret = InvalidString
      /\ AllDigits(t) => rest.ret = k /\ rest.bytes = Paired(t, k)
  BY <1>1, <1>2, EvenRead
<1>4. CASE ~IsDigit(s[1])
  <2>1. res = [ret |-> InvalidString, bytes |-> Zeros(k + 1)]
    BY <1>1, <1>4, Zenon DEF hextobin_2
  <2>2. res.ret < 0
    BY <2>1 DEF InvalidString
  <2> QED  BY <1>2, <1>4, <2>2 DEF FilledBy
<1>5. CASE IsDigit(s[1])
  <2>1. res = [ret |-> rest.ret, bytes |-> <<s[1]>> \o rest.bytes]
    BY <1>1, <1>5, Zenon DEF hextobin_2
  <2> HIDE DEF rest, res
  <2>2. res.ret = rest.ret /\ res.bytes = <<s[1]>> \o rest.bytes
    BY <2>1
  <2>3. CASE ~AllDigits(t)
    <3>1. res.ret < 0
      BY <1>3, <2>2, <2>3 DEF InvalidString
    <3>2. FilledBy(res, s, k + 1)
      BY <1>2, <2>3, <3>1, Zenon DEF FilledBy
    <3> QED  BY <3>2 DEF res
  <2>4. CASE AllDigits(t)
    <3>1. AllDigits(s) /\ res.ret = k /\ res.ret \in Nat
      BY <1>2, <1>3, <1>5, <2>2, <2>4
    <3>2. k + 1 \in Nat \ {0} /\ Len(s) = 2 * (k + 1) - 1
      OBVIOUS
    <3>3. /\ e \in Seq(Nat) /\ Len(e) = 2 * (k + 1)
          /\ \A i \in 1 .. 2 * (k + 1) : e[i] < HexBase
          /\ NumberOf(e, HexBase) = NumberOf(s, HexBase)
      BY <1>1, <3>1, <3>2, OddString
    <3>4. <<s[1]>> \o Paired(t, k) = Paired(e, k + 1)
      BY <1>1, <3>1, OddBytes
    <3>5. res.bytes = Paired(e, k + 1)
      BY <1>3, <2>2, <2>4, <3>4, Zenon
    <3> HIDE DEF e
    <3>6. FilledBy(res, s, k + 1)
      BY <3>1, <3>3, <3>5, Zenon DEF FilledBy
    <3> QED  BY <3>6 DEF res
  <2> QED  BY <2>3, <2>4
<1> QED  BY <1>4, <1>5

LEMMA ReadNumber ==
  ASSUME NEW str \in Seq(Int), NEW s, s = SkipPrefix(str), ~InnerPrefix(s),
         NEW good, good = (Len(s) \in 1 .. 2 * BytesOf256 /\ AllDigits(s))
  PROVE  /\ fromstring256(str).ret = 0 <=> good
         /\ good => /\ fromstring256(str) = [ret |-> 0, out |-> fromstring256(str).out]
                    /\ fromstring256(str).out \in Uint256
                    /\ Value256(fromstring256(str).out) = NumberOf(s, HexBase)
<1> DEFINE n == Len(s)  m == BytesOf256
           size == (n + 1) \div 2
           buf == Zeros(m - size) \o hextobin_2(s, size).bytes
           res == fromstring256(str)
<1>1. s \in Seq(Int) /\ n \in Nat /\ m \in Nat /\ 2 * m < PosRange /\ PosRange \in Nat
  BY SkipIs, BytesType, PosAbove
<1>2. res = IF n \notin 1 .. 2 * m \/ hextobin_2(s, size).ret < 0
              THEN [ret |-> -1, out |-> Clear256]
              ELSE [ret |-> 0, out |-> readu256BE(buf)]
  BY Zenon DEF fromstring256
<1>3. good <=> n \in 1 .. 2 * m /\ AllDigits(s)
  OBVIOUS
<1>4. CASE n \notin 1 .. 2 * m
  <2>1. res = [ret |-> -1, out |-> Clear256]
    BY <1>2, <1>4, Zenon
  <2>2. res.ret = -1
    BY <2>1
  <2>3. ~(res.ret = 0)
    BY <2>2
  <2> HIDE DEF res, n
  <2> QED  BY <1>3, <1>4, <2>3, Zenon DEF res, n
<1>5. CASE n \in 1 .. 2 * m
  <2>1. Fits2(s)
    BY <1>1, Zenon DEF InnerPrefix, Fits2
  <2>2. size \in 1 .. m /\ FilledBy(hextobin_2(s, size), s, size)
    <3>1. CASE n % 2 = 0
      <4> DEFINE k == n \div 2
      <4>1. k \in Nat \ {0} /\ n = 2 * k /\ 2 * k < PosRange /\ size = k /\ k \in 1 .. m
        <5> HIDE DEF n, m
        <5> QED  BY <1>1, <1>5, <3>1
      <4> HIDE DEF k, size
      <4>2. FilledBy(hextobin_2(s, k), s, k)
        BY <2>1, <4>1, EvenFilled
      <4> QED  BY <4>1, <4>2
    <3>2. CASE n = 1
      <4>1. size = 1 /\ 1 \in 1 .. m
        BY <1>1, <1>5, <3>2
      <4>2. FilledBy(hextobin_2(s, 1), s, 1)
        BY <2>1, <3>2, OneFilled
      <4> HIDE DEF size
      <4> QED  BY <4>1, <4>2
    <3>3. CASE n % 2 = 1 /\ n # 1
      <4> DEFINE k == n \div 2
      <4>1. k \in Nat \ {0} /\ n = 2 * k + 1 /\ 2 * k < PosRange /\ size = k + 1 /\ k + 1 \in 1 .. m
        <5> HIDE DEF n, m
        <5> QED  BY <1>1, <1>5, <3>3
      <4> HIDE DEF k, size
      <4>2. FilledBy(hextobin_2(s, k + 1), s, k + 1)
        BY <2>1, <4>1, OddFilled
      <4> QED  BY <4>1, <4>2
    <3>4. n % 2 = 0 \/ n % 2 = 1
      BY <1>1
    <3> QED  BY <3>1, <3>2, <3>3, <3>4
  <2> DEFINE r == hextobin_2(s, size)
  <2>3. CASE ~AllDigits(s)
    <3>1. r.ret < 0
      BY <2>2, <2>3 DEF FilledBy
    <3>2. res = [ret |-> -1, out |-> Clear256]
      BY <1>2, <3>1, Zenon
    <3>3. ~(res.ret = 0)
      BY <3>2
    <3> HIDE DEF res, n
    <3> QED  BY <1>3, <2>3, <3>3, Zenon DEF res, n
  <2>4. CASE AllDigits(s)
    <3>1. r.ret \in Nat
      BY <2>2, <2>4 DEF FilledBy
    <3>2. PICK e \in Seq(Nat) :
            /\ Len(e) = 2 * size /\ \A i \in 1 .. 2 * size : e[i] < HexBase
            /\ NumberOf(e, HexBase) = NumberOf(s, HexBase)
            /\ r.bytes = Paired(e, size)
      BY <2>2, <2>4 DEF FilledBy
    <3>3. ~(r.ret < 0)
      <4> HIDE DEF r
      <4> QED  BY <3>1
    <3>4. res = [ret |-> 0, out |-> readu256BE(buf)]
      BY <1>2, <1>5, <3>3, Zenon
    <3>5. res.ret = 0 /\ res.out = readu256BE(buf)
      BY <3>4
    <3>6. buf = Zeros(m - size) \o Paired(e, size)
      BY <3>2, Zenon
    <3> HIDE DEF res, buf, size, r
    <3>7. size \in 0 .. m
      BY <1>1, <2>2
    <3>8. readu256BE(buf) \in Uint256 /\ Value256(readu256BE(buf)) = NumberOf(e, HexBase)
      BY <3>2, <3>6, <3>7, BufferRead
    <3> HIDE DEF n
    <3> QED  BY <1>3, <1>5, <2>4, <3>2, <3>4, <3>5, <3>8, Zenon DEF res, n
  <2> QED  BY <2>3, <2>4
<1> QED  BY <1>4, <1>5

\* A string becomes the number its digits mean exactly when it is one that fits.
THEOREM NumbersRead ==
  ASSUME NEW str \in Seq(Int)
  PROVE  NumberRead(str)
<1> DEFINE s == SkipPrefix(str)
           good == Len(s) \in 1 .. 2 * BytesOf256 /\ AllDigits(s)
           res == fromstring256(str)
<1>1. ~InnerPrefix(s) => /\ res.ret = 0 <=> good
                         /\ good => Value256(res.out) = NumberOf(s, HexBase)
  <2> HIDE DEF s, res
  <2>1. SUFFICES ASSUME ~InnerPrefix(s)
                 PROVE  /\ res.ret = 0 <=> good
                        /\ good => Value256(res.out) = NumberOf(s, HexBase)
    OBVIOUS
  <2> QED  BY <2>1, ReadNumber, Zenon DEF s, res
<1> QED  BY <1>1, Zenon DEF NumberRead

LEMMA Joined2 ==
  ASSUME NEW a \in Seq(Nat), NEW b \in Seq(Nat)
  PROVE  a \o b \in Seq(Nat) /\ Len(a \o b) = Len(a) + Len(b) /\ Len(a) \in Nat /\ Len(b) \in Nat
BY ConcatProperties

\* Sequences in a row: what grows to the sequences put together
Grows(f, s) ==
  /\ f \in [1 .. Len(s) -> Seq(Nat)]
  /\ \A i \in 1 .. Len(s) : f[i] = IF i = 1 THEN s[i] ELSE f[i - 1] \o s[i]

LEMMA FlattenIs ==
  ASSUME NEW s \in Seq(Seq(Nat)), s # <<>>
  PROVE  \E f : Grows(f, s) /\ FlattenSeq(s) = f[Len(s)]
<1> DEFINE N == Seq(Nat)
           D == 1 .. Len(s)
           m == [i \in D |-> i]
           Body(g, i) == IF i = 1 THEN s[i] ELSE g[i - 1] \o s[i]
           F == [q \in D \X [D -> N] |-> Body(q[2], q[1])]
           flatten[i \in D] == IF i = 1 THEN s[i] ELSE flatten[i - 1] \o s[i]
<1>0. Len(s) \in Nat \ {0} /\ \A i \in D : s[i] \in N
  <2>1. \A x \in Seq(N) : x # <<>> => Len(x) \in Nat \ {0} /\ \A i \in 1 .. Len(x) : x[i] \in N
    OBVIOUS
  <2> QED  BY <2>1
<1>1. \A i \in D : i # 1 => i - 1 \in D /\ i - 1 < i
  BY <1>0
<1>2. F \in [D \X [D -> N] -> N]
  <2> SUFFICES ASSUME NEW i \in D, NEW g \in [D -> N] PROVE Body(g, i) \in N
    OBVIOUS
  <2>1. CASE i = 1
    BY <1>0, <2>1
  <2>2. CASE i # 1
    <3> DEFINE a == g[i - 1]  b == s[i]
    <3>1. a \in Seq(Nat) /\ b \in Seq(Nat)
      BY <1>0, <1>1, <2>2
    <3>2. Body(g, i) = a \o b
      BY <2>2
    <3> HIDE DEF a, b, Body
    <3>3. a \o b \in Seq(Nat)
      BY <3>1, ConcatProperties
    <3> QED  BY <3>2, <3>3
  <2> QED  BY <2>1, <2>2
<1>3. m \in [D -> Nat] /\ N # {}
  <2>1. <<>> \in N
    OBVIOUS
  <2> QED  BY <1>0, <2>1
<1>4. ASSUME NEW x \in D, NEW g \in [D -> N], NEW h \in [D -> N],
             \A y \in D : m[y] < m[x] => g[y] = h[y]
      PROVE  F[<<x, g>>] = F[<<x, h>>]
  <2>1. x # 1 => x - 1 \in D /\ m[x - 1] < m[x]
    BY <1>1
  <2>2. x # 1 => g[x - 1] = h[x - 1]
    BY <1>4, <2>1
  <2> QED  BY <2>2
<1>5. Descends(D, N, m, F)
  <2>1. \A x \in D, g, h \in [D -> N] :
          (\A y \in D : m[y] < m[x] => g[y] = h[y]) => F[<<x, g>>] = F[<<x, h>>]
    BY <1>4
  <2> HIDE DEF N, D, m, F
  <2> QED  BY <1>2, <1>3, <2>1 DEF Descends
<1>6. PICK f : Solves(f, D, N, F)
  <2> HIDE DEF N, D, m, F
  <2> QED  BY <1>3, <1>5, Recursion
<1>7. f \in [D -> N] /\ \A i \in D : f[i] = Body(f, i)
  BY <1>6 DEF Solves
<1>8. f = [i \in D |-> IF i = 1 THEN s[i] ELSE f[i - 1] \o s[i]]
  BY <1>7
<1>9. flatten = [i \in D |-> IF i = 1 THEN s[i] ELSE flatten[i - 1] \o s[i]]
  BY <1>8
<1>10. FlattenSeq(s) = flatten[Len(s)]
  BY <1>0 DEF FlattenSeq
<1> HIDE DEF flatten
<1>11. \A i \in D : flatten[i] = IF i = 1 THEN s[i] ELSE flatten[i - 1] \o s[i]
  BY <1>9
<1> DEFINE P == {i \in Nat : i + 1 \in D => flatten[i + 1] \in N}
<1>12. 0 \in P
  <2>1. flatten[1] = s[1] /\ s[1] \in N
    BY <1>0, <1>11
  <2> QED  BY <2>1
<1>13. ASSUME NEW i \in P PROVE i + 1 \in P
  <2> SUFFICES ASSUME (i + 1) + 1 \in D PROVE flatten[(i + 1) + 1] \in N
    OBVIOUS
  <2>1. i + 1 \in D /\ ((i + 1) + 1) - 1 = i + 1 /\ (i + 1) + 1 # 1
    BY <1>0
  <2> DEFINE a == flatten[i + 1]  b == s[(i + 1) + 1]
  <2>2. flatten[(i + 1) + 1] = a \o b
    BY <1>11, <2>1
  <2>3. a \in Seq(Nat) /\ b \in Seq(Nat)
    BY <1>0, <2>1
  <2> HIDE DEF a, b
  <2>4. a \o b \in Seq(Nat)
    BY <2>3, ConcatProperties
  <2> QED  BY <2>2, <2>4
<1>14. \A i \in Nat : i \in P
  <2>1. P \in SUBSET Nat
    OBVIOUS
  <2> HIDE DEF P
  <2> QED  BY <1>12, <1>13, <2>1, Induct
<1>15. ASSUME NEW i \in D PROVE flatten[i] \in N
  <2>1. i - 1 \in Nat /\ (i - 1) + 1 = i
    BY <1>0
  <2> QED  BY <1>14, <2>1
<1>16. flatten \in [D -> N]
  BY <1>9, <1>15
<1> QED  BY <1>10, <1>11, <1>16 DEF Grows

\* The digits of bytes, two for each
HexOf(bytes) ==
  FlattenSeq([i \in 1 .. Len(bytes) |-> <<bytes[i] \div HexBase, bytes[i] % HexBase>>])

LEMMA ByteDigits ==
  ASSUME NEW b \in Nat, b < ByteBase
  PROVE  /\ b \div HexBase \in Nat /\ b \div HexBase < HexBase
         /\ b % HexBase \in Nat /\ b % HexBase < HexBase
         /\ b = (b \div HexBase) * HexBase + (b % HexBase)
<1> DEFINE h == HexBase
<1>1. h \in Nat \ {0} /\ ByteBase = h * h
  BY BytesType
<1> HIDE DEF h
<1>2. b \in 0 .. h * h - 1
  BY <1>1
<1>3. /\ b \div h \in 0 .. h - 1 /\ b % h \in 0 .. h - 1
      /\ b = (b \div h) * h + (b % h)
  BY <1>1, <1>2, Shifted
<1>4. /\ b \div h \in Nat /\ b \div h < h /\ b % h \in Nat /\ b % h < h
  BY <1>1, <1>3
<1> QED  BY <1>3, <1>4 DEF h

LEMMA HexOfIs ==
  ASSUME NEW bytes \in Seq(Nat), NEW n \in Nat \ {0}, Len(bytes) = n,
         \A i \in 1 .. n : bytes[i] < ByteBase
  PROVE  /\ HexOf(bytes) \in Seq(Nat) /\ Len(HexOf(bytes)) = 2 * n
         /\ \A i \in 1 .. n : /\ HexOf(bytes)[2*i - 1] = bytes[i] \div HexBase
                              /\ HexOf(bytes)[2*i] = bytes[i] % HexBase
<1> DEFINE A(i) == bytes[i] \div HexBase
           B(i) == bytes[i] % HexBase
           p == [i \in 1 .. n |-> <<A(i), B(i)>>]
           S == Seq(Nat)
<1>1. ASSUME NEW i \in 1 .. n PROVE A(i) \in Nat /\ B(i) \in Nat
  <2>1. bytes[i] \in Nat
    OBVIOUS
  <2> QED  BY <2>1, ByteDigits
<1> HIDE DEF A, B
<1>2. \A i \in 1 .. n : /\ <<A(i), B(i)>> \in Seq(Nat) /\ Len(<<A(i), B(i)>>) = 2
                        /\ <<A(i), B(i)>>[1] = A(i) /\ <<A(i), B(i)>>[2] = B(i)
  BY <1>1
<1>3. p \in Seq(S) /\ Len(p) = n /\ p # <<>> /\ \A i \in 1 .. n : p[i] = <<A(i), B(i)>>
  <2> HIDE DEF S
  <2>1. \A i \in 1 .. n : p[i] = <<A(i), B(i)>>
    OBVIOUS
  <2>2. \A i \in 1 .. n : p[i] \in S
    BY <1>2, <2>1 DEF S
  <2>3. p = [i \in 1 .. n |-> p[i]]
    OBVIOUS
  <2> HIDE DEF p
  <2>4. p \in [1 .. n -> S]
    BY <2>2, <2>3
  <2>5. p \in Seq(S) /\ Len(p) = n
    BY <2>4
  <2>6. p # <<>>
    BY <2>5
  <2> QED  BY <2>1, <2>5, <2>6
<1>4. HexOf(bytes) = FlattenSeq(p)
  BY DEF HexOf, A, B
<1> HIDE DEF p
<1>5. PICK f : Grows(f, p) /\ FlattenSeq(p) = f[n]
  <2>1. \E f : Grows(f, p) /\ FlattenSeq(p) = f[Len(p)]
    BY <1>3, FlattenIs DEF S
  <2> QED  BY <1>3, <2>1, Zenon
<1>6. /\ \A i \in 1 .. n : f[i] \in Seq(Nat)
      /\ f[1] = p[1]
      /\ \A i \in 1 .. n : i # 1 => f[i] = f[i - 1] \o p[i]
  <2>1. 1 \in 1 .. n
    OBVIOUS
  <2> QED  BY <1>3, <1>5, <2>1, Zenon DEF Grows
<1> DEFINE Q(i) == /\ Len(f[i]) = 2 * i
                   /\ \A j \in 1 .. i : f[i][2*j - 1] = A(j) /\ f[i][2*j] = B(j)
           P == {i \in Nat : i + 1 \in 1 .. n => Q(i + 1)}
<1>7. 0 \in P
  <2>1. f[1] = <<A(1), B(1)>> /\ 1 \in 1 .. n
    BY <1>3, <1>6
  <2>2. Len(f[1]) = 2 /\ f[1][1] = A(1) /\ f[1][2] = B(1)
    BY <1>2, <2>1
  <2>3. 2 * 1 = 2 /\ 2 * 1 - 1 = 1 /\ \A j \in 1 .. 1 : j = 1
    OBVIOUS
  <2>4. Q(1)
    BY <2>2, <2>3, Zenon
  <2>5. 0 + 1 = 1 /\ 0 \in Nat
    OBVIOUS
  <2> HIDE DEF Q
  <2> QED  BY <2>4, <2>5
<1>8. ASSUME NEW i \in P PROVE i + 1 \in P
  <2> DEFINE k == i + 1
  <2>1. i \in Nat /\ k \in Nat \ {0} /\ i + 1 = k
    OBVIOUS
  <2>2. ASSUME k + 1 \in 1 .. n PROVE Q(k + 1)
    <3>1. k \in 1 .. n /\ k + 1 # 1 /\ (k + 1) - 1 = k
      BY <2>1, <2>2
    <3>2. Q(k)
      <4> HIDE DEF Q
      <4> QED  BY <2>1, <3>1
    <3> HIDE DEF k
    <3> DEFINE a == f[k]  b == <<A(k + 1), B(k + 1)>>  c == f[k + 1]
    <3>3. c = a \o b /\ a \in Seq(Nat) /\ Len(a) = 2 * k
      BY <1>3, <1>6, <2>2, <3>1, <3>2
    <3>4. b \in Seq(Nat) /\ Len(b) = 2 /\ b[1] = A(k + 1) /\ b[2] = B(k + 1)
      BY <1>2, <2>2
    <3>5. \A j \in 1 .. k : a[2*j - 1] = A(j) /\ a[2*j] = B(j)
      BY <3>2
    <3> HIDE DEF a, b, c
    <3>6. /\ Len(c) = Len(a) + Len(b)
          /\ \A j \in 1 .. Len(a) + Len(b) : c[j] = IF j <= Len(a) THEN a[j] ELSE b[j - Len(a)]
      BY <3>3, <3>4, ConcatProperties
    <3>7. /\ Len(c) = 2 * k + 2
          /\ \A j \in 1 .. 2 * k + 2 : c[j] = IF j <= 2 * k THEN a[j] ELSE b[j - 2 * k]
      BY <3>3, <3>4, <3>6, Zenon
    <3>8. ASSUME NEW j \in 1 .. k + 1 PROVE c[2*j - 1] = A(j) /\ c[2*j] = B(j)
      <4>1. CASE j = k + 1
        <5>1. /\ 2*j - 1 \in 1 .. 2 * k + 2 /\ ~(2*j - 1 <= 2 * k) /\ (2*j - 1) - 2 * k = 1
              /\ 2*j \in 1 .. 2 * k + 2 /\ ~(2*j <= 2 * k) /\ 2*j - 2 * k = 2
          BY <2>1, <4>1
        <5>2. c[2*j - 1] = b[(2*j - 1) - 2 * k] /\ c[2*j] = b[2*j - 2 * k]
          BY <3>7, <5>1, Zenon
        <5> QED  BY <3>4, <4>1, <5>1, <5>2, Zenon
      <4>2. CASE j # k + 1
        <5>1. j \in 1 .. k
          BY <2>1, <4>2
        <5>2. /\ 2*j - 1 \in 1 .. 2 * k + 2 /\ 2*j - 1 <= 2 * k
              /\ 2*j \in 1 .. 2 * k + 2 /\ 2*j <= 2 * k
          BY <2>1, <5>1
        <5>3. c[2*j - 1] = a[2*j - 1] /\ c[2*j] = a[2*j]
          BY <3>7, <5>2, Zenon
        <5> QED  BY <3>5, <5>1, <5>3, Zenon
      <4> QED  BY <4>1, <4>2
    <3>9. Len(c) = 2 * (k + 1)
      BY <2>1, <3>7
    <3> QED  BY <3>8, <3>9 DEF c
  <2>3. k + 1 \in 1 .. n => Q(k + 1)
    BY <2>2
  <2> HIDE DEF Q
  <2> QED  BY <2>1, <2>3
<1>9. \A i \in Nat : i \in P
  <2>1. P \in SUBSET Nat
    OBVIOUS
  <2> HIDE DEF P
  <2> QED  BY <1>7, <1>8, <2>1, Induct
<1>10. n - 1 \in Nat /\ (n - 1) + 1 = n /\ n \in 1 .. n
  OBVIOUS
<1>11. Q(n)
  <2> HIDE DEF Q
  <2> QED  BY <1>9, <1>10
<1> QED  BY <1>4, <1>5, <1>6, <1>10, <1>11, Zenon DEF A, B

LEMMA NaturalSeq ==
  ASSUME NEW n \in Nat, NEW t, t = [i \in 1 .. n |-> t[i]], \A i \in 1 .. n : t[i] \in Nat
  PROVE  t \in Seq(Nat) /\ Len(t) = n
<1>1. t \in [1 .. n -> Nat]
  OBVIOUS
<1> QED  BY <1>1

LEMMA FilledIs ==
  ASSUME NEW s, NEW blen \in Nat, NEW k \in Nat, k <= blen, \A i \in 1 .. 2 * k : IsDigit(s[i])
  PROVE  /\ Filled(s, blen, k) \in Seq(Nat) /\ Len(Filled(s, blen, k)) = blen
         /\ \A j \in 1 .. blen :
              /\ Filled(s, blen, k)[j] < ByteBase
              /\ j <= k => /\ Filled(s, blen, k)[j] \div HexBase = s[2*j - 1]
                           /\ Filled(s, blen, k)[j] % HexBase = s[2*j]
              /\ ~(j <= k) => /\ Filled(s, blen, k)[j] \div HexBase = 0
                              /\ Filled(s, blen, k)[j] % HexBase = 0
<1> DEFINE t == Filled(s, blen, k)  h == HexBase
<1>1. h \in Nat \ {0} /\ ByteBase = h * h /\ ByteBase \in Nat /\ ByteBase >= 4 /\ 0 < h
  BY BytesType
<1>2. /\ t = [i \in 1 .. blen |-> t[i]]
      /\ \A i \in 1 .. blen : t[i] = IF i <= k THEN s[2*i - 1] * h + s[2*i] ELSE 0
  BY DEF Filled
<1> HIDE DEF t
<1>3. ASSUME NEW j \in 1 .. blen
      PROVE  /\ t[j] \in Nat /\ t[j] < ByteBase
             /\ j <= k => t[j] \div h = s[2*j - 1] /\ t[j] % h = s[2*j]
             /\ ~(j <= k) => t[j] \div h = 0 /\ t[j] % h = 0
  <2>1. CASE j <= k
    <3>1. 2*j - 1 \in 1 .. 2 * k /\ 2*j \in 1 .. 2 * k
      BY <2>1
    <3> DEFINE a == s[2*j - 1]  b == s[2*j]
    <3>2. a \in 0 .. h - 1 /\ b \in 0 .. h - 1
      BY <3>1 DEF IsDigit
    <3>3. t[j] = a * h + b
      BY <1>2, <2>1
    <3> HIDE DEF a, b, h
    <3>4. a \in Nat /\ b \in Nat /\ a < h /\ b < h /\ a \in Int /\ h \in Nat
      BY <1>1, <3>2
    <3>5. a * h + b \in Nat /\ a * h + b < h * h
      BY <3>4, PairByte
    <3>6. (a * h + b) \div h = a /\ (a * h + b) % h = b
      BY <1>1, <3>2, <3>4, DivUnique
    <3> QED  BY <1>1, <2>1, <3>3, <3>5, <3>6 DEF a, b
  <2>2. CASE ~(j <= k)
    <3>1. t[j] = 0
      BY <1>2, <2>2
    <3> HIDE DEF h
    <3>2. 0 \div h = 0 /\ 0 % h = 0
      <4>1. (0 * h + 0) \div h = 0 /\ (0 * h + 0) % h = 0
        BY <1>1, DivUnique
      <4>2. 0 * h + 0 = 0
        BY <1>1
      <4> QED  BY <4>1, <4>2
    <3> QED  BY <1>1, <2>2, <3>1, <3>2
  <2> QED  BY <2>1, <2>2
<1>4. t \in Seq(Nat) /\ Len(t) = blen
  BY <1>2, <1>3, NaturalSeq
<1> QED  BY <1>3, <1>4 DEF t

\* What hextobin() wrote, as text again
LEMMA TextAgain ==
  ASSUME NEW s \in Seq(Int), NEW blen \in Nat, NEW k \in Nat, k <= blen, 2 * k <= Len(s),
         \A i \in 1 .. 2 * k : IsDigit(s[i])
  PROVE  bintohex_nonull(Filled(s, blen, k), 2 * blen).text
           = SubSeq(s, 1, 2 * k) \o Zeros(2 * blen - 2 * k)
<1> DEFINE t == Filled(s, blen, k)  p == SubSeq(s, 1, 2 * k)  z == Zeros(2 * blen - 2 * k)
           r == p \o z  x == HexOf(t)  l == Len(s)
<1>1. /\ t \in Seq(Nat) /\ Len(t) = blen
      /\ \A j \in 1 .. blen :
              /\ t[j] < ByteBase
              /\ j <= k => t[j] \div HexBase = s[2*j - 1] /\ t[j] % HexBase = s[2*j]
              /\ ~(j <= k) => t[j] \div HexBase = 0 /\ t[j] % HexBase = 0
  BY FilledIs
<1>2. p \in Seq(Nat) /\ Len(p) = 2 * k /\ \A i \in 1 .. 2 * k : p[i] = s[i]
  <2>1. \A i \in 1 .. 2 * k : s[i] \in Nat
    <3>1. HexBase \in Nat
      BY BytesType
    <3> QED  BY <3>1 DEF IsDigit
  <2> DEFINE n == 2 * k
  <2>2. n \in Int /\ 1 \in Int /\ n - 1 + 1 = n /\ (IF 1 <= n THEN n - 1 + 1 ELSE 0) = n
    OBVIOUS
  <2>3. \A i \in 1 .. n : 1 + i - 1 = i
    OBVIOUS
  <2> HIDE DEF n
  <2>4. /\ SubSeq(s, 1, n) \in Seq(Nat)
        /\ Len(SubSeq(s, 1, n)) = IF 1 <= n THEN n - 1 + 1 ELSE 0
        /\ \A i \in 1 .. n - 1 + 1 : SubSeq(s, 1, n)[i] = s[1 + i - 1]
    BY <2>1, <2>2, SubSeqProperties DEF n
  <2>5. SubSeq(s, 1, n) \in Seq(Nat) /\ Len(SubSeq(s, 1, n)) = n /\ \A i \in 1 .. n : SubSeq(s, 1, n)[i] = s[i]
    BY <2>2, <2>3, <2>4, Zenon
  <2> QED  BY <2>5 DEF n
<1>3. z \in Seq(Nat) /\ Len(z) = 2 * blen - 2 * k /\ \A i \in 1 .. 2 * blen - 2 * k : z[i] = 0
  <2>1. 2 * blen - 2 * k \in Nat
    OBVIOUS
  <2>2. \A i \in 1 .. 2 * blen - 2 * k : z[i] = 0
    BY DEF Zeros
  <2> QED  BY <2>1, <2>2, ZerosAre, 10 \in Nat
<1>4. /\ r \in Seq(Nat) /\ Len(r) = 2 * k + (2 * blen - 2 * k)
      /\ \A i \in 1 .. 2 * k + (2 * blen - 2 * k) : r[i] = IF i <= 2 * k THEN p[i] ELSE z[i - 2 * k]
  <2> HIDE DEF p, z
  <2>1. /\ r \in Seq(Nat) /\ Len(r) = Len(p) + Len(z)
        /\ \A i \in 1 .. Len(p) + Len(z) : r[i] = IF i <= Len(p) THEN p[i] ELSE z[i - Len(p)]
    BY <1>2, <1>3, ConcatProperties
  <2> HIDE DEF r
  <2> QED  BY <1>2, <1>3, <2>1, Zenon
<1> HIDE DEF t, p, z, r
<1>5. CASE blen = 0
  <2>1. t = <<>>
    BY <1>1, <1>5, EmptySeq
  <2>2. bintohex_nonull(t, 2 * blen) = [ret |-> InvalidString, text |-> <<>>]
    BY <2>1, Zenon DEF bintohex_nonull
  <2>3. bintohex_nonull(t, 2 * blen).text = <<>>
    BY <2>2
  <2>4. Len(r) = 0
    BY <1>4, <1>5
  <2>5. r = <<>>
    BY <1>4, <2>4, EmptySeq
  <2> QED  BY <2>3, <2>5 DEF t, p, z, r
<1>6. CASE blen # 0
  <2>1. t # <<>> /\ ~(2 * blen < 2 * Len(t)) /\ blen \in Nat \ {0}
    BY <1>1, <1>6
  <2>2. bintohex_nonull(t, 2 * blen) = [ret |-> 2 * Len(t), text |-> x]
    BY <2>1, Zenon DEF bintohex_nonull, HexOf
  <2>3. bintohex_nonull(t, 2 * blen).text = x
    BY <2>2
  <2>4. /\ x \in Seq(Nat) /\ Len(x) = 2 * blen
        /\ \A i \in 1 .. blen : x[2*i - 1] = t[i] \div HexBase /\ x[2*i] = t[i] % HexBase
    BY <1>1, <2>1, HexOfIs
  <2> HIDE DEF x
  <2>5. ASSUME NEW j \in 1 .. blen PROVE x[2*j - 1] = r[2*j - 1] /\ x[2*j] = r[2*j]
    <3>1. 2*j - 1 \in 1 .. 2 * k + (2 * blen - 2 * k) /\ 2*j \in 1 .. 2 * k + (2 * blen - 2 * k)
      OBVIOUS
    <3>2. x[2*j - 1] = t[j] \div HexBase /\ x[2*j] = t[j] % HexBase
      BY <2>4
    <3>3. CASE j <= k
      <4>1. 2*j - 1 <= 2 * k /\ 2*j <= 2 * k /\ 2*j - 1 \in 1 .. 2 * k /\ 2*j \in 1 .. 2 * k
        BY <3>3
      <4>2. r[2*j - 1] = p[2*j - 1] /\ r[2*j] = p[2*j]
        BY <1>4, <3>1, <4>1, Zenon
      <4> QED  BY <1>1, <1>2, <3>2, <3>3, <4>1, <4>2, Zenon
    <3>4. CASE ~(j <= k)
      <4>1. /\ ~(2*j - 1 <= 2 * k) /\ ~(2*j <= 2 * k)
            /\ (2*j - 1) - 2 * k \in 1 .. 2 * blen - 2 * k /\ 2*j - 2 * k \in 1 .. 2 * blen - 2 * k
        BY <3>4
      <4>2. r[2*j - 1] = z[(2*j - 1) - 2 * k] /\ r[2*j] = z[2*j - 2 * k]
        BY <1>4, <3>1, <4>1, Zenon
      <4> QED  BY <1>1, <1>3, <3>2, <3>4, <4>1, <4>2, Zenon
    <3> QED  BY <3>3, <3>4
  <2>6. ASSUME NEW i \in 1 .. 2 * blen PROVE x[i] = r[i]
    <3>1. PICK j \in 1 .. blen : i = 2*j - 1 \/ i = 2*j
      BY HalfIndex
    <3> QED  BY <2>5, <3>1, Zenon
  <2>7. Len(x) = Len(r)
    BY <1>4, <2>4
  <2>8. x = r
    BY <1>4, <2>4, <2>6, <2>7, SeqEqual
  <2> QED  BY <2>3, <2>8 DEF t, p, z, r
<1> QED  BY <1>5, <1>6

\* What hextobin() makes of any string in any buffer: digits behind the buffer are
\* cut.
BytesTaken(str, blen) ==
  LET s == SkipPrefix(str)
      res == hextobin(str, blen)
      kept == SubSeq(s, 1, Min({Len(s), 2 * blen}))
      seen == SubSeq(s, 1, Min({Len(kept), PosRange}))
      good == Len(str) > 0 /\ Len(s) % 2 = 0 /\ AllDigits(seen)
  IN  /\ res.ret >= 0 <=> good /\ Len(kept) < PosRange
      /\ res.ret = Hangs <=> good /\ Len(kept) >= PosRange
      /\ res.ret >= 0 => /\ res.ret = Len(s) \div 2
                         /\ bintohex_nonull(res.bytes, 2 * blen).text
                              = kept \o Zeros(2 * blen - Len(kept))

LEMMA BytesAreTaken ==
  ASSUME NEW str \in Seq(Int), NEW blen \in Nat
  PROVE  BytesTaken(str, blen)
<1> DEFINE s == SkipPrefix(str)  n == Len(s)  res == hextobin(str, blen)
           most == Min({n, 2 * blen})
           kept == SubSeq(s, 1, most)
           few == Min({Len(kept), PosRange})
           seen == SubSeq(s, 1, few)
           good == Len(str) > 0 /\ n % 2 = 0 /\ AllDigits(seen)
<1>1. /\ s \in Seq(Int) /\ n \in Nat /\ Len(str) \in Nat
      /\ n % 2 = Len(str) % 2 /\ (n = 0 <=> Len(str) = 0)
  BY SkipIs
<1>2. SUFFICES /\ res.ret >= 0 <=> good /\ Len(kept) < PosRange
               /\ res.ret = Hangs <=> good /\ Len(kept) >= PosRange
               /\ res.ret >= 0 =>
                    /\ res.ret = n \div 2
                    /\ bintohex_nonull(res.bytes, 2 * blen).text = kept \o Zeros(2 * blen - Len(kept))
  BY Zenon DEF BytesTaken
<1>3. InvalidString \in Int /\ ~(InvalidString >= 0) /\ InvalidString # Hangs /\ Hangs \in Int /\ ~(Hangs >= 0)
  BY DEF InvalidString, Hangs
<1>4. CASE Len(str) = 0 \/ Len(str) % 2 # 0
  <2>1. res.ret = InvalidString
    BY <1>4, HexToBinRefuses
  <2>2. ~(Len(str) > 0 /\ n % 2 = 0)
    <3> HIDE DEF s, n
    <3> QED  BY <1>1, <1>4
  <2> HIDE DEF res, s, n, kept, seen
  <2> QED  BY <1>3, <2>1, <2>2
<1>5. CASE Len(str) # 0 /\ Len(str) % 2 = 0
  <2> DEFINE m == n \div 2  pairs == PairsOf(s, blen)  sp == SeenPairs(s, blen)  h == PosRange \div 2
  <2>1. m \in Nat \ {0} /\ n = 2 * m /\ Len(str) > 0 /\ n % 2 = 0
    <3> HIDE DEF s, n
    <3> QED  BY <1>1, <1>5
  <2>2. h \in Nat /\ PosRange = 2 * h
    BY PosAbove
  <2>3. pairs \in Nat /\ pairs <= m /\ pairs <= blen /\ pairs = IF m <= blen THEN m ELSE blen
    <3>1. pairs = Min({m, blen})
      BY DEF PairsOf
    <3> HIDE DEF m, pairs
    <3> QED  BY <2>1, <3>1, SmallerIs
  <2>4. sp \in Nat /\ sp <= pairs /\ sp <= h /\ sp = IF pairs <= h THEN pairs ELSE h
    <3>1. sp = Min({pairs, h})
      BY DEF SeenPairs
    <3> HIDE DEF sp, pairs, h
    <3> QED  BY <2>2, <2>3, <3>1, SmallerIs
  <2>5. most = 2 * pairs
    <3> HIDE DEF pairs, m, n
    <3>1. 2 * blen \in Nat /\ n \in Nat
      BY <1>1
    <3>2. most = IF n <= 2 * blen THEN n ELSE 2 * blen
      BY <3>1, SmallerIs
    <3> HIDE DEF most
    <3> QED  BY <2>1, <2>3, <3>2
  <2>6. kept = SubSeq(s, 1, 2 * pairs) /\ kept \in Seq(Int) /\ Len(kept) = 2 * pairs
    <3>1. 1 .. 2 * pairs \subseteq 1 .. Len(s)
      <4> HIDE DEF pairs, s, m
      <4> QED  BY <2>1, <2>3
    <3>2. \A i \in 1 .. 2 * pairs : s[i] \in Int
      <4> HIDE DEF pairs, s
      <4> QED  BY <1>1, <3>1
    <3> DEFINE c == 2 * pairs
    <3>3. c \in Int /\ 1 \in Int /\ (IF 1 <= c THEN c - 1 + 1 ELSE 0) = c
      <4> HIDE DEF pairs
      <4> QED  BY <2>3
    <3> HIDE DEF c, s
    <3>4. SubSeq(s, 1, c) \in Seq(Int) /\ Len(SubSeq(s, 1, c)) = IF 1 <= c THEN c - 1 + 1 ELSE 0
      BY <3>2, <3>3, SubSeqProperties DEF c
    <3>5. Len(SubSeq(s, 1, c)) = c
      <4> DEFINE l == Len(SubSeq(s, 1, c))
      <4>1. l = IF 1 <= c THEN c - 1 + 1 ELSE 0
        BY <3>4
      <4> HIDE DEF l
      <4>2. l = c
        BY <3>3, <4>1
      <4> QED  BY <4>2 DEF l
    <3> HIDE DEF most
    <3> QED  BY <2>5, <3>4, <3>5 DEF c
  <2>7. few = 2 * sp
    <3> HIDE DEF kept, pairs, sp, h
    <3>1. Len(kept) \in Nat /\ PosRange \in Nat
      BY <2>2, <2>3, <2>6
    <3>2. few = IF Len(kept) <= PosRange THEN Len(kept) ELSE PosRange
      BY <3>1, SmallerIs
    <3> HIDE DEF few
    <3> QED  BY <2>2, <2>3, <2>4, <2>6, <3>2
  <2>8. AllDigits(seen) <=> BadPairs(s, blen) = {}
    <3>1. 1 .. 2 * sp \subseteq 1 .. Len(s)
      <4> HIDE DEF pairs, s, m, sp
      <4> QED  BY <2>1, <2>3, <2>4
    <3>2. \A i \in 1 .. 2 * sp : s[i] \in Int
      <4> HIDE DEF sp, s
      <4> QED  BY <1>1, <3>1
    <3> DEFINE c == 2 * sp
    <3>3. c \in Int /\ 1 \in Int /\ (IF 1 <= c THEN c - 1 + 1 ELSE 0) = c /\ c - 1 + 1 = c
          /\ \A i \in 1 .. c : 1 + i - 1 = i
      <4> HIDE DEF sp
      <4> QED  BY <2>4
    <3> HIDE DEF c, s
    <3>4. /\ SubSeq(s, 1, c) \in Seq(Int) /\ Len(SubSeq(s, 1, c)) = IF 1 <= c THEN c - 1 + 1 ELSE 0
          /\ \A i \in 1 .. c - 1 + 1 : SubSeq(s, 1, c)[i] = s[1 + i - 1]
      BY <3>2, <3>3, SubSeqProperties DEF c
    <3>5. Len(SubSeq(s, 1, c)) = c /\ \A i \in 1 .. c : SubSeq(s, 1, c)[i] = s[i]
      BY <3>3, <3>4, Zenon
    <3>6. seen = SubSeq(s, 1, c)
      BY <2>7, Zenon DEF c
    <3> HIDE DEF seen
    <3>7. AllDigits(seen) <=> \A i \in 1 .. 2 * sp : IsDigit(s[i])
      BY <3>5, <3>6, Zenon DEF AllDigits, c
    <3>8. BadPairs(s, blen) = {} <=> \A j \in 1 .. sp : IsDigit(s[2*j - 1]) /\ IsDigit(s[2*j])
      BY Zenon DEF BadPairs
    <3>9. sp \in Nat
      BY <2>4
    <3> HIDE DEF sp
    <3> QED  BY <3>7, <3>8, <3>9, PairsAreDigits
  <2>9. /\ BadPairs(s, blen) # {} => res.ret = InvalidString
        /\ BadPairs(s, blen) = {} =>
             /\ res.bytes = Filled(s, blen, sp)
             /\ 2 * pairs >= PosRange => res.ret = Hangs
             /\ ~(2 * pairs >= PosRange) => res.ret = m
    BY <1>5, HexToBinIs, Zenon
  <2>10. CASE BadPairs(s, blen) # {}
    <3> HIDE DEF res, kept, seen, s, n
    <3> QED  BY <1>3, <2>8, <2>9, <2>10
  <2>11. CASE BadPairs(s, blen) = {} /\ 2 * pairs >= PosRange
    <3>1. res.ret = Hangs /\ good
      BY <2>1, <2>8, <2>9, <2>11, Zenon
    <3>2. ~(Len(kept) < PosRange) /\ Len(kept) >= PosRange
      <4> HIDE DEF kept, pairs, h
      <4> QED  BY <2>2, <2>3, <2>6, <2>11
    <3> HIDE DEF res, kept, seen, s, n, good
    <3> QED  BY <1>3, <3>1, <3>2
  <2>12. CASE BadPairs(s, blen) = {} /\ ~(2 * pairs >= PosRange)
    <3>1. res.ret = m /\ good /\ res.bytes = Filled(s, blen, sp)
      BY <2>1, <2>8, <2>9, <2>12, Zenon
    <3>2. sp = pairs /\ Len(kept) < PosRange /\ ~(Len(kept) >= PosRange)
      <4> HIDE DEF kept, pairs, h, sp
      <4> QED  BY <2>2, <2>3, <2>4, <2>6, <2>12
    <3>4. \A i \in 1 .. 2 * pairs : IsDigit(s[i])
      <4>1. \A j \in 1 .. pairs : IsDigit(s[2*j - 1]) /\ IsDigit(s[2*j])
        <5>1. \A j \in 1 .. sp : IsDigit(s[2*j - 1]) /\ IsDigit(s[2*j])
          BY <2>12, Zenon DEF BadPairs
        <5> HIDE DEF sp, pairs
        <5> QED  BY <3>2, <5>1
      <4> HIDE DEF pairs
      <4> QED  BY <2>3, <4>1, PairsAreDigits
    <3>5. 2 * pairs <= Len(s) /\ pairs \in Nat /\ pairs <= blen
      <4> HIDE DEF pairs, m, s
      <4> QED  BY <2>1, <2>3
    <3>6. bintohex_nonull(Filled(s, blen, pairs), 2 * blen).text
            = SubSeq(s, 1, 2 * pairs) \o Zeros(2 * blen - 2 * pairs)
      <4> HIDE DEF pairs, s
      <4> QED  BY <1>1, <3>4, <3>5, TextAgain
    <3>7. bintohex_nonull(res.bytes, 2 * blen).text = kept \o Zeros(2 * blen - Len(kept))
      <4> HIDE DEF res, kept, sp, pairs, s
      <4> QED  BY <2>6, <3>1, <3>2, <3>6, Zenon
    <3>8. res.ret >= 0 /\ res.ret # Hangs
      <4>1. \A k \in Nat : k >= 0 /\ k # Hangs
        BY DEF Hangs
      <4> HIDE DEF res, m
      <4> QED  BY <2>1, <3>1, <4>1
    <3>9. res.ret = n \div 2
      BY <3>1
    <3> HIDE DEF res, kept, good
    <3> QED  BY <3>1, <3>2, <3>7, <3>8, <3>9, Zenon
  <2> QED  BY <2>10, <2>11, <2>12
<1> QED  BY <1>4, <1>5

\* Of the strings that fit into their buffer, hextobin() takes exactly the ones of
\* an even number of digits, fewer than its index can count, and makes them the
\* bytes they mean; where the index goes round it never returns.
THEOREM BytesAreRead ==
  ASSUME NEW str \in Seq(Int), NEW blen \in Nat
  PROVE  BytesRead(str, blen)
<1> DEFINE s == SkipPrefix(str)
           most == Min({Len(s), 2 * blen})
<1>1. BytesTaken(str, blen)
  BY BytesAreTaken
<1>2. s \in Seq(Int) /\ Len(s) \in Nat
  BY SkipIs
<1>3. ASSUME Len(s) <= 2 * blen PROVE SubSeq(s, 1, most) = s
  <2> HIDE DEF s
  <2>1. 2 * blen \in Nat
    OBVIOUS
  <2>2. most = Len(s)
    BY <1>2, <1>3, <2>1, SmallerIs
  <2> QED  BY <1>2, <2>2, SubSeqFull
<1> QED  BY <1>1, <1>3, Zenon DEF BytesRead, BytesTaken, FitsBytes

-----------------------------------------------------------------------------
(* What is printed reads back.                                              *)

LEMMA SameValue ==
  ASSUME NEW x \in Uint256, NEW y \in Uint256, Value256(x) = Value256(y)
  PROVE  x = y
<1>1. \A a, b \in Uint128 : Value128(a) = Value128(b) => a = b
  <2> SUFFICES ASSUME NEW a \in Uint128, NEW b \in Uint128, Value128(a) = Value128(b) PROVE a = b
    OBVIOUS
  <2>1. /\ UPPER(a) \in 0 .. Base - 1 /\ LOWER(a) \in 0 .. Base - 1 /\ a = <<UPPER(a), LOWER(a)>>
        /\ UPPER(b) \in 0 .. Base - 1 /\ LOWER(b) \in 0 .. Base - 1 /\ b = <<UPPER(b), LOWER(b)>>
        /\ Base \in Nat \ {0}
    BY HalvesType
  <2>2. UPPER(a) * Base + LOWER(a) = UPPER(b) * Base + LOWER(b)
    BY Zenon DEF Value128
  <2> DEFINE p == UPPER(a)  q == LOWER(a)  r == UPPER(b)  t == LOWER(b)  num == Base
  <2>4. /\ p \in 0 .. num - 1 /\ q \in 0 .. num - 1 /\ r \in 0 .. num - 1 /\ t \in 0 .. num - 1
        /\ num \in Nat \ {0} /\ p * num + q = r * num + t
    BY <2>1, <2>2, Zenon
  <2> HIDE DEF p, q, r, t, num
  <2>5. p = r /\ q = t
    BY <2>4, DigitsCompare
  <2>3. UPPER(a) = UPPER(b) /\ LOWER(a) = LOWER(b)
    BY <2>5 DEF p, q, r, t
  <2> QED  BY <2>1, <2>3, Zenon
<1>2. UPPER(x) \in Uint128 /\ LOWER(x) \in Uint128 /\ UPPER(y) \in Uint128 /\ LOWER(y) \in Uint128
  BY Value256Type
<1>3. x = <<UPPER(x), LOWER(x)>> /\ y = <<UPPER(y), LOWER(y)>>
  BY DEF Uint256, UPPER, LOWER
<1> DEFINE a == Value128(UPPER(x))  b == Value128(LOWER(x))  c == Value128(UPPER(y))  d == Value128(LOWER(y))
<1>4. /\ a \in 0 .. Base128 - 1 /\ b \in 0 .. Base128 - 1
      /\ c \in 0 .. Base128 - 1 /\ d \in 0 .. Base128 - 1 /\ Base128 \in Nat \ {0}
  BY <1>2, Value128Type
<1>5. a * Base128 + b = c * Base128 + d
  BY Zenon DEF Value256
<1> HIDE DEF a, b, c, d
<1>6. a = c /\ b = d
  BY <1>4, <1>5, DigitsCompare
<1>7. UPPER(x) = UPPER(y) /\ LOWER(x) = LOWER(y)
  BY <1>1, <1>2, <1>6 DEF a, b, c, d
<1> QED  BY <1>3, <1>7, Zenon

LEMMA HexBaseIs ==
  /\ HexBase \in 2 .. 16 /\ HexBase \in 2 .. Base - 1
  /\ Power[<<HexBase, 2 * BytesOf256>>] = Base256
<1>1. HexBase \in Nat /\ HexBase >= 2 /\ BytesOf256 = 4 * WordBytes /\ WordBytes \in Nat \ {0}
  BY BytesType
<1>2. HexBase <= 16
  <2>1. DigitBits \in Nat /\ 4 \in Nat /\ DigitBits <= 4
    BY TextAssumption
  <2>2. Pow2(DigitBits) <= Pow2(4)
    BY <2>1, Pow2Monotone
  <2>3. Pow2(4) = 16
    <3>1. Pow2(1) = 2 /\ Pow2(1 + 1) = 2 * Pow2(1)
      BY Pow2Step, 1 \in Nat
    <3>2. Pow2(2 + 1) = 2 * Pow2(2)
      BY Pow2Step, 2 \in Nat
    <3>3. Pow2(3 + 1) = 2 * Pow2(3)
      BY Pow2Step, 3 \in Nat
    <3>4. 1 + 1 = 2 /\ 2 + 1 = 3 /\ 3 + 1 = 4
      OBVIOUS
    <3>5. Pow2(2) = 4
      BY <3>1, <3>4
    <3>6. Pow2(3) = 8
      BY <3>2, <3>4, <3>5
    <3> QED  BY <3>3, <3>4, <3>6
  <2> QED  BY <1>1, <2>2, <2>3 DEF HexBase
<1>3. HexBase < Base
  <2>1. DigitBits \in Nat /\ W \in Nat /\ DigitBits + 1 \in Nat /\ DigitBits + 1 <= W
    <3>1. DigitBits \in 1 .. 4 /\ W \in Nat /\ W >= 4 /\ W % (2 * DigitBits) = 0
      BY TextAssumption, WordAssumption
    <3>2. CASE DigitBits = 4
      BY <3>1, <3>2
    <3>3. CASE DigitBits # 4
      BY <3>1, <3>3
    <3> QED  BY <3>2, <3>3
  <2>2. Pow2(DigitBits + 1) <= Pow2(W) /\ Pow2(DigitBits + 1) = 2 * Pow2(DigitBits)
    BY <2>1, Pow2Monotone, Pow2Step
  <2>3. Base = Pow2(W)
    BY DEF Base
  <2> QED  BY <1>1, <2>2, <2>3, BaseType DEF HexBase
<1>4. Power[<<HexBase, 2 * BytesOf256>>] = Base256
  <2> DEFINE n == 2 * BytesOf256
  <2>1. n \in Nat /\ DigitBits \in Nat
    BY <1>1, TextAssumption
  <2>2. Power[<<Pow2(DigitBits), n>>] = Pow2(n * DigitBits)
    BY <2>1, PowerPower
  <2>3. n * DigitBits = 4 * W
    <3>1. DigitBits \in 1 .. 4 /\ W \in Nat /\ W % (2 * DigitBits) = 0
      BY TextAssumption, WordAssumption
    <3>2. BytesOf256 = (4 * W) \div (2 * DigitBits)
      BY DEF BytesOf256
    <3>3. CASE DigitBits = 1
      BY <3>1, <3>2, <3>3
    <3>4. CASE DigitBits = 2
      BY <3>1, <3>2, <3>4
    <3>5. CASE DigitBits = 3
      BY <3>1, <3>2, <3>5
    <3>6. CASE DigitBits = 4
      BY <3>1, <3>2, <3>6
    <3> QED  BY <3>1, <3>3, <3>4, <3>5, <3>6
  <2>4. Pow2(4 * W) = Base256
    BY Pow2Wide
  <2> QED  BY <2>2, <2>3, <2>4, Zenon DEF HexBase
<1>5. Base \in Nat
  BY BaseType
<1>6. HexBase \in 2 .. 16 /\ HexBase \in 2 .. Base - 1
  <2> HIDE DEF HexBase
  <2> QED  BY <1>1, <1>2, <1>3, <1>5
<1> QED  BY <1>4, <1>6

\* Digits alone have no prefix.
LEMMA DigitsNoPrefix ==
  ASSUME NEW d \in Seq(Nat)
  PROVE  SkipPrefix(d) = d
<1>1. CASE Len(d) > 2
  <2>1. d[2] \in Nat
    BY <1>1
  <2>2. d[2] # CharX
    BY <2>1 DEF CharX
  <2> QED  BY <2>2, Zenon DEF SkipPrefix
<1>2. CASE ~(Len(d) > 2)
  BY <1>2, Zenon DEF SkipPrefix
<1> QED  BY <1>1, <1>2

LEMMA DigitsRead2 ==
  ASSUME NEW d \in Seq(Nat), Len(d) \in 1 .. 2 * BytesOf256, \A i \in 1 .. Len(d) : d[i] < HexBase,
         NEW x \in Uint256, NumberOf(d, HexBase) = Value256(x)
  PROVE  fromstring256(d) = [ret |-> 0, out |-> x]
<1>1. d \in Seq(Int) /\ SkipPrefix(d) = d
  BY DigitsNoPrefix
<1>2. ~InnerPrefix(d)
  <2>1. CASE Len(d) % 2 = 1
    <3>1. d # <<>>
      BY <2>1
    <3>2. Tail(d) \in Seq(Nat)
      BY <3>1, HeadTailProperties
    <3>3. SkipPrefix(Tail(d)) = Tail(d)
      BY <3>2, DigitsNoPrefix
    <3> QED  BY <1>1, <3>3, Zenon DEF InnerPrefix
  <2>2. CASE Len(d) % 2 # 1
    BY <1>1, <2>2, Zenon DEF InnerPrefix
  <2> QED  BY <2>1, <2>2
<1>3. AllDigits(d)
  <2>1. \A i \in 1 .. Len(d) : d[i] \in Nat
    OBVIOUS
  <2>2. HexBase \in Nat
    BY BytesType
  <2> QED  BY <2>1, <2>2 DEF AllDigits, IsDigit
<1> DEFINE res == fromstring256(d)  good == Len(d) \in 1 .. 2 * BytesOf256 /\ AllDigits(d)
<1>4. good => /\ res = [ret |-> 0, out |-> res.out] /\ res.out \in Uint256
              /\ Value256(res.out) = NumberOf(d, HexBase)
  BY <1>1, <1>2, ReadNumber
<1>5. good
  BY <1>3
<1> HIDE DEF res, good
<1>6. res.out = x
  BY <1>4, <1>5, SameValue
<1> QED  BY <1>4, <1>5, <1>6, Zenon DEF res

LEMMA ToStringIs ==
  ASSUME NEW x, NEW base \in 2 .. 16, NEW outLength
  PROVE  /\ tostring256(x, base, outLength).ok = Room(DigitsOf(x, OneWord(base)), outLength)
         /\ tostring256(x, base, outLength).out = DigitsOf(x, OneWord(base))
         /\ tostring256(x, base, outLength).bytes
              = IF Room(DigitsOf(x, OneWord(base)), outLength)
                  THEN Len(DigitsOf(x, OneWord(base))) + 1 ELSE outLength
<1> DEFINE d == DigitsOf(x, OneWord(base))  r == Room(d, outLength)
           b == IF r THEN Len(d) + 1 ELSE outLength
<1>1. tostring256(x, base, outLength) = [ok |-> r, out |-> d, bytes |-> b]
  BY Zenon DEF tostring256, Written, OneWord
<1> HIDE DEF d, r, b
<1>2. /\ [ok |-> r, out |-> d, bytes |-> b].ok = r /\ [ok |-> r, out |-> d, bytes |-> b].out = d
      /\ [ok |-> r, out |-> d, bytes |-> b].bytes = b
  OBVIOUS
<1> QED  BY <1>1, <1>2, Zenon DEF d, r, b

LEMMA HexPrinted ==
  ASSUME NEW x \in Uint256
  PROVE  HexReads(x, tostring256(x, HexBase, 2 * BytesOf256 + 1))
<1> DEFINE hex == tostring256(x, HexBase, 2 * BytesOf256 + 1)  d == DigitsOf(x, OneWord(HexBase))
           v == Value256(x)  m == 2 * BytesOf256
<1>1. HexBase \in 2 .. 16 /\ HexBase \in 2 .. Base - 1 /\ Power[<<HexBase, m>>] = Base256
  BY HexBaseIs
<1>2. Meant(d, v, HexBase)
  BY <1>1, DigitsMeant
<1>3. hex.ok = Room(d, m + 1) /\ hex.out = d
      /\ hex.bytes = IF Room(d, m + 1) THEN Len(d) + 1 ELSE m + 1
  BY <1>1, ToStringIs
<1>4. v \in Nat /\ v < Base256 /\ m \in Nat \ {0} /\ HexBase \in Nat \ {0}
  <2>1. v \in 0 .. Base256 - 1 /\ Base256 \in Nat \ {0} /\ BytesOf256 = 4 * WordBytes /\ WordBytes \in Nat \ {0}
    BY Value256Type, BytesType
  <2> HIDE DEF v
  <2> QED  BY <1>1, <2>1
<1> HIDE DEF hex, d, v, m
<1>5. Len(d) <= m
  BY <1>1, <1>2, <1>4, MeantLength
<1>6. d \in Seq(Nat) /\ d # <<>> /\ (\A i \in 1 .. Len(d) : d[i] < HexBase) /\ NumberOf(d, HexBase) = v
  BY <1>2 DEF Meant
<1>7. Len(d) \in 1 .. m
  BY <1>4, <1>5, <1>6
<1>8. fromstring256(d) = [ret |-> 0, out |-> x]
  BY <1>6, <1>7, DigitsRead2 DEF v, m
<1>9. Room(d, m + 1)
  BY <1>4, <1>7 DEF Room
<1>10. hex.bytes = Len(d) + 1
  BY <1>3, <1>9, Zenon
<1>11. hex.bytes <= m + 1
  BY <1>4, <1>7, <1>10
<1> QED  BY <1>3, <1>8, <1>9, <1>11, Zenon DEF HexReads, hex, m

LEMMA PairedHex ==
  ASSUME NEW bytes \in Seq(Nat), NEW n \in Nat \ {0}, Len(bytes) = n,
         \A i \in 1 .. n : bytes[i] < ByteBase
  PROVE  /\ HexOf(bytes) \in Seq(Nat) /\ Len(HexOf(bytes)) = 2 * n
         /\ \A i \in 1 .. 2 * n : HexOf(bytes)[i] < HexBase
         /\ NumberOf(HexOf(bytes), HexBase) = NumberOf(bytes, ByteBase)
<1> DEFINE x == HexOf(bytes)  p == Paired(x, n)
<1>1. /\ x \in Seq(Nat) /\ Len(x) = 2 * n
      /\ \A i \in 1 .. n : x[2*i - 1] = bytes[i] \div HexBase /\ x[2*i] = bytes[i] % HexBase
  BY HexOfIs
<1>2. \A i \in 1 .. n : bytes[i] \in Nat /\ bytes[i] < ByteBase
  OBVIOUS
<1> HIDE DEF x
<1>3. ASSUME NEW i \in 1 .. 2 * n PROVE x[i] < HexBase
  <2>1. PICK j \in 1 .. n : i = 2*j - 1 \/ i = 2*j
    BY HalfIndex
  <2>2. bytes[j] \div HexBase < HexBase /\ bytes[j] % HexBase < HexBase
    BY <1>2, ByteDigits
  <2> QED  BY <1>1, <2>1, <2>2, Zenon
<1>4. /\ p \in Seq(Nat) /\ Len(p) = n
      /\ \A i \in 1 .. n : p[i] = x[2*i - 1] * HexBase + x[2*i]
  BY <1>1, <1>3, PairedIs
<1>5. NumberOf(p, ByteBase) = NumberOf(x, HexBase)
  BY <1>1, <1>3, PairsMean
<1> HIDE DEF p
<1>6. \A i \in 1 .. n : p[i] = bytes[i]
  <2> SUFFICES ASSUME NEW i \in 1 .. n PROVE p[i] = bytes[i]
    OBVIOUS
  <2>1. bytes[i] = (bytes[i] \div HexBase) * HexBase + (bytes[i] % HexBase)
    BY <1>2, ByteDigits
  <2>2. p[i] = (bytes[i] \div HexBase) * HexBase + (bytes[i] % HexBase)
    BY <1>1, <1>4, Zenon
  <2> QED  BY <2>1, <2>2, Zenon
<1>7. \A i \in 1 .. Len(p) : p[i] = bytes[i]
  BY <1>4, <1>6, Zenon
<1>8. Len(p) = Len(bytes)
  BY <1>4
<1>9. p = bytes
  BY <1>4, <1>7, <1>8, SeqEqual
<1> QED  BY <1>1, <1>3, <1>5, <1>9 DEF x

LEMMA BytesPrinted ==
  ASSUME NEW x \in Uint256
  PROVE  BytesRead256(x, bintohex(writeu256BE(x), 2 * BytesOf256 + 1))
<1> DEFINE b == writeu256BE(x)  n == BytesOf256  t == HexOf(b)
<1>1. /\ b \in Seq(Nat) /\ Len(b) = n /\ \A i \in 1 .. n : b[i] < ByteBase
      /\ readu256BE(b) = x /\ NumberOf(b, ByteBase) = Value256(x)
  BY WordsWritten
<1>2. n \in Nat \ {0}
  BY BytesType
<1>3. /\ t \in Seq(Nat) /\ Len(t) = 2 * n /\ \A i \in 1 .. 2 * n : t[i] < HexBase
      /\ NumberOf(t, HexBase) = NumberOf(b, ByteBase)
  <2> HIDE DEF b, n
  <2> QED  BY <1>1, <1>2, PairedHex
<1>4. fromstring256(t) = [ret |-> 0, out |-> x]
  <2>1. Len(t) \in 1 .. 2 * BytesOf256
    <3> HIDE DEF t
    <3> QED  BY <1>2, <1>3
  <2>2. \A i \in 1 .. Len(t) : t[i] < HexBase
    BY <1>3, Zenon
  <2>3. NumberOf(t, HexBase) = Value256(x)
    BY <1>1, <1>3
  <2> HIDE DEF t
  <2> QED  BY <1>3, <2>1, <2>2, <2>3, DigitsRead2
<1>5. b # <<>> /\ ~(2 * n + 1 < 2 * Len(b)) /\ ~(2 * n + 1 < 2 * Len(b) + 1)
  <2> HIDE DEF b, n
  <2> QED  BY <1>1, <1>2
<1> DEFINE hex == bintohex_nonull(b, 2 * n + 1)  r == bintohex(b, 2 * n + 1)
<1>6. hex = [ret |-> 2 * Len(b), text |-> t]
  BY <1>5, Zenon DEF bintohex_nonull, HexOf
<1>7. r = [hex EXCEPT !.ret = IF @ < 0 THEN @ ELSE @ + 1]
  BY <1>5, Zenon DEF bintohex
<1> HIDE DEF hex, r, t, b, n
<1>8. hex = [ret |-> 2 * n, text |-> t] /\ ~(2 * n < 0)
  BY <1>1, <1>2, <1>6
<1>9. r.ret = 2 * n + 1 /\ r.text = t
  BY <1>7, <1>8
<1>10. fromstring256(r.text).out = x
  BY <1>4, <1>9
<1> QED  BY <1>1, <1>9, <1>10, Zenon DEF BytesRead256, r, b, n

\* The decimal digits, and how many there are
LEMMA DecimalIs ==
  ASSUME NEW x \in Uint256, NEW outLength \in Nat \ {0}
  PROVE  LET dec == tostring256(x, 10, outLength)
             d == DigitsOf(x, OneWord(10))
         IN  /\ dec.out = d /\ NumberOf(d, 10) = Value256(x) /\ Len(d) \in Nat
             /\ dec.ok <=> Len(d) <= outLength
             /\ dec.bytes = IF Len(d) <= outLength THEN Len(d) + 1 ELSE outLength
             /\ \A n \in Nat \ {0} : Len(d) <= n <=> Value256(x) < Power[<<10, n>>]
<1> DEFINE dec == tostring256(x, 10, outLength)  d == DigitsOf(x, OneWord(10))  v == Value256(x)
<1>1. 10 \in 2 .. Base - 1 /\ 10 \in 2 .. 16 /\ 10 \in Nat \ {0}
  BY TenIs
<1>2. Meant(d, v, 10)
  BY <1>1, DigitsMeant
<1>3. dec.ok = Room(d, outLength) /\ dec.out = d
      /\ dec.bytes = IF Room(d, outLength) THEN Len(d) + 1 ELSE outLength
  BY <1>1, ToStringIs
<1>4. v \in Nat
  BY ValueNat
<1> HIDE DEF dec, d, v
<1>5. NumberOf(d, 10) = v /\ Len(d) \in Nat
  BY <1>2 DEF Meant
<1>6. Room(d, outLength) <=> Len(d) <= outLength
  BY DEF Room
<1>7. \A n \in Nat \ {0} : Len(d) <= n <=> v < Power[<<10, n>>]
  BY <1>1, <1>2, <1>4, MeantLength
<1>8. dec.bytes = IF Len(d) <= outLength THEN Len(d) + 1 ELSE outLength
  BY <1>3, <1>6, Zenon
<1>9. dec.ok <=> Len(d) <= outLength
  BY <1>3, <1>6, Zenon
<1> QED  BY <1>3, <1>5, <1>7, <1>8, <1>9, Zenon DEF dec, d, v

\* A number printed in hexadecimal, in bytes and in decimal reads back as itself,
\* and stays in its buffer but for the zero byte.
THEOREM NumbersPrinted ==
  ASSUME NEW x \in Uint256, NEW outLength \in Nat
  PROVE  NumberPrinted(x, outLength)
<1> DEFINE dec == tostring256(x, 10, outLength)  d == DigitsOf(x, OneWord(10))  v == Value256(x)
<1>1. HexReads(x, tostring256(x, HexBase, 2 * BytesOf256 + 1))
  BY HexPrinted
<1>2. BytesRead256(x, bintohex(writeu256BE(x), 2 * BytesOf256 + 1))
  BY BytesPrinted
<1>3. DecimalReads(x, outLength, dec)
  <2> SUFFICES ASSUME outLength > 0
               PROVE  /\ dec.ok => NumberOf(dec.out, 10) = v /\ v < Power[<<10, outLength>>]
                      /\ outLength > 1 /\ v < Power[<<10, outLength - 1>>] =>
                           dec.ok /\ dec.bytes <= outLength
                      /\ dec.bytes <= outLength + 1
    BY Zenon DEF DecimalReads
  <2>1. outLength \in Nat \ {0}
    OBVIOUS
  <2>2. /\ dec.out = d /\ NumberOf(d, 10) = v /\ Len(d) \in Nat
        /\ dec.ok <=> Len(d) <= outLength
        /\ dec.bytes = IF Len(d) <= outLength THEN Len(d) + 1 ELSE outLength
        /\ \A n \in Nat \ {0} : Len(d) <= n <=> v < Power[<<10, n>>]
    BY <2>1, DecimalIs, Zenon
  <2> HIDE DEF dec, d, v
  <2>3. dec.ok => NumberOf(dec.out, 10) = v /\ v < Power[<<10, outLength>>]
    BY <2>1, <2>2, Zenon
  <2>4. dec.bytes <= outLength + 1
    BY <2>1, <2>2
  <2>5. ASSUME outLength > 1, v < Power[<<10, outLength - 1>>]
        PROVE  dec.ok /\ dec.bytes <= outLength
    <3>1. outLength - 1 \in Nat \ {0}
      BY <2>1, <2>5
    <3>2. Len(d) <= outLength - 1
      BY <2>2, <2>5, <3>1, Zenon
    <3>3. Len(d) <= outLength /\ Len(d) + 1 <= outLength
      BY <2>1, <2>2, <3>2
    <3>4. dec.bytes = Len(d) + 1
      BY <2>2, <3>3, Zenon
    <3> QED  BY <2>2, <3>3, <3>4
  <2> QED  BY <2>3, <2>4, <2>5
<1> QED  BY <1>1, <1>2, <1>3, Zenon DEF NumberPrinted

\* The one byte that is not inside: tostring256() takes a decimal number of exactly
\* as many digits as the buffer has bytes, and its zero byte is the one behind it.
THEOREM ZeroByteBehind ==
  ASSUME NEW x \in Uint256, NEW outLength \in Nat \ {0, 1}
  PROVE  tostring256(x, 10, outLength).bytes > outLength
           <=> /\ Power[<<10, outLength - 1>>] <= Value256(x)
               /\ Value256(x) < Power[<<10, outLength>>]
<1> DEFINE dec == tostring256(x, 10, outLength)  d == DigitsOf(x, OneWord(10))  v == Value256(x)
           p == Power[<<10, outLength - 1>>]  q == Power[<<10, outLength>>]
<1>1. outLength \in Nat \ {0} /\ outLength - 1 \in Nat \ {0} /\ outLength - 1 \in Nat
  OBVIOUS
<1>2. /\ Len(d) \in Nat
      /\ dec.bytes = IF Len(d) <= outLength THEN Len(d) + 1 ELSE outLength
      /\ \A n \in Nat \ {0} : Len(d) <= n <=> v < Power[<<10, n>>]
  BY <1>1, DecimalIs, Zenon
<1>3. v \in Nat
  BY ValueNat
<1>4. p \in Nat
  BY <1>1, PowerStep, 10 \in Nat
<1>5. (Len(d) <= outLength - 1 <=> v < p) /\ (Len(d) <= outLength <=> v < q)
  BY <1>1, <1>2, Zenon
<1> HIDE DEF dec, d, v, p, q
<1>6. dec.bytes > outLength <=> p <= v /\ v < q
  BY <1>1, <1>2, <1>3, <1>4, <1>5
<1> QED  BY <1>6, Zenon DEF dec, v, p, q

-----------------------------------------------------------------------------
(* Fixed point numbers.                                                     *)

\* What is left of a number after its last digit
LEMMA ShiftBy ==
  ASSUME NEW n \in Nat, NEW q \in Nat, q > 1
  PROVE  /\ n \div q \in Nat /\ n % q \in Nat /\ n = (n \div q) * q + (n % q)
         /\ n # 0 => n \div q < n
<1> DEFINE a == n \div q  r == n % q
<1>1. a \in Nat /\ r \in 0 .. q - 1 /\ n = a * q + r
  <2>1. q \in Nat \ {0}
    OBVIOUS
  <2> QED  BY <2>1, DivMod, Zenon
<1> HIDE DEF a, r
<1>2. n # 0 => a < n
  <2>1. CASE a = 0
    BY <1>1, <2>1
  <2>2. CASE a # 0
    <3>1. a * 2 <= a * q
      BY <1>1, <2>2, TimesMonotone, 2 \in Nat
    <3> QED  BY <1>1, <2>2, <3>1
  <2> QED  BY <2>1, <2>2
<1> QED  BY <1>1, <1>2 DEF a, r

LEMMA PowerOfProduct ==
  ASSUME NEW b \in Nat, NEW c \in Nat, NEW n \in Nat
  PROVE  Power[<<b * c, n>>] = Power[<<b, n>>] * Power[<<c, n>>]
<1> DEFINE P == {k \in Nat : Power[<<b * c, k>>] = Power[<<b, k>>] * Power[<<c, k>>]}
<1>1. b * c \in Nat
  BY TimesType
<1>2. 0 \in P
  <2>1. Power[<<b * c, 0>>] = 1 /\ Power[<<b, 0>>] = 1 /\ Power[<<c, 0>>] = 1
    BY <1>1, PowerStep, 0 \in Nat, Zenon
  <2> QED  BY <2>1
<1>3. ASSUME NEW k \in P PROVE k + 1 \in P
  <2> DEFINE v == Power[<<b, k>>]  w == Power[<<c, k>>]
  <2>1. /\ k \in Nat /\ v \in Nat /\ w \in Nat /\ Power[<<b * c, k>>] = v * w
        /\ Power[<<b, k + 1>>] = b * v /\ Power[<<c, k + 1>>] = c * w
    BY PowerStep
  <2>2. Power[<<b * c, k + 1>>] = (b * c) * Power[<<b * c, k>>]
    BY <1>1, <2>1, PowerStep
  <2> HIDE DEF v, w
  <2>3. (b * c) * (v * w) = (b * v) * (c * w)
    BY <2>1
  <2>4. k + 1 \in Nat
    BY <2>1
  <2>5. Power[<<b * c, k + 1>>] = Power[<<b, k + 1>>] * Power[<<c, k + 1>>]
    BY <2>1, <2>2, <2>3, Zenon
  <2> QED  BY <2>4, <2>5
<1>4. P \in SUBSET Nat
  OBVIOUS
<1> HIDE DEF P
<1>5. \A k \in Nat : k \in P
  BY <1>2, <1>3, <1>4, Induct
<1> QED  BY <1>5 DEF P

DecimalsBody(d, n) == IF n < 10 THEN <<n>> ELSE Append(d[n \div 10], n % 10)

LEMMA DecimalsDef ==
  /\ Decimals \in [Nat -> Seq(Nat)]
  /\ \A n \in Nat : Decimals[n] = DecimalsBody(Decimals, n)
<1> DEFINE S == Seq(Nat)
           D == Nat
           m == [n \in D |-> n]
           F == [q \in D \X [D -> S] |-> DecimalsBody(q[2], q[1])]
<1>0. \A n \in Nat : <<n>> \in Seq(Nat)
  OBVIOUS
<1>1. \A n \in D : n \div 10 \in D /\ n % 10 \in Nat /\ (~(n < 10) => n \div 10 < n)
  <2> SUFFICES ASSUME NEW n \in Nat
               PROVE  n \div 10 \in Nat /\ n % 10 \in Nat /\ (~(n < 10) => n \div 10 < n)
    OBVIOUS
  <2> QED  BY ShiftBy, 10 \in Nat, 10 > 1
<1>2. F \in [D \X [D -> S] -> S]
  <2> SUFFICES ASSUME NEW x \in D, NEW g \in [D -> S]
               PROVE  DecimalsBody(g, x) \in S
    OBVIOUS
  <2>1. g[x \div 10] \in S
    BY <1>1
  <2>2. Append(g[x \div 10], x % 10) \in S
    BY <1>1, <2>1, AppendProperties
  <2>3. <<x>> \in S
    BY <1>0
  <2> QED  BY <2>2, <2>3 DEF DecimalsBody
<1>3. ASSUME NEW x \in D, NEW g \in [D -> S], NEW h \in [D -> S],
             \A y \in D : m[y] < m[x] => g[y] = h[y]
      PROVE  F[<<x, g>>] = F[<<x, h>>]
  <2>1. ~(x < 10) => g[x \div 10] = h[x \div 10]
    BY <1>1, <1>3
  <2>2. DecimalsBody(g, x) = DecimalsBody(h, x)
    BY <2>1 DEF DecimalsBody
  <2> QED  BY <2>2
<1>4. m \in [D -> Nat] /\ S # {}
  BY <1>0
<1>5. Descends(D, S, m, F)
  <2>1. \A x \in D, g, h \in [D -> S] :
          (\A y \in D : m[y] < m[x] => g[y] = h[y]) => F[<<x, g>>] = F[<<x, h>>]
    BY <1>3
  <2> HIDE DEF S, D, m, F
  <2> QED  BY <1>2, <1>4, <2>1 DEF Descends
<1>6. PICK f : Solves(f, D, S, F)
  <2> HIDE DEF S, D, m, F
  <2> QED  BY <1>4, <1>5, Recursion
<1>7. f \in [D -> S] /\ \A n \in D : f[n] = DecimalsBody(f, n)
  BY <1>6 DEF Solves
<1>8. f = [n \in D |-> DecimalsBody(f, n)]
  BY <1>7
<1>9. Decimals = [n \in D |-> DecimalsBody(Decimals, n)]
  BY <1>8 DEF Decimals, DecimalsBody
<1>10. ASSUME NEW n \in D PROVE Decimals[n] \in S
  <2> DEFINE P == {k \in D : Decimals[k] \in S}
  <2>1. ASSUME NEW x \in D, \A y \in D : m[y] < m[x] => y \in P PROVE x \in P
    <3>1. Decimals[x] = DecimalsBody(Decimals, x)
      BY <1>9
    <3>2. CASE x < 10
      BY <1>0, <3>1, <3>2 DEF DecimalsBody
    <3>3. CASE ~(x < 10)
      <4>1. Decimals[x \div 10] \in S
        BY <1>1, <2>1, <3>3
      <4>2. Append(Decimals[x \div 10], x % 10) \in S
        BY <1>1, <4>1, AppendProperties
      <4> QED  BY <3>1, <3>3, <4>2 DEF DecimalsBody
    <3> QED  BY <3>2, <3>3
  <2>2. \A x \in D : (\A y \in D : m[y] < m[x] => y \in P) => x \in P
    BY <2>1
  <2>3. P \in SUBSET D
    OBVIOUS
  <2> HIDE DEF P, D, m, S
  <2>4. \A x \in D : x \in P
    BY <1>4, <2>2, <2>3, MeasureInduct
  <2> QED  BY <2>4 DEF P
<1> QED  BY <1>9, <1>10

LEMMA OneDigit ==
  ASSUME NEW n \in Nat, NEW base \in Nat
  PROVE  NumberOf(<<n>>, base) = n
<1>1. <<>> \in Seq(Nat) /\ Append(<<>>, n) = <<n>>
  OBVIOUS
<1>2. NumberOf(Append(<<>>, n), base) = NumberOf(<<>>, base) * base + n
  BY <1>1, NumberAppend
<1>3. NumberOf(<<>>, base) = 0
  BY NumberEmpty
<1> QED  BY <1>1, <1>2, <1>3

LEMMA DecimalsMean ==
  ASSUME NEW n \in Nat
  PROVE  Decimals[n] \in Seq(Nat) /\ NumberOf(Decimals[n], 10) = n
<1> DEFINE D == Nat  m == [k \in D |-> k]  P == {k \in D : NumberOf(Decimals[k], 10) = k}
<1>1. ASSUME NEW x \in Nat, \A y \in Nat : m[y] < m[x] => y \in P PROVE x \in P
  <2> DEFINE s == Decimals[x \div 10]
  <2>1. /\ x \div 10 \in Nat /\ x % 10 \in Nat /\ x = (x \div 10) * 10 + (x % 10)
        /\ (x # 0 => x \div 10 < x)
    BY ShiftBy, 10 \in Nat, 10 > 1
  <2>2. Decimals[x] = DecimalsBody(Decimals, x) /\ s \in Seq(Nat)
    BY <2>1, DecimalsDef
  <2>3. CASE x < 10
    <3>1. Decimals[x] = <<x>>
      BY <2>2, <2>3 DEF DecimalsBody
    <3> QED  BY <2>3, <3>1, OneDigit, 10 \in Nat
  <2>4. CASE ~(x < 10)
    <3>1. Decimals[x] = Append(s, x % 10)
      BY <2>2, <2>4 DEF DecimalsBody
    <3>2. NumberOf(s, 10) = x \div 10
      BY <1>1, <2>1, <2>4
    <3> DEFINE d == x % 10
    <3>3. d \in Nat /\ s \in Seq(Nat) /\ 10 \in Nat
      BY <2>1, <2>2
    <3> HIDE DEF d, s
    <3>4. NumberOf(Append(s, d), 10) = NumberOf(s, 10) * 10 + d
      BY <3>3, NumberAppend
    <3> DEFINE e == x \div 10
    <3>5. x = e * 10 + d /\ NumberOf(s, 10) = e /\ Decimals[x] = Append(s, d)
      BY <2>1, <3>1, <3>2, Zenon DEF d
    <3> HIDE DEF e
    <3>6. NumberOf(Decimals[x], 10) = x
      BY <3>4, <3>5
    <3> QED  BY <3>6
  <2> QED  BY <2>3, <2>4
<1>2. \A x \in D : (\A y \in D : m[y] < m[x] => y \in P) => x \in P
  BY <1>1
<1>3. P \in SUBSET D /\ m \in [D -> Nat]
  OBVIOUS
<1>4. n \in P
  <2> HIDE DEF P, m, D
  <2>1. \A x \in D : x \in P
    BY <1>2, <1>3, MeasureInduct
  <2> QED  BY <2>1 DEF D
<1> QED  BY <1>4, DecimalsDef

\* What is left of val / scale after each digit
Leaves(f, val, scale, digits) ==
  /\ f \in [0 .. digits -> Nat] /\ f[0] = val
  /\ \A i \in 1 .. digits : f[i] = (f[i - 1] * 10) % scale

FractionOf(f, scale, n) == [i \in 1 .. n |-> (f[i - 1] * 10) \div scale]

LEMMA LeastOf ==
  ASSUME NEW T \in SUBSET Nat, T # {}
  PROVE  Min(T) \in T /\ \A i \in T : Min(T) <= i
<1>1. PICK k \in T : \A i \in T : k <= i
  BY Least
<1>2. \E x \in T : \A y \in T : x <= y
  BY <1>1
<1> QED  BY <1>2 DEF Min

LEMMA FractionIs ==
  ASSUME NEW val \in Nat, NEW digits \in Nat
  PROVE  \E f : /\ Leaves(f, val, Pow2(digits), digits)
                /\ FractionDigits(val, digits)
                     = FractionOf(f, Pow2(digits), Min({i \in 0 .. digits : f[i] = 0}))
<1> DEFINE N == Nat
           D == 0 .. digits
           scale == Pow2(digits)
           m == [i \in D |-> i]
           Body(g, i) == IF i = 0 THEN val ELSE (g[i - 1] * 10) % scale
           F == [q \in D \X [D -> N] |-> Body(q[2], q[1])]
           left[i \in D] == IF i = 0 THEN val ELSE (left[i - 1] * 10) % scale
<1>0. scale \in Nat \ {0}
  BY Pow2Step
<1>1. \A i \in D : i # 0 => i - 1 \in D /\ i - 1 < i /\ i \in 1 .. digits
  OBVIOUS
<1>a. ASSUME NEW l \in Nat PROVE (l * 10) % scale \in Nat
  <2> HIDE DEF scale
  <2>1. l * 10 \in Nat
    OBVIOUS
  <2> DEFINE k == l * 10
  <2> HIDE DEF k
  <2>2. k % scale \in Nat
    BY <1>0, <2>1, DivMod DEF k
  <2> QED  BY <2>2 DEF k
<1> HIDE DEF scale
<1>2. F \in [D \X [D -> N] -> N]
  <2> SUFFICES ASSUME NEW i \in D, NEW g \in [D -> N] PROVE Body(g, i) \in N
    OBVIOUS
  <2>1. i # 0 => g[i - 1] \in Nat
    BY <1>1
  <2>2. i # 0 => (g[i - 1] * 10) % scale \in Nat
    BY <2>1, <1>a
  <2> QED  BY <2>2
<1>3. m \in [D -> Nat] /\ N # {}
  OBVIOUS
<1>4. ASSUME NEW x \in D, NEW g \in [D -> N], NEW h \in [D -> N],
             \A y \in D : m[y] < m[x] => g[y] = h[y]
      PROVE  F[<<x, g>>] = F[<<x, h>>]
  <2>1. x # 0 => x - 1 \in D /\ m[x - 1] < m[x]
    BY <1>1
  <2>2. x # 0 => g[x - 1] = h[x - 1]
    BY <1>4, <2>1
  <2> QED  BY <2>2
<1>5. Descends(D, N, m, F)
  <2>1. \A x \in D, g, h \in [D -> N] :
          (\A y \in D : m[y] < m[x] => g[y] = h[y]) => F[<<x, g>>] = F[<<x, h>>]
    BY <1>4
  <2> HIDE DEF N, D, m, F
  <2> QED  BY <1>2, <1>3, <2>1 DEF Descends
<1>6. PICK f : Solves(f, D, N, F)
  <2> HIDE DEF N, D, m, F
  <2> QED  BY <1>3, <1>5, Recursion
<1>7. f \in [D -> N] /\ \A i \in D : f[i] = Body(f, i)
  BY <1>6 DEF Solves
<1>8. f = [i \in D |-> IF i = 0 THEN val ELSE (f[i - 1] * 10) % scale]
  BY <1>7
<1>9. left = [i \in D |-> IF i = 0 THEN val ELSE (left[i - 1] * 10) % scale]
  BY <1>8
<1> DEFINE ends == Min({i \in 0 .. digits : left[i] = 0})
<1>10. FractionDigits(val, digits) = [i \in 1 .. ends |-> (left[i - 1] * 10) \div scale]
  BY DEF FractionDigits, scale
<1> HIDE DEF left, ends
<1>11. \A i \in D : left[i] = IF i = 0 THEN val ELSE (left[i - 1] * 10) % scale
  BY <1>9
<1> DEFINE P == {i \in Nat : i \in D => left[i] \in Nat}
<1>12. 0 \in P
  BY <1>11
<1>13. ASSUME NEW i \in P PROVE i + 1 \in P
  <2> SUFFICES ASSUME i + 1 \in D PROVE left[i + 1] \in Nat
    OBVIOUS
  <2>1. i \in D /\ (i + 1) - 1 = i /\ i + 1 # 0
    OBVIOUS
  <2>2. left[i + 1] = (left[i] * 10) % scale /\ left[i] \in Nat
    BY <1>11, <2>1
  <2> QED  BY <1>a, <2>2
<1>14. \A i \in Nat : i \in P
  <2>1. P \in SUBSET Nat
    OBVIOUS
  <2> HIDE DEF P
  <2> QED  BY <1>12, <1>13, <2>1, Induct
<1>15. left \in [D -> Nat]
  <2>1. \A i \in D : left[i] \in Nat
    BY <1>14
  <2> QED  BY <1>9, <2>1
<1>16. Leaves(left, val, scale, digits)
  <2>1. left[0] = val
    BY <1>11
  <2>2. \A i \in 1 .. digits : left[i] = (left[i - 1] * 10) % scale
    BY <1>11
  <2> QED  BY <1>15, <2>1, <2>2 DEF Leaves
<1>17. FractionDigits(val, digits) = FractionOf(left, scale, ends)
  BY <1>10, Zenon DEF FractionOf
<1> QED  BY <1>16, <1>17 DEF scale, ends

LEMMA DigitStep ==
  ASSUME NEW s \in Nat \ {0}, NEW l \in Nat, NEW p \in Nat, NEW q \in Nat, NEW v \in Nat,
         q * s + l = v * p
  PROVE  /\ (l * 10) \div s \in Nat /\ (l * 10) % s \in Nat
         /\ (q * 10 + ((l * 10) \div s)) * s + ((l * 10) % s) = v * (10 * p)
<1> DEFINE a == (l * 10) \div s  r == (l * 10) % s  k == l * 10
<1>0. k \in Nat
  OBVIOUS
<1>1. a \in Nat /\ r \in Nat /\ k = a * s + r
  <2> HIDE DEF k
  <2>1. k \div s \in Nat /\ k % s \in 0 .. s - 1 /\ k = (k \div s) * s + (k % s)
    BY <1>0, DivMod, Zenon
  <2>2. a = k \div s /\ r = k % s
    BY DEF k
  <2> HIDE DEF a, r
  <2>3. r \in 0 .. s - 1
    BY <2>1, <2>2, Zenon
  <2>4. r \in Nat
    BY <2>3
  <2>5. a \in Nat /\ k = a * s + r
    BY <2>1, <2>2, Zenon
  <2> QED  BY <2>4, <2>5
<1> HIDE DEF a, r
<1>2. (q * 10 + a) * s + r = 10 * (q * s + l)
  BY <1>1 DEF k
<1>3. 10 * (v * p) = v * (10 * p)
  OBVIOUS
<1>4. (q * 10 + a) * s + r = v * (10 * p)
  BY <1>2, <1>3
<1> QED  BY <1>1, <1>4 DEF a, r

\* After all the digits of the scale nothing is left: 10^n is 2^n * 5^n.
LEMMA NothingLeft ==
  ASSUME NEW val \in Nat, NEW digits \in Nat, val < Pow2(digits), NEW f,
         Leaves(f, val, Pow2(digits), digits)
  PROVE  f[digits] = 0
<1> DEFINE s == Pow2(digits)
           P == {i \in Nat : i <= digits => /\ f[i] \in 0 .. s - 1
                                            /\ \E q \in Nat : q * s + f[i] = val * Power[<<10, i>>]}
<1>1. /\ s \in Nat \ {0} /\ val < s /\ f \in [0 .. digits -> Nat] /\ f[0] = val
      /\ \A i \in 1 .. digits : f[i] = (f[i - 1] * 10) % s
  BY Pow2Step DEF Leaves
<1> HIDE DEF s
<1>2. 0 \in P
  <2>1. Power[<<10, 0>>] = 1
    BY PowerStep, 10 \in Nat, 0 \in Nat
  <2>2. 0 * s + f[0] = val * Power[<<10, 0>>]
    BY <1>1, <2>1
  <2>3. f[0] \in 0 .. s - 1
    BY <1>1
  <2> QED  BY <2>2, <2>3
<1>3. ASSUME NEW i \in P PROVE i + 1 \in P
  <2> SUFFICES ASSUME i + 1 <= digits
               PROVE  /\ f[i + 1] \in 0 .. s - 1
                      /\ \E q \in Nat : q * s + f[i + 1] = val * Power[<<10, i + 1>>]
    OBVIOUS
  <2>1. i \in Nat /\ i <= digits /\ i + 1 \in 1 .. digits /\ (i + 1) - 1 = i
    OBVIOUS
  <2>2. f[i + 1] = (f[i] * 10) % s /\ f[i] \in Nat
    BY <1>1, <2>1
  <2>3. PICK q \in Nat : q * s + f[i] = val * Power[<<10, i>>]
    BY <2>1
  <2>4. Power[<<10, i>>] \in Nat /\ Power[<<10, i + 1>>] = 10 * Power[<<10, i>>]
    BY <2>1, PowerStep, 10 \in Nat
  <2> DEFINE p == Power[<<10, i>>]  l == f[i]  a == (l * 10) \div s
  <2>5. a \in Nat /\ (q * 10 + a) * s + ((l * 10) % s) = val * (10 * p)
    <3> HIDE DEF p, l
    <3>1. p \in Nat /\ l \in Nat /\ q * s + l = val * p
      BY <2>2, <2>3, <2>4, Zenon DEF p, l
    <3> QED  BY <1>1, <3>1, DigitStep
  <2>6. (q * 10 + a) \in Nat
    BY <2>5
  <2>7. (q * 10 + a) * s + f[i + 1] = val * Power[<<10, i + 1>>]
    BY <2>2, <2>4, <2>5, Zenon
  <2>8. f[i + 1] \in 0 .. s - 1
    <3> DEFINE k == l * 10
    <3>1. k \in Nat
      BY <2>2
    <3>2. f[i + 1] = k % s
      BY <2>2
    <3> HIDE DEF k, l
    <3> QED  BY <1>1, <3>1, <3>2, DivMod
  <2> HIDE DEF a
  <2> QED  BY <2>6, <2>7, <2>8
<1>4. \A i \in Nat : i \in P
  <2>1. P \in SUBSET Nat
    OBVIOUS
  <2> HIDE DEF P
  <2> QED  BY <1>2, <1>3, <2>1, Induct
<1>5. f[digits] \in 0 .. s - 1 /\ \E q \in Nat : q * s + f[digits] = val * Power[<<10, digits>>]
  BY <1>4
<1>6. PICK q \in Nat : q * s + f[digits] = val * Power[<<10, digits>>]
  BY <1>5
<1> DEFINE e == Power[<<5, digits>>]  t == Power[<<10, digits>>]
<1>7. e \in Nat /\ t = s * e
  <2>1. 2 * 5 = 10 /\ 2 \in Nat /\ 5 \in Nat
    OBVIOUS
  <2>2. Power[<<2 * 5, digits>>] = Power[<<2, digits>>] * e
    BY <2>1, PowerOfProduct
  <2>3. e \in Nat
    BY <2>1, PowerStep
  <2> QED  BY <2>1, <2>2, <2>3 DEF s, Pow2
<1> HIDE DEF e, t
<1>8. q * s + f[digits] = (val * e) * s + 0 /\ val * e \in Int
  <2>1. q * s + f[digits] = val * t
    BY <1>6 DEF t
  <2>2. val * (s * e) = (val * e) * s + 0 /\ val * e \in Int
    BY <1>1, <1>7
  <2> QED  BY <1>7, <2>1, <2>2
<1>9. ((val * e) * s + 0) % s = 0
  <2>1. 0 \in 0 .. s - 1
    BY <1>1
  <2> QED  BY <1>1, <1>8, <2>1, DivUnique
<1>10. (q * s + f[digits]) % s = f[digits]
  <2>1. q \in Int
    OBVIOUS
  <2> QED  BY <1>1, <1>5, <2>1, DivUnique
<1> QED  BY <1>8, <1>9, <1>10, Zenon

\* The digits of a fraction mean it, times a power of ten.
LEMMA FractionMeans ==
  ASSUME NEW val \in Nat, NEW digits \in Nat, val < Pow2(digits)
  PROVE  /\ FractionDigits(val, digits) \in Seq(Nat)
         /\ NumberOf(FractionDigits(val, digits), 10) * Pow2(digits)
              = val * Power[<<10, Len(FractionDigits(val, digits))>>]
<1>1. PICK f : /\ Leaves(f, val, Pow2(digits), digits)
               /\ FractionDigits(val, digits)
                    = FractionOf(f, Pow2(digits), Min({i \in 0 .. digits : f[i] = 0}))
  BY FractionIs
<1> DEFINE s == Pow2(digits)
           T == {i \in 0 .. digits : f[i] = 0}
           n == Min(T)
           t == FractionDigits(val, digits)
<1>2. f[digits] = 0
  BY <1>1, NothingLeft
<1>3. T \in SUBSET Nat /\ T # {}
  BY <1>2
<1>4. n \in T
  <2> HIDE DEF T
  <2> QED  BY <1>3, LeastOf
<1>5. n \in Nat /\ n <= digits /\ f[n] = 0
  BY <1>4
<1>6. t = [i \in 1 .. n |-> (f[i - 1] * 10) \div s]
  BY <1>1, Zenon DEF FractionOf
<1>7. /\ s \in Nat \ {0} /\ f \in [0 .. digits -> Nat] /\ f[0] = val
      /\ \A i \in 1 .. digits : f[i] = (f[i - 1] * 10) % s
  BY <1>1, Pow2Step DEF Leaves
<1> HIDE DEF s, T, n, t
<1>8. \A i \in 1 .. n : i - 1 \in 0 .. digits /\ i \in 1 .. digits
  BY <1>5
<1>9. ASSUME NEW i \in 1 .. n PROVE t[i] = (f[i - 1] * 10) \div s /\ t[i] \in Nat
  <2>1. t[i] = (f[i - 1] * 10) \div s
    BY <1>6
  <2> DEFINE k == f[i - 1] * 10
  <2>2. k \in Nat
    <3>1. f[i - 1] \in Nat
      BY <1>7, <1>8
    <3> QED  BY <3>1
  <2>3. t[i] = k \div s
    BY <2>1
  <2> HIDE DEF k
  <2>4. t[i] \in Nat
    BY <1>7, <2>2, <2>3, DivMod
  <2> QED  BY <2>1, <2>4
<1>10. t \in Seq(Nat) /\ Len(t) = n
  <2>1. t = [i \in 1 .. n |-> t[i]]
    BY <1>6
  <2> QED  BY <1>5, <1>9, <2>1, NaturalSeq
<1>11. PICK r : Reads(r, t, 10) /\ NumberOf(t, 10) = r[Len(t)]
  BY <1>10, NumberOfIs, 10 \in Nat
<1>12. /\ r \in [0 .. n -> Nat] /\ r[0] = 0 /\ NumberOf(t, 10) = r[n]
       /\ \A i \in 1 .. n : r[i] = r[i - 1] * 10 + t[i]
  BY <1>10, <1>11, Zenon DEF Reads
<1> DEFINE P == {i \in Nat : i <= n => r[i] * s + f[i] = val * Power[<<10, i>>]}
<1>13. 0 \in P
  <2>1. Power[<<10, 0>>] = 1
    BY PowerStep, 10 \in Nat, 0 \in Nat
  <2> QED  BY <1>7, <1>12, <2>1
<1>14. ASSUME NEW i \in P PROVE i + 1 \in P
  <2> SUFFICES ASSUME i + 1 <= n
               PROVE  r[i + 1] * s + f[i + 1] = val * Power[<<10, i + 1>>]
    OBVIOUS
  <2>1. i \in Nat /\ i <= n /\ i + 1 \in 1 .. n /\ (i + 1) - 1 = i /\ i \in 0 .. n /\ i \in 0 .. digits
    BY <1>5
  <2>2. f[i + 1] = (f[i] * 10) % s /\ f[i] \in Nat
    BY <1>7, <1>8, <2>1
  <2>3. r[i + 1] = r[i] * 10 + t[i + 1] /\ r[i] \in Nat
    BY <1>12, <2>1
  <2>4. t[i + 1] = (f[i] * 10) \div s
    BY <1>9, <2>1
  <2>5. Power[<<10, i>>] \in Nat /\ Power[<<10, i + 1>>] = 10 * Power[<<10, i>>]
    BY <2>1, PowerStep, 10 \in Nat
  <2>6. r[i] * s + f[i] = val * Power[<<10, i>>]
    BY <2>1
  <2> DEFINE p == Power[<<10, i>>]  l == f[i]  q == r[i]
  <2>7. (q * 10 + ((l * 10) \div s)) * s + ((l * 10) % s) = val * (10 * p)
    <3>1. p \in Nat /\ l \in Nat /\ q \in Nat /\ q * s + l = val * p
      BY <2>2, <2>3, <2>5, <2>6, Zenon
    <3> HIDE DEF p, l, q
    <3> QED  BY <1>7, <3>1, DigitStep
  <2> QED  BY <2>2, <2>3, <2>4, <2>5, <2>7, Zenon
<1>15. \A i \in Nat : i \in P
  <2>1. P \in SUBSET Nat
    OBVIOUS
  <2> HIDE DEF P
  <2> QED  BY <1>13, <1>14, <2>1, Induct
<1>16. r[n] * s + f[n] = val * Power[<<10, n>>]
  BY <1>5, <1>15
<1>17. NumberOf(t, 10) * s = val * Power[<<10, Len(t)>>]
  <2>1. r[n] \in Nat
    BY <1>5, <1>12
  <2> DEFINE x == r[n]
  <2>2. x * s + 0 = val * Power[<<10, n>>] /\ x \in Nat
    BY <1>5, <1>16, <2>1
  <2> HIDE DEF x
  <2>3. x * s + 0 = x * s
    BY <1>7, <2>2
  <2>4. NumberOf(t, 10) = x
    BY <1>12 DEF x
  <2> QED  BY <1>10, <2>2, <2>3, <2>4, Zenon
<1> QED  BY <1>10, <1>17 DEF s, t

\* What fp2str() prints whole is the number, if that is of 32 bits, with a whole
\* part below 2^31 and at most 28 binary digits behind it: a fraction of n binary
\* digits has no more than n decimal ones, none of which is lost.
THEOREM FixedPointsExact ==
  ASSUME NEW val \in Nat, NEW digits \in Nat, NEW buf_len \in Nat
  PROVE  FixedPointExact(val, digits, buf_len)
<1> DEFINE s == Pow2(digits)
           a == val \div s
           b == val % s
           int == Decimals[a]
           frac == FractionDigits(b, digits)
           printed == fp2str(val, digits, buf_len).int
<1>1. s \in Nat \ {0}
  BY Pow2Step
<1>2. a \in Nat /\ b \in 0 .. s - 1 /\ val = a * s + b
  <2> HIDE DEF s
  <2> QED  BY <1>1, DivMod, Zenon
<1>3. int \in Seq(Nat) /\ NumberOf(int, 10) = a
  BY <1>2, DecimalsMean
<1>4. frac \in Seq(Nat) /\ NumberOf(frac, 10) * s = b * Power[<<10, Len(frac)>>]
  <2>1. b \in Nat /\ b < s
    BY <1>1, <1>2
  <2> HIDE DEF b
  <2> QED  BY <1>1, <2>1, FractionMeans
<1>5. /\ fp2str(val, digits, buf_len).frac = frac
      /\ printed = SubSeq(int, 1, Min({Len(int), buf_len - 1}))
  BY DEF fp2str
<1> SUFFICES ASSUME Len(int) < buf_len
             PROVE  NumberOf(printed \o frac, 10) * s = val * Power[<<10, Len(frac)>>]
  BY <1>5, Zenon DEF FixedPointExact
<1> HIDE DEF s, a, b, int, frac, printed
<1>6. Min({Len(int), buf_len - 1}) = Len(int)
  <2>1. Len(int) \in Nat /\ Len(int) <= buf_len - 1 /\ buf_len - 1 \in Nat
    BY <1>3
  <2> DEFINE T == {Len(int), buf_len - 1}
  <2>2. T \in SUBSET Nat /\ T # {}
    BY <2>1
  <2>3. Min(T) \in T /\ Min(T) <= Len(int)
    BY <2>2, LeastOf
  <2> QED  BY <2>1, <2>3
<1>7. printed = int
  BY <1>3, <1>5, <1>6
<1> DEFINE p == Power[<<10, Len(frac)>>]  y == NumberOf(frac, 10)
<1>8. p \in Nat /\ y \in Nat
  <2>1. Len(frac) \in Nat
    BY <1>4
  <2> QED  BY <1>4, <2>1, PowerStep, NumberNat, 10 \in Nat
<1>9. NumberOf(int \o frac, 10) = a * p + y
  BY <1>3, <1>4, NumberConcat, 10 \in Nat
<1>10. y * s = b * p
  BY <1>4
<1> HIDE DEF p, y
<1>11. (a * p + y) * s = (a * s + b) * p
  <2>1. b \in Nat
    BY <1>1, <1>2
  <2>2. (a * p + y) * s = a * p * s + y * s
    BY <1>1, <1>2, <1>8
  <2>3. (a * s + b) * p = a * p * s + b * p
    BY <1>1, <1>2, <1>8, <2>1
  <2> QED  BY <1>10, <2>2, <2>3, Zenon
<1> QED  BY <1>2, <1>7, <1>9, <1>11, Zenon DEF p
=============================================================================
