---------------------------- MODULE Uint256_proof ----------------------------
(* Proofs that the arithmetic of uint256.c and ipow() of math.c is that of   *)
(* integers, for words of every even width and every operand.               *)
(*                                                                           *)
(* What a recursive definition computes is found in three steps: a function  *)
(* that solves its equation exists (Recursion), so that the definition is    *)
(* one; its equation then unfolds it; and a statement that passes from all   *)
(* smaller arguments to an argument holds of all (MeasureInduct).  Both rest *)
(* on a set of numbers having a least one, for sets instead of predicates.   *)
EXTENDS Uint256, WellFoundedInduction, TLAPS

-----------------------------------------------------------------------------
(* Induction and recursion.                                                 *)

\* A set of numbers that is not empty has a least one.

LEMMA Least ==
  ASSUME NEW T \in SUBSET Nat, T # {}
  PROVE  \E m \in T : \A k \in T : m <= k
<1> DEFINE R == OpToRel(<, Nat)
<1>1. \A k, m \in Nat : k < m => <<k, m>> \in R
  BY DEF OpToRel
<1> HIDE DEF R
<1>2. IsWellFoundedOn(R, Nat)
  BY NatLessThanWellFounded DEF R
<1>3. PICK x \in T : \A y \in T : ~ (<<y, x>> \in R)
  BY <1>2, WFMin
<1>4. ASSUME NEW y \in T PROVE x <= y
  <2>1. x \in Nat /\ y \in Nat
    OBVIOUS
  <2>2. <<y, x>> \notin R
    BY <1>3
  <2> QED BY <1>1, <2>1, <2>2
<1> QED BY <1>4

\* Induction over the natural numbers, for a set P.
LEMMA Induct ==
  ASSUME NEW P \in SUBSET Nat, 0 \in P, \A n \in P : n + 1 \in P
  PROVE  \A n \in Nat : n \in P
<1> SUFFICES ASSUME Nat \ P # {} PROVE FALSE
  OBVIOUS
<1>1. PICK m \in Nat \ P : \A k \in Nat \ P : m <= k
  BY Least
<1>2. m - 1 \in P
  BY <1>1
<1> QED BY <1>1, <1>2

LEMMA BelowNext ==
  ASSUME NEW a \in Nat, NEW n \in Nat, a < n + 1
  PROVE  a = n \/ a < n
OBVIOUS

\* A recursion that only looks at arguments of smaller measure has a solution.
Descends(D, S, m, F) ==
  /\ m \in [D -> Nat] /\ F \in [D \X [D -> S] -> S]
  /\ \A x \in D, g, h \in [D -> S] :
       (\A y \in D : m[y] < m[x] => g[y] = h[y]) => F[<<x, g>>] = F[<<x, h>>]
Solves(f, D, S, F) == f \in [D -> S] /\ \A x \in D : f[x] = F[<<x, f>>]

LEMMA Recursion ==
  ASSUME NEW D, NEW S, S # {}, NEW m, NEW F, Descends(D, S, m, F)
  PROVE  \E f : Solves(f, D, S, F)
<1> SUFFICES ASSUME m \in [D -> Nat], F \in [D \X [D -> S] -> S],
                    \A x \in D, g, h \in [D -> S] :
                      (\A y \in D : m[y] < m[x] => g[y] = h[y]) => F[<<x, g>>] = F[<<x, h>>]
             PROVE  \E f \in [D -> S] : \A x \in D : f[x] = F[<<x, f>>]
  BY DEF Descends, Solves
<1> DEFINE Upto(n, g) == \A x \in D : m[x] < n => g[x] = F[<<x, g>>]
           P == {n \in Nat : \E g \in [D -> S] : Upto(n, g)}
<1>1. \A n \in Nat : n \in P
  <2>1. 0 \in P
    <3>1. PICK s \in S : TRUE
      OBVIOUS
    <3>2. [x \in D |-> s] \in [D -> S] /\ \A x \in D : ~(m[x] < 0)
      OBVIOUS
    <3> QED BY <3>2
  <2>2. ASSUME NEW n \in Nat, n \in P PROVE n + 1 \in P
    <3>1. PICK g \in [D -> S] : Upto(n, g)
      BY <2>2
    <3> DEFINE h == [x \in D |-> IF m[x] = n THEN F[<<x, g>>] ELSE g[x]]
    <3>2. h \in [D -> S]
      OBVIOUS
    <3>3. ASSUME NEW x \in D, m[x] < n + 1 PROVE h[x] = F[<<x, h>>]
      <4>1. \A y \in D : m[y] < m[x] => g[y] = h[y]
        BY <3>3
      <4>2. F[<<x, g>>] = F[<<x, h>>]
        BY <3>2, <4>1
      <4>4. CASE m[x] = n
        BY <4>2, <4>4
      <4>5. CASE m[x] < n
        BY <4>2, <4>5, <3>1
      <4>3. m[x] \in Nat
        OBVIOUS
      <4>6. m[x] = n \/ m[x] < n
        BY <3>3, <4>3, BelowNext
      <4> QED BY <4>4, <4>5, <4>6
    <3> HIDE DEF h
    <3>4. Upto(n + 1, h)
      BY <3>3
    <3> QED BY <3>2, <3>4
  <2>3. P \in SUBSET Nat
    OBVIOUS
  <2> HIDE DEF P
  <2> QED BY <2>1, <2>2, <2>3, Induct
<1>2. ASSUME NEW n \in Nat, NEW g \in [D -> S], Upto(n, g), NEW k \in Nat, NEW h \in [D -> S], Upto(k, h),
             n <= k
      PROVE  \A x \in D : m[x] < n => g[x] = h[x]
  <2> DEFINE Q == {i \in Nat : \A x \in D : m[x] < n /\ m[x] < i => g[x] = h[x]}
  <2>1. 0 \in Q
    OBVIOUS
  <2>2. ASSUME NEW i \in Nat, i \in Q PROVE i + 1 \in Q
    <3> SUFFICES ASSUME NEW x \in D, m[x] < n, m[x] < i + 1 PROVE g[x] = h[x]
      OBVIOUS
    <3>1. i \in Nat /\ m[x] \in Nat
      OBVIOUS
    <3>2. \A y \in D : m[y] < m[x] => g[y] = h[y]
      <4> SUFFICES ASSUME NEW y \in D, m[y] < m[x] PROVE g[y] = h[y]
        OBVIOUS
      <4>1. m[y] \in Nat
        OBVIOUS
      <4>2. m[y] < n /\ m[y] < i
        BY <3>1, <4>1
      <4> QED BY <2>2, <4>1, <4>2
    <3>3. F[<<x, g>>] = F[<<x, h>>]
      BY <3>2
    <3>4. g[x] = F[<<x, g>>] /\ h[x] = F[<<x, h>>]
      BY <1>2, <3>1
    <3> QED BY <3>3, <3>4
  <2>3. Q \in SUBSET Nat
    OBVIOUS
  <2>4. \A i \in Nat : i \in Q
    <3> HIDE DEF Q
    <3> QED BY <2>1, <2>2, <2>3, Induct
  <2> SUFFICES ASSUME NEW x \in D, m[x] < n PROVE g[x] = h[x]
    OBVIOUS
  <2>5. n \in Q
    BY <2>4
  <2> QED BY <2>5
<1> DEFINE upto == [n \in Nat |-> CHOOSE g \in [D -> S] : Upto(n, g)]
           f == [x \in D |-> upto[m[x] + 1][x]]
<1>3. \A n \in Nat : upto[n] \in [D -> S] /\ Upto(n, upto[n])
  BY <1>1
<1> HIDE DEF upto
<1>4. f \in [D -> S]
  <2>1. \A x \in D : m[x] + 1 \in Nat
    OBVIOUS
  <2> QED BY <1>3, <2>1
<1>5. ASSUME NEW x \in D PROVE f[x] = F[<<x, f>>]
  <2> DEFINE u == upto[m[x] + 1]
  <2>1. m[x] \in Nat /\ m[x] + 1 \in Nat /\ m[x] < m[x] + 1
    OBVIOUS
  <2>5. u \in [D -> S] /\ Upto(m[x] + 1, u)
    BY <1>3, <2>1
  <2>2. ASSUME NEW y \in D, m[y] < m[x] PROVE u[y] = f[y]
    <3>1. m[y] \in Nat /\ m[y] + 1 \in Nat /\ m[x] + 1 \in Nat /\ m[y] + 1 <= m[x] + 1 /\ m[y] < m[y] + 1
      BY <2>1, <2>2
    <3>2. upto[m[y] + 1] \in [D -> S] /\ Upto(m[y] + 1, upto[m[y] + 1])
      BY <1>3, <3>1
    <3> DEFINE v == upto[m[y] + 1]
    <3>3. v \in [D -> S] /\ Upto(m[y] + 1, v)
      BY <3>2
    <3>4. f[y] = v[y]
      OBVIOUS
    <3> HIDE DEF Upto, u, v, f
    <3> DEFINE j == m[y] + 1  k == m[x] + 1
    <3>a. j \in Nat /\ k \in Nat /\ j <= k
      BY <2>1, <3>1
    <3>b. v \in [D -> S] /\ Upto(j, v) /\ u \in [D -> S] /\ Upto(k, u)
      BY <2>5, <3>3
    <3> HIDE DEF j, k
    <3>c. \A z \in D : m[z] < j => v[z] = u[z]
      BY <1>2, <3>a, <3>b
    <3>5. \A z \in D : m[z] < m[y] + 1 => v[z] = u[z]
      BY <3>c, Zenon DEF j
    <3>6. v[y] = u[y]
      BY <3>1, <3>5, Zenon
    <3> QED BY <3>4, <3>6
  <2>3. F[<<x, u>>] = F[<<x, f>>]
    <3> HIDE DEF Upto, u, f
    <3>1. \A y \in D : m[y] < m[x] => u[y] = f[y]
      BY <2>2
    <3> QED BY <1>4, <2>5, <3>1
  <2>4. u[x] = F[<<x, u>>]
    BY <2>1, <2>5
  <2> QED BY <2>3, <2>4
<1> HIDE DEF f
<1> QED BY <1>4, <1>5

\* Induction over a set whose elements have a measure.
LEMMA MeasureInduct ==
  ASSUME NEW D, NEW m, m \in [D -> Nat], NEW P \in SUBSET D,
         \A x \in D : (\A y \in D : m[y] < m[x] => y \in P) => x \in P
  PROVE  \A x \in D : x \in P
<1> SUFFICES ASSUME NEW x \in D, x \notin P PROVE FALSE
  OBVIOUS
<1> DEFINE T == {n \in Nat : \E y \in D : m[y] = n /\ y \notin P}
<1>1. m[x] \in T /\ T \in SUBSET Nat
  OBVIOUS
<1>2. PICK n \in T : \A k \in T : n <= k
  <2> HIDE DEF T
  <2> QED  BY <1>1, Least
<1>3. PICK y \in D : m[y] = n /\ y \notin P
  BY <1>2
<1>4. PICK z \in D : m[z] < m[y] /\ z \notin P
  BY <1>3
<1>5. m[z] \in T /\ m[z] \in Nat /\ m[y] \in Nat
  BY <1>4
<1> QED  BY <1>2, <1>3, <1>4, <1>5

LEMMA Halving ==
  ASSUME NEW n \in Nat
  PROVE  /\ n \div 2 \in Nat /\ n % 2 \in {0, 1} /\ n = 2 * (n \div 2) + (n % 2)
         /\ n # 0 => n \div 2 < n
OBVIOUS

OrBody(f, p) ==
  LET odd == p[1] % 2 = 1 \/ p[2] % 2 = 1
  IN  IF p[1] = 0 \/ p[2] = 0 THEN p[1] + p[2]
      ELSE 2 * f[<<p[1] \div 2, p[2] \div 2>>] + (IF odd THEN 1 ELSE 0)

LEMMA OrDef == 
  /\ Or \in [Nat \X Nat -> Nat]
  /\ \A p \in Nat \X Nat : Or[p] = OrBody(Or, p)
<1> DEFINE N == Nat
           D == Nat \X Nat
           m == [p \in D |-> p[1]]
           F == [q \in D \X [D -> N] |-> OrBody(q[2], q[1])]
<1>1. F \in [D \X [D -> N] -> N]
  <2> SUFFICES ASSUME NEW p \in D, NEW g \in [D -> N]
      PROVE OrBody(g, p) \in Nat
    OBVIOUS
  <2>1. <<p[1] \div 2, p[2] \div 2>> \in D
    BY Halving
  <2> QED BY <2>1 DEF OrBody
<1>2. m \in [D -> Nat] /\ N # {}
  OBVIOUS
<1>3. ASSUME NEW x \in D, NEW g \in [D -> N], NEW h \in [D -> N],
             \A y \in D : m[y] < m[x] => g[y] = h[y]
      PROVE  F[<<x, g>>] = F[<<x, h>>]
  <2> DEFINE y == <<x[1] \div 2, x[2] \div 2>>
  <2>1. y \in D /\ (x[1] # 0 => m[y] < m[x])
    BY Halving
  <2>2. x[1] # 0 => g[y] = h[y]
    BY <1>3, <2>1
  <2> QED BY <2>2 DEF OrBody
<1>4. Descends(D, N, m, F)
  <2>1. \A x \in D, g, h \in [D -> N] :
          (\A y \in D : m[y] < m[x] => g[y] = h[y]) => F[<<x, g>>] = F[<<x, h>>]
    BY <1>3
  <2> HIDE DEF N, D, m, F
  <2> QED BY <1>1, <1>2, <2>1 DEF Descends
<1>5. PICK f : Solves(f, D, N, F)
  <2> HIDE DEF N, D, m, F
  <2> QED BY <1>2, <1>4, Recursion
<1>6. f \in [D -> N] /\ \A p \in D : f[p] = OrBody(f, p)
  BY <1>5 DEF Solves
<1>7. f = [p \in D |-> OrBody(f, p)]
  BY <1>6
<1>8. Or = [p \in D |-> OrBody(Or, p)]
  BY <1>7 DEF Or, OrBody
<1>9. \A p \in D : Or[p] = OrBody(Or, p)
  BY <1>8
<1>10. ASSUME NEW p \in D PROVE Or[p] \in Nat
  <2> DEFINE P == {n \in Nat : \A y \in D : m[y] <= n => Or[y] \in Nat}
  <2>1. 0 \in P
    <3> SUFFICES ASSUME NEW y \in D, m[y] <= 0 PROVE Or[y] \in Nat
      OBVIOUS
    <3>1. y[1] = 0 /\ y[2] \in Nat
      OBVIOUS
    <3>2. Or[y] = OrBody(Or, y)
      BY <1>9
    <3>3. OrBody(Or, y) = y[1] + y[2]
      BY <3>1 DEF OrBody
    <3> QED BY <3>1, <3>2, <3>3
  <2>2. ASSUME NEW n \in Nat, n \in P PROVE n + 1 \in P
    <3> SUFFICES ASSUME NEW y \in D, m[y] <= n + 1 PROVE Or[y] \in Nat
      OBVIOUS
    <3> DEFINE z == <<y[1] \div 2, y[2] \div 2>>
    <3>1. z \in D /\ (y[1] # 0 => m[z] <= n)
      BY Halving
    <3>2. y[1] # 0 => Or[z] \in Nat
      BY <2>2, <3>1
    <3> QED BY <1>9, <3>2 DEF OrBody
  <2>3. \A n \in Nat : n \in P
    <3> HIDE DEF P
    <3>1. P \in SUBSET Nat
      BY DEF P
    <3> QED BY <2>1, <2>2, <3>1, Induct
  <2>4. m[p] \in P
    BY <2>3
  <2> QED BY <2>4
<1> QED
  BY <1>8, <1>9, <1>10
LEMMA TimesType ==
  ASSUME NEW a \in Nat, NEW b \in Nat
  PROVE  a * b \in Nat /\ a * b = b * a
OBVIOUS

LEMMA TimesMonotone ==
  ASSUME NEW a \in Nat, NEW b \in Nat, NEW c \in Nat, a <= b
  PROVE  a * c <= b * c /\ c * a <= c * b
<1>1. (b - a) * c >= 0 /\ (b - a) * c = b * c - a * c
  OBVIOUS
<1> QED BY <1>1

LEMMA DivMod ==
  ASSUME NEW n \in Nat, NEW q \in Nat \ {0}
  PROVE  n \div q \in Nat /\ n % q \in 0 .. q - 1 /\ n = (n \div q) * q + (n % q)
OBVIOUS

LEMMA DivUnique ==
  ASSUME NEW q \in Nat \ {0}, NEW a \in Int, NEW b \in 0 .. q - 1
  PROVE  (a * q + b) \div q = a /\ (a * q + b) % q = b
OBVIOUS

\* The digit n shifted left by the digit p of a word p * q.
LEMMA Shifted ==
  ASSUME NEW p \in Nat \ {0}, NEW q \in Nat \ {0}, NEW n \in 0 .. p * q - 1
  PROVE  /\ n \div q \in 0 .. p - 1 /\ n % q \in 0 .. q - 1
         /\ n = (n \div q) * q + (n % q)
         /\ (n * p) % (p * q) = (n % q) * p
         /\ (n % q) * p \in Nat /\ (n % q) * p <= p * q - p
<1> DEFINE a == n \div q  b == n % q
<1>0. n \in Nat
  OBVIOUS
<1>1. a \in Nat /\ b \in 0 .. q - 1 /\ n = a * q + b
  BY <1>0, DivMod
<1> HIDE DEF a, b
<1>2. a < p
  <2> SUFFICES ASSUME p <= a PROVE FALSE
    BY <1>1
  <2>1. p * q <= a * q
    BY <1>1, TimesMonotone
  <2> QED BY <1>1, <2>1
<1>3. b * p \in Nat /\ b * p <= (q - 1) * p
  BY <1>1, TimesMonotone, TimesType
<1>4. (q - 1) * p = p * q - p /\ p * q \in Nat \ {0}
  OBVIOUS
<1>5. n * p = a * (p * q) + b * p
  BY <1>1
<1>6. (n * p) % (p * q) = b * p
  <2> DEFINE m == p * q  c == b * p
  <2>1. m \in Nat \ {0} /\ c \in 0 .. m - 1 /\ n * p = a * m + c
    BY <1>3, <1>4, <1>5
  <2> HIDE DEF m, c
  <2>2. (a * m + c) % m = c
    BY <1>1, <2>1, DivUnique
  <2>3. (n * p) % m = c
    BY <2>1, <2>2
  <2> QED BY <2>3 DEF m, c
<1> QED BY <1>1, <1>2, <1>3, <1>4, <1>6 DEF a, b

-----------------------------------------------------------------------------
(* Powers.                                                                  *)

LEMMA Predecessor ==
  ASSUME NEW n \in Nat
  PROVE  n # 0 => n - 1 \in Nat /\ n - 1 < n
OBVIOUS

PowerBody(f, p) == IF p[2] = 0 THEN 1 ELSE p[1] * f[<<p[1], p[2] - 1>>]

LEMMA PowerDef ==
  \A p \in Nat \X Nat : Power[p] \in Nat /\ Power[p] = PowerBody(Power, p)
<1> DEFINE N == Nat
           D == Nat \X Nat
           m == [p \in D |-> p[2]]
           F == [q \in D \X [D -> N] |-> PowerBody(q[2], q[1])]
<1>1. F \in [D \X [D -> N] -> N]
  <2> SUFFICES ASSUME NEW p \in D, NEW g \in [D -> N]
               PROVE  PowerBody(g, p) \in Nat
    OBVIOUS
  <2>1. p[2] # 0 => <<p[1], p[2] - 1>> \in D
    OBVIOUS
  <2> QED  BY <2>1 DEF PowerBody
<1>2. m \in [D -> Nat] /\ N # {}
  OBVIOUS
<1>3. ASSUME NEW x \in D, NEW g \in [D -> N], NEW h \in [D -> N],
             \A y \in D : m[y] < m[x] => g[y] = h[y]
      PROVE  F[<<x, g>>] = F[<<x, h>>]
  <2> DEFINE y == <<x[1], x[2] - 1>>
  <2>0. x[1] \in Nat /\ x[2] \in Nat
    OBVIOUS
  <2>3. x[2] # 0 => x[2] - 1 \in Nat /\ x[2] - 1 < x[2]
    BY <2>0, Predecessor
  <2>1. x[2] # 0 => y \in D /\ m[y] < m[x]
    BY <2>0, <2>3, Zenon
  <2>2. x[2] # 0 => g[y] = h[y]
    BY <1>3, <2>1
  <2> QED  BY <2>2 DEF PowerBody
<1>4. Descends(D, N, m, F)
  <2>1. \A x \in D, g, h \in [D -> N] :
          (\A y \in D : m[y] < m[x] => g[y] = h[y]) => F[<<x, g>>] = F[<<x, h>>]
    BY <1>3
  <2> HIDE DEF N, D, m, F
  <2> QED  BY <1>1, <1>2, <2>1 DEF Descends
<1>5. PICK f : Solves(f, D, N, F)
  <2> HIDE DEF N, D, m, F
  <2> QED  BY <1>2, <1>4, Recursion
<1>6. f \in [D -> N] /\ \A p \in D : f[p] = PowerBody(f, p)
  BY <1>5 DEF Solves
<1>7. f = [p \in D |-> PowerBody(f, p)]
  BY <1>6
<1>8. Power = [p \in D |-> PowerBody(Power, p)]
  BY <1>7 DEF Power, PowerBody
<1>9. \A p \in D : Power[p] = PowerBody(Power, p)
  BY <1>8
<1> DEFINE P == {p \in D : Power[p] \in Nat}
<1>10. ASSUME NEW x \in D, \A y \in D : m[y] < m[x] => y \in P
       PROVE  x \in P
  <2> DEFINE y == <<x[1], x[2] - 1>>
  <2>0. x[1] \in Nat /\ x[2] \in Nat
    OBVIOUS
  <2>1. x[2] # 0 => y \in D /\ m[y] < m[x]
    BY <2>0
  <2>2. x[2] # 0 => Power[y] \in Nat
    BY <1>10, <2>1
  <2> QED  BY <1>9, <2>2 DEF PowerBody
<1>11. \A p \in D : p \in P
  <2>1. P \in SUBSET D
    OBVIOUS
  <2> HIDE DEF P, D, m
  <2> QED  BY <1>2, <1>10, <2>1, MeasureInduct
<1> QED  BY <1>9, <1>11

LEMMA PowerStep ==
  ASSUME NEW b \in Nat, NEW n \in Nat
  PROVE  /\ Power[<<b, n>>] \in Nat
         /\ Power[<<b, 0>>] = 1
         /\ Power[<<b, n + 1>>] = b * Power[<<b, n>>]
<1>1. Power[<<b, n>>] \in Nat
  BY PowerDef
<1>2. Power[<<b, 0>>] = 1
  BY PowerDef DEF PowerBody
<1>3. Power[<<b, n + 1>>] = PowerBody(Power, <<b, n + 1>>)
  BY PowerDef
<1>4. (n + 1) - 1 = n /\ n + 1 # 0
  OBVIOUS
<1>5. PowerBody(Power, <<b, n + 1>>) = b * Power[<<b, n>>]
  BY <1>4 DEF PowerBody
<1> QED  BY <1>1, <1>2, <1>3, <1>5

LEMMA PowerSum ==
  ASSUME NEW b \in Nat, NEW k \in Nat, NEW n \in Nat
  PROVE  Power[<<b, k + n>>] = Power[<<b, k>>] * Power[<<b, n>>]
<1> DEFINE P == {i \in Nat : Power[<<b, k + i>>] = Power[<<b, k>>] * Power[<<b, i>>]}
<1>1. 0 \in P
  <2>1. k + 0 = k /\ 0 \in Nat
    OBVIOUS
  <2>2. Power[<<b, k>>] \in Nat /\ Power[<<b, 0>>] = 1
    BY PowerStep
  <2>3. Power[<<b, k + 0>>] = Power[<<b, k>>] * Power[<<b, 0>>]
    BY <2>1, <2>2
  <2> QED  BY <2>1, <2>3
<1>2. ASSUME NEW i \in Nat, i \in P PROVE i + 1 \in P
  <2> DEFINE pk == Power[<<b, k>>]  pi == Power[<<b, i>>]  s == Power[<<b, k + i>>]
  <2>0. k + i \in Nat
    OBVIOUS
  <2>1. pk \in Nat /\ pi \in Nat /\ s \in Nat /\ k + i \in Nat
    BY <2>0, PowerStep
  <2>2. s = pk * pi
    BY <1>2
  <2>3. Power[<<b, (k + i) + 1>>] = b * s /\ Power[<<b, i + 1>>] = b * pi
    BY <2>1, PowerStep
  <2>4. k + (i + 1) = (k + i) + 1
    OBVIOUS
  <2>5. Power[<<b, k + (i + 1)>>] = b * s
    BY <2>3, <2>4
  <2> HIDE DEF pk, pi, s
  <2>6. b * s = pk * (b * pi)
    BY <2>1, <2>2
  <2> QED  BY <2>3, <2>5, <2>6 DEF pk
<1>3. \A i \in Nat : i \in P
  <2>1. P \in SUBSET Nat
    OBVIOUS
  <2> HIDE DEF P
  <2> QED  BY <1>1, <1>2, <2>1, Induct
<1> QED  BY <1>3

LEMMA Pow2Step ==
  ASSUME NEW n \in Nat
  PROVE  /\ Pow2(n) \in Nat \ {0} /\ Pow2(0) = 1 /\ Pow2(1) = 2
         /\ Pow2(n + 1) = 2 * Pow2(n)
<1> DEFINE P == {i \in Nat : Pow2(i) # 0}
<1>1. \A i \in Nat : Pow2(i) \in Nat /\ Pow2(i + 1) = 2 * Pow2(i) /\ Pow2(0) = 1
  BY PowerStep DEF Pow2
<1>2. 0 \in P /\ \A i \in P : i + 1 \in P
  BY <1>1
<1>3. \A i \in Nat : i \in P
  <2>1. P \in SUBSET Nat
    OBVIOUS
  <2> HIDE DEF P
  <2> QED  BY <1>2, <2>1, Induct
<1>4. Pow2(0 + 1) = 2
  BY <1>1
<1> QED  BY <1>1, <1>3, <1>4

LEMMA Pow2Sum ==
  ASSUME NEW k \in Nat, NEW n \in Nat
  PROVE  Pow2(k + n) = Pow2(k) * Pow2(n)
BY PowerSum DEF Pow2

LEMMA Pow2Split ==
  ASSUME NEW n \in Nat, NEW k \in 0 .. n
  PROVE  Pow2(n) = Pow2(k) * Pow2(n - k)
<1>1. n - k \in Nat /\ k \in Nat /\ k + (n - k) = n
  OBVIOUS
<1> QED  BY <1>1, Pow2Sum

LEMMA BaseType ==
  /\ W \in Nat \ {0} /\ W \div 2 \in Nat /\ W = W \div 2 + W \div 2
  /\ HalfBase \in Nat \ {0} /\ Base = HalfBase * HalfBase
  /\ Base \in Nat \ {0, 1} /\ HalfBase >= 2
  /\ Base128 \in Nat \ {0} /\ Base256 \in Nat \ {0}
<1>1. W \in Nat \ {0} /\ W \div 2 \in Nat \ {0} /\ W = W \div 2 + W \div 2
  BY WordAssumption
<1>2. Base = HalfBase * HalfBase
  BY <1>1, Pow2Sum DEF Base, HalfBase
<1>3. HalfBase \in Nat /\ HalfBase >= 2
  <2> DEFINE k == W \div 2 - 1
  <2>1. k \in Nat /\ k + 1 = W \div 2
    BY <1>1
  <2> HIDE DEF k
  <2>2. HalfBase = 2 * Pow2(k) /\ Pow2(k) \in Nat \ {0}
    BY <2>1, Pow2Step DEF HalfBase
  <2> QED  BY <2>2
<1>4. Base \in Nat /\ Base >= 4
  <2>1. 2 * 2 <= HalfBase * 2 /\ 2 * HalfBase <= HalfBase * HalfBase
    BY <1>3, TimesMonotone
  <2> QED  BY <1>2, <1>3, <2>1
<1>5. Base128 \in Nat \ {0}
  BY <1>4 DEF Base128
<1>6. Base256 \in Nat \ {0}
  BY <1>5 DEF Base256
<1> QED  BY <1>1, <1>2, <1>3, <1>4, <1>5, <1>6

-----------------------------------------------------------------------------
(* The arithmetic of uint256.c, for words of any width: what carries and     *)
(* borrows, and that it gets to where it belongs.                            *)

\* Integers modulo a width, and numbers of two digits.
LEMMA Wrap ==
  ASSUME NEW b \in Nat \ {0}, NEW n \in 0 .. b - 1, NEW k \in Int
  PROVE  (n + k * b) % b = n
OBVIOUS

LEMMA OneOver ==
  ASSUME NEW b \in Nat \ {0}, NEW t \in Nat, t < 2 * b
  PROVE  \E k \in {0, 1} : t % b = t - k * b /\ t % b \in 0 .. b - 1
<1>1. CASE t < b
  <2>1. t % b = t
    BY <1>1
  <2> QED  BY <1>1, <2>1
<1>2. CASE t >= b
  <2>1. t % b = t - b
    BY <1>2
  <2> QED  BY <1>2, <2>1
<1> QED  BY <1>1, <1>2

LEMMA OneUnder ==
  ASSUME NEW b \in Nat \ {0}, NEW t \in Int, -b <= t, t < b
  PROVE  \E k \in {0, 1} : t % b = t + k * b /\ t % b \in 0 .. b - 1
<1>1. CASE t >= 0
  <2>1. t % b = t
    BY <1>1
  <2> QED  BY <1>1, <2>1
<1>2. CASE t < 0
  <2>1. t % b = t + b
    BY <1>2
  <2> QED  BY <1>2, <2>1
<1> QED  BY <1>1, <1>2

LEMMA TwoDigits ==
  ASSUME NEW b \in Nat \ {0}, NEW u \in 0 .. b - 1, NEW l \in 0 .. b - 1
  PROVE  u * b + l \in 0 .. b * b - 1
<1>1. u * b >= 0 /\ (b - 1 - u) * b >= 0 /\ u * b \in Int
  OBVIOUS
<1>2. (b - 1 - u) * b = b * b - b - u * b
  OBVIOUS
<1> QED  BY <1>1, <1>2

LEMMA DigitsCompare ==
  ASSUME NEW b \in Nat \ {0}, NEW u \in 0 .. b - 1, NEW l \in 0 .. b - 1,
         NEW v \in 0 .. b - 1, NEW m \in 0 .. b - 1
  PROVE  /\ u * b + l > v * b + m <=> IF u = v THEN l > m ELSE u > v
         /\ u * b + l = v * b + m <=> u = v /\ l = m
<1>1. u * b \in Int /\ v * b \in Int
  OBVIOUS
<1>2. u > v => u * b >= v * b + b
  OBVIOUS
<1>3. v > u => v * b >= u * b + b
  OBVIOUS
<1> QED  BY <1>1, <1>2, <1>3

LEMMA HalvesType ==
  ASSUME NEW x \in Uint128
  PROVE  /\ Base \in Nat \ {0, 1}
         /\ UPPER(x) \in 0 .. Base - 1 /\ LOWER(x) \in 0 .. Base - 1
         /\ x = <<UPPER(x), LOWER(x)>>
BY BaseType DEF Uint128, UPPER, LOWER

LEMMA Value128Type ==
  ASSUME NEW x \in Uint128
  PROVE  Value128(x) \in 0 .. Base128 - 1 /\ Base128 \in Nat \ {0}
<1>1. Value128(x) \in 0 .. Base128 - 1
  BY HalvesType, TwoDigits DEF Value128, Base128
<1> QED  BY <1>1, HalvesType DEF Base128

LEMMA Value256Type ==
  ASSUME NEW x \in Uint256
  PROVE  /\ UPPER(x) \in Uint128 /\ LOWER(x) \in Uint128
         /\ Value256(x) \in 0 .. Base256 - 1 /\ Base256 \in Nat \ {0}
<1>1. UPPER(x) \in Uint128 /\ LOWER(x) \in Uint128
  BY DEF Uint256, UPPER, LOWER
<1>2. Value256(x) \in 0 .. Base256 - 1
  BY <1>1, Value128Type, TwoDigits DEF Value256, Base256
<1> QED  BY <1>1, <1>2, Value128Type DEF Base256

LEMMA Compare128 ==
  ASSUME NEW x \in Uint128, NEW y \in Uint128
  PROVE  /\ Gt128(x, y) <=> Value128(x) > Value128(y)
         /\ Equal128(x, y) <=> Value128(x) = Value128(y)
BY HalvesType, DigitsCompare DEF Gt128, Equal128, Value128

LEMMA Compare256 ==
  ASSUME NEW x \in Uint256, NEW y \in Uint256
  PROVE  /\ Gt256(x, y) <=> Value256(x) > Value256(y)
         /\ Gte256(x, y) <=> Value256(x) >= Value256(y)
<1> DEFINE u == Value128(UPPER(x))  l == Value128(LOWER(x))
           v == Value128(UPPER(y))  m == Value128(LOWER(y))
<1>1. /\ Base128 \in Nat \ {0}
      /\ u \in 0 .. Base128 - 1 /\ l \in 0 .. Base128 - 1
      /\ v \in 0 .. Base128 - 1 /\ m \in 0 .. Base128 - 1
  BY Value256Type, Value128Type
<1>2. Value256(x) = u * Base128 + l /\ Value256(y) = v * Base128 + m
  BY DEF Value256
<1>3. (Gt256(x, y) <=> IF u = v THEN l > m ELSE u > v)
      /\ (Equal256(x, y) <=> u = v /\ l = m)
  BY Value256Type, Compare128 DEF Gt256, Equal256
<1> HIDE DEF u, l, v, m
<1>4. /\ u * Base128 + l > v * Base128 + m <=> IF u = v THEN l > m ELSE u > v
      /\ u * Base128 + l = v * Base128 + m <=> u = v /\ l = m
  BY <1>1, DigitsCompare
<1>5. Value256(x) \in Int /\ Value256(y) \in Int
  BY Value256Type
<1> QED  BY <1>2, <1>3, <1>4, <1>5 DEF Gte256

\* One carry leaves a pair of words, and it is seen as an overflow of the sum.
LEMMA Carry128 ==
  ASSUME NEW x \in Uint128, NEW y \in Uint128
  PROVE  /\ Add128(x, y) \in Uint128
         /\ \E c \in {0, 1} : Value128(Add128(x, y)) = Value128(x) + Value128(y) - c * Base128
<1> DEFINE xu == UPPER(x)  xl == LOWER(x)  yu == UPPER(y)  yl == LOWER(y)
           low == Word(xl + yl)
           up == Word(xu + yu + Bit(low < xl))
<1>1. /\ Base \in Nat \ {0} /\ Base >= 2
      /\ xu \in 0 .. Base - 1 /\ xl \in 0 .. Base - 1
      /\ yu \in 0 .. Base - 1 /\ yl \in 0 .. Base - 1
  BY HalvesType
<1>2. Add128(x, y) = <<up, low>>
  BY DEF Add128
<1>3. Value128(x) = xu * Base + xl /\ Value128(y) = yu * Base + yl
      /\ Value128(Add128(x, y)) = up * Base + low
  BY <1>2 DEF Value128, UPPER, LOWER
<1> HIDE DEF xu, xl, yu, yl
<1>4. PICK c1 \in {0, 1} : low = xl + yl - c1 * Base /\ low \in 0 .. Base - 1
                          /\ Bit(low < xl) = c1
  <2>1. CASE xl + yl < Base
    <3>1. low = xl + yl
      BY <1>1, <2>1 DEF Word
    <3> QED  BY <1>1, <2>1, <3>1 DEF Bit
  <2>2. CASE xl + yl >= Base
    <3>1. low = xl + yl - Base
      BY <1>1, <2>2 DEF Word
    <3> QED  BY <1>1, <2>2, <3>1 DEF Bit
  <2> QED  BY <1>1, <2>1, <2>2
<1> HIDE DEF low
<1>5. up = (xu + yu + c1) % Base
  BY <1>4 DEF Word
<1> HIDE DEF up
<1>6. PICK c2 \in {0, 1} : up = (xu + yu + c1) - c2 * Base /\ up \in 0 .. Base - 1
  <2> DEFINE t == xu + yu + c1
  <2>1. Base \in Nat \ {0} /\ t \in Nat /\ t < 2 * Base
    BY <1>1
  <2>2. up = t % Base
    BY <1>5
  <2> HIDE DEF t
  <2>3. PICK k \in {0, 1} : t % Base = t - k * Base /\ t % Base \in 0 .. Base - 1
    BY <2>1, OneOver
  <2>4. up = t - k * Base /\ up \in 0 .. Base - 1
    BY <2>2, <2>3, Zenon
  <2>5. up = (xu + yu + c1) - k * Base
    BY <2>4, Zenon DEF t
  <2> QED  BY <2>4, <2>5, Zenon
<1>7. up * Base + low = (xu * Base + xl) + (yu * Base + yl) - c2 * (Base * Base)
  BY <1>1, <1>4, <1>6
<1>8. Add128(x, y) \in Uint128
  BY <1>2, <1>4, <1>6 DEF Uint128
<1> QED  BY <1>3, <1>7, <1>8 DEF Base128

LEMMA Borrow128 ==
  ASSUME NEW x \in Uint128, NEW y \in Uint128
  PROVE  /\ Minus128(x, y) \in Uint128
         /\ \E c \in {0, 1} : Value128(Minus128(x, y)) = Value128(x) - Value128(y) + c * Base128
<1> DEFINE xu == UPPER(x)  xl == LOWER(x)  yu == UPPER(y)  yl == LOWER(y)
           low == Word(xl - yl)
           up == Word(xu - yu - Bit(low > xl))
<1>1. /\ Base \in Nat \ {0} /\ Base >= 2
      /\ xu \in 0 .. Base - 1 /\ xl \in 0 .. Base - 1
      /\ yu \in 0 .. Base - 1 /\ yl \in 0 .. Base - 1
  BY HalvesType
<1>2. Minus128(x, y) = <<up, low>>
  BY DEF Minus128
<1>3. Value128(x) = xu * Base + xl /\ Value128(y) = yu * Base + yl
      /\ Value128(Minus128(x, y)) = up * Base + low
  BY <1>2 DEF Value128, UPPER, LOWER
<1> HIDE DEF xu, xl, yu, yl
<1>4. PICK c1 \in {0, 1} : low = xl - yl + c1 * Base /\ low \in 0 .. Base - 1
                          /\ Bit(low > xl) = c1
  <2>1. CASE xl >= yl
    <3>1. low = xl - yl
      BY <1>1, <2>1 DEF Word
    <3> QED  BY <1>1, <2>1, <3>1 DEF Bit
  <2>2. CASE xl < yl
    <3>1. low = xl - yl + Base
      BY <1>1, <2>2 DEF Word
    <3> QED  BY <1>1, <2>2, <3>1 DEF Bit
  <2> QED  BY <1>1, <2>1, <2>2
<1> HIDE DEF low
<1>5. up = (xu - yu - c1) % Base
  BY <1>4 DEF Word
<1> HIDE DEF up
<1>6. PICK c2 \in {0, 1} : up = xu - yu - c1 + c2 * Base /\ up \in 0 .. Base - 1
  <2> DEFINE t == xu - yu - c1
  <2>1. Base \in Nat \ {0} /\ t \in Int /\ -Base <= t /\ t < Base
    BY <1>1
  <2>2. up = t % Base
    BY <1>5
  <2> HIDE DEF t
  <2>3. PICK k \in {0, 1} : t % Base = t + k * Base /\ t % Base \in 0 .. Base - 1
    BY <2>1, OneUnder
  <2>4. up = t + k * Base /\ up \in 0 .. Base - 1
    BY <2>2, <2>3, Zenon
  <2>5. up = xu - yu - c1 + k * Base
    BY <2>4, Zenon DEF t
  <2> QED  BY <2>4, <2>5, Zenon
<1>7. up * Base + low = (xu * Base + xl) - (yu * Base + yl) + c2 * (Base * Base)
  BY <1>1, <1>4, <1>6
<1>8. Minus128(x, y) \in Uint128
  BY <1>2, <1>4, <1>6 DEF Uint128
<1> QED  BY <1>3, <1>7, <1>8 DEF Base128

LEMMA One128Is == One128 \in Uint128 /\ Value128(One128) = 1
BY BaseType DEF One128, Uint128, Value128, UPPER, LOWER

\* The carry of the low halves is found by comparing, and added on its own.
LEMMA Add256Exact ==
  ASSUME NEW x \in Uint256, NEW y \in Uint256
  PROVE  /\ Add256(x, y) \in Uint256
         /\ Value256(Add256(x, y)) = (Value256(x) + Value256(y)) % Base256
<1> DEFINE xu == Value128(UPPER(x))  xl == Value128(LOWER(x))
           yu == Value128(UPPER(y))  yl == Value128(LOWER(y))
           low == Add128(LOWER(x), LOWER(y))
           high == Add128(UPPER(x), UPPER(y))
           top == IF Gt128(LOWER(x), low) THEN Add128(high, One128) ELSE high
           h == Value128(high)  l == Value128(low)  t == Value128(top)
<1>1. /\ Base128 \in Nat \ {0}
      /\ xu \in 0 .. Base128 - 1 /\ xl \in 0 .. Base128 - 1
      /\ yu \in 0 .. Base128 - 1 /\ yl \in 0 .. Base128 - 1
  BY Value256Type, Value128Type
<1>2. low \in Uint128 /\ high \in Uint128 /\ top \in Uint128
  BY Value256Type, Carry128, One128Is
<1>3. Add256(x, y) = <<top, low>> /\ Value256(Add256(x, y)) = t * Base128 + l
  BY DEF Add256, Value256, UPPER, LOWER
<1>4. PICK c1 \in {0, 1} : l = xl + yl - c1 * Base128
  BY Value256Type, Carry128
<1>5. PICK c2 \in {0, 1} : h = xu + yu - c2 * Base128
  BY Value256Type, Carry128
<1>6. Gt128(LOWER(x), low) <=> xl > l
  BY <1>2, Value256Type, Compare128
<1>7. l \in 0 .. Base128 - 1 /\ h \in 0 .. Base128 - 1
  BY <1>2, Value128Type
<1>8. xl > l <=> c1 = 1
  BY <1>1, <1>4, <1>7
<1>9. PICK c3 \in {0, 1} : t = h + c1 - c3 * Base128
  <2>1. CASE c1 = 1
    <3>1. top = Add128(high, One128)
      BY <1>6, <1>8, <2>1
    <3>2. \E c3 \in {0, 1} : t = h + 1 - c3 * Base128
      BY <1>2, <3>1, Carry128, One128Is
    <3> QED  BY <2>1, <3>2
  <2>2. CASE c1 = 0
    <3>1. t = h
      BY <1>6, <1>8, <2>2
    <3> QED  BY <1>1, <1>7, <2>2, <3>1
  <2> QED  BY <2>1, <2>2
<1>10. Value256(x) = xu * Base128 + xl /\ Value256(y) = yu * Base128 + yl
  BY DEF Value256
<1>11. Add256(x, y) \in Uint256
  BY <1>2, <1>3 DEF Uint256
<1>12. Value256(Add256(x, y)) \in 0 .. Base256 - 1 /\ Base256 \in Nat \ {0}
  BY <1>11, Value256Type
<1> HIDE DEF xu, xl, yu, yl, low, high, top, h, l, t
<1>13. Value256(x) + Value256(y) = Value256(Add256(x, y)) + (c2 + c3) * Base256
  BY <1>1, <1>3, <1>4, <1>5, <1>7, <1>9, <1>10 DEF Base256
<1> QED  BY <1>11, <1>12, <1>13, Wrap

LEMMA Minus256Exact ==
  ASSUME NEW x \in Uint256, NEW y \in Uint256
  PROVE  /\ Minus256(x, y) \in Uint256
         /\ Value256(Minus256(x, y)) = (Value256(x) - Value256(y)) % Base256
<1> DEFINE xu == Value128(UPPER(x))  xl == Value128(LOWER(x))
           yu == Value128(UPPER(y))  yl == Value128(LOWER(y))
           low == Minus128(LOWER(x), LOWER(y))
           high == Minus128(UPPER(x), UPPER(y))
           top == IF Gt128(low, LOWER(x)) THEN Minus128(high, One128) ELSE high
           h == Value128(high)  l == Value128(low)  t == Value128(top)
<1>1. /\ Base128 \in Nat \ {0}
      /\ xu \in 0 .. Base128 - 1 /\ xl \in 0 .. Base128 - 1
      /\ yu \in 0 .. Base128 - 1 /\ yl \in 0 .. Base128 - 1
  BY Value256Type, Value128Type
<1>2. low \in Uint128 /\ high \in Uint128 /\ top \in Uint128
  BY Value256Type, Borrow128, One128Is
<1>3. Minus256(x, y) = <<top, low>> /\ Value256(Minus256(x, y)) = t * Base128 + l
  BY DEF Minus256, Value256, UPPER, LOWER
<1>4. PICK c1 \in {0, 1} : l = xl - yl + c1 * Base128
  BY Value256Type, Borrow128
<1>5. PICK c2 \in {0, 1} : h = xu - yu + c2 * Base128
  BY Value256Type, Borrow128
<1>6. Gt128(low, LOWER(x)) <=> l > xl
  BY <1>2, Value256Type, Compare128
<1>7. l \in 0 .. Base128 - 1 /\ h \in 0 .. Base128 - 1
  BY <1>2, Value128Type
<1>8. l > xl <=> c1 = 1
  BY <1>1, <1>4, <1>7
<1>9. PICK c3 \in {0, 1} : t = h - c1 + c3 * Base128
  <2>1. CASE c1 = 1
    <3>1. top = Minus128(high, One128)
      BY <1>6, <1>8, <2>1
    <3>2. \E c3 \in {0, 1} : t = h - 1 + c3 * Base128
      BY <1>2, <3>1, Borrow128, One128Is
    <3> QED  BY <2>1, <3>2
  <2>2. CASE c1 = 0
    <3>1. t = h
      BY <1>6, <1>8, <2>2
    <3> QED  BY <1>1, <1>7, <2>2, <3>1
  <2> QED  BY <2>1, <2>2
<1>10. Value256(x) = xu * Base128 + xl /\ Value256(y) = yu * Base128 + yl
  BY DEF Value256
<1>11. Minus256(x, y) \in Uint256
  BY <1>2, <1>3 DEF Uint256
<1>12. Value256(Minus256(x, y)) \in 0 .. Base256 - 1 /\ Base256 \in Nat \ {0}
  BY <1>11, Value256Type
<1> HIDE DEF xu, xl, yu, yl, low, high, top, h, l, t
<1>13. Value256(x) - Value256(y) = Value256(Minus256(x, y)) + (-(c2 + c3)) * Base256
  BY <1>1, <1>3, <1>4, <1>5, <1>7, <1>9, <1>10 DEF Base256
<1> QED  BY <1>11, <1>12, <1>13, Wrap

\* add256(), minus256(), gt256() and gte256() are sums, differences and the
\* order of integers, modulo 2^(4W), for every word width and every input.
THEOREM CarriesExact ==
  ASSUME NEW x \in Uint256, NEW y \in Uint256
  PROVE  SumsExact(x, y)
BY Add256Exact, Minus256Exact, Compare256 DEF SumsExact

-----------------------------------------------------------------------------
(* Shifts.  Two digits u, l of base b are shifted by less than a digit when  *)
(* b = p * q, by p to the left or by q to the right; the words of a 128 bit  *)
(* number and the halves of a 256 bit number are such digits.                *)

ShiftedPair(p, q, b, u, l) ==
  /\ ((u * p) % b) + (l \div q) \in 0 .. b - 1
  /\ (l * p) % b \in 0 .. b - 1 /\ u \div q \in 0 .. b - 1
  /\ (u * p) % b \in 0 .. b - 1 /\ l \div q \in 0 .. b - 1
  /\ ((u * b + l) * p) % (b * b) = (((u * p) % b) + (l \div q)) * b + ((l * p) % b)
  /\ (u * b + l) \div q = (u \div q) * b + (((u * p) % b) + (l \div q))

LEMMA ShiftPair ==
  ASSUME NEW p \in Nat \ {0}, NEW q \in Nat \ {0}, NEW b \in Nat \ {0}, b = p * q,
         NEW u \in 0 .. b - 1, NEW l \in 0 .. b - 1
  PROVE  ShiftedPair(p, q, b, u, l)
<1> DEFINE hu == u \div q  tu == u % q  hl == l \div q  tl == l % q
<1>1. /\ hu \in 0 .. p - 1 /\ tu \in 0 .. q - 1 /\ u = hu * q + tu
      /\ (u * p) % b = tu * p /\ tu * p \in Nat /\ tu * p <= b - p
  BY Shifted
<1>2. /\ hl \in 0 .. p - 1 /\ tl \in 0 .. q - 1 /\ l = hl * q + tl
      /\ (l * p) % b = tl * p /\ tl * p \in Nat /\ tl * p <= b - p
  BY Shifted
<1>3. p <= b
  <2>1. p * 1 <= p * q
    BY TimesMonotone
  <2> QED  BY <2>1
<1> HIDE DEF hu, tu, hl, tl
<1> DEFINE ut == tu * p  lt == tl * p  mid == ut + hl
<1>4. ut \in 0 .. b - 1 /\ lt \in 0 .. b - 1 /\ mid \in 0 .. b - 1 /\ hu \in 0 .. b - 1 /\ hl \in 0 .. b - 1
  BY <1>1, <1>2, <1>3
<1>5. u * p = hu * b + ut
  BY <1>1
<1>6. l * p = hl * b + lt
  BY <1>2
<1> HIDE DEF ut, lt, mid
<1>7. (u * b + l) * p = hu * (b * b) + (mid * b + lt)
  <2>1. (u * b + l) * p = (u * p) * b + l * p
    OBVIOUS
  <2>2. (hu * b + ut) * b + (hl * b + lt) = hu * (b * b) + ((ut + hl) * b + lt)
    BY <1>1, <1>2, <1>4
  <2> QED  BY <1>5, <1>6, <2>1, <2>2 DEF mid
<1>8. ((u * b + l) * p) % (b * b) = mid * b + lt
  <2>1. mid * b + lt \in 0 .. b * b - 1 /\ b * b \in Nat \ {0}
    BY <1>4, TwoDigits
  <2> DEFINE m == b * b  c == mid * b + lt
  <2>2. m \in Nat \ {0} /\ c \in 0 .. m - 1 /\ hu \in Int
    BY <1>1, <2>1
  <2>3. (u * b + l) * p = hu * m + c
    BY <1>7
  <2> HIDE DEF m, c
  <2>4. (hu * m + c) % m = c
    BY <2>2, DivUnique
  <2>5. ((u * b + l) * p) % m = c
    BY <2>3, <2>4
  <2> QED  BY <2>5 DEF m, c
<1>9. (u * b + l) \div q = hu * b + mid
  <2>1. u * b = (hu * b + ut) * q
    BY <1>1, <1>5
  <2>2. u * b + l = (hu * b + mid) * q + tl
    BY <1>1, <1>2, <1>4, <2>1 DEF mid
  <2>3. hu * b + mid \in Int
    BY <1>1, <1>4
  <2> QED  BY <1>2, <2>2, <2>3, DivUnique
<1>10. (u * p) % b = ut /\ (l * p) % b = lt
  BY <1>1, <1>2 DEF ut, lt
<1>11. ((u * p) % b) + (l \div q) = mid
  BY <1>10 DEF mid, hl
<1>12. u \div q = hu /\ l \div q = hl
  BY DEF hu, hl
<1> QED  BY <1>4, <1>8, <1>9, <1>10, <1>11, <1>12, Zenon DEF ShiftedPair

ShiftedWhole(b, p, u, l) ==
  /\ (l * p) % b \in 0 .. b - 1 /\ u \div p \in 0 .. b - 1
  /\ ((u * b + l) * (b * p)) % (b * b) = ((l * p) % b) * b
  /\ (u * b + l) \div (b * p) = u \div p

LEMMA ShiftWhole ==
  ASSUME NEW b \in Nat \ {0}, NEW p \in Nat \ {0}, NEW u \in 0 .. b - 1, NEW l \in 0 .. b - 1
  PROVE  ShiftedWhole(b, p, u, l)
<1> DEFINE k == (l * p) \div b  r == (l * p) % b  hu == u \div p  tu == u % p
<1>1. l * p \in Nat /\ u \in Nat
  OBVIOUS
<1>2. k \in Nat /\ r \in 0 .. b - 1 /\ l * p = k * b + r
  BY <1>1, DivMod
<1>3. hu \in Nat /\ tu \in 0 .. p - 1 /\ u = hu * p + tu
  BY <1>1, DivMod
<1> HIDE DEF k, r, hu, tu
<1>4. ((u * b + l) * (b * p)) % (b * b) = r * b
  <2> DEFINE m == b * b  c == r * b  a == u * p + k
  <2>1. r * b <= (b - 1) * b /\ (b - 1) * b = b * b - b /\ r * b \in Nat /\ b * b \in Nat \ {0}
    BY <1>2, TimesMonotone
  <2>2. m \in Nat \ {0} /\ c \in 0 .. m - 1 /\ a \in Int
    BY <1>1, <1>2, <2>1
  <2>3. (u * b + l) * (b * p) = (u * p) * (b * b) + (l * p) * b
    OBVIOUS
  <2>4. (l * p) * b = k * (b * b) + r * b
    BY <1>2
  <2>5. (u * b + l) * (b * p) = a * m + c
    BY <1>1, <1>2, <2>3, <2>4
  <2> HIDE DEF m, c, a
  <2>6. (a * m + c) % m = c
    BY <2>2, DivUnique
  <2>7. ((u * b + l) * (b * p)) % m = c
    BY <2>5, <2>6
  <2> QED  BY <2>7 DEF m, c
<1>5. (u * b + l) \div (b * p) = hu
  <2> DEFINE m == b * p  c == tu * b + l
  <2>1. tu * b <= (p - 1) * b /\ (p - 1) * b = b * p - b /\ tu * b \in Nat /\ b * p \in Nat \ {0}
    BY <1>3, TimesMonotone
  <2>2. m \in Nat \ {0} /\ c \in 0 .. m - 1
    BY <2>1
  <2>3. u * b + l = hu * m + c
    BY <1>3
  <2> HIDE DEF m, c
  <2>4. (hu * m + c) \div m = hu
    BY <1>3, <2>2, DivUnique
  <2>5. (u * b + l) \div m = hu
    BY <2>3, <2>4
  <2> QED  BY <2>5 DEF m
<1>6. hu \in 0 .. b - 1
  <2>1. hu * 1 <= hu * p
    BY <1>3, TimesMonotone
  <2> QED  BY <1>3, <2>1
<1>7. (l * p) % b = r /\ u \div p = hu
  BY DEF r, hu
<1> QED  BY <1>2, <1>4, <1>5, <1>6, <1>7, Zenon DEF ShiftedWhole

LEMMA ShiftOut ==
  ASSUME NEW m \in Nat \ {0}, NEW k \in Nat \ {0}, NEW n \in 0 .. m - 1
  PROVE  (n * (m * k)) % m = 0 /\ n \div (m * k) = 0
<1>1. (n * (m * k)) % m = 0
  <2>1. n * (m * k) = (n * k) * m + 0 /\ n * k \in Int /\ 0 \in 0 .. m - 1
    OBVIOUS
  <2> QED  BY <2>1, DivUnique
<1>2. n \div (m * k) = 0
  <2> DEFINE q == m * k
  <2>1. m * 1 <= m * k /\ m * k \in Nat \ {0}
    BY TimesMonotone
  <2>2. q \in Nat \ {0} /\ n \in 0 .. q - 1
    BY <2>1
  <2> HIDE DEF q
  <2>3. n = 0 * q + n
    BY <2>2
  <2>4. (0 * q + n) \div q = 0
    BY <2>2, DivUnique
  <2> QED  BY <2>3, <2>4 DEF q
<1> QED  BY <1>1, <1>2

LEMMA PairValue ==
  /\ \A a, b : UPPER(<<a, b>>) = a /\ LOWER(<<a, b>>) = b
  /\ \A a, b : Value128(<<a, b>>) = a * Base + b
  /\ \A a \in Nat : Value128(<<a, 0>>) = a * Base /\ Value128(<<0, a>>) = a
  /\ \A a, b : Value256(<<a, b>>) = Value128(a) * Base128 + Value128(b)
<1>1. /\ \A a, b : UPPER(<<a, b>>) = a /\ LOWER(<<a, b>>) = b
      /\ \A a, b : Value128(<<a, b>>) = a * Base + b
      /\ \A a, b : Value256(<<a, b>>) = Value128(a) * Base128 + Value128(b)
  BY DEF UPPER, LOWER, Value128, Value256
<1>2. \A a \in Nat : a * Base + 0 = a * Base /\ 0 * Base + a = a
  BY BaseType
<1> QED  BY <1>1, <1>2

LEMMA Shift128Exact ==
  ASSUME NEW x \in Uint128, NEW v \in Nat
  PROVE  /\ Shiftl128(x, v) \in Uint128 /\ Shiftr128(x, v) \in Uint128
         /\ Value128(Shiftl128(x, v)) = (Value128(x) * Pow2(v)) % Base128
         /\ Value128(Shiftr128(x, v)) = Value128(x) \div Pow2(v)
<1> DEFINE u == UPPER(x)  l == LOWER(x)  X == Value128(x)
<1>1. /\ Base \in Nat \ {0} /\ u \in 0 .. Base - 1 /\ l \in 0 .. Base - 1
      /\ x = <<u, l>> /\ W \in Nat \ {0}
  BY HalvesType, BaseType
<1>2. X = u * Base + l /\ X \in 0 .. Base128 - 1 /\ Base128 = Base * Base /\ Base128 \in Nat \ {0}
  BY Value128Type DEF Value128, Base128
<1>3. Pow2(v) \in Nat \ {0} /\ Pow2(0) = 1
  BY Pow2Step
<1> HIDE DEF u, l, X
<1>4. CASE v = 0
  <2>0. v \notin 1 .. W - 1 /\ v \notin W .. 2 * W - 1
    BY <1>1, <1>4
  <2>1. Shiftl128(x, v) = x /\ Shiftr128(x, v) = x
    BY <1>4, <2>0, Zenon DEF Shiftl128, Shiftr128
  <2>2. (X * 1) % Base128 = X /\ X \div 1 = X
    BY <1>2
  <2> QED  BY <1>3, <1>4, <2>1, <2>2 DEF X
<1>5. CASE v \in 1 .. W - 1
  <2> DEFINE p == Pow2(v)  q == Pow2(W - v)
  <2>1. W - v \in 1 .. W - 1 /\ v \in 0 .. W /\ W - v \in 0 .. W /\ W - (W - v) = v
        /\ W - v \in Nat /\ v # 0 /\ v \notin W .. 2 * W - 1
    BY <1>1, <1>5
  <2>2. p \in Nat \ {0} /\ q \in Nat \ {0} /\ Base = p * q /\ Base = q * p
    <3>1. v \in Nat /\ W - v \in Nat /\ W \in Nat /\ v \in 0 .. W
      BY <1>1, <2>1
    <3>2. p \in Nat \ {0} /\ q \in Nat \ {0}
      BY <3>1, Pow2Step
    <3>3. Base = p * q
      BY <3>1, Pow2Split DEF Base
    <3> HIDE DEF p, q
    <3>4. p * q = q * p
      BY <3>2
    <3> QED  BY <3>2, <3>3, <3>4
  <2>3. /\ Shiftl128(x, v) = <<((u * p) % Base) + (l \div q), (l * p) % Base>>
        /\ Shiftr128(x, v) = <<u \div p, ((u * q) % Base) + (l \div p)>>
    BY <1>5, <2>1, Zenon DEF Shiftl128, Shiftr128, Shl, Shr, Word, u, l
  <2> HIDE DEF p, q
  <2>4. ShiftedPair(p, q, Base, u, l) /\ ShiftedPair(q, p, Base, u, l)
    BY <1>1, <2>2, ShiftPair
  <2>6. Shiftl128(x, v) \in Uint128 /\ Shiftr128(x, v) \in Uint128
    BY <2>3, <2>4 DEF Uint128, ShiftedPair
  <2>7. /\ Value128(Shiftl128(x, v)) = (X * p) % (Base * Base)
        /\ Value128(Shiftr128(x, v)) = X \div p
    <3>1. /\ Value128(Shiftl128(x, v)) = (((u * p) % Base) + (l \div q)) * Base + ((l * p) % Base)
          /\ Value128(Shiftr128(x, v)) = (u \div p) * Base + (((u * q) % Base) + (l \div p))
      BY <2>3, PairValue, Zenon
    <3> QED  BY <1>2, <2>4, <3>1, Zenon DEF ShiftedPair
  <2> QED  BY <1>2, <2>6, <2>7 DEF X, p
<1>6. CASE v \in W .. 2 * W - 1
  <2> DEFINE p == Pow2(v - W)
  <2>1. v - W \in Nat /\ W + (v - W) = v /\ v # 0 /\ v \notin 1 .. W - 1
    BY <1>1, <1>6
  <2>2. p \in Nat \ {0} /\ Pow2(v) = Base * p
    BY <1>1, <2>1, Pow2Step, Pow2Sum DEF Base
  <2>3. Shiftl128(x, v) = <<(l * p) % Base, 0>> /\ Shiftr128(x, v) = <<0, u \div p>>
    BY <1>6, <2>1, Zenon DEF Shiftl128, Shiftr128, Shl, Shr, Word, u, l
  <2> HIDE DEF p
  <2>4. ShiftedWhole(Base, p, u, l)
    BY <1>1, <2>2, ShiftWhole
  <2>5. Shiftl128(x, v) \in Uint128 /\ Shiftr128(x, v) \in Uint128
    BY <1>1, <2>3, <2>4 DEF Uint128, ShiftedWhole
  <2>7. (l * p) % Base \in Nat /\ u \div p \in Nat
    BY <1>1, <2>4 DEF ShiftedWhole
  <2>6. /\ Value128(Shiftl128(x, v)) = ((l * p) % Base) * Base
        /\ Value128(Shiftr128(x, v)) = u \div p
    BY <2>3, <2>7, PairValue, Zenon
  <2> QED  BY <1>2, <2>2, <2>4, <2>5, <2>6 DEF X, ShiftedWhole
<1>7. CASE v >= 2 * W
  <2> DEFINE k == Pow2(v - 2 * W)
  <2>1. /\ v - 2 * W \in Nat /\ (W + W) + (v - 2 * W) = v /\ W + W \in Nat
        /\ v # 0 /\ v \notin 1 .. W - 1 /\ v \notin W .. 2 * W - 1
    BY <1>1, <1>7
  <2>2. Pow2((W + W) + (v - 2 * W)) = Pow2(W + W) * k /\ Pow2(W + W) = Base * Base /\ k \in Nat \ {0}
    BY <1>1, <2>1, Pow2Step, Pow2Sum DEF Base
  <2>3. Pow2(v) = Base128 * k
    BY <1>2, <2>1, <2>2
  <2>4. Shiftl128(x, v) = <<0, 0>> /\ Shiftr128(x, v) = <<0, 0>>
    BY <2>1, Zenon DEF Shiftl128, Shiftr128, Clear128
  <2> HIDE DEF k
  <2>5. (X * (Base128 * k)) % Base128 = 0 /\ X \div (Base128 * k) = 0
    BY <1>2, <2>2, ShiftOut
  <2>6. <<0, 0>> \in Uint128 /\ Value128(<<0, 0>>) = 0
    BY <1>1 DEF Uint128, Value128, UPPER, LOWER
  <2> QED  BY <2>3, <2>4, <2>5, <2>6 DEF X
<1> QED  BY <1>1, <1>4, <1>5, <1>6, <1>7

LEMMA AddNoCarry ==
  ASSUME NEW x \in Uint128, NEW y \in Uint128, Value128(x) + Value128(y) \in 0 .. Base128 - 1
  PROVE  Add128(x, y) \in Uint128 /\ Value128(Add128(x, y)) = Value128(x) + Value128(y)
<1>1. Add128(x, y) \in Uint128 /\ Value128(Add128(x, y)) \in 0 .. Base128 - 1 /\ Base128 \in Nat \ {0}
  BY Carry128, Value128Type
<1>2. PICK c \in {0, 1} : Value128(Add128(x, y)) = Value128(x) + Value128(y) - c * Base128
  BY Carry128
<1>3. Value128(x) \in Nat /\ Value128(y) \in Nat
  BY Value128Type
<1> QED  BY <1>1, <1>2, <1>3

LEMMA Pow2Wide == Pow2(2 * W) = Base128 /\ Pow2(4 * W) = Base256
<1>1. W \in Nat /\ 2 * W \in Nat /\ W + W = 2 * W /\ 2 * W + 2 * W = 4 * W
  BY BaseType
<1>2. Pow2(W + W) = Base * Base
  BY <1>1, Pow2Sum DEF Base
<1>3. Pow2(2 * W + 2 * W) = Pow2(2 * W) * Pow2(2 * W)
  BY <1>1, Pow2Sum
<1> QED  BY <1>1, <1>2, <1>3 DEF Base128, Base256

LEMMA Shift256Exact ==
  ASSUME NEW x \in Uint256, NEW v \in Nat
  PROVE  /\ Shiftl256(x, v) \in Uint256 /\ Shiftr256(x, v) \in Uint256
         /\ Value256(Shiftl256(x, v)) = (Value256(x) * Pow2(v)) % Base256
         /\ Value256(Shiftr256(x, v)) = Value256(x) \div Pow2(v)
<1> DEFINE U == UPPER(x)  L == LOWER(x)  u == Value128(U)  l == Value128(L)  X == Value256(x)
<1>1. /\ Base128 \in Nat \ {0} /\ u \in 0 .. Base128 - 1 /\ l \in 0 .. Base128 - 1
      /\ U \in Uint128 /\ L \in Uint128 /\ W \in Nat \ {0}
  BY Value256Type, Value128Type, BaseType
<1>2. X = u * Base128 + l /\ X \in 0 .. Base256 - 1 /\ Base256 = Base128 * Base128 /\ Base256 \in Nat \ {0}
  BY Value256Type DEF Value256, Base256
<1>3. Pow2(v) \in Nat \ {0} /\ Pow2(0) = 1
  BY Pow2Step
<1>8. Clear128 \in Uint128 /\ Value128(Clear128) = 0
  BY BaseType DEF Clear128, Uint128, Value128, UPPER, LOWER
<1> HIDE DEF u, l, X
<1>4. CASE v = 0
  <2>0. v \notin 1 .. 2 * W - 1 /\ v \notin 2 * W .. 4 * W - 1
    BY <1>1, <1>4
  <2>1. Shiftl256(x, v) = x /\ Shiftr256(x, v) = x
    BY <1>4, <2>0, Zenon DEF Shiftl256, Shiftr256
  <2>2. (X * 1) % Base256 = X /\ X \div 1 = X
    BY <1>2
  <2> QED  BY <1>3, <1>4, <2>1, <2>2 DEF X
<1>5. CASE v \in 1 .. 2 * W - 1
  <2> DEFINE p == Pow2(v)  q == Pow2(2 * W - v)
             Al == Shiftl128(U, v)  Bl == Shiftr128(L, 2 * W - v)  Cl == Shiftl128(L, v)
             Ar == Shiftr128(L, v)  Br == Shiftl128(U, 2 * W - v)  Cr == Shiftr128(U, v)
  <2>1. /\ 2 * W - v \in Nat /\ 2 * W \in Nat /\ v \in 0 .. 2 * W /\ 2 * W - v \in 0 .. 2 * W
        /\ 2 * W - (2 * W - v) = v /\ v # 0 /\ v \notin 2 * W .. 4 * W - 1
    BY <1>1, <1>5
  <2>2. p \in Nat \ {0} /\ q \in Nat \ {0} /\ Base128 = p * q /\ Base128 = q * p
    <3>1. p \in Nat \ {0} /\ q \in Nat \ {0}
      BY <2>1, <1>1, Pow2Step
    <3>2. Pow2(2 * W) = Pow2(v) * Pow2(2 * W - v)
      BY <2>1, Pow2Split
    <3>3. Pow2(2 * W) = p * q
      BY <3>2
    <3> HIDE DEF p, q
    <3>4. p * q = q * p
      BY <3>1
    <3> QED  BY <3>1, <3>3, <3>4, Pow2Wide
  <2>3. Shiftl256(x, v) = <<Add128(Al, Bl), Cl>> /\ Shiftr256(x, v) = <<Cr, Add128(Ar, Br)>>
    BY <1>5, <2>1, Zenon DEF Shiftl256, Shiftr256
  <2>4. /\ Al \in Uint128 /\ Bl \in Uint128 /\ Cl \in Uint128
        /\ Ar \in Uint128 /\ Br \in Uint128 /\ Cr \in Uint128
    BY <1>1, <2>1, Shift128Exact
  <2>5. /\ Value128(Al) = (u * p) % Base128 /\ Value128(Bl) = l \div q
        /\ Value128(Cl) = (l * p) % Base128
        /\ Value128(Ar) = l \div p /\ Value128(Br) = (u * q) % Base128
        /\ Value128(Cr) = u \div p
    BY <1>1, <2>1, Shift128Exact DEF u, l
  <2> HIDE DEF p, q, U, L, Al, Bl, Cl, Ar, Br, Cr
  <2>6. ShiftedPair(p, q, Base128, u, l) /\ ShiftedPair(q, p, Base128, u, l)
    BY <1>1, <2>2, ShiftPair
  <2>7. /\ Add128(Al, Bl) \in Uint128
        /\ Value128(Add128(Al, Bl)) = ((u * p) % Base128) + (l \div q)
    <3>1. Value128(Al) + Value128(Bl) \in 0 .. Base128 - 1
      BY <2>5, <2>6, Zenon DEF ShiftedPair
    <3>2. Add128(Al, Bl) \in Uint128 /\ Value128(Add128(Al, Bl)) = Value128(Al) + Value128(Bl)
      BY <2>4, <3>1, AddNoCarry
    <3> QED  BY <2>5, <3>2, Zenon
  <2>8. /\ Add128(Ar, Br) \in Uint128
        /\ Value128(Add128(Ar, Br)) = ((u * q) % Base128) + (l \div p)
    <3>0. Value128(Ar) \in Int /\ Value128(Br) \in Int
      BY <2>4, Value128Type
    <3>1. Value128(Ar) + Value128(Br) = ((u * q) % Base128) + (l \div p)
      BY <2>5, <3>0
    <3>2. Value128(Ar) + Value128(Br) \in 0 .. Base128 - 1
      BY <3>1, <2>6, Zenon DEF ShiftedPair
    <3>3. Add128(Ar, Br) \in Uint128 /\ Value128(Add128(Ar, Br)) = Value128(Ar) + Value128(Br)
      BY <2>4, <3>2, AddNoCarry
    <3> QED  BY <3>1, <3>3, Zenon
  <2>9. Shiftl256(x, v) \in Uint256 /\ Shiftr256(x, v) \in Uint256
    BY <2>3, <2>4, <2>7, <2>8 DEF Uint256
  <2>10. /\ Value256(Shiftl256(x, v)) = (X * p) % (Base128 * Base128)
         /\ Value256(Shiftr256(x, v)) = X \div p
    <3>1. /\ Value256(Shiftl256(x, v))
               = (((u * p) % Base128) + (l \div q)) * Base128 + ((l * p) % Base128)
          /\ Value256(Shiftr256(x, v))
               = (u \div p) * Base128 + (((u * q) % Base128) + (l \div p))
      <4>1. /\ Value256(Shiftl256(x, v)) = Value128(Add128(Al, Bl)) * Base128 + Value128(Cl)
            /\ Value256(Shiftr256(x, v)) = Value128(Cr) * Base128 + Value128(Add128(Ar, Br))
        BY <2>3, PairValue, Zenon
      <4> QED  BY <4>1, <2>5, <2>7, <2>8, Zenon
    <3> QED  BY <1>2, <2>6, <3>1, Zenon DEF ShiftedPair
  <2> QED  BY <1>2, <2>9, <2>10 DEF X, p
<1>6. CASE v \in 2 * W .. 4 * W - 1
  <2> DEFINE p == Pow2(v - 2 * W)  Cl == Shiftl128(L, v - 2 * W)  Cr == Shiftr128(U, v - 2 * W)
  <2>1. v - 2 * W \in Nat /\ 2 * W \in Nat /\ 2 * W + (v - 2 * W) = v /\ v # 0 /\ v \notin 1 .. 2 * W - 1
    BY <1>1, <1>6
  <2>2. p \in Nat \ {0} /\ Pow2(v) = Base128 * p
    <3>1. p \in Nat \ {0}
      BY <2>1, Pow2Step
    <3>2. Pow2(2 * W + (v - 2 * W)) = Pow2(2 * W) * p
      BY <2>1, Pow2Sum
    <3> QED  BY <2>1, <3>1, <3>2, Pow2Wide, Zenon
  <2>3. Shiftl256(x, v) = <<Cl, Clear128>> /\ Shiftr256(x, v) = <<Clear128, Cr>>
    BY <1>6, <2>1, Zenon DEF Shiftl256, Shiftr256
  <2>4. /\ Cl \in Uint128 /\ Value128(Cl) = (l * p) % Base128
        /\ Cr \in Uint128 /\ Value128(Cr) = u \div p
    BY <1>1, <2>1, Shift128Exact DEF u, l
  <2> HIDE DEF p, Cl, Cr, U, L
  <2>5. ShiftedWhole(Base128, p, u, l)
    BY <1>1, <2>2, ShiftWhole
  <2>6. Shiftl256(x, v) \in Uint256 /\ Shiftr256(x, v) \in Uint256
    BY <1>8, <2>3, <2>4 DEF Uint256
  <2>7. /\ Value256(Shiftl256(x, v)) = Value128(Cl) * Base128 + Value128(Clear128)
        /\ Value256(Shiftr256(x, v)) = Value128(Clear128) * Base128 + Value128(Cr)
    BY <2>3, PairValue, Zenon
  <2>8. /\ Value256(Shiftl256(x, v)) = ((l * p) % Base128) * Base128
        /\ Value256(Shiftr256(x, v)) = u \div p
    <3>1. Value128(Cl) \in Nat /\ Value128(Cr) \in Nat
      BY <2>4, Value128Type
    <3>2. Value128(Cl) * Base128 + 0 = Value128(Cl) * Base128 /\ 0 * Base128 + Value128(Cr) = Value128(Cr)
      BY <1>1, <3>1
    <3> QED  BY <1>8, <2>4, <2>7, <3>2, Zenon
  <2>9. (X * (Base128 * p)) % (Base128 * Base128) = ((l * p) % Base128) * Base128 /\ X \div (Base128 * p) = u \div p
    BY <1>2, <2>5, Zenon DEF ShiftedWhole
  <2> QED  BY <1>2, <2>2, <2>6, <2>8, <2>9, Zenon DEF X
<1>7. CASE v >= 4 * W
  <2> DEFINE k == Pow2(v - 4 * W)
  <2>1. /\ v - 4 * W \in Nat /\ 4 * W + (v - 4 * W) = v /\ 4 * W \in Nat
        /\ v # 0 /\ v \notin 1 .. 2 * W - 1 /\ v \notin 2 * W .. 4 * W - 1
    BY <1>1, <1>7
  <2>2. k \in Nat \ {0} /\ Pow2(v) = Base256 * k
    <3>1. k \in Nat \ {0}
      BY <2>1, Pow2Step
    <3>2. Pow2(4 * W + (v - 4 * W)) = Pow2(4 * W) * k
      BY <2>1, Pow2Sum
    <3> QED  BY <2>1, <3>1, <3>2, Pow2Wide, Zenon
  <2>3. Shiftl256(x, v) = Clear256 /\ Shiftr256(x, v) = Clear256
    BY <2>1, Zenon DEF Shiftl256, Shiftr256
  <2> HIDE DEF k
  <2>4. (X * (Base256 * k)) % Base256 = 0 /\ X \div (Base256 * k) = 0
    BY <1>2, <2>2, ShiftOut
  <2>5. Clear256 \in Uint256 /\ Value256(Clear256) = 0
    BY <1>1, <1>8, PairValue DEF Clear256, Uint256
  <2> QED  BY <2>2, <2>3, <2>4, <2>5 DEF X
<1> QED  BY <1>1, <1>4, <1>5, <1>6, <1>7

\* shiftl256() and shiftr256() multiply and divide by powers of two, whatever
\* the word and the distance, one beyond the number, too.
THEOREM ShiftsAreExact ==
  ASSUME NEW x \in Uint256, NEW bits \in Nat
  PROVE  ShiftsExact(x, bits)
BY Shift256Exact DEF ShiftsExact

-----------------------------------------------------------------------------
(* Products.  The columns of a schoolbook multiplication of four digits of   *)
(* base h, each product of two digits cut into its own two.                  *)

Lo(h, a, b) == (a * b) % h
Hi(h, a, b) == (a * b) \div h

CutInTwo(h, a, b) ==
  /\ Lo(h, a, b) \in 0 .. h - 1 /\ Hi(h, a, b) \in 0 .. h - 2
  /\ a * b = Hi(h, a, b) * h + Lo(h, a, b) /\ a * b \in 0 .. h * h - 1

LEMMA DigitProduct ==
  ASSUME NEW h \in Nat, h >= 2, NEW a \in 0 .. h - 1, NEW b \in 0 .. h - 1
  PROVE  CutInTwo(h, a, b)
<1> DEFINE q == (a * b) \div h  r == (a * b) % h
<1>1. a * b \in Nat /\ a * b <= (h - 1) * (h - 1)
  <2>1. a * b <= (h - 1) * b /\ (h - 1) * b <= (h - 1) * (h - 1)
    BY TimesMonotone
  <2> QED  BY <2>1
<1>2. q \in Nat /\ r \in 0 .. h - 1 /\ a * b = q * h + r
  <2> DEFINE n == a * b
  <2>1. n \in Nat /\ h \in Nat \ {0}
    BY <1>1
  <2> HIDE DEF n
  <2>2. n \div h \in Nat /\ n % h \in 0 .. h - 1 /\ n = (n \div h) * h + (n % h)
    BY <2>1, DivMod
  <2> QED  BY <2>2 DEF n
<1> HIDE DEF q, r
<1>3. q <= h - 2
  <2> SUFFICES ASSUME q >= h - 1 PROVE FALSE
    BY <1>2
  <2>1. (h - 1) * h <= q * h
    BY <1>2, TimesMonotone
  <2>2. (h - 1) * h = (h - 1) * (h - 1) + (h - 1)
    OBVIOUS
  <2> QED  BY <1>1, <1>2, <2>1, <2>2
<1>4. (h - 1) * (h - 1) < h * h
  OBVIOUS
<1>5. Lo(h, a, b) = r /\ Hi(h, a, b) = q
  BY DEF Lo, Hi, r, q
<1> QED  BY <1>1, <1>2, <1>3, <1>4, <1>5 DEF CutInTwo

\* What column k of the product of the digits a[1], .., a[4] and b[1], .., b[4]
\* adds, most significant digits first.
C0(h, a, b) == Lo(h, a[4], b[4])
C1(h, a, b) == Lo(h, a[4], b[3]) + Lo(h, a[3], b[4]) + Hi(h, a[4], b[4])
C2(h, a, b) == Lo(h, a[4], b[2]) + Lo(h, a[3], b[3]) + Lo(h, a[2], b[4])
                 + Hi(h, a[4], b[3]) + Hi(h, a[3], b[4])
C3(h, a, b) == Lo(h, a[4], b[1]) + Lo(h, a[3], b[2]) + Lo(h, a[2], b[3]) + Lo(h, a[1], b[4])
                 + Hi(h, a[4], b[2]) + Hi(h, a[3], b[3]) + Hi(h, a[2], b[4])

FourDigits(h, a) == (a[1] * h + a[2]) * (h * h) + (a[3] * h + a[4])

Columns(h, a, b) ==
  /\ C0(h, a, b) \in 0 .. h - 1
  /\ C1(h, a, b) \in 0 .. h * h - 1
  /\ C2(h, a, b) \in 0 .. h * h - 1
  /\ C3(h, a, b) \in Nat
  /\ \E r \in Int : FourDigits(h, a) * FourDigits(h, b)
       = C0(h, a, b) + C1(h, a, b) * h + C2(h, a, b) * (h * h)
           + C3(h, a, b) * (h * (h * h)) + r * ((h * h) * (h * h))

LEMMA CarriedOver ==   \* the digits of the products carried to their columns
  ASSUME NEW h \in Nat, NEW g \in Nat, g = h * h,
         NEW t0 \in Int, NEW t1 \in Int, NEW t2 \in Int, NEW t3 \in Int,
         NEW l0 \in Int, NEW l1 \in Int, NEW l2 \in Int, NEW l3 \in Int,
         NEW h0 \in Int, NEW h1 \in Int, NEW h2 \in Int, NEW h3 \in Int,
         t0 = h0 * h + l0, t1 = h1 * h + l1, t2 = h2 * h + l2, t3 = h3 * h + l3
  PROVE  t0 + t1 * h + t2 * g + t3 * (h * g)
           = l0 + (l1 + h0) * h + (l2 + h1) * g + (l3 + h2) * (h * g) + h3 * (g * g)
<1>1. t1 * h = h1 * g + l1 * h
  OBVIOUS
<1>2. t2 * g = h2 * (h * g) + l2 * g
  OBVIOUS
<1>3. t3 * (h * g) = h3 * (g * g) + l3 * (h * g)
  OBVIOUS
<1>4. /\ (l1 + h0) * h = l1 * h + h0 * h /\ (l2 + h1) * g = l2 * g + h1 * g
      /\ (l3 + h2) * (h * g) = l3 * (h * g) + h2 * (h * g)
  OBVIOUS
<1> QED  BY <1>1, <1>2, <1>3, <1>4

IsLongProduct(h, g, a1, a2, a3, a4, b1, b2, b3, b4) ==
  \E r \in Int :
    ((a1 * h + a2) * g + (a3 * h + a4)) * ((b1 * h + b2) * g + (b3 * h + b4))
      = a4 * b4 + (a4 * b3 + a3 * b4) * h + (a4 * b2 + a3 * b3 + a2 * b4) * g
          + (a4 * b1 + a3 * b2 + a2 * b3 + a1 * b4) * (h * g) + r * (g * g)

LEMMA LongProduct ==
  ASSUME NEW h \in Nat, NEW g \in Nat, g = h * h,
         NEW a1 \in Int, NEW a2 \in Int, NEW a3 \in Int, NEW a4 \in Int,
         NEW b1 \in Int, NEW b2 \in Int, NEW b3 \in Int, NEW b4 \in Int
  PROVE  IsLongProduct(h, g, a1, a2, a3, a4, b1, b2, b3, b4)
<1> DEFINE au == a1 * h + a2  al == a3 * h + a4  bu == b1 * h + b2  bl == b3 * h + b4
           r == au * bu + a1 * b3 + a3 * b1
<1>1. al * bl = (a3 * b3) * g + (a3 * b4 + a4 * b3) * h + a4 * b4
  OBVIOUS
<1>2. au * bl = (a1 * b3) * g + (a1 * b4 + a2 * b3) * h + a2 * b4
  OBVIOUS
<1>3. al * bu = (a3 * b1) * g + (a4 * b1 + a3 * b2) * h + a4 * b2
  OBVIOUS
<1>4. au \in Int /\ al \in Int /\ bu \in Int /\ bl \in Int
  OBVIOUS
<1> HIDE DEF au, al, bu, bl
<1>5. (au * g + al) * (bu * g + bl) = (au * bu) * (g * g) + (au * bl) * g + (al * bu) * g + al * bl
  BY <1>4
<1>6. (au * bl) * g = (a1 * b3) * (g * g) + (a1 * b4 + a2 * b3) * (h * g) + (a2 * b4) * g
  BY <1>2
<1>7. (al * bu) * g = (a3 * b1) * (g * g) + (a4 * b1 + a3 * b2) * (h * g) + (a4 * b2) * g
  BY <1>3
<1>8. r \in Int /\ r * (g * g) = (au * bu) * (g * g) + (a1 * b3) * (g * g) + (a3 * b1) * (g * g)
  BY <1>4
<1> HIDE DEF r
<1>9. (au * g + al) * (bu * g + bl)
        = a4 * b4 + (a4 * b3 + a3 * b4) * h + (a4 * b2 + a3 * b3 + a2 * b4) * g
            + (a4 * b1 + a3 * b2 + a2 * b3 + a1 * b4) * (h * g) + r * (g * g)
  <2> DEFINE G == g * g  k == h * g
             c0 == a4 * b4
             c1 == (a4 * b3 + a3 * b4) * h
             d2 == (a3 * b3) * g  e2 == (a2 * b4) * g  f2 == (a4 * b2) * g
             d3 == (a1 * b4 + a2 * b3) * k  e3 == (a4 * b1 + a3 * b2) * k
             d4 == (au * bu) * G  e4 == (a1 * b3) * G  f4 == (a3 * b1) * G
  <2>1. (a4 * b1 + a3 * b2 + a2 * b3 + a1 * b4) * k = d3 + e3
    OBVIOUS
  <2>2. (a4 * b2 + a3 * b3 + a2 * b4) * g = d2 + e2 + f2
    OBVIOUS
  <2>3. (a3 * b4 + a4 * b3) * h = c1
    OBVIOUS
  <2>4. /\ al * bl = d2 + c1 + c0 /\ (au * bl) * g = e4 + d3 + e2
        /\ (al * bu) * g = f4 + e3 + f2 /\ r * (g * g) = d4 + e4 + f4
    BY <1>1, <1>6, <1>7, <1>8, <2>3
  <2>5. (au * g + al) * (bu * g + bl) = d4 + (au * bl) * g + (al * bu) * g + al * bl
    BY <1>5
  <2>6. /\ c0 \in Int /\ c1 \in Int /\ d2 \in Int /\ e2 \in Int /\ f2 \in Int
        /\ d3 \in Int /\ e3 \in Int /\ d4 \in Int /\ e4 \in Int /\ f4 \in Int
    BY <1>4
  <2> HIDE DEF G, c0, c1, d2, e2, f2, d3, e3, d4, e4, f4
  <2>7. (au * g + al) * (bu * g + bl) = c0 + c1 + (d2 + e2 + f2) + (d3 + e3) + (d4 + e4 + f4)
    BY <2>4, <2>5, <2>6
  <2> QED  BY <2>1, <2>2, <2>4, <2>7 DEF c0, c1, k
<1> QED  BY <1>8, <1>9 DEF au, al, bu, bl, IsLongProduct

LEMMA ColumnsExact ==
  ASSUME NEW h \in Nat, h >= 2, NEW a, NEW b,
         \A i \in 1 .. 4 : a[i] \in 0 .. h - 1 /\ b[i] \in 0 .. h - 1
  PROVE  Columns(h, a, b)
<1> DEFINE a1 == a[1]  a2 == a[2]  a3 == a[3]  a4 == a[4]
           b1 == b[1]  b2 == b[2]  b3 == b[3]  b4 == b[4]
           P(i, j) == a[i] * b[j]  L(i, j) == Lo(h, a[i], b[j])  H(i, j) == Hi(h, a[i], b[j])
           g == h * h
           t0 == P(4, 4)
           t1 == P(4, 3) + P(3, 4)
           t2 == P(4, 2) + P(3, 3) + P(2, 4)
           t3 == P(4, 1) + P(3, 2) + P(2, 3) + P(1, 4)
           l0 == L(4, 4)
           l1 == L(4, 3) + L(3, 4)
           l2 == L(4, 2) + L(3, 3) + L(2, 4)
           l3 == L(4, 1) + L(3, 2) + L(2, 3) + L(1, 4)
           h0 == H(4, 4)
           h1 == H(4, 3) + H(3, 4)
           h2 == H(4, 2) + H(3, 3) + H(2, 4)
           h3 == H(4, 1) + H(3, 2) + H(2, 3) + H(1, 4)
<1>1. \A i, j \in 1 .. 4 : /\ P(i, j) \in Int /\ L(i, j) \in 0 .. h - 1 /\ H(i, j) \in 0 .. h - 2
                           /\ P(i, j) = H(i, j) * h + L(i, j)
  <2> SUFFICES ASSUME NEW i \in 1 .. 4, NEW j \in 1 .. 4
               PROVE  /\ P(i, j) \in Int /\ L(i, j) \in 0 .. h - 1 /\ H(i, j) \in 0 .. h - 2
                      /\ P(i, j) = H(i, j) * h + L(i, j)
    BY Zenon
  <2> DEFINE d == a[i]  e == b[j]
  <2>1. d \in 0 .. h - 1 /\ e \in 0 .. h - 1
    OBVIOUS
  <2> HIDE DEF d, e
  <2>2. CutInTwo(h, d, e)
    BY <2>1, DigitProduct
  <2>3. d * e \in Int
    BY <2>1
  <2> QED  BY <2>2, <2>3, Zenon DEF d, e, CutInTwo
<1>2. /\ a1 \in Int /\ a2 \in Int /\ a3 \in Int /\ a4 \in Int
      /\ b1 \in Int /\ b2 \in Int /\ b3 \in Int /\ b4 \in Int /\ g \in Nat /\ g = h * h
  OBVIOUS
<1>3. PICK q \in Int :
        ((a1 * h + a2) * g + (a3 * h + a4)) * ((b1 * h + b2) * g + (b3 * h + b4))
          = t0 + t1 * h + t2 * g + t3 * (h * g) + q * (g * g)
  <2> HIDE DEF a1, a2, a3, a4, b1, b2, b3, b4, g, P
  <2>1. IsLongProduct(h, g, a1, a2, a3, a4, b1, b2, b3, b4)
    BY <1>2, LongProduct
  <2> QED  BY <2>1 DEF IsLongProduct, P, a1, a2, a3, a4, b1, b2, b3, b4
<1> HIDE DEF P, L, H
<1>4. /\ t0 \in Int /\ t1 \in Int /\ t2 \in Int /\ t3 \in Int
      /\ l0 \in 0 .. h - 1 /\ l1 \in Nat /\ l2 \in Nat /\ l3 \in Nat
      /\ h0 \in Nat /\ h1 \in Nat /\ h2 \in Nat /\ h3 \in Nat
      /\ l1 + h0 <= 3 * h - 4 /\ l2 + h1 <= 5 * h - 7
  BY <1>1
<1>5. t0 = h0 * h + l0 /\ t1 = h1 * h + l1 /\ t2 = h2 * h + l2 /\ t3 = h3 * h + l3
  <2>1. t0 = h0 * h + l0 /\ t1 = h1 * h + l1
    BY <1>1
  <2>2. t2 = h2 * h + l2
    BY <1>1
  <2>3. t3 = h3 * h + l3
    BY <1>1
  <2> QED  BY <2>1, <2>2, <2>3
<1> DEFINE c0 == C0(h, a, b)  c1 == C1(h, a, b)  c2 == C2(h, a, b)  c3 == C3(h, a, b)
<1>6. c0 = l0 /\ c1 = l1 + h0 /\ c2 = l2 + h1 /\ c3 = l3 + h2
  BY <1>1 DEF C0, C1, C2, C3, L, H
<1>7. FourDigits(h, a) = (a1 * h + a2) * g + (a3 * h + a4)
      /\ FourDigits(h, b) = (b1 * h + b2) * g + (b3 * h + b4)
  BY DEF FourDigits
<1> HIDE DEF t0, t1, t2, t3, l0, l1, l2, l3, h0, h1, h2, h3, c0, c1, c2, c3, a1, a2, a3, a4, b1, b2, b3, b4
<1>8. 3 * h - 4 < g /\ 5 * h - 7 < g
  <2>1. CASE h \in {2, 3}
    BY <2>1
  <2>2. CASE h >= 4
    <3>1. 5 * h - 7 < (h - 4) * h + 4 * h
      <4>1. h >= 5 => 1 * h <= (h - 4) * h
        BY TimesMonotone
      <4>2. (h - 4) * h >= 0 /\ (h - 4) * h \in Int
        BY <2>2
      <4> QED  BY <2>2, <4>1, <4>2
    <3>2. (h - 4) * h + 4 * h = g
      OBVIOUS
    <3> QED  BY <2>2, <3>1, <3>2
  <2> QED  BY <2>1, <2>2
<1>9. t0 + t1 * h + t2 * g + t3 * (h * g)
        = l0 + (l1 + h0) * h + (l2 + h1) * g + (l3 + h2) * (h * g) + h3 * (g * g)
  <2> HIDE DEF g
  <2> QED  BY <1>2, <1>4, <1>5, CarriedOver
<1>10. FourDigits(h, a) * FourDigits(h, b)
         = c0 + c1 * h + c2 * g + c3 * (h * g) + (q + h3) * (g * g)
  <2> DEFINE gg == g * g
  <2>1. (q + h3) * gg = q * gg + h3 * gg /\ gg \in Int /\ q * gg \in Int /\ h3 * gg \in Int
    BY <1>4
  <2> HIDE DEF gg, g
  <2>2. FourDigits(h, a) * FourDigits(h, b) = t0 + t1 * h + t2 * g + t3 * (h * g) + q * gg
    BY <1>3, <1>7 DEF gg
  <2>3. t0 + t1 * h + t2 * g + t3 * (h * g) = c0 + c1 * h + c2 * g + c3 * (h * g) + h3 * gg
    BY <1>6, <1>9 DEF gg
  <2> DEFINE s == c0 + c1 * h + c2 * g + c3 * (h * g)
  <2>4. s \in Int
    BY <1>2, <1>4, <1>6
  <2> HIDE DEF s
  <2>5. FourDigits(h, a) * FourDigits(h, b) = s + h3 * gg + q * gg
    BY <2>2, <2>3 DEF s
  <2>6. FourDigits(h, a) * FourDigits(h, b) = s + (q + h3) * gg
    BY <2>1, <2>4, <2>5
  <2> QED  BY <2>6 DEF s, gg
<1>11. c0 \in 0 .. h - 1 /\ c1 \in 0 .. g - 1 /\ c2 \in 0 .. g - 1 /\ c3 \in Nat /\ q + h3 \in Int
  BY <1>4, <1>6, <1>8
<1> QED  BY <1>10, <1>11 DEF Columns, c0, c1, c2, c3

\* The half words of a 128 bit number.
Halves(z) == <<UPPER(z) \div HalfBase, UPPER(z) % HalfBase,
               LOWER(z) \div HalfBase, LOWER(z) % HalfBase>>

LEMMA HalfWord ==
  ASSUME NEW n \in 0 .. Base - 1
  PROVE  /\ n \div HalfBase \in 0 .. HalfBase - 1 /\ n % HalfBase \in 0 .. HalfBase - 1
         /\ n = (n \div HalfBase) * HalfBase + (n % HalfBase)
<1> DEFINE h == HalfBase
<1>1. h \in Nat \ {0} /\ Base = h * h
  BY BaseType
<1> HIDE DEF h
<1>2. n \in 0 .. h * h - 1
  BY <1>1
<1>3. /\ n \div h \in 0 .. h - 1 /\ n % h \in 0 .. h - 1
      /\ n = (n \div h) * h + (n % h)
  BY <1>1, <1>2, Shifted
<1> QED  BY <1>3 DEF h

LEMMA HalvesAre ==
  ASSUME NEW z \in Uint128
  PROVE  /\ \A i \in 1 .. 4 : Halves(z)[i] \in 0 .. HalfBase - 1
         /\ FourDigits(HalfBase, Halves(z)) = Value128(z)
<1>1. UPPER(z) \in 0 .. Base - 1 /\ LOWER(z) \in 0 .. Base - 1
  BY HalvesType
<1>2. /\ Halves(z)[1] = UPPER(z) \div HalfBase /\ Halves(z)[2] = UPPER(z) % HalfBase
      /\ Halves(z)[3] = LOWER(z) \div HalfBase /\ Halves(z)[4] = LOWER(z) % HalfBase
  BY DEF Halves
<1>3. \A i \in 1 .. 4 : Halves(z)[i] \in 0 .. HalfBase - 1
  BY <1>1, <1>2, HalfWord
<1>4. /\ Halves(z)[1] * HalfBase + Halves(z)[2] = UPPER(z)
      /\ Halves(z)[3] * HalfBase + Halves(z)[4] = LOWER(z)
  BY <1>1, <1>2, HalfWord
<1> QED  BY <1>3, <1>4, BaseType DEF FourDigits, Value128

LEMMA Mul128Sums ==
  ASSUME NEW x \in Uint128, NEW y \in Uint128
  PROVE  LET c0 == Word(C0(HalfBase, Halves(x), Halves(y)))
             c1 == Word(C1(HalfBase, Halves(x), Halves(y)))
             c2 == Word(C2(HalfBase, Halves(x), Halves(y)))
             c3 == Word(C3(HalfBase, Halves(x), Halves(y)))
         IN  Mul128(x, y) =
               Add128(<<0, c0>>,
                      Add128(<<c2, 0>>, Add128(<<Shl(c3, W \div 2), 0>>,
                                               <<c1 \div HalfBase, Shl(c1, W \div 2)>>)))
<1> DEFINE a == Halves(x)  b == Halves(y)  h == HalfBase
           w(i, j) == Word(a[i] * b[j])
<1>0. h \in Nat /\ h >= 2 /\ Base = h * h
  BY BaseType
<1>1. \A i, j \in 1 .. 4 : /\ w(i, j) = a[i] * b[j]
                           /\ w(i, j) \div h = Hi(h, a[i], b[j]) /\ Hi(h, a[i], b[j]) \in Int
                           /\ w(i, j) % h = Lo(h, a[i], b[j]) /\ Lo(h, a[i], b[j]) \in Int
  <2> SUFFICES ASSUME NEW i \in 1 .. 4, NEW j \in 1 .. 4
               PROVE  /\ w(i, j) = a[i] * b[j]
                      /\ w(i, j) \div h = Hi(h, a[i], b[j]) /\ Hi(h, a[i], b[j]) \in Int
                      /\ w(i, j) % h = Lo(h, a[i], b[j]) /\ Lo(h, a[i], b[j]) \in Int
    BY Zenon
  <2> DEFINE d == a[i]  e == b[j]  n == d * e
  <2>1. d \in 0 .. h - 1 /\ e \in 0 .. h - 1
    BY HalvesAre
  <2> HIDE DEF d, e, h
  <2>2. CutInTwo(h, d, e)
    BY <1>0, <2>1, DigitProduct
  <2>3. n \in 0 .. Base - 1 /\ Base \in Nat /\ Hi(h, d, e) \in Int /\ Lo(h, d, e) \in Int
    BY <1>0, <2>2 DEF CutInTwo
  <2> HIDE DEF n
  <2>4. Word(n) = n
    BY <2>3 DEF Word
  <2> QED  BY <2>3, <2>4 DEF n, d, e, Hi, Lo
<1> DEFINE high(i, j) == w(4 - i, j + 1) \div h
           low(i, j) == w(4 - i, j + 1) % h
<1>3. Mul128(x, y) = 
        LET sum32(k) == Word(Column(k, high, low))
        IN  Add128(<<0, sum32(0)>>,
                      Add128(<<sum32(2), 0>>, Add128(<<Shl(sum32(3), W \div 2), 0>>,
                                               <<sum32(1) \div HalfBase, Shl(sum32(1), W \div 2)>>)))
  BY Zenon DEF Mul128, Halves
<1>4. \A i \in 0 .. 3, j \in 0 .. 3 :
         /\ high(i, j) = Hi(h, a[4 - i], b[j + 1]) /\ low(i, j) = Lo(h, a[4 - i], b[j + 1])
         /\ high(i, j) \in Int /\ low(i, j) \in Int
  <2> SUFFICES ASSUME NEW i \in 0 .. 3, NEW j \in 0 .. 3
               PROVE  /\ high(i, j) = Hi(h, a[4 - i], b[j + 1]) /\ low(i, j) = Lo(h, a[4 - i], b[j + 1])
                      /\ high(i, j) \in Int /\ low(i, j) \in Int
    BY Zenon
  <2>1. 4 - i \in 1 .. 4 /\ j + 1 \in 1 .. 4
    OBVIOUS
  <2> HIDE DEF w
  <2> QED  BY <1>1, <2>1, Zenon
<1> HIDE DEF high, low, w, a, b, h
<1>5. /\ Column(0, high, low) = C0(h, a, b) /\ Column(1, high, low) = C1(h, a, b)
      /\ Column(2, high, low) = C2(h, a, b) /\ Column(3, high, low) = C3(h, a, b)
  <2>1. /\ low(0, 3) = Lo(h, a[4], b[4]) /\ low(0, 3) \in Int
        /\ low(0, 2) = Lo(h, a[4], b[3]) /\ low(0, 2) \in Int
        /\ low(1, 3) = Lo(h, a[3], b[4]) /\ low(1, 3) \in Int
        /\ low(0, 1) = Lo(h, a[4], b[2]) /\ low(0, 1) \in Int
        /\ low(1, 2) = Lo(h, a[3], b[3]) /\ low(1, 2) \in Int
        /\ low(2, 3) = Lo(h, a[2], b[4]) /\ low(2, 3) \in Int
        /\ low(0, 0) = Lo(h, a[4], b[1]) /\ low(0, 0) \in Int
        /\ low(1, 1) = Lo(h, a[3], b[2]) /\ low(1, 1) \in Int
        /\ low(2, 2) = Lo(h, a[2], b[3]) /\ low(2, 2) \in Int
        /\ low(3, 3) = Lo(h, a[1], b[4]) /\ low(3, 3) \in Int
    BY <1>4
  <2>2. /\ high(0, 3) = Hi(h, a[4], b[4]) /\ high(0, 3) \in Int
        /\ high(0, 2) = Hi(h, a[4], b[3]) /\ high(0, 2) \in Int
        /\ high(1, 3) = Hi(h, a[3], b[4]) /\ high(1, 3) \in Int
        /\ high(0, 1) = Hi(h, a[4], b[2]) /\ high(0, 1) \in Int
        /\ high(1, 2) = Hi(h, a[3], b[3]) /\ high(1, 2) \in Int
        /\ high(2, 3) = Hi(h, a[2], b[4]) /\ high(2, 3) \in Int
    BY <1>4
  <2>3. Column(0, high, low) = C0(h, a, b)
    BY <2>1 DEF Column, C0
  <2>4. Column(1, high, low) = C1(h, a, b)
    BY <2>1, <2>2 DEF Column, C1
  <2>5. Column(2, high, low) = C2(h, a, b)
    BY <2>1, <2>2 DEF Column, C2
  <2>6. Column(3, high, low) = C3(h, a, b)
    BY <2>1, <2>2 DEF Column, C3
  <2> QED  BY <2>3, <2>4, <2>5, <2>6
<1> QED  BY <1>3, <1>5, Zenon DEF a, b, h

\* Shifting left forgets what overflows, before and after.
Forgets(B, h, n) ==
  /\ n % B \in 0 .. B - 1 /\ ((n % B) * h) % B \in 0 .. B - 1
  /\ \E m \in Int : ((n % B) * h) % B = n * h - m * B

LEMMA LowShifted ==
  ASSUME NEW B \in Nat \ {0}, NEW h \in Nat, NEW n \in Nat
  PROVE  Forgets(B, h, n)
<1> DEFINE k == n \div B  r == n % B  d == (r * h) \div B  e == (r * h) % B
<1>1. k \in Nat /\ r \in 0 .. B - 1 /\ n = k * B + r
  BY DivMod
<1> HIDE DEF k, r
<1> DEFINE s == r * h
<1>2. s \in Nat
  BY <1>1
<1>3. d \in Nat /\ e \in 0 .. B - 1 /\ r * h = d * B + e
  <2> HIDE DEF s
  <2>1. s \div B \in Nat /\ s % B \in 0 .. B - 1 /\ s = (s \div B) * B + (s % B)
    BY <1>2, DivMod
  <2> QED  BY <2>1 DEF s
<1> HIDE DEF d, e, s
<1>4. n * h = (k * h) * B + d * B + e
  BY <1>1, <1>3
<1>5. e = n * h - (k * h + d) * B /\ k * h + d \in Int
  BY <1>1, <1>3, <1>4
<1>6. n % B = r /\ ((n % B) * h) % B = e
  BY DEF r, e
<1> QED  BY <1>1, <1>3, <1>5, <1>6 DEF Forgets

LEMMA Mul128Exact ==
  ASSUME NEW x \in Uint128, NEW y \in Uint128
  PROVE  /\ Mul128(x, y) \in Uint128
         /\ Value128(Mul128(x, y)) = (Value128(x) * Value128(y)) % Base128
<1> DEFINE h == HalfBase  B == Base  a == Halves(x)  b == Halves(y)
           c0 == C0(h, a, b)  c1 == C1(h, a, b)  c2 == C2(h, a, b)  c3 == C3(h, a, b)
           s3 == c3 % B
           t3 == (s3 * h) % B  u1 == c1 \div h  t1 == (c1 * h) % B
           one == Add128(<<t3, 0>>, <<u1, t1>>)
           two == Add128(<<c2, 0>>, one)
           all == Add128(<<0, c0>>, two)
           V == Value128(all)
<1>1. h \in Nat \ {0} /\ h >= 2 /\ B = h * h /\ B \in Nat \ {0} /\ Base128 = B * B /\ Base128 \in Nat \ {0}
  BY BaseType DEF Base128
<1>2. Columns(h, a, b)
  <2> HIDE DEF h, a, b
  <2>1. \A i \in 1 .. 4 : a[i] \in 0 .. h - 1 /\ b[i] \in 0 .. h - 1
    BY HalvesAre DEF a, b, h
  <2> QED  BY <1>1, <2>1, ColumnsExact
<1>3. c0 \in 0 .. h - 1 /\ c1 \in 0 .. B - 1 /\ c2 \in 0 .. B - 1 /\ c3 \in Nat
  BY <1>1, <1>2 DEF Columns
<1>4. PICK r \in Int : Value128(x) * Value128(y)
                         = c0 + c1 * h + c2 * B + c3 * (h * B) + r * (B * B)
  <2>1. Value128(x) = FourDigits(h, a) /\ Value128(y) = FourDigits(h, b)
    BY HalvesAre
  <2> HIDE DEF a, b, h, B
  <2>2. \E r \in Int : FourDigits(h, a) * FourDigits(h, b)
          = c0 + c1 * h + c2 * (h * h) + c3 * (h * (h * h)) + r * ((h * h) * (h * h))
    BY <1>2, Zenon DEF Columns
  <2> QED  BY <1>1, <2>1, <2>2
<1>5. c0 \in 0 .. B - 1
  <2>1. 1 * h <= h * h
    BY <1>1, TimesMonotone
  <2> QED  BY <1>1, <1>3, <2>1
<1>6. Mul128(x, y) = all
  <2>1. Word(c0) = c0 /\ Word(c1) = c1 /\ Word(c2) = c2 /\ Word(c3) = s3
    BY <1>1, <1>3, <1>5 DEF Word
  <2>2. Shl(s3, W \div 2) = t3 /\ Shl(c1, W \div 2) = t1
    BY DEF Shl, Word, HalfBase
  <2>3. Mul128(x, y) =
          Add128(<<0, Word(c0)>>,
                 Add128(<<Word(c2), 0>>, Add128(<<Shl(Word(c3), W \div 2), 0>>,
                                               <<Word(c1) \div h, Shl(Word(c1), W \div 2)>>)))
    BY Mul128Sums
  <2> HIDE DEF c0, c1, c2, c3
  <2> QED  BY <2>1, <2>2, <2>3, Zenon
<1> HIDE DEF h, B, a, b, c0, c1, c2, c3
<1>7. PICK m \in Int : t3 = c3 * h - m * B
  <2>1. h \in Nat
    BY <1>1
  <2>2. Forgets(B, h, c3)
    BY <1>1, <1>3, <2>1, LowShifted
  <2> QED  BY <2>2, Zenon DEF Forgets
<1>8. s3 \in 0 .. B - 1 /\ t3 \in 0 .. B - 1
  <2>1. Forgets(B, h, c3)
    BY <1>1, <1>3, LowShifted
  <2> QED  BY <2>1, Zenon DEF Forgets
<1>9. u1 \in 0 .. B - 1 /\ t1 \in 0 .. B - 1 /\ u1 * B + t1 = c1 * h
  <2> DEFINE l1 == c1 % h
  <2>1. c1 \in 0 .. h * h - 1 /\ h \in Nat \ {0}
    BY <1>1, <1>3
  <2>2. /\ u1 \in 0 .. h - 1 /\ l1 \in 0 .. h - 1 /\ c1 = u1 * h + l1
        /\ (c1 * h) % (h * h) = l1 * h /\ l1 * h \in Nat /\ l1 * h <= h * h - h
    BY <2>1, Shifted, Zenon
  <2>3. u1 < B /\ t1 = l1 * h /\ l1 * h < B
    <3>1. 1 * h <= h * h
      BY <1>1, TimesMonotone
    <3> QED  BY <1>1, <2>2, <3>1
  <2> HIDE DEF u1, l1, t1
  <2>4. c1 * h = u1 * (h * h) + l1 * h
    BY <1>1, <2>2
  <2> QED  BY <1>1, <2>2, <2>3, <2>4
<1> HIDE DEF s3, t3, u1, t1
<1>10. /\ <<t3, 0>> \in Uint128 /\ <<u1, t1>> \in Uint128
       /\ <<c2, 0>> \in Uint128 /\ <<0, c0>> \in Uint128
  BY <1>1, <1>3, <1>5, <1>8, <1>9 DEF Uint128, B
<1>11. /\ Value128(<<t3, 0>>) = t3 * B /\ Value128(<<u1, t1>>) = u1 * B + t1
       /\ Value128(<<c2, 0>>) = c2 * B /\ Value128(<<0, c0>>) = c0
  <2>1. t3 \in Nat /\ c2 \in Nat /\ c0 \in Nat
    BY <1>1, <1>3, <1>5, <1>8
  <2> QED  BY <2>1, PairValue, Zenon DEF B
<1>12. PICK e1 \in {0, 1} : Value128(one) = t3 * B + c1 * h - e1 * Base128
  BY <1>9, <1>10, <1>11, Carry128
<1>13. one \in Uint128
  BY <1>10, Carry128
<1>14. PICK e2 \in {0, 1} : Value128(two) = c2 * B + Value128(one) - e2 * Base128
  BY <1>10, <1>11, <1>13, Carry128
<1>15. two \in Uint128
  BY <1>10, <1>13, Carry128
<1>16. PICK e3 \in {0, 1} : V = c0 + Value128(two) - e3 * Base128
  BY <1>10, <1>11, <1>15, Carry128
<1>17. all \in Uint128 /\ V \in 0 .. Base128 - 1
  BY <1>10, <1>15, Carry128, Value128Type
<1> HIDE DEF one, two, all, V
<1> DEFINE k == m + e1 + e2 + e3 + r
<1>18. Value128(x) * Value128(y) = V + k * Base128
  <2>1. t3 * B = c3 * (h * B) - m * Base128
    BY <1>1, <1>3, <1>7
  <2> DEFINE d3 == c3 * (h * B)  d1 == c1 * h  d2 == c2 * B  A == Base128
  <2>2. d3 \in Int /\ d1 \in Int /\ d2 \in Int /\ c0 \in Int /\ A \in Int
    BY <1>1, <1>3
  <2>3. k * A = m * A + e1 * A + e2 * A + e3 * A + r * A
    BY <2>2
  <2>4. m * A \in Int /\ e1 * A \in Int /\ e2 * A \in Int /\ e3 * A \in Int /\ r * A \in Int
    BY <2>2
  <2>5. V = c0 + (d2 + ((d3 - m * A) + d1 - e1 * A) - e2 * A) - e3 * A
    BY <1>12, <1>14, <1>16, <2>1
  <2>6. Value128(x) * Value128(y) = c0 + d1 + d2 + d3 + r * A
    BY <1>1, <1>4
  <2> DEFINE mA == m * A  p1 == e1 * A  p2 == e2 * A  p3 == e3 * A  rA == r * A
  <2> HIDE DEF d3, d1, d2, A, k, mA, p1, p2, p3, rA
  <2>7. k * A = mA + p1 + p2 + p3 + rA
    BY <2>3 DEF mA, p1, p2, p3, rA
  <2>8. V = c0 + (d2 + ((d3 - mA) + d1 - p1) - p2) - p3
    BY <2>5 DEF mA, p1, p2, p3, rA
  <2>9. Value128(x) * Value128(y) = c0 + d1 + d2 + d3 + rA
    BY <2>6 DEF rA
  <2>10. mA \in Int /\ p1 \in Int /\ p2 \in Int /\ p3 \in Int /\ rA \in Int
    BY <2>4 DEF mA, p1, p2, p3, rA
  <2>11. Value128(x) * Value128(y) = V + k * A
    BY <2>2, <2>7, <2>8, <2>9, <2>10
  <2> QED  BY <2>11 DEF A
<1>19. k \in Int
  OBVIOUS
<1> HIDE DEF k
<1>20. (Value128(x) * Value128(y)) % Base128 = V
  BY <1>1, <1>17, <1>18, <1>19, Wrap
<1> QED  BY <1>6, <1>17, <1>20 DEF V

LEMMA ToUint128Is ==
  ASSUME NEW n \in Nat
  PROVE  ToUint128(n) \in Uint128 /\ Value128(ToUint128(n)) = n % Base128
<1> DEFINE B == Base  k == n \div B  l == n % B  r == k \div B  u == k % B
<1>1. B \in Nat \ {0} /\ Base128 = B * B /\ Base128 \in Nat \ {0}
  BY BaseType DEF Base128
<1>2. k \in Nat /\ l \in 0 .. B - 1 /\ n = k * B + l
  BY <1>1, DivMod
<1> HIDE DEF B, k, l
<1>3. r \in Nat /\ u \in 0 .. B - 1 /\ k = r * B + u
  BY <1>1, <1>2, DivMod
<1> HIDE DEF r, u
<1>4. ToUint128(n) = <<u, l>>
  BY DEF ToUint128, Word, u, l, k, B
<1>5. <<u, l>> \in Uint128 /\ Value128(<<u, l>>) = u * B + l
  BY <1>1, <1>2, <1>3, PairValue DEF Uint128, B
<1>6. n = r * (B * B) + (u * B + l) /\ u * B + l \in 0 .. B * B - 1
  BY <1>1, <1>2, <1>3, TwoDigits
<1>7. n % Base128 = u * B + l
  <2> DEFINE e == u * B + l
  <2>1. n = r * Base128 + e /\ e \in 0 .. Base128 - 1
    BY <1>1, <1>6
  <2> HIDE DEF e
  <2>2. (r * Base128 + e) % Base128 = e
    <3>1. r \in Int /\ Base128 \in Nat \ {0}
      BY <1>1, <1>3
    <3> QED  BY <2>1, <3>1, DivUnique
  <2> QED  BY <2>1, <2>2 DEF e
<1> QED  BY <1>4, <1>5, <1>7

LEMMA WordsOf ==
  ASSUME NEW x \in Uint128
  PROVE  UPPER(x) = Value128(x) \div Base /\ LOWER(x) = Value128(x) % Base
<1>1. /\ Base \in Nat \ {0} /\ UPPER(x) \in Int /\ LOWER(x) \in 0 .. Base - 1
      /\ Value128(x) = UPPER(x) * Base + LOWER(x)
  BY HalvesType DEF Value128
<1> QED  BY <1>1, DivUnique

LEMMA DigitsAre ==
  ASSUME NEW z \in Uint256
  PROVE  /\ \A i \in 1 .. 4 : Digits(z)[i] \in 0 .. Base - 1
         /\ FourDigits(Base, Digits(z)) = Value256(z)
<1>1. /\ UPPER(UPPER(z)) \in 0 .. Base - 1 /\ LOWER(UPPER(z)) \in 0 .. Base - 1
      /\ UPPER(LOWER(z)) \in 0 .. Base - 1 /\ LOWER(LOWER(z)) \in 0 .. Base - 1
  BY Value256Type, HalvesType
<1>2. /\ Digits(z)[1] = UPPER(UPPER(z)) /\ Digits(z)[2] = LOWER(UPPER(z))
      /\ Digits(z)[3] = UPPER(LOWER(z)) /\ Digits(z)[4] = LOWER(LOWER(z))
  BY DEF Digits
<1>3. \A i \in 1 .. 4 : Digits(z)[i] \in 0 .. Base - 1
  BY <1>1, <1>2
<1> QED  BY <1>2, <1>3 DEF FourDigits, Value256, Value128, Base128

\* A product of two words is exact, and mul256() takes it apart again.
LEMMA WordProduct ==
  ASSUME NEW a \in 0 .. Base - 1, NEW b \in 0 .. Base - 1
  PROVE  LET p == Mul128(<<0, a>>, <<0, b>>)
         IN  UPPER(p) = Hi(Base, a, b) /\ LOWER(p) = Lo(Base, a, b)
<1> DEFINE p == Mul128(<<0, a>>, <<0, b>>)  n == a * b
<1>1. Base \in Nat /\ Base >= 2 /\ Base128 = Base * Base /\ a \in Nat /\ b \in Nat
  BY BaseType DEF Base128
<1>2. <<0, a>> \in Uint128 /\ <<0, b>> \in Uint128
  BY <1>1 DEF Uint128
<1>3. Value128(<<0, a>>) = a /\ Value128(<<0, b>>) = b
  BY <1>1, PairValue
<1>4. CutInTwo(Base, a, b)
  BY <1>1, DigitProduct
<1>5. n \in 0 .. Base128 - 1
  BY <1>1, <1>4 DEF CutInTwo
<1>6. p \in Uint128 /\ Value128(p) = n % Base128
  BY <1>2, <1>3, Mul128Exact
<1> HIDE DEF p, n
<1>7. Value128(p) = n
  BY <1>1, <1>5, <1>6
<1>8. UPPER(p) = n \div Base /\ LOWER(p) = n % Base
  BY <1>6, <1>7, WordsOf
<1> QED  BY <1>8 DEF p, n, Hi, Lo

LEMMA Sum64Is ==
  ASSUME NEW x \in Uint256, NEW y \in Uint256
  PROVE  /\ Sum64(x, y, 0) = ToUint128(C0(Base, Digits(x), Digits(y)))
         /\ Sum64(x, y, 1) = ToUint128(C1(Base, Digits(x), Digits(y)))
         /\ Sum64(x, y, 2) = ToUint128(C2(Base, Digits(x), Digits(y)))
         /\ Sum64(x, y, 3) = ToUint128(C3(Base, Digits(x), Digits(y)))
<1> DEFINE a == Digits(x)  b == Digits(y)  h == Base
           p(i, j) == Mul128(<<0, a[4 - i]>>, <<0, b[j + 1]>>)
           high(i, j) == UPPER(p(i, j))
           low(i, j) == LOWER(p(i, j))
<1>1. /\ Sum64(x, y, 0) = ToUint128(Column(0, high, low))
      /\ Sum64(x, y, 1) = ToUint128(Column(1, high, low))
      /\ Sum64(x, y, 2) = ToUint128(Column(2, high, low))
      /\ Sum64(x, y, 3) = ToUint128(Column(3, high, low))
  BY Zenon DEF Sum64
<1>2. \A i \in 0 .. 3, j \in 0 .. 3 :
         /\ high(i, j) = Hi(h, a[4 - i], b[j + 1]) /\ low(i, j) = Lo(h, a[4 - i], b[j + 1])
         /\ high(i, j) \in Int /\ low(i, j) \in Int
  <2> SUFFICES ASSUME NEW i \in 0 .. 3, NEW j \in 0 .. 3
               PROVE  /\ high(i, j) = Hi(h, a[4 - i], b[j + 1]) /\ low(i, j) = Lo(h, a[4 - i], b[j + 1])
                      /\ high(i, j) \in Int /\ low(i, j) \in Int
    BY Zenon
  <2> DEFINE d == a[4 - i]  e == b[j + 1]
  <2>1. 4 - i \in 1 .. 4 /\ j + 1 \in 1 .. 4
    OBVIOUS
  <2>2. d \in 0 .. Base - 1 /\ e \in 0 .. Base - 1
    BY <2>1, DigitsAre
  <2> HIDE DEF d, e
  <2>3. LET q == Mul128(<<0, d>>, <<0, e>>)
        IN  UPPER(q) = Hi(Base, d, e) /\ LOWER(q) = Lo(Base, d, e)
    BY <2>2, WordProduct
  <2>4. CutInTwo(Base, d, e)
    BY <2>2, BaseType, DigitProduct
  <2>5. Hi(Base, d, e) \in Int /\ Lo(Base, d, e) \in Int
    BY <2>4 DEF CutInTwo
  <2> QED  BY <2>3, <2>5, Zenon DEF d, e
<1> HIDE DEF high, low, a, b, h
<1>3. /\ low(0, 3) = Lo(h, a[4], b[4]) /\ low(0, 3) \in Int
      /\ low(0, 2) = Lo(h, a[4], b[3]) /\ low(0, 2) \in Int
      /\ low(1, 3) = Lo(h, a[3], b[4]) /\ low(1, 3) \in Int
      /\ low(0, 1) = Lo(h, a[4], b[2]) /\ low(0, 1) \in Int
      /\ low(1, 2) = Lo(h, a[3], b[3]) /\ low(1, 2) \in Int
      /\ low(2, 3) = Lo(h, a[2], b[4]) /\ low(2, 3) \in Int
      /\ low(0, 0) = Lo(h, a[4], b[1]) /\ low(0, 0) \in Int
      /\ low(1, 1) = Lo(h, a[3], b[2]) /\ low(1, 1) \in Int
      /\ low(2, 2) = Lo(h, a[2], b[3]) /\ low(2, 2) \in Int
      /\ low(3, 3) = Lo(h, a[1], b[4]) /\ low(3, 3) \in Int
  BY <1>2
<1>4. /\ high(0, 3) = Hi(h, a[4], b[4]) /\ high(0, 3) \in Int
      /\ high(0, 2) = Hi(h, a[4], b[3]) /\ high(0, 2) \in Int
      /\ high(1, 3) = Hi(h, a[3], b[4]) /\ high(1, 3) \in Int
      /\ high(0, 1) = Hi(h, a[4], b[2]) /\ high(0, 1) \in Int
      /\ high(1, 2) = Hi(h, a[3], b[3]) /\ high(1, 2) \in Int
      /\ high(2, 3) = Hi(h, a[2], b[4]) /\ high(2, 3) \in Int
  BY <1>2
<1>5. Column(0, high, low) = C0(h, a, b)
  BY <1>3 DEF Column, C0
<1>6. Column(1, high, low) = C1(h, a, b)
  BY <1>3, <1>4 DEF Column, C1
<1>7. Column(2, high, low) = C2(h, a, b)
  BY <1>3, <1>4 DEF Column, C2
<1>8. Column(3, high, low) = C3(h, a, b)
  BY <1>3, <1>4 DEF Column, C3
<1> QED  BY <1>1, <1>5, <1>6, <1>7, <1>8, Zenon DEF a, b, h

LEMMA ModWraps ==
  ASSUME NEW n \in Nat, NEW b \in Nat \ {0}
  PROVE  \E k \in Int : n % b = n - k * b
<1> DEFINE d == n \div b
<1>1. d \in Int /\ n = d * b + (n % b) /\ n % b \in Int
  BY DivMod
<1> HIDE DEF d
<1>2. n % b = n - d * b
  BY <1>1
<1> QED  BY <1>1, <1>2

LEMMA Add256Wraps ==
  ASSUME NEW x \in Uint256, NEW y \in Uint256
  PROVE  /\ Add256(x, y) \in Uint256
         /\ \E k \in Int : Value256(Add256(x, y)) = (Value256(x) + Value256(y)) - k * Base256
<1>1. Value256(x) + Value256(y) \in Nat /\ Base256 \in Nat \ {0}
  BY Value256Type
<1>2. PICK k \in Int : (Value256(x) + Value256(y)) % Base256 = (Value256(x) + Value256(y)) - k * Base256
  BY <1>1, ModWraps
<1> QED  BY <1>2, Add256Exact

LEMMA Mul256Exact ==
  ASSUME NEW x \in Uint256, NEW y \in Uint256
  PROVE  /\ Mul256(x, y) \in Uint256
         /\ Value256(Mul256(x, y))
              = (Value256(x) * Value256(y) + UPPER(Sum64(x, y, 1)) * (Base * Base128 - Base128)) % Base256
<1> DEFINE h == Base  G == Base128  a == Digits(x)  b == Digits(y)
           c0 == C0(h, a, b)  c1 == C1(h, a, b)  c2 == C2(h, a, b)  c3 == C3(h, a, b)
           S0 == Sum64(x, y, 0)  S1 == Sum64(x, y, 1)  S2 == Sum64(x, y, 2)  S3 == Sum64(x, y, 3)
           T3 == Shiftl128(S3, W)  T1 == Shiftl128(S1, W)
           t3 == Value128(T3)  carry == UPPER(S1)
           target1 == <<T3, Clear128>>  target2 == <<<<carry, 0>>, T1>>
           one == Add256(target1, target2)
           two == Add256(<<S2, Clear128>>, one)
           all == Add256(<<Clear128, S0>>, two)
           V == Value256(all)  X == Value256(x)  Y == Value256(y)
<1>1. /\ h \in Nat /\ h >= 2 /\ h # 0 /\ G = h * h /\ G \in Nat \ {0}
      /\ Base256 = G * G /\ Base256 \in Nat \ {0} /\ W \in Nat /\ Pow2(W) = h
  BY BaseType DEF Base128, Base256, Base
<1>2. Columns(h, a, b)
  <2> HIDE DEF h, a, b
  <2>1. \A i \in 1 .. 4 : a[i] \in 0 .. h - 1 /\ b[i] \in 0 .. h - 1
    BY DigitsAre DEF a, b, h
  <2> QED  BY <1>1, <2>1, ColumnsExact
<1>3. c0 \in 0 .. h - 1 /\ c1 \in 0 .. G - 1 /\ c2 \in 0 .. G - 1 /\ c3 \in Nat
  BY <1>1, <1>2 DEF Columns
<1>4. PICK r \in Int : X * Y = c0 + c1 * h + c2 * G + c3 * (h * G) + r * (G * G)
  <2>1. X = FourDigits(h, a) /\ Y = FourDigits(h, b)
    BY DigitsAre
  <2> HIDE DEF a, b, h, G
  <2>2. \E r \in Int : FourDigits(h, a) * FourDigits(h, b)
          = c0 + c1 * h + c2 * (h * h) + c3 * (h * (h * h)) + r * ((h * h) * (h * h))
    BY <1>2, Zenon DEF Columns
  <2> QED  BY <1>1, <2>1, <2>2
<1>5. c0 \in 0 .. G - 1
  <2>1. 1 * h <= h * h
    BY <1>1, TimesMonotone
  <2> QED  BY <1>1, <1>3, <2>1
<1>6. /\ S0 \in Uint128 /\ Value128(S0) = c0 /\ S1 \in Uint128 /\ Value128(S1) = c1
      /\ S2 \in Uint128 /\ Value128(S2) = c2 /\ S3 \in Uint128 /\ Value128(S3) = c3 % G
  <2>1. c0 \in Nat /\ c1 \in Nat /\ c2 \in Nat
    BY <1>1, <1>3
  <2>2. /\ S0 = ToUint128(c0) /\ S1 = ToUint128(c1) /\ S2 = ToUint128(c2) /\ S3 = ToUint128(c3)
    BY Sum64Is
  <2> HIDE DEF c0, c1, c2, c3, S0, S1, S2, S3, G, h
  <2>3. c0 % G = c0 /\ c1 % G = c1 /\ c2 % G = c2
    BY <1>1, <1>3, <1>5
  <2>4. /\ ToUint128(c0) \in Uint128 /\ Value128(ToUint128(c0)) = c0 % G
        /\ ToUint128(c1) \in Uint128 /\ Value128(ToUint128(c1)) = c1 % G
        /\ ToUint128(c2) \in Uint128 /\ Value128(ToUint128(c2)) = c2 % G
        /\ ToUint128(c3) \in Uint128 /\ Value128(ToUint128(c3)) = c3 % G
    BY <1>3, <2>1, ToUint128Is DEF G
  <2> QED  BY <2>2, <2>3, <2>4
<1>7. Mul256(x, y) = all
  BY Zenon DEF Mul256
<1> HIDE DEF h, G, a, b, c0, c1, c2, c3, S0, S1, S2, S3, X, Y
<1>8. /\ T3 \in Uint128 /\ t3 = ((c3 % G) * h) % G /\ T1 \in Uint128 /\ Value128(T1) = (c1 * h) % G
  BY <1>1, <1>6, Shift128Exact DEF G
<1>9. PICK m \in Int : t3 = c3 * h - m * G
  <2>1. Forgets(G, h, c3)
    BY <1>1, <1>3, LowShifted
  <2> QED  BY <1>8, <2>1, Zenon DEF Forgets
<1>10. carry \in 0 .. h - 1 /\ Value128(T1) = c1 * h - carry * G
  <2> DEFINE l1 == LOWER(S1)
  <2>1. carry \in 0 .. h - 1 /\ l1 \in 0 .. h - 1 /\ c1 = carry * h + l1
    BY <1>6, HalvesType DEF Value128, h
  <2> HIDE DEF carry, l1
  <2>2. l1 * h \in 0 .. G - 1
    <3>1. l1 * h \in Nat /\ l1 * h <= (h - 1) * h /\ (h - 1) * h = h * h - h
      BY <1>1, <2>1, TimesMonotone
    <3> QED  BY <1>1, <3>1
  <2>3. c1 * h = carry * G + l1 * h
    BY <1>1, <2>1
  <2> DEFINE e == l1 * h  n == c1 * h
  <2>4. e \in 0 .. G - 1 /\ n = carry * G + e /\ carry \in Int
    BY <2>1, <2>2, <2>3
  <2> HIDE DEF e, n
  <2>5. n % G = e
    BY <1>1, <2>4, DivUnique
  <2>6. n % G = n - carry * G
    BY <1>1, <2>4, <2>5
  <2> QED  BY <1>8, <2>1, <2>6 DEF n
<1> HIDE DEF T3, T1, t3, carry
<1>11. Clear128 \in Uint128 /\ Value128(Clear128) = 0
  BY BaseType DEF Clear128, Uint128, Value128, UPPER, LOWER
<1>12. <<carry, 0>> \in Uint128 /\ Value128(<<carry, 0>>) = carry * h
  BY <1>1, <1>10, PairValue DEF Uint128, h
<1>13. /\ target1 \in Uint256 /\ target2 \in Uint256
       /\ <<S2, Clear128>> \in Uint256 /\ <<Clear128, S0>> \in Uint256
  BY <1>6, <1>8, <1>11, <1>12 DEF Uint256
<1>14. /\ Value256(target1) = t3 * G + 0
       /\ Value256(target2) = (carry * h) * G + Value128(T1)
       /\ Value256(<<S2, Clear128>>) = c2 * G + 0 /\ Value256(<<Clear128, S0>>) = 0 * G + c0
  <2>1. /\ Value256(target1) = Value128(T3) * Base128 + Value128(Clear128)
        /\ Value256(target2) = Value128(<<carry, 0>>) * Base128 + Value128(T1)
        /\ Value256(<<S2, Clear128>>) = Value128(S2) * Base128 + Value128(Clear128)
        /\ Value256(<<Clear128, S0>>) = Value128(Clear128) * Base128 + Value128(S0)
    BY PairValue, Zenon
  <2> HIDE DEF target1, target2
  <2> QED  BY <2>1, <1>6, <1>11, <1>12, Zenon DEF G, t3
<1> HIDE DEF target1, target2
<1>15. PICK e1 \in Int : Value256(one) = (Value256(target1) + Value256(target2)) - e1 * Base256
  BY <1>13, Add256Wraps
<1>16. one \in Uint256
  BY <1>13, Add256Wraps
<1> HIDE DEF one
<1>17. PICK e2 \in Int : Value256(two) = (Value256(<<S2, Clear128>>) + Value256(one)) - e2 * Base256
  BY <1>13, <1>16, Add256Wraps
<1>18. two \in Uint256
  BY <1>13, <1>16, Add256Wraps
<1> HIDE DEF two
<1>19. PICK e3 \in Int : V = (Value256(<<Clear128, S0>>) + Value256(two)) - e3 * Base256
  BY <1>13, <1>18, Add256Wraps
<1>20. all \in Uint256 /\ V \in 0 .. Base256 - 1
  BY <1>13, <1>18, Add256Wraps, Value256Type
<1> HIDE DEF all, V
<1> DEFINE k == m + e1 + e2 + e3 + r  A == Base256  q == carry * (h * G - G)
<1>21. X * Y + q = V + k * A
  <2> DEFINE d3 == c3 * (h * G)  d1 == c1 * h  d2 == c2 * G  u == (carry * h) * G  w == carry * G
             mA == m * A  p1 == e1 * A  p2 == e2 * A  p3 == e3 * A  rA == r * A
  <2>1. t3 * G = d3 - mA
    BY <1>1, <1>3, <1>9
  <2>2. q = u - w
    BY <1>1, <1>10
  <2>3. k * A = mA + p1 + p2 + p3 + rA
    BY <1>1
  <2>4. /\ d1 \in Int /\ d2 \in Int /\ d3 \in Int /\ u \in Int /\ w \in Int /\ c0 \in Int
        /\ mA \in Int /\ p1 \in Int /\ p2 \in Int /\ p3 \in Int /\ rA \in Int
    BY <1>1, <1>3, <1>10
  <2>5. X * Y = c0 + d1 + d2 + d3 + rA
    BY <1>1, <1>4
  <2>6. Value256(one) = (((d3 - mA) + 0) + (u + (d1 - w))) - p1
    BY <1>10, <1>14, <1>15, <2>1
  <2>7. Value256(two) = ((d2 + 0) + Value256(one)) - p2
    BY <1>14, <1>17
  <2>8. V = ((0 * G + c0) + Value256(two)) - p3
    BY <1>14, <1>19
  <2>9. 0 * G = 0
    BY <1>1
  <2> HIDE DEF d3, d1, d2, u, w, mA, p1, p2, p3, rA, q, k, A
  <2> QED  BY <2>2, <2>3, <2>4, <2>5, <2>6, <2>7, <2>8, <2>9
<1>22. k \in Int
  OBVIOUS
<1> HIDE DEF k
<1>23. (V + k * A) % A = V
  <2>1. A \in Nat \ {0} /\ V \in 0 .. A - 1
    BY <1>1, <1>20
  <2> HIDE DEF A
  <2> QED  BY <1>22, <2>1, Wrap, Zenon
<1>24. (X * Y + q) % A = V
  BY <1>21, <1>23
<1> QED  BY <1>7, <1>20, <1>24 DEF V, q, A, X, Y, h, G, carry, S1

\* mul256() is the product modulo 2^(4W), but for the carry of column 1, and
\* exactly the product when both factors have one word.
THEOREM ProductsAreExact ==
  ASSUME NEW x \in Uint256, NEW y \in Uint256
  PROVE  ProductExact(x, y)
<1> DEFINE a == Digits(x)  b == Digits(y)  X == Value256(x)  Y == Value256(y)
           S1 == Sum64(x, y, 1)
<1>1. Base \in Nat /\ Base >= 2 /\ Base # 0
  BY BaseType
<1>2. /\ \A i \in 1 .. 4 : a[i] \in 0 .. Base - 1 /\ b[i] \in 0 .. Base - 1
      /\ X = FourDigits(Base, a) /\ Y = FourDigits(Base, b)
  BY DigitsAre
<1>3. X < Base /\ Y < Base => UPPER(S1) = 0
  <2> SUFFICES ASSUME X < Base, Y < Base PROVE UPPER(S1) = 0
    OBVIOUS
  <2> HIDE DEF a, b, X, Y
  <2>1. a[3] = 0 /\ b[3] = 0
    <3>1. \A n \in 0 .. Base - 1, m \in 0 .. Base - 1, k \in Nat :
             k * (Base * Base) + (n * Base + m) < Base => n = 0
      <4> SUFFICES ASSUME NEW n \in 0 .. Base - 1, NEW m \in 0 .. Base - 1, NEW k \in Nat,
                          k * (Base * Base) + (n * Base + m) < Base, n # 0
                   PROVE  FALSE
        OBVIOUS
      <4>1. k * (Base * Base) \in Nat
        BY <1>1
      <4>2. 1 * Base <= n * Base
        BY <1>1, TimesMonotone
      <4> QED  BY <1>1, <4>1, <4>2
    <3>2. a[1] * Base + a[2] \in Nat /\ b[1] * Base + b[2] \in Nat
      BY <1>1, <1>2
    <3> QED  BY <1>2, <3>1, <3>2 DEF FourDigits
  <2>2. Lo(Base, a[4], b[3]) = 0 /\ Lo(Base, a[3], b[4]) = 0
    <3>1. a[4] * 0 = 0 /\ 0 * b[4] = 0 /\ 0 % Base = 0
      BY <1>1, <1>2
    <3> QED  BY <2>1, <3>1 DEF Lo
  <2>3. Hi(Base, a[4], b[4]) \in 0 .. Base - 2
    <3>1. CutInTwo(Base, a[4], b[4])
      BY <1>1, <1>2, DigitProduct
    <3> QED  BY <3>1 DEF CutInTwo
  <2> DEFINE n == Hi(Base, a[4], b[4])
  <2>4. C1(Base, a, b) = n
    BY <2>2, <2>3 DEF C1
  <2>5. S1 = ToUint128(n)
    BY <2>4, Sum64Is DEF a, b
  <2> HIDE DEF n, S1
  <2>6. n \in 0 .. Base - 1
    BY <1>1, <2>3 DEF n
  <2>7. n \div Base = 0
    BY <1>1, <2>6
  <2> QED  BY <1>1, <2>5, <2>7 DEF ToUint128, Word, UPPER
<1> QED  BY <1>3, Mul256Exact DEF ProductExact

-----------------------------------------------------------------------------
(* Or of numbers that share no bit.                                         *)

LEMMA OrOf ==
  ASSUME NEW n \in Nat, NEW m \in Nat
  PROVE  /\ Or[<<n, m>>] \in Nat /\ Or[<<n, 0>>] = n /\ Or[<<0, m>>] = m
         /\ n # 0 /\ m # 0 =>
              /\ n % 2 = 0 => Or[<<n, m>>] = 2 * Or[<<n \div 2, m \div 2>>] + (m % 2)
              /\ \E b \in {0, 1} : Or[<<n, m>>] = 2 * Or[<<n \div 2, m \div 2>>] + b
<1>1. Or[<<n, m>>] \in Nat /\ Or[<<n, m>>] = OrBody(Or, <<n, m>>)
  BY OrDef
<1>2. Or[<<n, 0>>] = OrBody(Or, <<n, 0>>) /\ Or[<<0, m>>] = OrBody(Or, <<0, m>>)
  BY OrDef
<1>3. Or[<<n, 0>>] = n /\ Or[<<0, m>>] = m
  BY <1>2 DEF OrBody
<1>4. m % 2 \in {0, 1}
  BY Halving
<1>5. ASSUME n # 0, m # 0
      PROVE  Or[<<n, m>>] = 2 * Or[<<n \div 2, m \div 2>>]
                              + (IF n % 2 = 1 \/ m % 2 = 1 THEN 1 ELSE 0)
  BY <1>1, <1>5 DEF OrBody
<1> QED  BY <1>1, <1>3, <1>4, <1>5

LEMMA OrZero ==
  ASSUME NEW n \in Nat
  PROVE  Or[<<n, 0>>] = n /\ Or[<<0, n>>] = n /\ n + 0 = n /\ 0 + n = n
<1>1. 0 \in Nat /\ n + 0 = n /\ 0 + n = n
  OBVIOUS
<1>2. Or[<<n, 0>>] = n /\ Or[<<0, n>>] = n
  BY <1>1, OrOf, Zenon
<1> QED  BY <1>1, <1>2

LEMMA OrBound ==
  ASSUME NEW k \in Nat
  PROVE  \A n, m \in 0 .. Pow2(k) - 1 : Or[<<n, m>>] \in 0 .. Pow2(k) - 1
<1> DEFINE P == {i \in Nat : \A n, m \in Nat : n < Pow2(i) /\ m < Pow2(i) => Or[<<n, m>>] < Pow2(i)}
<1>1. 0 \in P
  <2> SUFFICES ASSUME NEW n \in Nat, NEW m \in Nat, n < Pow2(0), m < Pow2(0)
               PROVE  Or[<<n, m>>] < Pow2(0)
    OBVIOUS
  <2>1. n = 0 /\ m = 0 /\ Pow2(0) = 1
    BY Pow2Step
  <2> QED  BY <2>1, OrOf
<1>2. ASSUME NEW i \in Nat, i \in P PROVE i + 1 \in P
  <2> SUFFICES ASSUME NEW n \in Nat, NEW m \in Nat, n < Pow2(i + 1), m < Pow2(i + 1)
               PROVE  Or[<<n, m>>] < Pow2(i + 1)
    OBVIOUS
  <2> DEFINE t == Pow2(i)  o == Or[<<n \div 2, m \div 2>>]
  <2>1. t \in Nat /\ Pow2(i + 1) = 2 * t
    BY Pow2Step
  <2>2. n \div 2 \in Nat /\ m \div 2 \in Nat /\ n \div 2 < t /\ m \div 2 < t
    BY <2>1, Halving
  <2>3. o \in Nat /\ o < t
    BY <1>2, <2>2, OrOf
  <2>4. CASE n = 0 \/ m = 0
    BY <2>4, OrOf
  <2>5. CASE n # 0 /\ m # 0
    <3>1. PICK b \in {0, 1} : Or[<<n, m>>] = 2 * o + b
      BY <2>5, OrOf
    <3> HIDE DEF o, t
    <3> QED  BY <2>1, <2>3, <3>1
  <2> QED  BY <2>4, <2>5
<1>3. \A i \in Nat : i \in P
  <2>1. P \in SUBSET Nat
    OBVIOUS
  <2> HIDE DEF P
  <2> QED  BY <1>1, <1>2, <2>1, Induct
<1>4. \A n, m \in Nat : n < Pow2(k) /\ m < Pow2(k) => Or[<<n, m>>] < Pow2(k)
  BY <1>3
<1>5. Pow2(k) \in Nat
  BY Pow2Step
<1>6. ASSUME NEW n \in 0 .. Pow2(k) - 1, NEW m \in 0 .. Pow2(k) - 1
      PROVE  Or[<<n, m>>] \in 0 .. Pow2(k) - 1
  <2>1. n \in Nat /\ m \in Nat /\ n < Pow2(k) /\ m < Pow2(k)
    BY <1>5
  <2>2. Or[<<n, m>>] \in Nat /\ Or[<<n, m>>] < Pow2(k)
    BY <1>4, <2>1, OrOf
  <2> QED  BY <1>5, <2>2
<1> QED  BY <1>6

LEMMA OrDisjoint ==
  ASSUME NEW k \in Nat, NEW a \in Nat, NEW m \in Nat, m < Pow2(k)
  PROVE  Or[<<a * Pow2(k), m>>] = a * Pow2(k) + m
<1> DEFINE P == {i \in Nat : \A b \in Nat : b < Pow2(i) => Or[<<a * Pow2(i), b>>] = a * Pow2(i) + b}
<1>1. 0 \in P
  <2> SUFFICES ASSUME NEW b \in Nat, b < Pow2(0)
               PROVE  Or[<<a * Pow2(0), b>>] = a * Pow2(0) + b
    OBVIOUS
  <2>1. b = 0 /\ Pow2(0) = 1 /\ a * 1 = a /\ a + 0 = a
    BY Pow2Step
  <2>2. a * Pow2(0) = a
    BY <2>1, Zenon
  <2>3. Or[<<a, 0>>] = a
    BY OrOf
  <2> QED  BY <2>1, <2>2, <2>3, Zenon
<1>2. ASSUME NEW i \in Nat, i \in P PROVE i + 1 \in P
  <2> SUFFICES ASSUME NEW b \in Nat, b < Pow2(i + 1)
               PROVE  Or[<<a * Pow2(i + 1), b>>] = a * Pow2(i + 1) + b
    OBVIOUS
  <2> DEFINE t == a * Pow2(i)  n == a * Pow2(i + 1)
  <2>1. Pow2(i) \in Nat /\ Pow2(i + 1) = 2 * Pow2(i)
    BY Pow2Step
  <2>2. t \in Nat /\ n = 2 * t /\ n \in Nat
    BY <2>1
  <2>3. b \div 2 \in Nat /\ b \div 2 < Pow2(i) /\ b = 2 * (b \div 2) + (b % 2) /\ b % 2 \in Nat
    BY <2>1, Halving
  <2>4. Or[<<t, b \div 2>>] = t + (b \div 2)
    BY <1>2, <2>3
  <2> HIDE DEF t, n
  <2>5. n \div 2 = t /\ n % 2 = 0
    BY <2>2
  <2>6. CASE n = 0 \/ b = 0
    <3>0. n + 0 = n /\ 0 + b = b
      BY <2>2
    <3>a. Or[<<n, 0>>] = n /\ Or[<<0, b>>] = b
      BY <2>2, OrOf
    <3>1. Or[<<n, b>>] = n + b
      BY <2>6, <3>0, <3>a, Zenon
    <3> QED  BY <3>1 DEF n
  <2>7. CASE n # 0 /\ b # 0
    <3>0. Or[<<n, b>>] = 2 * Or[<<n \div 2, b \div 2>>] + (b % 2)
      <4>1. n \in Nat /\ n % 2 = 0
        BY <2>2, <2>5
      <4> QED  BY <2>7, <4>1, OrOf, Zenon
    <3>1. Or[<<n, b>>] = 2 * (t + (b \div 2)) + (b % 2)
      BY <2>4, <2>5, <3>0, Zenon
    <3>2. Or[<<n, b>>] = n + b
      BY <2>2, <2>3, <3>1
    <3> QED  BY <3>2 DEF n
  <2> QED  BY <2>6, <2>7
<1>3. \A i \in Nat : i \in P
  <2>1. P \in SUBSET Nat
    OBVIOUS
  <2> HIDE DEF P
  <2> QED  BY <1>1, <1>2, <2>1, Induct
<1> QED  BY <1>3

\* A multiple of p and a number below p, of two digits of base b each.
LowDisjoint(b, p, q, u, l, v, m, a) ==
  b = p * q /\ u * b + l = a * p /\ v * b + m < p => v = 0 /\ m < p /\ \E c \in Nat : l = c * p

LEMMA DisjointLow ==
  ASSUME NEW b \in Nat \ {0}, NEW p \in Nat \ {0}, NEW q \in Nat \ {0},
         NEW u \in Nat, NEW l \in 0 .. b - 1, NEW v \in Nat, NEW m \in 0 .. b - 1, NEW a \in Nat
  PROVE  LowDisjoint(b, p, q, u, l, v, m, a)
<1> SUFFICES ASSUME b = p * q, u * b + l = a * p, v * b + m < p
             PROVE  v = 0 /\ m < p /\ \E c \in Nat : l = c * p
  BY DEF LowDisjoint
<1>1. p <= b
  <2>1. p * 1 <= p * q
    BY TimesMonotone
  <2> QED  BY <2>1
<1>2. v = 0
  <2>1. v # 0 => 1 * b <= v * b
    BY TimesMonotone
  <2> QED  BY <1>1, <2>1
<1>3. l = (a - u * q) * p
  <2>1. u * b = (u * q) * p
    OBVIOUS
  <2>2. (a - u * q) * p = a * p - (u * q) * p
    OBVIOUS
  <2> QED  BY <2>1, <2>2
<1> DEFINE c == a - u * q
<1>4. c \in Int /\ l = c * p
  BY <1>3
<1> HIDE DEF c
<1>5. c >= 0
  <2> SUFFICES ASSUME c < 0 PROVE FALSE
    BY <1>4
  <2>1. 1 * p <= (-c) * p /\ (-c) * p = -(c * p)
    BY <1>4, TimesMonotone
  <2> QED  BY <1>4, <2>1
<1>6. m < p
  BY <1>2
<1> QED  BY <1>2, <1>4, <1>5, <1>6

LEMMA DisjointHigh ==
  ASSUME NEW b \in Nat \ {0}, NEW p \in Nat \ {0},
         NEW u \in Nat, NEW l \in 0 .. b - 1, NEW v \in Nat, NEW m \in 0 .. b - 1,
         NEW a \in Nat, u * b + l = a * (b * p), v * b + m < b * p
  PROVE  l = 0 /\ u = a * p /\ v < p
<1>1. (u * b + l) \div b = u /\ (u * b + l) % b = l
  BY DivUnique
<1>2. a * (b * p) = (a * p) * b + 0
  OBVIOUS
<1>3. ((a * p) * b + 0) \div b = a * p /\ ((a * p) * b + 0) % b = 0
  <2>1. a * p \in Int /\ 0 \in 0 .. b - 1
    OBVIOUS
  <2> QED  BY <2>1, DivUnique
<1>4. v < p
  <2> SUFFICES ASSUME p <= v PROVE FALSE
    OBVIOUS
  <2>1. p * b <= v * b
    BY TimesMonotone
  <2> QED  BY <2>1
<1> QED  BY <1>1, <1>2, <1>3, <1>4

LEMMA Or128Exact ==
  ASSUME NEW x \in Uint128, NEW y \in Uint128, NEW k \in Nat, NEW a \in Nat,
         Value128(x) = a * Pow2(k), Value128(y) < Pow2(k)
  PROVE  Or128(x, y) \in Uint128 /\ Value128(Or128(x, y)) = Value128(x) + Value128(y)
<1> DEFINE u == UPPER(x)  l == LOWER(x)  v == UPPER(y)  m == LOWER(y)
<1>1. /\ Base \in Nat \ {0} /\ W \in Nat /\ Base = Pow2(W)
      /\ u \in 0 .. Base - 1 /\ l \in 0 .. Base - 1 /\ v \in 0 .. Base - 1 /\ m \in 0 .. Base - 1
  BY HalvesType, BaseType DEF Base
<1>2. u * Base + l = a * Pow2(k) /\ v * Base + m < Pow2(k)
  BY DEF Value128
<1>3. Or128(x, y) = <<Or[<<u, v>>], Or[<<l, m>>]>>
  BY DEF Or128
<1> HIDE DEF u, l, v, m
<1>4. Or[<<u, v>>] \in 0 .. Base - 1 /\ Or[<<l, m>>] \in 0 .. Base - 1
  BY <1>1, OrBound
<1>5. Or[<<u, v>>] = u + v /\ Or[<<l, m>>] = l + m
  <2>1. CASE k <= W
    <3>1. Pow2(k) \in Nat \ {0} /\ Pow2(W - k) \in Nat \ {0} /\ Base = Pow2(k) * Pow2(W - k)
      BY <1>1, <2>1, Pow2Step, Pow2Split
    <3>2. v = 0 /\ m < Pow2(k) /\ \E c \in Nat : l = c * Pow2(k)
      <4> DEFINE p == Pow2(k)  q == Pow2(W - k)
      <4>1. /\ p \in Nat \ {0} /\ q \in Nat \ {0} /\ Base = p * q
            /\ u * Base + l = a * p /\ v * Base + m < p
        BY <1>2, <3>1
      <4> HIDE DEF p, q
      <4>2. LowDisjoint(Base, p, q, u, l, v, m, a)
        BY <1>1, <4>1, DisjointLow
      <4> QED  BY <4>1, <4>2 DEF p, LowDisjoint
    <3>3. PICK c \in Nat : l = c * Pow2(k)
      BY <3>2
    <3>4. Or[<<l, m>>] = l + m
      <4>1. Or[<<c * Pow2(k), m>>] = c * Pow2(k) + m
        BY <1>1, <3>2, OrDisjoint
      <4> QED  BY <3>3, <4>1, Zenon
    <3>5. Or[<<u, 0>>] = u /\ u + 0 = u
      <4>1. u \in Nat
        BY <1>1
      <4> QED  BY <4>1, OrZero
    <3> QED  BY <3>2, <3>4, <3>5, Zenon
  <2>2. CASE k > W
    <3> DEFINE p == Pow2(k - W)
    <3>1. p \in Nat \ {0} /\ Pow2(k) = Base * p
      <4>1. k - W \in Nat /\ W \in 0 .. k
        BY <1>1, <2>2
      <4> QED  BY <1>1, <4>1, Pow2Step, Pow2Split
    <3>2. l = 0 /\ u = a * p /\ v < p
      <4>1. u * Base + l = a * (Base * p) /\ v * Base + m < Base * p
        BY <1>2, <3>1, Zenon
      <4> HIDE DEF p
      <4> QED  BY <1>1, <3>1, <4>1, DisjointHigh
    <3>3. Or[<<u, v>>] = u + v
      <4>1. k - W \in Nat
        BY <1>1, <2>2
      <4>2. Or[<<a * p, v>>] = a * p + v
        BY <1>1, <3>2, <4>1, OrDisjoint
      <4> QED  BY <3>2, <4>2, Zenon
    <3>4. Or[<<0, m>>] = m /\ 0 + m = m
      <4>1. m \in Nat
        BY <1>1
      <4> QED  BY <4>1, OrZero
    <3> QED  BY <3>2, <3>3, <3>4, Zenon
  <2> QED  BY <1>1, <2>1, <2>2
<1>6. Value128(<<u + v, l + m>>) = (u + v) * Base + (l + m)
  BY PairValue
<1>7. (u + v) * Base + (l + m) = (u * Base + l) + (v * Base + m)
  BY <1>1
<1>8. Value128(x) = u * Base + l /\ Value128(y) = v * Base + m
  BY DEF Value128, u, l, v, m
<1> QED  BY <1>3, <1>4, <1>5, <1>6, <1>7, <1>8 DEF Uint128

LEMMA Or256Exact ==
  ASSUME NEW x \in Uint256, NEW y \in Uint256, NEW k \in Nat, NEW a \in Nat,
         Value256(x) = a * Pow2(k), Value256(y) < Pow2(k)
  PROVE  Or256(x, y) \in Uint256 /\ Value256(Or256(x, y)) = Value256(x) + Value256(y)
<1> DEFINE u == Value128(UPPER(x))  l == Value128(LOWER(x))
           v == Value128(UPPER(y))  m == Value128(LOWER(y))
           B == Base128
<1>1. /\ UPPER(x) \in Uint128 /\ LOWER(x) \in Uint128 /\ UPPER(y) \in Uint128 /\ LOWER(y) \in Uint128
      /\ B \in Nat \ {0} /\ 2 * W \in Nat /\ B = Pow2(2 * W)
      /\ u \in 0 .. B - 1 /\ l \in 0 .. B - 1 /\ v \in 0 .. B - 1 /\ m \in 0 .. B - 1
  BY Value256Type, Value128Type, BaseType, Pow2Wide
<1>2. u * B + l = a * Pow2(k) /\ v * B + m < Pow2(k)
  BY DEF Value256
<1>3. Or256(x, y) = <<Or128(UPPER(x), UPPER(y)), Or128(LOWER(x), LOWER(y))>>
  BY DEF Or256
<1> DEFINE U == Or128(UPPER(x), UPPER(y))  L == Or128(LOWER(x), LOWER(y))
           Fits(z, n) == z \in Uint128 /\ Value128(z) = n
<1>4. ASSUME NEW i \in Nat, NEW c \in Nat, u = c * Pow2(i), v < Pow2(i)
      PROVE  Fits(U, u + v)
  BY <1>1, <1>4, Or128Exact
<1>5. ASSUME NEW i \in Nat, NEW c \in Nat, l = c * Pow2(i), m < Pow2(i)
      PROVE  Fits(L, l + m)
  BY <1>1, <1>5, Or128Exact
<1>6. Value256(x) = u * B + l /\ Value256(y) = v * B + m
  BY DEF Value256
<1> HIDE DEF u, l, v, m, B, U, L, Fits
<1>7. Fits(U, u + v) /\ Fits(L, l + m)
  <2>1. CASE k <= 2 * W
    <3> DEFINE p == Pow2(k)  q == Pow2(2 * W - k)
    <3>0. 2 * W - k \in Nat /\ k \in 0 .. 2 * W
      BY <1>1, <2>1
    <3>1. p \in Nat \ {0} /\ q \in Nat \ {0} /\ B = p * q
      BY <1>1, <3>0, Pow2Step, Pow2Split
    <3>2. v = 0 /\ m < p /\ \E c \in Nat : l = c * p
      <4>1. u * B + l = a * p /\ v * B + m < p
        BY <1>2
      <4> HIDE DEF p, q
      <4>2. LowDisjoint(B, p, q, u, l, v, m, a)
        <5>1. /\ B \in Nat \ {0} /\ u \in Nat /\ v \in Nat
              /\ l \in 0 .. B - 1 /\ m \in 0 .. B - 1
          BY <1>1
        <5>2. p \in Nat \ {0} /\ q \in Nat \ {0}
          BY <3>1, Zenon
        <5> QED  BY <5>1, <5>2, DisjointLow
      <4> QED  BY <3>1, <4>1, <4>2, Zenon DEF LowDisjoint
    <3>3. u = u * Pow2(0) /\ v < Pow2(0)
      BY <1>1, <3>2, Pow2Step
    <3>4. Fits(U, u + v)
      BY <1>1, <1>4, <3>3
    <3> QED  BY <1>5, <3>2, <3>4
  <2>2. CASE k > 2 * W
    <3> DEFINE p == Pow2(k - 2 * W)
    <3>0. k - 2 * W \in Nat /\ 2 * W \in 0 .. k
      BY <1>1, <2>2
    <3>1. p \in Nat \ {0} /\ Pow2(k) = B * p
      BY <1>1, <3>0, Pow2Step, Pow2Split
    <3>2. l = 0 /\ u = a * p /\ v < p
      <4>1. u * B + l = a * (B * p) /\ v * B + m < B * p
        BY <1>2, <3>1, Zenon
      <4> HIDE DEF p
      <4> QED  BY <1>1, <3>1, <4>1, DisjointHigh
    <3>3. Fits(U, u + v)
      BY <1>4, <3>0, <3>2
    <3>4. l = 0 * Pow2(2 * W) /\ m < Pow2(2 * W)
      BY <1>1, <3>2
    <3>5. Fits(L, l + m)
      BY <1>1, <1>5, <3>4
    <3> QED  BY <3>3, <3>5
  <2> QED  BY <1>1, <2>1, <2>2
<1>8. Value256(<<U, L>>) = Value128(U) * B + Value128(L)
  BY PairValue DEF B
<1>9. Value256(<<U, L>>) = (u + v) * B + (l + m)
  BY <1>7, <1>8 DEF Fits
<1>10. (u + v) * B + (l + m) = (u * B + l) + (v * B + m)
  BY <1>1
<1>11. <<U, L>> \in Uint256
  BY <1>7 DEF Fits, Uint256
<1> QED  BY <1>3, <1>6, <1>9, <1>10, <1>11 DEF U, L

-----------------------------------------------------------------------------
(* How many bits a number has.                                              *)

IsLength(v, n) ==
  /\ n \in Nat /\ v < Pow2(n)
  /\ v = 0 => n = 0
  /\ v # 0 => n # 0 /\ Pow2(n - 1) <= v

LEMMA LengthStep ==
  ASSUME NEW v \in Nat \ {0}, NEW n, IsLength(v \div 2, n)
  PROVE  IsLength(v, n + 1)
<1>1. /\ n \in Nat /\ v \div 2 \in Nat /\ v % 2 \in {0, 1} /\ v = 2 * (v \div 2) + (v % 2)
      /\ v \div 2 < Pow2(n) /\ (v \div 2 = 0 => n = 0)
  BY Halving DEF IsLength
<1>2. Pow2(n) \in Nat /\ Pow2(n + 1) = 2 * Pow2(n) /\ Pow2(0) = 1
  BY <1>1, Pow2Step
<1>3. v < Pow2(n + 1)
  BY <1>1, <1>2
<1>4. Pow2(n) <= v
  <2>1. CASE n = 0
    BY <1>2, <2>1
  <2>2. CASE n # 0
    <3>1. n - 1 \in Nat /\ (n - 1) + 1 = n
      BY <1>1, <2>2
    <3>2. Pow2((n - 1) + 1) = 2 * Pow2(n - 1) /\ Pow2(n - 1) \in Nat
      BY <3>1, Pow2Step
    <3>3. Pow2(n - 1) <= v \div 2
      BY <2>2, <1>1 DEF IsLength
    <3>4. Pow2(n) = 2 * Pow2(n - 1)
      BY <3>1, <3>2, Zenon
    <3> QED  BY <1>1, <3>2, <3>3, <3>4
  <2> QED  BY <2>1, <2>2
<1>5. n + 1 \in Nat /\ n + 1 # 0 /\ (n + 1) - 1 = n
  BY <1>1
<1>6. Pow2((n + 1) - 1) <= v
  BY <1>4, <1>5, Zenon
<1> QED  BY <1>3, <1>5, <1>6 DEF IsLength

LEMMA ZeroValue ==
  ASSUME NEW x \in Uint128
  PROVE  Zero128(x) <=> Value128(x) = 0
<1> DEFINE u == UPPER(x)  l == LOWER(x)
<1>1. Base \in Nat \ {0} /\ u \in Nat /\ l \in Nat
  BY HalvesType
<1>2. Value128(x) = u * Base + l /\ (Zero128(x) <=> (l = 0 /\ u = 0))
  BY DEF Zero128, Value128
<1> HIDE DEF u, l
<1>3. CASE u = 0
  <2>1. u * Base + l = l
    BY <1>1, <1>3
  <2> QED  BY <1>2, <1>3, <2>1, Zenon
<1>4. CASE u # 0
  <2>1. 1 * Base <= u * Base /\ u * Base \in Nat
    BY <1>1, <1>4, TimesMonotone
  <2> DEFINE m == u * Base
  <2> HIDE DEF m
  <2>2. m + l # 0
    BY <1>1, <2>1 DEF m
  <2> QED  BY <1>2, <1>4, <2>2, Zenon DEF m
<1> QED  BY <1>3, <1>4

CountBody(f, x) == IF Zero128(x) THEN 0 ELSE 1 + f[Shiftr128(x, 1)]

LEMMA ShiftCountExact ==
  \A x \in Uint128 : ShiftCount[x] \in Nat /\ IsLength(Value128(x), ShiftCount[x])
<1> DEFINE N == Nat
           D == Uint128
           m == [x \in D |-> Value128(x)]
           F == [q \in D \X [D -> N] |-> CountBody(q[2], q[1])]
<1>0. ASSUME NEW x \in D
      PROVE  /\ Value128(x) \in Nat /\ Shiftr128(x, 1) \in D
             /\ Value128(Shiftr128(x, 1)) = Value128(x) \div 2
             /\ Zero128(x) <=> Value128(x) = 0
             /\ Value128(x) # 0 => Value128(x) \div 2 < Value128(x)
  <2>1. Value128(x) \in Nat
    BY Value128Type
  <2>2. Shiftr128(x, 1) \in D /\ Value128(Shiftr128(x, 1)) = Value128(x) \div Pow2(1)
    BY Shift128Exact
  <2>3. Pow2(1) = 2
    BY Pow2Step, 0 \in Nat, Zenon
  <2> QED  BY <2>1, <2>2, <2>3, ZeroValue, Halving
<1>1. F \in [D \X [D -> N] -> N]
  <2> SUFFICES ASSUME NEW x \in D, NEW g \in [D -> N] PROVE CountBody(g, x) \in Nat
    OBVIOUS
  <2> QED  BY <1>0 DEF CountBody
<1>2. m \in [D -> Nat] /\ N # {}
  BY <1>0
<1>3. ASSUME NEW x \in D, NEW g \in [D -> N], NEW h \in [D -> N],
             \A y \in D : m[y] < m[x] => g[y] = h[y]
      PROVE  F[<<x, g>>] = F[<<x, h>>]
  <2> DEFINE y == Shiftr128(x, 1)
  <2>1. y \in D /\ (~ Zero128(x) => m[y] < m[x])
    BY <1>0
  <2>2. ~ Zero128(x) => g[y] = h[y]
    BY <1>3, <2>1
  <2> QED  BY <2>2 DEF CountBody
<1>4. Descends(D, N, m, F)
  <2>1. \A x \in D, g, h \in [D -> N] :
          (\A y \in D : m[y] < m[x] => g[y] = h[y]) => F[<<x, g>>] = F[<<x, h>>]
    BY <1>3
  <2> HIDE DEF N, D, m, F
  <2> QED  BY <1>1, <1>2, <2>1 DEF Descends
<1>5. PICK f : Solves(f, D, N, F)
  <2> HIDE DEF N, D, m, F
  <2> QED  BY <1>2, <1>4, Recursion
<1>6. f \in [D -> N] /\ \A x \in D : f[x] = CountBody(f, x)
  BY <1>5 DEF Solves
<1>7. f = [x \in D |-> CountBody(f, x)]
  BY <1>6
<1>8. ShiftCount = [x \in D |-> CountBody(ShiftCount, x)]
  BY <1>7 DEF ShiftCount, CountBody
<1>9. \A x \in D : ShiftCount[x] = CountBody(ShiftCount, x)
  BY <1>8
<1> DEFINE P == {x \in D : IsLength(Value128(x), ShiftCount[x])}
<1>10. ASSUME NEW x \in D, \A y \in D : m[y] < m[x] => y \in P
       PROVE  x \in P
  <2> DEFINE y == Shiftr128(x, 1)
  <2>1. CASE Zero128(x)
    <3>1. ShiftCount[x] = 0 /\ Value128(x) = 0
      BY <1>0, <1>9, <2>1 DEF CountBody
    <3>2. Pow2(0) = 1
      BY Pow2Step, 0 \in Nat, Zenon
    <3>3. IsLength(0, 0)
      BY <3>2 DEF IsLength
    <3> QED  BY <3>1, <3>3
  <2>2. CASE ~ Zero128(x)
    <3>1. y \in D /\ m[y] < m[x]
      BY <1>0, <2>2
    <3>2. y \in P
      BY <1>10, <3>1
    <3>3. IsLength(Value128(x) \div 2, ShiftCount[y])
      BY <1>0, <3>2
    <3>4. Value128(x) \in Nat \ {0}
      BY <1>0, <2>2
    <3>5. IsLength(Value128(x), ShiftCount[y] + 1)
      BY <3>3, <3>4, LengthStep
    <3>6. ShiftCount[x] = 1 + ShiftCount[y]
      BY <1>9, <2>2 DEF CountBody
    <3>7. ShiftCount[y] \in Nat
      BY <3>3 DEF IsLength
    <3>8. ShiftCount[x] = ShiftCount[y] + 1
      BY <3>6, <3>7
    <3> QED  BY <3>5, <3>8
  <2> QED  BY <2>1, <2>2
<1>11. \A x \in D : x \in P
  <2>1. P \in SUBSET D
    OBVIOUS
  <2> HIDE DEF P, D, m
  <2> QED  BY <1>2, <1>10, <2>1, MeasureInduct
<1> QED  BY <1>11 DEF IsLength

LEMMA BitsExact ==
  ASSUME NEW x \in Uint256
  PROVE  IsLength(Value256(x), Bits256(x))
<1> DEFINE u == Value128(UPPER(x))  l == Value128(LOWER(x))
<1>1. /\ UPPER(x) \in Uint128 /\ LOWER(x) \in Uint128
      /\ Base128 \in Nat \ {0} /\ 2 * W \in Nat /\ Base128 = Pow2(2 * W)
      /\ u \in 0 .. Base128 - 1 /\ l \in 0 .. Base128 - 1
      /\ (Zero128(UPPER(x)) <=> u = 0) /\ Value256(x) = u * Base128 + l
  BY Value256Type, Value128Type, BaseType, Pow2Wide, ZeroValue DEF Value256
<1>2. CASE u = 0
  <2>1. Value256(x) = l
    BY <1>1, <1>2
  <2>2. IsLength(l, ShiftCount[LOWER(x)])
    BY <1>1, ShiftCountExact
  <2>3. Bits256(x) = ShiftCount[LOWER(x)]
    BY <1>1, <1>2 DEF Bits256
  <2> QED  BY <2>1, <2>2, <2>3
<1>3. CASE u # 0
  <2> DEFINE n == ShiftCount[UPPER(x)]
  <2>1. n \in Nat /\ IsLength(u, n)
    BY <1>1, ShiftCountExact
  <2>2. Bits256(x) = 2 * W + n
    BY <1>1, <1>3 DEF Bits256
  <2> HIDE DEF u, l, n
  <2>3. n # 0 /\ u < Pow2(n) /\ Pow2(n - 1) <= u /\ n - 1 \in Nat
    BY <1>3, <2>1 DEF IsLength
  <2>4. Pow2(n) \in Nat /\ Pow2(n - 1) \in Nat
    BY <2>1, <2>3, Pow2Step
  <2>5. Pow2(2 * W + n) = Base128 * Pow2(n) /\ Pow2(2 * W + (n - 1)) = Base128 * Pow2(n - 1)
    BY <1>1, <2>1, <2>3, Pow2Sum
  <2>6. (u + 1) * Base128 <= Pow2(n) * Base128 /\ Pow2(n - 1) * Base128 <= u * Base128
    <3>1. u + 1 <= Pow2(n) /\ u + 1 \in Nat /\ u \in Nat
      BY <1>1, <2>3, <2>4
    <3> QED  BY <1>1, <2>3, <2>4, <3>1, TimesMonotone
  <2>7. (u + 1) * Base128 = u * Base128 + Base128 /\ u * Base128 \in Nat
    BY <1>1
  <2>7a. Base128 * Pow2(n) = Pow2(n) * Base128 /\ Base128 * Pow2(n - 1) = Pow2(n - 1) * Base128
    BY <1>1, <2>4
  <2>8. Value256(x) < Pow2(2 * W + n) /\ Pow2(2 * W + (n - 1)) <= Value256(x)
    <3> DEFINE p == Pow2(n) * Base128  q == Pow2(n - 1) * Base128  r == u * Base128
    <3>1. Pow2(2 * W + n) = p /\ Pow2(2 * W + (n - 1)) = q /\ r + Base128 <= p /\ q <= r
          /\ Value256(x) = r + l /\ r \in Nat /\ p \in Nat /\ q \in Nat
      BY <1>1, <2>4, <2>5, <2>6, <2>7, <2>7a
    <3> HIDE DEF p, q, r
    <3> QED  BY <1>1, <3>1
  <2>9. 2 * W + n \in Nat /\ 2 * W + n # 0 /\ (2 * W + n) - 1 = 2 * W + (n - 1)
    BY <1>1, <2>1, <2>3
  <2>10. Value256(x) # 0
    <3>1. u * Base128 >= 1 * Base128
      <4>1. u \in Nat /\ 1 <= u
        BY <1>1, <1>3
      <4> QED  BY <1>1, <4>1, TimesMonotone
    <3> QED  BY <1>1, <2>7, <3>1
  <2> DEFINE b == 2 * W + n
  <2>11. Pow2(b - 1) <= Value256(x) /\ Value256(x) < Pow2(b) /\ b \in Nat /\ b # 0
    BY <2>8, <2>9, Zenon
  <2> HIDE DEF b
  <2>12. IsLength(Value256(x), b)
    BY <2>10, <2>11 DEF IsLength
  <2> QED  BY <2>2, <2>12 DEF b
<1> QED  BY <1>2, <1>3

-----------------------------------------------------------------------------
(* The long division.                                                       *)

LEMMA Or256Type ==
  ASSUME NEW x \in Uint256, NEW y \in Uint256
  PROVE  Or256(x, y) \in Uint256
<1>1. ASSUME NEW u \in Uint128, NEW v \in Uint128 PROVE Or128(u, v) \in Uint128
  <2>1. /\ UPPER(u) \in 0 .. Base - 1 /\ LOWER(u) \in 0 .. Base - 1
        /\ UPPER(v) \in 0 .. Base - 1 /\ LOWER(v) \in 0 .. Base - 1
    BY HalvesType
  <2>2. \A n, m \in 0 .. Base - 1 : Or[<<n, m>>] \in 0 .. Base - 1
    BY BaseType, OrBound DEF Base
  <2> QED  BY <2>1, <2>2 DEF Or128, Uint128
<1>2. /\ UPPER(x) \in Uint128 /\ LOWER(x) \in Uint128
      /\ UPPER(y) \in Uint128 /\ LOWER(y) \in Uint128
  BY Value256Type
<1> QED  BY <1>1, <1>2 DEF Or256, Uint256

LEMMA OneIs == ToUint256(1) \in Uint256 /\ Value256(ToUint256(1)) = 1
<1>1. Base128 \in Nat /\ Base128 >= 2
  <2>1. Base \in Nat /\ Base >= 2
    BY BaseType
  <2>2. 1 * Base <= Base * Base
    BY <2>1, TimesMonotone
  <2> QED  BY <2>1, <2>2 DEF Base128
<1>2. 1 \div Base128 = 0 /\ 1 % Base128 = 1 /\ 0 % Base128 = 0 /\ 0 * Base128 + 1 = 1
  BY <1>1
<1>3. /\ ToUint128(0) \in Uint128 /\ Value128(ToUint128(0)) = 0
      /\ ToUint128(1) \in Uint128 /\ Value128(ToUint128(1)) = 1
  BY <1>1, <1>2, ToUint128Is
<1>4. ToUint256(1) = <<ToUint128(0), ToUint128(1)>>
  BY <1>2 DEF ToUint256
<1>5. Value256(ToUint256(1)) = 0 * Base128 + 1
  <2>1. Value256(<<ToUint128(0), ToUint128(1)>>)
          = Value128(ToUint128(0)) * Base128 + Value128(ToUint128(1))
    BY PairValue
  <2> QED  BY <1>3, <1>4, <2>1, Zenon
<1> QED  BY <1>2, <1>3, <1>4, <1>5 DEF Uint256

LEMMA Pow2Monotone ==
  ASSUME NEW k \in Nat, NEW n \in Nat, k <= n
  PROVE  Pow2(k) <= Pow2(n)
<1>1. k \in 0 .. n /\ n - k \in Nat
  OBVIOUS
<1>2. Pow2(n) = Pow2(k) * Pow2(n - k) /\ Pow2(k) \in Nat /\ Pow2(n - k) \in Nat \ {0}
  BY <1>1, Pow2Split, Pow2Step
<1> DEFINE a == Pow2(k)  b == Pow2(n - k)
<1>3. a * 1 <= a * b
  <2> HIDE DEF a, b
  <2>1. a \in Nat /\ b \in Nat /\ 1 <= b
    BY <1>2 DEF a, b
  <2> QED  BY <2>1, TimesMonotone
<1> QED  BY <1>2, <1>3

\* The larger number is no shorter.
LEMMA LengthOrder ==
  ASSUME NEW u \in Nat, NEW v \in Nat, u <= v, NEW k, IsLength(u, k), NEW n, IsLength(v, n)
  PROVE  k \in Nat /\ n \in Nat /\ k <= n
<1>1. k \in Nat /\ n \in Nat /\ v < Pow2(n) /\ (u # 0 => k # 0 /\ Pow2(k - 1) <= u) /\ (u = 0 => k = 0)
  BY DEF IsLength
<1>2. ASSUME n < k PROVE FALSE
  <2>1. k - 1 \in Nat /\ n <= k - 1 /\ u # 0
    BY <1>1, <1>2
  <2>2. Pow2(n) <= Pow2(k - 1)
    BY <1>1, <2>1, Pow2Monotone
  <2>3. Pow2(n) \in Nat /\ Pow2(k - 1) \in Nat
    BY <1>1, <2>1, Pow2Step
  <2> QED  BY <1>1, <2>1, <2>2, <2>3
<1> QED  BY <1>1, <1>2

DivState == [mod : Uint256, div : Uint256, copyd : Uint256, adder : Uint256]

\* What a number shifted right by one place stands for
LEMMA HalvedIs ==
  ASSUME NEW s \in DivState
  PROVE  /\ Halved(s) \in DivState
         /\ Halved(s).mod = s.mod /\ Halved(s).div = s.div
         /\ Value256(Halved(s).copyd) = Value256(s.copyd) \div 2
         /\ Value256(Halved(s).adder) = Value256(s.adder) \div 2
<1>1. s.copyd \in Uint256 /\ s.adder \in Uint256
  BY DEF DivState
<1>2. /\ Shiftr256(s.copyd, 1) \in Uint256 /\ Shiftr256(s.adder, 1) \in Uint256
      /\ Value256(Shiftr256(s.copyd, 1)) = Value256(s.copyd) \div 2
      /\ Value256(Shiftr256(s.adder, 1)) = Value256(s.adder) \div 2
  <2>1. Pow2(1) = 2 /\ 1 \in Nat
    BY Pow2Step, 0 \in Nat, Zenon
  <2> QED  BY <1>1, <2>1, Shift256Exact
<1>3. Halved(s) = [mod |-> s.mod, div |-> s.div,
                   copyd |-> Shiftr256(s.copyd, 1), adder |-> Shiftr256(s.adder, 1)]
  <2>1. s = [mod |-> s.mod, div |-> s.div, copyd |-> s.copyd, adder |-> s.adder]
    BY DEF DivState
  <2> DEFINE t == [s EXCEPT !.copyd = Shiftr256(@, 1)]
  <2>2. t = [mod |-> s.mod, div |-> s.div, copyd |-> Shiftr256(s.copyd, 1), adder |-> s.adder]
    BY <2>1
  <2>3. [t EXCEPT !.adder = Shiftr256(@, 1)]
          = [mod |-> t.mod, div |-> t.div, copyd |-> t.copyd, adder |-> Shiftr256(t.adder, 1)]
    <3> HIDE DEF t
    <3> QED  BY <2>2
  <2>4. Halved(s) = [t EXCEPT !.adder = Shiftr256(@, 1)]
    BY DEF Halved
  <2>5. t.mod = s.mod /\ t.div = s.div /\ t.copyd = Shiftr256(s.copyd, 1) /\ t.adder = s.adder
    <3> HIDE DEF t
    <3> QED  BY <2>2
  <2> HIDE DEF t, Halved
  <2> QED  BY <2>3, <2>4, <2>5
<1> HIDE DEF Halved
<1> QED  BY <1>2, <1>3 DEF DivState

LEMMA SubtractedIs ==
  ASSUME NEW s \in DivState
  PROVE  /\ Subtracted(s) \in DivState
         /\ Subtracted(s).copyd = s.copyd /\ Subtracted(s).adder = s.adder
         /\ Value256(s.mod) < Value256(s.copyd) => Subtracted(s) = s
         /\ Value256(s.mod) >= Value256(s.copyd) =>
              /\ Value256(Subtracted(s).mod) = Value256(s.mod) - Value256(s.copyd)
              /\ Subtracted(s).div = Or256(s.div, s.adder)
<1>1. /\ s.mod \in Uint256 /\ s.div \in Uint256 /\ s.copyd \in Uint256 /\ s.adder \in Uint256
      /\ s = [mod |-> s.mod, div |-> s.div, copyd |-> s.copyd, adder |-> s.adder]
  BY DEF DivState
<1> DEFINE M == Value256(s.mod)  C == Value256(s.copyd)
<1>2. /\ M \in 0 .. Base256 - 1 /\ C \in 0 .. Base256 - 1 /\ Base256 \in Nat \ {0}
      /\ (Gte256(s.mod, s.copyd) <=> M >= C)
      /\ Minus256(s.mod, s.copyd) \in Uint256
      /\ Value256(Minus256(s.mod, s.copyd)) = (M - C) % Base256
      /\ Or256(s.div, s.adder) \in Uint256
  BY <1>1, Value256Type, Compare256, Minus256Exact, Or256Type
<1>3. CASE Gte256(s.mod, s.copyd)
  <2>1. Subtracted(s) = [mod |-> Minus256(s.mod, s.copyd), div |-> Or256(s.div, s.adder),
                         copyd |-> s.copyd, adder |-> s.adder]
    BY <1>1, <1>3 DEF Subtracted
  <2> HIDE DEF M, C
  <2>2. M - C \in 0 .. Base256 - 1
    BY <1>2, <1>3
  <2>3. (M - C) % Base256 = M - C
    BY <1>2, <2>2
  <2>4. M >= C /\ ~ (M < C)
    BY <1>2, <1>3
  <2> HIDE DEF Subtracted
  <2> QED  BY <1>1, <1>2, <2>1, <2>3, <2>4 DEF DivState, M, C
<1>4. CASE ~ Gte256(s.mod, s.copyd)
  <2>1. Subtracted(s) = s
    BY <1>4 DEF Subtracted
  <2> HIDE DEF Subtracted
  <2> QED  BY <1>1, <1>2, <1>4, <2>1
<1> QED  BY <1>3, <1>4

LEMMA RoundType ==
  ASSUME NEW s \in DivState, NEW r
  PROVE  Round(s, r) \in DivState /\ Aligned(s) \in DivState
<1>1. Subtracted(s) \in DivState
  BY SubtractedIs
<1>2. Halved(Subtracted(s)) \in DivState /\ Halved(s) \in DivState
  BY <1>1, HalvedIs
<1> QED  BY <1>2 DEF Round, Aligned

\* What the loop keeps: the parts of the dividend, and, until the rest is
\* smaller than the divisor, the place of the quotient's next bit.
Owed(s, L, R) == Value256(s.mod) + Value256(s.div) * R = L
Below(s, R, p) ==   \* the bits of the quotient under p are still to find
  Value256(s.mod) < R * p /\ \E c \in Nat : Value256(s.div) = c * p
Ready(s, R, e) ==
  /\ Value256(s.copyd) = R * Pow2(e) /\ Value256(s.adder) = Pow2(e)
  /\ Below(s, R, Pow2(e + 1))
InLoop(s, L, R, K, i) ==
  /\ s \in DivState /\ Owed(s, L, R)
  /\ Value256(s.mod) < R \/ (i <= K /\ Ready(s, R, K - i))

LEMMA StateValues ==
  ASSUME NEW s \in DivState
  PROVE  /\ Value256(s.mod) \in Nat /\ Value256(s.div) \in Nat
         /\ Value256(s.copyd) \in Nat /\ Value256(s.adder) \in Nat
         /\ s.mod \in Uint256 /\ s.div \in Uint256 /\ s.copyd \in Uint256 /\ s.adder \in Uint256
<1>1. s.mod \in Uint256 /\ s.div \in Uint256 /\ s.copyd \in Uint256 /\ s.adder \in Uint256
  BY DEF DivState
<1>2. \A x \in Uint256 : Value256(x) \in Nat
  BY Value256Type
<1> QED  BY <1>1, <1>2

LEMMA SubtractNumbers ==
  ASSUME NEW R \in Nat, NEW p \in Nat, NEW M \in Nat, NEW D \in Nat, NEW c \in Nat,
         D = c * (2 * p), M < R * (2 * p)
  PROVE  /\ D = (2 * c) * p /\ D + p = (2 * c + 1) * p
         /\ M - R * p < R * p
         /\ (M - R * p) + (D + p) * R = M + D * R
<1>1. D = (2 * c) * p
  OBVIOUS
<1>2. (2 * c + 1) * p = (2 * c) * p + p
  OBVIOUS
<1>3. R * (2 * p) = R * p + R * p /\ R * p \in Nat
  OBVIOUS
<1>4. (D + p) * R = D * R + R * p /\ D * R \in Nat
  OBVIOUS
<1> QED  BY <1>1, <1>2, <1>3, <1>4

LEMMA SubtractKeeps ==
  ASSUME NEW s \in DivState, NEW R \in Nat, NEW e \in Nat, Ready(s, R, e), NEW L, Owed(s, L, R)
  PROVE  /\ Subtracted(s) \in DivState /\ Owed(Subtracted(s), L, R)
         /\ Below(Subtracted(s), R, Pow2(e))
<1> DEFINE t == Subtracted(s)  p == Pow2(e)
           M == Value256(s.mod)  D == Value256(s.div)
<1>1. p \in Nat \ {0} /\ Pow2(e + 1) = 2 * p
  BY Pow2Step
<1>2. PICK c \in Nat : D = c * Pow2(e + 1)
  BY DEF Ready, Below
<1>3. D = c * (2 * p) /\ M < R * (2 * p) /\ M + D * R = L
      /\ Value256(s.copyd) = R * p /\ Value256(s.adder) = p
  BY <1>1, <1>2 DEF Ready, Below, Owed
<1>4. M \in Nat /\ D \in Nat /\ s.div \in Uint256 /\ s.adder \in Uint256
  BY StateValues
<1>5. /\ t \in DivState
      /\ M < R * p => t = s
      /\ M >= R * p => Value256(t.mod) = M - R * p /\ t.div = Or256(s.div, s.adder)
  BY <1>3, SubtractedIs
<1>6. Value256(Or256(s.div, s.adder)) = D + p
  <2>1. Value256(s.adder) < Pow2(e + 1)
    BY <1>1, <1>3
  <2>2. Value256(Or256(s.div, s.adder)) = Value256(s.div) + Value256(s.adder)
    BY <1>2, <1>4, <2>1, Or256Exact
  <2> QED  BY <1>3, <2>2
<1> HIDE DEF t, p, M, D
<1>7. /\ D = (2 * c) * p /\ D + p = (2 * c + 1) * p /\ M - R * p < R * p
      /\ (M - R * p) + (D + p) * R = M + D * R
  BY <1>1, <1>3, <1>4, SubtractNumbers
<1>8. 2 * c \in Nat /\ 2 * c + 1 \in Nat /\ R * p \in Nat
  BY <1>1
<1>9. CASE M < R * p
  <2>1. t = s
    BY <1>5, <1>9
  <2>2. Below(s, R, p)
    BY <1>7, <1>8, <1>9 DEF Below, M, D
  <2> QED  BY <1>5, <2>1, <2>2 DEF p, t
<1>10. CASE M >= R * p
  <2>1. Value256(t.mod) = M - R * p /\ Value256(t.div) = D + p
    BY <1>5, <1>6, <1>10
  <2>2. Below(t, R, p)
    BY <1>7, <1>8, <2>1, Zenon DEF Below
  <2>3. Owed(t, L, R)
    BY <1>3, <1>7, <2>1, Zenon DEF Owed
  <2> QED  BY <1>5, <2>2, <2>3 DEF t, p
<1> QED  BY <1>4, <1>8, <1>9, <1>10

LEMMA DoubledHalf ==
  ASSUME NEW R \in Nat, NEW p \in Nat
  PROVE  (R * (2 * p)) \div 2 = R * p /\ (2 * p) \div 2 = p
<1>1. R * (2 * p) = 2 * (R * p) /\ R * p \in Nat
  OBVIOUS
<1> DEFINE n == R * p
<1>2. n \in Nat /\ R * (2 * p) = 2 * n
  BY <1>1
<1> HIDE DEF n
<1>3. (R * (2 * p)) \div 2 = n
  BY <1>2
<1> QED  BY <1>3 DEF n

LEMMA HalveKeeps ==
  ASSUME NEW s \in DivState, NEW R \in Nat, NEW e \in Nat,
         Value256(s.copyd) = R * Pow2(e + 1), Value256(s.adder) = Pow2(e + 1),
         Below(s, R, Pow2(e + 1))
  PROVE  Halved(s) \in DivState /\ Ready(Halved(s), R, e)
<1> DEFINE t == Halved(s)
<1>1. Pow2(e) \in Nat /\ Pow2(e + 1) = 2 * Pow2(e)
  BY Pow2Step
<1>2. /\ t \in DivState /\ t.mod = s.mod /\ t.div = s.div
      /\ Value256(t.copyd) = Value256(s.copyd) \div 2
      /\ Value256(t.adder) = Value256(s.adder) \div 2
  BY HalvedIs
<1>3. Value256(t.copyd) = R * Pow2(e) /\ Value256(t.adder) = Pow2(e)
  <2>1. (R * (2 * Pow2(e))) \div 2 = R * Pow2(e) /\ (2 * Pow2(e)) \div 2 = Pow2(e)
    BY <1>1, DoubledHalf
  <2> QED  BY <1>1, <1>2, <2>1, Zenon
<1>4. Below(t, R, Pow2(e + 1))
  BY <1>2, Zenon DEF Below
<1> QED  BY <1>2, <1>3, <1>4 DEF Ready

LEMMA RoundKeeps ==
  ASSUME NEW r \in Uint256, NEW R \in Nat, R = Value256(r),
         NEW L, NEW K \in Nat, NEW i \in Nat, NEW s, InLoop(s, L, R, K, i)
  PROVE  InLoop(Round(s, r), L, R, K, i + 1)
<1>1. s \in DivState /\ Owed(s, L, R) /\ (Value256(s.mod) < R \/ (i <= K /\ Ready(s, R, K - i)))
  BY DEF InLoop
<1>2. /\ Gte256(s.mod, r) <=> Value256(s.mod) >= R
      /\ Value256(s.mod) \in Nat
  BY <1>1, StateValues, Compare256
<1>3. CASE Value256(s.mod) < R
  <2>1. Round(s, r) = s
    BY <1>2, <1>3 DEF Round
  <2> QED  BY <1>1, <1>3, <2>1 DEF InLoop
<1>4. CASE ~ (Value256(s.mod) < R)
  <2> DEFINE e == K - i  t == Subtracted(s)
  <2>1. e \in Nat /\ i <= K /\ Ready(s, R, e) /\ Round(s, r) = Halved(t)
    BY <1>1, <1>2, <1>4 DEF Round
  <2> HIDE DEF e
  <2>2. t \in DivState /\ Owed(t, L, R) /\ Below(t, R, Pow2(e))
    BY <1>1, <2>1, SubtractKeeps
  <2>3. t.copyd = s.copyd /\ t.adder = s.adder
    BY <1>1, SubtractedIs
  <2> DEFINE u == Halved(t)
  <2>4. u \in DivState /\ u.mod = t.mod /\ u.div = t.div
    BY <2>2, HalvedIs
  <2>5. Owed(u, L, R)
    BY <2>2, <2>4, Zenon DEF Owed
  <2>6. Round(s, r) = u
    BY <2>1
  <2> HIDE DEF u, t
  <2>7. CASE e = 0
    <3>1. Pow2(0) = 1 /\ R * 1 = R
      BY Pow2Step, 0 \in Nat
    <3>2. Value256(u.mod) < R * Pow2(0)
      BY <2>2, <2>4, <2>7, Zenon DEF Below
    <3>3. Value256(u.mod) < R
      BY <3>1, <3>2, Zenon
    <3> QED  BY <2>4, <2>5, <2>6, <3>3 DEF InLoop
  <2>8. CASE e # 0
    <3> DEFINE d == e - 1
    <3>1. d \in Nat /\ d + 1 = e
      BY <2>1, <2>8
    <3>2. K - (i + 1) = d /\ i + 1 <= K
      BY <2>1, <2>8 DEF e
    <3> HIDE DEF d
    <3>3. /\ Value256(t.copyd) = R * Pow2(d + 1) /\ Value256(t.adder) = Pow2(d + 1)
          /\ Below(t, R, Pow2(d + 1))
      BY <2>1, <2>2, <2>3, <3>1, Zenon DEF Ready
    <3>4. Ready(u, R, d)
      BY <2>2, <3>1, <3>3, HalveKeeps DEF u
    <3>5. Ready(u, R, K - (i + 1))
      BY <3>2, <3>4, Zenon
    <3> QED  BY <2>4, <2>5, <2>6, <3>2, <3>5 DEF InLoop
  <2> QED  BY <2>7, <2>8
<1> QED  BY <1>3, <1>4

Start(l, r, n) == [mod |-> l, div |-> Clear256, copyd |-> Shiftl256(r, n),
                   adder |-> Shiftl256(ToUint256(1), n)]

LEMMA Clear256Is == Clear256 \in Uint256 /\ Value256(Clear256) = 0
<1>1. Base \in Nat \ {0, 1} /\ Base128 \in Nat
  BY BaseType
<1>2. 0 * Base + 0 = 0 /\ 0 * Base128 + 0 = 0 /\ 0 \in 0 .. Base - 1
  BY <1>1
<1>3. Value128(Clear128) = 0 * Base + 0 /\ Clear128 \in Uint128
  BY <1>2 DEF Clear128, Value128, UPPER, LOWER, Uint128
<1>4. Value256(Clear256) = Value128(Clear128) * Base128 + Value128(Clear128)
  BY DEF Clear256, Value256, UPPER, LOWER
<1>5. Clear256 \in Uint256
  BY <1>3 DEF Clear256, Uint256
<1> QED  BY <1>2, <1>3, <1>4, <1>5, Zenon

LEMMA StartType ==
  ASSUME NEW l \in Uint256, NEW r \in Uint256, NEW n \in Nat
  PROVE  Start(l, r, n) \in DivState
<1>1. Shiftl256(r, n) \in Uint256 /\ Shiftl256(ToUint256(1), n) \in Uint256
  BY OneIs, Shift256Exact
<1> QED  BY <1>1, Clear256Is DEF Start, DivState

LEMMA StartNumbers ==
  ASSUME NEW L \in Nat, NEW R \in Nat \ {0}, R <= L, NEW k, NEW n, IsLength(R, k), IsLength(L, n)
  PROVE  /\ n - k \in Nat /\ L < R * Pow2((n - k) + 1)
         /\ R * Pow2(n - k) \in Nat /\ R * Pow2(n - k) < Pow2(n)
         /\ Pow2(n - k) <= R * Pow2(n - k)
<1>1. k \in Nat /\ n \in Nat /\ k <= n
  BY LengthOrder
<1>2. /\ R < Pow2(k) /\ k # 0 /\ Pow2(k - 1) <= R /\ L < Pow2(n)
  BY DEF IsLength
<1> DEFINE d == n - k
<1>3. d \in Nat /\ k \in 0 .. n /\ k - 1 \in Nat /\ (k - 1) + 1 = k /\ k + d = n /\ (k - 1) + (d + 1) = n
  BY <1>1, <1>2
<1> HIDE DEF d
<1> DEFINE p == Pow2(d)  q == Pow2(k)  h == Pow2(k - 1)  o == Pow2(d + 1)
<1>4. p \in Nat \ {0} /\ q \in Nat \ {0} /\ h \in Nat \ {0} /\ o \in Nat \ {0}
  BY <1>1, <1>3, Pow2Step
<1>5. Pow2(n) = q * p /\ Pow2(n) = h * o
  <2>1. Pow2(k + d) = q * p
    BY <1>1, <1>3, Pow2Sum
  <2>2. Pow2((k - 1) + (d + 1)) = h * o
    BY <1>3, Pow2Sum
  <2> QED  BY <1>3, <2>1, <2>2, Zenon
<1>6. h <= R /\ R + 1 <= q /\ L < q * p /\ L < h * o
  BY <1>2, <1>4, <1>5
<1> HIDE DEF p, q, h, o
<1>7. h * o <= R * o /\ (R + 1) * p <= q * p /\ 1 * p <= R * p
  <2>1. R + 1 \in Nat /\ 1 <= R
    OBVIOUS
  <2> QED  BY <1>4, <1>6, <2>1, TimesMonotone
<1>8. h * o \in Nat /\ R * o \in Nat /\ R * p \in Nat /\ q * p \in Nat /\ (R + 1) * p = R * p + p
  BY <1>4
<1>9. L < R * o /\ R * p \in Nat /\ R * p < q * p /\ p <= R * p
  BY <1>4, <1>6, <1>7, <1>8
<1>10. L < R * Pow2(d + 1) /\ R * Pow2(d) \in Nat /\ R * Pow2(d) < Pow2(n) /\ Pow2(d) <= R * Pow2(d)
  BY <1>5, <1>9, Zenon DEF p, o
<1> QED  BY <1>3, <1>10 DEF d

LEMMA StartReady ==
  ASSUME NEW l \in Uint256, NEW r \in Uint256, NEW L, L = Value256(l), NEW R, R = Value256(r),
         R # 0, R <= L, NEW n, n = Bits256(l) - Bits256(r)
  PROVE  /\ n \in Nat /\ Start(l, r, n) \in DivState
         /\ Owed(Start(l, r, n), L, R) /\ Ready(Start(l, r, n), R, n)
<1>1. L \in Nat /\ R \in Nat /\ R \in Nat \ {0} /\ L < Base256 /\ R < Base256
  BY Value256Type
<1> DEFINE a == Bits256(l)  b == Bits256(r)
<1>2. IsLength(L, a) /\ IsLength(R, b)
  BY BitsExact
<1>3. /\ n \in Nat /\ L < R * Pow2(n + 1)
      /\ R * Pow2(n) \in Nat /\ R * Pow2(n) < Pow2(a) /\ Pow2(n) <= R * Pow2(n)
  <2> HIDE DEF a, b
  <2>1. /\ a - b \in Nat /\ L < R * Pow2((a - b) + 1)
        /\ R * Pow2(a - b) \in Nat /\ R * Pow2(a - b) < Pow2(a)
        /\ Pow2(a - b) <= R * Pow2(a - b)
    BY <1>1, <1>2, StartNumbers
  <2>2. n = a - b
    BY DEF a, b
  <2> QED  BY <2>1, <2>2, Zenon
<1>4. Pow2(a) <= Base256
  <2>1. a \in Nat /\ a # 0 /\ Pow2(a - 1) <= L
    BY <1>1, <1>2 DEF IsLength
  <2>2. 4 * W \in Nat /\ Base256 = Pow2(4 * W)
    BY BaseType, Pow2Wide
  <2> HIDE DEF a
  <2>3. ~ (4 * W <= a - 1)
    <3> SUFFICES ASSUME 4 * W <= a - 1 PROVE FALSE
      OBVIOUS
    <3>1. a - 1 \in Nat
      BY <2>1
    <3>2. Pow2(4 * W) <= Pow2(a - 1) /\ Pow2(a - 1) \in Nat /\ Pow2(4 * W) \in Nat
      BY <2>2, <3>1, Pow2Monotone, Pow2Step
    <3> QED  BY <1>1, <2>1, <2>2, <3>2
  <2>4. a <= 4 * W
    BY <2>1, <2>2, <2>3
  <2> QED  BY <2>1, <2>2, <2>4, Pow2Monotone
<1>5. /\ Base256 \in Nat \ {0} /\ Pow2(a) \in Nat /\ Pow2(n) \in Nat
      /\ R * Pow2(n) < Base256 /\ Pow2(n) < Base256
  <2>1. a \in Nat
    BY <1>2 DEF IsLength
  <2>2. Pow2(a) \in Nat /\ Pow2(n) \in Nat
    BY <1>3, <2>1, Pow2Step
  <2> HIDE DEF a
  <2>3. Base256 \in Nat \ {0}
    BY BaseType
  <2> QED  BY <1>3, <1>4, <2>2, <2>3
<1>6. /\ Value256(Shiftl256(r, n)) = R * Pow2(n)
      /\ Value256(Shiftl256(ToUint256(1), n)) = Pow2(n)
  <2>1. /\ Value256(Shiftl256(r, n)) = (R * Pow2(n)) % Base256
        /\ Value256(Shiftl256(ToUint256(1), n)) = (1 * Pow2(n)) % Base256
    BY <1>3, OneIs, Shift256Exact
  <2>2. \A i \in Nat : i < Base256 => i % Base256 = i
    BY <1>5
  <2>3. 1 * Pow2(n) = Pow2(n)
    BY <1>5
  <2> QED  BY <1>3, <1>5, <2>1, <2>2, <2>3
<1> DEFINE s == Start(l, r, n)
<1>7. /\ s.mod = l /\ s.div = Clear256 /\ s.copyd = Shiftl256(r, n)
      /\ s.adder = Shiftl256(ToUint256(1), n)
  BY DEF Start
<1>8. s \in DivState
  BY <1>3, StartType
<1> HIDE DEF s
<1>9. Value256(s.mod) = L /\ Value256(s.div) = 0
  BY <1>7, Clear256Is
<1>10. Owed(s, L, R)
  BY <1>1, <1>9 DEF Owed
<1>11. Ready(s, R, n)
  <2>1. 0 = 0 * Pow2(n + 1)
    <3>1. Pow2(n + 1) \in Nat
      BY <1>3, Pow2Step
    <3> QED  BY <3>1
  <2>2. Below(s, R, Pow2(n + 1))
    BY <1>3, <1>9, <2>1 DEF Below
  <2> QED  BY <1>6, <1>7, <2>2 DEF Ready
<1> QED  BY <1>3, <1>8, <1>10, <1>11 DEF s

LEMMA AlignedReady ==
  ASSUME NEW s \in DivState, NEW L \in Nat, NEW R \in Nat, R <= L, s.mod \in Uint256, Value256(s.mod) = L,
         NEW n \in Nat, Owed(s, L, R), Ready(s, R, n)
  PROVE  \E K \in 0 .. n : InLoop(Aligned(s), L, R, K, 0)
<1>1. /\ Value256(s.copyd) = R * Pow2(n) /\ Value256(s.adder) = Pow2(n)
      /\ \E c \in Nat : Value256(s.div) = c * Pow2(n + 1)
      /\ Pow2(n) \in Nat \ {0} /\ Pow2(n + 1) = 2 * Pow2(n)
  BY Pow2Step DEF Ready, Below
<1>2. Gt256(s.copyd, s.mod) <=> Value256(s.copyd) > Value256(s.mod)
  BY StateValues, Compare256
<1>3. CASE ~ Gt256(s.copyd, s.mod)
  <2>1. Aligned(s) = s
    BY <1>3 DEF Aligned
  <2>2. n - 0 = n /\ 0 <= n /\ n \in 0 .. n
    OBVIOUS
  <2>3. Ready(s, R, n - 0)
    BY <2>2, Zenon
  <2>4. InLoop(Aligned(s), L, R, n, 0)
    BY <2>1, <2>2, <2>3 DEF InLoop
  <2> QED  BY <2>2, <2>4
<1>4. CASE Gt256(s.copyd, s.mod)
  <2>1. L < R * Pow2(n)
    BY <1>1, <1>2, <1>4
  <2>2. n # 0
    <3>1. Pow2(0) = 1 /\ R * 1 = R
      BY Pow2Step, 0 \in Nat
    <3> QED  BY <2>1, <3>1
  <2> DEFINE d == n - 1  t == Halved(s)
  <2>3. d \in Nat /\ d + 1 = n /\ d - 0 = d /\ 0 <= d /\ d \in 0 .. n
    BY <2>2
  <2> HIDE DEF d
  <2>4. Below(s, R, Pow2(d + 1))
    <3>1. PICK c \in Nat : Value256(s.div) = c * Pow2(n + 1)
      BY <1>1
    <3>2. 2 * c \in Nat /\ c * (2 * Pow2(n)) = (2 * c) * Pow2(n)
      BY <1>1
    <3>3. Value256(s.div) = (2 * c) * Pow2(n)
      BY <1>1, <3>1, <3>2, Zenon
    <3>4. Below(s, R, Pow2(n))
      BY <2>1, <3>2, <3>3 DEF Below
    <3> QED  BY <2>3, <3>4, Zenon
  <2>5. t \in DivState /\ Ready(t, R, d)
    <3>1. Value256(s.copyd) = R * Pow2(d + 1) /\ Value256(s.adder) = Pow2(d + 1)
      BY <1>1, <2>3, Zenon
    <3> QED  BY <2>3, <2>4, <3>1, HalveKeeps
  <2>6. Owed(t, L, R)
    <3>1. t.mod = s.mod /\ t.div = s.div
      BY HalvedIs
    <3> QED  BY <3>1, Zenon DEF Owed
  <2>7. Aligned(s) = t
    BY <1>4 DEF Aligned
  <2> HIDE DEF t
  <2>8. Ready(t, R, d - 0)
    BY <2>3, <2>5, Zenon
  <2>9. InLoop(Aligned(s), L, R, d, 0)
    BY <2>3, <2>5, <2>6, <2>7, <2>8 DEF InLoop
  <2> QED  BY <2>3, <2>9
<1> QED  BY <1>3, <1>4

\* A state after i rounds, and the function of i that the loop is.
LEMMA Iterated ==
  ASSUME NEW S, NEW s0 \in S, NEW next \in [S -> S]
  PROVE  \E f \in [Nat -> S] :
            f = [i \in Nat |-> IF i = 0 THEN s0 ELSE next[f[i - 1]]]
<1> DEFINE N == Nat
           m == [i \in N |-> i]
           Body(g, i) == IF i = 0 THEN s0 ELSE next[g[i - 1]]
           F == [q \in N \X [N -> S] |-> Body(q[2], q[1])]
<1>1. F \in [N \X [N -> S] -> S]
  <2> SUFFICES ASSUME NEW i \in Nat, NEW g \in [Nat -> S] PROVE Body(g, i) \in S
    OBVIOUS
  <2>1. i # 0 => i - 1 \in Nat
    BY Predecessor
  <2> QED  BY <2>1
<1>2. m \in [N -> Nat] /\ S # {}
  OBVIOUS
<1>3. ASSUME NEW x \in N, NEW g \in [N -> S], NEW h \in [N -> S],
             \A y \in N : m[y] < m[x] => g[y] = h[y]
      PROVE  F[<<x, g>>] = F[<<x, h>>]
  <2>1. x # 0 => x - 1 \in N /\ m[x - 1] < m[x]
    BY Predecessor
  <2>2. x # 0 => g[x - 1] = h[x - 1]
    BY <1>3, <2>1
  <2> QED  BY <2>2
<1>4. Descends(N, S, m, F)
  <2>1. \A x \in N, g, h \in [N -> S] :
          (\A y \in N : m[y] < m[x] => g[y] = h[y]) => F[<<x, g>>] = F[<<x, h>>]
    BY <1>3
  <2> HIDE DEF N, m, F
  <2> QED  BY <1>1, <1>2, <2>1 DEF Descends
<1>5. PICK f : Solves(f, N, S, F)
  <2> HIDE DEF N, m, F
  <2> QED  BY <1>2, <1>4, Recursion
<1>6. f \in [N -> S] /\ \A i \in N : f[i] = Body(f, i)
  BY <1>5 DEF Solves
<1>7. f = [i \in N |-> Body(f, i)]
  BY <1>6
<1> QED  BY <1>6, <1>7

LEMMA LongDivisionIs ==
  ASSUME NEW l \in Uint256, NEW r \in Uint256, NEW n \in Nat
  PROVE  \E f : /\ f[0] = Aligned(Start(l, r, n))
                /\ \A i \in Nat : f[i + 1] = Round(f[i], r)
                /\ \A i \in Nat : f[i] \in DivState
                /\ LongDivision(l, r, n) = f[n + 1]
<1> DEFINE s0 == Aligned(Start(l, r, n))
           after[i \in Nat] == IF i = 0 THEN s0 ELSE Round(after[i - 1], r)
           next == [s \in DivState |-> Round(s, r)]
<1>1. s0 \in DivState
  BY StartType, RoundType
<1>2. next \in [DivState -> DivState]
  BY RoundType
<1>3. PICK f \in [Nat -> DivState] : f = [i \in Nat |-> IF i = 0 THEN s0 ELSE next[f[i - 1]]]
  <2> HIDE DEF s0, next
  <2> QED  BY <1>1, <1>2, Iterated
<1>4. f = [i \in Nat |-> IF i = 0 THEN s0 ELSE Round(f[i - 1], r)]
  <2> HIDE DEF s0
  <2>1. \A i \in Nat : f[i] = IF i = 0 THEN s0 ELSE next[f[i - 1]]
    <3> HIDE DEF next
    <3> QED  BY <1>3
  <2>2. \A i \in Nat : i # 0 => f[i - 1] \in DivState
    BY <1>3, Predecessor
  <2>3. \A i \in Nat : f[i] = IF i = 0 THEN s0 ELSE Round(f[i - 1], r)
    BY <2>1, <2>2
  <2>4. f = [i \in Nat |-> f[i]]
    BY <1>3
  <2> QED  BY <2>3, <2>4
<1>5. after = [i \in Nat |-> IF i = 0 THEN s0 ELSE Round(after[i - 1], r)]
  <2> HIDE DEF s0
  <2> QED  BY <1>4
<1>6. LongDivision(l, r, n) = after[n + 1]
  BY DEF LongDivision, Start
<1> HIDE DEF s0, after
<1>7. after[0] = s0 /\ \A i \in Nat : after[i + 1] = Round(after[i], r)
  <2>1. \A i \in Nat : after[i] = IF i = 0 THEN s0 ELSE Round(after[i - 1], r)
    BY <1>5
  <2>2. \A i \in Nat : i + 1 \in Nat /\ i + 1 # 0 /\ (i + 1) - 1 = i
    OBVIOUS
  <2> QED  BY <2>1, <2>2, 0 \in Nat, Zenon
<1>8. \A i \in Nat : after[i] \in DivState
  <2> DEFINE P == {i \in Nat : after[i] \in DivState}
  <2>1. 0 \in P
    BY <1>1, <1>7
  <2>2. \A i \in P : i + 1 \in P
    BY <1>7, RoundType
  <2>3. P \in SUBSET Nat
    OBVIOUS
  <2> HIDE DEF P
  <2>4. \A i \in Nat : i \in P
    BY <2>1, <2>2, <2>3, Induct
  <2> QED  BY <2>4 DEF P
<1> QED  BY <1>6, <1>7, <1>8 DEF s0

LEMMA LoopEnds ==
  ASSUME NEW l \in Uint256, NEW r \in Uint256, NEW L, L = Value256(l), NEW R, R = Value256(r),
         R # 0, R <= L, NEW n, n = Bits256(l) - Bits256(r)
  PROVE  LET s == LongDivision(l, r, n)
         IN  s \in DivState /\ Owed(s, L, R) /\ Value256(s.mod) < R
<1>1. L \in Nat /\ R \in Nat
  BY Value256Type
<1> DEFINE s0 == Start(l, r, n)
<1>2. n \in Nat /\ s0 \in DivState /\ Owed(s0, L, R) /\ Ready(s0, R, n)
  BY StartReady
<1>3. s0.mod = l
  BY DEF Start
<1> HIDE DEF s0
<1>4. PICK K \in 0 .. n : InLoop(Aligned(s0), L, R, K, 0)
  BY <1>1, <1>2, <1>3, AlignedReady
<1>5. PICK f : /\ f[0] = Aligned(s0) /\ \A i \in Nat : f[i + 1] = Round(f[i], r)
               /\ LongDivision(l, r, n) = f[n + 1]
  <2>1. n \in Nat
    BY <1>2
  <2>2. \E g : /\ g[0] = Aligned(Start(l, r, n))
               /\ \A i \in Nat : g[i + 1] = Round(g[i], r)
               /\ \A i \in Nat : g[i] \in DivState
               /\ LongDivision(l, r, n) = g[n + 1]
    BY <2>1, LongDivisionIs, Zenon
  <2> QED  BY <2>2, Zenon DEF s0
<1> DEFINE P == {i \in Nat : InLoop(f[i], L, R, K, i)}
<1>6. \A i \in Nat : i \in P
  <2>1. 0 \in P
    BY <1>4, <1>5
  <2>2. ASSUME NEW i \in P PROVE i + 1 \in P
    <3>1. InLoop(Round(f[i], r), L, R, K, i + 1)
      BY <1>1, <1>4, RoundKeeps
    <3> QED  BY <1>5, <3>1
  <2>3. P \in SUBSET Nat
    OBVIOUS
  <2> HIDE DEF P
  <2> QED  BY <2>1, <2>2, <2>3, Induct
<1>7. n + 1 \in Nat /\ ~ (n + 1 <= K)
  BY <1>2, <1>4
<1>8. InLoop(f[n + 1], L, R, K, n + 1)
  BY <1>6, <1>7
<1> QED  BY <1>5, <1>7, <1>8 DEF InLoop

\* divmod256() of uint256.c returns the quotient and the remainder, for words
\* of every size, and of the divisors only 0 leaves its loop running.
THEOREM DivisionsAreExact ==
  ASSUME NEW x \in Uint256, NEW y \in Uint256
  PROVE  DivisionExact(x, y)
<1> DEFINE X == Value256(x)  Y == Value256(y)  d == Divmod256(x, y)
           n == Bits256(x) - Bits256(y)  s == LongDivision(x, y, n)
<1>1. X \in Nat /\ Y \in Nat /\ (Gt256(y, x) <=> Y > X)
  BY Value256Type, Compare256
<1>2. CASE Gt256(y, x)
  <2>1. d = [div |-> Clear256, mod |-> x, ends |-> TRUE]
    BY <1>2 DEF Divmod256
  <2>2. X \div Y = 0 /\ X % Y = X /\ Y # 0
    BY <1>1, <1>2
  <2> QED  BY <2>1, <2>2, Clear256Is DEF DivisionExact
<1>3. CASE ~ Gt256(y, x)
  <2>1. d = [div |-> s.div, mod |-> s.mod, ends |-> Gt256(y, s.mod)] /\ Y <= X
    BY <1>1, <1>3 DEF Divmod256, Divided
  <2>2. CASE Y # 0
    <3>1. s \in DivState /\ Owed(s, X, Y) /\ Value256(s.mod) < Y
      BY <2>1, <2>2, LoopEnds
    <3> DEFINE q == Value256(s.div)  m == Value256(s.mod)
    <3>2. q \in Nat /\ m \in Nat /\ s.mod \in Uint256
      BY <3>1, StateValues
    <3>3. m + q * Y = X /\ m < Y
      BY <3>1 DEF Owed
    <3>4. Gt256(y, s.mod)
      BY <3>2, <3>3, Compare256
    <3> HIDE DEF q, m, s, X, Y
    <3>5. X \div Y = q /\ X % Y = m
      <4>1. Y \in Nat \ {0} /\ m \in 0 .. Y - 1 /\ q \in Int /\ q * Y + m = X
        BY <1>1, <2>2, <3>2, <3>3
      <4> QED  BY <4>1, DivUnique
    <3> HIDE DEF d
    <3>6. d.ends /\ d.div = s.div /\ d.mod = s.mod
      BY <2>1, <3>4
    <3> QED  BY <2>2, <3>5, <3>6 DEF DivisionExact, X, Y, d, q, m
  <2>3. CASE Y = 0
    <3>1. n \in Nat
      <4>1. IsLength(X, Bits256(x)) /\ IsLength(Y, Bits256(y))
        BY BitsExact
      <4>2. Bits256(x) \in Nat /\ Bits256(y) = 0
        BY <2>3, <4>1 DEF IsLength
      <4> QED  BY <4>2
    <3>2. s \in DivState
      <4>1. n + 1 \in Nat
        BY <3>1
      <4> HIDE DEF n
      <4> QED  BY <3>1, <4>1, LongDivisionIs
    <3>3. ~ Gt256(y, s.mod)
      <4>1. s.mod \in Uint256 /\ Value256(s.mod) \in Nat
        BY <3>2, StateValues
      <4> QED  BY <2>3, <4>1, Compare256
    <3> HIDE DEF s, X
    <3>4. ~ d.ends
      <4> HIDE DEF d
      <4> QED  BY <2>1, <3>3
    <3> QED  BY <2>3, <3>4 DEF DivisionExact
  <2> QED  BY <2>2, <2>3
<1> QED  BY <1>2, <1>3

-----------------------------------------------------------------------------
(* The power.                                                               *)

LEMMA ModShift ==
  ASSUME NEW a \in Nat, NEW k \in Int, NEW b \in Nat \ {0}
  PROVE  (a + k * b) % b = a % b
<1> DEFINE q == a \div b  r == a % b
<1>1. q \in Nat /\ r \in 0 .. b - 1 /\ a = q * b + r
  BY DivMod
<1> HIDE DEF q, r
<1>2. a + k * b = (q + k) * b + r /\ q + k \in Int
  BY <1>1
<1>3. ((q + k) * b + r) % b = r
  BY <1>1, <1>2, DivUnique
<1> QED  BY <1>2, <1>3 DEF r

LEMMA ModTimes ==
  ASSUME NEW n \in Nat, NEW o \in Nat, NEW b \in Nat \ {0}
  PROVE  ((n % b) * o) % b = (n * o) % b
<1> DEFINE q == n \div b  r == n % b
<1>1. q \in Nat /\ r \in Nat /\ n = q * b + r
  BY DivMod
<1> HIDE DEF q, r
<1>2. n * o = r * o + (q * o) * b /\ r * o \in Nat /\ q * o \in Int
  BY <1>1
<1>3. (r * o + (q * o) * b) % b = (r * o) % b
  BY <1>2, ModShift
<1> QED  BY <1>2, <1>3 DEF r

LEMMA PowerMod ==
  ASSUME NEW c \in Nat, NEW b \in Nat \ {0}, NEW n \in Nat
  PROVE  Power[<<c % b, n>>] % b = Power[<<c, n>>] % b
<1> DEFINE P == {k \in Nat : Power[<<c % b, k>>] % b = Power[<<c, k>>] % b}
<1>1. c % b \in Nat
  BY DivMod
<1>2. 0 \in P
  BY <1>1, PowerStep
<1>3. ASSUME NEW k \in P PROVE k + 1 \in P
  <2> DEFINE u == Power[<<c % b, k>>]  v == Power[<<c, k>>]  d == c % b
  <2>1. /\ k \in Nat /\ u \in Nat /\ v \in Nat /\ d \in Nat /\ u % b = v % b
        /\ Power[<<c % b, k + 1>>] = d * u /\ Power[<<c, k + 1>>] = c * v
    BY <1>1, PowerStep
  <2>2. (d * u) % b = (c * u) % b
    <3> HIDE DEF u
    <3> QED  BY <2>1, ModTimes
  <2> HIDE DEF u, v, d
  <2>3. ((u % b) * c) % b = (u * c) % b /\ ((v % b) * c) % b = (v * c) % b
    <3>1. u \in Nat /\ v \in Nat
      BY <2>1
    <3>2. ((u % b) * c) % b = (u * c) % b
      BY <3>1, ModTimes, Zenon
    <3>3. ((v % b) * c) % b = (v * c) % b
      BY <3>1, ModTimes, Zenon
    <3> QED  BY <3>2, <3>3
  <2>4. c * u = u * c /\ c * v = v * c
    BY <2>1
  <2>5. (d * u) % b = (c * v) % b
    BY <2>1, <2>2, <2>3, <2>4, Zenon
  <2>6. k + 1 \in Nat /\ Power[<<c % b, k + 1>>] % b = Power[<<c, k + 1>>] % b
    BY <2>1, <2>5
  <2> QED  BY <2>6
<1>4. P \in SUBSET Nat
  OBVIOUS
<1> HIDE DEF P
<1>5. \A k \in Nat : k \in P
  BY <1>2, <1>3, <1>4, Induct
<1> QED  BY <1>5 DEF P

LEMMA PowerSquare ==
  ASSUME NEW b \in Nat, NEW n \in Nat
  PROVE  Power[<<b * b, n>>] = Power[<<b, n + n>>]
<1> DEFINE P == {k \in Nat : Power[<<b * b, k>>] = Power[<<b, k>>] * Power[<<b, k>>]}
<1>1. b * b \in Nat
  BY TimesType
<1>2. 0 \in P
  <2>1. Power[<<b * b, 0>>] = 1 /\ Power[<<b, 0>>] = 1
    BY <1>1, PowerStep, 0 \in Nat, Zenon
  <2> QED  BY <2>1
<1>3. ASSUME NEW k \in P PROVE k + 1 \in P
  <2> DEFINE v == Power[<<b, k>>]
  <2>1. /\ k \in Nat /\ v \in Nat /\ Power[<<b * b, k>>] = v * v
        /\ Power[<<b, k + 1>>] = b * v
    BY PowerStep
  <2>2. Power[<<b * b, k + 1>>] = (b * b) * Power[<<b * b, k>>]
    BY <1>1, <2>1, PowerStep
  <2> HIDE DEF v
  <2>3. (b * b) * (v * v) = (b * v) * (b * v)
    BY <2>1
  <2>4. k + 1 \in Nat /\ Power[<<b * b, k + 1>>] = Power[<<b, k + 1>>] * Power[<<b, k + 1>>]
    <3>1. k + 1 \in Nat
      BY <2>1
    <3> QED  BY <2>1, <2>2, <2>3, <3>1, Zenon
  <2> QED  BY <2>4
<1>4. P \in SUBSET Nat
  OBVIOUS
<1> HIDE DEF P
<1>5. \A k \in Nat : k \in P
  BY <1>2, <1>3, <1>4, Induct
<1>6. Power[<<b, n + n>>] = Power[<<b, n>>] * Power[<<b, n>>]
  BY PowerSum
<1> QED  BY <1>5, <1>6 DEF P

IpowBody(f, p) ==
  IF p[2] = 0 THEN 1
  ELSE Word(f[<<Word(p[1] * p[1]), p[2] \div 2>>] * OddFactor(p[1], p[2]))

LEMMA WordIs == \A n \in Nat : Word(n) \in Nat
BY BaseType, DivMod DEF Word

LEMMA IpowDef ==
  \A p \in Nat \X Nat : Ipow[p] = IpowBody(Ipow, p)
<1> DEFINE N == Nat
           D == Nat \X Nat
           m == [p \in D |-> p[2]]
           F == [q \in D \X [D -> N] |-> IpowBody(q[2], q[1])]
<1>0. ASSUME NEW x \in D
      PROVE  LET y == <<Word(x[1] * x[1]), x[2] \div 2>>
             IN  y \in D /\ (x[2] # 0 => m[y] < m[x]) /\ OddFactor(x[1], x[2]) \in Nat
  <2>1. x[1] \in Nat /\ x[2] \in Nat
    OBVIOUS
  <2>2. Word(x[1] * x[1]) \in Nat
    BY <2>1, TimesType, WordIs
  <2>3. OddFactor(x[1], x[2]) \in Nat
    BY <2>1 DEF OddFactor
  <2> QED  BY <2>1, <2>2, <2>3, Halving
<1>1. F \in [D \X [D -> N] -> N]
  <2> SUFFICES ASSUME NEW x \in D, NEW g \in [D -> N]
               PROVE  IpowBody(g, x) \in Nat
    OBVIOUS
  <2> DEFINE y == <<Word(x[1] * x[1]), x[2] \div 2>>
  <2>1. y \in D /\ OddFactor(x[1], x[2]) \in Nat
    BY <1>0
  <2> HIDE DEF y
  <2>2. g[y] \in Nat
    BY <2>1
  <2>3. g[y] * OddFactor(x[1], x[2]) \in Nat
    BY <2>1, <2>2, TimesType
  <2>4. Word(g[y] * OddFactor(x[1], x[2])) \in Nat
    BY <2>3, WordIs
  <2>5. IpowBody(g, x) = IF x[2] = 0 THEN 1 ELSE Word(g[y] * OddFactor(x[1], x[2]))
    BY DEF IpowBody, y
  <2> QED  BY <2>4, <2>5
<1>2. m \in [D -> Nat] /\ N # {}
  OBVIOUS
<1>3. ASSUME NEW x \in D, NEW g \in [D -> N], NEW h \in [D -> N],
             \A y \in D : m[y] < m[x] => g[y] = h[y]
      PROVE  F[<<x, g>>] = F[<<x, h>>]
  <2> DEFINE y == <<Word(x[1] * x[1]), x[2] \div 2>>
  <2>1. y \in D /\ (x[2] # 0 => m[y] < m[x])
    BY <1>0
  <2> HIDE DEF y, m
  <2>2. x[2] # 0 => g[y] = h[y]
    BY <1>3, <2>1
  <2>3. IpowBody(g, x) = IpowBody(h, x)
    BY <2>2 DEF IpowBody, y
  <2> QED  BY <2>3
<1>4. Descends(D, N, m, F)
  <2>1. \A x \in D, g, h \in [D -> N] :
          (\A y \in D : m[y] < m[x] => g[y] = h[y]) => F[<<x, g>>] = F[<<x, h>>]
    BY <1>3
  <2> HIDE DEF N, D, m, F
  <2> QED  BY <1>1, <1>2, <2>1 DEF Descends
<1>5. PICK f : Solves(f, D, N, F)
  <2> HIDE DEF N, D, m, F
  <2> QED  BY <1>2, <1>4, Recursion
<1>6. f \in [D -> N] /\ \A p \in D : f[p] = IpowBody(f, p)
  BY <1>5 DEF Solves
<1>7. f = [p \in D |-> IpowBody(f, p)]
  BY <1>6
<1>8. Ipow = [p \in D |-> IpowBody(Ipow, p)]
  BY <1>7 DEF Ipow, IpowBody
<1> QED  BY <1>8

LEMMA SquareAndMultiply ==
  ASSUME NEW b \in Nat, NEW e \in Nat, e # 0, NEW t,
         t = Power[<<Word(b * b), e \div 2>>] % Base
  PROVE  Word(t * OddFactor(b, e)) = Power[<<b, e>>] % Base
<1> DEFINE k == e \div 2  o == OddFactor(b, e)  n == Power[<<b, k + k>>]
<1>1. Base \in Nat \ {0} /\ b * b \in Nat /\ k \in Nat /\ e = (k + k) + (e % 2) /\ e % 2 \in {0, 1}
  BY BaseType, TimesType, Halving
<1>2. t = n % Base
  <2> HIDE DEF k
  <2>1. Power[<<(b * b) % Base, k>>] % Base = Power[<<b * b, k>>] % Base
    BY <1>1, PowerMod
  <2>2. Power[<<b * b, k>>] = n
    BY <1>1, PowerSquare
  <2> QED  BY <2>1, <2>2 DEF Word, k
<1>3. Power[<<b, e>>] = n * o
  <2>1. k + k \in Nat /\ e % 2 \in Nat
    BY <1>1
  <2>2. Power[<<b, (k + k) + (e % 2)>>] = n * Power[<<b, e % 2>>]
    <3> HIDE DEF k
    <3> QED  BY <2>1, PowerSum
  <2>3. Power[<<b, e % 2>>] = o
    <3>1. Power[<<b, 0>>] = 1 /\ Power[<<b, 0 + 1>>] = b * Power[<<b, 0>>] /\ b * 1 = b /\ 0 + 1 = 1
      BY PowerStep, 0 \in Nat
    <3>2. Power[<<b, 1>>] = b
      BY <3>1, Zenon
    <3> QED  BY <1>1, <3>1, <3>2 DEF OddFactor
  <2> QED  BY <1>1, <2>2, <2>3, Zenon
<1>4. n \in Nat /\ o \in Nat
  <2>1. k + k \in Nat
    BY <1>1
  <2> HIDE DEF k
  <2> QED  BY <2>1, PowerStep DEF OddFactor
<1> HIDE DEF k, o, n
<1>5. ((n % Base) * o) % Base = (n * o) % Base
  BY <1>1, <1>4, ModTimes
<1> QED  BY <1>2, <1>3, <1>5, Zenon DEF Word, o

\* ipow() of math.c is the power modulo the word, for words of every size.
THEOREM PowersAreExact ==
  ASSUME NEW b \in Nat, NEW e \in Nat
  PROVE  PowerExact(b, e)
<1> DEFINE D == Nat \X Nat
           m == [p \in D |-> p[2]]
           P == {p \in D : Ipow[p] = Power[p] % Base}
<1>1. m \in [D -> Nat] /\ P \in SUBSET D
  OBVIOUS
<1>2. ASSUME NEW x \in D, \A y \in D : m[y] < m[x] => y \in P
      PROVE  x \in P
  <2>1. x[1] \in Nat /\ x[2] \in Nat /\ x = <<x[1], x[2]>> /\ Ipow[x] = IpowBody(Ipow, x)
    BY IpowDef
  <2>2. CASE x[2] = 0
    <3>1. Ipow[x] = 1
      BY <2>1, <2>2 DEF IpowBody
    <3>2. Power[<<x[1], 0>>] = 1 /\ 1 % Base = 1
      <4>1. x[1] \in Nat /\ 0 \in Nat /\ Base \in Nat /\ Base >= 2
        BY <2>1, BaseType
      <4>2. 1 % Base = 1
        BY <4>1
      <4> QED  BY <4>1, <4>2, PowerStep, Zenon
    <3>3. Power[x] = 1
      BY <2>1, <2>2, <3>2, Zenon
    <3> QED  BY <3>1, <3>2, <3>3
  <2>3. CASE x[2] # 0
    <3> DEFINE y == <<Word(x[1] * x[1]), x[2] \div 2>>
    <3>1. Word(x[1] * x[1]) \in Nat
      BY <2>1, TimesType, WordIs
    <3>2. y \in D /\ m[y] < m[x]
      BY <2>1, <2>3, <3>1, Halving
    <3> HIDE DEF m
    <3>3. Ipow[y] = Power[y] % Base
      BY <1>2, <3>2
    <3> DEFINE t == Ipow[y]
    <3>4. Word(t * OddFactor(x[1], x[2])) = Power[<<x[1], x[2]>>] % Base
      BY <2>1, <2>3, <3>3, SquareAndMultiply
    <3>5. Ipow[x] = Word(t * OddFactor(x[1], x[2]))
      BY <2>1, <2>3 DEF IpowBody
    <3>6. Ipow[x] = Power[x] % Base
      BY <2>1, <3>4, <3>5, Zenon
    <3> QED  BY <3>6
  <2> QED  BY <2>2, <2>3
<1>3. \A p \in D : p \in P
  <2> HIDE DEF D, m, P
  <2> QED  BY <1>1, <1>2, MeasureInduct
<1> QED  BY <1>3 DEF PowerExact

LEMMA ToUint256Is ==
  ASSUME NEW n \in Nat
  PROVE  ToUint256(n) \in Uint256
<1>1. Base128 \in Nat \ {0}
  BY BaseType
<1>2. n \div Base128 \in Nat /\ n % Base128 \in Nat
  BY <1>1, DivMod
<1> QED  BY <1>2, ToUint128Is DEF ToUint256, Uint256

LEMMA ValueNat ==
  ASSUME NEW x \in Uint256
  PROVE  Value256(x) \in Nat
BY Value256Type
====
