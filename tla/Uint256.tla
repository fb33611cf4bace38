------------------------------ MODULE Uint256 ------------------------------
(***************************************************************************)
(* helpers/uint256.c: 128 and 256 bit unsigned integers as pairs of         *)
(* halves, most significant half first, over words of W bits (64 in the     *)
(* code), and ipow() of helpers/math.c.  Targets of the C functions are     *)
(* results here.  divmod128() and tostring128() are copies of their 256 bit *)
(* versions that nothing outside the file calls.                            *)
(***************************************************************************)
EXTENDS Integers, Sequences

CONSTANT W   \* bits of a machine word

ASSUME WordAssumption == W \in Nat \ {0} /\ W % 2 = 0

\* b^e, spelled out as the provers do not know what ^ computes
Power[p \in Nat \X Nat] ==   \* of a base and an exponent
  IF p[2] = 0 THEN 1 ELSE p[1] * Power[<<p[1], p[2] - 1>>]
Pow2(k) == Power[<<2, k>>]

Base == Pow2(W)
HalfBase == Pow2(W \div 2)

\* Arithmetic of one machine word.
Word(n) == n % Base
Shl(n, k) == Word(n * Pow2(k))
Shr(n, k) == n \div Pow2(k)
Or[p \in Nat \X Nat] ==   \* of two numbers
  LET odd == p[1] % 2 = 1 \/ p[2] % 2 = 1
  IN  IF p[1] = 0 \/ p[2] = 0 THEN p[1] + p[2]
      ELSE 2 * Or[<<p[1] \div 2, p[2] \div 2>>] + (IF odd THEN 1 ELSE 0)

UPPER(x) == x[1]
LOWER(x) == x[2]

Uint128 == (0 .. Base - 1) \X (0 .. Base - 1)
Uint256 == Uint128 \X Uint128

\* What the pairs stand for: the reference the operations are checked against.
Value128(x) == UPPER(x) * Base + LOWER(x)
Base128 == Base * Base
Base256 == Base128 * Base128
Value256(x) == Value128(UPPER(x)) * Base128 + Value128(LOWER(x))
ToUint128(n) == <<Word(n \div Base), Word(n)>>
ToUint256(n) == <<ToUint128(n \div Base128), ToUint128(n % Base128)>>

-----------------------------------------------------------------------------

Clear128 == <<0, 0>>
Clear256 == <<Clear128, Clear128>>
Zero128(x) == LOWER(x) = 0 /\ UPPER(x) = 0
Zero256(x) == Zero128(LOWER(x)) /\ Zero128(UPPER(x))

Equal128(x, y) == UPPER(x) = UPPER(y) /\ LOWER(x) = LOWER(y)
Equal256(x, y) == Equal128(UPPER(x), UPPER(y)) /\ Equal128(LOWER(x), LOWER(y))

Gt128(x, y) == IF UPPER(x) = UPPER(y) THEN LOWER(x) > LOWER(y)
                                      ELSE UPPER(x) > UPPER(y)
Gt256(x, y) == IF Equal128(UPPER(x), UPPER(y)) THEN Gt128(LOWER(x), LOWER(y))
                                               ELSE Gt128(UPPER(x), UPPER(y))
Gte256(x, y) == Gt256(x, y) \/ Equal256(x, y)

Bit(b) == IF b THEN 1 ELSE 0
One128 == <<0, 1>>

Add128(x, y) ==
  LET low == Word(LOWER(x) + LOWER(y))
  IN  <<Word(UPPER(x) + UPPER(y) + Bit(low < LOWER(x))), low>>

Add256(x, y) ==
  LET low == Add128(LOWER(x), LOWER(y))
      high == Add128(UPPER(x), UPPER(y))
  IN  <<IF Gt128(LOWER(x), low) THEN Add128(high, One128) ELSE high, low>>

Minus128(x, y) ==
  LET low == Word(LOWER(x) - LOWER(y))
  IN  <<Word(UPPER(x) - UPPER(y) - Bit(low > LOWER(x))), low>>

Minus256(x, y) ==
  LET low == Minus128(LOWER(x), LOWER(y))
      high == Minus128(UPPER(x), UPPER(y))
  IN  <<IF Gt128(low, LOWER(x)) THEN Minus128(high, One128) ELSE high, low>>

Or128(x, y) == <<Or[<<UPPER(x), UPPER(y)>>], Or[<<LOWER(x), LOWER(y)>>]>>
Or256(x, y) == <<Or128(UPPER(x), UPPER(y)), Or128(LOWER(x), LOWER(y))>>

Shiftl128(x, v) ==
  CASE v = 0             -> x
    [] v \in 1 .. W-1    -> <<Shl(UPPER(x), v) + Shr(LOWER(x), W - v), Shl(LOWER(x), v)>>
    [] v \in W .. 2*W-1  -> <<Shl(LOWER(x), v - W), 0>>
    [] OTHER             -> Clear128

Shiftr128(x, v) ==
  CASE v = 0             -> x
    [] v \in 1 .. W-1    -> <<Shr(UPPER(x), v), Shl(UPPER(x), W - v) + Shr(LOWER(x), v)>>
    [] v \in W .. 2*W-1  -> <<0, Shr(UPPER(x), v - W)>>
    [] OTHER             -> Clear128

Shiftl256(x, v) ==
  CASE v = 0              -> x
    [] v \in 1 .. 2*W-1   -> <<Add128(Shiftl128(UPPER(x), v), Shiftr128(LOWER(x), 2*W - v)),
                               Shiftl128(LOWER(x), v)>>
    [] v \in 2*W .. 4*W-1 -> <<Shiftl128(LOWER(x), v - 2*W), Clear128>>
    [] OTHER              -> Clear256

Shiftr256(x, v) ==
  CASE v = 0              -> x
    [] v \in 1 .. 2*W-1   -> <<Shiftr128(UPPER(x), v),
                               Add128(Shiftr128(LOWER(x), v), Shiftl128(UPPER(x), 2*W - v))>>
    [] v \in 2*W .. 4*W-1 -> <<Clear128, Shiftr128(UPPER(x), v - 2*W)>>
    [] OTHER              -> Clear256

ShiftCount[x \in Uint128] ==
  IF Zero128(x) THEN 0 ELSE 1 + ShiftCount[Shiftr128(x, 1)]

Bits256(x) == IF ~Zero128(UPPER(x)) THEN 2*W + ShiftCount[UPPER(x)]
                                    ELSE ShiftCount[LOWER(x)]

-----------------------------------------------------------------------------
(* Schoolbook multiplication: products[i][j] is digit 3-i of one factor     *)
(* times digit j of the other, and a column adds the high and low halves of *)
(* one weight, column 0 being the least significant.                        *)

Column(k, high(_, _), low(_, _)) ==
  LET l(i) == IF i <= k THEN low(i, 3 - k + i) ELSE 0
      h(i) == IF i < k THEN high(i, 4 - k + i) ELSE 0
  IN  l(0) + l(1) + l(2) + l(3) + h(0) + h(1) + h(2)

Mul128Forgets(x, y) ==   \* faulty: only the low half of the second column counts
  LET halves(z) == <<UPPER(z) \div HalfBase, UPPER(z) % HalfBase,
                     LOWER(z) \div HalfBase, LOWER(z) % HalfBase>>
      products(i, j) == Word(halves(x)[4 - i] * halves(y)[j + 1])
      high(i, j) == products(i, j) \div HalfBase
      low(i, j) == products(i, j) % HalfBase
      sum32(k) == Word(Column(k, high, low))
  IN  Add128(<<0, sum32(0)>>, Add128(<<Word(sum32(2) + Shl(sum32(3), W \div 2)), 0>>,
                                     <<0, Shl(sum32(1), W \div 2)>>))

Mul128(x, y) ==
  LET halves(z) == <<UPPER(z) \div HalfBase, UPPER(z) % HalfBase,
                     LOWER(z) \div HalfBase, LOWER(z) % HalfBase>>
      products(i, j) == Word(halves(x)[4 - i] * halves(y)[j + 1])
      high(i, j) == products(i, j) \div HalfBase
      low(i, j) == products(i, j) % HalfBase
      sum32(k) == Word(Column(k, high, low))
      target == Add128(<<Shl(sum32(3), W \div 2), 0>>,
                       <<sum32(1) \div HalfBase, Shl(sum32(1), W \div 2)>>)
  IN  Add128(<<0, sum32(0)>>, Add128(<<sum32(2), 0>>, target))

Digits(z) == <<UPPER(UPPER(z)), LOWER(UPPER(z)), UPPER(LOWER(z)), LOWER(LOWER(z))>>

\* The column sums of mul256(), 128 bits each; UPPER(Sum64(x, y, 1)) is the
\* carry out of the column of weight 2^64.
Sum64(x, y, k) ==
  LET products(i, j) == Mul128(<<0, Digits(x)[4 - i]>>, <<0, Digits(y)[j + 1]>>)
      high(i, j) == UPPER(products(i, j))
      low(i, j) == LOWER(products(i, j))
  IN  ToUint128(Column(k, high, low))

\* The carry of column 1 goes to the most significant word of target2.
Mul256(x, y) ==
  LET third64 == Sum64(x, y, 1)
      target1 == <<Shiftl128(Sum64(x, y, 3), W), Clear128>>
      target2 == <<<<UPPER(third64), 0>>, Shiftl128(third64, W)>>
  IN  Add256(<<Clear128, Sum64(x, y, 0)>>,
             Add256(<<Sum64(x, y, 2), Clear128>>, Add256(target1, target2)))

-----------------------------------------------------------------------------
(* Shift and subtract: mod is what is left of the dividend, copyd the        *)
(* divisor shifted, adder the bit of the quotient it stands for.  "ends"    *)
(* says that the loop's condition is false after diffBits + 1 rounds, when  *)
(* adder is zero and no further round changes anything.                     *)

Halved(s) == [s EXCEPT !.copyd = Shiftr256(@, 1), !.adder = Shiftr256(@, 1)]

Subtracted(s) ==
  IF Gte256(s.mod, s.copyd)
    THEN [s EXCEPT !.mod = Minus256(@, s.copyd), !.div = Or256(@, s.adder)]
    ELSE s

\* One round of the loop, and what precedes the first
Round(s, r) == IF Gte256(s.mod, r) THEN Halved(Subtracted(s)) ELSE s
Aligned(s) == IF Gt256(s.copyd, s.mod) THEN Halved(s) ELSE s

LongDivision(l, r, diffBits) ==
  LET start == [mod |-> l, div |-> Clear256, copyd |-> Shiftl256(r, diffBits),
                adder |-> Shiftl256(ToUint256(1), diffBits)]
      after[i \in Nat] ==   \* i rounds
        IF i = 0 THEN Aligned(start) ELSE Round(after[i - 1], r)
  IN  after[diffBits + 1]

Divided(s, r) == [div |-> s.div, mod |-> s.mod, ends |-> Gt256(r, s.mod)]

Divmod256(l, r) ==
  IF Gt256(r, l) THEN [div |-> Clear256, mod |-> l, ends |-> TRUE]
  ELSE Divided(LongDivision(l, r, Bits256(l) - Bits256(r)), r)

\* ipow(): square and multiply in one word.
OddFactor(base, exp) == IF exp % 2 = 1 THEN base ELSE 1
Ipow[p \in Nat \X Nat] ==   \* of a base and an exponent
  IF p[2] = 0 THEN 1
  ELSE Word(Ipow[<<Word(p[1] * p[1]), p[2] \div 2>>] * OddFactor(p[1], p[2]))

-----------------------------------------------------------------------------
(* What the operations are for, over integers.                              *)

\* Sums and differences are those modulo 2^(4W), and > is that of the numbers.
SumsExact(x, y) ==
  LET X == Value256(x) Y == Value256(y)
  IN  /\ Value256(Add256(x, y)) = (X + Y) % Base256
      /\ Value256(Minus256(x, y)) = (X - Y) % Base256
      /\ Gt256(x, y) <=> X > Y
      /\ Gte256(x, y) <=> X >= Y

\* Shifts, by more than the width, too, are products and quotients by powers of two.
ShiftsExact(x, bits) ==
  bits <= 4*W + 1 =>
  /\ Value256(Shiftl256(x, bits)) = (Value256(x) * Pow2(bits)) % Base256
  /\ Value256(Shiftr256(x, bits)) = Value256(x) \div Pow2(bits)

\* The product is that modulo 2^(4W) but for the carry of column 1, which
\* counts 2^(3W) instead of 2^(2W). Factors of one word have no such carry.
ProductExact(x, y) ==
  LET X == Value256(x) Y == Value256(y) carry == UPPER(Sum64(x, y, 1))
  IN  /\ Value256(Mul256(x, y)) = (X * Y + carry * (Base * Base128 - Base128)) % Base256
      /\ X < Base /\ Y < Base => carry = 0

\* The loop ends with the quotient and the remainder, unless it divides by 0.
DivisionExact(x, y) ==
  LET X == Value256(x) Y == Value256(y) d == Divmod256(x, y)
  IN  /\ d.ends <=> Y # 0
      /\ d.ends => Value256(d.div) = X \div Y /\ Value256(d.mod) = X % Y

\* ipow() is the power modulo 2^W.
PowerExact(b, e) == Ipow[<<b, e>>] = Power[<<b, e>>] % Base

=============================================================================
