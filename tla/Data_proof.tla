----------------------------- MODULE Data_proof -----------------------------
(* Proofs about the token commands and about the inputs of the Data run:    *)
(* the table, the amounts sent and printed, the data of a contract call,    *)
(* transactions as their RLP, and what HexText_proof and Uint256_proof say   *)
(* of the inputs the run takes.                                             *)
EXTENDS MCData, HexText_proof

-----------------------------------------------------------------------------
(* The table of tokens.                                                     *)

LEMMA TokenInitIInv == TokenInit => TokenIInv
<1> SUFFICES ASSUME TokenInit PROVE TokenIInv
  OBVIOUS
<1>1. tokens = [i \in Slots |-> Unused] /\ added = <<>> /\ last = [cmd |-> "none", ret |-> 0]
  BY DEF TokenInit, Done
<1>2. tokens \in [Slots -> Tokens]
  BY <1>1 DEF Tokens
<1>3. \A i \in Slots : ~tokens[i].used
  BY <1>1 DEF Unused
<1>4. TOKENS_MAX \in Nat /\ Len(added) = 0 /\ added \in Seq(Contracts)
  BY <1>1, Erc20Assumption
<1>5. "idx" \notin DOMAIN last
  BY <1>1
<1>6. \A i \in Slots : ~(i < Len(added))
  BY <1>4 DEF Slots
<1> QED
  BY <1>2, <1>3, <1>4, <1>5, <1>6 DEF TokenIInv, IndexMeant, TokensOK, TableInOrder

\* The first free slot is the one after those in use.
LEMMA FirstFree ==
  ASSUME TokenIInv, Free # {}
  PROVE  Min(Free) = Len(added) /\ Len(added) \in Slots
<1>1. Len(added) \in Nat /\ TOKENS_MAX \in Nat
  BY Erc20Assumption DEF TokenIInv, IndexMeant, TokensOK
<1>2. Free = {i \in Slots : ~(i < Len(added))}
  BY DEF TokenIInv, IndexMeant, Free
<1>3. Len(added) \in Free /\ \A y \in Free : Len(added) <= y
  BY <1>1, <1>2 DEF Slots
<1>4. \A x \in Free : (\A y \in Free : x <= y) => x = Len(added)
  BY <1>1, <1>2, <1>3 DEF Slots
<1> QED  BY <1>2, <1>3, <1>4 DEF Min

LEMMA SlotFields ==
  ASSUME NEW a, NEW d
  PROVE  Slot(a, d).used = TRUE /\ Slot(a, d).address = a
BY DEF Slot

LEMMA AddInv ==
  ASSUME TokenIInv, NEW addr \in Contracts \cup {BadArgument}, Add(addr)
  PROVE  TokenIInv'
<1>1. "idx" \notin DOMAIN last'
  BY DEF Add, Done
<1>2. CASE UNCHANGED <<tokens, added>>
  BY <1>1, <1>2 DEF TokenIInv, IndexMeant, TokensOK, TableInOrder
<1>3. CASE ~UNCHANGED <<tokens, added>>
  <2> DEFINE n == Len(added)
             slot == Slot(addr, StoredDecimals(addr))
  <2>1. addr # BadArgument /\ Free # {} /\ addr \in Contracts
    BY <1>3 DEF Add
  <2>2. tokens' = [tokens EXCEPT ![Min(Free)] = slot] /\ added' = Append(added, addr)
    BY <1>3 DEF Add
  <2>3. Min(Free) = n /\ n \in Slots
    BY <2>1, FirstFree
  <2>4. added \in Seq(Contracts) /\ n \in Nat /\ tokens \in [Slots -> Tokens]
        /\ TOKENS_MAX \in Nat
    BY Erc20Assumption DEF TokenIInv, IndexMeant, TokensOK
  <2>5. slot \in Tokens
    <3>1. StoredDecimals(addr) \in 0 .. ByteRange - 1
      BY <2>1, Erc20Assumption DEF StoredDecimals, Uint256, Uint128, LOWER
    <3> QED  BY <2>1, <3>1 DEF Tokens
  <2>6. slot.used = TRUE /\ slot.address = addr
    BY SlotFields
  <2> HIDE DEF slot
  <2>7. tokens' \in [Slots -> Tokens] /\ tokens'[n] = slot
        /\ \A i \in Slots \ {n} : tokens'[i] = tokens[i]
    BY <2>2, <2>3, <2>4, <2>5
  <2>8. added' \in Seq(Contracts) /\ Len(added') = n + 1 /\ added'[n + 1] = addr
        /\ \A i \in 1 .. n : added'[i] = added[i]
    BY <2>1, <2>2, <2>4
  <2>9. \A i \in Slots : (tokens'[i].used <=> i < n + 1)
                         /\ (i < n + 1 => tokens'[i].address = added'[i + 1])
    <3> SUFFICES ASSUME NEW i \in Slots
                 PROVE  (tokens'[i].used <=> i < n + 1)
                        /\ (i < n + 1 => tokens'[i].address = added'[i + 1])
      OBVIOUS
    <3>1. i \in Nat
      BY <2>4 DEF Slots
    <3>2. CASE i = n
      BY <2>4, <2>6, <2>7, <2>8, <3>2
    <3>3. CASE i # n
      <4>1. tokens'[i] = tokens[i]
        BY <2>7, <3>3
      <4>2. (tokens[i].used <=> i < n) /\ (i < n => tokens[i].address = added[i + 1])
        BY DEF TokenIInv, IndexMeant, TableInOrder
      <4>3. (i < n + 1 <=> i < n) /\ (i < n => i + 1 \in 1 .. n)
        BY <2>4, <3>1, <3>3
      <4> QED  BY <2>8, <4>1, <4>2, <4>3
    <3> QED  BY <3>2, <3>3
  <2>10. n + 1 <= TOKENS_MAX
    BY <2>3, <2>4 DEF Slots
  <2> HIDE DEF n
  <2> QED
    BY <1>1, <2>7, <2>8, <2>9, <2>10 DEF TokenIInv, IndexMeant, TokensOK, TableInOrder
<1> QED  BY <1>2, <1>3

\* A token found by an index of a byte is the one that was added as that.
LEMMA GoodIndexMeans ==
  ASSUME TokenIInv, NEW n \in Typed, GoodIndex(n), n < ByteRange
  PROVE  n < Len(added) /\ tokens[Index(n)].address = added[n + 1]
<1>1. n \in Nat /\ ByteRange \in Nat
  BY Erc20Assumption
<1>2. Index(n) = n
  BY <1>1 DEF Index
<1> QED  BY <1>2 DEF GoodIndex, TokenIInv, IndexMeant, TableInOrder

\* The commands that use a token change nothing but what they leave in last.
LEMMA UseInv ==
  ASSUME TokenIInv, UNCHANGED <<tokens, added>>,
         NEW n \in Typed \cup {BadArgument},
         "idx" \in DOMAIN last' => /\ GoodIndex(n) /\ last'.idx = n
                                   /\ last'.address = tokens[Index(n)].address
  PROVE  TokenIInv'
<1>1. "idx" \in DOMAIN last' /\ last'.idx < ByteRange
        => last'.idx < Len(added) /\ last'.address = added[last'.idx + 1]
  BY GoodIndexMeans DEF GoodIndex
<1> QED  BY <1>1 DEF TokenIInv, IndexMeant, TokensOK, TableInOrder

LEMMA ShowInv ==
  ASSUME TokenIInv, NEW cmd \in {"balance", "totalSupply"},
         NEW n \in Typed \cup {BadArgument}, Show(cmd, n)
  PROVE  TokenIInv'
<1>1. "idx" \in DOMAIN last' => /\ GoodIndex(n) /\ last'.idx = n
                                /\ last'.address = tokens[Index(n)].address
  BY DEF Show, Printed, Done
<1> QED  BY <1>1, UseInv DEF Show

LEMMA TransferInv ==
  ASSUME TokenIInv, NEW n \in Typed \cup {BadArgument}, NEW amount, Transfer(n, amount)
  PROVE  TokenIInv'
<1>1. "idx" \in DOMAIN last' => /\ GoodIndex(n) /\ last'.idx = n
                                /\ last'.address = tokens[Index(n)].address
  BY DEF Transfer, Sent, Done
<1> QED  BY <1>1, UseInv DEF Transfer

LEMMA TokenNextIInv == TokenIInv /\ [TokenNext]_tokenVars => TokenIInv'
<1> SUFFICES ASSUME TokenIInv, [TokenNext]_tokenVars PROVE TokenIInv'
  OBVIOUS
<1>1. CASE UNCHANGED tokenVars
  BY <1>1 DEF tokenVars, TokenIInv, IndexMeant, TokensOK, TableInOrder
<1> QED
  BY <1>1, AddInv, ShowInv, TransferInv DEF TokenNext

\* "erc20 add" fills the table in order, whatever fails in between, and every
\* index that fits a byte reaches the contract it was added as.
THEOREM IndexKept == TokenSpec => []IndexMeant
<1>1. TokenIInv => IndexMeant
  BY DEF TokenIInv
<1> QED  BY <1>1, TokenInitIInv, TokenNextIInv, PTL DEF TokenSpec

\* The same of the commands the Data run takes, among its other subjects.
THEOREM IndexKeptBeside == Spec => []IndexMeant
<1>1. Init => TokenInit
  BY DEF Init
<1>2. [Next]_vars => [TokenNext]_tokenVars
  BY DEF Next, Take, Token, vars, tokenVars
<1> QED  BY <1>1, <1>2, IndexKept, PTL DEF Spec, TokenSpec

-----------------------------------------------------------------------------
(* The decimals of the tokens, and the power of ten they are printed with.  *)

LEMMA LowByte ==
  ASSUME NEW addr \in Contracts
  PROVE  /\ StoredDecimals(addr) \in 0 .. ByteRange - 1
         /\ StoredDecimals(addr) = Value256(DecimalsOf[addr]) % ByteRange
<1> DEFINE x == DecimalsOf[addr]  u == UPPER(x)  a == UPPER(LOWER(x))  l == LOWER(LOWER(x))
           B == Base  R == ByteRange  U == Value128(u)
<1>1. x \in Uint256 /\ R \in Nat \ {0} /\ B % R = 0 /\ B \in Nat \ {0}
  BY Erc20Assumption, BaseType
<1>2. u \in Uint128 /\ a \in Nat /\ l \in Nat
  BY <1>1 DEF Uint256, Uint128, UPPER, LOWER
<1>3. U \in Nat
  BY <1>2, Value128Type
<1>4. Value256(x) = U * (B * B) + (a * B + l)
  BY DEF Value256, Value128, Base128
<1>5. StoredDecimals(addr) = l % R
  BY DEF StoredDecimals
<1> HIDE DEF x, u, a, l, B, R, U
<1> DEFINE q == B \div R  k == (U * B) * q + a * q
<1>6. q \in Nat /\ B = q * R
  <2>1. q \in Nat /\ B = q * R + (B % R)
    BY <1>1, DivMod
  <2> QED  BY <1>1, <2>1
<1> HIDE DEF q
<1>7. k \in Int /\ U * (B * B) + (a * B + l) = l + k * R
  BY <1>1, <1>2, <1>3, <1>6
<1> HIDE DEF k
<1>8. (l + k * R) % R = l % R
  BY <1>1, <1>2, <1>7, ModShift
<1>9. l % R \in 0 .. R - 1
  BY <1>1, <1>2, DivMod
<1> QED  BY <1>4, <1>5, <1>7, <1>8, <1>9 DEF x, R

LEMMA OddPower ==
  ASSUME NEW n \in Nat
  PROVE  Power[<<5, n>>] \in Nat /\ Power[<<5, n>>] % 2 = 1
<1> DEFINE P == {k \in Nat : Power[<<5, k>>] \in Nat /\ Power[<<5, k>>] % 2 = 1}
<1>1. 0 \in P
  <2>1. Power[<<5, 0>>] = 1
    BY PowerStep
  <2> QED  BY <2>1
<1>2. ASSUME NEW k \in P PROVE k + 1 \in P
  <2> DEFINE v == Power[<<5, k>>]
  <2>1. k \in Nat /\ v \in Nat /\ v % 2 = 1 /\ Power[<<5, k + 1>>] = 5 * v
    BY PowerStep
  <2> HIDE DEF v
  <2>2. 5 * v \in Nat /\ (5 * v) % 2 = 1 /\ k + 1 \in Nat
    BY <2>1
  <2> QED  BY <2>1, <2>2
<1>3. P \in SUBSET Nat
  OBVIOUS
<1> HIDE DEF P
<1>4. \A k \in Nat : k \in P
  BY <1>1, <1>2, <1>3, Induct
<1> QED  BY <1>4 DEF P

\* A power of ten is 0 in a word when the word has no more bits than it has twos.
LEMMA TenWraps ==
  ASSUME NEW d \in Nat
  PROVE  /\ Ipow[<<10, d>>] = Power[<<10, d>>] % Base
         /\ Ipow[<<10, d>>] \in 0 .. Base - 1
         /\ Ipow[<<10, d>>] = 0 <=> d >= W
<1> DEFINE t == Power[<<10, d>>]  e == Power[<<2, d>>]  f == Power[<<5, d>>]
<1>1. t = e * f /\ e \in Nat \ {0} /\ f \in Nat /\ f % 2 = 1 /\ t \in Nat
  <2>1. 2 * 5 = 10 /\ 2 \in Nat /\ 5 \in Nat /\ 10 \in Nat
    OBVIOUS
  <2>2. Power[<<2 * 5, d>>] = e * f
    BY <2>1, PowerOfProduct
  <2>3. e \in Nat \ {0}
    BY Pow2Step DEF Pow2
  <2> QED  BY <2>1, <2>2, <2>3, OddPower, PowerStep
<1>2. Ipow[<<10, d>>] = t % Base
  BY PowersAreExact, 10 \in Nat DEF PowerExact
<1>3. Base \in Nat \ {0} /\ W \in Nat
  BY BaseType
<1>4. t % Base \in 0 .. Base - 1
  BY <1>1, <1>3, DivMod
<1>5. CASE d >= W
  <2>1. d - W \in Nat /\ d = W + (d - W)
    BY <1>3, <1>5
  <2> DEFINE g == Pow2(d - W)
  <2>2. e = Base * g /\ g \in Nat
    <3>1. Pow2(W + (d - W)) = Pow2(W) * g
      BY <1>3, <2>1, Pow2Sum
    <3>2. e = Pow2(d) /\ Base = Pow2(W)
      BY DEF Pow2, Base
    <3>3. g \in Nat
      BY <2>1, Pow2Step
    <3> HIDE DEF e, g
    <3> QED  BY <2>1, <3>1, <3>2, <3>3, Zenon
  <2> HIDE DEF t, e, f, g
  <2>3. t = (g * f) * Base + 0 /\ g * f \in Int /\ 0 \in 0 .. Base - 1
    BY <1>1, <1>3, <2>2
  <2>4. t % Base = 0
    BY <1>3, <2>3, DivUnique
  <2> QED  BY <1>2, <1>3, <1>4, <1>5, <2>4 DEF t
<1>6. CASE d < W
  <2>1. W - d \in Nat /\ W = d + ((W - d - 1) + 1) /\ W - d - 1 \in Nat
    BY <1>3, <1>6
  <2> DEFINE g == Pow2(W - d - 1)
  <2>2. Base = e * (2 * g) /\ g \in Nat
    <3>1. (W - d - 1) + 1 \in Nat
      BY <2>1
    <3>2. Pow2((W - d - 1) + 1) = 2 * g /\ g \in Nat
      BY <2>1, Pow2Step
    <3>3. Pow2(d + ((W - d - 1) + 1)) = Pow2(d) * Pow2((W - d - 1) + 1)
      BY <3>1, Pow2Sum
    <3> QED  BY <2>1, <3>2, <3>3 DEF Base, Pow2
  <2>3. ASSUME t % Base = 0 PROVE FALSE
    <3> DEFINE q == t \div Base
    <3>1. t = q * Base + (t % Base) /\ q \in Nat
      BY <1>1, <1>3, DivMod
    <3> HIDE DEF t, e, f, g, q
    <3>2. t = q * Base
      BY <1>1, <1>3, <2>3, <3>1
    <3>3. e * f = q * (e * (2 * g))
      BY <1>1, <2>2, <3>2
    <3>4. e * (f - 2 * (q * g)) = 0
      BY <1>1, <2>2, <3>1, <3>3
    <3>5. f - 2 * (q * g) = 0
      BY <1>1, <2>2, <3>1, <3>4
    <3> DEFINE h == q * g
    <3>6. h \in Nat
      BY <2>2, <3>1, TimesType
    <3>7. f = 2 * h
      BY <1>1, <2>2, <3>1, <3>5
    <3> HIDE DEF h
    <3>8. f % 2 = 0
      BY <3>6, <3>7
    <3> QED  BY <1>1, <3>8
  <2> QED  BY <1>2, <1>3, <1>4, <1>6, <2>3
<1> QED  BY <1>2, <1>3, <1>4, <1>5, <1>6 DEF t

-----------------------------------------------------------------------------
LEMMA DecimalsInit == TokenInit => DecimalsIInv /\ ShellReturns
<1> SUFFICES ASSUME TokenInit PROVE DecimalsIInv /\ ShellReturns
  OBVIOUS
<1>1. TokenIInv
  BY TokenInitIInv
<1>2. \A i \in Slots : ~tokens[i].used
  BY DEF TokenInit, Unused
<1>3. "text" \notin DOMAIN last
  BY DEF TokenInit, Done
<1> QED  BY <1>1, <1>2, <1>3 DEF TokenIInv, IndexMeant, DecimalsIInv, DecimalsKept, ShellReturns

LEMMA DecimalsAdd ==
  ASSUME DecimalsIInv, NEW addr \in Contracts \cup {BadArgument}, Add(addr)
  PROVE  DecimalsIInv' /\ ShellReturns'
<1>1. "text" \notin DOMAIN last'
  BY DEF Add, Done
<1>2. ShellReturns'
  BY <1>1 DEF ShellReturns
<1>3. CASE UNCHANGED <<tokens, added>>
  BY <1>2, <1>3 DEF DecimalsIInv, TokensOK, DecimalsKept
<1>4. CASE ~UNCHANGED <<tokens, added>>
  <2> DEFINE n == Min(Free)
             dec == StoredDecimals(addr)
             slot == Slot(addr, dec)
  <2>1. addr \in Contracts /\ Free # {} /\ tokens' = [tokens EXCEPT ![n] = slot]
        /\ added' = Append(added, addr)
    BY <1>4 DEF Add
  <2>2. dec \in 0 .. ByteRange - 1
    BY <2>1, LowByte
  <2>3. slot \in Tokens /\ slot.address = addr /\ slot.decimals = dec
    <3>1. slot \in Tokens
      BY <2>1, <2>2 DEF Tokens
    <3>2. slot.address = addr /\ slot.decimals = dec
      BY Zenon DEF Slot
    <3> QED  BY <3>1, <3>2
  <2> HIDE DEF n, slot, dec
  <2>4. tokens \in [Slots -> Tokens] /\ added \in Seq(Contracts)
    BY DEF DecimalsIInv, TokensOK
  <2>5. tokens' \in [Slots -> Tokens] /\ added' \in Seq(Contracts)
    <3>1. tokens' \in [Slots -> Tokens]
      BY <2>1, <2>3, <2>4
    <3>2. added' \in Seq(Contracts)
      BY <2>1, <2>4, AppendProperties
    <3> QED  BY <3>1, <3>2
  <2>6. ASSUME NEW i \in Slots, tokens'[i].used
        PROVE  /\ tokens'[i].address \in Contracts
               /\ tokens'[i].decimals = StoredDecimals(tokens'[i].address)
    <3>1. CASE i = n
      <4>1. tokens'[i] = slot
        BY <2>1, <2>4, <3>1
      <4> QED  BY <2>1, <2>3, <4>1 DEF dec
    <3>2. CASE i # n
      <4>1. tokens'[i] = tokens[i]
        BY <2>1, <2>4, <3>2
      <4> QED  BY <2>6, <4>1 DEF DecimalsIInv, DecimalsKept
    <3> QED  BY <3>1, <3>2
  <2>7. DecimalsKept'
    BY <2>6 DEF DecimalsKept, StoredDecimals
  <2> QED  BY <1>2, <2>5, <2>7 DEF DecimalsIInv, TokensOK
<1> QED  BY <1>3, <1>4

\* What a good index reaches.
LEMMA GoodToken ==
  ASSUME DecimalsIInv, NEW n, GoodIndex(n), NEW t, t = tokens[Index(n)]
  PROVE  /\ t.address \in Contracts
         /\ t.decimals = Value256(DecimalsOf[t.address]) % ByteRange
         /\ t.decimals \in Nat /\ t.decimals < ByteRange
<1>1. t.address \in Contracts /\ t.decimals = StoredDecimals(t.address)
  BY DEF GoodIndex, DecimalsIInv, DecimalsKept
<1>2. ByteRange \in Nat
  BY Erc20Assumption
<1> QED  BY <1>1, <1>2, LowByte

LEMMA PrintReturns ==
  ASSUME NEW value \in Uint256, NEW d \in Nat
  PROVE  PrintDecimal(value, d).returns <=> d < W
<1>1. PrintDecimal(value, d).returns = Divmod256(value, OneWord(Ipow[<<10, d>>])).ends
  BY DEF PrintDecimal, Parts, OneWord
<1>2. OneWord(Ipow[<<10, d>>]) \in Uint256 /\ Value256(OneWord(Ipow[<<10, d>>])) = Ipow[<<10, d>>]
  BY TenWraps, OneWordIs
<1>3. Divmod256(value, OneWord(Ipow[<<10, d>>])).ends <=> Value256(OneWord(Ipow[<<10, d>>])) # 0
  BY <1>2, DivisionsAreExact DEF DivisionExact
<1>4. W \in Nat /\ (Ipow[<<10, d>>] = 0 <=> d >= W)
  BY TenWraps, BaseType
<1> QED  BY <1>1, <1>2, <1>3, <1>4

LEMMA DecimalsShow ==
  ASSUME DecimalsIInv, NEW cmd \in {"balance", "totalSupply"},
         NEW n \in Typed \cup {BadArgument}, Show(cmd, n)
  PROVE  DecimalsIInv' /\ ShellReturns'
<1>1. DecimalsIInv'
  BY DEF Show, DecimalsIInv, TokensOK, DecimalsKept
<1>2. CASE last' = Done(cmd, -1)
  <2>1. "text" \notin DOMAIN last'
    BY <1>2 DEF Done
  <2> QED  BY <1>1, <2>1 DEF ShellReturns
<1>3. CASE last' # Done(cmd, -1)
  <2> DEFINE t == tokens[Index(n)]
  <2>1. PICK value \in Balances :
          last' = Printed(cmd, n, t.address, value, PrintDecimal(value, t.decimals))
    BY <1>3 DEF Show
  <2>2. GoodIndex(n) /\ value \in Uint256
    BY <1>3, Erc20Assumption DEF Show
  <2>3. /\ t.decimals = Value256(DecimalsOf[t.address]) % ByteRange
        /\ t.decimals \in Nat
    BY <2>2, GoodToken
  <2>4. last'.text = PrintDecimal(value, t.decimals) /\ last'.address = t.address
    BY <2>1 DEF Printed
  <2> HIDE DEF t
  <2>5. last'.text.returns <=> t.decimals < W
    BY <2>2, <2>3, <2>4, PrintReturns
  <2> QED  BY <1>1, <2>3, <2>4, <2>5 DEF ShellReturns
<1> QED  BY <1>2, <1>3

LEMMA DecimalsTransfer ==
  ASSUME DecimalsIInv, NEW n, NEW amount, Transfer(n, amount)
  PROVE  DecimalsIInv' /\ ShellReturns'
<1>1. "text" \notin DOMAIN last'
  BY DEF Transfer, Sent, Done
<1> QED  BY <1>1 DEF Transfer, DecimalsIInv, TokensOK, DecimalsKept, ShellReturns

LEMMA DecimalsNext ==
  DecimalsIInv /\ ShellReturns /\ [TokenNext]_tokenVars => DecimalsIInv' /\ ShellReturns'
<1> SUFFICES ASSUME DecimalsIInv, ShellReturns, [TokenNext]_tokenVars
             PROVE  DecimalsIInv' /\ ShellReturns'
  OBVIOUS
<1>1. CASE UNCHANGED tokenVars
  BY <1>1 DEF tokenVars, DecimalsIInv, TokensOK, DecimalsKept, ShellReturns
<1> QED
  BY <1>1, DecimalsAdd, DecimalsShow, DecimalsTransfer DEF TokenNext

\* The shell comes back from printing exactly when the token has fewer decimals
\* than the machine word has bits.
THEOREM ReturnsKept == TokenSpec => []ShellReturns
<1>1. TokenInit => DecimalsIInv /\ ShellReturns
  BY DecimalsInit
<1>2. DecimalsIInv /\ ShellReturns /\ [TokenNext]_tokenVars => (DecimalsIInv /\ ShellReturns)'
  BY DecimalsNext
<1> QED  BY <1>1, <1>2, PTL DEF TokenSpec

-----------------------------------------------------------------------------
(* The amounts that are sent and printed.                                   *)

\* The number of units of one token, where the code counts right
LEMMA CountablePower ==
  ASSUME NEW addr \in Contracts, Countable(addr), NEW d, d = Value256(DecimalsOf[addr])
  PROVE  /\ d \in Nat /\ d % ByteRange = d
         /\ Power[<<10, d>>] \in 1 .. Base - 1
         /\ Ipow[<<10, d>>] = Power[<<10, d>>]
<1> DEFINE p == Power[<<10, d>>]
<1>1. d \in Nat /\ ByteRange \in Nat \ {0} /\ d < ByteRange
  <2>1. DecimalsOf[addr] \in Uint256 /\ ByteRange \in Nat \ {0}
    BY Erc20Assumption
  <2> QED  BY <2>1, ValueNat DEF Countable
<1>2. p < Base
  BY DEF Countable
<1>3. p \in Nat \ {0}
  BY <1>1, PowerPositive, 10 \in Nat \ {0}
<1>4. Ipow[<<10, d>>] = p % Base
  BY <1>1, TenWraps
<1>5. Base \in Nat \ {0}
  BY BaseType
<1> HIDE DEF p
<1>6. p % Base = p
  BY <1>2, <1>3, <1>5
<1>7. d % ByteRange = d
  BY <1>1
<1> QED  BY <1>1, <1>2, <1>3, <1>4, <1>5, <1>6, <1>7 DEF p

LEMMA AmountSent ==
  ASSUME NEW amount \in 0 .. Base - 1, NEW d, NEW p \in 0 .. Base - 1, Ipow[<<10, d>>] = p
  PROVE  NumberOf(Calldata(amount, d), ByteBase) = amount * p
<1> DEFINE x == OneWord(amount)  y == OneWord(p)  z == Mul256(x, y)
           carry == UPPER(Sum64(x, y, 1))
<1>1. /\ x \in Uint256 /\ Value256(x) = amount
      /\ y \in Uint256 /\ Value256(y) = p
  BY OneWordIs
<1>2. Calldata(amount, d) = writeu256BE(z)
  BY DEF Calldata, OneWord
<1>3. z \in Uint256
  BY <1>1, Mul256Exact
<1>4. /\ Base \in Nat \ {0} /\ Base128 \in Nat \ {0} /\ Base256 \in Nat \ {0}
      /\ Base128 = Base * Base /\ Base256 = Base128 * Base128
  BY BaseType DEF Base128, Base256
<1>5. Value256(z) = (amount * p + carry * (Base * Base128 - Base128)) % Base256 /\ carry = 0
  <2>1. amount < Base /\ p < Base
    BY <1>4
  <2>2. ProductExact(x, y)
    BY <1>1, ProductsAreExact
  <2> HIDE DEF x, y
  <2> QED  BY <1>1, <2>1, <2>2, Zenon DEF ProductExact
<1> HIDE DEF x, y, z, carry
<1>6. Value256(z) = (amount * p) % Base256
  <2>1. carry * (Base * Base128 - Base128) = 0
    BY <1>4, <1>5
  <2>2. amount * p + 0 = amount * p
    BY <1>4
  <2> QED  BY <1>5, <2>1, <2>2
<1>7. amount * p \in 0 .. Base256 - 1
  <2> DEFINE n == amount * p
  <2>1. amount \in Nat /\ p \in Nat /\ amount <= Base /\ p <= Base
    BY <1>4
  <2>2. n \in Nat /\ n <= Base * p /\ Base * p <= Base * (Base - 1)
    <3>1. p <= Base - 1 /\ Base - 1 \in Nat
      BY <1>4
    <3> QED  BY <1>4, <2>1, <3>1, TimesMonotone, TimesType
  <2>3. Base * (Base - 1) < Base128
    BY <1>4
  <2>4. Base128 <= Base256
    <3>1. 1 <= Base128 /\ 1 \in Nat /\ 1 * Base128 = Base128
      BY <1>4
    <3> QED  BY <1>4, <3>1, TimesMonotone
  <2> HIDE DEF n
  <2>5. n < Base256
    <3>1. Base * p \in Nat /\ Base * (Base - 1) \in Nat
      BY <1>4, <2>1
    <3> QED  BY <1>4, <2>2, <2>3, <2>4, <3>1
  <2> QED  BY <1>4, <2>2, <2>5 DEF n
<1>8. (amount * p) % Base256 = amount * p
  BY <1>4, <1>7
<1>9. NumberOf(writeu256BE(z), ByteBase) = Value256(z)
  BY <1>3, WordsWritten
<1> QED  BY <1>2, <1>6, <1>8, <1>9

\* The text before the point.
LEMMA WholePrinted ==
  ASSUME NEW q \in Uint256, Value256(q) < Power[<<10, PrintBuf - 1>>], NEW s,
         s = DecimalText(DecimalDigits(q), 0, FALSE)
  PROVE  s \in Seq(Nat) /\ NumberOf(s, 10) = Value256(q)
<1> DEFINE t == DecimalDigits(q)
<1>1. Meant(t, Value256(q), 10)
  BY DecimalDigitsMeant
<1>2. PrintBuf \in Nat /\ PrintBuf - 1 \in Nat \ {0} /\ Value256(q) \in Nat /\ 10 \in Nat \ {0}
  BY TextAssumption, ValueNat
<1> HIDE DEF t
<1>3. Len(t) <= PrintBuf - 1
  BY <1>1, <1>2, MeantLength
<1>4. t \in Seq(Nat) /\ NumberOf(t, 10) = Value256(q)
  BY <1>1 DEF Meant
<1>5. ~(Len(t) >= PrintBuf) /\ ~(0 > PrintBuf - 1)
  BY <1>2, <1>3, <1>4
<1>6. s = t
  BY <1>5 DEF DecimalText, t
<1> QED  BY <1>4, <1>6

\* The text after the point.
LEMMA FractionPrinted ==
  ASSUME NEW r \in Uint256, NEW d \in Nat \ {0}, d < PrintBuf, Value256(r) < Power[<<10, d>>],
         NEW s, s = DecimalText(DecimalDigits(r), d, TRUE)
  PROVE  /\ s \in Seq(Nat) /\ Len(s) \in 1 .. d
         /\ Value256(r) = NumberOf(s, 10) * Power[<<10, d - Len(s)>>]
<1> DEFINE t == DecimalDigits(r)  u == Padded(t, d)
<1>1. Meant(t, Value256(r), 10)
  BY DecimalDigitsMeant
<1>2. PrintBuf \in Nat /\ Value256(r) \in Nat /\ 10 \in Nat \ {0}
  BY TextAssumption, ValueNat
<1> HIDE DEF t
<1>3. Len(t) <= d
  BY <1>1, <1>2, MeantLength
<1>4. t \in Seq(Nat) /\ NumberOf(t, 10) = Value256(r)
  BY <1>1 DEF Meant
<1>5. ~(Len(t) >= PrintBuf) /\ ~(d > PrintBuf - 1)
  BY <1>2, <1>3, <1>4
<1>6. s = DropZeros(u)
  BY <1>5 DEF DecimalText, t
<1>7. u \in Seq(Nat) /\ Len(u) = d /\ NumberOf(u, 10) = Value256(r)
  BY <1>3, <1>4, PaddedIs
<1> HIDE DEF u
<1>8. u # <<>>
  BY <1>7
<1>9. PICK k \in 1 .. Len(u) :
        /\ DropZeros(u) \in Seq(Nat) /\ Len(DropZeros(u)) = k
        /\ NumberOf(u, 10) = NumberOf(DropZeros(u), 10) * Power[<<10, Len(u) - k>>]
  BY <1>7, <1>8, DropZerosIs
<1> QED  BY <1>6, <1>7, <1>9

LEMMA AmountPrinted ==
  ASSUME NEW value \in Uint256, NEW d \in Nat, NEW p \in 1 .. Base - 1, p = Power[<<10, d>>],
         Ipow[<<10, d>>] = p, FitsBuffer(Value256(value), d),
         NEW text, text = PrintDecimal(value, d)
  PROVE  IF d = 0 THEN NumberOf(text.int, 10) = Value256(value)
         ELSE NumberOf(text.int \o text.frac, 10) * Power[<<10, d - Len(text.frac)>>]
                = Value256(value)
<1> DEFINE v == Value256(value)  dm == Divmod256(value, OneWord(p))
           q == Value256(dm.div)  r == Value256(dm.mod)
           s == DecimalText(DecimalDigits(dm.div), 0, FALSE)
           t == DecimalText(DecimalDigits(dm.mod), d, TRUE)
<1>1. text.int = s /\ text.frac = t
  BY DEF PrintDecimal, Parts, OneWord
<1>2. OneWord(p) \in Uint256 /\ Value256(OneWord(p)) = p /\ p \in Nat \ {0}
  <2>1. Base \in Nat
    BY BaseType
  <2>2. p \in 0 .. Base - 1
    BY <2>1
  <2> QED  BY <2>2, OneWordIs
<1>3. dm.div \in Uint256 /\ dm.mod \in Uint256
  BY <1>2, DivmodType DEF Divisions
<1>4. q = v \div p /\ r = v % p
  BY <1>2, DivisionsAreExact DEF DivisionExact
<1>5. v \in Nat /\ q \in Nat /\ r \in 0 .. p - 1 /\ v = q * p + r
  <2>1. v \in Nat /\ p \in Nat \ {0}
    BY <1>2, ValueNat
  <2> HIDE DEF v, q, r
  <2> QED  BY <1>4, <2>1, DivMod
<1>6. d < PrintBuf /\ q < Power[<<10, PrintBuf - 1>>]
  BY <1>4 DEF FitsBuffer
<1> HIDE DEF dm
<1>7. s \in Seq(Nat) /\ NumberOf(s, 10) = q
  BY <1>3, <1>6, WholePrinted
<1> HIDE DEF v, q, r, s
<1>8. CASE d = 0
  <2>1. p = 1
    BY <1>8, PowerStep, 10 \in Nat
  <2> QED  BY <1>1, <1>5, <1>7, <1>8, <2>1 DEF v
<1>9. CASE d # 0
  <2>1. d \in Nat \ {0} /\ r < Power[<<10, d>>]
    BY <1>2, <1>5, <1>9
  <2>2. t \in Seq(Nat) /\ Len(t) \in 1 .. d /\ r = NumberOf(t, 10) * Power[<<10, d - Len(t)>>]
    BY <1>3, <1>6, <2>1, FractionPrinted, ZenonT(60) DEF r
  <2> HIDE DEF t
  <2> DEFINE k == Len(t)  a == Power[<<10, k>>]  b == Power[<<10, d - k>>]  f == NumberOf(t, 10)
  <2>3. k \in Nat /\ d - k \in Nat /\ d = k + (d - k)
    BY <2>1, <2>2
  <2>4. NumberOf(s \o t, 10) = q * a + f
    BY <1>7, <2>2, NumberConcat, 10 \in Nat
  <2>5. a \in Nat /\ b \in Nat /\ f \in Nat
    BY <2>2, <2>3, PowerStep, NumberNat, 10 \in Nat
  <2>6. p = a * b
    <3>1. Power[<<10, k + (d - k)>>] = a * b
      BY <2>3, PowerSum, 10 \in Nat
    <3> QED  BY <2>3, <3>1
  <2>7. r = f * b
    BY <2>2
  <2> HIDE DEF k, a, b, f
  <2>8. (q * a + f) * b = v
    BY <1>5, <2>5, <2>6, <2>7
  <2> QED  BY <1>1, <1>9, <2>4, <2>8 DEF v, k, b
<1> QED  BY <1>8, <1>9

-----------------------------------------------------------------------------
(* What the table and the last command keep.                                *)

\* A command that sends or prints uses the decimals the contract answered.
LEMMA AmountsTransfer ==
  ASSUME DecimalsIInv, NEW n \in Typed \cup {BadArgument},
         NEW amount \in Amounts \cup {BadArgument}, Transfer(n, amount)
  PROVE  AmountsExact'
<1>1. CASE last' = Done("transfer", -1)
  <2>1. "address" \notin DOMAIN last'
    BY <1>1 DEF Done
  <2> QED  BY <2>1 DEF AmountsExact
<1>2. CASE last' # Done("transfer", -1)
  <2> DEFINE t == tokens[Index(n)]  a == t.address  d == Value256(DecimalsOf[a])
             p == Power[<<10, d>>]  c == Calldata(amount, t.decimals)
  <2>1. /\ GoodIndex(n) /\ amount # BadArgument
        /\ last' = Sent(n, a, amount, c)
    BY <1>2 DEF Transfer
  <2>2. a \in Contracts /\ t.decimals = d % ByteRange
    BY <2>1, GoodToken
  <2>3. amount \in 0 .. Base - 1
    BY <2>1, Erc20Assumption
  <2>4. /\ last'.address = a /\ last'.cmd = "transfer"
        /\ last'.amount = amount /\ last'.calldata = c
    BY <2>1 DEF Sent
  <2>5. ASSUME Countable(a) PROVE NumberOf(c, ByteBase) = amount * p
    <3>1. t.decimals = d /\ p \in 1 .. Base - 1 /\ Ipow[<<10, d>>] = p
      BY <2>2, <2>5, CountablePower
    <3>2. Base \in Nat
      BY BaseType
    <3> HIDE DEF t, a, d, p
    <3>3. p \in 0 .. Base - 1
      BY <3>1, <3>2
    <3> QED  BY <2>3, <3>1, <3>3, AmountSent
  <2> HIDE DEF t, a, c
  <2> QED  BY <2>4, <2>5, Zenon DEF AmountsExact
<1> QED  BY <1>1, <1>2

LEMMA AmountsShow ==
  ASSUME DecimalsIInv, NEW cmd \in {"balance", "totalSupply"},
         NEW n \in Typed \cup {BadArgument}, Show(cmd, n)
  PROVE  AmountsExact'
<1>1. CASE last' = Done(cmd, -1)
  <2>1. "address" \notin DOMAIN last'
    BY <1>1 DEF Done
  <2> QED  BY <2>1 DEF AmountsExact
<1>2. CASE last' # Done(cmd, -1)
  <2> DEFINE t == tokens[Index(n)]  a == t.address  d == Value256(DecimalsOf[a])
             p == Power[<<10, d>>]
  <2>1. PICK value \in Balances :
          last' = Printed(cmd, n, a, value, PrintDecimal(value, t.decimals))
    BY <1>2 DEF Show
  <2>2. GoodIndex(n) /\ value \in Uint256
    BY <1>2, Erc20Assumption DEF Show
  <2>3. a \in Contracts /\ t.decimals = d % ByteRange
    BY <2>2, GoodToken
  <2> DEFINE text == PrintDecimal(value, t.decimals)
  <2>4. /\ last'.address = a /\ last'.cmd # "transfer"
        /\ last'.value = value /\ last'.text = text
    BY <2>1 DEF Printed
  <2>5. ASSUME Countable(a), FitsBuffer(Value256(value), d)
        PROVE  IF d = 0 THEN NumberOf(text.int, 10) = Value256(value)
               ELSE NumberOf(text.int \o text.frac, 10) * Power[<<10, d - Len(text.frac)>>]
                      = Value256(value)
    <3>1. t.decimals = d /\ d \in Nat /\ p \in 1 .. Base - 1 /\ Ipow[<<10, d>>] = p
      BY <2>3, <2>5, CountablePower
    <3>2. text = PrintDecimal(value, d)
      BY <3>1
    <3>3. p = Power[<<10, d>>]
      OBVIOUS
    <3> HIDE DEF t, a, d, p, text
    <3> QED  BY <2>2, <2>5, <3>1, <3>2, <3>3, AmountPrinted
  <2> HIDE DEF t, a, text
  <2> QED  BY <2>4, <2>5, Zenon DEF AmountsExact
<1> QED  BY <1>1, <1>2

LEMMA AmountsNext ==
  DecimalsIInv /\ AmountsExact /\ [TokenNext]_tokenVars => AmountsExact'
<1> SUFFICES ASSUME DecimalsIInv, AmountsExact, [TokenNext]_tokenVars
             PROVE  AmountsExact'
  OBVIOUS
<1>1. CASE UNCHANGED tokenVars
  <2>1. last' = last
    BY <1>1 DEF tokenVars
  <2> QED  BY <2>1, Zenon DEF AmountsExact
<1>2. ASSUME NEW addr \in Contracts \cup {BadArgument}, Add(addr) PROVE AmountsExact'
  <2>1. "address" \notin DOMAIN last'
    BY <1>2 DEF Add, Done
  <2> QED  BY <2>1 DEF AmountsExact
<1> QED
  BY <1>1, <1>2, AmountsShow, AmountsTransfer DEF TokenNext

\* What "erc20 transfer" sends is the number of tokens the user typed, and what
\* "erc20 balance" and "erc20 totalSupply" print is the number the contract
\* answered, in the units of the contract and whatever was added to the table.
THEOREM AmountsKept == TokenSpec => []AmountsExact
<1> DEFINE Inv == DecimalsIInv /\ ShellReturns /\ AmountsExact
<1>1. TokenInit => Inv
  <2>1. TokenInit => "address" \notin DOMAIN last
    BY DEF TokenInit, Done
  <2> QED  BY <2>1, DecimalsInit DEF AmountsExact
<1>2. Inv /\ [TokenNext]_tokenVars => Inv'
  BY AmountsNext, DecimalsNext
<1>3. Inv => AmountsExact
  OBVIOUS
<1> HIDE DEF Inv
<1> QED  BY <1>1, <1>2, <1>3, PTL DEF TokenSpec

\* The same of the commands the Data run takes, among its other subjects.
THEOREM TokensKeptBeside == Spec => []ShellReturns /\ []AmountsExact
<1>1. Init => TokenInit
  BY DEF Init
<1>2. [Next]_vars => [TokenNext]_tokenVars
  BY DEF Next, Take, Token, vars, tokenVars
<1> QED  BY <1>1, <1>2, ReturnsKept, AmountsKept, PTL DEF Spec, TokenSpec

-----------------------------------------------------------------------------
(* The data of a contract call.                                             *)

Byte == 0 .. 255

\* What encode_*() is given: an item of the call, a value of the kind's bytes,
\* and at most 32 bytes of data, as encode_data() asserts.
IsWrite(w, items) ==
  /\ w.idx \in 0 .. items - 1 /\ w.val \in Seq(Byte)
  /\ \/ w.kind = "uint" /\ Len(w.val) = 8
     \/ w.kind = "uint128" /\ Len(w.val) = 16
     \/ w.kind = "uint256" /\ Len(w.val) = 32
     \/ w.kind = "address" /\ Len(w.val) = 20
     \/ w.kind = "data" /\ Len(w.val) <= 32

\* Where in the item its value begins.
Offset(w) == IF w.kind = "data" THEN 0 ELSE 32 - Len(w.val)

LEMMA PutBytes ==
  ASSUME NEW buf \in Seq(Byte), NEW b \in Seq(Byte), NEW at \in Nat
  PROVE  /\ Put(buf, at, b) \in Seq(Byte)
         /\ Len(Put(buf, at, b)) = Len(buf)
         /\ \A i \in 1 .. Len(buf) :
              Put(buf, at, b)[i] = IF i - at \in 1 .. Len(b) THEN b[i - at] ELSE buf[i]
<1> DEFINE p == Put(buf, at, b)
<1>1. Len(buf) \in Nat /\ Len(b) \in Nat
  OBVIOUS
<1>2. \A i \in 1 .. Len(buf) : (IF i - at \in 1 .. Len(b) THEN b[i - at] ELSE buf[i]) \in Byte
  OBVIOUS
<1>3. p \in [1 .. Len(buf) -> Byte]
  BY <1>2 DEF Put
<1>4. p \in Seq(Byte) /\ Len(p) = Len(buf)
  BY <1>1, <1>3
<1> QED  BY <1>4 DEF Put

LEMMA Zeroed ==
  ASSUME NEW n \in Nat
  PROVE  /\ ZeroBytes(n) \in Seq(Byte) /\ Len(ZeroBytes(n)) = n
         /\ \A i \in 1 .. n : ZeroBytes(n)[i] = 0
<1>1. ZeroBytes(n) \in [1 .. n -> Byte]
  BY DEF ZeroBytes, Byte
<1>2. ZeroBytes(n) \in Seq(Byte) /\ Len(ZeroBytes(n)) = n
  BY <1>1
<1> QED  BY <1>2 DEF ZeroBytes

\* new is blk with the bytes b in item idx from off on, zeros before and after
\* them, and the other items as they were.
Holds(new, blk, idx, off, b) ==
  /\ new \in Seq(Byte) /\ Len(new) = Len(blk)
  /\ \A i \in 1 .. Len(blk) : i - (32*idx + 4) \notin 1 .. 32 => new[i] = blk[i]
  /\ \A k \in 1 .. 32 :
       new[32*idx + 4 + k] = IF k - off \in 1 .. Len(b) THEN b[k - off] ELSE 0

LEMMA EncodeAt ==
  ASSUME NEW items \in Nat, NEW blk \in Seq(Byte), Len(blk) = 32*items + 4,
         NEW idx \in 0 .. items - 1, NEW b \in Seq(Byte),
         NEW off \in Nat, off + Len(b) <= 32
  PROVE  Holds(encode_at(blk, idx, off, b), blk, idx, off, b)
<1> DEFINE at == 32*idx + 4
           zeros == ZeroBytes(32)
           cleared == Put(blk, at, zeros)
           new == Put(cleared, at + off, b)
<1>1. encode_at(blk, idx, off, b) = new
  BY DEF encode_at, item_clear, compute_item_index
<1>2. at \in Nat /\ at + off \in Nat /\ at + 32 <= Len(blk) /\ Len(b) \in Nat /\ Len(blk) \in Nat
  OBVIOUS
<1>3. zeros \in Seq(Byte) /\ Len(zeros) = 32 /\ \A i \in 1 .. 32 : zeros[i] = 0
  BY Zeroed
<1> HIDE DEF at, zeros
<1>4. /\ cleared \in Seq(Byte) /\ Len(cleared) = Len(blk)
      /\ \A i \in 1 .. Len(blk) : cleared[i] = IF i - at \in 1 .. 32 THEN 0 ELSE blk[i]
  <2>1. /\ cleared \in Seq(Byte) /\ Len(cleared) = Len(blk)
        /\ \A i \in 1 .. Len(blk) :
             cleared[i] = IF i - at \in 1 .. Len(zeros) THEN zeros[i - at] ELSE blk[i]
    <3>1. at \in Nat /\ zeros \in Seq(Byte) /\ blk \in Seq(Byte)
      BY <1>2, <1>3
    <3> QED  BY <3>1, PutBytes, ZenonT(60)
  <2> HIDE DEF cleared
  <2> QED  BY <1>3, <2>1
<1> HIDE DEF cleared
<1>5. /\ new \in Seq(Byte) /\ Len(new) = Len(blk)
      /\ \A i \in 1 .. Len(blk) :
           new[i] = IF i - (at + off) \in 1 .. Len(b) THEN b[i - (at + off)] ELSE cleared[i]
  <2>1. /\ new \in Seq(Byte) /\ Len(new) = Len(cleared)
        /\ \A i \in 1 .. Len(cleared) :
             new[i] = IF i - (at + off) \in 1 .. Len(b) THEN b[i - (at + off)] ELSE cleared[i]
    BY <1>2, <1>4, PutBytes, ZenonT(60)
  <2> QED  BY <1>4, <2>1, Zenon
<1> HIDE DEF new
<1>6. \A i \in 1 .. Len(blk) : i - at \notin 1 .. 32 => new[i] = blk[i]
  BY <1>2, <1>4, <1>5
<1>7. \A k \in 1 .. 32 : new[at + k] = IF k - off \in 1 .. Len(b) THEN b[k - off] ELSE 0
  <2> SUFFICES ASSUME NEW k \in 1 .. 32
               PROVE  new[at + k] = IF k - off \in 1 .. Len(b) THEN b[k - off] ELSE 0
    OBVIOUS
  <2>1. at + k \in 1 .. Len(blk) /\ (at + k) - at = k /\ (at + k) - (at + off) = k - off
    BY <1>2
  <2> QED  BY <1>4, <1>5, <2>1
<1> QED  BY <1>1, <1>5, <1>6, <1>7 DEF at, Holds

\* A write is that of its value at its place, and RefAbi() its item.
LEMMA WriteOf ==
  ASSUME NEW items \in Nat, NEW w, IsWrite(w, items), NEW blk
  PROVE  /\ Encode(blk, w) = encode_at(blk, w.idx, Offset(w), w.val)
         /\ Offset(w) \in Nat /\ Offset(w) + Len(w.val) <= 32
<1> DEFINE n == Len(w.val)
<1>1. n \in Nat
  BY DEF IsWrite
<1>2. \/ w.kind = "uint" /\ n = 8
      \/ w.kind = "uint128" /\ n = 16
      \/ w.kind = "uint256" /\ n = 32
      \/ w.kind = "address" /\ n = 20
      \/ w.kind = "data" /\ n <= 32
  BY Zenon DEF IsWrite
<1>3. Offset(w) = IF w.kind = "data" THEN 0 ELSE 32 - n
  BY DEF Offset
<1> HIDE DEF n
<1>4. Offset(w) \in Nat /\ Offset(w) + n <= 32
  BY <1>1, <1>2, <1>3
<1>5. Encode(blk, w) = encode_at(blk, w.idx, Offset(w), w.val)
  <2> USE DEF Encode
  <2>1. CASE w.kind = "uint"
    <3>1. Offset(w) = 24
      BY <1>2, <1>3, <2>1
    <3> QED  BY <2>1, <3>1 DEF encode_uint
  <2>2. CASE w.kind = "uint128"
    <3>1. Offset(w) = 16
      BY <1>2, <1>3, <2>2
    <3> QED  BY <2>2, <3>1 DEF encode_uint128
  <2>3. CASE w.kind = "uint256"
    <3>1. Offset(w) = 0
      BY <1>2, <1>3, <2>3
    <3> QED  BY <2>3, <3>1 DEF encode_uint256
  <2>4. CASE w.kind = "address"
    <3>1. Offset(w) = 12
      BY <1>2, <1>3, <2>4
    <3> QED  BY <2>4, <3>1 DEF encode_address
  <2>5. CASE w.kind = "data"
    <3>1. Offset(w) = 0
      BY <1>3, <2>5
    <3> QED  BY <2>5, <3>1 DEF encode_data
  <2> HIDE DEF Encode
  <2> QED  BY <1>2, <2>1, <2>2, <2>3, <2>4, <2>5
<1> QED  BY <1>4, <1>5 DEF n

LEMMA ValueBytes ==
  ASSUME NEW items \in Nat, NEW w, IsWrite(w, items)
  PROVE  w.val \in Seq(Byte) /\ Len(w.val) \in 0 .. 32
<1> DEFINE val == w.val  m == Len(w.val)
<1>1. val \in Seq(Byte)
  BY DEF IsWrite
<1>2. m \in Nat
  BY <1>1
<1>3. m = 8 \/ m = 16 \/ m = 32 \/ m = 20 \/ m <= 32
  BY Zenon DEF IsWrite
<1> HIDE DEF val, m
<1>4. m \in 0 .. 32
  BY <1>2, <1>3
<1> QED  BY <1>1, <1>4 DEF val, m

LEMMA RefAbiBytes ==
  ASSUME NEW items \in Nat, NEW w, IsWrite(w, items)
  PROVE  /\ RefAbi(w) \in Seq(Byte) /\ Len(RefAbi(w)) = 32
         /\ \A k \in 1 .. 32 :
              RefAbi(w)[k] = IF k - Offset(w) \in 1 .. Len(w.val) THEN w.val[k - Offset(w)] ELSE 0
<1> DEFINE val == w.val  m == Len(w.val)  n == 32 - m  zeros == ZeroBytes(n)
<1>1. val \in Seq(Byte) /\ m \in 0 .. 32 /\ Len(val) = m
  BY ValueBytes
<1> HIDE DEF m
<1>2. n \in Nat /\ n + m = 32 /\ m + n = 32
  BY <1>1
<1>3. zeros \in Seq(Byte) /\ Len(zeros) = n /\ \A i \in 1 .. n : zeros[i] = 0
  BY <1>2, Zeroed
<1>4. RefAbi(w) = (IF w.kind = "data" THEN val \o zeros ELSE zeros \o val)
      /\ Offset(w) = IF w.kind = "data" THEN 0 ELSE n
  BY DEF RefAbi, Offset, m
<1> HIDE DEF val, n, zeros
<1>5. CASE w.kind = "data"
  <2>1. /\ val \o zeros \in Seq(Byte) /\ Len(val \o zeros) = Len(val) + Len(zeros)
        /\ \A i \in 1 .. Len(val) + Len(zeros) :
             (val \o zeros)[i] = IF i <= Len(val) THEN val[i] ELSE zeros[i - Len(val)]
    BY <1>1, <1>3, ConcatProperties, Zenon
  <2>2. \A i \in 1 .. 32 : (val \o zeros)[i] = IF i - 0 \in 1 .. m THEN val[i - 0] ELSE 0
    <3> SUFFICES ASSUME NEW i \in 1 .. 32
                 PROVE  (val \o zeros)[i] = IF i - 0 \in 1 .. m THEN val[i - 0] ELSE 0
      OBVIOUS
    <3>1. (val \o zeros)[i] = IF i <= m THEN val[i] ELSE zeros[i - m]
      BY <1>1, <1>2, <1>3, <2>1
    <3>2. i - 0 = i /\ (i - 0 \in 1 .. m <=> i <= m) /\ (~(i <= m) => i - m \in 1 .. n)
      BY <1>1, <1>2
    <3> QED  BY <1>3, <3>1, <3>2
  <2> QED  BY <1>1, <1>2, <1>3, <1>4, <1>5, <2>1, <2>2 DEF val, m
<1>6. CASE w.kind # "data"
  <2>1. /\ zeros \o val \in Seq(Byte) /\ Len(zeros \o val) = Len(zeros) + Len(val)
        /\ \A i \in 1 .. Len(zeros) + Len(val) :
             (zeros \o val)[i] = IF i <= Len(zeros) THEN zeros[i] ELSE val[i - Len(zeros)]
    BY <1>1, <1>3, ConcatProperties, Zenon
  <2>2. \A i \in 1 .. 32 : (zeros \o val)[i] = IF i - n \in 1 .. m THEN val[i - n] ELSE 0
    <3> SUFFICES ASSUME NEW i \in 1 .. 32
                 PROVE  (zeros \o val)[i] = IF i - n \in 1 .. m THEN val[i - n] ELSE 0
      OBVIOUS
    <3>1. (zeros \o val)[i] = IF i <= n THEN zeros[i] ELSE val[i - n]
      BY <1>1, <1>2, <1>3, <2>1
    <3>2. (i - n \in 1 .. m <=> ~(i <= n)) /\ (i <= n => i \in 1 .. n)
      BY <1>1, <1>2
    <3> QED  BY <1>3, <3>1, <3>2
  <2> QED  BY <1>1, <1>2, <1>3, <1>4, <1>6, <2>1, <2>2 DEF val, m
<1> QED  BY <1>5, <1>6

LEMMA PartBytes ==
  ASSUME NEW s \in Seq(Byte), NEW f \in Int, NEW l \in Int, 1 <= f, f <= l, l <= Len(s)
  PROVE  /\ SubSeq(s, f, l) \in Seq(Byte) /\ Len(SubSeq(s, f, l)) = l - f + 1
         /\ \A k \in 1 .. l - f + 1 : SubSeq(s, f, l)[k] = s[f + k - 1]
OBVIOUS

LEMMA ItemBytes ==
  ASSUME NEW items \in Nat, NEW blk \in Seq(Byte), Len(blk) = 32*items + 4,
         NEW i \in 0 .. items - 1
  PROVE  /\ Item(blk, i) \in Seq(Byte) /\ Len(Item(blk, i)) = 32
         /\ \A k \in 1 .. 32 : Item(blk, i)[k] = blk[32*i + 4 + k]
<1> DEFINE f == 32*i + 5  l == 32*i + 36
<1>1. f \in Int /\ l \in Int /\ f <= l /\ l - f + 1 = 32
      /\ \A k \in 1 .. 32 : f + k - 1 = 32*i + 4 + k
  OBVIOUS
<1>2. 1 <= f /\ l <= Len(blk) /\ Len(blk) \in Nat
  OBVIOUS
<1>3. Item(blk, i) = SubSeq(blk, f, l)
  BY DEF Item
<1> HIDE DEF f, l
<1>4. /\ SubSeq(blk, f, l) \in Seq(Byte)
      /\ Len(SubSeq(blk, f, l)) = l - f + 1
      /\ \A k \in 1 .. l - f + 1 : SubSeq(blk, f, l)[k] = blk[f + k - 1]
  BY <1>1, <1>2, PartBytes
<1> QED  BY <1>1, <1>3, <1>4

LEMMA SelectorBytes ==
  ASSUME NEW blk \in Seq(Byte), Len(blk) >= 4
  PROVE  /\ SubSeq(blk, 1, 4) \in Seq(Byte) /\ Len(SubSeq(blk, 1, 4)) = 4
         /\ \A k \in 1 .. 4 : SubSeq(blk, 1, 4)[k] = blk[k]
OBVIOUS

\* A write changes its item only.
LEMMA EncodeItem ==
  ASSUME NEW items \in Nat, NEW blk \in Seq(Byte), Len(blk) = 32*items + 4,
         NEW w, IsWrite(w, items)
  PROVE  /\ Encode(blk, w) \in Seq(Byte) /\ Len(Encode(blk, w)) = 32*items + 4
         /\ SubSeq(Encode(blk, w), 1, 4) = SubSeq(blk, 1, 4)
         /\ \A i \in 0 .. items - 1 :
              Item(Encode(blk, w), i) = IF i = w.idx THEN RefAbi(w) ELSE Item(blk, i)
<1> DEFINE new == Encode(blk, w)  idx == w.idx  off == Offset(w)  val == w.val
<1>1. idx \in 0 .. items - 1 /\ val \in Seq(Byte) /\ idx \in Nat
  BY DEF IsWrite
<1>2. new = encode_at(blk, idx, off, val) /\ off \in Nat /\ off + Len(val) <= 32
  BY WriteOf
<1>3. Len(blk) \in Nat /\ Len(blk) = 32*items + 4
  OBVIOUS
<1> HIDE DEF new, idx, off, val
<1>4. /\ new \in Seq(Byte) /\ Len(new) = Len(blk)
      /\ \A i \in 1 .. Len(blk) : i - (32*idx + 4) \notin 1 .. 32 => new[i] = blk[i]
      /\ \A k \in 1 .. 32 :
           new[32*idx + 4 + k] = IF k - off \in 1 .. Len(val) THEN val[k - off] ELSE 0
  <2>1. Holds(encode_at(blk, idx, off, val), blk, idx, off, val)
    BY <1>1, <1>2, <1>3, EncodeAt
  <2>2. Holds(new, blk, idx, off, val)
    BY <1>2, <2>1
  <2> QED  BY <2>2, Zenon DEF Holds
<1>5. SubSeq(new, 1, 4) = SubSeq(blk, 1, 4)
  <2>1. Len(blk) >= 4 /\ Len(new) >= 4
    BY <1>3, <1>4
  <2>2. \A k \in 1 .. 4 : k \in 1 .. Len(blk) /\ k - (32*idx + 4) \notin 1 .. 32
    BY <1>1, <1>3
  <2>3. \A k \in 1 .. 4 : new[k] = blk[k]
    BY <1>4, <2>2
  <2>4. \A k \in 1 .. 4 : SubSeq(new, 1, 4)[k] = SubSeq(blk, 1, 4)[k]
    BY <1>4, <2>1, <2>3, SelectorBytes
  <2> QED  BY <1>4, <2>1, <2>4, SelectorBytes, SeqEqual
<1>6. ASSUME NEW i \in 0 .. items - 1
      PROVE  Item(new, i) = IF i = idx THEN RefAbi(w) ELSE Item(blk, i)
  <2>1. /\ Item(new, i) \in Seq(Byte) /\ Len(Item(new, i)) = 32
        /\ \A k \in 1 .. 32 : Item(new, i)[k] = new[32*i + 4 + k]
    <3>1. new \in Seq(Byte) /\ Len(new) = 32*items + 4
      BY <1>4
    <3> QED  BY <3>1, ItemBytes, Zenon
  <2>2. CASE i = idx
    <3>1. /\ RefAbi(w) \in Seq(Byte) /\ Len(RefAbi(w)) = 32
          /\ \A k \in 1 .. 32 :
               RefAbi(w)[k] = IF k - off \in 1 .. Len(val) THEN val[k - off] ELSE 0
      BY RefAbiBytes DEF off, val
    <3>2. \A k \in 1 .. 32 : Item(new, i)[k] = RefAbi(w)[k]
      BY <1>4, <2>1, <2>2, <3>1
    <3>3. Item(new, i) = RefAbi(w)
      BY <2>1, <3>1, <3>2, SeqEqual, ZenonT(60)
    <3> QED  BY <2>2, <3>3
  <2>3. CASE i # idx
    <3>1. /\ Item(blk, i) \in Seq(Byte) /\ Len(Item(blk, i)) = 32
          /\ \A k \in 1 .. 32 : Item(blk, i)[k] = blk[32*i + 4 + k]
      BY ItemBytes
    <3>2. ASSUME NEW k \in 1 .. 32
          PROVE  Item(new, i)[k] = Item(blk, i)[k]
      <4> DEFINE j == 32*i + 4 + k
      <4>1. j \in 1 .. Len(blk)
        BY <1>3
      <4>2. j - (32*idx + 4) \notin 1 .. 32
        BY <1>1, <2>3
      <4> HIDE DEF j
      <4>3. new[j] = blk[j]
        BY <1>4, <4>1, <4>2
      <4> QED  BY <2>1, <3>1, <4>3 DEF j
    <3>3. Item(new, i) = Item(blk, i)
      BY <2>1, <3>1, <3>2, SeqEqual, ZenonT(60)
    <3> QED  BY <2>3, <3>3
  <2> QED  BY <2>2, <2>3
<1> QED  BY <1>3, <1>4, <1>5, <1>6 DEF new, idx

\* data_init() and data_set_selector()
LEMMA BlankCall ==
  ASSUME NEW items \in Nat, NEW selector \in Seq(Byte), Len(selector) = 4
  PROVE  LET blk == data_set_selector(data_init(items), selector)
         IN  /\ blk \in Seq(Byte) /\ Len(blk) = 32*items + 4
             /\ SubSeq(blk, 1, 4) = selector
             /\ \A i \in 0 .. items - 1 : Item(blk, i) = ZeroBytes(32)
<1> DEFINE n == 32*items + 4  zeros == ZeroBytes(n)  blk == Put(zeros, 0, selector)
<1>1. data_set_selector(data_init(items), selector) = blk
  BY DEF data_set_selector, data_init, compute_item_index
<1>2. n \in Nat /\ n >= 4
  OBVIOUS
<1>3. zeros \in Seq(Byte) /\ Len(zeros) = n /\ \A i \in 1 .. n : zeros[i] = 0
  BY <1>2, Zeroed
<1> HIDE DEF zeros
<1>4. /\ blk \in Seq(Byte) /\ Len(blk) = Len(zeros)
      /\ \A i \in 1 .. Len(zeros) :
           blk[i] = IF i - 0 \in 1 .. Len(selector) THEN selector[i - 0] ELSE zeros[i]
  <2>1. zeros \in Seq(Byte) /\ selector \in Seq(Byte) /\ 0 \in Nat
    BY <1>3
  <2> QED  BY <2>1, PutBytes, ZenonT(60)
<1> HIDE DEF blk
<1>5. \A k \in 1 .. 4 : blk[k] = selector[k]
  BY <1>2, <1>3, <1>4
<1>6. \A k \in 5 .. n : blk[k] = 0
  BY <1>2, <1>3, <1>4
<1>7. SubSeq(blk, 1, 4) = selector
  BY <1>2, <1>3, <1>4, <1>5, SelectorBytes, SeqEqual
<1>8. ASSUME NEW i \in 0 .. items - 1
      PROVE  Item(blk, i) = ZeroBytes(32)
  <2>1. /\ Item(blk, i) \in Seq(Byte) /\ Len(Item(blk, i)) = 32
        /\ \A k \in 1 .. 32 : Item(blk, i)[k] = blk[32*i + 4 + k]
    <3>1. blk \in Seq(Byte) /\ Len(blk) = 32*items + 4
      BY <1>3, <1>4
    <3> QED  BY <3>1, ItemBytes, Zenon
  <2>2. \A k \in 1 .. 32 : 32*i + 4 + k \in 5 .. n
    OBVIOUS
  <2>3. \A k \in 1 .. 32 : Item(blk, i)[k] = 0
    BY <1>6, <2>1, <2>2
  <2> DEFINE z == ZeroBytes(32)
  <2>4. z \in Seq(Byte) /\ Len(z) = 32 /\ \A k \in 1 .. 32 : z[k] = 0
    BY Zeroed
  <2> HIDE DEF z
  <2> DEFINE t == Item(blk, i)
  <2>5. t \in Seq(Byte) /\ Len(t) = 32 /\ \A k \in 1 .. 32 : t[k] = 0
    BY <2>1, <2>3
  <2> HIDE DEF t
  <2>6. Len(t) = Len(z) /\ \A k \in 1 .. Len(t) : t[k] = z[k]
    BY <2>4, <2>5
  <2>7. t = z
    BY <2>4, <2>5, <2>6, SeqEqual
  <2> QED  BY <2>7 DEF t, z
<1> QED  BY <1>1, <1>3, <1>4, <1>7, <1>8

\* After any two writes of data.c to a call of any number of items, each item
\* holds the last value written to it and nothing else, as the contract reads
\* it, and decode_data() and decode_uint() read it back.
THEOREM CalldataKept ==
  ASSUME NEW items \in Nat, NEW selector \in Seq(Byte), Len(selector) = 4,
         NEW first, IsWrite(first, items), NEW second, IsWrite(second, items)
  PROVE  CalldataExact(items, selector, first, second)
<1> DEFINE blank == data_set_selector(data_init(items), selector)
           once == Encode(blank, first)
           blk == Encode(once, second)
           idx == second.idx
<1>1. /\ blank \in Seq(Byte) /\ Len(blank) = 32*items + 4
      /\ SubSeq(blank, 1, 4) = selector
      /\ \A i \in 0 .. items - 1 : Item(blank, i) = ZeroBytes(32)
  BY BlankCall
<1> HIDE DEF blank
<1>2. /\ once \in Seq(Byte) /\ Len(once) = 32*items + 4
      /\ SubSeq(once, 1, 4) = SubSeq(blank, 1, 4)
      /\ \A i \in 0 .. items - 1 :
           Item(once, i) = IF i = first.idx THEN RefAbi(first) ELSE Item(blank, i)
  BY <1>1, EncodeItem
<1> HIDE DEF once
<1>3. /\ blk \in Seq(Byte) /\ Len(blk) = 32*items + 4
      /\ SubSeq(blk, 1, 4) = SubSeq(once, 1, 4)
      /\ \A i \in 0 .. items - 1 :
           Item(blk, i) = IF i = second.idx THEN RefAbi(second) ELSE Item(once, i)
  BY <1>2, EncodeItem
<1> HIDE DEF blk
<1>4. idx \in 0 .. items - 1
  BY DEF IsWrite
<1>5. Item(blk, idx) = RefAbi(second)
  BY <1>3, <1>4
<1>6. decode_data(blk, idx, 40) = Item(blk, idx) /\ decode_data(blk, idx, 32) = Item(blk, idx)
  <2>1. idx * 32 + 4 + 1 = 32*idx + 5 /\ idx * 32 + 4 + 32 = 32*idx + 36
    BY <1>4
  <2>2. decode_data(blk, idx, 40) = SubSeq(blk, idx * 32 + 4 + 1, idx * 32 + 4 + 32)
    BY DEF decode_data, compute_item_index
  <2>3. decode_data(blk, idx, 32) = SubSeq(blk, idx * 32 + 4 + 1, idx * 32 + 4 + 32)
    BY DEF decode_data, compute_item_index
  <2> QED  BY <2>1, <2>2, <2>3, Zenon DEF Item
<1>7. ASSUME second.kind = "uint"
      PROVE  decode_uint(blk, idx) = second.val
  <2> DEFINE val == second.val  ref == RefAbi(second)
  <2>1. val \in Seq(Byte) /\ Len(val) = 8
    BY <1>7 DEF IsWrite
  <2>2. decode_uint(blk, idx) = SubSeq(ref, 25, 32)
    BY <1>5, <1>6 DEF decode_uint
  <2>3. Offset(second) = 24
    BY <1>7, <2>1 DEF Offset
  <2>4. /\ ref \in Seq(Byte) /\ Len(ref) = 32
        /\ \A k \in 1 .. 32 :
             ref[k] = IF k - Offset(second) \in 1 .. Len(val) THEN val[k - Offset(second)] ELSE 0
    BY RefAbiBytes
  <2> HIDE DEF val, ref
  <2>5. ASSUME NEW k \in 1 .. 8
        PROVE  ref[24 + k] = val[k]
    <3> DEFINE j == 24 + k
    <3>1. j \in 1 .. 32 /\ j - 24 = k
      OBVIOUS
    <3> HIDE DEF j
    <3>2. ref[j] = val[k]
      BY <2>1, <2>3, <2>4, <3>1
    <3> QED  BY <3>2 DEF j
  <2>6. /\ SubSeq(ref, 25, 32) \in Seq(Byte) /\ Len(SubSeq(ref, 25, 32)) = 8
        /\ \A k \in 1 .. 8 : SubSeq(ref, 25, 32)[k] = ref[24 + k]
    <3> DEFINE f == 25  l == 32
    <3>1. f \in Int /\ l \in Int /\ 1 <= f /\ f <= l /\ l - f + 1 = 8 /\ l <= Len(ref)
          /\ \A k \in 1 .. 8 : f + k - 1 = 24 + k
      BY <2>4
    <3> HIDE DEF f, l
    <3>2. /\ SubSeq(ref, f, l) \in Seq(Byte) /\ Len(SubSeq(ref, f, l)) = l - f + 1
          /\ \A k \in 1 .. l - f + 1 : SubSeq(ref, f, l)[k] = ref[f + k - 1]
      BY <2>4, <3>1, PartBytes
    <3>3. /\ SubSeq(ref, f, l) \in Seq(Byte) /\ Len(SubSeq(ref, f, l)) = 8
          /\ \A k \in 1 .. 8 : SubSeq(ref, f, l)[k] = ref[24 + k]
      BY <3>1, <3>2
    <3> QED  BY <3>3 DEF f, l
  <2>7. SubSeq(ref, 25, 32) = val
    <3> DEFINE part == SubSeq(ref, 25, 32)
    <3>1. part \in Seq(Byte) /\ val \in Seq(Byte) /\ Len(part) = Len(val)
      BY <2>1, <2>6, Zenon
    <3>2. \A k \in 1 .. Len(part) : part[k] = val[k]
      BY <2>5, <2>6, Zenon
    <3> HIDE DEF part
    <3>3. part = val
      BY <3>1, <3>2, SeqEqual, ZenonT(60)
    <3> QED  BY <3>3 DEF part
  <2> QED  BY <2>2, <2>7 DEF val
<1>8. \A i \in 0 .. items - 1 :
        Item(blk, i) = IF i = second.idx THEN RefAbi(second)
                       ELSE IF i = first.idx THEN RefAbi(first) ELSE ZeroBytes(32)
  BY <1>1, <1>2, <1>3
<1>9. SubSeq(blk, 1, 4) = selector
  BY <1>1, <1>2, <1>3
<1> QED
  BY <1>3, <1>5, <1>6, <1>7, <1>8, <1>9, Zenon DEF CalldataExact, blk, once, blank

LEMMA BytesOf ==
  ASSUME NEW n \in Nat, NEW b \in [1 .. n -> Byte]
  PROVE  b \in Seq(Byte) /\ Len(b) = n
OBVIOUS

LEMMA RepeatBytes ==
  ASSUME NEW c \in Byte, NEW n \in Nat
  PROVE  Repeat(c, n) \in Seq(Byte) /\ Len(Repeat(c, n)) = n
<1>1. Repeat(c, n) \in [1 .. n -> Byte]
  BY DEF Repeat
<1> QED  BY <1>1, BytesOf

LEMMA WritesAreWrites ==
  ASSUME NEW w \in Writes
  PROVE  IsWrite(w, 3)
<1> DEFINE val == w.val
<1> USE DEF Writes
<1>1. w.idx \in 0 .. 3 - 1
  OBVIOUS
<1>2. CASE w.kind = "uint"
  <2>1. Eight(0, 0) \in Seq(Byte) /\ Len(Eight(0, 0)) = 8
        /\ Eight(1, 2) \in Seq(Byte) /\ Len(Eight(1, 2)) = 8
    BY DEF Eight, Byte
  <2>2. val = Eight(0, 0) \/ val = Eight(1, 2)
    BY <1>2
  <2> QED  BY <1>1, <1>2, <2>1, <2>2 DEF IsWrite
<1>3. CASE w.kind = "uint128"
  <2>1. Repeat(3, 16) \in Seq(Byte) /\ Len(Repeat(3, 16)) = 16
    <3>1. 3 \in Byte /\ 16 \in Nat
      BY DEF Byte
    <3> QED  BY <3>1, RepeatBytes, Zenon
  <2>2. val = Repeat(3, 16)
    BY <1>3
  <2> QED  BY <1>1, <1>3, <2>1, <2>2 DEF IsWrite
<1>4. CASE w.kind = "uint256"
  <2>1. [i \in 1 .. 31 |-> i] \in [1 .. 31 -> Byte] /\ <<4>> \in Seq(Byte) /\ Len(<<4>>) = 1
    BY DEF Byte
  <2>2. [i \in 1 .. 31 |-> i] \in Seq(Byte) /\ Len([i \in 1 .. 31 |-> i]) = 31
    BY <2>1
  <2>3. Half(4) \in Seq(Byte) /\ Len(Half(4)) = 32
    BY <2>1, <2>2, ConcatProperties DEF Half
  <2>4. val = Half(4)
    BY <1>4
  <2> QED  BY <1>1, <1>4, <2>3, <2>4 DEF IsWrite
<1>5. CASE w.kind = "address"
  <2>1. Addr \in [1 .. 20 -> Byte]
    BY DEF Addr, Byte
  <2>2. Addr \in Seq(Byte) /\ Len(Addr) = 20
    BY <2>1, BytesOf
  <2>3. val = Addr
    BY <1>5
  <2> QED  BY <1>1, <1>5, <2>2, <2>3 DEF IsWrite
<1>6. CASE w.kind = "data"
  <2>1. Repeat(8, 32) \in Seq(Byte) /\ Len(Repeat(8, 32)) = 32
    <3>1. 8 \in Byte /\ 32 \in Nat
      BY DEF Byte
    <3> QED  BY <3>1, RepeatBytes, Zenon
  <2>2. <<>> \in Seq(Byte) /\ Len(<<>>) = 0 /\ <<6, 5>> \in Seq(Byte) /\ Len(<<6, 5>>) = 2
    BY DEF Byte
  <2>3. val = <<>> \/ val = <<6, 5>> \/ val = Repeat(8, 32)
    BY <1>6
  <2> DEFINE m == Len(w.val)
  <2>4. val \in Seq(Byte) /\ (m = 32 \/ m = 0 \/ m = 2)
    BY <2>1, <2>2, <2>3, Zenon
  <2> HIDE DEF m
  <2>5. m <= 32
    BY <2>4
  <2> QED  BY <1>1, <1>6, <2>4, <2>5, Zenon DEF IsWrite, m
<1>7. w.kind \in {"uint", "uint128", "uint256", "address", "data"}
  OBVIOUS
<1> QED  BY <1>2, <1>3, <1>4, <1>5, <1>6, <1>7

\* The arguments of the subject "abi" are writes.
AbiTaken == subject = "abi" => arg = None \/ arg \in AbiArgs

\* The same of the calls the Data run takes for arguments.
THEOREM CalldataRead == Spec => []CalldataEncoded
<1>1. Init => AbiTaken
  BY DEF Init, AbiTaken
<1>2. AbiTaken /\ [Next]_vars => AbiTaken'
  BY DEF AbiTaken, Next, Take, Token, vars
<1>3. AbiTaken => CalldataEncoded
  <2> SUFFICES ASSUME subject = "abi", arg \in AbiArgs
               PROVE  CalldataExact(3, <<169, 5, 156, 187>>, arg.first, arg.second)
    BY DEF AbiTaken, CalldataEncoded, Of
  <2>1. IsWrite(arg.first, 3) /\ IsWrite(arg.second, 3)
    BY WritesAreWrites DEF AbiArgs
  <2>2. <<169, 5, 156, 187>> \in Seq(Byte) /\ Len(<<169, 5, 156, 187>>) = 4
    BY DEF Byte
  <2> QED  BY <2>1, <2>2, CalldataKept
<1> QED  BY <1>1, <1>2, <1>3, PTL DEF Spec

-----------------------------------------------------------------------------
(* The arithmetic of the runs, with words of two bits.                      *)

Narrow == INSTANCE Uint256_proof WITH W <- 2

LEMMA NarrowWords == Narrow!WordAssumption
BY DEF Narrow!WordAssumption

LEMMA SameWords ==
  /\ Narrow!Power = Small!Power
  /\ \A k : Narrow!Pow2(k) = Small!Pow2(k)
  /\ Narrow!Base = Small!Base
  /\ Narrow!HalfBase = Small!HalfBase
  /\ Narrow!Base128 = Small!Base128
  /\ Narrow!Base256 = Small!Base256
  /\ \A n : Narrow!Word(n) = Small!Word(n)
  /\ \A n, k : Narrow!Shl(n, k) = Small!Shl(n, k)
  /\ \A n, k : Narrow!Shr(n, k) = Small!Shr(n, k)
  /\ \A x : Narrow!UPPER(x) = Small!UPPER(x)
  /\ \A x : Narrow!LOWER(x) = Small!LOWER(x)
  /\ Narrow!Uint128 = Small!Uint128 /\ Narrow!Uint256 = Small!Uint256
  /\ \A x : Narrow!Value128(x) = Small!Value128(x)
  /\ \A x : Narrow!Value256(x) = Small!Value256(x)
  /\ \A n : Narrow!ToUint128(n) = Small!ToUint128(n)
  /\ \A n : Narrow!ToUint256(n) = Small!ToUint256(n)
  /\ Narrow!Clear128 = Small!Clear128
  /\ Narrow!Clear256 = Small!Clear256
  /\ Narrow!One128 = Small!One128
<1>1. Narrow!Power = Small!Power
  BY DEF Narrow!Power, Small!Power
<1>2. \A k : Narrow!Pow2(k) = Small!Pow2(k)
  BY <1>1 DEF Narrow!Pow2, Small!Pow2
<1>3. Narrow!Base = Small!Base
  BY <1>2 DEF Narrow!Base, Small!Base
<1>4. Narrow!HalfBase = Small!HalfBase
  BY <1>2 DEF Narrow!HalfBase, Small!HalfBase
<1>5. Narrow!Base128 = Small!Base128
  BY <1>3 DEF Narrow!Base128, Small!Base128
<1>6. Narrow!Base256 = Small!Base256
  BY <1>5 DEF Narrow!Base256, Small!Base256
<1>7. \A n : Narrow!Word(n) = Small!Word(n)
  BY <1>3 DEF Narrow!Word, Small!Word
<1>8. \A n, k : Narrow!Shl(n, k) = Small!Shl(n, k)
  BY <1>7, <1>2 DEF Narrow!Shl, Small!Shl
<1>9. \A n, k : Narrow!Shr(n, k) = Small!Shr(n, k)
  BY <1>2 DEF Narrow!Shr, Small!Shr
<1>10. \A x : Narrow!UPPER(x) = Small!UPPER(x)
  BY DEF Narrow!UPPER, Small!UPPER
<1>11. \A x : Narrow!LOWER(x) = Small!LOWER(x)
  BY DEF Narrow!LOWER, Small!LOWER
<1>12. Narrow!Uint128 = Small!Uint128 /\ Narrow!Uint256 = Small!Uint256
  BY <1>3 DEF Narrow!Uint128, Small!Uint128, Narrow!Uint256, Small!Uint256
<1>13. \A x : Narrow!Value128(x) = Small!Value128(x)
  BY <1>10, <1>3, <1>11 DEF Narrow!Value128, Small!Value128
<1>14. \A x : Narrow!Value256(x) = Small!Value256(x)
  BY <1>13, <1>10, <1>5, <1>11 DEF Narrow!Value256, Small!Value256
<1>15. \A n : Narrow!ToUint128(n) = Small!ToUint128(n)
  BY <1>7, <1>3 DEF Narrow!ToUint128, Small!ToUint128
<1>16. \A n : Narrow!ToUint256(n) = Small!ToUint256(n)
  BY <1>15, <1>5 DEF Narrow!ToUint256, Small!ToUint256
<1>17. Narrow!Clear128 = Small!Clear128
  BY DEF Narrow!Clear128, Small!Clear128
<1>18. Narrow!Clear256 = Small!Clear256
  BY <1>17 DEF Narrow!Clear256, Small!Clear256
<1>19. Narrow!One128 = Small!One128
  BY DEF Narrow!One128, Small!One128
<1> QED  BY <1>1, <1>2, <1>3, <1>4, <1>5, <1>6, <1>7, <1>8, <1>9, <1>10, <1>11, <1>12, <1>13, <1>14, <1>15, <1>16, <1>17, <1>18, <1>19

LEMMA SameOrder ==
  /\ \A x : Narrow!Zero128(x) <=> Small!Zero128(x)
  /\ \A x, y : Narrow!Equal128(x, y) <=> Small!Equal128(x, y)
  /\ \A x, y : Narrow!Equal256(x, y) <=> Small!Equal256(x, y)
  /\ \A x, y : Narrow!Gt128(x, y) <=> Small!Gt128(x, y)
  /\ \A x, y : Narrow!Gt256(x, y) <=> Small!Gt256(x, y)
  /\ \A x, y : Narrow!Gte256(x, y) <=> Small!Gte256(x, y)
  /\ \A b : Narrow!Bit(b) = Small!Bit(b)
<1>1. \A x : Narrow!Zero128(x) <=> Small!Zero128(x)
  BY SameWords DEF Narrow!Zero128, Small!Zero128
<1>2. \A x, y : Narrow!Equal128(x, y) <=> Small!Equal128(x, y)
  BY SameWords DEF Narrow!Equal128, Small!Equal128
<1>3. \A x, y : Narrow!Equal256(x, y) <=> Small!Equal256(x, y)
  BY <1>2, SameWords DEF Narrow!Equal256, Small!Equal256
<1>4. \A x, y : Narrow!Gt128(x, y) <=> Small!Gt128(x, y)
  BY SameWords DEF Narrow!Gt128, Small!Gt128
<1>5. \A x, y : Narrow!Gt256(x, y) <=> Small!Gt256(x, y)
  BY <1>2, <1>4, SameWords DEF Narrow!Gt256, Small!Gt256
<1>6. \A x, y : Narrow!Gte256(x, y) <=> Small!Gte256(x, y)
  BY <1>5, <1>3 DEF Narrow!Gte256, Small!Gte256
<1>7. \A b : Narrow!Bit(b) = Small!Bit(b)
  BY DEF Narrow!Bit, Small!Bit
<1> QED  BY <1>1, <1>2, <1>3, <1>4, <1>5, <1>6, <1>7

LEMMA SameSums ==
  /\ \A x, y : Narrow!Add128(x, y) = Small!Add128(x, y)
  /\ \A x, y : Narrow!Add256(x, y) = Small!Add256(x, y)
  /\ \A x, y : Narrow!Minus128(x, y) = Small!Minus128(x, y)
  /\ \A x, y : Narrow!Minus256(x, y) = Small!Minus256(x, y)
  /\ \A x, y : Narrow!Or128(x, y) = Small!Or128(x, y)
  /\ \A x, y : Narrow!Or256(x, y) = Small!Or256(x, y)
<1>1. \A x, y : Narrow!Add128(x, y) = Small!Add128(x, y)
  BY SameWords, SameOrder DEF Narrow!Add128, Small!Add128
<1>2. \A x, y : Narrow!Add256(x, y) = Small!Add256(x, y)
  BY <1>1, SameWords, SameOrder DEF Narrow!Add256, Small!Add256
<1>3. \A x, y : Narrow!Minus128(x, y) = Small!Minus128(x, y)
  BY SameWords, SameOrder DEF Narrow!Minus128, Small!Minus128
<1>4. \A x, y : Narrow!Minus256(x, y) = Small!Minus256(x, y)
  BY <1>3, SameWords, SameOrder DEF Narrow!Minus256, Small!Minus256
<1>5. \A x, y : Narrow!Or128(x, y) = Small!Or128(x, y)
  BY SameWords DEF Narrow!Or128, Small!Or128, Narrow!Or, Small!Or
<1>6. \A x, y : Narrow!Or256(x, y) = Small!Or256(x, y)
  BY <1>5, SameWords DEF Narrow!Or256, Small!Or256
<1> QED  BY <1>1, <1>2, <1>3, <1>4, <1>5, <1>6

LEMMA SameShifts ==
  /\ \A x, v : Narrow!Shiftl128(x, v) = Small!Shiftl128(x, v)
  /\ \A x, v : Narrow!Shiftr128(x, v) = Small!Shiftr128(x, v)
  /\ \A x, v : Narrow!Shiftl256(x, v) = Small!Shiftl256(x, v)
  /\ \A x, v : Narrow!Shiftr256(x, v) = Small!Shiftr256(x, v)
<1>1. \A x, v : Narrow!Shiftl128(x, v) = Small!Shiftl128(x, v)
  BY SameWords DEF Narrow!Shiftl128, Small!Shiftl128
<1>2. \A x, v : Narrow!Shiftr128(x, v) = Small!Shiftr128(x, v)
  BY SameWords DEF Narrow!Shiftr128, Small!Shiftr128
<1>3. \A x, v : Narrow!Shiftl256(x, v) = Small!Shiftl256(x, v)
  BY <1>1, <1>2, SameSums, SameWords DEF Narrow!Shiftl256, Small!Shiftl256
<1>4. \A x, v : Narrow!Shiftr256(x, v) = Small!Shiftr256(x, v)
  BY <1>2, <1>1, SameWords, SameSums DEF Narrow!Shiftr256, Small!Shiftr256
<1> QED  BY <1>1, <1>2, <1>3, <1>4

LEMMA SameBits ==
  /\ \A x : Narrow!Bits256(x) = Small!Bits256(x)
<1>0. Narrow!ShiftCount = Small!ShiftCount
  BY DEF Narrow!ShiftCount, Small!ShiftCount, Narrow!Uint128, Small!Uint128, Narrow!Base, Small!Base, Narrow!Pow2, Small!Pow2, Narrow!Power, Small!Power, Narrow!Zero128, Small!Zero128, Narrow!LOWER, Small!LOWER, Narrow!UPPER, Small!UPPER, Narrow!Shiftr128, Small!Shiftr128, Narrow!Shr, Small!Shr, Narrow!Shl, Small!Shl, Narrow!Word, Small!Word, Narrow!Clear128, Small!Clear128
<1>1. \A x : Narrow!Bits256(x) = Small!Bits256(x)
  BY <1>0, SameOrder, SameWords DEF Narrow!Bits256, Small!Bits256
<1> QED  BY <1>1

LEMMA SameProducts ==
  /\ \A x, y : Narrow!Mul128(x, y) = Small!Mul128(x, y)
  /\ \A z : Narrow!Digits(z) = Small!Digits(z)
  /\ \A x, y, k : Narrow!Sum64(x, y, k) = Small!Sum64(x, y, k)
  /\ \A x, y : Narrow!Mul256(x, y) = Small!Mul256(x, y)
<1>1. ASSUME NEW x, NEW y PROVE Narrow!Mul128(x, y) = Small!Mul128(x, y)
  <2> DEFINE
         narrow(k) ==
           LET halves(z) == <<Narrow!UPPER(z) \div Narrow!HalfBase, Narrow!UPPER(z) % Narrow!HalfBase,
                              Narrow!LOWER(z) \div Narrow!HalfBase, Narrow!LOWER(z) % Narrow!HalfBase>>
               products(i, j) == Narrow!Word(halves(x)[4 - i] * halves(y)[j + 1])
               high(i, j) == products(i, j) \div Narrow!HalfBase
               low(i, j) == products(i, j) % Narrow!HalfBase
           IN  Narrow!Word(Narrow!Column(k, high, low))
         small(k) ==
           LET halves(z) == <<Small!UPPER(z) \div Small!HalfBase, Small!UPPER(z) % Small!HalfBase,
                              Small!LOWER(z) \div Small!HalfBase, Small!LOWER(z) % Small!HalfBase>>
               products(i, j) == Small!Word(halves(x)[4 - i] * halves(y)[j + 1])
               high(i, j) == products(i, j) \div Small!HalfBase
               low(i, j) == products(i, j) % Small!HalfBase
           IN  Small!Word(Small!Column(k, high, low))
  <2>1. Narrow!Mul128(x, y)
          = Narrow!Add128(<<0, narrow(0)>>,
              Narrow!Add128(<<narrow(2), 0>>,
                Narrow!Add128(<<Narrow!Shl(narrow(3), 2 \div 2), 0>>,
                              <<narrow(1) \div Narrow!HalfBase, Narrow!Shl(narrow(1), 2 \div 2)>>)))
    BY Zenon DEF Narrow!Mul128
  <2>2. Small!Mul128(x, y)
          = Small!Add128(<<0, small(0)>>,
              Small!Add128(<<small(2), 0>>,
                Small!Add128(<<Small!Shl(small(3), 2 \div 2), 0>>,
                             <<small(1) \div Small!HalfBase, Small!Shl(small(1), 2 \div 2)>>)))
    BY Zenon DEF Small!Mul128
  <2>0. /\ Narrow!HalfBase = Small!HalfBase
        /\ \A n : Narrow!Word(n) = Small!Word(n)
        /\ Narrow!UPPER(x) = Small!UPPER(x) /\ Narrow!LOWER(x) = Small!LOWER(x)
        /\ Narrow!UPPER(y) = Small!UPPER(y) /\ Narrow!LOWER(y) = Small!LOWER(y)
    BY SameWords, Zenon
  <2>3. ASSUME NEW k PROVE narrow(k) = small(k)
    BY <2>0 DEF Narrow!Column, Small!Column
  <2> HIDE DEF narrow, small
  <2> QED  BY <2>1, <2>2, <2>3, SameWords, SameSums, Zenon
<1>2. \A z : Narrow!Digits(z) = Small!Digits(z)
  BY SameWords DEF Narrow!Digits, Small!Digits
<1>3. \A x, y, k : Narrow!Sum64(x, y, k) = Small!Sum64(x, y, k)
  BY <1>1, <1>2, SameWords DEF Narrow!Sum64, Small!Sum64, Narrow!Column, Small!Column
<1>4. \A x, y : Narrow!Mul256(x, y) = Small!Mul256(x, y)
  BY <1>3, SameShifts, SameWords, SameSums DEF Narrow!Mul256, Small!Mul256
<1> QED  BY <1>1, <1>2, <1>3, <1>4

LEMMA SameDivision ==
  /\ \A s : Narrow!Halved(s) = Small!Halved(s)
  /\ \A s : Narrow!Subtracted(s) = Small!Subtracted(s)
  /\ \A s, r : Narrow!Round(s, r) = Small!Round(s, r)
  /\ \A s : Narrow!Aligned(s) = Small!Aligned(s)
  /\ \A s, r : Narrow!Divided(s, r) = Small!Divided(s, r)
  /\ \A l, r, diffBits : Narrow!LongDivision(l, r, diffBits) = Small!LongDivision(l, r, diffBits)
  /\ \A l, r : Narrow!Divmod256(l, r) = Small!Divmod256(l, r)
<1>1. \A s : Narrow!Halved(s) = Small!Halved(s)
  BY SameShifts DEF Narrow!Halved, Small!Halved
<1>2. \A s : Narrow!Subtracted(s) = Small!Subtracted(s)
  BY SameOrder, SameSums DEF Narrow!Subtracted, Small!Subtracted
<1>3. \A s, r : Narrow!Round(s, r) = Small!Round(s, r)
  BY <1>1, <1>2, SameOrder DEF Narrow!Round, Small!Round
<1>4. \A s : Narrow!Aligned(s) = Small!Aligned(s)
  BY <1>1, SameOrder DEF Narrow!Aligned, Small!Aligned
<1>5. \A s, r : Narrow!Divided(s, r) = Small!Divided(s, r)
  <2>1. \A x, y : Narrow!Gt256(x, y) <=> Small!Gt256(x, y)
    BY SameOrder
  <2> QED  BY <2>1 DEF Narrow!Divided, Small!Divided
<1>6. \A l, r, diffBits : Narrow!LongDivision(l, r, diffBits) = Small!LongDivision(l, r, diffBits)
  <2>1. /\ Narrow!Clear256 = Small!Clear256
        /\ \A x, v : Narrow!Shiftl256(x, v) = Small!Shiftl256(x, v)
        /\ \A n : Narrow!ToUint256(n) = Small!ToUint256(n)
    BY SameWords, SameShifts
  <2> QED  BY <1>3, <1>4, <2>1, ZenonT(60) DEF Narrow!LongDivision, Small!LongDivision
<1>7. \A l, r : Narrow!Divmod256(l, r) = Small!Divmod256(l, r)
  BY <1>5, <1>6, SameOrder, SameWords, SameBits DEF Narrow!Divmod256, Small!Divmod256
<1> QED  BY <1>1, <1>2, <1>3, <1>4, <1>5, <1>6, <1>7

LEMMA SameProperties ==
  /\ \A x, y : Narrow!SumsExact(x, y) <=> Small!SumsExact(x, y)
  /\ \A x, bits : Narrow!ShiftsExact(x, bits) <=> Small!ShiftsExact(x, bits)
  /\ \A x, y : Narrow!ProductExact(x, y) <=> Small!ProductExact(x, y)
  /\ \A x, y : Narrow!DivisionExact(x, y) <=> Small!DivisionExact(x, y)
<1>1. \A x, y : Narrow!SumsExact(x, y) <=> Small!SumsExact(x, y)
  BY SameWords, SameSums, SameOrder DEF Narrow!SumsExact, Small!SumsExact
<1>2. \A x, bits : Narrow!ShiftsExact(x, bits) <=> Small!ShiftsExact(x, bits)
  BY SameWords, SameShifts DEF Narrow!ShiftsExact, Small!ShiftsExact
<1>3. \A x, y : Narrow!ProductExact(x, y) <=> Small!ProductExact(x, y)
  BY SameWords, SameProducts DEF Narrow!ProductExact, Small!ProductExact
<1>4. \A x, y : Narrow!DivisionExact(x, y) <=> Small!DivisionExact(x, y)
  BY SameWords, SameDivision DEF Narrow!DivisionExact, Small!DivisionExact
<1> QED  BY <1>1, <1>2, <1>3, <1>4

\* The arguments of the subjects "word" and "power" are numbers.
NumbersTaken ==
  /\ subject = "word" => arg = None \/ arg \in Words
  /\ subject = "power" => arg = None \/ arg \in Powers

\* uint256.c and ipow() compute as integers do.
THEOREM ArithmeticKept == Spec => []ArithmeticExact
<1>1. Init => NumbersTaken
  BY DEF Init, NumbersTaken
<1>2. NumbersTaken /\ [Next]_vars => NumbersTaken'
  BY DEF NumbersTaken, Next, Take, Token, vars
<1>3. NumbersTaken => ArithmeticExact
  <2>1. ASSUME arg \in Words
        PROVE  /\ Small!SumsExact(arg.x, arg.y)
               /\ Small!ShiftsExact(arg.x, Small!Value256(arg.y))
               /\ Small!ProductExact(arg.x, arg.y)
               /\ Small!DivisionExact(arg.x, arg.y)
    <3> DEFINE x == arg.x  y == arg.y
    <3>1. x \in Narrow!Uint256 /\ y \in Narrow!Uint256
      <4>1. x \in Small!Uint256 /\ \E n \in Nat : y = Small!ToUint256(n)
        BY <2>1 DEF Words
      <4>2. \A n \in Nat : Narrow!ToUint256(n) \in Narrow!Uint256
        BY NarrowWords, Narrow!ToUint256Is
      <4>3. Narrow!Uint256 = Small!Uint256 /\ \A n : Narrow!ToUint256(n) = Small!ToUint256(n)
        BY SameWords
      <4> QED  BY <4>1, <4>2, <4>3
    <3>2. Narrow!Value256(y) \in Nat
      BY <3>1, NarrowWords, Narrow!ValueNat
    <3> HIDE DEF x, y
    <3>3. /\ Narrow!SumsExact(x, y) /\ Narrow!ShiftsExact(x, Narrow!Value256(y))
          /\ Narrow!ProductExact(x, y) /\ Narrow!DivisionExact(x, y)
      BY <3>1, <3>2, NarrowWords, Narrow!CarriesExact, Narrow!ShiftsAreExact,
         Narrow!ProductsAreExact, Narrow!DivisionsAreExact
    <3>4. Narrow!Value256(y) = Small!Value256(y)
      BY SameWords
    <3> QED  BY <3>3, <3>4, SameProperties DEF x, y
  <2>2. ASSUME arg \in Powers PROVE PowerExact(arg.base, arg.exp)
    <3>1. arg.base \in Nat /\ arg.exp \in Nat
      BY <2>2 DEF Powers
    <3> QED  BY <3>1, PowersAreExact
  <2> QED  BY <2>1, <2>2 DEF NumbersTaken, ArithmeticExact, Of
<1> QED  BY <1>1, <1>2, <1>3, PTL DEF Spec

-----------------------------------------------------------------------------
(* The encoding of a transaction.                                           *)

\* The bytes of a length mean the length, so no two lengths share them.
ByteBody(f, n) == IF n = 0 THEN <<>> ELSE Append(f[n \div 256], n % 256)

LEMMA ByteShift ==
  ASSUME NEW n \in Nat
  PROVE  /\ n \div 256 \in Nat /\ n % 256 \in Nat /\ n = (n \div 256) * 256 + (n % 256)
         /\ n # 0 => n \div 256 < n
BY ShiftBy, 256 \in Nat, 256 > 1

LEMMA ByteStringDef ==
  /\ ByteString \in [Nat -> Seq(Nat)]
  /\ \A n \in Nat : ByteString[n] = ByteBody(ByteString, n)
<1> DEFINE S == Seq(Nat)
           D == Nat
           m == [n \in D |-> n]
           F == [q \in D \X [D -> S] |-> ByteBody(q[2], q[1])]
<1>0. <<>> \in Seq(Nat)
  OBVIOUS
<1>1. \A n \in D : n \div 256 \in D /\ n % 256 \in Nat /\ (n # 0 => n \div 256 < n)
  BY ByteShift
<1>2. F \in [D \X [D -> S] -> S]
  <2> SUFFICES ASSUME NEW x \in D, NEW g \in [D -> S]
               PROVE  ByteBody(g, x) \in S
    OBVIOUS
  <2>1. g[x \div 256] \in S
    BY <1>1
  <2>2. Append(g[x \div 256], x % 256) \in S
    BY <1>1, <2>1, AppendProperties
  <2>3. <<>> \in S
    BY <1>0
  <2> QED  BY <2>2, <2>3 DEF ByteBody
<1>3. ASSUME NEW x \in D, NEW g \in [D -> S], NEW h \in [D -> S],
             \A y \in D : m[y] < m[x] => g[y] = h[y]
      PROVE  F[<<x, g>>] = F[<<x, h>>]
  <2>1. x # 0 => g[x \div 256] = h[x \div 256]
    BY <1>1, <1>3
  <2>2. ByteBody(g, x) = ByteBody(h, x)
    BY <2>1 DEF ByteBody
  <2> QED  BY <2>2
<1>4. m \in [D -> Nat] /\ S # {}
  BY <1>0
<1>5. Descends(D, S, m, F)
  <2>1. \A x \in D, g, h \in [D -> S] :
          (\A y \in D : m[y] < m[x] => g[y] = h[y]) => F[<<x, g>>] = F[<<x, h>>]
    BY <1>3
  <2> HIDE DEF S, D, m, F
  <2> QED  BY <1>2, <1>4, <2>1 DEF Descends
<1>6. PICK f : Solves(f, D, S, F)
  <2> HIDE DEF S, D, m, F
  <2> QED  BY <1>4, <1>5, Recursion
<1>7. f \in [D -> S] /\ \A n \in D : f[n] = ByteBody(f, n)
  BY <1>6 DEF Solves
<1>8. f = [n \in D |-> ByteBody(f, n)]
  BY <1>7
<1>9. ByteString = [n \in D |-> ByteBody(ByteString, n)]
  BY <1>8, ZenonT(60) DEF ByteString, ByteBody
<1>10. ASSUME NEW n \in D PROVE ByteString[n] \in S
  <2> DEFINE P == {k \in D : ByteString[k] \in S}
  <2>1. ASSUME NEW x \in D, \A y \in D : m[y] < m[x] => y \in P PROVE x \in P
    <3>1. ByteString[x] = ByteBody(ByteString, x)
      BY <1>9
    <3>2. CASE x = 0
      BY <1>0, <3>1, <3>2 DEF ByteBody
    <3>3. CASE x # 0
      <4>1. ByteString[x \div 256] \in S
        BY <1>1, <2>1, <3>3
      <4>2. Append(ByteString[x \div 256], x % 256) \in S
        BY <1>1, <4>1, AppendProperties
      <4> QED  BY <3>1, <3>3, <4>2 DEF ByteBody
    <3> QED  BY <3>2, <3>3
  <2>2. \A x \in D : (\A y \in D : m[y] < m[x] => y \in P) => x \in P
    BY <2>1
  <2>3. P \in SUBSET D
    OBVIOUS
  <2> HIDE DEF P, D, m, S
  <2>4. \A x \in D : x \in P
    BY <1>4, <2>2, <2>3, MeasureInduct
  <2> QED  BY <2>4 DEF P
<1> QED  BY <1>9, <1>10

LEMMA ByteStringMeans ==
  ASSUME NEW n \in Nat
  PROVE  /\ ByteString[n] \in Seq(Nat) /\ NumberOf(ByteString[n], 256) = n
         /\ n # 0 => Len(ByteString[n]) \in Nat \ {0}
<1> DEFINE D == Nat  m == [k \in D |-> k]  P == {k \in D : NumberOf(ByteString[k], 256) = k}
<1>1. ASSUME NEW x \in Nat, \A y \in Nat : m[y] < m[x] => y \in P PROVE x \in P
  <2> DEFINE s == ByteString[x \div 256]
  <2>1. /\ x \div 256 \in Nat /\ x % 256 \in Nat /\ x = (x \div 256) * 256 + (x % 256)
        /\ (x # 0 => x \div 256 < x)
    BY ByteShift
  <2>2. ByteString[x] = ByteBody(ByteString, x) /\ s \in Seq(Nat)
    BY <2>1, ByteStringDef
  <2>3. CASE x = 0
    <3>1. ByteString[x] = <<>>
      BY <2>2, <2>3 DEF ByteBody
    <3> QED  BY <2>3, <3>1, NumberEmpty, 256 \in Nat
  <2>4. CASE x # 0
    <3>1. ByteString[x] = Append(s, x % 256)
      BY <2>2, <2>4 DEF ByteBody
    <3>2. NumberOf(s, 256) = x \div 256
      BY <1>1, <2>1, <2>4
    <3> DEFINE d == x % 256
    <3>3. d \in Nat /\ s \in Seq(Nat) /\ 256 \in Nat
      BY <2>1, <2>2
    <3> HIDE DEF d, s
    <3>4. NumberOf(Append(s, d), 256) = NumberOf(s, 256) * 256 + d
      BY <3>3, NumberAppend
    <3> DEFINE e == x \div 256
    <3>5. x = e * 256 + d /\ NumberOf(s, 256) = e /\ ByteString[x] = Append(s, d)
      BY <2>1, <3>1, <3>2, Zenon DEF d
    <3> HIDE DEF e
    <3>6. NumberOf(ByteString[x], 256) = x
      BY <3>4, <3>5
    <3> QED  BY <3>6
  <2> QED  BY <2>3, <2>4
<1>2. \A x \in D : (\A y \in D : m[y] < m[x] => y \in P) => x \in P
  BY <1>1
<1>3. P \in SUBSET D /\ m \in [D -> Nat]
  OBVIOUS
<1>4. n \in P
  <2> HIDE DEF P, m, D
  <2>1. \A x \in D : x \in P
    BY <1>2, <1>3, MeasureInduct
  <2> QED  BY <2>1 DEF D
<1>5. ByteString[n] \in Seq(Nat)
  BY ByteStringDef
<1>6. ASSUME n # 0 PROVE Len(ByteString[n]) # 0
  <2>1. ByteString[n] # <<>>
    BY <1>4, <1>6, NumberEmpty, 256 \in Nat
  <2> QED  BY <1>5, <2>1
<1> QED  BY <1>4, <1>5, <1>6

LEMMA SmallByteString ==
  ASSUME NEW n \in 1 .. 255
  PROVE  ByteString[n] = <<n>>
<1>1. n \div 256 = 0 /\ n % 256 = n /\ n \in Nat /\ 0 \in Nat /\ n # 0
  OBVIOUS
<1>2. ByteString[n] = ByteBody(ByteString, n) /\ ByteString[0] = ByteBody(ByteString, 0)
  BY <1>1, ByteStringDef
<1>3. ByteString[n] = Append(ByteString[0], n) /\ ByteString[0] = <<>>
  BY <1>1, <1>2 DEF ByteBody
<1> QED  BY <1>3

-----------------------------------------------------------------------------
(* The pieces a transaction is put together from.                           *)

\* A sequence of known length in front of another
LEMMA ConcatSplit ==
  ASSUME NEW a \in Seq(Nat), NEW b \in Seq(Nat), NEW r \in Seq(Nat), NEW t \in Seq(Nat),
         Len(a) = Len(b), a \o r = b \o t
  PROVE  a = b /\ r = t
<1> DEFINE c == a \o r  e == b \o t  n == Len(a)
<1>1. /\ c \in Seq(Nat) /\ Len(c) = n + Len(r)
      /\ \A i \in 1 .. n + Len(r) : c[i] = IF i <= n THEN a[i] ELSE r[i - n]
  BY ConcatProperties
<1>2. \A i \in 1 .. Len(b) + Len(t) : e[i] = IF i <= Len(b) THEN b[i] ELSE t[i - Len(b)]
  BY ConcatProperties
<1>3. c = e /\ n = Len(b) /\ n \in Nat /\ Len(r) \in Nat /\ Len(t) \in Nat
  OBVIOUS
<1> HIDE DEF c, e, n
<1>4. \A i \in 1 .. n : a[i] = b[i]
  <2> SUFFICES ASSUME NEW i \in 1 .. n PROVE a[i] = b[i]
    OBVIOUS
  <2>1. i \in 1 .. n + Len(r) /\ i \in 1 .. n + Len(t) /\ i <= n
    BY <1>3
  <2>2. c[i] = a[i] /\ e[i] = b[i]
    BY <1>1, <1>2, <1>3, <2>1
  <2> QED  BY <1>3, <2>2
<1>5. a = b
  BY <1>3, <1>4, SeqEqual DEF n
<1>6. a \o r = a \o t
  BY <1>5
<1> QED  BY <1>5, <1>6, ConcatSimplifications

\* The number of the length of the data, not empty
LEMMA SizeIs ==
  ASSUME NEW n \in Nat \ {0}
  PROVE  ByteString[n] \in Seq(Nat) /\ Len(ByteString[n]) \in Nat \ {0}
BY ByteStringMeans

\* The first bytes of an item, by which its end is known.
Head1(b) == IF Len(b) = 1 /\ b[1] < 128 THEN <<>>
            ELSE IF Len(b) <= 55 THEN <<128 + Len(b)>>
            ELSE <<183 + Len(ByteString[Len(b)])>> \o ByteString[Len(b)]

LEMMA RefItemIs ==
  ASSUME NEW b \in Seq(Nat)
  PROVE  /\ Head1(b) \in Seq(Nat) /\ RefItem(b) = Head1(b) \o b
         /\ RefItem(b) \in Seq(Nat) /\ Len(RefItem(b)) = Len(Head1(b)) + Len(b)
<1> DEFINE n == Len(b)  h == Head1(b)
<1>1. n \in Nat
  OBVIOUS
<1>2. CASE n = 1 /\ b[1] < 128
  <2>1. h = <<>> /\ RefItem(b) = b
    BY <1>2 DEF Head1, RefItem
  <2> QED  BY <2>1
<1>3. CASE ~(n = 1 /\ b[1] < 128) /\ n <= 55
  <2>1. h = <<128 + n>> /\ RefItem(b) = <<128 + n>> \o b
    BY <1>3 DEF Head1, RefItem
  <2> HIDE DEF h, n
  <2>2. h \in Seq(Nat) /\ RefItem(b) = h \o b
    BY <1>1, <2>1
  <2> QED  BY <2>2, ConcatProperties DEF h
<1>4. CASE ~(n = 1 /\ b[1] < 128) /\ ~(n <= 55)
  <2> DEFINE s == ByteString[n]
  <2>1. s \in Seq(Nat) /\ Len(s) \in Nat
    BY <1>1, <1>4, SizeIs
  <2>2. h = <<183 + Len(s)>> \o s /\ RefItem(b) = <<183 + Len(s)>> \o s \o b
    BY <1>4 DEF Head1, RefItem
  <2> HIDE DEF h, n, s
  <2>3. <<183 + Len(s)>> \in Seq(Nat)
    BY <2>1
  <2>4. h \in Seq(Nat) /\ RefItem(b) = h \o b
    BY <2>1, <2>2, <2>3, ConcatProperties
  <2> QED  BY <2>4, ConcatProperties DEF h
<1> QED  BY <1>2, <1>3, <1>4

Single(b) == Len(b) = 1 /\ b[1] < 128
Long(b) == Len(b) > 55

LEMMA Assoc ==
  ASSUME NEW a \in Seq(Nat), NEW b \in Seq(Nat), NEW c \in Seq(Nat)
  PROVE  (a \o b) \o c = a \o (b \o c)
BY ConcatAssociative

LEMMA ConsIs ==
  ASSUME NEW c \in Nat, NEW s \in Seq(Nat)
  PROVE  /\ <<c>> \in Seq(Nat) /\ Len(<<c>>) = 1 /\ <<c>> \o s \in Seq(Nat)
         /\ Len(<<c>> \o s) = 1 + Len(s) /\ (<<c>> \o s)[1] = c
<1>1. <<c>> \in Seq(Nat) /\ Len(<<c>>) = 1 /\ <<c>>[1] = c
  OBVIOUS
<1> DEFINE d == <<c>>
<1> HIDE DEF d
<1>2. /\ d \o s \in Seq(Nat) /\ Len(d \o s) = Len(d) + Len(s)
      /\ \A i \in 1 .. Len(d) + Len(s) : (d \o s)[i] = IF i <= Len(d) THEN d[i] ELSE s[i - Len(d)]
  BY <1>1, ConcatProperties DEF d
<1>3. Len(d) = 1 /\ d[1] = c /\ Len(s) \in Nat
  BY <1>1 DEF d
<1>4. (d \o s)[1] = c
  BY <1>2, <1>3
<1> QED  BY <1>1, <1>2, <1>3, <1>4 DEF d

\* What the first bytes are in each of the three cases
LEMMA HeadIs ==
  ASSUME NEW b \in Seq(Nat)
  PROVE  /\ Single(b) => Head1(b) = <<>> /\ ~Long(b)
         /\ ~Single(b) /\ ~Long(b) => Head1(b) = <<128 + Len(b)>> \o <<>>
         /\ Long(b) => /\ ~Single(b) /\ Len(b) \in Nat \ {0}
                       /\ Head1(b) = <<183 + Len(ByteString[Len(b)])>> \o ByteString[Len(b)]
<1> DEFINE n == Len(b)
<1>1. n \in Nat
  OBVIOUS
<1>2. Single(b) => n = 1
  BY DEF Single
<1>3. Long(b) <=> n > 55
  BY DEF Long
<1>4. /\ Single(b) => ~Long(b)
      /\ Long(b) => ~Single(b) /\ n \in Nat \ {0}
  <2> HIDE DEF n
  <2> QED  BY <1>1, <1>2, <1>3
<1>5. Head1(b) = IF Single(b) THEN <<>> ELSE IF n <= 55 THEN <<128 + n>>
                 ELSE <<183 + Len(ByteString[n])>> \o ByteString[n]
  BY Zenon DEF Head1, Single
<1>6. n <= 55 <=> ~Long(b)
  <2> HIDE DEF n
  <2> QED  BY <1>1, <1>3
<1>7. <<128 + n>> = <<128 + n>> \o <<>>
  BY <1>1
<1> QED  BY <1>4, <1>5, <1>6, <1>7, Zenon

\* The first byte tells which of the three an item is.
FirstTells(b, c) ==
  /\ Single(b) => c < 128
  /\ ~Single(b) /\ ~Long(b) => c = 128 + Len(b) /\ c >= 128 /\ c <= 183
  /\ Long(b) => c = 183 + Len(ByteString[Len(b)]) /\ c > 183

LEMMA FirstByte ==
  ASSUME NEW b \in Seq(Nat), NEW r \in Seq(Nat)
  PROVE  FirstTells(b, (RefItem(b) \o r)[1])
<1> DEFINE e == RefItem(b) \o r  h == Head1(b)  n == Len(b)
<1>1. h \in Seq(Nat) /\ RefItem(b) = h \o b /\ n \in Nat /\ b \o r \in Seq(Nat)
  BY RefItemIs, Joined2
<1>2. e = h \o (b \o r)
  <2> HIDE DEF h
  <2>1. (h \o b) \o r = h \o (b \o r)
    BY <1>1, Assoc
  <2> QED  BY <1>1, <2>1
<1> HIDE DEF e, h, n
<1>3. ASSUME NEW c \in Nat, NEW s \in Seq(Nat), h = <<c>> \o s PROVE e[1] = c
  <2> DEFINE u == s \o (b \o r)
  <2>1. <<c>> \in Seq(Nat) /\ u \in Seq(Nat)
    BY <1>1, <1>3, Joined2, ConsIs
  <2>2. e = <<c>> \o u
    <3> DEFINE d == <<c>>  v == b \o r
    <3>1. d \in Seq(Nat) /\ s \in Seq(Nat) /\ v \in Seq(Nat)
      BY <1>1, <1>3, <2>1
    <3>2. e = (d \o s) \o v
      BY <1>2, <1>3
    <3> HIDE DEF d, v
    <3>3. (d \o s) \o v = d \o (s \o v)
      BY <3>1, Assoc, ZenonT(60)
    <3> QED  BY <3>2, <3>3 DEF d, v
  <2> HIDE DEF u
  <2> QED  BY <2>1, <2>2, ConsIs
<1>4. CASE Single(b)
  <2>1. h = <<>> /\ ~Long(b)
    BY <1>4, HeadIs DEF h
  <2>2. e = b \o r
    BY <1>1, <1>2, <2>1, ConcatEmptySeq
  <2>3. Len(b) = 1 /\ b[1] < 128
    BY <1>4 DEF Single
  <2>4. e[1] = b[1]
    <3>1. 1 \in 1 .. Len(b) + Len(r)
      BY <2>3
    <3>2. (b \o r)[1] = IF 1 <= Len(b) THEN b[1] ELSE r[1 - Len(b)]
      BY <3>1, ConcatProperties
    <3> QED  BY <2>2, <2>3, <3>2
  <2> QED  BY <1>4, <2>1, <2>3, <2>4 DEF FirstTells, e
<1>5. CASE ~Single(b) /\ ~Long(b)
  <2>1. h = <<128 + n>> \o <<>>
    BY <1>5, HeadIs DEF h, n
  <2>2. 128 + n \in Nat /\ <<>> \in Seq(Nat)
    BY <1>1
  <2>3. e[1] = 128 + n
    BY <1>3, <2>1, <2>2
  <2>4. ~(n > 55)
    BY <1>5 DEF Long, n
  <2>5. 128 + n >= 128 /\ 128 + n <= 183
    BY <1>1, <2>4
  <2> QED  BY <1>5, <2>3, <2>5 DEF FirstTells, e, n
<1>6. CASE Long(b)
  <2> DEFINE s == ByteString[n]
  <2>1. n \in Nat \ {0} /\ ~Single(b) /\ h = <<183 + Len(s)>> \o s
    BY <1>6, HeadIs DEF h, n
  <2>2. s \in Seq(Nat) /\ Len(s) \in Nat \ {0}
    BY <2>1, SizeIs
  <2> HIDE DEF s
  <2>3. 183 + Len(s) \in Nat /\ 183 + Len(s) > 183
    BY <2>2
  <2>4. e[1] = 183 + Len(s)
    BY <1>3, <2>1, <2>2, <2>3
  <2> QED  BY <1>6, <2>1, <2>3, <2>4 DEF FirstTells, e, n, s
<1> QED  BY <1>4, <1>5, <1>6

\* So two items with the same first byte have the same kind and, but for long
\* ones, the same length.
LEMMA SameKind ==
  ASSUME NEW a \in Seq(Nat), NEW b \in Seq(Nat), NEW c \in Nat, FirstTells(a, c), FirstTells(b, c)
  PROVE  /\ Single(a) <=> Single(b)
         /\ Long(a) <=> Long(b)
         /\ ~Single(a) /\ ~Long(a) => Len(a) = Len(b)
         /\ Long(a) => Len(ByteString[Len(a)]) = Len(ByteString[Len(b)])
<1> DEFINE n == Len(a)  m == Len(b)  s == Len(ByteString[n])  u == Len(ByteString[m])
           p == Single(a)  q == Single(b)  x == Long(a)  y == Long(b)
<1>1. n \in Nat /\ m \in Nat
  OBVIOUS
<1>2. /\ x => ~p /\ n \in Nat \ {0}
      /\ y => ~q /\ m \in Nat \ {0}
  BY HeadIs
<1>3. /\ x => s \in Nat
      /\ y => u \in Nat
  BY <1>2, SizeIs
<1>4. /\ p => c < 128
      /\ ~p /\ ~x => c = 128 + n /\ c >= 128 /\ c <= 183
      /\ x => c = 183 + s /\ c > 183
  BY DEF FirstTells
<1>5. /\ q => c < 128
      /\ ~q /\ ~y => c = 128 + m /\ c >= 128 /\ c <= 183
      /\ y => c = 183 + u /\ c > 183
  BY DEF FirstTells
<1>6. p \in BOOLEAN /\ q \in BOOLEAN /\ x \in BOOLEAN /\ y \in BOOLEAN
  BY DEF Single, Long
<1> HIDE DEF n, m, s, u, p, q, x, y
<1>7. p = q /\ x = y
  BY <1>2, <1>4, <1>5, <1>6
<1>8. ~p /\ ~x => n = m
  BY <1>1, <1>4, <1>5, <1>7
<1>9. x => s = u
  BY <1>3, <1>4, <1>5, <1>7
<1> QED  BY <1>7, <1>8, <1>9 DEF n, m, s, u, p, q, x, y

\* An item is followed by what follows it.
LEMMA PrefixFree ==
  ASSUME NEW a \in Seq(Nat), NEW b \in Seq(Nat), NEW r \in Seq(Nat), NEW t \in Seq(Nat),
         RefItem(a) \o r = RefItem(b) \o t
  PROVE  a = b /\ r = t
<1> DEFINE e == RefItem(a) \o r  g == Head1(a)  h == Head1(b)
<1>1. /\ g \in Seq(Nat) /\ RefItem(a) = g \o a /\ RefItem(a) \in Seq(Nat)
      /\ h \in Seq(Nat) /\ RefItem(b) = h \o b /\ RefItem(b) \in Seq(Nat)
      /\ a \o r \in Seq(Nat) /\ b \o t \in Seq(Nat)
  BY RefItemIs, Joined2
<1>2. e = g \o (a \o r) /\ e = h \o (b \o t)
  <2> HIDE DEF g, h
  <2>0. g \in Seq(Nat) /\ h \in Seq(Nat)
    BY <1>1
  <2>1. (g \o a) \o r = g \o (a \o r)
    BY <2>0, Assoc, ZenonT(60)
  <2>2. (h \o b) \o t = h \o (b \o t)
    BY <2>0, Assoc, ZenonT(60)
  <2> QED  BY <1>1, <2>1, <2>2
<1>3. FirstTells(a, e[1]) /\ FirstTells(b, e[1])
  BY FirstByte
<1>4. e[1] \in Nat
  <2>1. e \in Seq(Nat) /\ e # <<>>
    <3>1. e \in Seq(Nat) /\ Len(e) = Len(RefItem(a)) + Len(r) /\ Len(r) \in Nat
      BY <1>1, Joined2
    <3>2. Len(RefItem(a)) > 0
      <4>1. Single(a) => Len(a) = 1
        BY DEF Single
      <4>2. Len(RefItem(a)) = Len(g) + Len(a) /\ Len(g) \in Nat /\ Len(a) \in Nat
        BY <1>1, RefItemIs
      <4>3. ASSUME ~Single(a) PROVE Len(g) > 0
        <5>1. CASE Long(a)
          <6> DEFINE s == ByteString[Len(a)]  c == 183 + Len(s)
          <6>1. Len(a) \in Nat \ {0} /\ g = <<c>> \o s
            BY <5>1, HeadIs
          <6>2. s \in Seq(Nat) /\ Len(s) \in Nat
            BY <6>1, SizeIs
          <6> HIDE DEF s, g
          <6>3. c \in Nat
            BY <6>2
          <6> HIDE DEF c
          <6> QED  BY <6>1, <6>2, <6>3, ConsIs
        <5>2. CASE ~Long(a)
          <6> DEFINE c == 128 + Len(a)  s == <<>>
          <6>1. c \in Nat /\ s \in Seq(Nat) /\ Len(s) = 0
            OBVIOUS
          <6>2. g = <<c>> \o s
            BY <4>3, <5>2, HeadIs
          <6> HIDE DEF c, s, g
          <6> QED  BY <6>1, <6>2, ConsIs
        <5> QED  BY <5>1, <5>2
      <4> HIDE DEF g, e, h
      <4> DEFINE k == Len(RefItem(a))  l == Len(g)  n == Len(a)
      <4>4. /\ Single(a) => n = 1
            /\ ~Single(a) => l > 0
            /\ k = l + n /\ l \in Nat /\ n \in Nat
        BY <4>1, <4>2, <4>3
      <4> HIDE DEF k, l, n
      <4>5. k > 0
        BY <4>4
      <4> QED  BY <4>5 DEF k
    <3> QED  BY <3>1, <3>2
  <2> HIDE DEF e
  <2> QED  BY <2>1
<1> HIDE DEF e, g, h
<1>5. /\ Single(a) <=> Single(b)
      /\ Long(a) <=> Long(b)
      /\ ~Single(a) /\ ~Long(a) => Len(a) = Len(b)
      /\ Long(a) => Len(ByteString[Len(a)]) = Len(ByteString[Len(b)])
  BY <1>3, <1>4, SameKind
<1>6. Len(g) = Len(h) /\ Len(a) = Len(b)
  <2>1. CASE Single(a)
    BY <1>5, <2>1, HeadIs DEF g, h, Single
  <2>2. CASE ~Single(a) /\ ~Long(a)
    BY <1>5, <2>2, HeadIs, ZenonT(60) DEF g, h
  <2>3. CASE Long(a)
    <3> DEFINE s == ByteString[Len(a)]  u == ByteString[Len(b)]
               c == 183 + Len(s)  d == 183 + Len(u)
    <3>1. /\ Len(a) \in Nat \ {0} /\ g = <<c>> \o s
          /\ Len(b) \in Nat \ {0} /\ h = <<d>> \o u
      BY <1>5, <2>3, HeadIs DEF g, h
    <3>2. s \in Seq(Nat) /\ u \in Seq(Nat) /\ Len(s) \in Nat /\ Len(s) = Len(u)
      BY <1>5, <2>3, <3>1, SizeIs
    <3>3. NumberOf(s, 256) = Len(a) /\ NumberOf(u, 256) = Len(b)
      BY <3>1, ByteStringMeans
    <3> HIDE DEF s, u
    <3>4. c \in Nat /\ d \in Nat /\ c = d
      BY <3>2
    <3> HIDE DEF c, d
    <3>5. /\ <<c>> \in Seq(Nat) /\ Len(<<c>>) = 1 /\ Len(g) = 1 + Len(s)
          /\ <<d>> \in Seq(Nat) /\ Len(<<d>>) = 1 /\ Len(h) = 1 + Len(u)
      BY <3>1, <3>2, <3>4, ConsIs
    <3>6. g = h
      <4> DEFINE x == a \o r  y == b \o t
      <4>1. g \o x = h \o y /\ Len(g) = Len(h) /\ g \in Seq(Nat) /\ h \in Seq(Nat)
            /\ x \in Seq(Nat) /\ y \in Seq(Nat)
        BY <1>1, <1>2, <3>2, <3>5
      <4> HIDE DEF x, y
      <4>2. g = h /\ x = y
        BY <4>1, ConcatSplit, ZenonT(60)
      <4> QED  BY <4>2
    <3>7. s = u
      <4> DEFINE x == <<c>>  y == <<d>>
      <4>1. x \o s = y \o u /\ Len(x) = Len(y) /\ x \in Seq(Nat) /\ y \in Seq(Nat)
        BY <3>1, <3>5, <3>6
      <4> HIDE DEF x, y
      <4> QED  BY <3>2, <4>1, ConcatSplit
    <3> QED  BY <3>3, <3>6, <3>7
  <2> QED  BY <2>1, <2>2, <2>3
<1>7. a \o r = b \o t
  <2> DEFINE x == a \o r  y == b \o t
  <2>1. g \o x = h \o y /\ Len(g) = Len(h) /\ g \in Seq(Nat) /\ h \in Seq(Nat)
        /\ x \in Seq(Nat) /\ y \in Seq(Nat)
    BY <1>1, <1>2, <1>6
  <2> HIDE DEF x, y
  <2>2. x = y
    BY <2>1, ConcatSplit
  <2> QED  BY <2>2 DEF x, y
<1> QED  BY <1>6, <1>7, ConcatSplit

\* What is put together ends with what comes after the first i of the list.
LEMMA GrowsOn ==
  ASSUME NEW s \in Seq(Seq(Nat)), s # <<>>, NEW f, Grows(f, s), NEW i \in 1 .. Len(s)
  PROVE  \E r \in Seq(Nat) : f[Len(s)] = f[i] \o r
<1> DEFINE n == Len(s)
           P == {k \in Nat : i + k <= n => \E r \in Seq(Nat) : f[i + k] = f[i] \o r}
<1>1. n \in Nat \ {0} /\ \A k \in 1 .. n : s[k] \in Seq(Nat)
  <2>1. \A x \in Seq(Seq(Nat)) : x # <<>> => Len(x) \in Nat \ {0}
                                   /\ \A k \in 1 .. Len(x) : x[k] \in Seq(Nat)
    OBVIOUS
  <2> QED  BY <2>1
<1>2. /\ \A k \in 1 .. n : f[k] \in Seq(Nat)
      /\ \A k \in 1 .. n : k # 1 => f[k] = f[k - 1] \o s[k]
  BY DEF Grows
<1> HIDE DEF n
<1>3. 0 \in P
  <2>1. i + 0 = i /\ i \in 1 .. n /\ <<>> \in Seq(Nat)
    BY <1>1 DEF n
  <2>2. f[i] = f[i] \o <<>>
    BY <1>2, <2>1, ConcatEmptySeq
  <2> QED  BY <2>1, <2>2
<1>4. ASSUME NEW k \in P PROVE k + 1 \in P
  <2>1. CASE i + (k + 1) <= n
    <3>1. /\ i \in 1 .. n /\ i + k <= n /\ i + (k + 1) \in 1 .. n /\ i + (k + 1) # 1
          /\ (i + (k + 1)) - 1 = i + k /\ k \in Nat
      BY <1>1, <2>1 DEF n
    <3>2. PICK r \in Seq(Nat) : f[i + k] = f[i] \o r
      BY <3>1
    <3> DEFINE a == f[i]  b == s[i + (k + 1)]
    <3>3. a \in Seq(Nat) /\ b \in Seq(Nat) /\ r \in Seq(Nat)
      BY <1>1, <1>2, <3>1, <3>2
    <3>4. f[i + (k + 1)] = (a \o r) \o b
      BY <1>2, <3>1, <3>2
    <3> HIDE DEF a, b
    <3>5. (a \o r) \o b = a \o (r \o b)
      BY <3>3, Assoc
    <3>6. r \o b \in Seq(Nat)
      BY <3>3, Joined2
    <3>7. \E t \in Seq(Nat) : f[i + (k + 1)] = f[i] \o t
      BY <3>4, <3>5, <3>6 DEF a
    <3>8. k + 1 \in Nat
      BY <3>1
    <3> QED  BY <3>7, <3>8
  <2>2. CASE ~(i + (k + 1) <= n)
    BY <2>2
  <2> QED  BY <2>1, <2>2
<1>5. P \in SUBSET Nat
  OBVIOUS
<1>6. n - i \in Nat /\ i + (n - i) = n /\ n <= n
  BY <1>1 DEF n
<1>7. n - i \in P
  <2> HIDE DEF P
  <2>1. \A k \in Nat : k \in P
    BY <1>3, <1>4, <1>5, Induct
  <2> QED  BY <1>6, <2>1
<1>8. \E r \in Seq(Nat) : f[i + (n - i)] = f[i] \o r
  BY <1>6, <1>7
<1> QED  BY <1>6, <1>8 DEF n

\* A list of strings can be read back from its items in a row.
Items(s) == [i \in 1 .. Len(s) |-> RefItem(s[i])]

LEMMA ItemsAre ==
  ASSUME NEW s \in Seq(Seq(Nat)), s # <<>>
  PROVE  /\ Items(s) \in Seq(Seq(Nat)) /\ Items(s) # <<>> /\ Len(Items(s)) = Len(s)
         /\ Len(s) \in Nat \ {0}
         /\ \A i \in 1 .. Len(s) : s[i] \in Seq(Nat) /\ Items(s)[i] = RefItem(s[i])
<1>1. Len(s) \in Nat \ {0} /\ \A i \in 1 .. Len(s) : s[i] \in Seq(Nat)
  <2>1. \A x \in Seq(Seq(Nat)) : x # <<>> => Len(x) \in Nat \ {0}
                                   /\ \A k \in 1 .. Len(x) : x[k] \in Seq(Nat)
    OBVIOUS
  <2> QED  BY <2>1
<1>2. \A i \in 1 .. Len(s) : RefItem(s[i]) \in Seq(Nat)
  BY <1>1, RefItemIs
<1> DEFINE n == Len(s)  S == Seq(Nat)  g == [i \in 1 .. n |-> RefItem(s[i])]
<1>3. n \in Nat \ {0} /\ \A i \in 1 .. n : RefItem(s[i]) \in S
  BY <1>1, <1>2
<1> HIDE DEF n, S
<1>4. g \in Seq(S) /\ Len(g) = n
  <2>1. \A i \in 1 .. n : g[i] \in S
    BY <1>3
  <2> QED  BY <1>3, <2>1, IsASeq
<1>5. g = Items(s)
  BY DEF Items, n
<1> HIDE DEF g
<1>6. Items(s) # <<>>
  BY <1>3, <1>4, <1>5
<1> QED  BY <1>1, <1>4, <1>5, <1>6 DEF Items, n, S

LEMMA ReadBack ==
  ASSUME NEW s \in Seq(Seq(Nat)), NEW t \in Seq(Seq(Nat)), s # <<>>, t # <<>>, Len(s) = Len(t),
         FlattenSeq(Items(s)) = FlattenSeq(Items(t))
  PROVE  \A i \in 1 .. Len(s) : s[i] = t[i]
<1> DEFINE n == Len(s)  x == Items(s)  y == Items(t)
<1>1. /\ x \in Seq(Seq(Nat)) /\ x # <<>> /\ Len(x) = n /\ n \in Nat \ {0}
      /\ y \in Seq(Seq(Nat)) /\ y # <<>> /\ Len(y) = n
  BY ItemsAre
<1>2. \A i \in 1 .. n : /\ s[i] \in Seq(Nat) /\ x[i] = RefItem(s[i])
                        /\ t[i] \in Seq(Nat) /\ y[i] = RefItem(t[i])
  BY ItemsAre
<1> HIDE DEF n, x, y
<1>3. PICK f : Grows(f, x) /\ FlattenSeq(x) = f[n]
  BY <1>1, FlattenIs
<1>4. PICK g : Grows(g, y) /\ FlattenSeq(y) = g[n]
  BY <1>1, FlattenIs
<1>5. f[n] = g[n]
  BY <1>3, <1>4 DEF x, y
<1>6. /\ \A i \in 1 .. n : f[i] \in Seq(Nat) /\ g[i] \in Seq(Nat)
      /\ f[1] = x[1] /\ g[1] = y[1]
      /\ \A i \in 1 .. n : i # 1 => f[i] = f[i - 1] \o x[i] /\ g[i] = g[i - 1] \o y[i]
  <2>1. /\ f \in [1 .. n -> Seq(Nat)]
        /\ \A i \in 1 .. n : f[i] = IF i = 1 THEN x[i] ELSE f[i - 1] \o x[i]
    BY <1>1, <1>3, Zenon DEF Grows
  <2>2. /\ g \in [1 .. n -> Seq(Nat)]
        /\ \A i \in 1 .. n : g[i] = IF i = 1 THEN y[i] ELSE g[i - 1] \o y[i]
    BY <1>1, <1>4, Zenon DEF Grows
  <2>3. 1 \in 1 .. n
    BY <1>1
  <2> HIDE DEF Grows
  <2>4. \A i \in 1 .. n : f[i] \in Seq(Nat) /\ g[i] \in Seq(Nat)
    BY <2>1, <2>2
  <2>5. f[1] = x[1] /\ g[1] = y[1]
    BY <2>1, <2>2, <2>3, Zenon
  <2>6. \A i \in 1 .. n : i # 1 => f[i] = f[i - 1] \o x[i] /\ g[i] = g[i - 1] \o y[i]
    BY <2>1, <2>2, Zenon
  <2> QED  BY <2>4, <2>5, <2>6
<1>7. \A i \in 1 .. n : \E r \in Seq(Nat) : f[n] = f[i] \o r
  <2>1. \A i \in 1 .. Len(x) : \E r \in Seq(Nat) : f[Len(x)] = f[i] \o r
    BY <1>1, <1>3, GrowsOn
  <2> QED  BY <1>1, <2>1
<1>8. \A i \in 1 .. n : \E r \in Seq(Nat) : g[n] = g[i] \o r
  <2>1. \A i \in 1 .. Len(y) : \E r \in Seq(Nat) : g[Len(y)] = g[i] \o r
    BY <1>1, <1>4, GrowsOn
  <2> QED  BY <1>1, <2>1
<1> DEFINE P == {k \in Nat : k + 1 <= n => s[k + 1] = t[k + 1] /\ f[k + 1] = g[k + 1]}
<1>9. 0 \in P
  <2>1. 1 \in 1 .. n
    BY <1>1
  <2>2. PICK r \in Seq(Nat) : f[n] = f[1] \o r
    BY <1>7, <2>1
  <2>3. PICK u \in Seq(Nat) : g[n] = g[1] \o u
    BY <1>8, <2>1
  <2> DEFINE a == s[1]  b == t[1]
  <2>4. RefItem(a) \o r = RefItem(b) \o u /\ a \in Seq(Nat) /\ b \in Seq(Nat)
        /\ r \in Seq(Nat) /\ u \in Seq(Nat)
    BY <1>2, <1>5, <1>6, <2>1, <2>2, <2>3
  <2> HIDE DEF a, b
  <2>5. a = b
    BY <2>4, PrefixFree
  <2>6. f[1] = g[1]
    BY <1>2, <1>6, <2>1, <2>5 DEF a, b
  <2>7. 0 \in Nat /\ 0 + 1 = 1
    OBVIOUS
  <2>8. s[0 + 1] = t[0 + 1] /\ f[0 + 1] = g[0 + 1]
    BY <2>5, <2>6, <2>7 DEF a, b
  <2> HIDE DEF a, b
  <2> QED  BY <2>7, <2>8
<1>10. ASSUME NEW k \in P PROVE k + 1 \in P
  <2> DEFINE j == k + 1  i == j + 1
  <2>0. k \in Nat /\ j \in Nat /\ i \in Nat
    OBVIOUS
  <2>1. CASE i <= n
    <3>1. j \in 1 .. n /\ i \in 1 .. n /\ i # 1 /\ i - 1 = j /\ k + 1 <= n
      BY <1>1, <2>0, <2>1
    <3> DEFINE p == f[j]  a == s[i]  b == t[i]
    <3>2. p = g[j] /\ p \in Seq(Nat)
      BY <1>6, <3>1
    <3>3. a \in Seq(Nat) /\ b \in Seq(Nat) /\ x[i] = RefItem(a) /\ y[i] = RefItem(b)
      BY <1>2, <3>1
    <3> HIDE DEF j, i
    <3>4. f[i] = p \o RefItem(a) /\ g[i] = p \o RefItem(b)
      BY <1>6, <3>1, <3>2, <3>3
    <3>5. PICK r \in Seq(Nat) : f[n] = f[i] \o r
      BY <1>7, <3>1
    <3>6. PICK u \in Seq(Nat) : g[n] = g[i] \o u
      BY <1>8, <3>1
    <3> HIDE DEF p, a, b
    <3> DEFINE c == RefItem(a)  d == RefItem(b)
    <3>7. c \in Seq(Nat) /\ d \in Seq(Nat) /\ r \in Seq(Nat) /\ u \in Seq(Nat) /\ p \in Seq(Nat)
      BY <3>2, <3>3, <3>5, <3>6, RefItemIs
    <3>8. (p \o c) \o r = (p \o d) \o u
      BY <1>5, <3>4, <3>5, <3>6
    <3> HIDE DEF c, d
    <3>9. (p \o c) \o r = p \o (c \o r)
      BY <3>7, Assoc, ZenonT(60)
    <3>10. (p \o d) \o u = p \o (d \o u)
      BY <3>7, Assoc, ZenonT(60)
    <3>11. c \o r \in Seq(Nat) /\ d \o u \in Seq(Nat)
      BY <3>7, Joined2
    <3> DEFINE v == c \o r  w == d \o u
    <3>12. p \o v = p \o w /\ v \in Seq(Nat) /\ w \in Seq(Nat)
      BY <3>8, <3>9, <3>10, <3>11
    <3> HIDE DEF v, w
    <3>13. v = w
      BY <3>7, <3>12, ConcatSimplifications, ZenonT(60)
    <3>14. RefItem(a) \o r = RefItem(b) \o u
      BY <3>13 DEF c, d, v, w
    <3>15. a = b
      BY <3>3, <3>7, <3>14, PrefixFree
    <3>16. s[i] = t[i] /\ f[i] = g[i]
      BY <3>4, <3>15 DEF a, b
    <3>17. s[j + 1] = t[j + 1] /\ f[j + 1] = g[j + 1]
      BY <3>16 DEF i
    <3> QED  BY <2>0, <3>17 DEF j
  <2>2. CASE ~(i <= n)
    BY <2>0, <2>2
  <2> QED  BY <2>1, <2>2
<1>11. P \in SUBSET Nat
  OBVIOUS
<1>12. ASSUME NEW i \in 1 .. n PROVE s[i] = t[i]
  <2>1. i - 1 \in Nat /\ (i - 1) + 1 = i /\ i <= n
    BY <1>1
  <2>2. i - 1 \in P
    <3> HIDE DEF P
    <3>1. \A k \in Nat : k \in P
      BY <1>9, <1>10, <1>11, Induct
    <3> QED  BY <2>1, <3>1
  <2>3. s[(i - 1) + 1] = t[(i - 1) + 1]
    BY <2>1, <2>2
  <2> QED  BY <2>1, <2>3
<1> QED  BY <1>12 DEF n

-----------------------------------------------------------------------------
(* The header of a list.                                                    *)

LEMMA PutIs ==
  ASSUME NEW buf \in Seq(Nat), NEW b \in Seq(Nat)
  PROVE  /\ Put(buf, 0, b) \in Seq(Nat) /\ Len(Put(buf, 0, b)) = Len(buf)
         /\ \A i \in 1 .. Len(buf) : Put(buf, 0, b)[i] = IF i <= Len(b) THEN b[i] ELSE buf[i]
<1> DEFINE p == Put(buf, 0, b)
<1>1. /\ Len(buf) \in Nat /\ Len(b) \in Nat
      /\ \A i \in 1 .. Len(buf) : buf[i] \in Nat
      /\ \A i \in 1 .. Len(b) : b[i] \in Nat
  OBVIOUS
<1>2. \A i \in 1 .. Len(buf) : i - 0 = i /\ (i - 0 \in 1 .. Len(b) <=> i <= Len(b))
  BY <1>1
<1>3. p = [i \in 1 .. Len(buf) |-> IF i <= Len(b) THEN b[i] ELSE buf[i]]
  BY <1>2 DEF Put
<1>4. \A i \in 1 .. Len(buf) : (IF i <= Len(b) THEN b[i] ELSE buf[i]) \in Nat
  BY <1>1
<1>5. p \in [1 .. Len(buf) -> Nat]
  BY <1>3, <1>4
<1>6. p \in Seq(Nat) /\ Len(p) = Len(buf)
  <2> DEFINE n == Len(buf)
  <2>1. n \in Nat /\ p \in [1 .. n -> Nat]
    BY <1>1, <1>5
  <2> HIDE DEF p, n
  <2>2. p \in Seq(Nat) /\ Len(p) = n
    BY <2>1
  <2> QED  BY <2>2 DEF n
<1> QED  BY <1>3, <1>6

LEMMA ZerosLong ==
  ASSUME NEW n \in Nat
  PROVE  ZeroBytes(n) \in Seq(Nat) /\ Len(ZeroBytes(n)) = n /\ \A i \in 1 .. n : ZeroBytes(n)[i] = 0
<1>1. ZeroBytes(n) \in [1 .. n -> Nat]
  BY DEF ZeroBytes
<1>2. ZeroBytes(n) \in Seq(Nat) /\ Len(ZeroBytes(n)) = n
  BY <1>1
<1> QED  BY <1>2 DEF ZeroBytes

\* A header as long as the place left for it
LEMMA PutFront ==
  ASSUME NEW p \in Seq(Nat), NEW h \in Seq(Nat), NEW n \in Nat, Len(h) = n
  PROVE  Put(ZeroBytes(n) \o p, 0, h) = h \o p
<1> DEFINE z == ZeroBytes(n)  buf == z \o p  r == Put(buf, 0, h)  w == h \o p
<1>1. z \in Seq(Nat) /\ Len(z) = n
  BY ZerosLong
<1> HIDE DEF z
<1>2. /\ buf \in Seq(Nat) /\ Len(buf) = n + Len(p) /\ Len(p) \in Nat
      /\ \A i \in 1 .. n + Len(p) : buf[i] = IF i <= n THEN z[i] ELSE p[i - n]
  <2>0. z \in Seq(Nat) /\ Len(p) \in Nat
    BY <1>1
  <2>1. /\ z \o p \in Seq(Nat) /\ Len(z \o p) = Len(z) + Len(p)
        /\ \A i \in 1 .. Len(z) + Len(p) : (z \o p)[i] = IF i <= Len(z) THEN z[i] ELSE p[i - Len(z)]
    BY <2>0, ConcatProperties
  <2> QED  BY <1>1, <2>0, <2>1, Zenon
<1> HIDE DEF buf
<1>3. /\ r \in Seq(Nat) /\ Len(r) = n + Len(p)
      /\ \A i \in 1 .. n + Len(p) : r[i] = IF i <= n THEN h[i] ELSE buf[i]
  <2>1. /\ Put(buf, 0, h) \in Seq(Nat) /\ Len(Put(buf, 0, h)) = Len(buf)
        /\ \A i \in 1 .. Len(buf) : Put(buf, 0, h)[i] = IF i <= Len(h) THEN h[i] ELSE buf[i]
    BY <1>2, PutIs
  <2> QED  BY <1>2, <2>1, Zenon
<1>4. /\ w \in Seq(Nat) /\ Len(w) = n + Len(p)
      /\ \A i \in 1 .. n + Len(p) : w[i] = IF i <= n THEN h[i] ELSE p[i - n]
  BY ConcatProperties
<1> HIDE DEF r, w
<1>5. \A i \in 1 .. Len(r) : r[i] = w[i]
  BY <1>2, <1>3, <1>4
<1>6. r = w
  <2>1. Len(r) = Len(w)
    BY <1>3, <1>4
  <2> QED  BY <1>3, <1>4, <1>5, <2>1, SeqEqual
<1> QED  BY <1>6 DEF r, w, buf, z

\* The payload with the header the code puts in front of it, and with that of RLP
Coded(p) == Put(ZeroBytes(rlp_header_len(Len(p))) \o p, 0, rlp_encode_array_header(Len(p)))
RefHead(n) == IF n <= 55 THEN <<192 + n>> ELSE <<247 + Len(ByteString[n])>> \o ByteString[n]
RefCoded(p) == RefHead(Len(p)) \o p

LEMMA RefHeadIs ==
  ASSUME NEW n \in Nat
  PROVE  /\ RefHead(n) \in Seq(Nat) /\ Len(RefHead(n)) \in Nat \ {0}
         /\ n <= 55 => Len(RefHead(n)) = 1 /\ RefHead(n)[1] = 192 + n
         /\ n > 55 => /\ ByteString[n] \in Seq(Nat) /\ Len(ByteString[n]) \in Nat \ {0}
                      /\ Len(RefHead(n)) = 1 + Len(ByteString[n])
                      /\ RefHead(n)[1] = 247 + Len(ByteString[n])
                      /\ RefHead(n) = <<247 + Len(ByteString[n])>> \o ByteString[n]
<1>1. CASE n <= 55
  <2> DEFINE c == 192 + n
  <2>1. RefHead(n) = <<c>> /\ c \in Nat
    BY <1>1 DEF RefHead
  <2> HIDE DEF c
  <2>2. RefHead(n) \in Seq(Nat) /\ Len(RefHead(n)) = 1 /\ RefHead(n)[1] = c
    BY <2>1
  <2> QED  BY <1>1, <2>2 DEF c
<1>2. CASE n > 55
  <2> DEFINE s == ByteString[n]  c == 247 + Len(s)
  <2>0. n \in Nat \ {0} /\ ~(n <= 55)
    BY <1>2
  <2>1. RefHead(n) = <<c>> \o s
    BY <2>0 DEF RefHead
  <2>2. s \in Seq(Nat) /\ Len(s) \in Nat \ {0}
    BY <2>0, SizeIs
  <2>3. c \in Nat
    BY <2>2
  <2> HIDE DEF c, s
  <2>4. /\ RefHead(n) \in Seq(Nat) /\ Len(RefHead(n)) = 1 + Len(s) /\ RefHead(n)[1] = c
    BY <2>1, <2>2, <2>3, ConsIs
  <2>5. Len(RefHead(n)) \in Nat \ {0}
    BY <2>2, <2>4
  <2> QED  BY <2>0, <2>1, <2>2, <2>4, <2>5 DEF c, s
<1> QED  BY <1>1, <1>2

\* The header of the code is that of RLP but for a payload of 55 bytes, ...
LEMMA CodedIs ==
  ASSUME NEW p \in Seq(Nat)
  PROVE  /\ Len(p) # 55 => Coded(p) = RefCoded(p)
         /\ Len(p) = 55 => Len(Coded(p)) = 56 /\ Coded(p)[1] = 248
<1> DEFINE n == Len(p)  h == rlp_encode_array_header(n)  l == rlp_header_len(n)
<1>0. /\ n \in Nat
      /\ n < 55 => n <= 55 /\ n # 55
      /\ n > 55 => ~(n <= 55) /\ ~(n < 55) /\ n # 55
      /\ n < 55 \/ n = 55 \/ n > 55
  <2>1. n \in Nat
    OBVIOUS
  <2> HIDE DEF n
  <2> QED  BY <2>1
<1>1. CASE n < 55
  <2>1. n <= 55 /\ n # 55
    BY <1>0, <1>1, Zenon
  <2>2. h = RefHead(n) /\ l = 1
    BY <1>1, <2>1 DEF rlp_encode_array_header, rlp_header_len, RefHead
  <2>3. h \in Seq(Nat) /\ Len(h) = l /\ l \in Nat
    <3>1. RefHead(n) \in Seq(Nat) /\ Len(RefHead(n)) = 1
      BY <1>0, <2>1, RefHeadIs
    <3> QED  BY <2>2, <3>1
  <2> HIDE DEF h, l, n
  <2>4. Put(ZeroBytes(l) \o p, 0, h) = h \o p
    BY <2>3, PutFront
  <2>5. Coded(p) = RefCoded(p)
    BY <2>2, <2>4 DEF Coded, RefCoded, h, l, n
  <2> QED  BY <2>1, <2>5 DEF n
<1>2. CASE n > 55
  <2>1. ~(n <= 55) /\ ~(n < 55) /\ n # 55
    BY <1>0, <1>2, Zenon
  <2> DEFINE s == ByteString[n]
  <2>2. h = RefHead(n) /\ l = Len(s) + 1
    BY <2>1 DEF rlp_encode_array_header, rlp_header_len, RefHead
  <2>3. RefHead(n) \in Seq(Nat) /\ Len(RefHead(n)) = 1 + Len(s) /\ Len(s) \in Nat \ {0}
    BY <1>0, <1>2, RefHeadIs
  <2> HIDE DEF h, l, n, s
  <2>4. h \in Seq(Nat) /\ Len(h) = l /\ l \in Nat
    BY <2>2, <2>3
  <2>5. Put(ZeroBytes(l) \o p, 0, h) = h \o p
    BY <2>4, PutFront
  <2>6. Coded(p) = RefCoded(p)
    BY <2>2, <2>5 DEF Coded, RefCoded, h, l, n
  <2> QED  BY <2>1, <2>6 DEF n
<1>3. CASE n = 55
  <2>1. ByteString[n] = <<55>>
    <3>1. 55 \in 1 .. 255
      OBVIOUS
    <3> QED  BY <1>3, <3>1, SmallByteString, ZenonT(60)
  <2>2. l = 1 /\ h = <<247 + Len(<<55>>)>> \o <<55>>
    BY <1>3, <2>1 DEF rlp_encode_array_header, rlp_header_len
  <2>3. h \in Seq(Nat) /\ Len(h) = 2 /\ h[1] = 248
    BY <2>2
  <2> DEFINE z == ZeroBytes(1)  buf == z \o p
  <2>4. z \in Seq(Nat) /\ Len(z) = 1
    BY ZerosLong, 1 \in Nat
  <2> HIDE DEF z
  <2>5. buf \in Seq(Nat) /\ Len(buf) = 1 + n
    BY <2>4, Joined2
  <2> HIDE DEF h, l, buf
  <2>6. /\ Len(Put(buf, 0, h)) = Len(buf)
        /\ \A i \in 1 .. Len(buf) : Put(buf, 0, h)[i] = IF i <= Len(h) THEN h[i] ELSE buf[i]
    <3>1. buf \in Seq(Nat) /\ h \in Seq(Nat)
      BY <2>3, <2>5
    <3> QED  BY <3>1, PutIs
  <2>7. 1 \in 1 .. Len(buf) /\ 1 <= Len(h) /\ Len(buf) = 56
    BY <1>3, <2>3, <2>5
  <2>8. Put(buf, 0, h)[1] = 248
    BY <2>3, <2>6, <2>7
  <2>9. Coded(p) = Put(buf, 0, h)
    BY <2>2 DEF Coded, buf, z, h, l, n
  <2>10. Len(Coded(p)) = 56 /\ Coded(p)[1] = 248
    BY <2>6, <2>7, <2>8, <2>9, Zenon
  <2>11. n = 55
    BY <1>3
  <2> QED  BY <2>10, <2>11, Zenon DEF n
<1> QED  BY <1>0, <1>1, <1>2, <1>3, Zenon

\* ... and then it is the header of no payload.
LEMMA HeadsDiffer ==
  ASSUME NEW p \in Seq(Nat), NEW q \in Seq(Nat), RefCoded(p) = RefCoded(q)
  PROVE  p = q
<1> DEFINE n == Len(p)  m == Len(q)  g == RefHead(n)  h == RefHead(m)
           s == ByteString[n]  u == ByteString[m]
<1>1. n \in Nat /\ m \in Nat /\ g \o p = h \o q
  BY DEF RefCoded
<1>2. g \in Seq(Nat) /\ h \in Seq(Nat) /\ Len(g) \in Nat \ {0} /\ Len(h) \in Nat \ {0}
  BY <1>1, RefHeadIs, ZenonT(60)
<1>3. g[1] = h[1]
  <2> HIDE DEF g, h
  <2> DEFINE x == g \o p  y == h \o q
  <2>1. /\ \A i \in 1 .. Len(g) + Len(p) : x[i] = IF i <= Len(g) THEN g[i] ELSE p[i - Len(g)]
    BY <1>2, ConcatProperties
  <2>2. /\ \A i \in 1 .. Len(h) + Len(q) : y[i] = IF i <= Len(h) THEN h[i] ELSE q[i - Len(h)]
    BY <1>2, ConcatProperties
  <2>3. x = y
    BY <1>1
  <2> HIDE DEF x, y
  <2>4. 1 \in 1 .. Len(g) + Len(p) /\ 1 \in 1 .. Len(h) + Len(q) /\ 1 <= Len(g) /\ 1 <= Len(h)
    BY <1>1, <1>2
  <2>5. x[1] = g[1] /\ y[1] = h[1]
    BY <2>1, <2>2, <2>4
  <2> QED  BY <2>3, <2>5
<1>4. /\ n <= 55 => Len(g) = 1 /\ g[1] = 192 + n
      /\ n > 55 => Len(g) = 1 + Len(s) /\ g[1] = 247 + Len(s) /\ Len(s) \in Nat \ {0}
  BY <1>1, RefHeadIs, ZenonT(60)
<1>5. /\ m <= 55 => Len(h) = 1 /\ h[1] = 192 + m
      /\ m > 55 => Len(h) = 1 + Len(u) /\ h[1] = 247 + Len(u) /\ Len(u) \in Nat \ {0}
  BY <1>1, RefHeadIs, ZenonT(60)
<1>6. Len(g) = Len(h)
  <2> HIDE DEF n, m, g, h, s, u
  <2> QED  BY <1>1, <1>3, <1>4, <1>5
<1> HIDE DEF g, h
<1>7. p = q
  BY <1>1, <1>2, <1>6, ConcatSplit
<1> QED  BY <1>7

LEMMA FramedAlike ==
  ASSUME NEW p \in Seq(Nat), NEW q \in Seq(Nat)
  PROVE  Coded(p) = RefCoded(q) <=> p = q /\ Len(q) # 55
<1> DEFINE n == Len(p)  m == Len(q)
<1>1. n \in Nat /\ m \in Nat
  OBVIOUS
<1>2. CASE n # 55
  <2>1. Coded(p) = RefCoded(p)
    BY <1>2, CodedIs
  <2>2. p = q => m = n
    OBVIOUS
  <2> QED  BY <1>2, <2>1, <2>2, HeadsDiffer
<1>3. CASE n = 55
  <2>1. Len(Coded(p)) = 56 /\ Coded(p)[1] = 248
    BY <1>3, CodedIs
  <2> DEFINE h == RefHead(m)  y == h \o q  s == ByteString[m]
  <2>2. /\ h \in Seq(Nat) /\ Len(h) \in Nat \ {0}
        /\ m <= 55 => Len(h) = 1 /\ h[1] = 192 + m
        /\ m > 55 => Len(h) = 1 + Len(s) /\ h[1] = 247 + Len(s) /\ Len(s) \in Nat \ {0}
    BY <1>1, RefHeadIs, ZenonT(60)
  <2> HIDE DEF h, s
  <2>3. /\ Len(y) = Len(h) + m
        /\ \A i \in 1 .. Len(h) + m : y[i] = IF i <= Len(h) THEN h[i] ELSE q[i - Len(h)]
    BY <2>2, ConcatProperties
  <2>4. 1 \in 1 .. Len(h) + m /\ 1 <= Len(h)
    BY <1>1, <2>2
  <2>5. y[1] = h[1]
    BY <2>3, <2>4
  <2> HIDE DEF y, m
  <2>6. ~(Len(y) = 56 /\ y[1] = 248)
    BY <1>1, <2>2, <2>3, <2>5
  <2>7. RefCoded(q) = y
    BY DEF RefCoded, y, h, m
  <2>8. Coded(p) # RefCoded(q)
    BY <2>1, <2>6, <2>7
  <2>9. p = q => m = 55
    BY <1>3 DEF m
  <2> QED  BY <2>8, <2>9 DEF m
<1> QED  BY <1>2, <1>3

-----------------------------------------------------------------------------
(* The strings of the items.                                                *)

\* The first byte that is not zero
LEMMA TrimmedIs ==
  ASSUME NEW b \in Seq(Nat)
  PROVE  \/ Trimmed(b) = 0 /\ \A i \in 1 .. Len(b) : b[i] = 0
         \/ /\ Trimmed(b) \in 1 .. Len(b) /\ b[Trimmed(b)] # 0
            /\ \A i \in 1 .. Trimmed(b) - 1 : b[i] = 0
<1> DEFINE n == Len(b)  T == {i \in 1 .. n : b[i] # 0}
<1>1. n \in Nat
  OBVIOUS
<1>2. Trimmed(b) = IF T # {} THEN Min(T) ELSE 0
  BY DEF Trimmed, SelectInSeq
<1>3. CASE T = {}
  BY <1>2, <1>3
<1>4. CASE T # {}
  <2>1. T \in SUBSET Nat
    BY <1>1
  <2> DEFINE k == Min(T)
  <2>2. \E m \in T : \A j \in T : m <= j
    <3> HIDE DEF T
    <3> QED  BY <1>4, <2>1, Least
  <2>3. k \in T /\ \A j \in T : k <= j
    <3> HIDE DEF T
    <3> QED  BY <2>2 DEF Min
  <2>4. Trimmed(b) = k
    BY <1>2, <1>4
  <2> HIDE DEF k
  <2>5. k \in 1 .. n /\ b[k] # 0
    BY <2>3
  <2>6. ASSUME NEW i \in 1 .. k - 1 PROVE b[i] = 0
    <3>1. i \in 1 .. n /\ ~(k <= i)
      BY <1>1, <2>5
    <3> QED  BY <2>3, <3>1
  <2> QED  BY <2>4, <2>5, <2>6
<1> QED  BY <1>3, <1>4

\* Where the string of an integer begins
From(b) == IF Trimmed(b) = 0 THEN Len(b) + 1 ELSE Trimmed(b)
Strip(b) == SubSeq(b, From(b), Len(b))

LEMMA FromIs ==
  ASSUME NEW b \in Seq(Nat)
  PROVE  /\ From(b) \in 1 .. Len(b) + 1 /\ Len(b) \in Nat
         /\ \A i \in 1 .. Len(b) : i < From(b) => b[i] = 0
         /\ From(b) <= Len(b) => b[From(b)] # 0
<1> DEFINE n == Len(b)  k == Trimmed(b)
<1>1. n \in Nat
  OBVIOUS
<1>2. \/ k = 0 /\ \A i \in 1 .. n : b[i] = 0
      \/ k \in 1 .. n /\ b[k] # 0 /\ \A i \in 1 .. k - 1 : b[i] = 0
  BY TrimmedIs
<1>3. From(b) = IF k = 0 THEN n + 1 ELSE k
  BY DEF From
<1> HIDE DEF n, k
<1>4. CASE k = 0
  <2>1. From(b) = n + 1 /\ \A i \in 1 .. n : b[i] = 0
    BY <1>1, <1>2, <1>3, <1>4
  <2> QED  BY <1>1, <2>1 DEF n
<1>5. CASE k # 0
  <2>1. From(b) = k /\ k \in 1 .. n /\ b[k] # 0 /\ \A i \in 1 .. k - 1 : b[i] = 0
    BY <1>2, <1>3, <1>5
  <2>2. \A i \in 1 .. n : i < k => b[i] = 0
    BY <1>1, <2>1
  <2>3. k \in 1 .. n + 1
    BY <1>1, <2>1
  <2> QED  BY <1>1, <2>1, <2>2, <2>3 DEF n
<1> QED  BY <1>4, <1>5

LEMMA FromUnique ==
  ASSUME NEW b \in Seq(Nat), NEW k \in 1 .. Len(b) + 1,
         \A i \in 1 .. Len(b) : i < k => b[i] = 0,
         k <= Len(b) => b[k] # 0
  PROVE  From(b) = k
<1> DEFINE n == Len(b)  f == From(b)
<1>1. /\ f \in 1 .. n + 1 /\ n \in Nat /\ k \in 1 .. n + 1
      /\ \A i \in 1 .. n : i < f => b[i] = 0
      /\ f <= n => b[f] # 0
      /\ \A i \in 1 .. n : i < k => b[i] = 0
      /\ k <= n => b[k] # 0
  BY FromIs
<1> HIDE DEF n, f
<1>2. ~(f < k)
  <2> SUFFICES ASSUME f < k PROVE FALSE
    OBVIOUS
  <2>1. f \in 1 .. n
    BY <1>1
  <2> QED  BY <1>1, <2>1
<1>3. ~(k < f)
  <2> SUFFICES ASSUME k < f PROVE FALSE
    OBVIOUS
  <2>1. k \in 1 .. n
    BY <1>1
  <2> QED  BY <1>1, <2>1
<1>4. f = k
  BY <1>1, <1>2, <1>3
<1> QED  BY <1>4 DEF f

LEMMA StripIs ==
  ASSUME NEW b \in Seq(Nat)
  PROVE  /\ Strip(b) \in Seq(Nat) /\ Len(Strip(b)) = Len(b) + 1 - From(b)
         /\ \A i \in 1 .. Len(Strip(b)) : Strip(b)[i] = b[From(b) + i - 1]
         /\ Strip(b) # <<>> => Strip(b)[1] # 0
<1> DEFINE n == Len(b)  k == From(b)  s == Strip(b)
<1>1. k \in 1 .. n + 1 /\ n \in Nat /\ (k <= n => b[k] # 0)
  BY FromIs
<1>2. \A i \in k .. n : b[i] \in Nat
  <2>1. \A i \in 1 .. n : b[i] \in Nat
    OBVIOUS
  <2> HIDE DEF n, k
  <2> QED  BY <1>1, <2>1
<1>3. s = SubSeq(b, k, n)
  BY DEF Strip
<1> HIDE DEF n, k, s
<1>4. /\ s \in Seq(Nat) /\ Len(s) = IF k <= n THEN n - k + 1 ELSE 0
      /\ \A i \in 1 .. n - k + 1 : s[i] = b[k + i - 1]
  BY <1>1, <1>2, <1>3, SubSeqProperties
<1>5. Len(s) = n + 1 - k /\ n - k + 1 = n + 1 - k
  BY <1>1, <1>4
<1>6. s # <<>> => s[1] # 0
  <2> SUFFICES ASSUME s # <<>> PROVE s[1] # 0
    OBVIOUS
  <2>1. Len(s) # 0
    BY <1>4
  <2>2. k <= n /\ 1 \in 1 .. n - k + 1 /\ k + 1 - 1 = k
    BY <1>1, <1>5, <2>1
  <2> QED  BY <1>1, <1>4, <2>2
<1> QED  BY <1>4, <1>5, <1>6 DEF n, k, s

\* Nothing is stripped from a string that begins with another byte than zero.
LEMMA StripNothing ==
  ASSUME NEW b \in Seq(Nat), b # <<>>
  PROVE  /\ b[1] # 0 => Strip(b) = b
         /\ b[1] = 0 => Len(Strip(b)) < Len(b)
<1> DEFINE n == Len(b)  k == From(b)
<1>1. n \in Nat \ {0} /\ 1 \in 1 .. n
  OBVIOUS
<1>2. /\ k \in 1 .. n + 1
      /\ \A i \in 1 .. n : i < k => b[i] = 0
      /\ k <= n => b[k] # 0
  BY FromIs
<1>3. Len(Strip(b)) = n + 1 - k
  BY StripIs
<1>4. CASE b[1] # 0
  <2>1. k = 1
    <3> HIDE DEF n, k
    <3> QED  BY <1>1, <1>2, <1>4
  <2>2. Strip(b) = SubSeq(b, 1, n)
    BY <2>1 DEF Strip
  <2>3. Strip(b) = b
    BY <2>2, SubSeqFull
  <2> QED  BY <1>4, <2>3
<1>5. CASE b[1] = 0
  <2>1. k # 1
    <3> HIDE DEF n, k
    <3> QED  BY <1>1, <1>2, <1>5
  <2> DEFINE l == Len(Strip(b))
  <2>2. l < n
    <3> HIDE DEF n, k, l
    <3>1. l = n + 1 - k
      BY <1>3 DEF l
    <3> QED  BY <1>1, <1>2, <2>1, <3>1
  <2> QED  BY <1>5, <2>2
<1> QED  BY <1>4, <1>5

\* Zeros in front of a string are stripped from it.
LEMMA StripZeros ==
  ASSUME NEW z \in Seq(Nat), NEW b \in Seq(Nat), \A i \in 1 .. Len(z) : z[i] = 0
  PROVE  Strip(z \o b) = Strip(b)
<1> DEFINE c == z \o b  m == Len(z)  n == Len(b)  f == From(b)  g == From(c)
<1>1. /\ c \in Seq(Nat) /\ Len(c) = m + n /\ m \in Nat /\ n \in Nat
      /\ \A i \in 1 .. m + n : c[i] = IF i <= m THEN z[i] ELSE b[i - m]
  BY ConcatProperties
<1>2. /\ f \in 1 .. n + 1
      /\ \A i \in 1 .. n : i < f => b[i] = 0
      /\ f <= n => b[f] # 0
  BY FromIs
<1>3. \A i \in 1 .. m : z[i] = 0
  OBVIOUS
<1> HIDE DEF c, m, n, f, g
<1>4. g = m + f
  <2>1. m + f \in 1 .. Len(c) + 1
    BY <1>1, <1>2
  <2>2. ASSUME NEW i \in 1 .. Len(c), i < m + f PROVE c[i] = 0
    <3>1. CASE i <= m
      <4>1. i \in 1 .. m
        BY <1>1, <2>2, <3>1
      <4> QED  BY <1>1, <1>3, <2>2, <3>1, <4>1
    <3>2. CASE ~(i <= m)
      <4>1. i - m \in 1 .. n /\ i - m < f
        BY <1>1, <1>2, <2>2, <3>2
      <4> QED  BY <1>1, <1>2, <2>2, <3>2, <4>1
    <3> QED  BY <3>1, <3>2
  <2>3. ASSUME m + f <= Len(c) PROVE c[m + f] # 0
    <3>1. f <= n /\ m + f \in 1 .. m + n /\ ~(m + f <= m) /\ (m + f) - m = f
      BY <1>1, <1>2, <2>3
    <3> QED  BY <1>1, <1>2, <3>1
  <2> DEFINE k == m + f
  <2>4. /\ k \in 1 .. Len(c) + 1
        /\ \A i \in 1 .. Len(c) : i < k => c[i] = 0
        /\ k <= Len(c) => c[k] # 0
    BY <2>1, <2>2, <2>3
  <2> HIDE DEF k
  <2>5. From(c) = k
    BY <1>1, <2>4, FromUnique
  <2> QED  BY <2>5 DEF g, k
<1> DEFINE s == Strip(c)  t == Strip(b)
<1>5. /\ s \in Seq(Nat) /\ Len(s) = Len(c) + 1 - g
      /\ \A i \in 1 .. Len(s) : s[i] = c[g + i - 1]
  BY <1>1, StripIs DEF g
<1>6. /\ t \in Seq(Nat) /\ Len(t) = n + 1 - f
      /\ \A i \in 1 .. Len(t) : t[i] = b[f + i - 1]
  BY StripIs DEF f, n
<1> HIDE DEF s, t
<1>7. Len(s) = Len(t)
  BY <1>1, <1>2, <1>4, <1>5, <1>6
<1>8. ASSUME NEW i \in 1 .. Len(s) PROVE s[i] = t[i]
  <2>1. /\ g + i - 1 \in 1 .. m + n /\ ~(g + i - 1 <= m) /\ (g + i - 1) - m = f + i - 1
        /\ i \in 1 .. Len(t)
    BY <1>1, <1>2, <1>4, <1>6, <1>7
  <2>2. c[g + i - 1] = b[f + i - 1]
    BY <1>1, <2>1
  <2> QED  BY <1>5, <1>6, <2>1, <2>2
<1>9. s = t
  BY <1>5, <1>6, <1>7, <1>8, SeqEqual
<1> QED  BY <1>9 DEF s, t, c

\* What the code makes items of: a string, but for a single byte of zero
Plain(b) == IF b = <<0>> THEN <<>> ELSE b

LEMMA PlainIs ==
  ASSUME NEW b \in Seq(Nat)
  PROVE  /\ Plain(b) \in Seq(Nat) /\ rlp_encode_item(b) = RefItem(Plain(b))
         /\ Len(b) # 1 => Plain(b) = b
<1>1. CASE b = <<0>>
  <2>1. <<>> \in Seq(Nat) /\ Len(<<>>) = 0 /\ Len(b) = 1
    BY <1>1
  <2>2. RefItem(<<>>) = <<128>>
    <3> DEFINE n == Len(<<>>)
    <3>0. n = 0
      OBVIOUS
    <3>1. RefItem(<<>>) = IF n = 1 /\ <<>>[1] < 128 THEN <<>>
                          ELSE IF n <= 55 THEN <<128 + n>> \o <<>>
                          ELSE <<183 + Len(ByteString[n])>> \o ByteString[n] \o <<>>
      BY Zenon DEF RefItem
    <3> HIDE DEF n
    <3>2. ~(n = 1 /\ <<>>[1] < 128) /\ n <= 55 /\ 128 + n = 128
      BY <3>0
    <3>3. RefItem(<<>>) = <<128 + n>> \o <<>>
      BY <3>1, <3>2, Zenon
    <3> QED  BY <3>2, <3>3
  <2>3. rlp_encode_item(b) = <<128>>
    BY <1>1, Zenon DEF rlp_encode_item
  <2> QED  BY <1>1, <2>1, <2>2, <2>3 DEF Plain
<1>2. CASE b # <<0>>
  <2>1. Plain(b) = b
    BY <1>2 DEF Plain
  <2>2. rlp_encode_item(b) = RefItem(b)
    BY <1>2, Zenon DEF rlp_encode_item, RefItem
  <2> QED  BY <2>1, <2>2
<1> QED  BY <1>1, <1>2

LEMMA IntegerIs ==
  ASSUME NEW b \in Seq(Nat)
  PROVE  /\ Strip(b) \in Seq(Nat) /\ Plain(Strip(b)) = Strip(b)
         /\ rlp_encode_integer(b) = RefItem(Strip(b)) /\ RefInteger(b) = RefItem(Strip(b))
<1> DEFINE s == Strip(b)  t == IF Trimmed(b) = 0 THEN <<>> ELSE SubSeq(b, Trimmed(b), Len(b))
<1>1. s \in Seq(Nat) /\ (s # <<>> => s[1] # 0)
  BY StripIs
<1>2. RefInteger(b) = RefItem(s)
  BY Zenon DEF RefInteger, Strip, From
<1>3. s = t
  <2>1. CASE Trimmed(b) = 0
    <3>1. s = SubSeq(b, Len(b) + 1, Len(b)) /\ t = <<>>
      BY <2>1, Zenon DEF Strip, From
    <3> DEFINE n == Len(b)
    <3>2. n \in Int
      OBVIOUS
    <3> HIDE DEF n
    <3>3. SubSeq(b, n + 1, n) = <<>>
      <4>1. n + 1 \in Int /\ n < n + 1
        BY <3>2
      <4> QED  BY <3>2, <4>1, SubSeqEmpty
    <3> QED  BY <3>1, <3>3, Zenon DEF n
  <2>2. CASE Trimmed(b) # 0
    BY <2>2, Zenon DEF Strip, From
  <2> QED  BY <2>1, <2>2
<1>4. rlp_encode_integer(b) = rlp_encode_item(t)
  BY Zenon DEF rlp_encode_integer
<1> HIDE DEF s, t
<1>5. s # <<0>>
  BY <1>1
<1>6. Plain(s) = s
  BY <1>5 DEF Plain
<1>7. rlp_encode_item(s) = RefItem(s)
  BY <1>1, <1>6, PlainIs
<1> QED  BY <1>1, <1>2, <1>3, <1>4, <1>6, <1>7 DEF s

\* What is made of the 32 bytes of a uint256_t
Sent256(val, beyond) ==
  IF Trimmed(SubSeq(val, 1, 24)) = 0 THEN Strip(Reverse(SubSeq(val, 25, 32)))
  ELSE IF Trimmed(SubSeq(val, 1, 16)) = 0 THEN beyond ELSE val

LEMMA Elements ==
  ASSUME NEW s \in Seq(Nat), NEW n, Len(s) = n
  PROVE  \A i \in 1 .. n : s[i] \in Nat
OBVIOUS

LEMMA SequenceOf ==
  ASSUME NEW n \in Nat, NEW s \in [1 .. n -> Nat]
  PROVE  s \in Seq(Nat) /\ Len(s) = n
OBVIOUS

LEMMA PartBack ==
  ASSUME NEW w \in Seq(Nat), Len(w) = 32, NEW k \in 0 .. 24
  PROVE  /\ SubSeq(w, k + 1, k + 8) \in Seq(Nat)
         /\ Reverse(SubSeq(w, k + 1, k + 8)) \in Seq(Nat)
         /\ Len(Reverse(SubSeq(w, k + 1, k + 8))) = 8
         /\ (\A i \in k + 1 .. k + 8 : w[i] = 0)
              => \A i \in 1 .. 8 : Reverse(SubSeq(w, k + 1, k + 8))[i] = 0
<1> DEFINE m == k + 1  n == k + 8  s == SubSeq(w, m, n)  r == Reverse(s)
<1>1. m \in Int /\ n \in Int /\ m <= n /\ n - m + 1 = 8
  OBVIOUS
<1>2. \A i \in m .. n : w[i] \in Nat
  <2>1. \A i \in 1 .. 32 : w[i] \in Nat
    BY Elements
  <2>2. m .. n \in SUBSET (1 .. 32)
    OBVIOUS
  <2> QED  BY <2>1, <2>2
<1> HIDE DEF m, n
<1>3. s \in Seq(Nat) /\ Len(s) = 8 /\ \A i \in 1 .. 8 : s[i] = w[m + i - 1]
  BY <1>1, <1>2, SubSeqProperties
<1> HIDE DEF s
<1>4. r = [i \in 1 .. 8 |-> s[(8 - i) + 1]]
  BY <1>3 DEF Reverse
<1>5. \A i \in 1 .. 8 : (8 - i) + 1 \in 1 .. 8
  OBVIOUS
<1>6. \A i \in 1 .. 8 : s[i] \in Nat
  BY <1>3, Elements
<1>7. r \in [1 .. 8 -> Nat]
  BY <1>4, <1>5, <1>6
<1>8. r \in Seq(Nat) /\ Len(r) = 8
  <2> HIDE DEF r
  <2> QED  BY <1>7, SequenceOf, 8 \in Nat
<1>9. ASSUME \A i \in m .. n : w[i] = 0, NEW i \in 1 .. 8 PROVE r[i] = 0
  <2>1. r[i] = s[(8 - i) + 1] /\ (8 - i) + 1 \in 1 .. 8
    BY <1>4, <1>5
  <2>2. m + ((8 - i) + 1) - 1 \in m .. n
    BY <1>1
  <2>3. s[(8 - i) + 1] = w[m + ((8 - i) + 1) - 1]
    BY <1>3, <2>1
  <2> QED  BY <1>9, <2>1, <2>2, <2>3
<1> QED  BY <1>3, <1>8, <1>9 DEF m, n, s, r

LEMMA AllZero ==
  ASSUME NEW w \in Seq(Nat), Len(w) = 32, NEW k \in 1 .. 32
  PROVE  Trimmed(SubSeq(w, 1, k)) = 0 <=> \A i \in 1 .. k : w[i] = 0
<1> DEFINE s == SubSeq(w, 1, k)
<1>1. s \in Seq(Nat) /\ Len(s) = k /\ \A i \in 1 .. k : s[i] = w[i]
  <2>1. \A i \in 1 .. k : w[i] \in Nat
    <3>1. \A i \in 1 .. 32 : w[i] \in Nat
      BY Elements
    <3>2. \A i \in 1 .. k : i \in 1 .. 32
      OBVIOUS
    <3> QED  BY <3>1, <3>2, Zenon
  <2>2. /\ s \in Seq(Nat) /\ Len(s) = IF 1 <= k THEN k - 1 + 1 ELSE 0
        /\ \A i \in 1 .. k - 1 + 1 : s[i] = w[1 + i - 1]
    <3>1. 1 \in Int /\ k \in Int
      OBVIOUS
    <3> QED  BY <2>1, <3>1, SubSeqProperties
  <2> HIDE DEF s
  <2>3. Len(s) = k /\ k - 1 + 1 = k /\ \A i \in 1 .. k : 1 + i - 1 = i
    BY <2>2
  <2> QED  BY <2>2, <2>3
<1>2. \/ Trimmed(s) = 0 /\ \A i \in 1 .. Len(s) : s[i] = 0
      \/ Trimmed(s) \in 1 .. Len(s) /\ s[Trimmed(s)] # 0
  <2> HIDE DEF s
  <2> QED  BY <1>1, TrimmedIs
<1> DEFINE t == Trimmed(s)
<1> HIDE DEF s, t
<1>3. \/ t = 0 /\ \A i \in 1 .. k : w[i] = 0
      \/ t \in 1 .. k /\ w[t] # 0
  BY <1>1, <1>2 DEF t
<1>4. t = 0 <=> \A i \in 1 .. k : w[i] = 0
  <2>1. t \in 1 .. k => t # 0
    OBVIOUS
  <2> QED  BY <1>3, <2>1, Zenon
<1> QED  BY <1>4 DEF s, t

LEMMA ZeroJoin ==
  ASSUME NEW a \in Seq(Nat), NEW b \in Seq(Nat),
         \A i \in 1 .. Len(a) : a[i] = 0, \A i \in 1 .. Len(b) : b[i] = 0
  PROVE  \A i \in 1 .. Len(a \o b) : (a \o b)[i] = 0
<1> DEFINE c == a \o b  m == Len(a)  n == Len(b)
<1>1. /\ Len(c) = m + n /\ m \in Nat /\ n \in Nat
      /\ \A i \in 1 .. m + n : c[i] = IF i <= m THEN a[i] ELSE b[i - m]
  BY ConcatProperties
<1>2. /\ \A i \in 1 .. m : a[i] = 0
      /\ \A i \in 1 .. n : b[i] = 0
  OBVIOUS
<1> HIDE DEF c, m, n
<1>3. ASSUME NEW i \in 1 .. m + n PROVE c[i] = 0
  <2>1. CASE i <= m
    <3>1. i \in 1 .. m
      BY <1>1, <2>1
    <3> QED  BY <1>1, <1>2, <2>1, <3>1
  <2>2. CASE ~(i <= m)
    <3>1. i - m \in 1 .. n
      BY <1>1, <2>2
    <3> QED  BY <1>1, <1>2, <2>2, <3>1
  <2> QED  BY <2>1, <2>2
<1> QED  BY <1>1, <1>3 DEF c

\* The number of a uint256_t, big endian, with the leading words apart
LEMMA WordString ==
  ASSUME NEW w \in Seq(Nat), Len(w) = 32
  PROVE  /\ RefWord(w) \in Seq(Nat) /\ Len(RefWord(w)) = 32
         /\ (\A i \in 1 .. 24 : w[i] = 0) => Strip(RefWord(w)) = Strip(Reverse(SubSeq(w, 25, 32)))
         /\ (\A i \in 1 .. 16 : w[i] = 0) => Len(Strip(RefWord(w))) <= 16
<1> DEFINE a == Reverse(SubSeq(w, 0 + 1, 0 + 8))  b == Reverse(SubSeq(w, 8 + 1, 8 + 8))
           c == Reverse(SubSeq(w, 16 + 1, 16 + 8))  d == Reverse(SubSeq(w, 24 + 1, 24 + 8))
<1>0. 0 \in 0 .. 24 /\ 8 \in 0 .. 24 /\ 16 \in 0 .. 24 /\ 24 \in 0 .. 24
  OBVIOUS
<1>1. a \in Seq(Nat) /\ Len(a) = 8 /\ ((\A i \in 0 + 1 .. 0 + 8 : w[i] = 0) => \A i \in 1 .. 8 : a[i] = 0)
  BY <1>0, PartBack
<1>2. b \in Seq(Nat) /\ Len(b) = 8 /\ ((\A i \in 8 + 1 .. 8 + 8 : w[i] = 0) => \A i \in 1 .. 8 : b[i] = 0)
  BY <1>0, PartBack
<1>3. c \in Seq(Nat) /\ Len(c) = 8 /\ ((\A i \in 16 + 1 .. 16 + 8 : w[i] = 0) => \A i \in 1 .. 8 : c[i] = 0)
  BY <1>0, PartBack
<1>4. d \in Seq(Nat) /\ Len(d) = 8
  BY <1>0, PartBack
<1>5. /\ 0 + 1 = 1 /\ 0 + 8 = 8 /\ 8 + 1 = 9 /\ 8 + 8 = 16
      /\ 16 + 1 = 17 /\ 16 + 8 = 24 /\ 24 + 1 = 25 /\ 24 + 8 = 32
  OBVIOUS
<1>6. RefWord(w) = ((a \o b) \o c) \o d
  <2>1. a = Reverse(SubSeq(w, 1, 8)) /\ b = Reverse(SubSeq(w, 9, 16))
        /\ c = Reverse(SubSeq(w, 17, 24)) /\ d = Reverse(SubSeq(w, 25, 32))
    BY <1>5
  <2>2. RefWord(w) = ((Reverse(SubSeq(w, 1, 8)) \o Reverse(SubSeq(w, 9, 16)))
                       \o Reverse(SubSeq(w, 17, 24))) \o Reverse(SubSeq(w, 25, 32))
    BY Zenon DEF RefWord
  <2> HIDE DEF a, b, c, d
  <2> QED  BY <2>1, <2>2, Zenon
<1>14. d = Reverse(SubSeq(w, 25, 32))
  BY <1>5
<1> HIDE DEF a, b, c, d
<1> DEFINE x == a \o b  y == x \o c
<1>7. x \in Seq(Nat) /\ Len(x) = 16
  <2> HIDE DEF x, y
  <2>1. a \in Seq(Nat) /\ b \in Seq(Nat) /\ Len(a) = 8 /\ Len(b) = 8
    BY <1>1, <1>2, Zenon
  <2>2. a \o b \in Seq(Nat) /\ Len(a \o b) = Len(a) + Len(b)
    BY <2>1, Joined2
  <2>3. x = a \o b /\ 8 + 8 = 16
    BY DEF x
  <2> QED  BY <2>1, <2>2, <2>3
<1>8. y \in Seq(Nat) /\ Len(y) = 24
  <2> HIDE DEF x, y
  <2>1. c \in Seq(Nat) /\ Len(c) = 8
    BY <1>3, Zenon
  <2>2. x \o c \in Seq(Nat) /\ Len(x \o c) = Len(x) + Len(c)
    BY <1>7, <2>1, Joined2
  <2>3. y = x \o c /\ 16 + 8 = 24
    BY DEF y
  <2> QED  BY <1>7, <2>1, <2>2, <2>3
<1>9. RefWord(w) \in Seq(Nat) /\ Len(RefWord(w)) = 32
  <2> HIDE DEF y
  <2>1. RefWord(w) = y \o d
    BY <1>6 DEF y
  <2>2. y \o d \in Seq(Nat) /\ Len(y \o d) = Len(y) + Len(d)
    BY <1>4, <1>8, Joined2
  <2> QED  BY <1>4, <1>8, <2>1, <2>2
<1>10. ASSUME \A i \in 1 .. 16 : w[i] = 0 PROVE \A i \in 1 .. Len(x) : x[i] = 0
  <2>1. (\A i \in 0 + 1 .. 0 + 8 : w[i] = 0) /\ (\A i \in 8 + 1 .. 8 + 8 : w[i] = 0)
    BY <1>10
  <2>2. (\A i \in 1 .. Len(a) : a[i] = 0) /\ (\A i \in 1 .. Len(b) : b[i] = 0)
    BY <1>1, <1>2, <2>1
  <2> QED  BY <1>1, <1>2, <2>2, ZeroJoin
<1>11. ASSUME \A i \in 1 .. 24 : w[i] = 0 PROVE Strip(RefWord(w)) = Strip(d)
  <2>1. (\A i \in 1 .. 16 : w[i] = 0) /\ (\A i \in 16 + 1 .. 16 + 8 : w[i] = 0)
    BY <1>11
  <2>2. (\A i \in 1 .. Len(x) : x[i] = 0) /\ (\A i \in 1 .. Len(c) : c[i] = 0)
    BY <1>3, <1>10, <2>1
  <2>3. \A i \in 1 .. Len(y) : y[i] = 0
    <3> HIDE DEF x
    <3> QED  BY <1>3, <1>7, <2>2, ZeroJoin
  <2> HIDE DEF y
  <2>4. Strip(y \o d) = Strip(d)
    BY <1>4, <1>8, <2>3, StripZeros
  <2> QED  BY <1>6, <2>4 DEF y
<1>12. ASSUME \A i \in 1 .. 16 : w[i] = 0 PROVE Len(Strip(RefWord(w))) <= 16
  <2>1. \A i \in 1 .. Len(x) : x[i] = 0
    BY <1>10, <1>12
  <2> HIDE DEF x
  <2>2. (x \o c) \o d = x \o (c \o d)
    BY <1>3, <1>4, <1>7, Assoc
  <2> DEFINE e == c \o d
  <2>3. e \in Seq(Nat) /\ Len(e) = 16
    <3> HIDE DEF e
    <3>1. c \in Seq(Nat) /\ d \in Seq(Nat) /\ Len(c) = 8 /\ Len(d) = 8
      BY <1>3, <1>4, Zenon
    <3>2. c \o d \in Seq(Nat) /\ Len(c \o d) = Len(c) + Len(d)
      BY <3>1, Joined2
    <3>3. e = c \o d /\ 8 + 8 = 16
      BY DEF e
    <3> QED  BY <3>1, <3>2, <3>3
  <2>4. RefWord(w) = x \o e
    BY <1>6, <2>2 DEF x
  <2> HIDE DEF e
  <2>5. Strip(x \o e) = Strip(e)
    BY <1>7, <2>1, <2>3, StripZeros
  <2>6. Len(Strip(e)) = 16 + 1 - From(e) /\ From(e) \in 1 .. 16 + 1
    BY <2>3, StripIs, FromIs
  <2> DEFINE l == Len(Strip(e))  f == From(e)
  <2> HIDE DEF l, f
  <2>7. l <= 16
    BY <2>6 DEF l, f
  <2> QED  BY <2>4, <2>5, <2>7 DEF l
<1> QED  BY <1>9, <1>11, <1>12, <1>14

LEMMA Sent256Is ==
  ASSUME NEW val \in Seq(Nat), Len(val) = 32, NEW beyond \in Seq(Nat), Len(beyond) = 28
  PROVE  /\ Sent256(val, beyond) \in Seq(Nat)
         /\ rlp_encode_uint256(val, beyond) = RefItem(Sent256(val, beyond))
<1> DEFINE d == Reverse(SubSeq(val, 24 + 1, 24 + 8))
<1>1. d \in Seq(Nat) /\ d = Reverse(SubSeq(val, 25, 32))
  <2>1. 24 \in 0 .. 24 /\ 24 + 1 = 25 /\ 24 + 8 = 32
    OBVIOUS
  <2> QED  BY <2>1, PartBack
<1> HIDE DEF d
<1>2. Strip(d) \in Seq(Nat) /\ rlp_encode_integer(d) = RefItem(Strip(d))
  BY <1>1, IntegerIs
<1>3. rlp_encode_item(beyond) = RefItem(beyond) /\ rlp_encode_item(val) = RefItem(val)
  <2>1. rlp_encode_item(beyond) = RefItem(Plain(beyond)) /\ Plain(beyond) = beyond
    <3>1. Len(beyond) # 1
      OBVIOUS
    <3> QED  BY <3>1, PlainIs
  <2>2. rlp_encode_item(val) = RefItem(Plain(val)) /\ Plain(val) = val
    <3>1. Len(val) # 1
      OBVIOUS
    <3> QED  BY <3>1, PlainIs
  <2> QED  BY <2>1, <2>2
<1>4. CASE Trimmed(SubSeq(val, 1, 24)) = 0
  <2>1. Sent256(val, beyond) = Strip(d) /\ rlp_encode_uint256(val, beyond) = rlp_encode_integer(d)
    BY <1>1, <1>4, Zenon DEF Sent256, rlp_encode_uint256
  <2> QED  BY <1>2, <2>1
<1>5. CASE Trimmed(SubSeq(val, 1, 24)) # 0 /\ Trimmed(SubSeq(val, 1, 16)) = 0
  <2>1. Sent256(val, beyond) = beyond /\ rlp_encode_uint256(val, beyond) = rlp_encode_item(beyond)
    BY <1>5, Zenon DEF Sent256, rlp_encode_uint256
  <2> QED  BY <1>3, <2>1
<1>6. CASE Trimmed(SubSeq(val, 1, 24)) # 0 /\ Trimmed(SubSeq(val, 1, 16)) # 0
  <2>1. Sent256(val, beyond) = val /\ rlp_encode_uint256(val, beyond) = rlp_encode_item(val)
    BY <1>6, Zenon DEF Sent256, rlp_encode_uint256
  <2> QED  BY <1>3, <2>1
<1> QED  BY <1>4, <1>5, <1>6

LEMMA NotEmpty ==
  ASSUME NEW s \in Seq(Nat), Len(s) = 32
  PROVE  s # <<>> /\ ~(Len(s) < Len(s))
<1>1. Len(<<>>) = 0 /\ 0 # 32 /\ ~(32 < 32)
  OBVIOUS
<1>2. s # <<>>
  BY <1>1, Zenon
<1>3. ~(Len(s) < Len(s))
  BY <1>1, Zenon
<1> QED  BY <1>2, <1>3

\* A uint256_t is sent as its number but for these, ...
LEMMA SentIsRef ==
  ASSUME NEW val \in Seq(Nat), Len(val) = 32, NEW beyond \in Seq(Nat), Len(beyond) = 28
  PROVE  Sent256(val, beyond) = Strip(RefWord(val))
         <=> \/ Trimmed(SubSeq(val, 1, 24)) = 0
             \/ val[1] # 0 /\ RefWord(val) = val
<1> DEFINE w == RefWord(val)  z24 == \A i \in 1 .. 24 : val[i] = 0
           z16 == \A i \in 1 .. 16 : val[i] = 0  s == Sent256(val, beyond)
<1>1. /\ w \in Seq(Nat) /\ Len(w) = 32
      /\ z24 => Strip(w) = Strip(Reverse(SubSeq(val, 25, 32)))
      /\ z16 => Len(Strip(w)) <= 16
  BY WordString
<1>2. /\ Trimmed(SubSeq(val, 1, 24)) = 0 <=> z24
      /\ Trimmed(SubSeq(val, 1, 16)) = 0 <=> z16
  <2>1. 24 \in 1 .. 32 /\ 16 \in 1 .. 32
    OBVIOUS
  <2> QED  BY <2>1, AllZero
<1>3. z16 => val[1] = 0
  BY 1 \in 1 .. 16
<1> HIDE DEF w, z24, z16, s
<1>4. /\ z24 => s = Strip(Reverse(SubSeq(val, 25, 32)))
      /\ ~z24 /\ z16 => s = beyond
      /\ ~z24 /\ ~z16 => s = val
  BY <1>2, Zenon DEF Sent256, s
<1>5. CASE z24
  BY <1>1, <1>2, <1>4, <1>5, Zenon DEF w, s
<1>6. CASE ~z24 /\ z16
  <2>1. s = beyond /\ val[1] = 0
    BY <1>3, <1>4, <1>6
  <2> DEFINE l == Len(Strip(w))
  <2>2. l <= 16 /\ l # 28
    <3>1. l <= 16
      BY <1>1, <1>6
    <3>2. ~(28 <= 16)
      OBVIOUS
    <3> HIDE DEF l
    <3> QED  BY <3>1, <3>2
  <2>3. s # Strip(w)
    BY <2>1, <2>2
  <2> QED  BY <1>2, <1>6, <2>1, <2>3, Zenon DEF w, s
<1>7. CASE ~z24 /\ ~z16
  <2>1. s = val
    BY <1>4, <1>7
  <2>2. w # <<>>
    BY <1>1, NotEmpty
  <2>3. /\ w[1] # 0 => Strip(w) = w
        /\ w[1] = 0 => Len(Strip(w)) < Len(w)
    BY <1>1, <2>2, StripNothing
  <2>4. ASSUME val = Strip(w) PROVE val[1] # 0 /\ w = val
    <3>1. Len(Strip(w)) = 32 /\ Len(w) = 32 /\ ~(32 < 32)
      BY <1>1, <2>4
    <3>2. w[1] # 0
      BY <2>3, <3>1
    <3> QED  BY <2>3, <2>4, <3>2
  <2>5. ASSUME val[1] # 0, w = val PROVE val = Strip(w)
    BY <2>3, <2>5
  <2>6. val = Strip(w) <=> val[1] # 0 /\ w = val
    BY <2>4, <2>5, Zenon
  <2> QED  BY <1>2, <1>7, <2>1, <2>6, Zenon DEF w, s
<1> QED  BY <1>5, <1>6, <1>7, Zenon

\* ... and the halves of a signature, which are big endian, but for these.
LEMMA SentIsHalf ==
  ASSUME NEW val \in Seq(Nat), Len(val) = 32, NEW beyond \in Seq(Nat), Len(beyond) = 28,
         \E i \in 1 .. 24 : val[i] # 0
  PROVE  Sent256(val, beyond) = Strip(val) <=> val[1] # 0
<1> DEFINE z16 == \A i \in 1 .. 16 : val[i] = 0  s == Sent256(val, beyond)
<1>1. Trimmed(SubSeq(val, 1, 24)) # 0
  <2>1. 24 \in 1 .. 32
    OBVIOUS
  <2> QED  BY <2>1, AllZero
<1>2. Trimmed(SubSeq(val, 1, 16)) = 0 <=> z16
  <2>1. 16 \in 1 .. 32
    OBVIOUS
  <2> QED  BY <2>1, AllZero
<1>3. z16 => val[1] = 0
  BY 1 \in 1 .. 16
<1>4. val # <<>> /\ ~(Len(val) < Len(val))
  BY NotEmpty
<1>5. /\ val[1] # 0 => Strip(val) = val
      /\ val[1] = 0 => Len(Strip(val)) < Len(val)
  BY <1>4, StripNothing
<1>6. CASE z16
  <2>1. s = beyond /\ val[1] = 0
    BY <1>1, <1>2, <1>3, <1>6, Zenon DEF Sent256
  <2>2. Len(Strip(val)) = Len(val) + 1 - From(val) /\ From(val) \in 1 .. Len(val) + 1
    BY StripIs, FromIs
  <2>3. From(val) <= Len(val) => val[From(val)] # 0
    BY FromIs
  <2> DEFINE l == Len(Strip(val))  f == From(val)
  <2>4. l = 33 - f /\ f \in 1 .. 33 /\ (f <= 32 => val[f] # 0)
    <3> HIDE DEF l, f
    <3>1. l = 32 + 1 - f /\ f \in 1 .. 32 + 1
      BY <2>2, Zenon DEF l, f
    <3>2. f <= 32 => val[f] # 0
      BY <2>3, Zenon DEF f
    <3> QED  BY <3>1, <3>2
  <2>5. ~(f \in 1 .. 16)
    <3>1. f \in 1 .. 16 => val[f] = 0 /\ f <= 32
      BY <1>6
    <3> HIDE DEF f, l
    <3> QED  BY <2>4, <3>1
  <2>6. l # 28
    <3> HIDE DEF f, l
    <3> QED  BY <2>4, <2>5
  <2>7. s # Strip(val)
    BY <2>1, <2>6
  <2> QED  BY <2>1, <2>7, Zenon
<1>7. CASE ~z16
  <2>1. s = val
    BY <1>1, <1>2, <1>7, Zenon DEF Sent256
  <2>2. val = Strip(val) => ~(Len(Strip(val)) < Len(val))
    BY <1>4, Zenon
  <2> QED  BY <1>5, <2>1, <2>2, Zenon
<1> QED  BY <1>6, <1>7, Zenon

\* The string sent for the data of a transaction
SentData(tx) == Plain(IF tx.data = <<>> THEN <<tx.pointer>> ELSE tx.data)

LEMMA SentDataIs ==
  ASSUME NEW tx, tx.data \in Seq(Nat), tx.pointer \in Nat
  PROVE  /\ SentData(tx) \in Seq(Nat)
         /\ rlp_encode_item(IF tx.data = <<>> THEN <<tx.pointer>> ELSE tx.data)
              = RefItem(SentData(tx))
         /\ SentData(tx) = tx.data
            <=> ~(tx.data = <<0>> \/ (tx.data = <<>> /\ tx.pointer # 0))
<1> DEFINE d == tx.data  p == tx.pointer  x == IF d = <<>> THEN <<p>> ELSE d
<1>1. d \in Seq(Nat) /\ p \in Nat /\ <<p>> \in Seq(Nat) /\ <<p>> # <<>> /\ <<0>> # <<>>
      /\ (<<p>> = <<0>> <=> p = 0)
  OBVIOUS
<1>2. SentData(tx) = Plain(x)
  BY Zenon DEF SentData
<1> HIDE DEF d, p
<1>3. x \in Seq(Nat)
  BY <1>1
<1> HIDE DEF x
<1>4. Plain(x) \in Seq(Nat) /\ rlp_encode_item(x) = RefItem(Plain(x))
  BY <1>3, PlainIs
<1>5. Plain(x) = d <=> ~(d = <<0>> \/ (d = <<>> /\ p # 0))
  <2>1. CASE d = <<>>
    <3>1. x = <<p>> /\ d # <<0>>
      BY <1>1, <2>1, Zenon DEF x
    <3>2. p = 0 => Plain(x) = <<>>
      BY <1>1, <3>1, Zenon DEF Plain
    <3>3. p # 0 => Plain(x) = <<p>>
      BY <1>1, <3>1, Zenon DEF Plain
    <3> QED  BY <1>1, <2>1, <3>1, <3>2, <3>3, Zenon
  <2>2. CASE d # <<>>
    <3>1. x = d
      BY <2>2, Zenon DEF x
    <3>2. d = <<0>> => Plain(x) = <<>>
      BY <3>1, Zenon DEF Plain
    <3>3. d # <<0>> => Plain(x) = d
      BY <3>1, Zenon DEF Plain
    <3> QED  BY <1>1, <2>2, <3>2, <3>3, Zenon
  <2> QED  BY <2>1, <2>2, Zenon
<1>6. rlp_encode_item(IF tx.data = <<>> THEN <<tx.pointer>> ELSE tx.data) = rlp_encode_item(x)
  BY Zenon DEF x, d, p
<1> QED  BY <1>2, <1>4, <1>5, <1>6, Zenon DEF d, p

\* Lists written out
LEMMA SixItems ==
  ASSUME NEW a, NEW b, NEW c, NEW d, NEW e, NEW f
  PROVE  /\ Items(<<a, b, c, d, e, f>>)
              = <<RefItem(a), RefItem(b), RefItem(c), RefItem(d), RefItem(e), RefItem(f)>>
         /\ <<a, b, c, d, e, f>> \o <<>> = <<a, b, c, d, e, f>>
         /\ <<a, b, c, d, e, f>> # <<>> /\ Len(<<a, b, c, d, e, f>>) = 6
BY DEF Items

LEMMA NineJoined ==
  ASSUME NEW a, NEW b, NEW c, NEW d, NEW e, NEW f, NEW x, NEW y, NEW z,
         NEW p, p = <<a, b, c, d, e, f>>, NEW q, q = <<x, y, z>>
  PROVE  p \o q = <<a, b, c, d, e, f, x, y, z>>
<1> DEFINE S == {a, b, c, d, e, f, x, y, z}
           r == <<a, b, c, d, e, f, x, y, z>>  s == p \o q
<1>1. /\ p \in Seq(S) /\ Len(p) = 6
      /\ p[1] = a /\ p[2] = b /\ p[3] = c /\ p[4] = d /\ p[5] = e /\ p[6] = f
  OBVIOUS
<1>2. q \in Seq(S) /\ Len(q) = 3 /\ q[1] = x /\ q[2] = y /\ q[3] = z
  OBVIOUS
<1>3. /\ r \in Seq(S) /\ Len(r) = 9
      /\ r[1] = a /\ r[2] = b /\ r[3] = c /\ r[4] = d /\ r[5] = e /\ r[6] = f
      /\ r[7] = x /\ r[8] = y /\ r[9] = z
  OBVIOUS
<1> HIDE DEF S, r
<1>4. /\ s \in Seq(S) /\ Len(s) = 6 + 3
      /\ \A i \in 1 .. 6 + 3 : s[i] = IF i <= 6 THEN p[i] ELSE q[i - 6]
  <2>1. /\ p \o q \in Seq(S) /\ Len(p \o q) = Len(p) + Len(q)
        /\ \A i \in 1 .. Len(p) + Len(q) : (p \o q)[i] = IF i <= Len(p) THEN p[i] ELSE q[i - Len(p)]
    <3>1. p \in Seq(S) /\ q \in Seq(S)
      BY <1>1, <1>2, Zenon
    <3> QED  BY <3>1, ConcatProperties
  <2> QED  BY <1>1, <1>2, <2>1, Zenon
<1> HIDE DEF s
<1>5. ASSUME NEW i \in 1 .. 9 PROVE s[i] = r[i]
  <2>1. s[i] = IF i <= 6 THEN p[i] ELSE q[i - 6]
    BY <1>4
  <2> QED  BY <1>1, <1>2, <1>3, <2>1
<1>6. s = r
  <2>1. Len(s) = Len(r) /\ Len(s) = 9
    BY <1>3, <1>4
  <2>2. \A i \in 1 .. Len(s) : s[i] = r[i]
    BY <1>5, <2>1
  <2> QED  BY <1>3, <1>4, <2>1, <2>2, SeqEqual
<1> QED  BY <1>6 DEF s, r

LEMMA SixStrings ==
  ASSUME NEW S, NEW a \in S, NEW b \in S, NEW c \in S, NEW d \in S, NEW e \in S, NEW f \in S
  PROVE  <<a, b, c, d, e, f>> \in Seq(S)
OBVIOUS

LEMMA NineStrings ==
  ASSUME NEW S, NEW a \in S, NEW b \in S, NEW c \in S, NEW d \in S, NEW e \in S, NEW f \in S,
         NEW x \in S, NEW y \in S, NEW z \in S
  PROVE  <<a, b, c, d, e, f, x, y, z>> \in Seq(S)
OBVIOUS

\* The payloads of two lists are alike when their strings are.
LEMMA PayloadOf ==
  ASSUME NEW s \in Seq(Seq(Nat)), s # <<>>
  PROVE  FlattenSeq(Items(s)) \in Seq(Nat)
<1> DEFINE x == Items(s)
<1>1. x \in Seq(Seq(Nat)) /\ x # <<>> /\ Len(x) = Len(s) /\ Len(s) \in Nat \ {0}
  BY ItemsAre
<1> HIDE DEF x
<1>2. PICK f : Grows(f, x) /\ FlattenSeq(x) = f[Len(x)]
  BY <1>1, FlattenIs
<1>3. Len(x) \in 1 .. Len(x)
  BY <1>1
<1>4. f \in [1 .. Len(x) -> Seq(Nat)]
  BY <1>2, Zenon DEF Grows
<1>5. f[Len(x)] \in Seq(Nat)
  BY <1>3, <1>4
<1> QED  BY <1>2, <1>5 DEF x

LEMMA CodedList ==
  ASSUME NEW s \in Seq(Seq(Nat)), NEW t \in Seq(Seq(Nat)), s # <<>>, t # <<>>, Len(s) = Len(t)
  PROVE  Coded(FlattenSeq(Items(s))) = RefCoded(FlattenSeq(Items(t)))
         <=> s = t /\ Len(FlattenSeq(Items(t))) # 55
<1> DEFINE p == FlattenSeq(Items(s))  q == FlattenSeq(Items(t))
<1>1. p \in Seq(Nat) /\ q \in Seq(Nat)
  BY PayloadOf
<1>2. p = q => s = t
  <2> SUFFICES ASSUME p = q PROVE s = t
    OBVIOUS
  <2>1. \A i \in 1 .. Len(s) : s[i] = t[i]
    BY ReadBack
  <2> DEFINE S == Seq(Nat)
  <2>2. s \in Seq(S) /\ t \in Seq(S)
    OBVIOUS
  <2> HIDE DEF S
  <2> QED  BY <2>1, <2>2, SeqEqual
<1>3. s = t => p = q
  OBVIOUS
<1> HIDE DEF p, q
<1>4. Coded(p) = RefCoded(q) <=> p = q /\ Len(q) # 55
  BY <1>1, FramedAlike
<1> QED  BY <1>2, <1>3, <1>4, Zenon DEF p, q

\* What tx_encode() is given: integers of 8 bytes, an address of 20, a value of
\* 32, any data; and a signature, or none, of halves of 32 bytes that do not fit
\* one word of 64 bits.
Bytes(b, n) == b \in Seq(Byte) /\ Len(b) = n
IsTx(tx) ==
  /\ Bytes(tx.nonce, 8) /\ Bytes(tx.gas_price, 8) /\ Bytes(tx.gas_limit, 8)
  /\ Bytes(tx.to, 20) /\ Bytes(tx.value, 32)
  /\ tx.data \in Seq(Byte) /\ tx.pointer \in Byte
IsHalf(b) == Bytes(b, 32) /\ \E i \in 1 .. 24 : b[i] # 0
IsSig(sig) == sig = NoSig \/ (Bytes(sig.v, 8) /\ IsHalf(sig.r) /\ IsHalf(sig.s))

LEMMA BytesAre == Seq(Byte) \subseteq Seq(Nat) /\ Byte \subseteq Nat
<1>1. Byte \subseteq Nat
  BY DEF Byte
<1>2. ASSUME NEW s \in Seq(Byte) PROVE s \in Seq(Nat)
  <2>1. Len(s) \in Nat /\ s \in [1 .. Len(s) -> Byte]
    OBVIOUS
  <2>2. s \in [1 .. Len(s) -> Nat]
    BY <1>1, <2>1
  <2> QED  BY <2>1, <2>2, SequenceOf
<1> QED  BY <1>1, <1>2

\* A transaction is the RLP of its fields exactly but for the cases of Inexact.
THEOREM TransactionsExact ==
  ASSUME NEW tx, IsTx(tx), NEW sig, IsSig(sig), NEW beyond, Bytes(beyond, 28)
  PROVE  TxExact(tx, sig, beyond)
<1> DEFINE S == Seq(Nat)
           a == Strip(tx.nonce)  b == Strip(tx.gas_price)  c == Strip(tx.gas_limit)
           d == tx.to  e == Sent256(tx.value, beyond)  f == SentData(tx)
           g == Strip(RefWord(tx.value))  h == tx.data
           list == <<a, b, c, d, e, f>>  ref == <<a, b, c, d, g, h>>
           plain == <<rlp_encode_integer(tx.nonce), rlp_encode_integer(tx.gas_price),
                      rlp_encode_integer(tx.gas_limit), rlp_encode_item(tx.to),
                      rlp_encode_uint256(tx.value, beyond),
                      rlp_encode_item(IF tx.data = <<>> THEN <<tx.pointer>> ELSE tx.data)>>
           refplain == <<RefInteger(tx.nonce), RefInteger(tx.gas_price), RefInteger(tx.gas_limit),
                         RefItem(tx.to), RefInteger(RefWord(tx.value)), RefItem(tx.data)>>
           wrong == tx.data = <<0>> \/ (tx.data = <<>> /\ tx.pointer # 0)
<1>1. /\ tx.nonce \in S /\ tx.gas_price \in S /\ tx.gas_limit \in S
      /\ tx.to \in S /\ Len(tx.to) = 20 /\ tx.value \in S /\ Len(tx.value) = 32
      /\ tx.data \in S /\ tx.pointer \in Nat /\ beyond \in S /\ Len(beyond) = 28
  BY BytesAre, Zenon DEF IsTx, Bytes
<1>2. /\ a \in S /\ rlp_encode_integer(tx.nonce) = RefItem(a) /\ RefInteger(tx.nonce) = RefItem(a)
  BY <1>1, IntegerIs
<1>3. /\ b \in S /\ rlp_encode_integer(tx.gas_price) = RefItem(b) /\ RefInteger(tx.gas_price) = RefItem(b)
  BY <1>1, IntegerIs
<1>4. /\ c \in S /\ rlp_encode_integer(tx.gas_limit) = RefItem(c) /\ RefInteger(tx.gas_limit) = RefItem(c)
  BY <1>1, IntegerIs
<1>5. d \in S /\ rlp_encode_item(tx.to) = RefItem(d)
  <2>1. Len(tx.to) # 1
    BY <1>1
  <2> QED  BY <1>1, <2>1, PlainIs
<1>6. e \in S /\ rlp_encode_uint256(tx.value, beyond) = RefItem(e)
  BY <1>1, Sent256Is
<1>7. /\ f \in S /\ h \in S /\ (f = h <=> ~wrong)
      /\ rlp_encode_item(IF tx.data = <<>> THEN <<tx.pointer>> ELSE tx.data) = RefItem(f)
  BY <1>1, SentDataIs
<1>8. g \in S /\ RefInteger(RefWord(tx.value)) = RefItem(g)
  <2>1. RefWord(tx.value) \in S
    BY <1>1, WordString
  <2> QED  BY <2>1, IntegerIs
<1>9. e = g <=> ~Wide(tx)
  <2>1. e = g <=> \/ Trimmed(SubSeq(tx.value, 1, 24)) = 0
                  \/ tx.value[1] # 0 /\ RefWord(tx.value) = tx.value
    BY <1>1, SentIsRef
  <2> QED  BY <2>1, Zenon DEF Wide
<1>10. plain = <<RefItem(a), RefItem(b), RefItem(c), RefItem(d), RefItem(e), RefItem(f)>>
  BY <1>2, <1>3, <1>4, <1>5, <1>6, <1>7, Zenon
<1>11. refplain = <<RefItem(a), RefItem(b), RefItem(c), RefItem(d), RefItem(g), RefItem(h)>>
  BY <1>2, <1>3, <1>4, <1>8, Zenon
<1>12. CASE sig = NoSig
  <2>1. /\ tx_encode(tx, sig, beyond) = Coded(FlattenSeq(plain \o <<>>))
        /\ RefTx(tx, sig) = refplain \o <<>>
        /\ RefList(RefTx(tx, sig)) = RefCoded(FlattenSeq(RefTx(tx, sig)))
    BY <1>12, Zenon DEF tx_encode, RefTx, RefList, Coded, RefCoded, RefHead
  <2>2. Inexact(tx, sig) <=> Wide(tx) \/ wrong \/ Len(FlattenSeq(RefTx(tx, sig))) = 55
    BY <1>12, Zenon DEF Inexact
  <2> HIDE DEF a, b, c, d, e, f, g, h, plain, refplain, S, wrong
  <2>3. Items(list) = plain /\ plain \o <<>> = plain /\ list # <<>> /\ Len(list) = 6
    <3>1. /\ Items(list) = <<RefItem(a), RefItem(b), RefItem(c), RefItem(d), RefItem(e), RefItem(f)>>
          /\ list # <<>> /\ Len(list) = 6
      BY SixItems
    <3>2. plain \o <<>> = plain
      BY <1>10
    <3> QED  BY <1>10, <3>1, <3>2, Zenon
  <2>4. Items(ref) = refplain /\ refplain \o <<>> = refplain /\ ref # <<>> /\ Len(ref) = 6
    <3>1. /\ Items(ref) = <<RefItem(a), RefItem(b), RefItem(c), RefItem(d), RefItem(g), RefItem(h)>>
          /\ ref # <<>> /\ Len(ref) = 6
      BY SixItems
    <3>2. refplain \o <<>> = refplain
      BY <1>11
    <3> QED  BY <1>11, <3>1, <3>2, Zenon
  <2>5. list \in Seq(S)
    BY <1>2, <1>3, <1>4, <1>5, <1>6, <1>7, SixStrings, Zenon
  <2>6. ref \in Seq(S)
    BY <1>2, <1>3, <1>4, <1>5, <1>7, <1>8, SixStrings, Zenon
  <2>7. list = ref <=> e = g /\ f = h
    OBVIOUS
  <2> HIDE DEF list, ref
  <2>8. Coded(FlattenSeq(Items(list))) = RefCoded(FlattenSeq(Items(ref)))
        <=> list = ref /\ Len(FlattenSeq(Items(ref))) # 55
    <3>1. Len(list) = Len(ref)
      BY <2>3, <2>4
    <3> QED  BY <2>3, <2>4, <2>5, <2>6, <3>1, CodedList DEF S
  <2>9. tx_encode(tx, sig, beyond) = RefList(RefTx(tx, sig))
        <=> e = g /\ f = h /\ Len(FlattenSeq(RefTx(tx, sig))) # 55
    BY <2>1, <2>3, <2>4, <2>7, <2>8, Zenon
  <2> QED  BY <1>7, <1>9, <2>2, <2>9, Zenon DEF TxExact
<1>13. CASE sig # NoSig
  <2> DEFINE x == Strip(sig.v)  y == Sent256(sig.r, beyond)  z == Sent256(sig.s, beyond)
             u == Strip(sig.r)  w == Strip(sig.s)
             list9 == <<a, b, c, d, e, f, x, y, z>>  ref9 == <<a, b, c, d, g, h, x, u, w>>
             tail == <<rlp_encode_integer(sig.v), rlp_encode_uint256(sig.r, beyond),
                       rlp_encode_uint256(sig.s, beyond)>>
             reftail == <<RefInteger(sig.v), RefInteger(sig.r), RefInteger(sig.s)>>
  <2>0. /\ sig.v \in S /\ sig.r \in S /\ Len(sig.r) = 32 /\ sig.s \in S /\ Len(sig.s) = 32
        /\ \E i \in 1 .. 24 : sig.r[i] # 0
        /\ \E i \in 1 .. 24 : sig.s[i] # 0
    BY <1>13, BytesAre, Zenon DEF IsSig, IsHalf, Bytes
  <2>1. /\ tx_encode(tx, sig, beyond) = Coded(FlattenSeq(plain \o tail))
        /\ RefTx(tx, sig) = refplain \o reftail
        /\ RefList(RefTx(tx, sig)) = RefCoded(FlattenSeq(RefTx(tx, sig)))
    BY <1>13, Zenon DEF tx_encode, RefTx, RefList, Coded, RefCoded, RefHead
  <2>2. Inexact(tx, sig) <=> Wide(tx) \/ wrong \/ sig.r[1] = 0 \/ sig.s[1] = 0
                             \/ Len(FlattenSeq(RefTx(tx, sig))) = 55
    BY <1>13, Zenon DEF Inexact
  <2>3. x \in S /\ rlp_encode_integer(sig.v) = RefItem(x) /\ RefInteger(sig.v) = RefItem(x)
    BY <2>0, IntegerIs
  <2>4. y \in S /\ rlp_encode_uint256(sig.r, beyond) = RefItem(y)
    BY <1>1, <2>0, Sent256Is
  <2>5. z \in S /\ rlp_encode_uint256(sig.s, beyond) = RefItem(z)
    BY <1>1, <2>0, Sent256Is
  <2>6. u \in S /\ RefInteger(sig.r) = RefItem(u)
    BY <2>0, IntegerIs
  <2>7. w \in S /\ RefInteger(sig.s) = RefItem(w)
    BY <2>0, IntegerIs
  <2>8. y = u <=> sig.r[1] # 0
    BY <1>1, <2>0, SentIsHalf
  <2>9. z = w <=> sig.s[1] # 0
    BY <1>1, <2>0, SentIsHalf
  <2>10. tail = <<RefItem(x), RefItem(y), RefItem(z)>>
    BY <2>3, <2>4, <2>5, Zenon
  <2>11. reftail = <<RefItem(x), RefItem(u), RefItem(w)>>
    BY <2>3, <2>6, <2>7, Zenon
  <2> HIDE DEF a, b, c, d, e, f, g, h, plain, refplain, S, wrong, x, y, z, u, w, tail, reftail
  <2>12. Items(list9) = plain \o tail /\ list9 # <<>> /\ Len(list9) = 9
    <3>1. /\ Items(list9) = <<RefItem(a), RefItem(b), RefItem(c), RefItem(d), RefItem(e), RefItem(f),
                               RefItem(x), RefItem(y), RefItem(z)>>
          /\ list9 # <<>> /\ Len(list9) = 9
      BY DEF Items
    <3>2. plain \o tail = <<RefItem(a), RefItem(b), RefItem(c), RefItem(d), RefItem(e), RefItem(f),
                            RefItem(x), RefItem(y), RefItem(z)>>
      BY <1>10, <2>10, NineJoined
    <3> QED  BY <3>1, <3>2, Zenon
  <2>13. Items(ref9) = refplain \o reftail /\ ref9 # <<>> /\ Len(ref9) = 9
    <3>1. /\ Items(ref9) = <<RefItem(a), RefItem(b), RefItem(c), RefItem(d), RefItem(g), RefItem(h),
                              RefItem(x), RefItem(u), RefItem(w)>>
          /\ ref9 # <<>> /\ Len(ref9) = 9
      BY DEF Items
    <3>2. refplain \o reftail = <<RefItem(a), RefItem(b), RefItem(c), RefItem(d), RefItem(g), RefItem(h),
                                  RefItem(x), RefItem(u), RefItem(w)>>
      BY <1>11, <2>11, NineJoined
    <3> QED  BY <3>1, <3>2, Zenon
  <2>14. list9 \in Seq(S)
    BY <1>2, <1>3, <1>4, <1>5, <1>6, <1>7, <2>3, <2>4, <2>5, NineStrings, Zenon
  <2>15. ref9 \in Seq(S)
    BY <1>2, <1>3, <1>4, <1>5, <1>7, <1>8, <2>3, <2>6, <2>7, NineStrings, Zenon
  <2>16. list9 = ref9 <=> e = g /\ f = h /\ y = u /\ z = w
    OBVIOUS
  <2> HIDE DEF list9, ref9
  <2>17. Coded(FlattenSeq(Items(list9))) = RefCoded(FlattenSeq(Items(ref9)))
         <=> list9 = ref9 /\ Len(FlattenSeq(Items(ref9))) # 55
    <3>1. Len(list9) = Len(ref9)
      BY <2>12, <2>13
    <3> QED  BY <2>12, <2>13, <2>14, <2>15, <3>1, CodedList, ZenonT(60) DEF S
  <2>18. tx_encode(tx, sig, beyond) = RefList(RefTx(tx, sig))
         <=> e = g /\ f = h /\ y = u /\ z = w /\ Len(FlattenSeq(RefTx(tx, sig))) # 55
    BY <2>1, <2>12, <2>13, <2>16, <2>17, Zenon
  <2> QED  BY <1>7, <1>9, <2>2, <2>8, <2>9, <2>18, Zenon DEF TxExact
<1> QED  BY <1>12, <1>13

\* The transactions of the run
LEMMA BytesJoin ==
  ASSUME NEW m \in Nat, NEW n \in Nat, NEW a, NEW b, Bytes(a, m), Bytes(b, n)
  PROVE  Bytes(a \o b, m + n)
<1>1. a \in Seq(Byte) /\ Len(a) = m /\ b \in Seq(Byte) /\ Len(b) = n
  BY DEF Bytes
<1>2. a \o b \in Seq(Byte) /\ Len(a \o b) = Len(a) + Len(b)
  BY <1>1, ConcatProperties
<1> QED  BY <1>1, <1>2 DEF Bytes

LEMMA BytesBack ==
  ASSUME NEW n \in Nat, NEW b, Bytes(b, n)
  PROVE  Bytes(Reverse(b), n)
<1> DEFINE r == Reverse(b)
<1>1. b \in Seq(Byte) /\ Len(b) = n
  BY DEF Bytes
<1>2. r = [i \in 1 .. n |-> b[(n - i) + 1]]
  BY <1>1 DEF Reverse
<1>3. \A i \in 1 .. n : (n - i) + 1 \in 1 .. n
  OBVIOUS
<1>4. \A i \in 1 .. n : b[i] \in Byte
  BY <1>1
<1>5. r \in [1 .. n -> Byte]
  BY <1>2, <1>3, <1>4
<1> HIDE DEF r
<1>6. r \in Seq(Byte) /\ Len(r) = n
  BY <1>5, BytesOf
<1> QED  BY <1>6 DEF Bytes, r

LEMMA ByteStringShort ==
  ASSUME NEW n \in Nat, NEW k \in Nat,
         ByteString[n \div 256] \in Seq(Byte), Len(ByteString[n \div 256]) \in 0 .. k
  PROVE  ByteString[n] \in Seq(Byte) /\ Len(ByteString[n]) \in 0 .. k + 1
<1> DEFINE s == ByteString[n \div 256]  d == n % 256
<1>1. s \in Seq(Byte) /\ Len(s) \in 0 .. k /\ d \in Byte
  <2>1. d \in 0 .. 255
    OBVIOUS
  <2> QED  BY <2>1 DEF Byte
<1>2. ByteString[n] = IF n = 0 THEN <<>> ELSE Append(s, d)
  BY ByteStringDef DEF ByteBody
<1> HIDE DEF s, d
<1>3. Append(s, d) \in Seq(Byte) /\ Len(Append(s, d)) = Len(s) + 1
  BY <1>1, AppendProperties
<1>4. <<>> \in Seq(Byte) /\ Len(<<>>) = 0
  OBVIOUS
<1> DEFINE t == Append(s, d)  l == Len(s)
<1>5. t \in Seq(Byte) /\ Len(t) = l + 1 /\ l \in 0 .. k
  BY <1>1, <1>3
<1> HIDE DEF t, l
<1>6. l + 1 \in 0 .. k + 1 /\ 0 \in 0 .. k + 1
  BY <1>5
<1> QED  BY <1>2, <1>4, <1>5, <1>6 DEF t

\* An integer of at most 32 bits
Short(n) == n \in Nat /\ ((n \div 256) \div 256) \div 256 \in 0 .. 255

LEMMA ByteStringWord ==
  ASSUME NEW n, Short(n)
  PROVE  ByteString[n] \in Seq(Byte) /\ Len(ByteString[n]) \in 0 .. 4
<1> DEFINE a == n \div 256  b == a \div 256  c == b \div 256
<1>0. n \in Nat /\ c \in 0 .. 255
  BY DEF Short
<1>1. n \in Nat /\ a \in Nat
  BY <1>0
<1> HIDE DEF a
<1>2. a \in Nat /\ b \in Nat
  BY <1>1
<1> HIDE DEF b
<1>3. b \in Nat /\ c \in Nat
  BY <1>2
<1> HIDE DEF c
<1>4. c \in Nat /\ c \div 256 = 0
  <2>1. c \in 0 .. 255
    BY <1>0 DEF a, b, c
  <2> QED  BY <2>1
<1>5. ByteString[0] = <<>>
  BY ByteStringDef, 0 \in Nat DEF ByteBody
<1>6. ByteString[c \div 256] \in Seq(Byte) /\ Len(ByteString[c \div 256]) \in 0 .. 0
  <2> DEFINE e == ByteString[c \div 256]
  <2>1. e = <<>>
    BY <1>4, <1>5
  <2>2. <<>> \in Seq(Byte) /\ Len(<<>>) \in 0 .. 0
    OBVIOUS
  <2> HIDE DEF e
  <2>3. e \in Seq(Byte) /\ Len(e) \in 0 .. 0
    BY <2>1, <2>2
  <2> QED  BY <2>3 DEF e
<1>7. ByteString[c] \in Seq(Byte) /\ Len(ByteString[c]) \in 0 .. 0 + 1
  BY <1>4, <1>6, ByteStringShort, 0 \in Nat
<1>8. ByteString[b] \in Seq(Byte) /\ Len(ByteString[b]) \in 0 .. 1 + 1
  <2>1. ByteString[b \div 256] \in Seq(Byte) /\ Len(ByteString[b \div 256]) \in 0 .. 1
    BY <1>7 DEF c
  <2> QED  BY <1>3, <2>1, ByteStringShort, 1 \in Nat
<1>9. ByteString[a] \in Seq(Byte) /\ Len(ByteString[a]) \in 0 .. 2 + 1
  <2>1. ByteString[a \div 256] \in Seq(Byte) /\ Len(ByteString[a \div 256]) \in 0 .. 2
    BY <1>8 DEF b
  <2> QED  BY <1>2, <2>1, ByteStringShort, 2 \in Nat
<1>10. ByteString[n] \in Seq(Byte) /\ Len(ByteString[n]) \in 0 .. 3 + 1
  <2>1. ByteString[n \div 256] \in Seq(Byte) /\ Len(ByteString[n \div 256]) \in 0 .. 3
    BY <1>9 DEF a
  <2> QED  BY <1>1, <2>1, ByteStringShort, 3 \in Nat
<1> QED  BY <1>10

LEMMA Int8Is ==
  ASSUME NEW n, Short(n)
  PROVE  Bytes(Int8(n), 8)
<1> DEFINE s == ByteString[n]  l == Len(s)  z == ZeroBytes(8 - l)
<1>1. s \in Seq(Byte) /\ l \in 0 .. 4
  BY ByteStringWord
<1>2. Int8(n) = z \o s
  BY DEF Int8
<1> HIDE DEF l, s
<1>3. 8 - l \in Nat /\ l \in Nat /\ (8 - l) + l = 8
  BY <1>1
<1>4. Bytes(z, 8 - l)
  BY <1>3, Zeroed DEF Bytes
<1>5. Bytes(s, l)
  BY <1>1 DEF Bytes, l
<1> HIDE DEF z
<1>6. Bytes(z \o s, (8 - l) + l)
  BY <1>3, <1>4, <1>5, BytesJoin
<1> QED  BY <1>2, <1>3, <1>6

LEMMA WeiIs ==
  ASSUME NEW n, Short(n)
  PROVE  Bytes(Wei(n), 32)
<1> DEFINE z == ZeroBytes(24)  r == Reverse(Int8(n))
<1>1. Bytes(r, 8)
  BY Int8Is, BytesBack, 8 \in Nat
<1>2. Bytes(z, 24)
  BY Zeroed, 24 \in Nat DEF Bytes
<1>3. Wei(n) = z \o r /\ 24 + 8 = 32
  BY DEF Wei
<1> HIDE DEF z, r
<1>4. Bytes(z \o r, 24 + 8)
  BY <1>1, <1>2, BytesJoin, 24 \in Nat, 8 \in Nat
<1> QED  BY <1>3, <1>4

LEMMA CountIs == Bytes([i \in 1 .. 31 |-> i], 31) /\ [i \in 1 .. 31 |-> i][1] = 1
<1>1. [i \in 1 .. 31 |-> i] \in [1 .. 31 -> Byte]
  BY DEF Byte
<1>2. 31 \in Nat
  OBVIOUS
<1> DEFINE c == [i \in 1 .. 31 |-> i]
<1>3. c[1] = 1 /\ c \in [1 .. 31 -> Byte]
  BY <1>1
<1> HIDE DEF c
<1>4. c \in Seq(Byte) /\ Len(c) = 31
  BY <1>2, <1>3, BytesOf
<1> QED  BY <1>3, <1>4 DEF Bytes, c

LEMMA HalfIs ==
  ASSUME NEW b \in Byte
  PROVE  IsHalf(Half(b))
<1> DEFINE c == [i \in 1 .. 31 |-> i]  d == <<b>>  e == d \o c
<1>1. Bytes(d, 1) /\ d \in Seq(Byte) /\ Len(d) = 1
  BY DEF Bytes
<1>2. Bytes(c, 31) /\ c[1] = 1 /\ c \in Seq(Byte) /\ Len(c) = 31
  BY CountIs DEF Bytes
<1>3. Half(b) = e
  BY DEF Half
<1> HIDE DEF c, d
<1>4. /\ e \in Seq(Byte) /\ Len(e) = Len(d) + Len(c)
      /\ \A i \in 1 .. Len(d) + Len(c) : e[i] = IF i <= Len(d) THEN d[i] ELSE c[i - Len(d)]
  BY <1>1, <1>2, ConcatProperties
<1> HIDE DEF e
<1>5. Len(e) = 32 /\ e[2] = 1
  <2>1. 2 \in 1 .. Len(d) + Len(c) /\ ~(2 <= Len(d)) /\ 2 - Len(d) = 1
    BY <1>1, <1>2
  <2>2. e[2] = c[2 - Len(d)]
    BY <1>4, <2>1
  <2> QED  BY <1>1, <1>2, <1>4, <2>1, <2>2
<1>6. \E i \in 1 .. 24 : e[i] # 0
  <2>1. 2 \in 1 .. 24 /\ e[2] # 0
    BY <1>5
  <2> QED  BY <2>1
<1> QED  BY <1>3, <1>4, <1>5, <1>6 DEF IsHalf, Bytes

LEMMA SigsAre ==
  ASSUME NEW sig \in Sigs
  PROVE  IsSig(sig)
<1>1. CASE sig = NoSig
  BY <1>1 DEF IsSig
<1>2. CASE sig # NoSig
  <2>1. /\ sig.v = Int8(27)
        /\ sig.r \in {Half(0), Half(9), Half(180)}
        /\ sig.s \in {Half(0), Half(60)}
    BY <1>2 DEF Sigs
  <2>2. Bytes(Int8(27), 8)
    <3>1. Short(27)
      BY SMT DEF Short
    <3> QED  BY <3>1, Int8Is
  <2>3. IsHalf(Half(0)) /\ IsHalf(Half(9)) /\ IsHalf(Half(180)) /\ IsHalf(Half(60))
    <3>1. 0 \in Byte /\ 9 \in Byte /\ 180 \in Byte /\ 60 \in Byte
      BY DEF Byte
    <3> QED  BY <3>1, HalfIs
  <2> QED  BY <2>1, <2>2, <2>3, ZenonT(60) DEF IsSig
<1> QED  BY <1>1, <1>2

LEMMA TxsAre ==
  ASSUME NEW tx \in Txs
  PROVE  IsTx(tx)
<1>0. /\ tx.nonce \in {Int8(n) : n \in {0, 1, 127, 128, 256}}
      /\ tx.gas_price = Int8(1000000000) /\ tx.gas_limit = Int8(21000) /\ tx.to = Addr
      /\ tx.data \in {<<>>, <<0>>, <<7>>, <<200>>, <<23, 45>>}
                       \cup {Repeat(9, n) : n \in {18, 19, 20, 68, 260}}
      /\ tx.pointer \in {0, 8, 200}
      /\ tx.value \in Values
  BY SMT DEF Txs
<1>1. Bytes(tx.nonce, 8)
  <2>2. PICK n \in {0, 1, 127, 128, 256} : tx.nonce = Int8(n)
    BY <1>0
  <2>3. Short(n)
    BY SMT DEF Short
  <2> QED  BY <2>2, <2>3, Int8Is
<1>2. Bytes(tx.gas_price, 8)
  <2>1. Short(1000000000)
    BY SMT DEF Short
  <2> QED  BY <1>0, <2>1, Int8Is, SMT
<1>3. Bytes(tx.gas_limit, 8)
  <2>1. Short(21000)
    BY SMT DEF Short
  <2> QED  BY <1>0, <2>1, Int8Is, SMT
<1>4. Bytes(tx.to, 20)
  <2>1. Addr \in [1 .. 20 -> Byte]
    BY DEF Addr, Byte
  <2>2. Addr \in Seq(Byte) /\ Len(Addr) = 20
    BY <2>1, BytesOf
  <2> QED  BY <1>0, <2>2 DEF Bytes
<1>5. Bytes(tx.value, 32)
  <2>1. Bytes(Wei(0), 32) /\ Bytes(Wei(5), 32) /\ Bytes(Wei(1000000000), 32)
    <3>1. Short(0) /\ Short(5) /\ Short(1000000000)
      BY SMT DEF Short
    <3> QED  BY <3>1, WeiIs, SMT
  <2>2. Bytes(OneHigh, 32)
    <3> DEFINE y == ZeroBytes(23)  z == ZeroBytes(8)  o == <<1>>
    <3>1. Bytes(y, 23) /\ Bytes(z, 8)
      BY Zeroed, 23 \in Nat, 8 \in Nat DEF Bytes
    <3>2. Bytes(o, 1)
      BY DEF Bytes, Byte
    <3>3. OneHigh = (y \o o) \o z /\ (23 + 1) + 8 = 32 /\ 23 + 1 \in Nat
      BY DEF OneHigh
    <3> HIDE DEF y, z, o
    <3>4. Bytes(y \o o, 23 + 1)
      BY <3>1, <3>2, BytesJoin, 23 \in Nat, 1 \in Nat
    <3> DEFINE x == y \o o  k == 23 + 1
    <3>5. Bytes(x, k) /\ k \in Nat
      BY <3>3, <3>4
    <3> HIDE DEF x, k
    <3>6. Bytes(x \o z, k + 8)
      BY <3>1, <3>5, BytesJoin, 8 \in Nat
    <3>7. OneHigh = x \o z /\ k + 8 = 32
      BY <3>3 DEF x, k
    <3> QED  BY <3>6, <3>7
  <2>3. Bytes(Half(3), 32)
    <3>1. 3 \in Byte
      BY DEF Byte
    <3> QED  BY <3>1, HalfIs, Zenon DEF IsHalf
  <2>4. Bytes(Repeat(1, 32), 32)
    <3>1. 1 \in Byte /\ 32 \in Nat
      BY DEF Byte
    <3> QED  BY <3>1, RepeatBytes, Zenon DEF Bytes
  <2> QED  BY <1>0, <2>1, <2>2, <2>3, <2>4, SMT DEF Values
<1>6. tx.data \in Seq(Byte)
  <2>2. CASE tx.data \in {<<>>, <<0>>, <<7>>, <<200>>, <<23, 45>>}
    <3>1. /\ <<>> \in Seq(Byte) /\ <<0>> \in Seq(Byte) /\ <<7>> \in Seq(Byte)
          /\ <<200>> \in Seq(Byte) /\ <<23, 45>> \in Seq(Byte)
      BY DEF Byte
    <3> QED  BY <2>2, <3>1
  <2>3. CASE tx.data \in {Repeat(9, n) : n \in {18, 19, 20, 68, 260}}
    <3>1. PICK n \in {18, 19, 20, 68, 260} : tx.data = Repeat(9, n)
      BY <2>3
    <3>2. n \in Nat /\ 9 \in Byte
      BY DEF Byte
    <3> QED  BY <3>1, <3>2, RepeatBytes
  <2> QED  BY <1>0, <2>2, <2>3
<1>7. tx.pointer \in Byte
  BY <1>0 DEF Byte
<1> QED  BY <1>1, <1>2, <1>3, <1>4, <1>5, <1>6, <1>7, Zenon DEF IsTx

\* The arguments of the subject "tx" are transactions.
TxTaken == subject = "tx" => arg = None \/ arg \in TxArgs

\* The same of the transactions the Data run takes for arguments.
THEOREM TransactionKept == Spec => []TransactionEncoded
<1>1. Init => TxTaken
  BY DEF Init, TxTaken
<1>2. TxTaken /\ [Next]_vars => TxTaken'
  BY DEF TxTaken, Next, Take, Token, vars
<1>3. TxTaken => TransactionEncoded
  <2> SUFFICES ASSUME subject = "tx", arg \in TxArgs
               PROVE  TxExact(arg.tx, arg.sig, arg.beyond)
    BY DEF TxTaken, TransactionEncoded, Of
  <2>1. arg.tx \in Txs /\ arg.sig \in Sigs /\ arg.beyond \in Beyond
    BY DEF TxArgs
  <2>2. IsTx(arg.tx) /\ IsSig(arg.sig)
    BY <2>1, TxsAre, SigsAre
  <2>3. Bytes(arg.beyond, 28)
    BY <2>1, BeyondAssumption DEF Bytes, Byte
  <2> QED  BY <2>2, <2>3, TransactionsExact
<1> QED  BY <1>1, <1>2, <1>3, PTL DEF Spec

-----------------------------------------------------------------------------
(* The strings and numbers of the Data run.                                 *)

LEMMA SeqsOf ==
  ASSUME NEW S \in SUBSET Int, NEW n \in Nat, NEW s \in SeqOf(S, n)
  PROVE  s \in Seq(Int)
<1>1. PICK m \in 0 .. n : s \in [1 .. m -> S]
  BY DEF SeqOf
<1>2. s = [i \in 1 .. m |-> s[i]] /\ \A i \in 1 .. m : s[i] \in Int
  BY <1>1
<1>3. s \in [1 .. m -> Int] /\ m \in Nat
  BY <1>2
<1> QED  BY <1>3

LEMMA RepeatIs ==
  ASSUME NEW c \in Int, NEW n \in Nat
  PROVE  Repeat(c, n) \in Seq(Int)
<1>1. Repeat(c, n) \in [1 .. n -> Int]
  BY DEF Repeat
<1> QED  BY <1>1

LEMMA CharsAre == Chars \in SUBSET Int
BY DEF Chars, CharX, Other

LEMMA TextsAre ==
  ASSUME NEW s \in Texts
  PROVE  s \in Seq(Int)
<1>1. CASE s \in SeqOf(Chars, 5)
  BY <1>1, CharsAre, SeqsOf, 5 \in Nat
<1>2. CASE s \in {<<0, CharX>> \o t : t \in SeqOf(Chars \ {Other}, 4)}
  <2>1. PICK t \in SeqOf(Chars \ {Other}, 4) : s = <<0, CharX>> \o t
    BY <1>2
  <2>2. Chars \ {Other} \in SUBSET Int
    BY CharsAre
  <2>3. t \in Seq(Int) /\ <<0, CharX>> \in Seq(Int)
    BY <2>2, SeqsOf, 4 \in Nat DEF CharX
  <2> QED  BY <2>1, <2>3, ConcatProperties
<1>3. CASE s \in {<<7>> \o Repeat(15, 7), Repeat(0, 8), Repeat(0, 9),
                  <<0, CharX, 1>> \o Repeat(9, 7), <<0, CharX>> \o Repeat(0, 9)}
  <2>1. /\ Repeat(15, 7) \in Seq(Int) /\ Repeat(0, 8) \in Seq(Int) /\ Repeat(0, 9) \in Seq(Int)
        /\ Repeat(9, 7) \in Seq(Int)
    BY RepeatIs, 15 \in Int, 0 \in Int, 9 \in Int, 7 \in Nat, 8 \in Nat, 9 \in Nat
  <2>2. <<7>> \in Seq(Int) /\ <<0, CharX, 1>> \in Seq(Int) /\ <<0, CharX>> \in Seq(Int)
    BY DEF CharX
  <2>3. /\ <<7>> \o Repeat(15, 7) \in Seq(Int) /\ <<0, CharX, 1>> \o Repeat(9, 7) \in Seq(Int)
        /\ <<0, CharX>> \o Repeat(0, 9) \in Seq(Int)
    BY <2>1, <2>2, ConcatProperties
  <2> QED  BY <1>3, <2>1, <2>3, Zenon
<1> QED  BY <1>1, <1>2, <1>3 DEF Texts

LEMMA ByteTextsAre ==
  ASSUME NEW a \in ByteTexts
  PROVE  a.str \in Seq(Int) /\ a.blen \in Nat
<1>1. CASE a \in [str : SeqOf(Chars, 4) \cup SeqOf({1, 15, Other}, 6), blen : {2}]
  <2>1. a.blen = 2 /\ (a.str \in SeqOf(Chars, 4) \/ a.str \in SeqOf({1, 15, Other}, 6))
    BY <1>1
  <2>2. {1, 15, Other} \in SUBSET Int
    BY DEF Other
  <2> QED  BY <2>1, <2>2, CharsAre, SeqsOf, 4 \in Nat, 6 \in Nat
<1>2. CASE a \in {[str |-> Repeat(5, n), blen |-> 16] : n \in {28, 30, 32, 34}}
  <2>1. PICK n \in {28, 30, 32, 34} : a = [str |-> Repeat(5, n), blen |-> 16]
    BY <1>2
  <2>2. a.str = Repeat(5, n) /\ a.blen = 16 /\ n \in Nat
    BY <2>1
  <2> QED  BY <2>2, RepeatIs, 5 \in Int, 16 \in Nat
<1>3. CASE a \in {[str |-> Repeat(5, n) \o <<Other, 5>>, blen |-> 17] : n \in {30, 32}}
  <2>1. PICK n \in {30, 32} : a = [str |-> Repeat(5, n) \o <<Other, 5>>, blen |-> 17]
    BY <1>3
  <2>2. a.str = Repeat(5, n) \o <<Other, 5>> /\ a.blen = 17 /\ n \in Nat
    BY <2>1
  <2>3. Repeat(5, n) \in Seq(Int)
    BY <2>2, RepeatIs, 5 \in Int
  <2>4. <<Other, 5>> \in Seq(Int)
    BY DEF Other
  <2> QED  BY <2>2, <2>3, <2>4, ConcatProperties, 17 \in Nat
<1> QED  BY <1>1, <1>2, <1>3 DEF ByteTexts

LEMMA NumbersAre ==
  ASSUME NEW a \in NumberArgs
  PROVE  a.x \in Uint256 /\ a.len \in Nat
<1>1. a.x \in Numbers /\ a.len \in {0, 1, 2, 5, 9}
  BY SMT DEF NumberArgs
<1>2. PICK n \in Nat : a.x = ToUint256(n)
  BY <1>1, SMT DEF Numbers
<1> QED  BY <1>1, <1>2, ToUint256Is

LEMMA FixedAre ==
  ASSUME NEW a \in FixedArgs
  PROVE  a.val \in Nat /\ a.digits \in Nat /\ a.len \in Nat
BY SMT DEF FixedArgs

\* The arguments of each subject about text are the ones listed for it.
TextTaken ==
  arg = None \/ /\ subject = "text" => arg \in Texts
                /\ subject = "bytes" => arg \in ByteTexts
                /\ subject = "number" => arg \in NumberArgs
                /\ subject = "fixed" => arg \in FixedArgs

\* A string that fits is a number, or bytes, exactly when it is hexadecimal, and a
\* printed number reads back as itself, of the arguments the Data run takes for
\* hextobin.c, uint256.c and fp2str.c.
THEOREM TextKept == Spec => []TextExact
<1>1. Init => TextTaken
  BY DEF Init, TextTaken
<1>2. TextTaken /\ [Next]_vars => TextTaken'
  BY DEF TextTaken, Next, Take, Token, vars
<1>3. TextTaken => TextExact
  <2> SUFFICES ASSUME TextTaken, arg # None PROVE TextExact
    BY DEF TextExact, Of
  <2>1. subject = "text" => NumberRead(arg)
    BY TextsAre, NumbersRead DEF TextTaken
  <2>2. subject = "bytes" => BytesRead(arg.str, arg.blen)
    BY ByteTextsAre, BytesAreRead DEF TextTaken
  <2>3. subject = "number" => NumberPrinted(arg.x, arg.len)
    BY NumbersAre, NumbersPrinted DEF TextTaken
  <2>4. subject = "fixed" => FixedPointExact(arg.val, arg.digits, arg.len)
    BY FixedAre, FixedPointsExact DEF TextTaken
  <2> QED  BY <2>1, <2>2, <2>3, <2>4 DEF TextExact, Of
<1> QED  BY <1>1, <1>2, <1>3, PTL DEF Spec
=============================================================================
