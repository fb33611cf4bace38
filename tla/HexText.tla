------------------------------ MODULE HexText ------------------------------
(***************************************************************************)
(* Text conversions: helpers/hextobin.c, the string functions of            *)
(* helpers/uint256.c, helpers/fp2str.c and the decimal printing of          *)
(* zephyr-wallet/utils.c.  A string is a sequence of characters: a digit is *)
(* its value, of either case.                                               *)
(***************************************************************************)
EXTENDS Uint256, SequencesExt

CONSTANTS DigitBits,  \* bits of a hexadecimal digit: 4 in the code
          PosRange,   \* values of hextobin()'s uint8_t pos
          PrintBuf    \* bytes of the buffer numbers are printed into: 65

ASSUME TextAssumption ==
  /\ DigitBits \in 1 .. 4 /\ W % (2 * DigitBits) = 0 /\ W >= 4
  /\ PosRange \in Nat /\ PosRange % 2 = 0 /\ PosRange * DigitBits > 4 * W
  /\ PrintBuf \in Nat \ {0, 1}

CharX == -1   \* the character 'x'
Other == -2   \* a character that is neither 'x' nor a digit

HexBase == Pow2(DigitBits)
ByteBase == HexBase * HexBase
BytesOf256 == (4 * W) \div (2 * DigitBits)

\* Return values: the error codes, and no return at all.
InvalidString == -1
Hangs == -8

IsDigit(c) == c \in 0 .. HexBase - 1
SkipPrefix(str) ==
  IF Len(str) > 2 /\ str[1] = 0 /\ str[2] = CharX THEN SubSeq(str, 3, Len(str)) ELSE str

Zeros(n) == [i \in 1 .. n |-> 0]
NumberOf(digits, base) ==
  LET read[i \in 0 .. Len(digits)] ==   \* the first i digits
        IF i = 0 THEN 0 ELSE read[i - 1] * base + digits[i]
  IN  read[Len(digits)]

-----------------------------------------------------------------------------
\* Bytes are written up to the first pair that is no pair of digits, or to the
\* end of the buffer: the assertion that the string fits is compiled out.  The
\* 8 bit index goes round: it sees no pair from PosRange on, and never reaches
\* a limit of PosRange or more.
hextobin(str, blen) ==
  LET s == SkipPrefix(str)
      Pair(i) == IsDigit(s[2*i - 1]) /\ IsDigit(s[2*i])
      pairs == Min({Len(s) \div 2, blen})
      seen == Min({pairs, PosRange \div 2})
      bad == {i \in 1 .. seen : ~Pair(i)}
      read == IF bad = {} THEN seen ELSE Min(bad) - 1
      bytes == [i \in 1 .. blen |-> IF i <= read THEN s[2*i - 1] * HexBase + s[2*i] ELSE 0]
  IN  IF Len(str) = 0 \/ Len(str) % 2 # 0 THEN [ret |-> InvalidString, bytes |-> <<>>]
      ELSE [ret |-> IF bad # {} THEN InvalidString
                    ELSE IF 2 * pairs >= PosRange THEN Hangs ELSE Len(s) \div 2,
            bytes |-> bytes]

hextobin_2(str, blen) ==
  LET s == SkipPrefix(str)
      rest == hextobin(Tail(s), blen - 1)
  IN  IF Len(str) = 0 THEN [ret |-> InvalidString, bytes |-> <<>>]
      ELSE IF Len(s) % 2 = 0 THEN hextobin(s, blen)
      ELSE IF ~IsDigit(s[1]) THEN [ret |-> InvalidString, bytes |-> Zeros(blen)]
      ELSE IF Len(s) = 1 THEN [ret |-> 0, bytes |-> <<s[1]>> \o Zeros(blen - 1)]
      ELSE [ret |-> rest.ret, bytes |-> <<s[1]>> \o rest.bytes]

\* The inverse, and its variant that ends the text with a zero byte.
bintohex_nonull(bytes, out_len) ==
  IF bytes = <<>> \/ out_len < 2 * Len(bytes) THEN [ret |-> InvalidString, text |-> <<>>]
  ELSE [ret |-> 2 * Len(bytes),
        text |-> FlattenSeq([i \in 1 .. Len(bytes) |->
                               <<bytes[i] \div HexBase, bytes[i] % HexBase>>])]

bintohex(bytes, out_len) ==
  LET hex == bintohex_nonull(bytes, out_len)
  IN  IF out_len < 2 * Len(bytes) + 1 THEN [ret |-> InvalidString, text |-> <<>>]
      ELSE [hex EXCEPT !.ret = IF @ < 0 THEN @ ELSE @ + 1]

\* readu256BE(), writeu256BE(): bytes to words and back, most significant first
readu256BE(bytes) ==
  LET n == BytesOf256 \div 4
      word(i) == NumberOf(SubSeq(bytes, n * i + 1, n * (i + 1)), ByteBase)
  IN  <<<<word(0), word(1)>>, <<word(2), word(3)>>>>

writeu256BE(x) ==
  LET n == BytesOf256 \div 4
  IN  [i \in 1 .. 4 * n |->
         (Digits(x)[((i - 1) \div n) + 1] \div Power[<<ByteBase, n - 1 - ((i - 1) % n)>>]) % ByteBase]

\* The digits go to the end of a zeroed 256 bit buffer.
fromstring256(hexencoded) ==
  LET s == SkipPrefix(hexencoded)
      size == (Len(s) + 1) \div 2
      res == hextobin_2(s, size)
      buf == Zeros(BytesOf256 - size) \o res.bytes
  IN  IF Len(s) \notin 1 .. 2 * BytesOf256 \/ res.ret < 0
        THEN [ret |-> -1, out |-> Clear256]
        ELSE [ret |-> 0, out |-> readu256BE(buf)]

RoomLate(digits, outLength) ==   \* faulty: a digit may go behind the buffer
  Len(digits) <= outLength + 1

\* The buffer is checked before each digit, not before the zero byte after the
\* last one; outLength - 1 is unsigned.
Room(digits, outLength) == outLength = 0 \/ Len(digits) <= outLength

\* Digits from the least significant, reversed at the end
DigitsOf(number, radix) ==
  LET text[dm \in [div : Uint256, mod : Uint256, ends : BOOLEAN]] ==
        (IF Zero256(dm.div) THEN <<>> ELSE text[Divmod256(dm.div, radix)])
          \o <<LOWER(LOWER(dm.mod))>>
  IN  text[Divmod256(number, radix)]

\* What is written from the start of the buffer on, in bytes: the digits and a
\* zero byte, or the digits up to the end of the buffer.
Written(digits, outLength) ==
  [ok |-> Room(digits, outLength), out |-> digits,
   bytes |-> IF Room(digits, outLength) THEN Len(digits) + 1 ELSE outLength]

tostring256(number, base, outLength) ==
  IF base \notin 2 .. 16 THEN [ok |-> FALSE, out |-> <<>>, bytes |-> 0]
  ELSE Written(DigitsOf(number, <<Clear128, <<0, base>>>>), outLength)

-----------------------------------------------------------------------------
\* printk_uint256_int() into a buffer that was all zero bytes; a number too
\* long for it leaves a text without end.
Unterminated == <<Other>>
ConversionError == <<CharX>>

Padded(digits, decimals) ==
  IF Len(digits) < decimals THEN Zeros(decimals - Len(digits)) \o digits ELSE digits
DropZeros(digits) ==
  SubSeq(digits, 1, Max({1} \cup {i \in 1 .. Len(digits) : digits[i] # 0}))

\* fixed: to this number of decimals, without trailing zeros
DecimalText(digits, decimals, fixed) ==
  IF Len(digits) >= PrintBuf THEN Unterminated
  ELSE IF decimals > PrintBuf - 1 THEN ConversionError
  ELSE IF fixed THEN DropZeros(Padded(digits, decimals)) ELSE digits

DecimalDigits(v) == tostring256(v, 10, PrintBuf).out

\* shell_print_decimal_u256(): the two texts around the point
Parts(dm, decimals) ==
  [returns |-> dm.ends,
   int |-> DecimalText(DecimalDigits(dm.div), 0, FALSE),
   frac |-> DecimalText(DecimalDigits(dm.mod), decimals, TRUE)]

PrintDecimal(val, decimals) ==
  Parts(Divmod256(val, <<Clear128, <<0, Ipow[<<10, decimals>>]>>>>), decimals)

\* fp2str(): val / 2^digits, where nothing overflows (see Fits32); only the
\* fraction is checked against the end of the buffer.
Decimals[n \in Nat] == IF n < 10 THEN <<n>> ELSE Append(Decimals[n \div 10], n % 10)
FractionDigits(val, digits) ==
  LET scale == Pow2(digits)
      left[i \in 0 .. digits] ==   \* of val after i digits
        IF i = 0 THEN val ELSE (left[i - 1] * 10) % scale
      ends == Min({i \in 0 .. digits : left[i] = 0})
  IN  [i \in 1 .. ends |-> (left[i - 1] * 10) \div scale]

fp2str(val, digits, buf_len) ==
  LET int == Decimals[val \div Pow2(digits)]
      frac == FractionDigits(val % Pow2(digits), digits)
      fits == Len(int) + 3 <= buf_len /\ Len(int) + 1 + Len(frac) <= buf_len - 1
  IN  [ret |-> IF frac = <<>> \/ fits THEN 0 ELSE -1, frac |-> frac,
       int |-> SubSeq(int, 1, Min({Len(int), buf_len - 1}))]

-----------------------------------------------------------------------------
(* What the conversions are for.                                            *)

AllDigits(s) == \A i \in 1 .. Len(s) : IsDigit(s[i])

\* A second "0x" where hextobin_2() or hextobin() looks for one again
InnerPrefix(s) ==
  SkipPrefix(s) # s \/ (Len(s) % 2 = 1 /\ SkipPrefix(Tail(s)) # Tail(s))

\* A number is read iff the string is one that fits, with one prefix at most,
\* and is the number the digits mean.  (A second prefix is taken for zeros.)
NumberRead(str) ==
  LET s == SkipPrefix(str)
      good == Len(s) \in 1 .. 2 * BytesOf256 /\ AllDigits(s)
      res == fromstring256(str)
  IN  ~InnerPrefix(s) => /\ res.ret = 0 <=> good
                         /\ good => Value256(res.out) = NumberOf(s, HexBase)

\* hextobin() asserts it.
FitsBytes(str, blen) == Len(SkipPrefix(str)) <= 2 * blen

\* Of the strings that fit, an even number of digits becomes the bytes they mean,
\* at the front of the buffer, and no other string is taken; 256 digits, into 128
\* bytes or more, never end, whatever follows them.
BytesRead(str, blen) ==
  LET s == SkipPrefix(str)
      res == hextobin(str, blen)
      seen == SubSeq(s, 1, Min({Len(s), PosRange}))
      good == Len(str) > 0 /\ Len(s) % 2 = 0 /\ AllDigits(seen)
  IN  FitsBytes(str, blen) =>
        /\ res.ret >= 0 <=> good /\ Len(s) < PosRange
        /\ res.ret = Hangs <=> good /\ Len(s) >= PosRange
        /\ res.ret >= 0 => /\ res.ret = Len(s) \div 2
                           /\ bintohex_nonull(res.bytes, 2 * blen).text
                                = s \o Zeros(2 * blen - Len(s))

HexReads(x, hex) == /\ hex.ok /\ hex.bytes <= 2 * BytesOf256 + 1
                    /\ fromstring256(hex.out) = [ret |-> 0, out |-> x]
BytesRead256(x, bytes) == /\ bytes.ret = 2 * BytesOf256 + 1
                          /\ fromstring256(bytes.text).out = x
                          /\ readu256BE(writeu256BE(x)) = x
DecimalReads(x, outLength, dec) ==
  outLength > 0 =>
    /\ dec.ok => /\ NumberOf(dec.out, 10) = Value256(x)
                 /\ Value256(x) < Power[<<10, outLength>>]
    /\ outLength > 1 /\ Value256(x) < Power[<<10, outLength - 1>>] =>
         dec.ok /\ dec.bytes <= outLength
    /\ dec.bytes <= outLength + 1

\* What is printed reads back as the same number: in hexadecimal into a buffer
\* of 64 digits and a zero byte, in bytes, and in decimal.  A decimal number
\* whose digits and zero byte fit into the buffer is printed, inside it; one of
\* more digits than the buffer has bytes is not; and no digit, only the zero
\* byte, ever goes behind the buffer.
NumberPrinted(x, outLength) ==
  /\ HexReads(x, tostring256(x, HexBase, 2 * BytesOf256 + 1))
  /\ BytesRead256(x, bintohex(writeu256BE(x), 2 * BytesOf256 + 1))
  /\ DecimalReads(x, outLength, tostring256(x, 10, outLength))

\* A number of 32 bits with a whole part below 2^31, which is printed as signed,
\* and a fraction of at most 28 bits, of which the tenfold has 32
Fits32(val, digits) ==
  digits <= 28 /\ val \div 65536 < 65536 /\ val \div Pow2(digits) <= 2147483647

\* A fixed point number that is printed whole is the number.
FixedPointExact(val, digits, buf_len) ==
  LET res == fp2str(val, digits, buf_len)
  IN  Fits32(val, digits) /\ res.ret = 0 /\ Len(Decimals[val \div Pow2(digits)]) < buf_len
        => NumberOf(res.int \o res.frac, 10) * Pow2(digits) = val * Power[<<10, Len(res.frac)>>]

=============================================================================
