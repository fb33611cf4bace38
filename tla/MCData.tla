------------------------------- MODULE MCData -------------------------------
(***************************************************************************)
(* Checks the data modules over bounded inputs: an input is taken for one   *)
(* subject, and the invariants compare what the code makes of it with what  *)
(* it should be.  The subject "token" runs the commands of Erc20 instead.   *)
(* No two subjects share state, so each behaviour has one.                  *)
(***************************************************************************)
EXTENDS Erc20, Transaction, TLC

CONSTANTS None, T0, T2, T9, Tmany

VARIABLES subject, arg
vars == <<tokens, last, added, subject, arg>>

Subjects == {"word", "power", "text", "bytes", "number", "fixed", "tx", "abi", "token"}

\* Power is the power: the operator ^ of the standard modules on small numbers
ASSUME PowerMeant == \A b \in 1 .. 10, e \in 0 .. 9 : Power[<<b, e>>] = b^e

\* Words of 2 bits: every 8 bit number with every tenth one and the small ones
Small == INSTANCE Uint256 WITH W <- 2
Words == [x : Small!Uint256,
          y : {Small!ToUint256(n) : n \in 0 .. 9 \cup {10 * k : k \in 1 .. 25} \cup {15, 63, 64, 85, 255}}]

Powers == [base : {2, 3, 10}, exp : 0 .. 8]

\* Words of 8 bits with real hexadecimal digits: every string of up to five
\* of these characters, and long ones
Chars == {0, 1, 15, CharX, Other}
Repeat(c, n) == [i \in 1 .. n |-> c]
Texts == SeqOf(Chars, 5) \cup {<<0, CharX>> \o s : s \in SeqOf(Chars \ {Other}, 4)}
           \cup {<<7>> \o Repeat(15, 7), Repeat(0, 8), Repeat(0, 9),
                 <<0, CharX, 1>> \o Repeat(9, 7), <<0, CharX>> \o Repeat(0, 9)}
ByteTexts == [str : SeqOf(Chars, 4) \cup SeqOf({1, 15, Other}, 6), blen : {2}]
               \cup {[str |-> Repeat(5, n), blen |-> 16] : n \in {28, 30, 32, 34}}
               \cup {[str |-> Repeat(5, n) \o <<Other, 5>>, blen |-> 17] : n \in {30, 32}}

Numbers == {ToUint256(n) : n \in 0 .. 40 \cup {99, 100, 101, 255, 256, 65535, 65536,
              99999, 100000, 16777215, 16777216, 999999999, 1000000000, 2147483647}}
NumberArgs == [x : Numbers, len : {0, 1, 2, 5, 9}]
FixedArgs == [val : 0 .. 70 \cup {12345}, digits : 0 .. 5, len : 1 .. 10]

Int8(n) == ZeroBytes(8 - Len(ByteString[n])) \o ByteString[n]
Wei(n) == ZeroBytes(24) \o Reverse(Int8(n))
Addr == [i \in 1 .. 20 |-> i + 100]
Half(b) == <<b>> \o [i \in 1 .. 31 |-> i]
OneHigh == ZeroBytes(23) \o <<1>> \o ZeroBytes(8)
Values == {Wei(0), Wei(5), Wei(1000000000), OneHigh, Half(3), Repeat(1, 32)}
Txs == [nonce : {Int8(n) : n \in {0, 1, 127, 128, 256}}, gas_price : {Int8(1000000000)},
        gas_limit : {Int8(21000)}, to : {Addr},
        value : Values,
        data : {<<>>, <<0>>, <<7>>, <<200>>, <<23, 45>>} \cup {Repeat(9, n) : n \in {18, 19, 20, 68, 260}},
        pointer : {0, 8, 200}]
Sigs == {NoSig} \cup [v : {Int8(27)}, r : {Half(0), Half(9), Half(180)}, s : {Half(0), Half(60)}]
TxArgs == [tx : Txs, sig : Sigs, beyond : Beyond]

Eight(high, low) == <<0, 0, 0, 0, 0, 0, high, low>>
Writes == [kind : {"uint"}, idx : 0 .. 2, val : {Eight(0, 0), Eight(1, 2)}]
     \cup [kind : {"uint128"}, idx : 0 .. 2, val : {Repeat(3, 16)}]
     \cup [kind : {"uint256"}, idx : 0 .. 2, val : {Half(4)}]
     \cup [kind : {"address"}, idx : 0 .. 2, val : {Addr}]
     \cup [kind : {"data"}, idx : 0 .. 2, val : {<<>>, <<6, 5>>, Repeat(8, 32)}]
AbiArgs == [first : Writes, second : Writes]

MCContracts == {T0, T2, T9, Tmany}
MCDecimals == (T0 :> ToUint256(0)) @@ (T2 :> ToUint256(2))
                @@ (T9 :> ToUint256(9)) @@ (Tmany :> ToUint256(18))
MCBalances == {ToUint256(n) : n \in {0, 5, 120, 70010, 1234567, 123456789}}
MCBeyond == {Repeat(170, 28), Repeat(0, 28)}

Init == /\ subject \in Subjects /\ arg = None
        /\ TokenInit

Take(s, args) ==
  /\ subject = s /\ arg = None
  /\ arg' \in args
  /\ UNCHANGED <<tokens, last, added, subject>>

Token == subject = "token" /\ TokenNext /\ UNCHANGED <<subject, arg>>

Next == \/ Take("word", Words)      \/ Take("power", Powers)
        \/ Take("text", Texts)      \/ Take("bytes", ByteTexts)
        \/ Take("number", NumberArgs) \/ Take("fixed", FixedArgs)
        \/ Take("tx", TxArgs)       \/ Take("abi", AbiArgs)
        \/ Token

Spec == Init /\ [][Next]_vars

Of(s) == subject = s /\ arg # None

-----------------------------------------------------------------------------
(* Properties. *)

\* The arithmetic is that of integers: add256(), minus256(), the comparisons
\* and the shifts modulo 2^(4W), with every carry and borrow between the four
\* words; mul256() but for one carry, and exactly for factors of one word;
\* divmod256() with an end, unless the divisor is zero; ipow() modulo the word.
ArithmeticExact ==
  /\ Of("word") => /\ Small!SumsExact(arg.x, arg.y)
                   /\ Small!ShiftsExact(arg.x, Small!Value256(arg.y))
                   /\ Small!ProductExact(arg.x, arg.y)
                   /\ Small!DivisionExact(arg.x, arg.y)
  /\ Of("power") => PowerExact(arg.base, arg.exp)

\* A string that fits is a number, or bytes, exactly when it is hexadecimal; and a
\* printed number reads back as itself and stays in its buffer, but for the zero
\* byte after a number of as many digits as the buffer has bytes.
TextExact == /\ Of("text") => NumberRead(arg)
             /\ Of("bytes") => BytesRead(arg.str, arg.blen)
             /\ Of("number") => NumberPrinted(arg.x, arg.len)
             /\ Of("fixed") => FixedPointExact(arg.val, arg.digits, arg.len)

\* A transaction is the RLP of its fields, and so is the text that is signed,
\* exactly but for the cases Inexact lists.
TransactionEncoded == Of("tx") => TxExact(arg.tx, arg.sig, arg.beyond)

\* Items of a contract call do not disturb each other.
CalldataEncoded ==
  Of("abi") => CalldataExact(3, <<169, 5, 156, 187>>, arg.first, arg.second)
=============================================================================
