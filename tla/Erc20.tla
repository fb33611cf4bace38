------------------------------- MODULE Erc20 -------------------------------
(***************************************************************************)
(* The token commands of the shell (zephyr-wallet/erc20_shell.c): a table   *)
(* of tokens, filled by "erc20 add" and never emptied, and the commands     *)
(* that use a token by its index.  One thread, the shell's.                 *)
(***************************************************************************)
EXTENDS HexText

CONSTANTS TOKENS_MAX,   \* slots of the table
          ByteRange,    \* values of a uint8_t
          Contracts,    \* token contracts, by address
          DecimalsOf,   \* the decimals() each one answers, a uint256
          BadArgument,  \* an argument that does not convert
          Typed,        \* numbers the user types as an index
          Amounts,      \* amounts the user types, each in one word
          Balances      \* uint256 values a contract answers

ASSUME Erc20Assumption ==
  /\ TOKENS_MAX \in Nat \ {0} /\ ByteRange \in Nat \ {0} /\ Base % ByteRange = 0
  /\ DecimalsOf \in [Contracts -> Uint256]
  /\ Typed \subseteq Nat /\ Amounts \subseteq 0 .. Base - 1
  /\ Balances \subseteq Uint256

VARIABLES tokens,  \* _tokens, by index from 0
          last,    \* the last command: what was typed, sent or printed
          added    \* history: the contracts added, in order

Slots == 0 .. TOKENS_MAX - 1
Unused == [used |-> FALSE]
Slot(addr, dec) == [used |-> TRUE, address |-> addr, decimals |-> dec]
Tokens == {Unused} \cup {Slot(a, d) : a \in Contracts, d \in 0 .. ByteRange - 1}

\* What a command leaves: nothing but its return value, a calldata that was
\* sent, a number that was printed, or a shell that never comes back.
Done(cmd, ret) == [cmd |-> cmd, ret |-> ret]
Sent(idx, addr, amount, calldata) ==
  [cmd |-> "transfer", ret |-> 0, idx |-> idx, address |-> addr,
   amount |-> amount, calldata |-> calldata]
Printed(cmd, idx, addr, value, text) ==
  [cmd |-> cmd, ret |-> 0, idx |-> idx, address |-> addr, value |-> value, text |-> text]

ShellBack == IF "text" \in DOMAIN last THEN last.text.returns ELSE TRUE

TokenInit ==
  /\ tokens = [i \in Slots |-> Unused]
  /\ last = Done("none", 0)
  /\ added = <<>>

-----------------------------------------------------------------------------
Free == {i \in Slots : ~tokens[i].used}

StoredDecimalsWide(addr) == LOWER(LOWER(DecimalsOf[addr]))   \* faulty: not cut to a byte

\* The decimals are the low byte of what the contract answered.
StoredDecimals(addr) == LOWER(LOWER(DecimalsOf[addr])) % ByteRange

Add(addr) ==
  /\ ShellBack
  /\ \/ /\ addr # BadArgument /\ Free # {}    \* the contract answered
        /\ tokens' = [tokens EXCEPT ![Min(Free)] = Slot(addr, StoredDecimals(addr))]
        /\ last' = Done("add", 0)
        /\ added' = Append(added, addr)
     \/ /\ last' = Done("add", -1)            \* no address, no answer, no room
        /\ UNCHANGED <<tokens, added>>

\* _get_token_by_index(): the number is cut to a byte before it is compared.
IndexFromOne(arg) == (arg + ByteRange - 1) % ByteRange   \* faulty
Index(arg) == arg % ByteRange
GoodIndex(arg) ==
  arg # BadArgument /\ Index(arg) \in Slots /\ tokens[Index(arg)].used

\* erc20_balance() and erc20_totalSupply() print what the contract answers.
Show(cmd, arg) ==
  /\ ShellBack
  /\ \/ /\ GoodIndex(arg)
        /\ \E value \in Balances :
             LET t == tokens[Index(arg)]
             IN  last' = Printed(cmd, arg, t.address, value, PrintDecimal(value, t.decimals))
     \/ last' = Done(cmd, -1)                 \* no such token, or no answer
  /\ UNCHANGED <<tokens, added>>

CalldataMemory(amount, decimals) ==   \* faulty: the byte order of the processor
  Reverse(writeu256BE(Mul256(<<Clear128, <<0, amount>>>>, <<Clear128, <<0, Ipow[<<10, decimals>>]>>>>)))

\* The amount in the data of the call, 32 bytes most significant first
Calldata(amount, decimals) ==
  writeu256BE(Mul256(<<Clear128, <<0, amount>>>>, <<Clear128, <<0, Ipow[<<10, decimals>>]>>>>))

\* erc20_transfer(), which does not increment the nonce it signs with
Transfer(arg, amount) ==
  /\ ShellBack
  /\ \/ /\ GoodIndex(arg) /\ amount # BadArgument
        /\ LET t == tokens[Index(arg)]
           IN  last' = Sent(arg, t.address, amount, Calldata(amount, t.decimals))
     \/ last' = Done("transfer", -1)          \* an argument is bad, or sending failed
  /\ UNCHANGED <<tokens, added>>

TokenNext ==
  \/ \E addr \in Contracts \cup {BadArgument} : Add(addr)
  \/ \E cmd \in {"balance", "totalSupply"}, arg \in Typed \cup {BadArgument} : Show(cmd, arg)
  \/ \E arg \in Typed \cup {BadArgument}, amount \in Amounts \cup {BadArgument} :
       Transfer(arg, amount)

tokenVars == <<tokens, last, added>>
TokenSpec == TokenInit /\ [][TokenNext]_tokenVars

-----------------------------------------------------------------------------
(* Properties. *)

TokensOK == tokens \in [Slots -> Tokens] /\ added \in Seq(Contracts)

\* The contract means 10^decimals units by one token.  The code counts right
\* as long as that is a number of one word and decimals a byte.
Countable(addr) ==
  LET d == Value256(DecimalsOf[addr]) IN d < ByteRange /\ d < W /\ Power[<<10, d>>] < Base

\* Both parts of the number fit the buffer they are printed into.
FitsBuffer(value, d) ==
  d < PrintBuf /\ value \div Power[<<10, d>>] < Power[<<10, PrintBuf - 1>>]

\* What is sent or printed is the number of tokens the user typed or the
\* contract answered, whatever happened to the table since the token was
\* added: slot, stored decimals, power, product and byte order all agree.  A
\* printed number is whole if it fits.
AmountsExact ==
  "address" \in DOMAIN last /\ Countable(last.address) =>
    LET d == Value256(DecimalsOf[last.address])
    IN  IF last.cmd = "transfer"
          THEN NumberOf(last.calldata, ByteBase) = last.amount * Power[<<10, d>>]
          ELSE FitsBuffer(Value256(last.value), d) =>
               LET n == last.text.int \o last.text.frac
               IN  IF d = 0 THEN NumberOf(last.text.int, 10) = Value256(last.value)
                   ELSE NumberOf(n, 10) * Power[<<10, d - Len(last.text.frac)>>]
                          = Value256(last.value)

\* The shell comes back from printing unless the power of ten it divides by
\* is 0 in a word, which it is from W decimals on.
ShellReturns ==
  "text" \in DOMAIN last =>
    (last.text.returns <=> Value256(DecimalsOf[last.address]) % ByteRange < W)

\* The table is well typed, and its indices are the order of the "erc20 add" that
\* succeeded, as "erc20 list" shows it, and any index a byte holds reaches the contract the user means.
IndexMeant ==
  /\ TokensOK
  /\ \A i \in Slots : tokens[i].used <=> i < Len(added)
  /\ "idx" \in DOMAIN last /\ last.idx < ByteRange
       => last.idx < Len(added) /\ last.address = added[last.idx + 1]

\* The inductive invariant behind it: slot i holds what was added as number
\* i + 1, and there is no more than fits.
TableInOrder ==
  /\ Len(added) <= TOKENS_MAX
  /\ \A i \in Slots : i < Len(added) => tokens[i].address = added[i + 1]

TokenIInv == IndexMeant /\ TableInOrder

\* What a used slot holds: a contract, and the decimals it answered.
DecimalsKept ==
  \A i \in Slots : tokens[i].used =>
    /\ tokens[i].address \in Contracts
    /\ tokens[i].decimals = StoredDecimals(tokens[i].address)

DecimalsIInv == TokensOK /\ DecimalsKept
=============================================================================
