CONSTANTS
  W = 8
  DigitBits = 4
  PosRange = 32
  PrintBuf = 7
  TOKENS_MAX = 2
  ByteRange = 16
  T0 = T0
  T2 = T2
  T9 = T9
  Tmany = Tmany
  Contracts <- MCContracts
  DecimalsOf <- MCDecimals
  Balances <- MCBalances
  BadArgument = BadArgument
  None = None
  Typed = {0, 1, 2, 16}
  Amounts = {0, 1, 7, 255}
  Beyond <- MCBeyond
SPECIFICATION Spec
CHECK_DEADLOCK FALSE
INVARIANTS
  ArithmeticExact
  TextExact
  TransactionEncoded
  CalldataEncoded
  
  
  IndexMeant
