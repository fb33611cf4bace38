---------------------------- MODULE Transaction ----------------------------
(***************************************************************************)
(* What the wallet puts into a transaction: helpers/rlp_encoder.c,          *)
(* eth/transaction.c and eth/data.c, over sequences of bytes.  A uint256_t  *)
(* is its 32 bytes in memory, most significant word first and each word     *)
(* little endian, as the code is built for; integers are below 2^31.        *)
(***************************************************************************)
EXTENDS Integers, Sequences, SequencesExt

ByteString[n \in Nat] ==   \* of an integer, big endian, without leading zeros
  IF n = 0 THEN <<>> ELSE Append(ByteString[n \div 256], n % 256)
ZeroBytes(n) == [i \in 1 .. n |-> 0]
Trimmed(b) == SelectInSeq(b, LAMBDA x : x # 0)   \* 0 when all bytes are zero

\* b written over buf at offset at
Put(buf, at, b) ==
  [i \in 1 .. Len(buf) |-> IF i - at \in 1 .. Len(b) THEN b[i - at] ELSE buf[i]]

-----------------------------------------------------------------------------
(* RLP.                                                                     *)

rlp_header_len(input_len) ==
  IF input_len <= 55 THEN 1 ELSE Len(ByteString[input_len]) + 1

rlp_encode_item(input) ==
  LET size == ByteString[Len(input)]
  IN  IF input = <<0>> THEN <<128>>
      ELSE IF Len(input) = 1 /\ input[1] < 128 THEN input
      ELSE IF Len(input) <= 55 THEN <<128 + Len(input)>> \o input
      ELSE <<183 + Len(size)>> \o size \o input

rlp_encode_array_header(total_len) ==
  LET size == ByteString[total_len]
  IN  IF total_len < 55 THEN <<192 + total_len>> ELSE <<247 + Len(size)>> \o size

rlp_encode_integer_untrimmed(bytes) == rlp_encode_item(bytes)   \* faulty

\* _prepare_integer() on the 8 big endian bytes of a uint64_t
rlp_encode_integer(bytes) ==
  rlp_encode_item(IF Trimmed(bytes) = 0 THEN <<>>
                  ELSE SubSeq(bytes, Trimmed(bytes), Len(bytes)))

\* More than 64 and at most 128 bits: 28 bytes from beyond the value are sent.
rlp_encode_uint256(val, beyond) ==
  IF Trimmed(SubSeq(val, 1, 24)) = 0
    THEN rlp_encode_integer(Reverse(SubSeq(val, 25, 32)))
    ELSE IF Trimmed(SubSeq(val, 1, 16)) = 0 THEN rlp_encode_item(beyond)
    ELSE rlp_encode_item(val)

-----------------------------------------------------------------------------
(* A transaction.  data is the bytes data_len says, and pointer the least   *)
(* significant byte of tx->data, 0 when that is NULL.                       *)

CONSTANT Beyond   \* what rlp_encode_uint256() may find beyond its argument

ASSUME BeyondAssumption == \A b \in Beyond : b \in Seq(0 .. 255) /\ Len(b) = 28

NoSig == <<>>

tx_encode(tx, sig, beyond) ==
  LET fields ==
        <<rlp_encode_integer(tx.nonce), rlp_encode_integer(tx.gas_price),
          rlp_encode_integer(tx.gas_limit), rlp_encode_item(tx.to),
          rlp_encode_uint256(tx.value, beyond),
          rlp_encode_item(IF tx.data = <<>> THEN <<tx.pointer>> ELSE tx.data)>>
        \o IF sig = NoSig THEN <<>>
           ELSE <<rlp_encode_integer(sig.v), rlp_encode_uint256(sig.r, beyond),
                  rlp_encode_uint256(sig.s, beyond)>>
      payload == FlattenSeq(fields)
      header_len == rlp_header_len(Len(payload))
  IN  Put(ZeroBytes(header_len) \o payload, 0, rlp_encode_array_header(Len(payload)))

\* What is signed, and what is sent with the signature.
tx_encode_sign(tx, sig, beyond) ==
  [digest |-> tx_encode(tx, NoSig, beyond), raw |-> tx_encode(tx, sig, beyond)]

-----------------------------------------------------------------------------
(* The data of a contract call: a selector and 32-byte items.               *)

compute_item_index(idx) == idx * 32 + 4

data_init(items) == ZeroBytes(compute_item_index(items))
data_set_selector(blk, selector) == Put(blk, 0, selector)
item_keep(blk, idx) == blk   \* faulty: what was in the item stays
item_clear(blk, idx) == Put(blk, compute_item_index(idx), ZeroBytes(32))

\* The value goes at offset off of the cleared item.
encode_at(blk, idx, off, bytes) ==
  Put(item_clear(blk, idx), compute_item_index(idx) + off, bytes)

encode_uint(blk, idx, val) == encode_at(blk, idx, 24, val)      \* 8 big endian bytes
encode_uint128(blk, idx, val) == encode_at(blk, idx, 16, val)   \* as in memory
encode_uint256(blk, idx, val) == encode_at(blk, idx, 0, val)    \* as in memory
encode_address(blk, idx, val) == encode_at(blk, idx, 12, val)
encode_data(blk, idx, data) == encode_at(blk, idx, 0, data)

decode_data(blk, idx, len) ==
  SubSeq(blk, compute_item_index(idx) + 1, compute_item_index(idx) + (IF len < 32 THEN len ELSE 32))
decode_uint(blk, idx) == SubSeq(decode_data(blk, idx, 32), 25, 32)

-----------------------------------------------------------------------------
(* Reference: the RLP of the Ethereum yellow paper, strings and integers.   *)

RefItem(b) ==
  IF Len(b) = 1 /\ b[1] < 128 THEN b
  ELSE IF Len(b) <= 55 THEN <<128 + Len(b)>> \o b
  ELSE <<183 + Len(ByteString[Len(b)])>> \o ByteString[Len(b)] \o b
RefInteger(b) == RefItem(SubSeq(b, IF Trimmed(b) = 0 THEN Len(b) + 1 ELSE Trimmed(b), Len(b)))
RefList(items) ==
  LET p == FlattenSeq(items)
      size == ByteString[Len(p)]
  IN  (IF Len(p) <= 55 THEN <<192 + Len(p)>> ELSE <<247 + Len(size)>> \o size) \o p

RefWord(w) == Reverse(SubSeq(w, 1, 8)) \o Reverse(SubSeq(w, 9, 16))
                \o Reverse(SubSeq(w, 17, 24)) \o Reverse(SubSeq(w, 25, 32))
RefTx(tx, sig) ==
  <<RefInteger(tx.nonce), RefInteger(tx.gas_price), RefInteger(tx.gas_limit),
    RefItem(tx.to), RefInteger(RefWord(tx.value)), RefItem(tx.data)>>
  \o IF sig = NoSig THEN <<>>
     ELSE <<RefInteger(sig.v), RefInteger(sig.r), RefInteger(sig.s)>>

\* The encoder is exact but for these: a value that does not fit 64 bits, unless
\* it has 256 and the same bytes in memory as in RLP; data of one zero byte;
\* empty data at an address that does not end in a zero byte; r or s with a
\* leading zero byte; a list of exactly 55 bytes.
Wide(tx) ==
  /\ Trimmed(SubSeq(tx.value, 1, 24)) # 0
  /\ ~(tx.value[1] # 0 /\ RefWord(tx.value) = tx.value)
Inexact(tx, sig) ==
  \/ Wide(tx)
  \/ tx.data = <<0>>
  \/ tx.data = <<>> /\ tx.pointer # 0
  \/ sig # NoSig /\ (sig.r[1] = 0 \/ sig.s[1] = 0)
  \/ Len(FlattenSeq(RefTx(tx, sig))) = 55

TxExact(tx, sig, beyond) ==
  tx_encode(tx, sig, beyond) = RefList(RefTx(tx, sig)) <=> ~Inexact(tx, sig)

\* The 32 bytes the contract reads for a value of each kind: integers and
\* addresses at the end of the item, byte strings at its front.
RefAbi(write) ==
  IF write.kind = "data" THEN write.val \o ZeroBytes(32 - Len(write.val))
                         ELSE ZeroBytes(32 - Len(write.val)) \o write.val

Encode(blk, write) ==
  CASE write.kind = "uint"    -> encode_uint(blk, write.idx, write.val)
    [] write.kind = "uint128" -> encode_uint128(blk, write.idx, write.val)
    [] write.kind = "uint256" -> encode_uint256(blk, write.idx, write.val)
    [] write.kind = "address" -> encode_address(blk, write.idx, write.val)
    [] write.kind = "data"    -> encode_data(blk, write.idx, write.val)

\* After any two writes each item holds the last value written to it and
\* nothing else, and the selector and the other items are what they were.
Item(blk, idx) == SubSeq(blk, 32*idx + 5, 32*idx + 36)
CalldataExact(items, selector, first, second) ==
  LET blk == Encode(Encode(data_set_selector(data_init(items), selector), first), second)
  IN  /\ Len(blk) = 32*items + 4
      /\ SubSeq(blk, 1, 4) = selector
      /\ \A i \in 0 .. items - 1 :
           Item(blk, i) = IF i = second.idx THEN RefAbi(second)
                          ELSE IF i = first.idx THEN RefAbi(first) ELSE ZeroBytes(32)
      /\ decode_data(blk, second.idx, 40) = RefAbi(second)
      /\ second.kind = "uint" => decode_uint(blk, second.idx) = second.val
=============================================================================
