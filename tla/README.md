# A formal model of the AnyLedger embedded wallet

TLA+ specifications of the firmware in `src/`, TLC configurations that check
them on small instances, and TLAPS proofs for every instance. The subject is
the part of the wallet where its difficulty lies: several Zephyr threads share
one HTTP client, one request buffer, one account and a handful of semaphores;
and what they send are numbers and byte strings that hand-written arithmetic and
encoders produce.

## 1. Inventory

| Part | State | Operations | Interacts with |
|---|---|---|---|
| `zephyr-wallet/http_service.c`, `http_utils.c` | one recursive mutex, one `http_ctx`, one static reply buffer `result` | `http_send_data()`, `http_nfo_free()` | every caller passes an `http_nfo_t`; a successful call returns with the mutex held |
| `zephyr-wallet/web3_rpc.c` | static `WEB3_BUF`, `web3_ctx`, `http_client_nfo` | seven JSON-RPC methods | encodes with `eth/web3.c`, sends with http_service, decodes with `eth/web3_jsonp.c` |
| `zephyr-wallet/upload.c` | two semaphores, `_upload_addr`, 16-bit `_upload_interval`, one thread | `upload start`, `upload stop`, the thread | sensor, account, web3_rpc |
| `zephyr-wallet/wallet.c` | `_account` (key, nonce, gas) | set commands, `transfer`, `sync`, `balance` | web3_rpc; the upload thread increments the nonce |
| `zephyr-wallet/erc20_shell.c` | table of five tokens | `add`, `balance`, `transfer`, `totalSupply`, `list` | web3_rpc, account, uint256 |
| `zephyr-wallet/web3_shell.c` | none | one command per method | web3_rpc |
| `zephyr-wallet/sensor_service.c` | last temperature, humidity, error | thread, `get_sensor_data()` | upload, lwm2m, shell |
| `zephyr-wallet/sntp_shell.c` | a semaphore on the stack | `sntp sync`, callback | network stack |
| `zephyr-wallet/lwm2m_client.c` | `client` | thread, event handler | sensor |
| `eth/web3.c`, `eth/web3_jsonp.c` | the request buffer's fill | print a request, decode a reply | web3_rpc, jsmn |
| `eth/transaction.c`, `eth/data.c`, `eth/sign.c`, `eth/address.c` | none | encode and sign | RLP, uint256, trezor-crypto |
| `helpers/*` | none | RLP, 256-bit arithmetic, hex, decimal point, power | everything |
| `sawtooth/*`, `examples/sawtooth-fish-supply` | one `http_nfo_t`, record and buffer for the shell and the demo thread; semaphores | `st ...`, `sc_demo start/stop` | http_service, account |
| `abi_compiler`, `tools`, `cmake`, CI, tests, `main.c`, examples | none at run time | - | - |

Threads: the shell (lowest application priority), the upload thread (5), the
sensor and LwM2M threads (7), the Sawtooth demo thread (5), on one processor
with preemption. Asserts are compiled out of the firmware, so no guard of a
model comes from one.

What is hard here: calls of two threads that overlap (the mutex, the buffer
filled before it, the context released after it); error paths that must undo
exactly what was done; a reply that is lost after the node acted; counting
semaphores that stand for the life of a thread; priorities that hide races and
cause starvation; 8-bit, 16-bit and 64-bit cuts; carries, length headers, padding and
terminators done by hand. `PROJECT.json` lists each hazard at its line, with the
properties that cover it or the reason none does.

What makes each part correct: *HTTP client* - mutual exclusion from the lock to
the free, one unlock per path, a reply that stays in place and answers its
request. *RPC* - the client is given back on every path, an answer matches its
request, 0 means a reply that is no error. *Upload* - the semaphores say whether a thread runs,
stop stops, data goes where the start said. *Wallet* - the nonce follows the
node's count. *Tokens* - an index means the contract that was added, and the
amount sent or printed is the one typed or answered. *Encoders and arithmetic* -
what they write decodes to what they were given; sums, products and quotients
are those of integers. *Sensor* - a pair is of one sample. *Time* - a sync comes
back, and no callback after it. *Demo* - what is signed is what is sent, the
client stays usable, `stop` stops.

## 2. Modules

| Module | Models |
|---|---|
| `HttpService` | `http_service.c` over `http_utils.c`, the Zephyr mutex |
| `SharedClient` | what `http_service.h` promises, as an abstract specification |
| `HttpService_proof` | theorems about `HttpService`, and that it implements `SharedClient` |
| `Web3Rpc` | `web3_rpc.c` with the writes of `eth/web3.c` and the outcomes of `eth/web3_jsonp.c`; an INSTANCE of `HttpService` |
| `Web3Rpc_proof` | theorems about `Web3Rpc` |
| `UploadService` | `upload.c` |
| `UploadService_proof` | theorems about `UploadService` |
| `Wallet` | the account nonce in `wallet.c` and `upload.c` against the node; an INSTANCE of `Web3Rpc` |
| `Wallet_proof` | theorems about `Wallet` |
| `StopService` | what `upload start/stop` and `sc_demo start/stop` promise, as an abstract specification |
| `Uint256` | `helpers/uint256.c` and `ipow()` over words of W bits |
| `Uint256_proof` | theorems about `Uint256`, and the induction and recursion all proofs about data rest on |
| `HexText` | `hextobin.c`, the text conversions of `uint256.c`, the printing in `utils.c`, `fp2str.c` |
| `HexText_proof` | theorems about `HexText` |
| `Transaction` | `rlp_encoder.c`, `eth/transaction.c`, `eth/data.c` |
| `Erc20` | `erc20_shell.c` on top of `HexText` and `Uint256` |
| `Data_proof` | theorems about the tokens and amounts of `Erc20`, the calldata and the encoding of `Transaction`, and the inputs the `Data` run takes |
| `Sensor` | `sensor_service.c` and its three readers |
| `Sntp` | `sntp_shell.c` and its callback |
| `Sawtooth` | the supply chain example and `sawtooth/`: commands, demo thread; an INSTANCE of `HttpService` |
| `Device_proof` | theorems about `Sensor`, `Sntp` and `Sawtooth`, of each and of the three together, and that the demo service implements `StopService` |
| `MC*` | values of the constants for TLC; `MCData` and `MCDevice` also choose which of several independent parts a behaviour is about |

### HttpService

A step is the code one thread runs between two points where another may get the
processor. `pc[t]` says where a thread is: `ready` (structure filled), `lock`
(in `k_mutex_lock`), `connect` (context initialised, connecting blocks), `wait`
(request sent), `unlock` and `release` (the two halves of the error path, in
the code's order), `reply` (returned with a status; the caller decodes).
`MutexLock` and `MutexUnlock` are Zephyr's recursive mutex with hand-over to
the pended thread of highest priority. Bytes are abstracted to the request they
answer: `result` is the request that the reply in the static buffer answers.
`sent` and `asked` are history. `priv` keeps the program's habit of never
resetting `nfo->_priv` in `http_nfo_free()`: the assertion
`nfo->_priv == NULL` of `__assert_nfo()` fails on every second call with a
structure in a build that compiles assertions in. `Leak` is a caller that
returns without `http_nfo_free()`.

The definitions in this and the other modules that are marked *faulty* are used
by no action. Each is a plausible bug; replacing the named definition by it
must make TLC report the property it is listed with.

### Web3Rpc

Every call goes `idle -> encode -> http -> idle`. A request is written in two
parts (`WEB3_PREAMBLE`, then parameters and `WEB3_TERMINATOR` at `buf_used`)
into the buffer all threads share, before the mutex is taken; the HTTP client
reads it after it connected. `Outcomes` says which values each method can return
for each kind of reply (`ReplyKinds`): a result, an error with a negative code,
an error with a code of 0 or more, neither a result nor a code, or anything the
decoder rejects. The test is `res.error.code < 0` with `res` a local that only a
code in the reply sets: where none does, what it finds is a nondeterministic
choice (`FoundNegative`). So a refusal may pass for success, with nothing stored
in `*out`; `SuccessAnswered` says what 0 does mean. `Frees` says who
calls `http_nfo_free()`. The node answers a whole request in any way, and one
that is not whole in any way but a result. `web3_eth_getTransactionReceipt()` decodes a local pointer that is
always NULL (`web3_rpc.c:203-211`): it fails on every reply.

### UploadService

`shell` and `thread` are the two program counters. The shell has the lowest
priority, so its actions need `ThreadBlocked`: the upload thread is gone or
blocked in the semaphore, the network or a non-zero sleep. `k_sleep(0)` only
yields (`yield`). The interval is `strtoul()` cut to 16 bits, and a stale
`errno` refuses a good interval after it was stored. A rejected address may
already have cleared `_upload_addr`. The thread's own
`k_sem_take(&upload_thread_sem, K_MSEC(1))` always fails, because the semaphore
was taken for it: `assert(ret == 0)` at line 76 does not hold in a build that
compiles assertions in. The module shows itself to implement `StopService`:
`running` is that the thread exists, `stopping` that `upload stop` waits.

### Wallet

A thread has a `job`: the shell's `transfer` or `sync`, the upload thread's
transaction. `Build` copies the nonce into the transaction, `CallRpc`, `Encode`,
`HttpStep`, `HttpReply` and `RpcReturn` are the steps of `Web3Rpc` with what the
node does about them, and `TransferEnd`, `UploadEnd`, `SyncEnd` are what the
caller does with the return value: nothing, `account->nonce++`, and the store of
the count. `erc20 transfer` uses the nonce like `transfer`; `wallet nonce` is
`SetNonce`. The nonce of a transaction is followed from `tx.nonce` through the
shared buffer (`coded`) to the wire (`wire`), because what is sent is what the
buffer holds after the connection, not what the caller built.

The node is external: it takes a transaction whose nonce is the number it has
taken (`count`), keeps one with a higher nonce for later (`queued`), refuses
one with a lower nonce, mines in its own time (`mined`) and tells the number
mined, because `eth_getTransactionCount` asks for "latest". A request whose
reply is lost, does not decode or says nothing may have been taken all the same.
A sync that got no result stores any number. `wild`, `missed`, `unpaid` and
`fresh` are history: they say which of the known ways to lose count has happened
since the last good sync, and the invariants say there is no other. `unpaid` is
the number of uploads that `nonce++` counted although the node had not taken
them: the reply was a refusal with a code of 0 or more, said nothing, or was the
hash of a transaction that has to wait. The nonce is then that much ahead, for
good. `NonceNotAhead` rests on the
scheduler: from the node's reply to `nonce++` the upload thread does not block,
so the lower shell cannot store a count in between that has the transaction
already.

### Uint256, HexText, Transaction, Erc20

The first three are pure: one operator per C function, named like it, with the
shape of the C code where that is what can be wrong (the four column sums of
`mul256()`, the doubling and halving of `divmod256()`, the header lengths of
the RLP encoder, the two positions of `hextobin()`). Each module ends with what
the operations are for - integers, digits, the RLP of the yellow paper, the
32-byte items of the contract ABI - and a predicate that compares the two. A
loop that does not end is a result of its own (`ends`, `Hangs`), and memory
beyond an argument or in front of a buffer is an input (`Beyond`, `pointer`).
The word has W bits, so TLC can take every 8-bit number for W = 2 and real
bytes for W = 8; nothing in the C code depends on W = 64 except the size of
the buffers, which are constants (`PosRange`, `PrintBuf`). Powers are the
function `Power`, by repeated product, so that facts about them can be proved;
the assumption `PowerMeant` of `MCData` compares it with `^` in every run.

The comparisons are equivalences: they also say where the code is *not* exact.

- `mul256()` adds the carry of column 1 one word too high. Factors of one word
  have no such carry, and the firmware multiplies only those.
- `divmod256()` by 0 does not end; `ipow(10, 64)` is 0 in a word, so a token
  with 64 decimals or more stops the shell (`ShellReturns`).
- `hextobin()` of a string with as many digits as its 8-bit position has values
  does not end, whatever comes after them: the position goes round and never
  sees them; a second `0x` is taken for zeros. A string longer than the buffer
  is excluded by its assertion (`FitsBytes`), and `TextExact` claims nothing
  of it: the firmware, without assertions, cuts it and returns a length beyond
  the buffer, and no caller tests the length.
- `tostring256()` checks the room for each digit and not for the zero byte: a
  number with as many digits as the buffer has bytes is printed with its zero
  byte behind the buffer (`Written.bytes`; `ZeroByteBehind` says when). No caller
  has so small a buffer. `TextExact` demands that a number which fits with its
  zero byte is printed inside, and that no digit ever leaves the buffer.
- `tx_encode()` differs from RLP for a value of more than 64 bits (unless its
  bytes in memory are its big-endian bytes), for data that is one zero byte,
  for empty data unless the pointer's low byte is zero, for an `r` or `s` with a
  leading zero byte and for a list of exactly 55 bytes.

`Erc20` is the table and the shell's commands: `last` is what the last command
sent or printed, `added` (history) the contracts in the order they were added.
`AmountsExact` follows a number through stored decimals, power, product or
quotient, digits and byte order; it is limited to tokens whose 10^decimals fits
a word, and to digits that fit the buffer they are printed into.

`fp2str()` is modelled for 32-bit values with whole parts below 2^31 and at most 28
binary digits (`Fits32`, a hypothesis of the property and of the theorem), where
neither its product nor `%d` overflows; only the tests call it, within that range.

### Sensor

The sensor thread and the LwM2M thread have equal priority and no time slices,
so one runs only while the other is blocked; the upload thread comes in between
any two assignments of `temperature_main()`; the shell reads one variable at a
time while the thread is blocked. A value is the number of the sample it is of.
The build without `CONFIG_SENSOR`, which stores random numbers, is left out.

### Sntp

`sync_sem` lives on the shell's stack while `sync` is not `idle`. The network may
lose the datagram (`Lose`) or deliver it twice; `sntp_request()` has no timeout.

### Sawtooth

A payload is the thread that made it and whose record it has; a transaction is
the payload whose hash was signed and the payload it carries. A thread that
goes on after the other wrote `_buf` has bytes whose length and content do not
belong together: `Junk`, of which nothing is claimed. `command` is where a
thread is in `__sign_and_send()`; the call itself is `HttpService` with one
structure for both threads. `http_nfo_free()` is two steps, because the demo
thread's timer may preempt the shell in between: `FreeTest` looks at `_priv`, and
`FreeUnlock` unlocks what it points to. After a failed call it is NULL and the
free does nothing, unless a whole call of the demo thread came in between
(`overtaken`) and set it. Then either nobody holds the mutex: Zephyr's
`k_mutex_unlock()` (external, assertions compiled out) counts below zero, and no
one can lock any more, the owner `Lost`. Or the demo thread comes once more
between the two steps and is in its next call: the shell unlocks the mutex the
demo thread holds, or NULL, which ends the shell's thread (`dead`) or writes
somewhere else (`stray`). After that the model keeps only to what the mutex and
the program do; a write through NULL is not followed. `thread_sem`, `exit_sem`, `shell` and `demo` are the stop protocol, a
variant of the one in `upload.c`, and refine `StopService`, too.

## 3. Runs

| Run | Shows |
|---|---|
| `HttpShared` | three threads, one structure, the shell leaks up to two levels: `CriticalHoldsMutex`, `NoOrphanLock`, `ReplyKept`, `ContentSafe`, `OnlyOwnerWrites`, and the inductive `IInv`, which has `TypeOK` |
| `HttpPrivate` | two threads with a structure each: `ReplyAnswersRequest`, `CallReturns`, refinement of `SharedClient` |
| `HttpLostConnection` | **violation**: `http_release()` after the unlock hits the next owner's connection |
| `Upload` | all interleavings of the commands with the thread: `SemaphoresTruthful`, `NoOverlap`, `StoppedMeansGone`, `DestinationAccepted`, `StopReturns`, `ShellRunsNonZero`, refinement of `StopService` (`ImplementsService`) |
| `UploadSpin` | **violation**: interval 65536 s starves the shell |
| `Rpc` | the upload thread sends transactions, the shell calls one method of each kind that frees: `ClientReturned`, `UndisturbedMatches`, `SuccessAnswered`, `CallReturns` |
| `RpcLeak` | **violation**: `web3_eth_call()` keeps the client after an error |
| `RpcMixedUp` | **violation**: a call gets the answer to the other thread's request |
| `Wallet` | the shell transfers, syncs and sets the nonce while the upload thread sends: `NonceNotAhead`, `NonceExact`, and the inductive `IInv`, which has `TypeOK` and the `IInv` of the modules below |
| `WalletSync` | **violation**: a sync answered with an error stores an uninitialised count |
| `Data` | each pure function against its reference: `ArithmeticExact`, `TextExact`, `TransactionEncoded`, `CalldataEncoded`; the token commands: `AmountsExact`, `ShellReturns`, `IndexMeant` |
| `Device` | sensor: `PairsFresh`; time: `NoLateCallback`, `SyncReturns`; demo: `UndisturbedSent`, `DemoSignsItsOwn`, `LostOnlyIfOvertaken`, `DemoReturns`, refinement of `StopService` (`DemoImplementsService`) |

**Bounds.** Three threads are the smallest number for which a hand-over chooses
among waiting threads; two payloads tell "mine" from "another's"; a leak depth
of two nests the mutex and still leaves it held by an unlock. Two
threads are all that use `web3_rpc.c`; the shell's methods are one
representative per behaviour (error object checked, not checked, receipt). Two
addresses show a redirection; the intervals are zero, inside 16 bits and the
two first interesting values beyond. The node takes two transactions
(`MaxNonce`): enough for one to be pending, queued or counted twice while
another is sent. No state is cut off by a bound except by `MaxDepth` (nesting),
`MaxNonce` and `MaxSamples`.

In `Data`, words of 2 bits let one factor or dividend be every 256-bit number's
counterpart (0..255) and the other every tenth one and the boundaries, so every
carry, borrow and shift between words happens. Strings are all those of up to
five characters from a zero, a one, the largest digit, an x and a character that
is no digit, and the long ones around the buffer's and the position's limit, with
and without a bad pair before and after it. Numbers go up to 2^31 - 1, balances
to more digits than `PrintBuf` has room for. Transactions cross the RLP boundaries (0, 127, 128, 256; payloads around 55
bytes and above 255), with values of up to 64 bits, of more, and one that reads
the same in both byte orders. Two writes to three items show every overlap. The table has two slots
for four tokens with 0, 2, 9 and 18 decimals: in a word of 8 bits 10^9 does not
fit, and 18 is cut to 2, like 256 + n in the firmware. In `Device`, three samples are one more than the two
that a reader may mix; one structure, one record and two threads are all the
example has.

**Deadlock** is checked except in `Data`, where an input is taken once, and in
`Device`, where a sync whose reply is lost and a lost client wait for ever, and
a NULL mutex may end the shell:
`SyncReturns` and `DemoReturns` say that nothing else does.

**Fairness.** In `HttpService` each thread keeps running inside a call and frees
its reply (weak fairness): the only waits are for the network, which
`APP_REQ_TIMEOUT` ends, and for the mutex, which is handed over. No fairness
makes a thread start a call. With three threads weak fairness would not be
enough: two of high priority may hand the mutex to each other for ever; the
firmware has two that use the client at a time: the shell and the upload thread,
or the shell and the demo thread in the Sawtooth example.
In `Web3Rpc` and `UploadService` the shell runs only while the upload thread
blocks, so its steps get strong fairness: the upload thread blocks in every
network call and every non-zero sleep. The same holds for the shell and the demo
thread in `Device`. There the network answers or loses a datagram in the end,
and `sntp sync` goes on when it can; no fairness makes it start.

**Violations** are found under the same models; `PROJECT.json` quotes the
comment or assertion each contradicts. `HttpLostConnection` is checked under
`SchedSpec`, where a thread steps only if no thread of higher priority can run,
so the priorities do not rule it out.

## 4. Proofs

`HttpService_proof` proves, for any sets of threads, structures and payloads,
any priorities and any leaking callers: `Spec => []IInv`, and from it each
safety property of the runs. `IInv` adds to them what they need to be
inductive: an owned mutex has a positive count, and a pointer left in a
structure by an earlier call means that its thread holds the mutex once more
(`StaleContentNested`). Without it, the unlock of the error path could not be
shown to keep `ContentOnlyForOwner`. The unlock is one lemma (`UnlockEffect`).
`ReplyAnswers` and `Implements` assume that no two threads share a structure
(`PrivateNfos`): then the request in the structure is still the caller's when
it is read (`RequestStays`), each step maps to a step of `SharedClient` or to
none, and the answer is the caller's. Without the assumption it is false, which
`RpcMixedUp` shows for `web3_rpc.c`.

`UploadService_proof` proves every safety and action property of the `Upload`
run for any addresses and intervals, and that the service implements
`StopService`: every step starts, asks, ends or returns, or is none of these.
`NoOverlap` and `StoppedMeansGone` rest on the scheduler: the semaphore is given
before the thread has ended, and only because a dying thread of priority 5 is
not blocked does the shell not run in between.

`Web3Rpc_proof` proves the safety properties of the `Rpc` run for any threads,
priorities and methods. Its `IInv` has that of `HttpService`, whose actions the
lemmas of `HttpService_proof` carry over, and three parts of its own.
`PhasesAgree`: a call is inside the HTTP client exactly while it is at `http`.
`FrugalHoldsOnce`: a thread that never calls `web3_eth_call()` holds the mutex
once and only inside the client; an exact count is needed, because one unlock of
a mutex held twice gives nothing back. `RequestIntact`: the request of a call
that no other thread disturbed, at each place from the first half in `WEB3_BUF`
to the wire. `ClientReturned` is proved for threads that are all frugal
(`Returned`); `RpcLeak` shows that it is false for `web3_eth_call()`.

`Wallet_proof` proves `NonceNotAhead` and `NonceExact` for any number of
transactions, jobs and threads that share them as the firmware does
(`ThreadsAssumption`: `upload.c` has one static thread, of a priority above the
shell's, and `wallet sync` is a shell command). "The nonce is the node's count"
is not inductive: between the node's reply and `nonce++` the nonce is behind
by one. `NonceOwed` says so of an upload that is taken or has returned 0
(`Uncounted`), and `NonceKept` of all other states, both up to `unpaid`. What the node takes is the number on the wire,
so `NonceCarried` follows it from `tx.nonce` through the buffer, and `CountTold`
says what a sync may store when it comes to the store. The upload thread is
`Uncounted` only where it does not block, which keeps a lower thread from
storing a count in between. Every step of the client has one step of the proof
for each part.

`Device_proof` has four parts. `PairsFresh` holds for any number of samples: the
sensor's invariant says how far each half is from the driver's sample at each
point of the thread's round (`PairOf`), and that a shell between its two reads
holds a temperature not newer than the humidity to come.

Then the safety and action properties of the demo, and that it implements
`StopService`. A mutex unlocked once too often is no thread's (`Lost`), a state
`HttpService` alone does not have, so the theorems of `HttpService_proof` do not
apply: `MutexAgrees` goes through the mutex again for the two threads, and holds
until one of them unlocks what the other holds (`~stray`).
`PrivTells` is the heart of `LostOnlyIfOvertaken`: at the free after a failed
call `_priv` is set, or was when it was tested, only if a call of the other
thread came in between. The demo thread cannot be overtaken, because the shell runs only while it is blocked
(`DemoAlone`). `DemoAgrees` relates the semaphores to the phases of the thread,
as in `UploadService`.

Last, that no SNTP callback comes after `sntp sync` returned, and, from the fact
that each step of the device is one of one service and leaves the others alone
(`EachForItself`), that every theorem about a service holds of the three
together.

### Data

What a recursive function computes is shown for every input, without the
library's induction theorems. A set of natural numbers has a least element
(`Least`, from the well-foundedness of `<`), so a set that holds 0 and the
successor of each of its members holds every number (`Induct`), and so for any
measure (`MeasureInduct`). `Recursion` says that a function which refers to
itself only at smaller arguments exists; every recursive definition is first
shown to solve its equation that way (`PowerDef`, `IpowDef`, `NumberOfIs`,
`DigitsUnfold`, `DecimalsDef`, `FlattenIs` and others), then what it computes by
induction.

`Uint256_proof` proves the arithmetic of `uint256.c` that the firmware uses, for
every even word width (`Data` has 2, the firmware 64) and all operands. Sums,
differences and comparisons are those of integers modulo 2^(4W)
(`CarriesExact`), shifts are products and quotients by powers of two
(`ShiftsAreExact`). `mul256()` is taken apart into its four column sums: what it
returns is the product of the integers, but for the carry of column 1, which is
added one word too high (`ProductsAreExact`). For
`divmod256()` the invariant `InLoop` of shift and subtract is
`div * R + mod = L`, with `copyd` the divisor and `adder` one, both shifted by
the same distance, `mod` below twice `copyd` and `div` a multiple of twice
`adder`, so that the `or` of the two is their sum. The distance goes down every
round, which is why it ends; for the divisor 0 it never does
(`DivisionsAreExact`). `ipow()` keeps the congruence of square and multiply
(`PowersAreExact`).

`HexText_proof` is about the number digits mean (`NumberOf`): what putting
strings together, zeros in front and at the end, and grouping digits do to it.
`WordsRead` and `WordsWritten` are the two directions between bytes and words.
The digits `tostring256()` takes from the right mean the number and are as few
as possible (`DigitsMeant`), so they and the zero byte fit a buffer when the
number is below the power of the base one place down (`NumbersPrinted`), and only
the zero byte does not when it is between the two powers (`ZeroByteBehind`). Pairs of hexadecimal digits mean
what the digits mean (`PairsMean`), with which `NumbersRead` follows an even and
an odd string through `hextobin_2()` to the end of the zeroed buffer.
`BytesAreRead` turns the bytes back to text and compares that with the digits,
for every string that fits. `FixedPointsExact`: a fraction of n binary digits leaves nothing after n
decimal ones, because 10^n = 2^n * 5^n.

Two definitions have their form because the proofs ask what they mean for every
input. `hextobin` looks only at the pairs (`seen`) that the 8-bit position
comes to: a bad pair beyond them changes neither the bytes nor the return.
`FractionDigits` has one remainder per step, where a recursive function on
remainders would have no value once a remainder comes back.

`Data_proof` is about the token commands, the calldata and the transactions.
The token table fills in order, whatever fails in between, so an index that fits
a byte means the contract added as that (`IndexKept`). 10^d is 2^d times an odd
number, so it is 0 modulo 2^W exactly for d >= W, and with the division that is
when the shell does not come back (`ReturnsKept`, whose invariant is that the
decimals of the table are those the contracts told). `AmountsKept` puts together
power, product, bytes and words on the way out, and quotient, remainder, digits,
padding and dropped zeros on the way in. Both are for any number of tokens,
contracts, decimals, amounts and balances. The calldata of any number of items
after any two writes holds what the writes said (`CalldataKept`); `IsWrite` is
what the argument types and the assertion of `encode_data()` admit.

`TransactionsExact` compares `tx_encode()` with the RLP of the fields. The bytes
of a length mean the length, so the header of a list can be read; every item
says where it ends, so two lists of items put in a row are equal only if they
are equal item by item. The code's header differs from RLP's exactly at 55
bytes, an integer without its leading zeros from the bytes the code sends
exactly in the cases `Inexact` lists, and a list with one item that differs
differs as a whole. That gives the equivalence: equal exactly outside those
cases. It holds for every transaction whose fields have the sizes of
`eth/transaction.h` and are bytes (`IsTx`), and every signature with `r` and `s`
of at least 2^64 (`IsSig`). A smaller one, which ECDSA gives with a chance of
2^-192, is taken for a word in memory order and may be right by coincidence.

`ArithmeticKept`, `TextKept`, `TransactionKept` and `CalldataRead` are the
invariants of the `Data` run itself: its inputs are among those the theorems
are about, for `Uint256` also with words of 2 bits.

**Assumptions on constants.** Besides types: `PrivateNfos` and `Frugal = Threads`
where a theorem names them; `ThreadsAssumption`; that words have an even number
of bits, and at least 4 where text is converted, so that 10 fits one; that the
values of a word are a multiple of those of a byte; that a hexadecimal digit has
1 to 4 bits and two of them divide the word; that the position of `hextobin()` has an
even number of values, more than a 256-bit number has digits; that the print
buffer has room for more than its zero byte. The firmware's values (64, 256, 4,
256, 65) satisfy all, and TLC evaluates each on the instance it runs.

**Model-checked only**, and why: liveness (`CallReturns`, `StopReturns`,
`ShellRunsNonZero`, `SyncReturns`, `DemoReturns`), because fairness and ENABLED
are out of the prover's reach, and the runs that expect a violation. Every
invariant, action property and refinement of the passing runs is a theorem.

## 5. Not modelled, and the plan

Left in the plan, in this order:

1. Proofs of what `SyncSyncs` claims when no error object comes: that a sync
   that told the truth stores a count of the node.
2. `System`: the upload service on top of `Wallet`, where a client that
   `web3_eth_call()` kept makes `upload stop` wait for ever. `ClientReturned`
   and the run `RpcLeak` show its cause today.
3. `fp2str()` with more binary digits or a larger whole part, once it is called so.

Not modelled, with the reason:

- *The fill of the request buffer* (`eth/web3.c`): no request of the firmware
  comes near its 512 bytes.
- *The token walk of `eth/web3_jsonp.c`*: `Web3Rpc` has what each decoder returns
  for each kind of reply; the walk needs the third-party tokenizer.
- *`web3_shell.c`*: it converts its arguments around one call and keeps no state;
  what it prints after a failed call is not claimed by any text.
- *Functions without a caller*: `divmod128()`, `tostring128()` (copies of the
  256-bit ones), `tx_set_to()`, `lwm2m_init()`, batches in
  `sawtooth/encoders.c`, and the error parser, which `__sign_and_send()` never
  reaches.
- *The simulated sensor*, which stores random numbers.
- *Zephyr's kernel and network stack, the cryptography* (external, modelled by
  how the code uses them), *jsmn and nanopb* (third party), *the ABI compiler and
  build files* (no run-time state).
