-------------------------------- MODULE Wallet --------------------------------
(***************************************************************************)
(* The account of the wallet (zephyr-wallet/wallet.c) against the node:    *)
(* "wallet transfer" and "wallet sync" in the shell thread and the         *)
(* transactions of the upload thread (zephyr-wallet/upload.c), over        *)
(* web3_rpc.c.  The node takes a transaction whose nonce is the number of  *)
(* transactions it took for the account, mines it some time later, and     *)
(* tells the number it has mined; the wallet keeps its own count, which    *)
(* only the upload thread, "wallet sync" and "wallet nonce" write.         *)
(***************************************************************************)
EXTENDS Integers, Sequences

CONSTANTS Threads, Prio, NoThread, NoPayload,
  JobsOf,    \* what each thread does: "transfer", "sync", "nonce", "upload"
  MaxNonce   \* bound: transactions that the node takes

VARIABLES
  owner, lock_count, wait_q, http_ctx, result, payload, content, priv, sent,
  asked, pc,                                    \* of HttpService
  rpc, method, kind, ret, decoded, disturbed,   \* of Web3Rpc
  nonce,     \* _account.nonce
  count,     \* transactions of the account that the node has taken, ...
  mined,     \* ... and those of them that are in a block
  queued,    \* nonces of transactions that the node keeps for later
  job,       \* what a thread does
  step,      \* where it is in doing it
  tx_nonce,  \* tx.nonce of the transaction it built
  coded,     \* tx.nonce of the transaction last written to WEB3_BUF
  wire,      \* tx.nonce of the transaction on the wire
  tx_count,  \* local of wallet_sync(): what the node said, or garbage
  fresh,     \* history: no transaction was pending or taken since the node said it
  wild,      \* history: the nonce may be anything
  missed,    \* history: a transaction the node took was not counted
  unpaid     \* history: uploads that counted although the node had not taken them

callVars == <<owner, lock_count, wait_q, http_ctx, result, payload, content,
              priv, sent, asked, pc, rpc, kind>>
outcomeVars == <<method, ret, decoded, disturbed>>
rpcVars == <<callVars, outcomeVars>>
nodeVars == <<count, mined, queued>>
vars == <<owner, lock_count, wait_q, http_ctx, result, payload, content, priv,
          sent, asked, pc, rpc, method, kind, ret, decoded, disturbed,
          nonce, count, mined, queued, job, step, tx_nonce, coded, wire,
          tx_count, fresh, wild, missed, unpaid>>

Jobs == {"transfer", "sync", "nonce", "upload"}

MethodOf(j) ==
  IF j = "sync" THEN "getTransactionCount" ELSE "sendRawTransaction"

R == INSTANCE Web3Rpc WITH
       MethodsOf <- [t \in Threads |-> {MethodOf(j) : j \in JobsOf[t]}],
       MaxDepth <- 1

ASSUME WalletAssumption ==
  /\ Prio \in [Threads -> Nat]
  /\ NoThread \notin Threads
  /\ NoPayload \notin R!Bodies
  /\ JobsOf \in [Threads -> SUBSET Jobs]
  /\ MaxNonce \in Nat \ {0}

\* One thread uploads, and nothing runs while it can; one thread, the shell, syncs.
ASSUME ThreadsAssumption ==
  \A t, u \in Threads :
    t # u => /\ "sync" \notin JobsOf[t] \cap JobsOf[u]
             /\ "upload" \in JobsOf[t] => "upload" \notin JobsOf[u] /\ Prio[t] < Prio[u]

Nonces == 0..(MaxNonce + 1)

AccountOK ==
  /\ nonce \in Nonces
  /\ count \in 0..MaxNonce
  /\ mined \in 0..count
  /\ queued \subseteq count+1..MaxNonce-1
  /\ job \in [Threads -> Jobs \cup {"none"}]
  /\ step \in [Threads -> {"idle", "built", "call", "back"}]
  /\ tx_nonce \in [Threads -> Nonces]
  /\ coded \in Nonces /\ wire \in Nonces /\ tx_count \in Nonces
  /\ fresh \in BOOLEAN /\ wild \in BOOLEAN /\ missed \in BOOLEAN
  /\ unpaid \in Nat

TypeOK == R!TypeOK /\ AccountOK

\* The account of a device that was switched on may have transactions.
Init ==
  /\ R!Init
  /\ nonce = 0
  /\ count \in 0..1 /\ mined = count /\ queued = {}
  /\ missed = (count # 0)
  /\ job = [t \in Threads |-> "none"]
  /\ step = [t \in Threads |-> "idle"]
  /\ tx_nonce = [t \in Threads |-> 0]
  /\ coded = 0 /\ wire = 0 /\ tx_count = 0
  /\ fresh = FALSE /\ wild = FALSE /\ unpaid = 0

-----------------------------------------------------------------------------
(* The jobs.                                                               *)

\* The arguments are converted and the transaction is built and signed with
\* the nonce of this moment (wallet_sync() builds nothing).
Build(t, j) ==
  /\ step[t] = "idle"
  /\ nonce <= MaxNonce /\ j # "nonce"
  /\ step' = [step EXCEPT ![t] = "built"]
  /\ job' = [job EXCEPT ![t] = j]
  /\ tx_nonce' = [tx_nonce EXCEPT ![t] = IF j = "sync" THEN 0 ELSE nonce]
  /\ UNCHANGED <<rpcVars, nonce, nodeVars, coded, wire, tx_count, fresh, wild,
                 missed, unpaid>>

\* wallet_set_nonce(): the user gives any number.
SetNonce(t) ==
  /\ step[t] = "idle" /\ "nonce" \in JobsOf[t]
  /\ nonce' \in 0..MaxNonce
  /\ wild' = TRUE
  /\ unpaid' = 0
  /\ UNCHANGED <<rpcVars, nodeVars, job, step, tx_nonce, coded, wire, tx_count,
                 fresh, missed>>

\* web3_eth_sendRawTransaction() or web3_eth_getTransactionCount() is called.
CallRpc(t) ==
  /\ step[t] = "built"
  /\ R!Begin(t, MethodOf(job[t]))
  /\ step' = [step EXCEPT ![t] = "call"]
  /\ coded' = 0
  /\ UNCHANGED <<nonce, nodeVars, job, tx_nonce, wire, tx_count, fresh, wild,
                 missed, unpaid>>

\* The transaction goes into WEB3_BUF, which Begin has reset.
Encode(t) ==
  /\ R!Encode(t)
  /\ coded' = IF job[t] = "sync" THEN coded ELSE tx_nonce[t]
  /\ UNCHANGED <<nonce, nodeVars, job, step, tx_nonce, wire, tx_count,
                 fresh, wild, missed, unpaid>>

-----------------------------------------------------------------------------
(* The node.                                                               *)

Sends(t, m) == \E u \in Threads : sent[t] = R!Whole(R!Request(u, m))

\* The transaction on the wire, if one is there, is the next of the account.
NextOnWire(t) ==
  Sends(t, "sendRawTransaction") /\ wire = count /\ count < MaxNonce

\* The node takes it, and with it those that were waiting for it; the wallet
\* will count it or not.
Takes(counted) ==
  /\ count' \in count+1..MaxNonce \ queued
  /\ count+1..count'-1 \subseteq queued
  /\ queued' = queued \ 0..count'
  /\ missed' = (missed \/ ~counted \/ count' # count + 1)

\* The transaction on the wire, if one is there, leaves a gap: it has to wait for
\* the ones before it.
Queues(t) ==
  /\ Sends(t, "sendRawTransaction") /\ wire > count
  /\ queued' = queued \cup ({wire} \cap 0..MaxNonce-1)
  /\ UNCHANGED <<count, missed>>

\* It reaches the node, but the caller does not hear so.
Unheard(t) == Queues(t) \/ (NextOnWire(t) /\ Takes(FALSE))

Ignores == UNCHANGED <<count, queued, missed>>

Mine ==
  /\ mined < count
  /\ mined' = mined + 1
  /\ UNCHANGED <<rpcVars, nonce, count, queued, job, step, tx_nonce, coded, wire,
                 tx_count, fresh, wild, missed, unpaid>>

\* A step inside http_send_data(): what SendReq puts on the wire is what WEB3_BUF
\* holds by then; a call that ends without a reply may have reached the node.
HttpStep(t) ==
  /\ R!HttpStep(t)
  /\ wire' = CASE pc[t] = "wait" -> 0
               [] pc[t] = "connect" /\ pc'[t] = "wait" -> coded
               [] OTHER -> wire
  /\ \/ Ignores
     \/ pc[t] = "wait" /\ Unheard(t)
  /\ fresh' = (fresh /\ count' = count)
  /\ UNCHANGED <<nonce, mined, job, step, tx_nonce, coded, tx_count, wild, unpaid>>

\* The node replies.  A transaction whose nonce is used up is refused; one that
\* has to wait gets its hash all the same; what a reply without a result says
\* nothing of may have happened or not.  To a sync the node tells the number of
\* mined transactions ("latest"); any other reply leaves the caller's tx_count
\* uninitialised, or gives it another number.
HttpReply(t) ==
  /\ R!HttpReply(t)
  /\ \/ kind' = "result" /\ NextOnWire(t) /\ Takes(job[t] = "upload")
     \/ kind' = "result" /\ Queues(t)
     \/ kind' = "result" /\ ~Sends(t, "sendRawTransaction") /\ Ignores
     \/ kind' \in {"error", "refused"} /\ Ignores
     \/ kind' \in {"empty", "bad"} /\ (Ignores \/ Unheard(t))
  /\ IF job[t] = "sync"
       THEN /\ tx_count' \in IF kind' = "result" /\ Sends(t, "getTransactionCount")
                               THEN {mined} ELSE 0..MaxNonce
            /\ fresh' = (mined = count')
       ELSE tx_count' = tx_count /\ fresh' = (fresh /\ count' = count)
  /\ UNCHANGED <<nonce, mined, job, step, tx_nonce, coded, wire, wild, unpaid>>

\* Thread t holds the result of a transaction that the node has taken.
HoldsTaken(t) == pc[t] = "reply" /\ kind = "result" /\ wire < count

\* The method returns.  The reply to a transaction that was taken may still pass
\* for an error, and one that says nothing of the kind for success.
RpcReturn(t) ==
  /\ R!EncodeFails(t) \/ R!HttpFailed(t) \/ R!Return(t)
  /\ step' = [step EXCEPT ![t] = "back"]
  /\ missed' = (missed \/ (job[t] = "upload" /\ HoldsTaken(t) /\ ret'[t] < 0))
  /\ unpaid' = IF job[t] = "upload" /\ ret'[t] = 0 /\ ~HoldsTaken(t)
                  THEN unpaid + 1 ELSE unpaid
  /\ wire' = IF pc[t] = "reply" THEN 0 ELSE wire
  /\ UNCHANGED <<nonce, nodeVars, job, tx_nonce, coded, tx_count, fresh, wild>>

-----------------------------------------------------------------------------
\* The job ends, with its locals and what its call returned.
End(t) ==
  /\ step[t] = "back"
  /\ step' = [step EXCEPT ![t] = "idle"]
  /\ job' = [job EXCEPT ![t] = "none"]
  /\ tx_nonce' = [tx_nonce EXCEPT ![t] = 0]
  /\ method' = [method EXCEPT ![t] = "none"]
  /\ ret' = [ret EXCEPT ![t] = -1]
  /\ decoded' = [decoded EXCEPT ![t] = "none"]
  /\ disturbed' = [disturbed EXCEPT ![t] = FALSE]
  /\ UNCHANGED <<callVars, nodeVars, coded, wire>>

\* wallet_transfer() prints the hash or an error, and leaves the nonce alone.
TransferEnd(t) ==
  /\ job[t] = "transfer"
  /\ End(t)
  /\ UNCHANGED <<nonce, tx_count, fresh, wild, missed, unpaid>>

\* _send_data_eth() has left the nonce at n.
UploadEndWith(t, n) ==
  /\ job[t] = "upload"
  /\ nonce' = n
  /\ wild' = (wild \/ (ret[t] = 0 /\ disturbed[t]))
  /\ End(t)
  /\ UNCHANGED <<tx_count, fresh, missed, unpaid>>

\* Faulty variants, that no action uses: bugs that a property must notice.  The
\* nonce is taken back when the call failed, is incremented without a look at
\* the call, or is left alone as wallet_transfer() does.
UploadEndTakesBack(t) ==
  UploadEndWith(t, IF ret[t] = 0 THEN nonce + 1 ELSE nonce - 1)
UploadEndUnchecked(t) == UploadEndWith(t, nonce + 1)
UploadEndUncounted(t) == UploadEndWith(t, nonce)

\* account->nonce++ if the call returned 0
UploadEnd(t) == UploadEndWith(t, IF ret[t] = 0 THEN nonce + 1 ELSE nonce)

\* wallet_sync(): _account.nonce = LOWER(LOWER(tx_count)) if the call returned 0
SyncEnd(t) ==
  /\ job[t] = "sync"
  /\ IF ret[t] = 0
       THEN /\ nonce' = tx_count
            /\ wild' = (disturbed[t] \/ decoded[t] # "result")
            /\ missed' = ~fresh
            /\ unpaid' = 0
       ELSE UNCHANGED <<nonce, wild, missed, unpaid>>
  /\ tx_count' = 0 /\ fresh' = FALSE
  /\ End(t)

Finish(t) == TransferEnd(t) \/ UploadEnd(t) \/ SyncEnd(t)

-----------------------------------------------------------------------------
Work(t) ==
  \/ CallRpc(t)
  \/ Encode(t)
  \/ HttpStep(t)
  \/ HttpReply(t)
  \/ RpcReturn(t)
  \/ Finish(t)

\* One processor, preemptive priorities: the upload thread, once it runs, gets
\* from one blocking call to the next.
Runnable(t) == step[t] \in {"built", "back"} \/ R!Runnable(t)
Scheduled(t) == \A u \in Threads : Prio[u] < Prio[t] => ~Runnable(u)

Next ==
  \/ Mine
  \/ \E t \in Threads :
       /\ Scheduled(t)
       /\ Work(t) \/ SetNonce(t) \/ \E j \in JobsOf[t] : Build(t, j)

Spec == Init /\ [][Next]_vars

-----------------------------------------------------------------------------
(* Properties.                                                             *)

\* The nonce runs ahead of the node (where transactions wait for ever) by no more
\* than the uploads that were counted untaken, each upon a reply without result
\* that passed for success or upon the hash of a transaction that has to wait --
\* unless the user set it, two calls overlapped in the shared request buffer or
\* a sync took a reply without a count for one.  Of an upload that a sync's
\* answer counts and the increment for it, never both are added.
NonceNotAhead == ~wild => nonce <= count + unpaid

\* Between uploads the nonce is the node's count and those uploads, unless
\* moreover a transaction that the node took was not counted: a transfer, an
\* upload whose reply was lost, had no result or passed for an error, one that had
\* been waiting, or one that was pending when the node answered a sync or was
\* taken between that answer and the store.
NonceExact ==
  ~wild /\ ~missed /\ (\A t \in Threads : job[t] # "upload")
    => nonce = count + unpaid

\* "sync account nonce": after a sync that reported no error, and with no upload
\* under way, the nonce is a count of the node: of the mined transactions, or
\* with some of the pending ones.
SyncSyncs ==
  [][\A t \in Threads :
       (SyncEnd(t) /\ ret[t] = 0 /\ \A u \in Threads : job[u] # "upload")
         => nonce' \in mined..count]_vars

-----------------------------------------------------------------------------
(* The inductive invariant behind the nonce.                               *)

\* A job is one of the thread's, and its call the one the job makes.
JobsAgree ==
  \A t \in Threads :
    /\ step[t] = "idle" <=> job[t] = "none"
    /\ step[t] = "call" <=> rpc[t] # "idle"
    /\ job[t] # "none" => job[t] \in JobsOf[t] \ {"nonce"}
    /\ step[t] \in {"call", "back"} => method[t] = MethodOf(job[t])

\* There is room for the increment of an upload that is under way.
UploadInRange == \A t \in Threads : job[t] = "upload" => nonce <= MaxNonce

\* The nonce of a transaction that nothing disturbed, in the buffer and on the
\* wire
NonceCarried ==
  \A t \in Threads :
    ~disturbed[t] /\ job[t] # "sync" =>
      /\ pc[t] \in {"ready", "lock", "connect"} => coded = tx_nonce[t]
      /\ pc[t] = "wait" => wire = tx_nonce[t]

\* An upload that the node has taken, or that returned 0, and that is not counted
\* yet
Uncounted(t) ==
  /\ job[t] = "upload"
  /\ HoldsTaken(t) \/ (step[t] = "back" /\ ret[t] = 0)

\* It is owed an increment: nothing was stored over the nonce since.
NonceOwed ==
  \A t \in Threads :
    Uncounted(t) /\ ~disturbed[t] /\ ~wild =>
      /\ nonce < count + unpaid
      /\ ~missed => nonce + 1 = count + unpaid

\* Up to those, the nonce is the count.
NonceKept ==
  ~wild /\ ~missed /\ (\A t \in Threads : ~Uncounted(t))
    => nonce = count + unpaid

\* A sync that was told a count, the one in tx_count
ToldCount(t) ==
  /\ job[t] = "sync"
  /\ \/ pc[t] = "reply" /\ kind = "result"
     \/ step[t] = "back" /\ ret[t] = 0 /\ decoded[t] = "result"

\* It is not ahead of the node, if nothing disturbed the sync.
CountTold ==
  /\ tx_count <= MaxNonce
  /\ \A t \in Threads :
       ToldCount(t) /\ ~disturbed[t] =>
         tx_count <= count /\ (fresh => tx_count = count)

IInv ==
  /\ TypeOK
  /\ R!IInv
  /\ JobsAgree
  /\ UploadInRange
  /\ NonceCarried
  /\ NonceOwed
  /\ NonceKept
  /\ CountTold
  /\ NonceNotAhead
=============================================================================
