---------------------------- MODULE Wallet_proof ----------------------------
(* Proofs about Wallet for any threads, one of which may upload and one of   *)
(* which may sync.  What web3_rpc.c and the HTTP client do is not proved     *)
(* again: the theorems about Web3Rpc are taken with the parameters of Wallet *)
(* (RP).                                                                     *)
EXTENDS Wallet, TLAPS

RP == INSTANCE Web3Rpc_proof WITH
        MethodsOf <- [t \in Threads |-> {MethodOf(j) : j \in JobsOf[t]}],
        MaxDepth <- 1

USE WalletAssumption

-----------------------------------------------------------------------------
(* R and RP are the same instance under two names.                           *)

LEMMA SameAssumption == RP!RpcAssumption
  BY DEF RP!RpcAssumption, MethodOf, RP!AllMethods, R!Bodies, RP!Bodies,
         R!Requests, RP!Requests, R!Request, RP!Request, R!AllMethods

LEMMA SameData ==
  /\ R!nfo = RP!nfo
  /\ R!AllMethods = RP!AllMethods
  /\ R!ReplyKinds = RP!ReplyKinds
  /\ R!Requests = RP!Requests
  /\ \A t, m : R!Request(t, m) = RP!Request(t, m)
  /\ \A r : R!Whole(r) = RP!Whole(r)
  BY DEF R!nfo, RP!nfo, R!AllMethods, RP!AllMethods, R!ReplyKinds, RP!ReplyKinds, R!Requests,
         RP!Requests, R!Request, RP!Request, R!Whole, RP!Whole

LEMMA SameHttpType == R!H!TypeOK <=> RP!H!TypeOK
  BY DEF R!H!TypeOK, R!H!Labels, R!H!PayloadOrNone, R!H!ThreadOrNone, RP!H!TypeOK, RP!H!Labels,
         RP!H!PayloadOrNone, RP!H!ThreadOrNone, R!nfo, R!Bodies, R!Requests, R!Request,
         R!AllMethods, RP!nfo, RP!Bodies, RP!Requests, RP!Request, RP!AllMethods

LEMMA SameHttp == R!H!IInv <=> RP!H!IInv
  BY DEF R!nfo, R!Bodies, R!Requests, R!Request, R!Whole, R!AllMethods, R!H!IInv, R!H!TypeOK,
         R!H!CriticalHoldsMutex, R!H!NoOrphanLock, R!H!ReplyKept,
         R!H!ContentOnlyForOwner, R!H!StaleContentNested, R!H!Labels, R!H!Critical,
         R!H!PayloadOrNone, R!H!ThreadOrNone, RP!nfo, RP!Bodies, RP!Requests,
         RP!Request, RP!Whole, RP!AllMethods, RP!H!IInv, RP!H!TypeOK,
         RP!H!CriticalHoldsMutex, RP!H!NoOrphanLock, RP!H!ReplyKept,
         RP!H!ContentOnlyForOwner, RP!H!StaleContentNested, RP!H!Labels,
         RP!H!Critical, RP!H!PayloadOrNone, RP!H!ThreadOrNone

LEMMA SameInvariant == R!IInv <=> RP!IInv
<1> USE SameData
<1>1. R!TypeOK <=> RP!TypeOK
  BY SameHttpType DEF R!TypeOK, RP!TypeOK
<1>2. R!PhasesAgree <=> RP!PhasesAgree
  BY DEF R!PhasesAgree, RP!PhasesAgree
<1>3. R!FrugalHoldsOnce <=> RP!FrugalHoldsOnce
  BY DEF R!FrugalHoldsOnce, RP!FrugalHoldsOnce, R!Frugal, RP!Frugal, R!H!Critical,
         RP!H!Critical
<1>4. R!RequestIntact <=> RP!RequestIntact
  BY DEF R!RequestIntact, RP!RequestIntact
<1> QED
  BY <1>1, <1>2, <1>3, <1>4, SameHttp DEF R!IInv, RP!IInv

LEMMA SameInvariantNext == R!IInv' <=> RP!IInv'
  BY SameInvariant, PTL

LEMMA SameInit == R!Init <=> RP!Init
  BY DEF R!Init, RP!Init, R!H!Init, RP!H!Init, R!nfo, RP!nfo

LEMMA SameBegin ==
  ASSUME NEW t \in Threads, NEW m, R!Begin(t, m)
  PROVE  RP!Begin(t, m)
  BY DEF R!Begin, R!Disturb, R!nfo, R!Bodies, R!Requests, R!Request, R!Whole, R!AllMethods,
         RP!Begin, RP!Disturb, RP!nfo, RP!Bodies, RP!Requests, RP!Request, RP!Whole,
         RP!AllMethods

LEMMA SameEncode ==
  ASSUME NEW t \in Threads, R!Encode(t)
  PROVE  RP!Encode(t)
  BY DEF R!Encode, R!Disturb, R!H!Goto, R!Request, R!nfo, RP!Encode, RP!Disturb, RP!H!Goto,
         RP!Request, RP!nfo

LEMMA SameEncodeFails ==
  ASSUME NEW t \in Threads, R!EncodeFails(t)
  PROVE  RP!EncodeFails(t)
  BY DEF R!EncodeFails, R!Disturb, R!ReturnValue, RP!EncodeFails, RP!Disturb, RP!ReturnValue

LEMMA SameHttpStep ==
  ASSUME NEW t \in Threads, R!HttpStep(t)
  PROVE  RP!HttpStep(t)
  BY DEF R!HttpStep, R!rpcVars, R!nfo, R!H!Lock, R!H!InitClient, R!H!SendReq, R!H!BadReply,
         R!H!Timeout, R!H!UnlockOnError, R!H!Goto, R!H!Leave, R!H!MutexLock,
         R!H!MutexUnlock, R!H!First, RP!HttpStep, RP!rpcVars, RP!nfo, RP!H!Lock,
         RP!H!InitClient, RP!H!SendReq, RP!H!BadReply, RP!H!Timeout,
         RP!H!UnlockOnError, RP!H!Goto, RP!H!Leave, RP!H!MutexLock, RP!H!MutexUnlock,
         RP!H!First

LEMMA SameHttpReply ==
  ASSUME NEW t \in Threads, R!HttpReply(t)
  PROVE  RP!HttpReply(t)
<1>1. RP!H!GoodReply(t)
  BY SameData DEF R!HttpReply, R!H!GoodReply, RP!H!GoodReply, R!H!Goto, RP!H!Goto
<1> QED  BY <1>1, SameData DEF R!HttpReply, RP!HttpReply

LEMMA SameHttpFailed ==
  ASSUME NEW t \in Threads, R!HttpFailed(t)
  PROVE  RP!HttpFailed(t)
  BY DEF R!HttpFailed, R!H!ReleaseAfterError, R!ReturnValue, R!H!Goto, R!H!Leave,
         R!H!MutexLock, R!H!MutexUnlock, R!H!First, RP!HttpFailed,
         RP!H!ReleaseAfterError, RP!ReturnValue, RP!H!Goto, RP!H!Leave,
         RP!H!MutexLock, RP!H!MutexUnlock, RP!H!First

LEMMA SameReturn ==
  ASSUME NEW t \in Threads, R!Return(t)
  PROVE  RP!Return(t)
  BY DEF R!Return, R!ReturnValue, R!Outcomes, R!ErrorChecked, R!FoundNegative, R!Frees, R!H!NfoFree, R!H!Leak, R!nfo, R!H!Goto,
         R!H!Leave, R!H!MutexLock, R!H!MutexUnlock, R!H!First, RP!Return,
         RP!ReturnValue, RP!Outcomes, RP!ErrorChecked, RP!FoundNegative, RP!Frees, RP!H!NfoFree, RP!H!Leak, RP!nfo,
         RP!H!Goto, RP!H!Leave, RP!H!MutexLock, RP!H!MutexUnlock, RP!H!First

\* Whatever web3_rpc.c does keeps its invariant.
LEMMA RpcKeepsInv ==
  ASSUME R!IInv, NEW t \in Threads,
         \/ \E m \in {MethodOf(j) : j \in JobsOf[t]} : R!Begin(t, m)
         \/ R!Encode(t) \/ R!EncodeFails(t) \/ R!HttpStep(t) \/ R!HttpReply(t)
         \/ R!HttpFailed(t) \/ R!Return(t)
  PROVE  R!IInv'
<1>1. RP!IInv
  BY SameInvariant
<1>2. RP!Work(t) \/ \E m \in {MethodOf(j) : j \in JobsOf[t]} : RP!Begin(t, m)
  BY SameBegin, SameEncode, SameEncodeFails, SameHttpStep, SameHttpReply, SameHttpFailed,
     SameReturn DEF RP!Work
<1>3. [u \in Threads |-> {MethodOf(j) : j \in JobsOf[u]}][t] = {MethodOf(j) : j \in JobsOf[t]}
  OBVIOUS
<1>4. RP!IInv'
  BY <1>1, <1>2, <1>3, SameAssumption, RP!StepIInv
<1> QED  BY <1>4, SameInvariantNext

LEMMA RpcInit == R!Init => R!IInv
  BY SameInit, SameInvariant, SameAssumption, RP!InitIInv


-----------------------------------------------------------------------------
(* What the account needs to know of the threads inside web3_rpc.c.          *)

LEMMA RpcTypes ==
  ASSUME R!IInv
  PROVE  /\ pc \in [Threads -> R!H!Labels]
         /\ rpc \in [Threads -> {"idle", "encode", "http"}]
         /\ ret \in [Threads -> {0, -1}]
         /\ method \in [Threads -> R!AllMethods \cup {"none"}]
         /\ decoded \in [Threads -> R!ReplyKinds \cup {"none"}]
         /\ disturbed \in [Threads -> BOOLEAN]
         /\ R!H!Labels = {"idle", "ready", "lock", "connect", "wait", "unlock", "release",
                          "reply"}
  BY DEF R!IInv, R!TypeOK, R!H!IInv, R!H!TypeOK, R!H!Labels

LEMMA InClient ==
  ASSUME R!IInv, NEW t \in Threads
  PROVE  rpc[t] = "http" <=> pc[t] # "idle"
  BY DEF R!IInv, R!PhasesAgree

\* One thread at a time is on the wire or holds a reply, and it does not wait
\* for the mutex.
LEMMA OneOnWire ==
  ASSUME R!IInv, NEW t \in Threads, pc[t] \in {"wait", "reply"}
  PROVE  /\ t \notin wait_q
         /\ \A u \in Threads : pc[u] \in {"wait", "reply"} => u = t
  BY DEF R!IInv, R!H!IInv, R!H!CriticalHoldsMutex, R!H!Critical

\* The request of an undisturbed call is on the wire.
LEMMA OwnRequest ==
  ASSUME R!IInv, NEW t \in Threads, ~disturbed[t], pc[t] \in {"wait", "reply"}, NEW m
  PROVE  Sends(t, m) <=> m = method[t]
<1>1. sent[t] = R!Whole(R!Request(t, method[t]))
  BY InClient DEF R!IInv, R!RequestIntact
<1>2. \A u \in Threads : R!Whole(R!Request(u, m)) = R!Whole(R!Request(t, method[t])) => m = method[t]
  <2> SUFFICES ASSUME NEW u \in Threads,
                      R!Whole(R!Request(u, m)) = R!Whole(R!Request(t, method[t]))
               PROVE  m = method[t]
    OBVIOUS
  <2>1. R!Whole(R!Request(u, m))[1] = R!Whole(R!Request(t, method[t]))[1]
    OBVIOUS
  <2>2. [req |-> R!Request(u, m), part |-> 1] = [req |-> R!Request(t, method[t]), part |-> 1]
    BY <2>1 DEF R!Whole
  <2>3. [by |-> u, method |-> m] = [by |-> t, method |-> method[t]]
    BY <2>2 DEF R!Request
  <2> QED  BY <2>3
<1> QED  BY <1>1, <1>2 DEF Sends

\* The scheduler leaves an upload that has its answer alone until it has
\* counted it.
LEMMA UploadGoesFirst ==
  ASSUME IInv, NEW t \in Threads, Scheduled(t), NEW u \in Threads, Uncounted(u)
  PROVE  u = t
<1>1. Runnable(u)
  <2>1. CASE step[u] = "back"
    BY <2>1 DEF Runnable
  <2>2. CASE pc[u] = "reply"
    BY <2>2, OneOnWire DEF IInv, Runnable, R!Runnable, R!H!Runnable
  <2> QED  BY <2>1, <2>2 DEF Uncounted, HoldsTaken
<1>2. "upload" \in JobsOf[u]
  BY DEF Uncounted, IInv, JobsAgree
<1> QED  BY <1>1, <1>2, ThreadsAssumption DEF Scheduled

-----------------------------------------------------------------------------
(* The invariant, one lemma per action.                                      *)

\* What the invariant says of the nonce
Rest ==
  JobsAgree /\ UploadInRange /\ NonceCarried /\ NonceOwed /\ NonceKept /\ CountTold
  /\ NonceNotAhead

LEMMA Parts == IInv <=> R!IInv /\ AccountOK /\ Rest
  BY DEF IInv, TypeOK, Rest, R!IInv

LEMMA PartsNext == IInv' <=> R!IInv' /\ AccountOK' /\ Rest'
  BY Parts, PTL

LEMMA RpcUnchanged ==
  ASSUME R!IInv, UNCHANGED rpcVars
  PROVE  R!IInv'
  BY DEF rpcVars, callVars, outcomeVars, R!IInv, R!TypeOK, R!PhasesAgree, R!FrugalHoldsOnce,
         R!RequestIntact, R!H!IInv, R!H!TypeOK, R!H!CriticalHoldsMutex,
         R!H!NoOrphanLock, R!H!ReplyKept, R!H!ContentOnlyForOwner, R!H!StaleContentNested

LEMMA InitIInv == Init => IInv
<1> SUFFICES ASSUME Init PROVE IInv
  OBVIOUS
<1>1. R!IInv
  BY RpcInit DEF Init
<1>2. /\ count \in 0..1 /\ nonce = 0 /\ mined = count /\ queued = {}
      /\ coded = 0 /\ wire = 0 /\ tx_count = 0 /\ fresh = FALSE /\ wild = FALSE
      /\ unpaid = 0
  BY DEF Init
<1>3. missed \in BOOLEAN /\ (~missed => count = 0)
  BY DEF Init
<1>4. /\ job = [t \in Threads |-> "none"] /\ step = [t \in Threads |-> "idle"]
      /\ tx_nonce = [t \in Threads |-> 0]
      /\ pc = [t \in Threads |-> "idle"] /\ rpc = [t \in Threads |-> "idle"]
  BY DEF Init, R!Init, R!H!Init
<1>5. AccountOK
  <2>1. MaxNonce \in Nat /\ MaxNonce >= 1
    OBVIOUS
  <2>2. /\ nonce \in Nonces /\ count \in 0..MaxNonce /\ mined \in 0..count
        /\ coded \in Nonces /\ wire \in Nonces /\ tx_count \in Nonces
    BY <1>2, <2>1 DEF Nonces
  <2>3. /\ job \in [Threads -> Jobs \cup {"none"}]
        /\ step \in [Threads -> {"idle", "built", "call", "back"}]
    BY <1>4
  <2>4. tx_nonce \in [Threads -> Nonces]
    BY <1>4, <2>1 DEF Nonces
  <2> QED  BY <1>2, <1>3, <2>2, <2>3, <2>4 DEF AccountOK
<1>6. Rest
  BY <1>2, <1>3, <1>4 DEF Rest, JobsAgree, UploadInRange, NonceCarried, NonceOwed, NonceKept,
         CountTold, NonceNotAhead, Uncounted, HoldsTaken, ToldCount
<1> QED  BY <1>1, <1>5, <1>6, Parts

LEMMA BuildInv ==
  ASSUME IInv, NEW t \in Threads, NEW j \in JobsOf[t], Build(t, j)
  PROVE  IInv'
<1> USE DEF Nonces
<1>1. R!IInv /\ AccountOK /\ Rest
  BY Parts
<1>2. R!IInv'
  BY <1>1, RpcUnchanged DEF Build
<1>3. /\ step[t] = "idle" /\ nonce <= MaxNonce /\ j # "nonce" /\ j \in Jobs
      /\ step' = [step EXCEPT ![t] = "built"] /\ job' = [job EXCEPT ![t] = j]
      /\ tx_nonce' = [tx_nonce EXCEPT ![t] = IF j = "sync" THEN 0 ELSE nonce]
      /\ UNCHANGED <<rpc, method, kind, ret, decoded, disturbed, pc, nonce, count, mined,
                     queued, coded, wire, tx_count, fresh, wild, missed, unpaid>>
  BY DEF Build, rpcVars, callVars, outcomeVars, nodeVars
<1>4. AccountOK'
  BY <1>1, <1>3 DEF AccountOK
<1>5. rpc[t] = "idle" /\ pc[t] = "idle" /\ job[t] = "none"
  BY <1>1, <1>3, RpcTypes, InClient DEF Rest, JobsAgree, AccountOK
<1>6. \A u \in Threads : Uncounted(u)' <=> Uncounted(u)
  BY <1>1, <1>3, <1>5 DEF Uncounted, HoldsTaken, AccountOK
<1>7. JobsAgree'
  BY <1>1, <1>3, <1>5 DEF JobsAgree, Rest, AccountOK, Jobs
<1>8. UploadInRange' /\ NonceNotAhead'
  BY <1>1, <1>3 DEF UploadInRange, NonceNotAhead, Rest, AccountOK
<1>9. NonceCarried'
  BY <1>1, <1>3, <1>5 DEF NonceCarried, Rest, AccountOK
<1>10. NonceOwed' /\ NonceKept'
  BY <1>1, <1>3, <1>6 DEF NonceOwed, NonceKept, Rest
<1>11. CountTold'
  BY <1>1, <1>3, <1>5 DEF CountTold, ToldCount, Rest, AccountOK
<1> QED
  BY <1>2, <1>4, <1>7, <1>8, <1>9, <1>10, <1>11, PartsNext DEF Rest

LEMMA SetNonceInv ==
  ASSUME IInv, NEW t \in Threads, SetNonce(t)
  PROVE  IInv'
<1> USE DEF Nonces
<1>1. R!IInv /\ AccountOK /\ Rest
  BY Parts
<1>2. R!IInv'
  BY <1>1, RpcUnchanged DEF SetNonce
<1>3. /\ nonce' \in 0..MaxNonce /\ wild' = TRUE /\ unpaid' = 0
      /\ UNCHANGED <<rpc, method, kind, ret, decoded, disturbed, pc, job, step, tx_nonce, count,
                     mined, queued, coded, wire, tx_count, fresh, missed>>
  BY DEF SetNonce, rpcVars, callVars, outcomeVars, nodeVars
<1>4. AccountOK'
  BY <1>1, <1>3 DEF AccountOK
<1>5. Rest'
  BY <1>1, <1>3 DEF Rest, JobsAgree, UploadInRange, NonceCarried, NonceOwed, NonceKept,
        CountTold, NonceNotAhead, ToldCount
<1> QED  BY <1>2, <1>4, <1>5, PartsNext

LEMMA MineInv ==
  ASSUME IInv, Mine
  PROVE  IInv'
<1>1. R!IInv /\ AccountOK /\ Rest
  BY Parts
<1>2. R!IInv'
  BY <1>1, RpcUnchanged DEF Mine
<1>3. /\ mined < count /\ mined' = mined + 1
      /\ UNCHANGED <<rpc, method, kind, ret, decoded, disturbed, pc, nonce, job, step, tx_nonce,
                     count, queued, coded, wire, tx_count, fresh, wild, missed, unpaid>>
  BY DEF Mine, rpcVars, callVars, outcomeVars
<1>4. AccountOK'
  BY <1>1, <1>3 DEF AccountOK, Nonces
<1>5. Rest'
  BY <1>1, <1>3 DEF Rest, JobsAgree, UploadInRange, NonceCarried, NonceOwed, NonceKept,
        CountTold, NonceNotAhead, Uncounted, HoldsTaken, ToldCount
<1> QED  BY <1>2, <1>4, <1>5, PartsNext

\* Thread t writes the buffer: the other calls are disturbed or not under way.
LEMMA DisturbOthers ==
  ASSUME NEW t \in Threads, disturbed \in [Threads -> BOOLEAN],
         \/ disturbed' = R!Disturb(t)
         \/ disturbed' = [R!Disturb(t) EXCEPT ![t] = FALSE]
  PROVE  \A u \in Threads :
           u # t => /\ ~disturbed'[u] => ~disturbed[u] /\ rpc[u] = "idle"
                    /\ rpc[u] = "idle" => disturbed'[u] = disturbed[u]
  BY DEF R!Disturb

LEMMA CallRpcInv ==
  ASSUME IInv, NEW t \in Threads, CallRpc(t)
  PROVE  IInv'
<1> USE DEF Nonces
<1>1. R!IInv /\ AccountOK /\ Rest
  BY Parts
<1>2. step[t] = "built" /\ job[t] \in JobsOf[t] /\ R!Begin(t, MethodOf(job[t]))
  BY <1>1 DEF CallRpc, Rest, JobsAgree, AccountOK
<1>3. R!IInv'
  BY <1>1, <1>2, RpcKeepsInv
<1>4. /\ rpc' = [rpc EXCEPT ![t] = "encode"] /\ method' = [method EXCEPT ![t] = MethodOf(job[t])]
      /\ rpc[t] = "idle" /\ disturbed' = [R!Disturb(t) EXCEPT ![t] = FALSE]
      /\ UNCHANGED <<pc, kind, ret, decoded>>
      /\ step' = [step EXCEPT ![t] = "call"] /\ coded' = 0
      /\ UNCHANGED <<nonce, count, mined, queued, job, tx_nonce, wire, tx_count, fresh, wild,
                     missed, unpaid>>
  BY <1>2 DEF CallRpc, R!Begin, nodeVars
<1>5. AccountOK'
  BY <1>1, <1>4 DEF AccountOK
<1>6. pc[t] = "idle" /\ \A u \in Threads : u # t /\ pc[u] # "idle" => disturbed'[u]
  BY <1>1, <1>4, DisturbOthers, RpcTypes, InClient
<1>7. \A u \in Threads : Uncounted(u)' <=> Uncounted(u)
  BY <1>1, <1>2, <1>4, <1>6 DEF Uncounted, HoldsTaken, AccountOK
<1>8. \A u \in Threads : u # t /\ ~disturbed'[u] => ~disturbed[u]
  BY <1>1, <1>4, DisturbOthers, RpcTypes
<1>9. JobsAgree'
  BY <1>1, <1>2, <1>4, RpcTypes DEF JobsAgree, Rest, AccountOK
<1>10. UploadInRange' /\ NonceNotAhead'
  BY <1>1, <1>4 DEF UploadInRange, NonceNotAhead, Rest, AccountOK
<1>11. NonceCarried'
  BY <1>1, <1>4, <1>6, RpcTypes DEF NonceCarried, Rest
<1>12. NonceOwed' /\ NonceKept'
  BY <1>1, <1>2, <1>4, <1>6, <1>7, <1>8 DEF NonceOwed, NonceKept, Rest, Uncounted, HoldsTaken
<1>13. CountTold'
  BY <1>1, <1>4, <1>6, <1>8 DEF CountTold, ToldCount, Rest, AccountOK
<1> QED
  BY <1>3, <1>5, <1>9, <1>10, <1>11, <1>12, <1>13, PartsNext DEF Rest

LEMMA EncodeInv ==
  ASSUME IInv, NEW t \in Threads, Encode(t)
  PROVE  IInv'
<1> USE DEF Nonces
<1>1. R!IInv /\ AccountOK /\ Rest
  BY Parts
<1>2. R!Encode(t)
  BY DEF Encode
<1>3. R!IInv'
  BY <1>1, <1>2, RpcKeepsInv
<1>4. /\ rpc[t] = "encode" /\ rpc' = [rpc EXCEPT ![t] = "http"]
      /\ disturbed' = R!Disturb(t) /\ pc' = [pc EXCEPT ![t] = "ready"]
      /\ UNCHANGED <<method, kind, ret, decoded>>
      /\ coded' = IF job[t] = "sync" THEN coded ELSE tx_nonce[t]
      /\ UNCHANGED <<nonce, count, mined, queued, job, step, tx_nonce, wire, tx_count, fresh,
                     wild, missed, unpaid>>
  BY <1>2 DEF Encode, R!Encode, R!H!Goto, nodeVars
<1>5. AccountOK'
  BY <1>1, <1>4 DEF AccountOK
<1>6. pc[t] = "idle" /\ \A u \in Threads : u # t /\ pc[u] # "idle" => disturbed'[u]
  BY <1>1, <1>4, DisturbOthers, RpcTypes, InClient
<1>7. \A u \in Threads : Uncounted(u)' <=> Uncounted(u)
  BY <1>1, <1>4, <1>6, RpcTypes DEF Uncounted, HoldsTaken, AccountOK
<1>8. \A u \in Threads : ~disturbed'[u] => ~disturbed[u]
  BY <1>1, <1>4, DisturbOthers, RpcTypes DEF R!Disturb
<1>9. JobsAgree'
  BY <1>1, <1>4, RpcTypes DEF JobsAgree, Rest, AccountOK
<1>10. UploadInRange' /\ NonceNotAhead'
  BY <1>1, <1>4 DEF UploadInRange, NonceNotAhead, Rest, AccountOK
<1>11. NonceCarried'
  BY <1>1, <1>4, <1>6, RpcTypes DEF NonceCarried, Rest
<1>12. NonceOwed' /\ NonceKept'
  BY <1>1, <1>4, <1>7, <1>8 DEF NonceOwed, NonceKept, Rest
<1>13. CountTold'
  BY <1>1, <1>4, <1>6, <1>8 DEF CountTold, ToldCount, Rest, AccountOK
<1> QED
  BY <1>3, <1>5, <1>9, <1>10, <1>11, <1>12, <1>13, PartsNext DEF Rest
-----------------------------------------------------------------------------
(* Inside http_send_data(): the node may take or keep the transaction.       *)

\* What the node does to the account
LEMMA NodeSteps ==
  ASSUME AccountOK, NEW t \in Threads, NEW c \in BOOLEAN,
         Ignores \/ Queues(t) \/ (NextOnWire(t) /\ Takes(c))
  PROVE  /\ count' \in count..MaxNonce
         /\ queued' \subseteq count'+1..MaxNonce-1
         /\ missed' \in BOOLEAN /\ (~missed' => ~missed)
         /\ count' # count =>
              /\ NextOnWire(t)
              /\ ~missed' => c /\ count' = count + 1
<1> USE DEF AccountOK, Nonces
<1>1. MaxNonce \in Nat /\ count \in Nat
  OBVIOUS
<1>2. CASE Ignores
  BY <1>1, <1>2 DEF Ignores
<1>3. CASE Queues(t)
  BY <1>1, <1>3 DEF Queues
<1>4. CASE NextOnWire(t) /\ Takes(c)
  <2>1. PICK k \in count+1..MaxNonce :
          /\ count' = k /\ queued' = queued \ 0..k
          /\ missed' = (missed \/ ~c \/ k # count + 1)
    BY <1>4 DEF Takes
  <2>2. k \in count..MaxNonce
    BY <1>1
  <2>3. queued' \subseteq k+1..MaxNonce-1
    BY <1>1, <2>1
  <2>4. missed' \in BOOLEAN /\ (~missed' => ~missed /\ c /\ k = count + 1)
    BY <2>1
  <2> HIDE DEF AccountOK
  <2> QED  BY <1>4, <2>1, <2>2, <2>3, <2>4
<1> QED  BY <1>2, <1>3, <1>4

LEMMA AccountKept ==
  ASSUME AccountOK, count' \in count..MaxNonce, queued' \subseteq count'+1..MaxNonce-1,
         fresh' \in BOOLEAN, missed' \in BOOLEAN, wire' \in Nonces, tx_count' \in Nonces,
         UNCHANGED <<nonce, mined, job, step, tx_nonce, coded, wild, unpaid>>
  PROVE  AccountOK'
<1>1. MaxNonce \in Nat /\ count \in Nat
  BY DEF AccountOK
<1>2. count' \in 0..MaxNonce /\ mined' \in 0..count'
  BY <1>1 DEF AccountOK
<1> QED  BY <1>2 DEF AccountOK, Nonces

LEMMA HttpStepShape ==
  ASSUME R!IInv, NEW t \in Threads, R!HttpStep(t)
  PROVE  /\ rpc[t] = "http" /\ UNCHANGED <<rpc, method, kind, ret, decoded, disturbed>>
         /\ pc' \in [Threads -> R!H!Labels]
         /\ \A u \in Threads \ {t} : pc'[u] = pc[u]
         /\ pc[t] # "reply" /\ pc'[t] \notin {"idle", "reply"}
         /\ pc'[t] \in {"ready", "lock", "connect"} => pc[t] \in {"ready", "lock", "connect"}
         /\ pc'[t] = "wait" => pc[t] = "connect"
<1>1. pc \in [Threads -> R!H!Labels] /\ (pc' \in [Threads -> R!H!Labels])
  BY RpcTypes, RpcKeepsInv DEF R!IInv, R!H!IInv, R!H!TypeOK
<1> QED
  BY <1>1 DEF R!HttpStep, R!rpcVars, R!H!Lock, R!H!InitClient, R!H!SendReq, R!H!BadReply,
     R!H!Timeout, R!H!UnlockOnError, R!H!Goto

\* The nonce stays behind the sum when one of the two grows.
LEMMA StillBehind ==
  ASSUME NEW n \in Int, NEW c \in Int, NEW d \in Int, NEW u \in Int, NEW v \in Int,
         n <= c + u, c <= d, u <= v
  PROVE  n <= d + v /\ (c < d => n < d + v)
  OBVIOUS

LEMMA StillBelow ==
  ASSUME NEW n \in Int, NEW c \in Int, NEW d \in Int, NEW u \in Int, c <= d
  PROVE  n < c + u => n < d + u
  OBVIOUS

LEMMA HttpStepInv ==
  ASSUME IInv, NEW t \in Threads, HttpStep(t), \A u \in Threads : Uncounted(u) => u = t
  PROVE  IInv'
<1> USE DEF Nonces
<1>1. R!IInv /\ AccountOK /\ Rest
  BY Parts
<1>2. R!HttpStep(t)
  BY DEF HttpStep
<1>3. R!IInv'
  BY <1>1, <1>2, RpcKeepsInv
<1>4. /\ rpc[t] = "http" /\ UNCHANGED <<rpc, method, kind, ret, decoded, disturbed>>
      /\ pc' \in [Threads -> R!H!Labels]
      /\ \A u \in Threads \ {t} : pc'[u] = pc[u]
      /\ pc[t] # "reply" /\ pc'[t] \notin {"idle", "reply"}
      /\ pc'[t] \in {"ready", "lock", "connect"} => pc[t] \in {"ready", "lock", "connect"}
      /\ pc'[t] = "wait" => pc[t] = "connect"
  BY <1>1, <1>2, HttpStepShape
<1>5. /\ UNCHANGED <<nonce, mined, job, step, tx_nonce, coded, tx_count, wild, unpaid>>
      /\ fresh' = (fresh /\ count' = count)
      /\ Ignores \/ (pc[t] = "wait" /\ (Queues(t) \/ (NextOnWire(t) /\ Takes(FALSE))))
  BY DEF HttpStep, Unheard
<1>6. /\ count' \in count..MaxNonce
      /\ queued' \subseteq count'+1..MaxNonce-1
      /\ missed' \in BOOLEAN /\ (~missed' => ~missed /\ count' = count)
      /\ pc[t] # "wait" => count' = count
  BY <1>1, <1>5, NodeSteps DEF Ignores
<1>7. /\ wire' \in {0, coded, wire}
      /\ pc'[t] = "wait" => wire' = coded
      /\ pc[t] # "wait" /\ pc'[t] # "wait" => wire' = wire
  BY <1>4 DEF HttpStep
<1>8. AccountOK'
  <2>1. wire' \in Nonces /\ tx_count' \in Nonces /\ fresh' \in BOOLEAN
    BY <1>1, <1>5, <1>7 DEF AccountOK
  <2> QED  BY <1>1, <1>5, <1>6, <2>1, AccountKept
<1>9. \A u \in Threads : Uncounted(u)' <=> Uncounted(u)
  <2> SUFFICES ASSUME NEW u \in Threads, pc[u] = "reply"
               PROVE  wire' = wire /\ count' = count
    BY <1>4, <1>5 DEF Uncounted, HoldsTaken
  <2>1. u # t /\ pc'[u] = "reply"
    BY <1>4
  <2>2. pc[t] # "wait"
    BY <1>1, <2>1, OneOnWire
  <2>3. pc'[t] # "wait"
    BY <1>3, <2>1, OneOnWire DEF R!IInv, R!H!IInv, R!H!CriticalHoldsMutex, R!H!Critical
  <2> QED  BY <1>6, <1>7, <2>2, <2>3
<1>10. JobsAgree'
  BY <1>1, <1>4, <1>5 DEF JobsAgree, Rest
<1>11. UploadInRange' /\ NonceNotAhead'
  <2>1. nonce \in Int /\ count \in Int /\ count' \in Int /\ unpaid \in Int /\ count <= count' /\ unpaid <= unpaid
    BY <1>1, <1>6 DEF AccountOK
  <2>2. nonce <= count + unpaid => nonce <= count' + unpaid
    BY <2>1, StillBehind
  <2> QED  BY <1>1, <1>5, <2>2 DEF UploadInRange, NonceNotAhead, Rest
<1>12. NonceCarried'
  <2> SUFFICES ASSUME NEW u \in Threads, ~disturbed[u], job[u] # "sync"
               PROVE  /\ pc'[u] \in {"ready", "lock", "connect"} => coded = tx_nonce[u]
                      /\ pc'[u] = "wait" => wire' = tx_nonce[u]
    BY <1>4, <1>5 DEF NonceCarried
  <2>1. /\ pc[u] \in {"ready", "lock", "connect"} => coded = tx_nonce[u]
        /\ pc[u] = "wait" => wire = tx_nonce[u]
    BY <1>1 DEF NonceCarried, Rest
  <2>2. CASE u = t
    BY <1>4, <1>7, <2>1, <2>2
  <2>3. CASE u # t
    <3>1. pc[u] = "wait" => pc[t] # "wait" /\ pc'[t] # "wait"
      <4>1. pc'[u] = "wait" /\ pc'[t] = "wait" => u = t
        BY <1>3, OneOnWire DEF R!IInv, R!H!IInv, R!H!CriticalHoldsMutex, R!H!Critical
      <4> QED  BY <1>1, <1>4, <2>3, <4>1, OneOnWire
    <3> QED  BY <1>4, <1>7, <2>1, <2>3, <3>1
  <2> QED  BY <2>2, <2>3
<1>13. NonceOwed' /\ NonceKept'
  <2>1. nonce \in Int /\ count \in Int /\ count' \in Int /\ unpaid \in Int /\ count <= count'
    BY <1>1, <1>6 DEF AccountOK
  <2>2. nonce < count + unpaid => nonce < count' + unpaid
    BY <2>1, StillBelow, Zenon
  <2>3. NonceOwed'
    BY <1>1, <1>4, <1>5, <1>6, <1>9, <2>2, Zenon DEF NonceOwed, Rest
  <2>4. NonceKept'
    BY <1>1, <1>4, <1>5, <1>6, <1>9, Zenon DEF NonceKept, Rest
  <2> QED  BY <2>3, <2>4
<1>14. CountTold'
  <2>1. /\ \A u \in Threads : ToldCount(u)' => ToldCount(u)
        /\ fresh' => fresh /\ count' = count
    BY <1>4, <1>5 DEF ToldCount
  <2>2. tx_count \in Int /\ count \in Int /\ count' \in Int /\ count <= count'
    BY <1>1, <1>6 DEF AccountOK
  <2>3. tx_count <= count => tx_count <= count'
    BY <2>2
  <2> QED  BY <1>1, <1>4, <1>5, <2>1, <2>3 DEF CountTold, Rest
<1> QED
  BY <1>3, <1>8, <1>10, <1>11, <1>12, <1>13, <1>14, PartsNext DEF Rest

\* The node replies: it has taken an undisturbed transaction if it says so, and
\* the upload now has an increment to make.
LEMMA HttpReplyInv ==
  ASSUME IInv, NEW t \in Threads, HttpReply(t), \A u \in Threads : Uncounted(u) => u = t
  PROVE  IInv'
<1> USE DEF Nonces
<1>1. R!IInv /\ AccountOK /\ Rest
  BY Parts
<1>2. R!HttpReply(t)
  BY DEF HttpReply
<1>3. R!IInv'
  BY <1>1, <1>2, RpcKeepsInv
<1>4. /\ pc[t] = "wait" /\ pc' = [pc EXCEPT ![t] = "reply"]
      /\ UNCHANGED <<rpc, method, ret, decoded, disturbed>>
  BY <1>2 DEF R!HttpReply, R!H!GoodReply, R!H!Goto
<1>5. UNCHANGED <<nonce, mined, job, step, tx_nonce, coded, wire, wild, unpaid>>
  BY DEF HttpReply
<1>6. PICK c \in BOOLEAN :
        /\ Ignores \/ Queues(t) \/ (NextOnWire(t) /\ Takes(c))
        /\ c => job[t] = "upload" /\ kind' = "result"
        /\ kind' = "result" =>
             \/ NextOnWire(t) /\ Takes(c)
             \/ Queues(t)
             \/ ~Sends(t, "sendRawTransaction") /\ Ignores
  <2>1. CASE kind' = "result" /\ NextOnWire(t) /\ Takes(job[t] = "upload")
    <3> DEFINE c == job[t] = "upload"
    <3> HIDE DEF c
    <3>1. c \in BOOLEAN /\ (c => job[t] = "upload") /\ Takes(c)
      BY <2>1 DEF c
    <3> QED  BY <2>1, <3>1
  <2>2. CASE kind' = "result" /\ Queues(t)
    BY <2>2
  <2>3. CASE kind' = "result" /\ ~Sends(t, "sendRawTransaction") /\ Ignores
    BY <2>3
  <2>4. CASE kind' \in {"error", "refused"} /\ Ignores
    BY <2>4
  <2>5. CASE kind' \in {"empty", "bad"} /\ (Ignores \/ Unheard(t))
    BY <2>5 DEF Unheard
  <2> QED  BY <2>1, <2>2, <2>3, <2>4, <2>5 DEF HttpReply
<1>7. /\ count' \in count..MaxNonce
      /\ queued' \subseteq count'+1..MaxNonce-1
      /\ missed' \in BOOLEAN /\ (~missed' => ~missed)
      /\ count' # count =>
           /\ NextOnWire(t)
           /\ ~missed' => c /\ count' = count + 1
  BY <1>1, <1>6, NodeSteps
<1>8. /\ job[t] # "sync" => tx_count' = tx_count /\ fresh' = (fresh /\ count' = count)
      /\ job[t] = "sync" =>
           /\ tx_count' \in {mined} \cup 0..MaxNonce
           /\ kind' = "result" /\ Sends(t, "getTransactionCount") => tx_count' = mined
           /\ fresh' = (mined = count')
  BY DEF HttpReply
<1>9. AccountOK'
  <2>1. {mined} \cup 0..MaxNonce \subseteq Nonces
    BY <1>1 DEF AccountOK
  <2>2. tx_count' \in Nonces /\ fresh' \in BOOLEAN /\ wire' \in Nonces
    BY <1>1, <1>5, <1>8, <2>1 DEF AccountOK
  <2> QED  BY <1>1, <1>5, <1>7, <2>2, AccountKept
<1>10. rpc[t] = "http" /\ step[t] = "call" /\ \A u \in Threads : pc'[u] = "reply" => u = t
  BY <1>1, <1>3, <1>4, <1>2, OneOnWire, RpcTypes DEF Rest, JobsAgree, R!HttpReply, R!IInv, R!H!IInv,
     R!H!CriticalHoldsMutex, R!H!Critical
<1>11. /\ \A u \in Threads : ~Uncounted(u) /\ (Uncounted(u)' => u = t)
       /\ Uncounted(t)' <=> job[t] = "upload" /\ kind' = "result" /\ wire < count'
  <2>1. \A u \in Threads \ {t} : pc[u] # "reply" /\ pc'[u] = pc[u]
    BY <1>1, <1>4, OneOnWire
  <2>2. \A u \in Threads \ {t} : Uncounted(u)' <=> Uncounted(u)
    BY <1>4, <1>5, <2>1 DEF Uncounted, HoldsTaken
  <2>3. pc'[t] = "reply"
    BY <1>1, <1>4, RpcTypes
  <2>4. ~Uncounted(t)
    BY <1>4, <1>10 DEF Uncounted, HoldsTaken
  <2>5. Uncounted(t)' <=> job[t] = "upload" /\ kind' = "result" /\ wire < count'
    BY <1>5, <1>10, <2>3 DEF Uncounted, HoldsTaken
  <2> QED  BY <2>2, <2>4, <2>5
<1>12. JobsAgree'
  BY <1>1, <1>4, <1>5 DEF JobsAgree, Rest
<1>13. nonce \in Int /\ count \in Int /\ count' \in Int /\ count' >= count /\ wire \in Int /\ unpaid \in Int
  BY <1>1, <1>7 DEF AccountOK
<1>14. UploadInRange' /\ NonceNotAhead'
  <2>1. count <= count' /\ unpaid <= unpaid
    BY <1>13
  <2>2. nonce <= count + unpaid => nonce <= count' + unpaid
    BY <1>13, <2>1, StillBehind
  <2> QED  BY <1>1, <1>5, <2>2 DEF UploadInRange, NonceNotAhead, Rest
<1>15. NonceCarried'
  BY <1>1, <1>4, <1>5, RpcTypes DEF NonceCarried, Rest
<1>16. NonceOwed'
  <2> SUFFICES ASSUME Uncounted(t)', ~disturbed[t], ~wild
               PROVE  nonce < count' + unpaid /\ (~missed' => nonce + 1 = count' + unpaid)
    BY <1>4, <1>5, <1>11 DEF NonceOwed
  <2>1. job[t] = "upload" /\ kind' = "result" /\ wire < count'
    BY <1>11
  <2>2. Sends(t, "sendRawTransaction")
    BY <1>1, <1>4, <1>10, <2>1, OwnRequest DEF Rest, JobsAgree, MethodOf
  <2>3. NextOnWire(t) /\ Takes(c)
    BY <1>6, <1>13, <2>1, <2>2 DEF Queues
  <2>4. count' # count /\ count' > count
    BY <1>13, <2>3, <1>1 DEF Takes, AccountOK
  <2>5. nonce <= count + unpaid
    BY <1>1 DEF Rest, NonceNotAhead
  <2>6. ~missed' => count' = count + 1 /\ nonce = count + unpaid
    BY <1>1, <1>7, <1>11, <2>4 DEF Rest, NonceKept
  <2>7. nonce < count' + unpaid
    <3>1. count <= count' /\ count < count' /\ unpaid <= unpaid
      BY <1>13, <2>4
    <3> QED  BY <1>13, <2>5, <3>1, StillBehind
  <2>8. ~missed' => nonce + 1 = count' + unpaid
    BY <1>13, <2>6
  <2> QED  BY <2>7, <2>8
<1>17. NonceKept'
  <2> SUFFICES ASSUME ~wild, ~missed', ~Uncounted(t)'
               PROVE  nonce = count' + unpaid
    BY <1>5, <1>11 DEF NonceKept
  <2>1. count' = count
    <3> SUFFICES ASSUME count' # count PROVE FALSE
      OBVIOUS
    <3>1. wire = count /\ c
      BY <1>7 DEF NextOnWire
    <3> QED  BY <1>6, <1>11, <1>13, <3>1
  <2> QED  BY <1>1, <1>7, <1>11, <2>1 DEF Rest, NonceKept
<1>18. CountTold'
  <2>1. tx_count' <= MaxNonce
    BY <1>1, <1>8 DEF Rest, CountTold, AccountOK
  <2> SUFFICES ASSUME NEW u \in Threads, ToldCount(u)', ~disturbed[u]
               PROVE  tx_count' <= count' /\ (fresh' => tx_count' = count')
    BY <1>4, <2>1 DEF CountTold
  <2>2. CASE u # t
    <3>1. job[u] = "sync" /\ job[t] # "sync"
      BY <1>1, <1>5, <2>2, ThreadsAssumption DEF Rest, JobsAgree, ToldCount
    <3>2. ToldCount(u)
      BY <1>1, <1>4, <1>5, <1>10, <2>2, RpcTypes DEF ToldCount
    <3>3. tx_count <= count /\ (fresh => tx_count = count)
      BY <1>1, <3>2 DEF Rest, CountTold
    <3>4. tx_count' = tx_count /\ (fresh' => fresh /\ count' = count)
      BY <1>8, <3>1, Zenon
    <3>5. tx_count <= count'
      <4>1. tx_count \in Int
        BY <1>1 DEF AccountOK
      <4>2. tx_count <= count
        BY <3>3
      <4> QED  BY <1>13, <4>1, <4>2
    <3> QED  BY <3>3, <3>4, <3>5
  <2>3. CASE u = t
    <3>1. job[t] = "sync" /\ kind' = "result"
      BY <1>5, <1>10, <2>3 DEF ToldCount
    <3>2. Sends(t, "getTransactionCount") /\ ~Sends(t, "sendRawTransaction")
      BY <1>1, <1>4, <1>10, <2>3, <3>1, OwnRequest DEF Rest, JobsAgree, MethodOf
    <3>3. tx_count' = mined /\ fresh' = (mined = count')
      BY <1>8, <3>1, <3>2
    <3>4. mined <= count'
      BY <1>1, <1>13 DEF AccountOK
    <3> QED  BY <3>3, <3>4
  <2> QED  BY <2>2, <2>3
<1> QED
  BY <1>3, <1>9, <1>12, <1>14, <1>15, <1>16, <1>17, <1>18, PartsNext DEF Rest
-----------------------------------------------------------------------------
(* The call returns.                                                         *)

LEMMA OutcomesRange ==
  ASSUME NEW m
  PROVE  R!Outcomes(m) \subseteq {0, -1}
  BY DEF R!Outcomes

\* r is what it returns, k the kind of reply it decoded.
LEMMA ReturnShape ==
  ASSUME R!IInv, NEW t \in Threads, R!EncodeFails(t) \/ R!HttpFailed(t) \/ R!Return(t)
  PROVE  \E r \in {0, -1}, k \in R!ReplyKinds \cup {"none"} :
           /\ rpc[t] # "idle" /\ rpc' = [rpc EXCEPT ![t] = "idle"]
           /\ pc' = [pc EXCEPT ![t] = "idle"]
           /\ ret' = [ret EXCEPT ![t] = r] /\ decoded' = [decoded EXCEPT ![t] = k]
           /\ method' = method /\ disturbed'[t] = disturbed[t]
           /\ \A u \in Threads : ~disturbed'[u] => ~disturbed[u]
           /\ kind' \in {kind, "bad"}
           /\ pc[t] # "reply" => kind' = kind
           /\ k = "result" => pc[t] = "reply" /\ kind = "result"
<1>1. pc \in [Threads -> R!H!Labels] /\ disturbed \in [Threads -> BOOLEAN]
      /\ method \in [Threads -> R!AllMethods \cup {"none"}]
  BY RpcTypes
<1>2. CASE R!EncodeFails(t)
  <2>1. pc[t] = "idle"
    BY <1>2, InClient DEF R!EncodeFails
  <2>2. pc' = [pc EXCEPT ![t] = "idle"]
    BY <1>1, <1>2, <2>1 DEF R!EncodeFails
  <2>3. disturbed'[t] = disturbed[t] /\ \A u \in Threads : ~disturbed'[u] => ~disturbed[u]
    BY <1>1, <1>2 DEF R!EncodeFails, R!Disturb
  <2>4. CASE method[t] = "getTransactionReceipt"
    <3>1. R!ReturnValue(t, 0, "none")
      BY <1>2, <2>4 DEF R!EncodeFails
    <3> WITNESS 0 \in {0, -1}, "none" \in R!ReplyKinds \cup {"none"}
    <3> QED  BY <1>2, <2>2, <2>3, <2>4, <3>1 DEF R!EncodeFails, R!ReturnValue
  <2>5. CASE method[t] # "getTransactionReceipt"
    <3>1. R!ReturnValue(t, -1, "none")
      BY <1>2, <2>5 DEF R!EncodeFails
    <3>2. rpc[t] = "encode" /\ UNCHANGED kind
      BY <1>2 DEF R!EncodeFails
    <3> WITNESS -1 \in {0, -1}, "none" \in R!ReplyKinds \cup {"none"}
    <3> QED  BY <2>2, <2>3, <3>1, <3>2 DEF R!ReturnValue
  <2> QED  BY <2>4, <2>5
<1>3. CASE R!HttpFailed(t)
  <2>1. R!ReturnValue(t, -1, "none") /\ UNCHANGED <<kind, disturbed>> /\ rpc[t] = "http"
    BY <1>3 DEF R!HttpFailed
  <2>2. pc' = [pc EXCEPT ![t] = "idle"]
    BY <1>3 DEF R!HttpFailed, R!H!ReleaseAfterError, R!H!Leave, R!H!Goto
  <2> WITNESS -1 \in {0, -1}, "none" \in R!ReplyKinds \cup {"none"}
  <2> QED  BY <2>1, <2>2 DEF R!ReturnValue
<1>4. CASE R!Return(t)
  <2> DEFINE k == IF method[t] = "getTransactionReceipt" THEN "none" ELSE kind
  <2>1. PICK r \in R!Outcomes(method[t]) : R!ReturnValue(t, r, k)
    BY <1>4 DEF R!Return
  <2>2. k \in R!ReplyKinds \cup {"none"} /\ (k = "result" => kind = "result")
    BY DEF R!IInv, R!TypeOK
  <2> HIDE DEF k
  <2>3. /\ rpc[t] = "http" /\ UNCHANGED disturbed /\ kind' = "bad"
        /\ pc[t] = "reply" /\ pc' = [pc EXCEPT ![t] = "idle"]
    BY <1>4 DEF R!Return, R!H!NfoFree, R!H!Leak, R!H!Leave, R!H!Goto
  <2>4. r \in {0, -1}
    BY <2>1, OutcomesRange
  <2> QED  BY <2>1, <2>2, <2>3, <2>4 DEF R!ReturnValue
<1> QED  BY <1>2, <1>3, <1>4

LEMMA RpcReturnInv ==
  ASSUME IInv, NEW t \in Threads, RpcReturn(t), \A u \in Threads : Uncounted(u) => u = t
  PROVE  IInv'
<1> USE DEF Nonces
<1>1. R!IInv /\ AccountOK /\ Rest
  BY Parts
<1>2. R!EncodeFails(t) \/ R!HttpFailed(t) \/ R!Return(t)
  BY DEF RpcReturn
<1>3. R!IInv'
  BY <1>1, <1>2, RpcKeepsInv
<1>4. PICK r \in {0, -1}, k \in R!ReplyKinds \cup {"none"} :
        /\ rpc[t] # "idle" /\ rpc' = [rpc EXCEPT ![t] = "idle"]
        /\ pc' = [pc EXCEPT ![t] = "idle"]
        /\ ret' = [ret EXCEPT ![t] = r] /\ decoded' = [decoded EXCEPT ![t] = k]
        /\ method' = method /\ disturbed'[t] = disturbed[t]
        /\ \A u \in Threads : ~disturbed'[u] => ~disturbed[u]
        /\ kind' \in {kind, "bad"}
        /\ pc[t] # "reply" => kind' = kind
        /\ k = "result" => pc[t] = "reply" /\ kind = "result"
  BY <1>1, <1>2, ReturnShape
<1>5. /\ step' = [step EXCEPT ![t] = "back"]
      /\ UNCHANGED <<nonce, count, mined, queued, job, tx_nonce, coded, tx_count, fresh, wild>>
      /\ wire' = IF pc[t] = "reply" THEN 0 ELSE wire
  BY DEF RpcReturn, nodeVars
<1>6. ret'[t] = r /\ decoded'[t] = k
  BY <1>1, <1>4, RpcTypes
<1>7. /\ missed' = (missed \/ (job[t] = "upload" /\ HoldsTaken(t) /\ r = -1))
      /\ unpaid' = IF job[t] = "upload" /\ r = 0 /\ ~HoldsTaken(t) THEN unpaid + 1 ELSE unpaid
  BY <1>6 DEF RpcReturn
<1>8. step[t] = "call" /\ pc'[t] = "idle" /\ step'[t] = "back"
  BY <1>1, <1>4, <1>5, RpcTypes DEF Rest, JobsAgree, AccountOK
<1>9. unpaid \in Nat /\ unpaid' \in Nat /\ unpaid' >= unpaid /\ nonce \in Nat /\ count \in Nat
  BY <1>1, <1>7 DEF AccountOK
<1>10. AccountOK'
  <2>1. wire' \in Nonces /\ missed' \in BOOLEAN
    BY <1>1, <1>5, <1>7 DEF AccountOK
  <2> QED  BY <1>1, <1>5, <1>9, <2>1 DEF AccountOK
<1>11. JobsAgree'
  BY <1>1, <1>4, <1>5, <1>8, RpcTypes DEF JobsAgree, Rest, AccountOK
<1>12. UploadInRange' /\ NonceNotAhead'
  <2>1. /\ count <= count /\ unpaid <= unpaid'
        /\ nonce \in Int /\ count \in Int /\ unpaid \in Int /\ unpaid' \in Int
    BY <1>9
  <2>2. nonce <= count + unpaid => nonce <= count + unpaid'
    BY <2>1, StillBehind
  <2> QED  BY <1>1, <1>5, <2>2 DEF UploadInRange, NonceNotAhead, Rest
<1>13. NonceCarried'
  BY <1>1, <1>4, <1>5, OneOnWire, RpcTypes DEF NonceCarried, Rest
\* No other upload waits to be counted, and none will; this one will if it
\* returned 0.
<1>14. \A u \in Threads \ {t} : ~Uncounted(u)'
  <2> SUFFICES ASSUME NEW u \in Threads \ {t}, Uncounted(u)'
               PROVE  Uncounted(u)
    OBVIOUS
  <2>1. job[u] = "upload" /\ pc'[u] = pc[u] /\ step'[u] = step[u] /\ ret'[u] = ret[u]
    BY <1>1, <1>4, <1>5, RpcTypes DEF Uncounted, AccountOK
  <2>2. HoldsTaken(u)' => HoldsTaken(u)
    <3> SUFFICES ASSUME HoldsTaken(u)' PROVE HoldsTaken(u)
      OBVIOUS
    <3>1. pc[u] = "reply" /\ kind' = "result" /\ wire' < count
      BY <1>5, <2>1 DEF HoldsTaken
    <3>2. pc[t] # "reply"
      BY <1>1, <3>1, OneOnWire
    <3> QED  BY <1>4, <1>5, <3>1, <3>2 DEF HoldsTaken
  <2> QED  BY <2>1, <2>2 DEF Uncounted
<1>15. /\ Uncounted(t)' <=> job[t] = "upload" /\ r = 0
       /\ Uncounted(t) <=> job[t] = "upload" /\ HoldsTaken(t)
  BY <1>5, <1>6, <1>8 DEF Uncounted, HoldsTaken
<1>16. NonceOwed'
  <2> SUFFICES ASSUME Uncounted(t)', ~disturbed[t], ~wild
               PROVE  /\ nonce < count + unpaid'
                      /\ ~missed' => nonce + 1 = count + unpaid'
    BY <1>4, <1>5, <1>14 DEF NonceOwed
  <2>1. job[t] = "upload" /\ r = 0 /\ missed' = missed
    BY <1>1, <1>7, <1>15 DEF AccountOK
  <2>2. CASE HoldsTaken(t)
    BY <1>1, <1>7, <1>15, <2>1, <2>2 DEF NonceOwed, Rest
  <2>3. CASE ~HoldsTaken(t)
    <3>1. unpaid' = unpaid + 1
      BY <1>7, <2>1, <2>3
    <3>2. \A u \in Threads : ~Uncounted(u)
      BY <1>15, <2>3
    <3>3. nonce <= count + unpaid /\ (~missed => nonce = count + unpaid)
      BY <1>1, <3>2 DEF NonceKept, NonceNotAhead, Rest
    <3> QED  BY <1>9, <2>1, <3>1, <3>3
  <2> QED  BY <2>2, <2>3
<1>17. NonceKept'
  <2> SUFFICES ASSUME ~wild, ~missed', ~Uncounted(t)'
               PROVE  nonce = count + unpaid'
    BY <1>5 DEF NonceKept
  <2>1. unpaid' = unpaid /\ ~missed
    BY <1>7, <1>15
  <2>2. ~Uncounted(t)
    BY <1>7, <1>15
  <2> QED  BY <1>1, <2>1, <2>2 DEF NonceKept, Rest
<1>18. CountTold'
  <2>1. tx_count' <= MaxNonce
    BY <1>1, <1>5 DEF Rest, CountTold
  <2> SUFFICES ASSUME NEW u \in Threads, ToldCount(u)', ~disturbed'[u]
               PROVE  ToldCount(u) /\ ~disturbed[u]
    BY <1>1, <1>5, <2>1 DEF CountTold, Rest
  <2>2. CASE u # t
    BY <1>1, <1>4, <1>5, <2>2, RpcTypes DEF ToldCount, AccountOK
  <2>3. CASE u = t
    BY <1>4, <1>5, <1>6, <1>8, <2>3 DEF ToldCount
  <2> QED  BY <2>2, <2>3
<1> QED
  BY <1>3, <1>10, <1>11, <1>12, <1>13, <1>16, <1>17, <1>18, PartsNext DEF Rest
-----------------------------------------------------------------------------
(* The job ends: only an upload and a sync change the nonce.                 *)

LEMMA EndShape ==
  ASSUME IInv, NEW t \in Threads, End(t)
  PROVE  /\ R!IInv'
         /\ step[t] = "back" /\ rpc[t] = "idle" /\ pc[t] = "idle"
         /\ step' = [step EXCEPT ![t] = "idle"] /\ job' = [job EXCEPT ![t] = "none"]
         /\ tx_nonce' = [tx_nonce EXCEPT ![t] = 0]
         /\ UNCHANGED <<rpc, pc, kind, count, mined, queued, coded, wire>>
         /\ \A u \in Threads \ {t} : /\ method'[u] = method[u] /\ ret'[u] = ret[u]
                                     /\ decoded'[u] = decoded[u] /\ disturbed'[u] = disturbed[u]
<1>1. R!IInv /\ AccountOK /\ Rest
  BY Parts
<1>2. step[t] = "back" /\ rpc[t] = "idle" /\ pc[t] = "idle"
  BY <1>1, RpcTypes, InClient DEF End, Rest, JobsAgree
<1>3. /\ method' = [method EXCEPT ![t] = "none"] /\ ret' = [ret EXCEPT ![t] = -1]
      /\ decoded' = [decoded EXCEPT ![t] = "none"] /\ disturbed' = [disturbed EXCEPT ![t] = FALSE]
      /\ UNCHANGED <<owner, lock_count, wait_q, http_ctx, result, payload, content, priv,
                     sent, asked, pc, rpc, kind>>
  BY DEF End, callVars
<1>4. R!H!IInv'
  BY <1>1, <1>3 DEF R!IInv, R!H!IInv, R!H!TypeOK, R!H!CriticalHoldsMutex,
     R!H!NoOrphanLock, R!H!ReplyKept, R!H!ContentOnlyForOwner, R!H!StaleContentNested
<1>5. R!TypeOK'
  <2>1. R!H!TypeOK'
    BY <1>4 DEF R!H!IInv
  <2>2. rpc' \in [Threads -> {"idle", "encode", "http"}] /\ kind' \in R!ReplyKinds
    BY <1>1, <1>3 DEF R!IInv, R!TypeOK
  <2>3. /\ method' \in [Threads -> R!AllMethods \cup {"none"}] /\ ret' \in [Threads -> {0, -1}]
        /\ decoded' \in [Threads -> R!ReplyKinds \cup {"none"}] /\ disturbed' \in [Threads -> BOOLEAN]
    BY <1>1, <1>3, RpcTypes
  <2> QED  BY <2>1, <2>2, <2>3 DEF R!TypeOK
<1>6. R!PhasesAgree' /\ R!FrugalHoldsOnce'
  BY <1>1, <1>2, <1>3, RpcTypes DEF R!IInv, R!PhasesAgree, R!FrugalHoldsOnce
<1>7. R!RequestIntact'
  BY <1>1, <1>2, <1>3, RpcTypes DEF R!IInv, R!RequestIntact
<1>8. R!IInv'
  BY <1>4, <1>5, <1>6, <1>7 DEF R!IInv
<1> QED  BY <1>1, <1>2, <1>3, <1>8, RpcTypes DEF End, nodeVars

\* What the end of a job leaves as it was
LEMMA EndKeeps ==
  ASSUME IInv, NEW t \in Threads, End(t)
  PROVE  /\ JobsAgree' /\ NonceCarried'
         /\ ~Uncounted(t)' /\ \A u \in Threads \ {t} : Uncounted(u)' <=> Uncounted(u)
<1>1. R!IInv /\ AccountOK /\ Rest
  BY Parts
<1>2. /\ step[t] = "back" /\ rpc[t] = "idle" /\ pc[t] = "idle"
      /\ step' = [step EXCEPT ![t] = "idle"] /\ job' = [job EXCEPT ![t] = "none"]
      /\ tx_nonce' = [tx_nonce EXCEPT ![t] = 0]
      /\ UNCHANGED <<rpc, pc, kind, coded, wire>>
      /\ \A u \in Threads \ {t} : /\ method'[u] = method[u] /\ ret'[u] = ret[u]
                                  /\ decoded'[u] = decoded[u] /\ disturbed'[u] = disturbed[u]
  BY EndShape
<1>3. JobsAgree'
  BY <1>1, <1>2 DEF AccountOK, Rest, JobsAgree
<1>4. NonceCarried'
  BY <1>1, <1>2 DEF AccountOK, Rest, NonceCarried
<1>5. /\ job'[t] = "none" /\ UNCHANGED <<kind, wire, count, pc>>
      /\ \A u \in Threads \ {t} : job'[u] = job[u] /\ step'[u] = step[u] /\ ret'[u] = ret[u]
  BY <1>1, <1>2, EndShape DEF AccountOK
<1>6. ~Uncounted(t)' /\ \A u \in Threads \ {t} : Uncounted(u)' <=> Uncounted(u)
  BY <1>5 DEF Uncounted, HoldsTaken
<1> QED  BY <1>3, <1>4, <1>6

LEMMA TransferEndInv ==
  ASSUME IInv, NEW t \in Threads, TransferEnd(t)
  PROVE  IInv'
<1> USE DEF Nonces
<1>1. R!IInv /\ AccountOK /\ Rest
  BY Parts
<1>2. End(t) /\ job[t] = "transfer" /\ UNCHANGED <<nonce, tx_count, fresh, wild, missed, unpaid>>
  BY DEF TransferEnd
<1>3. /\ R!IInv'
      /\ step' = [step EXCEPT ![t] = "idle"] /\ job' = [job EXCEPT ![t] = "none"]
      /\ tx_nonce' = [tx_nonce EXCEPT ![t] = 0]
      /\ UNCHANGED <<rpc, pc, kind, count, mined, queued, coded, wire>>
      /\ \A u \in Threads \ {t} : /\ method'[u] = method[u] /\ ret'[u] = ret[u]
                                  /\ decoded'[u] = decoded[u] /\ disturbed'[u] = disturbed[u]
  BY <1>2, EndShape
<1>4. /\ JobsAgree' /\ NonceCarried'
      /\ ~Uncounted(t)' /\ \A u \in Threads \ {t} : Uncounted(u)' <=> Uncounted(u)
  BY <1>2, EndKeeps
<1>5. AccountOK'
  BY <1>1, <1>2, <1>3 DEF AccountOK
<1>6. UploadInRange' /\ NonceNotAhead'
  BY <1>1, <1>2, <1>3 DEF UploadInRange, NonceNotAhead, Rest, AccountOK
<1>7. NonceOwed'
  BY <1>1, <1>2, <1>3, <1>4 DEF NonceOwed, Rest
<1>8. ~Uncounted(t)
  BY <1>2 DEF Uncounted, HoldsTaken
<1>9. NonceKept'
  BY <1>1, <1>2, <1>3, <1>4, <1>8 DEF NonceKept, Rest
<1>10. CountTold'
  BY <1>1, <1>2, <1>3 DEF CountTold, ToldCount, Rest, AccountOK
<1> QED
  BY <1>3, <1>4, <1>5, <1>6, <1>7, <1>9, <1>10, PartsNext DEF Rest

\* The increment that an upload owed is made.
LEMMA UploadEndInv ==
  ASSUME IInv, NEW t \in Threads, UploadEnd(t), \A u \in Threads : Uncounted(u) => u = t
  PROVE  IInv'
<1> USE DEF Nonces
<1>1. R!IInv /\ AccountOK /\ Rest
  BY Parts
<1>2. /\ End(t) /\ job[t] = "upload" /\ UNCHANGED <<tx_count, fresh, missed, unpaid>>
      /\ nonce' = IF ret[t] = 0 THEN nonce + 1 ELSE nonce
      /\ wild' = (wild \/ (ret[t] = 0 /\ disturbed[t]))
  BY DEF UploadEnd, UploadEndWith
<1>3. /\ R!IInv' /\ step[t] = "back" /\ pc[t] = "idle"
      /\ step' = [step EXCEPT ![t] = "idle"] /\ job' = [job EXCEPT ![t] = "none"]
      /\ tx_nonce' = [tx_nonce EXCEPT ![t] = 0]
      /\ UNCHANGED <<rpc, pc, kind, count, mined, queued, coded, wire>>
      /\ \A u \in Threads \ {t} : /\ method'[u] = method[u] /\ ret'[u] = ret[u]
                                  /\ decoded'[u] = decoded[u] /\ disturbed'[u] = disturbed[u]
  BY <1>2, EndShape
<1>4. /\ JobsAgree' /\ NonceCarried'
      /\ \A u \in Threads : ~Uncounted(u)'
  BY <1>2, EndKeeps
<1>5. nonce \in 0..MaxNonce
  BY <1>1, <1>2 DEF Rest, UploadInRange, AccountOK
<1>6. wild' \in BOOLEAN /\ (~wild' => ~wild /\ (ret[t] = 0 => ~disturbed[t]))
  BY <1>1, <1>2, RpcTypes DEF AccountOK
<1>7. AccountOK'
  <2>1. nonce' \in Nonces
    BY <1>2, <1>5
  <2> QED  BY <1>1, <1>2, <1>3, <1>6, <2>1 DEF AccountOK
<1>8. UploadInRange'
  <2>1. \A u \in Threads : job'[u] # "upload"
    BY <1>1, <1>2, <1>3, ThreadsAssumption DEF Rest, JobsAgree, AccountOK
  <2> QED  BY <2>1 DEF UploadInRange
<1>9. Uncounted(t) <=> ret[t] = 0
  BY <1>2, <1>3 DEF Uncounted, HoldsTaken
<1>10. ~wild' => nonce' <= count + unpaid /\ (~missed => nonce' = count + unpaid)
  <2>1. CASE ret[t] = 0
    <3>1. ~wild' => nonce < count + unpaid /\ (~missed => nonce + 1 = count + unpaid)
      BY <1>1, <1>6, <1>9, <2>1 DEF Rest, NonceOwed
    <3>2. nonce' = nonce + 1
      BY <1>2, <2>1
    <3>3. nonce < count + unpaid => nonce + 1 <= count + unpaid
      BY <1>1 DEF AccountOK
    <3> QED  BY <3>1, <3>2, <3>3
  <2>2. CASE ret[t] # 0
    BY <1>1, <1>2, <1>6, <1>9, <2>2 DEF Rest, NonceKept, NonceNotAhead
  <2> QED  BY <2>1, <2>2
<1>11. NonceNotAhead' /\ NonceKept' /\ NonceOwed'
  BY <1>2, <1>3, <1>4, <1>10 DEF NonceNotAhead, NonceKept, NonceOwed
<1>12. CountTold'
  BY <1>1, <1>2, <1>3 DEF CountTold, ToldCount, Rest, AccountOK
<1> QED
  BY <1>3, <1>4, <1>7, <1>8, <1>11, <1>12, PartsNext DEF Rest

\* What the node told is stored.
LEMMA SyncEndInv ==
  ASSUME IInv, NEW t \in Threads, SyncEnd(t), \A u \in Threads : Uncounted(u) => u = t
  PROVE  IInv'
<1> USE DEF Nonces
<1>1. R!IInv /\ AccountOK /\ Rest
  BY Parts
<1>2. End(t) /\ job[t] = "sync" /\ tx_count' = 0 /\ fresh' = FALSE
  BY DEF SyncEnd
<1>3. /\ R!IInv' /\ step[t] = "back"
      /\ step' = [step EXCEPT ![t] = "idle"] /\ job' = [job EXCEPT ![t] = "none"]
      /\ tx_nonce' = [tx_nonce EXCEPT ![t] = 0]
      /\ UNCHANGED <<rpc, pc, kind, count, mined, queued, coded, wire>>
      /\ \A u \in Threads \ {t} : /\ method'[u] = method[u] /\ ret'[u] = ret[u]
                                  /\ decoded'[u] = decoded[u] /\ disturbed'[u] = disturbed[u]
  BY <1>2, EndShape
<1>4. ~Uncounted(t)
  BY <1>2 DEF Uncounted, HoldsTaken
<1>5. /\ JobsAgree' /\ NonceCarried'
      /\ \A u \in Threads : ~Uncounted(u)'
  BY <1>2, <1>4, EndKeeps
<1>6. CountTold'
  <2>1. \A u \in Threads : job'[u] # "sync"
    BY <1>1, <1>2, <1>3, ThreadsAssumption DEF Rest, JobsAgree, AccountOK
  <2> QED  BY <1>2, <2>1 DEF CountTold, ToldCount
<1>7. CASE ret[t] = 0
  <2>1. /\ nonce' = tx_count
        /\ wild' = (disturbed[t] \/ decoded[t] # "result")
        /\ missed' = ~fresh
        /\ unpaid' = 0
    BY <1>7 DEF SyncEnd
  <2>2. tx_count \in 0..MaxNonce /\ count \in Nat
    BY <1>1 DEF Rest, CountTold, AccountOK
  <2>3. /\ wild' \in BOOLEAN /\ missed' \in BOOLEAN
        /\ ~missed' => fresh
        /\ ~wild' => ~disturbed[t] /\ decoded[t] = "result"
    BY <1>1, <2>1, RpcTypes DEF AccountOK
  <2>4. ~wild' => tx_count <= count /\ (~missed' => tx_count = count)
    BY <1>1, <1>2, <1>3, <1>7, <2>3 DEF Rest, CountTold, ToldCount
  <2>5. NonceNotAhead' /\ NonceKept' /\ NonceOwed'
    BY <1>3, <1>5, <2>1, <2>2, <2>4 DEF NonceNotAhead, NonceKept, NonceOwed
  <2>6. UploadInRange'
    BY <2>1, <2>2 DEF UploadInRange
  <2>7. AccountOK'
    <3>1. nonce' \in Nonces /\ 0 \in Nonces
      BY <2>1, <2>2
    <3> QED  BY <1>1, <1>2, <1>3, <2>1, <2>3, <3>1 DEF AccountOK
  <2> QED  BY <1>3, <1>5, <1>6, <2>5, <2>6, <2>7, PartsNext DEF Rest
<1>8. CASE ret[t] # 0
  <2>1. UNCHANGED <<nonce, wild, missed, unpaid>>
    BY <1>8 DEF SyncEnd
  <2>2. AccountOK'
    <3>1. 0 \in Nonces
      OBVIOUS
    <3> QED  BY <1>1, <1>2, <1>3, <2>1, <3>1 DEF AccountOK
  <2>3. NonceNotAhead' /\ NonceKept' /\ NonceOwed'
    BY <1>1, <1>3, <1>4, <1>5, <2>1 DEF NonceNotAhead, NonceKept, NonceOwed, Rest
  <2>4. UploadInRange'
    BY <1>1, <1>3, <2>1 DEF UploadInRange, Rest, AccountOK
  <2> QED  BY <1>3, <1>5, <1>6, <2>2, <2>3, <2>4, PartsNext DEF Rest
<1> QED  BY <1>7, <1>8

-----------------------------------------------------------------------------
LEMMA NextIInv == IInv /\ [Next]_vars => IInv'
<1> SUFFICES ASSUME IInv, [Next]_vars PROVE IInv'
  OBVIOUS
<1>1. CASE Mine
  BY <1>1, MineInv
<1>2. ASSUME NEW t \in Threads, Scheduled(t),
             Work(t) \/ SetNonce(t) \/ \E j \in JobsOf[t] : Build(t, j)
      PROVE  IInv'
  <2>1. \A u \in Threads : Uncounted(u) => u = t
    BY <1>2, UploadGoesFirst
  <2>2. CASE Work(t)
    BY <2>1, <2>2, CallRpcInv, EncodeInv, HttpStepInv, HttpReplyInv, RpcReturnInv,
       TransferEndInv, UploadEndInv, SyncEndInv DEF Work, Finish
  <2> QED  BY <1>2, <2>2, SetNonceInv, BuildInv
<1>3. CASE UNCHANGED vars
  <2>1. UNCHANGED rpcVars
    BY <1>3 DEF vars, rpcVars, callVars, outcomeVars
  <2>2. UNCHANGED <<pc, rpc, method, kind, ret, decoded, disturbed, nonce, count, mined, queued,
                    job, step, tx_nonce, coded, wire, tx_count, fresh, wild, missed, unpaid>>
    BY <1>3 DEF vars
  <2>3. R!IInv'
    BY <2>1, Parts, RpcUnchanged
  <2>4. AccountOK' /\ Rest'
    BY <2>2, Parts DEF AccountOK, Rest, JobsAgree, UploadInRange, NonceCarried, NonceOwed,
       NonceKept, CountTold, NonceNotAhead, Uncounted, HoldsTaken, ToldCount
  <2> QED  BY <2>3, <2>4, PartsNext
<1> QED  BY <1>1, <1>2, <1>3 DEF Next

\* The invariant holds in every reachable state, whatever the threads do.
THEOREM Invariance == Spec => []IInv
  BY InitIInv, NextIInv, PTL DEF Spec

\* The type invariant of the account, of web3_rpc.c and of the HTTP client.
THEOREM TypeCorrect == Spec => []TypeOK
<1>1. IInv => TypeOK
  BY DEF IInv
<1> QED  BY <1>1, Invariance, PTL

\* Transfers, uploads (account->nonce++) and wallet_sync() never bring the nonce
\* beyond the node's count.
THEOREM NeverAhead == Spec => []NonceNotAhead
<1>1. IInv => NonceNotAhead
  BY DEF IInv
<1> QED  BY <1>1, Invariance, PTL

\* Between uploads the nonce is exact, if the node took nothing the wallet missed.
THEOREM Exact == Spec => []NonceExact
<1>1. IInv => NonceExact
  BY DEF IInv, NonceKept, NonceExact, Uncounted
<1> QED  BY <1>1, Invariance, PTL
=============================================================================
