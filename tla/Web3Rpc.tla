------------------------------- MODULE Web3Rpc -------------------------------
(***************************************************************************)
(* The JSON-RPC client (zephyr-wallet/web3_rpc.c) on top of the shared     *)
(* HTTP client.  Its request buffer WEB3_BUF, web3_ctx and                 *)
(* http_client_nfo are static and shared by the shell thread and the       *)
(* upload thread; a request is encoded into the buffer BEFORE              *)
(* http_send_data() takes its mutex.  Each method has its own way to       *)
(* decode the reply and to release the client.                             *)
(***************************************************************************)
EXTENDS Integers, Sequences, FiniteSets

CONSTANTS Threads, Prio, NoThread, NoPayload,
  MethodsOf,  \* the methods each thread calls
  MaxDepth    \* bound: no call starts with the mutex nested this deep

AllMethods == {"sendRawTransaction", "estimateGas", "call",
               "blockNumber", "getBalance", "getTransactionCount",
               "getTransactionReceipt"}

\* A request is written to WEB3_BUF in two parts: the reset and the preamble,
\* then the parameters and the terminator.
Request(t, m) == [by |-> t, method |-> m]
Whole(r) == <<[req |-> r, part |-> 1], [req |-> r, part |-> 2]>>
Requests == {Request(t, m) : t \in Threads, m \in AllMethods}
Bodies == Seq([req : Requests, part : 1..2])

ASSUME RpcAssumption ==
  /\ Prio \in [Threads -> Nat]
  /\ NoThread \notin Threads
  /\ NoPayload \notin Bodies
  /\ MethodsOf \in [Threads -> SUBSET AllMethods]
  /\ MaxDepth \in Nat

VARIABLES
  owner, lock_count, wait_q, http_ctx, result, payload, content, priv, sent,
  asked, pc,    \* of HttpService
  rpc,          \* where a thread is in web3_rpc.c
  method,       \* the method it calls, or called last
  kind,         \* what the reply that a thread holds is
  ret,          \* what its last call returned
  decoded,      \* history: the kind of reply its last call decoded, if any
  disturbed     \* history: another thread wrote the buffer during its call

nfo == "http_client_nfo"

H == INSTANCE HttpService WITH
       Nfos <- {nfo}, NfoOf <- [t \in Threads |-> nfo],
       Payloads <- Bodies, Leaky <- Threads, MaxDepth <- MaxDepth + 1

httpVars == <<owner, lock_count, wait_q, http_ctx, result, payload, content,
              priv, sent, asked, pc>>
rpcVars == <<rpc, method, kind, ret, decoded, disturbed>>
vars == <<owner, lock_count, wait_q, http_ctx, result, payload, content, priv,
          sent, asked, pc, rpc, method, kind, ret, decoded, disturbed>>

\* A reply with a result and an error object is an "error" if the code is
\* negative, and a "result" otherwise.
ReplyKinds == {"result",   \* a result the decoder accepts
               "error",    \* an error object with a negative code
               "refused",  \* an error object with a code of 0 or more
               "empty",    \* neither a result nor an error code
               "bad"}      \* anything the decoder rejects

TypeOK ==
  /\ H!TypeOK
  /\ rpc \in [Threads -> {"idle", "encode", "http"}]
  /\ method \in [Threads -> AllMethods \cup {"none"}]
  /\ kind \in ReplyKinds
  /\ ret \in [Threads -> {0, -1}]
  /\ decoded \in [Threads -> ReplyKinds \cup {"none"}]
  /\ disturbed \in [Threads -> BOOLEAN]

Init ==
  /\ H!Init
  /\ rpc = [t \in Threads |-> "idle"]
  /\ method = [t \in Threads |-> "none"]
  /\ kind = "bad"
  /\ ret = [t \in Threads |-> -1]
  /\ decoded = [t \in Threads |-> "none"]
  /\ disturbed = [t \in Threads |-> FALSE]

-----------------------------------------------------------------------------
\* Thread t returns r, having decoded a reply of kind k.
ReturnValue(t, r, k) ==
  /\ rpc' = [rpc EXCEPT ![t] = "idle"]
  /\ ret' = [ret EXCEPT ![t] = r]
  /\ decoded' = [decoded EXCEPT ![t] = k]
  /\ method' = method

\* The calls that another thread has under way when t writes the buffer
Disturb(t) == [u \in Threads |-> disturbed[u] \/ (u # t /\ rpc[u] # "idle")]

\* Faulty variant -- here and below, definitions that no action uses, each a
\* plausible bug that a property must notice: the buffer is not reset.
BeginNoReset(t, m) ==
  /\ rpc[t] = "idle"
  /\ owner = t => lock_count < MaxDepth
  /\ rpc' = [rpc EXCEPT ![t] = "encode"]
  /\ method' = [method EXCEPT ![t] = m]
  /\ payload' = [payload EXCEPT ![nfo] =
                   IF @ = NoPayload THEN <<Head(Whole(Request(t, m)))>>
                   ELSE SubSeq(@, 1, 1) \o <<Head(Whole(Request(t, m)))>>]
  /\ asked' = [asked EXCEPT ![t] = Whole(Request(t, m))]
  /\ disturbed' = [Disturb(t) EXCEPT ![t] = FALSE]
  /\ UNCHANGED <<owner, lock_count, wait_q, http_ctx, result, content, priv,
                 sent, pc, kind, ret, decoded>>

\* WEB3_PREAMBLE: the buffer is reset and the method's name printed
Begin(t, m) ==
  /\ rpc[t] = "idle"
  /\ owner = t => lock_count < MaxDepth
  /\ rpc' = [rpc EXCEPT ![t] = "encode"]
  /\ method' = [method EXCEPT ![t] = m]
  /\ payload' = [payload EXCEPT ![nfo] = <<Head(Whole(Request(t, m)))>>]
  /\ asked' = [asked EXCEPT ![t] = Whole(Request(t, m))]
  /\ disturbed' = [Disturb(t) EXCEPT ![t] = FALSE]
  /\ UNCHANGED <<owner, lock_count, wait_q, http_ctx, result, content, priv,
                 sent, pc, kind, ret, decoded>>

\* The parameters and WEB3_TERMINATOR go where buf_used says, then
\* http_send_data() is called.
Encode(t) ==
  /\ rpc[t] = "encode"
  /\ rpc' = [rpc EXCEPT ![t] = "http"]
  /\ payload' = [payload EXCEPT ![nfo] =
                   Append(@, [req |-> Request(t, method[t]), part |-> 2])]
  /\ disturbed' = Disturb(t)
  /\ H!Goto(t, "ready")
  /\ UNCHANGED <<owner, lock_count, wait_q, http_ctx, result, content, priv,
                 sent, asked, method, kind, ret, decoded>>

\* The parameters do not fit: every method returns -1, but
\* web3_eth_getTransactionReceipt() returns 0.
EncodeFails(t) ==
  /\ rpc[t] = "encode"
  /\ ReturnValue(t, IF method[t] = "getTransactionReceipt" THEN 0 ELSE -1, "none")
  /\ disturbed' = Disturb(t)
  /\ asked' = [asked EXCEPT ![t] = NoPayload]
  /\ UNCHANGED <<owner, lock_count, wait_q, http_ctx, result, payload, content,
                 priv, sent, pc, kind>>

\* http_send_data() runs ...
HttpStep(t) ==
  /\ rpc[t] = "http"
  /\ H!Lock(t) \/ H!InitClient(t) \/ H!SendReq(t) \/ H!BadReply(t)
       \/ H!Timeout(t) \/ H!UnlockOnError(t)
  /\ UNCHANGED rpcVars

\* ... and gets a reply: a node answers a whole request in any way, and
\* anything else without a result ...
HttpReply(t) ==
  /\ rpc[t] = "http"
  /\ H!GoodReply(t)
  /\ kind' \in IF \E r \in Requests : sent[t] = Whole(r)
                 THEN ReplyKinds ELSE ReplyKinds \ {"result"}
  /\ kind' # "bad" => content'[nfo]
  /\ UNCHANGED <<rpc, method, ret, decoded, disturbed>>

\* ... or fails, and the method returns -1.
HttpFailed(t) ==
  /\ rpc[t] = "http"
  /\ H!ReleaseAfterError(t)
  /\ ReturnValue(t, -1, "none")
  /\ UNCHANGED <<kind, disturbed>>

\* The methods that look at the error object
ErrorChecked == {"sendRawTransaction", "estimateGas", "call"}

\* What the test res.error.code < 0 may find: res is an uninitialised local, and
\* only a reply with an error code sets it.
FoundNegative ==
  CASE kind = "error" -> {TRUE}
    [] kind = "refused" -> {FALSE}
    [] OTHER -> BOOLEAN

\* Faulty: only a reply that does not decode is an error
OutcomesLenient(m) == IF kind = "bad" THEN {-1} ELSE {0}

\* What a method makes of a reply.  The receipt decoder is called on a NULL body.
Outcomes(m) ==
  IF m = "getTransactionReceipt" \/ kind = "bad" THEN {-1}
  ELSE IF m \in ErrorChecked THEN {IF found THEN -1 ELSE 0 : found \in FoundNegative}
  ELSE {0}

\* Faulty: every method frees like web3_eth_call()
FreesOnSuccess(m, r) == r = 0

\* http_nfo_free() on every path, but for web3_eth_call() when it returns -1
Frees(m, r) == m # "call" \/ r = 0

Return(t) ==
  /\ rpc[t] = "http"
  /\ \E r \in Outcomes(method[t]) :
       /\ ReturnValue(t, r, IF method[t] = "getTransactionReceipt" THEN "none" ELSE kind)
       /\ IF Frees(method[t], r) THEN H!NfoFree(t) ELSE H!Leak(t)
  /\ kind' = "bad"
  /\ UNCHANGED disturbed

-----------------------------------------------------------------------------
Work(t) ==
  \/ Encode(t)
  \/ EncodeFails(t)
  \/ HttpStep(t)
  \/ HttpReply(t)
  \/ HttpFailed(t)
  \/ Return(t)

\* One processor, preemptive priorities
Runnable(t) == rpc[t] = "encode" \/ H!Runnable(t)
Scheduled(t) == \A u \in Threads : Prio[u] < Prio[t] => ~Runnable(u)

Next ==
  \E t \in Threads :
    Scheduled(t) /\ (Work(t) \/ \E m \in MethodsOf[t] : Begin(t, m))

Spec == Init /\ [][Next]_vars

\* A call under way goes on whenever its thread is the one to run; threads of
\* higher priority block on the network in every call of theirs.
Fairness == \A t \in Threads : SF_vars(Scheduled(t) /\ Work(t))

FairSpec == Spec /\ Fairness

-----------------------------------------------------------------------------
(* Properties. *)

\* A thread outside web3_rpc.c does not own the HTTP client: whatever the node
\* answers, every method gives it back.
ClientReturned == \A t \in Threads : rpc[t] = "idle" => owner # t

\* Every call returns.
CallReturns == \A t \in Threads : rpc[t] = "encode" ~> rpc[t] = "idle"

\* A method that looks at the error object and that no other thread disturbed
\* returns 0 only upon a reply to its own request that decodes and has no
\* negative error code -- but not only upon a result: a code of 0 or more, or
\* no code at all, passes for success with nothing stored in *out.
SuccessAnswered ==
  [][\A t \in Threads :
       (/\ rpc[t] = "http" /\ rpc'[t] = "idle" /\ ret'[t] = 0
        /\ method[t] \in ErrorChecked /\ ~disturbed[t])
         => /\ result = Whole(Request(t, method[t]))
            /\ decoded'[t] \in {"result", "refused", "empty"}]_vars

\* The reply a method decodes answers the request it encoded.
AnswerMatches == H!ReplyAnswersRequest

\* If no other thread wrote the shared buffer during the call, the reply does
\* answer the request: requests are mixed up by overlapping calls only.
UndisturbedMatches ==
  \A t \in Threads :
    pc[t] = "reply" /\ ~disturbed[t] => result = asked[t]

-----------------------------------------------------------------------------
(* The inductive invariant behind them. *)

\* A thread is inside the HTTP client while it is at "http"; during a call its
\* method is one of its own and the buffer has been written.
PhasesAgree ==
  \A t \in Threads :
    /\ rpc[t] = "http" <=> pc[t] # "idle"
    /\ rpc[t] # "idle" => method[t] \in MethodsOf[t] /\ payload[nfo] # NoPayload

\* The threads that never call web3_eth_call()
Frugal == {t \in Threads : "call" \notin MethodsOf[t]}

\* They hold the mutex once, and inside the client only.
FrugalHoldsOnce ==
  owner \in Frugal => pc[owner] \in H!Critical \cup {"lock"} /\ lock_count = 1

\* The request of an undisturbed call, from its first half in WEB3_BUF to the
\* wire
RequestIntact ==
  \A t \in Threads :
    ~disturbed[t] =>
      /\ rpc[t] # "idle" => asked[t] = Whole(Request(t, method[t]))
      /\ rpc[t] = "encode" => payload[nfo] = <<Head(asked[t])>>
      /\ pc[t] \in {"ready", "lock", "connect"} => payload[nfo] = asked[t]
      /\ pc[t] \in {"wait", "reply"} => sent[t] = asked[t]

IInv ==
  /\ TypeOK
  /\ H!IInv
  /\ PhasesAgree
  /\ FrugalHoldsOnce
  /\ RequestIntact
=============================================================================
