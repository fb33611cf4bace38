---------------------------- MODULE Web3Rpc_proof ----------------------------
(* Proofs about Web3Rpc for any threads, priorities and methods.  What the  *)
(* HTTP client does is not proved again: the theorems about HttpService are *)
(* taken with the parameters of Web3Rpc (HP).                                *)
EXTENDS Web3Rpc, SequenceTheorems, TLAPS

HP == INSTANCE HttpService_proof WITH
        Nfos <- {nfo}, NfoOf <- [t \in Threads |-> nfo],
        Payloads <- Bodies, Leaky <- Threads, MaxDepth <- MaxDepth + 1

USE RpcAssumption

\* H and HP are the same instance under two names.
LEMMA SameInvariant == H!IInv <=> HP!IInv
  BY DEF H!IInv, H!TypeOK, H!CriticalHoldsMutex, H!NoOrphanLock, H!ReplyKept,
         H!ContentOnlyForOwner, H!StaleContentNested, H!Labels, H!Critical,
         H!PayloadOrNone, H!ThreadOrNone,
         HP!IInv, HP!TypeOK, HP!CriticalHoldsMutex, HP!NoOrphanLock, HP!ReplyKept,
         HP!ContentOnlyForOwner, HP!StaleContentNested, HP!Labels, HP!Critical,
         HP!PayloadOrNone, HP!ThreadOrNone

LEMMA SameInvariantNext == H!IInv' <=> HP!IInv'
  BY SameInvariant, PTL

LEMMA SameInit == H!Init <=> HP!Init
  BY DEF H!Init, HP!Init

LEMMA SameStep ==
  ASSUME NEW t \in Threads,
         \/ H!Lock(t) \/ H!InitClient(t) \/ H!SendReq(t) \/ H!BadReply(t)
         \/ H!Timeout(t) \/ H!UnlockOnError(t)
         \/ H!GoodReply(t) \/ H!ReleaseAfterError(t) \/ H!NfoFree(t) \/ H!Leak(t)
  PROVE  HP!Next
<1>1. CASE H!Lock(t)
  BY <1>1 DEF HP!Next, HP!Step, HP!Call, H!Lock, HP!Lock, H!MutexLock, HP!MutexLock, H!Goto, HP!Goto
<1>2. CASE H!InitClient(t)
  BY <1>2 DEF HP!Next, HP!Step, HP!Call, H!InitClient, HP!InitClient, H!Goto, HP!Goto
<1>3. CASE H!SendReq(t)
  BY <1>3 DEF HP!Next, HP!Step, HP!Call, H!SendReq, HP!SendReq, H!Goto, HP!Goto
<1>4. CASE H!BadReply(t)
  BY <1>4 DEF HP!Next, HP!Step, HP!Call, HP!Receive, H!BadReply, HP!BadReply, H!Goto, HP!Goto
<1>5. CASE H!Timeout(t)
  BY <1>5 DEF HP!Next, HP!Step, HP!Call, HP!Receive, H!Timeout, HP!Timeout, H!Goto, HP!Goto
<1>6. CASE H!UnlockOnError(t)
  BY <1>6 DEF HP!Next, HP!Step, HP!Call, H!UnlockOnError, HP!UnlockOnError, H!Goto, HP!Goto,
              H!MutexUnlock, HP!MutexUnlock, H!First, HP!First
<1>7. CASE H!GoodReply(t)
  BY <1>7 DEF HP!Next, HP!Step, HP!Call, HP!Receive, H!GoodReply, HP!GoodReply, H!Goto, HP!Goto
<1>8. CASE H!ReleaseAfterError(t)
  BY <1>8 DEF HP!Next, HP!Step, HP!Call, H!ReleaseAfterError, HP!ReleaseAfterError,
              H!Goto, HP!Goto, H!Leave, HP!Leave
<1>9. CASE H!NfoFree(t)
  BY <1>9 DEF HP!Next, HP!Step, H!NfoFree, HP!NfoFree, H!Goto, HP!Goto, H!Leave, HP!Leave,
              H!MutexUnlock, HP!MutexUnlock, H!First, HP!First
<1>10. CASE H!Leak(t)
  BY <1>10 DEF HP!Next, HP!Step, H!Leak, HP!Leak, H!Goto, HP!Goto, H!Leave, HP!Leave
<1> QED
  BY <1>1, <1>2, <1>3, <1>4, <1>5, <1>6, <1>7, <1>8, <1>9, <1>10

\* Whatever http_send_data() and http_nfo_free() do keeps the invariant of the
\* HTTP client.
LEMMA HttpKeepsInv ==
  ASSUME H!IInv, NEW t \in Threads,
         \/ H!Lock(t) \/ H!InitClient(t) \/ H!SendReq(t) \/ H!BadReply(t)
         \/ H!Timeout(t) \/ H!UnlockOnError(t)
         \/ H!GoodReply(t) \/ H!ReleaseAfterError(t) \/ H!NfoFree(t) \/ H!Leak(t)
  PROVE  H!IInv'
  BY SameStep, SameInvariant, SameInvariantNext, HP!NextIInv DEF HP!HttpAssumption

\* Filling the request buffer outside of http_send_data() keeps it, too.
LEMMA WritingKeepsInv ==
  ASSUME H!IInv, NEW t \in Threads, pc[t] = "idle",
         payload' \in [{nfo} -> Bodies \cup {NoPayload}],
         asked' \in [Threads -> Bodies \cup {NoPayload}],
         pc' = pc \/ H!Goto(t, "ready"),
         UNCHANGED <<owner, lock_count, wait_q, http_ctx, result, content, priv, sent>>
  PROVE  H!IInv'
  BY DEF H!IInv, H!TypeOK, H!CriticalHoldsMutex, H!NoOrphanLock, H!ReplyKept,
         H!ContentOnlyForOwner, H!StaleContentNested, H!Labels, H!Critical,
         H!PayloadOrNone, H!ThreadOrNone, H!Goto

LEMMA TwoParts ==
  ASSUME NEW P, NEW a \in P, NEW b \in P
  PROVE  /\ <<a>> \in Seq(P) /\ <<a, b>> \in Seq(P)
         /\ Head(<<a, b>>) = a
         /\ Append(<<a>>, b) = <<a, b>>
<1> DEFINE s == Append(<<a>>, b)
           u == <<a, b>>
<1>1. <<a>> \in Seq(P) /\ u \in Seq(P) /\ Len(u) = 2 /\ u[1] = a /\ u[2] = b
  OBVIOUS
<1>2. <<a>> \in Seq(P) /\ Len(<<a>>) = 1 /\ <<a>>[1] = a
  OBVIOUS
<1>3. s \in Seq(P) /\ Len(s) = 2 /\ s[1] = a /\ s[2] = b
  BY <1>2, AppendProperties
<1> HIDE DEF s, u
<1>4. \A i \in 1 .. Len(s) : s[i] = u[i]
  BY <1>1, <1>3
<1>5. s = u
  BY <1>1, <1>3, <1>4, SeqEqual
<1> QED  BY <1>1, <1>5 DEF s, u

\* The two parts of a request are a body, and no other value.
LEMMA RequestType ==
  \A t \in Threads, m \in AllMethods :
    /\ Request(t, m) \in Requests
    /\ Whole(Request(t, m)) \in Bodies
    /\ <<Head(Whole(Request(t, m)))>> \in Bodies
    /\ Append(<<Head(Whole(Request(t, m)))>>, [req |-> Request(t, m), part |-> 2])
         = Whole(Request(t, m))
    /\ Whole(Request(t, m)) # NoPayload
<1> SUFFICES ASSUME NEW t \in Threads, NEW m \in AllMethods
             PROVE  /\ Request(t, m) \in Requests
                    /\ Whole(Request(t, m)) \in Bodies
                    /\ <<Head(Whole(Request(t, m)))>> \in Bodies
                    /\ Append(<<Head(Whole(Request(t, m)))>>, [req |-> Request(t, m), part |-> 2])
                         = Whole(Request(t, m))
                    /\ Whole(Request(t, m)) # NoPayload
  OBVIOUS
<1>1. Request(t, m) \in Requests
  BY DEF Requests
<1> DEFINE r == Request(t, m)
<1> HIDE DEF r
<1>2. /\ [req |-> r, part |-> 1] \in [req : Requests, part : 1..2]
      /\ [req |-> r, part |-> 2] \in [req : Requests, part : 1..2]
  BY <1>1 DEF r
<1>3. /\ Whole(r) \in Bodies /\ <<Head(Whole(r))>> \in Bodies
      /\ Append(<<Head(Whole(r))>>, [req |-> r, part |-> 2]) = Whole(r)
  BY <1>2, TwoParts, Zenon DEF Whole, Bodies
<1> QED  BY <1>1, <1>3 DEF r

-----------------------------------------------------------------------------
(* The invariant, one lemma per action.                                     *)

LEMMA InitIInv == Init => IInv
<1> SUFFICES ASSUME Init PROVE IInv
  OBVIOUS
<1>1. H!IInv
  BY SameInvariant, SameInit, HP!InitIInv DEF HP!HttpAssumption, Init
<1>2. /\ rpc \in [Threads -> {"idle", "encode", "http"}]
      /\ method \in [Threads -> AllMethods \cup {"none"}]
      /\ kind \in ReplyKinds /\ ret \in [Threads -> {0, -1}]
      /\ decoded \in [Threads -> ReplyKinds \cup {"none"}] /\ disturbed \in [Threads -> BOOLEAN]
  BY DEF Init, ReplyKinds
<1>3. PhasesAgree /\ FrugalHoldsOnce /\ RequestIntact
  BY DEF Init, H!Init, PhasesAgree, FrugalHoldsOnce, Frugal, RequestIntact
<1> QED  BY <1>1, <1>2, <1>3 DEF IInv, TypeOK, H!IInv

\* Thread t writes the buffer: every other call is disturbed or not under way.
LEMMA DisturbOthers ==
  ASSUME NEW t \in Threads, disturbed \in [Threads -> BOOLEAN],
         \/ disturbed' = Disturb(t)
         \/ disturbed' = [Disturb(t) EXCEPT ![t] = FALSE]
  PROVE  /\ disturbed' \in [Threads -> BOOLEAN]
         /\ \A u \in Threads : u # t /\ ~disturbed'[u] => ~disturbed[u] /\ rpc[u] = "idle"
  BY DEF Disturb

LEMMA BeginInv ==
  ASSUME IInv, NEW t \in Threads, NEW m \in MethodsOf[t], Begin(t, m)
  PROVE  IInv'
<1>0. m \in AllMethods
  OBVIOUS
<1> USE DEF IInv, TypeOK
<1>1. pc[t] = "idle" /\ rpc[t] = "idle"
  BY DEF PhasesAgree, Begin, H!IInv, H!TypeOK
<1>2. /\ payload' = [payload EXCEPT ![nfo] = <<Head(Whole(Request(t, m)))>>]
      /\ asked' = [asked EXCEPT ![t] = Whole(Request(t, m))]
      /\ rpc' = [rpc EXCEPT ![t] = "encode"] /\ method' = [method EXCEPT ![t] = m]
      /\ disturbed' = [Disturb(t) EXCEPT ![t] = FALSE]
      /\ UNCHANGED <<owner, lock_count, wait_q, http_ctx, result, content, priv,
                     sent, pc, kind, ret, decoded>>
  BY DEF Begin
<1>3. /\ payload' \in [{nfo} -> Bodies \cup {NoPayload}]
      /\ payload'[nfo] = <<Head(Whole(Request(t, m)))>>
      /\ asked' \in [Threads -> Bodies \cup {NoPayload}]
      /\ asked'[t] = Whole(Request(t, m)) /\ \A u \in Threads \ {t} : asked'[u] = asked[u]
  BY <1>0, <1>2, RequestType DEF H!TypeOK, H!PayloadOrNone
<1>4. H!IInv'
  BY <1>1, <1>2, <1>3, WritingKeepsInv
<1>5. /\ disturbed' \in [Threads -> BOOLEAN]
      /\ \A u \in Threads : u # t /\ ~disturbed'[u] => ~disturbed[u] /\ rpc[u] = "idle"
  BY <1>2, DisturbOthers
<1>6. TypeOK'
  BY <1>0, <1>2, <1>4, <1>5 DEF H!IInv
<1>7. PhasesAgree'
  <2>1. payload'[nfo] # NoPayload
    <3> DEFINE first == <<Head(Whole(Request(t, m)))>>
    <3>1. payload'[nfo] = first
      BY <1>3, Zenon
    <3>2. first \in Bodies
      BY <1>0, RequestType, Zenon
    <3> HIDE DEF first
    <3>3. NoPayload \notin Bodies
      BY RpcAssumption, Zenon
    <3> QED  BY <3>1, <3>2, <3>3
  <2> QED  BY <1>1, <1>2, <2>1 DEF PhasesAgree
<1>8. FrugalHoldsOnce'
  BY <1>2 DEF FrugalHoldsOnce, Frugal
<1>9. RequestIntact'
  <2> SUFFICES ASSUME NEW u \in Threads, ~disturbed'[u]
               PROVE  /\ rpc'[u] # "idle" => asked'[u] = Whole(Request(u, method'[u]))
                      /\ rpc'[u] = "encode" => payload'[nfo] = <<Head(asked'[u])>>
                      /\ pc'[u] \in {"ready", "lock", "connect"} => payload'[nfo] = asked'[u]
                      /\ pc'[u] \in {"wait", "reply"} => sent'[u] = asked'[u]
    BY DEF RequestIntact
  <2>1. CASE u = t
    BY <1>1, <1>2, <1>3, <2>1
  <2>2. CASE u # t
    BY <1>2, <1>5, <2>2 DEF PhasesAgree
  <2> QED  BY <2>1, <2>2
<1> QED  BY <1>4, <1>6, <1>7, <1>8, <1>9

LEMMA EncodeInv ==
  ASSUME IInv, NEW t \in Threads, Encode(t)
  PROVE  IInv'
<1> USE DEF IInv, TypeOK
<1>1. pc[t] = "idle" /\ rpc[t] = "encode" /\ method[t] \in AllMethods
  BY DEF PhasesAgree, Encode, H!IInv, H!TypeOK
<1> DEFINE part2 == [req |-> Request(t, method[t]), part |-> 2]
<1>2. /\ payload' = [payload EXCEPT ![nfo] = Append(@, part2)]
      /\ H!Goto(t, "ready") /\ rpc' = [rpc EXCEPT ![t] = "http"] /\ disturbed' = Disturb(t)
      /\ UNCHANGED <<owner, lock_count, wait_q, http_ctx, result, content, priv,
                     sent, asked, method, kind, ret, decoded>>
  BY DEF Encode
<1>3. part2 \in [req : Requests, part : 1..2]
  <2>1. Request(t, method[t]) \in Requests
    BY <1>1, RequestType, Zenon
  <2> QED  BY <2>1
<1>4. payload[nfo] \in Bodies
  BY <1>1 DEF PhasesAgree, H!TypeOK, H!PayloadOrNone
<1>5. Append(payload[nfo], part2) \in Bodies
  BY <1>3, <1>4, AppendProperties DEF Bodies
<1> HIDE DEF part2
<1>6. /\ payload' \in [{nfo} -> Bodies \cup {NoPayload}]
      /\ payload'[nfo] = Append(payload[nfo], part2) /\ payload'[nfo] # NoPayload
      /\ asked' \in [Threads -> Bodies \cup {NoPayload}]
  BY <1>2, <1>5 DEF H!TypeOK, H!PayloadOrNone
<1>7. H!IInv'
  BY <1>1, <1>2, <1>6, WritingKeepsInv
<1>8. /\ disturbed' \in [Threads -> BOOLEAN]
      /\ \A u \in Threads : u # t /\ ~disturbed'[u] => ~disturbed[u] /\ rpc[u] = "idle"
      /\ disturbed'[t] = disturbed[t]
  BY <1>2, DisturbOthers DEF Disturb
<1>9. TypeOK'
  BY <1>2, <1>7, <1>8 DEF H!IInv
<1>10. pc[t] = "idle" /\ pc'[t] = "ready" /\ \A u \in Threads \ {t} : pc'[u] = pc[u]
  BY <1>1, <1>2 DEF H!Goto, H!IInv, H!TypeOK
<1>11. PhasesAgree'
  BY <1>1, <1>2, <1>6, <1>10 DEF PhasesAgree
<1>12. FrugalHoldsOnce'
  BY <1>1, <1>2, <1>10 DEF FrugalHoldsOnce, Frugal, H!Critical
<1>13. ~disturbed[t] => payload'[nfo] = asked'[t] /\ asked'[t] = Whole(Request(t, method'[t]))
  <2>1. Append(<<Head(Whole(Request(t, method[t])))>>, part2) = Whole(Request(t, method[t]))
    BY <1>1, RequestType, Zenon DEF part2
  <2>2. ~disturbed[t] => asked[t] = Whole(Request(t, method[t]))
                         /\ payload[nfo] = <<Head(asked[t])>>
    BY <1>1 DEF RequestIntact
  <2> QED  BY <1>2, <1>6, <2>1, <2>2
<1>14. RequestIntact'
  <2> SUFFICES ASSUME NEW u \in Threads, ~disturbed'[u]
               PROVE  /\ rpc'[u] # "idle" => asked'[u] = Whole(Request(u, method'[u]))
                      /\ rpc'[u] = "encode" => payload'[nfo] = <<Head(asked'[u])>>
                      /\ pc'[u] \in {"ready", "lock", "connect"} => payload'[nfo] = asked'[u]
                      /\ pc'[u] \in {"wait", "reply"} => sent'[u] = asked'[u]
    BY DEF RequestIntact
  <2>1. CASE u = t
    BY <1>2, <1>8, <1>10, <1>13, <2>1
  <2>2. CASE u # t
    BY <1>2, <1>8, <1>10, <2>2 DEF PhasesAgree
  <2> QED  BY <2>1, <2>2
<1> QED  BY <1>7, <1>9, <1>11, <1>12, <1>14

LEMMA EncodeFailsInv ==
  ASSUME IInv, NEW t \in Threads, EncodeFails(t)
  PROVE  IInv'
<1> USE DEF IInv, TypeOK
<1>1. pc[t] = "idle" /\ rpc[t] = "encode"
  BY DEF PhasesAgree, EncodeFails, H!IInv, H!TypeOK
<1>2. /\ rpc' = [rpc EXCEPT ![t] = "idle"]
      /\ ret' = [ret EXCEPT ![t] = IF method[t] = "getTransactionReceipt" THEN 0 ELSE -1]
      /\ decoded' = [decoded EXCEPT ![t] = "none"]
      /\ asked' = [asked EXCEPT ![t] = NoPayload]
      /\ disturbed' = Disturb(t)
      /\ UNCHANGED <<owner, lock_count, wait_q, http_ctx, result, payload, content, priv,
                     sent, pc, method, kind>>
  BY DEF EncodeFails, ReturnValue
<1>3. /\ payload' \in [{nfo} -> Bodies \cup {NoPayload}]
      /\ asked' \in [Threads -> Bodies \cup {NoPayload}]
  BY <1>2 DEF H!TypeOK, H!PayloadOrNone
<1>4. H!IInv'
  BY <1>1, <1>2, <1>3, WritingKeepsInv
<1>5. /\ disturbed' \in [Threads -> BOOLEAN]
      /\ \A u \in Threads : u # t /\ ~disturbed'[u] => ~disturbed[u] /\ rpc[u] = "idle"
  BY <1>2, DisturbOthers
<1>6. TypeOK'
  BY <1>2, <1>4, <1>5 DEF H!IInv
<1>7. PhasesAgree' /\ FrugalHoldsOnce'
  BY <1>1, <1>2 DEF PhasesAgree, FrugalHoldsOnce, Frugal
<1>8. RequestIntact'
  BY <1>1, <1>2, <1>5 DEF RequestIntact, PhasesAgree
<1> QED  BY <1>4, <1>6, <1>7, <1>8

-----------------------------------------------------------------------------
(* Steps of http_send_data() and http_nfo_free(): the request of a thread   *)
(* goes from the buffer to the wire, and the mutex is taken or given back.  *)

\* A step of t before its call ends
LEMMA InsideCall ==
  ASSUME IInv, NEW t \in Threads, rpc[t] = "http",
         \/ H!Lock(t) \/ H!InitClient(t) \/ H!SendReq(t) \/ H!BadReply(t)
         \/ H!Timeout(t) \/ H!UnlockOnError(t) \/ H!GoodReply(t)
  PROVE  /\ H!IInv'
         /\ FrugalHoldsOnce'
         /\ UNCHANGED <<payload, asked>>
         /\ pc'[t] # "idle" /\ \A u \in Threads \ {t} : pc'[u] = pc[u] /\ sent'[u] = sent[u]
         /\ pc'[t] \in {"ready", "lock", "connect"} => pc[t] \in {"ready", "lock", "connect"}
         /\ pc'[t] \in {"wait", "reply"} =>
              \/ pc[t] \in {"wait", "reply"} /\ sent'[t] = sent[t]
              \/ pc[t] = "connect" /\ sent'[t] = payload[nfo]
<1> USE DEF IInv, H!IInv, H!TypeOK, H!Goto, H!Labels
<1>1. H!IInv'
  BY HttpKeepsInv
<1>2. CASE H!Lock(t)
  BY <1>1, <1>2 DEF H!Lock, H!MutexLock, FrugalHoldsOnce, Frugal, H!Critical, H!NoOrphanLock
<1>3. CASE H!InitClient(t)
  BY <1>1, <1>3 DEF H!InitClient, FrugalHoldsOnce, Frugal, H!Critical
<1>4. CASE H!SendReq(t)
  BY <1>1, <1>4 DEF H!SendReq, FrugalHoldsOnce, Frugal, H!Critical
<1>5. CASE H!BadReply(t) \/ H!Timeout(t) \/ H!GoodReply(t)
  BY <1>1, <1>5 DEF H!BadReply, H!Timeout, H!GoodReply, FrugalHoldsOnce, Frugal, H!Critical
<1>6. CASE H!UnlockOnError(t)
  BY <1>1, <1>6 DEF H!UnlockOnError, H!MutexUnlock, H!First, FrugalHoldsOnce, Frugal,
        H!Critical, H!CriticalHoldsMutex, H!NoOrphanLock
<1> QED  BY <1>2, <1>3, <1>4, <1>5, <1>6

LEMMA InsideCallInv ==
  ASSUME IInv, NEW t \in Threads, HttpStep(t) \/ HttpReply(t)
  PROVE  IInv'
<1> USE DEF IInv, TypeOK
<1>1. /\ rpc[t] = "http" /\ UNCHANGED <<rpc, method, ret, decoded, disturbed>>
      /\ kind' \in ReplyKinds
  BY DEF HttpStep, HttpReply, rpcVars
<1>2. \/ H!Lock(t) \/ H!InitClient(t) \/ H!SendReq(t) \/ H!BadReply(t)
      \/ H!Timeout(t) \/ H!UnlockOnError(t) \/ H!GoodReply(t)
  BY DEF HttpStep, HttpReply
<1>3. /\ H!IInv'
      /\ FrugalHoldsOnce'
      /\ UNCHANGED <<payload, asked>>
      /\ pc'[t] # "idle" /\ \A u \in Threads \ {t} : pc'[u] = pc[u] /\ sent'[u] = sent[u]
      /\ pc'[t] \in {"ready", "lock", "connect"} => pc[t] \in {"ready", "lock", "connect"}
      /\ pc'[t] \in {"wait", "reply"} =>
           \/ pc[t] \in {"wait", "reply"} /\ sent'[t] = sent[t]
           \/ pc[t] = "connect" /\ sent'[t] = payload[nfo]
  BY <1>1, <1>2, InsideCall
<1>4. TypeOK'
  BY <1>1, <1>3 DEF H!IInv
<1>5. PhasesAgree'
  BY <1>1, <1>3 DEF PhasesAgree
<1>6. RequestIntact'
  BY <1>1, <1>3 DEF RequestIntact
<1> QED  BY <1>3, <1>4, <1>5, <1>6

\* The step of t that ends its call
LEMMA EndOfCall ==
  ASSUME IInv, NEW t \in Threads, rpc[t] = "http",
         H!ReleaseAfterError(t) \/ H!NfoFree(t) \/ (H!Leak(t) /\ method[t] = "call")
  PROVE  /\ H!IInv'
         /\ FrugalHoldsOnce'
         /\ UNCHANGED payload
         /\ pc' = [pc EXCEPT ![t] = "idle"]
         /\ \A u \in Threads \ {t} : sent'[u] = sent[u] /\ asked'[u] = asked[u]
<1> USE DEF IInv, H!IInv, H!TypeOK, H!Goto, H!Leave, H!Labels
<1>1. H!IInv'
  BY HttpKeepsInv
<1>2. CASE H!ReleaseAfterError(t)
  BY <1>1, <1>2 DEF H!ReleaseAfterError, FrugalHoldsOnce, Frugal, H!Critical
<1>3. CASE H!NfoFree(t)
  <2>1. pc[t] = "reply" /\ priv[nfo] /\ owner = t /\ H!MutexUnlock
    BY <1>3 DEF H!NfoFree, H!ReplyKept, H!CriticalHoldsMutex, H!Critical
  <2>2. FrugalHoldsOnce'
    BY <1>1, <1>3, <2>1 DEF H!NfoFree, H!MutexUnlock, H!First, FrugalHoldsOnce, Frugal,
          H!Critical, H!CriticalHoldsMutex
  <2> QED  BY <1>1, <1>3, <2>2 DEF H!NfoFree
<1>4. CASE H!Leak(t) /\ method[t] = "call"
  <2>1. owner = t /\ t \notin Frugal
    BY <1>4 DEF PhasesAgree, Frugal, H!Leak, H!CriticalHoldsMutex, H!Critical
  <2> QED  BY <1>1, <1>4, <2>1 DEF H!Leak, FrugalHoldsOnce, Frugal
<1> QED  BY <1>2, <1>3, <1>4

\* What a method may return, and what 0 tells of the reply
LEMMA OutcomesMean ==
  ASSUME kind \in ReplyKinds, NEW m \in AllMethods, NEW r \in Outcomes(m)
  PROVE  /\ r \in {0, -1}
         /\ r = 0 /\ m \in ErrorChecked => kind \in {"result", "refused", "empty"}
<1>1. CASE m = "getTransactionReceipt" \/ kind = "bad"
  BY <1>1 DEF Outcomes
<1>2. CASE ~(m = "getTransactionReceipt" \/ kind = "bad") /\ m \in ErrorChecked
  <2>1. PICK found \in FoundNegative : r = IF found THEN -1 ELSE 0
    BY <1>2 DEF Outcomes
  <2>2. r = 0 => ~found
    BY <2>1
  <2>3. FoundNegative \subseteq BOOLEAN /\ (kind = "error" => FoundNegative = {TRUE})
    BY DEF FoundNegative
  <2> QED  BY <1>2, <2>1, <2>2, <2>3 DEF ReplyKinds
<1>3. CASE ~(m = "getTransactionReceipt" \/ kind = "bad") /\ m \notin ErrorChecked
  BY <1>3 DEF Outcomes
<1> QED  BY <1>1, <1>2, <1>3

LEMMA EndOfCallInv ==
  ASSUME IInv, NEW t \in Threads, HttpFailed(t) \/ Return(t)
  PROVE  IInv'
<1> USE DEF IInv, TypeOK
<1>1. PICK r \in {0, -1}, k \in ReplyKinds \cup {"none"} : ReturnValue(t, r, k)
  <2>1. CASE HttpFailed(t)
    BY <2>1 DEF HttpFailed
  <2>2. CASE Return(t)
    <3> DEFINE k == IF method[t] = "getTransactionReceipt" THEN "none" ELSE kind
    <3>1. PICK r \in Outcomes(method[t]) : ReturnValue(t, r, k)
      BY <2>2 DEF Return
    <3>2. method[t] \in AllMethods
      BY <2>2 DEF Return, PhasesAgree
    <3>3. r \in {0, -1}
      BY <3>2, OutcomesMean
    <3>4. k \in ReplyKinds \cup {"none"}
      OBVIOUS
    <3> HIDE DEF k
    <3> QED  BY <3>1, <3>3, <3>4
  <2> QED  BY <2>1, <2>2
<1>2. /\ rpc[t] = "http" /\ kind' \in ReplyKinds /\ UNCHANGED disturbed
      /\ H!ReleaseAfterError(t) \/ H!NfoFree(t) \/ (H!Leak(t) /\ method[t] = "call")
  <2>1. CASE HttpFailed(t)
    BY <2>1 DEF HttpFailed
  <2>2. CASE Return(t)
    BY <2>2 DEF Return, Frees, ReplyKinds
  <2> QED  BY <2>1, <2>2
<1>3. /\ rpc' = [rpc EXCEPT ![t] = "idle"] /\ ret' = [ret EXCEPT ![t] = r]
      /\ decoded' = [decoded EXCEPT ![t] = k] /\ method' = method
  BY <1>1 DEF ReturnValue
<1>4. /\ H!IInv'
      /\ FrugalHoldsOnce'
      /\ UNCHANGED payload
      /\ pc' = [pc EXCEPT ![t] = "idle"]
      /\ \A u \in Threads \ {t} : sent'[u] = sent[u] /\ asked'[u] = asked[u]
  BY <1>2, EndOfCall
<1>5. TypeOK'
  BY <1>2, <1>3, <1>4 DEF H!IInv
<1>6. PhasesAgree'
  BY <1>2, <1>3, <1>4 DEF PhasesAgree, H!IInv, H!TypeOK
<1>7. RequestIntact'
  BY <1>2, <1>3, <1>4 DEF RequestIntact, H!IInv, H!TypeOK
<1> QED  BY <1>4, <1>5, <1>6, <1>7

\* A step of one thread, whatever the scheduler thinks of it
LEMMA StepIInv ==
  ASSUME IInv, NEW t \in Threads, Work(t) \/ \E m \in MethodsOf[t] : Begin(t, m)
  PROVE  IInv'
  BY BeginInv, EncodeInv, EncodeFailsInv, InsideCallInv, EndOfCallInv DEF Work

LEMMA NextIInv == IInv /\ [Next]_vars => IInv'
<1> SUFFICES ASSUME IInv, [Next]_vars PROVE IInv'
  OBVIOUS
<1>1. CASE Next
  BY <1>1, StepIInv DEF Next
<1>2. CASE UNCHANGED vars
  <2>1. UNCHANGED <<owner, lock_count, wait_q, http_ctx, result, payload, content, priv,
                    sent, asked, pc, rpc, method, kind, ret, decoded, disturbed>>
    BY <1>2 DEF vars
  <2> QED
    BY <2>1 DEF IInv, TypeOK, PhasesAgree, FrugalHoldsOnce, RequestIntact,
        H!IInv, H!TypeOK, H!CriticalHoldsMutex, H!NoOrphanLock, H!ReplyKept,
        H!ContentOnlyForOwner, H!StaleContentNested
<1> QED  BY <1>1, <1>2

-----------------------------------------------------------------------------
\* The invariant holds in every reachable state (web3_rpc.c as a whole).
THEOREM Invariance == Spec => []IInv
  BY InitIInv, NextIInv, PTL DEF Spec

\* The type invariant of the client's state and of the HTTP client's below it.
THEOREM TypeCorrect == Spec => []TypeOK
<1>1. IInv => TypeOK
  BY DEF IInv
<1> QED  BY <1>1, Invariance, PTL

\* If no thread calls web3_eth_call(), every method gives the HTTP client back,
\* whatever the node answers.  (RpcLeak shows that web3_eth_call() does not.)
THEOREM Returned == ASSUME Frugal = Threads PROVE Spec => []ClientReturned
<1>1. IInv => ClientReturned
  BY DEF IInv, ClientReturned, PhasesAgree, FrugalHoldsOnce, H!Critical
<1> QED  BY <1>1, Invariance, PTL

\* A call that no other thread's disturbs gets the reply to its own request.
THEOREM UndisturbedAnswered == Spec => []UndisturbedMatches
<1>1. IInv => UndisturbedMatches
  BY DEF IInv, H!IInv, H!ReplyKept, RequestIntact, UndisturbedMatches
<1> QED  BY <1>1, Invariance, PTL

\* The step that ends a call of t is its own.
LEMMA OwnReturn ==
  ASSUME IInv, [Next]_vars, NEW t \in Threads, rpc[t] = "http", rpc'[t] = "idle"
  PROVE  HttpFailed(t) \/ Return(t)
<1>1. PICK u \in Threads : Work(u) \/ \E m \in MethodsOf[u] : Begin(u, m)
  BY DEF Next, vars
<1>2. CASE \E m \in MethodsOf[u] : Begin(u, m)
  BY <1>2 DEF IInv, TypeOK, Begin
<1>3. CASE Encode(u)
  BY <1>3 DEF IInv, TypeOK, Encode
<1>4. CASE EncodeFails(u)
  BY <1>4 DEF IInv, TypeOK, EncodeFails, ReturnValue
<1>5. CASE HttpStep(u) \/ HttpReply(u)
  BY <1>5 DEF HttpStep, HttpReply, rpcVars
<1>6. CASE HttpFailed(u) \/ Return(u)
  BY <1>6 DEF IInv, TypeOK, HttpFailed, Return, ReturnValue
<1> QED  BY <1>1, <1>2, <1>3, <1>4, <1>5, <1>6 DEF Work

\* An undisturbed call of a method that looks at the error object returns 0 only
\* upon a reply to its own request, which has no negative error code.
THEOREM SuccessIsAnswered == Spec => SuccessAnswered
<1> DEFINE Answered(t) ==
      (/\ rpc[t] = "http" /\ rpc'[t] = "idle" /\ ret'[t] = 0
       /\ method[t] \in ErrorChecked /\ ~disturbed[t])
        => /\ result = Whole(Request(t, method[t]))
           /\ decoded'[t] \in {"result", "refused", "empty"}
<1>1. ASSUME IInv, [Next]_vars PROVE [\A t \in Threads : Answered(t)]_vars
  <2> SUFFICES ASSUME NEW t \in Threads, rpc[t] = "http", rpc'[t] = "idle", ret'[t] = 0,
                      method[t] \in ErrorChecked, ~disturbed[t]
               PROVE  /\ result = Whole(Request(t, method[t]))
                      /\ decoded'[t] \in {"result", "refused", "empty"}
    OBVIOUS
  <2> HIDE DEF Answered
  <2>1. HttpFailed(t) \/ Return(t)
    BY <1>1, OwnReturn
  <2>2. Return(t)
    <3>1. HttpFailed(t) => ret'[t] = -1
      BY <1>1 DEF IInv, TypeOK, HttpFailed, ReturnValue
    <3> QED  BY <2>1, <3>1
  <2>3. pc[t] = "reply"
    BY <2>2 DEF Return, H!NfoFree, H!Leak
  <2>4. result = sent[t] /\ sent[t] = asked[t] /\ asked[t] = Whole(Request(t, method[t]))
    BY <1>1, <2>3 DEF IInv, H!IInv, H!ReplyKept, RequestIntact
  <2>5. method[t] # "getTransactionReceipt" /\ method[t] \in AllMethods
    BY DEF ErrorChecked, AllMethods
  <2>6. PICK r \in Outcomes(method[t]) : ReturnValue(t, r, kind)
    BY <2>2, <2>5 DEF Return
  <2>7. r = 0 /\ decoded'[t] = kind
    BY <1>1, <2>6 DEF IInv, TypeOK, ReturnValue
  <2>8. kind \in {"result", "refused", "empty"}
    BY <1>1, <2>5, <2>6, <2>7, OutcomesMean DEF IInv, TypeOK
  <2> QED  BY <2>4, <2>7, <2>8
<1>2. Spec => [][\A t \in Threads : Answered(t)]_vars
  BY <1>1, Invariance, PTL DEF Spec
<1> QED  BY <1>2 DEF SuccessAnswered
=============================================================================
