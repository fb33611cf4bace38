-------------------------- MODULE HttpService_proof --------------------------
(* Proofs about HttpService for any threads, structures, priorities and any *)
(* set of leaking threads.                                                   *)
EXTENDS HttpService, TLAPS

USE HttpAssumption

LEMMA InitIInv == Init => IInv
  BY DEF Init, IInv, TypeOK, Labels, PayloadOrNone, ThreadOrNone, Critical,
     CriticalHoldsMutex, NoOrphanLock, ReplyKept, ContentOnlyForOwner, StaleContentNested

\* What unlocking does to the mutex when its owner t gives up one level.
LEMMA UnlockEffect ==
  ASSUME IInv, NEW t \in Threads, owner = t, MutexUnlock
  PROVE  \/ lock_count > 1 /\ owner' = t /\ lock_count' = lock_count - 1 /\ wait_q' = wait_q
         \/ \E w \in wait_q : /\ lock_count = 1 /\ lock_count' = 1
                              /\ owner' = w /\ w # t /\ w \in Threads /\ pc[w] = "lock"
                              /\ wait_q' = wait_q \ {w}
         \/ lock_count = 1 /\ lock_count' = 0 /\ owner' = NoThread
              /\ wait_q = {} /\ wait_q' = {}
  BY DEF IInv, TypeOK, MutexUnlock, First, CriticalHoldsMutex

LEMMA NextIInv == IInv /\ [Next]_vars => IInv'
<1> SUFFICES ASSUME IInv, [Next]_vars PROVE IInv'
  OBVIOUS
<1> USE DEF IInv, TypeOK, Labels, PayloadOrNone, ThreadOrNone, Critical,
        CriticalHoldsMutex, NoOrphanLock, ReplyKept, ContentOnlyForOwner,
        StaleContentNested, Goto, Leave
<1>1. ASSUME NEW t \in Threads, NEW p \in Payloads, SetNfo(t, p) PROVE IInv'
  BY <1>1 DEF SetNfo
<1>2. ASSUME NEW t \in Threads, Lock(t) PROVE IInv'
  BY <1>2 DEF Lock, MutexLock
<1>3. ASSUME NEW t \in Threads, InitClient(t) PROVE IInv'
  BY <1>3 DEF InitClient
<1>4. ASSUME NEW t \in Threads, SendReq(t) PROVE IInv'
  BY <1>4 DEF SendReq
<1>5. ASSUME NEW t \in Threads, GoodReply(t) PROVE IInv'
  BY <1>5 DEF GoodReply
<1>6. ASSUME NEW t \in Threads, BadReply(t) PROVE IInv'
  BY <1>6 DEF BadReply
<1>7. ASSUME NEW t \in Threads, Timeout(t) PROVE IInv'
  BY <1>7 DEF Timeout
<1>8. ASSUME NEW t \in Threads, UnlockOnError(t) PROVE IInv'
  BY <1>8, UnlockEffect DEF UnlockOnError
<1>9. ASSUME NEW t \in Threads, ReleaseAfterError(t) PROVE IInv'
  BY <1>9 DEF ReleaseAfterError
<1>10. ASSUME NEW t \in Threads, NfoFree(t) PROVE IInv'
  <2>1. owner = t /\ priv[NfoOf[t]] /\ MutexUnlock /\ pc' = [pc EXCEPT ![t] = "idle"]
    BY <1>10 DEF NfoFree
  <2>2. /\ content' = [content EXCEPT ![NfoOf[t]] = FALSE]
        /\ sent' = [sent EXCEPT ![t] = NoPayload]
        /\ asked' = [asked EXCEPT ![t] = NoPayload]
        /\ UNCHANGED <<http_ctx, result, payload, priv>>
    BY <1>10, <2>1 DEF NfoFree
  <2>3. /\ owner' \in ThreadOrNone /\ lock_count' \in Nat /\ wait_q' \in SUBSET Threads
        /\ owner' \in Threads => lock_count' > 0
    BY <2>1, UnlockEffect
  <2>4. TypeOK'
    BY <2>1, <2>2, <2>3
  <2>5. CriticalHoldsMutex' /\ NoOrphanLock'
    BY <2>1, UnlockEffect
  <2>6. ReplyKept'
    BY <2>1, <2>2
  <2>7. ContentOnlyForOwner'
    BY <2>1, <2>2
  <2>8. StaleContentNested'
    BY <2>1, <2>2, UnlockEffect
  <2> QED
    BY <2>3, <2>4, <2>5, <2>6, <2>7, <2>8
<1>11. ASSUME NEW t \in Threads, Leak(t) PROVE IInv'
  BY <1>11 DEF Leak
<1>12. CASE UNCHANGED vars
  BY <1>12 DEF vars
<1> QED
  BY <1>1, <1>2, <1>3, <1>4, <1>5, <1>6, <1>7, <1>8, <1>9, <1>10, <1>11, <1>12
  DEF Next, Step, Call, Receive

-----------------------------------------------------------------------------
\* The invariant holds in every reachable state (http_service.c as a whole).
THEOREM Invariance == Spec => []IInv
  BY InitIInv, NextIInv, PTL DEF Spec

\* The type invariant of the service's state.
THEOREM TypeCorrect == Spec => []TypeOK
<1>1. IInv => TypeOK
  BY DEF IInv
<1> QED  BY <1>1, Invariance, PTL

\* From k_mutex_lock() to http_nfo_free() a thread owns http_client_mutex.
THEOREM MutexOwned == Spec => []CriticalHoldsMutex
<1>1. IInv => CriticalHoldsMutex
  BY DEF IInv
<1> QED  BY <1>1, Invariance, PTL

\* No error path of http_send_data() leaves the mutex locked.
THEOREM NoOrphan == Spec => []NoOrphanLock
<1>1. IInv => NoOrphanLock
  BY DEF IInv
<1> QED  BY <1>1, Invariance, PTL

\* The reply stays in the static buffer until its reader frees it.
THEOREM ReplyStays == Spec => []ReplyKept
<1>1. IInv => ReplyKept
  BY DEF IInv
<1> QED  BY <1>1, Invariance, PTL

\* nfo->content points into the reply buffer only in the structure of the
\* mutex's owner, and a failed http_send_data() leaves it NULL.
THEOREM ContentIsSafe == Spec => []ContentSafe
<1>1. IInv => ContentSafe
  <2> SUFFICES ASSUME IInv, NEW t \in Threads \ Leaky, pc[t] = "unlock"
               PROVE  ~content[NfoOf[t]]
    BY DEF NullOnError, ContentSafe, IInv
  <2>1. owner = t /\ lock_count = 1
    BY DEF IInv, CriticalHoldsMutex, Critical, NoOrphanLock
  <2> QED
    BY <2>1 DEF IInv, StaleContentNested
<1> QED  BY <1>1, Invariance, PTL

\* While the mutex is held, only its owner's steps write the reply buffer and
\* the reply fields of the structures.
THEOREM OwnerWrites == Spec => OnlyOwnerWrites
<1>1. IInv /\ [Next]_vars =>
        [\A t \in Threads :
           owner = t /\ UNCHANGED pc[t] => UNCHANGED <<result, content, priv>>]_vars
  <2> SUFFICES ASSUME IInv, Next, NEW t \in Threads, owner = t, UNCHANGED pc[t]
               PROVE  UNCHANGED <<result, content, priv>>
    BY DEF vars
  <2> USE DEF IInv, TypeOK, CriticalHoldsMutex, Critical, Goto, Leave
  <2>1. ASSUME NEW u \in Threads, InitClient(u) \/ GoodReply(u) \/ BadReply(u) \/ NfoFree(u)
        PROVE  FALSE
    BY <2>1 DEF InitClient, GoodReply, BadReply, NfoFree
  <2> QED
    BY <2>1 DEF Next, Step, Call, Receive, SetNfo, Lock, SendReq, Timeout,
                UnlockOnError, ReleaseAfterError, Leak
<1> QED  BY <1>1, Invariance, PTL DEF Spec, OnlyOwnerWrites

-----------------------------------------------------------------------------
(* With a structure per thread the service is the client its header        *)
(* promises.  (The firmware shares one structure between threads.)         *)

LEMMA NextRequestKept ==
  ASSUME PrivateNfos, TypeOK, RequestKept, [Next]_vars
  PROVE  RequestKept'
<1> USE DEF TypeOK, RequestKept, PrivateNfos, Goto, Leave
<1>1. ASSUME NEW t \in Threads, NEW p \in Payloads, SetNfo(t, p) PROVE RequestKept'
  BY <1>1 DEF SetNfo
<1>2. ASSUME NEW t \in Threads, SendReq(t) PROVE RequestKept'
  BY <1>2 DEF SendReq
<1>3. ASSUME NEW t \in Threads, Lock(t) \/ InitClient(t) \/ Receive(t) \/ NfoFree(t)
                                \/ UnlockOnError(t) \/ ReleaseAfterError(t) \/ Leak(t)
      PROVE RequestKept'
  BY <1>3 DEF Lock, InitClient, Receive, GoodReply, BadReply, Timeout,
              UnlockOnError, ReleaseAfterError, NfoFree, Leak
<1>4. CASE UNCHANGED vars
  BY <1>4 DEF vars
<1> QED
  BY <1>1, <1>2, <1>3, <1>4 DEF Next, Step, Call

\* The request meant is the one in the structure, then the one on the wire.
THEOREM RequestStays == ASSUME PrivateNfos PROVE Spec => []RequestKept
<1>1. Init => RequestKept
  BY DEF Init, RequestKept
<1>2. TypeOK /\ RequestKept /\ [Next]_vars => RequestKept'
  BY NextRequestKept
<1> QED  BY <1>1, <1>2, TypeCorrect, PTL DEF Spec

\* The reply a caller reads answers the request it meant to send.
THEOREM ReplyAnswers == ASSUME PrivateNfos PROVE Spec => []ReplyAnswersRequest
<1>1. ReplyKept /\ RequestKept => ReplyAnswersRequest
  BY DEF ReplyKept, RequestKept, ReplyAnswersRequest
<1> QED  BY <1>1, ReplyStays, RequestStays, PTL

LEMMA StepImplementsClient ==
  ASSUME IInv, RequestKept, [Next]_vars
  PROVE  [Client!Next]_(Client!vars)
<1> USE DEF IInv, TypeOK, Labels, PayloadOrNone, Goto, Leave, phaseBar, answerBar
<1>1. ASSUME NEW t \in Threads, NEW p \in Payloads, SetNfo(t, p) PROVE Client!Begin(t, p)
  BY <1>1 DEF SetNfo, Client!Begin
<1>2. ASSUME NEW t \in Threads, GoodReply(t) PROVE Client!Answer(t)
  <2>1. \A u \in Threads : pc[u] # "reply"
    BY <1>2 DEF GoodReply, CriticalHoldsMutex, Critical
  <2>2. \A u \in Threads : phaseBar[u] # "answered"
    BY <2>1
  <2>3. phaseBar[t] = "calling" /\ phaseBar' = [phaseBar EXCEPT ![t] = "answered"]
    BY <1>2 DEF GoodReply
  <2>4. result' = asked[t] /\ asked' = asked
    BY <1>2 DEF GoodReply, RequestKept
  <2>5. answerBar' = [answerBar EXCEPT ![t] = asked[t]]
    BY <1>2, <2>1, <2>4 DEF GoodReply
  <2> QED  BY <2>2, <2>3, <2>4, <2>5 DEF Client!Answer
<1>3. ASSUME NEW t \in Threads, ReleaseAfterError(t) PROVE Client!Fail(t)
  BY <1>3 DEF ReleaseAfterError, Client!Fail
<1>4. ASSUME NEW t \in Threads, NfoFree(t) \/ Leak(t) PROVE Client!Free(t)
  <2>1. pc[t] = "reply" /\ pc' = [pc EXCEPT ![t] = "idle"]
    BY <1>4 DEF NfoFree, Leak
  <2>2. asked' = [asked EXCEPT ![t] = NoPayload] /\ result' = result
    BY <1>4 DEF NfoFree, Leak
  <2>3. \A u \in Threads : u # t => pc[u] # "reply"
    BY <2>1 DEF CriticalHoldsMutex, Critical
  <2>4. phaseBar[t] = "answered" /\ phaseBar' = [phaseBar EXCEPT ![t] = "idle"]
    BY <2>1
  <2>5. answerBar' = [answerBar EXCEPT ![t] = NoPayload]
    BY <2>1, <2>2
  <2> QED  BY <2>2, <2>4, <2>5 DEF Client!Free
<1>5. ASSUME NEW t \in Threads, Lock(t) \/ InitClient(t) \/ SendReq(t) \/ BadReply(t)
                                \/ Timeout(t) \/ UnlockOnError(t)
      PROVE UNCHANGED Client!vars
  <2>1. UNCHANGED asked /\ UNCHANGED phaseBar
    BY <1>5 DEF Lock, InitClient, SendReq, BadReply, Timeout, UnlockOnError
  <2>2. \A u \in Threads : pc'[u] = "reply" <=> pc[u] = "reply"
    BY <1>5 DEF Lock, InitClient, SendReq, BadReply, Timeout, UnlockOnError
  <2>3. (\E u \in Threads : pc[u] = "reply") => result' = result
    BY <1>5 DEF Lock, InitClient, SendReq, BadReply, Timeout, UnlockOnError,
                CriticalHoldsMutex, Critical
  <2> QED  BY <2>1, <2>2, <2>3 DEF Client!vars
<1>6. CASE UNCHANGED vars
  BY <1>6 DEF vars, Client!vars
<1> QED
  BY <1>1, <1>2, <1>3, <1>4, <1>5, <1>6 DEF Next, Step, Call, Receive, Client!Next

\* http_service.c implements the client of http_service.h.
THEOREM Implements == ASSUME PrivateNfos PROVE Spec => ImplementsClient
<1>1. Init => Client!Init
  BY DEF Init, Client!Init, phaseBar, answerBar
<1>2. IInv /\ RequestKept /\ [Next]_vars => [Client!Next]_(Client!vars)
  BY StepImplementsClient
<1> QED
  BY <1>1, <1>2, Invariance, RequestStays, PTL DEF Spec, ImplementsClient, Client!Spec
=============================================================================
