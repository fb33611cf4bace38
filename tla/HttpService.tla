----------------------------- MODULE HttpService -----------------------------
(***************************************************************************)
(* The HTTP client that the threads of the wallet share                    *)
(* (zephyr-wallet/http_service.c over zephyr-wallet/http_utils.c).         *)
(*                                                                         *)
(* One recursive Zephyr mutex guards one http_ctx and one static reply     *)
(* buffer, result.  A successful http_send_data() returns with the mutex   *)
(* HELD, so that the reply stays in place until http_nfo_free(); a failed  *)
(* one unlocks first and only then calls http_release(&http_ctx).          *)
(*                                                                         *)
(* A step is the code a thread runs between two points at which another    *)
(* thread may get the processor.  Asserts are compiled out of the firmware *)
(* (prj.conf), so they are properties here and never guards.               *)
(***************************************************************************)
EXTENDS Integers, FiniteSets

CONSTANTS
  Threads,    \* threads that use the client
  Nfos,       \* the http_nfo_t structures of the program
  NfoOf,      \* the structure a thread passes to http_send_data()
  Payloads,   \* request bodies
  Prio,       \* Zephyr priority of a thread: the smaller runs first
  Leaky,      \* threads that may drop a reply without http_nfo_free()
  MaxDepth,   \* bound: how deep a leaking thread nests the mutex
  NoThread, NoPayload

ASSUME HttpAssumption ==
  /\ NfoOf \in [Threads -> Nfos]
  /\ Prio \in [Threads -> Nat]
  /\ Leaky \subseteq Threads
  /\ MaxDepth \in Nat
  /\ NoThread \notin Threads
  /\ NoPayload \notin Payloads

VARIABLES
  owner,       \* http_client_mutex: owning thread, ...
  lock_count,  \* ... recursion depth, ...
  wait_q,      \* ... and the threads pended on it
  http_ctx,    \* the thread whose connection the static http_ctx holds
  result,      \* the request that the bytes in the static reply buffer answer
  payload,     \* nfo->payload, per structure
  content,     \* nfo->content # NULL; when set it points into result
  priv,        \* nfo->_priv # NULL
  sent,        \* history: the request a thread's call put on the wire, ...
  asked,       \* ... and the one it meant to send; forgotten when it ends
  pc           \* where each thread is

vars == <<owner, lock_count, wait_q, http_ctx, result, payload, content, priv,
          sent, asked, pc>>

Labels == {"idle",     \* outside the client
           "ready",    \* the request is in the structure, about to call
           "lock",     \* in k_mutex_lock(), pended or just made the owner
           "connect",  \* the context is initialised and connects
           "wait",     \* the request is on the wire
           "unlock",   \* ret < 0, about to unlock the mutex
           "release",  \* ret < 0, unlocked, about to release the context
           "reply"}    \* http_send_data() returned a status > 0

PayloadOrNone == Payloads \cup {NoPayload}
ThreadOrNone == Threads \cup {NoThread}

TypeOK ==
  /\ owner \in ThreadOrNone
  /\ lock_count \in Nat
  /\ wait_q \in SUBSET Threads
  /\ http_ctx \in ThreadOrNone
  /\ result \in PayloadOrNone
  /\ payload \in [Nfos -> PayloadOrNone]
  /\ content \in [Nfos -> BOOLEAN]
  /\ priv \in [Nfos -> BOOLEAN]
  /\ sent \in [Threads -> PayloadOrNone]
  /\ asked \in [Threads -> PayloadOrNone]
  /\ pc \in [Threads -> Labels]

Init ==
  /\ owner = NoThread /\ lock_count = 0 /\ wait_q = {}
  /\ http_ctx = NoThread
  /\ result = NoPayload
  /\ payload = [n \in Nfos |-> NoPayload]
  /\ content = [n \in Nfos |-> FALSE]
  /\ priv = [n \in Nfos |-> FALSE]
  /\ sent = [t \in Threads |-> NoPayload]
  /\ asked = [t \in Threads |-> NoPayload]
  /\ pc = [t \in Threads |-> "idle"]

-----------------------------------------------------------------------------
(* The Zephyr mutex: recursive, with hand-over to the pended thread of the *)
(* highest priority (the order among equals is left open).                 *)

MutexLock(t) ==
  \/ /\ owner \in {t, NoThread}
     /\ owner' = t
     /\ lock_count' = lock_count + 1
     /\ wait_q' = wait_q
  \/ /\ owner \notin {t, NoThread}
     /\ wait_q' = wait_q \cup {t}
     /\ UNCHANGED <<owner, lock_count>>

First(q) == {w \in q : \A v \in q : Prio[w] <= Prio[v]}

MutexUnlock ==
  \/ /\ lock_count > 1
     /\ lock_count' = lock_count - 1
     /\ UNCHANGED <<owner, wait_q>>
  \/ /\ lock_count = 1
     /\ \E w \in First(wait_q) :
          /\ owner' = w
          /\ wait_q' = wait_q \ {w}
     /\ lock_count' = 1
  \/ /\ lock_count = 1
     /\ wait_q = {}
     /\ owner' = NoThread
     /\ lock_count' = 0
     /\ wait_q' = wait_q

Goto(t, label) == pc' = [pc EXCEPT ![t] = label]

\* The call of t is over.
Leave(t) ==
  /\ Goto(t, "idle")
  /\ sent' = [sent EXCEPT ![t] = NoPayload]
  /\ asked' = [asked EXCEPT ![t] = NoPayload]

-----------------------------------------------------------------------------
(* The operations. *)

\* The caller fills its structure, before any lock is taken
\* (usage step 1 in http_service.h).
SetNfo(t, p) ==
  /\ pc[t] = "idle"
  /\ payload' = [payload EXCEPT ![NfoOf[t]] = p]
  /\ asked' = [asked EXCEPT ![t] = p]
  /\ Goto(t, "ready")
  /\ UNCHANGED <<owner, lock_count, wait_q, http_ctx, result, content, priv, sent>>

\* k_mutex_lock(&http_client_mutex, K_FOREVER)
Lock(t) ==
  /\ pc[t] = "ready"
  /\ MutexLock(t)
  /\ Goto(t, "lock")
  /\ UNCHANGED <<http_ctx, result, payload, content, priv, sent, asked>>

\* A faulty variant -- here and below, definitions that no action uses: each is
\* a plausible bug that a property must notice.  Here k_mutex_lock() has a
\* timeout and its result is ignored.
InitClientUnowned(t) ==
  /\ pc[t] = "lock"
  /\ priv' = [priv EXCEPT ![NfoOf[t]] = FALSE]
  /\ http_ctx' = t
  /\ Goto(t, "connect")
  /\ UNCHANGED <<owner, lock_count, wait_q, result, payload, content, sent, asked>>

\* nfo->_priv = NULL; http_client_init(&http_ctx, ...), which may fail
InitClient(t) ==
  /\ pc[t] = "lock"
  /\ owner = t
  /\ priv' = [priv EXCEPT ![NfoOf[t]] = FALSE]
  /\ \/ http_ctx' = t /\ Goto(t, "connect")
     \/ http_ctx' = NoThread /\ Goto(t, "unlock")
  /\ UNCHANGED <<owner, lock_count, wait_q, result, payload, content, sent, asked>>

\* http_client_send_req() connects, which blocks, and only then reads
\* nfo->payload and puts it on the wire; without a live context, or on a
\* network error, it returns ret < 0.
SendReq(t) ==
  /\ pc[t] = "connect"
  /\ \/ /\ http_ctx = t
        /\ sent' = [sent EXCEPT ![t] = payload[NfoOf[t]]]
        /\ Goto(t, "wait")
     \/ sent' = sent /\ Goto(t, "unlock")
  /\ UNCHANGED <<owner, lock_count, wait_q, http_ctx, result, payload, content, priv, asked>>

GoodReplyUnlocks(t) ==   \* faulty: unlocks on success too
  /\ pc[t] = "wait"
  /\ http_ctx = t
  /\ result' = sent[t]
  /\ content' = [content EXCEPT ![NfoOf[t]] = TRUE]
  /\ http_ctx' = NoThread
  /\ MutexUnlock
  /\ Goto(t, "reply")
  /\ UNCHANGED <<payload, priv, sent, asked>>

GoodReplyUncopied(t) ==  \* faulty: does not wait for the reply's bytes
  /\ pc[t] = "wait"
  /\ http_ctx = t
  /\ content' = [content EXCEPT ![NfoOf[t]] = TRUE]
  /\ priv' = [priv EXCEPT ![NfoOf[t]] = TRUE]
  /\ http_ctx' = NoThread
  /\ Goto(t, "reply")
  /\ UNCHANGED <<owner, lock_count, wait_q, result, payload, sent, asked>>

\* A reply the parser accepts: the reply is handed to the caller, with a body
\* or without one, the context is released and the mutex stays locked.
GoodReply(t) ==
  /\ pc[t] = "wait"
  /\ http_ctx = t
  /\ result' = sent[t]
  /\ \E body \in BOOLEAN : content' = [content EXCEPT ![NfoOf[t]] = body]
  /\ priv' = [priv EXCEPT ![NfoOf[t]] = TRUE]
  /\ http_ctx' = NoThread
  /\ Goto(t, "reply")
  /\ UNCHANGED <<owner, lock_count, wait_q, payload, sent, asked>>

\* A reply that overflows result (-E2BIG) or does not parse (-EINVAL)
BadReply(t) ==
  /\ pc[t] = "wait"
  /\ http_ctx = t
  /\ result' = sent[t]
  /\ Goto(t, "unlock")
  /\ UNCHANGED <<owner, lock_count, wait_q, http_ctx, payload, content, priv, sent, asked>>

TimeoutAsReply(t) ==     \* faulty: a timeout is taken for a reply
  /\ pc[t] = "wait"
  /\ priv' = [priv EXCEPT ![NfoOf[t]] = TRUE]
  /\ Goto(t, "reply")
  /\ UNCHANGED <<owner, lock_count, wait_q, http_ctx, result, payload, content, sent, asked>>

\* APP_REQ_TIMEOUT passes, or the connection breaks
Timeout(t) ==
  /\ pc[t] = "wait"
  /\ Goto(t, "unlock")
  /\ UNCHANGED <<owner, lock_count, wait_q, http_ctx, result, payload, content, priv, sent, asked>>

ErrorKeepsLock(t) ==     \* faulty: an error path that forgets the mutex
  /\ pc[t] = "unlock"
  /\ Goto(t, "release")
  /\ UNCHANGED <<owner, lock_count, wait_q, http_ctx, result, payload, content, priv, sent, asked>>

\* out: if(ret < 0) k_mutex_unlock(&http_client_mutex)
UnlockOnError(t) ==
  /\ pc[t] = "unlock"
  /\ MutexUnlock
  /\ Goto(t, "release")
  /\ UNCHANGED <<http_ctx, result, payload, content, priv, sent, asked>>

\* http_release(&http_ctx); return ret -- with the mutex already given up
ReleaseAfterError(t) ==
  /\ pc[t] = "release"
  /\ http_ctx' = NoThread
  /\ Leave(t)
  /\ UNCHANGED <<owner, lock_count, wait_q, result, payload, content, priv>>

FreeKeepsContent(t) ==   \* faulty: content is not reset
  /\ pc[t] = "reply"
  /\ MutexUnlock
  /\ Leave(t)
  /\ UNCHANGED <<http_ctx, result, payload, content, priv>>

\* http_nfo_free(nfo): it tests nfo->_priv and never resets it
NfoFree(t) ==
  /\ pc[t] = "reply"
  /\ \/ /\ priv[NfoOf[t]]
        /\ content' = [content EXCEPT ![NfoOf[t]] = FALSE]
        /\ MutexUnlock
     \/ /\ ~priv[NfoOf[t]]
        /\ UNCHANGED <<owner, lock_count, wait_q, content>>
  /\ Leave(t)
  /\ UNCHANGED <<http_ctx, result, payload, priv>>

\* The caller returns without http_nfo_free(), as web3_eth_call() does when
\* the reply is an error.
Leak(t) ==
  /\ pc[t] = "reply"
  /\ t \in Leaky
  /\ lock_count < MaxDepth
  /\ Leave(t)
  /\ UNCHANGED <<owner, lock_count, wait_q, http_ctx, result, payload, content, priv>>

-----------------------------------------------------------------------------
Receive(t) == GoodReply(t) \/ BadReply(t) \/ Timeout(t)

\* What a thread does once it has called http_send_data(), until it returns
Call(t) ==
  \/ Lock(t)
  \/ InitClient(t)
  \/ SendReq(t)
  \/ Receive(t)
  \/ UnlockOnError(t)
  \/ ReleaseAfterError(t)

Step(t) ==
  \/ \E p \in Payloads : SetNfo(t, p)
  \/ Call(t)
  \/ NfoFree(t)
  \/ Leak(t)

Next == \E t \in Threads : Step(t)

Spec == Init /\ [][Next]_vars

\* Every thread keeps running inside a call and frees the reply it got: the
\* wait for the network ends by APP_REQ_TIMEOUT.  Nothing makes a thread start
\* a call.  The mutex hands itself over, so weak fairness is enough.
Fairness == \A t \in Threads : WF_vars(Call(t)) /\ WF_vars(NfoFree(t))

FairSpec == Spec /\ Fairness

-----------------------------------------------------------------------------
(* The scheduler of the firmware: one processor, preemptive priorities.    *)

\* A thread that waits for the console, a timer, the network or the mutex
\* does not compete for the processor.
Runnable(t) == pc[t] \notin {"idle", "connect", "wait"} /\ t \notin wait_q

Scheduled(t) == \A u \in Threads : Prio[u] < Prio[t] => ~Runnable(u)

SchedSpec == Init /\ [][\E t \in Threads : Scheduled(t) /\ Step(t)]_vars

-----------------------------------------------------------------------------
(* Properties. *)

Critical == {"connect", "wait", "unlock", "reply"}

\* From k_mutex_lock() to http_nfo_free(), or to the unlock of the error path,
\* a thread owns the mutex -- also while it waits for the network and while it
\* reads its reply -- so that no two threads are ever in that stretch, and a
\* pended thread is not.
CriticalHoldsMutex ==
  \A t \in Threads :
    /\ pc[t] \in Critical => owner = t
    /\ t \in wait_q => pc[t] = "lock" /\ owner \notin {t, NoThread}
    /\ pc[t] = "lock" => t \in wait_q \/ owner = t

\* The mutex is never left behind: a thread that frees its replies owns it
\* only while inside the client, and exactly once, whatever error path it
\* takes; and a free mutex has no one waiting for it.
NoOrphanLock ==
  /\ owner \in Threads \ Leaky =>
       /\ pc[owner] \in Critical \cup {"lock"}
       /\ lock_count = 1
  /\ owner = NoThread => lock_count = 0 /\ wait_q = {}

\* While a caller holds a reply, the static buffer has the answer to the bytes
\* its own call put on the wire, and http_nfo_free() will unlock: no other
\* thread's call overwrites either.
ReplyKept ==
  \A t \in Threads :
    pc[t] = "reply" => result = sent[t] /\ priv[NfoOf[t]]

\* Every thread has a structure of its own.
PrivateNfos == \A t, u \in Threads : NfoOf[t] = NfoOf[u] => t = u

\* From filling the structure to reading the reply, the request a thread meant
\* to send is the one in its structure, then the one on the wire.
RequestKept ==
  \A t \in Threads :
    /\ pc[t] \in {"ready", "lock", "connect"} => payload[NfoOf[t]] = asked[t]
    /\ pc[t] \in {"wait", "reply"} => sent[t] = asked[t]

\* The reply a caller reads answers the request it meant to send.
ReplyAnswersRequest ==
  \A t \in Threads :
    pc[t] = "reply" => result = asked[t]

\* "content of the reply, or NULL in case of error" (http_service.h): a failed
\* call leaves no pointer into the shared buffer behind, at least for callers
\* that free their replies.
NullOnError ==
  \A t \in Threads \ Leaky : pc[t] = "unlock" => ~content[NfoOf[t]]

\* A pointer into the shared reply buffer exists only in the structure of the
\* thread that owns the mutex: nobody else can reach the bytes.
ContentOnlyForOwner ==
  \A n \in Nfos :
    content[n] => \E t \in Threads : owner = t /\ NfoOf[t] = n

\* Pointers into the reply buffer are with the owner of the mutex, and after a
\* failure with nobody.
ContentSafe == ContentOnlyForOwner /\ NullOnError

\* A pointer left in a structure by an earlier call never outlives the mutex:
\* the thread about to start over with it holds the mutex once more.
StaleContentNested ==
  \A t \in Threads :
    owner = t /\ content[NfoOf[t]] /\ pc[t] \in {"lock", "connect", "wait", "unlock"}
      => lock_count > 1

\* The inductive invariant behind the safety properties above
IInv ==
  /\ TypeOK
  /\ CriticalHoldsMutex
  /\ NoOrphanLock
  /\ owner \in Threads => lock_count > 0
  /\ ReplyKept
  /\ ContentOnlyForOwner
  /\ StaleContentNested

\* The thread that waits for a reply still has its connection: no other thread
\* releases the http_ctx it is using.
ConnectionKept ==
  \A t \in Threads : pc[t] \in {"connect", "wait"} => http_ctx = t

\* Every call of http_send_data() returns.
CallReturns ==
  \A t \in Threads : pc[t] = "ready" ~> pc[t] \in {"idle", "reply"}

\* While the mutex is held no step of another thread touches the reply buffer
\* or the reply fields of any structure.
OnlyOwnerWrites ==
  [][\A t \in Threads :
       owner = t /\ UNCHANGED pc[t] => UNCHANGED <<result, content, priv>>]_vars

-----------------------------------------------------------------------------
(* The service implements the client its header promises.                  *)

phaseBar ==
  [t \in Threads |-> IF pc[t] = "idle" THEN "idle"
                     ELSE IF pc[t] = "reply" THEN "answered" ELSE "calling"]

\* What a caller that was answered reads: whatever the shared buffer holds.
answerBar == [t \in Threads |-> IF pc[t] = "reply" THEN result ELSE NoPayload]

Client == INSTANCE SharedClient
            WITH request <- asked, phase <- phaseBar, answer <- answerBar

\* Every step of the service is a step of the promised client, or none.
ImplementsClient == Client!Spec
=============================================================================
