---------------------------- MODULE SharedClient ----------------------------
(***************************************************************************)
(* What http_service.h promises: "a simple http client that can be shared  *)
(* by multiple threads".  A thread calls with a request; the call fails,   *)
(* or it answers that very request; the answer is the caller's, unchanged, *)
(* until it releases it, and meanwhile nobody else is answered.            *)
(***************************************************************************)
CONSTANTS Threads, Payloads, NoPayload

VARIABLES
  request,  \* the request of a thread's call under way
  phase,    \* idle, calling or answered
  answer    \* the request that the reply a thread holds answers

vars == <<request, phase, answer>>

Init ==
  /\ request = [t \in Threads |-> NoPayload]
  /\ phase = [t \in Threads |-> "idle"]
  /\ answer = [t \in Threads |-> NoPayload]

\* http_send_data() is about to be called for request p
Begin(t, p) ==
  /\ phase[t] = "idle"
  /\ phase' = [phase EXCEPT ![t] = "calling"]
  /\ request' = [request EXCEPT ![t] = p]
  /\ UNCHANGED answer

\* it returns a status
Answer(t) ==
  /\ phase[t] = "calling"
  /\ \A u \in Threads : phase[u] # "answered"
  /\ phase' = [phase EXCEPT ![t] = "answered"]
  /\ answer' = [answer EXCEPT ![t] = request[t]]
  /\ UNCHANGED request

\* it returns an error
Fail(t) ==
  /\ phase[t] = "calling"
  /\ phase' = [phase EXCEPT ![t] = "idle"]
  /\ request' = [request EXCEPT ![t] = NoPayload]
  /\ UNCHANGED answer

\* http_nfo_free(): the answer may not be read any more
Free(t) ==
  /\ phase[t] = "answered"
  /\ phase' = [phase EXCEPT ![t] = "idle"]
  /\ answer' = [answer EXCEPT ![t] = NoPayload]
  /\ request' = [request EXCEPT ![t] = NoPayload]

Next ==
  \E t \in Threads :
    (\E p \in Payloads : Begin(t, p)) \/ Answer(t) \/ Fail(t) \/ Free(t)

Spec == Init /\ [][Next]_vars
=============================================================================
