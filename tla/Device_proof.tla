---------------------------- MODULE Device_proof ----------------------------
(* Proofs about the device's three small services, side by side: those of   *)
(* Sawtooth, of Sensor for any number of samples, and of Sntp for any number *)
(* of calls, the type invariant of the three, and what is proved of a        *)
(* service by itself, for the three together.  A free in the wrong place     *)
(* unlocks a mutex that is another thread's, or nobody's, so the theorems    *)
(* about HttpService do not apply to Sawtooth: the mutex is gone through     *)
(* again here, for two threads.                                              *)
EXTENDS MCDevice, TLAPS

-----------------------------------------------------------------------------
(* The supply chain example.                                                *)

USE SawtoothAssumption DEF Threads

\* The shell takes steps only while the demo thread is outside of its commands
\* or blocked in one.
Quiet == At("demo", "none") \/ ~CommandRunnable("demo")

LEMMA QuietMeans ==
  ASSUME CommandIInv, Quiet
  PROVE  /\ command["demo"] \in {"none", "http", "dead"}
         /\ pc["demo"] \in {"idle", "lock", "connect", "wait"}
         /\ ~Failing("demo")
  BY DEF CommandIInv, CommandTypeOK, Quiet, CommandRunnable, H!Runnable, H!Labels, At, PlacesAgree,
     WaitersWait, Failing

LEMMA InitIInv == SawtoothInit => SawtoothIInv
<1> SUFFICES ASSUME SawtoothInit PROVE SawtoothIInv
  OBVIOUS
<1> USE DEF SawtoothInit
<1>1. CommandTypeOK
  BY DEF CommandTypeOK, Bodies, Transactions, H!Labels
<1>2. PlacesAgree /\ WaitersWait /\ MutexAgrees /\ PrivTells /\ PayloadIntact
  BY DEF PlacesAgree, WaitersWait, MutexAgrees, PrivTells, PayloadIntact, H!CriticalHoldsMutex, H!Critical, At, Failing
<1>3. DemoAlone /\ DemoSignsItsOwn /\ DemoTypeOK /\ DemoAgrees
  BY DEF DemoAlone, DemoSignsItsOwn, DemoTypeOK, DemoAgrees, At
<1> QED  BY <1>1, <1>2, <1>3 DEF SawtoothIInv, CommandIInv

-----------------------------------------------------------------------------
(* The steps that write _buf.                                                *)

LEMMA DisturbMeans ==
  ASSUME CommandTypeOK, NEW t \in Threads, disturbed' = Disturb(t)
  PROVE  /\ disturbed' \in [Threads -> BOOLEAN] /\ disturbed'[t] = disturbed[t]
         /\ \A u \in Threads : ~disturbed'[u] => ~disturbed[u] /\ (u # t => At(u, "none"))
         /\ \A u \in Threads : At(u, "none") /\ ~disturbed[u] => ~disturbed'[u]
  BY DEF CommandTypeOK, Disturb

\* They leave the mutex and the reply alone.
LEMMA WritingKeeps ==
  ASSUME CommandIInv, NEW t \in Threads, NEW c \in {"sign", "list", "point", "http"},
         ~Failing(t), pc[t] = "idle", command' = [command EXCEPT ![t] = c],
         pc' = IF c = "http" THEN [pc EXCEPT ![t] = "ready"] ELSE pc,
         UNCHANGED <<owner, lock_count, wait_q, result, priv, sent, overtaken, stray>>
  PROVE  WaitersWait' /\ (~stray' => MutexAgrees' /\ PrivTells')
<1> USE DEF CommandIInv, CommandTypeOK
<1>0. WaitersWait'
  BY DEF WaitersWait
<1>1. ~stray => MutexAgrees'
  BY DEF MutexAgrees, H!CriticalHoldsMutex, H!Critical, At
<1>2. \A u \in Threads : Failing(u)' <=> Failing(u)
  BY DEF Failing, At
<1>3. ~stray => PrivTells'
  BY <1>2 DEF PrivTells, At
<1> QED  BY <1>0, <1>1, <1>3

LEMMA BodyType ==
  /\ \A t \in Threads, whose \in Threads \cup {"none"} : [by |-> t, rec |-> whose] \in Bodies
  /\ \A p, q \in Bodies : [signed |-> p, body |-> q] \in Transactions
  /\ \A p \in Bodies : Whole(p) \in Transactions /\ Whole(p).signed = p
  BY DEF Bodies, Transactions, Whole

LEMMA EncodePayloadInv ==
  ASSUME CommandIInv, NEW t \in Threads, NEW whose \in Threads \cup {"none"},
         EncodePayload(t, whose), t = "shell" => Quiet
  PROVE  CommandIInv'
<1> DEFINE p == [by |-> t, rec |-> whose]
<1>1. p \in Bodies /\ Whole(p) \in Transactions /\ Whole(p).signed = p
  BY BodyType, Zenon
<1>2. /\ At(t, "none") /\ command' = [command EXCEPT ![t] = "sign"]
      /\ buf' = p /\ payload' = [payload EXCEPT ![nfo] = Junk]
      /\ asked' = [asked EXCEPT ![t] = Whole(p)] /\ disturbed' = Disturb(t)
      /\ UNCHANGED <<owner, lock_count, wait_q, http_ctx, result, content, priv,
                     sent, pc, rec, tx, overtaken, stray>>
  BY DEF EncodePayload, Go
<1> HIDE DEF p
<1>3. pc[t] = "idle" /\ ~disturbed[t] /\ ~Failing(t)
  BY <1>2 DEF CommandIInv, CommandTypeOK, PlacesAgree, At, Failing
<1>4. /\ disturbed' \in [Threads -> BOOLEAN] /\ disturbed'[t] = disturbed[t]
      /\ \A u \in Threads : ~disturbed'[u] => ~disturbed[u] /\ (u # t => At(u, "none"))
      /\ \A u \in Threads : At(u, "none") /\ ~disturbed[u] => ~disturbed'[u]
  BY <1>2, DisturbMeans DEF CommandIInv
<1>5. CommandTypeOK'
  BY <1>1, <1>2, <1>4 DEF CommandIInv, CommandTypeOK, Transactions
<1>6. WaitersWait' /\ (~stray' => MutexAgrees' /\ PrivTells')
  BY <1>2, <1>3, WritingKeeps
<1>7. PlacesAgree'
  BY <1>2, <1>3, <1>4 DEF CommandIInv, CommandTypeOK, PlacesAgree, At
<1>8. PayloadIntact'
  BY <1>1, <1>2, <1>3, <1>4 DEF CommandIInv, CommandTypeOK, PayloadIntact, PlacesAgree, At
<1>9. DemoAlone' /\ DemoSignsItsOwn'
  BY <1>2, <1>3, <1>4, QuietMeans DEF CommandIInv, CommandTypeOK, DemoAlone, DemoSignsItsOwn, At
<1> QED  BY <1>2, <1>5, <1>6, <1>7, <1>8, <1>9 DEF CommandIInv

LEMMA SignTxInv ==
  ASSUME CommandIInv, NEW t \in Threads, SignTx(t), t = "shell" => Quiet
  PROVE  CommandIInv'
<1>1. /\ At(t, "sign") /\ command' = [command EXCEPT ![t] = "list"]
      /\ buf' = Known(t, buf) /\ tx' = [tx EXCEPT ![t] = buf']
      /\ payload' = [payload EXCEPT ![nfo] = Junk] /\ disturbed' = Disturb(t)
      /\ UNCHANGED <<owner, lock_count, wait_q, http_ctx, result, content, priv,
                     sent, asked, pc, rec, overtaken, stray>>
  BY DEF SignTx, Go
<1>2. pc[t] = "idle" /\ ~Failing(t)
  BY <1>1 DEF CommandIInv, CommandTypeOK, PlacesAgree, At, Failing
<1>3. /\ disturbed' \in [Threads -> BOOLEAN] /\ disturbed'[t] = disturbed[t]
      /\ \A u \in Threads : ~disturbed'[u] => ~disturbed[u] /\ (u # t => At(u, "none"))
      /\ \A u \in Threads : At(u, "none") /\ ~disturbed[u] => ~disturbed'[u]
  BY <1>1, DisturbMeans DEF CommandIInv
<1>4. buf' \in Bodies /\ (~disturbed[t] => buf' = buf) /\ Junk \in Transactions
  BY <1>1 DEF Known, Bodies, Transactions, CommandIInv, CommandTypeOK
<1>5. CommandTypeOK'
  BY <1>1, <1>3, <1>4 DEF CommandIInv, CommandTypeOK
<1>6. WaitersWait' /\ (~stray' => MutexAgrees' /\ PrivTells')
  BY <1>1, <1>2, WritingKeeps
<1>7. PlacesAgree'
  BY <1>1, <1>2, <1>3 DEF CommandIInv, CommandTypeOK, PlacesAgree, At
<1>8. PayloadIntact'
  BY <1>1, <1>2, <1>3, <1>4 DEF CommandIInv, CommandTypeOK, PayloadIntact, PlacesAgree, At
<1>9. DemoAlone'
  BY <1>1, <1>3, QuietMeans DEF CommandIInv, CommandTypeOK, DemoAlone, At
<1>10. DemoSignsItsOwn'
  BY <1>1, <1>3, <1>4 DEF CommandIInv, CommandTypeOK, DemoAlone, DemoSignsItsOwn, PayloadIntact, At
<1> QED  BY <1>1, <1>5, <1>6, <1>7, <1>8, <1>9, <1>10 DEF CommandIInv

LEMMA EncodeListInv ==
  ASSUME CommandIInv, NEW t \in Threads, EncodeList(t), t = "shell" => Quiet
  PROVE  CommandIInv'
<1>1. /\ At(t, "list") /\ command' = [command EXCEPT ![t] = "point"]
      /\ buf' = Known(t, buf) /\ disturbed' = Disturb(t)
      /\ payload' = [payload EXCEPT ![nfo] = [signed |-> tx[t], body |-> buf']]
      /\ UNCHANGED <<owner, lock_count, wait_q, http_ctx, result, content, priv,
                     sent, asked, pc, rec, tx, overtaken, stray>>
  BY DEF EncodeList, Go
<1>2. pc[t] = "idle" /\ ~Failing(t)
  BY <1>1 DEF CommandIInv, CommandTypeOK, PlacesAgree, At, Failing
<1>3. /\ disturbed' \in [Threads -> BOOLEAN] /\ disturbed'[t] = disturbed[t]
      /\ \A u \in Threads : ~disturbed'[u] => ~disturbed[u] /\ (u # t => At(u, "none"))
      /\ \A u \in Threads : At(u, "none") /\ ~disturbed[u] => ~disturbed'[u]
  BY <1>1, DisturbMeans DEF CommandIInv
<1>4. buf' \in Bodies /\ (~disturbed[t] => buf' = buf)
  BY <1>1 DEF Known, Bodies, CommandIInv, CommandTypeOK
<1>5. [signed |-> tx[t], body |-> buf'] \in Transactions
  BY <1>4, BodyType DEF CommandIInv, CommandTypeOK
<1>6. ~disturbed[t] => [signed |-> tx[t], body |-> buf'] = asked[t]
  <2> SUFFICES ASSUME ~disturbed[t] PROVE [signed |-> tx[t], body |-> buf'] = asked[t]
    OBVIOUS
  <2>1. PICK p \in Bodies : asked[t] = Whole(p)
    BY <1>1 DEF CommandIInv, PayloadIntact, At
  <2>2. tx[t] = p /\ buf = p
    BY <1>1, <2>1, BodyType DEF CommandIInv, PayloadIntact, At
  <2> QED  BY <1>4, <2>1, <2>2 DEF Whole
<1> DEFINE list == [signed |-> tx[t], body |-> buf']
<1>7. payload' = [payload EXCEPT ![nfo] = list] /\ list \in Transactions
      /\ (~disturbed[t] => list = asked[t])
  BY <1>1, <1>5, <1>6
<1> HIDE DEF list
<1>8. CommandTypeOK'
  BY <1>1, <1>3, <1>4, <1>7 DEF CommandIInv, CommandTypeOK
<1>9. WaitersWait' /\ (~stray' => MutexAgrees' /\ PrivTells')
  BY <1>1, <1>2, WritingKeeps
<1>10. PlacesAgree'
  BY <1>1, <1>2, <1>3 DEF CommandIInv, CommandTypeOK, PlacesAgree, At
<1>11. PayloadIntact'
  BY <1>1, <1>2, <1>3, <1>4, <1>7 DEF CommandIInv, CommandTypeOK, PayloadIntact, PlacesAgree, At
<1>12. DemoAlone' /\ DemoSignsItsOwn'
  BY <1>1, <1>3, QuietMeans DEF CommandIInv, CommandTypeOK, DemoAlone, DemoSignsItsOwn, At
<1> QED  BY <1>1, <1>8, <1>9, <1>10, <1>11, <1>12 DEF CommandIInv

LEMMA PointInv ==
  ASSUME CommandIInv, NEW t \in Threads, Point(t), t = "shell" => Quiet
  PROVE  CommandIInv'
<1> USE DEF CommandIInv, CommandTypeOK
<1>1. /\ At(t, "point") /\ command' = [command EXCEPT ![t] = "http"]
      /\ payload' = [payload EXCEPT ![nfo] = Known(t, @)]
      /\ pc' = [pc EXCEPT ![t] = "ready"] /\ disturbed' = Disturb(t)
      /\ UNCHANGED <<owner, lock_count, wait_q, http_ctx, result, content, priv,
                     sent, asked, rec, buf, tx, overtaken, stray>>
  BY DEF Point, Go, H!Goto
<1>2. pc[t] = "idle" /\ ~Failing(t)
  BY <1>1 DEF PlacesAgree, At, Failing
<1>3. /\ disturbed' \in [Threads -> BOOLEAN] /\ disturbed'[t] = disturbed[t]
      /\ \A u \in Threads : ~disturbed'[u] => ~disturbed[u] /\ (u # t => At(u, "none"))
      /\ \A u \in Threads : At(u, "none") /\ ~disturbed[u] => ~disturbed'[u]
  BY <1>1, DisturbMeans
<1>4. payload' \in [{nfo} -> Transactions] /\ (~disturbed[t] => payload'[nfo] = payload[nfo])
  BY <1>1 DEF Known, Transactions
<1>5. CommandTypeOK'
  BY <1>1, <1>3, <1>4 DEF H!Labels
<1>6. WaitersWait' /\ (~stray' => MutexAgrees' /\ PrivTells')
  BY <1>1, <1>2, WritingKeeps
<1>7. PlacesAgree'
  BY <1>1, <1>2, <1>3 DEF PlacesAgree, At
<1>8. PayloadIntact'
  BY <1>1, <1>2, <1>3, <1>4 DEF PayloadIntact, PlacesAgree, At
<1>9. DemoAlone' /\ DemoSignsItsOwn'
  BY <1>1, <1>3, QuietMeans DEF DemoAlone, DemoSignsItsOwn, At
<1> QED  BY <1>1, <1>5, <1>6, <1>7, <1>8, <1>9

-----------------------------------------------------------------------------
(* The steps of the HTTP client.                                             *)

\* What the mutex is after any unlock: the counts stay natural, and who waits
\* does not own it.
LEMMA UnlockTypes ==
  ASSUME CommandIInv, NEW t \in Threads, pc[t] # "lock", MutexUnlock,
         NEW l \in {"release", "idle"}, pc' = [pc EXCEPT ![t] = l]
  PROVE  /\ WaitersWait'
         /\ owner' \in Threads \cup {NoThread, Lost} /\ lock_count' \in Nat
         /\ wait_q' \subseteq Threads
<1> USE DEF CommandIInv, CommandTypeOK, WaitersWait
<1>1. CASE \E w \in H!First(wait_q) : owner' = w /\ wait_q' = wait_q \ {w} /\ lock_count' = 1
  BY <1>1 DEF H!First
<1>2. CASE UNCHANGED wait_q /\ \/ owner' = owner /\ lock_count > 1 /\ lock_count' = lock_count - 1
                               \/ owner' = Lost /\ lock_count' = lock_count
                               \/ owner' = NoThread /\ lock_count' = 0
  BY <1>2
<1> QED  BY <1>1, <1>2 DEF MutexUnlock, H!MutexUnlock

\* Unlocked by its owner, it goes to a thread that waits for it, or is free.
LEMMA UnlockKeeps ==
  ASSUME CommandIInv, MutexAgrees, NEW t \in Threads, pc[t] \in {"unlock", "reply"}, MutexUnlock,
         NEW l \in {"release", "idle"}, pc' = [pc EXCEPT ![t] = l]
  PROVE  MutexAgrees' /\ owner = t /\ owner' # Lost
<1> USE DEF CommandIInv, CommandTypeOK
<1>1. owner = t /\ lock_count = 1
  BY DEF MutexAgrees, H!CriticalHoldsMutex, H!Critical
<1>2. CASE \E w \in H!First(wait_q) : owner' = w /\ wait_q' = wait_q \ {w} /\ lock_count' = 1
  <2>1. PICK w \in wait_q : owner' = w /\ wait_q' = wait_q \ {w} /\ lock_count' = 1
    BY <1>2 DEF H!First
  <2>2. w \in Threads /\ w # t /\ pc[w] = "lock"
    BY DEF MutexAgrees, H!CriticalHoldsMutex
  <2> QED
    BY <1>1, <2>1, <2>2 DEF MutexAgrees, H!CriticalHoldsMutex, H!Critical
<1>3. CASE wait_q = {} /\ owner' = NoThread /\ lock_count' = 0 /\ wait_q' = wait_q
  BY <1>1, <1>3 DEF MutexAgrees, H!CriticalHoldsMutex, H!Critical
<1> QED  BY <1>1, <1>2, <1>3 DEF MutexUnlock, H!MutexUnlock

\* Between the call and its end
LEMMA HttpStepInv ==
  ASSUME CommandIInv, NEW t \in Threads, HttpStep(t), t = "shell" => Quiet
  PROVE  CommandIInv'
<1> USE DEF CommandIInv, CommandTypeOK, H!Labels
<1>1. /\ At(t, "http") /\ UNCHANGED <<command, rec, buf, tx, disturbed, overtaken, stray>>
      /\ pc[t] # "idle"
  BY DEF HttpStep, commandVars, PlacesAgree
<1>2. CASE H!Lock(t)
  <2> USE DEF H!Lock, H!MutexLock, H!Goto
  <2>1. pc[t] = "ready" /\ pc' = [pc EXCEPT ![t] = "lock"]
        /\ UNCHANGED <<http_ctx, result, payload, content, priv, sent, asked>>
    BY <1>2
  <2>2. CASE owner \in {t, NoThread} /\ owner' = t /\ lock_count' = lock_count + 1 /\ wait_q' = wait_q
    <3>1. CommandTypeOK' /\ WaitersWait'
      BY <1>1, <2>1, <2>2 DEF WaitersWait
    <3>2. ~stray => MutexAgrees'
      BY <1>1, <2>1, <2>2 DEF MutexAgrees, H!CriticalHoldsMutex, H!Critical, At
    <3> QED
      BY <1>1, <2>1, <3>1, <3>2 DEF PlacesAgree, PrivTells, PayloadIntact, DemoAlone, DemoSignsItsOwn, Failing, At
  <2>3. CASE owner \notin {t, NoThread} /\ wait_q' = wait_q \cup {t} /\ UNCHANGED <<owner, lock_count>>
    <3>1. CommandTypeOK' /\ WaitersWait'
      BY <1>1, <2>1, <2>3 DEF WaitersWait
    <3>2. ~stray => MutexAgrees'
      BY <1>1, <2>1, <2>3 DEF MutexAgrees, H!CriticalHoldsMutex, H!Critical, At
    <3> QED
      BY <1>1, <2>1, <3>1, <3>2 DEF PlacesAgree, PrivTells, PayloadIntact, DemoAlone, DemoSignsItsOwn, Failing, At
  <2> QED  BY <1>2, <2>2, <2>3
<1>3. CASE InitClient(t)
  <2>1. /\ pc[t] = "lock" /\ t \notin wait_q
        /\ priv' = [priv EXCEPT ![nfo] = FALSE] /\ http_ctx' \in {t, NoThread}
        /\ pc' \in {[pc EXCEPT ![t] = "connect"], [pc EXCEPT ![t] = "unlock"]}
        /\ UNCHANGED <<owner, lock_count, wait_q, result, payload, content, sent, asked>>
    BY <1>3 DEF InitClient, H!Goto
  <2>2. CommandTypeOK' /\ WaitersWait'
    BY <1>1, <2>1 DEF WaitersWait
  <2>3. ~stray => MutexAgrees' /\ owner = t
    BY <1>1, <2>1 DEF MutexAgrees, H!CriticalHoldsMutex, H!Critical, At
  <2>4. ~stray => PrivTells'
    BY <1>1, <2>1, <2>3 DEF PrivTells, MutexAgrees, H!CriticalHoldsMutex, H!Critical, Failing, At
  <2> QED
    BY <1>1, <2>1, <2>2, <2>3, <2>4 DEF PlacesAgree, PayloadIntact, DemoAlone, DemoSignsItsOwn, At
<1>4. CASE H!SendReq(t)
  <2>1. /\ pc[t] = "connect"
        /\ \/ pc' = [pc EXCEPT ![t] = "wait"] /\ sent' = [sent EXCEPT ![t] = payload[nfo]]
           \/ pc' = [pc EXCEPT ![t] = "unlock"] /\ sent' = sent
        /\ UNCHANGED <<owner, lock_count, wait_q, http_ctx, result, payload, content, priv, asked>>
    BY <1>4 DEF H!SendReq, H!Goto
  <2>2. CommandTypeOK' /\ WaitersWait'
    BY <1>1, <2>1 DEF WaitersWait
  <2>3. ~stray => MutexAgrees'
    BY <1>1, <2>1 DEF MutexAgrees, H!CriticalHoldsMutex, H!Critical, At
  <2>4. ~stray => PrivTells'
    BY <1>1, <2>1 DEF PrivTells, Failing, At
  <2> QED
    BY <1>1, <2>1, <2>2, <2>3, <2>4 DEF PlacesAgree, PayloadIntact, DemoAlone, DemoSignsItsOwn, At
<1>5. CASE H!Receive(t)
  <2>1. /\ pc[t] = "wait" /\ pc' \in {[pc EXCEPT ![t] = "reply"], [pc EXCEPT ![t] = "unlock"]}
        /\ result' \in {result, sent[t]} /\ http_ctx' \in {http_ctx, NoThread}
        /\ content' \in [{nfo} -> BOOLEAN]
        /\ \/ pc'[t] = "reply" /\ priv' = [priv EXCEPT ![nfo] = TRUE] /\ result' = sent[t]
           \/ pc'[t] = "unlock" /\ priv' = priv
        /\ UNCHANGED <<owner, lock_count, wait_q, payload, sent, asked>>
    BY <1>5 DEF H!Receive, H!GoodReply, H!BadReply, H!Timeout, H!Goto
  <2>2. CommandTypeOK' /\ WaitersWait'
    <3>1. pc' \in [Threads -> H!Labels]
      BY <2>1
    <3>2. result' \in Transactions \cup {NoPayload} /\ http_ctx' \in Threads \cup {NoThread}
      BY <2>1
    <3>3. priv' \in [{nfo} -> BOOLEAN]
      BY <2>1
    <3>4. WaitersWait'
      BY <2>1 DEF WaitersWait
    <3> QED  BY <1>1, <2>1, <3>1, <3>2, <3>3, <3>4
  <2>3. ~stray => MutexAgrees'
    BY <1>1, <2>1 DEF MutexAgrees, H!CriticalHoldsMutex, H!Critical, At
  <2>4. ~stray => PrivTells'
    BY <1>1, <2>1, QuietMeans DEF PrivTells, MutexAgrees, H!CriticalHoldsMutex, H!Critical, Failing, At
  <2> QED
    BY <1>1, <2>1, <2>2, <2>3, <2>4 DEF PlacesAgree, PayloadIntact, DemoAlone, DemoSignsItsOwn, At
<1>6. CASE UnlockOnError(t)
  <2>1. /\ pc[t] = "unlock" /\ pc' = [pc EXCEPT ![t] = "release"] /\ MutexUnlock
        /\ UNCHANGED <<http_ctx, result, payload, content, priv, sent, asked>>
    BY <1>6 DEF UnlockOnError, H!Goto
  <2>2. /\ WaitersWait' /\ owner' \in Threads \cup {NoThread, Lost} /\ lock_count' \in Nat
        /\ wait_q' \subseteq Threads
    BY <2>1, UnlockTypes
  <2>3. ~stray => MutexAgrees'
    BY <2>1, UnlockKeeps
  <2>4. CommandTypeOK'
    BY <1>1, <2>1, <2>2
  <2>5. ~stray => PrivTells'
    BY <1>1, <2>1 DEF PrivTells, Failing, At
  <2> QED
    BY <1>1, <2>1, <2>2, <2>3, <2>4, <2>5 DEF PlacesAgree, PayloadIntact, DemoAlone, DemoSignsItsOwn, At
<1> QED
  BY <1>2, <1>3, <1>4, <1>5, <1>6 DEF HttpStep

LEMMA HttpFailedInv ==
  ASSUME CommandIInv, NEW t \in Threads, HttpFailed(t)
  PROVE  CommandIInv'
<1> USE DEF CommandIInv, CommandTypeOK, H!Labels
<1>1. /\ At(t, "http") /\ command' = [command EXCEPT ![t] = "free"]
      /\ pc[t] = "release" /\ pc' = [pc EXCEPT ![t] = "idle"]
      /\ http_ctx' = NoThread
      /\ sent' = [sent EXCEPT ![t] = NoPayload] /\ asked' = [asked EXCEPT ![t] = NoPayload]
      /\ UNCHANGED <<owner, lock_count, wait_q, result, payload, content, priv, rec, buf, tx,
                     disturbed, overtaken, stray>>
  BY DEF HttpFailed, Go, H!ReleaseAfterError, H!Leave, H!Goto
<1>2. CommandTypeOK' /\ WaitersWait'
  BY <1>1 DEF WaitersWait
<1>3. ~stray => MutexAgrees'
  BY <1>1 DEF MutexAgrees, H!CriticalHoldsMutex, H!Critical, At
<1>4. ~stray => PrivTells'
  BY <1>1 DEF PrivTells, Failing, At
<1> QED
  BY <1>1, <1>2, <1>3, <1>4 DEF PlacesAgree, PayloadIntact, DemoAlone, DemoSignsItsOwn, At

-----------------------------------------------------------------------------
(* http_nfo_free(), its test and its unlock.                                  *)

\* What the end of a command leaves behind
LEMMA OverMeans ==
  ASSUME CommandIInv, NEW t \in Threads, NEW c \in {"none", "dead"}, Over(t, c)
  PROVE  /\ command' = [command EXCEPT ![t] = c]
         /\ tx' = [tx EXCEPT ![t] = Junk] /\ disturbed' = [disturbed EXCEPT ![t] = FALSE]
         /\ pc' = [pc EXCEPT ![t] = "idle"]
         /\ sent' = [sent EXCEPT ![t] = NoPayload] /\ asked' = [asked EXCEPT ![t] = NoPayload]
         /\ tx' \in [Threads -> Bodies]
  BY DEF Over, Go, H!Leave, H!Goto, Bodies, CommandIInv, CommandTypeOK

\* A place between the test of _priv and its use
LEMMA FreeTestInv ==
  ASSUME CommandIInv, NEW t \in Threads, FreeTest(t), t = "shell" => Quiet
  PROVE  CommandIInv'
<1> USE DEF CommandIInv, CommandTypeOK, H!Labels
<1>1. /\ Freeing(t)
      /\ UNCHANGED <<owner, lock_count, wait_q, http_ctx, result, payload, priv, rec, buf, stray>>
  BY DEF FreeTest
<1>2. pc[t] \in {"idle", "reply"} /\ ~At(t, "none") /\ ~At(t, "unlock")
      /\ (At(t, "free") <=> pc[t] = "idle")
  BY <1>1 DEF Freeing, PlacesAgree, At
<1>3. CASE priv[nfo]
  <2>1. /\ command' = [command EXCEPT ![t] = "unlock"]
        /\ content' = [content EXCEPT ![nfo] = FALSE]
        /\ UNCHANGED <<sent, asked, pc, tx, disturbed, overtaken>>
    BY <1>3 DEF FreeTest, Go
  <2>2. CommandTypeOK' /\ WaitersWait'
    BY <1>1, <2>1 DEF WaitersWait
  <2>3. ~stray => MutexAgrees'
    BY <1>1, <2>1 DEF MutexAgrees, H!CriticalHoldsMutex
  <2>4. \A u \in Threads : Failing(u)' => Failing(u)
    BY <1>2, <2>1 DEF Failing, At
  <2>5. ~stray /\ pc[t] = "idle" => t = "shell" /\ overtaken["shell"]
    BY <1>2, <1>3, QuietMeans DEF PrivTells, Failing
  <2>6. ~stray => PrivTells'
    BY <1>1, <1>2, <2>1, <2>4, <2>5 DEF PrivTells, Failing, At
  <2> QED
    BY <1>1, <1>2, <2>1, <2>2, <2>3, <2>6 DEF PlacesAgree, PayloadIntact, DemoAlone, DemoSignsItsOwn, At
<1>4. CASE ~priv[nfo]
  <2>1. Over(t, "none") /\ overtaken' = [overtaken EXCEPT ![t] = FALSE] /\ UNCHANGED content
    BY <1>4 DEF FreeTest
  <2>2. /\ command' = [command EXCEPT ![t] = "none"]
        /\ tx' = [tx EXCEPT ![t] = Junk] /\ disturbed' = [disturbed EXCEPT ![t] = FALSE]
        /\ pc' = [pc EXCEPT ![t] = "idle"]
        /\ sent' = [sent EXCEPT ![t] = NoPayload] /\ asked' = [asked EXCEPT ![t] = NoPayload]
        /\ tx' \in [Threads -> Bodies]
    BY <2>1, OverMeans
  <2>3. CommandTypeOK' /\ WaitersWait'
    BY <1>1, <1>2, <2>1, <2>2 DEF WaitersWait
  <2>4. ~stray => pc[t] = "idle"
    BY <1>2, <1>4 DEF PrivTells
  <2>5. ~stray => MutexAgrees'
    BY <1>1, <2>2, <2>4 DEF MutexAgrees, H!CriticalHoldsMutex, H!Critical
  <2>6. \A u \in Threads : Failing(u)' => u # t /\ Failing(u)
    BY <2>2 DEF Failing, At
  <2>7. ~stray => PrivTells'
    BY <1>1, <1>4, <2>1, <2>2, <2>6 DEF PrivTells, At
  <2> QED
    BY <1>1, <1>2, <2>1, <2>2, <2>3, <2>5, <2>7 DEF PlacesAgree, PayloadIntact, DemoAlone, DemoSignsItsOwn, At
<1> QED  BY <1>3, <1>4

\* As long as no unlock has gone astray, a thread unlocks after the test for its
\* own reply; or it is the shell, overtaken, and the mutex is not its own.
LEMMA FreeUnlockFinds ==
  ASSUME CommandIInv, NEW t \in Threads, At(t, "unlock"), ~stray
  PROVE  \/ pc[t] = "reply" /\ owner = t /\ lock_count = 1 /\ priv[nfo]
         \/ pc[t] = "idle" /\ t = "shell" /\ overtaken["shell"] /\ owner # t
<1> USE DEF CommandIInv, CommandTypeOK
<1>1. CASE pc[t] = "reply"
  BY <1>1 DEF MutexAgrees, H!CriticalHoldsMutex, H!Critical, PrivTells
<1>2. CASE pc[t] = "idle"
  BY <1>2 DEF PrivTells, Failing, MutexAgrees, H!Critical
<1> QED  BY <1>1, <1>2 DEF PlacesAgree

\* If another call has just failed it is overtaken by the reply that is freed, and
\* that one is the shell's.  The shell, overtaken, unlocks a mutex nobody holds --
\* or, and that is a stray unlock, somebody does.
LEMMA FreeUnlockInv ==
  ASSUME CommandIInv, NEW t \in Threads, FreeUnlock(t), t = "shell" => Quiet
  PROVE  CommandIInv'
<1> USE DEF CommandIInv, CommandTypeOK, H!Labels
<1>1. /\ At(t, "unlock") /\ pc[t] \in {"idle", "reply"}
      /\ UNCHANGED <<http_ctx, result, payload, content, priv, rec, buf>>
  BY DEF FreeUnlock, PlacesAgree
<1>2. PICK c \in {"none", "dead"} : Over(t, c)
  BY DEF FreeUnlock
<1>3. /\ command' = [command EXCEPT ![t] = c]
      /\ tx' = [tx EXCEPT ![t] = Junk] /\ disturbed' = [disturbed EXCEPT ![t] = FALSE]
      /\ pc' = [pc EXCEPT ![t] = "idle"]
      /\ sent' = [sent EXCEPT ![t] = NoPayload] /\ asked' = [asked EXCEPT ![t] = NoPayload]
      /\ tx' \in [Threads -> Bodies]
  BY <1>2, OverMeans
<1>4. /\ WaitersWait' /\ owner' \in Threads \cup {NoThread, Lost} /\ lock_count' \in Nat
      /\ wait_q' \subseteq Threads
  <2>1. CASE MutexUnlock
    BY <1>1, <1>3, <2>1, UnlockTypes
  <2>2. CASE UNCHANGED <<owner, lock_count, wait_q>>
    BY <1>1, <1>3, <2>2 DEF WaitersWait
  <2> QED  BY <2>1, <2>2 DEF FreeUnlock
<1>5. /\ stray' \in BOOLEAN
      /\ ~stray' => ~stray /\ MutexUnlock /\ owner \notin Threads \ {t}
  BY DEF FreeUnlock
<1>6. /\ overtaken' \in [Threads -> BOOLEAN] /\ ~overtaken'["demo"]
      /\ pc[t] = "reply" => \A u \in Threads : overtaken'[u] <=> (overtaken[u] \/ (u # t /\ Failing(u)))
      /\ pc[t] = "idle" => \A u \in Threads : overtaken'[u] <=> (u # t /\ overtaken[u])
  <2>1. CASE pc[t] = "reply"
    BY <2>1, QuietMeans DEF FreeUnlock, Failing
  <2>2. CASE pc[t] = "idle"
    BY <2>2 DEF FreeUnlock
  <2> QED  BY <1>1, <2>1, <2>2
<1>7. CommandTypeOK'
  BY <1>1, <1>3, <1>4, <1>5, <1>6
<1>8. ASSUME ~stray'
      PROVE  MutexAgrees' /\ PrivTells'
  <2>1. \A u \in Threads : Failing(u)' => u # t /\ Failing(u)
    BY <1>3 DEF Failing, At
  <2>2. CASE pc[t] = "reply" /\ owner = t
    <3>1. MutexAgrees'
      BY <1>3, <1>5, <1>8, <2>2, UnlockKeeps
    <3>2. \A u \in Threads \ {t} : pc[u] \notin {"connect", "wait", "unlock", "reply"}
      BY <1>5, <1>8, <2>2 DEF MutexAgrees, H!CriticalHoldsMutex, H!Critical
    <3>3. PrivTells'
      BY <1>1, <1>3, <1>5, <1>6, <1>8, <2>1, <2>2, <3>2, QuietMeans DEF PrivTells, At
    <3> QED  BY <3>1, <3>3
  <2>3. CASE pc[t] = "idle" /\ t = "shell" /\ owner # t
    <3>1. owner \notin Threads /\ lock_count = 0
      BY <1>5, <1>8, <2>3 DEF MutexAgrees
    <3>2. owner' = Lost /\ lock_count' = 0 /\ wait_q' = wait_q
      BY <1>5, <1>8, <3>1 DEF MutexUnlock, H!MutexUnlock
    <3>3. \A u \in Threads : pc'[u] \notin H!Critical /\ pc'[u] = pc[u]
      BY <1>3, <1>5, <1>8, <2>3, <3>1 DEF MutexAgrees, H!CriticalHoldsMutex, H!Critical
    <3>4. MutexAgrees'
      BY <1>5, <1>8, <3>1, <3>2, <3>3 DEF MutexAgrees, H!CriticalHoldsMutex, H!Critical
    <3>5. PrivTells'
      BY <1>1, <1>3, <2>1, <2>3, <3>3, QuietMeans DEF PrivTells, H!Critical
    <3> QED  BY <3>4, <3>5
  <2> QED  BY <1>1, <1>5, <1>8, <2>2, <2>3, FreeUnlockFinds
<1> QED
  BY <1>1, <1>3, <1>4, <1>6, <1>7, <1>8 DEF PlacesAgree, PayloadIntact, DemoAlone, DemoSignsItsOwn, At

-----------------------------------------------------------------------------
(* The threads.                                                              *)

LEMMA BlockedMeansQuiet ==
  ASSUME DemoBlocked
  PROVE  Quiet
  BY DEF DemoBlocked, Quiet

LEMMA CommandInv ==
  ASSUME SawtoothIInv, NEW t \in Threads, Command(t), t = "shell" => Quiet
  PROVE  SawtoothIInv'
<1>1. CommandIInv'
  BY SignTxInv, EncodeListInv, PointInv, HttpStepInv, HttpFailedInv, FreeTestInv,
     FreeUnlockInv DEF Command, SawtoothIInv
<1>2. UNCHANGED <<thread_sem, exit_sem, interval, shell, demo>>
  BY DEF Command, demoVars
<1>3. At("demo", "none") => t # "demo"
  <2>1. ~At(t, "none")
    BY DEF Command, SignTx, EncodeList, Point, HttpStep, HttpFailed, FreeTest, FreeUnlock, Freeing, At
  <2> QED  BY <2>1
<1>4. At("demo", "none") => At("demo", "none")'
  <2>1. command' = command \/ \E c : command' = [command EXCEPT ![t] = c]
    BY DEF Command, SignTx, EncodeList, Point, HttpStep, HttpFailed, FreeTest, FreeUnlock,
       Go, Over, commandVars
  <2> QED  BY <1>3, <2>1 DEF At, SawtoothIInv, CommandIInv, CommandTypeOK
<1> QED
  BY <1>1, <1>2, <1>4 DEF SawtoothIInv, DemoTypeOK, DemoAgrees

\* Steps that leave the commands alone
LEMMA OutsideKeeps ==
  ASSUME CommandIInv, UNCHANGED <<httpVars, command, buf, tx, disturbed, overtaken, stray>>,
         rec' \in Threads
  PROVE  CommandIInv'
  BY DEF CommandIInv, CommandTypeOK, PlacesAgree, WaitersWait, MutexAgrees, PrivTells, PayloadIntact,
     DemoAlone, DemoSignsItsOwn, H!CriticalHoldsMutex, Failing, At, httpVars

LEMMA DemoInv ==
  ASSUME SawtoothIInv, Demo
  PROVE  SawtoothIInv'
<1> USE DEF SawtoothIInv, DemoTypeOK, DemoAgrees
<1>1. CASE Command("demo")
  BY <1>1, CommandInv
<1>2. CASE DemoAgent \/ DemoSend
  <2>1. PICK whose \in Threads \cup {"none"} : EncodePayload("demo", whose)
    BY <1>2 DEF DemoAgent, DemoSend, CommandIInv, CommandTypeOK
  <2>2. CommandIInv'
    BY <2>1, EncodePayloadInv
  <2> QED  BY <1>2, <2>2 DEF DemoAgent, DemoSend, DemoIdle
<1>3. CASE DemoRecord
  <2>1. CommandIInv'
    BY <1>3, OutsideKeeps DEF DemoRecord
  <2>2. UNCHANGED command
    BY <1>3 DEF DemoRecord
  <2> QED  BY <1>3, <2>1, <2>2 DEF DemoRecord, DemoIdle, At
<1>4. CASE DemoEnter \/ DemoWait \/ DemoWake \/ DemoSignal \/ DemoLeave \/ DemoEnd
  <2>1. UNCHANGED <<httpVars, command, rec, buf, tx, disturbed, overtaken, stray>>
    BY <1>4 DEF DemoEnter, DemoWait, DemoWake, DemoSignal, DemoLeave, DemoEnd, commandVars
  <2>2. CommandIInv'
    BY <2>1, OutsideKeeps DEF CommandIInv, CommandTypeOK
  <2>3. CASE DemoEnter
    BY <2>1, <2>2, <2>3 DEF DemoEnter, At
  <2>4. CASE DemoWait
    BY <2>1, <2>2, <2>4 DEF DemoWait, DemoIdle, At
  <2>8. CASE DemoWake
    BY <2>1, <2>2, <2>8 DEF DemoWake, DemoIdle, At
  <2>5. CASE DemoSignal
    BY <2>1, <2>2, <2>5 DEF DemoSignal, Given, At
  <2>6. CASE DemoLeave
    BY <2>1, <2>2, <2>6 DEF DemoLeave, Given, At
  <2>7. CASE DemoEnd
    BY <2>1, <2>2, <2>7 DEF DemoEnd, At
  <2> QED  BY <1>4, <2>3, <2>4, <2>5, <2>6, <2>7, <2>8
<1> QED  BY <1>1, <1>2, <1>3, <1>4 DEF Demo

LEMMA ShellInv ==
  ASSUME SawtoothIInv, ShellWork \/ ShellSend \/ ShellRecord \/ DemoStart \/ DemoStop
  PROVE  SawtoothIInv'
<1> USE DEF SawtoothIInv, DemoTypeOK, DemoAgrees
<1>1. CASE DemoBlocked /\ Command("shell")
  BY <1>1, CommandInv, BlockedMeansQuiet
<1>2. CASE ShellSend
  <2>1. PICK whose \in Threads \cup {"none"} : EncodePayload("shell", whose)
    BY <1>2 DEF ShellSend, CommandIInv, CommandTypeOK
  <2>2. CommandIInv'
    BY <1>2, <2>1, EncodePayloadInv, BlockedMeansQuiet DEF ShellSend, ShellAt
  <2>3. command'["demo"] = command["demo"]
    BY <2>1 DEF EncodePayload, Go, CommandIInv, CommandTypeOK
  <2> QED  BY <1>2, <2>2, <2>3 DEF ShellSend, demoVars, At
<1>3. CASE ShellRecord
  <2>1. CommandIInv'
    BY <1>3, OutsideKeeps DEF ShellRecord
  <2> QED  BY <1>3, <2>1 DEF ShellRecord, demoVars, At
<1>4. CASE DemoStart \/ DemoStop \/ DemoCreate \/ StopSignal \/ StopJoin \/ StopReset
  <2>1. UNCHANGED <<httpVars, command, rec, buf, tx, disturbed, overtaken, stray>> /\ DemoBlocked
    BY <1>4 DEF DemoStart, DemoStop, DemoCreate, StopSignal, StopJoin, StopReset, ShellGo, ShellAt,
       commandVars
  <2>2. CommandIInv'
    BY <2>1, OutsideKeeps DEF CommandIInv, CommandTypeOK
  <2>3. demo # "dying"
    BY <2>1 DEF DemoBlocked
  <2>4. CASE DemoStart \/ DemoStop
    BY <2>1, <2>2, <2>4 DEF DemoStart, DemoStop, ShellGo, ShellAt, At
  <2>5. CASE DemoCreate
    BY <2>1, <2>2, <2>3, <2>5 DEF DemoCreate, ShellAt, At
  <2>6. CASE StopSignal
    BY <2>1, <2>2, <2>3, <2>6 DEF StopSignal, ShellGo, ShellAt, Given, At
  <2>7. CASE StopJoin
    BY <2>1, <2>2, <2>3, <2>7 DEF StopJoin, ShellGo, ShellAt, At
  <2>8. CASE StopReset
    BY <2>1, <2>2, <2>3, <2>8 DEF StopReset, ShellGo, ShellAt, At
  <2> QED  BY <1>4, <2>4, <2>5, <2>6, <2>7, <2>8
<1> QED  BY <1>1, <1>2, <1>3, <1>4 DEF ShellWork

LEMMA NextIInv == SawtoothIInv /\ [SawtoothNext]_sawtoothVars => SawtoothIInv'
<1> SUFFICES ASSUME SawtoothIInv, [SawtoothNext]_sawtoothVars PROVE SawtoothIInv'
  OBVIOUS
<1>1. CASE SawtoothNext
  BY <1>1, DemoInv, ShellInv DEF SawtoothNext
<1>2. CASE UNCHANGED sawtoothVars
  <2>1. UNCHANGED <<httpVars, command, rec, buf, tx, disturbed, overtaken, stray, thread_sem,
                    exit_sem, interval, shell, demo>>
    BY <1>2 DEF sawtoothVars, commandVars, demoVars
  <2>2. CommandIInv'
    BY <2>1, OutsideKeeps DEF SawtoothIInv, CommandIInv, CommandTypeOK
  <2> QED  BY <2>1, <2>2 DEF SawtoothIInv, DemoTypeOK, DemoAgrees, At
<1> QED  BY <1>1, <1>2

-----------------------------------------------------------------------------
\* The invariant holds in every reachable state of the st commands, the demo
\* thread and the HTTP client they share: the places and the payloads always, the
\* mutex, lost or not, and _priv until an unlock goes astray.
THEOREM SawtoothInvariance == SawtoothSpec => []SawtoothIInv
  BY InitIInv, NextIInv, PTL DEF SawtoothSpec

\* A command whose _buf the other thread did not touch sends its own transaction,
\* and gets the reply to it until an unlock goes astray.
THEOREM OwnTransactionSent == SawtoothSpec => []UndisturbedSent
<1>1. SawtoothIInv => UndisturbedSent
  BY DEF SawtoothIInv, CommandIInv, PayloadIntact, PrivTells, UndisturbedSent
<1> QED  BY <1>1, SawtoothInvariance, PTL

\* The demo thread signs the payload it has just encoded.
THEOREM OwnPayloadSigned == SawtoothSpec => []DemoSignsItsOwn
<1>1. SawtoothIInv => DemoSignsItsOwn
  BY DEF SawtoothIInv, CommandIInv
<1> QED  BY <1>1, SawtoothInvariance, PTL

LEMMA LostStep ==
  ASSUME SawtoothIInv, SawtoothNext, (owner # Lost /\ owner' = Lost) \/ (~stray /\ stray')
  PROVE  overtaken["shell"] \/ stray
<1> USE DEF SawtoothIInv
<1>1. SUFFICES ASSUME ~stray PROVE overtaken["shell"]
  OBVIOUS
<1>2. PICK t \in Threads : Command(t)
  <2>1. Demo \/ ShellWork \/ ShellSend \/ ShellRecord \/ DemoStart \/ DemoStop
    BY DEF SawtoothNext
  <2>2. \/ Command("demo") \/ Command("shell")
        \/ UNCHANGED <<owner, stray>>
    BY <2>1 DEF Demo, ShellWork, ShellSend, ShellRecord, DemoStart, DemoStop, DemoEnter,
       DemoAgent, DemoRecord, DemoSend, DemoWait, DemoWake, DemoSignal, DemoLeave, DemoEnd, DemoCreate,
       StopSignal, StopJoin, StopReset, ShellGo, EncodePayload, httpVars, commandVars
  <2> QED  BY <2>2
<1>3. CASE SignTx(t) \/ EncodeList(t) \/ Point(t) \/ HttpFailed(t) \/ FreeTest(t)
  BY <1>3 DEF SignTx, EncodeList, Point, HttpFailed, H!ReleaseAfterError, FreeTest
<1>4. CASE HttpStep(t)
  <2>1. UNCHANGED stray
    BY <1>4 DEF HttpStep, commandVars
  <2>2. CASE UnlockOnError(t)
    <3>1. MutexUnlock /\ pc[t] = "unlock" /\ pc' = [pc EXCEPT ![t] = "release"]
      BY <2>2 DEF UnlockOnError, H!Goto
    <3>2. owner' # Lost
      BY <1>1, <3>1, UnlockKeeps DEF CommandIInv
    <3> QED  BY <2>1, <3>2
  <2>3. CASE ~UnlockOnError(t)
    <3>1. owner' \in {owner, t}
      BY <1>4, <2>3 DEF HttpStep, H!Lock, H!MutexLock, InitClient, H!SendReq, H!Receive, H!GoodReply,
         H!BadReply, H!Timeout
    <3> QED  BY <2>1, <3>1
  <2> QED  BY <2>2, <2>3
<1>5. CASE FreeUnlock(t)
  <2>1. At(t, "unlock")
    BY <1>5 DEF FreeUnlock
  <2>2. CASE pc[t] = "reply" /\ owner = t /\ lock_count = 1 /\ priv[nfo]
    <3>1. MutexUnlock /\ stray' = (stray \/ owner \in Threads \ {t}) /\ Over(t, "none")
      BY <1>5, <2>2 DEF FreeUnlock
    <3>2. pc' = [pc EXCEPT ![t] = "idle"]
      BY <3>1, OverMeans
    <3>3. owner' # Lost
      BY <1>1, <2>2, <3>1, <3>2, UnlockKeeps DEF CommandIInv
    <3> QED  BY <1>1, <2>2, <3>1, <3>3
  <2> QED  BY <1>1, <2>1, <2>2, FreeUnlockFinds
<1> QED  BY <1>2, <1>3, <1>4, <1>5 DEF Command

\* Until http_nfo_free() unlocks the mutex of another thread, or NULL, every thread
\* inside the client owns the mutex.  It does that, or unlocks a mutex nobody holds,
\* only after a failure of the shell's call, and when the demo thread has succeeded
\* in the meantime; the demo thread is never the one overtaken.
THEOREM LostOvertaken == SawtoothSpec => LostOnlyIfOvertaken
<1>1. SawtoothIInv => ~overtaken["demo"] /\ (~stray => H!CriticalHoldsMutex)
  BY DEF SawtoothIInv, CommandIInv, MutexAgrees
<1>2. SawtoothIInv /\ [SawtoothNext]_sawtoothVars =>
        [(owner # Lost /\ owner' = Lost) \/ (~stray /\ stray')
           => overtaken["shell"] \/ stray]_sawtoothVars
  BY LostStep
<1> QED  BY <1>1, <1>2, SawtoothInvariance, PTL DEF SawtoothSpec, LostOnlyIfOvertaken

\* sc_demo start and stop do what the headers of the two services promise.
LEMMA PromiseStep ==
  ASSUME SawtoothIInv, [SawtoothNext]_sawtoothVars
  PROVE  [Promise!Next]_<<demo # "none", shell \in {"stop_wait", "stop_reset"}>>
<1> USE DEF SawtoothIInv, DemoTypeOK, DemoAgrees, Promise!Next
<1>1. CASE DemoCreate
  BY <1>1 DEF DemoCreate, ShellAt, DemoBlocked, Promise!Start
<1>2. CASE StopSignal
  BY <1>2 DEF StopSignal, ShellGo, ShellAt, Promise!Ask
<1>3. CASE DemoEnd
  BY <1>3 DEF DemoEnd, Promise!End
<1>4. CASE StopReset
  BY <1>4 DEF StopReset, ShellGo, ShellAt, Promise!Return
<1>5. CASE \/ DemoEnter \/ DemoAgent \/ DemoRecord \/ DemoSend \/ DemoWait \/ DemoWake
           \/ DemoSignal \/ DemoLeave \/ Command("demo")
  BY <1>5 DEF DemoEnter, DemoAgent, DemoRecord, DemoSend, DemoWait, DemoWake, DemoSignal, DemoLeave,
     DemoIdle, Command, demoVars
<1>6. CASE StopJoin \/ Command("shell") \/ ShellSend \/ ShellRecord \/ DemoStart \/ DemoStop
  BY <1>6 DEF StopJoin, ShellSend, ShellRecord, DemoStart, DemoStop, Command, demoVars, ShellGo,
     ShellAt
<1>7. CASE UNCHANGED sawtoothVars
  BY <1>7 DEF sawtoothVars, demoVars
<1> QED
  BY <1>1, <1>2, <1>3, <1>4, <1>5, <1>6, <1>7 DEF SawtoothNext, Demo, ShellWork

\* sc_demo start and stop implement the abstract start-and-stop service: one
\* demo thread, ended only by a stop, and a stop that returns when it is gone.
THEOREM DemoServiceImplemented == SawtoothSpec => DemoImplementsService
<1>1. SawtoothInit => Promise!Init
  BY DEF SawtoothInit, Promise!Init
<1>2. SawtoothIInv /\ [SawtoothNext]_sawtoothVars =>
        [Promise!Next]_<<demo # "none", shell \in {"stop_wait", "stop_reset"}>>
  BY PromiseStep
<1> QED
  BY <1>1, <1>2, SawtoothInvariance, PTL DEF SawtoothSpec, DemoImplementsService, Promise!Spec

-----------------------------------------------------------------------------
(* The sensor pair.                                                         *)

USE SensorAssumption

Numbers == 0 .. MaxSamples
Readings == [err : BOOLEAN, temp : Numbers, humidity : Numbers, latest : Numbers]

LEMMA SensorInitIInv == SensorInit => SensorIInv
<1> SUFFICES ASSUME SensorInit PROVE SensorIInv
  OBVIOUS
<1>1. Nothing \in Readings
  BY DEF Nothing, Reading, Readings, Numbers
<1>2. SensorTypeOK
  <2>1. got \in [Readers -> Readings]
    BY <1>1 DEF SensorInit
  <2>2. last_err \in BOOLEAN /\ sensor \in {"fetch", "temp", "humidity", "sleep"}
        /\ get \in {"idle", "temp", "humidity"}
    BY Zenon DEF SensorInit
  <2>3. {temp, humidity, fetched} \subseteq 0 .. MaxSamples
    BY DEF SensorInit
  <2> QED  BY <2>1, <2>2, <2>3 DEF SensorTypeOK, Readings, Numbers
<1>3. HalfASampleLate /\ WholeAtEqualPriority /\ PairOf /\ get = "idle"
  BY DEF SensorInit, HalfASampleLate, WholeAtEqualPriority, PairOf, Nothing, Reading, Readers
<1> QED  BY <1>2, <1>3 DEF SensorIInv

\* A step of the sensor thread leaves what was read as it is.
LEMMA ThreadStep ==
  ASSUME SensorIInv, Fetch \/ GetTemp \/ GetHumidity \/ Wake
  PROVE  SensorIInv'
<1>1. UNCHANGED <<get, got>>
  BY DEF Fetch, GetTemp, GetHumidity, Wake
<1>2. last_err' \in BOOLEAN
  BY Zenon DEF Fetch, GetTemp, GetHumidity, Wake, SensorIInv, SensorTypeOK
<1>3. temp' \in Numbers /\ humidity' \in Numbers /\ fetched' \in Numbers
      /\ sensor' \in {"fetch", "temp", "humidity", "sleep"}
      /\ PairOf' /\ humidity' >= humidity
  <2> SUFFICES ASSUME temp \in Numbers, humidity \in Numbers, fetched \in Numbers, PairOf
               PROVE  <1>3!:
    BY DEF SensorIInv, SensorTypeOK, Numbers
  <2>1. CASE Fetch
    BY <2>1 DEF Fetch, PairOf, Numbers
  <2>2. CASE GetTemp
    BY <2>2 DEF GetTemp, PairOf, Numbers
  <2>3. CASE GetHumidity
    BY <2>3 DEF GetHumidity, PairOf, Numbers
  <2>4. CASE Wake
    BY <2>4 DEF Wake, PairOf, Numbers
  <2> QED  BY <2>1, <2>2, <2>3, <2>4
<1>4. SensorTypeOK'
  BY <1>1, <1>2, <1>3 DEF SensorIInv, SensorTypeOK, Numbers
<1>5. HalfASampleLate' /\ WholeAtEqualPriority'
  BY <1>1 DEF SensorIInv, HalfASampleLate, WholeAtEqualPriority
<1>6. get' = "humidity" => got'["shell"].temp = got'["shell"].latest
                           /\ got'["shell"].temp <= humidity'
  <2> DEFINE t == got["shell"].temp
  <2>1. t \in Numbers /\ humidity \in Numbers
    BY DEF SensorIInv, SensorTypeOK, Readers, Numbers
  <2>2. get = "humidity" => t = got["shell"].latest /\ t <= humidity
    BY DEF SensorIInv
  <2> QED  BY <1>1, <1>3, <2>1, <2>2 DEF Numbers
<1> QED  BY <1>3, <1>4, <1>5, <1>6 DEF SensorIInv

\* get_sensor_data() reads the pair between two steps of the thread.
LEMMA ReadStep ==
  ASSUME SensorIInv, NEW r \in {"upload", "lwm2m"}, ReadAll(r)
  PROVE  SensorIInv'
<1> DEFINE now == Reading(last_err, temp, humidity, fetched)
<1>1. got' = [got EXCEPT ![r] = now]
      /\ UNCHANGED <<last_err, temp, humidity, fetched, sensor, get>>
  BY DEF ReadAll
<1>2. now.temp \in {now.latest, now.latest - 1} /\ now.humidity \in {now.temp, now.temp - 1}
      /\ now.humidity >= now.latest - 1
  BY DEF SensorIInv, SensorTypeOK, PairOf, Reading
<1>3. r = "lwm2m" => now.temp = now.latest /\ now.humidity = now.latest
  BY DEF SensorIInv, PairOf, ReadAll, SensorBlocked, Reading
<1>4. now \in Readings
  BY DEF SensorIInv, SensorTypeOK, Readings, Reading, Numbers
<1> HIDE DEF now
<1>5. SensorTypeOK'
  BY <1>1, <1>4 DEF SensorIInv, SensorTypeOK, Readers, Readings, Numbers
<1>6. got'[r] = now /\ \A q \in Readers \ {r} : got'[q] = got[q]
  BY <1>1 DEF SensorIInv, SensorTypeOK, Readers
<1>7. HalfASampleLate'
  BY <1>1, <1>2, <1>6 DEF SensorIInv, HalfASampleLate, Readers
<1>8. WholeAtEqualPriority'
  BY <1>1, <1>3, <1>6 DEF SensorIInv, WholeAtEqualPriority, Readers
<1> QED
  BY <1>1, <1>5, <1>6, <1>7, <1>8 DEF SensorIInv, PairOf, Readers

\* What a step of sensor_get() leaves in got.
LEMMA ShellWrites ==
  ASSUME got \in [Readers -> Readings], NEW r \in Readings,
         got' = [got EXCEPT !["shell"] = r]
  PROVE  /\ got' \in [Readers -> Readings]
         /\ got'["shell"] = r
         /\ got'["upload"] = got["upload"] /\ got'["lwm2m"] = got["lwm2m"]
BY DEF Readers

LEMMA ReadingType ==
  ASSUME NEW e \in BOOLEAN, NEW t \in Numbers, NEW h \in Numbers, NEW l \in Numbers
  PROVE  Reading(e, t, h, l) \in Readings
BY DEF Reading, Readings

\* The shell reads one variable at a time, with the thread blocked.
LEMMA ShellStep ==
  ASSUME SensorIInv, ShellErr \/ ShellTemp \/ ShellHumidity
  PROVE  SensorIInv'
<1> DEFINE s == got["shell"]
           e == s.err
<1>1. UNCHANGED <<last_err, temp, humidity, fetched, sensor>> /\ SensorBlocked
  BY DEF ShellErr, ShellTemp, ShellHumidity
<1>2. temp = fetched /\ humidity = fetched /\ fetched \in Numbers
      /\ temp \in Numbers /\ humidity \in Numbers /\ 0 \in Numbers
  BY <1>1 DEF SensorIInv, SensorTypeOK, PairOf, SensorBlocked, Numbers
<1>3. got \in [Readers -> Readings]
  BY DEF SensorIInv, SensorTypeOK, Numbers, Readings
<1>4. last_err \in BOOLEAN
  BY DEF SensorIInv, SensorTypeOK
<1>5. e \in BOOLEAN /\ s.temp \in Numbers /\ s.latest \in Numbers
  BY <1>3 DEF Readings, Readers
<1>6. PICK r \in Readings :
        /\ got' = [got EXCEPT !["shell"] = r]
        /\ get' = "humidity" => r.temp = r.latest /\ r.temp <= humidity
        /\ get' = "idle" /\ ~r.err => r.temp = r.latest /\ r.humidity >= r.temp
        /\ get' \in {"idle", "temp", "humidity"}
  <2>1. CASE ShellErr
    <3> DEFINE r == Reading(last_err, 0, 0, 0)
    <3>1. got' = [got EXCEPT !["shell"] = r]
      BY <2>1 DEF ShellErr
    <3>2. get' = "idle" \/ get' = "temp"
      BY <2>1 DEF ShellErr
    <3>3. r \in Readings
      BY <1>2, <1>4, ReadingType
    <3>4. r.temp = 0 /\ r.latest = 0 /\ r.humidity = 0
      BY DEF Reading
    <3>5. get' = "idle" => r.err
      BY <2>1 DEF ShellErr, Reading
    <3> HIDE DEF r
    <3> WITNESS r \in Readings
    <3> QED  BY <3>1, <3>2, <3>3, <3>4, <3>5
  <2>2. CASE ShellTemp
    <3> DEFINE r == Reading(e, temp, 0, fetched)
    <3>1. got' = [got EXCEPT !["shell"] = r] /\ get' = "humidity"
      BY <2>2 DEF ShellTemp
    <3>2. r \in Readings
      BY <1>2, <1>5, ReadingType
    <3>3. r.temp = temp /\ r.latest = fetched
      BY DEF Reading
    <3> HIDE DEF r
    <3> WITNESS r \in Readings
    <3> QED  BY <1>2, <3>1, <3>2, <3>3 DEF Numbers
  <2>3. CASE ShellHumidity
    <3> DEFINE r == Reading(e, s.temp, humidity, s.latest)
    <3>1. got' = [got EXCEPT !["shell"] = r] /\ get' = "idle" /\ get = "humidity"
      BY <2>3 DEF ShellHumidity
    <3>2. r \in Readings
      BY <1>2, <1>5, ReadingType
    <3>3. r.temp = s.temp /\ r.latest = s.latest /\ r.humidity = humidity
      BY DEF Reading
    <3>4. s.temp = s.latest /\ s.temp <= humidity
      BY <3>1 DEF SensorIInv
    <3> HIDE DEF r
    <3> WITNESS r \in Readings
    <3> QED  BY <1>2, <1>5, <3>1, <3>2, <3>3, <3>4 DEF Numbers
  <2> QED  BY <2>1, <2>2, <2>3
<1>7. /\ got' \in [Readers -> Readings]
      /\ got'["shell"] = r
      /\ got'["upload"] = got["upload"] /\ got'["lwm2m"] = got["lwm2m"]
  BY <1>3, <1>6, ShellWrites, Zenon
<1>8. SensorTypeOK'
  BY <1>1, <1>6, <1>7 DEF SensorIInv, SensorTypeOK, Readings, Numbers
<1>9. HalfASampleLate' /\ WholeAtEqualPriority'
  BY <1>6, <1>7 DEF SensorIInv, HalfASampleLate, WholeAtEqualPriority
<1> QED
  BY <1>1, <1>6, <1>7, <1>8, <1>9 DEF SensorIInv, PairOf

\* How far temperature and humidity are apart, in every reachable state of
\* sensor_service.c.
THEOREM SensorInvariance == SensorSpec => []SensorIInv
<1>1. SensorIInv /\ [SensorNext]_sensorVars => SensorIInv'
  <2> SUFFICES ASSUME SensorIInv, [SensorNext]_sensorVars PROVE SensorIInv'
    OBVIOUS
  <2>1. CASE UNCHANGED sensorVars
    BY <2>1 DEF sensorVars, SensorIInv, SensorTypeOK, PairOf, HalfASampleLate,
                WholeAtEqualPriority
  <2> QED
    BY <2>1, ThreadStep, ReadStep, ShellStep DEF SensorNext
<1> QED  BY <1>1, SensorInitIInv, PTL DEF SensorSpec

\* What the upload thread sends is at most half a sample late, and the LwM2M
\* thread, of the sensor thread's priority, gets whole samples.
THEOREM Fresh == SensorSpec => []PairsFresh
<1>1. SensorIInv => PairsFresh
  BY DEF SensorIInv, PairsFresh
<1> QED  BY <1>1, SensorInvariance, PTL

-----------------------------------------------------------------------------
(* The time synchronisation, and the three together.                        *)

\* A callback only comes while the shell waits for one: NoLateCallback needs
\* no more than its own types to be inductive, as sntp_close() is the one way
\* out of shell_sntp_sync() after the request is sent.
SntpIInv == SntpTypeOK /\ NoLateCallback

LEMMA SntpInitIInv == SntpInit => SntpIInv
BY DEF SntpInit, SntpIInv, SntpTypeOK, NoLateCallback

LEMMA SntpNextIInv == SntpIInv /\ [SntpNext]_sntpVars => SntpIInv'
<1> SUFFICES ASSUME SntpIInv, [SntpNext]_sntpVars PROVE SntpIInv'
  OBVIOUS
<1> USE DEF SntpIInv, SntpTypeOK, NoLateCallback
<1>1. CASE Open
  BY <1>1 DEF Open
<1>2. CASE SendRequest
  BY <1>2 DEF SendRequest
<1>3. CASE TakeAnswer
  BY <1>3 DEF TakeAnswer
<1>4. CASE Close
  BY <1>4 DEF Close
<1>5. CASE Callback
  BY <1>5 DEF Callback
<1>6. CASE Lose
  BY <1>6 DEF Lose
<1>7. CASE UNCHANGED sntpVars
  BY <1>7 DEF sntpVars
<1> QED
  BY <1>1, <1>2, <1>3, <1>4, <1>5, <1>6, <1>7 DEF SntpNext, SntpShell, SntpNet

-----------------------------------------------------------------------------
\* Every behaviour of the device is one of each of its services.
LEMMA EachForItself ==
  Spec => /\ SensorSpec
          /\ SntpInit /\ [][SntpNext]_sntpVars
          /\ SawtoothSpec
<1>1. Init => SensorInit /\ SntpInit /\ SawtoothInit
  BY DEF Init
<1>2. [Next]_vars => [SensorNext]_sensorVars /\ [SntpNext]_sntpVars
                     /\ [SawtoothNext]_sawtoothVars
  <2> SUFFICES ASSUME [Next]_vars
               PROVE  [SensorNext]_sensorVars /\ [SntpNext]_sntpVars
                      /\ [SawtoothNext]_sawtoothVars
    OBVIOUS
  <2>1. CASE SensorNext /\ Only("sensor", <<sntpVars, sawtoothVars>>)
    BY <2>1, Zenon DEF Only
  <2>2. CASE SntpNext /\ Only("sntp", <<sensorVars, sawtoothVars>>)
    BY <2>2, Zenon DEF Only
  <2>3. CASE SawtoothNext /\ Only("sawtooth", <<sensorVars, sntpVars>>)
    BY <2>3, Zenon DEF Only
  <2>4. CASE UNCHANGED vars
    BY <2>4, Zenon DEF vars
  <2> QED  BY <2>1, <2>2, <2>3, <2>4 DEF Next
<1> QED  BY <1>1, <1>2, PTL DEF Spec, SensorSpec, SawtoothSpec

LEMMA SntpInvariance == Spec => []SntpIInv
BY EachForItself, SntpInitIInv, SntpNextIInv, PTL

\* Every variable of the sensor, of the time synchronisation and of the supply
\* chain example keeps to its values, the semaphores and the mutex included.
THEOREM DeviceTypeCorrect == Spec => []TypeOK
<1>1. SensorIInv => SensorTypeOK
  BY DEF SensorIInv
<1>2. SntpIInv => SntpTypeOK
  BY DEF SntpIInv
<1>3. SawtoothIInv => SawtoothTypeOK
  BY DEF SawtoothIInv, CommandIInv, SawtoothTypeOK
<1>4. SensorIInv /\ SntpIInv /\ SawtoothIInv => TypeOK
  BY <1>1, <1>2, <1>3 DEF TypeOK
<1> QED
  BY <1>4, EachForItself, SntpInvariance, SensorInvariance, SawtoothInvariance, PTL

\* No callback of sntp_request() is due when shell_sntp_sync() has returned and
\* its semaphore has gone with the stack frame.
THEOREM NoCallbackAfterReturn == Spec => []NoLateCallback
<1>1. SntpIInv => NoLateCallback
  BY DEF SntpIInv
<1> QED  BY <1>1, SntpInvariance, PTL

\* What is proved of the sensor and of the supply chain example alone holds on
\* the device: fresh samples; what an undisturbed command sends; what the demo
\* thread signs; when the mutex is lost or unlocked astray; the demo implements
\* its start-and-stop service.
THEOREM ServicesOnDevice ==
  Spec => /\ []PairsFresh
          /\ []UndisturbedSent
          /\ []DemoSignsItsOwn
          /\ LostOnlyIfOvertaken
          /\ DemoImplementsService
BY EachForItself, Fresh, OwnTransactionSent, OwnPayloadSigned, LostOvertaken,
   DemoServiceImplemented, PTL
=============================================================================
