------------------------------ MODULE Sawtooth ------------------------------
(***************************************************************************)
(* The supply chain example (examples/sawtooth-fish-supply): the "st"       *)
(* commands (sawtooth_shell.c), which encode a payload into the static      *)
(* _buf, sign a transaction (payload/payload.c, sawtooth/st_transaction.c), *)
(* encode it behind the payload and send it through the shared HTTP client; *)
(* and the demo (demo_shell.c), a thread of priority 5 that runs the same   *)
(* commands, started and stopped from the shell.                            *)
(*                                                                         *)
(* The demo thread blocks in its first millisecond, on the network, on the  *)
(* mutex and for its interval; only then does the shell run.                *)
(***************************************************************************)
EXTENDS Integers, FiniteSets

CONSTANTS NoThread, NoPayload,
          Lost,   \* owner of a mutex whose count has wrapped: it stays locked
          Junk    \* bytes of which nothing is known

Threads == {"shell", "demo"}
nfo == "http_client_nfo"

VARIABLES
  owner, lock_count, wait_q, http_ctx, result, payload, content, priv, sent,
  asked, pc,    \* of HttpService; payload[nfo] is what nfo.payload points to
  command,      \* where a thread is in an "st" command
  rec,          \* the thread that wrote _rec last
  buf,          \* the payload at the start of _buf
  tx,           \* the payload whose hash a thread has signed
  disturbed,    \* history: the other thread wrote _buf during the command
  overtaken,    \* history: the other thread's call succeeded after a thread's
                \* call had failed and before its http_nfo_free()
  stray,        \* history: http_nfo_free() unlocked what another thread held, or NULL
  thread_sem, exit_sem,   \* upload_thread_sem, upload_thread_exit_sem
  interval,     \* whether _upload_interval is zero
  shell, demo   \* where the two threads are outside of "st" commands

httpVars == <<owner, lock_count, wait_q, http_ctx, result, payload, content,
              priv, sent, asked, pc>>
commandVars == <<command, rec, buf, tx, disturbed, overtaken, stray>>
demoVars == <<thread_sem, exit_sem, interval, shell, demo>>
sawtoothVars == <<httpVars, commandVars, demoVars>>

\* A payload is the thread that made it and whose record it has, a transaction
\* the payload whose hash is in the signed header and the payload it carries.
Bodies == [by : Threads, rec : Threads \cup {"none"}] \cup {Junk}
Transactions == [signed : Bodies, body : Bodies] \cup {Junk}

\* What sign_and_encode() makes of a payload that stays as it is
Whole(p) == [signed |-> p, body |-> p]

ASSUME SawtoothAssumption == NoThread \notin Threads /\ Lost \notin Threads \cup {NoThread}

H == INSTANCE HttpService WITH
       Nfos <- {nfo}, NfoOf <- [t \in Threads |-> nfo], Payloads <- Transactions,
       Prio <- [t \in Threads |-> IF t = "demo" THEN 5 ELSE 14],
       Leaky <- {}, MaxDepth <- 0

CommandTypeOK ==
  /\ owner \in Threads \cup {NoThread, Lost} /\ lock_count \in Nat
  /\ wait_q \subseteq Threads /\ http_ctx \in Threads \cup {NoThread}
  /\ payload \in [{nfo} -> Transactions]
  /\ content \in [{nfo} -> BOOLEAN] /\ priv \in [{nfo} -> BOOLEAN]
  /\ result \in Transactions \cup {NoPayload}
  /\ sent \in [Threads -> Transactions \cup {NoPayload}]
  /\ asked \in [Threads -> Transactions \cup {NoPayload}]
  /\ pc \in [Threads -> H!Labels]
  /\ command \in [Threads -> {"none", "sign", "list", "point", "http", "free", "unlock", "dead"}]
  /\ rec \in Threads /\ buf \in Bodies /\ tx \in [Threads -> Bodies]
  /\ disturbed \in [Threads -> BOOLEAN] /\ overtaken \in [Threads -> BOOLEAN]
  /\ stray \in BOOLEAN

DemoTypeOK ==
  /\ thread_sem \in {0, 1} /\ exit_sem \in {0, 1} /\ interval \in {"zero", "some"}
  /\ shell \in {"idle", "start_take", "stop_take", "stop_wait", "stop_reset"}
  /\ demo \in {"none", "spawned", "agent", "record", "create", "update", "wait",
               "asleep", "signal", "leave", "dying"}

SawtoothTypeOK == CommandTypeOK /\ DemoTypeOK

SawtoothInit ==
  /\ owner = NoThread /\ lock_count = 0 /\ wait_q = {} /\ http_ctx = NoThread
  /\ result = NoPayload /\ payload = [n \in {nfo} |-> Junk]
  /\ content = [n \in {nfo} |-> FALSE] /\ priv = [n \in {nfo} |-> FALSE]
  /\ sent = [t \in Threads |-> NoPayload] /\ asked = [t \in Threads |-> NoPayload]
  /\ pc = [t \in Threads |-> "idle"]
  /\ command = [t \in Threads |-> "none"]
  /\ rec = "shell" /\ buf = Junk /\ tx = [t \in Threads |-> Junk]
  /\ disturbed = [t \in Threads |-> FALSE] /\ overtaken = [t \in Threads |-> FALSE]
  /\ stray = FALSE
  /\ thread_sem = 1 /\ exit_sem = 0 /\ interval = "some"
  /\ shell = "idle" /\ demo = "none"

-----------------------------------------------------------------------------
(* An "st" command of thread t. *)

At(t, place) == command[t] = place
Go(t, place) == command' = [command EXCEPT ![t] = place]

\* The command is over, and what it kept on its stack is gone: it returns, or
\* its thread is aborted for good.
Over(t, place) ==
  /\ Go(t, place)
  /\ tx' = [tx EXCEPT ![t] = Junk]
  /\ disturbed' = [disturbed EXCEPT ![t] = FALSE]
  /\ H!Leave(t)

\* The commands of the other thread that are under way when t writes _buf
Disturb(t) == [u \in Threads |-> disturbed[u] \/ (u # t /\ ~At(u, "none"))]

\* Where another thread may have written bytes of another length
Known(t, bytes) == IF disturbed[t] THEN Junk ELSE bytes

\* Faulty: a payload that is still in _buf is not encoded again
EncodePayloadOnce(t, whose) ==
  LET p == [by |-> t, rec |-> whose]
  IN  /\ At(t, "none") /\ Go(t, "sign")
      /\ buf' = IF buf = Junk THEN p ELSE buf
      /\ payload' = [payload EXCEPT ![nfo] = Junk]
      /\ asked' = [asked EXCEPT ![t] = Whole(p)]
      /\ disturbed' = Disturb(t)
      /\ UNCHANGED <<owner, lock_count, wait_q, http_ctx, result, content, priv,
                     sent, pc, rec, tx, overtaken, stray>>

\* encode_create_agent(), encode_createRecord() or encode_updateProperties():
\* the payload goes to the start of _buf, over what another thread has there.
EncodePayload(t, whose) ==
  LET p == [by |-> t, rec |-> whose]
  IN  /\ At(t, "none") /\ Go(t, "sign")
      /\ buf' = p
      /\ payload' = [payload EXCEPT ![nfo] = Junk]
      /\ asked' = [asked EXCEPT ![t] = Whole(p)]
      /\ disturbed' = Disturb(t)
      /\ UNCHANGED <<owner, lock_count, wait_q, http_ctx, result, content, priv,
                     sent, pc, rec, tx, overtaken, stray>>

\* st_sign_tx(): hashes the payload in _buf and signs the header that has the
\* hash, which it encodes behind the payload.
SignTx(t) ==
  /\ At(t, "sign") /\ Go(t, "list")
  /\ buf' = Known(t, buf)
  /\ tx' = [tx EXCEPT ![t] = buf']
  /\ payload' = [payload EXCEPT ![nfo] = Junk]
  /\ disturbed' = Disturb(t)
  /\ UNCHANGED <<owner, lock_count, wait_q, http_ctx, result, content, priv,
                 sent, asked, pc, rec, overtaken, stray>>

\* Faulty: the header is signed, another payload is sent
EncodeListLate(t) ==
  /\ At(t, "list") /\ Go(t, "point")
  /\ buf' = Junk
  /\ payload' = [payload EXCEPT ![nfo] = [signed |-> tx[t], body |-> buf']]
  /\ disturbed' = Disturb(t)
  /\ UNCHANGED <<owner, lock_count, wait_q, http_ctx, result, content, priv,
                 sent, asked, pc, rec, tx, overtaken, stray>>

\* st_encode_tx_list(): the header again, its signature and the payload in _buf
EncodeList(t) ==
  /\ At(t, "list") /\ Go(t, "point")
  /\ buf' = Known(t, buf)
  /\ payload' = [payload EXCEPT ![nfo] = [signed |-> tx[t], body |-> buf']]
  /\ disturbed' = Disturb(t)
  /\ UNCHANGED <<owner, lock_count, wait_q, http_ctx, result, content, priv,
                 sent, asked, pc, rec, tx, overtaken, stray>>

\* http_client_nfo.payload and payload_size; http_send_data() is called.
Point(t) ==
  /\ At(t, "point") /\ Go(t, "http")
  /\ payload' = [payload EXCEPT ![nfo] = Known(t, @)]
  /\ H!Goto(t, "ready")
  /\ disturbed' = Disturb(t)
  /\ UNCHANGED <<owner, lock_count, wait_q, http_ctx, result, content, priv,
                 sent, asked, rec, buf, tx, overtaken, stray>>

\* k_mutex_unlock(), its assertions compiled out: it unlocks for whoever holds the
\* mutex; when nobody does, the count wraps.
MutexUnlock ==
  \/ H!MutexUnlock
  \/ /\ lock_count = 0
     /\ owner' = Lost
     /\ UNCHANGED <<lock_count, wait_q>>

\* k_mutex_lock() has returned; the mutex may have been unlocked again since.
InitClient(t) ==
  /\ pc[t] = "lock" /\ t \notin wait_q
  /\ priv' = [priv EXCEPT ![nfo] = FALSE]
  /\ \/ http_ctx' = t /\ H!Goto(t, "connect")
     \/ http_ctx' = NoThread /\ H!Goto(t, "unlock")
  /\ UNCHANGED <<owner, lock_count, wait_q, result, payload, content, sent, asked>>

UnlockOnError(t) ==
  /\ pc[t] = "unlock"
  /\ MutexUnlock
  /\ H!Goto(t, "release")
  /\ UNCHANGED <<http_ctx, result, payload, content, priv, sent, asked>>

\* http_send_data() runs ...
HttpStep(t) ==
  /\ At(t, "http")
  /\ H!Lock(t) \/ InitClient(t) \/ H!SendReq(t) \/ H!Receive(t) \/ UnlockOnError(t)
  /\ UNCHANGED commandVars

\* ... and fails: an error is printed, and http_nfo_free() comes all the same.
HttpFailed(t) ==
  /\ At(t, "http") /\ Go(t, "free")
  /\ H!ReleaseAfterError(t)
  /\ UNCHANGED <<rec, buf, tx, disturbed, overtaken, stray>>

\* The call of t has failed, and its http_nfo_free() is to come or to unlock.
Failing(t) == pc[t] = "release" \/ At(t, "free") \/ (At(t, "unlock") /\ pc[t] = "idle")

\* http_nfo_free() is called, after a status and after a failure.
Freeing(t) == At(t, "free") \/ (At(t, "http") /\ pc[t] = "reply")

\* Faulty: http_nfo_free() unlocks the mutex whatever _priv is
FreeUntested(t) ==
  /\ Freeing(t) /\ Go(t, "unlock")
  /\ content' = [content EXCEPT ![nfo] = FALSE]
  /\ UNCHANGED <<owner, lock_count, wait_q, http_ctx, result, payload, priv, sent,
                 asked, pc, rec, buf, tx, disturbed, overtaken, stray>>

\* It tests _priv, which is NULL since a failed call unless another call has set it.
FreeTest(t) ==
  /\ Freeing(t)
  /\ \/ /\ priv[nfo]
        /\ Go(t, "unlock")
        /\ content' = [content EXCEPT ![nfo] = FALSE]
        /\ UNCHANGED <<sent, asked, pc, tx, disturbed, overtaken>>
     \/ /\ ~priv[nfo]
        /\ Over(t, "none")
        /\ overtaken' = [overtaken EXCEPT ![t] = FALSE]
        /\ UNCHANGED content
  /\ UNCHANGED <<owner, lock_count, wait_q, http_ctx, result, payload, priv, rec, buf,
                 stray>>

\* It unlocks what _priv points to: the pointer it has tested, or the one it reads
\* again.  By then another thread may hold the mutex, or have made the pointer
\* NULL, which faults or writes somewhere else.
FreeUnlock(t) ==
  /\ At(t, "unlock")
  /\ \/ /\ MutexUnlock
        /\ stray' = (stray \/ owner \in Threads \ {t})
        /\ Over(t, "none")
     \/ /\ ~priv[nfo]
        /\ stray' = TRUE
        /\ Over(t, "none") \/ Over(t, "dead")
        /\ UNCHANGED <<owner, lock_count, wait_q>>
  /\ overtaken' = IF pc[t] = "reply"
                    THEN [u \in Threads |-> overtaken[u] \/ (u # t /\ Failing(u))]
                    ELSE [overtaken EXCEPT ![t] = FALSE]
  /\ UNCHANGED <<http_ctx, result, payload, content, priv, rec, buf>>

Command(t) ==
  /\ \/ SignTx(t) \/ EncodeList(t) \/ Point(t) \/ HttpStep(t) \/ HttpFailed(t)
     \/ FreeTest(t) \/ FreeUnlock(t)
  /\ UNCHANGED demoVars

-----------------------------------------------------------------------------
(* The demo thread. *)

Given(sem) == IF sem < 1 THEN sem + 1 ELSE sem
DemoIdle(place) == demo = place /\ At("demo", "none")

\* k_sem_take(&upload_thread_sem, K_MSEC(1)), its outcome ignored
DemoEnter ==
  /\ demo = "spawned" /\ demo' = "agent"
  /\ thread_sem' = 0
  /\ UNCHANGED <<httpVars, commandVars, exit_sem, interval, shell>>

\* "st create_agent"
DemoAgent ==
  /\ DemoIdle("agent") /\ demo' = "record"
  /\ EncodePayload("demo", "none")
  /\ UNCHANGED <<thread_sem, exit_sem, interval, shell>>

\* "st record id", "st record species"
DemoRecord ==
  /\ DemoIdle("record") /\ demo' = "create"
  /\ rec' = "demo"
  /\ UNCHANGED <<httpVars, command, buf, tx, disturbed, overtaken, stray, thread_sem,
                 exit_sem, interval, shell>>

\* "st create_record", and "st update_record" at the head of the loop
DemoSend ==
  /\ \/ DemoIdle("create") /\ demo' = "update"
     \/ DemoIdle("update") /\ demo' = "wait"
  /\ EncodePayload("demo", rec)
  /\ UNCHANGED <<thread_sem, exit_sem, interval, shell>>

\* k_sem_take(&upload_thread_exit_sem, _upload_interval * 1000) takes the signal,
\* or sleeps for the interval of this moment ...
DemoWait ==
  /\ DemoIdle("wait")
  /\ demo' = IF exit_sem = 1 THEN "signal"
             ELSE IF interval = "zero" THEN "update" ELSE "asleep"
  /\ exit_sem' = 0
  /\ UNCHANGED <<httpVars, commandVars, thread_sem, interval, shell>>

\* ... until the signal comes or the time has passed.
DemoWake ==
  /\ DemoIdle("asleep")
  /\ demo' = IF exit_sem = 1 THEN "signal" ELSE "update"
  /\ exit_sem' = 0
  /\ UNCHANGED <<httpVars, commandVars, thread_sem, interval, shell>>

\* Faulty: the exit signal is not given back
DemoSignalKeeps ==
  /\ demo = "signal" /\ demo' = "leave"
  /\ UNCHANGED <<httpVars, commandVars, thread_sem, exit_sem, interval, shell>>

DemoSignal ==
  /\ demo = "signal" /\ demo' = "leave"
  /\ exit_sem' = Given(exit_sem)
  /\ UNCHANGED <<httpVars, commandVars, thread_sem, interval, shell>>

DemoLeave ==
  /\ demo = "leave" /\ demo' = "dying"
  /\ thread_sem' = Given(thread_sem)
  /\ UNCHANGED <<httpVars, commandVars, exit_sem, interval, shell>>

DemoEnd ==
  /\ demo = "dying" /\ demo' = "none"
  /\ UNCHANGED <<httpVars, commandVars, thread_sem, exit_sem, interval, shell>>

Demo ==
  \/ DemoEnter \/ DemoAgent \/ DemoRecord \/ DemoSend \/ DemoWait \/ DemoWake
  \/ DemoSignal \/ DemoLeave \/ DemoEnd
  \/ Command("demo")

-----------------------------------------------------------------------------
(* The shell thread, which runs while the demo thread is blocked or gone.   *)

CommandRunnable(t) ==
  command[t] \in {"sign", "list", "point", "free", "unlock"} \/ H!Runnable(t)

DemoBlocked ==
  IF At("demo", "none")
    THEN demo \in {"none", "spawned"} \/ (demo = "asleep" /\ exit_sem = 0)
    ELSE ~CommandRunnable("demo")

ShellAt(place) == shell = place /\ At("shell", "none") /\ DemoBlocked
ShellGo(place) == shell' = place /\ UNCHANGED <<httpVars, commandVars, demo>>

\* "st create_agent", "st create_record", "st update_record"
ShellSend ==
  /\ ShellAt("idle")
  /\ \E whose \in {"none", rec} : EncodePayload("shell", whose)
  /\ UNCHANGED demoVars

\* "st record ..."
ShellRecord ==
  /\ ShellAt("idle")
  /\ rec' = "shell"
  /\ UNCHANGED <<httpVars, command, buf, tx, disturbed, overtaken, stray, demoVars>>

\* sc_demo start: the interval is stored first, and then errno may refuse it.
DemoStart ==
  /\ ShellAt("idle")
  /\ interval' \in {"zero", "some"}
  /\ \E place \in {"start_take", "idle"} : ShellGo(place)
  /\ UNCHANGED <<thread_sem, exit_sem>>

\* The semaphore is taken and the thread created, or 5 ms pass.
DemoCreate ==
  /\ ShellAt("start_take") /\ shell' = "idle"
  /\ IF thread_sem = 1 THEN thread_sem' = 0 /\ demo' = "spawned"
                       ELSE UNCHANGED <<thread_sem, demo>>
  /\ UNCHANGED <<httpVars, commandVars, exit_sem, interval>>

DemoStop == ShellAt("idle") /\ ShellGo("stop_take") /\ UNCHANGED <<thread_sem, exit_sem, interval>>

\* Taken and given back: not running.  Or 5 ms pass, and the thread is told.
StopSignal ==
  /\ ShellAt("stop_take")
  /\ IF thread_sem = 1 THEN ShellGo("idle") /\ exit_sem' = exit_sem
                       ELSE ShellGo("stop_wait") /\ exit_sem' = Given(exit_sem)
  /\ UNCHANGED <<thread_sem, interval>>

\* Faulty: does not wait for the thread
StopJoinEarly ==
  /\ ShellAt("stop_wait")
  /\ ShellGo("stop_reset")
  /\ UNCHANGED <<thread_sem, exit_sem, interval>>

\* Takes the semaphore the thread gave, and gives it.
StopJoin ==
  /\ ShellAt("stop_wait") /\ thread_sem = 1
  /\ ShellGo("stop_reset")
  /\ UNCHANGED <<thread_sem, exit_sem, interval>>

StopReset ==
  /\ ShellAt("stop_reset") /\ exit_sem = 1
  /\ exit_sem' = 0
  /\ ShellGo("idle")
  /\ UNCHANGED <<thread_sem, interval>>

ShellWork ==
  \/ DemoCreate \/ StopSignal \/ StopJoin \/ StopReset
  \/ DemoBlocked /\ Command("shell")

SawtoothNext ==
  \/ Demo \/ ShellWork \/ ShellSend \/ ShellRecord \/ DemoStart \/ DemoStop

SawtoothSpec == SawtoothInit /\ [][SawtoothNext]_sawtoothVars

-----------------------------------------------------------------------------
(* Properties. *)

\* What a command puts on the wire is its own transaction, with a signed hash
\* that is that of the payload, unless the other thread ran a command in between;
\* and the reply it gets answers it, unless http_nfo_free() has unlocked the mutex
\* of a thread inside the client.
UndisturbedSent ==
  \A t \in Threads :
    /\ pc[t] \in {"wait", "reply"} /\ ~disturbed[t] => sent[t] = asked[t]
    /\ pc[t] = "reply" /\ ~stray => result = sent[t]

\* The demo thread, of the higher priority, signs nothing but the payload it
\* has just encoded, whatever the shell has in _buf.
DemoSignsItsOwn ==
  command["demo"] \in {"list", "point", "http"} => tx["demo"] = asked["demo"].signed

\* http_nfo_free() after a failed call is harmless -- the mutex is held from lock
\* to free, and only its holder unlocks it -- unless a whole call of the demo thread
\* fell between the failure and it, never the other way round.  Then the mutex may
\* be free, and its count wraps; or the demo thread comes between the test of _priv
\* and its use, and is in its next call: then its mutex is unlocked, or NULL is.
LostOnlyIfOvertaken ==
  /\ [](~overtaken["demo"] /\ (~stray => H!CriticalHoldsMutex))
  /\ [][(owner # Lost /\ owner' = Lost) \/ (~stray /\ stray')
          => overtaken["shell"] \/ stray]_sawtoothVars

Promise == INSTANCE StopService WITH
  running <- demo # "none", stopping <- shell \in {"stop_wait", "stop_reset"}

\* sc_demo starts one thread at a time, which ends only when it is told to, and
\* sc_demo stop returns when it has ended.
DemoImplementsService == Promise!Spec

\* sc_demo stop and every command of the demo thread return unless the client
\* is lost -- then the demo thread waits for the mutex forever, and the shell
\* for the demo thread.
DemoReturns ==
  /\ shell = "stop_wait" ~> (shell = "idle" \/ owner = Lost)
  /\ At("demo", "sign") ~> (At("demo", "none") \/ owner = Lost)

-----------------------------------------------------------------------------
(* The inductive invariant behind them. *)

\* A command is inside the HTTP client while it is at "http", and until a reply is
\* freed.
PlacesAgree ==
  \A t \in Threads :
    /\ At(t, "http") => pc[t] # "idle"
    /\ pc[t] # "idle" => At(t, "http") \/ At(t, "unlock")
    /\ At(t, "unlock") => pc[t] \in {"idle", "reply"}
    /\ At(t, "none") => ~disturbed[t]

\* A thread that waits for the mutex is in k_mutex_lock().
WaitersWait == \A t \in wait_q : pc[t] = "lock" /\ owner # t

\* The mutex is held once, by the thread inside the client; when it is lost,
\* nobody is.
MutexAgrees ==
  /\ H!CriticalHoldsMutex
  /\ IF owner \in Threads
       THEN lock_count = 1 /\ pc[owner] \in H!Critical \cup {"lock"}
       ELSE lock_count = 0
  /\ owner = NoThread => wait_q = {}

\* _priv is set by a reply and reset by the next call: at the free after a failed
\* call it is set only if the demo's call came in between.
PrivTells ==
  /\ \A t \in Threads :
       /\ pc[t] \in {"connect", "wait", "unlock"} => ~priv[nfo]
       /\ pc[t] = "reply" => priv[nfo] /\ result = sent[t]
  /\ Failing("demo") => ~priv[nfo] /\ ~At("demo", "unlock")
  /\ Failing("shell") /\ priv[nfo] => overtaken["shell"] \/ pc["demo"] = "reply"
  /\ Failing("shell") /\ At("shell", "unlock") => overtaken["shell"]

\* The payload of an undisturbed command, from _buf to the wire
PayloadIntact ==
  \A t \in Threads :
    ~disturbed[t] =>
      /\ command[t] \in {"sign", "list", "point", "http"} =>
           \E p \in Bodies : asked[t] = Whole(p)
      /\ command[t] \in {"sign", "list"} => buf = asked[t].signed
      /\ At(t, "list") => tx[t] = asked[t].signed
      /\ At(t, "point") \/ pc[t] \in {"ready", "lock", "connect"} => payload[nfo] = asked[t]
      /\ pc[t] \in {"wait", "reply"} => sent[t] = asked[t]

\* The shell runs only while the demo thread is blocked.
DemoAlone == command["demo"] \in {"sign", "list", "point"} => ~disturbed["demo"]

CommandIInv ==
  /\ CommandTypeOK
  /\ PlacesAgree
  /\ WaitersWait
  /\ ~stray => MutexAgrees /\ PrivTells
  /\ ~overtaken["demo"]
  /\ PayloadIntact
  /\ DemoAlone
  /\ DemoSignsItsOwn

\* The semaphores tell whether the demo thread runs and is to end; it runs
\* commands between its first and its last.
DemoAgrees ==
  /\ thread_sem = 1 <=> demo \in {"none", "dying"}
  /\ exit_sem = 1 \/ demo \in {"signal", "leave", "dying"} =>
       shell \in {"stop_wait", "stop_reset"}
  /\ shell = "stop_reset" => demo = "none"
  /\ demo \in {"none", "spawned", "signal", "leave", "dying"} => At("demo", "none")

SawtoothIInv == CommandIInv /\ DemoTypeOK /\ DemoAgrees
=============================================================================
