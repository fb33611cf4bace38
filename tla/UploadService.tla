--------------------------- MODULE UploadService ---------------------------
(***************************************************************************)
(* The service that sends sensor data to an address at an interval         *)
(* (zephyr-wallet/upload.c): the shell commands "upload start" and         *)
(* "upload stop", the thread they create and end, and the two semaphores   *)
(* between them.                                                           *)
(*                                                                         *)
(* The shell thread has the lowest priority of the application and the     *)
(* upload thread priority 5, on one processor: the shell runs only while   *)
(* the upload thread is blocked or gone.                                   *)
(***************************************************************************)
EXTENDS Integers

CONSTANTS
  Addresses,    \* destinations the operator may give
  Garbage,      \* an address nobody gave: zeros, or what half a parse leaves
  Numbers       \* intervals the operator may give that strtoul() can represent

DefaultInterval == 30          \* DEFAULT_UPLOAD_INTERVAL
WordSize == 2^16               \* _upload_interval is a uint16_t

ASSUME UploadAssumption ==
  /\ Garbage \notin Addresses
  /\ Numbers \subseteq Nat

VARIABLES
  thread_sem,       \* upload_thread_sem
  exit_sem,         \* upload_thread_exit_sem
  upload_addr,      \* _upload_addr
  upload_interval,  \* _upload_interval
  errno,            \* errno # 0, in the shell thread
  shell,            \* where the shell thread is
  thread,           \* where the upload thread is
  addr,             \* upload_main()'s own copy of the address
  accepted,         \* history: address of the start that made the thread
  overwritten       \* history: _upload_addr was written before the thread read it

vars == <<thread_sem, exit_sem, upload_addr, upload_interval, errno, shell,
          thread, addr, accepted, overwritten>>

ShellLabels == {"idle",        \* at the prompt
                "start_take",  \* upload_start() in k_sem_take(.., K_MSEC(5))
                "stop_take",   \* upload_stop() in k_sem_take(.., K_MSEC(5))
                "stop_wait",   \* upload_stop() waits for the exit
                "stop_reset"}  \* upload_stop() takes the exit signal back
ThreadLabels == {"none",
                 "spawned",    \* in k_sem_take(&upload_thread_sem, K_MSEC(1))
                 "check",      \* at the loop condition
                 "send",       \* in _send_data_eth()
                 "sleep",      \* in k_sleep(), for some seconds
                 "yield",      \* in k_sleep(0), which only yields
                 "leave",      \* out of the loop
                 "dying"}      \* gave the semaphore, not yet terminated

Destinations == Addresses \cup {Garbage}

TypeOK ==
  /\ thread_sem \in {0, 1}
  /\ exit_sem \in {0, 1}
  /\ upload_addr \in Destinations
  /\ upload_interval \in 0..(WordSize - 1)
  /\ errno \in BOOLEAN
  /\ shell \in ShellLabels
  /\ thread \in ThreadLabels
  /\ addr \in Destinations
  /\ accepted \in Destinations
  /\ overwritten \in BOOLEAN

Init ==
  /\ thread_sem = 1 /\ exit_sem = 0
  /\ upload_addr = Garbage /\ addr = Garbage /\ accepted = Garbage
  /\ upload_interval = DefaultInterval
  /\ errno = FALSE
  /\ shell = "idle"
  /\ thread = "none"
  /\ overwritten = FALSE

\* k_sem_give() on a semaphore with limit 1
Given(sem) == IF sem < 1 THEN sem + 1 ELSE sem

-----------------------------------------------------------------------------
(* The shell thread. *)

ThreadBlocked == thread \in {"none", "spawned", "send", "sleep"}

\* The prompt takes a command: the shell runs.
Prompt ==
  /\ shell = "idle"
  /\ ThreadBlocked

\* upload_start() writes _upload_addr, which a new thread may not have copied yet.
WriteAddr(values) ==
  /\ upload_addr' \in values
  /\ overwritten' = (overwritten \/ thread = "spawned")

\* Any other command of the shell thread may set errno or reset it
\* (_token_convert_args() and json_parse() do, __convert_ulong() does not).
OtherCommand ==
  /\ Prompt
  /\ \E e \in BOOLEAN : errno' = e
  /\ UNCHANGED <<thread_sem, exit_sem, upload_addr, upload_interval, shell,
                 thread, addr, accepted, overwritten>>

\* hextobin() rejects the address: at once, or after it cleared _upload_addr
\* and wrote the digits it could read.
StartBadAddress ==
  /\ Prompt
  /\ WriteAddr({upload_addr, Garbage})
  /\ UNCHANGED <<thread_sem, exit_sem, upload_interval, errno, shell, thread,
                 addr, accepted>>

\* Faulty variant -- here and below, definitions that no action uses, each a
\* plausible bug that a property must notice: the interval is not cut.
StartParseWide(a) ==
  /\ Prompt
  /\ WriteAddr({a})
  /\ \E n \in Numbers : upload_interval' = n
  /\ shell' = "start_take"
  /\ UNCHANGED <<thread_sem, exit_sem, errno, thread, addr, accepted>>

\* The arguments go to the shared variables before anything else is looked
\* at; strtoul() saturates and sets errno, which nothing resets.
StartParse(a) ==
  /\ Prompt
  /\ WriteAddr({a})
  /\ \/ /\ upload_interval' = DefaultInterval
        /\ errno' = errno
        /\ shell' = "start_take"
     \/ /\ \E n \in Numbers : upload_interval' = n % WordSize
        /\ errno' = errno
        /\ shell' = IF errno THEN "idle" ELSE "start_take"
     \/ /\ upload_interval' = WordSize - 1     \* saturated to ULONG_MAX, cut to 16 bits
        /\ errno' = TRUE
        /\ shell' = "idle"
  /\ UNCHANGED <<thread_sem, exit_sem, thread, addr, accepted>>

StartCreateUnchecked == \* faulty: the outcome of k_sem_take() is ignored
  /\ shell = "start_take"
  /\ ThreadBlocked
  /\ thread_sem' = 0
  /\ thread' = "spawned"
  /\ accepted' = upload_addr
  /\ overwritten' = FALSE
  /\ shell' = "idle"
  /\ UNCHANGED <<exit_sem, upload_addr, upload_interval, errno, addr>>

\* The semaphore is free: take it and create the thread.
StartCreate ==
  /\ shell = "start_take"
  /\ ThreadBlocked
  /\ thread_sem = 1
  /\ thread_sem' = 0
  /\ thread' = "spawned"
  /\ accepted' = upload_addr
  /\ overwritten' = FALSE
  /\ shell' = "idle"
  /\ UNCHANGED <<exit_sem, upload_addr, upload_interval, errno, addr>>

\* 5 ms pass: "thread already started"
StartRefuse ==
  /\ shell = "start_take"
  /\ ThreadBlocked
  /\ thread_sem = 0
  /\ shell' = "idle"
  /\ UNCHANGED <<thread_sem, exit_sem, upload_addr, upload_interval, errno,
                 thread, addr, accepted, overwritten>>

Start == (\E a \in Addresses : StartParse(a)) \/ StartBadAddress \/ StartCreate \/ StartRefuse

StopCommand ==
  /\ Prompt
  /\ shell' = "stop_take"
  /\ UNCHANGED <<thread_sem, exit_sem, upload_addr, upload_interval, errno,
                 thread, addr, accepted, overwritten>>

StopNotRunningKeeps ==  \* faulty: the semaphore is not given back
  /\ shell = "stop_take"
  /\ ThreadBlocked
  /\ thread_sem = 1
  /\ thread_sem' = 0
  /\ shell' = "idle"
  /\ UNCHANGED <<exit_sem, upload_addr, upload_interval, errno, thread,
                 addr, accepted, overwritten>>

\* "thread not running": the semaphore is taken and given back.
StopNotRunning ==
  /\ shell = "stop_take"
  /\ ThreadBlocked
  /\ thread_sem = 1
  /\ thread_sem' = Given(thread_sem - 1)
  /\ shell' = "idle"
  /\ UNCHANGED <<exit_sem, upload_addr, upload_interval, errno, thread,
                 addr, accepted, overwritten>>

\* 5 ms pass: signal the thread to exit
StopSignal ==
  /\ shell = "stop_take"
  /\ ThreadBlocked
  /\ thread_sem = 0
  /\ exit_sem' = Given(exit_sem)
  /\ shell' = "stop_wait"
  /\ UNCHANGED <<thread_sem, upload_addr, upload_interval, errno, thread,
                 addr, accepted, overwritten>>

StopJoinEarly ==        \* faulty: does not wait for the exit
  /\ shell = "stop_wait"
  /\ ThreadBlocked
  /\ thread_sem' = Given(thread_sem)
  /\ shell' = "stop_reset"
  /\ UNCHANGED <<exit_sem, upload_addr, upload_interval, errno, thread,
                 addr, accepted, overwritten>>

\* The exit is seen: take the semaphore, and give it again
StopJoin ==
  /\ shell = "stop_wait"
  /\ ThreadBlocked
  /\ thread_sem = 1
  /\ thread_sem' = Given(thread_sem - 1)
  /\ shell' = "stop_reset"
  /\ UNCHANGED <<exit_sem, upload_addr, upload_interval, errno, thread,
                 addr, accepted, overwritten>>

\* k_sem_take(&upload_thread_exit_sem, K_FOREVER)
StopReset ==
  /\ shell = "stop_reset"
  /\ ThreadBlocked
  /\ exit_sem = 1
  /\ exit_sem' = 0
  /\ shell' = "idle"
  /\ UNCHANGED <<thread_sem, upload_addr, upload_interval, errno, thread,
                 addr, accepted, overwritten>>

Stop == StopNotRunning \/ StopSignal \/ StopJoin \/ StopReset

-----------------------------------------------------------------------------
(* The upload thread. *)

\* Take the semaphore within 1 ms, ignore the outcome, copy the address
UploadEnter ==
  /\ thread = "spawned"
  /\ thread_sem' = 0
  /\ addr' = upload_addr
  /\ thread' = "check"
  /\ UNCHANGED <<exit_sem, upload_addr, upload_interval, errno, shell, accepted, overwritten>>

NapInMinutes ==         \* faulty: the interval is divided, not multiplied
  IF upload_interval \div 60 = 0 THEN "yield" ELSE "sleep"

\* k_sleep(_upload_interval * 1000)
Nap == IF upload_interval = 0 THEN "yield" ELSE "sleep"

\* The loop condition; get_sensor_data() may fail, and then nothing is sent.
UploadCheck ==
  /\ thread = "check"
  /\ \/ exit_sem = 0 /\ thread' \in {"send", Nap}
     \/ exit_sem # 0 /\ thread' = "leave"
  /\ UNCHANGED <<thread_sem, exit_sem, upload_addr, upload_interval, errno,
                 shell, addr, accepted, overwritten>>

\* _send_data_eth() returns, sent or not
UploadSent ==
  /\ thread = "send"
  /\ thread' = Nap
  /\ UNCHANGED <<thread_sem, exit_sem, upload_addr, upload_interval, errno,
                 shell, addr, accepted, overwritten>>

UploadWakeReloads ==    \* faulty: the shared address is read in every round
  /\ thread \in {"sleep", "yield"}
  /\ thread' = "check"
  /\ addr' = upload_addr
  /\ UNCHANGED <<thread_sem, exit_sem, upload_addr, upload_interval, errno,
                 shell, accepted, overwritten>>

UploadWake ==
  /\ thread \in {"sleep", "yield"}
  /\ thread' = "check"
  /\ UNCHANGED <<thread_sem, exit_sem, upload_addr, upload_interval, errno,
                 shell, addr, accepted, overwritten>>

UploadLeaveKeeps ==     \* faulty: the semaphore is not released on exit
  /\ thread = "leave"
  /\ thread' = "dying"
  /\ UNCHANGED <<thread_sem, exit_sem, upload_addr, upload_interval, errno,
                 shell, addr, accepted, overwritten>>

\* k_sem_give(&upload_thread_sem)
UploadLeave ==
  /\ thread = "leave"
  /\ thread_sem' = Given(thread_sem)
  /\ thread' = "dying"
  /\ UNCHANGED <<exit_sem, upload_addr, upload_interval, errno, shell,
                 addr, accepted, overwritten>>

\* upload_main() returns and the kernel ends the thread
UploadEnd ==
  /\ thread = "dying"
  /\ thread' = "none"
  /\ UNCHANGED <<thread_sem, exit_sem, upload_addr, upload_interval, errno,
                 shell, addr, accepted, overwritten>>

Upload == UploadEnter \/ UploadCheck \/ UploadSent \/ UploadWake \/ UploadLeave \/ UploadEnd

-----------------------------------------------------------------------------
Next == OtherCommand \/ Start \/ StopCommand \/ Stop \/ Upload

Spec == Init /\ [][Next]_vars

\* The upload thread runs when it is ready, its sleep ends and its network call
\* returns; the shell, of the lowest priority, finishes what it began if the
\* upload thread blocks again and again: strong fairness.
Fairness == WF_vars(Upload) /\ SF_vars(Stop \/ StartCreate \/ StartRefuse)

FairSpec == Spec /\ Fairness

-----------------------------------------------------------------------------
(* Properties. *)

Running == thread \in {"spawned", "check", "send", "sleep", "yield", "leave"}

\* The thread semaphore is taken exactly while a thread runs: a start is
\* refused only if a thread runs, and a stop never waits for nobody.
SemMeansRunning == thread_sem = 0 <=> Running

\* A stop signal is pending only inside the upload_stop() that sent it: no
\* thread is ever ended by the stop that was meant for an earlier one.
NoStaleSignal ==
  /\ exit_sem = 1 <=> shell \in {"stop_wait", "stop_reset"}
  /\ thread = "spawned" => shell # "stop_reset"

\* Two counting semaphores tell the life of the thread, whatever commands come.
SemaphoresTruthful == SemMeansRunning /\ NoStaleSignal

\* k_thread_create() reuses upload_thread_data and upload_stack only after
\* the thread that used them has ended -- the semaphore alone does not say so.
NoOverlap == [][thread # "none" /\ thread # "spawned" => thread' # "spawned"]_vars

\* When upload_stop() returns there is no upload thread and both semaphores
\* are as they were before the first start.
StoppedMeansGone ==
  [][(shell \in {"stop_take", "stop_wait", "stop_reset"} /\ shell' = "idle") =>
       thread' = "none" /\ thread_sem' = 1 /\ exit_sem' = 0]_vars

\* The thread sends to the address of the start that created it, unless a
\* further start came before the thread had copied it.
DestinationAccepted ==
  thread \in {"check", "send", "sleep", "yield"} /\ ~overwritten => addr = accepted

\* The upload thread leaves the processor to the shell again and again.
ShellRuns == []<>ThreadBlocked

\* It does if the interval is not zero in 16 bits.
ShellRunsNonZero == <>[](upload_interval # 0) => ShellRuns

\* "upload stop" returns, if the interval is not zero in 16 bits.
StopReturns ==
  <>[](upload_interval # 0) => (shell = "stop_take" ~> shell = "idle")

Promise == INSTANCE StopService WITH
  running <- thread # "none", stopping <- shell \in {"stop_wait", "stop_reset"}

\* "upload start" makes at most one thread, which ends only when "upload stop"
\* asks it to, and "upload stop" comes back when it is gone.
ImplementsService == Promise!Spec

\* The inductive invariant behind the safety properties above
IInv ==
  /\ TypeOK
  /\ SemMeansRunning
  /\ NoStaleSignal
  /\ shell = "stop_reset" => thread = "none"
  /\ shell # "stop_wait" => thread \notin {"leave", "dying"}
  /\ thread = "spawned" /\ ~overwritten => upload_addr = accepted
  /\ DestinationAccepted
=============================================================================
