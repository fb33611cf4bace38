-------------------------------- MODULE Sntp --------------------------------
(***************************************************************************)
(* "sntp sync" (zephyr-wallet/sntp_shell.c): the shell sends a request and  *)
(* waits, without a timeout, on a semaphore on its own stack for the        *)
(* callback, which the network thread makes.                                *)
(***************************************************************************)
EXTENDS Integers

VARIABLES
  sync,       \* where shell_sntp_sync() is; its semaphore exists unless "idle"
  sync_sem,   \* the semaphore
  answer      \* "none": no request is out; "due": a reply may come;
              \* "lost": none will
sntpVars == <<sync, sync_sem, answer>>

SntpTypeOK ==
  /\ sync \in {"idle", "request", "wait", "close"}
  /\ sync_sem \in {0, 1}
  /\ answer \in {"none", "due", "lost"}

SntpInit == sync = "idle" /\ sync_sem = 0 /\ answer = "none"

-----------------------------------------------------------------------------
\* k_sem_init(&sync_sem, 0, 1); sntp_init()
Open ==
  /\ sync = "idle"
  /\ sync' \in {"request", "close"}
  /\ sync_sem' = 0
  /\ UNCHANGED answer

\* sntp_request(&ctx, K_FOREVER, resp_callback, &sync_sem)
SendRequest ==
  /\ sync = "request"
  /\ \/ sync' = "wait" /\ answer' = "due"
     \/ sync' = "close" /\ UNCHANGED answer
  /\ UNCHANGED sync_sem

\* k_sem_take(&sync_sem, K_FOREVER)
TakeAnswer ==
  /\ sync = "wait" /\ sync_sem = 1
  /\ sync' = "close" /\ sync_sem' = 0
  /\ UNCHANGED answer

\* Faulty: returns without sntp_close() once it was answered
CloseUnanswered ==
  /\ sync = "close"
  /\ sync' = "idle"
  /\ UNCHANGED <<sync_sem, answer>>

\* end: sntp_close(&ctx), after which no callback comes
Close ==
  /\ sync = "close"
  /\ sync' = "idle" /\ answer' = "none"
  /\ UNCHANGED sync_sem

\* Faulty: the clock is set, the semaphore forgotten
CallbackForgets ==
  /\ answer = "due"
  /\ answer' \in {"due", "none"}
  /\ UNCHANGED <<sync, sync_sem>>

\* Faulty: the semaphore counts without a limit
CallbackCounts ==
  /\ answer = "due"
  /\ sync_sem' = sync_sem + 1
  /\ answer' \in {"due", "none"}
  /\ UNCHANGED sync

\* resp_callback(), of any status; a datagram may come twice.
Callback ==
  /\ answer = "due"
  /\ sync_sem' = 1
  /\ answer' \in {"due", "none"}
  /\ UNCHANGED sync

\* The request or the reply is lost; nothing repeats it.
Lose ==
  /\ answer = "due" /\ answer' = "lost"
  /\ UNCHANGED <<sync, sync_sem>>

SntpShell == SendRequest \/ TakeAnswer \/ Close
SntpNet == Callback \/ Lose
SntpNext == Open \/ SntpShell \/ SntpNet

-----------------------------------------------------------------------------
(* Properties. *)

\* The shell comes back from every sync but one whose reply is lost: the
\* request has no timeout.
SyncReturns == sync = "wait" ~> (sync = "idle" \/ answer = "lost")

\* No callback is due when the semaphore it gives has gone with the stack
\* frame: every path that sends closes the context before it returns.
NoLateCallback == sync = "idle" => answer # "due"
=============================================================================
