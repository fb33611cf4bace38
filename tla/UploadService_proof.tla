------------------------- MODULE UploadService_proof -------------------------
(* Proofs about UploadService for any addresses and intervals. *)
EXTENDS UploadService, TLAPS

USE UploadAssumption

LEMMA InitIInv == Init => IInv
<1> SUFFICES ASSUME Init PROVE IInv
  OBVIOUS
<1>1. TypeOK
  <2>1. errno \in BOOLEAN /\ overwritten \in BOOLEAN
    BY Zenon DEF Init
  <2>2. upload_interval \in 0..(WordSize - 1)
    BY DEF Init, WordSize, DefaultInterval
  <2> QED
    BY <2>1, <2>2 DEF Init, TypeOK, Destinations, ShellLabels, ThreadLabels
<1>2. SemMeansRunning /\ NoStaleSignal /\ DestinationAccepted
  BY DEF Init, SemMeansRunning, Running, NoStaleSignal, DestinationAccepted
<1>3. shell = "idle" /\ thread = "none"
  BY DEF Init
<1> QED  BY <1>1, <1>2, <1>3 DEF IInv

LEMMA CutInterval == \A n \in Nat : n % WordSize \in 0..(WordSize - 1)
  BY DEF WordSize

LEMMA NextIInv == IInv /\ [Next]_vars => IInv'
<1> SUFFICES ASSUME IInv, [Next]_vars PROVE IInv'
  OBVIOUS
<1> USE DEF IInv, TypeOK, ShellLabels, ThreadLabels, SemMeansRunning, Running,
        NoStaleSignal, DestinationAccepted, ThreadBlocked, Prompt, WriteAddr, Given, Destinations
<1>1. CASE OtherCommand
  BY <1>1 DEF OtherCommand
<1>2. ASSUME NEW a \in Addresses, StartParse(a) PROVE IInv'
  <2>1. upload_interval' \in 0..(WordSize - 1)
    BY <1>2, CutInterval DEF StartParse, DefaultInterval, WordSize
  <2>2. upload_addr' \in Destinations /\ errno' \in BOOLEAN /\ shell' \in {"idle", "start_take"}
    BY <1>2 DEF StartParse
  <2>3. shell = "idle" /\ UNCHANGED <<thread_sem, exit_sem, thread, addr, accepted>>
    BY <1>2 DEF StartParse
  <2>4. overwritten' = (overwritten \/ thread = "spawned")
    BY <1>2 DEF StartParse
  <2> QED
    BY <2>1, <2>2, <2>3, <2>4
<1>3. CASE StartBadAddress
  BY <1>3 DEF StartBadAddress
<1>4. CASE StartCreate
  BY <1>4 DEF StartCreate
<1>5. CASE StartRefuse
  BY <1>5 DEF StartRefuse
<1>6. CASE StopCommand
  BY <1>6 DEF StopCommand
<1>7. CASE StopNotRunning
  BY <1>7 DEF StopNotRunning
<1>8. CASE StopSignal
  BY <1>8 DEF StopSignal
<1>9. CASE StopJoin
  BY <1>9 DEF StopJoin
<1>10. CASE StopReset
  BY <1>10 DEF StopReset
<1>11. CASE UploadEnter
  BY <1>11 DEF UploadEnter
<1>12. CASE UploadCheck
  BY <1>12 DEF UploadCheck, Nap
<1>13. CASE UploadSent
  BY <1>13 DEF UploadSent, Nap
<1>14. CASE UploadWake
  BY <1>14 DEF UploadWake
<1>15. CASE UploadLeave
  BY <1>15 DEF UploadLeave
<1>16. CASE UploadEnd
  BY <1>16 DEF UploadEnd
<1>17. CASE UNCHANGED vars
  BY <1>17 DEF vars
<1> QED
  BY <1>1, <1>2, <1>3, <1>4, <1>5, <1>6, <1>7, <1>8, <1>9, <1>10, <1>11,
     <1>12, <1>13, <1>14, <1>15, <1>16, <1>17 DEF Next, Start, Stop, Upload

\* The invariant holds in every reachable state of upload.c.
THEOREM Invariance == Spec => []IInv
  BY InitIInv, NextIInv, PTL DEF Spec

\* The type invariant of upload.c's state.
THEOREM TypeCorrect == Spec => []TypeOK
<1>1. IInv => TypeOK
  BY DEF IInv
<1> QED  BY <1>1, Invariance, PTL

\* upload_thread_sem is taken exactly while an upload thread runs, and
\* upload_thread_exit_sem is pending only inside the upload_stop() that gave it.
THEOREM Truthful == Spec => []SemaphoresTruthful
<1>1. IInv => SemaphoresTruthful
  BY DEF IInv, SemaphoresTruthful
<1> QED  BY <1>1, Invariance, PTL

\* k_thread_create() is never called while an upload thread exists: the
\* priorities close the gap between the semaphore and the thread's end.
THEOREM OneThread == Spec => NoOverlap
<1>1. IInv /\ [Next]_vars =>
        [thread # "none" /\ thread # "spawned" => thread' # "spawned"]_vars
  <2> SUFFICES ASSUME IInv, Next, thread' = "spawned", thread # "spawned"
               PROVE  thread = "none"
    OBVIOUS
  <2>1. StartCreate
    BY DEF Next, Start, Stop, Upload, OtherCommand, StartParse, StartBadAddress,
       StartRefuse, StopCommand, StopNotRunning, StopSignal, StopJoin, StopReset,
       UploadEnter, UploadCheck, UploadSent, Nap, UploadWake, UploadLeave, UploadEnd
  <2> QED
    BY <2>1 DEF StartCreate, ThreadBlocked, IInv, SemMeansRunning, Running
<1> QED  BY <1>1, Invariance, PTL DEF Spec, NoOverlap

\* After upload_stop() the thread is gone and the semaphores are reset.
THEOREM StopMeansStopped == Spec => StoppedMeansGone
<1>1. IInv /\ [Next]_vars =>
        [(shell \in {"stop_take", "stop_wait", "stop_reset"} /\ shell' = "idle") =>
           thread' = "none" /\ thread_sem' = 1 /\ exit_sem' = 0]_vars
  <2> SUFFICES ASSUME IInv, Next, shell \in {"stop_take", "stop_wait", "stop_reset"},
                      shell' = "idle"
               PROVE  thread' = "none" /\ thread_sem' = 1 /\ exit_sem' = 0
    OBVIOUS
  <2> USE DEF IInv, SemMeansRunning, Running, NoStaleSignal, TypeOK, Given, ThreadBlocked
  <2>1. StopNotRunning \/ StopReset
    BY DEF Next, Start, Stop, Upload, OtherCommand, Prompt, StartParse,
       StartBadAddress, StartCreate, StartRefuse, StopCommand, StopSignal, StopJoin,
       UploadEnter, UploadCheck, UploadSent, UploadWake, UploadLeave, UploadEnd
  <2>2. CASE StopNotRunning
    BY <2>2 DEF StopNotRunning
  <2>3. CASE StopReset
    BY <2>3 DEF StopReset
  <2> QED  BY <2>1, <2>2, <2>3
<1> QED  BY <1>1, Invariance, PTL DEF Spec, StoppedMeansGone

\* The thread sends where its start command said, unless a later command
\* overwrote _upload_addr before the thread copied it.
THEOREM DestinationKept == Spec => []DestinationAccepted
<1>1. IInv => DestinationAccepted
  BY DEF IInv
<1> QED  BY <1>1, Invariance, PTL

LEMMA StepImplementsService ==
  ASSUME IInv, [Next]_vars
  PROVE  [Promise!Next]_<<thread # "none", shell \in {"stop_wait", "stop_reset"}>>
<1> USE DEF IInv, SemMeansRunning, Running, ThreadBlocked, Prompt, Promise!Next
<1>1. ASSUME StartCreate PROVE Promise!Start
  BY <1>1 DEF StartCreate, Promise!Start
<1>2. ASSUME StopSignal PROVE Promise!Ask
  BY <1>2 DEF StopSignal, Promise!Ask, TypeOK
<1>3. ASSUME UploadEnd PROVE Promise!End
  BY <1>3 DEF UploadEnd, Promise!End
<1>4. ASSUME StopReset PROVE Promise!Return
  BY <1>4 DEF StopReset, Promise!Return
<1>5. ASSUME OtherCommand \/ StartBadAddress \/ StartRefuse \/ StopCommand \/ StopNotRunning
             \/ StopJoin \/ UNCHANGED vars
      PROVE  UNCHANGED <<thread # "none", shell \in {"stop_wait", "stop_reset"}>>
  BY <1>5 DEF OtherCommand, StartBadAddress, StartRefuse, StopCommand, StopNotRunning,
              StopJoin, vars
<1>6. ASSUME UploadEnter \/ UploadCheck \/ UploadSent \/ UploadWake \/ UploadLeave
      PROVE  UNCHANGED <<thread # "none", shell \in {"stop_wait", "stop_reset"}>>
  BY <1>6 DEF UploadEnter, UploadCheck, UploadSent, Nap, UploadWake, UploadLeave
<1>7. ASSUME NEW a \in Addresses, StartParse(a)
      PROVE  UNCHANGED <<thread # "none", shell \in {"stop_wait", "stop_reset"}>>
  BY <1>7 DEF StartParse
<1> QED
  BY <1>1, <1>2, <1>3, <1>4, <1>5, <1>6, <1>7 DEF Next, Start, Stop, Upload

\* upload.c implements the service that its two commands promise.
THEOREM Implements == Spec => ImplementsService
<1>1. Init => Promise!Init
  BY DEF Init, Promise!Init
<1>2. IInv /\ [Next]_vars =>
        [Promise!Next]_<<thread # "none", shell \in {"stop_wait", "stop_reset"}>>
  BY StepImplementsService
<1> QED
  BY <1>1, <1>2, Invariance, PTL DEF Spec, ImplementsService, Promise!Spec
=============================================================================
