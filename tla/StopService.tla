----------------------------- MODULE StopService -----------------------------
(***************************************************************************)
(* What the two services of the firmware promise that run in a thread of    *)
(* their own: "start" makes the thread, at most one at a time, the thread   *)
(* ends only when it is asked to, and "stop" comes back when it is gone.    *)
(***************************************************************************)
VARIABLES running,   \* the thread exists
          stopping   \* "stop" waits for its end

Init == running = FALSE /\ stopping = FALSE

Start == ~running /\ ~stopping /\ running' = TRUE /\ stopping' = FALSE

Ask == running /\ ~stopping /\ stopping' = TRUE /\ running' = TRUE

End == running /\ stopping /\ running' = FALSE /\ stopping' = TRUE

Return == ~running /\ stopping /\ stopping' = FALSE /\ running' = FALSE

Next == Start \/ Ask \/ End \/ Return

Spec == Init /\ [][Next]_<<running, stopping>>
=============================================================================
