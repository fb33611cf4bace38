------------------------------ MODULE MCWeb3Rpc ------------------------------
(* Small instances of Web3Rpc: the upload thread only sends transactions,   *)
(* the shell calls the methods a configuration gives it.                     *)
EXTENDS Web3Rpc

CONSTANTS shell, upload, ShellMethods

\* K_LOWEST_APPLICATION_THREAD_PRIO of the shell, 5 of the upload thread
ThreadPrio == [t \in Threads |-> IF t = upload THEN 5 ELSE 14]

MethodsOfThread ==
  [t \in Threads |-> IF t = upload THEN {"sendRawTransaction"} ELSE ShellMethods]
=============================================================================
