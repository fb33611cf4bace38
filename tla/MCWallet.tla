------------------------------- MODULE MCWallet -------------------------------
(* Small instances of Wallet. *)
EXTENDS Wallet

CONSTANTS shell, upload, ShellJobs

ThreadPrio == [t \in Threads |-> IF t = upload THEN 5 ELSE 14]

JobsOfThread == [t \in Threads |-> IF t = upload THEN {"upload"} ELSE ShellJobs]
=============================================================================
