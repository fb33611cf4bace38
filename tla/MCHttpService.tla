--------------------------- MODULE MCHttpService ---------------------------
(* Small instances of HttpService. *)
EXTENDS HttpService

CONSTANTS shell, upload, third, n1, n2, n3

\* All threads go through the one http_client_nfo of web3_rpc.c
SharedNfo == [t \in Threads |-> n1]

\* Every thread has a structure of its own
PrivateNfo == [t \in Threads |-> CASE t = shell -> n1 [] t = upload -> n2 [] OTHER -> n3]

\* The shell has Zephyr's lowest application priority, the upload thread 5
ThreadPrio == [t \in Threads |-> CASE t = shell -> 14 [] t = upload -> 5 [] OTHER -> 7]
=============================================================================
