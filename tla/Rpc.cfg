SPECIFICATION FairSpec
CONSTANTS
  shell = shell
  upload = upload
  Threads = {shell, upload}
  Prio <- ThreadPrio
  NoThread = NoThread
  NoPayload = NoPayload
  MethodsOf <- MethodsOfThread
  ShellMethods = {"estimateGas", "getTransactionCount", "getTransactionReceipt"}
  MaxDepth = 2
INVARIANTS
  ClientReturned
  UndisturbedMatches
PROPERTIES
  SuccessAnswered
  CallReturns
