SPECIFICATION Spec
CONSTANTS
  shell = shell
  upload = upload
  Threads = {shell, upload}
  Prio <- ThreadPrio
  NoThread = NoThread
  NoPayload = NoPayload
  JobsOf <- JobsOfThread
  ShellJobs = {"transfer", "sync", "nonce"}
  MaxNonce = 2
INVARIANTS
  IInv
  NonceNotAhead
  NonceExact
