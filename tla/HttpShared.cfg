SPECIFICATION Spec
CONSTANTS
  shell = shell
  upload = upload
  third = third
  n1 = n1
  n2 = n2
  n3 = n3
  Threads = {shell, upload, third}
  Nfos = {n1}
  NfoOf <- SharedNfo
  Payloads = {p1, p2}
  Prio <- ThreadPrio
  Leaky = {shell}
  MaxDepth = 2
  NoThread = NoThread
  NoPayload = NoPayload
INVARIANTS
  IInv
  CriticalHoldsMutex
  NoOrphanLock
  ReplyKept
  ContentSafe
PROPERTIES
  OnlyOwnerWrites
