SPECIFICATION FairSpec
CONSTANTS
  shell = shell
  upload = upload
  third = third
  n1 = n1
  n2 = n2
  n3 = n3
  Threads = {shell, upload}
  Nfos = {n1, n2}
  NfoOf <- PrivateNfo
  Payloads = {p1, p2}
  Prio <- ThreadPrio
  Leaky = {}
  MaxDepth = 0
  NoThread = NoThread
  NoPayload = NoPayload
INVARIANTS
  ReplyAnswersRequest
PROPERTIES
  ImplementsClient
  CallReturns
