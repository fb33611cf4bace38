SPECIFICATION SchedSpec
CONSTANTS
  shell = shell
  upload = upload
  third = third
  n1 = n1
  n2 = n2
  n3 = n3
  Threads = {shell, upload}
  Nfos = {n1}
  NfoOf <- SharedNfo
  Payloads = {p1, p2}
  Prio <- ThreadPrio
  Leaky = {}
  MaxDepth = 0
  NoThread = NoThread
  NoPayload = NoPayload
INVARIANTS
  ConnectionKept
